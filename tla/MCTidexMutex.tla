----------------------------- MODULE MCTidexMutex -----------------------------
(* Three threads with distinct nonzero pthread_self() values.               *)
EXTENDS TidexMutex, TLC

CONSTANTS t1, t2, t3

MCThreads == {t1, t2, t3}
MCTid == (t1 :> 1) @@ (t2 :> 2) @@ (t3 :> 3)
=============================================================================
