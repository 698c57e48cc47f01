------------------------- MODULE MCMutexValidation -------------------------
(* Two workers in every phase; ticket counters of 1 bit, which wrap while  *)
(* both queue; three addresses for each node-based lock (one node per      *)
(* worker and the one the lock holds); distinct nonzero pthread_self()     *)
(* values; an array of 2 entries kept on 1 bit, so the check compares the  *)
(* second entry with the first.  The phases of mpsc, ticket, CLH and tidex *)
(* run; in the tidex_nps phase main sets g_quit first (TLC would check     *)
(* that phase after every end state of the four before it; the lock is     *)
(* checked on its own in MCTidexNpsMutex).                                 *)
EXTENDS MutexValidation, TLC

CONSTANTS w1, w2, c1, c2, c3, m1, m2, m3

MCPhases == <<"mpsc", "ticket", "clh", "tidex">>
MCThreads == {w1, w2}
MCClhNodes == {c1, c2, c3}
MCMpscNodes == {m1, m2, m3}
MCTid == (w1 :> 1) @@ (w2 :> 2)
=============================================================================
