----------------------------- MODULE MCClhMutex -----------------------------
(* Three threads and an arena of four node addresses: one more than the    *)
(* threads, the most nodes the lock can have live, so malloc reuses freed  *)
(* addresses as soon as it can.                                            *)
EXTENDS ClhMutex

CONSTANTS t1, t2, t3, n1, n2, n3, n4

MCThreads == {t1, t2, t3}
MCNodes == {n1, n2, n3, n4}
=============================================================================
