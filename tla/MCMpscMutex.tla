----------------------------- MODULE MCMpscMutex -----------------------------
(* Three threads and four node addresses: the most that three threads and  *)
(* the node at head can hold at once, so malloc never fails and every     *)
(* address is freed and reused.                                            *)
EXTENDS MpscMutex

CONSTANTS t1, t2, t3, n1, n2, n3, n4

MCThreads == {t1, t2, t3}
MCNodes == {n1, n2, n3, n4}
=============================================================================
