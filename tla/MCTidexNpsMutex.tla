--------------------------- MODULE MCTidexNpsMutex ---------------------------
(* Three threads; globalThreadIndex can count past the three indices they *)
(* draw.                                                                    *)
EXTENDS TidexNpsMutex

CONSTANTS t1, t2, t3

MCThreads == {t1, t2, t3}
=============================================================================
