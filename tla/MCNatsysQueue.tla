---------------------------- MODULE MCNatsysQueue ----------------------------
(* Two producers and two consumers; each producer pushes one item and     *)
(* each consumer pops one.  The passing run is part of MCStandalone; the   *)
(* cfgs here show two divergences.  MCNatsysQueueMask.cfg uses three       *)
(* slots, a Q_SIZE that is not a power of two as in src/natsys_q.h, and    *)
(* MCNatsysQueueThrId.cfg leaves every thread id at 0.                     *)
EXTENDS NatsysQueue, TLC

CONSTANTS p1, p2, c1, c2, garbage

MCProducers == {p1, p2}
MCConsumers == {c1, c2}
\* Threads numbered as set_thr_id would number them: producers 0..P-1,
\* consumers 0..C-1.
MCThrId == (p1 :> 0) @@ (p2 :> 1) @@ (c1 :> 0) @@ (c2 :> 1)
\* The ids natsys_q.h gives them: set_thr_id is never called and every
\* thread reads the initial __thr_id, 0.
MCThrIdUnset == [t \in MCProducers \cup MCConsumers |-> 0]
=============================================================================
