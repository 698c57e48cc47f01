-------------------------- MODULE MCLockrateHarness --------------------------
(* Two producers and two consumers, the smallest run main() accepts with   *)
(* more than one queue.  With -r each producer alternates between the two  *)
(* queues, so each queue is contended by both producers and its consumer,  *)
(* and both producers can be in the window between g_done++ and the read. *)
EXTENDS LockrateHarness
=============================================================================
