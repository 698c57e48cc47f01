--------------------------- MODULE AbstractFifoMutex ---------------------------
(***************************************************************************)
(* What every lock of ConcurrencyFreaks/C11/locks promises its callers:   *)
(* a thread that calls lock() joins the back of a queue, only the thread  *)
(* at the front of the queue may enter, and only once nobody holds the    *)
(* lock.  The ticket, tidex, CLH and MPSC locks are shown to implement    *)
(* this specification through a refinement mapping (INSTANCE ... WITH).   *)
(***************************************************************************)
EXTENDS Sequences

CONSTANT Threads

VARIABLES
  state,   \* state[t] \in {"idle", "waiting", "cs"}
  queue    \* the waiting threads, in the order they arrived

vars == <<state, queue>>

Init ==
  /\ state = [t \in Threads |-> "idle"]
  /\ queue = <<>>

\* A thread linearises its arrival and joins the back of the queue.
Arrive(t) ==
  /\ state[t] = "idle"
  /\ state' = [state EXCEPT ![t] = "waiting"]
  /\ queue' = Append(queue, t)

\* The thread at the front enters once the lock is free.
Enter(t) ==
  /\ state[t] = "waiting"
  /\ queue # <<>> /\ Head(queue) = t
  /\ \A u \in Threads : state[u] # "cs"
  /\ state' = [state EXCEPT ![t] = "cs"]
  /\ queue' = Tail(queue)

\* The holder releases the lock.
Leave(t) ==
  /\ state[t] = "cs"
  /\ state' = [state EXCEPT ![t] = "idle"]
  /\ UNCHANGED queue

Next == \E t \in Threads : Arrive(t) \/ Enter(t) \/ Leave(t)

Spec == Init /\ [][Next]_vars
================================================================================
