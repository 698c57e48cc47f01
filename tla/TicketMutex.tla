----------------------------- MODULE TicketMutex -----------------------------
(***************************************************************************)
(* The ticket lock of ConcurrencyFreaks/C11/locks/ticket_mutex.h.          *)
(*                                                                         *)
(* lock():   lingress = fetch_add(ingress, 1); spin while egress # lingress *)
(* unlock(): legress = load(egress) (relaxed); store(egress, legress + 1)   *)
(*                                                                         *)
(* Each thread runs idle -> lock -> critical section -> unlock -> idle.    *)
(* unlock() is two memory operations; the step between them is kept.       *)
(* The counters are machine words: they are kept modulo 2^Width so that    *)
(* the model reaches the wrap-around of ingress and egress.                *)
(***************************************************************************)
EXTENDS Integers, Sequences
LOCAL INSTANCE SequencesExt

CONSTANTS
  Threads,  \* the threads calling lock()/unlock()
  Width     \* bits of the counters ingress/egress

ASSUME Width \in Nat \ {0}

Modulus == 2^Width

VARIABLES
  ingress,  \* next ticket to hand out
  egress,   \* ticket allowed to hold the lock
  pc,       \* pc[t] \in {"idle", "spin", "cs", "unlock_store"}
  ticket,   \* lingress, the ticket of thread t
  legress   \* legress, the value of egress thread t loaded in unlock()

vars == <<ingress, egress, pc, ticket, legress>>

Word == 0 .. Modulus - 1

Holding == {"cs", "unlock_store"}

TypeOK ==
  /\ ingress \in Word /\ egress \in Word
  /\ pc \in [Threads -> {"idle", "spin", "cs", "unlock_store"}]
  /\ ticket \in [Threads -> Word]
  /\ legress \in [Threads -> Word]

\* ticket_mutex_init
Init ==
  /\ ingress = 0 /\ egress = 0
  /\ pc = [t \in Threads |-> "idle"]
  /\ ticket = [t \in Threads |-> 0]
  /\ legress = [t \in Threads |-> 0]

\* A lost update: the increment of ingress done as a plain load and store.
LockLostUpdate(t) ==
  /\ pc[t] = "idle"
  /\ ingress' \in {ingress, (ingress + 1) % Modulus}
  /\ ticket' = [ticket EXCEPT ![t] = ingress]
  /\ pc' = [pc EXCEPT ![t] = "spin"]
  /\ UNCHANGED <<egress, legress>>

\* ticket_mutex_lock, first line: lingress = atomic_fetch_add(&ingress, 1)
Lock(t) ==
  /\ pc[t] = "idle"
  /\ ingress' = (ingress + 1) % Modulus
  /\ ticket' = [ticket EXCEPT ![t] = ingress]
  /\ pc' = [pc EXCEPT ![t] = "spin"]
  /\ UNCHANGED <<egress, legress>>

\* The spin loop of ticket_mutex_lock: leaves once egress = lingress.  A
\* load that sees another value changes nothing and is a stuttering step.
Spin(t) ==
  /\ pc[t] = "spin"
  /\ egress = ticket[t]
  /\ pc' = [pc EXCEPT ![t] = "cs"]
  /\ UNCHANGED <<ingress, egress, ticket, legress>>

\* ticket_mutex_unlock, first line: the relaxed load of egress.
UnlockLoad(t) ==
  /\ pc[t] = "cs"
  /\ legress' = [legress EXCEPT ![t] = egress]
  /\ pc' = [pc EXCEPT ![t] = "unlock_store"]
  /\ UNCHANGED <<ingress, egress, ticket>>

\* An unlock that forgets to advance egress.
UnlockStoreNoAdvance(t) ==
  /\ pc[t] = "unlock_store"
  /\ egress' = legress[t]
  /\ pc' = [pc EXCEPT ![t] = "idle"]
  /\ UNCHANGED <<ingress, ticket, legress>>

\* An unlock whose increment is not reduced to the width of the counter.
UnlockStoreNoWrap(t) ==
  /\ pc[t] = "unlock_store"
  /\ egress' = legress[t] + 1
  /\ pc' = [pc EXCEPT ![t] = "idle"]
  /\ UNCHANGED <<ingress, ticket, legress>>

\* ticket_mutex_unlock, second line: atomic_store(&egress, legress + 1)
UnlockStore(t) ==
  /\ pc[t] = "unlock_store"
  /\ egress' = (legress[t] + 1) % Modulus
  /\ pc' = [pc EXCEPT ![t] = "idle"]
  /\ UNCHANGED <<ingress, ticket, legress>>

Next == \E t \in Threads :
          Lock(t) \/ Spin(t) \/ UnlockLoad(t) \/ UnlockStore(t)

\* The spin loop and unlock() run to completion once the thread is scheduled
\* (sched_yield only gives the processor away); taking a new lock is the
\* caller's choice and is not fair.
Fairness == \A t \in Threads :
              /\ WF_vars(Spin(t))
              /\ WF_vars(UnlockLoad(t))
              /\ WF_vars(UnlockStore(t))

Spec == Init /\ [][Next]_vars /\ Fairness

-----------------------------------------------------------------------------
(***************************************************************************)
(* Properties                                                              *)
(***************************************************************************)

\* Mutual exclusion: of the threads that drew tickets with fetch_add and spin
\* on egress, at most one is between leaving the spin loop and the store of
\* egress in unlock(), across the wrap-around of the counters.
MutualExclusion ==
  \A t, u \in Threads : t # u => ~(pc[t] \in Holding /\ pc[u] \in Holding)

\* Starvation freedom: every thread that drew a ticket eventually leaves the
\* spin loop of ticket_mutex_lock, provided holders run unlock().
StarvationFree ==
  \A t \in Threads : pc[t] = "spin" ~> pc[t] = "cs"

\* Refinement: the ticket lock is a FIFO mutex.  A thread arrives at its
\* fetch_add, holds the lock from the spin exit to the store in unlock(), and
\* the waiters are queued by their distance from egress.
AbsState(t) == IF pc[t] = "idle" THEN "idle"
               ELSE IF pc[t] = "spin" THEN "waiting" ELSE "cs"

Distance(t) == (ticket[t] - egress) % Modulus

AbsQueue == SetToSortSeq({t \in Threads : pc[t] = "spin"},
                         LAMBDA a, b : Distance(a) < Distance(b))

Abstract == INSTANCE AbstractFifoMutex
              WITH state <- [t \in Threads |-> AbsState(t)],
                   queue <- AbsQueue

\* The ticket lock implements the FIFO mutex: threads enter in the order of
\* their fetch_add on ingress, one at a time.
ImplementsFifoMutex == Abstract!Spec
=============================================================================
