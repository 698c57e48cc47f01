------------------------------ MODULE TidexMutex ------------------------------
(***************************************************************************)
(* The Tidex lock of ConcurrencyFreaks/C11/locks/tidex_mutex.h: a ticket   *)
(* lock whose tickets are thread ids.  ingress holds the id of the last    *)
(* thread to enter the queue, egress the id of the last thread to leave;   *)
(* a thread waits until egress equals the id of its predecessor.  A thread *)
(* uses the negation of its id when egress already holds its id, so that   *)
(* its successor cannot mistake the old release for the new one.          *)
(*                                                                         *)
(* Tid[t] is (long long)pthread_self() of thread t, a nonzero value;       *)
(* INVALID_TID is 0.  Each shared-memory access is one step.               *)
(***************************************************************************)
EXTENDS Integers, Sequences

CONSTANTS
  Threads,  \* the threads calling lock()/unlock()/trylock()
  Tid       \* Tid[t]: pthread_self() of thread t

INVALID_TID == 0

ASSUME /\ Tid \in [Threads -> Nat \ {0}]
       /\ \A t, u \in Threads : t # u => Tid[t] # Tid[u]

VARIABLES
  ingress,     \* self->ingress
  egress,      \* self->egress
  nextEgress,  \* self->nextEgress, a plain field written by the holder
  pc,          \* pc[t]: where thread t is
  mytid,       \* local mytid
  prevtid,     \* local prevtid of tidex_mutex_lock
  localE,      \* local localE of tidex_mutex_trylock
  localI       \* local localI of tidex_mutex_trylock

vars == <<ingress, egress, nextEgress, pc, mytid, prevtid, localE, localI>>

Ids == {Tid[t] : t \in Threads} \cup {-Tid[t] : t \in Threads} \cup {INVALID_TID}

\* A holder stays one while it runs tidex_mutex_lock() again.
Holding == {"set_next", "cs", "re_xchg", "re_spin"}

TypeOK ==
  /\ ingress \in Ids /\ egress \in Ids /\ nextEgress \in Ids
  /\ pc \in [Threads -> {"idle", "xchg", "spin", "set_next", "cs",
                         "try_load_i", "try_cas", "re_xchg", "re_spin"}]
  /\ mytid \in [Threads -> Ids]
  /\ prevtid \in [Threads -> Ids]
  /\ localE \in [Threads -> Ids]
  /\ localI \in [Threads -> Ids]

\* tidex_mutex_init
Init ==
  /\ ingress = INVALID_TID /\ egress = INVALID_TID /\ nextEgress = INVALID_TID
  /\ pc = [t \in Threads |-> "idle"]
  /\ mytid = [t \in Threads |-> INVALID_TID]
  /\ prevtid = [t \in Threads |-> INVALID_TID]
  /\ localE = [t \in Threads |-> INVALID_TID]
  /\ localI = [t \in Threads |-> INVALID_TID]

\* The id a thread publishes when egress holds e: its own, or its negation
\* when e is its own.
IdFor(t, e) == IF e = Tid[t] THEN -Tid[t] ELSE Tid[t]

\* A lock that always publishes the thread's own id.
LockChooseIdNoNegate(t) ==
  /\ pc[t] = "idle"
  /\ mytid' = [mytid EXCEPT ![t] = Tid[t]]
  /\ pc' = [pc EXCEPT ![t] = "xchg"]
  /\ UNCHANGED <<ingress, egress, nextEgress, prevtid, localE, localI>>

\* tidex_mutex_lock: mytid = pthread_self(), negated if the relaxed load of
\* egress returns it.
LockChooseId(t) ==
  /\ pc[t] = "idle"
  /\ mytid' = [mytid EXCEPT ![t] = IdFor(t, egress)]
  /\ pc' = [pc EXCEPT ![t] = "xchg"]
  /\ UNCHANGED <<ingress, egress, nextEgress, prevtid, localE, localI>>

\* prevtid = atomic_exchange(&ingress, mytid)
LockXchg(t) ==
  /\ pc[t] = "xchg"
  /\ prevtid' = [prevtid EXCEPT ![t] = ingress]
  /\ ingress' = mytid[t]
  /\ pc' = [pc EXCEPT ![t] = "spin"]
  /\ UNCHANGED <<egress, nextEgress, mytid, localE, localI>>

\* The spin-then-yield loop: it ends when a load of egress returns prevtid;
\* loads of other values change nothing.
LockSpin(t) ==
  /\ pc[t] = "spin"
  /\ egress = prevtid[t]
  /\ pc' = [pc EXCEPT ![t] = "set_next"]
  /\ UNCHANGED <<ingress, egress, nextEgress, mytid, prevtid, localE, localI>>

\* A lock that never stores its id into self->nextEgress.
SetNextEgressSkipped(t) ==
  /\ pc[t] = "set_next"
  /\ pc' = [pc EXCEPT ![t] = "cs"]
  /\ UNCHANGED <<ingress, egress, nextEgress, mytid, prevtid, localE, localI>>

\* self->nextEgress = mytid, on both exits of the loop.  trylock() comes
\* here too after a successful compare-and-swap.
SetNextEgress(t) ==
  /\ pc[t] = "set_next"
  /\ nextEgress' = mytid[t]
  /\ pc' = [pc EXCEPT ![t] = "cs"]
  /\ UNCHANGED <<ingress, egress, mytid, prevtid, localE, localI>>

\* An unlock written as the ticket lock's, egress + 1.
UnlockTicketStyle(t) ==
  /\ pc[t] = "cs"
  /\ egress' = egress + 1
  /\ pc' = [pc EXCEPT ![t] = "idle"]
  /\ UNCHANGED <<ingress, nextEgress, mytid, prevtid, localE, localI>>

\* tidex_mutex_unlock: atomic_store(&egress, self->nextEgress)
Unlock(t) ==
  /\ pc[t] = "cs"
  /\ egress' = nextEgress
  /\ pc' = [pc EXCEPT ![t] = "idle"]
  /\ UNCHANGED <<ingress, nextEgress, mytid, prevtid, localE, localI>>

\* tidex_mutex_trylock: localE = atomic_load(&egress)
TryLoadE(t) ==
  /\ pc[t] = "idle"
  /\ localE' = [localE EXCEPT ![t] = egress]
  /\ pc' = [pc EXCEPT ![t] = "try_load_i"]
  /\ UNCHANGED <<ingress, egress, nextEgress, mytid, prevtid, localI>>

\* localI = relaxed load of ingress; if (localE != localI) return EBUSY
TryLoadI(t) ==
  /\ pc[t] = "try_load_i"
  /\ localI' = [localI EXCEPT ![t] = ingress]
  /\ pc' = [pc EXCEPT ![t] = IF localE[t] = ingress THEN "try_cas" ELSE "idle"]
  /\ UNCHANGED <<ingress, egress, nextEgress, mytid, prevtid, localE>>

\* mytid chosen against localE; compare_exchange(&ingress, &localI, mytid)
\* fails with EBUSY or acquires the lock.
TryCas(t) ==
  /\ pc[t] = "try_cas"
  /\ mytid' = [mytid EXCEPT ![t] = IdFor(t, localE[t])]
  /\ IF ingress = localI[t]
       THEN /\ ingress' = IdFor(t, localE[t])
            /\ pc' = [pc EXCEPT ![t] = "set_next"]
       ELSE /\ UNCHANGED ingress
            /\ pc' = [pc EXCEPT ![t] = "idle"]
  /\ UNCHANGED <<egress, nextEgress, prevtid, localE, localI>>

\* The holder calls tidex_mutex_lock() again: the same three steps, from
\* "cs".  Its id is chosen against egress, which holds its predecessor's
\* id (or its own, when it was its own predecessor) ...
ReLockChooseId(t) ==
  /\ pc[t] = "cs"
  /\ mytid' = [mytid EXCEPT ![t] = IdFor(t, egress)]
  /\ pc' = [pc EXCEPT ![t] = "re_xchg"]
  /\ UNCHANGED <<ingress, egress, nextEgress, prevtid, localE, localI>>

\* ... the exchange returns the id of the last thread queued, the holder's
\* own when nobody waits ...
ReLockXchg(t) ==
  /\ pc[t] = "re_xchg"
  /\ prevtid' = [prevtid EXCEPT ![t] = ingress]
  /\ ingress' = mytid[t]
  /\ pc' = [pc EXCEPT ![t] = "re_spin"]
  /\ UNCHANGED <<egress, nextEgress, mytid, localE, localI>>

\* ... and the spin ends when egress holds that id.
ReLockSpin(t) ==
  /\ pc[t] = "re_spin"
  /\ egress = prevtid[t]
  /\ pc' = [pc EXCEPT ![t] = "set_next"]
  /\ UNCHANGED <<ingress, egress, nextEgress, mytid, prevtid, localE, localI>>

ReLockStep(t) == ReLockChooseId(t) \/ ReLockXchg(t) \/ ReLockSpin(t)

LockStep(t) ==
  \/ LockChooseId(t) \/ LockXchg(t) \/ LockSpin(t) \/ SetNextEgress(t)
  \/ Unlock(t)

TryStep(t) == TryLoadE(t) \/ TryLoadI(t) \/ TryCas(t)

\* Threads that only call lock() and unlock(), as src/lockrate.c and
\* mutex_validation.c do.
Next == \E t \in Threads : LockStep(t)

\* Threads that also call trylock().
NextWithTrylock == \E t \in Threads : LockStep(t) \/ TryStep(t)

Fairness == \A t \in Threads :
              /\ WF_vars(LockXchg(t)) /\ WF_vars(LockSpin(t))
              /\ WF_vars(SetNextEgress(t)) /\ WF_vars(Unlock(t))

Spec == Init /\ [][Next]_vars /\ Fairness

SpecWithTrylock == Init /\ [][NextWithTrylock]_vars

\* Threads that may also call lock() while holding the lock; a thread in
\* that call runs as in any other.
NextWithReentry == \E t \in Threads : LockStep(t) \/ ReLockStep(t)

SpecWithReentry ==
  /\ Init /\ [][NextWithReentry]_vars /\ Fairness
  /\ \A t \in Threads : WF_vars(ReLockXchg(t)) /\ WF_vars(ReLockSpin(t))

-----------------------------------------------------------------------------
(***************************************************************************)
(* Properties                                                              *)
(***************************************************************************)

\* Mutual exclusion: at most one thread is between acquiring (the spin exit
\* of lock() or the successful CAS of trylock()) and its store of egress in
\* unlock(), although ids, unlike tickets, repeat from one acquisition to
\* the next.
MutualExclusion ==
  \A t, u \in Threads : t # u => ~(pc[t] \in Holding /\ pc[u] \in Holding)

\* Starvation freedom: a thread that has exchanged its id into ingress
\* eventually sees egress equal its predecessor's id.
StarvationFree ==
  \A t \in Threads : pc[t] = "spin" ~> pc[t] = "set_next"

\* Re-entry: a holder that calls lock() again returns from it, as
\* spec.md says of the Tidex lock (a holder re-entering "does not spin
\* forever waiting for itself").
ReentryReturns == \A t \in Threads : pc[t] = "re_spin" ~> pc[t] = "set_next"

\* Refinement: a thread arrives at its exchange on ingress; its successor is
\* the waiter whose prevtid is its id.
Waiting == {t \in Threads : pc[t] = "spin"}

RECURSIVE ChainFrom(_, _)
ChainFrom(t, seen) ==
  LET succ == {u \in Waiting \ seen : prevtid[u] = mytid[t]}
  IN  IF succ = {} THEN <<t>>
      ELSE <<t>> \o ChainFrom(CHOOSE u \in succ : TRUE, seen \cup succ)

AbsQueue ==
  LET first == {t \in Waiting : \A u \in Waiting : prevtid[t] # mytid[u]}
  IN  IF first = {} THEN <<>>
      ELSE LET f == CHOOSE t \in first : TRUE IN ChainFrom(f, {f})

AbsState(t) == CASE pc[t] \in {"idle", "xchg"} -> "idle"
                 [] pc[t] = "spin"             -> "waiting"
                 [] pc[t] \in Holding          -> "cs"

Abstract == INSTANCE AbstractFifoMutex
              WITH state <- [t \in Threads |-> AbsState(t)],
                   queue <- AbsQueue

\* The Tidex lock implements the FIFO mutex: threads enter in the order of
\* their exchange on ingress, one at a time.
ImplementsFifoMutex == Abstract!Spec
=============================================================================
