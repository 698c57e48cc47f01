---------------------------- MODULE TidexNpsMutex ----------------------------
(***************************************************************************)
(* The Tidex lock without pthread_self of                                  *)
(* ConcurrencyFreaks/C11/locks/tidex_nps_mutex.h.  The protocol is the one *)
(* of TidexMutex; a thread's id is not pthread_self() but an index it      *)
(* draws once, the first time it calls lock() or trylock(), from the       *)
(* counter globalThreadIndex (starting at 1) with fetch_add, and keeps in   *)
(* the thread-local tlThreadIndex.  Each shared-memory access is one step;  *)
(* reads and writes of tlThreadIndex are local and are part of the step    *)
(* they belong to.                                                          *)
(***************************************************************************)
EXTENDS Integers, Sequences, FiniteSets

CONSTANTS
  Threads,   \* the threads calling lock()/unlock()/trylock()
  MaxIndex   \* the values globalThreadIndex can take in the model

INVALID_TID == 0

ASSUME MaxIndex \in Nat /\ MaxIndex >= Cardinality(Threads) + 1

VARIABLES
  globalThreadIndex,  \* the static globalThreadIndex
  tlThreadIndex,      \* tlThreadIndex[t]: the _Thread_local tlThreadIndex
  ingress,            \* self->ingress
  egress,             \* self->egress
  nextEgress,         \* self->nextEgress
  pc,                 \* pc[t]: where thread t is
  mytid,              \* local mytid
  prevtid,            \* local prevtid of tidex_nps_mutex_lock
  localE,             \* local localE of tidex_nps_mutex_trylock
  localI              \* local localI of tidex_nps_mutex_trylock

vars == <<globalThreadIndex, tlThreadIndex, ingress, egress, nextEgress, pc,
          mytid, prevtid, localE, localI>>

Index == 1 .. MaxIndex
Ids == Index \cup {-i : i \in Index} \cup {INVALID_TID}

Holding == {"set_next", "cs"}

TypeOK ==
  /\ globalThreadIndex \in Index
  /\ tlThreadIndex \in [Threads -> Index \cup {INVALID_TID}]
  /\ ingress \in Ids /\ egress \in Ids /\ nextEgress \in Ids
  /\ pc \in [Threads -> {"idle", "choose", "xchg", "spin", "set_next", "cs",
                         "try_load_i", "try_cas"}]
  /\ mytid \in [Threads -> Ids]
  /\ prevtid \in [Threads -> Ids]
  /\ localE \in [Threads -> Ids]
  /\ localI \in [Threads -> Ids]

\* The static initialisers of globalThreadIndex and tlThreadIndex, and
\* tidex_nps_mutex_init.
Init ==
  /\ globalThreadIndex = 1
  /\ tlThreadIndex = [t \in Threads |-> INVALID_TID]
  /\ ingress = INVALID_TID /\ egress = INVALID_TID /\ nextEgress = INVALID_TID
  /\ pc = [t \in Threads |-> "idle"]
  /\ mytid = [t \in Threads |-> INVALID_TID]
  /\ prevtid = [t \in Threads |-> INVALID_TID]
  /\ localE = [t \in Threads |-> INVALID_TID]
  /\ localI = [t \in Threads |-> INVALID_TID]

\* A registration whose fetch_add is a load and a later store: two threads
\* may draw the same index.
RegisterLostUpdate(t) ==
  /\ tlThreadIndex[t] = INVALID_TID
  /\ globalThreadIndex < MaxIndex
  /\ \E i \in ({globalThreadIndex, globalThreadIndex - 1} \ {INVALID_TID}) :
       tlThreadIndex' = [tlThreadIndex EXCEPT ![t] = i]
  /\ globalThreadIndex' = globalThreadIndex + 1

\* mytid = tlThreadIndex; if it is INVALID_TID, tlThreadIndex =
\* atomic_fetch_add(&globalThreadIndex, 1) and mytid takes it.
Register(t) ==
  /\ tlThreadIndex[t] = INVALID_TID
  /\ globalThreadIndex < MaxIndex
  /\ tlThreadIndex' = [tlThreadIndex EXCEPT ![t] = globalThreadIndex]
  /\ globalThreadIndex' = globalThreadIndex + 1

\* tidex_nps_mutex_lock up to its fetch_add: the thread enters lock(),
\* registering if it has no index yet.
LockRegister(t) ==
  /\ pc[t] = "idle"
  /\ \/ Register(t)
     \/ tlThreadIndex[t] # INVALID_TID
        /\ UNCHANGED <<globalThreadIndex, tlThreadIndex>>
  /\ pc' = [pc EXCEPT ![t] = "choose"]
  /\ UNCHANGED <<ingress, egress, nextEgress, mytid, prevtid, localE, localI>>

\* The id a thread publishes when egress holds e: its index, or its
\* negation when e is its index.
IdFor(t, e) == IF e = tlThreadIndex[t] THEN -tlThreadIndex[t]
                                       ELSE tlThreadIndex[t]

\* A lock that always publishes the thread's own index.
LockChooseIdNoNegate(t) ==
  /\ pc[t] = "choose"
  /\ mytid' = [mytid EXCEPT ![t] = tlThreadIndex[t]]
  /\ pc' = [pc EXCEPT ![t] = "xchg"]
  /\ UNCHANGED <<globalThreadIndex, tlThreadIndex, ingress, egress,
                 nextEgress, prevtid, localE, localI>>

\* if (relaxed load of egress == mytid) mytid = -mytid
LockChooseId(t) ==
  /\ pc[t] = "choose"
  /\ mytid' = [mytid EXCEPT ![t] = IdFor(t, egress)]
  /\ pc' = [pc EXCEPT ![t] = "xchg"]
  /\ UNCHANGED <<globalThreadIndex, tlThreadIndex, ingress, egress,
                 nextEgress, prevtid, localE, localI>>

\* prevtid = atomic_exchange(&ingress, mytid)
LockXchg(t) ==
  /\ pc[t] = "xchg"
  /\ prevtid' = [prevtid EXCEPT ![t] = ingress]
  /\ ingress' = mytid[t]
  /\ pc' = [pc EXCEPT ![t] = "spin"]
  /\ UNCHANGED <<globalThreadIndex, tlThreadIndex, egress, nextEgress, mytid,
                 localE, localI>>

\* The spin-then-yield loop ends when a load of egress returns prevtid.
LockSpin(t) ==
  /\ pc[t] = "spin"
  /\ egress = prevtid[t]
  /\ pc' = [pc EXCEPT ![t] = "set_next"]
  /\ UNCHANGED <<globalThreadIndex, tlThreadIndex, ingress, egress,
                 nextEgress, mytid, prevtid, localE, localI>>

\* A lock that never stores its id into self->nextEgress.
SetNextEgressSkipped(t) ==
  /\ pc[t] = "set_next"
  /\ pc' = [pc EXCEPT ![t] = "cs"]
  /\ UNCHANGED <<globalThreadIndex, tlThreadIndex, ingress, egress,
                 nextEgress, mytid, prevtid, localE, localI>>

\* self->nextEgress = mytid, in lock() and after a successful trylock().
SetNextEgress(t) ==
  /\ pc[t] = "set_next"
  /\ nextEgress' = mytid[t]
  /\ pc' = [pc EXCEPT ![t] = "cs"]
  /\ UNCHANGED <<globalThreadIndex, tlThreadIndex, ingress, egress, mytid,
                 prevtid, localE, localI>>

\* An unlock written as the ticket lock's, egress + 1.
UnlockTicketStyle(t) ==
  /\ pc[t] = "cs"
  /\ egress' = egress + 1
  /\ pc' = [pc EXCEPT ![t] = "idle"]
  /\ UNCHANGED <<globalThreadIndex, tlThreadIndex, ingress, nextEgress, mytid,
                 prevtid, localE, localI>>

\* tidex_nps_mutex_unlock: atomic_store(&egress, self->nextEgress)
Unlock(t) ==
  /\ pc[t] = "cs"
  /\ egress' = nextEgress
  /\ pc' = [pc EXCEPT ![t] = "idle"]
  /\ UNCHANGED <<globalThreadIndex, tlThreadIndex, ingress, nextEgress, mytid,
                 prevtid, localE, localI>>

\* tidex_nps_mutex_trylock: localE = atomic_load(&egress)
TryLoadE(t) ==
  /\ pc[t] = "idle"
  /\ localE' = [localE EXCEPT ![t] = egress]
  /\ pc' = [pc EXCEPT ![t] = "try_load_i"]
  /\ UNCHANGED <<globalThreadIndex, tlThreadIndex, ingress, egress,
                 nextEgress, mytid, prevtid, localI>>

\* localI = atomic_load(&ingress); if (localE != localI) return EBUSY;
\* otherwise the thread registers if it has no index yet.
TryLoadI(t) ==
  /\ pc[t] = "try_load_i"
  /\ localI' = [localI EXCEPT ![t] = ingress]
  /\ IF localE[t] = ingress
       THEN /\ \/ Register(t)
               \/ tlThreadIndex[t] # INVALID_TID
                  /\ UNCHANGED <<globalThreadIndex, tlThreadIndex>>
            /\ pc' = [pc EXCEPT ![t] = "try_cas"]
       ELSE /\ pc' = [pc EXCEPT ![t] = "idle"]
            /\ UNCHANGED <<globalThreadIndex, tlThreadIndex>>
  /\ UNCHANGED <<ingress, egress, nextEgress, mytid, prevtid, localE>>

\* mytid chosen against localE; compare_exchange(&ingress, &localI, mytid)
\* fails with EBUSY or acquires the lock.
TryCas(t) ==
  /\ pc[t] = "try_cas"
  /\ mytid' = [mytid EXCEPT ![t] = IdFor(t, localE[t])]
  /\ IF ingress = localI[t]
       THEN /\ ingress' = IdFor(t, localE[t])
            /\ pc' = [pc EXCEPT ![t] = "set_next"]
       ELSE /\ UNCHANGED ingress
            /\ pc' = [pc EXCEPT ![t] = "idle"]
  /\ UNCHANGED <<globalThreadIndex, tlThreadIndex, egress, nextEgress,
                 prevtid, localE, localI>>

LockStep(t) ==
  \/ LockRegister(t) \/ LockChooseId(t) \/ LockXchg(t) \/ LockSpin(t)
  \/ SetNextEgress(t) \/ Unlock(t)

TryStep(t) == TryLoadE(t) \/ TryLoadI(t) \/ TryCas(t)

\* Threads that only call lock() and unlock().
Next == \E t \in Threads : LockStep(t)

\* Threads that also call trylock().
NextWithTrylock == \E t \in Threads : LockStep(t) \/ TryStep(t)

Fairness == \A t \in Threads :
              /\ WF_vars(LockChooseId(t)) /\ WF_vars(LockXchg(t))
              /\ WF_vars(LockSpin(t)) /\ WF_vars(SetNextEgress(t))
              /\ WF_vars(Unlock(t))

Spec == Init /\ [][Next]_vars /\ Fairness

SpecWithTrylock == Init /\ [][NextWithTrylock]_vars

-----------------------------------------------------------------------------
(***************************************************************************)
(* Properties                                                              *)
(***************************************************************************)

\* Mutual exclusion: at most one thread is between acquiring and its store
\* of egress, with ids that are indices drawn from globalThreadIndex, equal
\* to each other only if two threads drew the same index.
MutualExclusion ==
  \A t, u \in Threads : t # u => ~(pc[t] \in Holding /\ pc[u] \in Holding)

\* Starvation freedom: a thread that has exchanged its id into ingress
\* eventually sees egress equal its predecessor's id.
StarvationFree ==
  \A t \in Threads : pc[t] = "spin" ~> pc[t] = "set_next"

\* Refinement: as for TidexMutex, the waiters form the chain of prevtid.
Waiting == {t \in Threads : pc[t] = "spin"}

RECURSIVE ChainFrom(_, _)
ChainFrom(t, seen) ==
  LET succ == {u \in Waiting \ seen : prevtid[u] = mytid[t]}
  IN  IF succ = {} THEN <<t>>
      ELSE <<t>> \o ChainFrom(CHOOSE u \in succ : TRUE, seen \cup succ)

AbsQueue ==
  LET first == {t \in Waiting : \A u \in Waiting : prevtid[t] # mytid[u]}
  IN  IF first = {} THEN <<>>
      ELSE LET f == CHOOSE t \in first : TRUE IN ChainFrom(f, {f})

AbsState(t) == CASE pc[t] \in {"idle", "choose", "xchg"} -> "idle"
                 [] pc[t] = "spin"                       -> "waiting"
                 [] pc[t] \in Holding                    -> "cs"

Abstract == INSTANCE AbstractFifoMutex
              WITH state <- [t \in Threads |-> AbsState(t)],
                   queue <- AbsQueue

\* The lock implements the FIFO mutex: threads enter in the order of their
\* exchange on ingress, one at a time.
ImplementsFifoMutex == Abstract!Spec
=============================================================================
