------------------------------ MODULE ClhMutex ------------------------------
(***************************************************************************)
(* The CLH queue lock of ConcurrencyFreaks/C11/locks/clh_mutex.h.          *)
(*                                                                         *)
(* Nodes are addresses drawn from a finite arena Nodes; malloc takes any  *)
(* address not allocated, free gives it back, so addresses are reused.    *)
(* The shared field self->mynode (written by the new holder, read by       *)
(* unlock()) is the variable mynodeField; the thread-local variables of    *)
(* clh_mutex_lock and clh_mutex_unlock are functions of the thread.        *)
(***************************************************************************)
EXTENDS Integers, Sequences

CONSTANTS
  Threads,  \* the threads calling lock()/unlock()
  Nodes     \* the addresses malloc may return

VARIABLES
  tail,         \* self->tail
  mynodeField,  \* self->mynode
  mustWait,     \* mustWait[n]: n->succ_must_wait
  allocated,    \* the nodes malloc'ed and not yet freed
  destroyed,    \* clh_mutex_destroy has run
  pc,           \* pc[t]: where thread t is
  mynode,       \* local mynode of clh_mutex_lock
  prev,         \* local prev of clh_mutex_lock
  unode,        \* the value of self->mynode loaded by clh_mutex_unlock
  unpaired      \* history: threads in unlock() without holding the lock

vars == <<tail, mynodeField, mustWait, allocated, destroyed, pc, mynode,
          prev, unode, unpaired>>

PcValues == {"idle", "spin", "free", "set_mynode", "cs", "unlock_store"}

\* Between leaving the spin loop and the store in unlock() a thread holds
\* the lock.
Holding == {"free", "set_mynode", "cs", "unlock_store"}

TypeOK ==
  /\ tail \in Nodes /\ mynodeField \in Nodes
  /\ mustWait \in [Nodes -> {0, 1}]
  /\ allocated \subseteq Nodes
  /\ destroyed \in BOOLEAN
  /\ pc \in [Threads -> PcValues]
  /\ mynode \in [Threads -> Nodes]
  /\ prev \in [Threads -> Nodes]
  /\ unode \in [Threads -> Nodes]
  /\ unpaired \subseteq Threads

Sentinel == CHOOSE n \in Nodes : TRUE

\* clh_mutex_init: a sentinel node created unlocked (islocked = 0) becomes
\* both self->mynode and self->tail.
Init ==
  /\ tail = Sentinel /\ mynodeField = Sentinel
  /\ mustWait = [n \in Nodes |-> 0]
  /\ allocated = {Sentinel}
  /\ destroyed = FALSE
  /\ pc = [t \in Threads |-> "idle"]
  /\ mynode = [t \in Threads |-> Sentinel]
  /\ prev = [t \in Threads |-> Sentinel]
  /\ unode = [t \in Threads |-> Sentinel]
  /\ unpaired = {}

\* A lock whose new node is created unlocked, clh_mutex_create_node(0).
LockCreateUnlocked(t) ==
  /\ pc[t] = "idle" /\ ~destroyed
  /\ \E n \in Nodes \ allocated :
       /\ allocated' = allocated \cup {n}
       /\ mustWait' = [mustWait EXCEPT ![n] = 0]
       /\ mynode' = [mynode EXCEPT ![t] = n]
       /\ prev' = [prev EXCEPT ![t] = tail]
       /\ tail' = n
  /\ pc' = [pc EXCEPT ![t] = "spin"]
  /\ UNCHANGED <<mynodeField, destroyed, unode, unpaired>>

\* A lock whose new node keeps what malloc left in succ_must_wait.
LockUninitialisedFlag(t) ==
  /\ pc[t] = "idle" /\ ~destroyed
  /\ \E n \in Nodes \ allocated, garbage \in {0, 1, 255} :
       /\ allocated' = allocated \cup {n}
       /\ mustWait' = [mustWait EXCEPT ![n] = garbage]
       /\ mynode' = [mynode EXCEPT ![t] = n]
       /\ prev' = [prev EXCEPT ![t] = tail]
       /\ tail' = n
  /\ pc' = [pc EXCEPT ![t] = "spin"]
  /\ UNCHANGED <<mynodeField, destroyed, unode, unpaired>>

\* clh_mutex_lock, first two lines: clh_mutex_create_node(1) mallocs a node
\* and stores succ_must_wait = 1; atomic_exchange(&tail, mynode) returns the
\* predecessor.  The node is private until the exchange, so the two are one
\* step.
Lock(t) ==
  /\ pc[t] = "idle" /\ ~destroyed
  /\ \E n \in Nodes \ allocated :
       /\ allocated' = allocated \cup {n}
       /\ mustWait' = [mustWait EXCEPT ![n] = 1]
       /\ mynode' = [mynode EXCEPT ![t] = n]
       /\ prev' = [prev EXCEPT ![t] = tail]
       /\ tail' = n
  /\ pc' = [pc EXCEPT ![t] = "spin"]
  /\ UNCHANGED <<mynodeField, destroyed, unode, unpaired>>

\* The loads of prev->succ_must_wait: the thread leaves the loop when it
\* reads 0; a load of 1 changes nothing.
Spin(t) ==
  /\ pc[t] = "spin"
  /\ mustWait[prev[t]] = 0
  /\ pc' = [pc EXCEPT ![t] = "free"]
  /\ UNCHANGED <<tail, mynodeField, mustWait, allocated, destroyed, mynode,
                 prev, unode, unpaired>>

\* A lock that leaves the predecessor allocated.
FreeNothing(t) ==
  /\ pc[t] = "free"
  /\ pc' = [pc EXCEPT ![t] = "set_mynode"]
  /\ UNCHANGED <<tail, mynodeField, mustWait, allocated, destroyed, mynode,
                 prev, unode, unpaired>>

\* free(prev): the successor, not the allocator, frees the node.
Free(t) ==
  /\ pc[t] = "free"
  /\ allocated' = allocated \ {prev[t]}
  /\ pc' = [pc EXCEPT ![t] = "set_mynode"]
  /\ UNCHANGED <<tail, mynodeField, mustWait, destroyed, mynode, prev,
                 unode, unpaired>>

\* A lock that never stores its node into self->mynode.
SetMynodeSkipped(t) ==
  /\ pc[t] = "set_mynode"
  /\ pc' = [pc EXCEPT ![t] = "cs"]
  /\ UNCHANGED <<tail, mynodeField, mustWait, allocated, destroyed, mynode,
                 prev, unode, unpaired>>

\* self->mynode = mynode, for clh_mutex_unlock to use.
SetMynode(t) ==
  /\ pc[t] = "set_mynode"
  /\ mynodeField' = mynode[t]
  /\ pc' = [pc EXCEPT ![t] = "cs"]
  /\ UNCHANGED <<tail, mustWait, allocated, destroyed, mynode, prev,
                 unode, unpaired>>

\* clh_mutex_unlock reads self->mynode.  Its NULL test never succeeds: init
\* stores the sentinel there and nothing stores NULL.
UnlockRead(t) ==
  /\ pc[t] = "cs"
  /\ unode' = [unode EXCEPT ![t] = mynodeField]
  /\ pc' = [pc EXCEPT ![t] = "unlock_store"]
  /\ UNCHANGED <<tail, mynodeField, mustWait, allocated, destroyed, mynode,
                 prev, unpaired>>

\* clh_mutex_unlock called by a thread that does not hold the lock, the
\* caller error its NULL test is meant to catch: it reads self->mynode.
UnlockWithoutLock(t) ==
  /\ pc[t] = "idle" /\ ~destroyed
  /\ unode' = [unode EXCEPT ![t] = mynodeField]
  /\ pc' = [pc EXCEPT ![t] = "unlock_store"]
  /\ unpaired' = unpaired \cup {t}
  /\ UNCHANGED <<tail, mynodeField, mustWait, allocated, destroyed, mynode,
                 prev>>

\* An unlock that frees its own node as it releases it, the allocator
\* freeing instead of the successor.
UnlockStoreAndFree(t) ==
  /\ pc[t] = "unlock_store"
  /\ mustWait' = [mustWait EXCEPT ![unode[t]] = 0]
  /\ allocated' = allocated \ {unode[t]}
  /\ pc' = [pc EXCEPT ![t] = "idle"]
  /\ unpaired' = unpaired \ {t}
  /\ UNCHANGED <<tail, mynodeField, destroyed, mynode, prev, unode>>

\* atomic_store(&self->mynode->succ_must_wait, 0)
UnlockStore(t) ==
  /\ pc[t] = "unlock_store"
  /\ mustWait' = [mustWait EXCEPT ![unode[t]] = 0]
  /\ pc' = [pc EXCEPT ![t] = "idle"]
  /\ unpaired' = unpaired \ {t}
  /\ UNCHANGED <<tail, mynodeField, allocated, destroyed, mynode, prev, unode>>

\* clh_mutex_destroy: free(tail), under its precondition that no thread
\* holds the lock or is trying to.
Destroy ==
  /\ ~destroyed
  /\ \A t \in Threads : pc[t] = "idle"
  /\ allocated' = allocated \ {tail}
  /\ destroyed' = TRUE
  /\ UNCHANGED <<tail, mynodeField, mustWait, pc, mynode, prev,
                 unode, unpaired>>

\* After clh_mutex_destroy the program does nothing more with the lock.
Finished == destroyed /\ UNCHANGED vars

Next ==
  \/ \E t \in Threads :
       \/ Lock(t) \/ Spin(t) \/ Free(t) \/ SetMynode(t)
       \/ UnlockRead(t) \/ UnlockStore(t)
  \/ Destroy
  \/ Finished

\* Once scheduled, lock() and unlock() run to their end; calling lock() and
\* destroying the lock are the caller's choice.
Fairness == \A t \in Threads :
              /\ WF_vars(Spin(t)) /\ WF_vars(Free(t)) /\ WF_vars(SetMynode(t))
              /\ WF_vars(UnlockRead(t)) /\ WF_vars(UnlockStore(t))

Spec == Init /\ [][Next]_vars /\ Fairness

\* Threads that may also call unlock() without holding the lock.
NextWithUnpairedUnlock == Next \/ \E t \in Threads : UnlockWithoutLock(t)

SpecWithUnpairedUnlock == Init /\ [][NextWithUnpairedUnlock]_vars

-----------------------------------------------------------------------------
(***************************************************************************)
(* Properties                                                              *)
(***************************************************************************)

\* Mutual exclusion: at most one thread is between the spin exit of
\* clh_mutex_lock and the store of succ_must_wait = 0 in clh_mutex_unlock,
\* although nodes are freed and their addresses reused.
Holders == {t \in Threads \ unpaired : pc[t] \in Holding}

MutualExclusion == \A t, u \in Holders : t = u

\* Memory safety of the node hand-off: a thread spinning on
\* prev->succ_must_wait reads an allocated node, and unlock() stores 0 into
\* an allocated node that is the caller's own (the one it read back from
\* the shared self->mynode field).
NoUseAfterFree ==
  \A t \in Threads :
    /\ pc[t] = "spin" => prev[t] \in allocated
    /\ pc[t] = "unlock_store" => unode[t] \in allocated /\ unode[t] = mynode[t]

\* No leak: when no thread is inside lock() or unlock() exactly one node,
\* the tail, is allocated, and clh_mutex_destroy frees it.
NoLeak ==
  /\ (~destroyed /\ \A t \in Threads : pc[t] = "idle") => allocated = {tail}
  /\ destroyed => allocated = {}

\* Starvation freedom: a thread that has exchanged its node into the tail
\* eventually sees its predecessor's flag cleared.
StarvationFree ==
  \A t \in Threads : pc[t] = "spin" ~> pc[t] = "free"

\* Refinement: the waiters form the chain of prev pointers; the first is
\* the one whose predecessor belongs to no waiter.
Waiting == {t \in Threads : pc[t] = "spin"}

RECURSIVE ChainFrom(_, _)
ChainFrom(t, seen) ==
  LET succ == {u \in Waiting \ seen : prev[u] = mynode[t]}
  IN  IF succ = {} THEN <<t>>
      ELSE <<t>> \o ChainFrom(CHOOSE u \in succ : TRUE, seen \cup succ)

AbsQueue ==
  LET first == {t \in Waiting : \A u \in Waiting : prev[t] # mynode[u]}
  IN  IF first = {} THEN <<>>
      ELSE LET f == CHOOSE t \in first : TRUE IN ChainFrom(f, {f})

AbsState(t) == IF pc[t] = "idle" THEN "idle"
               ELSE IF pc[t] = "spin" THEN "waiting" ELSE "cs"

Abstract == INSTANCE AbstractFifoMutex
              WITH state <- [t \in Threads |-> AbsState(t)],
                   queue <- AbsQueue

\* The CLH lock implements the FIFO mutex: threads enter in the order of
\* their atomic_exchange on tail, one at a time.
ImplementsFifoMutex == Abstract!Spec
=============================================================================
