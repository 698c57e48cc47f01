------------------------------ MODULE MpscMutex ------------------------------
(***************************************************************************)
(* The MPSC list lock of ConcurrencyFreaks/C11/locks/mpsc_mutex.h.         *)
(*                                                                         *)
(* Nodes are addresses drawn from a finite arena Nodes; malloc takes any  *)
(* address not allocated and free gives it back, so addresses are reused. *)
(* mpsc_mutex_create_node does not initialise next: a node malloc returns *)
(* holds the indeterminate value Indeterminate there (glibc keeps its free *)
(* list link in the first word of a freed chunk) until a successor links  *)
(* it.  Each shared-memory access is one step; the locals of lock() and    *)
(* unlock() are reset when the function returns, their values being dead. *)
(***************************************************************************)
EXTENDS Integers, Sequences

CONSTANTS
  Threads,  \* the threads calling lock()/unlock()
  Nodes,    \* the addresses malloc may return
  NULL,         \* the null pointer
  Indeterminate \* the content of next in a node malloc returned

ASSUME NULL \notin Nodes /\ Indeterminate \notin Nodes \cup {NULL}

VARIABLES
  head,       \* self->head
  tail,       \* self->tail
  next,       \* next[n]: n->next
  allocated,  \* the nodes malloc'ed and not yet freed
  destroyed,  \* mpsc_mutex_destroy has run
  pc,         \* pc[t]: where thread t is
  mynode,     \* local mynode of mpsc_mutex_lock
  prev,       \* local prev of mpsc_mutex_lock
  uprev,      \* local prev of mpsc_mutex_unlock
  unext,      \* local mynode of mpsc_mutex_unlock
  unpaired    \* history: threads in unlock() without holding the lock

vars == <<head, tail, next, allocated, destroyed, pc, mynode, prev, uprev,
          unext, unpaired>>

Ptr == Nodes \cup {NULL}

NextValues == Ptr \cup {Indeterminate}

PcValues == {"idle", "link", "spin", "cs", "u_next", "u_store", "u_free"}

\* From the exit of the spin loop to the store of head in unlock().
Holding == {"cs", "u_next", "u_store"}

TypeOK ==
  /\ head \in Nodes /\ tail \in Nodes
  /\ next \in [Nodes -> NextValues]
  /\ allocated \subseteq Nodes
  /\ destroyed \in BOOLEAN
  /\ pc \in [Threads -> PcValues]
  /\ mynode \in [Threads -> Nodes]
  /\ prev \in [Threads -> Nodes]
  /\ uprev \in [Threads -> Nodes]
  /\ unext \in [Threads -> NextValues]
  /\ unpaired \subseteq Threads

Sentinel == CHOOSE n \in Nodes : TRUE

\* An init that leaves self->head as the zeroed struct had it.
InitHeadNull ==
  /\ head = NULL /\ tail = Sentinel
  /\ next = [n \in Nodes |-> Indeterminate]
  /\ allocated = {Sentinel}
  /\ destroyed = FALSE
  /\ pc = [t \in Threads |-> "idle"]
  /\ mynode = [t \in Threads |-> Sentinel]
  /\ prev = [t \in Threads |-> Sentinel]
  /\ uprev = [t \in Threads |-> Sentinel]
  /\ unext = [t \in Threads |-> NULL]
  /\ unpaired = {}

\* mpsc_mutex_init: one node from mpsc_mutex_create_node, its next not
\* initialised, becomes head and tail.
Init ==
  /\ head = Sentinel /\ tail = Sentinel
  /\ next = [n \in Nodes |-> Indeterminate]
  /\ allocated = {Sentinel}
  /\ destroyed = FALSE
  /\ pc = [t \in Threads |-> "idle"]
  /\ mynode = [t \in Threads |-> Sentinel]
  /\ prev = [t \in Threads |-> Sentinel]
  /\ uprev = [t \in Threads |-> Sentinel]
  /\ unext = [t \in Threads |-> NULL]
  /\ unpaired = {}

\* A lock whose exchange is a load of tail and a later store: it may read
\* the predecessor another thread has read and not yet replaced.
LockLostExchange(t) ==
  /\ pc[t] = "idle" /\ ~destroyed
  /\ \E n \in Nodes \ allocated,
       p \in {tail} \cup {prev[u] : u \in {u \in Threads : pc[u] = "link"}} :
       /\ allocated' = allocated \cup {n}
       /\ mynode' = [mynode EXCEPT ![t] = n]
       /\ prev' = [prev EXCEPT ![t] = p]
       /\ tail' = n
  /\ pc' = [pc EXCEPT ![t] = "link"]
  /\ UNCHANGED <<head, next, destroyed, uprev, unext, unpaired>>

\* The locals of lock() and unlock() once unlock() has returned.
ResetLocals(t) ==
  /\ mynode' = [mynode EXCEPT ![t] = Sentinel]
  /\ prev' = [prev EXCEPT ![t] = Sentinel]
  /\ uprev' = [uprev EXCEPT ![t] = Sentinel]
  /\ unext' = [unext EXCEPT ![t] = NULL]
  /\ unpaired' = unpaired \ {t}

\* mpsc_mutex_lock, first two lines: malloc a node and exchange it into
\* tail.  The node is private until the exchange, so the two are one step.
Lock(t) ==
  /\ pc[t] = "idle" /\ ~destroyed
  /\ \E n \in Nodes \ allocated :
       /\ allocated' = allocated \cup {n}
       /\ mynode' = [mynode EXCEPT ![t] = n]
       /\ prev' = [prev EXCEPT ![t] = tail]
       /\ tail' = n
  /\ pc' = [pc EXCEPT ![t] = "link"]
  /\ UNCHANGED <<head, next, destroyed, uprev, unext, unpaired>>

\* atomic_store(&prev->next, mynode)
Link(t) ==
  /\ pc[t] = "link"
  /\ next' = [next EXCEPT ![prev[t]] = mynode[t]]
  /\ pc' = [pc EXCEPT ![t] = "spin"]
  /\ UNCHANGED <<head, tail, allocated, destroyed, mynode, prev, uprev,
                 unext, unpaired>>

\* The loads of head: the thread leaves the loop when head = prev.
Spin(t) ==
  /\ pc[t] = "spin"
  /\ head = prev[t]
  /\ pc' = [pc EXCEPT ![t] = "cs"]
  /\ UNCHANGED <<head, tail, next, allocated, destroyed, mynode, prev, uprev,
                 unext, unpaired>>

\* mpsc_mutex_unlock: prev = relaxed load of head.
UnlockLoadHead(t) ==
  /\ pc[t] = "cs"
  /\ uprev' = [uprev EXCEPT ![t] = head]
  /\ pc' = [pc EXCEPT ![t] = "u_next"]
  /\ UNCHANGED <<head, tail, next, allocated, destroyed, mynode, prev,
                 unext, unpaired>>

\* p->next; through an indeterminate pointer, whose dereference is undefined,
\* the value read is itself indeterminate.
NextOf(p) == IF p \in Nodes THEN next[p] ELSE Indeterminate

\* unlock() called by a thread that does not hold the lock, a caller error
\* the comment in mpsc_mutex_unlock expects to catch with its NULL test:
\* its first line, the relaxed load of head.
UnlockWithoutLock(t) ==
  /\ pc[t] = "idle" /\ ~destroyed
  /\ uprev' = [uprev EXCEPT ![t] = head]
  /\ pc' = [pc EXCEPT ![t] = "u_next"]
  /\ unpaired' = unpaired \cup {t}
  /\ UNCHANGED <<head, tail, next, allocated, destroyed, mynode, prev, unext>>

\* mynode = relaxed load of prev->next; if (mynode == NULL) return.
UnlockLoadNext(t) ==
  /\ pc[t] = "u_next"
  /\ IF NextOf(uprev[t]) = NULL
       THEN /\ pc' = [pc EXCEPT ![t] = "idle"]
            /\ ResetLocals(t)
       ELSE /\ pc' = [pc EXCEPT ![t] = "u_store"]
            /\ unext' = [unext EXCEPT ![t] = NextOf(uprev[t])]
            /\ UNCHANGED <<mynode, prev, uprev, unpaired>>
  /\ UNCHANGED <<head, tail, next, allocated, destroyed>>

\* An unlock that stores the old head back.
UnlockStoreNoAdvance(t) ==
  /\ pc[t] = "u_store"
  /\ head' = uprev[t]
  /\ pc' = [pc EXCEPT ![t] = "u_free"]
  /\ UNCHANGED <<tail, next, allocated, destroyed, mynode, prev, uprev,
                 unext, unpaired>>

\* atomic_store(&head, mynode): the successor may now enter.
UnlockStore(t) ==
  /\ pc[t] = "u_store"
  /\ head' = unext[t]
  /\ pc' = [pc EXCEPT ![t] = "u_free"]
  /\ UNCHANGED <<tail, next, allocated, destroyed, mynode, prev, uprev,
                 unext, unpaired>>

\* An unlock that frees the node it hands the lock to, its own.
UnlockFreeOwnNode(t) ==
  /\ pc[t] = "u_free"
  /\ allocated' = allocated \ {unext[t]}
  /\ next' = [next EXCEPT ![unext[t]] = Indeterminate]
  /\ pc' = [pc EXCEPT ![t] = "idle"]
  /\ ResetLocals(t)
  /\ UNCHANGED <<head, tail, destroyed>>

\* An unlock that never frees the old head.
UnlockFreeNothing(t) ==
  /\ pc[t] = "u_free"
  /\ pc' = [pc EXCEPT ![t] = "idle"]
  /\ ResetLocals(t)
  /\ UNCHANGED <<head, tail, next, allocated, destroyed>>

\* free(prev)
UnlockFree(t) ==
  /\ pc[t] = "u_free"
  /\ allocated' = allocated \ {uprev[t]}
  /\ next' = [next EXCEPT ![uprev[t]] = Indeterminate]
  /\ pc' = [pc EXCEPT ![t] = "idle"]
  /\ ResetLocals(t)
  /\ UNCHANGED <<head, tail, destroyed>>

\* mpsc_mutex_destroy: free(head), under its precondition that no thread
\* holds the lock or is trying to.
Destroy ==
  /\ ~destroyed
  /\ \A t \in Threads : pc[t] = "idle"
  /\ allocated' = allocated \ {head}
  /\ destroyed' = TRUE
  /\ UNCHANGED <<head, tail, next, pc, mynode, prev, uprev, unext, unpaired>>

\* After mpsc_mutex_destroy the program does nothing more with the lock.
Finished == destroyed /\ UNCHANGED vars

Next ==
  \/ \E t \in Threads :
       \/ Lock(t) \/ Link(t) \/ Spin(t)
       \/ UnlockLoadHead(t) \/ UnlockLoadNext(t) \/ UnlockStore(t)
       \/ UnlockFree(t)
  \/ Destroy
  \/ Finished

\* lock() and unlock() run to their end once scheduled; calling lock() and
\* destroying the lock are the caller's choice.
Fairness == \A t \in Threads :
              /\ WF_vars(Link(t)) /\ WF_vars(Spin(t))
              /\ WF_vars(UnlockLoadHead(t)) /\ WF_vars(UnlockLoadNext(t))
              /\ WF_vars(UnlockStore(t)) /\ WF_vars(UnlockFree(t))

Spec == Init /\ [][Next]_vars /\ Fairness

\* Threads that may also call unlock() without holding the lock.
NextWithUnpairedUnlock == Next \/ \E t \in Threads : UnlockWithoutLock(t)

SpecWithUnpairedUnlock == Init /\ [][NextWithUnpairedUnlock]_vars

-----------------------------------------------------------------------------
(***************************************************************************)
(* Properties                                                              *)
(***************************************************************************)

\* Mutual exclusion: at most one thread is between seeing head equal its
\* predecessor and its store of head in mpsc_mutex_unlock.
Holders == {t \in Threads \ unpaired : pc[t] \in Holding}

MutualExclusion == \A t, u \in Holders : t = u

\* Memory safety of the node hand-off: lock() links into an allocated
\* predecessor; unlock() reads the next of an allocated head, finds there
\* the caller's own node (head->next is mynode, as the comment in
\* mpsc_mutex_unlock assumes), and frees an allocated node, the caller's
\* predecessor.
NoUseAfterFree ==
  \A t \in Threads :
    /\ pc[t] = "link" => prev[t] \in allocated
    /\ pc[t] = "u_next" => uprev[t] \in allocated /\ uprev[t] = prev[t]
    /\ pc[t] = "u_store" => unext[t] = mynode[t]
    /\ pc[t] = "u_free" => uprev[t] \in allocated

\* No leak: when no thread is inside lock() or unlock() exactly one node,
\* head = tail, is allocated, and mpsc_mutex_destroy frees it.
NoLeak ==
  /\ (~destroyed /\ \A t \in Threads : pc[t] = "idle")
        => allocated = {head} /\ head = tail
  /\ destroyed => allocated = {}

\* Starvation freedom: a thread that has exchanged its node into tail
\* eventually sees head reach its predecessor.
StarvationFree ==
  \A t \in Threads : pc[t] \in {"link", "spin"} ~> pc[t] = "cs"

\* Refinement: a thread arrives at its exchange on tail; the waiters form
\* the chain of prev pointers; the lock is released by the store of head.
Waiting == {t \in Threads : pc[t] \in {"link", "spin"}}

RECURSIVE ChainFrom(_, _)
ChainFrom(t, seen) ==
  LET succ == {u \in Waiting \ seen : prev[u] = mynode[t]}
  IN  IF succ = {} THEN <<t>>
      ELSE <<t>> \o ChainFrom(CHOOSE u \in succ : TRUE, seen \cup succ)

AbsQueue ==
  LET first == {t \in Waiting : \A u \in Waiting : prev[t] # mynode[u]}
  IN  IF first = {} THEN <<>>
      ELSE LET f == CHOOSE t \in first : TRUE IN ChainFrom(f, {f})

AbsState(t) == CASE pc[t] \in {"idle", "u_free"} -> "idle"
                 [] t \in Waiting               -> "waiting"
                 [] pc[t] \in Holding            -> "cs"

Abstract == INSTANCE AbstractFifoMutex
              WITH state <- [t \in Threads |-> AbsState(t)],
                   queue <- AbsQueue

\* The MPSC lock implements the FIFO mutex: threads enter in the order of
\* their atomic_exchange on tail, one at a time.
ImplementsFifoMutex == Abstract!Spec
=============================================================================
