------------------------------ MODULE VyukovQueue ------------------------------
(***************************************************************************)
(* Vyukov's intrusive multi-producer single-consumer queue, src/vyukov_q.h: *)
(* one mpscq_t per element of Queues, as initQ creates them.  This module   *)
(* holds the queues' state and one action per shared-memory step of         *)
(* mpscq_push and mpscq_pop; the threads that call them, and when, are the  *)
(* business of the module that composes it (QrateHarness).                  *)
(*                                                                         *)
(* A node is an element of Elems, or Stub(c), the stub embedded in queue c. *)
(* self->tail is written and read by the consumer only and is read in the  *)
(* step of its first use.  sent and received are history variables: the    *)
(* nodes pushed to each queue in the order of their exchange on head, and   *)
(* the nodes mpscq_pop returned, in order.                                  *)
(***************************************************************************)
EXTENDS Integers, Sequences
LOCAL INSTANCE SequencesExt

CONSTANTS
  Queues,   \* the mpscq_t of the array Q
  Pushers,  \* the threads calling mpscq_push
  Elems,    \* the work nodes pushed
  NULL      \* 0

Stub(c) == <<"stub", c>>
Nodes == Elems \cup {Stub(c) : c \in Queues}
Ptr == Nodes \cup {NULL}

ASSUME NULL \notin Nodes

VARIABLES
  head,     \* head[c]: Q[c].head, where producers exchange their node
  tail,     \* tail[c]: Q[c].tail, the consumer's end
  next,     \* next[n]: n->next
  prev,     \* prev[t]: local prev of the mpscq_push of thread t
  cpc,      \* cpc[c]: where the consumer of queue c is in mpscq_pop
  ctail,    \* ctail[c]: local tail of mpscq_pop
  cnext,    \* cnext[c]: local next of mpscq_pop
  sprev,    \* sprev[c]: local prev of the stub's mpscq_push inside mpscq_pop
  sent,     \* history: sent[c], the nodes exchanged onto Q[c].head, in order
  received  \* history: received[c], the nodes mpscq_pop(Q[c]) returned

qvars == <<head, tail, next, prev, cpc, ctail, cnext, sprev, sent, received>>

TypeOK ==
  /\ head \in [Queues -> Nodes] /\ tail \in [Queues -> Nodes]
  /\ next \in [Nodes -> Ptr]
  /\ prev \in [Pushers -> Ptr]
  /\ cpc \in [Queues -> {"read", "stub_next", "read_head", "stub_clear",
                         "stub_xchg", "stub_link", "reread"}]
  /\ ctail \in [Queues -> Nodes] /\ cnext \in [Queues -> Ptr]
  /\ sprev \in [Queues -> Nodes]
  /\ sent \in [Queues -> Seq(Elems)] /\ received \in [Queues -> Seq(Nodes)]

\* initQ: mpscq_create on every queue.  A node's next is written by its push
\* before anything reads it.
Init ==
  /\ head = [c \in Queues |-> Stub(c)] /\ tail = [c \in Queues |-> Stub(c)]
  /\ next = [n \in Nodes |-> NULL]
  /\ prev = [t \in Pushers |-> NULL]
  /\ cpc = [c \in Queues |-> "read"]
  /\ ctail = [c \in Queues |-> Stub(c)] /\ cnext = [c \in Queues |-> NULL]
  /\ sprev = [c \in Queues |-> Stub(c)]
  /\ sent = [c \in Queues |-> <<>>] /\ received = [c \in Queues |-> <<>>]

-----------------------------------------------------------------------------
(***************************************************************************)
(* mpscq_push(&Q[c], n) by thread t                                        *)
(***************************************************************************)

\* n->next = 0; prev = __sync_lock_test_and_set(&self->head, n).  The node is
\* the caller's own until the exchange, so its initialisation is part of it.
PushXchg(t, c, n) ==
  /\ next' = [next EXCEPT ![n] = NULL]
  /\ prev' = [prev EXCEPT ![t] = head[c]]
  /\ head' = [head EXCEPT ![c] = n]
  /\ sent' = [sent EXCEPT ![c] = Append(@, n)]
  /\ UNCHANGED <<tail, cpc, ctail, cnext, sprev, received>>

\* prev->next = n.
PushLink(t, n) ==
  /\ next' = [next EXCEPT ![prev[t]] = n]
  /\ UNCHANGED <<head, tail, prev, cpc, ctail, cnext, sprev, sent, received>>

-----------------------------------------------------------------------------
(***************************************************************************)
(* mpscq_pop(&Q[c]) by the consumer of queue c; every return goes back to  *)
(* "read", where the caller's next call starts.                            *)
(***************************************************************************)

\* mpscq_pop returns 0.
ReturnEmpty(c) ==
  /\ cpc' = [cpc EXCEPT ![c] = "read"]
  /\ UNCHANGED received

\* self->tail = nx; return n.
ReturnNode(c, n, nx) ==
  /\ tail' = [tail EXCEPT ![c] = nx]
  /\ received' = [received EXCEPT ![c] = Append(@, n)]
  /\ cpc' = [cpc EXCEPT ![c] = "read"]

\* tail = self->tail; next = tail->next; if tail is the stub, return 0 when
\* next is 0 and otherwise skip the stub; if next, return tail.
PopRead(c) ==
  /\ cpc[c] = "read"
  /\ ctail' = [ctail EXCEPT ![c] = tail[c]]
  /\ cnext' = [cnext EXCEPT ![c] = next[tail[c]]]
  /\ CASE tail[c] = Stub(c) /\ next[tail[c]] = NULL ->
            ReturnEmpty(c) /\ UNCHANGED tail
       [] tail[c] = Stub(c) ->
            /\ tail' = [tail EXCEPT ![c] = next[tail[c]]]
            /\ cpc' = [cpc EXCEPT ![c] = "stub_next"]
            /\ UNCHANGED received
       [] next[tail[c]] # NULL ->
            ReturnNode(c, tail[c], next[tail[c]])
       [] OTHER ->
            /\ cpc' = [cpc EXCEPT ![c] = "read_head"]
            /\ UNCHANGED <<tail, received>>
  /\ UNCHANGED <<head, next, prev, sprev, sent>>

\* After skipping the stub: tail = next; next = next->next; if next,
\* return tail.
PopStubNext(c) ==
  /\ cpc[c] = "stub_next"
  /\ ctail' = [ctail EXCEPT ![c] = cnext[c]]
  /\ cnext' = [cnext EXCEPT ![c] = next[cnext[c]]]
  /\ IF next[cnext[c]] # NULL
       THEN ReturnNode(c, cnext[c], next[cnext[c]])
       ELSE /\ cpc' = [cpc EXCEPT ![c] = "read_head"]
            /\ UNCHANGED <<tail, received>>
  /\ UNCHANGED <<head, next, prev, sprev, sent>>

\* A pop that reports empty whenever tail->next is 0, never pushing the stub.
PopReadHeadNoStub(c) ==
  /\ cpc[c] = "read_head"
  /\ ReturnEmpty(c)
  /\ UNCHANGED <<head, tail, next, prev, ctail, cnext, sprev, sent>>

\* head = self->head; if (tail != head) return 0: a push has exchanged
\* head and not linked yet.
PopReadHead(c) ==
  /\ cpc[c] = "read_head"
  /\ IF ctail[c] # head[c]
       THEN ReturnEmpty(c)
       ELSE cpc' = [cpc EXCEPT ![c] = "stub_clear"] /\ UNCHANGED received
  /\ UNCHANGED <<head, tail, next, prev, ctail, cnext, sprev, sent>>

\* A stub re-push that leaves the stub's old next in place.
PopStubClearSkipped(c) ==
  /\ cpc[c] = "stub_clear"
  /\ cpc' = [cpc EXCEPT ![c] = "stub_xchg"]
  /\ UNCHANGED <<head, tail, next, prev, ctail, cnext, sprev, sent, received>>

\* mpscq_push(self, &self->stub): stub.next = 0 ...
PopStubClear(c) ==
  /\ cpc[c] = "stub_clear"
  /\ next' = [next EXCEPT ![Stub(c)] = NULL]
  /\ cpc' = [cpc EXCEPT ![c] = "stub_xchg"]
  /\ UNCHANGED <<head, tail, prev, ctail, cnext, sprev, sent, received>>

\* ... prev = __sync_lock_test_and_set(&head, &stub) ...
PopStubXchg(c) ==
  /\ cpc[c] = "stub_xchg"
  /\ sprev' = [sprev EXCEPT ![c] = head[c]]
  /\ head' = [head EXCEPT ![c] = Stub(c)]
  /\ cpc' = [cpc EXCEPT ![c] = "stub_link"]
  /\ UNCHANGED <<tail, next, prev, ctail, cnext, sent, received>>

\* ... prev->next = &stub.
PopStubLink(c) ==
  /\ cpc[c] = "stub_link"
  /\ next' = [next EXCEPT ![sprev[c]] = Stub(c)]
  /\ cpc' = [cpc EXCEPT ![c] = "reread"]
  /\ UNCHANGED <<head, tail, prev, ctail, cnext, sprev, sent, received>>

\* A pop that takes the just-pushed stub for tail's successor.
PopRereadAssumeStub(c) ==
  /\ cpc[c] = "reread"
  /\ cnext' = [cnext EXCEPT ![c] = Stub(c)]
  /\ ReturnNode(c, ctail[c], Stub(c))
  /\ UNCHANGED <<head, next, prev, ctail, sprev, sent>>

\* A pop that returns tail without testing next after the stub push.
PopRereadNoCheck(c) ==
  /\ cpc[c] = "reread"
  /\ cnext' = [cnext EXCEPT ![c] = next[ctail[c]]]
  /\ ReturnNode(c, ctail[c], next[ctail[c]])
  /\ UNCHANGED <<head, next, prev, ctail, sprev, sent>>

\* next = tail->next; if next, return tail; otherwise return 0.
PopReread(c) ==
  /\ cpc[c] = "reread"
  /\ cnext' = [cnext EXCEPT ![c] = next[ctail[c]]]
  /\ IF next[ctail[c]] # NULL
       THEN ReturnNode(c, ctail[c], next[ctail[c]])
       ELSE ReturnEmpty(c) /\ UNCHANGED tail
  /\ UNCHANGED <<head, next, prev, ctail, sprev, sent>>

\* One step of mpscq_pop(&Q[c]).
Pop(c) ==
  \/ PopRead(c) \/ PopStubNext(c) \/ PopReadHead(c) \/ PopStubClear(c)
  \/ PopStubXchg(c) \/ PopStubLink(c) \/ PopReread(c)

\* The step returns a node to the caller.
Returns(c) == Len(received'[c]) > Len(received[c])

-----------------------------------------------------------------------------
(***************************************************************************)
(* Properties                                                              *)
(***************************************************************************)

\* Each queue is FIFO in the order of the exchanges on head, exactly once:
\* mpscq_pop never returns the stub, and the nodes it returns are, in order,
\* a prefix of the nodes exchanged onto head, although the stub is taken out
\* and pushed back between them and producers race on head.
QueueIsFifo == \A c \in Queues : IsPrefix(received[c], sent[c])

\* Once mpscq_pop has handed a node back to the caller, no step of the
\* queue writes its next field: neither a producer still between its
\* exchange on head and its link (prev->next = n), nor the stub re-push.
ReturnedNodeUntouched ==
  [][\A c \in Queues : \A i \in 1 .. Len(received[c]) :
       next'[received[c][i]] = next[received[c][i]]]_qvars
=============================================================================
