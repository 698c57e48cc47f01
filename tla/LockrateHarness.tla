---------------------------- MODULE LockrateHarness ----------------------------
(***************************************************************************)
(* The benchmark of src/lockrate.c: NConsumers linked-list queues q_t, each *)
(* protected by its own lock; producers push their nodes, count themselves *)
(* in g_done under g_mutex, and the one that reads g_done = nproducers      *)
(* pushes a sentinel (data 0) into every queue; each consumer pops its own *)
(* queue until it pops a sentinel.                                          *)
(*                                                                         *)
(* The lock of each q_t is the FIFO mutex every lock module implements     *)
(* (AbstractFifoMutex): lock() appends the caller to wq[c], and the caller *)
(* runs the body of q_push/q_pop and unlock() when it is first in wq[c].   *)
(* Only the holder touches the list, so the body is one step.  main and   *)
(* every thread meet at g_barrier before and after the timed section,     *)
(* producers free their nodes after the last barrier, and main joins them. *)
(***************************************************************************)
EXTENDS Integers, Sequences, SequencesExt, Functions

CONSTANTS
  NProducers,  \* -p
  NConsumers,  \* -c
  NMessages,   \* -m
  Randomize,   \* -r
  NULL

\* main() refuses other arguments (lockrate.c:525).
ASSUME /\ NProducers >= 1 /\ NConsumers >= 1
       /\ NProducers >= NConsumers /\ NMessages >= NConsumers
       /\ Randomize \in BOOLEAN

Producers == 0 .. NProducers - 1
Queues == 0 .. NConsumers - 1
MessagesPerThread == NMessages \div NProducers

\* nodes[i] of producer p, with data i+1, and nodes_tmp[i] of producer p,
\* with data 0.  nodes_tmp is indexed up to nconsumers-1, whatever its size.
Item(p, i) == <<"item", p, i>>
Tmp(p, i) == <<"tmp", p, i>>
Items == {Item(p, i) : p \in Producers, i \in 0 .. MessagesPerThread - 1}
Nodes == Items \cup {Tmp(p, i) : p \in Producers, i \in Queues}
Data(n) == IF n[1] = "tmp" THEN 0 ELSE n[3] + 1

Threads == ({"p"} \X Producers) \cup ({"c"} \X Queues)

\* Every thread and main wait once per staged printf round, i = 0,
\* PRINT_BATCH, .. while i < nconsumers+nproducers+PRINT_BATCH, then twice
\* at the start and once at the end timer barrier (Started waits in all),
\* and twice at the end of the job.
PRINT_BATCH == 2
StagedRounds == (NConsumers + NProducers + PRINT_BATCH + PRINT_BATCH - 1)
                  \div PRINT_BATCH
Started == StagedRounds + 3
NBarriers == Started + 2

VARIABLES
  head,      \* head[c]: Q[c].head, the end q_push appends to
  tail,      \* tail[c]: Q[c].tail, the end q_pop takes from
  next,      \* next[n]: n->node.next
  wq,        \* wq[c]: the threads in lock(&Q[c].lock), in arrival order
  gDone,     \* g_done
  ppc,       \* ppc[p]: where producer p is
  pi,        \* pi[p]: the loop index i of do_produce
  pq,        \* pq[p]: the local q of do_produce
  pdest,     \* pdest[p]: the queue of p's pending q_push
  permute,   \* permute[p]: the shuffle of queue indices of producer p
  cpc,       \* cpc[c]: where consumer c is
  sent,      \* history: the nodes pushed into Q[c], in order
  received,  \* history: the nodes consumer c popped, in order
  passed,    \* the number of times g_barrier has released its waiters
  freed,     \* freed[p]: producer p has freed nodes and nodes_tmp
  joined     \* main has joined every thread

bvars == <<passed, freed, joined>>
vars == <<head, tail, next, wq, gDone, ppc, pi, pq, pdest, permute, cpc,
          sent, received, bvars>>

Ptr == Nodes \cup {NULL}

TypeOK ==
  /\ head \in [Queues -> Ptr] /\ tail \in [Queues -> Ptr]
  /\ next \in [Nodes -> Ptr]
  /\ wq \in [Queues -> Seq(Threads)]
  /\ gDone \in 0 .. NProducers
  /\ ppc \in [Producers -> {"push", "push_wait", "inc", "check", "sentinel",
                            "sentinel_wait", "exit"}]
  /\ pi \in [Producers -> -1 .. MessagesPerThread + NConsumers]
  /\ pq \in [Producers -> Queues] /\ pdest \in [Producers -> Queues]
  /\ permute \in [Producers -> Bijection(Queues, Queues)]
  /\ cpc \in [Queues -> {"pop", "pop_wait", "done"}]
  /\ sent \in [Queues -> Seq(Nodes)] /\ received \in [Queues -> Seq(Nodes)]
  /\ passed \in 0 .. NBarriers
  /\ freed \in [Producers -> BOOLEAN] /\ joined \in BOOLEAN

\* q_create for every queue; do_produce's set-up before the start barrier:
\* q = me % nconsumers, permute a shuffle of 0..nconsumers-1 drawn from
\* urandom, i = messages_per_thread - 1.
Init ==
  /\ head = [c \in Queues |-> NULL] /\ tail = [c \in Queues |-> NULL]
  /\ next = [n \in Nodes |-> NULL]
  /\ wq = [c \in Queues |-> <<>>]
  /\ gDone = 0
  /\ ppc = [p \in Producers |-> "push"]
  /\ pi = [p \in Producers |-> MessagesPerThread - 1]
  /\ pq = [p \in Producers |-> p % NConsumers]
  /\ pdest = [p \in Producers |-> p % NConsumers]
  /\ permute \in [Producers -> Bijection(Queues, Queues)]
  /\ cpc = [c \in Queues |-> "pop"]
  /\ sent = [c \in Queues |-> <<>>] /\ received = [c \in Queues |-> <<>>]
  /\ passed = 0
  /\ freed = [p \in Producers |-> FALSE] /\ joined = FALSE

-----------------------------------------------------------------------------
(***************************************************************************)
(* q_push and q_pop                                                        *)
(***************************************************************************)

\* lock(&Q[c].lock): thread t queues for the lock.
Arrive(t, c) == wq' = [wq EXCEPT ![c] = Append(wq[c], t)]

\* t holds Q[c].lock; unlock() hands it to the next in line.
Holds(t, c) == wq[c] # <<>> /\ Head(wq[c]) = t
Release(c) == wq' = [wq EXCEPT ![c] = Tail(wq[c])]

\* The body of q_push(&Q[c], n): n->next = NULL, then either both ends
\* become n or the old head links to n and n becomes head.
ListPush(c, n) ==
  /\ IF head[c] = NULL
       THEN /\ next' = [next EXCEPT ![n] = NULL]
            /\ tail' = [tail EXCEPT ![c] = n]
       ELSE /\ next' = [next EXCEPT ![n] = NULL, ![head[c]] = n]
            /\ UNCHANGED tail
  /\ head' = [head EXCEPT ![c] = n]
  /\ sent' = [sent EXCEPT ![c] = Append(sent[c], n)]

\* A q_pop that leaves both ends in place when it takes the last node.
ListPopNoReset(c) ==
  /\ IF next[tail[c]] = NULL
       THEN UNCHANGED <<head, tail>>
       ELSE /\ tail' = [tail EXCEPT ![c] = next[tail[c]]]
            /\ UNCHANGED head
  /\ received' = [received EXCEPT ![c] = Append(received[c], tail[c])]

\* The body of q_pop(&Q[c]) when the queue is not empty: rc = tail; the
\* queue becomes empty when rc has no next, otherwise tail moves on.
ListPop(c) ==
  /\ IF next[tail[c]] = NULL
       THEN /\ head' = [head EXCEPT ![c] = NULL]
            /\ tail' = [tail EXCEPT ![c] = NULL]
       ELSE /\ tail' = [tail EXCEPT ![c] = next[tail[c]]]
            /\ UNCHANGED head
  /\ received' = [received EXCEPT ![c] = Append(received[c], tail[c])]

-----------------------------------------------------------------------------
(***************************************************************************)
(* do_produce                                                              *)
(***************************************************************************)

\* for(i = messages_per_thread-1; i >= 0; --i): with -r, q = (q+1) %
\* nconsumers and the node goes to Q[permute[q]]; otherwise to Q[q].
PushArrive(p) ==
  LET q == IF Randomize THEN (pq[p] + 1) % NConsumers ELSE pq[p]
      d == IF Randomize THEN permute[p][q] ELSE q
  IN  /\ ppc[p] = "push"
      /\ passed = Started
      /\ pq' = [pq EXCEPT ![p] = q]
      /\ pdest' = [pdest EXCEPT ![p] = d]
      /\ Arrive(<<"p", p>>, d)
      /\ ppc' = [ppc EXCEPT ![p] = "push_wait"]
      /\ UNCHANGED <<head, tail, next, gDone, pi, permute, bvars, cpc, sent,
                     received>>

\* A producer loop that runs while i >= -1.
PushBodyOffByOne(p) ==
  /\ ppc[p] = "push_wait"
  /\ Holds(<<"p", p>>, pdest[p])
  /\ ListPush(pdest[p], Item(p, pi[p]))
  /\ Release(pdest[p])
  /\ pi' = [pi EXCEPT ![p] = pi[p] - 1]
  /\ ppc' = [ppc EXCEPT ![p] = IF pi[p] - 1 >= -1 THEN "push" ELSE "inc"]
  /\ UNCHANGED <<gDone, pq, pdest, permute, bvars, cpc, received>>

\* q_push(&Q[..], &nodes[i].node) under the lock; the loop goes on while
\* i >= 0.
PushBody(p) ==
  /\ ppc[p] = "push_wait"
  /\ Holds(<<"p", p>>, pdest[p])
  /\ ListPush(pdest[p], Item(p, pi[p]))
  /\ Release(pdest[p])
  /\ pi' = [pi EXCEPT ![p] = pi[p] - 1]
  /\ ppc' = [ppc EXCEPT ![p] = IF pi[p] - 1 >= 0 THEN "push" ELSE "inc"]
  /\ UNCHANGED <<gDone, pq, pdest, permute, bvars, cpc, received>>

\* pthread_mutex_lock(&g_mutex); g_done++; pthread_mutex_unlock(&g_mutex)
IncDone(p) ==
  /\ ppc[p] = "inc"
  /\ gDone' = gDone + 1
  /\ ppc' = [ppc EXCEPT ![p] = "check"]
  /\ UNCHANGED <<head, tail, next, wq, pi, pq, pdest, permute, bvars, cpc, sent,
                 received>>

\* A test that fires when all producers but one have counted themselves.
CheckDoneEarly(p) ==
  /\ ppc[p] = "check"
  /\ ppc' = [ppc EXCEPT ![p] = IF gDone >= NProducers - 1 THEN "sentinel"
                                                          ELSE "exit"]
  /\ pi' = [pi EXCEPT ![p] = 0]
  /\ UNCHANGED <<head, tail, next, wq, gDone, pq, pdest, permute, bvars, cpc, sent,
                 received>>

\* A test that never fires.
CheckDoneNever(p) ==
  /\ ppc[p] = "check"
  /\ ppc' = [ppc EXCEPT ![p] = IF gDone > NProducers THEN "sentinel"
                                                     ELSE "exit"]
  /\ pi' = [pi EXCEPT ![p] = 0]
  /\ UNCHANGED <<head, tail, next, wq, gDone, pq, pdest, permute, bvars, cpc, sent,
                 received>>

\* if(g_done == nproducers), read without g_mutex: the producer that sees
\* every producer counted mallocs nodes_tmp and starts the loop i = 0.
CheckDone(p) ==
  /\ ppc[p] = "check"
  /\ ppc' = [ppc EXCEPT ![p] = IF gDone = NProducers THEN "sentinel"
                                                     ELSE "exit"]
  /\ pi' = [pi EXCEPT ![p] = 0]
  /\ UNCHANGED <<head, tail, next, wq, gDone, pq, pdest, permute, bvars, cpc, sent,
                 received>>

\* nodes_tmp[i].data = 0; q_push(&Q[i], &nodes_tmp[i].node) takes the lock.
SentinelArrive(p) ==
  /\ ppc[p] = "sentinel"
  /\ Arrive(<<"p", p>>, pi[p])
  /\ ppc' = [ppc EXCEPT ![p] = "sentinel_wait"]
  /\ UNCHANGED <<head, tail, next, gDone, pi, pq, pdest, permute, bvars, cpc, sent,
                 received>>

\* The body of that q_push; the loop goes on while i < nconsumers.
SentinelBody(p) ==
  /\ ppc[p] = "sentinel_wait"
  /\ Holds(<<"p", p>>, pi[p])
  /\ ListPush(pi[p], Tmp(p, pi[p]))
  /\ Release(pi[p])
  /\ pi' = [pi EXCEPT ![p] = pi[p] + 1]
  /\ ppc' = [ppc EXCEPT ![p] = IF pi[p] + 1 < NConsumers THEN "sentinel"
                                                         ELSE "exit"]
  /\ UNCHANGED <<gDone, pq, pdest, permute, bvars, cpc, received>>

-----------------------------------------------------------------------------
(***************************************************************************)
(* do_consume                                                              *)
(***************************************************************************)

\* q_pop(&Q[me]) takes the lock.
PopArrive(c) ==
  /\ cpc[c] = "pop"
  /\ passed = Started
  /\ Arrive(<<"c", c>>, c)
  /\ cpc' = [cpc EXCEPT ![c] = "pop_wait"]
  /\ UNCHANGED <<head, tail, next, gDone, ppc, pi, pq, pdest, permute, bvars, sent,
                 received>>

\* The body of q_pop and unlock(); NULL makes the loop continue, a node
\* with data 0 ends it.
PopBody(c) ==
  /\ cpc[c] = "pop_wait"
  /\ Holds(<<"c", c>>, c)
  /\ Release(c)
  /\ IF tail[c] = NULL
       THEN /\ cpc' = [cpc EXCEPT ![c] = "pop"]
            /\ UNCHANGED <<head, tail, received>>
       ELSE /\ ListPop(c)
            /\ cpc' = [cpc EXCEPT ![c] = IF Data(tail[c]) = 0 THEN "done"
                                                             ELSE "pop"]
  /\ UNCHANGED <<next, gDone, ppc, pi, pq, pdest, permute, bvars, sent>>

-----------------------------------------------------------------------------
(***************************************************************************)
(* g_barrier, and the end of every thread                                  *)
(***************************************************************************)

\* A thread blocked in pthread_barrier_wait(&g_barrier) ...  do_produce
\* waits in the staged printf rounds, the start and the end timer barriers
\* before its loop, and in the two end of job barriers after it ...
ProducerAtBarrier(p) ==
  \/ passed < Started
  \/ ppc[p] = "exit" /\ passed \in Started .. NBarriers - 1

\* ... do_consume likewise, the end of job barriers once it is done ...
ConsumerAtBarrier(c) ==
  \/ passed < Started
  \/ cpc[c] = "done" /\ passed \in Started .. NBarriers - 1

\* ... and main, after spawning the threads, at every barrier in turn.
MainAtBarrier == passed < NBarriers

\* The barrier, initialised for nproducers+nconsumers+1 threads, releases
\* them once every one of them waits in it.  A thread's arrival changes no
\* shared state and is not a step of its own.
BarrierRelease ==
  /\ MainAtBarrier
  /\ \A p \in Producers : ProducerAtBarrier(p)
  /\ \A c \in Queues : ConsumerAtBarrier(c)
  /\ passed' = passed + 1
  /\ UNCHANGED <<freed, joined>>
  /\ UNCHANGED <<head, tail, next, wq, gDone, ppc, pi, pq, pdest, permute,
                 cpc, sent, received>>

\* A producer that frees its nodes before the end of job barriers.
ProducerFreeEarly(p) ==
  /\ ppc[p] = "exit"
  /\ ~freed[p]
  /\ freed' = [freed EXCEPT ![p] = TRUE]
  /\ UNCHANGED <<passed, joined>>
  /\ UNCHANGED <<head, tail, next, wq, gDone, ppc, pi, pq, pdest, permute,
                 cpc, sent, received>>

\* if(nodes_tmp) free(nodes_tmp); free(nodes); free(permute);
\* pthread_exit.
ProducerFree(p) ==
  /\ passed = NBarriers
  /\ ~freed[p]
  /\ freed' = [freed EXCEPT ![p] = TRUE]
  /\ UNCHANGED <<passed, joined>>
  /\ UNCHANGED <<head, tail, next, wq, gDone, ppc, pi, pq, pdest, permute,
                 cpc, sent, received>>

\* pthread_join on every producer, then on every consumer: each has passed
\* the last barrier, and a producer has freed its nodes.
MainJoin ==
  /\ passed = NBarriers
  /\ ~joined
  /\ \A p \in Producers : freed[p]
  /\ joined' = TRUE
  /\ UNCHANGED <<passed, freed>>
  /\ UNCHANGED <<head, tail, next, wq, gDone, ppc, pi, pq, pdest, permute,
                 cpc, sent, received>>

\* main prints the rates and returns 0.
Finished ==
  /\ joined
  /\ UNCHANGED vars

Producer(p) ==
  \/ PushArrive(p) \/ PushBody(p) \/ IncDone(p) \/ CheckDone(p)
  \/ SentinelArrive(p) \/ SentinelBody(p)
  \/ ProducerFree(p)

Consumer(c) == PopArrive(c) \/ PopBody(c)

Next ==
  \/ \E p \in Producers : Producer(p)
  \/ \E c \in Queues : Consumer(c)
  \/ BarrierRelease \/ MainJoin
  \/ Finished

\* Benchmark threads run their loops to the end; a lock's waiter is
\* eventually first in line because every lock is FIFO; a barrier whose
\* threads all wait releases them, and joins of exited threads return.
Fairness ==
  /\ \A p \in Producers : WF_vars(Producer(p))
  /\ \A c \in Queues : WF_vars(Consumer(c))
  /\ WF_vars(BarrierRelease) /\ WF_vars(MainJoin)

Spec == Init /\ [][Next]_vars /\ Fairness

-----------------------------------------------------------------------------
(***************************************************************************)
(* Properties                                                              *)
(***************************************************************************)

\* Each consumer pops exactly the nodes pushed into its queue, in the order
\* of the pushes, none lost and none twice: the list operations of q_push
\* and q_pop, serialised by the queue's lock, keep Q[c] a FIFO queue while
\* producers and the consumer contend for it.
QueueIsFifo == \A c \in Queues : IsPrefix(received[c], sent[c])

\* A consumer stops only after it has popped every item pushed into its
\* queue: the sentinel is pushed only by a producer that read g_done =
\* nproducers, outside g_mutex, and every producer counts itself only after
\* its last q_push.
ConsumerDrainsBeforeStop ==
  \A c \in Queues :
    cpc[c] = "done" => ToSet(sent[c]) \cap Items \subseteq ToSet(received[c])

\* No node is freed while it can still be used: a producer frees nodes and
\* nodes_tmp only when every consumer has popped its sentinel and no
\* producer still has a q_push pending, whose body writes the next field of
\* the queue's last node, possibly another producer's.  Only the end of job
\* barriers order the frees after the other threads' work.
NoUseAfterFree ==
  \A p \in Producers :
    freed[p] => /\ \A c \in Queues : cpc[c] = "done"
                /\ \A q \in Producers : ppc[q] = "exit"

\* The benchmark ends and main returns: some producer reads g_done =
\* nproducers and pushes the sentinels, although g_done is read without
\* g_mutex, every consumer pops one and reaches the end of job barrier.
Termination == <>joined

\* The sentinel loop writes nodes_tmp[i] for i < nconsumers into an array
\* of messages_per_thread nodes: no producer reaches that write with i
\* past the end.
SentinelInBounds ==
  \A p \in Producers :
    ppc[p] \in {"sentinel", "sentinel_wait"} => pi[p] < MessagesPerThread
=============================================================================
