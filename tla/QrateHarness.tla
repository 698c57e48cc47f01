----------------------------- MODULE QrateHarness -----------------------------
(***************************************************************************)
(* The benchmark of src/qrate.cc built with QUEUE_METHOD == VYUKOV_QUEUE:  *)
(* one Vyukov queue per consumer (VyukovQueue); producers push their       *)
(* nodes, count themselves in g_done under g_mutex, and the one that reads *)
(* g_done = nproducers pushes a sentinel (data 0) into every queue; each   *)
(* consumer pops its own queue until it pops a sentinel.                    *)
(*                                                                         *)
(* The queue's variables are shared with VyukovQueue, whose actions are    *)
(* the steps of mpscq_push and mpscq_pop; this module adds the threads'    *)
(* control: main and every thread meet at g_barrier before and after the   *)
(* timed section, producers free their nodes after the last barrier, and   *)
(* main joins them all.                                                     *)
(***************************************************************************)
EXTENDS Integers, Sequences, SequencesExt, Functions

CONSTANTS
  NProducers,  \* -p
  NConsumers,  \* -c
  NMessages,   \* -m
  Randomize,   \* -r
  NULL

\* main() refuses other arguments (qrate.cc:316).
ASSUME /\ NProducers >= 1 /\ NConsumers >= 1
       /\ NProducers >= NConsumers /\ NMessages >= NConsumers
       /\ Randomize \in BOOLEAN

Producers == 0 .. NProducers - 1
Queues == 0 .. NConsumers - 1
MessagesPerThread == NMessages \div NProducers

\* nodes[i] of producer p, with data 1+i, and nodes_tmp[i] of producer p,
\* with data 0.  nodes_tmp is indexed up to nconsumers-1, whatever its size.
Item(p, i) == <<"item", p, i>>
Tmp(p, i) == <<"tmp", p, i>>
Items == {Item(p, i) : p \in Producers, i \in 0 .. MessagesPerThread - 1}
Tmps == {Tmp(p, i) : p \in Producers, i \in Queues}
Data(n) == IF n[1] = "tmp" THEN 0 ELSE n[3] + 1

\* Every thread and main wait once per staged printf round, i = 0,
\* PRINT_BATCH, .. while i < nconsumers+nproducers+PRINT_BATCH, then twice
\* at the start and once at the end timer barrier (Started waits in all),
\* and twice at the end of the job.
PRINT_BATCH == 2
StagedRounds == (NConsumers + NProducers + PRINT_BATCH + PRINT_BATCH - 1)
                  \div PRINT_BATCH
Started == StagedRounds + 3
NBarriers == Started + 2

VARIABLES
  head, tail, next, prev, cpc, ctail, cnext, sprev, sent, received,  \* Q
  gDone,     \* g_done
  ppc,       \* ppc[p]: where producer p is
  pi,        \* pi[p]: the loop index i of do_produce
  pq,        \* pq[p]: the local q of do_produce
  permute,   \* permute[p]: the shuffle of queue indices of producer p
  done,      \* done[c]: the local done of do_consume
  passed,    \* the number of times g_barrier has released its waiters
  freed,     \* freed[p]: producer p has freed nodes and nodes_tmp
  joined     \* main has joined every thread

V == INSTANCE VyukovQueue WITH Queues <- Queues, Pushers <- Producers,
                               Elems <- Items \cup Tmps

vars == <<head, tail, next, prev, cpc, ctail, cnext, sprev, sent, received,
          gDone, ppc, pi, pq, permute, done, passed, freed, joined>>
bvars == <<passed, freed, joined>>
qvars == <<head, tail, next, prev, cpc, ctail, cnext, sprev, sent, received>>

TypeOK ==
  /\ V!TypeOK
  /\ gDone \in 0 .. NProducers
  /\ ppc \in [Producers -> {"xchg", "link", "inc", "check", "sentinel_xchg",
                            "sentinel_link", "exit"}]
  /\ pi \in [Producers -> -1 .. NConsumers]
  /\ pq \in [Producers -> Queues]
  /\ permute \in [Producers -> Bijection(Queues, Queues)]
  /\ done \in [Queues -> BOOLEAN]
  /\ passed \in 0 .. NBarriers
  /\ freed \in [Producers -> BOOLEAN] /\ joined \in BOOLEAN

\* initQ; do_produce's set-up before the start barrier: q = me % nconsumers,
\* permute a shuffle of 0..nconsumers-1 drawn from urandom, i =
\* messages_per_thread - 1; do_consume's done = 0.
Init ==
  /\ V!Init
  /\ gDone = 0
  /\ ppc = [p \in Producers |-> "xchg"]
  /\ pi = [p \in Producers |-> MessagesPerThread - 1]
  /\ pq = [p \in Producers |-> p % NConsumers]
  /\ permute \in [Producers -> Bijection(Queues, Queues)]
  /\ done = [c \in Queues |-> FALSE]
  /\ passed = 0
  /\ freed = [p \in Producers |-> FALSE] /\ joined = FALSE

-----------------------------------------------------------------------------
(***************************************************************************)
(* do_produce                                                              *)
(***************************************************************************)

\* for(i = messages_per_thread-1; i >= 0; --i): with -r, q = (q+1) %
\* nconsumers and enqueue(Q[permute[q]], nodes[i]); otherwise
\* enqueue_tok(Q[q], ..): the exchange of mpscq_push ...
ProduceXchg(p) ==
  LET q == IF Randomize THEN (pq[p] + 1) % NConsumers ELSE pq[p]
      d == IF Randomize THEN permute[p][q] ELSE q
  IN  /\ ppc[p] = "xchg"
      /\ passed = Started
      /\ pq' = [pq EXCEPT ![p] = q]
      /\ V!PushXchg(p, d, Item(p, pi[p]))
      /\ ppc' = [ppc EXCEPT ![p] = "link"]
      /\ UNCHANGED <<gDone, pi, permute, done, bvars>>

\* A producer loop that runs while i >= -1.
ProduceLinkOffByOne(p) ==
  /\ ppc[p] = "link"
  /\ V!PushLink(p, Item(p, pi[p]))
  /\ pi' = [pi EXCEPT ![p] = pi[p] - 1]
  /\ ppc' = [ppc EXCEPT ![p] = IF pi[p] - 1 >= -1 THEN "xchg" ELSE "inc"]
  /\ UNCHANGED <<gDone, pq, permute, done, bvars>>

\* ... and its link; the loop goes on while i >= 0.
ProduceLink(p) ==
  /\ ppc[p] = "link"
  /\ V!PushLink(p, Item(p, pi[p]))
  /\ pi' = [pi EXCEPT ![p] = pi[p] - 1]
  /\ ppc' = [ppc EXCEPT ![p] = IF pi[p] - 1 >= 0 THEN "xchg" ELSE "inc"]
  /\ UNCHANGED <<gDone, pq, permute, done, bvars>>

\* pthread_mutex_lock(&g_mutex); g_done++; pthread_mutex_unlock(&g_mutex)
IncDone(p) ==
  /\ ppc[p] = "inc"
  /\ gDone' = gDone + 1
  /\ ppc' = [ppc EXCEPT ![p] = "check"]
  /\ UNCHANGED <<pi, pq, permute, done, bvars>>
  /\ UNCHANGED qvars

\* A test that fires when all producers but one have counted themselves.
CheckDoneEarly(p) ==
  /\ ppc[p] = "check"
  /\ ppc' = [ppc EXCEPT ![p] = IF gDone >= NProducers - 1 THEN "sentinel_xchg"
                                                          ELSE "exit"]
  /\ pi' = [pi EXCEPT ![p] = 0]
  /\ UNCHANGED <<gDone, pq, permute, done, bvars>>
  /\ UNCHANGED qvars

\* if(g_done == nproducers), read without g_mutex: the producer that sees
\* every producer counted mallocs nodes_tmp and starts the loop i = 0.
CheckDone(p) ==
  /\ ppc[p] = "check"
  /\ ppc' = [ppc EXCEPT ![p] = IF gDone = NProducers THEN "sentinel_xchg"
                                                     ELSE "exit"]
  /\ pi' = [pi EXCEPT ![p] = 0]
  /\ UNCHANGED <<gDone, pq, permute, done, bvars>>
  /\ UNCHANGED qvars

\* nodes_tmp[i].data = 0; enqueue(Q[i], nodes_tmp[i]): the exchange ...
SentinelXchg(p) ==
  /\ ppc[p] = "sentinel_xchg"
  /\ V!PushXchg(p, pi[p], Tmp(p, pi[p]))
  /\ ppc' = [ppc EXCEPT ![p] = "sentinel_link"]
  /\ UNCHANGED <<gDone, pi, pq, permute, done, bvars>>

\* ... and the link; the loop goes on while i < nconsumers.
SentinelLink(p) ==
  /\ ppc[p] = "sentinel_link"
  /\ V!PushLink(p, Tmp(p, pi[p]))
  /\ pi' = [pi EXCEPT ![p] = pi[p] + 1]
  /\ ppc' = [ppc EXCEPT ![p] = IF pi[p] + 1 < NConsumers THEN "sentinel_xchg"
                                                         ELSE "exit"]
  /\ UNCHANGED <<gDone, pq, permute, done, bvars>>

-----------------------------------------------------------------------------
(***************************************************************************)
(* do_consume                                                              *)
(***************************************************************************)

\* while(!done): try_dequeue_bulk(Q[me], ..) is one mpscq_pop, whose steps
\* these are; a returned node with data 0 sets done.
Consume(c) ==
  /\ ~done[c]
  /\ passed = Started
  /\ V!Pop(c)
  /\ done' = [done EXCEPT ![c] = V!Returns(c) /\ Data(Last(received'[c])) = 0]
  /\ UNCHANGED <<gDone, ppc, pi, pq, permute, bvars>>

-----------------------------------------------------------------------------
(***************************************************************************)
(* g_barrier, and the end of every thread                                  *)
(***************************************************************************)

\* A thread blocked in pthread_barrier_wait(&g_barrier) ...  do_produce
\* waits in the staged printf rounds, the start and the end timer barriers
\* before its loop, and in the two end of job barriers after it ...
ProducerAtBarrier(p) ==
  \/ passed < Started
  \/ ppc[p] = "exit" /\ passed \in Started .. NBarriers - 1

\* ... do_consume likewise, the end of job barriers once it is done ...
ConsumerAtBarrier(c) ==
  \/ passed < Started
  \/ done[c] /\ passed \in Started .. NBarriers - 1

\* ... and main, after spawning the threads, at every barrier in turn.
MainAtBarrier == passed < NBarriers

\* The barrier, initialised for nproducers+nconsumers+1 threads, releases
\* them once every one of them waits in it.  A thread's arrival changes no
\* shared state and is not a step of its own.
BarrierRelease ==
  /\ MainAtBarrier
  /\ \A p \in Producers : ProducerAtBarrier(p)
  /\ \A c \in Queues : ConsumerAtBarrier(c)
  /\ passed' = passed + 1
  /\ UNCHANGED <<freed, joined>>
  /\ UNCHANGED <<qvars, gDone, ppc, pi, pq, permute, done>>

\* A producer that frees its nodes as soon as it has pushed them.
ProducerFreeEarly(p) ==
  /\ ppc[p] = "exit"
  /\ passed >= Started
  /\ ~freed[p]
  /\ freed' = [freed EXCEPT ![p] = TRUE]
  /\ UNCHANGED <<passed, joined>>
  /\ UNCHANGED <<qvars, gDone, ppc, pi, pq, permute, done>>

\* if(nodes_tmp) free(nodes_tmp); free(nodes); free(permute);
\* pthread_exit.
ProducerFree(p) ==
  /\ passed = NBarriers
  /\ ~freed[p]
  /\ freed' = [freed EXCEPT ![p] = TRUE]
  /\ UNCHANGED <<passed, joined>>
  /\ UNCHANGED <<qvars, gDone, ppc, pi, pq, permute, done>>

\* pthread_join on every producer, then on every consumer: each has passed
\* the last barrier, and a producer has freed its nodes.
MainJoin ==
  /\ passed = NBarriers
  /\ ~joined
  /\ \A p \in Producers : freed[p]
  /\ \A c \in Queues : passed = NBarriers
  /\ joined' = TRUE
  /\ UNCHANGED <<passed, freed>>
  /\ UNCHANGED <<qvars, gDone, ppc, pi, pq, permute, done>>

\* main prints the rates and returns 0.
Finished ==
  /\ joined
  /\ UNCHANGED vars

Producer(p) ==
  \/ ProduceXchg(p) \/ ProduceLink(p) \/ IncDone(p) \/ CheckDone(p)
  \/ SentinelXchg(p) \/ SentinelLink(p)
  \/ ProducerFree(p)

Next ==
  \/ \E p \in Producers : Producer(p)
  \/ \E c \in Queues : Consume(c)
  \/ BarrierRelease \/ MainJoin
  \/ Finished

\* Benchmark threads run their loops to the end; a consumer whose
\* mpscq_pop returns 0 calls it again (qrate.cc:232); a barrier releases
\* its waiters once all have arrived.
Fairness ==
  /\ \A p \in Producers : WF_vars(Producer(p))
  /\ \A c \in Queues : WF_vars(Consume(c))
  /\ WF_vars(BarrierRelease) /\ WF_vars(MainJoin)

Spec == Init /\ [][Next]_vars /\ Fairness

-----------------------------------------------------------------------------
(***************************************************************************)
(* Properties                                                              *)
(***************************************************************************)

\* The Vyukov queue's promises, under qrate.cc's producers and consumers:
\* every queue returns the nodes exchanged onto its head, in that order and
\* never the stub ...
QueueIsFifo == V!QueueIsFifo

\* ... and no step writes a node after mpscq_pop returned it, although a
\* second producer reading g_done = nproducers may still be pushing its own
\* sentinels after a consumer has stopped.
ReturnedNodeUntouched == V!ReturnedNodeUntouched

\* A consumer stops only after it has popped every item pushed into its
\* queue: the sentinel is exchanged onto head only by a producer that read
\* g_done = nproducers, outside g_mutex, and every producer counts itself
\* only after the link of its last push.
ConsumerDrainsBeforeStop ==
  \A c \in Queues :
    done[c] => ToSet(sent[c]) \cap Items \subseteq ToSet(received[c])

\* No node is freed while it can still be used: a producer frees nodes and
\* nodes_tmp only when no consumer is still popping its queue and no
\* producer is still between the exchange and the link of a push, which may
\* write the next field of another producer's sentinel.  Only the end of
\* job barriers order the frees after the other threads' work.
NoUseAfterFree ==
  \A p \in Producers :
    freed[p] => /\ \A c \in Queues : done[c]
                /\ \A q \in Producers : ppc[q] = "exit"

\* The benchmark ends and main returns: some producer pushes the sentinels,
\* every consumer pops one and reaches the end of job barrier, although
\* mpscq_pop returns 0 while a push is between its exchange and its link
\* and the last node comes out only after the stub is pushed back behind it.
Termination == <>joined
=============================================================================
