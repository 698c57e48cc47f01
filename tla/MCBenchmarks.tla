--------------------------- MODULE MCBenchmarks ---------------------------
(***************************************************************************)
(* The two benchmark programs, lockrate.c and qrate.cc, in one model: the *)
(* initial state picks the program, and the other keeps its initial       *)
(* state.  Each behaviour is then a behaviour of one harness module, and  *)
(* a property of the run is the property of the harness chosen.           *)
(*                                                                         *)
(* qrate: three producers with one message each into one consumer's       *)
(* Vyukov queue: three threads race on head, a pop can meet one push      *)
(* between its exchange and its link while another exchanges, all three   *)
(* may read g_done = 3 and push a sentinel, and the stub goes out and back *)
(* in between.                                                             *)
(*                                                                         *)
(* lockrate: two producers and two consumers, the smallest run main()     *)
(* accepts with more than one queue.  With -r each producer alternates     *)
(* between the two queues, so each queue is contended by both producers   *)
(* and its consumer, and both producers can be in the window between      *)
(* g_done++ and the read.                                                  *)
(***************************************************************************)
EXTENDS TLC

CONSTANT NULL

VARIABLES
  bench,                                               \* the program run
  qHead, qTail, qNext, qPrev, qCpc, qCtail, qCnext, qSprev, qSent,
  qReceived, qGDone, qPpc, qPi, qPq, qPermute, qDone, qPassed, qFreed,
  qJoined,                                             \* qrate.cc
  lHead, lTail, lNext, lWq, lGDone, lPpc, lPi, lPq, lPdest, lPermute, lCpc,
  lSent, lReceived, lPassed, lFreed, lJoined           \* lockrate.c

qrateVars == <<qHead, qTail, qNext, qPrev, qCpc, qCtail, qCnext, qSprev,
               qSent, qReceived, qGDone, qPpc, qPi, qPq, qPermute, qDone,
               qPassed, qFreed, qJoined>>
lockrateVars == <<lHead, lTail, lNext, lWq, lGDone, lPpc, lPi, lPq, lPdest,
                  lPermute, lCpc, lSent, lReceived, lPassed, lFreed, lJoined>>
vars == <<bench, qrateVars, lockrateVars>>

Benches == {"qrate", "lockrate"}

Q == INSTANCE QrateHarness
       WITH NProducers <- 3, NConsumers <- 1, NMessages <- 3,
            Randomize <- TRUE, head <- qHead, tail <- qTail, next <- qNext,
            prev <- qPrev, cpc <- qCpc, ctail <- qCtail, cnext <- qCnext,
            sprev <- qSprev, sent <- qSent, received <- qReceived,
            gDone <- qGDone, ppc <- qPpc, pi <- qPi, pq <- qPq,
            permute <- qPermute, done <- qDone, passed <- qPassed,
            freed <- qFreed, joined <- qJoined
L == INSTANCE LockrateHarness
       WITH NProducers <- 2, NConsumers <- 2, NMessages <- 4,
            Randomize <- TRUE, head <- lHead, tail <- lTail, next <- lNext,
            wq <- lWq, gDone <- lGDone, ppc <- lPpc, pi <- lPi, pq <- lPq,
            pdest <- lPdest, permute <- lPermute, cpc <- lCpc,
            sent <- lSent, received <- lReceived, passed <- lPassed,
            freed <- lFreed, joined <- lJoined

\* The program not chosen stays in one of its initial states: the one in
\* which no producer shuffles (qrate has a single queue to shuffle).
Init ==
  /\ bench \in Benches /\ Q!Init /\ L!Init
  /\ bench = "qrate" => lPermute = [p \in L!Producers |-> [c \in L!Queues |-> c]]

\* A step A of one program, the other keeping its state.
QrateStep(A) == bench = "qrate" /\ A /\ UNCHANGED <<bench, lockrateVars>>
LockrateStep(A) == bench = "lockrate" /\ A /\ UNCHANGED <<bench, qrateVars>>

\* A step of the program chosen; the other keeps its initial state.
Next ==
  \/ QrateStep(Q!Next)
  \/ LockrateStep(L!Next)

\* Each harness's fairness (Q!Fairness, L!Fairness), for the program
\* chosen: the threads of the other never start.
Fairness ==
  /\ \A p \in Q!Producers : WF_vars(QrateStep(Q!Producer(p)))
  /\ \A c \in Q!Queues : WF_vars(QrateStep(Q!Consume(c)))
  /\ WF_vars(QrateStep(Q!BarrierRelease)) /\ WF_vars(QrateStep(Q!MainJoin))
  /\ \A p \in L!Producers : WF_vars(LockrateStep(L!Producer(p)))
  /\ \A c \in L!Queues : WF_vars(LockrateStep(L!Consumer(c)))
  /\ WF_vars(LockrateStep(L!BarrierRelease))
  /\ WF_vars(LockrateStep(L!MainJoin))

Spec == Init /\ [][Next]_vars /\ Fairness

TypeOK == bench \in Benches /\ Q!TypeOK /\ L!TypeOK

\* Each consumer pops the items of its queue in the order they were pushed:
\* the Vyukov queue of qrate.cc and the locked list of lockrate.c.
QueueIsFifo == Q!QueueIsFifo /\ L!QueueIsFifo

\* A consumer stops only once it has popped every item pushed into its
\* queue: the sentinel follows the last item, however g_done races.
ConsumerDrainsBeforeStop ==
  Q!ConsumerDrainsBeforeStop /\ L!ConsumerDrainsBeforeStop

\* No producer frees its nodes and nodes_tmp before every consumer has
\* stopped and every producer has left its loop: the second barrier of
\* the job holds each producer until then.
NoUseAfterFree == Q!NoUseAfterFree /\ L!NoUseAfterFree

\* qrate.cc: a node mpscq_pop returned is never written by the queue again.
ReturnedNodeUntouched == Q!ReturnedNodeUntouched

\* Main joins every thread: each program runs to its end.
Termination == <>(qJoined \/ lJoined)
=============================================================================
