------------------------------ MODULE NatsysQueue ------------------------------
(***************************************************************************)
(* The lock-free N-producer M-consumer ring buffer LockFreeQueue of        *)
(* include/natsysq.h, used by src/natsys_q.h.                              *)
(*                                                                         *)
(* Every access the code makes to shared memory is one step: the lossy     *)
(* snapshot of head_/tail_ and its store into the thread's ThrPos entry,   *)
(* the fetch-and-add and the store of its result, each load of the scan    *)
(* over the ThrPos table, the store of last_tail_/last_head_, the re-check, *)
(* the slot access and the retirement of the claim.  A thread finds its     *)
(* ThrPos entry through ThrId, as thr_pos() does, and re-reads the entry    *)
(* each time the code does.                                                *)
(*                                                                         *)
(* Each producer pushes ItemsPerProducer items <<p, k>>; each consumer     *)
(* pops PopsPerConsumer times.  written and consumed are history          *)
(* variables: the item written for each claimed position, and the items   *)
(* popped so far.                                                          *)
(***************************************************************************)
EXTENDS Integers, FiniteSets
LOCAL INSTANCE Bitwise

CONSTANTS
  Producers,         \* producer threads
  Consumers,         \* consumer threads
  ThrId,             \* ThrId[t]: the value of thr_id() in thread t
  QSize,             \* the template parameter Q_SIZE
  ItemsPerProducer,  \* pushes done by each producer
  PopsPerConsumer,   \* pops done by each consumer
  Idle,              \* ULONG_MAX, above every position the model reaches
  Garbage            \* the content of a slot memalign left uninitialised

NProducers == Cardinality(Producers)
NConsumers == Cardinality(Consumers)
TableSize == IF NProducers > NConsumers THEN NProducers ELSE NConsumers
Threads == Producers \cup Consumers
QMask == QSize - 1
Positions == 0 .. NProducers * ItemsPerProducer
Items == Producers \X (1 .. ItemsPerProducer)

ASSUME /\ ThrId \in [Threads -> 0 .. TableSize - 1]
       /\ QSize \in Nat \ {0}
       /\ NConsumers * PopsPerConsumer = NProducers * ItemsPerProducer
       /\ Idle \in Nat /\ Idle > NProducers * ItemsPerProducer + QSize
       /\ Garbage \notin Items

VARIABLES
  head,      \* head_
  tail,      \* tail_
  lastHead,  \* last_head_
  lastTail,  \* last_tail_
  thrHead,   \* thr_p_[i].head
  thrTail,   \* thr_p_[i].tail
  ptrArray,  \* ptr_array_
  pc,        \* pc[t]: where thread t is
  snap,      \* the value of head_/tail_ read for the first store
  claim,     \* the value returned by __sync_fetch_and_add
  minv,      \* min, in the scan loop
  idx,       \* i, in the scan loop
  done,      \* operations thread t has completed
  ret,       \* ret in pop()
  written,   \* history: written[pos] is the item pushed for position pos
  consumed   \* history: the items popped

vars == <<head, tail, lastHead, lastTail, thrHead, thrTail, ptrArray, pc,
          snap, claim, minv, idx, done, ret, written, consumed>>

Table == 0 .. TableSize - 1
Slot(pos) == pos & QMask
ItemOf(p) == <<p, done[p] + 1>>
MinOf(a, b) == IF b < a THEN b ELSE a

PushPcs == {"p_snap", "p_snap_store", "p_faa", "p_claim_store", "p_check",
            "p_scan_start", "p_scan", "p_recheck", "p_write",
            "p_publish"}
PopPcs == {"c_snap", "c_snap_store", "c_faa", "c_claim_store", "c_check",
           "c_scan_start", "c_scan", "c_recheck", "c_read",
           "c_publish"}

TypeOK ==
  /\ head \in Positions /\ tail \in Positions
  /\ lastHead \in Positions /\ lastTail \in Positions
  /\ thrHead \in [Table -> Positions \cup {Idle}]
  /\ thrTail \in [Table -> Positions \cup {Idle}]
  /\ ptrArray \in [0 .. QSize - 1 -> Items \cup {Garbage}]
  /\ pc \in [Threads -> PushPcs \cup PopPcs \cup {"done"}]
  /\ snap \in [Threads -> Positions]
  /\ claim \in [Threads -> Positions]
  /\ minv \in [Threads -> Positions \cup {Idle}]
  /\ idx \in [Threads -> Table \cup {TableSize}]
  /\ done \in [Threads -> Nat]
  /\ ret \in [Threads -> Items \cup {Garbage}]
  /\ written \in [Positions -> Items \cup {Garbage}]
  /\ consumed \subseteq Items

\* The constructor: cursors at 0, the ThrPos table memset to 0xFF, the
\* pointer array left as memalign returned it.
Init ==
  /\ head = 0 /\ tail = 0 /\ lastHead = 0 /\ lastTail = 0
  /\ thrHead = [i \in Table |-> Idle]
  /\ thrTail = [i \in Table |-> Idle]
  /\ ptrArray = [s \in 0 .. QSize - 1 |-> Garbage]
  /\ pc = [t \in Threads |-> IF t \in Producers THEN "p_snap" ELSE "c_snap"]
  /\ snap = [t \in Threads |-> 0]
  /\ claim = [t \in Threads |-> 0]
  /\ minv = [t \in Threads |-> 0]
  /\ idx = [t \in Threads |-> 0]
  /\ done = [t \in Threads |-> 0]
  /\ ret = [t \in Threads |-> Garbage]
  /\ written = [p \in Positions |-> Garbage]
  /\ consumed = {}

Goto(t, from, to) == pc[t] = from /\ pc' = [pc EXCEPT ![t] = to]

-----------------------------------------------------------------------------
(***************************************************************************)
(* push(ptr), lines 109-140                                               *)
(***************************************************************************)

\* thr_pos().head = head_: the load of head_ ...
PushSnap(t) ==
  /\ Goto(t, "p_snap", "p_snap_store")
  /\ snap' = [snap EXCEPT ![t] = head]
  /\ UNCHANGED <<head, tail, lastHead, lastTail, thrHead, thrTail, ptrArray,
                 claim, minv, idx, done, ret, written, consumed>>

\* A push that publishes nothing before its fetch-and-add.
PushSnapStoreSkipped(t) ==
  /\ Goto(t, "p_snap_store", "p_faa")
  /\ UNCHANGED <<head, tail, lastHead, lastTail, thrHead, thrTail, ptrArray,
                 snap, claim, minv, idx, done, ret, written, consumed>>

\* ... and its store into the thread's ThrPos entry.
PushSnapStore(t) ==
  /\ Goto(t, "p_snap_store", "p_faa")
  /\ thrHead' = [thrHead EXCEPT ![ThrId[t]] = snap[t]]
  /\ UNCHANGED <<head, tail, lastHead, lastTail, thrTail, ptrArray,
                 snap, claim, minv, idx, done, ret, written, consumed>>

\* thr_pos().head = __sync_fetch_and_add(&head_, 1): the fetch-and-add ...
PushFaa(t) ==
  /\ Goto(t, "p_faa", "p_claim_store")
  /\ claim' = [claim EXCEPT ![t] = head]
  /\ head' = head + 1
  /\ UNCHANGED <<tail, lastHead, lastTail, thrHead, thrTail, ptrArray,
                 snap, minv, idx, done, ret, written, consumed>>

\* ... and the store of the claimed position.
PushClaimStore(t) ==
  /\ Goto(t, "p_claim_store", "p_check")
  /\ thrHead' = [thrHead EXCEPT ![ThrId[t]] = claim[t]]
  /\ UNCHANGED <<head, tail, lastHead, lastTail, thrTail, ptrArray,
                 snap, claim, minv, idx, done, ret, written, consumed>>

\* The lap test with > for >=: a producer may claim the slot of the
\* position one full lap behind.
PushCheckOffByOne(t) ==
  /\ pc[t] = "p_check"
  /\ pc' = [pc EXCEPT ![t] = IF thrHead[ThrId[t]] > lastTail + QSize
                             THEN "p_scan_start" ELSE "p_write"]
  /\ UNCHANGED <<head, tail, lastHead, lastTail, thrHead, thrTail, ptrArray,
                 snap, claim, minv, idx, done, ret, written, consumed>>

\* while (thr_pos().head >= last_tail_ + Q_SIZE): the claim would lap the
\* slowest consumer known.
PushCheck(t) ==
  /\ pc[t] = "p_check"
  /\ pc' = [pc EXCEPT ![t] = IF thrHead[ThrId[t]] >= lastTail + QSize
                             THEN "p_scan_start" ELSE "p_write"]
  /\ UNCHANGED <<head, tail, lastHead, lastTail, thrHead, thrTail, ptrArray,
                 snap, claim, minv, idx, done, ret, written, consumed>>

\* auto min = tail_
PushScanStart(t) ==
  /\ Goto(t, "p_scan_start", "p_scan")
  /\ minv' = [minv EXCEPT ![t] = tail]
  /\ idx' = [idx EXCEPT ![t] = 0]
  /\ UNCHANGED <<head, tail, lastHead, lastTail, thrHead, thrTail, ptrArray,
                 snap, claim, done, ret, written, consumed>>

\* One iteration of the scan over thr_p_[0 .. n_consumers_-1].tail.
PushScan(t) ==
  /\ pc[t] = "p_scan" /\ idx[t] < NConsumers
  /\ minv' = [minv EXCEPT ![t] = MinOf(minv[t], thrTail[idx[t]])]
  /\ idx' = [idx EXCEPT ![t] = idx[t] + 1]
  /\ UNCHANGED <<head, tail, lastHead, lastTail, thrHead, thrTail, ptrArray,
                 pc, snap, claim, done, ret, written, consumed>>

\* last_tail_ = min, a plain store that may lower a value another producer
\* stored.
PushScanEnd(t) ==
  /\ pc[t] = "p_scan" /\ idx[t] = NConsumers
  /\ pc' = [pc EXCEPT ![t] = "p_recheck"]
  /\ lastTail' = minv[t]
  /\ UNCHANGED <<head, tail, lastHead, thrHead, thrTail, ptrArray,
                 snap, claim, minv, idx, done, ret, written, consumed>>

\* if (thr_pos().head < last_tail_ + Q_SIZE) break; otherwise pause and
\* test the loop condition again.
PushRecheck(t) ==
  /\ pc[t] = "p_recheck"
  /\ pc' = [pc EXCEPT ![t] = IF thrHead[ThrId[t]] < lastTail + QSize
                             THEN "p_write" ELSE "p_check"]
  /\ UNCHANGED <<head, tail, lastHead, lastTail, thrHead, thrTail, ptrArray,
                 snap, claim, minv, idx, done, ret, written, consumed>>

\* ptr_array_[thr_pos().head & Q_MASK] = ptr
PushWrite(t) ==
  /\ Goto(t, "p_write", "p_publish")
  /\ ptrArray' = [ptrArray EXCEPT ![Slot(thrHead[ThrId[t]])] = ItemOf(t)]
  /\ written' = [written EXCEPT ![claim[t]] = ItemOf(t)]
  /\ UNCHANGED <<head, tail, lastHead, lastTail, thrHead, thrTail,
                 snap, claim, minv, idx, done, ret, consumed>>

\* A push that never retires its claim.
PushPublishNoRetire(t) ==
  /\ pc[t] = "p_publish"
  /\ done' = [done EXCEPT ![t] = done[t] + 1]
  /\ pc' = [pc EXCEPT ![t] = IF done[t] + 1 < ItemsPerProducer
                             THEN "p_snap" ELSE "done"]
  /\ snap' = [snap EXCEPT ![t] = 0]
  /\ claim' = [claim EXCEPT ![t] = 0]
  /\ minv' = [minv EXCEPT ![t] = 0]
  /\ idx' = [idx EXCEPT ![t] = 0]
  /\ UNCHANGED <<head, tail, lastHead, lastTail, thrHead, thrTail, ptrArray,
                 ret, written, consumed>>

\* thr_pos().head = ULONG_MAX: the claim is retired and consumers may take
\* the item; the producer's loop goes on to its next item.
PushPublish(t) ==
  /\ pc[t] = "p_publish"
  /\ thrHead' = [thrHead EXCEPT ![ThrId[t]] = Idle]
  /\ done' = [done EXCEPT ![t] = done[t] + 1]
  /\ pc' = [pc EXCEPT ![t] = IF done[t] + 1 < ItemsPerProducer
                             THEN "p_snap" ELSE "done"]
  /\ snap' = [snap EXCEPT ![t] = 0]
  /\ claim' = [claim EXCEPT ![t] = 0]
  /\ minv' = [minv EXCEPT ![t] = 0]
  /\ idx' = [idx EXCEPT ![t] = 0]
  /\ UNCHANGED <<head, tail, lastHead, lastTail, thrTail, ptrArray,
                 ret, written, consumed>>

Push(t) ==
  \/ PushSnap(t) \/ PushSnapStore(t) \/ PushFaa(t) \/ PushClaimStore(t)
  \/ PushCheck(t) \/ PushScanStart(t) \/ PushScan(t) \/ PushScanEnd(t)
  \/ PushRecheck(t) \/ PushWrite(t) \/ PushPublish(t)

-----------------------------------------------------------------------------
(***************************************************************************)
(* pop(), lines 153-187                                                   *)
(***************************************************************************)

\* thr_pos().tail = tail_: the load of tail_ ...
PopSnap(t) ==
  /\ Goto(t, "c_snap", "c_snap_store")
  /\ snap' = [snap EXCEPT ![t] = tail]
  /\ UNCHANGED <<head, tail, lastHead, lastTail, thrHead, thrTail, ptrArray,
                 claim, minv, idx, done, ret, written, consumed>>

\* ... and its store into the thread's ThrPos entry.
PopSnapStore(t) ==
  /\ Goto(t, "c_snap_store", "c_faa")
  /\ thrTail' = [thrTail EXCEPT ![ThrId[t]] = snap[t]]
  /\ UNCHANGED <<head, tail, lastHead, lastTail, thrHead, ptrArray,
                 snap, claim, minv, idx, done, ret, written, consumed>>

\* thr_pos().tail = __sync_fetch_and_add(&tail_, 1): the fetch-and-add ...
PopFaa(t) ==
  /\ Goto(t, "c_faa", "c_claim_store")
  /\ claim' = [claim EXCEPT ![t] = tail]
  /\ tail' = tail + 1
  /\ UNCHANGED <<head, lastHead, lastTail, thrHead, thrTail, ptrArray,
                 snap, minv, idx, done, ret, written, consumed>>

\* ... and the store of the claimed position.
PopClaimStore(t) ==
  /\ Goto(t, "c_claim_store", "c_check")
  /\ thrTail' = [thrTail EXCEPT ![ThrId[t]] = claim[t]]
  /\ UNCHANGED <<head, tail, lastHead, lastTail, thrHead, ptrArray,
                 snap, claim, minv, idx, done, ret, written, consumed>>

\* while (thr_pos().tail >= last_head_): the claimed position may not be
\* published yet.
PopCheck(t) ==
  /\ pc[t] = "c_check"
  /\ pc' = [pc EXCEPT ![t] = IF thrTail[ThrId[t]] >= lastHead
                             THEN "c_scan_start" ELSE "c_read"]
  /\ UNCHANGED <<head, tail, lastHead, lastTail, thrHead, thrTail, ptrArray,
                 snap, claim, minv, idx, done, ret, written, consumed>>

\* auto min = head_
PopScanStart(t) ==
  /\ Goto(t, "c_scan_start", "c_scan")
  /\ minv' = [minv EXCEPT ![t] = head]
  /\ idx' = [idx EXCEPT ![t] = 0]
  /\ UNCHANGED <<head, tail, lastHead, lastTail, thrHead, thrTail, ptrArray,
                 snap, claim, done, ret, written, consumed>>

\* One iteration of the scan over thr_p_[0 .. n_producers_-1].head.
PopScan(t) ==
  /\ pc[t] = "c_scan" /\ idx[t] < NProducers
  /\ minv' = [minv EXCEPT ![t] = MinOf(minv[t], thrHead[idx[t]])]
  /\ idx' = [idx EXCEPT ![t] = idx[t] + 1]
  /\ UNCHANGED <<head, tail, lastHead, lastTail, thrHead, thrTail, ptrArray,
                 pc, snap, claim, done, ret, written, consumed>>

\* last_head_ = min
PopScanEnd(t) ==
  /\ pc[t] = "c_scan" /\ idx[t] = NProducers
  /\ pc' = [pc EXCEPT ![t] = "c_recheck"]
  /\ lastHead' = minv[t]
  /\ UNCHANGED <<head, tail, lastTail, thrHead, thrTail, ptrArray,
                 snap, claim, minv, idx, done, ret, written, consumed>>

\* if (thr_pos().tail < last_head_) break; otherwise pause and test the
\* loop condition again.
PopRecheck(t) ==
  /\ pc[t] = "c_recheck"
  /\ pc' = [pc EXCEPT ![t] = IF thrTail[ThrId[t]] < lastHead
                             THEN "c_read" ELSE "c_check"]
  /\ UNCHANGED <<head, tail, lastHead, lastTail, thrHead, thrTail, ptrArray,
                 snap, claim, minv, idx, done, ret, written, consumed>>

\* T *ret = ptr_array_[thr_pos().tail & Q_MASK]
PopRead(t) ==
  /\ Goto(t, "c_read", "c_publish")
  /\ ret' = [ret EXCEPT ![t] = ptrArray[Slot(thrTail[ThrId[t]])]]
  /\ UNCHANGED <<head, tail, lastHead, lastTail, thrHead, thrTail, ptrArray,
                 snap, claim, minv, idx, done, written, consumed>>

\* A pop that retires its claim with -1, ULONG_MAX read as a signed value.
PopPublishSignedIdle(t) ==
  /\ pc[t] = "c_publish"
  /\ thrTail' = [thrTail EXCEPT ![ThrId[t]] = -1]
  /\ consumed' = consumed \cup {ret[t]}
  /\ done' = [done EXCEPT ![t] = done[t] + 1]
  /\ pc' = [pc EXCEPT ![t] = IF done[t] + 1 < PopsPerConsumer
                             THEN "c_snap" ELSE "done"]
  /\ snap' = [snap EXCEPT ![t] = 0]
  /\ claim' = [claim EXCEPT ![t] = 0]
  /\ minv' = [minv EXCEPT ![t] = 0]
  /\ idx' = [idx EXCEPT ![t] = 0]
  /\ ret' = [ret EXCEPT ![t] = Garbage]
  /\ UNCHANGED <<head, tail, lastHead, lastTail, thrHead, ptrArray, written>>

\* thr_pos().tail = ULONG_MAX; return ret: producers may reuse the slot; the
\* consumer's loop goes on to its next pop.
PopPublish(t) ==
  /\ pc[t] = "c_publish"
  /\ thrTail' = [thrTail EXCEPT ![ThrId[t]] = Idle]
  /\ consumed' = consumed \cup {ret[t]}
  /\ done' = [done EXCEPT ![t] = done[t] + 1]
  /\ pc' = [pc EXCEPT ![t] = IF done[t] + 1 < PopsPerConsumer
                             THEN "c_snap" ELSE "done"]
  /\ snap' = [snap EXCEPT ![t] = 0]
  /\ claim' = [claim EXCEPT ![t] = 0]
  /\ minv' = [minv EXCEPT ![t] = 0]
  /\ idx' = [idx EXCEPT ![t] = 0]
  /\ ret' = [ret EXCEPT ![t] = Garbage]
  /\ UNCHANGED <<head, tail, lastHead, lastTail, thrHead, ptrArray, written>>

Pop(t) ==
  \/ PopSnap(t) \/ PopSnapStore(t) \/ PopFaa(t) \/ PopClaimStore(t)
  \/ PopCheck(t) \/ PopScanStart(t) \/ PopScan(t) \/ PopScanEnd(t)
  \/ PopRecheck(t) \/ PopRead(t) \/ PopPublish(t)

\* Every thread has done all its pushes or pops.
Finished == (\A t \in Threads : pc[t] = "done") /\ UNCHANGED vars

Next ==
  \/ \E p \in Producers : Push(p)
  \/ \E c \in Consumers : Pop(c)
  \/ Finished

\* The benchmark threads run their loops without stopping; the spin loops
\* only pause, so every thread keeps being scheduled.
Fairness == /\ \A p \in Producers : WF_vars(Push(p))
            /\ \A c \in Consumers : WF_vars(Pop(c))

Spec == Init /\ [][Next]_vars /\ Fairness

-----------------------------------------------------------------------------
(***************************************************************************)
(* Properties                                                              *)
(***************************************************************************)

\* A pop returns the item pushed for the position it claimed with its
\* fetch-and-add: never a slot before its producer wrote it (the scan of
\* thr_p_[].head and the two-step publication of the claim are what
\* guarantee it), never an item of another lap.
PopReturnsPushedItem ==
  \A c \in Consumers :
    pc[c] = "c_publish" => /\ written[claim[c]] \in Items
                           /\ ret[c] = written[claim[c]]

\* A pushed item stays in its slot until the pop that claimed its position
\* retires: no producer laps a consumer (the lap test against last_tail_
\* and the scan of thr_p_[].tail are what guarantee it).
NoOverwriteOfUnread ==
  \A pos \in Positions :
    (written[pos] \in Items /\ written[pos] \notin consumed)
      => ptrArray[Slot(pos)] = written[pos]

\* Every item pushed is eventually popped, when all threads keep running.
AllItemsDelivered == <>(consumed = Items)
=============================================================================
