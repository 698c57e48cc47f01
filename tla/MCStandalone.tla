---------------------------- MODULE MCStandalone ----------------------------
(***************************************************************************)
(* Three parts of the program that share no state with the others, each   *)
(* checked on its own in one run: the natsys ring buffer (NatsysQueue),   *)
(* where main() binds the benchmark threads (ThreadPlacement), and what   *)
(* printme() reports of a binding (Printme).  The initial state picks the *)
(* part; the other two keep their single initial state, so each behaviour *)
(* is a behaviour of one module and a property of the run is that         *)
(* module's property.                                                      *)
(*                                                                         *)
(* natsys: two producers and two consumers, one item each, one slot: the  *)
(* second producer laps the first item and waits in the scan of           *)
(* last_tail_, and a consumer that claims before the producer wrote waits *)
(* in the scan of last_head_.                                             *)
(*                                                                         *)
(* Affinity: two sockets of two cores of three PUs, ints of 4 bits        *)
(* (printme's bound PusPerCore <= Width, with room for the sign bit).      *)
(* main reads -p, -c and -m from -1 .. 3: negative, zero and every count  *)
(* up to three, so thread counts of 2 .. 6 meet the 4 cores from both      *)
(* sides.                                                                  *)
(***************************************************************************)
EXTENDS Integers, TLC

CONSTANTS p1, p2, c1, c2, garbage

VARIABLES
  part,                                                \* the part checked
  nHead, nTail, nLastHead, nLastTail, nThrHead, nThrTail, nPtrArray, nPc,
  nSnap, nClaim, nMinv, nIdx, nDone, nRet, nWritten, nConsumed, \* natsysq.h
  pc, cpuset, heap, data, puIndex, sIdx, cIdx, puPos, first, str1, str2,
  bitmap, bi, rangeStart, rfirst, ret, out, result,    \* printme.c
  mpc, nproducers, nconsumers, nmessages, randomize, i, j, prodCore,
  consCore                                             \* main()

natsysVars == <<nHead, nTail, nLastHead, nLastTail, nThrHead, nThrTail,
                nPtrArray, nPc, nSnap, nClaim, nMinv, nIdx, nDone, nRet,
                nWritten, nConsumed>>
printmeVars == <<pc, cpuset, heap, data, puIndex, sIdx, cIdx, puPos, first,
                 str1, str2, bitmap, bi, rangeStart, rfirst, ret, out, result>>
placementVars == <<mpc, nproducers, nconsumers, nmessages, randomize, i, j,
                   prodCore, consCore>>
vars == <<part, natsysVars, printmeVars, placementVars>>

NatsysProducers == {p1, p2}
NatsysConsumers == {c1, c2}

N == INSTANCE NatsysQueue
       WITH Producers <- NatsysProducers, Consumers <- NatsysConsumers,
            ThrId <- (p1 :> 0) @@ (p2 :> 1) @@ (c1 :> 0) @@ (c2 :> 1),
            QSize <- 1, ItemsPerProducer <- 1, PopsPerConsumer <- 1,
            Idle <- 100, Garbage <- garbage,
            head <- nHead, tail <- nTail, lastHead <- nLastHead,
            lastTail <- nLastTail, thrHead <- nThrHead, thrTail <- nThrTail,
            ptrArray <- nPtrArray, pc <- nPc, snap <- nSnap, claim <- nClaim,
            minv <- nMinv, idx <- nIdx, done <- nDone, ret <- nRet,
            written <- nWritten, consumed <- nConsumed
P == INSTANCE Printme
       WITH Width <- 4, NSockets <- 2, CoresPerSocket <- 2, PusPerCore <- 3
T == INSTANCE ThreadPlacement WITH NCores <- P!NbCores, ArgValues <- -1 .. 3

Parts == {"natsys", "printme", "placement"}

Init == part \in Parts /\ N!Init /\ P!Init /\ T!Init

\* A step A of one part, the others keeping their state.
NatsysStep(A) == part = "natsys" /\ A /\ UNCHANGED <<part, printmeVars, placementVars>>
PrintmeStep(A) == part = "printme" /\ A /\ UNCHANGED <<part, natsysVars, placementVars>>
PlacementStep(A) == part = "placement" /\ A /\ UNCHANGED <<part, natsysVars, printmeVars>>

Next == NatsysStep(N!Next) \/ PrintmeStep(P!Next) \/ PlacementStep(T!Next)

\* NatsysQueue's fairness, for the natsys part: the threads of the ring
\* buffer never start in the other parts.
Fairness ==
  /\ \A p \in NatsysProducers : WF_vars(NatsysStep(N!Push(p)))
  /\ \A c \in NatsysConsumers : WF_vars(NatsysStep(N!Pop(c)))

Spec == Init /\ [][Next]_vars /\ Fairness

TypeOK == part \in Parts /\ N!TypeOK /\ P!TypeOK /\ T!TypeOK

\* natsysq.h: a pop returns the item pushed for the position it claimed.
PopReturnsPushedItem == N!PopReturnsPushedItem

\* natsysq.h: no push overwrites a slot whose item is not yet popped.
NoOverwriteOfUnread == N!NoOverwriteOfUnread

\* natsysq.h: every item pushed is eventually popped, although both sides
\* spin in the scans until the other retires its claim.
AllItemsDelivered == <>(part # "natsys" \/ nConsumed = N!Items)

\* printme.c: bitmap2rangestr lists exactly the maximal runs of set bits.
RangeStrIsMaximalRuns == P!RangeStrIsMaximalRuns

\* printme.c: the per-core bitmaps hold exactly the bound PUs' ranks.
DataIsBinding == P!DataIsBinding

\* printme.c: the layout written marks exactly the bound PUs.
Str2ShowsBinding == P!Str2ShowsBinding

\* main(): every thread created has a core of its own.
OwnCore == T!OwnCore

\* main(): a NULL core is dereferenced only when threads outnumber cores.
NullCoreOnlyWhenTooFew == T!NullCoreOnlyWhenTooFew
=============================================================================
