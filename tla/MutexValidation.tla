---------------------------- MODULE MutexValidation ----------------------------
(***************************************************************************)
(* The validation driver ConcurrencyFreaks/C11/locks/mutex_validation.c,  *)
(* in the phases of main() that use this repository's locks, in main's    *)
(* order: mpsc_mutex_t, ticket_mutex_t, clh_mutex_t, tidex_mutex_t and    *)
(* tidex_nps_mutex_t.  In each phase NUM_THREADS workers loop while g_quit *)
(* is 0, each iteration taking the phase's lock, incrementing every entry *)
(* of array1, checking that every entry equals array1[0] (printing ERROR  *)
(* otherwise) and releasing the lock; main sets g_quit after its sleep,   *)
(* joins, clears g_quit and starts the next phase with new threads.       *)
(* After the last phase main destroys the locks.  Phases lists the lock    *)
(* phases checked; the others run no iteration.                           *)
(*                                                                         *)
(* The locks are the modules MpscMutex, TicketMutex, ClhMutex, TidexMutex *)
(* and TidexNpsMutex, instantiated on variables of their own: a worker's  *)
(* lock() and unlock() are the steps of the phase's lock for that thread, *)
(* and the worker's own steps run while that lock's pc is "cs".  All five *)
(* locks are initialised at the start of main and live through every      *)
(* phase.  array1 holds ints; its entries are kept modulo 2^ArrayWidth,    *)
(* which keeps every difference the check can see distinguishable.        *)
(***************************************************************************)
EXTENDS Integers, Sequences

CONSTANTS
  Phases,         \* the lock phases of main that run iterations, in order
  Threads,        \* the workers of a phase (threadid 0 .. NUM_THREADS-1)
  Width,          \* bits of the ticket counters
  ClhNodes,       \* the addresses malloc may return to clh_mutex_t
  MpscNodes,      \* the addresses malloc may return to mpsc_mutex_t
  NULL,           \* the null pointer
  Indeterminate,  \* the content of next in a node malloc returned
  Tid,            \* Tid[t]: pthread_self() of worker t in the tidex phase
  MaxIndex,       \* the values tidex_nps's globalThreadIndex can take
  ArraySize,      \* ARRAY_SIZE
  ArrayWidth      \* bits kept of each entry of array1

ASSUME ArraySize \in Nat \ {0} /\ ArrayWidth \in Nat \ {0}

\* The values main gives g_which_lock, in order, for this repository's locks.
MainOrder == <<"mpsc", "ticket", "clh", "tidex", "tidex_nps">>
Position(l) == CHOOSE k \in DOMAIN MainOrder : MainOrder[k] = l

\* A phase left out of Phases is one in which main sets g_quit before any
\* worker has taken the lock, which a run of the program may do: it leaves
\* every variable as it was.
ASSUME /\ Phases # <<>>
       /\ \A i \in DOMAIN Phases : \E k \in DOMAIN MainOrder : MainOrder[k] = Phases[i]
       /\ \A i, j \in DOMAIN Phases : i < j => Position(Phases[i]) < Position(Phases[j])

VARIABLES
  mpHead, mpTail, mpNext, mpAllocated, mpDestroyed, mpPc, mpMynode, mpPrev,
  mpUprev, mpUnext, mpUnpaired,                        \* mpscmutex
  tkIngress, tkEgress, tkPc, tkTicket, tkLegress,      \* ticketmutex
  clhTail, clhMynodeField, clhMustWait, clhAllocated, clhDestroyed, clhPc,
  clhMynode, clhPrev, clhUnode, clhUnpaired,           \* clhmutex
  tdIngress, tdEgress, tdNextEgress, tdPc, tdMytid, tdPrevtid, tdLocalE,
  tdLocalI,                                            \* tidexmutex
  npGlobal, npTl, npIngress, npEgress, npNextEgress, npPc, npMytid,
  npPrevtid, npLocalE, npLocalI,                       \* tidexnpsmutex
  which,   \* g_which_lock, as an index into Phases; Len(Phases)+1 once
           \* main has left the last phase
  array1,  \* array1
  wpc,     \* wpc[t]: where worker t is in worker_thread
  wi,      \* wi[t]: the loop index i of worker t
  quit,    \* g_quit
  error    \* history: some worker has printed ERROR

mpscVars == <<mpHead, mpTail, mpNext, mpAllocated, mpDestroyed, mpPc, mpMynode,
              mpPrev, mpUprev, mpUnext, mpUnpaired>>
ticketVars == <<tkIngress, tkEgress, tkPc, tkTicket, tkLegress>>
clhVars == <<clhTail, clhMynodeField, clhMustWait, clhAllocated, clhDestroyed,
             clhPc, clhMynode, clhPrev, clhUnode, clhUnpaired>>
tidexVars == <<tdIngress, tdEgress, tdNextEgress, tdPc, tdMytid, tdPrevtid,
               tdLocalE, tdLocalI>>
npsVars == <<npGlobal, npTl, npIngress, npEgress, npNextEgress, npPc, npMytid,
             npPrevtid, npLocalE, npLocalI>>
lockVars == <<mpscVars, ticketVars, clhVars, tidexVars, npsVars>>
driverVars == <<which, array1, wpc, wi, quit, error>>
vars == <<lockVars, driverVars>>

Mpsc == INSTANCE MpscMutex
          WITH Nodes <- MpscNodes, head <- mpHead, tail <- mpTail,
               next <- mpNext, allocated <- mpAllocated,
               destroyed <- mpDestroyed, pc <- mpPc, mynode <- mpMynode,
               prev <- mpPrev, uprev <- mpUprev, unext <- mpUnext,
               unpaired <- mpUnpaired
Ticket == INSTANCE TicketMutex
            WITH ingress <- tkIngress, egress <- tkEgress, pc <- tkPc,
                 ticket <- tkTicket, legress <- tkLegress
Clh == INSTANCE ClhMutex
         WITH Nodes <- ClhNodes, tail <- clhTail,
              mynodeField <- clhMynodeField, mustWait <- clhMustWait,
              allocated <- clhAllocated, destroyed <- clhDestroyed,
              pc <- clhPc, mynode <- clhMynode, prev <- clhPrev,
              unode <- clhUnode, unpaired <- clhUnpaired
Tidex == INSTANCE TidexMutex
           WITH ingress <- tdIngress, egress <- tdEgress,
                nextEgress <- tdNextEgress, pc <- tdPc, mytid <- tdMytid,
                prevtid <- tdPrevtid, localE <- tdLocalE, localI <- tdLocalI
Nps == INSTANCE TidexNpsMutex
         WITH globalThreadIndex <- npGlobal, tlThreadIndex <- npTl,
              ingress <- npIngress, egress <- npEgress,
              nextEgress <- npNextEgress, pc <- npPc, mytid <- npMytid,
              prevtid <- npPrevtid, localE <- npLocalE, localI <- npLocalI

Done == Len(Phases) + 1

Indices == 0 .. ArraySize - 1
Entry == 0 .. 2^ArrayWidth - 1

TypeOK ==
  /\ Mpsc!TypeOK /\ Ticket!TypeOK /\ Clh!TypeOK /\ Tidex!TypeOK /\ Nps!TypeOK
  /\ which \in 1 .. Done
  /\ array1 \in [Indices -> Entry]
  /\ wpc \in [Threads -> {"test", "lock", "inc", "check", "unlock", "exit"}]
  /\ wi \in [Threads -> Indices]
  /\ quit \in BOOLEAN /\ error \in BOOLEAN

\* main: array1 zeroed, every lock initialised, and the pthread_mutex_t
\* and pthread_spin_t phases run, which leave array1 with all entries equal
\* (to the number of their iterations) and g_quit 0; then the first phase
\* of Phases creates its workers.  The driver only compares entries with each other,
\* so adding the same value to every entry maps behaviours onto behaviours:
\* the model starts from 0.
Init ==
  /\ Mpsc!Init /\ Ticket!Init /\ Clh!Init /\ Tidex!Init /\ Nps!Init
  /\ which = 1
  /\ array1 = [i \in Indices |-> 0]
  /\ wpc = [t \in Threads |-> "test"]
  /\ wi = [t \in Threads |-> 0]
  /\ quit = FALSE /\ error = FALSE

-----------------------------------------------------------------------------
(***************************************************************************)
(* The lock of the current phase                                          *)
(***************************************************************************)

\* One step of worker t inside the lock() or unlock() of the phase's lock;
\* the other locks keep their state.
LockCall(t) ==
  CASE Phases[which] = "mpsc" ->
         /\ \/ Mpsc!Lock(t) \/ Mpsc!Link(t) \/ Mpsc!Spin(t)
            \/ Mpsc!UnlockLoadHead(t) \/ Mpsc!UnlockLoadNext(t)
            \/ Mpsc!UnlockStore(t) \/ Mpsc!UnlockFree(t)
         /\ UNCHANGED <<ticketVars, clhVars, tidexVars, npsVars>>
    [] Phases[which] = "ticket" ->
         /\ \/ Ticket!Lock(t) \/ Ticket!Spin(t)
            \/ Ticket!UnlockLoad(t) \/ Ticket!UnlockStore(t)
         /\ UNCHANGED <<mpscVars, clhVars, tidexVars, npsVars>>
    [] Phases[which] = "clh" ->
         /\ \/ Clh!Lock(t) \/ Clh!Spin(t) \/ Clh!Free(t) \/ Clh!SetMynode(t)
            \/ Clh!UnlockRead(t) \/ Clh!UnlockStore(t)
         /\ UNCHANGED <<mpscVars, ticketVars, tidexVars, npsVars>>
    [] Phases[which] = "tidex" ->
         Tidex!LockStep(t) /\ UNCHANGED <<mpscVars, ticketVars, clhVars, npsVars>>
    [] Phases[which] = "tidex_nps" ->
         Nps!LockStep(t) /\ UNCHANGED <<mpscVars, ticketVars, clhVars, tidexVars>>

\* Where worker t is in the phase's lock: "idle" outside lock() and
\* unlock(), "cs" between them.
LockPc(t) ==
  CASE Phases[which] = "mpsc"      -> mpPc[t]
    [] Phases[which] = "ticket"    -> tkPc[t]
    [] Phases[which] = "clh"       -> clhPc[t]
    [] Phases[which] = "tidex"     -> tdPc[t]
    [] Phases[which] = "tidex_nps" -> npPc[t]

-----------------------------------------------------------------------------
(***************************************************************************)
(* worker_thread                                                           *)
(***************************************************************************)

\* A loop whose test of g_quit, a plain int, is hoisted out of the loop.
TestQuitHoisted(t) ==
  /\ wpc[t] = "test"
  /\ wpc' = [wpc EXCEPT ![t] = "lock"]
  /\ UNCHANGED <<lockVars, which, array1, wi, quit, error>>

\* while (!g_quit): g_quit is read again on every iteration.
TestQuit(t) ==
  /\ wpc[t] = "test"
  /\ wpc' = [wpc EXCEPT ![t] = IF quit THEN "exit" ELSE "lock"]
  /\ UNCHANGED <<lockVars, which, array1, wi, quit, error>>

\* <lock>_lock(&<lock>), in the branch of g_which_lock; the critical
\* section starts at i = 0 when the lock's pc reaches "cs".
Acquire(t) ==
  /\ wpc[t] = "lock"
  /\ LockCall(t)
  /\ UNCHANGED <<which, array1, quit, error>>
  /\ IF LockPc(t)' = "cs"
       THEN wpc' = [wpc EXCEPT ![t] = "inc"] /\ wi' = [wi EXCEPT ![t] = 0]
       ELSE UNCHANGED <<wpc, wi>>

\* An increment loop that stops one entry short.
IncOffByOne(t) ==
  /\ wpc[t] = "inc"
  /\ array1' = [array1 EXCEPT ![wi[t]] = (@ + 1) % 2^ArrayWidth]
  /\ IF wi[t] + 1 < ArraySize - 1
       THEN wi' = [wi EXCEPT ![t] = wi[t] + 1] /\ UNCHANGED wpc
       ELSE /\ wi' = [wi EXCEPT ![t] = 1 % ArraySize]
            /\ wpc' = [wpc EXCEPT ![t] = IF ArraySize > 1 THEN "check"
                                                          ELSE "unlock"]
  /\ UNCHANGED <<lockVars, which, quit, error>>

\* for (i = 0; i < ARRAY_SIZE; i++) array1[i]++
Inc(t) ==
  /\ wpc[t] = "inc"
  /\ array1' = [array1 EXCEPT ![wi[t]] = (@ + 1) % 2^ArrayWidth]
  /\ IF wi[t] + 1 < ArraySize
       THEN wi' = [wi EXCEPT ![t] = wi[t] + 1] /\ UNCHANGED wpc
       ELSE /\ wi' = [wi EXCEPT ![t] = 1 % ArraySize]
            /\ wpc' = [wpc EXCEPT ![t] = IF ArraySize > 1 THEN "check"
                                                          ELSE "unlock"]
  /\ UNCHANGED <<lockVars, which, quit, error>>

\* for (i = 1; i < ARRAY_SIZE; i++) if (array1[i] != array1[0])
\* printf("ERROR\n")
Check(t) ==
  /\ wpc[t] = "check"
  /\ error' = (error \/ array1[wi[t]] # array1[0])
  /\ IF wi[t] + 1 < ArraySize
       THEN wi' = [wi EXCEPT ![t] = wi[t] + 1] /\ UNCHANGED wpc
       ELSE wpc' = [wpc EXCEPT ![t] = "unlock"] /\ UNCHANGED wi
  /\ UNCHANGED <<lockVars, which, array1, quit>>

\* <lock>_unlock(&<lock>); once the lock's pc is back at "idle",
\* iterations++ and back to the loop test.
Release(t) ==
  /\ wpc[t] = "unlock"
  /\ LockCall(t)
  /\ UNCHANGED <<which, array1, wi, quit, error>>
  /\ IF LockPc(t)' = "idle"
       THEN wpc' = [wpc EXCEPT ![t] = "test"]
       ELSE UNCHANGED wpc

-----------------------------------------------------------------------------
(***************************************************************************)
(* main                                                                    *)
(***************************************************************************)

\* sleep(10); g_quit = 1.
SetQuit ==
  /\ which < Done /\ ~quit
  /\ quit' = TRUE
  /\ UNCHANGED <<lockVars, which, array1, wpc, wi, error>>

\* The joined workers' locals and _Thread_local variables are gone; the
\* new workers' are not set yet (mpsc_mutex_unlock already resets its own).
FreshThreadLocals ==
  /\ tkTicket' = [t \in Threads |-> 0] /\ tkLegress' = [t \in Threads |-> 0]
  /\ clhMynode' = [t \in Threads |-> Clh!Sentinel]
  /\ clhPrev' = [t \in Threads |-> Clh!Sentinel]
  /\ clhUnode' = [t \in Threads |-> Clh!Sentinel]
  /\ tdMytid' = [t \in Threads |-> Tidex!INVALID_TID]
  /\ tdPrevtid' = [t \in Threads |-> Tidex!INVALID_TID]
  /\ tdLocalE' = [t \in Threads |-> Tidex!INVALID_TID]
  /\ tdLocalI' = [t \in Threads |-> Tidex!INVALID_TID]
  /\ npTl' = [t \in Threads |-> Nps!INVALID_TID]
  /\ npMytid' = [t \in Threads |-> Nps!INVALID_TID]
  /\ npPrevtid' = [t \in Threads |-> Nps!INVALID_TID]
  /\ npLocalE' = [t \in Threads |-> Nps!INVALID_TID]
  /\ npLocalI' = [t \in Threads |-> Nps!INVALID_TID]
  /\ UNCHANGED <<mpscVars, tkIngress, tkEgress, tkPc, clhTail, clhMynodeField,
                 clhMustWait, clhAllocated, clhDestroyed, clhPc, clhUnpaired,
                 tdIngress, tdEgress, tdNextEgress, tdPc, npGlobal, npIngress,
                 npEgress, npNextEgress, npPc>>

\* The joins return; g_quit = 0; the next phase sets g_which_lock and
\* creates new workers.
NextPhase ==
  /\ which < Len(Phases)
  /\ quit /\ \A t \in Threads : wpc[t] = "exit"
  /\ which' = which + 1
  /\ quit' = FALSE
  /\ wpc' = [t \in Threads |-> "test"]
  /\ FreshThreadLocals
  /\ UNCHANGED <<array1, wi, error>>

\* After the joins of the last phase: mpsc_mutex_destroy and
\* clh_mutex_destroy free the locks' remaining nodes (the ticket and tidex
\* destroys change nothing).
DestroyLocks ==
  /\ which = Len(Phases)
  /\ quit /\ \A t \in Threads : wpc[t] = "exit"
  /\ which' = Done
  /\ quit' = FALSE
  /\ Mpsc!Destroy /\ Clh!Destroy
  /\ UNCHANGED <<ticketVars, tidexVars, npsVars, array1, wpc, wi, error>>

\* main returns.
Finished ==
  /\ which = Done
  /\ UNCHANGED vars

Worker(t) ==
  \/ TestQuit(t) \/ Acquire(t) \/ Inc(t) \/ Check(t) \/ Release(t)

Next ==
  \/ \E t \in Threads : Worker(t)
  \/ SetQuit \/ NextPhase \/ DestroyLocks \/ Finished

\* Workers loop without stopping and run lock() and unlock() to their end;
\* main's sleeps end and its joins return once the workers have exited.
Fairness ==
  /\ \A t \in Threads : WF_vars(Worker(t))
  /\ WF_vars(SetQuit) /\ WF_vars(NextPhase) /\ WF_vars(DestroyLocks)

Spec == Init /\ [][Next]_vars /\ Fairness

-----------------------------------------------------------------------------
(***************************************************************************)
(* Properties                                                              *)
(***************************************************************************)

\* Each lock, called from the driver's loop, lets at most one worker into
\* the critical section, in its own phase and whatever the earlier phases
\* left in the other locks.
MutualExclusion ==
  /\ Mpsc!MutualExclusion /\ Ticket!MutualExclusion /\ Clh!MutualExclusion
  /\ Tidex!MutualExclusion /\ Nps!MutualExclusion

\* Each lock behaves as a FIFO mutex across the whole run: workers enter in
\* the order they joined its queue.
ImplementsFifoMutex ==
  /\ Mpsc!ImplementsFifoMutex /\ Ticket!ImplementsFifoMutex
  /\ Clh!ImplementsFifoMutex /\ Tidex!ImplementsFifoMutex
  /\ Nps!ImplementsFifoMutex

\* The node-based locks touch only allocated nodes, and once main has
\* destroyed them every node they malloc'ed in lock() has been freed: the
\* workers of the mpsc and clh phases left no node behind when they exited.
LocksMemorySafe ==
  /\ Mpsc!NoUseAfterFree /\ Clh!NoUseAfterFree
  /\ Mpsc!NoLeak /\ Clh!NoLeak

\* The driver never prints ERROR: every check inside the critical section
\* sees all entries of array1 equal, although the entries are incremented
\* one by one and other workers queue on the lock.
NoErrorPrinted == ~error

\* main gets through every phase: once g_quit is set, every worker leaves
\* its loop, so each join returns; in particular every worker inside a
\* lock() eventually gets the lock.
MainReturns == <>(which = Done)
=============================================================================
