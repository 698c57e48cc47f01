----------------------------- MODULE MCFifoLocks -----------------------------
(***************************************************************************)
(* Four locks of ConcurrencyFreaks/C11/locks, each used by three threads,  *)
(* in one model: the initial state picks the lock (lockrate.c and          *)
(* mutex_validation.c pick it when they are built or by g_which_lock), and *)
(* the other locks stay in their initial states.  Each behaviour is then a *)
(* behaviour of one lock module, and a property of the run is the          *)
(* conjunction of the modules' properties.                                 *)
(*                                                                         *)
(* Three threads, and four node addresses for CLH and MPSC: one more than  *)
(* the threads, the most nodes those locks can have live, so malloc        *)
(* reuses freed addresses as soon as it can.  The ticket counters are two  *)
(* bits wide, more than the three tickets that can be out at once; the    *)
(* tidex pthread_self() values are distinct and nonzero.  tidex_nps, whose *)
(* state space is the largest, has a run of its own (MCTidexNpsMutex).     *)
(***************************************************************************)
EXTENDS Integers, TLC

CONSTANTS t1, t2, t3, n1, n2, n3, n4, NULL, Indeterminate

Threads == {t1, t2, t3}
Nodes == {n1, n2, n3, n4}
Tid == (t1 :> 1) @@ (t2 :> 2) @@ (t3 :> 3)

Locks == {"ticket", "clh", "mpsc", "tidex"}

VARIABLES
  lock,                                                \* the lock checked
  tkIngress, tkEgress, tkPc, tkTicket, tkLegress,      \* ticketmutex
  clhTail, clhMynodeField, clhMustWait, clhAllocated, clhDestroyed, clhPc,
  clhMynode, clhPrev, clhUnode, clhUnpaired,           \* clhmutex
  mpHead, mpTail, mpNext, mpAllocated, mpDestroyed, mpPc, mpMynode, mpPrev,
  mpUprev, mpUnext, mpUnpaired,                        \* mpscmutex
  tdIngress, tdEgress, tdNextEgress, tdPc, tdMytid, tdPrevtid, tdLocalE,
  tdLocalI                                             \* tidexmutex

ticketVars == <<tkIngress, tkEgress, tkPc, tkTicket, tkLegress>>
clhVars == <<clhTail, clhMynodeField, clhMustWait, clhAllocated, clhDestroyed,
             clhPc, clhMynode, clhPrev, clhUnode, clhUnpaired>>
mpscVars == <<mpHead, mpTail, mpNext, mpAllocated, mpDestroyed, mpPc, mpMynode,
              mpPrev, mpUprev, mpUnext, mpUnpaired>>
tidexVars == <<tdIngress, tdEgress, tdNextEgress, tdPc, tdMytid, tdPrevtid,
               tdLocalE, tdLocalI>>
vars == <<lock, ticketVars, clhVars, mpscVars, tidexVars>>

Ticket == INSTANCE TicketMutex
            WITH Width <- 2, ingress <- tkIngress, egress <- tkEgress,
                 pc <- tkPc, ticket <- tkTicket, legress <- tkLegress
Clh == INSTANCE ClhMutex
         WITH tail <- clhTail, mynodeField <- clhMynodeField,
              mustWait <- clhMustWait, allocated <- clhAllocated,
              destroyed <- clhDestroyed, pc <- clhPc, mynode <- clhMynode,
              prev <- clhPrev, unode <- clhUnode, unpaired <- clhUnpaired
Mpsc == INSTANCE MpscMutex
          WITH head <- mpHead, tail <- mpTail, next <- mpNext,
               allocated <- mpAllocated, destroyed <- mpDestroyed, pc <- mpPc,
               mynode <- mpMynode, prev <- mpPrev, uprev <- mpUprev,
               unext <- mpUnext, unpaired <- mpUnpaired
Tidex == INSTANCE TidexMutex
           WITH ingress <- tdIngress, egress <- tdEgress,
                nextEgress <- tdNextEgress, pc <- tdPc, mytid <- tdMytid,
                prevtid <- tdPrevtid, localE <- tdLocalE, localI <- tdLocalI
Init ==
  /\ lock \in Locks
  /\ Ticket!Init /\ Clh!Init /\ Mpsc!Init /\ Tidex!Init

\* A step of the chosen lock; the other locks keep their initial state.
Next ==
  /\ UNCHANGED lock
  /\ \/ lock = "ticket" /\ Ticket!Next
        /\ UNCHANGED <<clhVars, mpscVars, tidexVars>>
     \/ lock = "clh" /\ Clh!Next
        /\ UNCHANGED <<ticketVars, mpscVars, tidexVars>>
     \/ lock = "mpsc" /\ Mpsc!Next
        /\ UNCHANGED <<ticketVars, clhVars, tidexVars>>
     \/ lock = "tidex" /\ Tidex!Next
        /\ UNCHANGED <<ticketVars, clhVars, mpscVars>>

\* Each module's fairness: none of its fair steps is enabled while every
\* thread is idle, so a lock that was not chosen satisfies it.
Spec ==
  /\ Init /\ [][Next]_vars
  /\ Ticket!Fairness /\ Clh!Fairness /\ Mpsc!Fairness /\ Tidex!Fairness

TypeOK ==
  /\ lock \in Locks
  /\ Ticket!TypeOK /\ Clh!TypeOK /\ Mpsc!TypeOK /\ Tidex!TypeOK

\* At most one of three threads holds each lock, from the end of its spin
\* in lock() to the store in unlock() that lets the next thread in.
MutualExclusion ==
  /\ Ticket!MutualExclusion /\ Clh!MutualExclusion /\ Mpsc!MutualExclusion
  /\ Tidex!MutualExclusion

\* The node locks only read, link and free nodes that are allocated,
\* although malloc hands freed addresses out again at once, and leak none:
\* with every thread idle only the node at the lock's tail (and, for MPSC,
\* its head) is allocated, and destroy frees it.
NodesMemorySafe ==
  /\ Clh!NoUseAfterFree /\ Clh!NoLeak
  /\ Mpsc!NoUseAfterFree /\ Mpsc!NoLeak

\* Where each lock's waiters spin, and the step that ends the wait: the
\* predicates of the modules' StarvationFree, for the lock chosen.
Waiting(t) ==
  \/ lock = "ticket" /\ tkPc[t] = "spin"
  \/ lock = "clh" /\ clhPc[t] = "spin"
  \/ lock = "mpsc" /\ mpPc[t] \in {"link", "spin"}
  \/ lock = "tidex" /\ tdPc[t] = "spin"

Granted(t) ==
  \/ lock = "ticket" /\ tkPc[t] = "cs"
  \/ lock = "clh" /\ clhPc[t] = "free"
  \/ lock = "mpsc" /\ mpPc[t] = "cs"
  \/ lock = "tidex" /\ tdPc[t] = "set_next"

\* A thread that has started waiting gets the lock: every lock hands it on
\* in arrival order, so no thread waits forever while others pass it.  As
\* lock never changes, this is the conjunction of the modules'
\* StarvationFree, stated once per thread.
StarvationFree == \A t \in Threads : Waiting(t) ~> Granted(t)

\* Each lock implements the abstract FIFO mutex under its refinement mapping.
ImplementsFifoMutex ==
  /\ Ticket!ImplementsFifoMutex /\ Clh!ImplementsFifoMutex
  /\ Mpsc!ImplementsFifoMutex /\ Tidex!ImplementsFifoMutex
=============================================================================
