--------------------------- MODULE ThreadPlacement ---------------------------
(***************************************************************************)
(* The start of main() in src/lockrate.c and src/qrate.cc, which is the   *)
(* same code in both: getopt over "rp:c:m:", the check of the arguments,  *)
(* the set-up, and the two loops that bind each thread to a core before   *)
(* creating it.  Producer i goes to core j, j starting at 1 and growing   *)
(* by 2 while i <= nconsumers-2 and by 1 after; consumer i goes to core   *)
(* 2i.  The core is hwloc_get_obj_by_type(g_topo, HWLOC_OBJ_CORE, j),     *)
(* which is NULL when j is not below the number of cores, and main reads  *)
(* obj->cpuset without a test.  What happens once the threads run is the  *)
(* harness modules' part (LockrateHarness, QrateHarness).                 *)
(*                                                                         *)
(* An option's argument is the value atoi gives it (0 for text that is    *)
(* not a number); the end of argv is getopt returning -1.                  *)
(***************************************************************************)
EXTENDS Integers, Sequences, Functions

CONSTANTS
  NCores,     \* hwloc_get_nbobjs_by_type(g_topo, HWLOC_OBJ_CORE)
  ArgValues   \* the values atoi may return for -p, -c and -m

ASSUME NCores \in Nat \ {0} /\ ArgValues \subseteq Int

VARIABLES
  mpc,         \* where main is
  nproducers, nconsumers, nmessages, randomize,
  i, j,        \* the loop index and the core index of the spawn loops
  prodCore,    \* prodCore[i+1]: the core producer i is bound to
  consCore     \* consCore[i+1]: the core consumer i is bound to

vars == <<mpc, nproducers, nconsumers, nmessages, randomize, i, j, prodCore,
          consCore>>

\* main's ends: return 1 after a usage message, a NULL obj dereferenced,
\* exit(1) after a failed pthread_create, every thread created.
Ended == {"usage", "crashed", "exited", "spawned"}

TypeOK ==
  /\ mpc \in {"getopt", "check", "setup", "producers", "consumers"} \cup Ended
  /\ {nproducers, nconsumers, nmessages} \subseteq ArgValues \cup {0}
  /\ randomize \in BOOLEAN
  /\ i \in Nat /\ j \in Nat
  /\ prodCore \in Seq(0 .. NCores - 1) /\ consCore \in Seq(0 .. NCores - 1)

Init ==
  /\ mpc = "getopt"
  /\ nproducers = 0 /\ nconsumers = 0 /\ nmessages = 0 /\ randomize = FALSE
  /\ i = 0 /\ j = 0
  /\ prodCore = <<>> /\ consCore = <<>>

\* One call of getopt: -r, -p, -c or -m with its argument, '?' for an
\* unknown option or a missing argument (main prints and returns 1), or -1
\* at the end of argv.  A repeated option overwrites the earlier one.
GetOpt ==
  /\ mpc = "getopt"
  /\ \/ randomize' = TRUE /\ UNCHANGED <<mpc, nproducers, nconsumers, nmessages>>
     \/ \E v \in ArgValues :
          \/ nproducers' = v /\ UNCHANGED <<mpc, nconsumers, nmessages, randomize>>
          \/ nconsumers' = v /\ UNCHANGED <<mpc, nproducers, nmessages, randomize>>
          \/ nmessages' = v /\ UNCHANGED <<mpc, nproducers, nconsumers, randomize>>
     \/ mpc' = "usage" /\ UNCHANGED <<nproducers, nconsumers, nmessages, randomize>>
     \/ mpc' = "check" /\ UNCHANGED <<nproducers, nconsumers, nmessages, randomize>>
  /\ UNCHANGED <<i, j, prodCore, consCore>>

\* if(nproducers < 1 || nconsumers < 1 || (nproducers < nconsumers) ||
\* nmessages < nconsumers): the usage message and return 1.
ArgCheck ==
  /\ mpc = "check"
  /\ mpc' = IF \/ nproducers < 1 \/ nconsumers < 1
               \/ nproducers < nconsumers \/ nmessages < nconsumers
            THEN "usage" ELSE "setup"
  /\ UNCHANGED <<nproducers, nconsumers, nmessages, randomize, i, j, prodCore,
                 consCore>>

\* initQ, urandom_init, the topology, pthread_barrier_init for
\* nproducers+nconsumers+1 and the queues; then the producer loop starts
\* with i = 0, j = 1.
Setup ==
  /\ mpc = "setup"
  /\ mpc' = "producers" /\ i' = 0 /\ j' = 1
  /\ UNCHANGED <<nproducers, nconsumers, nmessages, randomize, prodCore,
                 consCore>>

\* The core of index j, or main's crash on its cpuset when there is none;
\* then pthread_create, whose failure is exit(1).  AfterCreate is what the
\* loop does after a thread is created.
Spawn(cores, AfterCreate) ==
  IF j >= NCores
    THEN mpc' = "crashed" /\ UNCHANGED <<i, j, cores>>
    ELSE /\ cores' = Append(cores, j)
         /\ \/ AfterCreate
            \/ mpc' = "exited" /\ UNCHANGED <<i, j>>

\* A producer stride that grows by 2 for every producer.
ProducerStrideAlwaysTwo == j + 2

\* A producer stride that grows by 2 one producer too few.
ProducerStrideShort == IF i < nconsumers - 2 THEN j + 2 ELSE j + 1

\* if(i<=(nconsumers-2)) j+=2; else j+=1;
ProducerStride == IF i <= nconsumers - 2 THEN j + 2 ELSE j + 1

\* for(i=0,j=1; i < nproducers; i++): bind producer i to core j and create
\* it; after the last, the consumer loop starts with i = 0, j = 0.
ProducerSpawn ==
  /\ mpc = "producers"
  /\ Spawn(prodCore,
           IF i + 1 < nproducers
             THEN i' = i + 1 /\ j' = ProducerStride /\ UNCHANGED mpc
             ELSE i' = 0 /\ j' = 0 /\ mpc' = "consumers")
  /\ UNCHANGED <<nproducers, nconsumers, nmessages, randomize, consCore>>

\* for(i=0, j=0; i < nconsumers; i++,j+=2): bind consumer i to core j and
\* create it; after the last, main goes on to the staged printf barrier.
ConsumerSpawn ==
  /\ mpc = "consumers"
  /\ Spawn(consCore,
           /\ i' = i + 1 /\ j' = j + 2
           /\ mpc' = IF i + 1 < nconsumers THEN "consumers" ELSE "spawned")
  /\ UNCHANGED <<nproducers, nconsumers, nmessages, randomize, prodCore>>

\* main has returned or exited, or the threads run (the harness's part).
Terminated == mpc \in Ended /\ UNCHANGED vars

Next == GetOpt \/ ArgCheck \/ Setup \/ ProducerSpawn \/ ConsumerSpawn \/ Terminated

Spec == Init /\ [][Next]_vars

-----------------------------------------------------------------------------
(***************************************************************************)
(* Properties                                                              *)
(***************************************************************************)

\* Every thread main creates has a core of its own: the producers' stride
\* of 2, then 1, fills the odd cores the consumers' stride of 2 leaves,
\* so no producer lands on a consumer's core, whatever -p and -c are.
OwnCore == IsInjective(prodCore \o consCore)

\* main dereferences a NULL core only on a machine with fewer cores than
\* threads: the two loops bind the threads to cores 0 .. p+c-1 and ask
\* hwloc for no core beyond them.
NullCoreOnlyWhenTooFew ==
  mpc = "crashed" => nproducers + nconsumers > NCores
=============================================================================
