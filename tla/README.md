# TLA+ models of queue-rate

queue-rate (`src/queue-rate`) benchmarks concurrent queues and locks. It has three layers:

* **Spin locks** in `ConcurrencyFreaks/C11/locks`: ticket, CLH, MPSC, Tidex and Tidex-without-pthread_self (`tidex_nps`). All of them give the same guarantee. `lock()` queues the caller and `unlock()` passes the lock to the next thread in the queue. `mutex_validation.c` drives them with a counting worker loop.
* **Queues**:
  * the lock-free N-producer/M-consumer ring buffer `LockFreeQueue` of `include/natsysq.h`, instantiated by `src/natsys_q.h`;
  * Vyukov's intrusive MPSC queue `src/vyukov_q.h`;
  * thin adapters over boost, folly, moodycamel and TBB queues.
* **Benchmark harnesses** (and the lock test driver `mutex_validation.c`):
  * `src/lockrate.c` protects a linked list `q_t` with one of the locks.
  * `src/qrate.cc` uses one queue per consumer.

  In both, producers push their nodes, then count themselves in `g_done` under `g_mutex`. The producer that sees `g_done == nproducers` pushes a sentinel (`data == 0`) into every consumer's queue. Consumers pop until they see the sentinel.

The parts interact in two ways:

* a harness composes a lock with `q_t`, or a queue with the producer/consumer threads;
* the shutdown protocol depends on the queue's FIFO order, because the sentinel must come out after every item.

## Inventory

| Part | State | Operations | Hard behaviour |
|---|---|---|---|
| ticket lock | `ingress`, `egress` (atomic long) | init, lock (fetch_add, spin), unlock (relaxed load, store) | counter wrap-around; unlock is two steps |
| CLH lock | `tail`, `mynode`, nodes with `succ_must_wait` | init, lock (malloc, exchange, spin, free(prev), store mynode), unlock, destroy | the successor frees its predecessor's node; addresses are reused; `self->mynode` is shared |
| Tidex lock | `ingress`, `egress`, `nextEgress` (plain field) | init, lock (id, negated if equal to egress; exchange; spin; nextEgress), unlock, trylock (load E, load I, CAS) | ids repeat; ABA on ingress |
| Tidex nps | as Tidex, plus `globalThreadIndex` and thread-local `tlThreadIndex` | as Tidex, plus id registration | ids drawn by fetch_add |
| MPSC lock | `head`, `tail`, nodes with `next` | init, lock (malloc, exchange, link, spin on head), unlock (head = head->next, free) | window between exchange and link; `next` left uninitialised by malloc |
| natsys queue | `head_`, `tail_`, `last_head_`, `last_tail_`, `thr_p_[]`, `ptr_array_` | push, pop (snapshot, fetch-and-add, lap/publication scans, slot access, retire) | two-step publication; lossy caches; masked indexing; `thr_id()` |
| Vyukov queue | `head`, `tail`, `stub` | push (exchange, link), pop (with stub re-push) | pop reports empty while a push is half done |
| printme | the hwloc binding, `data[socket][core]` int bitmaps, `str1`, `str2`, `bitmap2rangestr`'s static `ret` | bind query, allocation, PU loop, str1 loop over `bitmap2rangestr`, str2 loops, print | signed bitmaps; `strncat` bounds one byte too large |
| harnesses | `g_done`, per-thread node arrays, the queues | producer loop, sentinel push, consumer loop | `g_done` read outside the mutex; sentinel array sized `messages_per_thread` but indexed to `nconsumers` |

What makes each part correct:

* **Locks:** mutual exclusion, starvation freedom and FIFO order. These are stated together as a refinement of `AbstractFifoMutex`.
  * The node-based locks must also be memory safe (no use after free) and must not leak nodes.
* **Queues:** a pop returns exactly the item pushed for its position, no slot is overwritten before it is read, and every pushed item is eventually popped.
* **Harnesses:** each consumer receives exactly one sentinel, and receives it after all its items.

The hazards, each at the line where it bites, are listed under `hazards` in `PROJECT.json`.

## Modules

| Module | Models | Refines |
|---|---|---|
| `AbstractFifoMutex` | the promise of every lock: arrive at the back of a queue, enter from the front when nobody holds the lock, leave | — |
| `TicketMutex` | `ticket_mutex.h`. Each shared access is an action: `Lock` = fetch_add, `Spin` = the successful load of egress, `UnlockLoad`, `UnlockStore`. The counters are kept modulo `2^Width`. | `AbstractFifoMutex` (queue = spinners sorted by distance of their ticket from egress) |
| `ClhMutex` / `MCClhMutex` | `clh_mutex.h`. Nodes are addresses from a finite arena `Nodes`: malloc takes any free address and free returns it, so addresses are reused. The actions are `Lock` (malloc + exchange), `Spin`, `Free` (free(prev)), `SetMynode` (the shared `self->mynode`), `UnlockRead`, `UnlockStore` and `Destroy`. | `AbstractFifoMutex` (queue = the chain of `prev` pointers, rebuilt by a recursive operator) |
| `TidexMutex` / `MCTidexMutex` | `tidex_mutex.h`. The lock actions are `LockChooseId`, `LockXchg`, `LockSpin`, `SetNextEgress` and `Unlock`. Trylock is modelled by `TryLoadE`, `TryLoadI` and `TryCas`. `Next` has only lock and unlock, which is how the benchmarks use the lock. `NextWithTrylock` adds trylock. `NextWithReentry` adds a holder's second `lock()`: `ReLockChooseId`, `ReLockXchg` and `ReLockSpin` are the same three steps taken from the critical section. | `AbstractFifoMutex` (queue = the chain of `prevtid`) |
| `TidexNpsMutex` / `MCTidexNpsMutex` | `tidex_nps_mutex.h`. The same Tidex steps, with ids drawn from the static `globalThreadIndex` by fetch_add (`Register`) on a thread's first `lock()` or successful trylock load, and cached in `tlThreadIndex`. `LockRegister` is that first registration. Trylock is in `NextWithTrylock` only. | `AbstractFifoMutex` (queue = the chain of `prevtid`) |
| `MpscMutex` / `MCMpscMutex` | `mpsc_mutex.h`. Nodes come from a finite arena, and a freshly malloc'd node's `next` is the model value `Indeterminate`. `NextOf` reads through an address that may not be a node. The actions are `Lock` (malloc + exchange on `tail`), `Link` (prev->next), `Spin` (head = prev), `UnlockLoadHead`, `UnlockLoadNext` (with the NULL test), `UnlockStore`, `UnlockFree` and `Destroy`. `UnlockWithoutLock` is in `NextWithUnpairedUnlock` only. | `AbstractFifoMutex` (queue = the chain of `prev` pointers) |
| `VyukovQueue` | `vyukov_q.h`: one `mpscq_t` per element of `Queues`, as `initQ` creates them. A node is an element of `Elems` or `Stub(c)`. It holds the state and one action per shared access, parameterised by thread, queue and node: `PushXchg` (n->next = 0 and the exchange on head), `PushLink` (prev->next = n), and the steps of `mpscq_pop`: `PopRead`, `PopStubNext` (after the stub is skipped), `PopReadHead`, the stub re-push in three steps (`PopStubClear`, `PopStubXchg`, `PopStubLink`) and `PopReread`. `sent` (order of the exchanges on head) and `received` are history variables. It has no threads of its own. | — |
| `QrateHarness` | `qrate.cc` built for the Vyukov queue. It shares `VyukovQueue`'s variables (`V == INSTANCE VyukovQueue`) and adds the threads: `ProduceXchg`/`ProduceLink` per node (queue chosen by the `permute` shuffle with `-r`), `IncDone`, `CheckDone` (the unprotected `g_done` read), `SentinelXchg`/`SentinelLink` per consumer, and `Consume`, one step of `mpscq_pop` that sets `done` when it returns a node with `data == 0`. `g_barrier` is the counter `passed`: `BarrierRelease` fires when `main` and every thread wait in it (`ProducerAtBarrier`, `ConsumerAtBarrier`, `MainAtBarrier`). That is, before the loops for the staged printf rounds and the start and end timer barriers, and after them for the two end of job barriers. A thread's arrival changes no shared state and is not a step of its own. `ProducerFree` is the frees after the last barrier, and `MainJoin` the joins. | — |
| `MutexValidation` / `MCMutexValidation` | `main` of `mutex_validation.c` over the phases of this repository's locks, in main's order (`Phases`, a subsequence of `MainOrder`): mpsc, ticket, CLH, tidex, tidex_nps. The five lock modules are instantiated on variables of their own (`Mpsc`, `Ticket`, `Clh`, `Tidex`, `Nps`, `INSTANCE ... WITH` renaming). `LockCall(t)` is one step of the current phase's lock for worker `t`: the `g_which_lock` branch. Each worker runs `TestQuit` (the `while (!g_quit)` test), then `Acquire` (lock steps until the lock's pc is `cs`), `Inc` and `Check` (one step per entry of `array1`), then `Release` (unlock steps until the pc is `idle`). `main` runs `SetQuit` after its sleep. `NextPhase` covers the joins, `g_quit = 0` and the new workers; their locals are fresh (`FreshThreadLocals`). After the last phase `DestroyLocks` runs the MPSC and CLH destroys, then `Finished`. `array1` starts with all entries equal, as the pthread phases leave it. Entries are kept modulo `2^ArrayWidth`. `error` is a history variable: some check printed ERROR. | the five lock modules, `AbstractFifoMutex` |
| `LockrateHarness` / `MCLockrateHarness` (overflow run) | `lockrate.c`. The per-queue lock is its promise, `AbstractFifoMutex`, which every lock module refines: `wq[c]` is the FIFO of threads that have called `lock()`, its head holds the lock, and `q_push`/`q_pop` plus the unlock is one step. Producers run `PushArrive`/`PushBody` per node (queue chosen by the `permute` shuffle with `-r`), `IncDone` (`g_done++` under `g_mutex`), `CheckDone` (the unprotected `g_done` read), then `SentinelArrive`/`SentinelBody` once per consumer. Consumers run `PopArrive`/`PopBody` until a node with `data == 0`. `sent`/`received` are history variables. `g_barrier`, `ProducerFree`, `MainJoin` and `Finished` are modelled as in `QrateHarness`. | — |
| `MCFifoLocks` | The ticket, CLH, MPSC and Tidex modules with three threads each, on variables of their own (`INSTANCE ... WITH`). `Init` picks the lock (`lock`), as building `lockrate.c` or setting `g_which_lock` does, and `Next` is a step of that lock with the others unchanged. So the states are the sum of the four locks' states, not their product. Every lock's `Fairness` is conjoined: none of its fair steps is enabled while all its threads are idle, so an unchosen lock satisfies it. `StarvationFree` is stated once per thread (`Waiting(t) ~> Granted(t)`, each a disjunction over the locks). TLC then checks 3 liveness branches instead of 12. | each lock: `AbstractFifoMutex` |
| `MCBenchmarks` | `QrateHarness` (3 producers × 1 message, 1 consumer) and `LockrateHarness` (2 producers, 2 consumers, 4 messages), both with `-r`. `Init` picks the program (`bench`); the other stays in one initial state, with no shuffle. `QrateStep(A)`/`LockrateStep(A)` are a step of one program with the other's variables unchanged. Fairness is each harness's own, restated over these steps. A harness's threads are enabled from the start, so its fairness is assumed only for the chosen program. | — |
| `Printme` | `printme.c`. `GetCpubind` is hwloc's topology load and `hwloc_get_cpubind`; its failure prints "Not Bound" and returns 0. Otherwise the binding is any nonempty set of PUs of a uniform topology (constants `NSockets`, `CoresPerSocket`, `PusPerCore`). `Alloc` is the `data` matrix, or an allocation failure returning 1. `PuLoop` handles one bound PU: it takes the `pu_index`-th bound PU (`PuInside`) and sets bit `sibling_rank` of `data[socket][core logical index]`. `Str1Loop` runs over `data`, reading each bitmap as a signed `Width`-bit int, and calls `bitmap2rangestr` on a positive one. `B2RBit` is one iteration of its bit loop and `B2REnd` its final block. `Str1Entry` appends the entry, and `Str1Loop` frees `data` at its end. `Str2Socket`/`Str2Core`/`Str2Pu` are the nested loops building `str2`. `Report` is the `fprintf`, the topology destroy and `return 0`. Text is the sequence of the pieces `strncat` appends; a range is formatted with `ToString`, as `snprintf` does. | — |
| `ThreadPlacement` | The start of `main` in `lockrate.c` and `qrate.cc`, which is the same code in both. `GetOpt` is one `getopt` call: `-r`, or `-p`/`-c`/`-m` with the value `atoi` gives (from `ArgValues`), or `'?'` (usage, return 1), or the end of argv. `ArgCheck` is the argument test. `Setup` covers `initQ`, the topology, the barrier and the queues. `ProducerSpawn` and `ConsumerSpawn` are one iteration of the two loops that bind a thread to core `j` and create it: producers start at core 1 with `ProducerStride` (2 while `i <= nconsumers-2`, then 1), consumers at 0 with stride 2. `Spawn` is the core lookup, the crash when `hwloc_get_obj_by_type` returns NULL (`j` not below `NCores`), and `pthread_create`, whose failure is `exit(1)`. What the threads then do is the harness modules' part. | — |
| `MCStandalone` | The parts that share no state: `NatsysQueue` (2 producers, 2 consumers, 1 item each, 1 slot), `Printme` (2 sockets × 2 cores × 3 PUs, `Width` = 4) and `ThreadPlacement` on the same 4 cores, with `-p`, `-c`, `-m` from -1..3. `Init` picks the part (`part`); the others keep their single initial state. The natsys fairness is restated over `NatsysStep(A)`, and `AllItemsDelivered` is required only when natsys is chosen. | — |
| `NatsysQueue` / `MCNatsysQueue` | `natsysq.h`. Each shared access of `push()` and `pop()` is one action: snapshot, its store, fetch-and-add, its store, loop test, each iteration of the scan over `thr_p_[]`, the store of `last_tail_`/`last_head_`, the re-check, the slot access and the retirement. Slots are indexed by `pos & Q_MASK` (module Bitwise). Each thread reaches its `ThrPos` entry through `ThrId`, as `thr_pos()` does. `written`/`consumed` are history variables. `MCNatsysQueue` holds the constants of the two violation runs; the passing run is in `MCStandalone`. | — |

In each lock module the thread-local variables of `lock()`/`unlock()` are functions of the thread, and a spin loop is one action enabled when the loop exits. A load that sees the wrong value changes nothing, so it is a stuttering step.

## Runs

| Run | Bounds | Shows |
|---|---|---|
| `mutex_validation_pass` | 2 workers; `Phases` = mpsc, ticket, CLH, tidex; 1-bit ticket counters; 3 addresses per node lock; `ARRAY_SIZE` = 2 kept on 1 bit | Every lock under the validation loop, one phase after another, each starting from whatever the earlier phases left. `MutualExclusion` and `ImplementsFifoMutex` hold for all locks. `LocksMemorySafe`: the MPSC and CLH locks touch only allocated nodes, and after main's destroys nothing is left allocated. `NoErrorPrinted`: no check ever sees unequal entries; one bit tells apart a difference of 1, the only one two workers can make. `MainReturns`: main gets through every phase, so after each `g_quit` every worker leaves its loop. This includes each lock's starvation freedom, since a worker spinning forever never exits. The tidex_nps phase is left out of `Phases` (it runs no iteration): TLC would check it after each of ~100 end states of the four phases before it, an 11-minute run. That lock is checked alone in `tidex_nps_pass`. |
| `fifo_locks_pass` | 3 threads; 2-bit ticket counters; 4 node addresses for CLH and MPSC; distinct nonzero tidex ids | `MutualExclusion`, `StarvationFree` and `ImplementsFifoMutex` for the ticket, CLH, MPSC and tidex locks. `NodesMemorySafe`: CLH's and MPSC's `NoUseAfterFree` (a spinner's predecessor, the node unlock writes and the node MPSC's unlock frees are allocated) and `NoLeak` (with every thread idle only the lock's own node is allocated). Four addresses are the most 3 threads plus the sentinel can hold at once, so the arena never runs out and every address is reused. In MPSC the predecessor may unlock between a thread's exchange and its link. Two-bit ticket counters wrap while three tickets are out. |
| `clh_unpaired_violation` | CLH, 3 threads, one may call `unlock()` without `lock()` | **Mutual exclusion fails.** `self->mynode` is set by init and by every `lock()`, and never to NULL, so the NULL test at `clh_mutex.h:134` never fires. t1 holds the lock with t2 spinning on t1's node. t3's unpaired unlock stores 0 into that node, and t2 enters beside t1. |
| `tidex_trylock_violation` | 3 threads, trylock enabled | **Mutual exclusion fails.** (The same two loads are in `tidex_nps_mutex.h:152`.) t2's trylock loads egress = 1. t1 then unlocks (egress = -1) and re-locks with id 1 (ingress = 1). t2 loads ingress = 1, equal to its stale egress, and its CAS succeeds while t1 holds the lock. |
| `tidex_reentry_violation` | 3 threads, a holder may call `lock()` again (`SpecWithReentry`) | **A holder's re-lock never returns.** spec.md says it does not spin waiting for itself. The holder exchanges ingress and gets back its own id (or that of the last thread queued behind it), then spins until egress equals it; only the holder's own unlock would store that, so it and every thread behind it wait for ever. The run has no deadlock check, since these threads do stop. `trylock()` by the holder likewise loads egress ≠ ingress and returns EBUSY, where spec.md says it succeeds. |
| `tidex_nps_pass` | 3 threads, `MaxIndex` 4 | Mutual exclusion, starvation freedom and FIFO refinement of the Tidex protocol (repeating, negated ids), with ids registered by fetch_add; `TidexMutex` has the same lock/unlock steps with ids from `pthread_self()`. A lost update on `globalThreadIndex` (two threads with one id) breaks mutual exclusion. |
| `mpsc_unpaired_violation` | MPSC, one thread may call `unlock()` without `lock()` | **Mutual exclusion fails.** The unpaired unlock reads `head->next`, which is the next holder's node, advances head and lets a waiter in while the holder is in its critical section. Where `next` was never written, the read is of uninitialised memory (`Indeterminate`). |
| `benchmarks_pass` | qrate: 3 producers × 1 message, 1 consumer, `-r`; lockrate: 2 producers, 2 consumers, 4 messages, `-r` | `QueueIsFifo`: each queue returns nodes in push order (for the Vyukov queue, the order of the exchanges on head), never the stub. `ReturnedNodeUntouched` (qrate): no step writes a node after pop returned it. `ConsumerDrainsBeforeStop`: a consumer that stops has received every item pushed to its queue. `NoUseAfterFree`: no producer frees `nodes` or `nodes_tmp` while a consumer still pops or a producer still pushes; only the end of job barriers order the frees. `Termination`: `main` joins every thread and returns. In qrate three producers race on head: one can exchange while another sits between its exchange and its link. All three may read `g_done` = 3 and push a sentinel each, and the stub goes out and back in between. In lockrate both producers can read `g_done` = 2 and both push sentinels; this is harmless, since a consumer stops at the first sentinel and every item precedes it. The queues of `qrate.cc` interact only through `g_done`, whose race the lockrate half checks with two queues; two Vyukov queues take 18 minutes. |
| `natsys_mask_violation` | natsys as in `standalone_pass`, `Q_SIZE` = 3 | **An unread item is overwritten.** With a size that is not a power of two, `pos & Q_MASK` maps two positions of one lap to the same slot. `natsys_q.h` uses `Q_SIZE` = 10000000. |
| `lockrate_sentinel_overflow_violation` | `-p 2 -c 2 -m 2` | **The sentinel loop writes past `nodes_tmp`.** `nodes_tmp` has `messages_per_thread` = 1 entry, but the loop indexes it up to `nconsumers - 1` = 1 (`lockrate.c:379`); `qrate.cc:158` does the same. `main` accepts these arguments. |
| `standalone_pass` | natsys: 2 producers, 2 consumers, 1 item each, `Q_SIZE` = 1, distinct thread ids; printme: 2 sockets × 2 cores × 3 PUs (4095 bindings), `Width` = 4; main: 4 cores, every option sequence with values -1..3 (2 to 6 threads) | natsys: `PopReturnsPushedItem`: a pop returns the item pushed for its position. `NoOverwriteOfUnread`: no unread slot is overwritten. `AllItemsDelivered`: every item is popped. With one slot, the second producer must wait in the lap scan, and consumers that claim early wait in the publication scan. printme: `RangeStrIsMaximalRuns`: `bitmap2rangestr` returns the maximal runs of set bits, in order, as `a` or `a-b`, separated by commas. `DataIsBinding`: after the PU loop, each core's bitmap has exactly the bits of its bound siblings, in the row of its socket. `Str2ShowsBinding`: the line written shows every PU once, `B` exactly when bound, with `[`, `/` and `]` in place. `Width` exceeds `PusPerCore`, so bitmaps with gaps (`0,2`) are positive and go through `bitmap2rangestr`. With `PusPerCore` = `Width` every such bitmap has its sign bit set: see the hazard at `printme.c:182`. The final block of `bitmap2rangestr` for a range open at the last bit is never reached from `printme`, since that bitmap is negative. `OwnCore`: every thread `main` creates is bound to a core no other thread has; the producers' stride fills the odd cores the consumers skip. `NullCoreOnlyWhenTooFew`: `main` asks hwloc for a core past the last only when `-p` + `-c` exceeds the cores; it asks for nothing beyond cores 0..p+c-1. Such a run does crash, since `main` accepts any counts (see the hazard at `lockrate.c:583`). |
| `natsys_thrid_violation` | natsys as in `standalone_pass`, every `thr_id()` = 0 | **A pop returns a slot that was never written.** `set_thr_id` is never called, so all threads share `thr_p_[0]`, and a consumer's scan misses a pending push. |

Each property of a passing run has a mutant in `PROJECT.json`: a plausible bug in the mapped code, which TLC detects. Examples:

* a lost update on ingress;
* a node created unlocked;
* a missing `self->mynode` store;
* `>` for `>=` in the lap test.

## Fairness

The spin loops only call `sched_yield()` or `_mm_pause()`, and `unlock()` is straight-line code. A thread that is inside `lock()` or `unlock()` therefore keeps running, so these steps get weak fairness. Calling `lock()` again is the caller's choice and is not fair; once a holder has started a second `lock()`, its exchange and spin are weakly fair like the first. Benchmark threads run their loops to the end, so each producer's push and each consumer's pop are weakly fair. In `LockrateHarness` every thread's step is weakly fair: the lock is FIFO, so a thread that has arrived at a queue reaches its head, and a consumer that finds its queue empty calls `q_pop` again. In `MutexValidation` the workers' loops are weakly fair. `main`'s sleep ends and its joins return once the workers exit, so `SetQuit`, `NextPhase` and `DestroyLocks` are weakly fair. In `QrateHarness` the consumer calls `mpscq_pop` again after every empty return (`qrate.cc:232`), so `Consume` as a whole is weakly fair. A barrier whose participants all wait releases them, and joins of exited threads return, so `BarrierRelease` and `MainJoin` are weakly fair, in both harnesses. `printme` has no liveness property: its loops are bounded and it is checked for what it returns and writes.

## Plan

Done:

* all five locks, each refining one abstract FIFO mutex, with node memory safety for CLH and MPSC; the 3-thread checks of four of them in one run (`MCFifoLocks`);
* the natsys queue and the Vyukov queue;
* `lockrate.c`: the lock-protected list, producers, consumers and the sentinel shutdown, with the `nodes_tmp` overflow;
* `mutex_validation.c`: main's phases over the five lock modules, with the final destroys;
* `qrate.cc` over the Vyukov queue, composed with `VyukovQueue`;
* `g_barrier`, the frees and `main`'s joins in both benchmarks, with `NoUseAfterFree`;
* the spec divergences met in the code: the Tidex trylock race and the MPSC and CLH unpaired unlocks;
* `printme.c`: `printme` and `bitmap2rangestr`, each step;
* `main` of both benchmarks up to the threads' start: options, argument check and thread placement (`ThreadPlacement`);
* Tidex re-entry by the holder (`tidex_reentry_violation`).

Next, in this order:

1. `qrate.cc` over `NatsysQueue` (the `NATSYS_QUEUE` build), if its state space allows.
2. The natsys destructor and a wider natsys bound (2 items per producer) if the state space allows.

## Not modelled

* `clh_rwlock.h`: declarations only, so there is nothing to model.
* The third-party queue adapters: the libraries they wrap are not in this repository.
* `urandom_init`/`urandom` of `printme.c`: the harnesses' `-r` shuffle draws from them, and their `Init` takes every permutation instead. `printme()` itself is modelled, although both harnesses compile it out (`PRINT_AFFINITY` 0).
* The pthread-lock builds of `lockrate.c` (`pthread_mutex_t`, `pthread_spinlock_t`): pthread is outside this repository, and those locks make no FIFO promise for the model to rest on.
* `folly/.../EventBase.cpp` and the `libcds` test files: single files of libraries whose rest is not in this repository, and which no benchmark here includes.
* The pthread and ticket AWN phases of `mutex_validation.c`: pthread locks are outside the repository; `ticketawn/ticket_awnne_mutex.h` and `ticket_awnee_mutex.h` are missing and `ticket_awnsb_mutex.h` only declares. The iteration counters and `printOperationsPerSecond` are output only.
* Timing of the harnesses, and the CPU binding once the threads run: they do not change which states are reachable. Which core `main` binds each thread to is modelled (`ThreadPlacement`). The barriers of both harnesses are modelled.
* The C11 memory model: every access is modelled as sequentially consistent. The relaxed loads here, `ticket` unlock and Tidex's egress, read values that only the reading thread wrote or that are re-checked afterwards.
