# Verification of Kpllminfer

TLA+ models, TLC runs and TLAPS proofs for Kpllminfer, a runtime for large
language models on Kunpeng CPUs: for its concurrent parts, for the dispatch of
operators, and for what its compute operators read and write. Line numbers refer to files
under `src/`.

- [1. The system](#1-the-system): its components, what each keeps and what makes it correct
- [2. The modules](#2-the-modules): how state and actions correspond to the code
- [3. The runs](#3-the-runs): what is checked, with which bounds, and what was found
- [4. The proofs](#4-the-proofs)
- [5. What is only checked, and what is not modelled](#5-what-is-only-checked-and-what-is-not-modelled)
- [6. The plan](#6-the-plan)

Run a configuration with `tlc -workers 2 -config MCKspinPool.cfg KspinPool`, and
check proofs with `tlapm KspinPoolProofs.tla`.

## 1. The system

Python code calls operators on tensors. A dispatch mode (`async_rt/runtime.py`)
hands the heavy ones to a C++ runtime with one background worker, which runs them
one after the other. Their tensors come from a proxy allocator
(`kp_allocator`). Inside, the operators use the library `third_party/kutacc`:
loops over a spinning thread pool, matrix products tiled over its threads,
collectives through the shared memory of a node, and an RDMA transport with the
dispatch and combine steps of a mixture of experts.

| Component | State it keeps | Operations | Interacts by | What is hard |
|---|---|---|---|---|
| asynchronous runtime, `async_rt/cpp_async_runtime.cpp` | queue `q_`, counter `pending_`, `stop_`, `first_exception_`, ready handles | `submit_*`, `sync`, `shutdown`, `ReadyHandle::wait` | Python threads and the worker, three mutexes, three condition variables, the GIL | wake-ups, the order of counting, errors, draining on shutdown |
| memory pool, `kp_allocator/custom_allocator.cpp` | bytes taken from the system per memory type, free lists per shard, type and size, two switches | `allocate`, the tensors' deleter, `clear_pool`, `enable`, `disable`, `set_huge_state` | any thread; a mutex and a condition variable per shard and type, one atomic counter per type, the GIL | quota claimed by many shards at once, blocking for quota, two locks in two orders, stale page kinds |
| kspin thread pool, `kutacc/src/kspin` | a counter and a shared word per thread, group tree, current task | `run`, `barrier`, `createGroupAndRun`, destructor | one 32-bit word per thread, read by parent or children; the caller's stack | counters that wrap, barriers, lifetime of the task and of `group_func`, stopping |
| shared-memory allreduce, `kutacc/src/comm/allreduce.cpp` | one-byte flags, an extra buffer in two halves, `flip_flag` | `shm_allreduce` on 4, 8 or 16 ranks | processes of a node: shared memory, fences of a die, flags across dies and sockets | ranks a call apart, reuse of flags and buffers, memory order |
| shared-memory allgather, `kutacc/src/comm/allgather.cpp` | the ranks' buffers | flat and hierarchical forms for 8 and 16 ranks | as above, with a barrier the caller passes | offsets of batches, rows left over by the division among threads |
| `parallel_for`, `kutacc/src/utils/parallel.cpp` | none | splits an index range over the threads | thread pool | ranges shorter than the number of threads, chunks rounded up |
| compute operators, `async_rt/csrc/compute_ops` | static caches of row offsets; the norms a forward saves for its backward | element-wise, `sve_add` with broadcasting, silu, rope, rms_norm, random numbers, packing of scales | called by the runtime's worker, loops over `parallel_for` or OpenMP | vector tails, strides, layouts, operators in place, a cached table used for another layout |
| GEMM tiling, `kutacc/src/core/matmul` | a table of plans by shape | choice of a plan, index of a thread's tile, reduction over k | thread pool, barrier inside the loop | plans reused with another number of threads, numbers that do not divide |
| kurmcl transport, `kutacc/src/core/kurmcl` | queue pairs, sends since the last signalled one, receives left per peer | `put` with immediate data, `flush`, `recv_imm_cnt`, `barrier` | RDMA writes between nodes | completions that are moderated, counted arrivals, a full queue |
| MoE dispatch and combine, `kutacc/src/moe` | lists of transfers, counts of tokens per expert and peer | send and receive of both steps | kurmcl | a barrier that carries who sends to whom, 16-bit indices |
| operator dispatch, `async_rt/runtime.py`, `async_ops.py` | a mode flag, tables of operators, `ready_event` of tensors | submit, run at once, or synchronise and call; switch the mode | the runtime above; closures hold tensors, the worker drops them | which operators may run before the queue is empty; memory of tensors that Python has forgotten; `copy_`, which re-points its destination |
| flash MLA metadata, `kutacc/src/attention/flash_mla` | none | splits the key blocks of sequences over threads | none | blocks counted once, splits of one sequence |
| GEMM kernels, quantisation, tensor headers, build script | none that outlives a call | arithmetic | | floating point |

What makes each correct, in the order of the table: a `sync()` that returns means
that all earlier tasks ran; the counter equals what the system gave and no thread
sleeps on memory that is free; the threads of a group are always in the same part
of the same task, whose object still lives; every rank ends a call with the sum
of all inputs, although ranks overtake each other; every row arrives once; every
index of a range belongs to one thread; each element of an output is the one that
its logical index asks for, and no thread meets what another one writes; every
element of a product is computed by one thread; no rank leaves a barrier before all
have entered it; every token comes back to where it was; a program reads what it
would read if it were run eagerly; every key block belongs to one split.

`PROJECT.json` lists the hazards behind these at their lines, with the properties
that cover them, or the reason why none does.

## 2. The modules

| Module | Stands for |
|---|---|
| `AsyncRuntime` | the asynchronous runtime |
| `RuntimeContract` | what it promises, without queue or locks; `AsyncRuntime` implements it |
| `MemoryPool` | the proxy allocator and its pool |
| `KspinPool` | the spinning thread pool |
| `ShmAllreduce` | the shared-memory allreduce, loads in program order |
| `ShmAllreduceWeak` | the same, with loads that the processor may execute early |
| `OperatorDispatch` | the dispatch mode and a Python program on top of `RuntimeContract`, with the same program run eagerly beside it |
| `RowOffsets` | the tables of row offsets of rms_norm and their caches |
| `Kernels` | the compute operators on top of `RowOffsets`, and `parallel_for` |
| `MC...` | constants and symmetry for TLC |
| `...Proofs` | theorems about the module before the suffix |

Two of them are composed. `OperatorDispatch` takes the runtime's place for granted
as `RuntimeContract`, which `AsyncRuntime` implements: what holds of the dispatch
holds with the real queue, locks and condition variables under it. `Kernels`
extends `RowOffsets`. Elsewhere components share no state at the level of these
models: a task of the runtime is opaque to the runtime, a loop body of the pool is
opaque to the pool, and the allreduce uses the pool only to get its threads.

### AsyncRuntime

A client is a Python thread. Every critical section of `mu_`, `err_mu_` and
`ReadyHandle::mu` is one step, because none of them blocks. `done_mu_` and the GIL
are variables: `sync()` keeps `done_mu_` from its predicate to the moment it
blocks, while the worker changes `pending_` and notifies without it, and
`shutdown()` joins the worker with the GIL in its hands. The worker destroys a task
at the end of the iteration (662), after `pending_` has counted it. A closure that
has the last reference to a tensor which Python has dropped needs the GIL for it
(`WorkerAsksGil`, `WorkerDrop`); any other one does not (`WorkerFree`). Which of them it is
depends on the program, so that every closure of an operator or an event may be either.

| Code | Actions |
|---|---|
| `enqueue` 666-682 | `Submit`, `EnqCheckPasses` or `EnqCheckFails`, `EnqPush`, `EnqNotify` |
| `sync` 328-336 | `Sync`, `SyncLock`, `SyncCheck`, `SyncBlock`, `SyncErr`, `Regil` |
| `shutdown` 315-326 | `Shutdown`, `ShutAgain` or `ShutStop`, `ShutNotify`, `ShutJoin` |
| `ReadyHandle::wait` 112-117 | `HandleWait`, `HandleCheck`, `Regil` |
| worker 620-664 | `WorkerBlock`, `WorkerReturn`, `WorkerTake`, `WorkerRun`, `WorkerThrow`, `WorkerMarkDone`, `WorkerMarkNotify`, `WorkerDec`, `WorkerNotify`, `WorkerFree` or `WorkerAsksGil` and `WorkerDrop` |
| a condition variable's spurious wake-up | `SpuriousClient`, `SpuriousWorker` |

The `submit_*` functions differ only in the operator they wrap: they are three
kinds of task, an operator, the marking of a handle, and the poll of a weight's
state byte, which `RaiseState` sets from outside. `log`, `stopMark`, `failed`,
`mark` and `res` are history for the properties.

### MemoryPool

A cell is a shard and a memory type, with its mutex, condition variable and free
lists. The mutex is a variable because a thread keeps it while it gives up and
takes back the GIL around `cv.wait` (215-218). The compare-and-swap loop on the
quota (169-179) is one atomic step. A block has the request it was made with
(`os`) and the one its header now names (`hdr`), so that the page kind passed to
`memkind_free` can be compared with the one it was allocated with.

| Code | Actions |
|---|---|
| `allocate` 147-223, 322-358 | `Allocate`, `AllocLock`, `AllocHit`, `AllocClaim`, `AllocOs`, `AllocOsFails`, `AllocLimited`, `AllocBlock`, `AllocWake`, `AllocRegil` |
| deleter and `free_with_size` 225-272, 372-388 | `Free`, `FreePush`, `FreeNotify`, `FreeOs`, `FreeSub`, `Broadcast` |
| `clear_pool` 275-303 | `ClearPool`, `ClearLock`, `ClearBlock`, `ClearNext`, `ClearBroadcast` |
| `enable`, `disable`, `set_huge_state` | `SetPool`, `SetHuge` |

### KspinPool

`version` and `syncState` count modulo `Wrap`, which is 2^32 in the code and any
number above 2 in the model and in the proofs. `topDown` and `bottomUp` are split
at every wait for another thread's word. A task is a record on its caller's stack;
`Fetch` reads it through the parent as the code does at 89. Threads of a task call
`barrier()` equally often, as every task in the repository does.

| Code | Actions |
|---|---|
| `ThreadPool::run`, `Worker::run` 84-94, 201-209 | `Run`, `RunStop`, `LoopRuns`, `TopDown`, `Fetch`, `Return`, `Await`, `RunUp` |
| `Worker::barrier` 76-81 | `Barrier`, `Await`, `BarrierUp`, `TopDown` |
| `Worker::start` 96-123 | `LoopEnds`, `LoopRuns`, `CallGroupFunc`, `RunStop` |
| `createGroupAndRun` 179-199 | `CreateGroup`, `StartThread`, `GroupCreated` |
| `~ThreadPool` 211-218 | `RunStop`, `Join` |

### ShmAllreduce

A rank is its socket, die and place in the die; `rank ^ 4` and `rank ^ 8` are
`InterDie` and `InterSocket`. A thread's work is a list of steps, `Program`, which
depends on `world_size` (168-276). What a step reads and writes (`Reads`, `Writes`)
are the blocks of the buffers that the pointer arrays of that step name. A number
is modelled by the set of the inputs that were added up in it, so that a sum with a
missing, a doubled or a stale input can be told from the right one; two calls'
inputs are different. `Fence` is the flag's index, in which `FlipFlag` is the
parity of the call. `kupl_shm_fence` is external: a rank passes when all ranks of
its die have entered as many fences (`Passes`). A rank may start its next call as
soon as the last one has returned.

`ShmAllreduceWeak` lets a thread that waits for a flag load, ahead of the flag,
what the next step reads: `wait_fence` (26-34) has its load fence in front of the
flag's load and none behind it.

### OperatorDispatch

A tensor is a `TensorImpl`, which names a storage; what a storage holds is the
number of the operator whose correct result it is, or 0. The model follows two
executions of one program. In the eager one a tensor names a cell for ever, and
`val` is what the cell holds. In the asynchronous one a closure captures tensors,
either themselves (`Raw`) or as a `detach()` that keeps the storage of that moment
(`Detached`), and remembers what eager execution would read (`ins`); its task
writes its number only if that is what it has read. A storage that neither Python
nor a closure refers to is free and may be handed out again, and a tensor likewise.

| Code | Actions |
|---|---|
| `__torch_dispatch__`, `ACCELERATE_OPS` 72-225 | `SubmitNew`, `SubmitInto`, `SubmitEvent` then `SubmitRest`, `Copy` |
| `NO_SYNC_OPS` (`async_ops.py` 29-52) | `View`, `Create` |
| all other operators 227-230 | `Direct`, `Synced` or `SyncRaises`, `DirectRuns` |
| `AsyncModeStart`, `AsyncModeEnd`, `AsyncSync` 236-279 | `ModeOn`, `ModeOff`, `AsyncSync` |
| worker 634-662, the poll of a weight 128-134 | `TaskStarts`, `TaskEnds`, `TaskThrows`, `TaskDropped` |
| `shutdown` 315-326 | `Shutdown`, `Joined` |
| Python's references, the writer of a weight | `Drop`, `Arrive` |

A task reads when it starts and writes when it ends. Its closure dies a step later,
on the worker, after the counter says that the task is done. `strayed` records uses
for which the code cannot keep what eager execution promises; the properties are
about programs without them (`AsPromised`):

- a weight that has not arrived, used by an operator that neither polls its state
  byte nor comes behind one that does (only linear and rmsnorm forward poll);
- a write to a tensor whose storage it shares with the source of a `copy_`;
- a `copy_` into a tensor that has views, or that a waiting task has captured.

### Kernels and RowOffsets

An address is a buffer and an offset in elements. Values are symbolic: what a
buffer holds at the call is its own address, and a kernel stores the operator's
name, the lane's own part in it and the values it was computed from. So an element
that is read from a wrong place, in a wrong order or after it was overwritten gives
another value. A call is a record of its tensors with sizes, strides and buffers; an
operator in place has its output in an input's buffer. Each operator is a function
from a unit of its loop to the stores of that unit (`FlatStores`, `AddStores`,
`RopeStores`, `ForwardStores`, ...), and a thread runs the units of its share in
ascending order.

| Code | Definitions |
|---|---|
| `basic.cc`, `silu.cc` | `FlatStores` over `Block`: two half vectors, each under its predicate |
| `sve_add.cc` | `SveAdd`, `SveAddScalar`, `BroadcastStride`, `Unravel`, `AddRow` |
| `rope.cc` | `RopeRow`, `RopeBackwardRow`, `HeadRows` |
| `rms_norm.cc` 250-458 | `RowOffsets`: `Hit`, `Miss`, `Row`, `Emplace`, `MakeKey`, `Carry` |
| `rms_norm.cc` 16-245, 460-536 | `ForwardStores`, `BackwardStores`, `CallRms`, `Norms`, `Return` |
| `random.cc`, `act_scale_pack.cc` | `FillStores`, `PackStores` |
| `parallel_for` 104-123 | `TeamSize`, `ChunkSize`, `ChunkEnd`, `Chunk` |

`Element` is the reference: it goes from a logical index of the output to the
logical indices of the operands, by the strides of each, and knows neither units nor
vectors nor threads.

## 3. The runs

| Run | Configuration | What it asks | States |
|---|---|---|---|
| `runtime_safety` | 2 threads, 2 tasks, 1 weight | safety, `AsyncRuntime` implements `RuntimeContract` | 589 983 |
| `runtime_live` | 2 threads of which one submits, 2 tasks, no weight | what must happen | 121 125 |
| `runtime_sync` | 2 threads, 1 task | violated: `SyncWakes` | 41 450 |
| `pool_safety` | 3 threads (2 with the GIL), 2 blocks, 2 shards | safety | 532 855 |
| `pool_quota`, `pool_gil` | the same, no failing system calls | violated: `QuotaReleaseWakes`, `NoGilCycle` | 9 427, 3 108 |
| `kspin` | main thread, a group of 3, 2-bit counters | safety and termination | 28 727 |
| `kspin_group` | 2 threads | violated: `GroupFuncInScope` | 32 |
| `allreduce` | 4 ranks in 1, 2 and 4 dies, 3 calls | safety and termination | 47 883 |
| `allreduce_order` | 2 dies of 1 rank, 1 call, weak loads | violated: `WholeSum` | 518 |
| `dispatch` | 3 tensors, 3 storages, 3 operators | safety | 1 048 973 |
| `operators` | 3 threads, 2 lanes, 1 call (3 of rms_norm) | safety | 22 070 |

### Why the bounds are enough

- Runtime: two tasks are needed for a first failure and a later one, and for a
  queue that is not empty while a task runs; two clients for one that waits while
  another submits or shuts down. Liveness needs two tasks as well, so that one is
  left behind a worker that is stuck in the one before. To keep its graph small, one
  of the two threads submits (`LiveSpec`), while both may sync, wait for handles and
  shut down, and there is no weight. `SyncWakes` is violated with one task.
- Pool: the two requests hash to different shards, one becomes a huge block, and
  the quota fits either but not both: threads of different shards meet at the
  quota. Sizes count headers of 64 bytes. `HbmNode` is off: the memory types are
  independent of each other but for `clear_pool`, which visits both.
- Thread pool: two bits make the counters wrap within two tasks with a barrier, and
  a group of a root and two children lets one child be a round ahead of the other.
  The proofs remove all these bounds.
- Allreduce: three calls use each half of flags and extra buffers twice with
  another call in between. `MCWorlds` has each of the three forms of the code with
  as many ranks as stay checkable; threads of a rank do not touch each other's
  blocks, so one is enough.
- Dispatch: operators 1 and 2 are the program's input and its weight, so that
  `MaxOps = 5` is three operators: enough for a `copy_`, a use of the copy, and a
  write to the source behind it; for a tensor dropped while its task waits, a new
  tensor on its storage, and a look at it; for a poll of the weight, a later use and
  a synchronisation. With three storages one is always reused. A task fails at most
  once, as the first exception is kept. The constraint `Promised` cuts the program
  where it strays.
- Operators: `MCKernels` lists the layouts by what they tell apart (row-major,
  transposed, expanded, sliced, of one element, of none, with equal strides of
  two outer dimensions, sizes that end within a half vector). With two lanes a block has four elements, and sizes up to 12 give up
  to three blocks; with three threads some have nothing to do. The other operators
  keep nothing between calls, so that one call of each is enough, while three of
  rms_norm make a forward, a backward and a second use of the cache.

`CHECK_DEADLOCK FALSE` stands where the system may stop: a runtime whose
`shutdown()` joins a worker that waits for the GIL (`Stuck`), a
pool in which every thread waits for memory that nobody frees, a program that has
ended or has failed, a team that has made all its calls, ranks that made all
their calls, and, in the thread pool, threads that spin and never block; there
and in the allreduce, liveness properties say that nobody spins for ever.

### Fairness

`AsyncRuntime` assumes that the scheduler runs each thread that can run (weak
fairness), that the GIL, if it is released again and again, is obtained some time
(strong fairness of `Regil` and `WorkerDrop`), and that a weight's byte is
set in the end. `FairSyncSpec`, under which `SyncWakes` fails, adds the same of
`done_mu_` (strong fairness of `Syncing`). Nobody has to call anything, no task has to
fail, no closure has to need the GIL and no spurious wake-up has to happen. `KspinPool` assumes weak fairness of every thread and that
the first thread of a group stops it in the end, which `Worker::start` does when
`group_func` returns. `ShmAllreduce` assumes that all ranks make the same number of
calls and that some thread moves if one can: the number of calls is bounded, so
this is enough. `OperatorDispatch` and `Kernels` state no fairness and no liveness:
that an accepted task runs, unless the worker is stuck in the one before, is
`AcceptedTaskRuns` of the runtime.

### What was found

1. `sync()` may sleep for ever (`runtime_sync`). The worker decrements `pending_`
   and notifies without `done_mu_` (659); both may fall between the predicate of
   `done_cv_.wait` (332) and the block.
2. A thread that waits for quota may miss the broadcast (`pool_quota`): the quota
   is released (264) and broadcast without the mutex under which the waiter checked
   it.
3. A woken thread asks for the GIL with its shard's mutex locked (215-218), while
   others take that mutex with the GIL in their hands (`pool_gil`): both stop.
4. `kspin_create_group_and_run` (295) gives the new thread a function that refers
   to its own parameters, and returns without waiting (`kspin_group`).
5. `wait_fence` (30) lacks a load fence behind the flag's load: on ARM the next
   reduction may use data from before the partner set the flag
   (`allreduce_order`).

The properties of the passing runs hold in spite of them: they say what the code
does guarantee. Each has a mutant of the code that violates it.

Met while the code was read, and kept out of the properties by a condition that the
module names:

- `copy_` re-points its destination (`runtime.py` 191): views of it do not see the
  copy, and a later write in place reaches the source.
- `shutdown()` may never return. A closure dies on the worker (662) and takes the GIL
  for a tensor that Python holds no more, while `shutdown()` joins the worker with the
  GIL in its hands (323-325). Both stop, tasks still queued never run, and whoever
  waits for a handle or to get the GIL back waits for ever. `AsyncRuntime` has this
  state (`Stuck`, at `WorkerDrop`), and so has `OperatorDispatch` (`TaskDropped`, which
  waits for `GilFree`). `AcceptedTaskRuns`, `ShutdownReturns` and `HandleWaitReturns`
  except it by name, and each of them fails without the exception. A `sync()` before
  `shutdown()` does not rule it out, because `pending_` is 0 before the closure dies;
  that the worker has destroyed its last task does, which is the second
  part of `ShutdownReturns` (`Idle`).
- `kp_linear_backward` and the operators that do not poll a state byte read a
  weight that may not have arrived.
- The queued forms of `add` and `mul` for equal shapes ignore strides and the
  pointwise kernels address by the pointer (`basic.cc` 10-139), so that operands of
  different layouts are added in the wrong places; `sve_add_scalar` writes in
  row-major order into an output that may be permuted (`sve_add.cc` 233-271).
  `ResultRight` asks for the layouts they can address (`Addressed`). So it does for
  `act_scale_pack` (11-37), which takes all three tensors to be contiguous and does not
  compare the output's number of rows with the input's.
- A size 0 broadcast against a size 1 gives 1 (`sve_add.cc` 60); four-dimensional
  frequencies of rope are taken to be the same for each batch (`FreqBatchStride`).
- `rmsnorm_backward_out` passes no buffer for the weight's gradient (`rms_norm.cc`
  521), and the static caches of offsets (348) have no lock, which the one worker
  makes up for.

## 4. The proofs

All theorems hold for every value of the constants that the module's assumption
admits.

### AsyncRuntimeProofs

From `RuntimeAssumption`: `None` is no thread and no weight, `MaxTasks` is a
number. `IInv` adds to `TypeOK` and `PendingCounts`:

- `Ids`: the queue holds the last numbers of `log` in order, the worker the one
  before them until it has destroyed the task. The queue never stores what a task is, so `Finished` is an initial
  segment `1..Over` only because of this.
- `Outcomes`: only finished tasks have failed or completed a handle, and `err` is 0
  exactly if none has failed.
- `Syncs`: a client past its predicate has `mark` within the finished tasks, and
  an `ok` result no failure before it.
- `Stops`: after the worker left, everything before `stopMark` is finished.
- `WorkerSleepsOnlyWhenIdle` and `NoLostHandle`, which are inductive beside these.

The theorems: `TypeCorrect`, `PendingCorrect`, `SyncCorrect`, `HandleCorrect`,
`WakeupCorrect`, `HandleWakeupCorrect`, `DrainCorrect`, and `RuntimeImplementsContract`: every step of the runtime is a
step of `RuntimeContract` or leaves its variables unchanged.

### MemoryPoolProofs

From `PoolAssumption`. `IInv` consists of `TypeOK`, `LocksHeld` (who holds which
mutex and the GIL follows from where threads are), `HeldBlocks` (a block being freed
is in the hands of one thread, whose request is the block's header),
`HeaderMatchesBlock`, `Kinds` (rounding keeps sizes of huge and ordinary blocks
apart while huge pages are not switched), `NothingCached` (nobody puts a block into
a cell between a waiter's look and its block, as the waiter holds the mutex),
`InLoop` and `PythonOnly`. `NoMissedBlock` is part of it. The theorems: `PoolTypeCorrect`, `LocksCorrect`,
`HeaderCorrect`, `KindCorrect`, `NoMissedCorrect`.

`Counted` adds what the quota needs. `Accounting` says that the counter is a sum over all
blocks and all threads; a step changes one block, one thread and the counter, by
amounts that cancel. There may be any number of threads and addresses: `FiniteUse` says
that finitely many are at work, so that the sums exist. That the counter itself is
within the quota follows from the guard of the compare-and-swap (173), and as no
term of the sum is negative the bytes from the system are too. The theorems:
`AccountingCorrect`, `LimitCorrect`.

The first part of the module proves what this needs of `SumFunctionOnSet`: the sum over
the empty set, a sum with one element more, two functions that differ in one place,
sums of zeros and of numbers. The library defines it by recursion, and its induction
theorems take an operator as a parameter, which the provers cannot instantiate. Here an
induction is on a set that the theorem names: a finite set has a smallest subset among
those for which the claim fails (`Smallest`), and it fails for none of that one's parts.

### KspinPoolProofs

From `KspinAssumption`, which asks for `Wrap > 2`; with two values the word of the
last round cannot be told from the next one. `IInv` relates every child to its root
(`ChildOK`): while a part of a task is open, the child's word is the one before the
root's (`NotDone`) or the one behind it (`Done`), and between parts it is the same
(`WaitsToStart`); three values in a row are distinct, so that an equality of wrapped
values stands for an equality of rounds. `RootOK` does it for the root, `StopOK` for
the stop flags, `Shape` for the tree of groups and the threads not yet started. The
theorems: `InvariantHolds`, `TypeCorrect`, `PartsCorrect`, `ScopeCorrect`,
`RunCorrect`.

### ShmAllreduceProofs

From `AllreduceAssumption`: dies and sockets as in the code, dies of any size, any
number of threads and calls. `Sets` and `Waits` count how often a thread has passed
a `set_fence` and its `wait_fence` in all calls. The invariant:

- `Answered`: a wait has been passed at most as often as the partner's set;
- `Raised`: a flag is up exactly if it was set in a call for which its owner has not
  waited yet, and such a call is one of the next two.

A thread sets a flag once more than it waits at most, and so does its partner; from
`Answered` on both sides it follows that at the moment of a set the partner lacks at
most one earlier wait, whose flag has the other parity. The theorems: `TypeCorrect`,
`NoLostFlagCorrect` and `AnsweredCorrect`, the order on which the sums rest.

`RaceFree` needs the fences too. `Met`: a rank has entered two of them in each call, and
is never more than one ahead of a mate. Two ranks of a die that touch one buffer are
in steps that a fence separates, or touch different slices of it; ranks of different
dies meet in extra buffers, whose two halves belong to different calls as `Answered`
says. `WholeSum` adds what is in the buffers: `BlocksHold` gives, for each block, the set of
ranks whose inputs of this call it sums up, from how far its summer and its owner are
(`Summed`), and `ExtrasHold` does it for the extra buffers of the last two calls. A rank that
returns finds all mates past their last step, hence the sum of all ranks. The
theorems: `RaceFreeCorrect`, `WholeSumCorrect`.

### OperatorDispatchProofs

From `DispatchAssumption`: tensors and storages are positive numbers, among them the
weight and the input. What the properties say of a storage is true only when the
tasks in front have run, so the invariant speaks of the tasks by the numbers they
were accepted with (`Waiting`) and of what a storage will hold:

- `Typed` holds of every program: types, a tensor has a storage exactly while somebody
  refers to it, the tasks that have run are the first `Over`, and the program counter,
  the record of its `sync()` and the operator in hand agree.
- `Leaves(..., s, i, v)`: of the tasks before `i`, the last that writes to `s` brings
  `v`, or none writes there and `v` is there. `TensorsRight` says it of every tensor of
  the program behind all tasks, with the value of its eager cell; `TasksRight` of every
  input of a waiting task.
- `Awaits(..., i)`: the weight is there, or a poll of its state byte is in front of
  `i`. `WeightNamed`, `WeightUsed` and `Readies` say it of whatever reaches the
  weight's storage, so that the weight may count as there before it is (`Given`).
- `Cells`: tensors with one cell have one storage; a new operator's cell is new.
- `InHand`: the operator being dispatched, and the task in turn.

The last five hold as long as `AsPromised`; where a program strays the proof uses the
very conditions of `Strays` and `Copy`, which are therefore the price of the promise.
A storage is handed out again only when it is outside `Held`, which keeps every
`Leaves` of the others as it was. The theorems: `TypeCorrect`, `SeesEagerCorrect`,
`TaskSeesEagerCorrect`, `SettlesEagerCorrect`, `ReadyIsReadyCorrect`.

### RowOffsetsProofs

From `KeysAssumption`: tensors have at least one dimension, a stride for each, and rows
are not empty.
`KeyFacts` proves what the code takes for granted when it sizes the table: there are
finitely many index vectors over the outer dimensions, and the number of elements over
the length of a row is their number. It rests on `BelowCounts`, which counts index vectors
dimension by dimension: the induction is on the set of the numbers for which the
claim holds, as in `MemoryPoolProofs`. The invariant
reads the odometer as an order on index vectors: vectors are compared at the sorted
dimension of highest place in which they differ. The table lists exactly the vectors
below the odometer's, none twice, so that the carry neither skips a row nor repeats
one; when as many rows are listed as there are vectors, all are. Entries of the cache
are tables that were complete for their own key, and the key names all strides from
which the offsets are computed.

`TablesAgree`: a complete table has its rows in an order that the sizes and the input's
strides determine (`Ordered`, `Comes`), so that two tables that agree in these have
the same row at the same place. The forward and the backward of rms_norm look their
tables up under keys of two and of three tensors, and the norms lie in the order of
the forward's.

The theorems: `KeyFacts`, `TableInvariant`, `EveryRowIsListedOnce`, `CachedOffsetsFit`,
`TablesAgree`.

### KernelsProofs

From `KernelsAssumption` and `CallsAssumption`. `ChunksShareOut`: for every range,
team and grain, every index is in the chunk of exactly one thread, which is division
with rounding up. `OperatorsInvariant` carries it to the threads' shares, so that
`NoUnitIsShared`. As `Kernels` implements `RowOffsets` (the lemma
`OperatorsUseTheTables`), `OperatorsFindTheirRows` follows with the theorems above.

`RaceFreeCorrect`: the threads of a team never touch what another one writes. `OwnOf` names the
places that belong to a unit: a block of lanes, a span of equal length, the rows of
one batch and head, a row at the offset that the table gives with its saved norm.

- `OwnsApart`: two units own nothing in common. For blocks and spans this is arithmetic;
  the rows of rope and rms_norm are at offsets of index vectors that differ,
  and an output's elements lie in places of their own (`NoOverlap`).
- `StoresOwned`, with a lemma for each operator: a unit stores to places of its own, and what
  it loads is its own or lies where no unit of this call stores. That sve_add's rows,
  which are found by division and remainder, begin where the output's row-major
  order has them is `RowBegins`; that the two half vectors of a loop leave nothing
  out and go nowhere else is `SweepIs`.
- `RunInv`: in a run there is a split of the units such that each thread has touched only
  what the units of its share own, or what no unit does.

`CallsAssumption` is what the theorems ask of the operators' callers, and TLC checks it
of the calls in `MCKernels`. `act_scale_pack` checks its part (12-24), rms_norm asserts
that rows are contiguous (468, 505-506), rope takes it for granted and makes the frequencies
contiguous (225), sve_add allocates its output in row-major order (154), and what is said
of buffers follows from how `async_ops.py` allocates outputs: new ones, or the operand
itself. One of the conditions is not met by every program: the backward of rope allocates
`grad_x` with the strides of `grad_output` (`async_ops.py` 171-176). A gradient that
autograd has expanded, as that of a sum, has strides of 0, so that `grad_x` has fewer
places than elements and the threads write the same ones: `NoOverlap` excludes it.

### KernelsResultProofs

`ResultRightCorrect`, from the same assumptions: when an operator returns, what has been
written is the output that `Element` asks for, element by element, and nothing else. The
argument has a part about one call and a part about the run.

What a store is to leave (`Leaves`) is computed from `Origin`: what an address held at the
call or, of a norm, that of the row which the table lists there. `AllRight`, with a
lemma for each operator, compares the stores of all units with the elements of the output:
`StoresElements`, every store is to leave an element; `CoversOutput`, every element is
left by a store; `StoresOnce`, a unit stores to no address twice. Here lies what each
loop computes: the block and lane of an element (`FlatRight`, `FillRight`), the row of a
broadcast output as digits of the unit's number, and the operands' strides of 0 where they
are expanded (`UnravelOnto`, `BroadcastOffset`, `StridedRight`), batch and head and the
complex neighbour of rope (`RopeRight`), the row of an index vector in the table
(`RmsRight`), the bytes of the scale (`PackRight`). For operators that ignore strides it
is true only where `Addressed` says so.

`ResultInv` follows the run. `Stored`: memory holds what the stores of the units that
are done are to leave, and beside norms nothing else. A unit that runs then loads origins
(`Loads`): an address that another unit has stored to is not the unit's own (`OwnsApart`),
and nothing else that it reads is written (`StoresOwned`), also when the output lies
in an operand. `NormsHeld`: the norms of the last forward's input are where any table
of that layout looks for them, which is `TablesAgree`. `SplitsCover`, that no unit is left
out however the loop is cut, and `Stored` give the result when all threads have
returned.

## 5. What is only checked, and what is not modelled

Only model-checked: the liveness properties, which are beyond the prover. Every safety
invariant and every action property of a passing run is a theorem of section 4.

Not modelled in the modelled components: CPU affinity everywhere; handles made from
Python and the unsynchronised `is_ready()`; `HugeSharedMemory`, `copy_from_hbm` and
the queries of the allocator, and the overflow of a size near 2^64; the calls of
`createGroupAndRun` on which the code ends the program; `shm_allreduce_init` (a
partner that is already in its first call could lose a flag to its `memset`, which
the callers must exclude), the branches of `USE_SDMA`, which is 0, and rounding of
floating-point sums; the second and third output of ring attention and the order in
which autograd calls; floating-point arithmetic, checks of types and dimensions,
`sve_add_out` and `sve_add_scalar_out` (a `resize_` and a `copy_` of the result), and
the back ends of `parallel_for` other than the thread pool.

Left to callers and not stated as properties: threads of a task that call
`barrier()` unequally often (`kspin.cpp` 76), and groups made by two threads at once
(181).

Not modelled components are listed in `PROJECT.json` with the reason: those in the
plan below; quantisation (rounding through the processor's tiles), the flag of
`comm_api.cc`, GEMM kernels, descriptors and the build script, which have no control
worth a model.

## 6. The plan

Done: the runtime, its contract, the pool, the thread pool and the allreduce, in this
order, as they are what every operator depends on; then the dispatch on top of the
contract, and the compute operators with their row tables and `parallel_for`.

Left:

1. `ShmAllgather` (`comm/allgather.cpp`): the four forms with their barriers; the
   abstract promise is that every row of every rank is in its place and that no
   buffer is overwritten before it was read. Several batches with few columns
   (196-218) and numbers of threads that do not divide the rows are the cases to look
   at.
2. `Partition`: the tile of a thread in a matrix product
   (`get_idxs`, `igemm_bdq`, the reduction over k), the choice and caching of plans
   (`gemm_tiling.h` 107-143) and the split of key blocks in
   `flash_fwd_mla_metadata.cpp`, as functions over bounded inputs against one
   reference: every index belongs to exactly one thread. Theorem: `get_idxs`
   covers a range exactly, for all sizes.
3. `Kurmcl` (`core/kurmcl`): put with immediate data, moderated completions,
   counted arrivals and refilled receives, with an abstract barrier that
   `kurmcl_barrier` implements; then `MoeExchange`, dispatch and combine on top of
   it, with the node-based barrier that says who sends. Theorem: nobody leaves a
   barrier before all have entered.
4. Proofs: the barriers of items 1 and 3, and that a partition covers.
