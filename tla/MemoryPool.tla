----------------------------- MODULE MemoryPool -----------------------------
(***************************************************************************)
(* The proxy allocator of kp_allocator/custom_allocator.cpp: tensors are     *)
(* allocated from sharded free lists or, within a quota per memory type,    *)
(* from the operating system; a thread that finds neither blocks on the     *)
(* condition variable of its shard until memory is released.                *)
(*                                                                          *)
(* A cell is a shard and a memory type: it has a mutex, a condition         *)
(* variable and the free lists of the sizes that hash to it.  The mutex is  *)
(* a variable, because a thread keeps it while it gives up and takes back   *)
(* the GIL around the wait; sections that cannot block are one step.        *)
(***************************************************************************)
EXTENDS Integers, Functions

CONSTANTS
  Threads,    \* every thread that allocates or frees
  PyThreads,  \* those that call with the GIL held
  Requests,   \* the sizes n they ask for
  Blocks,     \* addresses the operating system hands out, never short of one
  Quota,      \* g_max_memory: [0..1 -> Nat], 0 for DDR and 1 for HBM
  NumShards,  \* NUM_SHARDS
  Header,     \* bytes before the data, 64 in the code; also a cache line
  HugePage,   \* HUGE_PAGE_SIZE
  HbmMin,     \* HBM_MIN_SIZE
  HbmNode,    \* whether an HBM NUMA node is configured
  OsMayFail,  \* whether memkind_posix_memalign may fail
  None

ASSUME PoolAssumption ==
  /\ PyThreads \subseteq Threads /\ None \notin Threads /\ None \notin Blocks
  /\ Requests \subseteq Nat \ {0}
  /\ Quota \in [0..1 -> Nat]
  /\ NumShards \in Nat \ {0} /\ Header \in Nat \ {0}
  /\ HugePage \in Nat \ {0} /\ HbmMin \in Nat
  /\ HbmNode \in BOOLEAN /\ OsMayFail \in BOOLEAN

VARIABLES
  used,      \* g_current_os_memory
  blk,       \* every block the operating system has handed out
  usePool,   \* g_use_custom_pool
  hugeOn,    \* g_enable_huge
  switched,  \* history: hugeOn changed while blocks or requests existed
  lock,      \* the thread holding each cell's mutex, or None
  gil,       \* the thread holding the GIL, or None
  pc,        \* where each thread is
  req,       \* the size, memory type and page kind a thread is working on
  held,      \* the block a thread is freeing, or None
  idx        \* the loop counter of a broadcast or of clear_pool

memVars    == <<used, blk>>
modeVars   == <<usePool, hugeOn, switched>>
threadVars == <<pc, req, held, idx>>
vars == <<memVars, modeVars, lock, gil, threadVars>>

-----------------------------------------------------------------------------
HugeMin == 2 * HugePage

HugeSizeDown(s) == (s \div HugePage) * HugePage
HugeSize(s)     == ((s + HugePage - 1) \div HugePage) * HugePage

\* What ProxyAllocator::allocate asks of the pool for n bytes.
Request(n, onHbm) ==
  LET total == n + Header
      huge  == hugeOn /\ total > HugeMin
  IN [mem  |-> IF onHbm /\ total > HbmMin THEN 1 ELSE 0,
      size |-> IF huge THEN HugeSize(total) ELSE total,
      huge |-> huge]

NoRequest == [mem |-> 0, size |-> 0, huge |-> FALSE]
Absent    == [st |-> "absent", os |-> NoRequest, hdr |-> NoRequest, pool |-> FALSE]

ShardOf(s) == (s \div Header) % NumShards
CellOf(r)  == <<ShardOf(r.size), r.mem>>
Cells      == (0..NumShards - 1) \X (0..1)

\* The free list of a memory type and size.  allocate takes its last block; a
\* set allows any.  The page kind of a block plays no part.
CachedAtLeast(r) == {b \in Blocks : /\ blk[b].st = "cached" /\ blk[b].hdr.mem = r.mem
                                    /\ blk[b].hdr.size >= r.size}
Cached(r) == {b \in Blocks : /\ blk[b].st = "cached" /\ blk[b].hdr.mem = r.mem
                             /\ blk[b].hdr.size = r.size}

At(l)      == {t \in Threads : pc[t] = l}
Goto(t, l) == pc' = [pc EXCEPT ![t] = l]

\* A call starts with the GIL of a Python thread, and gives it back.
EnterCall(t) == IF t \in PyThreads THEN gil = None /\ gil' = t ELSE gil' = gil
LeaveCall(t) == Goto(t, "idle") /\ gil' = IF t \in PyThreads THEN None ELSE gil

\* The threads blocked on a cell.
Waiters(cell) == {t \in At("alloc_wait") : CellOf(req[t]) = cell}

\* notify_all on a cell, by thread t that goes to l.
NotifyCell(cell, t, l) ==
  pc' = [u \in Threads |-> IF u = t THEN l
                           ELSE IF u \in Waiters(cell) THEN "alloc_wake" ELSE pc[u]]

Init ==
  /\ used = [m \in 0..1 |-> 0]
  /\ blk = [b \in Blocks |-> Absent]
  /\ usePool = FALSE /\ hugeOn = FALSE /\ switched = FALSE
  /\ lock = [cell \in Cells |-> None]
  /\ gil = None
  /\ pc = [t \in Threads |-> "idle"]
  /\ req = [t \in Threads |-> NoRequest]
  /\ held = [t \in Threads |-> None]
  /\ idx = [t \in Threads |-> 0]

-----------------------------------------------------------------------------
(* ProxyAllocator::allocate and MyMemoryPool::allocate. *)

\* The thread-local g_allocate_on_hbm is whatever the thread set it to.
Allocate(t, n, onHbm) ==
  /\ pc[t] = "idle" /\ (onHbm => HbmNode)
  /\ EnterCall(t)
  /\ req' = [req EXCEPT ![t] = Request(n, onHbm)]
  /\ Goto(t, "alloc_lock")
  /\ UNCHANGED <<memVars, modeVars, lock, held, idx>>

AllocLock(t) ==
  /\ pc[t] = "alloc_lock" /\ lock[CellOf(req[t])] = None
  /\ lock' = [lock EXCEPT ![CellOf(req[t])] = t]
  /\ Goto(t, "alloc_try")
  /\ UNCHANGED <<memVars, modeVars, gil, req, held, idx>>

Unlock(t) == lock' = [lock EXCEPT ![CellOf(req[t])] = None]

\* A block is handed over with a fresh header: the header takes the page kind
\* and the pool flag of this moment, not those of the block.
Filled(t, os) == [st |-> "live", os |-> os, hdr |-> req[t], pool |-> usePool]

\* 1. From the pool.
AllocHit(t) ==
  /\ pc[t] = "alloc_try"
  /\ \E b \in Cached(req[t]) : blk' = [blk EXCEPT ![b] = Filled(t, blk[b].os)]
  /\ Unlock(t)
  /\ LeaveCall(t)
  /\ req' = [req EXCEPT ![t] = NoRequest]
  /\ UNCHANGED <<used, modeVars, held, idx>>

FitsBefore(r) == used[r.mem] <= Quota[r.mem]
Fits(r) == used[r.mem] + r.size <= Quota[r.mem]

Take(r) == used' = [used EXCEPT ![r.mem] = @ + r.size]
Give(r) == used' = [used EXCEPT ![r.mem] = @ - r.size]

\* 2. The compare-and-swap loop takes the quota if it fits: one atomic step.
AllocClaim(t) ==
  /\ pc[t] = "alloc_try" /\ Cached(req[t]) = {}
  /\ Fits(req[t])
  /\ Take(req[t])
  /\ Unlock(t)
  /\ Goto(t, "alloc_os")
  /\ UNCHANGED <<blk, modeVars, gil, req, held, idx>>

AllocOs(t) ==
  /\ pc[t] = "alloc_os"
  /\ \E b \in Blocks : /\ blk[b].st = "absent"
                       /\ blk' = [blk EXCEPT ![b] = Filled(t, req[t])]
  /\ LeaveCall(t)
  /\ req' = [req EXCEPT ![t] = NoRequest]
  /\ UNCHANGED <<used, modeVars, lock, held, idx>>

NoRollBack(r) == UNCHANGED used
RollBack(r)   == Give(r)

\* memkind failed: the count is rolled back, nobody is notified.
AllocOsFails(t) ==
  /\ pc[t] = "alloc_os" /\ OsMayFail
  /\ RollBack(req[t])
  /\ LeaveCall(t)
  /\ req' = [req EXCEPT ![t] = NoRequest]
  /\ UNCHANGED <<blk, modeVars, lock, held, idx>>

KeepGil(t)    == UNCHANGED gil
ReleaseGil(t) == gil' = IF t \in PyThreads THEN None ELSE gil

\* No quota: gil_scoped_release, the cell's mutex still held.
AllocLimited(t) ==
  /\ pc[t] = "alloc_try" /\ Cached(req[t]) = {}
  /\ ~Fits(req[t])
  /\ ReleaseGil(t)
  /\ Goto(t, "alloc_block")
  /\ UNCHANGED <<memVars, modeVars, lock, req, held, idx>>

\* cv.wait: unlock and join the waiters, atomically.
AllocBlock(t) ==
  /\ pc[t] = "alloc_block"
  /\ Unlock(t)
  /\ Goto(t, "alloc_wait")
  /\ UNCHANGED <<memVars, modeVars, gil, req, held, idx>>

Spurious(t) ==
  /\ pc[t] = "alloc_wait"
  /\ Goto(t, "alloc_wake")
  /\ UNCHANGED <<memVars, modeVars, lock, gil, req, held, idx>>

\* cv.wait takes the mutex back; a Python thread then takes the GIL back with
\* the mutex in its hands, and every thread tries again.
AllocWake(t) ==
  /\ pc[t] = "alloc_wake" /\ lock[CellOf(req[t])] = None
  /\ lock' = [lock EXCEPT ![CellOf(req[t])] = t]
  /\ Goto(t, IF t \in PyThreads THEN "alloc_regil" ELSE "alloc_try")
  /\ UNCHANGED <<memVars, modeVars, gil, req, held, idx>>

AllocRegil(t) ==
  /\ pc[t] = "alloc_regil" /\ gil = None
  /\ gil' = t
  /\ Goto(t, "alloc_try")
  /\ UNCHANGED <<memVars, modeVars, lock, req, held, idx>>

-----------------------------------------------------------------------------
(* proxy_pool_deleter and free_with_size: any thread may free a live block. *)

Free(t, b) ==
  /\ pc[t] = "idle" /\ blk[b].st = "live"
  /\ EnterCall(t)
  /\ blk' = [blk EXCEPT ![b].st = "freeing"]
  /\ held' = [held EXCEPT ![t] = b]
  /\ req' = [req EXCEPT ![t] = blk[b].hdr]
  /\ Goto(t, IF blk[b].pool THEN "free_lock" ELSE "free_os")
  /\ UNCHANGED <<used, modeVars, lock, idx>>

\* The section of the cell's mutex: back into the free list.
FreePush(t) ==
  /\ pc[t] = "free_lock" /\ lock[CellOf(req[t])] = None
  /\ blk' = [blk EXCEPT ![held[t]].st = "cached"]
  /\ held' = [held EXCEPT ![t] = None]
  /\ Goto(t, "free_notify")
  /\ UNCHANGED <<used, modeVars, lock, gil, req, idx>>

\* notify_all on the block's own cell; a thread that waits elsewhere for quota
\* is not told.
WakeNone(t)    == Goto(t, "idle")
WakeOwnCell(t) == NotifyCell(CellOf(req[t]), t, "idle")

FreeNotify(t) ==
  /\ pc[t] = "free_notify"
  /\ WakeOwnCell(t)
  /\ gil' = IF t \in PyThreads THEN None ELSE gil
  /\ req' = [req EXCEPT ![t] = NoRequest]
  /\ UNCHANGED <<memVars, modeVars, lock, held, idx>>

\* memkind_free with the page kind the header names.
FreeOs(t) ==
  /\ pc[t] = "free_os"
  /\ blk' = [blk EXCEPT ![held[t]] = Absent]
  /\ held' = [held EXCEPT ![t] = None]
  /\ Goto(t, "free_sub")
  /\ UNCHANGED <<used, modeVars, lock, gil, req, idx>>

\* The quota goes back after the memory, and then every shard is notified.
FreeSub(t) ==
  /\ pc[t] = "free_sub"
  /\ Give(req[t])
  /\ idx' = [idx EXCEPT ![t] = 0]
  /\ Goto(t, "bcast")
  /\ UNCHANGED <<blk, modeVars, lock, gil, req, held>>

\* One shard of the broadcast, without any mutex.
Broadcast(t) ==
  LET last == idx[t] = NumShards - 1
  IN /\ pc[t] = "bcast"
     /\ NotifyCell(<<idx[t], req[t].mem>>, t, IF last THEN "idle" ELSE "bcast")
     /\ gil' = IF last /\ t \in PyThreads THEN None ELSE gil
     /\ idx' = [idx EXCEPT ![t] = IF last THEN 0 ELSE @ + 1]
     /\ req' = [req EXCEPT ![t] = IF last THEN NoRequest ELSE @]
     /\ UNCHANGED <<memVars, modeVars, lock, held>>

-----------------------------------------------------------------------------
(* clear_pool, called from Python; cells are visited shard by shard. *)

PastCell == 2 * NumShards
LastCell == 2 * NumShards - 1
NthCell(i) == <<i \div 2, i % 2>>

ClearPool(t) ==
  /\ pc[t] = "idle" /\ t \in PyThreads
  /\ EnterCall(t)
  /\ Goto(t, "clear")
  /\ UNCHANGED <<memVars, modeVars, lock, req, held, idx>>

ClearLock(t) ==
  /\ pc[t] = "clear" /\ lock[NthCell(idx[t])] = None
  /\ lock' = [lock EXCEPT ![NthCell(idx[t])] = t]
  /\ Goto(t, "clear_cell")
  /\ UNCHANGED <<memVars, modeVars, gil, req, held, idx>>

CachedIn(cell) == {b \in Blocks : blk[b].st = "cached" /\ CellOf(blk[b].hdr) = cell}

\* One cached block of the cell goes back to the system, and its quota with it.
ClearBlock(t) ==
  /\ pc[t] = "clear_cell"
  /\ \E b \in CachedIn(NthCell(idx[t])) :
       /\ blk' = [blk EXCEPT ![b] = Absent]
       /\ Give(blk[b].hdr)
  /\ UNCHANGED <<modeVars, lock, gil, threadVars>>

ClearNext(t) ==
  LET last == idx[t] = LastCell
  IN /\ pc[t] = "clear_cell" /\ CachedIn(NthCell(idx[t])) = {}
     /\ lock' = [lock EXCEPT ![NthCell(idx[t])] = None]
     /\ idx' = [idx EXCEPT ![t] = IF last THEN 0 ELSE @ + 1]
     /\ Goto(t, IF last THEN "clear_bcast" ELSE "clear")
     /\ UNCHANGED <<memVars, modeVars, gil, req, held>>

ClearBroadcast(t) ==
  LET last == idx[t] = LastCell
  IN /\ pc[t] = "clear_bcast"
     /\ NotifyCell(NthCell(idx[t]), t, IF last THEN "idle" ELSE "clear_bcast")
     /\ gil' = IF last THEN None ELSE gil
     /\ idx' = [idx EXCEPT ![t] = IF last THEN 0 ELSE @ + 1]
     /\ UNCHANGED <<memVars, modeVars, lock, req, held>>

-----------------------------------------------------------------------------
\* enable, disable and set_huge_state are Python calls that do not block.
SetPool(flag) ==
  /\ gil = None /\ PyThreads # {} /\ usePool # flag
  /\ usePool' = flag
  /\ UNCHANGED <<memVars, hugeOn, switched, lock, gil, threadVars>>

SetHuge(flag) ==
  /\ gil = None /\ PyThreads # {} /\ hugeOn # flag
  /\ hugeOn' = flag
  /\ switched' = (switched \/ (\E b \in Blocks : blk[b].st # "absent") \/ At("idle") # Threads)
  /\ UNCHANGED <<memVars, usePool, lock, gil, threadVars>>

Allocating(t) == \/ \E n \in Requests, onHbm \in BOOLEAN : Allocate(t, n, onHbm)
                 \/ AllocLock(t) \/ AllocHit(t) \/ AllocClaim(t) \/ AllocOs(t)
                 \/ AllocOsFails(t) \/ AllocLimited(t) \/ AllocBlock(t)
                 \/ Spurious(t) \/ AllocWake(t) \/ AllocRegil(t)
Freeing(t)    == \/ \E b \in Blocks : Free(t, b)
                 \/ FreePush(t) \/ FreeNotify(t)
                 \/ FreeOs(t) \/ FreeSub(t) \/ Broadcast(t)
Clearing(t)   == \/ ClearPool(t) \/ ClearLock(t) \/ ClearBlock(t) \/ ClearNext(t)
                 \/ ClearBroadcast(t)

Next == \/ \E t \in Threads : Allocating(t) \/ Freeing(t) \/ Clearing(t)
        \/ \E flag \in BOOLEAN : SetPool(flag) \/ SetHuge(flag)

Spec == Init /\ [][Next]_vars

-----------------------------------------------------------------------------
Pcs == {"idle", "alloc_lock", "alloc_try", "alloc_os", "alloc_block", "alloc_wait",
        "alloc_wake", "alloc_regil", "free_lock", "free_notify", "free_os",
        "free_sub", "bcast", "clear", "clear_cell", "clear_bcast"}
RequestType == [mem : 0..1, size : Nat, huge : BOOLEAN]
BlockType   == [st : {"absent", "live", "freeing", "cached"},
                os : RequestType, hdr : RequestType, pool : BOOLEAN]

TypeOK ==
  /\ used \in [0..1 -> Int]
  /\ blk \in [Blocks -> BlockType]
  /\ usePool \in BOOLEAN /\ hugeOn \in BOOLEAN /\ switched \in BOOLEAN
  /\ lock \in [Cells -> Threads \cup {None}] /\ gil \in Threads \cup {None}
  /\ pc \in [Threads -> Pcs] /\ req \in [Threads -> RequestType]
  /\ held \in [Threads -> Blocks \cup {None}]
  /\ idx \in [Threads -> 0..2 * NumShards - 1]

\* Who has quota without having a block: it was claimed and not yet used, or
\* the block is gone and the count not yet given back.
Owing(m) == {t \in Threads : pc[t] \in {"alloc_os", "free_sub"} /\ req[t].mem = m}
Backed(m) == {b \in Blocks : blk[b].st # "absent" /\ blk[b].os.mem = m}
OsBytes(m) == SumFunctionOnSet([b \in Blocks |-> blk[b].os.size], Backed(m))
Owed(m)    == SumFunctionOnSet([t \in Threads |-> req[t].size], Owing(m))

\* g_current_os_memory is exact: the bytes of every block the system handed out
\* and of the quota in transit, whatever allocations failed in between.
Accounting == \A m \in 0..1 : used[m] = OsBytes(m) + Owed(m)

\* The limits MAX_DDR_MEMORY and MAX_HBM_MEMORY hold for what the process
\* really has, with any number of threads claiming at once.
WithinLimit == \A m \in 0..1 : OsBytes(m) <= Quota[m]

\* A block goes back under the size and memory type it was made with, so that a
\* request never gets a block of another size from the pool.
HeaderMatchesBlock ==
  \A b \in Blocks : blk[b].os.mem = blk[b].hdr.mem /\ blk[b].os.size = blk[b].hdr.size

\* As long as huge pages are not switched while memory is in use, memkind_free
\* gets the kind the block was allocated with: rounding keeps the sizes of huge
\* and of ordinary blocks apart.
FreedWithItsKind ==
  ~switched => \A b \in Blocks : blk[b].os.huge = blk[b].hdr.huge

\* A thread blocked for lack of quota never sleeps beside a cached block of its
\* size: whoever put it there is about to notify the thread's own cell.
NoMissedBlock ==
  \A t \in Threads : pc[t] = "alloc_wait" /\ Cached(req[t]) # {} =>
    \E u \in Threads : pc[u] = "free_notify" /\ CellOf(req[u]) = CellOf(req[t])

\* A thread holds no cell's mutex but that of the cell it works on, and a thread
\* asleep in the condition variable or waiting for the GIL has not got the GIL.
LocksHeld ==
  \A t \in Threads :
    /\ \A cell \in Cells : lock[cell] = t <=>
         \/ pc[t] \in {"alloc_try", "alloc_block", "alloc_regil"} /\ cell = CellOf(req[t])
         \/ pc[t] = "clear_cell" /\ cell = NthCell(idx[t])
    /\ gil = t <=> t \in PyThreads /\ pc[t] \notin
         {"idle", "alloc_block", "alloc_wait", "alloc_wake", "alloc_regil"}

\* What the comments at the broadcasts say: whoever releases quota wakes every
\* thread that was blocked by the limit.  So a thread asleep whose request fits
\* has a notification on its way.
QuotaReleaseWakes ==
  \A t \in Threads : pc[t] = "alloc_wait" /\ Fits(req[t]) =>
    \E u \in Threads :
      \/ pc[u] = "bcast" /\ req[u].mem = req[t].mem /\ idx[u] <= ShardOf(req[t].size)
      \/ pc[u] \in {"clear", "clear_cell"}
      \/ pc[u] = "clear_bcast" /\ idx[u] <= 2 * ShardOf(req[t].size) + req[t].mem

\* The GIL is given up for a while only, around the wait: the thread that takes
\* it back does not wait for it with the mutex the GIL's holder waits for.
NoGilCycle ==
  \A t, u \in Threads :
    ~ /\ pc[t] = "alloc_regil" /\ gil = u
      /\ \/ pc[u] \in {"alloc_lock", "free_lock"} /\ CellOf(req[u]) = CellOf(req[t])
         \/ pc[u] = "clear" /\ NthCell(idx[u]) = CellOf(req[t])
=============================================================================
