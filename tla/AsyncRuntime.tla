---------------------------- MODULE AsyncRuntime ----------------------------
(***************************************************************************)
(* The C++ core of the asynchronous runtime, async_rt/cpp_async_runtime.cpp:*)
(* Python threads (Clients) submit tasks to one background worker, wait for *)
(* all of them with sync(), wait for one of them with a ReadyHandle, and    *)
(* stop the worker with shutdown().                                         *)
(*                                                                          *)
(* Every critical section of mu_, err_mu_ and ReadyHandle::mu contains no   *)
(* blocking call and is one step.  done_mu_ is a variable, because sync()   *)
(* keeps it from its predicate to the moment it blocks while the worker     *)
(* changes pending_ and notifies without it.  The GIL is a variable too:    *)
(* submit and shutdown run with it, sync() and wait() give it up, and the   *)
(* worker may need it to destroy a task that it has run.                    *)
(***************************************************************************)
EXTENDS Integers, Sequences, FiniteSets

CONSTANTS
  Clients,   \* the Python threads that call the runtime
  Weights,   \* weight.state bytes that submit_wait_event tasks poll
  MaxTasks,  \* bound: number of tasks accepted in a behaviour
  None       \* no thread, no weight

ASSUME RuntimeAssumption ==
  /\ MaxTasks \in Nat
  /\ None \notin Clients
  /\ None \notin Weights

VARIABLES
  log,       \* history: the work of every task pushed, task t is log[t]
  q,         \* q_: ids of the tasks not yet taken
  pending,   \* pending_
  stop,      \* stop_
  stopMark,  \* history: Len(log) when stop_ was set
  wpc,       \* where the worker thread is
  cur,       \* the task the worker holds, 0 if none
  err,       \* first_exception_: the task that threw it, 0 if null
  failed,    \* history: every task that threw
  handles,   \* the tasks whose ReadyHandle::done is true
  raised,    \* the weights whose state byte is 1
  gil,       \* the client holding the GIL, or None
  doneMu,    \* the client holding done_mu_, or None
  pc,        \* where each client is
  work,      \* the task a client is submitting
  mark,      \* history: Len(log) when a client called sync()
  hid,       \* the task whose handle a client waits for
  res        \* how a client's sync() ends, until it is back in Python

queueVars  == <<log, q, pending, stop, stopMark>>
workerVars == <<wpc, cur>>
taskVars   == <<err, failed, handles>>
clientVars == <<pc, work, mark, hid, res>>
vars == <<queueVars, workerVars, taskVars, raised, gil, doneMu, clientVars>>

-----------------------------------------------------------------------------
Work == [kind : {"op", "ready", "event"}, weight : Weights \cup {None}]

Op       == [kind |-> "op",    weight |-> None]
Ready    == [kind |-> "ready", weight |-> None]
Event(w) == [kind |-> "event", weight |-> w]

Submissions == {Op, Ready} \cup {Event(w) : w \in Weights}

ClientPc == {"py", "enq_check", "enq_push", "enq_notify",
             "sync_lock", "sync_check", "sync_block", "sync_wait", "sync_err",
             "shut_stop", "shut_notify", "shut_join",
             "h_check", "h_wait", "regil"}
WorkerPc == {"loop", "wait", "run", "mark", "dec", "notify", "free", "drop", "exit"}

InHand   == wpc \in {"run", "mark", "dec"}
Queued   == {q[i] : i \in DOMAIN q}
Finished == {t \in 1..Len(log) : t \notin Queued /\ ~(wpc = "run" /\ cur = t)}

Goto(c, l)  == pc' = [pc EXCEPT ![c] = l]
Wake(S, l)  == pc' = [c \in Clients |-> IF c \in S THEN l ELSE pc[c]]
At(l)       == {c \in Clients : pc[c] = l}

Init ==
  /\ log = <<>> /\ q = <<>> /\ pending = 0
  /\ stop = FALSE /\ stopMark = 0
  /\ wpc = "loop" /\ cur = 0
  /\ err = 0 /\ failed = {} /\ handles = {} /\ raised = {}
  /\ gil = None /\ doneMu = None
  /\ pc   = [c \in Clients |-> "py"]
  /\ work = [c \in Clients |-> Op]
  /\ mark = [c \in Clients |-> 0]
  /\ hid  = [c \in Clients |-> 0]
  /\ res  = [c \in Clients |-> "none"]

-----------------------------------------------------------------------------
(* enqueue: pybind keeps the GIL for the whole call. *)

\* A submit_* function is called with work w; it captures its arguments.
Submit(c, w) ==
  /\ pc[c] = "py" /\ gil = None
  /\ Len(log) < MaxTasks
  /\ gil' = c
  /\ work' = [work EXCEPT ![c] = w]
  /\ Goto(c, "enq_check")
  /\ UNCHANGED <<queueVars, workerVars, taskVars, raised, doneMu, mark, hid, res>>

\* The first_exception_ of an earlier task is rethrown to the submitter.
EnqCheckFails(c) ==
  /\ pc[c] = "enq_check" /\ err # 0
  /\ gil' = None
  /\ Goto(c, "py")
  /\ UNCHANGED <<queueVars, workerVars, taskVars, raised, doneMu, work, mark, hid, res>>

EnqCheckPasses(c) ==
  /\ pc[c] = "enq_check" /\ err = 0
  /\ Goto(c, "enq_push")
  /\ UNCHANGED <<queueVars, workerVars, taskVars, raised, gil, doneMu, work, mark, hid, res>>

CountQueued == pending' = Len(q) + 1
CountTask   == pending' = pending + 1

\* The mu_ section: ++pending_ and q_.emplace_back.  sync() reads pending_
\* without mu_, but only whether it is zero, which ++pending_ alone decides.
EnqPush(c) ==
  /\ pc[c] = "enq_push"
  /\ log' = Append(log, work[c])
  /\ q' = Append(q, Len(log) + 1)
  /\ CountTask
  /\ Goto(c, "enq_notify")
  /\ UNCHANGED <<stop, stopMark, workerVars, taskVars, raised, gil, doneMu,
                 work, mark, hid, res>>

NotifyWorkerNever == wpc' = wpc
NotifyWorker == wpc' = IF wpc = "wait" THEN "loop" ELSE wpc

EnqNotify(c) ==
  /\ pc[c] = "enq_notify"
  /\ NotifyWorker
  /\ gil' = None
  /\ Goto(c, "py")
  /\ UNCHANGED <<queueVars, cur, taskVars, raised, doneMu, work, mark, hid, res>>

-----------------------------------------------------------------------------
(* sync(): gil_scoped_release, then done_cv_.wait on done_mu_. *)

Sync(c) ==
  /\ pc[c] = "py" /\ gil = None
  /\ mark' = [mark EXCEPT ![c] = Len(log)]
  /\ Goto(c, "sync_lock")
  /\ UNCHANGED <<queueVars, workerVars, taskVars, raised, gil, doneMu, work, hid, res>>

SyncLock(c) ==
  /\ pc[c] = "sync_lock" /\ doneMu = None
  /\ doneMu' = c
  /\ Goto(c, "sync_check")
  /\ UNCHANGED <<queueVars, workerVars, taskVars, raised, gil, work, mark, hid, res>>

NoneQueued  == q = <<>>
NonePending == pending = 0

SyncCheck(c) ==
  /\ pc[c] = "sync_check"
  /\ Goto(c, IF NonePending THEN "sync_err" ELSE "sync_block")
  /\ UNCHANGED <<queueVars, workerVars, taskVars, raised, gil, doneMu, work, mark, hid, res>>

\* The predicate was false: release done_mu_ and join the wait set, atomically.
SyncBlock(c) ==
  /\ pc[c] = "sync_block"
  /\ doneMu' = None
  /\ Goto(c, "sync_wait")
  /\ UNCHANGED <<queueVars, workerVars, taskVars, raised, gil, work, mark, hid, res>>

\* Rethrow first_exception_ or return, unlocking err_mu_ and done_mu_.
SyncErr(c) ==
  /\ pc[c] = "sync_err"
  /\ res' = [res EXCEPT ![c] = IF err # 0 THEN "error" ELSE "ok"]
  /\ doneMu' = None
  /\ Goto(c, "regil")
  /\ UNCHANGED <<queueVars, workerVars, taskVars, raised, gil, work, mark, hid>>

\* ~gil_scoped_release of sync() and wait(): back to Python once the GIL is free.
Regil(c) ==
  /\ pc[c] = "regil" /\ gil = None
  /\ res' = [res EXCEPT ![c] = "none"]
  /\ Goto(c, "py")
  /\ UNCHANGED <<queueVars, workerVars, taskVars, raised, gil, doneMu, work, mark, hid>>

-----------------------------------------------------------------------------
(* shutdown(): keeps the GIL while it joins the worker. *)

Shutdown(c) ==
  /\ pc[c] = "py" /\ gil = None
  /\ gil' = c
  /\ Goto(c, "shut_stop")
  /\ UNCHANGED <<queueVars, workerVars, taskVars, raised, doneMu, work, mark, hid, res>>

ShutAgain(c) ==
  /\ pc[c] = "shut_stop" /\ stop
  /\ gil' = None
  /\ Goto(c, "py")
  /\ UNCHANGED <<queueVars, workerVars, taskVars, raised, doneMu, work, mark, hid, res>>

ShutStop(c) ==
  /\ pc[c] = "shut_stop" /\ ~stop
  /\ stop' = TRUE
  /\ stopMark' = Len(log)
  /\ Goto(c, "shut_notify")
  /\ UNCHANGED <<log, q, pending, workerVars, taskVars, raised, gil, doneMu,
                 work, mark, hid, res>>

ShutNotify(c) ==
  /\ pc[c] = "shut_notify"
  /\ NotifyWorker
  /\ Goto(c, "shut_join")
  /\ UNCHANGED <<queueVars, cur, taskVars, raised, gil, doneMu, work, mark, hid, res>>

ShutJoin(c) ==
  /\ pc[c] = "shut_join" /\ wpc = "exit"
  /\ gil' = None
  /\ Goto(c, "py")
  /\ UNCHANGED <<queueVars, workerVars, taskVars, raised, doneMu, work, mark, hid, res>>

-----------------------------------------------------------------------------
(* ReadyHandle::wait() on the handle of task t. *)

HandleWait(c, t) ==
  /\ pc[c] = "py" /\ gil = None
  /\ t \in 1..Len(log) /\ log[t].kind = "ready"
  /\ hid' = [hid EXCEPT ![c] = t]
  /\ Goto(c, "h_check")
  /\ UNCHANGED <<queueVars, workerVars, taskVars, raised, gil, doneMu, work, mark, res>>

\* The section of ReadyHandle::mu: return if done, else block.
HandleCheck(c) ==
  /\ pc[c] = "h_check"
  /\ Goto(c, IF hid[c] \in handles THEN "regil" ELSE "h_wait")
  /\ UNCHANGED <<queueVars, workerVars, taskVars, raised, gil, doneMu, work, mark, hid, res>>

\* A condition variable may wake a waiter at any time; it rechecks.
SpuriousClient(c) ==
  /\ pc[c] \in {"sync_wait", "h_wait"}
  /\ Goto(c, IF pc[c] = "sync_wait" THEN "sync_lock" ELSE "h_check")
  /\ UNCHANGED <<queueVars, workerVars, taskVars, raised, gil, doneMu, work, mark, hid, res>>

-----------------------------------------------------------------------------
(* The worker thread of start_worker. *)

\* The mu_ section: block in cv_.wait, or return, or take the front task.
ReturnOnStop == stop
ReturnDrained == stop /\ q = <<>>

WorkerBlock ==
  /\ wpc = "loop" /\ ~stop /\ q = <<>>
  /\ wpc' = "wait"
  /\ UNCHANGED <<queueVars, cur, taskVars, raised, gil, doneMu, clientVars>>

WorkerReturn ==
  /\ wpc = "loop" /\ ReturnDrained
  /\ wpc' = "exit"
  /\ UNCHANGED <<queueVars, cur, taskVars, raised, gil, doneMu, clientVars>>

TakeBack  == cur' = q[Len(q)] /\ q' = SubSeq(q, 1, Len(q) - 1)
TakeFront == cur' = Head(q) /\ q' = Tail(q)

WorkerTake ==
  /\ wpc = "loop" /\ ~ReturnDrained /\ q # <<>>
  /\ TakeFront
  /\ wpc' = "run"
  /\ UNCHANGED <<log, pending, stop, stopMark, taskVars, raised, gil, doneMu, clientVars>>

SpuriousWorker ==
  /\ wpc = "wait"
  /\ wpc' = "loop"
  /\ UNCHANGED <<queueVars, cur, taskVars, raised, gil, doneMu, clientVars>>

\* task.fn() returns: an operator, or a poll that saw the state byte at 1.
WorkerRun ==
  /\ wpc = "run"
  /\ \/ log[cur].kind = "op"
     \/ log[cur].kind = "event" /\ log[cur].weight \in raised
  /\ wpc' = "dec"
  /\ UNCHANGED <<queueVars, cur, taskVars, raised, gil, doneMu, clientVars>>

KeepLast  == err' = cur
KeepFirst == err' = IF err = 0 THEN cur ELSE err

\* task.fn() throws; the first exception is kept.  A ready task never throws.
WorkerThrow ==
  /\ wpc = "run" /\ log[cur].kind \in {"op", "event"}
  /\ KeepFirst
  /\ failed' = failed \cup {cur}
  /\ wpc' = "dec"
  /\ UNCHANGED <<queueVars, cur, handles, raised, gil, doneMu, clientVars>>

\* The first half of mark_done: done is set under ReadyHandle::mu.
WorkerMarkDone ==
  /\ wpc = "run" /\ log[cur].kind = "ready"
  /\ handles' = handles \cup {cur}
  /\ wpc' = "mark"
  /\ UNCHANGED <<queueVars, cur, err, failed, raised, gil, doneMu, clientVars>>

WakeNobody == UNCHANGED pc
WakeHandle == Wake({c \in At("h_wait") : hid[c] = cur}, "h_check")

\* The second half: cv.notify_all after the unlock.
WorkerMarkNotify ==
  /\ wpc = "mark"
  /\ WakeHandle
  /\ wpc' = "dec"
  /\ UNCHANGED <<queueVars, cur, taskVars, raised, gil, doneMu, work, mark, hid, res>>

\* --pending_ == 0, without done_mu_.
WorkerDec ==
  /\ wpc = "dec"
  /\ pending' = pending - 1
  /\ wpc' = IF pending - 1 = 0 THEN "notify" ELSE "free"
  /\ UNCHANGED <<log, q, stop, stopMark, cur, taskVars, raised, gil, doneMu, clientVars>>

\* done_cv_.notify_all(), without done_mu_.
WorkerNotify ==
  /\ wpc = "notify"
  /\ Wake(At("sync_wait"), "sync_lock")
  /\ wpc' = "free"
  /\ UNCHANGED <<queueVars, cur, taskVars, raised, gil, doneMu, work, mark, hid, res>>

\* ~Task at the end of the iteration, where nothing in the closure needs the
\* GIL: it holds a handle, or tensors that Python still refers to.
WorkerFree ==
  /\ wpc = "free"
  /\ cur' = 0
  /\ wpc' = "loop"
  /\ UNCHANGED <<queueVars, taskVars, raised, gil, doneMu, clientVars>>

\* The closure has the last reference to a tensor that Python has dropped, whose
\* Python object dies with it: the worker asks for the GIL.
HoldsTensors == log[cur].kind \in {"op", "event"}

WorkerAsksGil ==
  /\ wpc = "free" /\ HoldsTensors
  /\ wpc' = "drop"
  /\ UNCHANGED <<queueVars, cur, taskVars, raised, gil, doneMu, clientVars>>

WorkerDrop ==
  /\ wpc = "drop" /\ gil = None
  /\ cur' = 0
  /\ wpc' = "loop"
  /\ UNCHANGED <<queueVars, taskVars, raised, gil, doneMu, clientVars>>

\* External: whoever gathers the weight stores 1 in its state byte.
RaiseState(w) ==
  /\ w \notin raised
  /\ raised' = raised \cup {w}
  /\ UNCHANGED <<queueVars, workerVars, taskVars, gil, doneMu, clientVars>>

-----------------------------------------------------------------------------
Enqueueing(c) == EnqCheckFails(c) \/ EnqCheckPasses(c) \/ EnqPush(c) \/ EnqNotify(c)
Syncing(c)    == SyncLock(c) \/ SyncCheck(c) \/ SyncBlock(c) \/ SyncErr(c)
Stopping(c)   == ShutAgain(c) \/ ShutStop(c) \/ ShutNotify(c) \/ ShutJoin(c)
Calling(c)    == \/ \E w \in Submissions : Submit(c, w)
                 \/ Sync(c)
                 \/ Shutdown(c)
                 \/ \E t \in 1..MaxTasks : HandleWait(c, t)

Client(c) == \/ Calling(c) \/ Enqueueing(c) \/ Syncing(c) \/ Stopping(c)
             \/ HandleCheck(c) \/ Regil(c) \/ SpuriousClient(c)

WorkerStep == \/ WorkerBlock \/ WorkerReturn \/ WorkerTake \/ WorkerRun
              \/ WorkerMarkDone \/ WorkerMarkNotify \/ WorkerDec \/ WorkerNotify
              \/ WorkerFree \/ WorkerDrop

Next == \/ \E c \in Clients : Client(c)
        \/ WorkerStep \/ WorkerThrow \/ WorkerAsksGil
        \/ SpuriousWorker
        \/ \E w \in Weights : RaiseState(w)

Spec == Init /\ [][Next]_vars

\* The operating system runs every thread that can run, a mutex or the GIL
\* that keeps being released is eventually obtained, and the weights arrive.
\* Nobody has to call the runtime, no task has to throw, no closure has to need
\* the GIL and no spurious wake-up has to happen.
Fairness ==
  /\ WF_vars(WorkerStep) /\ SF_vars(WorkerDrop)
  /\ \A w \in Weights : WF_vars(RaiseState(w))
  /\ \A c \in Clients :
       /\ WF_vars(Enqueueing(c)) /\ WF_vars(Stopping(c))
       /\ WF_vars(HandleCheck(c)) /\ SF_vars(Regil(c))

FairSpec == Spec /\ Fairness

\* The same, and done_mu_ is obtained too.
FairSyncSpec == FairSpec /\ \A c \in Clients : SF_vars(Syncing(c))

-----------------------------------------------------------------------------
TypeOK ==
  /\ log \in Seq(Work) /\ q \in Seq(Nat) /\ pending \in Nat
  /\ stop \in BOOLEAN /\ stopMark \in Nat
  /\ wpc \in WorkerPc /\ cur \in Nat
  /\ err \in Nat /\ failed \subseteq Nat /\ handles \subseteq Nat
  /\ raised \subseteq Weights
  /\ gil \in Clients \cup {None} /\ doneMu \in Clients \cup {None}
  /\ pc \in [Clients -> ClientPc] /\ work \in [Clients -> Work]
  /\ mark \in [Clients -> Nat] /\ hid \in [Clients -> Nat]
  /\ res \in [Clients -> {"none", "ok", "error"}]

\* pending_ counts the queued tasks and the one that the worker has not counted
\* off, although the two places that change it (659, 674) hold no common mutex.
PendingCounts == pending = Len(q) + (IF InHand THEN 1 ELSE 0)

\* A sync() that returned normally saw every task submitted before it run to
\* its end, and none of them threw: the caller may read the results.
SyncOkMeansDone ==
  \A c \in Clients : res[c] = "ok" =>
    \A t \in 1..mark[c] : t \in Finished /\ t \notin failed

\* When a ReadyHandle is done, every task submitted before its own is done:
\* that is what copy_ uses a handle for.
HandleAfterPredecessors ==
  \A t \in handles : 1..t \subseteq Finished

\* The worker sleeps in cv_.wait only while there is nothing for it to do, or
\* the client that gave it something is about to notify it.
WorkerSleepsOnlyWhenIdle ==
  wpc = "wait" /\ (stop \/ q # <<>>) =>
    \E c \in Clients : pc[c] \in {"enq_notify", "shut_notify"}

\* Nobody blocks on a handle that is already done, but in the moment between
\* the worker's store and its notify.
NoLostHandle ==
  \A c \in Clients : pc[c] = "h_wait" /\ hid[c] \in handles =>
    wpc = "mark" /\ cur = hid[c]

\* The worker leaves its loop only when it has run every task submitted before
\* shutdown(): shutdown() drains the queue, it does not drop it.
DrainBeforeExit == wpc = "exit" => 1..stopMark \subseteq Finished

\* The runtime keeps the promises of RuntimeContract.
InSync(c) == pc[c] \in {"sync_lock", "sync_check", "sync_block", "sync_wait", "sync_err"}

Contract == INSTANCE RuntimeContract WITH
  accepted <- Len(log), finished <- Finished, error <- err, since <- mark,
  call <- [c \in Clients |-> IF InSync(c) THEN "sync" ELSE res[c]]

ImplementsContract == Contract!Spec

\* The deadlock of shutdown() (323-325) with ~Task (662): the worker waits for the
\* GIL, which the thread that joins the worker does not give up.
Stuck == wpc = "drop" /\ \E c \in Clients : pc[c] = "shut_join"

\* A submitted task runs to its end, unless it was submitted to a runtime whose
\* worker had already left, or the worker is stuck in the task before it.
AcceptedTaskRuns ==
  \A t \in 1..MaxTasks :
    t <= Len(log) /\ wpc # "exit" ~> t \in Finished \/ wpc = "exit" \/ Stuck

\* shutdown() keeps the GIL while it joins the worker, and still returns, unless
\* the worker itself needs the GIL: neither queued tasks nor threads on their way
\* out of sync() or wait() hold it up.  It is sure to return when the worker has
\* destroyed its last task, which is more than a sync() waits for.
Idle == q = <<>> /\ cur = 0

ShutdownReturns ==
  \A c \in Clients :
    /\ pc[c] = "shut_stop" ~> pc[c] = "py" \/ Stuck
    /\ pc[c] = "shut_stop" /\ Idle ~> pc[c] = "py"

\* A thread that waits for a handle is back in Python some time, if the runtime
\* still runs tasks.
HandleWaitReturns ==
  \A c \in Clients : pc[c] = "h_wait" ~> pc[c] = "py" \/ wpc = "exit" \/ Stuck

\* What `done_cv_.wait(lk, [&] { return pending_.load() == 0; })` promises: a
\* thread blocked in sync() goes on once its predicate holds.
SyncWakes ==
  \A c \in Clients :
    pc[c] = "sync_wait" /\ pending = 0 ~> pc[c] # "sync_wait"
=============================================================================
