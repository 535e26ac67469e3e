------------------------------ MODULE KspinPool ------------------------------
(***************************************************************************)
(* The spinning thread pool of third_party/kutacc/src/kspin/kspin.cpp.  The *)
(* threads form groups of a root and its children: the main group, whose    *)
(* root is the program's main thread, and groups made by createGroupAndRun. *)
(* A root runs a task on its whole group; the task may call barrier().      *)
(* All is decided by one counter per worker (version, private) and one word *)
(* per worker (syncState, shared), which a thread compares for equality:    *)
(* both wrap around.                                                        *)
(***************************************************************************)
EXTENDS Integers, FiniteSets

CONSTANTS
  Total,        \* total_threads
  MainThreads,  \* main_threads
  GroupSizes,   \* the sizes createGroupAndRun is called with
  Wrap,         \* version and syncState count modulo Wrap, 2^32 in the code
  MaxBarriers,  \* bound: barriers a task calls
  MaxRuns,      \* bound: tasks a root runs, the one that stops its group apart
  None

ASSUME KspinAssumption ==
  /\ Total \in Nat \ {0} /\ MainThreads \in 1..Total
  /\ GroupSizes \subseteq 1..Total
  /\ Wrap \in Nat /\ Wrap > 2
  /\ MaxBarriers \in Nat /\ MaxRuns \in Nat
  /\ None \notin Nat

VARIABLES
  parent,   \* parent; the children of a worker are those it is the parent of
  used,     \* used_threads
  size,     \* the size of the group being created, 0 if none
  next,     \* the worker createGroupAndRun is going to start
  ver,      \* version
  sync,     \* syncState
  stop,     \* stop
  task,     \* task, of a root
  cur,      \* task_, what a worker is running
  left,     \* how many barriers it will call before it ends
  todo,     \* the children bottomUp has not yet seen
  started,  \* history: tasks run() was entered with (root), taken (child)
  pc

groupVars == <<parent, used, size, next>>
spinVars  == <<ver, sync, todo>>
taskVars  == <<stop, task, cur, left, started>>
vars == <<groupVars, spinVars, taskVars, pc>>

-----------------------------------------------------------------------------
Workers == 0..Total - 1
Kids(w) == {c \in Workers : parent[c] = w}
Root(w) == IF parent[w] = None THEN w ELSE parent[w]

IncNoWrap(v) == v + 1

\* ++version; also what a value of syncState is followed by.
Inc(v) == IF v = Wrap - 1 THEN 0 ELSE v + 1

Task(n, barriers, halt) == [job |-> n, barriers |-> barriers, halt |-> halt]
NoTask == Task(0, 0, FALSE)

Goto(w, l) == pc' = [pc EXCEPT ![w] = l]

\* The constructor: all workers exist, those of the main group are started.
Init ==
  /\ parent = [w \in Workers |-> IF w \in 1..MainThreads - 1 THEN 0 ELSE None]
  /\ used = MainThreads /\ size = 0 /\ next = 0
  /\ ver = [w \in Workers |-> 0] /\ sync = [w \in Workers |-> 0]
  /\ todo = [w \in Workers |-> {}]
  /\ stop = [w \in Workers |-> FALSE]
  /\ task = [w \in Workers |-> NoTask] /\ cur = [w \in Workers |-> NoTask]
  /\ left = [w \in Workers |-> 0] /\ started = [w \in Workers |-> 0]
  /\ pc = [w \in Workers |-> IF w = 0 THEN "out"
                             ELSE IF w < MainThreads THEN "loop" ELSE "unborn"]

-----------------------------------------------------------------------------
(* ThreadPool::run and Worker::run. *)

\* The task pointer is set, then ++version.
Launch(r, t) ==
  /\ task' = [task EXCEPT ![r] = t]
  /\ started' = [started EXCEPT ![r] = t.job]
  /\ ver' = [ver EXCEPT ![r] = Inc(@)]
  /\ Goto(r, "top")
  /\ UNCHANGED <<groupVars, sync, todo, stop, cur, left>>

Run(r, barriers) ==
  /\ pc[r] = "out" /\ started[r] < MaxRuns
  /\ Launch(r, Task(started[r] + 1, barriers, FALSE))

\* ~ThreadPool, and the end of an extended group's first thread.
RunStop(r) ==
  /\ pc[r] = "out"
  /\ Launch(r, Task(started[r] + 1, 0, TRUE))

\* while (!stop) run();
LoopEnds(w) ==
  /\ pc[w] = "loop" /\ stop[w]
  /\ Goto(w, "exit")
  /\ UNCHANGED <<groupVars, spinVars, taskVars>>

LoopRuns(w) ==
  /\ pc[w] = "loop" /\ ~stop[w]
  /\ ver' = [ver EXCEPT ![w] = Inc(@)]
  /\ Goto(w, "top")
  /\ UNCHANGED <<groupVars, sync, todo, taskVars>>

NeverWait(w) == TRUE
Released(w)  == parent[w] # None => ver[w] = sync[parent[w]]

\* topDown: wait for the parent's word, then tell the children.  It opens a
\* task, or the part of it after a barrier.
TopDown(w) ==
  /\ pc[w] \in {"top", "btop"} /\ Released(w)
  /\ sync' = IF Kids(w) # {} THEN [sync EXCEPT ![w] = ver[w]] ELSE sync
  /\ left' = IF pc[w] = "btop" THEN [left EXCEPT ![w] = @ - 1] ELSE left
  /\ Goto(w, IF pc[w] = "btop" THEN "task" ELSE "fetch")
  /\ UNCHANGED <<groupVars, ver, todo, stop, task, cur, started>>

\* task_ = parent ? parent->task : task
Fetch(w) ==
  /\ pc[w] = "fetch"
  /\ cur' = [cur EXCEPT ![w] = task[Root(w)]]
  /\ left' = [left EXCEPT ![w] = task[Root(w)].barriers]
  /\ started' = IF parent[w] # None THEN [started EXCEPT ![w] = @ + 1] ELSE started
  /\ Goto(w, "task")
  /\ UNCHANGED <<groupVars, spinVars, stop, task>>

\* The task calls barrier(); every thread of the group calls it as often.
Barrier(w) ==
  /\ pc[w] = "task" /\ left[w] > 0
  /\ ver' = [ver EXCEPT ![w] = Inc(@)]
  /\ todo' = [todo EXCEPT ![w] = Kids(w)]
  /\ Goto(w, "bbottom")
  /\ UNCHANGED <<groupVars, sync, taskVars>>

StopRoot(w) == IF cur[w].halt /\ parent[w] = None THEN [stop EXCEPT ![w] = TRUE] ELSE stop
StopSelf(w) == IF cur[w].halt THEN [stop EXCEPT ![w] = TRUE] ELSE stop

\* The task returns; the one that stops a group sets current_worker->stop.
Return(w) ==
  /\ pc[w] = "task" /\ left[w] = 0
  /\ stop' = StopSelf(w)
  /\ ver' = [ver EXCEPT ![w] = Inc(@)]
  /\ todo' = [todo EXCEPT ![w] = Kids(w)]
  /\ Goto(w, "bottom")
  /\ UNCHANGED <<groupVars, sync, task, cur, left, started>>

\* bottomUp: wait for the word of one child after the other...
Await(w) ==
  /\ pc[w] \in {"bottom", "bbottom"}
  /\ \E c \in todo[w] :
       /\ \A d \in todo[w] : c <= d
       /\ sync[c] = ver[w]
       /\ todo' = [todo EXCEPT ![w] = @ \ {c}]
  /\ UNCHANGED <<groupVars, ver, sync, taskVars, pc>>

SkipLast(w) == Cardinality(todo[w]) <= 1
SeenAll(w)  == todo[w] = {}

\* ...then store one's own.  In barrier(), ++version follows.
BarrierUp(w) ==
  /\ pc[w] = "bbottom" /\ SeenAll(w)
  /\ sync' = [sync EXCEPT ![w] = ver[w]]
  /\ ver' = [ver EXCEPT ![w] = Inc(@)]
  /\ todo' = [todo EXCEPT ![w] = {}]
  /\ Goto(w, "btop")
  /\ UNCHANGED <<groupVars, taskVars>>

KeepWord(w)  == sync
StoreWord(w) == [sync EXCEPT ![w] = ver[w]]

\* In run(), the root is back at its caller, a child back in its loop.
RunUp(w) ==
  /\ pc[w] = "bottom" /\ SeenAll(w)
  /\ sync' = StoreWord(w)
  /\ todo' = [todo EXCEPT ![w] = {}]
  /\ Goto(w, IF parent[w] # None THEN "loop"
             ELSE IF ~cur[w].halt THEN "out"
             ELSE IF w = 0 THEN "join" ELSE "exit")
  /\ UNCHANGED <<groupVars, ver, taskVars>>

-----------------------------------------------------------------------------
(* createGroupAndRun, called by the main thread, and ~ThreadPool. *)

CreateGroup(n) ==
  /\ pc[0] = "out" /\ used + n <= Total
  /\ parent' = [w \in Workers |-> IF w \in used + 1..used + n - 1 THEN used ELSE parent[w]]
  /\ size' = n /\ next' = used
  /\ Goto(0, "create")
  /\ UNCHANGED <<used, spinVars, taskVars>>

\* One thread of the group, its first thread first.
StartThread ==
  /\ pc[0] = "create" /\ next < used + size
  /\ Goto(next, IF parent[next] = None THEN "begin" ELSE "loop")
  /\ next' = next + 1
  /\ UNCHANGED <<parent, used, size, spinVars, taskVars>>

GroupCreated ==
  /\ pc[0] = "create" /\ next = used + size
  /\ used' = used + size /\ size' = 0 /\ next' = 0
  /\ Goto(0, "out")
  /\ UNCHANGED <<parent, spinVars, taskVars>>

\* The first thread of a new group calls group_func.
CallGroupFunc(w) ==
  /\ pc[w] = "begin"
  /\ Goto(w, "out")
  /\ UNCHANGED <<groupVars, spinVars, taskVars>>

Join ==
  /\ pc[0] = "join" /\ \A w \in 1..used - 1 : pc[w] = "exit"
  /\ Goto(0, "gone")
  /\ UNCHANGED <<groupVars, spinVars, taskVars>>

Gone == pc[0] = "gone" /\ UNCHANGED vars

-----------------------------------------------------------------------------
Working(w) == \/ LoopEnds(w) \/ LoopRuns(w) \/ TopDown(w) \/ Fetch(w) \/ Barrier(w)
              \/ Return(w) \/ Await(w) \/ BarrierUp(w) \/ RunUp(w) \/ CallGroupFunc(w)
Managing   == StartThread \/ GroupCreated \/ Join

Next == \/ \E w \in Workers : \/ Working(w)
                              \/ \E b \in 0..MaxBarriers : Run(w, b)
                              \/ RunStop(w)
        \/ \E n \in GroupSizes : CreateGroup(n)
        \/ Managing \/ Gone

Spec == Init /\ [][Next]_vars

\* The operating system runs every thread, and what a group was made to run
\* ends.  The main thread need not use the pool, nor destroy it.
FairSpec == /\ Spec
            /\ \A w \in Workers : WF_vars(Working(w))
            /\ \A w \in Workers \ {0} : WF_vars(RunStop(w))
            /\ WF_vars(Managing)

-----------------------------------------------------------------------------
TaskType == [job : Nat, barriers : Nat, halt : BOOLEAN]
Pcs == {"unborn", "begin", "out", "create", "join", "gone", "loop", "exit",
        "top", "fetch", "task", "bbottom", "btop", "bottom"}

TypeOK ==
  /\ parent \in [Workers -> Workers \cup {None}]
  /\ used \in 0..Total /\ size \in 0..Total - used /\ next \in 0..used + size
  /\ ver \in [Workers -> 0..Wrap - 1] /\ sync \in [Workers -> 0..Wrap - 1]
  /\ todo \in [Workers -> SUBSET Workers]
  /\ stop \in [Workers -> BOOLEAN]
  /\ task \in [Workers -> TaskType] /\ cur \in [Workers -> TaskType]
  /\ left \in [Workers -> Nat] /\ started \in [Workers -> Nat]
  /\ pc \in [Workers -> Pcs]

\* Threads of a group run the same task and the same part of it: nobody is past
\* a barrier while another is still before it, wherever the counters wrap.
PartsSeparated ==
  \A u, w \in Workers :
    Root(u) = Root(w) /\ pc[u] = "task" /\ pc[w] = "task" =>
      cur[u] = cur[w] /\ left[u] = left[w]

\* A task is an object of the caller of run(): a thread reads its address or
\* runs it only while that caller has not returned, and it is the latest task.
TaskInScope ==
  \A w \in Workers :
    /\ pc[w] = "fetch" => pc[Root(w)] \in {"fetch", "task", "bbottom", "bottom"}
    /\ pc[w] \in {"task", "bbottom", "btop", "bottom"} /\ parent[w] # None =>
         /\ pc[parent[w]] \in {"fetch", "task", "bbottom", "btop", "bottom"}
         /\ cur[w] = task[parent[w]]

\* When run() has returned, every thread of the group has run every task, once.
RunWaitsForAll ==
  \A w \in Workers :
    parent[w] # None /\ pc[parent[w]] \in {"out", "create", "join", "gone", "exit"} =>
      /\ started[w] = started[parent[w]]
      /\ pc[w] \in {"unborn", "loop", "top", "exit"}

\* run() returns, if every thread calls barrier() as often as the others.
RunReturns ==
  \A w \in Workers :
    pc[w] = "top" /\ parent[w] = None ~> pc[w] \in {"out", "join", "exit"}

\* The destructor returns: the stop flag reaches every thread, in every group.
PoolEnds == pc[0] = "join" ~> pc[0] = "gone"

\* What the comment at the call says: the first thread of a new group is the one
\* that uses group_func.  kspin_create_group_and_run builds it from references
\* to its own parameters, so its caller must still be inside.
GroupFuncInScope == \A w \in Workers : pc[w] = "begin" => pc[0] = "create"
=============================================================================
