--------------------------- MODULE KspinPoolProofs ---------------------------
(***************************************************************************)
(* Theorems about KspinPool, for any number of threads, groups of any size, *)
(* tasks with any number of barriers and counters that wrap anywhere after  *)
(* three values.                                                            *)
(***************************************************************************)
EXTENDS KspinPool, TLAPS

\* A part of a task, up to a barrier or its end, is open from the moment the
\* root publishes it until the root has seen everybody's word.
Open(r) == pc[r] \in {"fetch", "task", "bbottom", "bottom"}

\* The barriers still ahead in the part that r has opened.
Ahead(r) == IF pc[r] = "fetch" THEN task[r].barriers ELSE left[r]

InFirst(c, r) == Ahead(r) = task[r].barriers /\ started[c] + 1 = started[r]
InTask(c, r)  == cur[c] = task[r] /\ started[c] = started[r]

\* Between two parts a child has published the word its root has.
WaitsToStart(c, r) ==
  /\ sync[c] = sync[r]
  /\ \/ pc[c] \in {"unborn", "loop", "exit"} /\ ver[c] = sync[r]
     \/ pc[c] \in {"top", "btop"} /\ ver[c] = Inc(sync[r])
  /\ pc[c] = "btop" <=> pc[r] = "btop"
  /\ pc[c] = "btop" => InTask(c, r) /\ left[c] = left[r]
  /\ started[c] + (IF pc[r] = "top" THEN 1 ELSE 0) = started[r]

\* A child that has not published the end of the open part...
NotDone(c, r) ==
  /\ Inc(sync[c]) = sync[r]
  /\ \/ pc[c] \in {"unborn", "loop"} /\ ver[c] = sync[c] /\ InFirst(c, r) /\ ~stop[c]
     \/ pc[c] \in {"top", "fetch"} /\ ver[c] = sync[r] /\ InFirst(c, r)
     \/ pc[c] = "btop" /\ ver[c] = sync[r] /\ InTask(c, r) /\ left[c] = Ahead(r) + 1
     \/ pc[c] = "task" /\ ver[c] = sync[r] /\ InTask(c, r) /\ left[c] = Ahead(r)
     \/ /\ pc[c] \in {"bbottom", "bottom"} /\ ver[c] = Inc(sync[r])
        /\ InTask(c, r) /\ left[c] = Ahead(r) /\ (pc[c] = "bottom" <=> left[c] = 0)

\* ...and one that has.
Done(c, r) ==
  /\ sync[c] = Inc(sync[r]) /\ started[c] = started[r]
  /\ \/ pc[c] \in {"loop", "exit"} /\ ver[c] = Inc(sync[r]) /\ Ahead(r) = 0
     \/ pc[c] = "top" /\ ver[c] = Inc(Inc(sync[r])) /\ Ahead(r) = 0
     \/ /\ pc[c] = "btop" /\ ver[c] = Inc(Inc(sync[r])) /\ Ahead(r) > 0
        /\ InTask(c, r) /\ left[c] = Ahead(r)

ChildOK(c, r) == IF Open(r) THEN NotDone(c, r) \/ Done(c, r) ELSE WaitsToStart(c, r)
Children == \A c, r \in Workers : parent[c] = r => ChildOK(c, r)

\* A root publishes its version on the way down and on the way up.
RootOK(r) ==
  /\ Kids(r) # {} =>
       IF pc[r] \in {"top", "btop", "bbottom", "bottom"}
         THEN ver[r] = Inc(sync[r]) ELSE ver[r] = sync[r]
  /\ pc[r] \in {"task", "bbottom", "btop", "bottom"} => cur[r] = task[r]
  /\ pc[r] \in {"bbottom", "btop"} => left[r] > 0
  /\ pc[r] = "bottom" => left[r] = 0
  /\ pc[r] \in {"bbottom", "bottom"} =>
       \A c \in Kids(r) \ todo[r] : sync[c] = Inc(sync[r])
Roots == \A r \in Workers : parent[r] = None => RootOK(r)

\* A stop flag is raised by the last task of a group.
StopOK(c, r) ==
  /\ stop[c] => task[r].halt /\ (Open(r) \/ pc[r] \in {"btop", "join", "gone", "exit"})
  /\ pc[c] = "exit" => stop[c]
Stops == \A c, r \in Workers : parent[c] = r => StopOK(c, r)

\* Groups are trees of depth one, and workers are used in the order of their ids.
Shape ==
  /\ \A c \in Workers : parent[c] # None =>
       /\ parent[c] \in Workers /\ parent[c] < c /\ parent[parent[c]] = None
       /\ c < used + size
  /\ \A w \in Workers :
       /\ pc[w] \in {"out", "begin", "create", "join", "gone"} => parent[w] = None
       /\ pc[w] = "loop" => parent[w] # None
       /\ pc[w] \in {"create", "join", "gone"} => w = 0
       /\ pc[w] = "unborn" <=> w >= IF pc[0] = "create" THEN next ELSE used
       /\ pc[w] = "unborn" => ver[w] = 0 /\ sync[w] = 0 /\ started[w] = 0 /\ ~stop[w]
                             /\ todo[w] = {}
       /\ parent[w] # None => todo[w] = {}
  /\ pc[0] # "create" => size = 0
  /\ pc[0] = "create" => next >= used /\ used + size <= Total
  /\ used > 0

IInv == TypeOK /\ Shape /\ Roots /\ Children /\ Stops
-----------------------------------------------------------------------------
(* The counters: three values in a row are distinct. *)

LEMMA IncType == ASSUME NEW v \in 0..Wrap - 1 PROVE Inc(v) \in 0..Wrap - 1
  BY KspinAssumption DEF Inc

LEMMA IncTwice ==
  ASSUME NEW v \in 0..Wrap - 1 PROVE Inc(v) # v /\ Inc(Inc(v)) # v
  BY KspinAssumption DEF Inc

-----------------------------------------------------------------------------
(* What a step of one worker leaves alone. *)

Same(u) ==
  /\ ver'[u] = ver[u] /\ sync'[u] = sync[u] /\ todo'[u] = todo[u] /\ stop'[u] = stop[u]
  /\ task'[u] = task[u] /\ cur'[u] = cur[u] /\ left'[u] = left[u]
  /\ started'[u] = started[u] /\ pc'[u] = pc[u]

Only(w) == UNCHANGED groupVars /\ \A u \in Workers \ {w} : Same(u)

LEMMA SameChild ==
  ASSUME NEW c \in Workers, NEW r \in Workers, Same(c), Same(r)
  PROVE  ChildOK(c, r) = ChildOK(c, r)' /\ StopOK(c, r) = StopOK(c, r)'
  BY DEF Same, ChildOK, Open, NotDone, Done, WaitsToStart, InFirst, InTask, Ahead, StopOK, Inc

LEMMA FrameChildren ==
  ASSUME IInv, NEW w \in Workers, Only(w),
         \A r \in Workers : parent[w] = r => ChildOK(w, r)' /\ StopOK(w, r)',
         \A c \in Workers : parent[c] = w => ChildOK(c, w)' /\ StopOK(c, w)'
  PROVE  Children' /\ Stops'
<1> SUFFICES ASSUME NEW c \in Workers, NEW r \in Workers, parent'[c] = r
             PROVE  ChildOK(c, r)' /\ StopOK(c, r)'
  BY DEF Children, Stops, Workers
<1>1. parent[c] = r
  BY DEF Only, groupVars
<1>2. CASE c = w \/ r = w
  BY <1>1, <1>2
<1>3. CASE c # w /\ r # w
  <2>1. Same(c) /\ Same(r)
    BY <1>3 DEF Only
  <2>2. ChildOK(c, r) /\ StopOK(c, r)
    BY <1>1 DEF IInv, Children, Stops
  <2> QED
    BY <2>1, <2>2, SameChild
<1> QED
  BY <1>2, <1>3

LEMMA FrameRoots ==
  ASSUME IInv, NEW w \in Workers, Only(w),
         parent[w] = None => RootOK(w)',
         parent[w] # None /\ sync'[w] # sync[w] =>
           w \in todo[parent[w]] \/ pc[parent[w]] \notin {"bbottom", "bottom"}
  PROVE  Roots'
<1> SUFFICES ASSUME NEW r \in Workers, parent'[r] = None PROVE RootOK(r)'
  BY DEF Roots
<1>1. parent' = parent /\ RootOK(r)
  BY DEF Only, groupVars, IInv, Roots
<1>2. CASE r = w
  BY <1>1, <1>2
<1>3. CASE r # w
  <2>1. Same(r) /\ Kids(r)' = Kids(r)
    BY <1>1, <1>3 DEF Only, Kids, Workers
  <2>2. \A c \in Workers \ {w} : sync'[c] = sync[c]
    BY DEF Only, Same
  <2>3. pc[r] \in {"bbottom", "bottom"} =>
          \A c \in Kids(r) \ todo[r] : sync'[c] = sync[c]
    BY <2>2, KspinAssumption DEF Kids, Workers
  <2>4. (pc[r] \in {"bbottom", "bottom"} =>
          \A c \in Kids(r) \ todo[r] : sync[c] = Inc(sync[r]))'
    BY <1>1, <2>1, <2>3 DEF Same, RootOK, Inc
  <2> QED
    BY <1>1, <2>1, <2>4 DEF Same, RootOK, Inc
<1> QED
  BY <1>2, <1>3

LEMMA FrameShape ==
  ASSUME IInv, NEW w \in Workers, Only(w),
         pc[w] \notin {"unborn", "create"}, pc'[w] \notin {"unborn", "create"},
         pc'[w] \in {"out", "begin", "join", "gone"} => parent[w] = None,
         pc'[w] = "loop" => parent[w] # None,
         pc'[w] \in {"join", "gone"} => w = 0,
         parent[w] # None => todo'[w] = {}
  PROVE  Shape'
<1>1. UNCHANGED <<parent, used, size, next>>
  BY DEF Only, groupVars
<1>2. pc'[0] = "create" <=> pc[0] = "create"
  BY KspinAssumption DEF Only, Same, Workers
<1>3. \A u \in Workers \ {w} : Same(u)
  BY DEF Only
<1> QED
  BY <1>1, <1>2, <1>3 DEF IInv, Shape, Same

-----------------------------------------------------------------------------
(* Groups are trees of depth one. *)

LEMMA Tree ==
  ASSUME IInv, NEW c \in Workers, NEW r \in Workers, parent[c] = r
  PROVE  parent[c] # None /\ parent[r] = None /\ c # r /\ Kids(c) = {} /\ c \in Kids(r)
  BY KspinAssumption DEF IInv, Shape, Kids, Workers

LEMMA FirstIsRoot == ASSUME IInv, 0 \in Workers PROVE parent[0] = None
  BY KspinAssumption DEF IInv, Shape, Workers

LEMMA RootOrChild ==
  ASSUME IInv, NEW w \in Workers
  PROVE  parent[w] = None \/ \E r \in Workers : parent[w] = r
  BY DEF IInv, TypeOK

LEMMA OnlyWorking ==
  ASSUME TypeOK, NEW w \in Workers,
         Working(w) \/ RunStop(w) \/ \E b \in 0..MaxBarriers : Run(w, b)
  PROVE  Only(w)
<1> USE DEF Only, Same, TypeOK, Goto, groupVars, spinVars, taskVars
<1>1. CASE LoopEnds(w) \/ LoopRuns(w) \/ CallGroupFunc(w)
  BY <1>1 DEF LoopEnds, LoopRuns, CallGroupFunc
<1>2. CASE TopDown(w)
  BY <1>2 DEF TopDown
<1>3. CASE Fetch(w)
  BY <1>3 DEF Fetch
<1>4. CASE Barrier(w) \/ Await(w)
  BY <1>4 DEF Barrier, Await
<1>5. CASE Return(w)
  BY <1>5 DEF Return, StopSelf
<1>6. CASE BarrierUp(w) \/ RunUp(w)
  BY <1>6 DEF BarrierUp, RunUp, StoreWord
<1>7. CASE RunStop(w) \/ \E b \in 0..MaxBarriers : Run(w, b)
  BY <1>7 DEF RunStop, Run, Launch
<1> QED
  BY <1>1, <1>2, <1>3, <1>4, <1>5, <1>6, <1>7 DEF Working

-----------------------------------------------------------------------------
(* One lemma per step of a worker. *)

LEMMA LaunchStep ==
  ASSUME IInv, NEW w \in Workers, NEW t \in TaskType, t.job = started[w] + 1,
         pc[w] = "out", Only(w), Launch(w, t)
  PROVE  Shape' /\ Roots' /\ Children' /\ Stops'
<1>1. /\ parent[w] = None
      /\ UNCHANGED <<parent, used, size, next, sync, todo, stop, cur, left>>
      /\ task'[w] = t /\ started'[w] = started[w] + 1 /\ ver'[w] = Inc(ver[w]) /\ pc'[w] = "top"
  BY DEF IInv, TypeOK, Shape, Launch, Goto, groupVars
<1>2. Shape'
  BY <1>1, FrameShape
<1>3. Roots'
  <2>1. RootOK(w)'
    BY <1>1 DEF IInv, Roots, RootOK, Kids, Workers, Inc
  <2> QED
    BY <1>1, <2>1, FrameRoots
<1>4. Children' /\ Stops'
  <2> SUFFICES ASSUME NEW c \in Workers, parent[c] = w PROVE ChildOK(c, w)' /\ StopOK(c, w)'
    BY <1>1, FrameChildren, KspinAssumption DEF Workers
  <2>1. Same(c) /\ started[c] \in Nat /\ started[w] \in Nat
    BY Tree DEF Only, IInv, TypeOK
  <2>2. WaitsToStart(c, w) /\ StopOK(c, w)
    BY DEF IInv, Children, Stops, ChildOK, Open
  <2>3. WaitsToStart(c, w)'
    BY <1>1, <2>1, <2>2 DEF Same, WaitsToStart, InTask, Inc
  <2>4. StopOK(c, w)'
    BY <1>1, <2>1, <2>2 DEF Same, StopOK, Open
  <2> QED
    BY <1>1, <2>3, <2>4 DEF ChildOK, Open
<1> QED
  BY <1>2, <1>3, <1>4

LEMMA LoopStep ==
  ASSUME IInv, NEW w \in Workers, Only(w), LoopEnds(w) \/ LoopRuns(w)
  PROVE  Shape' /\ Roots' /\ Children' /\ Stops'
<1>1. PICK r \in Workers : parent[w] = r
  BY RootOrChild DEF IInv, Shape, LoopEnds, LoopRuns
<1>2. /\ UNCHANGED <<parent, used, size, next, sync, todo, stop, task, cur, left, started>>
      /\ \/ pc'[w] = "exit" /\ stop[w] /\ ver'[w] = ver[w]
         \/ pc'[w] = "top" /\ ~stop[w] /\ ver'[w] = Inc(ver[w])
      /\ pc[w] = "loop"
  BY DEF IInv, TypeOK, LoopEnds, LoopRuns, Goto, groupVars, spinVars, taskVars
<1>3. parent[w] # None /\ Kids(w) = {} /\ w # r
  BY <1>1, Tree
<1>4. Same(r) /\ ver[w] \in 0..Wrap - 1
  BY <1>3 DEF Only, IInv, TypeOK
<1>5. Shape'
  BY <1>2, <1>3, FrameShape DEF IInv, Shape
<1>6. Roots'
  BY <1>2, <1>3, FrameRoots
<1>7. ChildOK(w, r) /\ StopOK(w, r)
  BY <1>1 DEF IInv, Children, Stops
<1>8. ChildOK(w, r)'
  <2>1. CASE Open(r) /\ NotDone(w, r)
    BY <1>2, <1>4, <2>1 DEF ChildOK, Open, NotDone, Same, InFirst, Ahead, Inc
  <2>2. CASE Open(r) /\ Done(w, r)
    BY <1>2, <1>4, <2>2 DEF ChildOK, Open, Done, Same, Ahead, Inc
  <2>3. CASE ~Open(r)
    BY <1>2, <1>4, <1>7, <2>3 DEF ChildOK, Open, WaitsToStart, Same, InTask, Inc
  <2> QED
    BY <1>7, <2>1, <2>2, <2>3 DEF ChildOK
<1>9. StopOK(w, r)'
  BY <1>2, <1>4, <1>7 DEF StopOK, Same, Open
<1>10. Children' /\ Stops'
  BY <1>1, <1>3, <1>8, <1>9, FrameChildren DEF Kids
<1> QED
  BY <1>5, <1>6, <1>10

\* topDown of a child: it was released by the word of its root.
LEMMA TopDownChild ==
  ASSUME IInv, NEW w \in Workers, NEW r \in Workers, parent[w] = r, Only(w), TopDown(w)
  PROVE  Shape' /\ Roots' /\ Children' /\ Stops' /\ (pc[w] = "btop" => left[w] > 0)
<1>1. parent[w] # None /\ Kids(w) = {} /\ w # r
  BY Tree
<1>2. /\ UNCHANGED <<parent, used, size, next, sync, ver, todo, stop, task, cur, started>>
      /\ \/ pc[w] = "btop" /\ pc'[w] = "task" /\ left'[w] = left[w] - 1
         \/ pc[w] = "top" /\ pc'[w] = "fetch" /\ left'[w] = left[w]
      /\ ver[w] = sync[r]
  BY <1>1 DEF IInv, TypeOK, TopDown, Released, Goto, groupVars
<1>3. Same(r) /\ ver[w] \in 0..Wrap - 1 /\ sync[r] \in 0..Wrap - 1 /\ left[w] \in Int
      /\ left[r] \in Nat /\ task[r].barriers \in Nat
  BY <1>1 DEF Only, IInv, TypeOK, TaskType
<1>4. Shape'
  BY <1>1, <1>2, FrameShape DEF IInv, Shape
<1>5. Roots'
  BY <1>1, <1>2, FrameRoots
<1>6. ChildOK(w, r) /\ StopOK(w, r)
  BY DEF IInv, Children, Stops
<1>7. Open(r) /\ NotDone(w, r)
  BY <1>2, <1>3, <1>6, IncTwice DEF ChildOK, WaitsToStart, Done
<1>8. ChildOK(w, r)'
  <2>1. Open(r)' /\ Ahead(r)' = Ahead(r) /\ Ahead(r) \in Nat
    BY <1>3, <1>7 DEF Open, Same, Ahead
  <2>2. NotDone(w, r)'
    BY <1>2, <1>3, <1>7, <2>1 DEF NotDone, Same, InFirst, InTask, Inc
  <2> QED
    BY <2>1, <2>2 DEF ChildOK
<1>9. StopOK(w, r)'
  BY <1>2, <1>3, <1>6 DEF StopOK, Same, Open
<1>10. Children' /\ Stops'
  BY <1>1, <1>8, <1>9, FrameChildren DEF Kids
<1>11. pc[w] = "btop" => left[w] > 0
  BY <1>3, <1>7 DEF NotDone, Ahead
<1> QED
  BY <1>4, <1>5, <1>10, <1>11

\* topDown of a root opens the next part for its children.
LEMMA TopDownRoot ==
  ASSUME IInv, NEW w \in Workers, parent[w] = None, Only(w), TopDown(w)
  PROVE  Shape' /\ Roots' /\ Children' /\ Stops' /\ (pc[w] = "btop" => left[w] > 0)
<1>1. /\ UNCHANGED <<parent, used, size, next, ver, todo, stop, task, cur, started>>
      /\ \/ pc[w] = "btop" /\ pc'[w] = "task" /\ left'[w] = left[w] - 1
         \/ pc[w] = "top" /\ pc'[w] = "fetch" /\ left'[w] = left[w]
      /\ Kids(w) # {} => sync'[w] = ver[w]
  BY DEF IInv, TypeOK, TopDown, Goto, groupVars
<1>2. RootOK(w) /\ left[w] \in Nat
  BY DEF IInv, Roots, TypeOK
<1>3. Kids(w)' = Kids(w)
  BY <1>1 DEF Kids, Workers
<1>4. Shape'
  BY <1>1, FrameShape DEF IInv, Shape
<1>5. Roots'
  BY <1>1, <1>2, <1>3, FrameRoots DEF RootOK
<1>6. ASSUME NEW c \in Workers, parent[c] = w PROVE ChildOK(c, w)' /\ StopOK(c, w)'
  <2>1. Same(c) /\ sync'[w] = Inc(sync[w]) /\ left[c] \in Nat /\ started[c] \in Nat
    BY <1>1, <1>2, <1>6, Tree DEF RootOK, Only, IInv, TypeOK
  <2>2. ChildOK(c, w) /\ StopOK(c, w)
    BY <1>6 DEF IInv, Children, Stops
  <2>3. WaitsToStart(c, w) /\ (pc[w] = "top" => ~stop[c] /\ pc[c] # "exit")
    BY <1>1, <2>2 DEF ChildOK, StopOK, Open
  <2>4. CASE pc[w] = "top"
    <3>1. Open(w)' /\ Ahead(w)' = task[w].barriers
      BY <1>1, <2>4 DEF Open, Ahead
    <3>2. NotDone(c, w)'
      BY <1>1, <2>1, <2>3, <2>4, <3>1 DEF WaitsToStart, NotDone, InFirst, Same, Inc
    <3> QED
      BY <3>1, <3>2, <2>1, <2>2, <1>1 DEF ChildOK, StopOK, Same
  <2>5. CASE pc[w] = "btop"
    <3>1. Open(w)' /\ Ahead(w)' = left[w] - 1
      BY <1>1, <2>5 DEF Open, Ahead
    <3>2. NotDone(c, w)'
      BY <1>1, <1>2, <2>1, <2>3, <2>5, <3>1 DEF WaitsToStart, NotDone, InTask, Same, Inc
    <3> QED
      BY <3>1, <3>2, <2>1, <2>2, <1>1 DEF ChildOK, StopOK, Same
  <2> QED
    BY <2>4, <2>5, <1>1
<1>7. Children' /\ Stops'
  BY <1>6, FrameChildren, KspinAssumption DEF Workers
<1> QED
  BY <1>2, <1>4, <1>5, <1>7 DEF RootOK

LEMMA FetchStep ==
  ASSUME IInv, NEW w \in Workers, Only(w), Fetch(w)
  PROVE  Shape' /\ Roots' /\ Children' /\ Stops'
<1>1. /\ UNCHANGED <<parent, used, size, next, sync, ver, todo, stop, task>>
      /\ pc[w] = "fetch" /\ pc'[w] = "task"
      /\ cur'[w] = task[Root(w)] /\ left'[w] = task[Root(w)].barriers
      /\ started'[w] = IF parent[w] # None THEN started[w] + 1 ELSE started[w]
  BY DEF IInv, TypeOK, Fetch, Goto, groupVars, spinVars
<1>2. Shape'
  BY <1>1, FrameShape DEF IInv, Shape
<1>3. CASE parent[w] = None
  <2>1. cur'[w] = task[w] /\ left'[w] = task[w].barriers /\ started'[w] = started[w]
    BY <1>1, <1>3 DEF Root
  <2>2. Kids(w)' = Kids(w) /\ RootOK(w)
    BY <1>1, <1>3 DEF Kids, Workers, IInv, Roots
  <2>3. RootOK(w)'
    BY <1>1, <2>1, <2>2 DEF RootOK
  <2>4. Roots'
    BY <1>1, <1>3, <2>3, FrameRoots
  <2>5. ASSUME NEW c \in Workers, parent[c] = w PROVE ChildOK(c, w)' /\ StopOK(c, w)'
    <3>1. Same(c) /\ ChildOK(c, w) /\ StopOK(c, w)
      BY <2>5, Tree DEF Only, IInv, Children, Stops
    <3>2. Open(w) /\ Open(w)' /\ Ahead(w)' = Ahead(w)
      BY <1>1, <2>1 DEF Open, Ahead
    <3>3. NotDone(c, w)' = NotDone(c, w)
      BY <1>1, <2>1, <3>1, <3>2 DEF NotDone, InFirst, InTask, Same, Inc
    <3>4. Done(c, w)' = Done(c, w)
      BY <1>1, <2>1, <3>1, <3>2 DEF Done, InTask, Same, Inc
    <3> QED
      BY <1>1, <3>1, <3>2, <3>3, <3>4 DEF ChildOK, StopOK, Same
  <2>6. Children' /\ Stops'
    BY <1>3, <2>5, FrameChildren, KspinAssumption DEF Workers
  <2> QED
    BY <1>2, <2>4, <2>6
<1>4. ASSUME NEW r \in Workers, parent[w] = r PROVE Roots' /\ Children' /\ Stops'
  <2>1. parent[w] # None /\ Kids(w) = {} /\ w # r
    BY <1>4, Tree
  <2>2. /\ cur'[w] = task[r] /\ left'[w] = task[r].barriers /\ started'[w] = started[w] + 1
        /\ Same(r) /\ started[w] \in Nat
    BY <1>1, <1>4, <2>1 DEF Root, Only, IInv, TypeOK
  <2>3. Roots'
    BY <1>1, <2>1, FrameRoots
  <2>4. ChildOK(w, r) /\ StopOK(w, r)
    BY <1>4 DEF IInv, Children, Stops
  <2>5. Open(r) /\ NotDone(w, r)
    BY <1>1, <2>4 DEF ChildOK, WaitsToStart, Done
  <2>6. ChildOK(w, r)' /\ StopOK(w, r)'
    <3>1. Open(r)' /\ Ahead(r)' = Ahead(r)
      BY <2>2, <2>5 DEF Open, Same, Ahead
    <3>2. NotDone(w, r)'
      BY <1>1, <2>2, <2>5, <3>1 DEF NotDone, Same, InFirst, InTask, Inc
    <3> QED
      BY <1>1, <2>2, <2>4, <3>1, <3>2 DEF ChildOK, StopOK, Same
  <2> QED
    BY <1>4, <2>1, <2>3, <2>6, FrameChildren DEF Kids
<1> QED
  BY <1>2, <1>3, <1>4, RootOrChild

\* A thread reaches the end of a part: of a task, or the barrier() in it.
LEMMA PartEnds ==
  ASSUME IInv, NEW w \in Workers, Only(w), Barrier(w) \/ Return(w)
  PROVE  Shape' /\ Roots' /\ Children' /\ Stops'
<1>1. /\ UNCHANGED <<parent, used, size, next, sync, task, cur, left, started>>
      /\ pc[w] = "task" /\ ver'[w] = Inc(ver[w]) /\ todo'[w] = Kids(w)
      /\ \/ pc'[w] = "bbottom" /\ left[w] > 0
         \/ pc'[w] = "bottom" /\ left[w] = 0
      /\ stop'[w] => stop[w] \/ cur[w].halt
  <2>1. CASE Barrier(w)
    BY <2>1 DEF IInv, TypeOK, Barrier, Goto, groupVars, taskVars
  <2>2. CASE Return(w)
    BY <2>2 DEF IInv, TypeOK, Return, StopSelf, Goto, groupVars
  <2> QED
    BY <2>1, <2>2
<1>2. Kids(w)' = Kids(w) /\ left[w] \in Nat
  BY <1>1 DEF Kids, Workers, IInv, TypeOK
<1>3. CASE parent[w] = None
  <2>1. RootOK(w)
    BY <1>3 DEF IInv, Roots
  <2>2. RootOK(w)'
    BY <1>1, <1>2, <2>1 DEF RootOK, Inc
  <2>3. Shape' /\ Roots'
    BY <1>1, <1>3, <2>2, FrameRoots, FrameShape
  <2>4. ASSUME NEW c \in Workers, parent[c] = w PROVE ChildOK(c, w)' /\ StopOK(c, w)'
    <3>1. Same(c) /\ ChildOK(c, w) /\ StopOK(c, w)
      BY <2>4, Tree DEF Only, IInv, Children, Stops
    <3>2. Open(w) /\ Open(w)' /\ Ahead(w)' = Ahead(w)
      BY <1>1 DEF Open, Ahead
    <3>3. NotDone(c, w)' = NotDone(c, w)
      BY <1>1, <3>1, <3>2 DEF NotDone, InFirst, InTask, Same, Inc
    <3>4. Done(c, w)' = Done(c, w)
      BY <1>1, <3>1, <3>2 DEF Done, InTask, Same, Inc
    <3> QED
      BY <1>1, <3>1, <3>2, <3>3, <3>4 DEF ChildOK, StopOK, Same
  <2>5. Children' /\ Stops'
    BY <1>3, <2>4, FrameChildren, KspinAssumption DEF Workers
  <2> QED
    BY <2>3, <2>5
<1>4. ASSUME NEW r \in Workers, parent[w] = r PROVE Shape' /\ Roots' /\ Children' /\ Stops'
  <2>1. parent[w] # None /\ Kids(w) = {} /\ w # r
    BY <1>4, Tree
  <2>2. Same(r)
    BY <2>1 DEF Only
  <2>3. Shape' /\ Roots'
    BY <1>1, <2>1, FrameRoots, FrameShape
  <2>4. ChildOK(w, r) /\ StopOK(w, r)
    BY <1>4 DEF IInv, Children, Stops
  <2>5. Open(r) /\ NotDone(w, r)
    BY <1>1, <2>4 DEF ChildOK, WaitsToStart, Done
  <2>6. ChildOK(w, r)'
    <3>1. Open(r)' /\ Ahead(r)' = Ahead(r)
      BY <2>2, <2>5 DEF Open, Same, Ahead
    <3>2. NotDone(w, r)'
      BY <1>1, <1>2, <2>2, <2>5, <3>1 DEF NotDone, Same, InFirst, InTask, Inc
    <3> QED
      BY <3>1, <3>2 DEF ChildOK
  <2>7. StopOK(w, r)'
    <3>1. cur[w] = task[r]
      BY <1>1, <2>5 DEF NotDone, InTask
    <3> QED
      BY <1>1, <2>2, <2>4, <2>5, <3>1 DEF StopOK, Same, Open
  <2> QED
    BY <1>4, <2>1, <2>3, <2>6, <2>7, FrameChildren DEF Kids
<1> QED
  BY <1>3, <1>4, RootOrChild

\* A root has seen the word of one more child.
LEMMA AwaitStep ==
  ASSUME IInv, NEW w \in Workers, Only(w), Await(w)
  PROVE  Shape' /\ Roots' /\ Children' /\ Stops'
<1>1. PICK d \in todo[w] : sync[d] = ver[w] /\ todo' = [todo EXCEPT ![w] = @ \ {d}]
  BY DEF Await
<1>2. /\ UNCHANGED <<parent, used, size, next, ver, sync, stop, task, cur, left, started, pc>>
      /\ pc[w] \in {"bottom", "bbottom"} /\ todo'[w] = todo[w] \ {d}
      /\ Kids(w)' = Kids(w)
  BY <1>1 DEF Await, groupVars, taskVars, IInv, TypeOK, Kids, Workers
<1>3. parent[w] = None
  BY <1>1 DEF IInv, Shape
<1>4. RootOK(w)
  BY <1>3 DEF IInv, Roots
<1>5. RootOK(w)'
  BY <1>1, <1>2, <1>4 DEF RootOK, Inc
<1>6. Shape' /\ Roots'
  BY <1>2, <1>3, <1>5, FrameRoots, FrameShape
<1>7. ASSUME NEW c \in Workers, parent[c] = w PROVE ChildOK(c, w)' /\ StopOK(c, w)'
  <2>1. ChildOK(c, w) /\ StopOK(c, w)
    BY <1>7 DEF IInv, Children, Stops
  <2> QED
    BY <1>2, <2>1 DEF ChildOK, StopOK, Open, NotDone, Done, WaitsToStart, InFirst, InTask, Ahead, Inc
<1>8. Children' /\ Stops'
  BY <1>3, <1>7, FrameChildren, KspinAssumption DEF Workers
<1> QED
  BY <1>6, <1>8

\* bottomUp of a child: its root waits for the word it stores.
LEMMA UpChild ==
  ASSUME IInv, NEW w \in Workers, NEW r \in Workers, parent[w] = r, Only(w),
         BarrierUp(w) \/ RunUp(w)
  PROVE  Shape' /\ Roots' /\ Children' /\ Stops'
<1>1. parent[w] # None /\ Kids(w) = {} /\ w # r /\ parent[r] = None /\ w \in Kids(r)
  BY Tree
<1>2. /\ UNCHANGED <<parent, used, size, next, stop, task, cur, left, started>>
      /\ sync'[w] = ver[w] /\ todo'[w] = {}
      /\ \/ pc[w] = "bbottom" /\ pc'[w] = "btop" /\ ver'[w] = Inc(ver[w])
         \/ pc[w] = "bottom" /\ pc'[w] = "loop" /\ ver'[w] = ver[w]
  BY <1>1 DEF IInv, TypeOK, BarrierUp, RunUp, StoreWord, Goto, groupVars, taskVars
<1>3. Same(r) /\ left[w] \in Nat /\ sync[r] \in 0..Wrap - 1
  BY <1>1 DEF Only, IInv, TypeOK
<1>4. ChildOK(w, r) /\ StopOK(w, r) /\ RootOK(r)
  BY <1>1 DEF IInv, Children, Stops, Roots
<1>5. Open(r) /\ NotDone(w, r)
  BY <1>2, <1>4 DEF ChildOK, WaitsToStart, Done
<1>6. w \in todo[r] \/ pc[r] \notin {"bbottom", "bottom"}
  BY <1>1, <1>3, <1>4, <1>5, IncTwice DEF RootOK, NotDone
<1>7. Shape'
  BY <1>1, <1>2, FrameShape
<1>8. Roots'
  BY <1>1, <1>2, <1>6, FrameRoots
<1>9. ChildOK(w, r)'
  <2>1. Open(r)' /\ Ahead(r)' = Ahead(r)
    BY <1>3, <1>5 DEF Open, Same, Ahead
  <2>2. Done(w, r)'
    BY <1>2, <1>3, <1>5, <2>1 DEF NotDone, Done, Same, InTask, Inc
  <2> QED
    BY <2>1, <2>2 DEF ChildOK
<1>10. StopOK(w, r)'
  BY <1>2, <1>3, <1>4 DEF StopOK, Same, Open
<1> QED
  BY <1>1, <1>7, <1>8, <1>9, <1>10, FrameChildren DEF Kids

\* bottomUp of a root: it has seen everybody's word, so everybody is done.
LEMMA UpRoot ==
  ASSUME IInv, NEW w \in Workers, parent[w] = None, Only(w), BarrierUp(w) \/ RunUp(w)
  PROVE  Shape' /\ Roots' /\ Children' /\ Stops'
<1>1. /\ UNCHANGED <<parent, used, size, next, stop, task, cur, left, started>>
      /\ sync'[w] = ver[w] /\ todo'[w] = {} /\ todo[w] = {}
      /\ \/ pc[w] = "bbottom" /\ pc'[w] = "btop" /\ ver'[w] = Inc(ver[w])
         \/ /\ pc[w] = "bottom" /\ pc'[w] \in {"out", "join", "exit"} /\ ver'[w] = ver[w]
            /\ cur[w].halt => pc'[w] # "out"
            /\ pc'[w] = "join" => w = 0
  BY DEF IInv, TypeOK, BarrierUp, RunUp, StoreWord, SeenAll, Goto, groupVars, taskVars
<1>2. RootOK(w) /\ left[w] \in Nat /\ Kids(w)' = Kids(w)
  BY <1>1 DEF IInv, Roots, TypeOK, Kids, Workers
<1>3. Shape'
  BY <1>1, FrameShape
<1>4. Roots'
  <2>1. RootOK(w)'
    BY <1>1, <1>2 DEF RootOK, Inc
  <2> QED
    BY <2>1, FrameRoots
<1>5. ASSUME NEW c \in Workers, parent[c] = w PROVE ChildOK(c, w)' /\ StopOK(c, w)'
  <2>1. /\ Same(c) /\ c \in Kids(w) /\ sync[c] \in 0..Wrap - 1 /\ sync[w] \in 0..Wrap - 1
        /\ started[c] \in Nat
    BY <1>5, Tree DEF Only, IInv, TypeOK
  <2>2. ChildOK(c, w) /\ StopOK(c, w)
    BY <1>5 DEF IInv, Children, Stops
  <2>3. sync[c] = Inc(sync[w]) /\ ver[w] = Inc(sync[w])
    BY <1>1, <1>2, <2>1 DEF RootOK
  <2>4. Open(w) /\ Ahead(w) = left[w] /\ ~Open(w)'
    BY <1>1 DEF Open, Ahead
  <2>5. Done(c, w)
    BY <2>1, <2>2, <2>3, <2>4, IncTwice DEF ChildOK, NotDone
  <2>6. WaitsToStart(c, w)'
    <3>1. CASE pc[w] = "bbottom"
      BY <1>1, <1>2, <2>1, <2>3, <2>4, <2>5, <3>1 DEF RootOK, Done, WaitsToStart, InTask, Same, Inc
    <3>2. CASE pc[w] = "bottom"
      BY <1>1, <1>2, <2>1, <2>3, <2>4, <2>5, <3>2 DEF RootOK, Done, WaitsToStart, InTask, Same, Inc
    <3> QED
      BY <1>1, <3>1, <3>2
  <2>7. cur[w] = task[w]
    BY <1>1, <1>2 DEF RootOK
  <2>8. StopOK(c, w)'
    BY <1>1, <2>1, <2>2, <2>7 DEF StopOK, Same, Open
  <2> QED
    BY <2>4, <2>6, <2>8 DEF ChildOK
<1> QED
  BY <1>3, <1>4, <1>5, FrameChildren, KspinAssumption DEF Workers

LEMMA CallStep ==
  ASSUME IInv, NEW w \in Workers, Only(w), CallGroupFunc(w)
  PROVE  Shape' /\ Roots' /\ Children' /\ Stops'
<1>1. /\ UNCHANGED <<parent, used, size, next, ver, sync, todo, stop, task, cur, left, started>>
      /\ pc[w] = "begin" /\ pc'[w] = "out" /\ parent[w] = None
  BY DEF IInv, TypeOK, Shape, CallGroupFunc, Goto, groupVars, spinVars, taskVars
<1>2. RootOK(w) /\ Kids(w)' = Kids(w)
  BY <1>1 DEF IInv, Roots, Kids, Workers
<1>3. RootOK(w)'
  BY <1>1, <1>2 DEF RootOK
<1>4. Shape' /\ Roots'
  BY <1>1, <1>3, FrameRoots, FrameShape
<1>5. ASSUME NEW c \in Workers, parent[c] = w PROVE ChildOK(c, w)' /\ StopOK(c, w)'
  <2>1. Same(c) /\ ChildOK(c, w) /\ StopOK(c, w)
    BY <1>5, Tree DEF Only, IInv, Children, Stops
  <2> QED
    BY <1>1, <2>1 DEF ChildOK, StopOK, Open, WaitsToStart, InTask, Same, Inc
<1> QED
  BY <1>1, <1>4, <1>5, FrameChildren, KspinAssumption DEF Workers

-----------------------------------------------------------------------------
(* createGroupAndRun and ~ThreadPool. *)

\* The workers of a new group were never used: all they hold is zero.
LEMMA CreateStep ==
  ASSUME IInv, NEW n \in GroupSizes, CreateGroup(n)
  PROVE  Shape' /\ Roots' /\ Children' /\ Stops'
<1>1. /\ UNCHANGED <<used, ver, sync, todo, stop, task, cur, left, started>>
      /\ pc[0] = "out" /\ pc'[0] = "create" /\ \A u \in Workers \ {0} : pc'[u] = pc[u]
      /\ used + n <= Total /\ size' = n /\ next' = used /\ n \in 1..Total /\ size = 0
      /\ used \in 1..Total
  BY KspinAssumption DEF CreateGroup, IInv, TypeOK, Shape, Goto, spinVars, taskVars, Workers
<1> DEFINE New == used + 1..used + n - 1
<1>2. \A w \in Workers : parent'[w] = IF w \in New THEN used ELSE parent[w]
  BY DEF CreateGroup
<1>3. \A w \in Workers : pc[w] = "unborn" <=> w >= used
  BY <1>1 DEF IInv, Shape
<1>4. \A w \in Workers : w >= used => parent[w] = None
  BY <1>1 DEF IInv, Shape, TypeOK, Workers
<1>5. Shape'
  <2>1. \A c \in Workers : parent'[c] # None =>
          /\ parent'[c] \in Workers /\ parent'[c] < c /\ parent'[parent'[c]] = None
          /\ c < used' + size'
    <3>1. SUFFICES ASSUME NEW c \in Workers, parent'[c] # None
                   PROVE  /\ parent'[c] \in Workers /\ parent'[c] < c
                          /\ parent'[parent'[c]] = None /\ c < used' + size'
      OBVIOUS
    <3>2. CASE c \in New
      <4>1. parent'[c] = used /\ used \in Workers /\ used \notin New
        BY <1>1, <1>2, <3>2, KspinAssumption DEF Workers
      <4> QED
        BY <1>1, <1>2, <1>4, <3>2, <4>1
    <3>3. CASE c \notin New
      <4>1. /\ parent'[c] = parent[c] /\ parent[c] \in Workers /\ parent[c] < c
            /\ parent[parent[c]] = None /\ c < used
        BY <1>1, <1>2, <3>1, <3>3 DEF IInv, Shape
      <4>2. parent[c] \notin New
        BY <1>1, <4>1 DEF Workers
      <4> QED
        BY <1>1, <1>2, <4>1, <4>2 DEF Workers
    <3> QED
      BY <3>2, <3>3
  <2>2. \A w \in Workers :
          /\ pc'[w] \in {"out", "begin", "create", "join", "gone"} => parent'[w] = None
          /\ pc'[w] = "loop" => parent'[w] # None
    BY <1>1, <1>2, <1>3, KspinAssumption DEF IInv, Shape, Workers
  <2>3. \A w \in Workers :
          /\ pc'[w] \in {"create", "join", "gone"} => w = 0
          /\ pc'[w] = "unborn" <=> w >= used
          /\ pc'[w] = "unborn" => ver[w] = 0 /\ sync[w] = 0 /\ started[w] = 0 /\ ~stop[w]
                                  /\ todo[w] = {}
    BY <1>1, <1>3 DEF IInv, Shape, Workers
  <2>4. \A w \in Workers : parent'[w] # None => todo[w] = {}
    BY <1>1, <1>2, <1>3 DEF IInv, Shape, Workers
  <2> QED
    BY <1>1, <2>1, <2>2, <2>3, <2>4 DEF Shape
<1>6. Roots'
  <2> SUFFICES ASSUME NEW r \in Workers, parent'[r] = None PROVE RootOK(r)'
    BY DEF Roots
  <2>1. parent[r] = None /\ RootOK(r)
    BY <1>1, <1>2, KspinAssumption DEF IInv, Roots, Workers
  <2>2. CASE r = used
    <3>1. pc[r] = "unborn" /\ pc'[r] = "unborn" /\ ver[r] = sync[r]
      BY <1>1, <1>3, <2>2 DEF IInv, Shape
    <3> QED
      BY <1>1, <3>1 DEF RootOK
  <2>3. CASE r # used
    <3>1. Kids(r)' = Kids(r)
      <4>1. \A c \in Workers : parent'[c] = r <=> parent[c] = r
        BY <1>1, <1>2, <1>4, <2>3, KspinAssumption DEF Workers
      <4> QED
        BY <4>1 DEF Kids, Workers
    <3>2. pc'[r] = pc[r] \/ (pc[r] = "out" /\ pc'[r] = "create")
      BY <1>1, <2>1
    <3> QED
      BY <1>1, <2>1, <3>1, <3>2 DEF RootOK, Inc
  <2> QED
    BY <2>2, <2>3
<1>7. ASSUME NEW c \in Workers, NEW r \in Workers, parent'[c] = r
      PROVE  ChildOK(c, r)' /\ StopOK(c, r)'
  <2>1. CASE c \in New
    <3>1. r = used /\ c # 0 /\ r # 0 /\ c >= used
      BY <1>1, <1>2, <1>7, <2>1
    <3>2. \A w \in {c, r} : /\ pc'[w] = "unborn" /\ ver[w] = 0 /\ sync[w] = 0
                            /\ started[w] = 0 /\ ~stop[w]
      BY <1>1, <1>3, <3>1 DEF IInv, Shape
    <3> QED
      BY <1>1, <3>2 DEF ChildOK, StopOK, Open, WaitsToStart
  <2>2. CASE c \notin New
    <3>1. parent[c] = r /\ c # 0
      <4>1. parent[c] = r
        BY <1>2, <1>7, <2>2
      <4> QED
        BY <4>1, FirstIsRoot, KspinAssumption DEF Workers
    <3>2. ChildOK(c, r) /\ StopOK(c, r) /\ pc'[c] = pc[c]
      BY <1>1, <3>1 DEF IInv, Children, Stops
    <3>3. CASE pc'[r] = pc[r]
      BY <1>1, <3>2, <3>3
         DEF ChildOK, StopOK, Open, NotDone, Done, WaitsToStart, InFirst, InTask, Ahead, Inc
    <3>4. CASE pc[r] = "out" /\ pc'[r] = "create"
      BY <1>1, <3>2, <3>4 DEF ChildOK, StopOK, Open, WaitsToStart, InTask, Inc
    <3> QED
      BY <1>1, <3>3, <3>4
  <2> QED
    BY <2>1, <2>2
<1>8. Children' /\ Stops'
  BY <1>7 DEF Children, Stops, Workers
<1> QED
  BY <1>5, <1>6, <1>8

LEMMA ManagingStep ==
  ASSUME IInv, Managing
  PROVE  Shape' /\ Roots' /\ Children' /\ Stops'
<1>1. UNCHANGED <<parent, ver, sync, todo, stop, task, cur, left, started>>
  BY DEF Managing, StartThread, GroupCreated, Join, groupVars, spinVars, taskVars
<1>2. PICK w \in Workers :
        /\ \A u \in Workers \ {w} : pc'[u] = pc[u]
        /\ \/ pc[w] = "unborn" /\ pc'[w] \in {"begin", "loop"}
           \/ w = 0 /\ pc[w] = "create" /\ pc'[w] = "out"
           \/ w = 0 /\ pc[w] = "join" /\ pc'[w] = "gone"
        /\ pc'[w] = "loop" <=> parent[w] # None
  <2>0. 0 \in Workers /\ (pc[0] = "create" => used > 0 /\ used + size <= Total /\ next >= used)
        /\ (pc[0] \in {"create", "join"} => parent[0] = None)
    BY KspinAssumption DEF Workers, IInv, Shape
  <2>1. CASE StartThread
    <3>1. next \in Workers /\ pc[next] = "unborn"
      BY <2>0, <2>1, KspinAssumption DEF StartThread, IInv, TypeOK, Shape, Workers
    <3>2. pc'[next] = IF parent[next] = None THEN "begin" ELSE "loop"
      BY <2>1, <3>1 DEF StartThread, Goto, IInv, TypeOK
    <3>3. \A u \in Workers \ {next} : pc'[u] = pc[u]
      BY <2>1 DEF StartThread, Goto, IInv, TypeOK
    <3> QED
      BY <3>1, <3>2, <3>3
  <2>2. CASE GroupCreated
    <3>1. /\ pc[0] = "create" /\ pc'[0] = "out" /\ \A u \in Workers \ {0} : pc'[u] = pc[u]
      BY <2>0, <2>2 DEF GroupCreated, Goto, IInv, TypeOK
    <3> QED
      BY <2>0, <3>1
  <2>3. CASE Join
    <3>1. /\ pc[0] = "join" /\ pc'[0] = "gone" /\ \A u \in Workers \ {0} : pc'[u] = pc[u]
      BY <2>0, <2>3 DEF Join, Goto, IInv, TypeOK
    <3> QED
      BY <2>0, <3>1
  <2> QED
    BY <2>1, <2>2, <2>3 DEF Managing
<1>3. Shape'
  <2>1. /\ \A u \in Workers : pc'[u] = "unborn" <=> u >= IF pc'[0] = "create" THEN next' ELSE used'
        /\ used' + size' = used + size /\ used' > 0
        /\ pc'[0] # "create" => size' = 0
        /\ pc'[0] = "create" => next' >= used' /\ used' + size' <= Total
    <3>0. 0 \in Workers /\ used \in Nat /\ size \in Nat /\ next \in Nat /\ used > 0
      BY KspinAssumption DEF Workers, IInv, TypeOK, Shape
    <3>1. CASE StartThread
      <4>1. /\ pc[0] = "create" /\ next \in Workers /\ next # 0 /\ next' = next + 1 /\ next >= used
            /\ used' = used /\ size' = size /\ pc'[0] = "create"
            /\ pc'[next] # "unborn" /\ \A u \in Workers \ {next} : pc'[u] = pc[u]
        <5>1. pc[0] = "create" /\ next < used + size /\ next >= used /\ used + size <= Total
          BY <3>1 DEF StartThread, IInv, Shape
        <5>2. next \in Workers
          BY <3>0, <5>1, KspinAssumption DEF Workers
        <5>3. pc' = [pc EXCEPT ![next] = IF parent[next] = None THEN "begin" ELSE "loop"]
              /\ next' = next + 1 /\ used' = used /\ size' = size
          BY <3>1 DEF StartThread, Goto
        <5> QED
          BY <3>0, <5>1, <5>2, <5>3 DEF IInv, TypeOK
      <4> QED
        BY <3>0, <4>1 DEF IInv, Shape, Workers
    <3>2. CASE GroupCreated
      <4>1. /\ pc[0] = "create" /\ pc'[0] = "out" /\ \A u \in Workers \ {0} : pc'[u] = pc[u]
            /\ used' = used + size /\ size' = 0 /\ next = used + size
        BY <3>0, <3>2 DEF GroupCreated, Goto, IInv, TypeOK
      <4> QED
        BY <3>0, <4>1 DEF IInv, Shape, Workers
    <3>3. CASE Join
      <4>1. /\ pc[0] = "join" /\ pc'[0] = "gone" /\ \A u \in Workers \ {0} : pc'[u] = pc[u]
            /\ used' = used /\ size' = size
        BY <3>0, <3>3 DEF Join, Goto, IInv, TypeOK, groupVars
      <4> QED
        BY <3>0, <4>1 DEF IInv, Shape, Workers
    <3> QED
      BY <3>1, <3>2, <3>3 DEF Managing
  <2>2. \A c \in Workers : parent[c] # None =>
          /\ parent[c] \in Workers /\ parent[c] < c /\ parent[parent[c]] = None /\ c < used + size
    BY DEF IInv, Shape
  <2>3. \A u \in Workers :
          /\ pc'[u] \in {"out", "begin", "create", "join", "gone"} => parent[u] = None
          /\ pc'[u] = "loop" => parent[u] # None
          /\ pc'[u] \in {"create", "join", "gone"} => u = 0
    BY <1>2 DEF IInv, Shape
  <2>4. \A u \in Workers :
          /\ pc'[u] = "unborn" => ver[u] = 0 /\ sync[u] = 0 /\ started[u] = 0 /\ ~stop[u]
                                  /\ todo[u] = {}
          /\ parent[u] # None => todo[u] = {}
    BY <1>2 DEF IInv, Shape
  <2> QED
    BY <1>1, <2>1, <2>2, <2>3, <2>4 DEF Shape
<1>4. \A r \in Workers : Kids(r)' = Kids(r)
  BY <1>1 DEF Kids, Workers
<1>5. Roots'
  <2> SUFFICES ASSUME NEW r \in Workers, parent'[r] = None PROVE RootOK(r)'
    BY DEF Roots
  <2>1. RootOK(r) /\ (r = w \/ pc'[r] = pc[r])
    BY <1>1, <1>2 DEF IInv, Roots
  <2> QED
    BY <1>1, <1>2, <1>4, <2>1 DEF RootOK, Inc
<1>6. ASSUME NEW c \in Workers, NEW r \in Workers, parent'[c] = r
      PROVE  ChildOK(c, r)' /\ StopOK(c, r)'
  <2>1. /\ ChildOK(c, r) /\ StopOK(c, r) /\ c # r /\ c # 0 /\ parent[c] # None /\ parent[r] = None
        /\ parent[c] = r
    BY <1>1, <1>6, Tree DEF IInv, Children, Stops, Shape, Workers
  <2>2. pc'[c] = pc[c] \/ (pc[c] = "unborn" /\ pc'[c] = "loop" /\ ~stop[c])
    BY <1>2, <2>1 DEF IInv, Shape
  <2>3. pc'[r] = pc[r] \/ (pc[r] = "unborn" /\ pc'[r] = "begin")
        \/ (pc[r] = "create" /\ pc'[r] = "out") \/ (pc[r] = "join" /\ pc'[r] = "gone")
    BY <1>2, <2>1
  <2>4. Open(r)' = Open(r) /\ Ahead(r)' = Ahead(r)
    BY <1>1, <2>3 DEF Open, Ahead
  <2>5. NotDone(c, r) => NotDone(c, r)'
    BY <1>1, <2>2, <2>4 DEF NotDone, InFirst, InTask, Inc
  <2>6. Done(c, r) => Done(c, r)'
    BY <1>1, <2>2, <2>4 DEF Done, InTask, Inc
  <2>7. WaitsToStart(c, r) => WaitsToStart(c, r)'
    BY <1>1, <2>2, <2>3 DEF WaitsToStart, InTask, Inc
  <2>8. ChildOK(c, r)'
    BY <2>1, <2>4, <2>5, <2>6, <2>7 DEF ChildOK
  <2>9. StopOK(c, r)'
    <3>1. pc'[c] = "exit" => stop'[c]
      BY <1>1, <2>1, <2>2 DEF StopOK
    <3>2. stop'[c] => task'[r].halt
      BY <1>1, <2>1 DEF StopOK
    <3>3. stop'[c] => Open(r)' \/ pc'[r] \in {"btop", "join", "gone", "exit"}
      <4> SUFFICES ASSUME stop'[c] PROVE Open(r)' \/ pc'[r] \in {"btop", "join", "gone", "exit"}
        OBVIOUS
      <4>1. Open(r) \/ pc[r] \in {"btop", "join", "gone", "exit"}
        BY <1>1, <2>1 DEF StopOK
      <4>2. pc'[r] = pc[r] \/ pc'[r] = "gone"
        BY <2>3, <4>1 DEF Open
      <4> QED
        BY <4>1, <4>2 DEF Open
    <3> QED
      BY <3>1, <3>2, <3>3 DEF StopOK
  <2> QED
    BY <2>8, <2>9
<1>7. Children' /\ Stops'
  BY <1>6 DEF Children, Stops, Workers
<1> QED
  BY <1>3, <1>5, <1>7

-----------------------------------------------------------------------------
(* Types.  A thread that leaves a barrier has one ahead of it less. *)

LEMMA LaunchesTask ==
  ASSUME TypeOK, NEW w \in Workers, RunStop(w) \/ \E b \in 0..MaxBarriers : Run(w, b)
  PROVE  \E t \in TaskType : t.job = started[w] + 1 /\ pc[w] = "out" /\ Launch(w, t)
<1>1. ASSUME NEW b \in Nat, NEW h \in BOOLEAN
      PROVE  /\ Task(started[w] + 1, b, h) \in TaskType
             /\ Task(started[w] + 1, b, h).job = started[w] + 1
  BY DEF TypeOK, Task, TaskType
<1>2. CASE RunStop(w)
  BY <1>1, <1>2 DEF RunStop
<1>3. CASE \E b \in 0..MaxBarriers : Run(w, b)
  <2>1. PICK b \in 0..MaxBarriers : Run(w, b)
    BY <1>3
  <2>2. b \in Nat
    BY KspinAssumption
  <2> QED
    BY <1>1, <2>1, <2>2 DEF Run
<1> QED
  BY <1>2, <1>3

LEMMA WorkerTypes ==
  ASSUME IInv, NEW w \in Workers,
         Working(w) \/ RunStop(w) \/ \E b \in 0..MaxBarriers : Run(w, b),
         TopDown(w) /\ pc[w] = "btop" => left[w] > 0
  PROVE  TypeOK'
<1>1. ver[w] \in 0..Wrap - 1 /\ Inc(ver[w]) \in 0..Wrap - 1 /\ Root(w) \in Workers
  BY IncType DEF IInv, TypeOK, Root
<1>2. cur[w].halt \in BOOLEAN /\ Kids(w) \in SUBSET Workers /\ task[Root(w)].barriers \in Nat
  BY <1>1 DEF IInv, TypeOK, TaskType, Kids
<1> USE DEF IInv, TypeOK, Goto, groupVars, spinVars, taskVars, Pcs
<1>3. CASE LoopEnds(w) \/ LoopRuns(w) \/ CallGroupFunc(w)
  BY <1>1, <1>3 DEF LoopEnds, LoopRuns, CallGroupFunc
<1>4. CASE TopDown(w)
  BY <1>1, <1>4 DEF TopDown
<1>5. CASE Fetch(w)
  BY <1>1, <1>2, <1>5 DEF Fetch
<1>6. CASE Barrier(w) \/ Await(w)
  BY <1>1, <1>2, <1>6 DEF Barrier, Await
<1>7. CASE Return(w)
  BY <1>1, <1>2, <1>7 DEF Return, StopSelf
<1>8. CASE BarrierUp(w) \/ RunUp(w)
  BY <1>1, <1>8 DEF BarrierUp, RunUp, StoreWord
<1>9. ASSUME NEW t \in TaskType, Launch(w, t) PROVE TypeOK'
  BY <1>1, <1>9 DEF Launch, TaskType
<1>10. CASE RunStop(w) \/ \E b \in 0..MaxBarriers : Run(w, b)
  BY <1>9, <1>10, LaunchesTask
<1> QED
  BY <1>3, <1>4, <1>5, <1>6, <1>7, <1>8, <1>10 DEF Working

LEMMA ManagingTypes == ASSUME IInv, Managing PROVE TypeOK'
<1>1. /\ UNCHANGED <<parent, ver, sync, todo, stop, task, cur, left, started>>
      /\ pc' \in [Workers -> Pcs]
  BY DEF IInv, TypeOK, Managing, StartThread, GroupCreated, Join, Goto, Pcs, groupVars, spinVars,
         taskVars
<1>2. used' \in 0..Total /\ size' \in 0..Total - used' /\ next' \in 0..used' + size'
  <2>1. used \in 0..Total /\ size \in 0..Total - used /\ next \in 0..used + size /\ Total \in Nat
    BY KspinAssumption DEF IInv, TypeOK
  <2>2. CASE StartThread
    BY <2>1, <2>2 DEF StartThread
  <2>3. CASE GroupCreated
    BY <2>1, <2>3 DEF GroupCreated
  <2>4. CASE Join
    BY <2>1, <2>4 DEF Join, groupVars
  <2> QED
    BY <2>2, <2>3, <2>4 DEF Managing
<1> QED
  BY <1>1, <1>2 DEF IInv, TypeOK

LEMMA CreateTypes == ASSUME IInv, NEW n \in GroupSizes, CreateGroup(n) PROVE TypeOK'
<1>1. n \in 1..Total /\ used \in 0..Total /\ used + n <= Total /\ used' = used
  BY KspinAssumption DEF CreateGroup, IInv, TypeOK
<1>2. parent' \in [Workers -> Workers \cup {None}]
  <2>1. \A w \in Workers : w \in used + 1..used + n - 1 => used \in Workers
    BY <1>1, KspinAssumption DEF Workers
  <2> QED
    BY <2>1 DEF CreateGroup, IInv, TypeOK
<1>3. size' \in 0..Total - used' /\ next' \in 0..used' + size' /\ used' \in 0..Total
  BY <1>1, KspinAssumption DEF CreateGroup
<1> QED
  BY <1>2, <1>3 DEF CreateGroup, IInv, TypeOK, Goto, spinVars, taskVars, Pcs

-----------------------------------------------------------------------------
(* The invariant. *)

LEMMA InitInv == Init => IInv
<1> SUFFICES ASSUME Init PROVE IInv
  OBVIOUS
<1>1. TypeOK
  <2>1. NoTask \in TaskType
    BY DEF NoTask, Task, TaskType
  <2>2. parent \in [Workers -> Workers \cup {None}]
    BY KspinAssumption DEF Init, Workers
  <2> QED
    BY <2>1, <2>2, KspinAssumption DEF Init, TypeOK, Pcs
<1>2. \A c \in Workers : /\ parent[c] # None => parent[c] = 0 /\ c # 0 /\ c < MainThreads
                         /\ pc[c] \in {"out", "loop", "unborn"}
                         /\ ver[c] = 0 /\ sync[c] = 0 /\ started[c] = 0 /\ stop[c] = FALSE
  BY KspinAssumption DEF Init, Workers
<1>3. Shape
  <2>1. /\ used = MainThreads /\ size = 0 /\ next = 0 /\ MainThreads \in 1..Total /\ pc[0] = "out"
        /\ 0 \in Workers /\ \A w \in Workers : w \in Nat /\ todo[w] = {}
    BY KspinAssumption DEF Init, Workers
  <2>2. \A w \in Workers : /\ pc[w] = "out" <=> w = 0
                           /\ pc[w] = "loop" <=> (w > 0 /\ w < MainThreads)
                           /\ pc[w] = "unborn" <=> w >= MainThreads
                           /\ parent[w] = IF w \in 1..MainThreads - 1 THEN 0 ELSE None
    BY <2>1 DEF Init
  <2> QED
    BY <1>2, <2>1, <2>2, KspinAssumption DEF Shape
<1>4. Roots
  BY <1>2 DEF Roots, RootOK
<1>5. Children /\ Stops
  <2> SUFFICES ASSUME NEW c \in Workers, NEW r \in Workers, parent[c] = r
               PROVE  ChildOK(c, r) /\ StopOK(c, r)
    BY DEF Children, Stops
  <2>1. pc[r] = "out" /\ pc[c] # "out"
    BY <1>2, KspinAssumption DEF Init, Workers
  <2> QED
    BY <1>2, <2>1 DEF ChildOK, StopOK, Open, WaitsToStart
<1> QED
  BY <1>1, <1>3, <1>4, <1>5 DEF IInv

LEMMA WorkerStep ==
  ASSUME IInv, NEW w \in Workers,
         Working(w) \/ RunStop(w) \/ \E b \in 0..MaxBarriers : Run(w, b)
  PROVE  IInv'
<1>1. Only(w)
  BY OnlyWorking DEF IInv
<1> DEFINE Rest == Shape' /\ Roots' /\ Children' /\ Stops'
<1>2. CASE TopDown(w)
  <2>1. Rest /\ (pc[w] = "btop" => left[w] > 0)
    BY <1>1, <1>2, TopDownRoot, TopDownChild, RootOrChild
  <2> QED
    BY <2>1, WorkerTypes DEF IInv
<1>3. CASE ~TopDown(w)
  <2>1. Rest
    <3>1. CASE LoopEnds(w) \/ LoopRuns(w)
      BY <1>1, <3>1, LoopStep
    <3>2. CASE Fetch(w)
      BY <1>1, <3>2, FetchStep
    <3>3. CASE Barrier(w) \/ Return(w)
      BY <1>1, <3>3, PartEnds
    <3>4. CASE Await(w)
      BY <1>1, <3>4, AwaitStep
    <3>5. CASE BarrierUp(w) \/ RunUp(w)
      BY <1>1, <3>5, UpRoot, UpChild, RootOrChild
    <3>6. CASE CallGroupFunc(w)
      BY <1>1, <3>6, CallStep
    <3>7. CASE RunStop(w) \/ \E b \in 0..MaxBarriers : Run(w, b)
      BY <1>1, <3>7, LaunchesTask, LaunchStep DEF IInv
    <3> QED
      BY <1>3, <3>1, <3>2, <3>3, <3>4, <3>5, <3>6, <3>7 DEF Working
  <2> QED
    BY <1>3, <2>1, WorkerTypes DEF IInv
<1> QED
  BY <1>2, <1>3

LEMMA StutterStep == IInv /\ UNCHANGED vars => IInv'
  BY DEF IInv, vars, groupVars, spinVars, taskVars, TypeOK, Shape, Roots, RootOK, Kids, Children,
         ChildOK, Stops, StopOK, Open, NotDone, Done, WaitsToStart, InFirst, InTask, Ahead, Inc

LEMMA NextInv == IInv /\ [Next]_vars => IInv'
<1> SUFFICES ASSUME IInv, [Next]_vars PROVE IInv'
  OBVIOUS
<1>1. CASE \E w \in Workers : \/ Working(w) \/ RunStop(w)
                              \/ \E b \in 0..MaxBarriers : Run(w, b)
  BY <1>1, WorkerStep
<1>2. CASE \E n \in GroupSizes : CreateGroup(n)
  BY <1>2, CreateStep, CreateTypes DEF IInv
<1>3. CASE Managing
  BY <1>3, ManagingStep, ManagingTypes DEF IInv
<1>4. CASE Gone \/ UNCHANGED vars
  BY <1>4, StutterStep DEF Gone
<1> QED
  BY <1>1, <1>2, <1>3, <1>4 DEF Next

\* The invariant holds in every reachable state.
THEOREM InvariantHolds == Spec => []IInv
  BY InitInv, NextInv, PTL DEF Spec

-----------------------------------------------------------------------------
(* What follows from it. *)

\* Every value stays in its type, the counters below the value they wrap at:
\* ++version of Worker::barrier and run is uint32_t arithmetic.
THEOREM TypeCorrect == Spec => []TypeOK
<1>1. IInv => TypeOK
  BY DEF IInv
<1> QED
  BY <1>1, InvariantHolds, PTL

\* A child that runs a task runs the part its root has opened.
LEMMA ChildInPart ==
  ASSUME IInv, NEW c \in Workers, NEW r \in Workers, parent[c] = r, pc[c] = "task"
  PROVE  /\ cur[c] = task[r] /\ left[c] = Ahead(r)
         /\ pc[r] = "task" => cur[r] = task[r] /\ left[r] = Ahead(r)
<1>1. ChildOK(c, r) /\ RootOK(r) /\ parent[r] = None
  BY Tree DEF IInv, Children, Roots
<1> QED
  BY <1>1 DEF ChildOK, WaitsToStart, NotDone, Done, InTask, RootOK, Ahead

\* Threads of one group that run a task at once run the same one, and the same
\* part of it between two barriers: Worker::barrier separates the parts.
THEOREM PartsCorrect == Spec => []PartsSeparated
<1>1. IInv => PartsSeparated
  <2> SUFFICES ASSUME IInv, NEW u \in Workers, NEW w \in Workers, Root(u) = Root(w),
                      pc[u] = "task", pc[w] = "task"
               PROVE  cur[u] = cur[w] /\ left[u] = left[w]
    BY DEF PartsSeparated
  <2>1. CASE parent[u] = None /\ parent[w] = None
    BY <2>1 DEF Root
  <2>2. CASE parent[u] # None /\ parent[w] # None
    <3>1. PICK r \in Workers : parent[u] = r
      BY <2>2, RootOrChild
    <3>2. parent[w] = r
      BY <2>2, <3>1 DEF Root
    <3> QED
      BY <3>1, <3>2, ChildInPart
  <2>3. CASE parent[u] # None /\ parent[w] = None
    <3>1. parent[u] = w
      BY <2>3 DEF Root
    <3> QED
      BY <3>1, ChildInPart
  <2>4. CASE parent[u] = None /\ parent[w] # None
    <3>1. parent[w] = u
      BY <2>4 DEF Root
    <3> QED
      BY <3>1, ChildInPart
  <2> QED
    BY <2>1, <2>2, <2>3, <2>4
<1> QED
  BY <1>1, InvariantHolds, PTL

\* No thread reads or runs a task after the run() that was given it, whose
\* caller owns the function, has returned.
THEOREM ScopeCorrect == Spec => []TaskInScope
<1>1. IInv => TaskInScope
  <2> SUFFICES ASSUME IInv, NEW w \in Workers
               PROVE  /\ pc[w] = "fetch" => Open(Root(w))
                      /\ pc[w] \in {"task", "bbottom", "btop", "bottom"} /\ parent[w] # None =>
                           /\ Open(parent[w]) \/ pc[parent[w]] = "btop"
                           /\ cur[w] = task[parent[w]]
    BY DEF TaskInScope, Open
  <2>1. CASE parent[w] = None
    BY <2>1 DEF Root, Open
  <2>2. CASE parent[w] # None
    <3>1. PICK r \in Workers : parent[w] = r
      BY <2>2, RootOrChild
    <3>2. ChildOK(w, r) /\ Root(w) = r
      BY <2>2, <3>1 DEF IInv, Children, Root
    <3> QED
      BY <3>1, <3>2 DEF ChildOK, WaitsToStart, NotDone, Done, InTask
  <2> QED
    BY <2>1, <2>2
<1> QED
  BY <1>1, InvariantHolds, PTL

\* When ThreadPool::run returns, every thread of the group has run the task.
THEOREM RunCorrect == Spec => []RunWaitsForAll
<1>1. IInv => RunWaitsForAll
  <2> SUFFICES ASSUME IInv, NEW w \in Workers, parent[w] # None,
                      pc[parent[w]] \in {"out", "create", "join", "gone", "exit"}
               PROVE  started[w] = started[parent[w]] /\ pc[w] \in {"unborn", "loop", "top", "exit"}
    BY DEF RunWaitsForAll
  <2>1. PICK r \in Workers : parent[w] = r
    BY RootOrChild
  <2>2. WaitsToStart(w, r) /\ started[w] \in Nat
    BY <2>1 DEF IInv, TypeOK, Children, ChildOK, Open
  <2> QED
    BY <2>1, <2>2 DEF WaitsToStart
<1> QED
  BY <1>1, InvariantHolds, PTL

=============================================================================
