-------------------------- MODULE OperatorDispatch --------------------------
(***************************************************************************)
(* AsyncRunMode of async_rt/runtime.py: a Python program calls operators on *)
(* tensors; the mode submits some of them to the runtime, runs others at     *)
(* once, and synchronises before the rest.  The runtime is not modelled      *)
(* again: it is RuntimeContract, which AsyncRuntime implements.              *)
(*                                                                          *)
(* A tensor is a TensorImpl: it names a storage, and copy_ makes it name     *)
(* another one.  What a storage holds is the number of the operator whose    *)
(* correct result it is, 0 if it holds anything else.  The same program run  *)
(* eagerly is followed beside it: there a tensor names a cell for ever, and  *)
(* val is what the cell holds.                                               *)
(***************************************************************************)
EXTENDS Integers, Sequences, FiniteSets, FiniteSetsExt

CONSTANTS
  Tensors,   \* bound: the tensors that exist at a time, positive numbers
  Storages,  \* bound: the storages the allocator can hand out, positive numbers
  MaxOps,    \* bound: number of the last operator the program calls
  Python     \* the thread of the program

Weight == 1                       \* the tensor that has a state byte
Input  == 2                       \* the program's input

ASSUME DispatchAssumption ==
  /\ Tensors \subseteq Nat \ {0} /\ Storages \subseteq Nat \ {0}
  /\ {Weight, Input} \subseteq Tensors /\ {Weight, Input} \subseteq Storages
  /\ MaxOps \in Nat /\ MaxOps >= 2

VARIABLES
  accepted, finished, error, call, since,  \* the runtime, see RuntimeContract
  q,        \* the tasks whose closures exist, the oldest first
  wpc,      \* the worker: "idle", "run", "drop" (the closure of the task that ended)
  right,    \* history: the worker's task has read what the eager run reads
  mode,     \* AsyncRunMode.mode_enable
  pc,       \* the program: "py", "submit", "sync", "direct", "join", "failed", "stopped"
  todo,     \* the operator being dispatched, its inputs and its output
  py,       \* the tensors Python refers to
  st,       \* the storage of a tensor
  mem,      \* what a storage holds
  arrived,  \* the weight's state byte is 1
  ready,    \* a tensor's ready_event: the task that marks it, 0 if it has none
  ops,      \* history: operators called so far
  cell,     \* the eager run: the cell of a tensor
  val,      \* the eager run: what a cell holds
  strayed   \* history: uses of a tensor for which nothing is promised

runtimeVars == <<accepted, finished, error, call, since>>
workerVars  == <<q, wpc, right>>
heapVars    == <<st, mem>>
eagerVars   == <<cell, val>>
vars == <<runtimeVars, workerVars, mode, pc, todo, py, heapVars, arrived, ready,
          ops, eagerVars, strayed>>

Runtime == INSTANCE RuntimeContract WITH Clients <- {Python}

-----------------------------------------------------------------------------
(* A closure captures either a tensor itself, or its detach(): another       *)
(* TensorImpl, which keeps the storage of that moment.                        *)

Raw(t)      == [t |-> t, s |-> 0]
Detached(t) == [t |-> 0, s |-> st[t]]
Operand     == [t : Tensors, s : {0}] \cup [t : {0}, s : Storages]

Where(o) == IF o.t # 0 THEN st[o.t] ELSE o.s

\* Of an operator: what it reads, with the number an eager run finds there, what
\* it writes, and its own number.
Compute(ins, outs, n) == [kind |-> "op", ins |-> ins, outs |-> outs, n |-> n]
Mark(kind) == [kind |-> kind, ins |-> <<>>, outs |-> {}, n |-> 0]
Event == Mark("event")
Ready == Mark("ready")

\* The tasks not yet run to their end.
Ahead == {i \in DOMAIN q : ~(i = 1 /\ wpc = "drop")}

Operands(task) == DOMAIN task.ins \cup task.outs
Captured == UNION {Operands(q[i]) : i \in DOMAIN q}
Kept     == py \cup ({o.t : o \in Captured} \ {0})
HeldByPython == {st[t] : t \in py}
Held     == {st[t] : t \in Kept} \cup {Where(o) : o \in Captured}
            \cup (IF arrived THEN {} ELSE {Weight})   \* kept by who gathers it

\* The allocator: any block nobody holds; which one makes no difference.
FreeTensors  == Tensors \ Kept
FreeStorages == Storages \ Held

\* A tensor the program may read: the eager run has put something there.
Defined == {t \in py : val[cell[t]] # 0}

\* bound: an operator reads one of the program's tensors, beside its own output.
InputSets == {{t} : t \in Defined}

-----------------------------------------------------------------------------
(* Uses for which the program cannot expect what an eager run gives.          *)

\* The weight, by an operator that neither waits for its state byte nor comes
\* behind one that does.
NotThere(T) == /\ ~arrived /\ \E t \in T : cell[t] = 0
               /\ \A i \in Ahead : q[i].kind # "event"

\* Written, while copy_ has made another tensor share its storage.
Shared(t) == \E u \in py : st[u] = st[t] /\ cell[u] # cell[t]

\* Re-pointed by copy_, although another tensor is a view of the same memory, or
\* although a task not yet run has captured the tensor itself.
Viewed(t) == \E u \in py \ {t} : cell[u] = cell[t]
Pending(t) == \E i \in Ahead : \E o \in Operands(q[i]) : o.t = t

Strays(ins, outs) ==
  (IF NotThere(ins \cup outs) THEN {"weight"} ELSE {}) \cup
  (IF \E t \in outs : Shared(t) THEN {"alias"} ELSE {})

-----------------------------------------------------------------------------
Nothing == [ins |-> {}, outs |-> {}]

Init ==
  /\ Runtime!Init
  /\ q = <<>> /\ wpc = "idle" /\ right = TRUE
  /\ mode = FALSE /\ pc = "py" /\ todo = Nothing
  /\ py = {Weight, Input}
  /\ st = [t \in Tensors |-> IF t \in py THEN t ELSE 0]
  /\ mem = [s \in Storages |-> IF s = Input THEN 1 ELSE 0]
  /\ arrived = FALSE
  /\ ready = [t \in Tensors |-> 0]
  /\ ops = 2
  /\ cell = [t \in Tensors |-> IF t = Weight THEN 0 ELSE 1]
  /\ val = [c \in 0..MaxOps |-> IF c = 0 THEN 2 ELSE IF c = 1 THEN 1 ELSE 0]
  /\ strayed = {}

\* A tensor that neither Python nor a closure refers to is gone.
Forget(f, kept) == [t \in Tensors |-> IF t \in kept THEN f[t] ELSE 0]
Leak == UNCHANGED <<st, ready, cell, mem>>
Free == /\ st' = Forget(st, Kept') /\ ready' = Forget(ready, Kept')
        /\ cell' = Forget(cell, Kept')
        /\ mem' = [s \in Storages |-> IF s \in Held' THEN mem[s] ELSE 0]

\* The program calls its next operator; it stops where nothing is promised.
Calls == /\ pc = "py" /\ ops < MaxOps /\ strayed = {}
         /\ ops' = ops + 1

\* enqueue rethrows the first exception, which ends the program, or accepts.
Rethrows  == error # 0 /\ pc' = "failed" /\ UNCHANGED <<runtimeVars, q>>
Push(task) == error = 0 /\ q' = Append(q, task) /\ Runtime!Accept

\* torch.empty and the like: a new tensor on a storage that nothing holds.
NewTensor(t, content) ==
  LET s == Min(FreeStorages)
  IN  /\ FreeStorages # {} /\ t = Min(FreeTensors)
      /\ st' = [st EXCEPT ![t] = s]
      /\ mem' = [mem EXCEPT ![s] = content]
      /\ ready' = [ready EXCEPT ![t] = 0]
      /\ py' = py \cup {t}
      /\ cell' = [cell EXCEPT ![t] = ops']

-----------------------------------------------------------------------------
(* Operators of ACCELERATE_OPS while the mode is on. *)

\* With an output of their own.  tanh, broadcast add and mul, add of a number and
\* _to_copy capture detached tensors; add and mul of equal shapes capture the
\* tensors themselves; sum, cat and full capture their inputs themselves and an
\* output of which Python gets a detach().
Forms == {"detached", "fast", "made"}
CaptureIn(form, t)  == IF form = "detached" THEN Detached(t) ELSE Raw(t)
Expect(form, T) ==
  [o \in {CaptureIn(form, t) : t \in T} |->
     val[cell[CHOOSE t \in T : CaptureIn(form, t) = o]]]
NewOutput(form, t, s) == IF form = "fast" THEN Raw(t) ELSE [t |-> 0, s |-> s]

SubmitNew(form, ins) ==
  /\ Calls /\ mode
  /\ \/ /\ Rethrows
        /\ UNCHANGED <<py, heapVars, ready, eagerVars>>
     \/ /\ \E t \in FreeTensors :
             /\ NewTensor(t, 0)
             /\ Push(Compute(Expect(form, ins), {NewOutput(form, t, st'[t])}, ops'))
        /\ val' = [val EXCEPT ![ops'] = ops']
        /\ UNCHANGED pc
  /\ strayed' = Strays(ins, {})
  /\ UNCHANGED <<wpc, right, mode, todo, arrived>>

\* With the caller's output: linear, rope, silu and rmsnorm of both directions,
\* tanh_backward, ring attention and add_, which also reads its output.
PushInto(ins, out) ==
  /\ Push(Compute(Expect("fast", ins), {Raw(out)}, ops'))
  /\ val' = [val EXCEPT ![cell[out]] = ops']
  /\ pc' = "py"

SubmitInto(ins, out) ==
  /\ Calls /\ mode
  /\ \/ Rethrows /\ UNCHANGED val
     \/ PushInto(ins, out)
  /\ strayed' = Strays(ins, {out})
  /\ UNCHANGED <<wpc, right, mode, todo, py, heapVars, arrived, ready, cell>>

\* linear and rmsnorm forward with a weight that has a state byte: its poll first.
SubmitEvent(ins, out) ==
  /\ Calls /\ mode /\ Weight \in ins
  /\ \/ Rethrows /\ UNCHANGED todo
     \/ /\ Push(Event)
        /\ todo' = [ins |-> ins, outs |-> {out}]
        /\ pc' = "submit"
  /\ strayed' = Strays({}, {out})
  /\ UNCHANGED <<wpc, right, mode, py, heapVars, arrived, ready, eagerVars>>

SubmitRest ==
  /\ pc = "submit"
  /\ ops' = ops
  /\ \/ Rethrows /\ UNCHANGED val
     \/ \E out \in todo.outs : PushInto(todo.ins, out)
  /\ todo' = Nothing
  /\ UNCHANGED <<wpc, right, mode, py, heapVars, arrived, ready, cell, strayed>>

\* The task that marks the handle is the one submitted, not the one in turn.
InTurn == accepted - Len(q) + 1
Marker == accepted'

\* copy_: the destination names the source's storage at once; the task submitted
\* then only marks its ready_event.
Copy(dst, src) ==
  /\ Calls /\ mode /\ dst # src
  /\ st' = [st EXCEPT ![dst] = st[src]]
  /\ \/ Rethrows /\ UNCHANGED ready
     \/ /\ Push(Ready)
        /\ ready' = [ready EXCEPT ![dst] = Marker]
        /\ UNCHANGED pc
  /\ val' = [val EXCEPT ![cell[dst]] = val[cell[src]]]
  /\ strayed' = Strays({src, dst}, {}) \cup
       (IF Viewed(dst) THEN {"view"} ELSE {}) \cup
       (IF Pending(dst) THEN {"pending"} ELSE {})
  /\ UNCHANGED <<wpc, right, mode, todo, py, mem, arrived, cell>>

-----------------------------------------------------------------------------
(* Operators of NO_SYNC_OPS, which run at once. *)

View(t) ==
  /\ Calls /\ FreeTensors # {}
  /\ LET u == Min(FreeTensors)
     IN  /\ st' = [st EXCEPT ![u] = st[t]]
         /\ cell' = [cell EXCEPT ![u] = cell[t]]
         /\ ready' = [ready EXCEPT ![u] = 0]
         /\ py' = py \cup {u}
  /\ UNCHANGED <<runtimeVars, workerVars, mode, pc, todo, mem, arrived, val, strayed>>

\* zeros, ones: written at once.  empty: not written.
Create(written) ==
  /\ Calls
  /\ \E t \in FreeTensors : NewTensor(t, IF written THEN ops' ELSE 0)
  /\ val' = [val EXCEPT ![ops'] = IF written THEN ops' ELSE 0]
  /\ UNCHANGED <<runtimeVars, workerVars, mode, pc, todo, arrived, strayed>>

-----------------------------------------------------------------------------
(* Everything else: synchronise, then call. *)

NeverSync == FALSE
NeedsSync == mode

Direct(ins, outs) ==
  /\ Calls
  /\ todo' = [ins |-> ins, outs |-> outs]
  /\ IF NeedsSync THEN pc' = "sync" /\ Runtime!SyncCall(Python)
                  ELSE pc' = "direct" /\ UNCHANGED runtimeVars
  /\ strayed' = Strays(ins, outs)
  /\ UNCHANGED <<workerVars, mode, py, heapVars, arrived, ready, eagerVars>>

Synced ==
  /\ pc = "sync" /\ Runtime!SyncOk(Python)
  /\ pc' = "direct"
  /\ UNCHANGED <<workerVars, mode, todo, py, heapVars, arrived, ready, ops, eagerVars, strayed>>

SyncRaises ==
  /\ pc = "sync" /\ Runtime!SyncError(Python)
  /\ pc' = "failed"
  /\ UNCHANGED <<workerVars, mode, todo, py, heapVars, arrived, ready, ops, eagerVars, strayed>>

Content(t) == mem[st[t]]
Eager(t)   == val[cell[t]]

DirectRuns ==
  /\ pc = "direct"
  /\ \/ call[Python] = "ok" /\ Runtime!SyncEnd(Python)
     \/ call[Python] = "none" /\ UNCHANGED runtimeVars
  /\ mem' = [s \in Storages |->
       IF \E t \in todo.outs : st[t] = s
       THEN IF \A t \in todo.ins : Content(t) = Eager(t) THEN ops ELSE 0
       ELSE mem[s]]
  /\ val' = [c \in DOMAIN val |-> IF \E t \in todo.outs : cell[t] = c THEN ops ELSE val[c]]
  /\ todo' = Nothing
  /\ pc' = "py"
  /\ UNCHANGED <<workerVars, mode, py, st, arrived, ready, ops, cell, strayed>>

\* AsyncModeStart and AsyncModeEnd, and the backward of each other; AsyncSync (with
\* the mode off it finds everything finished and does nothing).
ModeOn ==
  /\ pc = "py" /\ ~mode
  /\ mode' = TRUE
  /\ UNCHANGED <<runtimeVars, workerVars, pc, todo, py, heapVars, arrived, ready,
                 ops, eagerVars, strayed>>

SyncWith(m) ==
  /\ pc = "py" /\ mode /\ mode' = m
  /\ pc' = "sync" /\ Runtime!SyncCall(Python)
  /\ UNCHANGED <<workerVars, todo, py, heapVars, arrived, ready, ops, eagerVars, strayed>>

ModeOff   == SyncWith(FALSE)
AsyncSync == SyncWith(TRUE)

\* Python forgets a tensor (bound: not after its last operator).
Drop(t) ==
  /\ pc = "py" /\ ops < MaxOps
  /\ py' = py \ {t}
  /\ UNCHANGED <<q, arrived>> /\ Free
  /\ UNCHANGED <<runtimeVars, wpc, right, mode, pc, todo, ops, val, strayed>>

-----------------------------------------------------------------------------
(* The worker.  Its task reads when it starts and writes when it ends. *)

Turn == accepted - Len(q) + 1

Passes(task)   == TRUE
Passable(task) == task.kind = "event" => arrived

TaskStarts ==
  /\ wpc = "idle" /\ q # <<>> /\ Passable(Head(q))
  /\ right' = \A o \in DOMAIN Head(q).ins : mem[Where(o)] = Head(q).ins[o]
  /\ wpc' = "run"
  /\ UNCHANGED <<runtimeVars, q, mode, pc, todo, py, heapVars, arrived, ready,
                 ops, eagerVars, strayed>>

Write(content) ==
  mem' = [s \in Storages |-> IF \E o \in Head(q).outs : Where(o) = s THEN content ELSE mem[s]]

TaskEnds ==
  /\ wpc = "run"
  /\ Runtime!Finish(Turn) /\ error' = error
  /\ Write(IF right THEN Head(q).n ELSE 0)
  /\ wpc' = "drop"
  /\ UNCHANGED <<q, right, mode, pc, todo, py, st, arrived, ready, ops, eagerVars, strayed>>

\* bound: one failure, since a second one changes nothing that anybody reads.
TaskThrows ==
  /\ wpc = "run" /\ Head(q).kind # "ready" /\ error = 0
  /\ Runtime!Finish(Turn) /\ error' = Turn
  /\ Write(0)
  /\ wpc' = "drop"
  /\ UNCHANGED <<q, right, mode, pc, todo, py, st, arrived, ready, ops, eagerVars, strayed>>

\* The closure dies with its tensors.  For a tensor that Python refers to no more,
\* or never knew but through a temporary, PyTorch takes the GIL; shutdown() joins
\* the worker with the GIL in its hands.
NeedsGil(task) == \E o \in Operands(task) : o.t \notin py

GilFree(task)  == pc = "join" => ~NeedsGil(task)

TaskDropped ==
  /\ wpc = "drop"
  /\ GilFree(Head(q))
  /\ q' = Tail(q)
  /\ wpc' = "idle"
  /\ UNCHANGED <<py, arrived>> /\ Free
  /\ UNCHANGED <<runtimeVars, right, mode, pc, todo, ops, val, strayed>>

\* External: the gathered weight is stored, then its state byte is set to 1.
Arrive ==
  /\ ~arrived /\ arrived' = TRUE
  /\ mem' = [mem EXCEPT ![Weight] = 2]
  /\ UNCHANGED <<runtimeVars, workerVars, mode, pc, todo, py, st, ready, ops, eagerVars, strayed>>

Shutdown ==
  /\ pc = "py" /\ pc' = "join"
  /\ UNCHANGED <<runtimeVars, workerVars, mode, todo, py, heapVars, arrived, ready,
                 ops, eagerVars, strayed>>

Joined ==
  /\ pc = "join" /\ q = <<>> /\ pc' = "stopped"
  /\ UNCHANGED <<runtimeVars, workerVars, mode, todo, py, heapVars, arrived, ready,
                 ops, eagerVars, strayed>>

-----------------------------------------------------------------------------
Program ==
  \/ \E form \in Forms, ins \in InputSets : SubmitNew(form, ins)
  \/ SubmitNew("made", {})
  \/ \E ins \in InputSets, out \in py : SubmitInto(ins, out) \/ SubmitEvent(ins, out)
  \/ \E dst \in py, src \in Defined : Copy(dst, src)
  \/ \E t \in py : View(t)
  \/ \E t \in py \ {Weight} : Drop(t)            \* a module keeps its weights
  \/ \E written \in BOOLEAN : Create(written)
  \/ \E t \in Defined : Direct({t}, {}) \/ \E out \in py : Direct({t}, {out})
  \/ ModeOn \/ ModeOff \/ AsyncSync \/ Shutdown

Continues == SubmitRest \/ Synced \/ SyncRaises \/ DirectRuns \/ Joined
Worker    == TaskStarts \/ TaskEnds \/ TaskDropped

Next == Program \/ Continues \/ Worker \/ TaskThrows \/ Arrive

Spec == Init /\ [][Next]_vars

-----------------------------------------------------------------------------
TypeOK ==
  /\ accepted \in Nat /\ finished \subseteq Nat /\ error \in Nat
  /\ call \in [{Python} -> {"none", "sync", "ok", "error"}] /\ since \in [{Python} -> Nat]
  /\ \A i \in DOMAIN q :
       /\ q[i].kind \in {"op", "event", "ready"} /\ q[i].n \in 0..MaxOps
       /\ Operands(q[i]) \subseteq Operand
       /\ \A o \in DOMAIN q[i].ins : q[i].ins[o] \in 0..MaxOps
  /\ wpc \in {"idle", "run", "drop"} /\ right \in BOOLEAN /\ mode \in BOOLEAN
  /\ pc \in {"py", "submit", "sync", "direct", "join", "failed", "stopped"}
  /\ todo \in [ins : SUBSET Tensors, outs : SUBSET Tensors]
  /\ py \subseteq Tensors /\ st \in [Tensors -> Storages \cup {0}]
  /\ mem \in [Storages -> 0..MaxOps] /\ arrived \in BOOLEAN
  /\ ready \in [Tensors -> Nat] /\ ops \in 0..MaxOps
  /\ cell \in [Tensors -> 0..MaxOps] /\ val \in [0..MaxOps -> 0..MaxOps]
  /\ strayed \subseteq {"weight", "alias", "view", "pending"}
  /\ \A t \in Tensors : st[t] # 0 <=> t \in Kept   \* no tensor leaks

AsPromised == strayed = {} /\ error = 0

\* An operator that the mode does not queue finds what it would find if every
\* operator before it had run when it was called (runtime.py 224-227).
SeesEager == pc = "direct" /\ strayed = {} => \A t \in todo.ins : Content(t) = Eager(t)

\* So does a queued operator when its turn comes: earlier results are there, its
\* weight has arrived, and nobody has written or recycled what it captured.
TaskSeesEager == wpc = "run" /\ AsPromised => right

\* When every task has run, each tensor of the program holds what eager execution
\* would have put there, those that no operator has looked at included.
SettlesEager ==
  finished = 1..accepted /\ AsPromised =>
    \A t \in Defined : (cell[t] # 0 \/ arrived) => Content(t) = Eager(t)

\* Once the ready_event of a copy_ is set the copy can be read, unless an operator
\* called later is still to write there.
ReadyIsReady ==
  AsPromised => \A t \in Defined : ready[t] \in finished =>
    \/ Content(t) = Eager(t)
    \/ \E i \in Ahead : \E o \in q[i].outs : Where(o) = st[t]
=============================================================================
