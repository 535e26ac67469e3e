----------------------- MODULE OperatorDispatchProofs -----------------------
(***************************************************************************)
(* Theorems about OperatorDispatch, for every number of tensors, storages    *)
(* and operators.  The first half shows the types, with what ties the heap,   *)
(* the counters and the program counter together (Typed).  The second half    *)
(* is about what storages hold.  Only what they will hold once the tasks in   *)
(* front have run can be invariant: Leaves says it, Memory says it of every   *)
(* tensor of the program and of every input of a waiting task, and each       *)
(* action has a lemma that keeps it.                                          *)
(***************************************************************************)
EXTENDS OperatorDispatch, WellFoundedInduction, TLAPS

Task == [kind : {"op", "event", "ready"},
         ins  : UNION {[D -> 0..MaxOps] : D \in SUBSET Operand},
         outs : SUBSET Operand, n : 0..MaxOps]

\* TypeOK in two parts: what the operators' steps leave alone, and the heap.
Scalars ==
  /\ accepted \in Nat /\ finished \subseteq Nat /\ error \in Nat
  /\ call \in [{Python} -> {"none", "sync", "ok", "error"}] /\ since \in [{Python} -> Nat]
  /\ wpc \in {"idle", "run", "drop"} /\ right \in BOOLEAN /\ mode \in BOOLEAN
  /\ pc \in {"py", "submit", "sync", "direct", "join", "failed", "stopped"}
  /\ todo \in [ins : SUBSET Tensors, outs : SUBSET Tensors]
  /\ arrived \in BOOLEAN /\ ops \in 0..MaxOps
  /\ strayed \subseteq {"weight", "alias", "view", "pending"}

Heap ==
  /\ q \in Seq(Task) /\ py \subseteq Tensors
  /\ st \in [Tensors -> Storages \cup {0}] /\ mem \in [Storages -> 0..MaxOps]
  /\ ready \in [Tensors -> Nat]
  /\ cell \in [Tensors -> 0..MaxOps] /\ val \in [0..MaxOps -> 0..MaxOps]
  /\ \A t \in Tensors : st[t] # 0 <=> t \in Kept

-----------------------------------------------------------------------------
\* The least of some numbers is one of them.
LEMMA Least ==
  ASSUME NEW T \in SUBSET Nat, T # {}
  PROVE  Min(T) \in T
<1> DEFINE R == OpToRel(<, Nat)
<1>1. IsWellFoundedOn(R, Nat)
  BY NatLessThanWellFounded
<1>2. ASSUME NEW x \in Nat, NEW y \in Nat, <<y, x>> \notin R
      PROVE  x <= y
  BY <1>2 DEF OpToRel
<1> HIDE DEF R
<1>3. \E x \in T : \A y \in T : ~ (<<y, x>> \in R)
  BY <1>1, WFMin
<1>4. \E x \in T : \A y \in T : x <= y
  BY <1>2, <1>3
<1> QED
  BY <1>4 DEF Min

\* What a task is made of.
LEMMA TaskFacts ==
  ASSUME NEW task \in Task
  PROVE  /\ task.kind \in {"op", "event", "ready"} /\ task.n \in 0..MaxOps
         /\ Operands(task) \subseteq Operand
         /\ \A o \in DOMAIN task.ins : task.ins[o] \in 0..MaxOps
<1>1. PICK D \in SUBSET Operand : task.ins \in [D -> 0..MaxOps]
  BY DEF Task
<1> QED
  BY <1>1 DEF Task, Operands

\* What the tasks of a queue are made of.
LEMMA TasksTyped ==
  ASSUME NEW Q \in Seq(Task)
  PROVE  \A i \in DOMAIN Q :
       /\ Q[i].kind \in {"op", "event", "ready"} /\ Q[i].n \in 0..MaxOps
       /\ Operands(Q[i]) \subseteq Operand
       /\ \A o \in DOMAIN Q[i].ins : Q[i].ins[o] \in 0..MaxOps
<1>1. \A i \in DOMAIN Q : Q[i] \in Task
  OBVIOUS
<1> QED
  BY <1>1, TaskFacts

\* What the closures of a queue capture.
CapturedBy(Q) == UNION {Operands(Q[i]) : i \in DOMAIN Q}

KeptBy(P, Q) == P \cup ({o.t : o \in CapturedBy(Q)} \ {0})

\* The storage of an operand, where S gives a tensor's storage.
At(S, o) == IF o.t # 0 THEN S[o.t] ELSE o.s

\* A new closure adds its own operands to what is captured.
LEMMA AppendCaptures ==
  ASSUME NEW Q \in Seq(Task), NEW task \in Task
  PROVE  CapturedBy(Append(Q, task)) = CapturedBy(Q) \cup Operands(task)
<1> DEFINE A == Append(Q, task)
<1>1. /\ DOMAIN A = DOMAIN Q \cup {Len(Q) + 1}
      /\ \A i \in DOMAIN Q : A[i] = Q[i]
      /\ A[Len(Q) + 1] = task
  OBVIOUS
<1> HIDE DEF A
<1>2. ASSUME NEW o PROVE o \in CapturedBy(A) <=> o \in CapturedBy(Q) \cup Operands(task)
  BY <1>1 DEF CapturedBy
<1> QED
  BY <1>2 DEF A

\* The oldest closure takes its own operands with it.
LEMMA TailCaptures ==
  ASSUME NEW Q \in Seq(Task), Q # <<>>
  PROVE  CapturedBy(Q) = Operands(Head(Q)) \cup CapturedBy(Tail(Q))
<1> DEFINE A == Tail(Q)
<1>1. /\ DOMAIN A = 1..(Len(Q) - 1) /\ DOMAIN Q = 1..Len(Q) /\ Len(Q) \in Nat \ {0}
      /\ \A i \in DOMAIN A : A[i] = Q[i + 1]
      /\ Head(Q) = Q[1]
  OBVIOUS
<1> HIDE DEF A
<1>2. ASSUME NEW o PROVE o \in CapturedBy(Q) => o \in Operands(Head(Q)) \cup CapturedBy(A)
  <2>1. SUFFICES ASSUME NEW i \in DOMAIN Q, i # 1, o \in Operands(Q[i])
                 PROVE  o \in CapturedBy(A)
    BY <1>1 DEF CapturedBy
  <2>2. i - 1 \in DOMAIN A /\ A[i - 1] = Q[i]
    BY <1>1, <2>1
  <2> QED
    BY <2>1, <2>2 DEF CapturedBy
<1>3. ASSUME NEW o PROVE o \in Operands(Head(Q)) \cup CapturedBy(A) => o \in CapturedBy(Q)
  <2>1. \A i \in DOMAIN A : i + 1 \in DOMAIN Q
    BY <1>1
  <2> QED
    BY <1>1, <2>1 DEF CapturedBy
<1> QED
  BY <1>2, <1>3 DEF A

\* The tensors kept, as a function of Python's references and the queue.
LEMMA KeptIs == Kept = KeptBy(py, q)
  BY DEF Kept, Captured, KeptBy, CapturedBy

\* The two parts make up TypeOK.
LEMMA TypesFollow == Scalars /\ Heap => TypeOK
  BY TasksTyped DEF Scalars, Heap, TypeOK

\* A tensor that exists has a storage.
LEMMA KeptHasStorage ==
  ASSUME Scalars, Heap
  PROVE  /\ py \subseteq Kept /\ Kept \subseteq Tensors
         /\ \A t \in Kept : st[t] \in Storages
         /\ Captured \subseteq Operand
         /\ \A o \in Captured : At(st, o) \in Storages /\ (o.t # 0 => o.t \in Kept)
<1>1. Captured \subseteq Operand
  BY TasksTyped DEF Heap, Captured
<1>2. py \subseteq Kept /\ Kept \subseteq Tensors
  BY <1>1 DEF Kept, Heap, Operand
<1>3. \A t \in Kept : st[t] \in Storages
  BY <1>2 DEF Heap
<1>4. \A o \in Captured : o.t # 0 => o.t \in Kept
  BY DEF Kept
<1>5. ASSUME NEW o \in Captured PROVE At(st, o) \in Storages
  <2>1. CASE o.t # 0
    BY <1>3, <1>4, <2>1 DEF At
  <2>2. CASE o.t = 0
    <3>1. o \notin [t : Tensors, s : {0}]
      BY <2>2, DispatchAssumption
    <3>2. o \in [t : {0}, s : Storages]
      BY <1>1, <3>1 DEF Operand
    <3> QED
      BY <2>2, <3>2 DEF At
  <2> QED
    BY <2>1, <2>2
<1> QED
  BY <1>1, <1>2, <1>3, <1>4, <1>5

-----------------------------------------------------------------------------
\* The scalars at the start.
LEMMA InitScalars == Init => Scalars
<1> SUFFICES ASSUME Init PROVE Scalars
  OBVIOUS
<1>1. accepted = 0 /\ finished = {} /\ error = 0
      /\ call = [c \in {Python} |-> "none"] /\ since = [c \in {Python} |-> 0]
  BY DEF Init, Runtime!Init
<1>2. wpc = "idle" /\ right = TRUE /\ mode = FALSE /\ pc = "py" /\ todo = Nothing
      /\ arrived = FALSE /\ ops = 2 /\ strayed = {}
  BY DEF Init
<1>3. Nothing \in [ins : SUBSET Tensors, outs : SUBSET Tensors]
  BY DEF Nothing
<1>4. /\ accepted \in Nat /\ finished \subseteq Nat /\ error \in Nat
      /\ call \in [{Python} -> {"none", "sync", "ok", "error"}] /\ since \in [{Python} -> Nat]
  BY <1>1
<1>5. ops \in 0..MaxOps
  BY <1>2, DispatchAssumption
<1>6. strayed \subseteq {"weight", "alias", "view", "pending"}
  BY <1>2
<1>7. right \in BOOLEAN /\ mode \in BOOLEAN /\ arrived \in BOOLEAN
  BY <1>2
<1>8. wpc \in {"idle", "run", "drop"}
      /\ pc \in {"py", "submit", "sync", "direct", "join", "failed", "stopped"}
  BY <1>2
<1> QED
  BY <1>2, <1>3, <1>4, <1>5, <1>6, <1>7, <1>8 DEF Scalars

\* The program's steps that go on with an operator, and those of the others.
LEMMA ScalarsPreserved ==
  ASSUME Scalars, Heap, Next
  PROVE  Scalars'
<1> USE DispatchAssumption DEF Scalars
<1> DEFINE Strayed == {"weight", "alias", "view", "pending"}
<1>1. \A ins, outs : Strays(ins, outs) \subseteq Strayed
  BY DEF Strays
<1>2. Calls => ops' \in 0..MaxOps /\ pc = "py"
  BY DEF Calls
<1>3. Rethrows => /\ pc' = "failed"
                  /\ UNCHANGED <<accepted, finished, error, call, since>>
  BY DEF Rethrows, runtimeVars
<1>4. \A task : Push(task) => /\ accepted' \in Nat
                              /\ UNCHANGED <<finished, error, call, since>>
  BY DEF Push, Runtime!Accept
<1>5. ASSUME NEW form, NEW ins, SubmitNew(form, ins) PROVE Scalars'
  BY <1>1, <1>2, <1>3, <1>4, <1>5 DEF SubmitNew
<1>6. ASSUME NEW ins, NEW out, PushInto(ins, out)
      PROVE  pc' = "py" /\ accepted' \in Nat /\ UNCHANGED <<finished, error, call, since>>
  BY <1>4, <1>6 DEF PushInto
<1>7. ASSUME NEW ins, NEW out, SubmitInto(ins, out) PROVE Scalars'
  BY <1>1, <1>2, <1>3, <1>6, <1>7 DEF SubmitInto
<1>8. ASSUME NEW ins \in SUBSET Tensors, NEW out \in Tensors, SubmitEvent(ins, out) PROVE Scalars'
  <2>1. todo' \in [ins : SUBSET Tensors, outs : SUBSET Tensors]
    <3>1. [ins |-> ins, outs |-> {out}] \in [ins : SUBSET Tensors, outs : SUBSET Tensors]
      OBVIOUS
    <3>2. todo' = todo \/ todo' = [ins |-> ins, outs |-> {out}]
      BY <1>8 DEF SubmitEvent
    <3> QED
      BY <3>1, <3>2
  <2> QED
    BY <2>1, <1>1, <1>2, <1>3, <1>4, <1>8 DEF SubmitEvent
<1>9. ASSUME SubmitRest PROVE Scalars'
  BY <1>3, <1>6, <1>9 DEF SubmitRest, Nothing
<1>10. ASSUME NEW dst, NEW src, Copy(dst, src) PROVE Scalars'
  BY <1>1, <1>2, <1>3, <1>4, <1>10 DEF Copy
<1>11. ASSUME NEW t, View(t) PROVE Scalars'
  BY <1>2, <1>11 DEF View, runtimeVars, workerVars
<1>12. ASSUME NEW t, Drop(t) PROVE Scalars'
  BY <1>12 DEF Drop, runtimeVars
<1>13. ASSUME NEW written, Create(written) PROVE Scalars'
  BY <1>2, <1>13 DEF Create, runtimeVars, workerVars
<1>14. ASSUME NEW c \in {"sync", "ok", "error", "none"}, call' = [call EXCEPT ![Python] = c]
       PROVE  call' \in [{Python} -> {"none", "sync", "ok", "error"}]
  BY <1>14
<1>15. Runtime!SyncCall(Python) =>
         /\ UNCHANGED <<accepted, finished, error>> /\ since' \in [{Python} -> Nat]
         /\ call' \in [{Python} -> {"none", "sync", "ok", "error"}]
  BY <1>14 DEF Runtime!SyncCall
<1>16. Runtime!SyncOk(Python) \/ Runtime!SyncError(Python) \/ Runtime!SyncEnd(Python) =>
         /\ UNCHANGED <<accepted, finished, error, since>>
         /\ call' \in [{Python} -> {"none", "sync", "ok", "error"}]
  BY <1>14 DEF Runtime!SyncOk, Runtime!SyncError, Runtime!SyncEnd
<1>17. ASSUME NEW ins \in SUBSET Tensors, NEW outs \in SUBSET Tensors, Direct(ins, outs)
       PROVE  Scalars'
  BY <1>1, <1>2, <1>15, <1>17 DEF Direct, runtimeVars, workerVars
<1>18. ASSUME Synced \/ SyncRaises PROVE Scalars'
  BY <1>16, <1>18 DEF Synced, SyncRaises, workerVars
<1>19. ASSUME DirectRuns PROVE Scalars'
  BY <1>16, <1>19 DEF DirectRuns, runtimeVars, workerVars, Nothing
<1>20. ASSUME ModeOn \/ Shutdown \/ Joined \/ Arrive PROVE Scalars'
  BY <1>20 DEF ModeOn, Shutdown, Joined, Arrive, runtimeVars, workerVars
<1>21. ASSUME ModeOff \/ AsyncSync PROVE Scalars'
  BY <1>15, <1>21 DEF ModeOff, AsyncSync, SyncWith, workerVars
<1>22. ASSUME TaskStarts PROVE Scalars'
  BY <1>22 DEF TaskStarts, runtimeVars
<1>23. Runtime!Finish(Turn) => /\ finished' \subseteq Nat /\ Turn \in Nat
                               /\ UNCHANGED <<accepted, call, since>>
  BY DEF Runtime!Finish, Runtime!Turn
<1>24. ASSUME TaskEnds \/ TaskThrows PROVE Scalars'
  BY <1>23, <1>24 DEF TaskEnds, TaskThrows
<1>25. ASSUME TaskDropped PROVE Scalars'
  BY <1>25 DEF TaskDropped, runtimeVars
<1>26. py \subseteq Tensors /\ Defined \subseteq Tensors /\ \A ins \in InputSets : ins \subseteq Tensors
  <2> HIDE DEF Scalars
  <2>1. py \subseteq Tensors /\ Defined \subseteq py
    BY DEF Heap, Defined
  <2> QED
    BY <2>1 DEF InputSets
<1> HIDE DEF Scalars
<1>27. CASE Program
  BY <1>5, <1>7, <1>8, <1>10, <1>11, <1>12, <1>13, <1>17, <1>20, <1>21, <1>26, <1>27
  DEF Program
<1>28. CASE Continues
  BY <1>9, <1>18, <1>19, <1>20, <1>28 DEF Continues
<1> QED
  BY <1>20, <1>22, <1>24, <1>25, <1>27, <1>28 DEF Next, Worker

-----------------------------------------------------------------------------
\* The heap at the start.
LEMMA InitHeap == Init => Heap
<1> SUFFICES ASSUME Init PROVE Heap
  OBVIOUS
<1>1. q = <<>> /\ q \in Seq(Task)
  BY DEF Init
<1>2. Kept = {Weight, Input} /\ py = {Weight, Input} /\ py \subseteq Tensors
  BY <1>1, DispatchAssumption DEF Init, Kept, Captured
<1>3. /\ st \in [Tensors -> Storages \cup {0}]
      /\ \A t \in Tensors : st[t] # 0 <=> t \in Kept
  BY <1>2, DispatchAssumption DEF Init, Weight, Input
<1>4. mem \in [Storages -> 0..MaxOps]
  BY DispatchAssumption DEF Init
<1>5. ready \in [Tensors -> Nat] /\ cell \in [Tensors -> 0..MaxOps]
  BY DispatchAssumption DEF Init
<1>6. val \in [0..MaxOps -> 0..MaxOps]
  BY DispatchAssumption DEF Init
<1> QED
  BY <1>1, <1>2, <1>3, <1>4, <1>5, <1>6 DEF Heap

\* An operator's task, and its operands.
LEMMA ComputeTyped ==
  ASSUME NEW D \in SUBSET Operand, NEW ins \in [D -> 0..MaxOps],
         NEW outs \in SUBSET Operand, NEW n \in 0..MaxOps
  PROVE  /\ Compute(ins, outs, n) \in Task
         /\ Operands(Compute(ins, outs, n)) = D \cup outs
BY DEF Compute, Task, Operands

\* The tasks that carry no operator.
LEMMA MarksTyped ==
  /\ Event \in Task /\ Operands(Event) = {} /\ Event.outs = {} /\ Event.kind = "event"
  /\ Ready \in Task /\ Operands(Ready) = {} /\ Ready.outs = {} /\ Ready.kind = "ready"
<1>1. <<>> \in [{} -> 0..MaxOps] /\ DOMAIN <<>> = {}
  OBVIOUS
<1>2. Event = [kind |-> "event", ins |-> <<>>, outs |-> {}, n |-> 0]
  BY DEF Event, Mark
<1>3. Ready = [kind |-> "ready", ins |-> <<>>, outs |-> {}, n |-> 0]
  BY DEF Ready, Mark
<1>4. 0 \in 0..MaxOps /\ {} \in SUBSET Operand
  BY DispatchAssumption
<1>5. <<>> \in UNION {[D -> 0..MaxOps] : D \in SUBSET Operand}
  BY <1>1, <1>4
<1> QED
  BY <1>1, <1>2, <1>3, <1>4, <1>5 DEF Task, Operands

\* A tensor captured itself is wherever the tensor is.
LEMMA RawIs ==
  ASSUME NEW t \in Tensors
  PROVE  Raw(t) \in Operand /\ Raw(t).t = t /\ \A S : At(S, Raw(t)) = S[t]
BY DispatchAssumption DEF Raw, Operand, At

\* What a closure captures of the operator's inputs: each captured operand is
\* that of an input, with the number that an eager run would find there.
LEMMA ExpectIs ==
  ASSUME Scalars, Heap, NEW T \in SUBSET py, NEW form
  PROVE  LET E == Expect(form, T)
         IN  /\ DOMAIN E \in SUBSET Operand /\ E \in [DOMAIN E -> 0..MaxOps]
             /\ \A o \in DOMAIN E : /\ o.t \in py \cup {0}
                                    /\ \E t \in T : o = CaptureIn(form, t) /\ E[o] = val[cell[t]]
<1> DEFINE D == {CaptureIn(form, t) : t \in T}
           who(o) == CHOOSE t \in T : CaptureIn(form, t) = o
           E == Expect(form, T)
<1>1. E = [o \in D |-> val[cell[who(o)]]]
  BY DEF Expect
<1>2. \A o \in D : who(o) \in T /\ CaptureIn(form, who(o)) = o
  OBVIOUS
<1>3. \A t \in py : st[t] \in Storages /\ t \in Tensors
  BY KeptHasStorage
<1>4. ASSUME NEW t \in T
      PROVE  CaptureIn(form, t) \in Operand /\ CaptureIn(form, t).t \in py \cup {0}
  <2>1. Raw(t) \in Operand /\ Raw(t).t = t
    BY <1>3, RawIs
  <2>2. Detached(t) \in Operand /\ Detached(t).t = 0
    BY <1>3 DEF Detached, Operand
  <2> QED
    BY <2>1, <2>2 DEF CaptureIn
<1>5. \A t \in T : val[cell[t]] \in 0..MaxOps
  BY <1>3 DEF Heap
<1> HIDE DEF who, E
<1>6. DOMAIN E = D /\ \A o \in D : E[o] = val[cell[who(o)]]
  BY <1>1
<1>7. D \in SUBSET Operand
  BY <1>4
<1>8. E \in [D -> 0..MaxOps]
  BY <1>1, <1>2, <1>5
<1>9. \A o \in D : /\ o.t \in py \cup {0}
                   /\ \E t \in T : o = CaptureIn(form, t) /\ E[o] = val[cell[t]]
  BY <1>2, <1>4, <1>6
<1> QED
  BY <1>6, <1>7, <1>8, <1>9 DEF E

\* A task is queued whose operands are tensors of the program.
LEMMA QueueGrows ==
  ASSUME Scalars, Heap, NEW task \in Task, q' = Append(q, task), py \subseteq py',
         \A o \in Operands(task) : o.t \in py' \cup {0}
  PROVE  q' \in Seq(Task) /\ Kept' = Kept \cup py'
<1>1. q \in Seq(Task)
  BY DEF Heap
<1>2. CapturedBy(q') = CapturedBy(q) \cup Operands(task)
  BY <1>1, AppendCaptures
<1>3. Kept = KeptBy(py, q)
  BY KeptIs
<1>4. Kept' = KeptBy(py', q')
  BY KeptIs DEF Kept, Captured, KeptBy, CapturedBy
<1>5. KeptBy(py', q') = KeptBy(py, q) \cup py'
  BY <1>2 DEF KeptBy
<1> QED
  BY <1>1, <1>3, <1>4, <1>5

\* torch.empty takes a tensor that is gone and a storage that nobody holds.
LEMMA NewTensorIs ==
  ASSUME Scalars, Heap, ops' \in 0..MaxOps, NEW t \in FreeTensors, NEW content \in 0..MaxOps,
         NewTensor(t, content)
  PROVE  /\ t \in Tensors \ Kept
         /\ st'[t] \in Storages \ Held
         /\ st' \in [Tensors -> Storages \cup {0}] /\ \A u \in Tensors \ {t} : st'[u] = st[u]
         /\ mem' \in [Storages -> 0..MaxOps] /\ mem'[st'[t]] = content
         /\ \A s \in Storages \ {st'[t]} : mem'[s] = mem[s]
         /\ ready' \in [Tensors -> Nat] /\ ready'[t] = 0
         /\ \A u \in Tensors \ {t} : ready'[u] = ready[u]
         /\ cell' \in [Tensors -> 0..MaxOps] /\ cell'[t] = ops'
         /\ \A u \in Tensors \ {t} : cell'[u] = cell[u]
         /\ py' = py \cup {t}
<1> DEFINE s == Min(FreeStorages)
<1>1. t \in Tensors \ Kept
  BY DEF FreeTensors
<1>2. s \in Storages \ Held
  <2>1. FreeStorages # {} /\ FreeStorages \in SUBSET Nat
    BY DispatchAssumption DEF NewTensor, FreeStorages
  <2> QED
    BY <2>1, Least DEF FreeStorages
<1>3. /\ st' = [st EXCEPT ![t] = s] /\ mem' = [mem EXCEPT ![s] = content]
      /\ ready' = [ready EXCEPT ![t] = 0] /\ cell' = [cell EXCEPT ![t] = ops']
      /\ py' = py \cup {t}
  BY DEF NewTensor
<1> HIDE DEF s
<1>4. /\ st \in [Tensors -> Storages \cup {0}] /\ mem \in [Storages -> 0..MaxOps]
      /\ ready \in [Tensors -> Nat] /\ cell \in [Tensors -> 0..MaxOps]
  BY DEF Heap
<1>5. st'[t] = s
  BY <1>1, <1>3, <1>4
<1>6. st' \in [Tensors -> Storages \cup {0}] /\ \A u \in Tensors \ {t} : st'[u] = st[u]
  BY <1>1, <1>2, <1>3, <1>4
<1>7. /\ mem' \in [Storages -> 0..MaxOps] /\ mem'[s] = content
      /\ \A x \in Storages \ {s} : mem'[x] = mem[x]
  BY <1>2, <1>3, <1>4
<1>8. /\ ready' \in [Tensors -> Nat] /\ ready'[t] = 0
      /\ \A u \in Tensors \ {t} : ready'[u] = ready[u]
  BY <1>1, <1>3, <1>4
<1>9. /\ cell' \in [Tensors -> 0..MaxOps] /\ cell'[t] = ops'
      /\ \A u \in Tensors \ {t} : cell'[u] = cell[u]
  BY <1>1, <1>3, <1>4
<1> QED
  BY <1>1, <1>2, <1>3, <1>5, <1>6, <1>7, <1>8, <1>9

\* Freeing what nobody keeps leaves the heap well-formed.
LEMMA FreeHeap ==
  ASSUME Scalars, Heap, Free, py' \subseteq py, q' \in Seq(Task), Kept' \subseteq Kept, val' = val
  PROVE  Heap'
<1>1. 0 \in 0..MaxOps
  BY DispatchAssumption
<1>2. /\ st' = [t \in Tensors |-> IF t \in Kept' THEN st[t] ELSE 0]
      /\ ready' = [t \in Tensors |-> IF t \in Kept' THEN ready[t] ELSE 0]
      /\ cell' = [t \in Tensors |-> IF t \in Kept' THEN cell[t] ELSE 0]
      /\ mem' = [s \in Storages |-> IF s \in Held' THEN mem[s] ELSE 0]
  BY DEF Free, Forget
<1>3. /\ st' \in [Tensors -> Storages \cup {0}] /\ \A t \in Tensors : st'[t] # 0 <=> t \in Kept'
  BY <1>2 DEF Heap
<1>4. mem' \in [Storages -> 0..MaxOps]
  BY <1>1, <1>2 DEF Heap
<1>5. ready' \in [Tensors -> Nat]
  BY <1>2 DEF Heap
<1>6. cell' \in [Tensors -> 0..MaxOps]
  BY <1>1, <1>2 DEF Heap
<1> QED
  BY <1>3, <1>4, <1>5, <1>6 DEF Heap

\* When a closure dies nothing new is kept.
LEMMA TailHeap ==
  ASSUME Scalars, Heap, q # <<>>, q' = Tail(q), py' = py
  PROVE  q' \in Seq(Task) /\ Kept' \subseteq Kept /\ Captured' \subseteq Captured
<1>1. q \in Seq(Task) /\ q' \in Seq(Task)
  BY DEF Heap
<1>2. CapturedBy(q') \subseteq CapturedBy(q)
  BY <1>1, TailCaptures
<1>3. Kept = KeptBy(py, q) /\ Captured = CapturedBy(q)
  BY KeptIs DEF Captured, CapturedBy
<1>4. Kept' = KeptBy(py', q') /\ Captured' = CapturedBy(q')
  BY DEF Kept, Captured, KeptBy, CapturedBy
<1>5. KeptBy(py', q') \subseteq KeptBy(py, q)
  BY <1>2 DEF KeptBy
<1> QED
  BY <1>1, <1>2, <1>3, <1>4, <1>5

\* Contents may change where tensors and storages do not.
LEMMA SameHeap ==
  ASSUME Heap, UNCHANGED <<q, py, st>>, mem' \in [Storages -> 0..MaxOps],
         UNCHANGED <<ready, cell>>, val' \in [0..MaxOps -> 0..MaxOps]
  PROVE  Heap'
<1>1. Kept' = Kept
  BY DEF Kept, Captured
<1> QED
  BY <1>1 DEF Heap

\* A task on tensors of the program leaves the heap well-formed.
LEMMA PushHeap ==
  ASSUME Scalars, Heap, NEW task \in Task, Push(task), UNCHANGED <<py, mem, cell>>,
         \A o \in Operands(task) : o.t \in py \cup {0},
         st' \in [Tensors -> Storages \cup {0}], \A t \in Tensors : st'[t] = 0 <=> st[t] = 0,
         ready' \in [Tensors -> Nat], val' \in [0..MaxOps -> 0..MaxOps]
  PROVE  Heap'
<1>1. q' = Append(q, task)
  BY DEF Push
<1>2. q' \in Seq(Task) /\ Kept' = Kept \cup py'
  BY <1>1, QueueGrows
<1>3. Kept' = Kept
  BY <1>2, KeptHasStorage
<1> QED
  BY <1>2, <1>3 DEF Heap

\* So does an operator with the caller's output.
LEMMA PushIntoHeap ==
  ASSUME Scalars, Heap, NEW ins \in SUBSET py, NEW out \in py, PushInto(ins, out),
         ops' \in 0..MaxOps, UNCHANGED <<py, mem, cell, st, ready>>
  PROVE  Heap'
<1> DEFINE E == Expect("fast", ins)
           task == Compute(E, {Raw(out)}, ops')
<1>1. /\ DOMAIN E \in SUBSET Operand /\ E \in [DOMAIN E -> 0..MaxOps]
      /\ \A o \in DOMAIN E : o.t \in py \cup {0}
  BY ExpectIs
<1>2. out \in Tensors
  BY DEF Heap
<1>3. Raw(out) \in Operand /\ Raw(out).t = out
  BY <1>2, RawIs
<1> HIDE DEF E
<1>4. task \in Task /\ Operands(task) = DOMAIN E \cup {Raw(out)}
  BY <1>1, <1>3, ComputeTyped
<1>5. Push(task) /\ val' = [val EXCEPT ![cell[out]] = ops']
  BY DEF PushInto, E
<1>6. val' \in [0..MaxOps -> 0..MaxOps]
  BY <1>5 DEF Heap
<1>7. \A o \in Operands(task) : o.t \in py \cup {0}
  BY <1>1, <1>3, <1>4
<1> HIDE DEF task
<1> QED
  BY <1>4, <1>5, <1>6, <1>7, PushHeap DEF Heap

\* The task that SubmitNew queues.
LEMMA SubmitNewIs ==
  ASSUME Scalars, Heap, ops' \in 0..MaxOps, NEW form, NEW ins \in SUBSET py,
         NEW t \in FreeTensors, NewTensor(t, 0)
  PROVE  LET E == Expect(form, ins)
             out == NewOutput(form, t, st'[t])
             task == Compute(E, {out}, ops')
         IN  /\ task \in Task /\ Operands(task) = DOMAIN E \cup {out}
             /\ out.t \in {0, t} /\ At(st', out) = st'[t]
             /\ \A o \in DOMAIN E : o.t \in py \cup {0}
<1> DEFINE E == Expect(form, ins)
           out == NewOutput(form, t, st'[t])
<1>1. /\ DOMAIN E \in SUBSET Operand /\ E \in [DOMAIN E -> 0..MaxOps]
      /\ \A o \in DOMAIN E : o.t \in py \cup {0}
  BY ExpectIs
<1>2. 0 \in 0..MaxOps
  BY DispatchAssumption
<1>3. t \in Tensors /\ st'[t] \in Storages
  BY <1>2, NewTensorIs
<1>4. Raw(t) \in Operand /\ Raw(t).t = t /\ At(st', Raw(t)) = st'[t]
  BY <1>3, RawIs
<1>5. [t |-> 0, s |-> st'[t]] \in Operand
  BY <1>3 DEF Operand
<1>6. out \in Operand /\ out.t \in {0, t} /\ At(st', out) = st'[t]
  BY <1>4, <1>5 DEF NewOutput, At
<1> HIDE DEF E, out
<1> DEFINE task == Compute(E, {out}, ops')
<1>7. task \in Task /\ Operands(task) = DOMAIN E \cup {out}
  BY <1>1, <1>6, ComputeTyped
<1> HIDE DEF task
<1> QED
  BY <1>1, <1>6, <1>7 DEF E, out, task

\* An output of its own, queued.
LEMMA SubmitNewHeap ==
  ASSUME Scalars, Heap, NEW form, NEW ins \in SUBSET py, SubmitNew(form, ins)
  PROVE  Heap'
<1>1. ops' \in 0..MaxOps
  BY DispatchAssumption DEF SubmitNew, Calls, Scalars
<1>2. CASE Rethrows /\ UNCHANGED <<py, heapVars, ready, eagerVars>>
  BY <1>2, SameHeap DEF Rethrows, heapVars, eagerVars, Heap
<1>3. CASE ~(Rethrows /\ UNCHANGED <<py, heapVars, ready, eagerVars>>)
  <2>1. PICK t \in FreeTensors :
          /\ NewTensor(t, 0)
          /\ Push(Compute(Expect(form, ins), {NewOutput(form, t, st'[t])}, ops'))
    BY <1>3 DEF SubmitNew
  <2>2. val' = [val EXCEPT ![ops'] = ops']
    BY <1>3 DEF SubmitNew
  <2> DEFINE out == NewOutput(form, t, st'[t])
             E == Expect(form, ins)
             task == Compute(E, {out}, ops')
  <2>3. /\ task \in Task /\ Operands(task) = DOMAIN E \cup {out}
        /\ out.t \in {0, t} /\ \A o \in DOMAIN E : o.t \in py \cup {0}
    BY <1>1, <2>1, SubmitNewIs
  <2> HIDE DEF out, E
  <2>4. q' = Append(q, task)
    BY <2>1 DEF Push, E, out
  <2> HIDE DEF task
  <2>5. 0 \in 0..MaxOps
    BY DispatchAssumption
  <2>6. /\ t \in Tensors \ Kept /\ st'[t] \in Storages
        /\ st' \in [Tensors -> Storages \cup {0}] /\ \A u \in Tensors \ {t} : st'[u] = st[u]
        /\ mem' \in [Storages -> 0..MaxOps] /\ ready' \in [Tensors -> Nat]
        /\ cell' \in [Tensors -> 0..MaxOps] /\ py' = py \cup {t}
    BY <1>1, <2>1, <2>5, NewTensorIs
  <2>7. q' \in Seq(Task) /\ Kept' = Kept \cup py'
    <3>1. py \subseteq py' /\ \A o \in Operands(task) : o.t \in py' \cup {0}
      BY <2>3, <2>6
    <3> QED
      BY <2>3, <2>4, <3>1, QueueGrows
  <2>8. Kept' = Kept \cup {t}
    BY <2>6, <2>7, KeptHasStorage
  <2>9. \A u \in Tensors : st'[u] # 0 <=> u \in Kept'
    BY <2>6, <2>8, DispatchAssumption DEF Heap
  <2>10. val' \in [0..MaxOps -> 0..MaxOps]
    BY <1>1, <2>2 DEF Heap
  <2> QED
    BY <2>6, <2>7, <2>9, <2>10 DEF Heap
<1> QED
  BY <1>2, <1>3

\* No step breaks the heap.
LEMMA HeapPreserved ==
  ASSUME Scalars, Heap, Next, wpc # "idle" => q # <<>>,
         pc \in {"submit", "sync", "direct"} => todo.ins \cup todo.outs \subseteq py
  PROVE  Heap'
<1>1. Calls => ops' \in 0..MaxOps
  BY DispatchAssumption DEF Calls, Scalars
<1>2. ASSUME Rethrows, UNCHANGED <<py, heapVars, ready, eagerVars>> PROVE Heap'
  BY <1>2, SameHeap DEF Rethrows, heapVars, eagerVars, Heap
<1>3. \A form : \A ins \in SUBSET py : SubmitNew(form, ins) => Heap'
  BY SubmitNewHeap
<1>4. ASSUME NEW ins \in SUBSET py, NEW out \in py, SubmitInto(ins, out) PROVE Heap'
  <2>1. ops' \in 0..MaxOps
    BY <1>1, <1>4 DEF SubmitInto
  <2> QED
    BY <1>2, <1>4, <2>1, PushIntoHeap DEF SubmitInto, heapVars, eagerVars
<1>5. ASSUME NEW ins, NEW out, SubmitEvent(ins, out) PROVE Heap'
  <2>1. CASE Rethrows
    BY <1>2, <1>5, <2>1 DEF SubmitEvent
  <2>2. CASE Push(Event)
    BY <1>5, <2>2, MarksTyped, PushHeap DEF SubmitEvent, heapVars, eagerVars, Heap
  <2> QED
    BY <1>5, <2>1, <2>2 DEF SubmitEvent
<1>6. ASSUME SubmitRest PROVE Heap'
  <2>1. ops' \in 0..MaxOps /\ todo.ins \in SUBSET py /\ todo.outs \in SUBSET py
    BY <1>6 DEF SubmitRest, Scalars
  <2>2. UNCHANGED <<py, heapVars, ready, cell>>
    BY <1>6 DEF SubmitRest
  <2>3. CASE Rethrows /\ UNCHANGED val
    BY <1>2, <2>2, <2>3 DEF eagerVars
  <2>4. ASSUME NEW out \in todo.outs, PushInto(todo.ins, out) PROVE Heap'
    BY <2>1, <2>2, <2>4, PushIntoHeap DEF heapVars
  <2> QED
    BY <1>6, <2>3, <2>4 DEF SubmitRest
<1>7. ASSUME NEW dst \in py, NEW src \in py, Copy(dst, src) PROVE Heap'
  <2>1. /\ dst \in Tensors /\ src \in Tensors
        /\ st[dst] \in Storages /\ st[src] \in Storages
    BY KeptHasStorage
  <2>2. /\ st' = [st EXCEPT ![dst] = st[src]]
        /\ val' = [val EXCEPT ![cell[dst]] = val[cell[src]]]
        /\ UNCHANGED <<py, mem, cell>>
    BY <1>7 DEF Copy
  <2>3. /\ st' \in [Tensors -> Storages \cup {0}] /\ \A t \in Tensors : st'[t] = 0 <=> st[t] = 0
    BY <2>1, <2>2, DispatchAssumption DEF Heap
  <2>4. val' \in [0..MaxOps -> 0..MaxOps]
    BY <2>1, <2>2 DEF Heap
  <2>5. CASE Rethrows /\ UNCHANGED ready
    <3>1. Kept' = Kept
      BY <2>2, <2>5 DEF Rethrows, Kept, Captured
    <3> QED
      BY <2>2, <2>3, <2>4, <2>5, <3>1 DEF Heap, Rethrows
  <2>6. CASE Push(Ready) /\ ready' = [ready EXCEPT ![dst] = Marker]
    <3>1. ready' \in [Tensors -> Nat]
      BY <2>6 DEF Marker, Heap, Push, Runtime!Accept, Scalars
    <3> QED
      BY <2>2, <2>3, <2>4, <2>6, <3>1, MarksTyped, PushHeap
  <2> QED
    BY <1>7, <2>5, <2>6 DEF Copy
<1>8. ASSUME NEW t \in py, View(t) PROVE Heap'
  <2> DEFINE u == Min(FreeTensors)
  <2>1. u \in Tensors \ Kept
    <3>1. FreeTensors # {} /\ FreeTensors \in SUBSET Nat
      BY <1>8, DispatchAssumption DEF View, FreeTensors
    <3> QED
      BY <3>1, Least DEF FreeTensors
  <2>2. /\ st' = [st EXCEPT ![u] = st[t]] /\ cell' = [cell EXCEPT ![u] = cell[t]]
        /\ ready' = [ready EXCEPT ![u] = 0] /\ py' = py \cup {u}
        /\ UNCHANGED <<q, mem, val>>
    BY <1>8 DEF View, workerVars
  <2> HIDE DEF u
  <2>3. t \in Tensors /\ st[t] \in Storages
    BY KeptHasStorage
  <2>4. Kept' = Kept \cup {u}
    BY <2>1, <2>2, DispatchAssumption DEF Kept, Captured
  <2>5. st' \in [Tensors -> Storages \cup {0}] /\ \A x \in Tensors : st'[x] # 0 <=> x \in Kept'
    BY <2>1, <2>2, <2>3, <2>4, DispatchAssumption DEF Heap
  <2>6. ready' \in [Tensors -> Nat] /\ cell' \in [Tensors -> 0..MaxOps]
    BY <2>1, <2>2, <2>3 DEF Heap
  <2> QED
    BY <2>1, <2>2, <2>5, <2>6 DEF Heap
<1>9. ASSUME NEW t, Drop(t) PROVE Heap'
  <2>1. q' = q /\ py' = py \ {t} /\ val' = val /\ Free
    BY <1>9 DEF Drop
  <2>2. Kept' \subseteq Kept
    BY <2>1 DEF Kept, Captured
  <2>3. q' \in Seq(Task)
    BY <2>1 DEF Heap
  <2> QED
    BY <2>1, <2>2, <2>3, FreeHeap
<1>10. ASSUME NEW written \in BOOLEAN, Create(written) PROVE Heap'
  <2> DEFINE c == IF written THEN ops' ELSE 0
  <2>1. ops' \in 0..MaxOps /\ c \in 0..MaxOps
    BY <1>1, <1>10, DispatchAssumption DEF Create
  <2>2. PICK t \in FreeTensors : NewTensor(t, c)
    BY <1>10 DEF Create
  <2>3. q' = q /\ val' = [val EXCEPT ![ops'] = c]
    BY <1>10 DEF Create, workerVars
  <2> HIDE DEF c
  <2>4. /\ t \in Tensors \ Kept /\ st'[t] \in Storages
        /\ st' \in [Tensors -> Storages \cup {0}] /\ \A u \in Tensors \ {t} : st'[u] = st[u]
        /\ mem' \in [Storages -> 0..MaxOps] /\ ready' \in [Tensors -> Nat]
        /\ cell' \in [Tensors -> 0..MaxOps] /\ py' = py \cup {t}
    BY <2>1, <2>2, NewTensorIs
  <2>5. Kept' = Kept \cup {t}
    BY <2>3, <2>4, DispatchAssumption DEF Kept, Captured
  <2>6. \A u \in Tensors : st'[u] # 0 <=> u \in Kept'
    BY <2>4, <2>5, DispatchAssumption DEF Heap
  <2>7. val' \in [0..MaxOps -> 0..MaxOps]
    BY <2>1, <2>3 DEF Heap
  <2> QED
    BY <2>3, <2>4, <2>6, <2>7 DEF Heap
<1>11. ASSUME UNCHANGED <<q, py, heapVars, ready, eagerVars>> PROVE Heap'
  BY <1>11, SameHeap DEF heapVars, eagerVars, Heap
<1>12. ASSUME NEW ins, NEW outs, Direct(ins, outs) PROVE Heap'
  BY <1>11, <1>12 DEF Direct, workerVars
<1>13. ASSUME Synced \/ SyncRaises \/ ModeOn \/ ModeOff \/ AsyncSync \/ Shutdown \/ Joined
       PROVE  Heap'
  BY <1>11, <1>13 DEF Synced, SyncRaises, ModeOn, ModeOff, AsyncSync, SyncWith, Shutdown,
                      Joined, workerVars
<1>14. ASSUME TaskStarts PROVE Heap'
  BY <1>11, <1>14 DEF TaskStarts
<1>15. ASSUME DirectRuns PROVE Heap'
  <2>1. mem' \in [Storages -> 0..MaxOps] /\ val' \in [0..MaxOps -> 0..MaxOps]
    <3>1. PICK c \in {ops, 0} :
            mem' = [s \in Storages |-> IF \E t \in todo.outs : st[t] = s THEN c ELSE mem[s]]
      BY <1>15 DEF DirectRuns
    <3>2. val' = [x \in 0..MaxOps |-> IF \E t \in todo.outs : cell[t] = x THEN ops ELSE val[x]]
      BY <1>15 DEF DirectRuns, Heap
    <3>3. ops \in 0..MaxOps /\ 0 \in 0..MaxOps
      BY DispatchAssumption DEF Scalars
    <3>4. mem' \in [Storages -> 0..MaxOps]
      BY <3>1, <3>3 DEF Heap
    <3>5. val' \in [0..MaxOps -> 0..MaxOps]
      BY <3>2, <3>3 DEF Heap
    <3> QED
      BY <3>4, <3>5
  <2> QED
    BY <1>15, <2>1, SameHeap DEF DirectRuns, workerVars
<1>16. ASSUME NEW n \in 0..MaxOps, Write(n) PROVE mem' \in [Storages -> 0..MaxOps]
  BY <1>16 DEF Write, Heap
<1>17. ASSUME TaskEnds \/ TaskThrows PROVE Heap'
  <2>3. q # <<>>
    BY <1>17 DEF TaskEnds, TaskThrows
  <2>1. Head(q).n \in 0..MaxOps /\ 0 \in 0..MaxOps
    <3>1. Head(q) \in Task
      BY <2>3 DEF Heap
    <3> QED
      BY <3>1, TaskFacts, DispatchAssumption
  <2>2. mem' \in [Storages -> 0..MaxOps]
    BY <1>16, <1>17, <2>1 DEF TaskEnds, TaskThrows
  <2> QED
    BY <1>17, <2>2, SameHeap DEF TaskEnds, TaskThrows, eagerVars, Heap
<1>18. ASSUME TaskDropped PROVE Heap'
  <2>1. q # <<>> /\ q' = Tail(q) /\ py' = py /\ val' = val /\ Free
    BY <1>18 DEF TaskDropped
  <2> QED
    BY <2>1, TailHeap, FreeHeap
<1>19. ASSUME Arrive PROVE Heap'
  <2>1. mem' \in [Storages -> 0..MaxOps]
    BY <1>19, DispatchAssumption DEF Arrive, Heap
  <2> QED
    BY <1>19, <2>1, SameHeap DEF Arrive, workerVars, eagerVars, Heap
<1>20. Defined \subseteq py /\ \A ins \in InputSets : ins \subseteq py
  BY DEF Defined, InputSets
<1>21. CASE Program
  BY <1>3, <1>4, <1>5, <1>7, <1>8, <1>9, <1>10, <1>12, <1>13, <1>20, <1>21 DEF Program
<1>22. CASE Continues
  BY <1>6, <1>13, <1>15, <1>22 DEF Continues
<1> QED
  BY <1>14, <1>17, <1>18, <1>19, <1>21, <1>22 DEF Next, Worker

-----------------------------------------------------------------------------
(* The tasks that have run to their end are the oldest ones; where the program *)
(* is, the runtime's record of its sync() and the operator in hand agree.      *)

Over == accepted - Len(q) + (IF wpc = "drop" THEN 1 ELSE 0)

Counts == Len(q) <= accepted /\ finished = 1..Over /\ (wpc # "idle" => q # <<>>)

Dispatching == pc \in {"submit", "sync", "direct"}

Control ==
  /\ Weight \in py
  /\ pc = "sync" <=> call[Python] = "sync"
  /\ pc = "sync" => since[Python] = accepted
  /\ pc = "direct" => call[Python] \in {"none", "ok"}
  /\ pc \in {"py", "submit", "join"} => call[Python] = "none"
  /\ pc \in {"py", "join", "stopped"} => todo = Nothing
  /\ pc = "submit" => mode
  /\ pc = "direct" \/ (pc = "py" /\ ~mode) => Over = accepted /\ error = 0
  /\ Dispatching => todo.ins \subseteq Defined /\ todo.outs \subseteq py

Typed == Scalars /\ Heap /\ Counts /\ Control

\* Lengths of the queue after one step at either end.
LEMMA LenIs ==
  ASSUME Heap
  PROVE  /\ Len(q) \in Nat /\ (q = <<>> <=> Len(q) = 0)
         /\ q # <<>> => Len(Tail(q)) = Len(q) - 1
         /\ \A task : Len(Append(q, task)) = Len(q) + 1 /\ Append(q, task) # <<>>
<1>1. q \in Seq(Task)
  BY DEF Heap
<1>2. Len(q) \in Nat /\ (q = <<>> <=> Len(q) = 0)
  BY <1>1
<1>3. q # <<>> => Len(Tail(q)) = Len(q) - 1
  BY <1>1
<1>4. \A task : Len(Append(q, task)) = Len(q) + 1
  BY <1>1
<1>5. \A task : Append(q, task) # <<>>
  BY <1>2, <1>4
<1> QED
  BY <1>2, <1>3, <1>4, <1>5

\* No step breaks the counts.
LEMMA CountsPreserved ==
  ASSUME Scalars, Heap, Counts, Next
  PROVE  Counts'
<1>1. Len(q) \in Nat /\ accepted \in Nat /\ (q = <<>> <=> Len(q) = 0)
  BY LenIs DEF Scalars
<1>2. ASSUME NEW task, Push(task), wpc' = wpc PROVE Counts'
  <2>1. /\ accepted' = accepted + 1 /\ finished' = finished
        /\ Len(q') = Len(q) + 1 /\ q' # <<>>
    BY <1>2, LenIs DEF Push, Runtime!Accept
  <2> QED
    BY <1>1, <1>2, <2>1 DEF Counts, Over
<1>3. ASSUME UNCHANGED <<accepted, finished, q, wpc>> PROVE Counts'
  BY <1>3 DEF Counts, Over
<1>4. Rethrows => UNCHANGED <<accepted, finished, q>>
  BY DEF Rethrows, runtimeVars
<1>5. ASSUME NEW ins, NEW out, PushInto(ins, out), wpc' = wpc PROVE Counts'
  BY <1>2, <1>5 DEF PushInto
<1>6. CASE Program
  <2>1. ASSUME NEW form, NEW ins, SubmitNew(form, ins) PROVE Counts'
    BY <1>2, <1>3, <1>4, <2>1 DEF SubmitNew
  <2>2. ASSUME NEW ins, NEW out, SubmitInto(ins, out) PROVE Counts'
    BY <1>3, <1>4, <1>5, <2>2 DEF SubmitInto
  <2>3. ASSUME NEW ins, NEW out, SubmitEvent(ins, out) PROVE Counts'
    BY <1>2, <1>3, <1>4, <2>3 DEF SubmitEvent
  <2>4. ASSUME NEW dst, NEW src, Copy(dst, src) PROVE Counts'
    BY <1>2, <1>3, <1>4, <2>4 DEF Copy, workerVars
  <2>5. ASSUME NEW t, View(t) \/ Drop(t) \/ Create(t) PROVE Counts'
    BY <1>3, <2>5 DEF View, Drop, Create, runtimeVars, workerVars
  <2>6. ASSUME NEW ins, NEW outs, Direct(ins, outs) PROVE Counts'
    BY <1>3, <2>6 DEF Direct, runtimeVars, workerVars, Runtime!SyncCall
  <2>7. ASSUME ModeOn \/ ModeOff \/ AsyncSync \/ Shutdown PROVE Counts'
    BY <1>3, <2>7 DEF ModeOn, ModeOff, AsyncSync, SyncWith, Shutdown, runtimeVars, workerVars,
                      Runtime!SyncCall
  <2> QED
    BY <1>6, <2>1, <2>2, <2>3, <2>4, <2>5, <2>6, <2>7 DEF Program
<1>7. CASE Continues
  <2>1. ASSUME SubmitRest PROVE Counts'
    BY <1>3, <1>4, <1>5, <2>1 DEF SubmitRest
  <2>2. ASSUME Synced \/ SyncRaises \/ DirectRuns \/ Joined PROVE Counts'
    BY <1>3, <2>2 DEF Synced, SyncRaises, DirectRuns, Joined, runtimeVars, workerVars,
                      Runtime!SyncOk, Runtime!SyncError, Runtime!SyncEnd
  <2> QED
    BY <1>7, <2>1, <2>2 DEF Continues
<1>8. CASE TaskStarts
  BY <1>1, <1>8 DEF TaskStarts, Counts, Over, runtimeVars
<1>9. CASE TaskEnds \/ TaskThrows
  <2>1. /\ wpc = "run" /\ wpc' = "drop" /\ q' = q /\ accepted' = accepted
        /\ finished' = finished \cup {Turn}
    BY <1>9 DEF TaskEnds, TaskThrows, Runtime!Finish
  <2>2. Turn = Over + 1 /\ Over \in Nat /\ finished = 1..Over
    BY <1>1, <2>1 DEF Turn, Over, Counts
  <2>3. Over' = Over + 1
    BY <1>1, <2>1 DEF Over
  <2>4. finished' = 1..(Over + 1)
    BY <2>1, <2>2
  <2> QED
    BY <1>1, <2>1, <2>3, <2>4 DEF Counts
<1>10. CASE TaskDropped
  <2>1. /\ wpc = "drop" /\ wpc' = "idle" /\ q' = Tail(q) /\ q # <<>>
        /\ UNCHANGED <<accepted, finished>>
    BY <1>10 DEF TaskDropped, runtimeVars, Counts
  <2>2. Len(q') = Len(q) - 1
    BY <2>1, LenIs
  <2> QED
    BY <1>1, <2>1, <2>2 DEF Counts, Over
<1>11. CASE Arrive
  BY <1>3, <1>11 DEF Arrive, runtimeVars, workerVars
<1> QED
  BY <1>6, <1>7, <1>8, <1>9, <1>10, <1>11 DEF Next, Worker

\* How many tasks have run to their end.
LEMMA OverIs ==
  ASSUME Scalars, Heap, Counts
  PROVE  /\ Over \in Nat /\ Over <= accepted /\ accepted \in Nat
         /\ wpc = "run" => Over = accepted - Len(q) /\ Over + 1 <= accepted
         /\ wpc = "idle" /\ q # <<>> => Over = accepted - Len(q) /\ Over + 1 <= accepted
<1>1. Len(q) \in Nat /\ accepted \in Nat /\ (q = <<>> <=> Len(q) = 0)
  BY LenIs DEF Scalars
<1> QED
  BY <1>1 DEF Over, Counts

\* No step parts the program counter from the runtime's record.
LEMMA ControlPreserved ==
  ASSUME Typed, Next
  PROVE  Control'
<1> USE DEF Dispatching
<1>1. Over \in Nat /\ Over <= accepted /\ accepted \in Nat
  BY OverIs DEF Typed
<1>2. Python \in {Python} /\ call \in [{Python} -> {"none", "sync", "ok", "error"}]
      /\ since \in [{Python} -> Nat]
  BY DEF Typed, Scalars
<1>3. ASSUME Rethrows, pc \in {"py", "submit"}, Weight \in py' PROVE Control'
  BY <1>3 DEF Rethrows, runtimeVars, Typed, Control, Over
<1>4. ASSUME NEW task, Push(task) PROVE call' = call
  BY <1>4 DEF Push, Runtime!Accept
<1>5. CASE Program
  <2>0. \A ins \in InputSets : ins \subseteq Defined
    BY DEF InputSets
  <2>1. ASSUME NEW form, NEW ins, SubmitNew(form, ins) PROVE Control'
    <3>1. CASE Rethrows /\ UNCHANGED <<py, heapVars, ready, eagerVars>>
      BY <1>3, <2>1, <3>1 DEF SubmitNew, Calls, Typed, Control
    <3>2. CASE ~(Rethrows /\ UNCHANGED <<py, heapVars, ready, eagerVars>>)
      <4>1. PICK t \in FreeTensors : NewTensor(t, 0)
        BY <2>1, <3>2 DEF SubmitNew
      <4>2. Weight \in py'
        BY <4>1 DEF NewTensor, Typed, Control
      <4>3. call' = call
        BY <1>4, <2>1, <3>2 DEF SubmitNew
      <4>4. pc' = "py" /\ pc = "py" /\ mode' /\ todo' = todo
        BY <2>1, <3>2 DEF SubmitNew, Calls
      <4> QED
        BY <4>2, <4>3, <4>4 DEF Typed, Control
    <3> QED
      BY <3>1, <3>2
  <2>2. ASSUME NEW ins, NEW out, SubmitInto(ins, out) PROVE Control'
    <3>1. pc = "py" /\ mode' /\ todo' = todo /\ py' = py
      BY <2>2 DEF SubmitInto, Calls
    <3>2. CASE PushInto(ins, out)
      BY <1>4, <3>1, <3>2 DEF PushInto, Typed, Control
    <3> QED
      BY <1>3, <2>2, <3>1, <3>2 DEF SubmitInto, Typed, Control
  <2>3. ASSUME NEW ins \in InputSets, NEW out \in py, SubmitEvent(ins, out) PROVE Control'
    <3>1. pc = "py" /\ mode' /\ UNCHANGED <<py, cell, val>> /\ Defined' = Defined
      BY <2>3 DEF SubmitEvent, Calls, eagerVars, Defined
    <3>2. CASE Push(Event) /\ pc' = "submit" /\ todo' = [ins |-> ins, outs |-> {out}]
      BY <1>4, <2>0, <3>1, <3>2 DEF Typed, Control
    <3> QED
      BY <1>3, <2>3, <3>1, <3>2 DEF SubmitEvent, Typed, Control
  <2>4. ASSUME NEW dst, NEW src, Copy(dst, src) PROVE Control'
    <3>1. pc = "py" /\ mode' /\ todo' = todo /\ py' = py
      BY <2>4 DEF Copy, Calls
    <3>2. CASE Push(Ready) /\ pc' = pc
      BY <1>4, <3>1, <3>2 DEF Typed, Control
    <3> QED
      BY <1>3, <2>4, <3>1, <3>2 DEF Copy, Typed, Control
  <2>5. ASSUME NEW t, View(t) \/ (Drop(t) /\ t # Weight) PROVE Control'
    <3>1. pc = "py" /\ UNCHANGED <<accepted, error, call, since, wpc, q, mode, pc, todo>>
      BY <2>5 DEF View, Drop, Calls, runtimeVars, workerVars
    <3>2. Weight \in py'
      BY <2>5 DEF View, Drop, Typed, Control
    <3> QED
      BY <3>1, <3>2 DEF Typed, Control, Over
  <2>6. ASSUME NEW written, Create(written) PROVE Control'
    <3>1. pc = "py" /\ UNCHANGED <<accepted, error, call, since, wpc, q, mode, pc, todo>>
      BY <2>6 DEF Create, Calls, runtimeVars, workerVars
    <3>2. Weight \in py'
      BY <2>6 DEF Create, NewTensor, Typed, Control
    <3> QED
      BY <3>1, <3>2 DEF Typed, Control, Over
  <2>7. ASSUME NEW ins \in SUBSET Defined, NEW outs \in SUBSET py, Direct(ins, outs)
        PROVE  Control'
    <3>1. /\ pc = "py" /\ UNCHANGED <<py, cell, val, q, wpc, mode>> /\ Defined' = Defined
          /\ todo' = [ins |-> ins, outs |-> outs]
      BY <2>7 DEF Direct, Calls, eagerVars, workerVars, Defined
    <3>2. CASE mode
      <4>1. pc' = "sync" /\ Runtime!SyncCall(Python)
        BY <2>7, <3>2 DEF Direct, NeedsSync
      <4>2. call'[Python] = "sync" /\ since'[Python] = accepted /\ accepted' = accepted
        BY <1>2, <4>1 DEF Runtime!SyncCall
      <4> QED
        BY <3>1, <4>1, <4>2 DEF Typed, Control
    <3>3. CASE ~mode
      <4>1. pc' = "direct" /\ UNCHANGED <<accepted, error, call, since>>
        BY <2>7, <3>3 DEF Direct, NeedsSync, runtimeVars
      <4> QED
        BY <3>1, <3>3, <4>1 DEF Typed, Control, Over
    <3> QED
      BY <3>2, <3>3
  <2>8. ASSUME ModeOn \/ Shutdown PROVE Control'
    BY <2>8 DEF ModeOn, Shutdown, runtimeVars, workerVars, Typed, Control, Over
  <2>9. ASSUME ModeOff \/ AsyncSync PROVE Control'
    <3>1. /\ pc = "py" /\ pc' = "sync" /\ todo' = todo /\ Runtime!SyncCall(Python)
          /\ UNCHANGED <<py, q, wpc>>
      BY <2>9 DEF ModeOff, AsyncSync, SyncWith, workerVars
    <3>2. call'[Python] = "sync" /\ since'[Python] = accepted /\ accepted' = accepted
      BY <1>2, <3>1 DEF Runtime!SyncCall
    <3> QED
      BY <3>1, <3>2 DEF Typed, Control, Nothing
  <2>10. py \subseteq Tensors /\ Defined \subseteq py
    BY DEF Typed, Heap, Defined
  <2> QED
    BY <1>5, <2>0, <2>1, <2>2, <2>3, <2>4, <2>5, <2>6, <2>7, <2>8, <2>9, <2>10 DEF Program
<1>6. CASE Continues
  <2>1. ASSUME SubmitRest PROVE Control'
    <3>1. pc = "submit" /\ mode' = mode /\ todo' = Nothing /\ py' = py
      BY <2>1 DEF SubmitRest
    <3>2. ASSUME NEW out, PushInto(todo.ins, out) PROVE Control'
      BY <1>4, <3>1, <3>2 DEF PushInto, Typed, Control
    <3> QED
      BY <1>3, <2>1, <3>1, <3>2 DEF SubmitRest, Typed, Control
  <2>2. ASSUME Synced PROVE Control'
    <3>1. /\ pc = "sync" /\ pc' = "direct" /\ Runtime!SyncOk(Python)
          /\ UNCHANGED <<q, wpc, todo, py, cell, val>> /\ Defined' = Defined
      BY <2>2 DEF Synced, workerVars, eagerVars, Defined
    <3>2. /\ call'[Python] = "ok" /\ error = 0 /\ 1..since[Python] \subseteq finished
          /\ UNCHANGED <<accepted, error>>
      BY <1>2, <3>1 DEF Runtime!SyncOk
    <3>3. 1..accepted \subseteq 1..Over
      BY <3>1, <3>2 DEF Typed, Control, Counts
    <3>4. Over = accepted
      BY <1>1, <3>3
    <3> QED
      BY <3>1, <3>2, <3>4 DEF Typed, Control, Over
  <2>3. ASSUME SyncRaises PROVE Control'
    <3>1. pc' = "failed" /\ call'[Python] = "error" /\ py' = py
      BY <1>2, <2>3 DEF SyncRaises, Runtime!SyncError
    <3> QED
      BY <3>1 DEF Typed, Control
  <2>4. ASSUME DirectRuns PROVE Control'
    <3>1. /\ pc = "direct" /\ pc' = "py" /\ todo' = Nothing /\ UNCHANGED <<q, wpc, py>>
          /\ call'[Python] = "none" /\ UNCHANGED <<accepted, error>>
      BY <1>2, <2>4 DEF DirectRuns, workerVars, runtimeVars, Runtime!SyncEnd
    <3> QED
      BY <3>1 DEF Typed, Control, Over
  <2>5. ASSUME Joined PROVE Control'
    BY <2>5 DEF Joined, runtimeVars, workerVars, Typed, Control
  <2> QED
    BY <1>6, <2>1, <2>2, <2>3, <2>4, <2>5 DEF Continues
<1>7. CASE TaskStarts
  BY <1>7 DEF TaskStarts, runtimeVars, heapVars, eagerVars, Typed, Control, Over, Defined
<1>8. CASE TaskEnds \/ TaskThrows
  <2>1. /\ wpc = "run" /\ UNCHANGED <<accepted, call, since, mode, pc, todo, py, cell, val>>
        /\ Defined' = Defined
    BY <1>8 DEF TaskEnds, TaskThrows, Runtime!Finish, eagerVars, Defined
  <2>2. Over # accepted
    BY <1>1, <2>1, OverIs DEF Typed
  <2> QED
    BY <2>1, <2>2 DEF Typed, Control
<1>9. CASE TaskDropped
  <2>1. /\ wpc = "drop" /\ wpc' = "idle" /\ q' = Tail(q) /\ q # <<>> /\ Free
        /\ UNCHANGED <<accepted, error, call, since, mode, pc, todo, py, val>>
    BY <1>9 DEF TaskDropped, runtimeVars, Typed, Counts
  <2>2. Over' = Over
    BY <1>1, <2>1, LenIs DEF Over, Typed
  <2>3. py \subseteq Kept' /\ py \subseteq Tensors
    BY <2>1 DEF Kept, Typed, Heap
  <2>4. \A t \in py : cell'[t] = cell[t]
    BY <2>1, <2>3 DEF Free, Forget
  <2>5. Defined' = Defined
    BY <2>1, <2>4 DEF Defined
  <2> QED
    BY <2>1, <2>2, <2>5 DEF Typed, Control
<1>10. CASE Arrive
  BY <1>10 DEF Arrive, runtimeVars, workerVars, eagerVars, Typed, Control, Over, Defined
<1> QED
  BY <1>5, <1>6, <1>7, <1>8, <1>9, <1>10 DEF Next, Worker

\* The first half of the invariant is inductive,
LEMMA TypedPreserved ==
  ASSUME Typed, [Next]_vars
  PROVE  Typed'
<1>1. CASE Next
  <2>1. Scalars' /\ Counts' /\ Control'
    BY <1>1, ScalarsPreserved, CountsPreserved, ControlPreserved DEF Typed
  <2>2. Dispatching => todo.ins \cup todo.outs \subseteq py
    BY DEF Typed, Control, Defined
  <2>3. Heap'
    BY <1>1, <2>2, HeapPreserved DEF Typed, Counts, Dispatching
  <2> QED
    BY <2>1, <2>3 DEF Typed
<1>2. CASE UNCHANGED vars
  <2>1. UNCHANGED <<accepted, finished, error, call, since, q, wpc, right, mode, pc, todo, py,
                    st, mem, arrived, ready, ops, cell, val, strayed>>
    BY <1>2 DEF vars, runtimeVars, workerVars, heapVars, eagerVars
  <2>2. Kept' = Kept /\ Over' = Over /\ Defined' = Defined /\ Dispatching' = Dispatching
    BY <2>1 DEF Kept, Captured, Over, Defined, Dispatching
  <2> QED
    BY <2>1, <2>2 DEF Typed, Scalars, Heap, Counts, Control
<1> QED
  BY <1>1, <1>2

\* holds at the start,
LEMMA InitTyped == Init => Typed
<1> SUFFICES ASSUME Init PROVE Typed
  OBVIOUS
<1>1. Scalars /\ Heap
  BY InitScalars, InitHeap
<1>2. q = <<>> /\ wpc = "idle" /\ Len(q) = 0
  BY DEF Init
<1>3. accepted = 0 /\ finished = {} /\ error = 0 /\ call[Python] = "none"
  BY DEF Init, Runtime!Init
<1>4. Over = 0
  <2>1. Len(q) = 0 /\ accepted = 0 /\ wpc # "drop"
    BY <1>2, <1>3
  <2> QED
    BY <2>1 DEF Over
<1>5. Counts
  BY <1>2, <1>3, <1>4 DEF Counts
<1>6. Control
  BY <1>3, <1>4 DEF Init, Control, Dispatching
<1> QED
  BY <1>1, <1>5, <1>6 DEF Typed

\* and always.
LEMMA TypedInvariant == Spec => []Typed
<1> QED
  BY InitTyped, TypedPreserved, PTL DEF Spec

-----------------------------------------------------------------------------
(* What a storage will hold when some of the waiting tasks have run.  W is the  *)
(* tasks by their numbers, S the storages of tensors, g what storages hold now. *)

Writes(W, S, s, j) == \E o \in W[j].outs : At(S, o) = s

\* The last of the tasks before i that write to s is the one that brings v; or
\* none of them writes there, and v is there already.
Leaves(W, S, g, s, i, v) ==
  \/ (\A j \in DOMAIN W : j < i => ~Writes(W, S, s, j)) /\ g[s] = v
  \/ \E j \in DOMAIN W :
       /\ j < i /\ Writes(W, S, s, j) /\ W[j].n = v
       /\ \A k \in DOMAIN W : k < i /\ Writes(W, S, s, k) => k <= j

\* Whoever has seen the tasks before i end has seen the weight arrive.
Awaits(there, W, i) == there \/ \E j \in DOMAIN W : j < i /\ W[j].kind = "event"

Longer(W, V, n, task) ==
  /\ DOMAIN W \subseteq 1..n
  /\ DOMAIN V = DOMAIN W \cup {n + 1}
  /\ \A k \in DOMAIN W : V[k] = W[k]
  /\ V[n + 1] = task

Shorter(W, V, n) ==
  /\ n \in DOMAIN W /\ DOMAIN W \subseteq Nat /\ DOMAIN V = DOMAIN W \ {n}
  /\ \A k \in DOMAIN V : n < k /\ V[k] = W[k]

\* Nothing that matters for s has changed.
LEMMA LeavesStays ==
  ASSUME NEW W, NEW S, NEW Z, NEW g, NEW h, NEW s, NEW i, NEW v,
         \A j \in DOMAIN W : \A o \in W[j].outs : At(Z, o) = At(S, o),
         h[s] = g[s], Leaves(W, S, g, s, i, v)
  PROVE  Leaves(W, Z, h, s, i, v)
<1>1. \A j \in DOMAIN W : Writes(W, Z, s, j) <=> Writes(W, S, s, j)
  BY DEF Writes
<1> QED
  BY <1>1 DEF Leaves

\* A task queued behind changes nothing for those before it.
LEMMA LeavesBehind ==
  ASSUME NEW W, NEW V, NEW S, NEW g, NEW s, NEW n \in Nat, NEW task, Longer(W, V, n, task),
         NEW i \in Nat, i <= n + 1, NEW v, Leaves(W, S, g, s, i, v)
  PROVE  Leaves(V, S, g, s, i, v)
<1>1. \A j \in DOMAIN V : j < i => j \in DOMAIN W
  BY DEF Longer
<1>2. \A j \in DOMAIN W : j \in DOMAIN V /\ V[j] = W[j]
  BY DEF Longer
<1>3. \A j \in DOMAIN W : Writes(V, S, s, j) <=> Writes(W, S, s, j)
  BY <1>2 DEF Writes
<1> QED
  BY <1>1, <1>2, <1>3 DEF Leaves

\* A task that does not write to s changes nothing for those after it.
LEMMA LeavesPassed ==
  ASSUME NEW W, NEW V, NEW S, NEW g, NEW s, NEW n \in Nat, NEW task, Longer(W, V, n, task),
         \A o \in task.outs : At(S, o) # s, NEW v, Leaves(W, S, g, s, n + 1, v)
  PROVE  Leaves(V, S, g, s, n + 2, v)
<1>1. \A j \in DOMAIN V : j \in DOMAIN W \/ (j = n + 1 /\ ~Writes(V, S, s, j))
  BY DEF Longer, Writes
<1>2. \A j \in DOMAIN W : j \in DOMAIN V /\ V[j] = W[j] /\ j < n + 1 /\ j < n + 2
  BY DEF Longer
<1>3. \A j \in DOMAIN W : Writes(V, S, s, j) <=> Writes(W, S, s, j)
  BY <1>2 DEF Writes
<1> QED
  BY <1>1, <1>2, <1>3 DEF Leaves

\* What a task writes is there for those after it.
LEMMA LeavesNew ==
  ASSUME NEW W, NEW V, NEW S, NEW g, NEW s, NEW n \in Nat, NEW task, Longer(W, V, n, task),
         \E o \in task.outs : At(S, o) = s
  PROVE  Leaves(V, S, g, s, n + 2, task.n)
<1>1. n + 1 \in DOMAIN V /\ n + 1 < n + 2 /\ Writes(V, S, s, n + 1) /\ V[n + 1].n = task.n
  BY DEF Longer, Writes
<1>2. \A k \in DOMAIN V : k <= n + 1
  BY DEF Longer
<1> QED
  BY <1>1, <1>2 DEF Leaves

\* The oldest task writes and is over.
LEMMA LeavesOnceWritten ==
  ASSUME NEW W, NEW V, NEW S, NEW g, NEW h, NEW s, NEW n, Shorter(W, V, n),
         NEW i \in Nat, n < i, NEW v, Leaves(W, S, g, s, i, v),
         h[s] = IF Writes(W, S, s, n) THEN W[n].n ELSE g[s]
  PROVE  Leaves(V, S, h, s, i, v)
<1>1. /\ n \in DOMAIN W /\ DOMAIN W \subseteq Nat
      /\ \A j \in DOMAIN V : j \in DOMAIN W /\ n < j /\ V[j] = W[j]
      /\ \A j \in DOMAIN W : j \in DOMAIN V \/ j = n
  BY DEF Shorter
<1>2. \A j \in DOMAIN V : Writes(V, S, s, j) <=> Writes(W, S, s, j)
  BY <1>1 DEF Writes
<1>3. CASE (\A j \in DOMAIN W : j < i => ~Writes(W, S, s, j)) /\ g[s] = v
  BY <1>1, <1>2, <1>3 DEF Leaves
<1>4. ASSUME NEW j \in DOMAIN W, j < i, Writes(W, S, s, j), W[j].n = v,
             \A k \in DOMAIN W : k < i /\ Writes(W, S, s, k) => k <= j
      PROVE  Leaves(V, S, h, s, i, v)
  <2>1. CASE j = n
    <3>1. \A k \in DOMAIN V : k < i => ~Writes(V, S, s, k)
      BY <1>1, <1>2, <1>4, <2>1
    <3> QED
      BY <1>4, <2>1, <3>1 DEF Leaves
  <2>2. CASE j # n
    <3>1. j \in DOMAIN V /\ Writes(V, S, s, j) /\ V[j].n = v
      BY <1>1, <1>2, <1>4, <2>2
    <3>2. \A k \in DOMAIN V : k < i /\ Writes(V, S, s, k) => k <= j
      BY <1>1, <1>2, <1>4
    <3> QED
      BY <1>4, <3>1, <3>2 DEF Leaves
  <2> QED
    BY <2>1, <2>2
<1> QED
  BY <1>3, <1>4 DEF Leaves

\* Whoever waits for the weight still does when a task is queued,
LEMMA AwaitsLonger ==
  ASSUME NEW W, NEW V, NEW n \in Nat, NEW task, Longer(W, V, n, task), NEW i, NEW j \in Nat,
         NEW there, i = j \/ (i = n + 1 /\ j = n + 2), Awaits(there, W, i)
  PROVE  Awaits(there, V, j)
BY DEF Awaits, Longer

\* and when the oldest task is over.
LEMMA AwaitsShorter ==
  ASSUME NEW W, NEW V, NEW n, Shorter(W, V, n), NEW i, NEW there,
         W[n].kind = "event" => there, Awaits(there, W, i)
  PROVE  Awaits(there, V, i)
BY DEF Awaits, Shorter

-----------------------------------------------------------------------------
\* The tasks not yet run to their end, by the numbers they were accepted with.
Waiting == [k \in (Over + 1)..accepted |-> q[k - accepted + Len(q)]]

\* The waiting tasks are those ahead in the queue; the oldest is in turn.
LEMMA WaitingIs ==
  ASSUME Scalars, Heap, Counts
  PROVE  /\ DOMAIN Waiting = (Over + 1)..accepted
         /\ Over \in Nat /\ accepted \in Nat /\ Over <= accepted
         /\ \A k \in DOMAIN Waiting : /\ Waiting[k] \in Task
                                      /\ Operands(Waiting[k]) \subseteq Captured
                                      /\ \E i \in Ahead : Waiting[k] = q[i]
         /\ \A i \in Ahead : \E k \in DOMAIN Waiting : Waiting[k] = q[i]
         /\ wpc = "run" \/ (wpc = "idle" /\ q # <<>>) =>
              Over + 1 \in DOMAIN Waiting /\ Waiting[Over + 1] = Head(q)
<1>1. Len(q) \in Nat /\ accepted \in Nat /\ (q = <<>> <=> Len(q) = 0) /\ Len(q) <= accepted
  BY LenIs DEF Scalars, Counts
<1>2. /\ Over \in Nat /\ accepted \in Nat /\ Over <= accepted
      /\ wpc = "run" \/ (wpc = "idle" /\ q # <<>>) =>
           Over = accepted - Len(q) /\ Over + 1 <= accepted
  BY OverIs
<1>3. DOMAIN q = 1..Len(q) /\ \A i \in 1..Len(q) : q[i] \in Task
  BY DEF Heap
<1>4. DOMAIN Waiting = (Over + 1)..accepted
      /\ \A k \in DOMAIN Waiting : Waiting[k] = q[k - accepted + Len(q)]
  BY DEF Waiting
<1>5. Ahead = {i \in 1..Len(q) : accepted - Len(q) + i \in (Over + 1)..accepted}
  BY <1>1, <1>3 DEF Ahead, Over
<1>6. ASSUME NEW k \in DOMAIN Waiting
      PROVE  /\ Waiting[k] \in Task /\ Operands(Waiting[k]) \subseteq Captured
             /\ \E i \in Ahead : Waiting[k] = q[i]
  <2> DEFINE i == k - accepted + Len(q)
  <2>1. k \in (Over + 1)..accepted /\ Waiting[k] = q[i]
    BY <1>4
  <2>2. i \in 1..Len(q)
    BY <1>1, <1>2, <2>1 DEF Over
  <2>3. i \in Ahead
    BY <1>1, <1>2, <1>5, <2>1, <2>2
  <2>4. Operands(q[i]) \subseteq Captured
    BY <1>3, <2>2 DEF Captured
  <2> HIDE DEF i
  <2> QED
    BY <1>3, <2>1, <2>2, <2>3, <2>4
<1>7. ASSUME NEW i \in Ahead PROVE \E k \in DOMAIN Waiting : Waiting[k] = q[i]
  <2>1. i \in 1..Len(q) /\ accepted - Len(q) + i \in DOMAIN Waiting
    BY <1>4, <1>5
  <2>2. (accepted - Len(q) + i) - accepted + Len(q) = i
    BY <1>1, <2>1
  <2> QED
    BY <1>4, <2>1, <2>2
<1>8. ASSUME wpc = "run" \/ (wpc = "idle" /\ q # <<>>)
      PROVE  Over + 1 \in DOMAIN Waiting /\ Waiting[Over + 1] = Head(q)
  <2>1. Over + 1 \in DOMAIN Waiting /\ (Over + 1) - accepted + Len(q) = 1
    BY <1>1, <1>2, <1>4, <1>8
  <2>2. Head(q) = q[1]
    BY DEF Heap
  <2> QED
    BY <1>4, <2>1, <2>2
<1> QED
  BY <1>2, <1>4, <1>6, <1>7, <1>8

\* A step that neither queues nor ends a task keeps the waiting ones.
LEMMA WaitingStays ==
  ASSUME Scalars, Heap, Counts, UNCHANGED <<accepted, q>>,
         wpc' = wpc \/ (wpc = "idle" /\ wpc' = "run")
  PROVE  Waiting' = Waiting /\ Over' = Over
<1>1. Over' = Over
  BY DEF Over
<1> QED
  BY <1>1 DEF Waiting

\* A task queued is the last of the waiting ones.
LEMMA WaitingGrows ==
  ASSUME Scalars, Heap, Counts, NEW task, Push(task), wpc' = wpc
  PROVE  /\ Longer(Waiting, Waiting', accepted, task)
         /\ Over' = Over /\ accepted' = accepted + 1
<1>1. Len(q) \in Nat /\ accepted \in Nat /\ Over \in Nat /\ Over <= accepted
  BY LenIs, OverIs
<1>2. /\ accepted' = accepted + 1 /\ q' = Append(q, task) /\ Len(q') = Len(q) + 1
      /\ \A i \in 1..Len(q) : q'[i] = q[i]
      /\ q'[Len(q) + 1] = task
  BY LenIs DEF Push, Runtime!Accept, Heap
<1>3. Over' = Over
  BY <1>1, <1>2 DEF Over
<1>4. DOMAIN Waiting = (Over + 1)..accepted
      /\ \A k \in DOMAIN Waiting : Waiting[k] = q[k - accepted + Len(q)]
  BY DEF Waiting
<1>5. DOMAIN Waiting' = (Over + 1)..(accepted + 1)
      /\ \A k \in DOMAIN Waiting' : Waiting'[k] = q'[k - (accepted + 1) + (Len(q) + 1)]
  BY <1>2, <1>3 DEF Waiting
<1>6. ASSUME NEW k \in DOMAIN Waiting PROVE Waiting'[k] = Waiting[k]
  <2>1. k \in (Over + 1)..accepted /\ k \in DOMAIN Waiting'
    BY <1>1, <1>4, <1>5
  <2>2. k - accepted + Len(q) \in 1..Len(q)
        /\ k - (accepted + 1) + (Len(q) + 1) = k - accepted + Len(q)
    BY <1>1, <2>1 DEF Over
  <2> QED
    BY <1>2, <1>4, <1>5, <2>1, <2>2
<1>7. Waiting'[accepted + 1] = task
  <2>1. accepted + 1 \in DOMAIN Waiting'
        /\ (accepted + 1) - (accepted + 1) + (Len(q) + 1) = Len(q) + 1
    BY <1>1, <1>5
  <2> QED
    BY <1>2, <1>5, <2>1
<1>8. DOMAIN Waiting \subseteq 1..accepted /\ DOMAIN Waiting' = DOMAIN Waiting \cup {accepted + 1}
  BY <1>1, <1>4, <1>5
<1> QED
  BY <1>2, <1>3, <1>6, <1>7, <1>8 DEF Longer

\* A task that ends was the first of them.
LEMMA WaitingEnds ==
  ASSUME Scalars, Heap, Counts, wpc = "run", wpc' = "drop", UNCHANGED <<accepted, q>>
  PROVE  /\ Shorter(Waiting, Waiting', Over + 1) /\ Over' = Over + 1
<1>1. Len(q) \in Nat /\ accepted \in Nat /\ Over \in Nat /\ Over + 1 <= accepted
  BY LenIs, OverIs
<1>2. Over' = Over + 1
  BY <1>1 DEF Over
<1>3. /\ DOMAIN Waiting = (Over + 1)..accepted
      /\ \A k \in DOMAIN Waiting : Waiting[k] = q[k - accepted + Len(q)]
  BY DEF Waiting
<1>4. /\ DOMAIN Waiting' = (Over + 2)..accepted
      /\ \A k \in DOMAIN Waiting' : Waiting'[k] = q[k - accepted + Len(q)]
  BY <1>1, <1>2 DEF Waiting
<1> QED
  BY <1>1, <1>2, <1>3, <1>4 DEF Shorter

\* The death of a closure whose task is over is no change.
LEMMA WaitingDropped ==
  ASSUME Scalars, Heap, Counts, wpc = "drop", wpc' = "idle", q' = Tail(q), accepted' = accepted
  PROVE  Waiting' = Waiting /\ Over' = Over
<1>1. Len(q) \in Nat /\ accepted \in Nat /\ Len(q') = Len(q) - 1 /\ q # <<>>
  BY LenIs DEF Scalars, Counts
<1>2. Over' = Over /\ Over = accepted - Len(q) + 1
  BY <1>1 DEF Over
<1>3. \A i \in 1..(Len(q) - 1) : q'[i] = q[i + 1]
  BY <1>1 DEF Heap
<1>4. ASSUME NEW k \in (Over + 1)..accepted
      PROVE  q'[k - accepted + Len(q')] = q[k - accepted + Len(q)]
  <2> DEFINE i == k - accepted + (Len(q) - 1)
  <2>1. i \in 1..(Len(q) - 1) /\ i + 1 = k - accepted + Len(q)
    BY <1>1, <1>2
  <2> QED
    BY <1>1, <1>3, <2>1
<1>5. Waiting' = [k \in (Over + 1)..accepted |-> q'[k - accepted + Len(q')]]
  BY <1>2 DEF Waiting
<1> QED
  BY <1>2, <1>4, <1>5 DEF Waiting

-----------------------------------------------------------------------------
(* The invariant: as long as nobody strays and nothing fails, the waiting tasks *)
(* will leave in each tensor of the program what eager execution has put there,  *)
(* and each of them finds what it is to read when its turn comes.                *)

\* What storages hold; the weight that is being gathered counts as there.
Given == [s \in Storages |-> IF s = Weight /\ ~arrived THEN 2 ELSE mem[s]]

Cells ==
  /\ cell[Weight] = 0 /\ \A t \in py : cell[t] <= ops
  /\ \A t, u \in py : cell[t] = cell[u] => st[t] = st[u]

\* A tensor on the weight's storage is the weight, or made by who waited for it.
WeightNamed == \A t \in py : st[t] = Weight => cell[t] = 0 \/ Awaits(arrived, Waiting, accepted + 1)

WeightUsed ==
  \A i \in DOMAIN Waiting : \A o \in Operands(Waiting[i]) :
    At(st, o) = Weight => Awaits(arrived, Waiting, i)

TensorsRight ==
  \A t \in Defined : Leaves(Waiting, st, Given, st[t], accepted + 1, val[cell[t]])

TasksRight ==
  \A i \in DOMAIN Waiting : \A o \in DOMAIN Waiting[i].ins :
    Leaves(Waiting, st, Given, At(st, o), i, Waiting[i].ins[o])

Readies ==
  \A t \in py : /\ ready[t] <= accepted
                /\ st[t] = Weight /\ ready[t] # 0 => Awaits(arrived, Waiting, ready[t])

Memory == Cells /\ WeightNamed /\ WeightUsed /\ TensorsRight /\ TasksRight /\ Readies

\* What the worker has in hand, and the program.
InHand ==
  /\ wpc = "run" => right /\ (Head(q).kind = "event" => arrived)
  /\ pc = "submit" => Awaits(arrived, Waiting, accepted + 1)
  /\ pc \in {"sync", "direct"} => \A t \in todo.ins \cup todo.outs :
       st[t] = Weight => Awaits(arrived, Waiting, accepted + 1)
  /\ Dispatching => \A t \in todo.outs : ~Shared(t)

Promise == AsPromised => Memory /\ InHand

\* No task that waits has its operands moved.
Unmoved == \A i \in DOMAIN Waiting : \A o \in Operands(Waiting[i]) : At(st', o) = At(st, o)

\* What a closure or Python can reach, somebody holds.
LEMMA HeldIs ==
  ASSUME Typed
  PROVE  /\ \A t \in Kept : st[t] \in Held
         /\ \A o \in Captured : At(st, o) \in Held
         /\ ~arrived => Weight \in Held
         /\ \A i \in DOMAIN Waiting : Operands(Waiting[i]) \subseteq Captured
         /\ \A o \in Captured : At(st, o) \in Storages /\ (o.t # 0 => o.t \in Kept)
         /\ \A t \in py : t \in Kept /\ t \in Tensors /\ st[t] \in Storages
<1>1. \A o : At(st, o) = Where(o)
  BY DEF At, Where
<1>2. /\ \A o \in Captured : At(st, o) \in Storages /\ (o.t # 0 => o.t \in Kept)
      /\ \A t \in py : t \in Kept /\ t \in Tensors /\ st[t] \in Storages
  BY KeptHasStorage DEF Typed
<1>3. \A i \in DOMAIN Waiting : Operands(Waiting[i]) \subseteq Captured
  BY WaitingIs DEF Typed
<1> QED
  BY <1>1, <1>2, <1>3 DEF Held

\* The contents, with the weight counted as there.
LEMMA GivenIs ==
  \A s \in Storages : Given[s] = IF s = Weight /\ ~arrived THEN 2 ELSE mem[s]
  BY DEF Given

\* What waits keeps its promise through a step that only adds to the heap.
LEMMA OldOnes ==
  ASSUME Memory, Unmoved,
         \A i \in DOMAIN Waiting : \A o \in Operands(Waiting[i]) :
           Given'[At(st, o)] = Given[At(st, o)]
  PROVE  /\ \A i \in DOMAIN Waiting :
              /\ \A o \in Operands(Waiting[i]) : At(st', o) = Weight => Awaits(arrived, Waiting, i)
              /\ \A o \in DOMAIN Waiting[i].ins :
                   Leaves(Waiting, st', Given', At(st', o), i, Waiting[i].ins[o])
         /\ \A s, i, v : Leaves(Waiting, st, Given, s, i, v) /\ Given'[s] = Given[s] =>
              Leaves(Waiting, st', Given', s, i, v)
<1>1. \A j \in DOMAIN Waiting : \A o \in Waiting[j].outs : At(st', o) = At(st, o)
  BY DEF Unmoved, Operands
<1>2. ASSUME NEW s, NEW i, NEW v, Leaves(Waiting, st, Given, s, i, v), Given'[s] = Given[s]
      PROVE  Leaves(Waiting, st', Given', s, i, v)
  BY <1>1, <1>2, LeavesStays
<1>3. ASSUME NEW i \in DOMAIN Waiting, NEW o \in DOMAIN Waiting[i].ins
      PROVE  Leaves(Waiting, st', Given', At(st', o), i, Waiting[i].ins[o])
  <2>1. o \in Operands(Waiting[i])
    BY DEF Operands
  <2>2. At(st', o) = At(st, o) /\ Given'[At(st, o)] = Given[At(st, o)]
    BY <2>1 DEF Unmoved
  <2> QED
    BY <1>2, <2>2 DEF Memory, TasksRight
<1>4. \A i \in DOMAIN Waiting : \A o \in Operands(Waiting[i]) :
        At(st', o) = Weight => Awaits(arrived, Waiting, i)
  BY DEF Unmoved, Memory, WeightUsed
<1> QED
  BY <1>2, <1>3, <1>4

\* A task is queued.
LEMMA MemoryGrows ==
  ASSUME Typed, Memory, NEW task, Push(task), wpc' = wpc, arrived' = arrived, Unmoved,
         \A i \in DOMAIN Waiting : \A o \in Operands(Waiting[i]) :
           Given'[At(st, o)] = Given[At(st, o)],
         Cells',
         \A t \in py' : st'[t] = Weight => cell'[t] = 0 \/ Awaits(arrived, Waiting, accepted + 1),
         \A o \in Operands(task) : At(st', o) = Weight => Awaits(arrived, Waiting, accepted + 1),
         \A o \in DOMAIN task.ins :
           Leaves(Waiting, st', Given', At(st', o), accepted + 1, task.ins[o]),
         \A t \in Defined' :
           \/ (\E o \in task.outs : At(st', o) = st'[t]) /\ val'[cell'[t]] = task.n
           \/ /\ \A o \in task.outs : At(st', o) # st'[t]
              /\ Leaves(Waiting, st', Given', st'[t], accepted + 1, val'[cell'[t]]),
         \A t \in py' : /\ ready'[t] \in 0..(accepted + 1)
                        /\ st'[t] = Weight /\ ready'[t] # 0 => Awaits(arrived, Waiting, ready'[t])
  PROVE  Memory'
<1> DEFINE W == Waiting
           V == Waiting'
           n == accepted
<1>1. Longer(W, V, n, task) /\ accepted' = n + 1 /\ n \in Nat
  BY WaitingGrows, WaitingIs DEF Typed
<1>2. /\ DOMAIN V = DOMAIN W \cup {n + 1} /\ V[n + 1] = task
      /\ \A i \in DOMAIN W : V[i] = W[i] /\ i \in Nat /\ i <= n
  BY <1>1 DEF Longer
<1>3. /\ \A i \in DOMAIN W :
           /\ \A o \in Operands(W[i]) : At(st', o) = Weight => Awaits(arrived, W, i)
           /\ \A o \in DOMAIN W[i].ins : Leaves(W, st', Given', At(st', o), i, W[i].ins[o])
  BY OldOnes
<1> HIDE DEF W, V, n
<1>4. ASSUME NEW i \in Nat, Awaits(arrived, W, i) PROVE Awaits(arrived', V, i)
  BY <1>1, <1>4, AwaitsLonger
<1>5. Awaits(arrived, W, n + 1) => Awaits(arrived', V, n + 1) /\ Awaits(arrived', V, n + 2)
  BY <1>1, AwaitsLonger
<1>6. WeightNamed'
  BY <1>1, <1>5 DEF WeightNamed, n, W, V
<1>7. WeightUsed'
  <2> SUFFICES ASSUME NEW i \in DOMAIN V, NEW o \in Operands(V[i]), At(st', o) = Weight
               PROVE  Awaits(arrived', V, i)
    BY DEF WeightUsed, V
  <2>1. CASE i \in DOMAIN W
    BY <1>2, <1>3, <1>4, <2>1
  <2>2. CASE i = n + 1
    BY <1>2, <1>5, <2>2 DEF n, W
  <2> QED
    BY <1>2, <2>1, <2>2
<1>8. TasksRight'
  <2> SUFFICES ASSUME NEW i \in DOMAIN V, NEW o \in DOMAIN V[i].ins
               PROVE  Leaves(V, st', Given', At(st', o), i, V[i].ins[o])
    BY DEF TasksRight, V
  <2>1. /\ i \in Nat /\ i <= n + 1
        /\ Leaves(W, st', Given', At(st', o), i, V[i].ins[o])
    <3>1. CASE i \in DOMAIN W
      BY <1>1, <1>2, <1>3, <3>1
    <3>2. CASE i = n + 1
      BY <1>1, <1>2, <3>2 DEF n, W
    <3> QED
      BY <1>2, <3>1, <3>2
  <2> QED
    BY <1>1, <2>1, LeavesBehind
<1>9. TensorsRight'
  <2> SUFFICES ASSUME NEW t \in Defined'
               PROVE  Leaves(V, st', Given', st'[t], n + 2, val'[cell'[t]])
    BY <1>1 DEF TensorsRight, V
  <2>1. CASE (\E o \in task.outs : At(st', o) = st'[t]) /\ val'[cell'[t]] = task.n
    BY <1>1, <2>1, LeavesNew
  <2>2. CASE /\ \A o \in task.outs : At(st', o) # st'[t]
             /\ Leaves(W, st', Given', st'[t], n + 1, val'[cell'[t]])
    BY <1>1, <2>2, LeavesPassed
  <2> QED
    BY <2>1, <2>2 DEF n, W
<1>10. Readies'
  BY <1>1, <1>4 DEF Readies, n, W, V
<1> QED
  BY <1>6, <1>7, <1>8, <1>9, <1>10 DEF Memory

\* The tasks stay as they are.
LEMMA MemoryKeeps ==
  ASSUME Typed, Memory, Waiting' = Waiting, accepted' = accepted, arrived => arrived', Unmoved,
         \A i \in DOMAIN Waiting : \A o \in Operands(Waiting[i]) :
           Given'[At(st, o)] = Given[At(st, o)],
         Cells',
         \A t \in py' : st'[t] = Weight => cell'[t] = 0 \/ Awaits(arrived', Waiting, accepted + 1),
         \A t \in Defined' : Leaves(Waiting, st', Given', st'[t], accepted + 1, val'[cell'[t]]),
         \A t \in py' : /\ ready'[t] <= accepted
                        /\ st'[t] = Weight /\ ready'[t] # 0 => Awaits(arrived', Waiting, ready'[t])
  PROVE  Memory'
<1>1. \A i : Awaits(arrived, Waiting, i) => Awaits(arrived', Waiting, i)
  BY DEF Awaits
<1>2. /\ \A i \in DOMAIN Waiting :
           /\ \A o \in Operands(Waiting[i]) : At(st', o) = Weight => Awaits(arrived', Waiting, i)
           /\ \A o \in DOMAIN Waiting[i].ins :
                Leaves(Waiting, st', Given', At(st', o), i, Waiting[i].ins[o])
  BY <1>1, OldOnes
<1>3. WeightNamed' /\ WeightUsed'
  BY <1>2 DEF WeightNamed, WeightUsed
<1>4. TensorsRight' /\ TasksRight'
  BY <1>2 DEF TensorsRight, TasksRight
<1>5. Readies'
  BY DEF Readies
<1> QED
  BY <1>3, <1>4, <1>5 DEF Memory

-----------------------------------------------------------------------------
\* A use that does not stray finds the weight, or comes behind its event.
LEMMA ThereIs ==
  ASSUME Typed, Memory, NEW ins \in SUBSET py, NEW outs \in SUBSET py, Strays(ins, outs) = {}
  PROVE  /\ \A t \in ins \cup outs : st[t] = Weight => Awaits(arrived, Waiting, accepted + 1)
         /\ \A t \in outs : ~Shared(t)
<1>1. ~NotThere(ins \cup outs) /\ \A t \in outs : ~Shared(t)
  BY DEF Strays
<1>2. ASSUME NEW t \in ins \cup outs, st[t] = Weight PROVE Awaits(arrived, Waiting, accepted + 1)
  <2>1. CASE cell[t] = 0
    <3>1. arrived \/ \E i \in Ahead : q[i].kind = "event"
      BY <1>1, <2>1 DEF NotThere
    <3>2. ASSUME NEW i \in Ahead, q[i].kind = "event"
          PROVE  Awaits(arrived, Waiting, accepted + 1)
      <4>1. PICK k \in DOMAIN Waiting : Waiting[k] = q[i]
        BY WaitingIs DEF Typed
      <4>2. k < accepted + 1
        BY WaitingIs DEF Typed
      <4> QED
        BY <3>2, <4>1, <4>2 DEF Awaits
    <3> QED
      BY <3>1, <3>2 DEF Awaits
  <2>2. CASE cell[t] # 0
    BY <1>2, <2>2 DEF Memory, WeightNamed
  <2> QED
    BY <2>1, <2>2
<1> QED
  BY <1>1, <1>2

\* Nor is memory disturbed where nothing of it changes.
LEMMA MemoryStays ==
  ASSUME Typed, Memory, Waiting' = Waiting, ops' \in Nat, ops <= ops',
         UNCHANGED <<accepted, py, st, mem, arrived, ready, cell, val>>
  PROVE  Memory'
<1>1. Given' = Given /\ Defined' = Defined /\ Unmoved
  BY DEF Given, Defined, Unmoved
<1>2. Cells'
  <2>1. \A t \in py : cell[t] \in Nat
    BY HeldIs, DispatchAssumption DEF Typed, Heap
  <2>2. ops \in Nat
    BY DispatchAssumption DEF Typed, Scalars
  <2> QED
    BY <2>1, <2>2 DEF Memory, Cells
<1> QED
  BY <1>1, <1>2, MemoryKeeps DEF Memory, WeightNamed, TensorsRight, Readies

\* The task in turn stays in turn when others are queued.
LEMMA WorkerStays ==
  ASSUME Typed, InHand, UNCHANGED <<wpc, right, arrived>>, q' = q \/ \E task : Push(task)
  PROVE  wpc' = "run" => right' /\ (Head(q').kind = "event" => arrived')
<1>1. SUFFICES ASSUME wpc = "run" PROVE right /\ (Head(q').kind = "event" => arrived)
  OBVIOUS
<1>2. q # <<>> /\ q \in Seq(Task)
  BY <1>1 DEF Typed, Counts, Heap
<1>3. Head(q') = Head(q)
  <2>1. \A task : Head(Append(q, task)) = Head(q)
    BY <1>2
  <2> QED
    BY <2>1 DEF Push
<1> QED
  BY <1>1, <1>3 DEF InHand

\* An operator with the caller's output is queued.
LEMMA PushIntoKeeps ==
  ASSUME Typed, Memory, NEW ins \in SUBSET Defined, NEW out \in py, PushInto(ins, out),
         ops' \in 0..MaxOps, ops <= ops', UNCHANGED <<wpc, py, st, mem, arrived, ready, cell>>,
         \A t \in ins \cup {out} : st[t] = Weight => Awaits(arrived, Waiting, accepted + 1),
         ~Shared(out)
  PROVE  Memory'
<1> DEFINE E == Expect("fast", ins)
           task == Compute(E, {Raw(out)}, ops')
<1>1. Push(task) /\ val' = [val EXCEPT ![cell[out]] = ops']
  BY DEF PushInto
<1>2. /\ DOMAIN E \in SUBSET Operand /\ E \in [DOMAIN E -> 0..MaxOps]
      /\ \A o \in DOMAIN E : \E t \in ins : o = Raw(t) /\ E[o] = val[cell[t]]
  <2>1. ins \in SUBSET py /\ Scalars /\ Heap
    BY DEF Defined, Typed
  <2>2. \A t : CaptureIn("fast", t) = Raw(t)
    BY DEF CaptureIn
  <2> QED
    BY <2>1, <2>2, ExpectIs
<1>3. ins \subseteq py /\ py \subseteq Tensors
  BY DEF Defined, Typed, Heap
<1>4. \A t \in py : Raw(t) \in Operand /\ At(st, Raw(t)) = st[t]
  BY <1>3, RawIs
<1> HIDE DEF E
<1>5. Operands(task) = DOMAIN E \cup {Raw(out)} /\ task.ins = E /\ task.outs = {Raw(out)}
      /\ task.n = ops'
  BY <1>2, <1>4, ComputeTyped DEF Compute
<1> HIDE DEF task
<1>6. Given' = Given /\ Unmoved
  BY DEF Given, Unmoved
<1>7. \A t \in py : cell[t] \in 0..MaxOps /\ cell[t] \in Nat /\ st[t] \in Storages
  <2>1. \A t \in py : t \in Tensors /\ st[t] \in Storages
    BY HeldIs
  <2>2. cell \in [Tensors -> 0..MaxOps] /\ 0..MaxOps \subseteq Nat
    BY DispatchAssumption DEF Typed, Heap
  <2> QED
    BY <2>1, <2>2
<1>8. Cells'
  <2>1. ops \in Nat /\ ops' \in Nat
    BY DispatchAssumption DEF Typed, Scalars
  <2> QED
    BY <1>7, <2>1 DEF Memory, Cells
<1>9. ASSUME NEW o \in Operands(task), At(st', o) = Weight
      PROVE  Awaits(arrived, Waiting, accepted + 1)
  BY <1>2, <1>3, <1>4, <1>5, <1>9
<1>10. ASSUME NEW o \in DOMAIN task.ins
       PROVE  Leaves(Waiting, st', Given', At(st', o), accepted + 1, task.ins[o])
  <2>1. PICK t \in ins : o = Raw(t) /\ E[o] = val[cell[t]]
    BY <1>2, <1>5
  <2> QED
    BY <1>3, <1>4, <1>5, <1>6, <2>1 DEF Memory, TensorsRight
<1>11. ASSUME NEW t \in Defined'
       PROVE  \/ (\E o \in task.outs : At(st', o) = st'[t]) /\ val'[cell'[t]] = task.n
              \/ /\ \A o \in task.outs : At(st', o) # st'[t]
                 /\ Leaves(Waiting, st', Given', st'[t], accepted + 1, val'[cell'[t]])
  <2>1. t \in py /\ val'[cell[t]] # 0
    BY DEF Defined
  <2>2. CASE cell[t] = cell[out]
    <3>1. st[t] = st[out]
      BY <2>1, <2>2 DEF Memory, Cells
    <3>2. val'[cell[t]] = ops'
      BY <1>1, <1>7, <2>2 DEF Typed, Heap
    <3> QED
      BY <1>4, <1>5, <3>1, <3>2
  <2>3. CASE cell[t] # cell[out]
    <3>1. st[t] # st[out]
      BY <2>1, <2>3 DEF Shared
    <3>2. val'[cell[t]] = val[cell[t]]
      BY <1>1, <1>7, <2>1, <2>3 DEF Typed, Heap
    <3>3. t \in Defined
      BY <2>1, <3>2 DEF Defined
    <3> QED
      BY <1>4, <1>5, <1>6, <3>1, <3>2, <3>3 DEF Memory, TensorsRight
  <2> QED
    BY <2>2, <2>3
<1>12. \A t \in py' : /\ ready'[t] \in 0..(accepted + 1)
                      /\ st'[t] = Weight /\ ready'[t] # 0 => Awaits(arrived, Waiting, ready'[t])
  <2>1. \A t \in py : ready[t] \in Nat /\ accepted \in Nat
    BY <1>3 DEF Typed, Heap, Scalars
  <2> QED
    BY <2>1 DEF Memory, Readies
<1>13. \A t \in py' : st'[t] = Weight => cell'[t] = 0 \/ Awaits(arrived, Waiting, accepted + 1)
  BY DEF Memory, WeightNamed
<1> QED
  BY <1>1, <1>6, <1>8, <1>9, <1>10, <1>11, <1>12, <1>13, MemoryGrows

\* The operator in hand stays safe while tasks are queued or nothing happens.
LEMMA InHandStays ==
  ASSUME Typed, InHand, UNCHANGED <<wpc, right, arrived, py, st, cell>>,
         q' = q \/ \E task : Push(task),
         \/ Waiting' = Waiting /\ accepted' = accepted
         \/ \E task : Longer(Waiting, Waiting', accepted, task) /\ accepted' = accepted + 1,
         ~Dispatching' \/ (todo' = todo /\ (pc' = pc \/ (pc = "sync" /\ pc' = "direct")))
  PROVE  InHand'
<1>1. wpc' = "run" => right' /\ (Head(q').kind = "event" => arrived')
  BY WorkerStays
<1>2. Awaits(arrived, Waiting, accepted + 1) => Awaits(arrived', Waiting', accepted' + 1)
  <2>1. ASSUME NEW task, Longer(Waiting, Waiting', accepted, task), accepted' = accepted + 1,
               Awaits(arrived, Waiting, accepted + 1)
        PROVE  Awaits(arrived', Waiting', accepted' + 1)
    <3>1. accepted \in Nat /\ accepted' + 1 = accepted + 2 /\ accepted + 2 \in Nat
      BY <2>1 DEF Typed, Scalars
    <3> QED
      BY <2>1, <3>1, AwaitsLonger
  <2> QED
    BY <2>1
<1>3. \A t : Shared(t)' <=> Shared(t)
  BY DEF Shared
<1> QED
  BY <1>1, <1>2, <1>3 DEF InHand, Dispatching

\* With no operator in hand only the worker matters.
LEMMA NotDispatching ==
  ASSUME Typed, InHand, UNCHANGED <<wpc, right, arrived>>, q' = q \/ \E task : Push(task),
         ~Dispatching'
  PROVE  InHand'
BY WorkerStays DEF InHand, Dispatching

\* The number of an operator is new.
LEMMA CallsIs ==
  ASSUME Typed, Calls
  PROVE  /\ ops' \in 0..MaxOps /\ ops' \in Nat /\ ops <= ops' /\ ops < ops' /\ ops' # 0
         /\ pc = "py" /\ ~Dispatching /\ strayed = {}
BY DispatchAssumption DEF Typed, Scalars, Calls, Dispatching

\* Where something is promised the program goes on.
LEMMA NoRethrow == AsPromised' => ~Rethrows
  BY DEF AsPromised, Rethrows, runtimeVars

\* Each action keeps the invariant while nobody strays and nothing fails.
LEMMA SubmitIntoKeeps ==
  ASSUME Typed, Memory, InHand, NEW ins \in InputSets, NEW out \in py, SubmitInto(ins, out),
         AsPromised'
  PROVE  Memory' /\ InHand'
<1>1. PushInto(ins, out) /\ Calls /\ UNCHANGED <<wpc, right, py, st, mem, arrived, ready, cell>>
  BY NoRethrow DEF SubmitInto, heapVars
<1>2. ins \in SUBSET Defined /\ ins \in SUBSET py /\ {out} \in SUBSET py
  BY DEF InputSets, Defined
<1>3. Strays(ins, {out}) = {}
  BY DEF SubmitInto, AsPromised
<1>4. /\ \A t \in ins \cup {out} : st[t] = Weight => Awaits(arrived, Waiting, accepted + 1)
      /\ ~Shared(out)
  BY <1>2, <1>3, ThereIs
<1>5. Memory'
  BY <1>1, <1>2, <1>4, CallsIs, PushIntoKeeps
<1>6. InHand'
  <2>1. ~Dispatching' /\ \E task : Push(task)
    BY <1>1 DEF PushInto, Dispatching
  <2> QED
    BY <1>1, <2>1, NotDispatching
<1> QED
  BY <1>5, <1>6

\* The operator behind its weight's poll.
LEMMA SubmitRestKeeps ==
  ASSUME Typed, Memory, InHand, SubmitRest, AsPromised'
  PROVE  Memory' /\ InHand'
<1>1. PICK out \in todo.outs : PushInto(todo.ins, out)
  BY NoRethrow DEF SubmitRest
<1>2. pc = "submit" /\ ops' = ops
      /\ UNCHANGED <<wpc, right, py, st, mem, arrived, ready, cell>>
  BY DEF SubmitRest, heapVars
<1>3. todo.ins \in SUBSET Defined /\ out \in py /\ Dispatching
  BY <1>2 DEF Typed, Control, Dispatching
<1>4. Awaits(arrived, Waiting, accepted + 1) /\ ~Shared(out)
  BY <1>2, <1>3 DEF InHand
<1>5. ops' \in 0..MaxOps /\ ops <= ops'
  BY <1>2, DispatchAssumption DEF Typed, Scalars
<1>6. Memory'
  BY <1>1, <1>2, <1>3, <1>4, <1>5, PushIntoKeeps
<1>7. InHand'
  <2>1. ~Dispatching' /\ \E task : Push(task)
    BY <1>1 DEF PushInto, Dispatching
  <2> QED
    BY <1>2, <2>1, NotDispatching
<1> QED
  BY <1>6, <1>7

\* A task that neither reads nor writes, where tensors are left alone.
LEMMA MarkKeeps ==
  ASSUME Typed, Memory, NEW task, Push(task), Operands(task) = {}, task.outs = {}, task.ins = <<>>,
         ops' \in Nat, ops <= ops', UNCHANGED <<wpc, py, st, mem, arrived, ready, cell, val>>
  PROVE  Memory'
<1>1. Given' = Given /\ Defined' = Defined /\ Unmoved
  BY DEF Given, Defined, Unmoved
<1>2. \A t \in py : t \in Tensors
  BY HeldIs
<1>3. \A t \in py : cell[t] \in Nat /\ ready[t] \in Nat
  <2>1. cell \in [Tensors -> 0..MaxOps] /\ 0..MaxOps \subseteq Nat /\ ready \in [Tensors -> Nat]
    BY DispatchAssumption DEF Typed, Heap
  <2> QED
    BY <1>2, <2>1
<1>4. ops \in Nat /\ accepted \in Nat
  BY DispatchAssumption DEF Typed, Scalars
<1>5. Cells'
  BY <1>3, <1>4 DEF Memory, Cells
<1>6. \A t \in py' : /\ ready'[t] \in 0..(accepted + 1)
                     /\ st'[t] = Weight /\ ready'[t] # 0 => Awaits(arrived, Waiting, ready'[t])
  BY <1>3, <1>4 DEF Memory, Readies
<1>7. DOMAIN task.ins = {}
  OBVIOUS
<1> QED
  BY <1>1, <1>5, <1>6, <1>7, MemoryGrows DEF Memory, WeightNamed, TensorsRight

\* The poll of the weight.
LEMMA SubmitEventKeeps ==
  ASSUME Typed, Memory, InHand, NEW ins \in InputSets, NEW out \in py, SubmitEvent(ins, out),
         AsPromised'
  PROVE  Memory' /\ InHand'
<1>1. /\ Push(Event) /\ Calls /\ todo' = [ins |-> ins, outs |-> {out}] /\ pc' = "submit"
      /\ UNCHANGED <<wpc, right, py, st, mem, arrived, ready, cell, val>>
  BY NoRethrow DEF SubmitEvent, heapVars, eagerVars
<1>2. Event.ins = <<>> /\ Event.outs = {} /\ Operands(Event) = {} /\ Event.kind = "event"
  BY MarksTyped DEF Event, Mark
<1>3. Memory'
  BY <1>1, <1>2, CallsIs, MarkKeeps
<1>4. Strays({}, {out}) = {}
  BY DEF SubmitEvent, AsPromised
<1>5. ~Shared(out)
  BY <1>4, ThereIs
<1>6. Awaits(arrived', Waiting', accepted' + 1)
  <2>1. Longer(Waiting, Waiting', accepted, Event) /\ accepted' = accepted + 1 /\ accepted \in Nat
    BY <1>1, WaitingGrows DEF Typed, Scalars
  <2>2. accepted + 1 \in DOMAIN Waiting' /\ Waiting'[accepted + 1] = Event
        /\ accepted + 1 < accepted' + 1
    BY <2>1 DEF Longer
  <2> QED
    BY <1>2, <2>2 DEF Awaits
<1>7. InHand'
  <2>1. wpc' = "run" => right' /\ (Head(q').kind = "event" => arrived')
    BY <1>1, WorkerStays
  <2>2. ~Shared(out)'
    BY <1>1, <1>5 DEF Shared
  <2>3. \A t \in todo'.outs : t = out
    BY <1>1
  <2> QED
    BY <1>1, <1>6, <2>1, <2>2, <2>3 DEF InHand
<1> QED
  BY <1>3, <1>7

\* The destination is re-pointed, and nobody was using it.
LEMMA CopyKeeps ==
  ASSUME Typed, Memory, InHand, NEW dst \in py, NEW src \in Defined, Copy(dst, src), AsPromised'
  PROVE  Memory' /\ InHand'
<1>1. /\ Push(Ready) /\ ready' = [ready EXCEPT ![dst] = accepted'] /\ pc' = pc /\ Calls
      /\ st' = [st EXCEPT ![dst] = st[src]] /\ dst # src
      /\ val' = [val EXCEPT ![cell[dst]] = val[cell[src]]]
      /\ UNCHANGED <<wpc, right, todo, py, mem, arrived, cell>>
  BY NoRethrow DEF Copy, Marker
<1>2. Strays({src, dst}, {}) = {} /\ ~Viewed(dst) /\ ~Pending(dst)
  BY DEF Copy, AsPromised
<1>3. src \in py /\ src \in Tensors /\ dst \in Tensors /\ py \subseteq Tensors
      /\ st[src] \in Storages
  BY HeldIs DEF Defined
<1>4. st[src] = Weight => Awaits(arrived, Waiting, accepted + 1)
  BY <1>2, <1>3, ThereIs
<1>5. accepted' = accepted + 1 /\ accepted \in Nat
  BY <1>1 DEF Push, Runtime!Accept, Typed, Scalars
<1>6. /\ st'[dst] = st[src] /\ \A t \in Tensors \ {dst} : st'[t] = st[t]
      /\ ready'[dst] = accepted + 1 /\ \A t \in Tensors \ {dst} : ready'[t] = ready[t]
  BY <1>1, <1>3, <1>5 DEF Typed, Heap
<1>7. \A t \in py : cell[t] \in 0..MaxOps /\ cell[t] \in Nat /\ ready[t] \in Nat
  <2>1. cell \in [Tensors -> 0..MaxOps] /\ ready \in [Tensors -> Nat]
    BY DEF Typed, Heap
  <2>2. 0..MaxOps \subseteq Nat
    BY DispatchAssumption
  <2> QED
    BY <1>3, <2>1, <2>2
<1>8. \A t \in py \ {dst} : cell[t] # cell[dst]
  BY <1>2 DEF Viewed
<1>9. val'[cell[dst]] = val[cell[src]] /\ \A t \in py \ {dst} : val'[cell[t]] = val[cell[t]]
  BY <1>1, <1>7, <1>8 DEF Typed, Heap
<1>10. Unmoved
  <2>1. \A i \in DOMAIN Waiting : \A o \in Operands(Waiting[i]) : o.t # dst
    <3> SUFFICES ASSUME NEW i \in DOMAIN Waiting, NEW o \in Operands(Waiting[i]), o.t = dst
                 PROVE  FALSE
      OBVIOUS
    <3>1. PICK k \in Ahead : Waiting[i] = q[k]
      BY WaitingIs DEF Typed
    <3> QED
      BY <1>2, <3>1 DEF Pending
  <2>2. \A o \in Captured : o.t # 0 => o.t \in Tensors
    BY KeptHasStorage DEF Typed
  <2> QED
    BY <1>6, <2>1, <2>2, HeldIs DEF Unmoved, At
<1>11. Given' = Given
  BY <1>1 DEF Given
<1>12. Cells'
  <2>1. ops \in Nat /\ ops' \in Nat /\ ops <= ops'
    BY <1>1, CallsIs, DispatchAssumption DEF Typed, Scalars
  <2>2. \A t \in py : cell[t] <= ops'
    BY <1>7, <2>1 DEF Memory, Cells
  <2>3. ASSUME NEW t \in py, NEW u \in py, cell[t] = cell[u] PROVE st'[t] = st'[u]
    BY <1>3, <1>6, <1>8, <2>3 DEF Memory, Cells
  <2> QED
    BY <1>1, <2>2, <2>3 DEF Memory, Cells
<1>13. \A t \in py' : st'[t] = Weight => cell'[t] = 0 \/ Awaits(arrived, Waiting, accepted + 1)
  BY <1>1, <1>3, <1>4, <1>6 DEF Memory, WeightNamed
<1>14. ASSUME NEW t \in Defined'
       PROVE  Leaves(Waiting, st', Given', st'[t], accepted + 1, val'[cell'[t]])
  <2>1. t \in py /\ val'[cell[t]] # 0
    BY <1>1 DEF Defined
  <2>2. PICK u \in Defined : st'[t] = st[u] /\ val'[cell[t]] = val[cell[u]]
    <3>1. CASE t = dst
      BY <1>6, <1>9, <3>1
    <3>2. CASE t # dst
      BY <1>3, <1>6, <1>9, <2>1, <3>2 DEF Defined
    <3> QED
      BY <3>1, <3>2
  <2>3. Leaves(Waiting, st, Given, st[u], accepted + 1, val[cell[u]])
    BY DEF Memory, TensorsRight
  <2> QED
    BY <1>1, <1>10, <1>11, <2>2, <2>3, OldOnes
<1>15. \A t \in py' : /\ ready'[t] \in 0..(accepted + 1)
                      /\ st'[t] = Weight /\ ready'[t] # 0 => Awaits(arrived, Waiting, ready'[t])
  <2>1. \A t \in py : ready[t] <= accepted
                      /\ (st[t] = Weight /\ ready[t] # 0 => Awaits(arrived, Waiting, ready[t]))
    BY DEF Memory, Readies
  <2> QED
    BY <1>1, <1>3, <1>4, <1>5, <1>6, <1>7, <2>1
<1>16. Operands(Ready) = {} /\ Ready.outs = {} /\ DOMAIN Ready.ins = {}
  BY MarksTyped DEF Ready, Mark
<1>17. Memory'
  BY <1>1, <1>10, <1>11, <1>12, <1>13, <1>14, <1>15, <1>16, MemoryGrows
<1>18. InHand'
  BY <1>1, CallsIs, NotDispatching DEF Dispatching
<1> QED
  BY <1>17, <1>18

\* A new tensor is one that nobody can mistake for another.
LEMMA NewTensorKeeps ==
  ASSUME Typed, Memory, Calls, NEW t \in FreeTensors, NEW content \in 0..MaxOps,
         NewTensor(t, content), arrived' = arrived
  PROVE  /\ Unmoved /\ Cells' /\ py' = py \cup {t} /\ t \notin py
         /\ \A i \in DOMAIN Waiting : \A o \in Operands(Waiting[i]) :
              Given'[At(st, o)] = Given[At(st, o)]
         /\ \A u \in py : /\ st'[u] = st[u] /\ st[u] # st'[t] /\ Given'[st[u]] = Given[st[u]]
                          /\ cell'[u] = cell[u] /\ cell[u] # ops' /\ cell[u] \in 0..MaxOps
         /\ cell'[t] = ops' /\ Given'[st'[t]] = content
         /\ st'[t] = Weight => arrived
         /\ \A s \in Storages \ {st'[t]} : Given'[s] = Given[s]
         /\ \A u \in py' :
              /\ st'[u] = Weight => cell'[u] = 0 \/ Awaits(arrived, Waiting, accepted + 1)
              /\ ready'[u] \in 0..accepted
              /\ st'[u] = Weight /\ ready'[u] # 0 => Awaits(arrived, Waiting, ready'[u])
<1>1. ops' \in 0..MaxOps /\ ops' \in Nat /\ ops <= ops' /\ ops < ops' /\ ops' # 0
  BY CallsIs
<1>2. /\ t \in Tensors \ Kept
      /\ st'[t] \in Storages \ Held
      /\ \A u \in Tensors \ {t} : st'[u] = st[u]
      /\ mem'[st'[t]] = content
      /\ \A s \in Storages \ {st'[t]} : mem'[s] = mem[s]
      /\ ready'[t] = 0
      /\ \A u \in Tensors \ {t} : ready'[u] = ready[u]
      /\ cell'[t] = ops'
      /\ \A u \in Tensors \ {t} : cell'[u] = cell[u]
      /\ py' = py \cup {t}
  BY <1>1, NewTensorIs DEF Typed
<1>3. /\ \A u \in py : u \in Kept /\ u \in Tensors /\ st[u] \in Storages /\ st[u] \in Held
      /\ \A o \in Captured : At(st, o) \in Storages /\ At(st, o) \in Held /\ (o.t # 0 => o.t \in Kept)
      /\ ~arrived => Weight \in Held
      /\ \A i \in DOMAIN Waiting : Operands(Waiting[i]) \subseteq Captured
  BY HeldIs
<1>4. Kept \subseteq Tensors
  BY KeptHasStorage DEF Typed
<1>5. Unmoved
  BY <1>2, <1>3, <1>4 DEF Unmoved, At
<1>6. \A s \in Storages \ {st'[t]} : Given'[s] = Given[s]
  BY <1>2 DEF Given
<1>7. st'[t] = Weight => arrived
  BY <1>2, <1>3
<1>8. Given'[st'[t]] = content
  BY <1>2, <1>7 DEF Given
<1>9. \A i \in DOMAIN Waiting : \A o \in Operands(Waiting[i]) : Given'[At(st, o)] = Given[At(st, o)]
  BY <1>2, <1>3, <1>6
<1>10. \A u \in py : cell[u] \in 0..MaxOps /\ cell[u] \in Nat /\ ready[u] \in Nat /\ u # t
  <2>1. cell \in [Tensors -> 0..MaxOps] /\ ready \in [Tensors -> Nat]
    BY DEF Typed, Heap
  <2>2. 0..MaxOps \subseteq Nat
    BY DispatchAssumption
  <2> QED
    BY <1>2, <1>3, <2>1, <2>2
<1>11. ops \in Nat /\ accepted \in Nat
  BY DispatchAssumption DEF Typed, Scalars
<1>12. \A u \in py : /\ st'[u] = st[u] /\ st[u] # st'[t] /\ Given'[st[u]] = Given[st[u]]
                     /\ cell'[u] = cell[u] /\ cell[u] # ops' /\ cell[u] \in 0..MaxOps
  BY <1>1, <1>2, <1>3, <1>6, <1>10, <1>11 DEF Memory, Cells
<1>13. Cells'
  <2>1. Weight \in py
    BY DEF Typed, Control
  <2>2. cell'[Weight] = 0
    BY <1>12, <2>1 DEF Memory, Cells
  <2>3. \A u \in py' : cell'[u] <= ops'
    BY <1>1, <1>2, <1>10, <1>11, <1>12 DEF Memory, Cells
  <2>4. \A x, y \in py' : cell'[x] = cell'[y] => st'[x] = st'[y]
    BY <1>2, <1>12 DEF Memory, Cells
  <2> QED
    BY <2>2, <2>3, <2>4 DEF Cells
<1>14. ASSUME NEW u \in py'
       PROVE  /\ st'[u] = Weight => cell'[u] = 0 \/ Awaits(arrived, Waiting, accepted + 1)
              /\ ready'[u] \in 0..accepted
              /\ st'[u] = Weight /\ ready'[u] # 0 => Awaits(arrived, Waiting, ready'[u])
  <2>1. CASE u = t
    BY <1>2, <1>7, <1>11, <2>1 DEF Awaits
  <2>2. CASE u \in py
    BY <1>2, <1>3, <1>10, <1>11, <1>12, <2>2 DEF Memory, WeightNamed, Readies
  <2> QED
    BY <1>2, <2>1, <2>2
<1>15. t \notin py
  BY <1>2, <1>3
<1> QED
  BY <1>2, <1>5, <1>6, <1>7, <1>8, <1>9, <1>12, <1>13, <1>14, <1>15

\* An operator with an output of its own is queued.
LEMMA SubmitNewKeeps ==
  ASSUME Typed, Memory, InHand, NEW form, NEW ins \in SUBSET Defined, SubmitNew(form, ins),
         AsPromised'
  PROVE  Memory' /\ InHand'
<1>1. PICK t \in FreeTensors :
        /\ NewTensor(t, 0)
        /\ Push(Compute(Expect(form, ins), {NewOutput(form, t, st'[t])}, ops'))
  BY NoRethrow DEF SubmitNew
<1>2. /\ Calls /\ val' = [val EXCEPT ![ops'] = ops'] /\ pc' = pc
      /\ UNCHANGED <<wpc, right, todo, arrived>>
  BY NoRethrow DEF SubmitNew
<1> DEFINE out == NewOutput(form, t, st'[t])
           E == Expect(form, ins)
           task == Compute(E, {out}, ops')
<1>3. ins \in SUBSET py
  BY DEF Defined
<1>4. ops' \in 0..MaxOps /\ ops' # 0
  BY <1>2, CallsIs
<1>5. /\ Operands(task) = DOMAIN E \cup {out} /\ At(st', out) = st'[t]
      /\ \A o \in DOMAIN E : o.t \in py \cup {0}
  BY <1>1, <1>3, <1>4, SubmitNewIs DEF Typed
<1>6. \A o \in DOMAIN E : \E u \in ins : o = CaptureIn(form, u) /\ E[o] = val[cell[u]]
  BY <1>3, ExpectIs DEF Typed
<1>7. task.ins = E /\ task.outs = {out} /\ task.n = ops'
  BY DEF Compute
<1> HIDE DEF out, E, task
<1>8. /\ Unmoved /\ Cells' /\ py' = py \cup {t} /\ t \notin py
      /\ \A i \in DOMAIN Waiting : \A o \in Operands(Waiting[i]) :
           Given'[At(st, o)] = Given[At(st, o)]
      /\ \A u \in py : /\ st'[u] = st[u] /\ st[u] # st'[t] /\ Given'[st[u]] = Given[st[u]]
                       /\ cell'[u] = cell[u] /\ cell[u] # ops' /\ cell[u] \in 0..MaxOps
      /\ cell'[t] = ops' /\ (st'[t] = Weight => arrived)
      /\ \A u \in py' :
           /\ st'[u] = Weight => cell'[u] = 0 \/ Awaits(arrived, Waiting, accepted + 1)
           /\ ready'[u] \in 0..accepted
           /\ st'[u] = Weight /\ ready'[u] # 0 => Awaits(arrived, Waiting, ready'[u])
  <2>1. 0 \in 0..MaxOps
    BY DispatchAssumption
  <2>2. /\ Unmoved /\ Cells' /\ py' = py \cup {t} /\ t \notin py
        /\ cell'[t] = ops' /\ (st'[t] = Weight => arrived)
    BY <1>1, <1>2, <2>1, NewTensorKeeps
  <2>3. /\ \A i \in DOMAIN Waiting : \A o \in Operands(Waiting[i]) :
             Given'[At(st, o)] = Given[At(st, o)]
        /\ \A u \in py : /\ st'[u] = st[u] /\ st[u] # st'[t] /\ Given'[st[u]] = Given[st[u]]
                         /\ cell'[u] = cell[u] /\ cell[u] # ops' /\ cell[u] \in 0..MaxOps
    BY <1>1, <1>2, <2>1, NewTensorKeeps
  <2>4. \A u \in py' :
           /\ st'[u] = Weight => cell'[u] = 0 \/ Awaits(arrived, Waiting, accepted + 1)
           /\ ready'[u] \in 0..accepted
           /\ st'[u] = Weight /\ ready'[u] # 0 => Awaits(arrived, Waiting, ready'[u])
    BY <1>1, <1>2, <2>1, NewTensorKeeps
  <2> QED
    BY <2>2, <2>3, <2>4
<1>9. \A u \in ins : At(st', CaptureIn(form, u)) = st[u]
  <2>1. \A u \in py : u # 0 /\ u \in Tensors
    BY HeldIs, DispatchAssumption
  <2> QED
    BY <1>3, <1>8, <2>1 DEF CaptureIn, Raw, Detached, At
<1>10. Strays(ins, {}) = {}
  BY DEF SubmitNew, AsPromised
<1>11. \A u \in ins : st[u] = Weight => Awaits(arrived, Waiting, accepted + 1)
  BY <1>3, <1>10, ThereIs
<1>12. ASSUME NEW o \in Operands(task), At(st', o) = Weight
       PROVE  Awaits(arrived, Waiting, accepted + 1)
  <2>1. CASE o = out
    BY <1>5, <1>8, <1>12, <2>1 DEF Awaits
  <2>2. CASE o \in DOMAIN E
    BY <1>6, <1>9, <1>11, <1>12, <2>2
  <2> QED
    BY <1>5, <2>1, <2>2
<1>13. /\ \A s, i, v : Leaves(Waiting, st, Given, s, i, v) /\ Given'[s] = Given[s] =>
            Leaves(Waiting, st', Given', s, i, v)
  BY <1>8, OldOnes
<1>14. \A u \in Defined : Leaves(Waiting, st', Given', st[u], accepted + 1, val[cell[u]])
  BY <1>8, <1>13 DEF Memory, TensorsRight, Defined
<1>15. ASSUME NEW o \in DOMAIN task.ins
       PROVE  Leaves(Waiting, st', Given', At(st', o), accepted + 1, task.ins[o])
  BY <1>6, <1>7, <1>9, <1>14
<1>16. ASSUME NEW u \in Defined'
       PROVE  \/ (\E o \in task.outs : At(st', o) = st'[u]) /\ val'[cell'[u]] = task.n
              \/ /\ \A o \in task.outs : At(st', o) # st'[u]
                 /\ Leaves(Waiting, st', Given', st'[u], accepted + 1, val'[cell'[u]])
  <2>1. u \in py' /\ val'[cell'[u]] # 0
    BY DEF Defined
  <2>2. CASE u = t
    BY <1>2, <1>4, <1>5, <1>7, <1>8, <2>2 DEF Typed, Heap
  <2>3. CASE u \in py
    <3>1. val'[cell'[u]] = val[cell[u]]
      BY <1>2, <1>8, <2>3 DEF Typed, Heap
    <3>2. u \in Defined
      BY <2>1, <2>3, <3>1 DEF Defined
    <3> QED
      BY <1>5, <1>7, <1>8, <1>14, <2>3, <3>1, <3>2
  <2> QED
    BY <1>8, <2>1, <2>2, <2>3
<1>17. accepted \in Nat /\ Push(task)
  BY <1>1 DEF Typed, Scalars, task, E, out
<1>18. Memory'
  <2>1. \A u \in py' : /\ ready'[u] \in 0..(accepted + 1)
                       /\ st'[u] = Weight /\ ready'[u] # 0 => Awaits(arrived, Waiting, ready'[u])
    BY <1>8, <1>17
  <2>2. \A u \in py' : st'[u] = Weight => cell'[u] = 0 \/ Awaits(arrived, Waiting, accepted + 1)
    BY <1>8
  <2> QED
    BY <1>2, <1>8, <1>12, <1>15, <1>16, <1>17, <2>1, <2>2, MemoryGrows
<1>19. InHand'
  BY <1>2, <1>17, CallsIs, NotDispatching DEF Dispatching
<1> QED
  BY <1>18, <1>19

\* zeros and ones are written at once, empty is nothing one may read.
LEMMA CreateKeeps ==
  ASSUME Typed, Memory, InHand, NEW written \in BOOLEAN, Create(written)
  PROVE  Memory' /\ InHand'
<1> DEFINE c == IF written THEN ops' ELSE 0
<1>1. /\ Calls /\ val' = [val EXCEPT ![ops'] = c]
      /\ UNCHANGED <<accepted, q, wpc, right, pc, todo, arrived>>
  BY DEF Create, runtimeVars, workerVars
<1>2. ops' \in 0..MaxOps /\ ops' # 0 /\ c \in 0..MaxOps /\ (c = ops' \/ c = 0)
  BY <1>1, CallsIs, DispatchAssumption
<1>3. PICK t \in FreeTensors : NewTensor(t, c)
  BY DEF Create
<1> HIDE DEF c
<1>4. /\ Unmoved /\ Cells' /\ py' = py \cup {t} /\ t \notin py
      /\ cell'[t] = ops' /\ Given'[st'[t]] = c
      /\ st'[t] \in Storages \ Held
  BY <1>1, <1>2, <1>3, NewTensorKeeps, NewTensorIs DEF Typed
<1>5. \A i \in DOMAIN Waiting : \A o \in Operands(Waiting[i]) : Given'[At(st, o)] = Given[At(st, o)]
  BY <1>1, <1>2, <1>3, NewTensorKeeps
<1>6. \A u \in py : /\ st'[u] = st[u] /\ st[u] # st'[t] /\ Given'[st[u]] = Given[st[u]]
                    /\ cell'[u] = cell[u] /\ cell[u] # ops' /\ cell[u] \in 0..MaxOps
  BY <1>1, <1>2, <1>3, NewTensorKeeps
<1>7. \A u \in py' :
        /\ st'[u] = Weight => cell'[u] = 0 \/ Awaits(arrived, Waiting, accepted + 1)
        /\ ready'[u] \in 0..accepted
        /\ st'[u] = Weight /\ ready'[u] # 0 => Awaits(arrived, Waiting, ready'[u])
  BY <1>1, <1>2, <1>3, NewTensorKeeps
<1>8. val \in [0..MaxOps -> 0..MaxOps]
  BY DEF Typed, Heap
<1>9. val'[ops'] = c /\ \A u \in py : val'[cell[u]] = val[cell[u]]
  BY <1>1, <1>2, <1>6, <1>8
<1>10. Waiting' = Waiting
  BY <1>1, WaitingStays DEF Typed
<1>11. ASSUME NEW u \in Defined'
       PROVE  Leaves(Waiting, st', Given', st'[u], accepted + 1, val'[cell'[u]])
  <2>1. u \in py' /\ val'[cell'[u]] # 0
    BY DEF Defined
  <2>2. CASE u \in py
    <3>1. u \in Defined /\ val'[cell'[u]] = val[cell[u]]
      BY <1>6, <1>9, <2>1, <2>2 DEF Defined
    <3>2. Leaves(Waiting, st, Given, st[u], accepted + 1, val[cell[u]])
      BY <3>1 DEF Memory, TensorsRight
    <3> QED
      BY <1>4, <1>5, <1>6, <2>2, <3>1, <3>2, OldOnes
  <2>3. CASE u = t
    <3>1. \A j \in DOMAIN Waiting : ~Writes(Waiting, st', st'[t], j)
      <4> SUFFICES ASSUME NEW j \in DOMAIN Waiting, NEW o \in Waiting[j].outs,
                          At(st', o) = st'[t]
                   PROVE  FALSE
        BY DEF Writes
      <4>1. o \in Operands(Waiting[j]) /\ o \in Captured
        BY HeldIs DEF Operands
      <4>2. At(st', o) \in Held
        BY <1>4, <4>1, HeldIs DEF Unmoved
      <4> QED
        BY <1>4, <4>2
    <3> QED
      BY <1>4, <1>9, <2>3, <3>1 DEF Leaves
  <2> QED
    BY <1>4, <2>1, <2>2, <2>3
<1>12. Memory'
  <2>1. accepted \in Nat /\ \A u \in py' : ready'[u] <= accepted
    BY <1>7 DEF Typed, Scalars
  <2> QED
    BY <1>1, <1>4, <1>5, <1>7, <1>10, <1>11, <2>1, MemoryKeeps
<1>13. InHand'
  BY <1>1, CallsIs, NotDispatching DEF Dispatching
<1> QED
  BY <1>12, <1>13

\* A view is as good as the tensor it views.
LEMMA ViewKeeps ==
  ASSUME Typed, Memory, InHand, NEW t \in py, View(t)
  PROVE  Memory' /\ InHand'
<1> DEFINE u == Min(FreeTensors)
<1>1. /\ Calls /\ st' = [st EXCEPT ![u] = st[t]] /\ cell' = [cell EXCEPT ![u] = cell[t]]
      /\ ready' = [ready EXCEPT ![u] = 0] /\ py' = py \cup {u}
      /\ UNCHANGED <<accepted, q, wpc, right, pc, todo, arrived, mem, val>>
  BY DEF View, runtimeVars, workerVars
<1>2. u \in Tensors \ Kept
  <2>1. FreeTensors # {} /\ FreeTensors \in SUBSET Nat
    BY DispatchAssumption DEF View, FreeTensors
  <2> QED
    BY <2>1, Least DEF FreeTensors
<1> HIDE DEF u
<1>3. /\ \A x \in py : x \in Kept /\ x \in Tensors /\ st[x] \in Storages
      /\ \A o \in Captured : o.t # 0 => o.t \in Kept /\ o.t \in Tensors
      /\ \A i \in DOMAIN Waiting : Operands(Waiting[i]) \subseteq Captured
  BY HeldIs, KeptHasStorage DEF Typed
<1>4. /\ st'[u] = st[t] /\ cell'[u] = cell[t] /\ ready'[u] = 0
      /\ \A x \in Tensors \ {u} : st'[x] = st[x] /\ cell'[x] = cell[x] /\ ready'[x] = ready[x]
  BY <1>1, <1>2 DEF Typed, Heap
<1>5. Unmoved
  BY <1>2, <1>3, <1>4 DEF Unmoved, At
<1>6. Given' = Given
  BY <1>1 DEF Given
<1>7. Waiting' = Waiting
  BY <1>1, WaitingStays DEF Typed
\* The view is as good as the tensor it views.
<1>8. \A x \in py' : \E y \in py : /\ st'[x] = st[y] /\ cell'[x] = cell[y]
                                   /\ (ready'[x] = 0 \/ (x = y /\ ready'[x] = ready[x]))
  BY <1>1, <1>2, <1>3, <1>4
<1>9. Cells'
  <2>1. cell'[Weight] = 0
    BY <1>2, <1>3, <1>4 DEF Typed, Control, Memory, Cells
  <2>2. ops \in Nat /\ ops' \in Nat /\ ops <= ops'
    BY <1>1, CallsIs, DispatchAssumption DEF Typed, Scalars
  <2>3. \A y \in py : cell[y] \in Nat /\ cell[y] <= ops
    <3>1. cell \in [Tensors -> 0..MaxOps] /\ 0..MaxOps \subseteq Nat
      BY DispatchAssumption DEF Typed, Heap
    <3> QED
      BY <1>3, <3>1 DEF Memory, Cells
  <2>4. \A x \in py' : cell'[x] <= ops'
    BY <1>8, <2>2, <2>3
  <2>5. \A x, z \in py' : cell'[x] = cell'[z] => st'[x] = st'[z]
    BY <1>8 DEF Memory, Cells
  <2> QED
    BY <2>1, <2>4, <2>5 DEF Cells
<1>10. ASSUME NEW x \in Defined'
       PROVE  Leaves(Waiting, st', Given', st'[x], accepted + 1, val'[cell'[x]])
  <2>1. PICK y \in py : st'[x] = st[y] /\ cell'[x] = cell[y]
    BY <1>8 DEF Defined
  <2>2. y \in Defined
    BY <1>1, <2>1 DEF Defined
  <2> QED
    BY <1>1, <1>5, <1>6, <2>1, <2>2, OldOnes DEF Memory, TensorsRight
<1>11. \A x \in py' : st'[x] = Weight => cell'[x] = 0 \/ Awaits(arrived, Waiting, accepted + 1)
  BY <1>8 DEF Memory, WeightNamed
<1>12. \A x \in py' : /\ ready'[x] <= accepted
                      /\ st'[x] = Weight /\ ready'[x] # 0 => Awaits(arrived, Waiting, ready'[x])
  <2>1. accepted \in Nat
    BY DEF Typed, Scalars
  <2>2. \A x \in py : st'[x] = st[x]
    BY <1>2, <1>3, <1>4
  <2> QED
    BY <1>8, <2>1, <2>2 DEF Memory, Readies
<1>13. Memory'
  BY <1>1, <1>5, <1>6, <1>7, <1>9, <1>10, <1>11, <1>12, MemoryKeeps
<1>14. InHand'
  BY <1>1, CallsIs, NotDispatching DEF Dispatching
<1> QED
  BY <1>13, <1>14

\* The steps that touch neither tensors nor tasks.
LEMMA QuietKeeps ==
  ASSUME Typed, Memory, InHand, AsPromised',
         Synced \/ SyncRaises \/ ModeOn \/ ModeOff \/ AsyncSync \/ Shutdown \/ Joined
  PROVE  Memory' /\ InHand'
<1>1. UNCHANGED <<q, wpc, right, py, st, mem, arrived, ready, ops, cell, val>> /\ accepted' = accepted
  BY DEF Synced, SyncRaises, ModeOn, ModeOff, AsyncSync, SyncWith, Shutdown, Joined,
         Runtime!SyncOk, Runtime!SyncError, Runtime!SyncCall, runtimeVars, workerVars,
         heapVars, eagerVars
<1>2. Waiting' = Waiting
  BY <1>1, WaitingStays DEF Typed
<1>3. ops \in Nat
  BY DispatchAssumption DEF Typed, Scalars
<1>4. Memory'
  BY <1>1, <1>2, <1>3, MemoryStays
<1>5. wpc' = "run" => right' /\ (Head(q').kind = "event" => arrived')
  BY <1>1, WorkerStays
<1>6. CASE Synced
  <2>1. pc = "sync" /\ pc' = "direct" /\ todo' = todo
    BY <1>6 DEF Synced
  <2> QED
    BY <1>1, <1>2, <1>4, <2>1, InHandStays
<1>7. CASE SyncRaises \/ ModeOn \/ Shutdown \/ Joined
  <2>1. ~Dispatching' 
    BY <1>7 DEF SyncRaises, ModeOn, Shutdown, Joined, Dispatching
  <2> QED
    BY <1>1, <1>4, <2>1, NotDispatching
<1>8. CASE ModeOff \/ AsyncSync
  <2>1. pc = "py" /\ pc' = "sync" /\ todo' = todo /\ todo = Nothing
    BY <1>8 DEF ModeOff, AsyncSync, SyncWith, Typed, Control
  <2>2. todo'.ins = {} /\ todo'.outs = {}
    BY <2>1 DEF Nothing
  <2> QED
    BY <1>4, <1>5, <2>1, <2>2 DEF InHand
<1> QED
  BY <1>6, <1>7, <1>8

\* An operator that is not queued waits for the others with its tensors in hand.
LEMMA DirectKeeps ==
  ASSUME Typed, Memory, InHand, NEW ins \in SUBSET Defined, NEW outs \in SUBSET py,
         Direct(ins, outs), AsPromised'
  PROVE  Memory' /\ InHand'
<1>1. /\ Calls /\ todo' = [ins |-> ins, outs |-> outs] /\ pc' \in {"sync", "direct"}
      /\ UNCHANGED <<q, wpc, right, py, st, mem, arrived, ready, cell, val>> /\ accepted' = accepted
  BY DEF Direct, Runtime!SyncCall, runtimeVars, workerVars, heapVars, eagerVars
<1>2. Waiting' = Waiting
  BY <1>1, WaitingStays DEF Typed
<1>3. Memory'
  BY <1>1, <1>2, CallsIs, MemoryStays
<1>4. wpc' = "run" => right' /\ (Head(q').kind = "event" => arrived')
  BY <1>1, WorkerStays
<1>5. Strays(ins, outs) = {} /\ ins \in SUBSET py
  BY DEF Direct, AsPromised, Defined
<1>6. /\ \A t \in ins \cup outs : st[t] = Weight => Awaits(arrived, Waiting, accepted + 1)
      /\ \A t \in outs : ~Shared(t)
  BY <1>5, ThereIs
<1>7. \A t \in todo'.outs : ~Shared(t)'
  BY <1>1, <1>6 DEF Shared
<1>8. todo'.ins \cup todo'.outs = ins \cup outs
  BY <1>1
<1> QED
  BY <1>1, <1>2, <1>3, <1>4, <1>6, <1>7, <1>8 DEF InHand

\* An operator that runs at once runs when no task waits: it reads and writes what
\* the eager run does.
LEMMA DirectRunsKeeps ==
  ASSUME Typed, Memory, InHand, DirectRuns
  PROVE  Memory' /\ InHand'
<1>1. /\ pc = "direct" /\ pc' = "py" /\ accepted' = accepted
      /\ UNCHANGED <<q, wpc, right, py, st, arrived, ready, ops, cell>>
  BY DEF DirectRuns, runtimeVars, workerVars, Runtime!SyncEnd
<1>2. DOMAIN Waiting = {} /\ Waiting' = Waiting
  <2>1. Over = accepted /\ accepted \in Nat
    BY <1>1 DEF Typed, Control, Scalars
  <2>2. DOMAIN Waiting = (accepted + 1)..accepted
    BY <2>1, WaitingIs DEF Typed
  <2> QED
    BY <1>1, <2>1, <2>2, WaitingStays DEF Typed
<1>3. /\ \A S, g, s, v, i : Leaves(Waiting, S, g, s, i, v) <=> g[s] = v
      /\ \A i : Awaits(arrived, Waiting, i) <=> arrived
  BY <1>2 DEF Leaves, Awaits
<1>4. /\ todo.ins \subseteq Defined /\ todo.outs \subseteq py
      /\ \A t \in py : t \in Tensors /\ st[t] \in Storages
      /\ Defined \subseteq py
  BY <1>1, HeldIs DEF Typed, Control, Dispatching, Defined
<1>5. /\ \A t \in todo.ins \cup todo.outs : st[t] = Weight => arrived
      /\ \A t \in todo.outs : ~Shared(t)
  BY <1>1, <1>3 DEF InHand, Dispatching
<1>6. \A t \in todo.ins : Content(t) = Eager(t)
  <2> SUFFICES ASSUME NEW t \in todo.ins PROVE mem[st[t]] = val[cell[t]]
    BY DEF Content, Eager
  <2>1. Given[st[t]] = val[cell[t]]
    BY <1>3, <1>4 DEF Memory, TensorsRight
  <2>2. Given[st[t]] = mem[st[t]]
    BY <1>4, <1>5, GivenIs
  <2> QED
    BY <2>1, <2>2
<1>7. mem' = [s \in Storages |-> IF \E t \in todo.outs : st[t] = s THEN ops ELSE mem[s]]
  BY <1>6 DEF DirectRuns
<1>8. \A s \in Storages : /\ (\E t \in todo.outs : st[t] = s) => Given'[s] = ops
                          /\ ~(\E t \in todo.outs : st[t] = s) => Given'[s] = Given[s]
  <2> SUFFICES ASSUME NEW s \in Storages
               PROVE  /\ (\E t \in todo.outs : st[t] = s) => Given'[s] = ops
                      /\ ~(\E t \in todo.outs : st[t] = s) => Given'[s] = Given[s]
    OBVIOUS
  <2>1. Given'[s] = IF s = Weight /\ ~arrived THEN 2 ELSE mem'[s]
    BY <1>1 DEF Given
  <2> QED
    BY <1>5, <1>7, <2>1, GivenIs
<1>9. ASSUME NEW u \in Defined' PROVE Given'[st[u]] = val'[cell[u]]
  <2>1. u \in py /\ val'[cell[u]] # 0 /\ st[u] \in Storages /\ cell[u] \in 0..MaxOps
    BY <1>1, <1>4 DEF Defined, Typed, Heap
  <2>2. val'[cell[u]] = IF \E t \in todo.outs : cell[t] = cell[u] THEN ops ELSE val[cell[u]]
    BY <2>1 DEF DirectRuns, Typed, Heap
  <2>3. CASE \E t \in todo.outs : cell[t] = cell[u]
    <3>1. \E t \in todo.outs : st[t] = st[u]
      BY <1>4, <2>1, <2>3 DEF Memory, Cells
    <3> QED
      BY <1>8, <2>1, <2>2, <2>3, <3>1
  <2>4. CASE ~\E t \in todo.outs : cell[t] = cell[u]
    <3>1. ~\E t \in todo.outs : st[t] = st[u]
      BY <1>4, <1>5, <2>1, <2>4 DEF Shared
    <3>2. u \in Defined
      BY <2>1, <2>2, <2>4 DEF Defined
    <3>3. Given[st[u]] = val[cell[u]]
      BY <1>3, <3>2 DEF Memory, TensorsRight
    <3> QED
      BY <1>8, <2>1, <2>2, <2>4, <3>1, <3>3
  <2> QED
    BY <2>3, <2>4
<1>10. Cells'
  BY <1>1 DEF Memory, Cells
<1>11. Unmoved
  BY <1>2 DEF Unmoved
<1>12. \A t \in Defined' : Leaves(Waiting, st', Given', st'[t], accepted + 1, val'[cell'[t]])
  BY <1>1, <1>3, <1>9
<1>13. Memory'
  BY <1>1, <1>2, <1>10, <1>11, <1>12, MemoryKeeps DEF Memory, WeightNamed, Readies
<1>14. InHand'
  BY <1>1, NotDispatching DEF Dispatching
<1> QED
  BY <1>13, <1>14

-----------------------------------------------------------------------------
(* The worker's steps, and the weight's arrival. *)

\* The task in turn has no writer before it: it reads what it expects.
LEMMA TaskStartsKeeps ==
  ASSUME Typed, Memory, InHand, TaskStarts
  PROVE  Memory' /\ InHand'
<1>1. /\ wpc = "idle" /\ q # <<>> /\ wpc' = "run" /\ accepted' = accepted
      /\ UNCHANGED <<q, py, st, mem, arrived, ready, ops, cell, val, pc, todo>>
  BY DEF TaskStarts, runtimeVars, heapVars, eagerVars
<1>2. Waiting' = Waiting
  BY <1>1, WaitingStays DEF Typed
<1>3. ops \in Nat
  BY DispatchAssumption DEF Typed, Scalars
<1>4. Memory'
  BY <1>1, <1>2, <1>3, MemoryStays
<1> DEFINE n == Over + 1
<1>5. /\ n \in DOMAIN Waiting /\ Waiting[n] = Head(q)
      /\ \A j \in DOMAIN Waiting : ~(j < n)
  BY <1>1, WaitingIs DEF Typed
<1> HIDE DEF n
<1>6. Head(q).kind = "event" => arrived
  BY DEF TaskStarts, Passable
<1>7. ASSUME NEW o \in DOMAIN Head(q).ins PROVE mem[Where(o)] = Head(q).ins[o]
  <2>1. Given[At(st, o)] = Head(q).ins[o]
    BY <1>5 DEF Memory, TasksRight, Leaves
  <2>2. o \in Operands(Waiting[n]) /\ o \in Captured
    BY <1>5, HeldIs DEF Operands
  <2>3. At(st, o) = Weight => arrived
    BY <1>5, <2>2 DEF Memory, WeightUsed, Awaits
  <2>4. At(st, o) \in Storages /\ At(st, o) = Where(o)
    BY <2>2, HeldIs DEF At, Where
  <2> QED
    BY <2>1, <2>3, <2>4, GivenIs
<1>8. right'
  BY <1>7 DEF TaskStarts
<1>9. \A t : Shared(t)' <=> Shared(t)
  BY <1>1 DEF Shared
<1>10. InHand'
  BY <1>1, <1>2, <1>6, <1>8, <1>9 DEF InHand, Dispatching
<1> QED
  BY <1>4, <1>10

\* A task that read the right numbers leaves the right one.
LEMMA TaskEndsKeeps ==
  ASSUME Typed, Memory, InHand, TaskEnds
  PROVE  Memory' /\ InHand'
<1>1. /\ wpc = "run" /\ wpc' = "drop" /\ accepted' = accepted /\ right
      /\ UNCHANGED <<q, py, st, arrived, ready, ops, cell, val, pc, todo>>
  BY DEF TaskEnds, Runtime!Finish, eagerVars, InHand
<1> DEFINE n == Over + 1
           W == Waiting
           V == Waiting'
<1>2. n \in DOMAIN W /\ W[n] = Head(q) /\ Over \in Nat /\ DOMAIN W = n..accepted /\ accepted \in Nat
  BY <1>1, WaitingIs DEF Typed
<1>3. Shorter(W, V, n)
  BY <1>1, WaitingEnds DEF Typed
<1>4. mem' = [s \in Storages |-> IF Writes(W, st, s, n) THEN W[n].n ELSE mem[s]]
  <2>1. \A o : At(st, o) = Where(o)
    BY DEF At, Where
  <2> HIDE DEF n, W
  <2>2. \A s : Writes(W, st, s, n) <=> \E o \in Head(q).outs : Where(o) = s
    BY <1>2, <2>1 DEF Writes
  <2> QED
    BY <1>1, <1>2, <2>2 DEF TaskEnds, Write
<1>5. W[n].kind = "event" => arrived
  BY <1>1, <1>2 DEF InHand
<1>6. Writes(W, st, Weight, n) => arrived
  <2>1. Awaits(arrived, W, n) => arrived
    BY <1>2 DEF Awaits
  <2>2. ASSUME NEW o \in W[n].outs, At(st, o) = Weight PROVE Awaits(arrived, W, n)
    <3>1. o \in Operands(W[n])
      BY <2>2 DEF Operands
    <3> QED
      BY <1>2, <2>2, <3>1 DEF Memory, WeightUsed
  <2> QED
    BY <2>1, <2>2 DEF Writes
<1>7. \A s \in Storages : Given'[s] = IF Writes(W, st, s, n) THEN W[n].n ELSE Given[s]
  <2> SUFFICES ASSUME NEW s \in Storages
               PROVE  Given'[s] = IF Writes(W, st, s, n) THEN W[n].n ELSE Given[s]
    OBVIOUS
  <2>1. Given'[s] = IF s = Weight /\ ~arrived THEN 2 ELSE mem'[s]
    BY <1>1 DEF Given
  <2> QED
    BY <1>4, <1>6, <2>1, GivenIs
<1>8. \A i : Awaits(arrived, W, i) => Awaits(arrived', V, i)
  BY <1>1, <1>3, <1>5, AwaitsShorter
<1>9. \A j \in DOMAIN V : j \in DOMAIN W /\ V[j] = W[j] /\ n < j /\ j \in Nat
  BY <1>3 DEF Shorter
<1>10. Over \in Nat /\ n \in Nat /\ n < accepted + 1 /\ accepted + 1 \in Nat
  BY <1>2
<1> HIDE DEF n, W, V
<1>11. \A s \in Storages : \A i \in Nat : \A v :
         n < i /\ Leaves(W, st, Given, s, i, v) => Leaves(V, st, Given', s, i, v)
  BY <1>3, <1>7, LeavesOnceWritten
<1>12. WeightNamed' /\ WeightUsed'
  <2>1. WeightNamed'
    BY <1>1, <1>8 DEF Memory, WeightNamed, W, V
  <2>2. WeightUsed'
    <3> SUFFICES ASSUME NEW i \in DOMAIN V, NEW o \in Operands(V[i]), At(st, o) = Weight
                 PROVE  Awaits(arrived', V, i)
      BY <1>1 DEF WeightUsed, V
    <3>1. Awaits(arrived, W, i)
      BY <1>9 DEF Memory, WeightUsed, W
    <3> QED
      BY <1>8, <3>1
  <2> QED
    BY <2>1, <2>2
<1>13. TensorsRight'
  <2> SUFFICES ASSUME NEW t \in Defined
               PROVE  Leaves(V, st, Given', st[t], accepted + 1, val[cell[t]])
    BY <1>1 DEF TensorsRight, V, Defined
  <2>1. Leaves(W, st, Given, st[t], accepted + 1, val[cell[t]]) /\ st[t] \in Storages
    BY HeldIs DEF Memory, TensorsRight, W, Defined
  <2> QED
    BY <1>10, <1>11, <2>1
<1>14. TasksRight'
  <2> SUFFICES ASSUME NEW i \in DOMAIN V, NEW o \in DOMAIN V[i].ins
               PROVE  Leaves(V, st, Given', At(st, o), i, V[i].ins[o])
    BY <1>1 DEF TasksRight, V
  <2>1. Leaves(W, st, Given, At(st, o), i, V[i].ins[o])
    BY <1>9 DEF Memory, TasksRight, W
  <2>2. At(st, o) \in Storages
    BY <1>9, HeldIs DEF Operands, W
  <2> QED
    BY <1>9, <1>11, <2>1, <2>2
<1>15. Cells' /\ Readies'
  BY <1>1, <1>8 DEF Memory, Cells, Readies, W, V
<1>16. Memory'
  BY <1>12, <1>13, <1>14, <1>15 DEF Memory
<1>17. \A t : Shared(t)' <=> Shared(t)
  BY <1>1 DEF Shared
<1>18. InHand'
  BY <1>1, <1>8, <1>17 DEF InHand, Dispatching, W, V
<1> QED
  BY <1>16, <1>18

\* The weight arrives with what was counted as there.
LEMMA ArriveKeeps ==
  ASSUME Typed, Memory, InHand, Arrive
  PROVE  Memory' /\ InHand'
<1>1. /\ ~arrived /\ arrived' /\ mem' = [mem EXCEPT ![Weight] = 2] /\ accepted' = accepted
      /\ UNCHANGED <<q, wpc, right, py, st, ready, ops, cell, val, pc, todo>>
  BY DEF Arrive, runtimeVars, workerVars, eagerVars
<1>2. Given' = Given
  <2>1. Given' = [s \in Storages |-> mem'[s]]
    BY <1>1 DEF Given
  <2>2. Given = [s \in Storages |-> IF s = Weight THEN 2 ELSE mem[s]]
    BY <1>1 DEF Given
  <2>3. \A s \in Storages : mem'[s] = IF s = Weight THEN 2 ELSE mem[s]
    BY <1>1 DEF Typed, Heap
  <2> QED
    BY <2>1, <2>2, <2>3
<1>3. Waiting' = Waiting
  BY <1>1, WaitingStays DEF Typed
<1>4. Unmoved /\ Cells' /\ Defined' = Defined
  BY <1>1 DEF Unmoved, Memory, Cells, Defined
<1>5. \A i : Awaits(arrived', Waiting, i)
  BY <1>1 DEF Awaits
<1>6. Memory'
  BY <1>1, <1>2, <1>3, <1>4, <1>5, MemoryKeeps DEF Memory, TensorsRight, Readies
<1>7. \A t : Shared(t)' <=> Shared(t)
  BY <1>1 DEF Shared
<1>8. InHand'
  BY <1>1, <1>3, <1>5, <1>7 DEF InHand, Dispatching
<1> QED
  BY <1>6, <1>8

\* What somebody still holds survives when the rest is freed.
LEMMA FreeKeeps ==
  ASSUME Typed, Memory, Free, py' \subseteq py, Weight \in py', Waiting' = Waiting,
         UNCHANGED <<accepted, arrived, val, ops>>,
         \A i \in DOMAIN Waiting : Operands(Waiting[i]) \subseteq Captured'
  PROVE  Memory' /\ \A t \in py' : st'[t] = st[t] /\ cell'[t] = cell[t]
<1>1. \A t \in Kept' \cap Tensors : st'[t] = st[t] /\ cell'[t] = cell[t] /\ ready'[t] = ready[t]
  BY DEF Free, Forget
<1>2. /\ \A t \in py : t \in Tensors /\ st[t] \in Storages
      /\ \A o \in Captured : /\ At(st, o) \in Storages
                             /\ o.t # 0 => o.t \in Tensors
      /\ \A i \in DOMAIN Waiting : Operands(Waiting[i]) \subseteq Captured
  BY HeldIs, KeptHasStorage DEF Typed
<1>3. \A t \in py' : t \in Kept' \cap Tensors /\ t \in py
  BY <1>2 DEF Kept
<1>4. \A t \in py' : st'[t] = st[t] /\ cell'[t] = cell[t] /\ ready'[t] = ready[t]
  BY <1>1, <1>3
<1>5. Unmoved
  <2> SUFFICES ASSUME NEW i \in DOMAIN Waiting, NEW o \in Operands(Waiting[i]), o.t # 0
               PROVE  st'[o.t] = st[o.t]
    BY DEF Unmoved, At
  <2>1. o.t \in Kept'
    BY DEF Kept
  <2> QED
    BY <1>1, <1>2, <2>1
<1>6. \A s \in Storages : s \in Held' => Given'[s] = Given[s]
  <2>1. \A s \in Storages : s \in Held' => mem'[s] = mem[s]
    BY DEF Free
  <2> QED
    BY <2>1 DEF Given
<1>7. \A i \in DOMAIN Waiting : \A o \in Operands(Waiting[i]) : Given'[At(st, o)] = Given[At(st, o)]
  <2> SUFFICES ASSUME NEW i \in DOMAIN Waiting, NEW o \in Operands(Waiting[i])
               PROVE  Given'[At(st, o)] = Given[At(st, o)]
    OBVIOUS
  <2>1. At(st, o) = At(st', o) /\ At(st, o) \in Storages /\ o \in Captured'
    BY <1>2, <1>5 DEF Unmoved
  <2>2. At(st', o) = Where(o)'
    BY DEF At, Where
  <2>3. At(st', o) \in Held'
    BY <2>1, <2>2 DEF Held
  <2> QED
    BY <1>6, <2>1, <2>3
<1>8. \A t \in py' : Given'[st[t]] = Given[st[t]]
  <2>1. \A t \in py' : st'[t] \in Held'
    BY <1>3 DEF Held
  <2> QED
    BY <1>2, <1>3, <1>4, <1>6, <2>1
<1>9. \A t \in Defined' : t \in py' /\ t \in Defined
  BY <1>3, <1>4 DEF Defined
<1>10. ASSUME NEW t \in Defined'
       PROVE  Leaves(Waiting, st', Given', st'[t], accepted + 1, val'[cell'[t]])
  <2>1. Leaves(Waiting, st, Given, st[t], accepted + 1, val[cell[t]])
    BY <1>9 DEF Memory, TensorsRight
  <2> QED
    BY <1>4, <1>5, <1>7, <1>8, <1>9, <2>1, OldOnes
<1>11. Cells'
  BY <1>3, <1>4 DEF Memory, Cells
<1>12. \A t \in py' : st'[t] = Weight => cell'[t] = 0 \/ Awaits(arrived', Waiting, accepted + 1)
  BY <1>3, <1>4 DEF Memory, WeightNamed
<1>13. \A t \in py' : /\ ready'[t] <= accepted
                      /\ st'[t] = Weight /\ ready'[t] # 0 => Awaits(arrived', Waiting, ready'[t])
  BY <1>3, <1>4 DEF Memory, Readies
<1>14. Memory'
  BY <1>5, <1>7, <1>10, <1>11, <1>12, <1>13, MemoryKeeps
<1> QED
  BY <1>4, <1>14

\* Python forgets a tensor.
LEMMA DropKeeps ==
  ASSUME Typed, Memory, InHand, NEW t \in py \ {Weight}, Drop(t)
  PROVE  Memory' /\ InHand'
<1>1. /\ pc = "py" /\ pc' = pc /\ py' = py \ {t} /\ Free
      /\ UNCHANGED <<q, arrived, accepted, wpc, right, ops, val>>
  BY DEF Drop, runtimeVars
<1>2. Waiting' = Waiting
  BY <1>1, WaitingStays DEF Typed
<1>3. \A i \in DOMAIN Waiting : Operands(Waiting[i]) \subseteq Captured'
  BY <1>1, HeldIs DEF Captured
<1>4. Weight \in py' /\ py' \subseteq py
  BY <1>1 DEF Typed, Control
<1>5. Memory'
  BY <1>1, <1>2, <1>3, <1>4, FreeKeeps
<1>6. InHand'
  BY <1>1, NotDispatching DEF Dispatching
<1> QED
  BY <1>5, <1>6

\* So does a closure.
LEMMA TaskDroppedKeeps ==
  ASSUME Typed, Memory, InHand, TaskDropped
  PROVE  Memory' /\ InHand'
<1>1. /\ wpc = "drop" /\ wpc' = "idle" /\ q' = Tail(q) /\ Free
      /\ UNCHANGED <<accepted, py, arrived, ops, val, pc, todo>>
  BY DEF TaskDropped, runtimeVars
<1>2. Waiting' = Waiting /\ Over' = Over
  BY <1>1, WaitingDropped DEF Typed
<1>3. ASSUME NEW k \in DOMAIN Waiting PROVE Operands(Waiting[k]) \subseteq Captured'
  <2>1. /\ accepted \in Nat /\ Len(q) \in Nat /\ q # <<>> /\ q' \in Seq(Task)
        /\ Len(q') = Len(q) - 1
    BY <1>1, LenIs, TailHeap DEF Typed, Scalars, Counts
  <2>2. k \in (Over + 1)..accepted /\ Over = accepted - Len(q) + 1
    BY <1>1, <2>1, WaitingIs DEF Typed, Over
  <2>3. k - accepted + Len(q') \in DOMAIN q'
    BY <2>1, <2>2
  <2>4. Waiting[k] = q'[k - accepted + Len(q')]
    BY <1>1, <1>2 DEF Waiting
  <2> QED
    BY <2>3, <2>4 DEF Captured
<1>4. Weight \in py' /\ py' \subseteq py
  BY <1>1 DEF Typed, Control
<1>5. Memory' /\ \A t \in py : st'[t] = st[t] /\ cell'[t] = cell[t]
  BY <1>1, <1>2, <1>3, <1>4, FreeKeeps
<1>6. \A t \in py : Shared(t)' <=> Shared(t)
  BY <1>1, <1>5 DEF Shared
<1>7. Dispatching => todo.ins \subseteq py /\ todo.outs \subseteq py
  BY DEF Typed, Control, Defined
<1>8. InHand'
  BY <1>1, <1>2, <1>5, <1>6, <1>7 DEF InHand, Dispatching
<1> QED
  BY <1>5, <1>8

-----------------------------------------------------------------------------
\* The whole invariant holds at the start,
LEMMA InitPromise == Init => Typed /\ Promise
<1> SUFFICES ASSUME Init PROVE Typed /\ Promise
  OBVIOUS
<1>1. Typed
  BY InitTyped
<1>2. /\ q = <<>> /\ Len(q) = 0 /\ wpc = "idle" /\ accepted = 0 /\ Over = 0
      /\ pc = "py" /\ ~arrived /\ todo = Nothing
  <2>1. q = <<>> /\ Len(q) = 0 /\ wpc = "idle" /\ accepted = 0
    BY DEF Init, Runtime!Init
  <2>2. Over = 0
    <3>1. Len(q) = 0 /\ accepted = 0 /\ wpc # "drop"
      BY <2>1
    <3> QED
      BY <3>1 DEF Over
  <2> QED
    BY <2>1, <2>2 DEF Init
<1>3. DOMAIN Waiting = {}
  <2>1. DOMAIN Waiting = (Over + 1)..accepted
    BY <1>1, WaitingIs DEF Typed
  <2> QED
    BY <1>2, <2>1
<1>4. /\ py = {Weight, Input} /\ st[Weight] = Weight /\ st[Input] = Input
      /\ cell[Weight] = 0 /\ cell[Input] = 1 /\ ops = 2
      /\ val[0] = 2 /\ val[1] = 1 /\ mem[Input] = 1
      /\ ready[Weight] = 0 /\ ready[Input] = 0
  BY DispatchAssumption DEF Init, Weight, Input
<1>5. Given[Weight] = 2 /\ Given[Input] = 1
  BY <1>2, <1>4, DispatchAssumption DEF Given, Weight, Input
<1>6. Cells
  BY <1>4 DEF Cells, Weight, Input
<1>7. WeightNamed
  BY <1>4 DEF WeightNamed, Weight, Input
<1>8. TensorsRight
  BY <1>3, <1>4, <1>5 DEF TensorsRight, Leaves, Defined
<1>9. WeightUsed /\ TasksRight
  BY <1>3 DEF WeightUsed, TasksRight
<1>10. Readies
  BY <1>2, <1>4 DEF Readies
<1>11. InHand
  BY <1>2 DEF InHand, Dispatching
<1> QED
  BY <1>1, <1>6, <1>7, <1>8, <1>9, <1>10, <1>11 DEF Promise, Memory

\* Nobody comes back from where nothing is promised.
LEMMA PromisedBefore ==
  ASSUME Typed, Next, AsPromised'
  PROVE  AsPromised
<1> USE DEF AsPromised
<1>1. Calls => strayed = {}
  BY DEF Calls
<1>2. Rethrows => FALSE
  BY NoRethrow
<1>3. \A task : Push(task) => error' = error
  BY DEF Push, Runtime!Accept
<1>4. \A ins, out : PushInto(ins, out) => error' = error
  BY <1>3 DEF PushInto
<1>5. CASE Program
  <2>1. ASSUME NEW form, NEW ins, SubmitNew(form, ins) PROVE AsPromised
    BY <1>1, <1>2, <1>3, <2>1 DEF SubmitNew
  <2>2. ASSUME NEW ins, NEW out, SubmitInto(ins, out) \/ SubmitEvent(ins, out) PROVE AsPromised
    BY <1>1, <1>2, <1>3, <1>4, <2>2 DEF SubmitInto, SubmitEvent
  <2>3. ASSUME NEW dst, NEW src, Copy(dst, src) PROVE AsPromised
    BY <1>1, <1>2, <1>3, <2>3 DEF Copy
  <2>4. ASSUME NEW t, View(t) \/ Create(t) \/ Drop(t) PROVE AsPromised
    BY <2>4 DEF View, Create, Drop, runtimeVars
  <2>5. ASSUME NEW ins, NEW outs, Direct(ins, outs) PROVE AsPromised
    BY <1>1, <2>5 DEF Direct, runtimeVars, Runtime!SyncCall
  <2>6. ASSUME ModeOn \/ ModeOff \/ AsyncSync \/ Shutdown PROVE AsPromised
    BY <2>6 DEF ModeOn, ModeOff, AsyncSync, SyncWith, Shutdown, runtimeVars, Runtime!SyncCall
  <2> QED
    BY <1>5, <2>1, <2>2, <2>3, <2>4, <2>5, <2>6 DEF Program
<1>6. CASE Continues
  <2>1. ASSUME SubmitRest PROVE AsPromised
    BY <1>2, <1>4, <2>1 DEF SubmitRest
  <2>2. ASSUME Synced \/ SyncRaises \/ DirectRuns \/ Joined PROVE AsPromised
    BY <2>2 DEF Synced, SyncRaises, DirectRuns, Joined, runtimeVars, Runtime!SyncOk,
                Runtime!SyncError, Runtime!SyncEnd
  <2> QED
    BY <1>6, <2>1, <2>2 DEF Continues
<1>7. CASE Worker \/ Arrive
  BY <1>7 DEF Worker, TaskStarts, TaskEnds, TaskDropped, Arrive, runtimeVars
<1>8. CASE TaskThrows
  <2>1. error = 0 /\ strayed' = strayed
    BY <1>8 DEF TaskThrows
  <2> QED
    BY <2>1
<1> QED
  BY <1>5, <1>6, <1>7, <1>8 DEF Next

\* every step keeps it,
LEMMA PromisePreserved ==
  ASSUME Typed, Promise, [Next]_vars
  PROVE  Promise'
<1>1. CASE Next
  <2> SUFFICES ASSUME AsPromised' PROVE Memory' /\ InHand'
    BY DEF Promise
  <2>1. Memory /\ InHand
    BY <1>1, PromisedBefore DEF Promise
  <2>2. /\ \A ins \in InputSets : ins \in SUBSET Defined
        /\ {} \in SUBSET Defined
        /\ Defined \subseteq py
    BY DEF InputSets, Defined
  <2>3. CASE Program
    BY <2>1, <2>2, <2>3, SubmitNewKeeps, SubmitIntoKeeps, SubmitEventKeeps, CopyKeeps, ViewKeeps,
       DropKeeps, CreateKeeps, DirectKeeps, QuietKeeps DEF Program
  <2>4. CASE Continues
    BY <2>1, <2>4, SubmitRestKeeps, QuietKeeps, DirectRunsKeeps DEF Continues
  <2>5. CASE Worker \/ Arrive
    BY <2>1, <2>5, TaskStartsKeeps, TaskEndsKeeps, TaskDroppedKeeps, ArriveKeeps DEF Worker
  <2>6. ~TaskThrows
    <3>1. TaskThrows => Turn # 0
      BY OverIs DEF TaskThrows, Turn, Typed
    <3> QED
      BY <3>1 DEF TaskThrows, AsPromised
  <2> QED
    BY <1>1, <2>3, <2>4, <2>5, <2>6 DEF Next
<1>2. CASE UNCHANGED vars
  <2>1. UNCHANGED <<accepted, finished, error, call, since, q, wpc, right, mode, pc, todo, py,
                    st, mem, arrived, ready, ops, cell, val, strayed>>
    BY <1>2 DEF vars, runtimeVars, workerVars, heapVars, eagerVars
  <2>2. /\ Waiting' = Waiting /\ Given' = Given /\ Defined' = Defined
        /\ AsPromised' = AsPromised /\ Dispatching' = Dispatching
    BY <2>1 DEF Waiting, Over, Given, Defined, AsPromised, Dispatching
  <2>3. \A t : Shared(t)' <=> Shared(t)
    BY <2>1 DEF Shared
  <2>4. Memory => Memory'
    BY <2>1, <2>2 DEF Memory, Cells, WeightNamed, WeightUsed, TensorsRight, TasksRight, Readies
  <2>5. InHand => InHand'
    BY <2>1, <2>2, <2>3 DEF InHand
  <2> QED
    BY <2>2, <2>4, <2>5 DEF Promise
<1> QED
  BY <1>1, <1>2

\* and it holds always.
LEMMA Invariant == Spec => [](Typed /\ Promise)
<1>1. Init => Typed /\ Promise
  BY InitPromise
<1>2. Typed /\ Promise /\ [Next]_vars => (Typed /\ Promise)'
  BY TypedPreserved, PromisePreserved
<1> QED
  BY <1>1, <1>2, PTL DEF Spec

-----------------------------------------------------------------------------
\* The runtime's record, the program, the queued closures and the heap keep their
\* types, and a tensor has a storage as long as Python or a closure refers to it,
\* and no longer: no dispatch leaks a tensor or frees one in use.
THEOREM TypeCorrect == Spec => []TypeOK
<1>1. Typed => TypeOK
  BY TypesFollow DEF Typed
<1> QED
  BY <1>1, TypedInvariant, PTL

\* An operator that the mode does not queue finds in its inputs what the eager run
\* puts there: the sync before it has let every queued task run.
THEOREM SeesEagerCorrect == Spec => []SeesEager
<1>1. Typed /\ Promise => SeesEager
  <2> SUFFICES ASSUME Typed, Promise, pc = "direct", strayed = {}, NEW t \in todo.ins
               PROVE  Content(t) = Eager(t)
    BY DEF SeesEager
  <2>1. Over = accepted /\ error = 0 /\ todo.ins \subseteq Defined
    BY DEF Typed, Control, Dispatching
  <2>2. Memory /\ InHand
    BY <2>1 DEF Promise, AsPromised
  <2>3. DOMAIN Waiting = {}
    <3>1. DOMAIN Waiting = (Over + 1)..accepted /\ accepted \in Nat
      BY WaitingIs DEF Typed
    <3> QED
      BY <2>1, <3>1
  <2>4. Given[st[t]] = val[cell[t]]
    BY <2>1, <2>2, <2>3 DEF Memory, TensorsRight, Leaves
  <2>5. st[t] = Weight => arrived
    BY <2>2, <2>3 DEF InHand, Awaits
  <2>6. st[t] \in Storages
    BY <2>1, HeldIs DEF Defined
  <2> QED
    BY <2>4, <2>5, <2>6, GivenIs DEF Content, Eager
<1> QED
  BY <1>1, Invariant, PTL

\* A queued operator finds, when its turn comes, what the eager run puts there:
\* nobody has recycled or overwritten what its closure captured.
THEOREM TaskSeesEagerCorrect == Spec => []TaskSeesEager
<1>1. Typed /\ Promise => TaskSeesEager
  BY DEF Promise, InHand, TaskSeesEager
<1> QED
  BY <1>1, Invariant, PTL

\* When every task has run, the tensors of the program hold what the eager run
\* puts there.
THEOREM SettlesEagerCorrect == Spec => []SettlesEager
<1>1. Typed /\ Promise => SettlesEager
  <2> SUFFICES ASSUME Typed, Promise, finished = 1..accepted, AsPromised, NEW t \in Defined,
                      cell[t] # 0 \/ arrived
               PROVE  Content(t) = Eager(t)
    BY DEF SettlesEager
  <2>1. Memory
    BY DEF Promise
  <2>2. DOMAIN Waiting = {}
    <3>1. /\ DOMAIN Waiting = (Over + 1)..accepted /\ accepted \in Nat /\ Over \in Nat
          /\ 1..Over = 1..accepted
      BY WaitingIs DEF Typed, Counts
    <3>2. Over >= accepted
      BY <3>1
    <3> QED
      BY <3>1, <3>2
  <2>3. Given[st[t]] = val[cell[t]]
    BY <2>1, <2>2 DEF Memory, TensorsRight, Leaves
  <2>4. st[t] \in Storages /\ t \in py
    BY HeldIs DEF Defined
  <2>5. st[t] = Weight => arrived
    BY <2>1, <2>2, <2>4 DEF Memory, WeightNamed, Awaits
  <2> QED
    BY <2>3, <2>4, <2>5, GivenIs DEF Content, Eager
<1> QED
  BY <1>1, Invariant, PTL

\* The copy whose ready_event is set can be read, unless an operator called later
\* is still to write there: the tasks run in order, so what the copy waits for has
\* run when its mark is set.
THEOREM ReadyIsReadyCorrect == Spec => []ReadyIsReady
<1>1. Typed /\ Promise => ReadyIsReady
  <2> SUFFICES ASSUME Typed, Promise, AsPromised, NEW t \in Defined, ready[t] \in finished,
                      \A i \in Ahead : \A o \in q[i].outs : Where(o) # st[t]
               PROVE  Content(t) = Eager(t)
    BY DEF ReadyIsReady
  <2>1. Memory
    BY DEF Promise
  <2>2. st[t] \in Storages /\ t \in py
    BY HeldIs DEF Defined
  <2>3. \A j \in DOMAIN Waiting : ~Writes(Waiting, st, st[t], j)
    <3>1. \A o : At(st, o) = Where(o)
      BY DEF At, Where
    <3>2. \A j \in DOMAIN Waiting : \E i \in Ahead : Waiting[j] = q[i]
      BY WaitingIs DEF Typed
    <3> QED
      BY <3>1, <3>2 DEF Writes
  <2>4. Given[st[t]] = val[cell[t]]
    BY <2>1, <2>3 DEF Memory, TensorsRight, Leaves
  <2>5. st[t] = Weight => arrived
    <3>1. ready[t] \in 1..Over /\ Over \in Nat
      BY WaitingIs DEF Typed, Counts
    <3>2. \A j \in DOMAIN Waiting : ~(j < ready[t])
      BY <3>1, WaitingIs DEF Typed
    <3>3. ready[t] # 0
      BY <3>1
    <3> QED
      BY <2>1, <2>2, <3>2, <3>3 DEF Memory, Readies, Awaits
  <2> QED
    BY <2>2, <2>4, <2>5, GivenIs DEF Content, Eager
<1> QED
  BY <1>1, Invariant, PTL
=============================================================================
