---------------------------- MODULE ShmAllreduce ----------------------------
(***************************************************************************)
(* shm_allreduce of third_party/kutacc/src/comm/allreduce.cpp: the ranks of *)
(* a node sum their buffers through shared memory.  Ranks of a die meet at   *)
(* fences before and after; across dies and sockets, thread t of a rank     *)
(* meets thread t of its partner by one-byte flags, which the partner sets   *)
(* and the owner resets.                                                     *)
(*                                                                         *)
(* A number in a buffer is modelled by what was added up in it: the set of  *)
(* the pairs <<call, rank>> whose inputs it sums.  Loads are executed in     *)
(* program order here; ShmAllreduceWeak drops that.                         *)
(***************************************************************************)
EXTENDS Integers, FiniteSets, Sequences

CONSTANTS
  Worlds,    \* <<<<sockets, dies of a socket>>, ranks of a die>>: in the code,
             \* world_size says 1 x 1, 1 x 2 or 2 x 2, and a die has 4 ranks
  Threads,   \* num_threads
  MaxCalls   \* bound: calls of shm_allreduce a rank makes

ASSUME AllreduceAssumption ==
  /\ Worlds \subseteq {<<1, 1>>, <<1, 2>>, <<2, 2>>} \X (Nat \ {0})
  /\ Threads \in Nat \ {0} /\ MaxCalls \in Nat

VARIABLES
  world,  \* the same in every call
  call,   \* history: the calls a rank has begun; flip_flag is its parity
  pc,     \* of a rank: with its user, in a fence of the die, or at work
  gate,   \* kupl_shm_fence: the fences a rank has entered
  at,     \* at[r][t]: the next step of a thread
  mem,    \* the communication and the extra buffers
  flag    \* the fence buffers

vars == <<world, call, pc, gate, at, mem, flag>>

-----------------------------------------------------------------------------
Sockets == world[1][1]
Dies    == world[1][2]
Locals  == 0..world[2] - 1
Ranks   == (0..Sockets - 1) \X (0..Dies - 1) \X Locals
Tids    == 0..Threads - 1

Die(r)   == r[2]
Local(r) == r[3]
Mates(r) == {q \in Ranks : q[1] = r[1] /\ q[2] = r[2]}

\* rank ^ 4 and rank ^ 8
InterDie(r)    == <<r[1], 1 - r[2], r[3]>>
InterSocket(r) == <<1 - r[1], r[2], r[3]>>

NoFlipFlag(r) == 0
FlipFlag(r)   == call[r] % 2

\* Of the two blocks of a thread's part of a slice, a die sums up the one (o)
\* whose parity is its own; the other (e) is its partner's.
Odd(r)  == Die(r)
Even(r) == 1 - Odd(r)

Buffer(q, l, t, b) == <<"buffer", q, l, t, b>>
Extra(q, h, t)     == <<"extra", q, h, t>>
Own(r)  == {Buffer(r, l, t, b) : l \in Locals, t \in Tids, b \in {0, 1}}
Places  == (UNION {Own(r) : r \in Ranks}) \cup {Extra(r, h, t) : r \in Ranks, h \in {0, 1}, t \in Tids}

Block(Q, r, t, b) == {Buffer(q, Local(r), t, b) : q \in Q}
Across(r) == IF Dies = 1 THEN {} ELSE {InterDie(r)}
Beyond(r) == IF Sockets = 1 THEN {} ELSE {InterSocket(r)}

\* What a step of thread t of rank r reads and what it writes the sum of it to.
Reads(r, t, step) ==
  CASE step = "reduce"  -> Block(Mates(r), r, t, Even(r))
    [] step = "collect" -> Block(Mates(r) \cup Across(r), r, t, Odd(r))
    [] step = "spread"  -> {Extra(q, FlipFlag(r), t) : q \in {r} \cup Beyond(r)}
    [] step = "copy"    -> Block({r}, r, t, Even(r))
    [] OTHER -> {}

Writes(r, t, step) ==
  CASE step = "reduce"  -> Block({r}, r, t, Even(r))
    [] step = "collect" -> {Extra(r, FlipFlag(r), t)}
    [] step = "spread"  -> Block(Mates(r) \cup Across(r), r, t, Odd(r))
    [] step = "copy"    -> Block(IF Dies = 1 THEN Mates(r) ELSE Mates(r) \ {r}, r, t, Even(r))
    [] OTHER -> {}

\* The flags that the steps set and wait for; the rank that sets them.
SetSteps  == [set0 |-> 0, set1 |-> 1, set2 |-> 2]
WaitSteps == [wait0 |-> 0, wait1 |-> 1, wait2 |-> 2]
Partner(r, id) == IF id = 1 THEN InterSocket(r) ELSE InterDie(r)
Fence(q, t, r, id) == <<q, t, 3 * FlipFlag(r) + id>>
Flags == Ranks \X Tids \X (0..5)

Program ==
  IF Dies = 1 THEN <<"reduce", "collect", "spread", "copy">>
  ELSE IF Sockets = 1
    THEN <<"reduce", "set0", "wait0", "collect", "spread", "set2", "wait2", "copy">>
    ELSE <<"reduce", "set0", "wait0", "collect", "set1", "wait1", "spread", "set2", "wait2", "copy">>
Step(r, t) == IF pc[r] = "work" /\ at[r][t] <= Len(Program) THEN Program[at[r][t]] ELSE "none"

-----------------------------------------------------------------------------
Init ==
  /\ world \in Worlds
  /\ call = [r \in Ranks |-> 0] /\ gate = [r \in Ranks |-> 0]
  /\ pc = [r \in Ranks |-> "user"]
  /\ at = [r \in Ranks |-> [t \in Tids |-> 1]]
  /\ mem = [x \in Places |-> {}]
  /\ flag = [f \in Flags |-> 0]

\* The user has written its input and calls.
Call(r) ==
  /\ pc[r] = "user" /\ call[r] < MaxCalls
  /\ call' = [call EXCEPT ![r] = @ + 1]
  /\ mem' = [x \in Places |-> IF x \in Own(r) THEN {<<call[r] + 1, r>>} ELSE mem[x]]
  /\ gate' = [gate EXCEPT ![r] = @ + 1]
  /\ pc' = [pc EXCEPT ![r] = "enter"]
  /\ UNCHANGED <<world, at, flag>>

PassAlone(r) == TRUE
Passes(r)    == \A q \in Mates(r) : gate[q] >= gate[r]

\* Behind the first fence the threads start.
Enter(r) ==
  /\ pc[r] = "enter" /\ Passes(r)
  /\ pc' = [pc EXCEPT ![r] = "work"]
  /\ at' = [at EXCEPT ![r] = [t \in Tids |-> 1]]
  /\ UNCHANGED <<world, call, gate, mem, flag>>

Advance(r, t) == at' = [at EXCEPT ![r][t] = @ + 1]

\* Numbers that share a summand, or the lack of any, make a wrong sum.
Wrong == {<<0, <<0, 0, 0>>>>}
Sum(vals, X) ==
  IF \A x, y \in X : x # y => vals[x] \cap vals[y] = {}
    THEN UNION {vals[x] : x \in X} ELSE Wrong

\* reduce<k1, k2> and copy<k>.
Compute(r, t) ==
  /\ Step(r, t) \in {"reduce", "collect", "spread", "copy"}
  /\ mem' = [x \in Places |-> IF x \in Writes(r, t, Step(r, t))
                                THEN Sum(mem, Reads(r, t, Step(r, t))) ELSE mem[x]]
  /\ Advance(r, t)
  /\ UNCHANGED <<world, call, pc, gate, flag>>

MarkCall(r) == call[r]
Mark(r)     == 1

SetFence(r, t) ==
  /\ Step(r, t) \in DOMAIN SetSteps
  /\ LET id == SetSteps[Step(r, t)]
     IN  flag' = [flag EXCEPT ![Fence(Partner(r, id), t, r, id)] = Mark(r)]
  /\ Advance(r, t)
  /\ UNCHANGED <<world, call, pc, gate, mem>>

KeepFlag(f)  == flag
ResetFlag(f) == [flag EXCEPT ![f] = 0]

WaitFence(r, t) ==
  /\ Step(r, t) \in DOMAIN WaitSteps
  /\ LET f == Fence(r, t, r, WaitSteps[Step(r, t)])
     IN  flag[f] = 1 /\ flag' = ResetFlag(f)
  /\ Advance(r, t)
  /\ UNCHANGED <<world, call, pc, gate, mem>>

\* All threads are done: the second fence.
Leave(r) ==
  /\ pc[r] = "work" /\ \A t \in Tids : at[r][t] > Len(Program)
  /\ pc' = [pc EXCEPT ![r] = "leave"]
  /\ gate' = [gate EXCEPT ![r] = @ + 1]
  /\ UNCHANGED <<world, call, at, mem, flag>>

Return(r) ==
  /\ pc[r] = "leave" /\ Passes(r)
  /\ pc' = [pc EXCEPT ![r] = "user"]
  /\ UNCHANGED <<world, call, gate, at, mem, flag>>

Rank(r)      == Call(r) \/ Enter(r) \/ Leave(r) \/ Return(r)
Thread(r, t) == Compute(r, t) \/ SetFence(r, t) \/ WaitFence(r, t)
Next == \E r \in Ranks : Rank(r) \/ \E t \in Tids : Thread(r, t)

Spec == Init /\ [][Next]_vars

\* Every rank makes as many calls as the others.  As their number is bounded,
\* it is enough that some thread which can take a step takes one.
FairSpec == Spec /\ WF_vars(Next)

-----------------------------------------------------------------------------
Steps == {"none"} \cup DOMAIN SetSteps \cup DOMAIN WaitSteps \cup {"reduce", "collect", "spread", "copy"}

TypeOK ==
  /\ world \in Worlds
  /\ call \in [Ranks -> Nat] /\ gate \in [Ranks -> Nat]
  /\ pc \in [Ranks -> {"user", "enter", "work", "leave"}]
  /\ at \in [Ranks -> [Tids -> 1..Len(Program) + 1]]
  /\ mem \in [Places -> SUBSET (Nat \X Ranks)]
  /\ flag \in [Flags -> {0, 1}]

\* A rank that is back has in its buffer the sum of all ranks' inputs of this
\* call, in every place, each once.
WholeSum ==
  \A r \in Ranks : pc[r] = "user" /\ call[r] > 0 =>
    \A x \in Own(r) : mem[x] = {<<call[r], q>> : q \in Ranks}

\* What is read and written in the next step; with its user, a rank's own
\* buffer is read and written any time.
Readers(r) == IF pc[r] = "user" THEN Own(r) ELSE UNION {Reads(r, t, Step(r, t)) : t \in Tids}
Writers(r) == IF pc[r] = "user" THEN Own(r) ELSE UNION {Writes(r, t, Step(r, t)) : t \in Tids}

\* No rank writes what another is reading or writing: the vector loops of
\* reduce and copy are not atomic.
RaceFree ==
  \A q, r \in Ranks : q # r => Writers(r) \cap (Readers(q) \cup Writers(q)) = {}

\* A flag is never set while it still is: one wait would miss its set.
NoLostFlag ==
  \A r \in Ranks, t \in Tids : Step(r, t) \in DOMAIN SetSteps =>
    LET id == SetSteps[Step(r, t)] IN flag[Fence(Partner(r, id), t, r, id)] = 0

\* Every call of every rank returns.
CallsReturn == <>(\A r \in Ranks : call[r] = MaxCalls /\ pc[r] = "user")
=============================================================================
