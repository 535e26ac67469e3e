-------------------------- MODULE ShmAllreduceProofs --------------------------
(***************************************************************************)
(* Theorems about ShmAllreduce, for dies of any size, any number of threads  *)
(* and any number of calls.  First the flags: how often each was set and     *)
(* waited for.  Then the fences of a die; the two together keep the ranks    *)
(* apart.  Last, what the buffers hold after each step.                      *)
(***************************************************************************)
EXTENDS ShmAllreduce, TLAPS

\* The flags in use, and the step that sets each; the next one waits for it.
Ids == IF Dies = 1 THEN {} ELSE IF Sockets = 1 THEN {0, 2} ELSE {0, 1, 2}
SetAt(id) == CASE id = 0 -> 2 [] id = 1 -> 5 [] id = 2 -> IF Sockets = 1 THEN 6 ELSE 8

\* How often a thread has passed a step, in all calls.
Passed(r, t, i) ==
  IF pc[r] \in {"user", "leave"} \/ (pc[r] = "work" /\ at[r][t] > i) THEN call[r] ELSE call[r] - 1
Sets(r, t, id)  == Passed(r, t, SetAt(id))
Waits(r, t, id) == Passed(r, t, SetAt(id) + 1)

\* A wait ends after the partner's set of the same call...
Answered == \A r \in Ranks, t \in Tids, id \in Ids : Waits(r, t, id) <= Sets(Partner(r, id), t, id)

\* ...and a flag is up if it was set in a call for which its owner has not yet
\* waited: that call is one of the two after the owner's last wait.
Pending(r, t, id, h) ==
  LET w == Waits(r, t, id)
      s == Sets(Partner(r, id), t, id)
  IN  (s >= w + 1 /\ h = (w + 1) % 2) \/ (s >= w + 2 /\ h = w % 2)
Raised == \A r \in Ranks, t \in Tids, id \in Ids, h \in {0, 1} :
            flag[<<r, t, 3 * h + id>>] = 1 <=> Pending(r, t, id, h)

Inv == TypeOK /\ Answered /\ Raised
-----------------------------------------------------------------------------
\* One socket or two, and two only of two dies each.
LEMMA Geometry ==
  ASSUME world \in Worlds
  PROVE  /\ Sockets \in {1, 2} /\ Dies \in {1, 2} /\ (Dies = 1 => Sockets = 1)
         /\ world[2] \in Nat \ {0}
  BY AllreduceAssumption DEF Sockets, Dies

\* Ranks that wait for each other are each other's partners.
LEMMA Partners ==
  ASSUME world \in Worlds, NEW r \in Ranks
  PROVE  /\ Dies = 2 => InterDie(r) \in Ranks /\ InterDie(InterDie(r)) = r
         /\ Sockets = 2 => InterSocket(r) \in Ranks /\ InterSocket(InterSocket(r)) = r
  <1>1. PICK s \in 0..Sockets - 1, d \in 0..Dies - 1, l \in Locals : r = <<s, d, l>>
    BY DEF Ranks
  <1>2. Dies = 2 => 1 - d \in 0..1 /\ 1 - (1 - d) = d
    BY <1>1
  <1>3. Sockets = 2 => 1 - s \in 0..1 /\ 1 - (1 - s) = s
    BY <1>1
  <1>4. InterDie(r) = <<s, 1 - d, l>> /\ InterDie(<<s, 1 - d, l>>) = <<s, 1 - (1 - d), l>>
    BY <1>1 DEF InterDie
  <1>5. InterSocket(r) = <<1 - s, d, l>> /\ InterSocket(<<1 - s, d, l>>) = <<1 - (1 - s), d, l>>
    BY <1>1 DEF InterSocket
  <1>6. Dies = 2 => InterDie(r) \in Ranks /\ InterDie(InterDie(r)) = r
    BY <1>1, <1>2, <1>4 DEF Ranks
  <1>7. Sockets = 2 => InterSocket(r) \in Ranks /\ InterSocket(InterSocket(r)) = r
    BY <1>1, <1>3, <1>5 DEF Ranks
  <1> QED
    BY <1>6, <1>7

\* The same of the partner of a flag in use.
LEMMA FlagPartners ==
  ASSUME world \in Worlds, NEW r \in Ranks, NEW id \in Ids
  PROVE  /\ Partner(r, id) \in Ranks
         /\ Partner(Partner(r, id), id) = r
  BY Geometry, Partners DEF Partner, Ids

\* Flags in use, and the steps that set and wait for them.
LEMMA FlagIds ==
  ASSUME world \in Worlds, NEW id \in Ids
  PROVE  id \in {0, 1, 2} /\ SetAt(id) \in 2..8 /\ SetAt(id) + 1 <= Len(Program)
  <1>1. CASE Sockets = 1
    <2>1. Dies # 1 /\ Ids = {0, 2} /\ Len(Program) = 8
      BY <1>1 DEF Ids, Program
    <2> QED
      BY <1>1, <2>1 DEF SetAt
  <1>2. CASE Sockets # 1
    <2>1. Dies # 1 /\ Ids = {0, 1, 2} /\ Len(Program) = 10
      BY <1>2 DEF Ids, Program
    <2> QED
      BY <1>2, <2>1 DEF SetAt
  <1> QED
    BY <1>1, <1>2

\* Flags of different calls in a row, or of different ids, are different bytes.
LEMMA FlagNames ==
  ASSUME NEW i \in {0, 1, 2}, NEW j \in {0, 1, 2}, NEW g \in {0, 1}, NEW h \in {0, 1}
  PROVE  3 * g + i \in 0..5 /\ (3 * g + i = 3 * h + j => g = h /\ i = j)
  OBVIOUS

\* Where a thread stands when it sets or waits, and that it does neither when it computes.
LEMMA StepsOfThread ==
  ASSUME TypeOK, NEW r \in Ranks, NEW t \in Tids
  PROVE  /\ Step(r, t) \in DOMAIN SetSteps =>
              LET id == SetSteps[Step(r, t)] IN id \in Ids /\ at[r][t] = SetAt(id)
         /\ Step(r, t) \in DOMAIN WaitSteps =>
              LET id == WaitSteps[Step(r, t)] IN id \in Ids /\ at[r][t] = SetAt(id) + 1
         /\ Step(r, t) \in {"reduce", "collect", "spread", "copy"} =>
              \A id \in Ids : at[r][t] # SetAt(id) /\ at[r][t] # SetAt(id) + 1
         /\ Step(r, t) # "none" => pc[r] = "work" /\ at[r][t] \in 1..Len(Program)
  <1>1. world \in Worlds /\ at[r][t] \in 1..Len(Program) + 1
    BY DEF TypeOK
  <1>2. Len(Program) \in {4, 8, 10}
    BY DEF Program
  <1>3. Step(r, t) # "none" => pc[r] = "work" /\ at[r][t] \in 1..Len(Program) /\ Step(r, t) = Program[at[r][t]]
    BY <1>1, <1>2 DEF Step
  <1>a. DOMAIN SetSteps = {"set0", "set1", "set2"} /\ DOMAIN WaitSteps = {"wait0", "wait1", "wait2"}
    BY DEF SetSteps, WaitSteps
  <1>b. SetSteps["set0"] = 0 /\ SetSteps["set1"] = 1 /\ SetSteps["set2"] = 2
        /\ WaitSteps["wait0"] = 0 /\ WaitSteps["wait1"] = 1 /\ WaitSteps["wait2"] = 2
    BY DEF SetSteps, WaitSteps
  <1>4. CASE Step(r, t) = "none"
    BY <1>4, <1>a
  <1>5. CASE Step(r, t) # "none" /\ Dies = 1
    <2>1. at[r][t] \in 1..4 /\ Step(r, t) \in {"reduce", "collect", "spread", "copy"} /\ Ids = {}
      BY <1>5, <1>3 DEF Program, Ids
    <2> QED
      BY <2>1, <1>3, <1>5, <1>a
  <1>6. CASE Step(r, t) # "none" /\ Dies # 1 /\ Sockets = 1
    <2>1. Ids = {0, 2} /\ SetAt(0) = 2 /\ SetAt(2) = 6
      BY <1>6 DEF Ids, SetAt
    <2>2. /\ at[r][t] \in {1, 4, 5, 8} => Step(r, t) \in {"reduce", "collect", "spread", "copy"}
          /\ at[r][t] = 2 => Step(r, t) = "set0"
          /\ at[r][t] = 3 => Step(r, t) = "wait0"
          /\ at[r][t] = 6 => Step(r, t) = "set2"
          /\ at[r][t] = 7 => Step(r, t) = "wait2"
          /\ at[r][t] \in 1..8
      BY <1>6, <1>3 DEF Program
    <2>3. at[r][t] \in {1, 2, 3, 4, 5, 6, 7, 8}
      BY <2>2
    <2> QED
      BY <2>1, <2>2, <2>3, <1>3, <1>6, <1>a, <1>b
  <1>7. CASE Step(r, t) # "none" /\ Dies # 1 /\ Sockets # 1
    <2>1. Ids = {0, 1, 2} /\ SetAt(0) = 2 /\ SetAt(1) = 5 /\ SetAt(2) = 8
      BY <1>7 DEF Ids, SetAt
    <2>2. /\ at[r][t] \in {1, 4, 7, 10} => Step(r, t) \in {"reduce", "collect", "spread", "copy"}
          /\ at[r][t] = 2 => Step(r, t) = "set0"
          /\ at[r][t] = 3 => Step(r, t) = "wait0"
          /\ at[r][t] = 5 => Step(r, t) = "set1"
          /\ at[r][t] = 6 => Step(r, t) = "wait1"
          /\ at[r][t] = 8 => Step(r, t) = "set2"
          /\ at[r][t] = 9 => Step(r, t) = "wait2"
          /\ at[r][t] \in 1..10
      BY <1>7, <1>3 DEF Program
    <2>3. at[r][t] \in {1, 2, 3, 4, 5, 6, 7, 8, 9, 10}
      BY <2>2
    <2> QED
      BY <2>1, <2>2, <2>3, <1>3, <1>7, <1>a, <1>b
  <1> QED
    BY <1>4, <1>5, <1>6, <1>7
\* What a step reads is there.
LEMMA ReadsPlaces ==
  ASSUME TypeOK, NEW r \in Ranks, NEW t \in Tids, NEW step
  PROVE  Reads(r, t, step) \subseteq Places
  <1>1. world \in Worlds /\ FlipFlag(r) \in {0, 1}
    BY DEF TypeOK, FlipFlag
  <1>2. Local(r) \in Locals /\ Odd(r) \in {0, 1} /\ Even(r) \in {0, 1}
    <2>1. r[2] \in 0..Dies - 1 /\ r[3] \in Locals
      BY DEF Ranks
    <2> QED
      BY <1>1, <2>1, Geometry DEF Local, Odd, Even, Die
  <1>3. Mates(r) \subseteq Ranks /\ r \in Ranks /\ Across(r) \subseteq Ranks /\ Beyond(r) \subseteq Ranks
    BY <1>1, Geometry, Partners DEF Mates, Across, Beyond
  <1>4. ASSUME NEW Q \in SUBSET Ranks, NEW b \in {0, 1}
        PROVE  Block(Q, r, t, b) \subseteq Places
    <2>1. ASSUME NEW q \in Q PROVE Buffer(q, Local(r), t, b) \in Places
      <3>1. Buffer(q, Local(r), t, b) \in Own(q)
        BY <1>2 DEF Own
      <3> QED
        BY <3>1 DEF Places
    <2> QED
      BY <2>1 DEF Block
  <1>5. {Extra(q, FlipFlag(r), t) : q \in {r} \cup Beyond(r)} \subseteq Places
    <2>1. ASSUME NEW q \in Ranks, NEW h \in {0, 1} PROVE Extra(q, h, t) \in Places
      <3>1. Extra(q, h, t) \in {Extra(x, i, u) : x \in Ranks, i \in {0, 1}, u \in Tids}
        OBVIOUS
      <3> QED
        BY <3>1 DEF Places
    <2> QED
      BY <1>1, <1>3, <2>1
  <1> QED
    BY <1>2, <1>3, <1>4, <1>5 DEF Reads

\* A sum has the type of its numbers.
LEMMA SumType ==
  ASSUME TypeOK, NEW X \in SUBSET Places
  PROVE  Sum(mem, X) \in SUBSET (Nat \X Ranks)
  <1>1. world \in Worlds
    BY DEF TypeOK
  <1>2. <<0, 0, 0>> \in Ranks
    BY <1>1, Geometry DEF Ranks, Locals
  <1>3. Wrong \subseteq Nat \X Ranks
    BY <1>2 DEF Wrong
  <1>4. \A x \in X : mem[x] \subseteq Nat \X Ranks
    BY DEF TypeOK
  <1>5. UNION {mem[x] : x \in X} \subseteq Nat \X Ranks
    BY <1>4
  <1> QED
    BY <1>3, <1>5 DEF Sum

\* A fence of a rank in use is among its flags.
LEMMA FenceType ==
  ASSUME TypeOK, NEW q \in Ranks, NEW r \in Ranks, NEW t \in Tids, NEW id \in {0, 1, 2}
  PROVE  Fence(q, t, r, id) \in Flags
  <1>1. FlipFlag(r) \in {0, 1}
    BY DEF TypeOK, FlipFlag
  <1>2. 3 * FlipFlag(r) + id \in 0..5
    BY <1>1
  <1> QED
    BY <1>2 DEF Fence, Flags

\* The initial values have their types.
LEMMA TypeInit == Init => TypeOK
  <1> SUFFICES ASSUME Init PROVE TypeOK
    OBVIOUS
  <1>1. Len(Program) \in {4, 8, 10}
    BY DEF Program
  <1> QED
    BY <1>1 DEF Init, TypeOK

\* What a world consists of does not change.
LEMMA SameWorld ==
  ASSUME world' = world
  PROVE  /\ Ranks' = Ranks /\ Places' = Places /\ Flags' = Flags /\ Program' = Program /\ Ids' = Ids
         /\ Sockets' = Sockets /\ Dies' = Dies
  BY DEF Ranks, Places, Flags, Program, Ids, Sockets, Dies, Locals, Own

\* Every step keeps the types.
LEMMA TypeStep == TypeOK /\ [Next]_vars => TypeOK'
  <1> SUFFICES ASSUME TypeOK, [Next]_vars PROVE TypeOK'
    OBVIOUS
  <1>0. Len(Program) \in {4, 8, 10}
    BY DEF Program
  <1>1. ASSUME NEW r \in Ranks, Call(r) PROVE TypeOK'
    <2>1. world' = world
      BY <1>1 DEF Call
    <2>2. {<<call[r] + 1, r>>} \subseteq Nat \X Ranks
      BY DEF TypeOK
    <2>3. mem' \in [Places -> SUBSET (Nat \X Ranks)]
      BY <1>1, <2>2 DEF Call, TypeOK
    <2>4. call' \in [Ranks -> Nat] /\ gate' \in [Ranks -> Nat]
      BY <1>1 DEF Call, TypeOK
    <2>5. pc' \in [Ranks -> {"user", "enter", "work", "leave"}]
      BY <1>1 DEF Call, TypeOK
    <2> QED
      BY <1>1, <2>1, <2>3, <2>4, <2>5, SameWorld DEF Call, TypeOK
  <1>2. ASSUME NEW r \in Ranks, Enter(r) PROVE TypeOK'
    <2>1. at' \in [Ranks -> [Tids -> 1..Len(Program) + 1]]
      <3>1. 1 \in 1..Len(Program) + 1
        BY <1>0
      <3>2. [t \in Tids |-> 1] \in [Tids -> 1..Len(Program) + 1]
        BY <3>1
      <3> QED
        BY <1>2, <3>2 DEF Enter, TypeOK
    <2>2. pc' \in [Ranks -> {"user", "enter", "work", "leave"}]
      BY <1>2 DEF Enter, TypeOK
    <2> QED
      BY <1>2, <2>1, <2>2, SameWorld DEF Enter, TypeOK
  <1>3. ASSUME NEW r \in Ranks, Leave(r) PROVE TypeOK'
    <2>1. gate' \in [Ranks -> Nat]
      BY <1>3 DEF Leave, TypeOK
    <2>2. pc' \in [Ranks -> {"user", "enter", "work", "leave"}]
      BY <1>3 DEF Leave, TypeOK
    <2> QED
      BY <1>3, <2>1, <2>2, SameWorld DEF Leave, TypeOK
  <1>4. ASSUME NEW r \in Ranks, Return(r) PROVE TypeOK'
    BY <1>4, SameWorld DEF Return, TypeOK
  <1>5. ASSUME NEW r \in Ranks, NEW t \in Tids, Step(r, t) # "none", Advance(r, t)
        PROVE  at' \in [Ranks -> [Tids -> 1..Len(Program) + 1]]
    <2>1. at[r][t] \in 1..Len(Program)
      BY <1>5, StepsOfThread
    <2>2. at[r][t] + 1 \in 1..Len(Program) + 1
      BY <1>0, <2>1
    <2> QED
      BY <1>5, <2>2 DEF Advance, TypeOK
  <1>6. ASSUME NEW r \in Ranks, NEW t \in Tids, Compute(r, t) PROVE TypeOK'
    <2>1. at' \in [Ranks -> [Tids -> 1..Len(Program) + 1]]
      BY <1>5, <1>6 DEF Compute
    <2>2. Sum(mem, Reads(r, t, Step(r, t))) \in SUBSET (Nat \X Ranks)
      BY ReadsPlaces, SumType
    <2>3. mem' \in [Places -> SUBSET (Nat \X Ranks)]
      BY <1>6, <2>2 DEF Compute, TypeOK
    <2> QED
      BY <1>6, <2>1, <2>3, SameWorld DEF Compute, TypeOK
  <1>7. ASSUME NEW r \in Ranks, NEW t \in Tids, SetFence(r, t) PROVE TypeOK'
    <2>1. at' \in [Ranks -> [Tids -> 1..Len(Program) + 1]]
      BY <1>5, <1>7 DEF SetFence, SetSteps
    <2>2. flag' \in [Flags -> {0, 1}]
      BY <1>7 DEF SetFence, TypeOK, Mark
    <2> QED
      BY <1>7, <2>1, <2>2, SameWorld DEF SetFence, TypeOK
  <1>8. ASSUME NEW r \in Ranks, NEW t \in Tids, WaitFence(r, t) PROVE TypeOK'
    <2>1. at' \in [Ranks -> [Tids -> 1..Len(Program) + 1]]
      BY <1>5, <1>8 DEF WaitFence, WaitSteps
    <2>2. flag' \in [Flags -> {0, 1}]
      BY <1>8 DEF WaitFence, TypeOK, ResetFlag
    <2> QED
      BY <1>8, <2>1, <2>2, SameWorld DEF WaitFence, TypeOK
  <1>9. ASSUME UNCHANGED vars PROVE TypeOK'
    BY <1>9, SameWorld DEF vars, TypeOK
  <1> QED
    BY <1>1, <1>2, <1>3, <1>4, <1>6, <1>7, <1>8, <1>9 DEF Next, Rank, Thread

\* All variables keep their types: flags are 0 or 1, sums name calls and ranks
\* (TypeOK of the allreduce's model).
THEOREM TypeCorrect == Spec => []TypeOK
  <1>1. Init => TypeOK
    BY TypeInit
  <1>2. TypeOK /\ [Next]_vars => TypeOK'
    BY TypeStep
  <1> QED
    BY <1>1, <1>2, PTL DEF Spec
-----------------------------------------------------------------------------
(* How often steps were passed.                                             *)

\* A set is passed as often as its wait, or once more.
LEMMA PassedType ==
  ASSUME TypeOK, NEW r \in Ranks, NEW t \in Tids, NEW id \in Ids
  PROVE  /\ Sets(r, t, id) \in Int /\ Waits(r, t, id) \in Int
         /\ Waits(r, t, id) <= Sets(r, t, id) /\ Sets(r, t, id) <= Waits(r, t, id) + 1
  <1>1. SetAt(id) \in 2..8 /\ call[r] \in Nat /\ at[r][t] \in Int
    <2>1. Len(Program) \in {4, 8, 10}
      BY DEF Program
    <2> QED
      BY <2>1, FlagIds DEF TypeOK
  <1>2. at[r][t] > SetAt(id) + 1 => at[r][t] > SetAt(id)
    BY <1>1
  <1> QED
    BY <1>1, <1>2 DEF Sets, Waits, Passed

\* A step that passes neither a set nor a wait, and leaves the flags alone.
NoPass ==
  \A r \in Ranks, t \in Tids, id \in Ids :
    Sets(r, t, id)' = Sets(r, t, id) /\ Waits(r, t, id)' = Waits(r, t, id)

\* Such a step keeps what is known of the flags.
LEMMA NoPassKeeps ==
  ASSUME TypeOK, Answered, Raised, world' = world, flag' = flag, NoPass
  PROVE  Answered' /\ Raised'
  <1>1. Ranks' = Ranks /\ Ids' = Ids
    BY SameWorld
  <1>2. \A r \in Ranks, id \in Ids : Partner(r, id) \in Ranks
    BY FlagPartners DEF TypeOK
  <1>3. Answered'
    BY <1>1, <1>2 DEF NoPass, Answered
  <1>4. ASSUME NEW r \in Ranks, NEW t \in Tids, NEW id \in Ids, NEW h \in {0, 1}
        PROVE  Pending(r, t, id, h)' <=> Pending(r, t, id, h)
    <2>1. Sets(Partner(r, id), t, id)' = Sets(Partner(r, id), t, id)
      BY <1>2 DEF NoPass
    <2>2. Waits(r, t, id)' = Waits(r, t, id)
      BY DEF NoPass
    <2> QED
      BY <2>1, <2>2 DEF Pending
  <1>5. Raised'
    <2>1. ASSUME NEW r \in Ranks, NEW t \in Tids, NEW id \in Ids, NEW h \in {0, 1}
          PROVE  flag'[<<r, t, 3 * h + id>>] = 1 <=> Pending(r, t, id, h)'
      BY <1>4 DEF Raised
    <2> QED
      BY <1>1, <2>1 DEF Raised
  <1> QED
    BY <1>3, <1>5

\* Of a thread whose rank, in the same call, stays before or behind a step.
LEMMA PassedSame ==
  ASSUME NEW r \in Ranks, NEW t \in Tids, NEW i \in Int, NEW j \in Int,
         TypeOK, TypeOK', world' = world,
         \/ pc'[r] = pc[r] /\ call'[r] = call[r] /\ (at'[r][t] > i <=> at[r][t] > i)
         \/ pc[r] = "user" /\ pc'[r] = "enter" /\ call'[r] = call[r] + 1
         \/ pc[r] = "enter" /\ pc'[r] = "work" /\ call'[r] = call[r] /\ ~(at'[r][t] > i)
         \/ pc[r] = "work" /\ pc'[r] = "leave" /\ call'[r] = call[r] /\ at[r][t] > i
         \/ pc[r] = "leave" /\ pc'[r] = "user" /\ call'[r] = call[r]
  PROVE  Passed(r, t, i)' = Passed(r, t, i)
  <1>1. call[r] \in Nat
    BY DEF TypeOK
  <1> QED
    BY <1>1 DEF Passed

\* Which steps those are does not change.
LEMMA NoPassFrom ==
  ASSUME TypeOK, world' = world,
         \A r \in Ranks, t \in Tids, id \in Ids : \A i \in {SetAt(id), SetAt(id) + 1} :
            Passed(r, t, i)' = Passed(r, t, i)
  PROVE  NoPass
  <1>1. Sockets' = Sockets
    BY SameWorld
  <1>2. ASSUME NEW id \in Ids PROVE SetAt(id)' = SetAt(id)
    BY <1>1 DEF SetAt
  <1> QED
    BY <1>2 DEF NoPass, Sets, Waits

\* Calling, starting, leaving, returning and computing are such steps.
LEMMA NoPassActions ==
  ASSUME TypeOK, TypeOK', NEW r \in Ranks,
         Rank(r) \/ \E t \in Tids : Compute(r, t)
  PROVE  NoPass
  <1>0. world' = world /\ world \in Worlds
    BY DEF Rank, Call, Enter, Leave, Return, Compute, TypeOK
  <1>1. SUFFICES ASSUME NEW q \in Ranks, NEW u \in Tids, NEW id \in Ids, NEW i \in {SetAt(id), SetAt(id) + 1}
                 PROVE  Passed(q, u, i)' = Passed(q, u, i)
    BY <1>0, NoPassFrom
  <1>2. i \in Int /\ i >= 2 /\ i <= Len(Program) /\ Len(Program) \in Int
    <2>1. Len(Program) \in {4, 8, 10}
      BY DEF Program
    <2> QED
      BY <1>0, <2>1, FlagIds
  <1>3. CASE Call(r)
    <2>1. q # r => pc'[q] = pc[q] /\ call'[q] = call[q] /\ at' = at
      BY <1>3 DEF Call, TypeOK
    <2>2. pc[r] = "user" /\ pc'[r] = "enter" /\ call'[r] = call[r] + 1
      BY <1>3 DEF Call, TypeOK
    <2> QED
      BY <1>0, <1>2, <2>1, <2>2, PassedSame
  <1>4. CASE Enter(r)
    <2>1. q # r => pc'[q] = pc[q] /\ call'[q] = call[q] /\ at'[q] = at[q]
      BY <1>4 DEF Enter, TypeOK
    <2>2. pc[r] = "enter" /\ pc'[r] = "work" /\ call'[r] = call[r] /\ at'[r][u] = 1
      BY <1>4 DEF Enter, TypeOK
    <2>3. ~(1 > i)
      BY <1>2
    <2> QED
      BY <1>0, <1>2, <2>1, <2>2, <2>3, PassedSame
  <1>5. CASE Leave(r)
    <2>1. q # r => pc'[q] = pc[q] /\ call'[q] = call[q] /\ at' = at
      BY <1>5 DEF Leave, TypeOK
    <2>2. pc[r] = "work" /\ pc'[r] = "leave" /\ call'[r] = call[r] /\ at[r][u] > Len(Program)
      BY <1>5 DEF Leave, TypeOK
    <2>3. at[r][u] \in Int
      BY <1>2 DEF TypeOK
    <2>4. at[r][u] > i
      BY <1>2, <2>2, <2>3
    <2> QED
      BY <1>0, <1>2, <2>1, <2>2, <2>4, PassedSame
  <1>6. CASE Return(r)
    <2>1. q # r => pc'[q] = pc[q] /\ call'[q] = call[q] /\ at' = at
      BY <1>6 DEF Return, TypeOK
    <2>2. pc[r] = "leave" /\ pc'[r] = "user" /\ call'[r] = call[r]
      BY <1>6 DEF Return, TypeOK
    <2> QED
      BY <1>0, <1>2, <2>1, <2>2, PassedSame
  <1>7. ASSUME NEW t \in Tids, Compute(r, t) PROVE Passed(q, u, i)' = Passed(q, u, i)
    <2>1. pc' = pc /\ call' = call /\ at' = [at EXCEPT ![r][t] = @ + 1]
      BY <1>7 DEF Compute, Advance
    <2>2. at[r][t] # i /\ at[q][u] \in Int /\ at[r][t] \in Int
      <3>1. at[r][t] # SetAt(id) /\ at[r][t] # SetAt(id) + 1
        BY <1>7, StepsOfThread DEF Compute
      <3>2. at \in [Ranks -> [Tids -> Int]]
        BY <1>2 DEF TypeOK
      <3> QED
        BY <3>1, <3>2
    <2>3. at'[q][u] = IF q = r /\ u = t THEN at[r][t] + 1 ELSE at[q][u]
      BY <2>1 DEF TypeOK
    <2>4. at'[q][u] > i <=> at[q][u] > i
      BY <1>2, <2>2, <2>3
    <2> QED
      BY <1>0, <1>2, <2>1, <2>4, PassedSame
  <1> QED
    BY <1>3, <1>4, <1>5, <1>6, <1>7 DEF Rank
\* No step is passed for two flags.
LEMMA StepsApart ==
  ASSUME NEW i \in Ids, NEW j \in Ids
  PROVE  SetAt(i) # SetAt(j) + 1 /\ (SetAt(i) = SetAt(j) => i = j)
  BY DEF Ids, SetAt

\* A step at which a thread sets or waits passes that step alone.
LEMMA OnePassed ==
  ASSUME TypeOK, TypeOK', NEW r \in Ranks, NEW t \in Tids, NEW id \in Ids, NEW b \in {0, 1},
         world' = world, pc' = pc, call' = call, pc[r] = "work", at[r][t] = SetAt(id) + b, Advance(r, t)
  PROVE  /\ Waits(r, t, id) = call[r] - 1 /\ Sets(r, t, id) = call[r] - 1 + b
         /\ Waits(r, t, id)' = call[r] - 1 + b /\ Sets(r, t, id)' = call[r]
         /\ \A q \in Ranks, u \in Tids, j \in Ids : <<q, u, j>> # <<r, t, id>> =>
              Sets(q, u, j)' = Sets(q, u, j) /\ Waits(q, u, j)' = Waits(q, u, j)
  <1>1. world \in Worlds /\ SetAt(id) \in 2..8 /\ call[r] \in Nat
    BY FlagIds DEF TypeOK
  <1>2. at \in [Ranks -> [Tids -> Int]]
    <2>1. Len(Program) \in {4, 8, 10}
      BY DEF Program
    <2> QED
      BY <2>1 DEF TypeOK
  <1>3. \A q \in Ranks, u \in Tids : at'[q][u] = IF q = r /\ u = t THEN at[r][t] + 1 ELSE at[q][u]
    BY <1>2 DEF Advance
  <1>4. \A j \in Ids : SetAt(j)' = SetAt(j)
    <2>1. Sockets' = Sockets
      BY SameWorld
    <2> QED
      BY <2>1 DEF SetAt
  <1>5. Passed(r, t, SetAt(id)) = call[r] - 1 + b /\ Passed(r, t, SetAt(id) + 1) = call[r] - 1
    BY <1>1 DEF Passed
  <1>6. Passed(r, t, SetAt(id))' = call[r] /\ Passed(r, t, SetAt(id) + 1)' = call[r] - 1 + b
    BY <1>1, <1>3, <1>4 DEF Passed
  <1>7. ASSUME NEW q \in Ranks, NEW u \in Tids, NEW j \in Ids, <<q, u, j>> # <<r, t, id>>
        PROVE  Sets(q, u, j)' = Sets(q, u, j) /\ Waits(q, u, j)' = Waits(q, u, j)
    <2>1. SetAt(j) \in 2..8
      BY <1>1, FlagIds
    <2>2. j # id => /\ SetAt(j) # SetAt(id) + b
                    /\ SetAt(j) + 1 # SetAt(id) + b
      BY <1>1, <2>1, StepsApart
    <2>3. ASSUME NEW i \in {SetAt(j), SetAt(j) + 1} PROVE Passed(q, u, i)' = Passed(q, u, i)
      <3>1. i \in Int /\ at[q][u] \in Int
        BY <1>2, <2>1
      <3>2. CASE q = r /\ u = t
        <4>1. i # at[r][t]
          BY <2>2, <1>7, <3>2
        <4>2. at'[q][u] > i <=> at[q][u] > i
          BY <1>3, <3>1, <3>2, <4>1
        <4> QED
          BY <3>1, <4>2, PassedSame
      <3>3. CASE ~(q = r /\ u = t)
        <4>1. at'[q][u] > i <=> at[q][u] > i
          BY <1>3, <3>3
        <4> QED
          BY <3>1, <4>1, PassedSame
      <3> QED
        BY <3>2, <3>3
    <2> QED
      BY <1>4, <2>3 DEF Sets, Waits
  <1> QED
    BY <1>4, <1>5, <1>6, <1>7 DEF Sets, Waits

\* Before a rank sets a flag, it is down: of the two calls that it may be
\* raised for, this one is not set yet, and the flag of the other has the other
\* parity.
LEMMA DownBeforeSet ==
  ASSUME Inv, NEW r \in Ranks, NEW t \in Tids, NEW id \in Ids,
         Waits(r, t, id) = call[r] - 1, Sets(r, t, id) = call[r] - 1
  PROVE  LET p == Partner(r, id)
         IN  /\ p \in Ranks /\ Partner(p, id) = r
             /\ Waits(p, t, id) \in {call[r] - 2, call[r] - 1}
             /\ flag[<<p, t, 3 * FlipFlag(r) + id>>] = 0
  <1> DEFINE p == Partner(r, id)
  <1>1. world \in Worlds /\ call[r] \in Nat
    BY DEF Inv, TypeOK
  <1>2. p \in Ranks /\ Partner(p, id) = r /\ id \in {0, 1, 2}
    BY <1>1, FlagPartners, FlagIds
  <1>3. Waits(p, t, id) \in Int /\ Sets(p, t, id) \in Int /\ Sets(p, t, id) <= Waits(p, t, id) + 1
    BY <1>2, PassedType DEF Inv
  <1>4. Waits(r, t, id) <= Sets(p, t, id) /\ Waits(p, t, id) <= Sets(r, t, id)
    BY <1>2 DEF Inv, Answered
  <1>5. Waits(p, t, id) \in {call[r] - 2, call[r] - 1}
    BY <1>1, <1>3, <1>4
  <1>6. FlipFlag(r) \in {0, 1}
    BY <1>1 DEF FlipFlag
  <1>7. ~Pending(p, t, id, FlipFlag(r))
    BY <1>1, <1>2, <1>5 DEF Pending, FlipFlag
  <1>8. <<p, t, 3 * FlipFlag(r) + id>> \in Flags
    BY <1>2, <1>6 DEF Flags
  <1>9. flag[<<p, t, 3 * FlipFlag(r) + id>>] # 1
    BY <1>2, <1>6, <1>7 DEF Inv, Raised
  <1>10. flag[<<p, t, 3 * FlipFlag(r) + id>>] \in {0, 1}
    BY <1>8 DEF Inv, TypeOK
  <1> QED
    BY <1>2, <1>5, <1>9, <1>10
\* Setting a flag.
LEMMA SetKeeps ==
  ASSUME Inv, TypeOK', NEW r \in Ranks, NEW t \in Tids, SetFence(r, t)
  PROVE  Answered' /\ Raised'
  <1> DEFINE k == call[r]
  <1>1. TypeOK /\ world \in Worlds /\ k \in Nat /\ world' = world /\ pc' = pc /\ call' = call /\ Advance(r, t)
    BY DEF Inv, TypeOK, SetFence
  <1>2. PICK id \in Ids : id = SetSteps[Step(r, t)] /\ at[r][t] = SetAt(id) + 0 /\ pc[r] = "work"
    <2> DEFINE id == SetSteps[Step(r, t)]
    <2>1. Step(r, t) \in DOMAIN SetSteps
      BY DEF SetFence
    <2>2. id \in Ids /\ at[r][t] = SetAt(id) /\ Step(r, t) # "none"
      BY <1>1, <2>1, StepsOfThread DEF SetSteps
    <2>3. SetAt(id) \in 2..8
      BY <1>1, <2>2, FlagIds
    <2> QED
      BY <1>1, <2>2, <2>3, StepsOfThread
  <1> DEFINE p == Partner(r, id)
  <1>3. flag' = [flag EXCEPT ![<<p, t, 3 * FlipFlag(r) + id>>] = 1]
    BY <1>2 DEF SetFence, Fence, Mark
  <1>4. /\ Waits(r, t, id) = k - 1 /\ Sets(r, t, id) = k - 1
        /\ Waits(r, t, id)' = k - 1 /\ Sets(r, t, id)' = k
        /\ \A q \in Ranks, u \in Tids, j \in Ids : <<q, u, j>> # <<r, t, id>> =>
             Sets(q, u, j)' = Sets(q, u, j) /\ Waits(q, u, j)' = Waits(q, u, j)
    BY <1>1, <1>2, OnePassed
  <1>5. p \in Ranks /\ Partner(p, id) = r /\ Waits(p, t, id) \in {k - 2, k - 1}
    BY <1>4, <1>2, DownBeforeSet
  <1>6. \A q \in Ranks, u \in Tids, j \in Ids : Waits(q, u, j)' = Waits(q, u, j)
    BY <1>4
  <1>7. Ranks' = Ranks /\ Ids' = Ids
    BY <1>1, SameWorld
  <1>8. Answered'
    <2>1. ASSUME NEW q \in Ranks, NEW u \in Tids, NEW j \in Ids
          PROVE  Waits(q, u, j)' <= Sets(Partner(q, j), u, j)'
      <3>1. Waits(q, u, j) <= Sets(Partner(q, j), u, j) /\ Partner(q, j) \in Ranks
        BY <1>1, FlagPartners DEF Inv, Answered
      <3>2. Sets(Partner(q, j), u, j) \in Int /\ Waits(q, u, j) \in Int
        BY <1>1, <3>1, PassedType
      <3>3. Sets(Partner(q, j), u, j)' = Sets(Partner(q, j), u, j)
             \/ (Sets(Partner(q, j), u, j) = k - 1 /\ Sets(Partner(q, j), u, j)' = k)
        BY <1>4, <3>1
      <3> QED
        BY <1>1, <1>6, <3>1, <3>2, <3>3
    <2> QED
      BY <1>7, <2>1 DEF Answered
  <1>9. ASSUME NEW q \in Ranks, NEW u \in Tids, NEW j \in Ids, NEW h \in {0, 1}
        PROVE  flag'[<<q, u, 3 * h + j>>] = 1 <=> Pending(q, u, j, h)'
    <2>1. flag[<<q, u, 3 * h + j>>] = 1 <=> Pending(q, u, j, h)
      BY DEF Inv, Raised
    <2>2. Partner(q, j) \in Ranks /\ Partner(Partner(q, j), j) = q /\ j \in {0, 1, 2} /\ id \in {0, 1, 2}
          /\ FlipFlag(r) \in {0, 1}
      BY <1>1, <1>2, FlagPartners, FlagIds DEF FlipFlag
    <2>3. <<q, u, 3 * h + j>> \in Flags
      BY <2>2 DEF Flags
    <2>4. <<q, u, 3 * h + j>> = <<p, t, 3 * FlipFlag(r) + id>> <=> q = p /\ u = t /\ j = id /\ h = FlipFlag(r)
      BY <2>2, FlagNames
    <2>5. flag'[<<q, u, 3 * h + j>>] =
            IF q = p /\ u = t /\ j = id /\ h = FlipFlag(r) THEN 1 ELSE flag[<<q, u, 3 * h + j>>]
      BY <1>1, <1>3, <2>3, <2>4 DEF TypeOK
    <2>6. CASE q = p /\ u = t /\ j = id
      <3>1. Sets(Partner(q, j), u, j) = k - 1 /\ Sets(Partner(q, j), u, j)' = k
        BY <1>4, <1>5, <2>6
      <3>2. Waits(q, u, j)' = Waits(q, u, j) /\ Waits(q, u, j) \in {k - 2, k - 1}
        BY <1>5, <1>6, <2>6
      <3>3. Pending(q, u, j, h)' <=> (h = k % 2 \/ Pending(q, u, j, h))
        BY <1>1, <3>1, <3>2 DEF Pending
      <3> QED
        BY <2>1, <2>5, <2>6, <3>3 DEF FlipFlag
    <2>7. CASE ~(q = p /\ u = t /\ j = id)
      <3>1. <<Partner(q, j), u, j>> # <<r, t, id>>
        BY <2>2, <2>7
      <3>2. Sets(Partner(q, j), u, j)' = Sets(Partner(q, j), u, j) /\ Waits(q, u, j)' = Waits(q, u, j)
        BY <1>4, <1>6, <2>2, <3>1
      <3>3. Pending(q, u, j, h)' <=> Pending(q, u, j, h)
        BY <3>2 DEF Pending
      <3> QED
        BY <2>1, <2>5, <2>7, <3>3
    <2> QED
      BY <2>6, <2>7
  <1>10. Raised'
    BY <1>7, <1>9 DEF Raised
  <1> QED
    BY <1>8, <1>10

\* Waiting for a flag.
LEMMA WaitKeeps ==
  ASSUME Inv, TypeOK', NEW r \in Ranks, NEW t \in Tids, WaitFence(r, t)
  PROVE  Answered' /\ Raised'
  <1> DEFINE k == call[r]
  <1>1. TypeOK /\ world \in Worlds /\ k \in Nat /\ world' = world /\ pc' = pc /\ call' = call /\ Advance(r, t)
    BY DEF Inv, TypeOK, WaitFence
  <1>2. PICK id \in Ids : id = WaitSteps[Step(r, t)] /\ at[r][t] = SetAt(id) + 1 /\ pc[r] = "work"
    <2> DEFINE id == WaitSteps[Step(r, t)]
    <2>1. Step(r, t) \in DOMAIN WaitSteps
      BY DEF WaitFence
    <2>2. id \in Ids /\ at[r][t] = SetAt(id) + 1 /\ Step(r, t) # "none"
      BY <1>1, <2>1, StepsOfThread DEF WaitSteps
    <2> QED
      BY <1>1, <2>2, StepsOfThread
  <1> DEFINE p == Partner(r, id)
  <1>3. /\ flag[<<r, t, 3 * FlipFlag(r) + id>>] = 1
        /\ flag' = [flag EXCEPT ![<<r, t, 3 * FlipFlag(r) + id>>] = 0]
    BY <1>2 DEF WaitFence, Fence, ResetFlag
  <1>4. /\ Waits(r, t, id) = k - 1 /\ Sets(r, t, id) = k
        /\ Waits(r, t, id)' = k /\ Sets(r, t, id)' = k
        /\ \A q \in Ranks, u \in Tids, j \in Ids : <<q, u, j>> # <<r, t, id>> =>
             Sets(q, u, j)' = Sets(q, u, j) /\ Waits(q, u, j)' = Waits(q, u, j)
    BY <1>1, <1>2, OnePassed
  <1>5. p \in Ranks /\ Partner(p, id) = r /\ id \in {0, 1, 2} /\ FlipFlag(r) \in {0, 1}
    BY <1>1, <1>2, FlagPartners, FlagIds DEF FlipFlag
  <1>6. Sets(p, t, id) \in {k, k + 1}
    <2>1. Sets(p, t, id) \in Int /\ Waits(p, t, id) \in Int /\ Sets(p, t, id) <= Waits(p, t, id) + 1
      BY <1>1, <1>2, <1>5, PassedType
    <2>2. Waits(p, t, id) <= k
      BY <1>2, <1>4, <1>5 DEF Inv, Answered
    <2>3. Pending(r, t, id, FlipFlag(r))
      BY <1>2, <1>3, <1>5 DEF Inv, Raised
    <2>4. Sets(p, t, id) >= k
      BY <1>1, <1>4, <2>1, <2>3 DEF Pending, FlipFlag
    <2> QED
      BY <1>1, <2>1, <2>2, <2>4
  <1>7. \A q \in Ranks, u \in Tids, j \in Ids : Sets(q, u, j)' = Sets(q, u, j)
    BY <1>4
  <1>8. Ranks' = Ranks /\ Ids' = Ids
    BY <1>1, SameWorld
  <1>9. Answered'
    <2>1. ASSUME NEW q \in Ranks, NEW u \in Tids, NEW j \in Ids
          PROVE  Waits(q, u, j)' <= Sets(Partner(q, j), u, j)'
      <3>1. Waits(q, u, j) <= Sets(Partner(q, j), u, j) /\ Partner(q, j) \in Ranks
        BY <1>1, FlagPartners DEF Inv, Answered
      <3>2. CASE <<q, u, j>> = <<r, t, id>>
        <4>1. q = r /\ u = t /\ j = id
          BY <3>2
        <4> QED
          BY <1>1, <1>4, <1>6, <1>7, <3>1, <4>1
      <3>3. CASE <<q, u, j>> # <<r, t, id>>
        BY <1>4, <1>7, <3>1, <3>3
      <3> QED
        BY <3>2, <3>3
    <2> QED
      BY <1>8, <2>1 DEF Answered
  <1>10. ASSUME NEW q \in Ranks, NEW u \in Tids, NEW j \in Ids, NEW h \in {0, 1}
         PROVE  flag'[<<q, u, 3 * h + j>>] = 1 <=> Pending(q, u, j, h)'
    <2>1. flag[<<q, u, 3 * h + j>>] = 1 <=> Pending(q, u, j, h)
      BY DEF Inv, Raised
    <2>2. Partner(q, j) \in Ranks /\ j \in {0, 1, 2}
      BY <1>1, FlagPartners, FlagIds
    <2>3. <<q, u, 3 * h + j>> \in Flags
      BY <2>2 DEF Flags
    <2>4. <<q, u, 3 * h + j>> = <<r, t, 3 * FlipFlag(r) + id>> <=> q = r /\ u = t /\ j = id /\ h = FlipFlag(r)
      BY <1>5, <2>2, FlagNames
    <2>5. flag'[<<q, u, 3 * h + j>>] =
            IF q = r /\ u = t /\ j = id /\ h = FlipFlag(r) THEN 0 ELSE flag[<<q, u, 3 * h + j>>]
      BY <1>1, <1>3, <2>3, <2>4 DEF TypeOK
    <2>6. CASE q = r /\ u = t /\ j = id
      <3>1. Sets(Partner(q, j), u, j) \in {k, k + 1} /\ Sets(Partner(q, j), u, j)' = Sets(Partner(q, j), u, j)
        BY <1>5, <1>6, <1>7, <2>6
      <3>2. Waits(q, u, j) = k - 1 /\ Waits(q, u, j)' = k
        BY <1>4, <2>6
      <3>3. Pending(q, u, j, h)' <=> (h # k % 2 /\ Pending(q, u, j, h))
        BY <1>1, <3>1, <3>2 DEF Pending
      <3> QED
        BY <2>1, <2>5, <2>6, <3>3 DEF FlipFlag
    <2>7. CASE ~(q = r /\ u = t /\ j = id)
      <3>1. <<q, u, j>> # <<r, t, id>>
        BY <2>7
      <3>2. Sets(Partner(q, j), u, j)' = Sets(Partner(q, j), u, j) /\ Waits(q, u, j)' = Waits(q, u, j)
        BY <1>4, <1>7, <2>2, <3>1
      <3>3. Pending(q, u, j, h)' <=> Pending(q, u, j, h)
        BY <3>2 DEF Pending
      <3> QED
        BY <2>1, <2>5, <2>7, <3>3
    <2> QED
      BY <2>6, <2>7
  <1>11. Raised'
    BY <1>8, <1>10 DEF Raised
  <1> QED
    BY <1>9, <1>11
\* At the start nothing was set and nothing waited for.
LEMMA InvInit == Init => Inv
  <1> SUFFICES ASSUME Init PROVE Inv
    OBVIOUS
  <1>1. TypeOK
    BY TypeInit
  <1>2. world \in Worlds
    BY DEF Init
  <1>3. ASSUME NEW r \in Ranks, NEW t \in Tids, NEW id \in Ids
        PROVE  Waits(r, t, id) = 0 /\ Sets(r, t, id) = 0
    BY DEF Init, Waits, Sets, Passed
  <1>4. \A r \in Ranks, id \in Ids : Partner(r, id) \in Ranks
    BY <1>2, FlagPartners
  <1>5. Answered
    BY <1>3, <1>4 DEF Answered
  <1>6. ASSUME NEW r \in Ranks, NEW t \in Tids, NEW id \in Ids, NEW h \in {0, 1}
        PROVE  flag[<<r, t, 3 * h + id>>] # 1 /\ ~Pending(r, t, id, h)
    <2>1. <<r, t, 3 * h + id>> \in Flags
      BY <1>2, FlagIds DEF Flags
    <2>2. flag[<<r, t, 3 * h + id>>] = 0
      BY <2>1 DEF Init
    <2> QED
      BY <1>3, <1>4, <2>2 DEF Pending
  <1>7. Raised
    BY <1>6 DEF Raised
  <1> QED
    BY <1>1, <1>5, <1>7 DEF Inv

\* The invariant of the flags is inductive.
LEMMA InvStep == Inv /\ [Next]_vars => Inv'
  <1> SUFFICES ASSUME Inv, [Next]_vars PROVE Inv'
    OBVIOUS
  <1>1. TypeOK /\ TypeOK'
    BY TypeStep DEF Inv
  <1>2. ASSUME NEW r \in Ranks, Rank(r) \/ \E t \in Tids : Compute(r, t) PROVE Answered' /\ Raised'
    <2>1. NoPass
      BY <1>1, <1>2, NoPassActions
    <2>2. world' = world
      BY <1>2 DEF Rank, Call, Enter, Leave, Return, Compute
    <2>3. flag' = flag
      BY <1>2 DEF Rank, Call, Enter, Leave, Return, Compute
    <2> QED
      BY <1>1, <2>1, <2>2, <2>3, NoPassKeeps DEF Inv
  <1>3. ASSUME NEW r \in Ranks, NEW t \in Tids, SetFence(r, t) \/ WaitFence(r, t) PROVE Answered' /\ Raised'
    BY <1>1, <1>3, SetKeeps, WaitKeeps
  <1>4. ASSUME UNCHANGED vars PROVE Answered' /\ Raised'
    <2>1. world' = world /\ flag' = flag /\ pc' = pc /\ at' = at /\ call' = call
      BY <1>4 DEF vars
    <2>2. NoPass
      BY <1>1, <2>1, NoPassFrom DEF Passed
    <2> QED
      BY <1>1, <2>1, <2>2, NoPassKeeps DEF Inv
  <1>5. Answered' /\ Raised'
    BY <1>2, <1>3, <1>4 DEF Next, Thread
  <1> QED
    BY <1>1, <1>5 DEF Inv

\* A flag that is about to be set is down.
LEMMA InvImpliesNoLostFlag == Inv => NoLostFlag
  <1> SUFFICES ASSUME Inv, NEW r \in Ranks, NEW t \in Tids, Step(r, t) \in DOMAIN SetSteps
               PROVE  flag[Fence(Partner(r, SetSteps[Step(r, t)]), t, r, SetSteps[Step(r, t)])] = 0
    BY DEF NoLostFlag
  <1>1. TypeOK /\ world \in Worlds /\ call[r] \in Nat
    BY DEF Inv, TypeOK
  <1>2. PICK id \in Ids : id = SetSteps[Step(r, t)] /\ at[r][t] = SetAt(id) /\ pc[r] = "work"
    <2>1. Step(r, t) # "none"
      BY DEF SetSteps
    <2> QED
      BY <1>1, <2>1, StepsOfThread
  <1>3. SetAt(id) \in 2..8
    BY <1>1, FlagIds
  <1>4. Waits(r, t, id) = call[r] - 1 /\ Sets(r, t, id) = call[r] - 1
    BY <1>2, <1>3 DEF Waits, Sets, Passed
  <1>5. flag[<<Partner(r, id), t, 3 * FlipFlag(r) + id>>] = 0
    BY <1>4, DownBeforeSet
  <1> QED
    BY <1>2, <1>5 DEF Fence

\* No flag of shm_allreduce is set while it still is, however many calls the
\* ranks make and however far one is ahead of its partner: no wait misses a
\* set_fence.
THEOREM NoLostFlagCorrect == Spec => []NoLostFlag
  <1>1. Init => Inv
    BY InvInit
  <1>2. Inv /\ [Next]_vars => Inv'
    BY InvStep
  <1>3. Inv => NoLostFlag
    BY InvImpliesNoLostFlag
  <1> QED
    BY <1>1, <1>2, <1>3, PTL DEF Spec

\* A thread leaves a wait_fence only after its partner's set_fence of the same
\* call: the order that the sums of the other die and socket rest on.
THEOREM AnsweredCorrect == Spec => []Answered
  <1>1. Init => Inv
    BY InvInit
  <1>2. Inv /\ [Next]_vars => Inv'
    BY InvStep
  <1>3. Inv => Answered
    BY DEF Inv
  <1> QED
    BY <1>1, <1>2, <1>3, PTL DEF Spec

-----------------------------------------------------------------------------
(* The fences of a die.                                                     *)

\* A rank has entered two fences in each call that it returned from, and nobody
\* gets past a fence that a mate has not reached.
Met ==
  \A r \in Ranks :
    /\ gate[r] = 2 * call[r] - (IF pc[r] \in {"enter", "work"} THEN 1 ELSE 0)
    /\ \A q \in Mates(r) : gate[q] >= gate[r] - (IF pc[r] \in {"enter", "leave"} THEN 1 ELSE 0)

\* A rank is its socket, its die and its number in the die.
LEMMA RankIs ==
  ASSUME NEW r \in Ranks
  PROVE  /\ r = <<r[1], r[2], r[3]>> /\ r[1] \in 0..Sockets - 1 /\ r[2] \in 0..Dies - 1 /\ r[3] \in Locals
  BY DEF Ranks

\* To be a mate is an equivalence.
LEMMA MatesAre ==
  ASSUME NEW r \in Ranks, NEW q \in Mates(r)
  PROVE  /\ q \in Ranks /\ r \in Mates(q) /\ r \in Mates(r) /\ Mates(q) = Mates(r)
         /\ q[1] = r[1] /\ q[2] = r[2]
  BY DEF Mates

\* At the start no fence has been entered.
LEMMA MetInit == Init => Met
  BY DEF Init, Met, Mates

\* Passes, the condition of the fence, keeps mates within one fence of each other.
LEMMA MetStep == TypeOK /\ Met /\ [Next]_vars => Met'
  <1> SUFFICES ASSUME TypeOK, Met, [Next]_vars PROVE Met'
    OBVIOUS
  <1>1. world' = world
    BY DEF Next, Rank, Thread, Call, Enter, Leave, Return, Compute, SetFence, WaitFence, vars
  <1>2. Ranks' = Ranks /\ \A r \in Ranks : Mates(r)' = Mates(r) /\ Mates(r) \subseteq Ranks
    BY <1>1, SameWorld DEF Mates
  <1>3. \A r \in Ranks : call[r] \in Nat /\ gate[r] \in Nat
    BY DEF TypeOK
  <1>4. ASSUME NEW r \in Ranks, Call(r) PROVE Met'
    <2>1. \A q \in Ranks : /\ gate'[q] = (IF q = r THEN gate[r] + 1 ELSE gate[q])
                           /\ call'[q] = (IF q = r THEN call[r] + 1 ELSE call[q])
                           /\ pc'[q] = (IF q = r THEN "enter" ELSE pc[q])
      BY <1>4 DEF Call, TypeOK
    <2>2. pc[r] = "user"
      BY <1>4 DEF Call
    <2> QED
      BY <1>2, <1>3, <2>1, <2>2 DEF Met
  <1>5. ASSUME NEW r \in Ranks, Enter(r) PROVE Met'
    <2>1. \A q \in Ranks : gate'[q] = gate[q] /\ call'[q] = call[q] /\ pc'[q] = (IF q = r THEN "work" ELSE pc[q])
      BY <1>5 DEF Enter, TypeOK
    <2>2. pc[r] = "enter" /\ \A q \in Mates(r) : gate[q] >= gate[r]
      BY <1>5 DEF Enter, Passes
    <2> QED
      BY <1>2, <1>3, <2>1, <2>2 DEF Met
  <1>6. ASSUME NEW r \in Ranks, Leave(r) PROVE Met'
    <2>1. \A q \in Ranks : /\ gate'[q] = (IF q = r THEN gate[r] + 1 ELSE gate[q])
                           /\ call'[q] = call[q]
                           /\ pc'[q] = (IF q = r THEN "leave" ELSE pc[q])
      BY <1>6 DEF Leave, TypeOK
    <2>2. pc[r] = "work"
      BY <1>6 DEF Leave
    <2> QED
      BY <1>2, <1>3, <2>1, <2>2 DEF Met
  <1>7. ASSUME NEW r \in Ranks, Return(r) PROVE Met'
    <2>1. \A q \in Ranks : gate'[q] = gate[q] /\ call'[q] = call[q] /\ pc'[q] = (IF q = r THEN "user" ELSE pc[q])
      BY <1>7 DEF Return, TypeOK
    <2>2. pc[r] = "leave" /\ \A q \in Mates(r) : gate[q] >= gate[r]
      BY <1>7 DEF Return, Passes
    <2> QED
      BY <1>2, <1>3, <2>1, <2>2 DEF Met
  <1>8. ASSUME NEW r \in Ranks, NEW t \in Tids, Thread(r, t) PROVE Met'
    <2>1. gate' = gate /\ call' = call /\ pc' = pc
      BY <1>8 DEF Thread, Compute, SetFence, WaitFence
    <2> QED
      BY <1>2, <2>1 DEF Met
  <1>9. ASSUME UNCHANGED vars PROVE Met'
    BY <1>2, <1>9 DEF Met, vars
  <1> QED
    BY <1>4, <1>5, <1>6, <1>7, <1>8, <1>9 DEF Next, Rank

\* While a rank works, its mates are in the same call.
LEMMA MatesAtWork ==
  ASSUME TypeOK, Met, NEW r \in Ranks, pc[r] = "work", NEW q \in Mates(r)
  PROVE  call[q] = call[r] /\ pc[q] # "user"
  <1>1. q \in Ranks /\ r \in Mates(q)
    BY MatesAre
  <1>2. call[q] \in Nat /\ call[r] \in Nat /\ pc[q] \in {"user", "enter", "work", "leave"}
    BY <1>1 DEF TypeOK
  <1>3. gate[r] = 2 * call[r] - 1 /\ gate[q] >= gate[r]
    BY <1>1, <1>2 DEF Met
  <1>4. /\ gate[q] = 2 * call[q] - (IF pc[q] \in {"enter", "work"} THEN 1 ELSE 0)
        /\ gate[r] >= gate[q] - (IF pc[q] \in {"enter", "leave"} THEN 1 ELSE 0)
    BY <1>1 DEF Met
  <1> QED
    BY <1>2, <1>3, <1>4

\* While a rank is with its user, no mate is at work: each has done all of the
\* calls that the rank made, and nothing of a further one.
LEMMA MatesOfUser ==
  ASSUME TypeOK, Met, NEW r \in Ranks, pc[r] = "user", NEW q \in Mates(r)
  PROVE  /\ pc[q] # "work"
         /\ \A t \in Tids, i \in Nat : Passed(q, t, i) = call[r]
  <1>1. q \in Ranks /\ r \in Mates(q)
    BY MatesAre
  <1>2. call[q] \in Nat /\ call[r] \in Nat /\ pc[q] \in {"user", "enter", "work", "leave"}
    BY <1>1 DEF TypeOK
  <1>3. gate[r] = 2 * call[r] /\ gate[q] >= gate[r]
    BY <1>1, <1>2 DEF Met
  <1>4. /\ gate[q] = 2 * call[q] - (IF pc[q] \in {"enter", "work"} THEN 1 ELSE 0)
        /\ gate[r] >= gate[q] - (IF pc[q] \in {"enter", "leave"} THEN 1 ELSE 0)
    BY <1>1 DEF Met
  <1>5. pc[q] # "work" /\ call[q] = (IF pc[q] = "enter" THEN call[r] + 1 ELSE call[r])
    BY <1>2, <1>3, <1>4
  <1> QED
    BY <1>2, <1>5 DEF Passed
-----------------------------------------------------------------------------
(* Where the computing steps stand among the sets and waits.                *)

ComputeSteps == {"reduce", "collect", "spread", "copy"}
StepAt(s) ==
  CASE s = "reduce"  -> 1
    [] s = "collect" -> IF Dies = 1 THEN 2 ELSE 4
    [] s = "spread"  -> IF Dies = 1 THEN 3 ELSE IF Sockets = 1 THEN 5 ELSE 7
    [] s = "copy"    -> IF Dies = 1 THEN 4 ELSE IF Sockets = 1 THEN 8 ELSE 10

\* In how many calls a thread has done a computing step.
Did(r, t, s) == Passed(r, t, StepAt(s))

\* The places in each of the three programs, as numbers.
LEMMA StepsStand ==
  ASSUME world \in Worlds
  PROVE  /\ StepAt("reduce") = 1 /\ \A s \in ComputeSteps : StepAt(s) \in 1..10
         /\ Dies = 1 => /\ Sockets = 1 /\ StepAt("collect") = 2 /\ StepAt("spread") = 3 /\ StepAt("copy") = 4
         /\ Dies # 1 => /\ Dies = 2 /\ {0, 2} \subseteq Ids /\ SetAt(0) = 2 /\ StepAt("collect") = 4
                        /\ SetAt(2) = StepAt("spread") + 1 /\ StepAt("copy") = StepAt("spread") + 3
         /\ Sockets = 1 => Dies = 1 \/ StepAt("spread") = 5
         /\ Sockets # 1 => /\ Sockets = 2 /\ Dies = 2 /\ 1 \in Ids /\ SetAt(1) = 5 /\ StepAt("spread") = 7
  <1>1. Sockets \in {1, 2} /\ Dies \in {1, 2} /\ (Dies = 1 => Sockets = 1)
    BY Geometry
  <1>2. /\ StepAt("reduce") = 1
        /\ StepAt("collect") = IF Dies = 1 THEN 2 ELSE 4
        /\ StepAt("spread") = IF Dies = 1 THEN 3 ELSE IF Sockets = 1 THEN 5 ELSE 7
        /\ StepAt("copy") = IF Dies = 1 THEN 4 ELSE IF Sockets = 1 THEN 8 ELSE 10
    BY DEF StepAt
  <1>3. /\ SetAt(0) = 2 /\ SetAt(1) = 5 /\ SetAt(2) = IF Sockets = 1 THEN 6 ELSE 8
    BY DEF SetAt
  <1>4. \A s \in ComputeSteps : StepAt(s) \in 1..10
    BY <1>1, <1>2 DEF ComputeSteps
  <1> QED
    BY <1>1, <1>2, <1>3, <1>4 DEF Ids

\* A thread that is about to compute has done the steps before, and those alone.
LEMMA AtStep ==
  ASSUME TypeOK, NEW r \in Ranks, NEW t \in Tids, Step(r, t) \in ComputeSteps
  PROVE  /\ pc[r] = "work" /\ at[r][t] = StepAt(Step(r, t))
         /\ \A i \in Nat : Passed(r, t, i) = IF i < StepAt(Step(r, t)) THEN call[r] ELSE call[r] - 1
  <1>1. world \in Worlds /\ at[r][t] \in 1..Len(Program) + 1 /\ Len(Program) \in {4, 8, 10}
    BY DEF TypeOK, Program
  <1>2. pc[r] = "work" /\ at[r][t] \in 1..Len(Program) /\ Step(r, t) = Program[at[r][t]]
    BY <1>1 DEF Step, ComputeSteps
  <1>3. at[r][t] = StepAt(Step(r, t))
    <2>1. CASE Dies = 1
      <3>1. Program = <<"reduce", "collect", "spread", "copy">> /\ at[r][t] \in {1, 2, 3, 4}
        BY <1>1, <1>2, <2>1 DEF Program
      <3> QED
        BY <1>2, <2>1, <3>1 DEF StepAt
    <2>2. CASE Dies # 1 /\ Sockets = 1
      <3>1. Program = <<"reduce", "set0", "wait0", "collect", "spread", "set2", "wait2", "copy">>
            /\ at[r][t] \in {1, 2, 3, 4, 5, 6, 7, 8}
        BY <1>1, <1>2, <2>2 DEF Program
      <3> QED
        BY <1>2, <2>2, <3>1 DEF StepAt, ComputeSteps
    <2>3. CASE Dies # 1 /\ Sockets # 1
      <3>1. Program = <<"reduce", "set0", "wait0", "collect", "set1", "wait1", "spread", "set2", "wait2", "copy">>
            /\ at[r][t] \in {1, 2, 3, 4, 5, 6, 7, 8, 9, 10}
        BY <1>1, <1>2, <2>3 DEF Program
      <3> QED
        BY <1>2, <2>3, <3>1 DEF StepAt, ComputeSteps
    <2> QED
      BY <2>1, <2>2, <2>3
  <1>4. at[r][t] \in Int
    BY <1>1
  <1> QED
    BY <1>2, <1>3, <1>4 DEF Passed

\* Of two steps of a thread the later one is passed as often, or once less.
LEMMA InOrder ==
  ASSUME TypeOK, NEW r \in Ranks, NEW t \in Tids, NEW i \in Nat, NEW j \in Nat, i <= j
  PROVE  /\ Passed(r, t, j) <= Passed(r, t, i)
         /\ Passed(r, t, i) \in {call[r] - 1, call[r]} /\ call[r] \in Nat
  <1>1. call[r] \in Nat /\ at[r][t] \in Int
    <2>1. Len(Program) \in {4, 8, 10}
      BY DEF Program
    <2> QED
      BY <2>1 DEF TypeOK
  <1>2. at[r][t] > j => at[r][t] > i
    BY <1>1
  <1> QED
    BY <1>1, <1>2 DEF Passed

\* While a thread adds up the sums of two dies or spreads them, its partner in
\* the other die has set flag 0 in this call, and not yet waited for flag 2.
LEMMA PartnerBetween ==
  ASSUME Inv, NEW r \in Ranks, NEW t \in Tids, Step(r, t) \in {"collect", "spread"}, Dies # 1
  PROVE  LET p == InterDie(r)
         IN  /\ p \in Ranks /\ InterDie(p) = r
             /\ call[p] = call[r] /\ pc[p] = "work" /\ at[p][t] \in 3..StepAt("spread") + 2
  <1> DEFINE p == InterDie(r)
  <1> DEFINE k == call[r]
  <1>1. TypeOK /\ world \in Worlds /\ k \in Nat
    BY DEF Inv, TypeOK
  <1>2. Dies = 2 /\ SetAt(0) = 2 /\ 0 \in Ids /\ 2 \in Ids /\ SetAt(2) = StepAt("spread") + 1
        /\ StepAt("collect") = 4 /\ StepAt("spread") \in {5, 7}
    BY <1>1, StepsStand, Geometry
  <1>3. p \in Ranks /\ InterDie(p) = r /\ Partner(r, 0) = p /\ Partner(r, 2) = p
        /\ Partner(p, 0) = r /\ Partner(p, 2) = r
    BY <1>1, <1>2, Partners DEF Partner
  <1>4. Waits(r, t, 0) = k /\ Sets(r, t, 2) = k - 1
    <2>1. Step(r, t) \in ComputeSteps
      BY DEF ComputeSteps
    <2>2. StepAt(Step(r, t)) \in {4, StepAt("spread")}
      BY <1>2
    <2>3. SetAt(0) + 1 < StepAt(Step(r, t)) /\ ~(SetAt(2) < StepAt(Step(r, t))) /\ SetAt(0) + 1 \in Nat /\ SetAt(2) \in Nat
      BY <1>2, <2>2
    <2> QED
      BY <1>1, <2>1, <2>3, AtStep DEF Waits, Sets
  <1>5. Sets(p, t, 0) >= k /\ Waits(p, t, 2) <= k - 1
    <2>1. Waits(r, t, 0) <= Sets(p, t, 0) /\ Waits(p, t, 2) <= Sets(r, t, 2)
      BY <1>2, <1>3 DEF Inv, Answered
    <2> QED
      BY <1>1, <1>4, <2>1
  <1>6. call[p] \in Nat /\ at[p][t] \in Int /\ pc[p] \in {"user", "enter", "work", "leave"}
    <2>1. Len(Program) \in {4, 8, 10}
      BY DEF Program
    <2> QED
      BY <1>1, <1>3, <2>1 DEF TypeOK
  <1>7. Passed(p, t, 2) >= k /\ Passed(p, t, StepAt("spread") + 2) <= k - 1
    BY <1>2, <1>5 DEF Sets, Waits
  <1>8. pc[p] = "work" /\ call[p] = k
    <2>1. Passed(p, t, 2) \in {call[p] - 1, call[p]} /\ Passed(p, t, StepAt("spread") + 2) \in {call[p] - 1, call[p]}
      BY DEF Passed
    <2>2. call[p] = k /\ Passed(p, t, 2) = k /\ Passed(p, t, StepAt("spread") + 2) = k - 1
      BY <1>1, <1>6, <1>7, <2>1
    <2> QED
      BY <1>1, <1>6, <2>2 DEF Passed
  <1>9. at[p][t] > 2 /\ ~(at[p][t] > StepAt("spread") + 2)
    BY <1>1, <1>7, <1>8 DEF Passed
  <1> QED
    BY <1>2, <1>3, <1>6, <1>8, <1>9
-----------------------------------------------------------------------------
(* What a rank touches.                                                     *)

\* A block that a thread reads or writes: in its own die, or, when it adds up
\* or spreads the sum of two dies, its partner's.
Touches(r, t, x) ==
  \/ \E q \in Mates(r) : Step(r, t) \in {"reduce", "copy"} /\ x = Buffer(q, Local(r), t, Even(r))
  \/ \E q \in Mates(r) : Step(r, t) \in {"collect", "spread"} /\ x = Buffer(q, Local(r), t, Odd(r))
  \/ Dies # 1 /\ Step(r, t) \in {"collect", "spread"} /\ x = Buffer(InterDie(r), Local(r), t, Odd(r))

\* What a rank writes next is its user's, a block that it touches, or its extra buffer.
LEMMA WritersAre ==
  ASSUME NEW r \in Ranks, NEW x \in Writers(r)
  PROVE  \/ pc[r] = "user" /\ x \in Own(r)
         \/ pc[r] # "user" /\ \E t \in Tids : Touches(r, t, x)
         \/ pc[r] # "user" /\ \E t \in Tids : Step(r, t) = "collect" /\ x = Extra(r, FlipFlag(r), t)
  <1>1. CASE pc[r] = "user"
    BY <1>1 DEF Writers
  <1>2. CASE pc[r] # "user"
    <2>1. PICK t \in Tids : x \in Writes(r, t, Step(r, t))
      BY <1>2 DEF Writers
    <2>2. r \in Mates(r)
      BY DEF Mates
    <2>3. CASE Step(r, t) = "reduce"
      BY <1>2, <2>1, <2>2, <2>3 DEF Writes, Touches, Block
    <2>4. CASE Step(r, t) = "collect"
      BY <1>2, <2>1, <2>4 DEF Writes
    <2>5. CASE Step(r, t) = "spread"
      BY <1>2, <2>1, <2>5 DEF Writes, Touches, Block, Across
    <2>6. CASE Step(r, t) = "copy"
      BY <1>2, <2>1, <2>6 DEF Writes, Touches, Block
    <2>7. CASE Step(r, t) \notin {"reduce", "collect", "spread", "copy"}
      BY <2>1, <2>7 DEF Writes
    <2> QED
      BY <2>3, <2>4, <2>5, <2>6, <2>7
  <1> QED
    BY <1>1, <1>2

\* What it reads next is its user's, such a block, or an extra buffer of its own or of the other socket.
LEMMA ReadersAre ==
  ASSUME NEW r \in Ranks, NEW x \in Readers(r)
  PROVE  \/ pc[r] = "user" /\ x \in Own(r)
         \/ pc[r] # "user" /\ \E t \in Tids : Touches(r, t, x)
         \/ pc[r] # "user" /\ \E t \in Tids, q \in {r} \cup Beyond(r) :
               Step(r, t) = "spread" /\ x = Extra(q, FlipFlag(r), t)
  <1>1. CASE pc[r] = "user"
    BY <1>1 DEF Readers
  <1>2. CASE pc[r] # "user"
    <2>1. PICK t \in Tids : x \in Reads(r, t, Step(r, t))
      BY <1>2 DEF Readers
    <2>2. r \in Mates(r)
      BY DEF Mates
    <2>3. CASE Step(r, t) = "reduce"
      BY <1>2, <2>1, <2>3 DEF Reads, Touches, Block
    <2>4. CASE Step(r, t) = "collect"
      BY <1>2, <2>1, <2>4 DEF Reads, Touches, Block, Across
    <2>5. CASE Step(r, t) = "spread"
      BY <1>2, <2>1, <2>5 DEF Reads
    <2>6. CASE Step(r, t) = "copy"
      BY <1>2, <2>1, <2>2, <2>6 DEF Reads, Touches, Block
    <2>7. CASE Step(r, t) \notin {"reduce", "collect", "spread", "copy"}
      BY <2>1, <2>7 DEF Reads
    <2> QED
      BY <2>3, <2>4, <2>5, <2>6, <2>7
  <1> QED
    BY <1>1, <1>2

\* Names of places.
LEMMA PlaceNames ==
  ASSUME NEW q, NEW l, NEW t, NEW b, NEW r, NEW m, NEW u, NEW c
  PROVE  /\ Buffer(q, l, t, b) = Buffer(r, m, u, c) <=> q = r /\ l = m /\ t = u /\ b = c
         /\ Extra(q, l, t) = Extra(r, m, u) <=> q = r /\ l = m /\ t = u
         /\ Buffer(q, l, t, b) # Extra(r, m, u)
  BY DEF Buffer, Extra

\* Nobody touches a block of a rank that is with its user.
LEMMA NotOfUser ==
  ASSUME Inv, Met, NEW r \in Ranks, NEW q \in Ranks, NEW t \in Tids, NEW x,
         pc[r] = "user", x \in Own(r), Touches(q, t, x)
  PROVE  FALSE
  <1>1. PICK l \in Locals, u \in Tids, b \in {0, 1} : x = Buffer(r, l, u, b)
    BY DEF Own
  <1>2. TypeOK /\ Step(q, t) \in ComputeSteps
    BY DEF Inv, Touches, ComputeSteps
  <1>3. pc[q] = "work"
    BY <1>2, AtStep
  <1>4. CASE r \in Mates(q)
    BY <1>2, <1>3, <1>4, MatesAtWork
  <1>5. CASE r \notin Mates(q)
    <2>1. Dies # 1 /\ Step(q, t) \in {"collect", "spread"} /\ r = InterDie(q)
      BY <1>1, <1>5, PlaceNames DEF Touches
    <2> QED
      BY <2>1, PartnerBetween
  <1> QED
    BY <1>4, <1>5

\* Partners in the other die: while one touches a block of the other, that one
\* is at work on the other blocks.
LEMMA NotAcross ==
  ASSUME Inv, NEW r \in Ranks, NEW t \in Tids, NEW x, Dies # 1,
         Step(r, t) \in {"collect", "spread"}, x = Buffer(InterDie(r), Local(r), t, Odd(r)),
         NEW u \in Tids, Touches(InterDie(r), u, x)
  PROVE  FALSE
  <1> DEFINE p == InterDie(r)
  <1>1. TypeOK /\ world \in Worlds
    BY DEF Inv, TypeOK
  <1>2. p \in Ranks /\ InterDie(p) = r /\ at[p][t] \in 3..StepAt("spread") + 2
    BY PartnerBetween
  <1>3. p # r /\ Odd(p) # Odd(r) /\ r[2] \in {0, 1} /\ p = <<r[1], 1 - r[2], r[3]>>
    <2>1. r[2] \in {0, 1}
      BY <1>1, Geometry, RankIs
    <2> QED
      BY <2>1 DEF InterDie, Odd, Die
  <1>4. u = t
    BY PlaceNames DEF Touches
  <1>5. Step(p, t) \in ComputeSteps
    BY <1>4 DEF Touches, ComputeSteps
  <1>6. at[p][t] = StepAt(Step(p, t))
    BY <1>1, <1>2, <1>5, AtStep
  <1>7. Step(p, t) \notin {"reduce", "copy"}
    <2>1. StepAt("reduce") = 1 /\ StepAt("copy") = StepAt("spread") + 3 /\ StepAt("spread") \in {5, 7}
      BY <1>1, StepsStand, Geometry
    <2> QED
      BY <1>2, <1>6, <2>1
  <1>8. x # Buffer(InterDie(p), Local(p), t, Odd(p))
    BY <1>2, <1>3, PlaceNames
  <1>9. \A q \in Mates(p) : x # Buffer(q, Local(p), t, Odd(p))
    BY <1>3, PlaceNames
  <1> QED
    BY <1>4, <1>7, <1>8, <1>9 DEF Touches

\* Two ranks never touch the same block.
LEMMA TouchApart ==
  ASSUME Inv, NEW r \in Ranks, NEW q \in Ranks, q # r, NEW t \in Tids, NEW u \in Tids, NEW x,
         Touches(r, t, x), Touches(q, u, x)
  PROVE  FALSE
  <1>1. /\ r = <<r[1], r[2], r[3]>> /\ q = <<q[1], q[2], q[3]>>
        /\ r[2] \in Int /\ q[2] \in Int
    BY RankIs
  <1>2. Local(r) = Local(q) /\ r[3] = q[3]
    BY PlaceNames DEF Touches, Local
  <1>3. CASE \E z \in Mates(r), b \in {Even(r), Odd(r)} : x = Buffer(z, Local(r), t, b)
    <2>1. PICK z \in Mates(r), b \in {Even(r), Odd(r)} : x = Buffer(z, Local(r), t, b)
      BY <1>3
    <2>2. z[1] = r[1] /\ z[2] = r[2] /\ z \in Ranks
      BY MatesAre
    <2>3. z \notin Mates(q)
      BY <1>1, <1>2, <2>2, MatesAre
    <2>4. Dies # 1 /\ Step(q, u) \in {"collect", "spread"} /\ x = Buffer(InterDie(q), Local(q), u, Odd(q)) /\ z = InterDie(q)
      BY <2>1, <2>3, PlaceNames DEF Touches
    <2>5. InterDie(q) = r
      <3>1. z = <<q[1], 1 - q[2], q[3]>>
        BY <2>4 DEF InterDie
      <3> QED
        BY <1>1, <1>2, <2>2, <2>4, <3>1
    <2> QED
      BY <2>4, <2>5, NotAcross
  <1>4. CASE ~ \E z \in Mates(r), b \in {Even(r), Odd(r)} : x = Buffer(z, Local(r), t, b)
    <2>1. Dies # 1 /\ Step(r, t) \in {"collect", "spread"} /\ x = Buffer(InterDie(r), Local(r), t, Odd(r))
      BY <1>4 DEF Touches
    <2>2. InterDie(r)[1] = r[1] /\ InterDie(r)[2] = 1 - r[2] /\ InterDie(r)[3] = r[3]
      BY DEF InterDie
    <2>3. CASE InterDie(r) \in Mates(q)
      <3>1. InterDie(r) = q
        <4>1. InterDie(r)[1] = q[1] /\ InterDie(r)[2] = q[2]
          BY <2>3, MatesAre
        <4> QED
          BY <1>1, <1>2, <2>2, <4>1 DEF InterDie
      <3> QED
        BY <2>1, <3>1, NotAcross
    <2>4. CASE InterDie(r) \notin Mates(q)
      <3>1. InterDie(r) = InterDie(q)
        BY <2>1, <2>4, PlaceNames DEF Touches
      <3>2. InterDie(q)[1] = q[1] /\ InterDie(q)[2] = 1 - q[2] /\ InterDie(q)[3] = q[3]
        BY DEF InterDie
      <3>3. r[1] = q[1] /\ r[2] = q[2]
        BY <1>1, <2>2, <3>1, <3>2
      <3> QED
        BY <1>1, <1>2, <3>3
    <2> QED
      BY <2>3, <2>4
  <1> QED
    BY <1>3, <1>4

\* The sum of a socket is not replaced while the other socket still reads it:
\* a rank may be one call ahead, and then it writes the other extra buffer.
LEMMA FlipKeepsApart ==
  ASSUME Inv, NEW r \in Ranks, NEW q \in Ranks, Sockets # 1, r = InterSocket(q), NEW t \in Tids,
         Step(r, t) = "collect", Step(q, t) = "spread"
  PROVE  FlipFlag(r) # FlipFlag(q)
  <1>1. TypeOK /\ world \in Worlds /\ call[r] \in Nat /\ call[q] \in Nat
    BY DEF Inv, TypeOK
  <1>2. 1 \in Ids /\ SetAt(1) = 5 /\ StepAt("spread") = 7 /\ StepAt("collect") = 4 /\ Sockets = 2 /\ Dies # 1
    BY <1>1, StepsStand
  <1>3. Partner(r, 1) = q /\ Partner(q, 1) = r
    BY <1>1, <1>2, Partners DEF Partner
  <1>4. Sets(r, t, 1) = call[r] - 1 /\ Waits(r, t, 1) = call[r] - 1
    BY <1>1, <1>2, AtStep DEF Sets, Waits, ComputeSteps
  <1>5. Sets(q, t, 1) = call[q] /\ Waits(q, t, 1) = call[q]
    BY <1>1, <1>2, AtStep DEF Sets, Waits, ComputeSteps
  <1>6. call[q] <= call[r] - 1 /\ call[r] - 1 <= call[q]
    <2>1. Waits(q, t, 1) <= Sets(r, t, 1) /\ Waits(r, t, 1) <= Sets(q, t, 1)
      BY <1>2, <1>3 DEF Inv, Answered
    <2> QED
      BY <1>4, <1>5, <2>1
  <1>7. call[r] = call[q] + 1
    BY <1>1, <1>6
  <1> QED
    BY <1>1, <1>7 DEF FlipFlag

\* Whoever is in the way of a writer breaks the flags or the fences.
LEMMA InvImpliesRaceFree == Inv /\ Met => RaceFree
  <1> SUFFICES ASSUME Inv, Met, NEW q \in Ranks, NEW r \in Ranks, q # r,
                      NEW x, x \in Writers(r), x \in Readers(q) \cup Writers(q)
               PROVE  FALSE
    BY DEF RaceFree
  <1>1. \/ pc[r] = "user" /\ x \in Own(r)
        \/ \E t \in Tids : Touches(r, t, x)
        \/ \E t \in Tids : Step(r, t) = "collect" /\ x = Extra(r, FlipFlag(r), t)
    BY WritersAre
  <1>2. \/ pc[q] = "user" /\ x \in Own(q)
        \/ \E t \in Tids : Touches(q, t, x)
        \/ \E t \in Tids : Step(q, t) = "collect" /\ x = Extra(q, FlipFlag(q), t)
        \/ \E t \in Tids, z \in {q} \cup Beyond(q) : Step(q, t) = "spread" /\ x = Extra(z, FlipFlag(q), t)
    BY WritersAre, ReadersAre
  <1>3. CASE pc[r] = "user" /\ x \in Own(r)
    <2>1. \E l \in Locals, t \in Tids, b \in {0, 1} : x = Buffer(r, l, t, b)
      BY <1>3 DEF Own
    <2>2. CASE pc[q] = "user" /\ x \in Own(q)
      <3>1. \E l \in Locals, t \in Tids, b \in {0, 1} : x = Buffer(q, l, t, b)
        BY <2>2 DEF Own
      <3> QED
        BY <2>1, <3>1 DEF Buffer
    <2>3. CASE \E t \in Tids : Touches(q, t, x)
      BY <1>3, <2>3, NotOfUser
    <2>4. \A z, h, t : x # Extra(z, h, t)
      BY <2>1, PlaceNames
    <2> QED
      BY <1>2, <2>2, <2>3, <2>4
  <1>4. CASE \E t \in Tids : Touches(r, t, x)
    <2>1. \E z, l, t, b : x = Buffer(z, l, t, b)
      BY <1>4 DEF Touches
    <2>2. CASE pc[q] = "user" /\ x \in Own(q)
      BY <1>4, <2>2, NotOfUser
    <2>3. CASE \E t \in Tids : Touches(q, t, x)
      BY <1>4, <2>3, TouchApart
    <2>4. \A z, h, t : x # Extra(z, h, t)
      BY <2>1, PlaceNames
    <2> QED
      BY <1>2, <2>2, <2>3, <2>4
  <1>5. CASE \E t \in Tids : Step(r, t) = "collect" /\ x = Extra(r, FlipFlag(r), t)
    <2>1. PICK t \in Tids : Step(r, t) = "collect" /\ x = Extra(r, FlipFlag(r), t)
      BY <1>5
    <2>2. ~(pc[q] = "user" /\ x \in Own(q)) /\ ~ \E u \in Tids : Touches(q, u, x)
      BY <2>1, PlaceNames DEF Own, Touches
    <2>3. PICK u \in Tids, z \in {q} \cup Beyond(q) : Step(q, u) = "spread" /\ x = Extra(z, FlipFlag(q), u)
      <3>1. ASSUME NEW u \in Tids PROVE x # Extra(q, FlipFlag(q), u) 
        BY <2>1, PlaceNames
      <3> QED
        BY <1>2, <2>2, <3>1
    <2>4. z = r /\ u = t /\ FlipFlag(r) = FlipFlag(q)
      <3>1. Extra(z, FlipFlag(q), u) = Extra(r, FlipFlag(r), t)
        BY <2>1, <2>3
      <3> QED
        BY <3>1 DEF Extra
    <2>5. Sockets # 1 /\ r = InterSocket(q)
      BY <2>3, <2>4 DEF Beyond
    <2> QED
      BY <2>1, <2>3, <2>4, <2>5, FlipKeepsApart
  <1> QED
    BY <1>1, <1>3, <1>4, <1>5

\* No rank writes into a buffer that another reads or writes, nor into the data
\* of a rank that is with its user: neither within a die, where the fences
\* separate them, nor across dies and sockets, where the flags and the two
\* extra buffers do.
THEOREM RaceFreeCorrect == Spec => []RaceFree
  <1>1. Init => Inv /\ Met
    BY InvInit, MetInit
  <1>2. Inv /\ Met /\ [Next]_vars => Inv' /\ Met'
    <2>1. Inv => TypeOK
      BY DEF Inv
    <2> QED
      BY <2>1, InvStep, MetStep
  <1>3. Inv /\ Met => RaceFree
    BY InvImpliesRaceFree
  <1> QED
    BY <1>1, <1>2, <1>3, PTL DEF Spec

-----------------------------------------------------------------------------
(* What the buffers hold.                                                   *)

\* The mate that sums up the l-th slices of a die.
Summer(q, l) == <<q[1], q[2], l>>
SocketMates(r) == {q \in Ranks : q[1] = r[1]}

Inputs(k, Q) == {<<k, q>> : q \in Q}

\* The ranks whose inputs of this call a block of a rank sums up.
Summed(q, l, t, b) ==
  LET m == Summer(q, l)
  IN  IF b = Odd(q) THEN IF Did(m, t, "spread") >= call[q] THEN Ranks ELSE {q}
      ELSE IF m # q THEN IF Did(m, t, "copy") >= call[q] THEN Ranks ELSE {q}
      ELSE IF Did(q, t, "reduce") < call[q] THEN {q}
      ELSE IF Dies # 1 /\ Did(InterDie(q), t, "spread") < call[q] THEN Mates(q)
      ELSE Ranks

BlocksHold ==
  \A q \in Ranks, l \in Locals, t \in Tids, b \in {0, 1} :
    call[q] > 0 => mem[Buffer(q, l, t, b)] = Inputs(call[q], Summed(q, l, t, b))

\* The extra buffers have the sums of a socket of the last two calls that got there.
ExtrasHold ==
  \A r \in Ranks, t \in Tids, k \in Nat \ {0} :
    k \in {Did(r, t, "collect") - 1, Did(r, t, "collect")} =>
      mem[Extra(r, k % 2, t)] = Inputs(k, SocketMates(r))

SumInv == Inv /\ Met /\ BlocksHold /\ ExtrasHold

\* The summer of a slice is the one mate with its number.
LEMMA SummerIs ==
  ASSUME world \in Worlds, NEW q \in Ranks, NEW l \in Locals
  PROVE  /\ Summer(q, l) \in Mates(q) /\ Summer(q, l) \in Ranks /\ Local(Summer(q, l)) = l
         /\ Odd(Summer(q, l)) = Odd(q) /\ Even(Summer(q, l)) = Even(q)
         /\ \A m \in Mates(q) : Local(m) = l => m = Summer(q, l)
  <1>1. q = <<q[1], q[2], q[3]>> /\ q[1] \in 0..Sockets - 1 /\ q[2] \in 0..Dies - 1 /\ q[3] \in Locals
    BY RankIs
  <1>2. Summer(q, l) \in Ranks
    BY <1>1 DEF Summer, Ranks
  <1>3. Summer(q, l)[1] = q[1] /\ Summer(q, l)[2] = q[2] /\ Summer(q, l)[3] = l
    BY DEF Summer
  <1>4. ASSUME NEW m \in Mates(q), Local(m) = l PROVE m = Summer(q, l)
    <2>1. m = <<m[1], m[2], m[3]>> /\ m[1] = q[1] /\ m[2] = q[2] /\ m[3] = l
      BY <1>4, RankIs, MatesAre DEF Local
    <2> QED
      BY <2>1 DEF Summer
  <1>5. q[2] \in {0, 1}
    BY <1>1, Geometry
  <1> QED
    BY <1>1, <1>2, <1>3, <1>4, <1>5 DEF Mates, Local, Odd, Even, Die

\* A rank sums up one block of its slice and leaves the other to its partner.
LEMMA BlocksOfRank ==
  ASSUME world \in Worlds, NEW q \in Ranks
  PROVE  Local(q) \in Locals /\ Odd(q) \in {0, 1} /\ Even(q) \in {0, 1} /\ Odd(q) # Even(q)
  <1>1. q[2] \in {0, 1} /\ q[3] \in Locals
    BY Geometry, RankIs
  <1> QED
    BY <1>1 DEF Local, Odd, Even, Die

\* What can be summed up at once: inputs of different ranks.
LEMMA SumInputs ==
  ASSUME NEW k, NEW X, NEW R,
         \A x \in X : mem[x] = Inputs(k, R[x]),
         \A x, y \in X : x # y => R[x] \cap R[y] = {}
  PROVE  Sum(mem, X) = Inputs(k, UNION {R[x] : x \in X})
  <1>1. ASSUME NEW x \in X, NEW y \in X, x # y PROVE mem[x] \cap mem[y] = {}
    <2>1. R[x] \cap R[y] = {}
      BY <1>1
    <2> QED
      BY <2>1 DEF Inputs
  <1>2. Sum(mem, X) = UNION {mem[x] : x \in X}
    BY <1>1 DEF Sum
  <1> QED
    BY <1>2 DEF Inputs

\* At the start there is nothing in the buffers that is relied on.
LEMMA SumInvInit == Init => SumInv
  <1> SUFFICES ASSUME Init PROVE SumInv
    OBVIOUS
  <1>1. Inv /\ Met
    BY InvInit, MetInit
  <1>2. BlocksHold
    BY DEF Init, BlocksHold
  <1>3. ExtrasHold
    <2>1. ASSUME NEW r \in Ranks, NEW t \in Tids PROVE Did(r, t, "collect") = 0
      BY DEF Init, Did, Passed
    <2> QED
      BY <2>1 DEF ExtrasHold
  <1> QED
    BY <1>1, <1>2, <1>3 DEF SumInv

\* The steps of a program end with the copy; flags are set and waited for elsewhere.
LEMMA StepsInProgram ==
  ASSUME world \in Worlds, NEW s \in ComputeSteps
  PROVE  /\ StepAt(s) \in 1..Len(Program)
         /\ \A id \in Ids : StepAt(s) # SetAt(id) /\ StepAt(s) # SetAt(id) + 1
  <1>1. Len(Program) = IF Dies = 1 THEN 4 ELSE IF Sockets = 1 THEN 8 ELSE 10
    BY DEF Program
  <1>2. StepAt(s) \in IF Dies = 1 THEN {1, 2, 3, 4} ELSE IF Sockets = 1 THEN {1, 4, 5, 8} ELSE {1, 4, 7, 10}
    BY DEF StepAt, ComputeSteps
  <1>3. ASSUME NEW id \in Ids PROVE SetAt(id) \in IF Sockets = 1 THEN {2, 6} ELSE {2, 5, 8} 
    BY DEF Ids, SetAt
  <1>4. Ids # {} => Dies # 1
    BY DEF Ids
  <1> QED
    BY <1>1, <1>2, <1>3, <1>4

\* Calling, starting, leaving and returning do not compute.
LEMMA DidByRank ==
  ASSUME TypeOK, TypeOK', NEW r \in Ranks, Rank(r), NEW q \in Ranks, NEW u \in Tids, NEW s \in ComputeSteps
  PROVE  Did(q, u, s)' = Did(q, u, s)
  <1>0. world' = world /\ world \in Worlds
    BY DEF Rank, Call, Enter, Leave, Return, TypeOK
  <1> DEFINE i == StepAt(s)
  <1>2. i \in Int /\ i >= 1 /\ i <= Len(Program) /\ Len(Program) \in Int /\ at[r][u] \in Int
    <2>1. Len(Program) \in {4, 8, 10}
      BY DEF Program
    <2> QED
      BY <1>0, <2>1, StepsInProgram DEF TypeOK
  <1>3. StepAt(s)' = StepAt(s)
    <2>1. Sockets' = Sockets /\ Dies' = Dies
      BY <1>0, SameWorld
    <2> QED
      BY <2>1 DEF StepAt
  <1>8. PICK n \in Int : n = i
    BY <1>2
  <1>9. n >= 1 /\ n <= Len(Program)
    BY <1>2, <1>8
  <1> HIDE DEF i
  <1> SUFFICES Passed(q, u, n)' = Passed(q, u, n)
    BY <1>3, <1>8 DEF Did, i, Passed
  <1>4. CASE Call(r)
    <2>1. q # r => pc'[q] = pc[q] /\ call'[q] = call[q] /\ at' = at
      BY <1>4 DEF Call, TypeOK
    <2>2. pc[r] = "user" /\ pc'[r] = "enter" /\ call'[r] = call[r] + 1
      BY <1>4 DEF Call, TypeOK
    <2> QED
      BY <1>0, <2>1, <2>2, PassedSame
  <1>5. CASE Enter(r)
    <2>1. q # r => pc'[q] = pc[q] /\ call'[q] = call[q] /\ at'[q] = at[q]
      BY <1>5 DEF Enter, TypeOK
    <2>2. pc[r] = "enter" /\ pc'[r] = "work" /\ call'[r] = call[r] /\ at'[r][u] = 1
      BY <1>5 DEF Enter, TypeOK
    <2>3. ~(1 > n)
      BY <1>9
    <2> QED
      BY <1>0, <2>1, <2>2, <2>3, PassedSame
  <1>6. CASE Leave(r)
    <2>1. q # r => pc'[q] = pc[q] /\ call'[q] = call[q] /\ at' = at
      BY <1>6 DEF Leave, TypeOK
    <2>2. pc[r] = "work" /\ pc'[r] = "leave" /\ call'[r] = call[r] /\ at[r][u] > Len(Program)
      BY <1>6 DEF Leave, TypeOK
    <2>3. at[r][u] > n
      BY <1>2, <1>9, <2>2
    <2> QED
      BY <1>0, <2>1, <2>2, <2>3, PassedSame
  <1>7. CASE Return(r)
    <2>1. q # r => pc'[q] = pc[q] /\ call'[q] = call[q] /\ at' = at
      BY <1>7 DEF Return, TypeOK
    <2>2. pc[r] = "leave" /\ pc'[r] = "user" /\ call'[r] = call[r]
      BY <1>7 DEF Return, TypeOK
    <2> QED
      BY <1>0, <2>1, <2>2, PassedSame
  <1> QED
    BY <1>4, <1>5, <1>6, <1>7 DEF Rank

\* A thread does the step at which it stands and no other.
LEMMA DidByThread ==
  ASSUME TypeOK, NEW r \in Ranks, NEW t \in Tids, world' = world, pc' = pc, call' = call,
         Advance(r, t), pc[r] = "work",
         NEW q \in Ranks, NEW u \in Tids, NEW s \in ComputeSteps
  PROVE  Did(q, u, s)' = IF q = r /\ u = t /\ StepAt(s) = at[r][t] THEN call[r] ELSE Did(q, u, s)
  <1>1. world \in Worlds /\ call[q] \in Nat
    BY DEF TypeOK
  <1>2. at \in [Ranks -> [Tids -> Int]]
    <2>1. Len(Program) \in {4, 8, 10}
      BY DEF Program
    <2> QED
      BY <2>1 DEF TypeOK
  <1>3. at'[q][u] = IF q = r /\ u = t THEN at[r][t] + 1 ELSE at[q][u]
    BY <1>2 DEF Advance
  <1>4. StepAt(s)' = StepAt(s) /\ StepAt(s) \in Int /\ at[q][u] \in Int
    <2>1. Sockets' = Sockets /\ Dies' = Dies
      BY SameWorld
    <2>2. StepAt(s)' = StepAt(s)
      BY <2>1 DEF StepAt
    <2>3. StepAt(s) \in 1..10
      BY <1>1, StepsStand
    <2> QED
      BY <1>2, <2>2, <2>3
  <1>5. CASE q = r /\ u = t /\ StepAt(s) = at[r][t]
    <2>1. at'[q][u] > StepAt(s)
      BY <1>2, <1>3, <1>4, <1>5
    <2> QED
      BY <1>4, <1>5, <2>1 DEF Did, Passed
  <1>6. CASE ~(q = r /\ u = t /\ StepAt(s) = at[r][t])
    <2>1. at'[q][u] > StepAt(s) <=> at[q][u] > StepAt(s)
      BY <1>2, <1>3, <1>4, <1>6
    <2> QED
      BY <1>4, <1>6, <2>1 DEF Did, Passed
  <1> QED
    BY <1>5, <1>6

\* What is known of a thread that computes, and of its mates: they are in the
\* same call, the first there has been one, and the thread did what comes before.
LEMMA Computing ==
  ASSUME Inv, Met, NEW r \in Ranks, NEW t \in Tids, Step(r, t) \in ComputeSteps
  PROVE  /\ call[r] \in Nat \ {0} /\ pc[r] = "work" /\ at[r][t] = StepAt(Step(r, t))
         /\ \A q \in Mates(r) : q \in Ranks /\ call[q] = call[r]
         /\ \A s \in ComputeSteps :
              Did(r, t, s) = IF StepAt(s) < StepAt(Step(r, t)) THEN call[r] ELSE call[r] - 1
  <1>1. TypeOK /\ world \in Worlds
    BY DEF Inv, TypeOK
  <1>2. pc[r] = "work" /\ call[r] \in Nat /\ gate[r] \in Nat /\ gate[r] = 2 * call[r] - 1
    <2>1. pc[r] = "work" /\ call[r] \in Nat /\ gate[r] \in Nat
      BY <1>1, AtStep DEF TypeOK
    <2> QED
      BY <2>1 DEF Met
  <1>3. \A q \in Mates(r) : q \in Ranks /\ call[q] = call[r]
    BY <1>1, <1>2, MatesAtWork, MatesAre
  <1>4. \A s \in ComputeSteps : StepAt(s) \in Nat
    BY <1>1, StepsStand
  <1> QED
    BY <1>1, <1>2, <1>3, <1>4, AtStep DEF Did

\* reduce adds up the blocks that the rank is to hand to the other die.
LEMMA ReduceSums ==
  ASSUME SumInv, NEW r \in Ranks, NEW t \in Tids, Step(r, t) = "reduce"
  PROVE  Sum(mem, Reads(r, t, "reduce")) = Inputs(call[r], Mates(r))
  <1> DEFINE k == call[r]
  <1> DEFINE X == Block(Mates(r), r, t, Even(r))
  <1>1. Inv /\ Met /\ BlocksHold /\ TypeOK /\ world \in Worlds /\ Step(r, t) \in ComputeSteps
    BY DEF SumInv, Inv, TypeOK, ComputeSteps
  <1>2. /\ k \in Nat \ {0} /\ \A q \in Mates(r) : q \in Ranks /\ call[q] = k
        /\ Did(r, t, "reduce") = k - 1 /\ Did(r, t, "copy") = k - 1
    <2>1. StepAt("reduce") = 1 /\ StepAt("copy") \in 1..10
      BY <1>1, StepsStand DEF ComputeSteps
    <2> QED
      BY <1>1, <2>1, Computing DEF ComputeSteps
  <1>3. ASSUME NEW q \in Mates(r) PROVE mem[Buffer(q, Local(r), t, Even(r))] = Inputs(k, {q})
    <2>1. /\ Local(r) \in Locals /\ Even(r) \in {0, 1} /\ Even(q) = Even(r) /\ Even(r) # Odd(q)
          /\ Summer(q, Local(r)) = r
      <3>1. q \in Ranks /\ r \in Mates(q) /\ Local(r) \in Locals
        BY <1>1, MatesAre, BlocksOfRank
      <3>2. Summer(q, Local(r)) = r
        BY <1>1, <3>1, SummerIs
      <3> QED
        BY <1>1, <3>1, <3>2, SummerIs, BlocksOfRank
    <2>2. Summed(q, Local(r), t, Even(r)) = {q}
      BY <1>2, <2>1 DEF Summed
    <2> QED
      BY <1>1, <1>2, <2>1, <2>2 DEF BlocksHold
  <1>4. PICK R : R = [x \in X |-> {x[2]}]
    OBVIOUS
  <1>5. \A q \in Mates(r) : R[Buffer(q, Local(r), t, Even(r))] = {q}
    BY <1>4 DEF Block, Buffer
  <1>6. \A x \in X : \E q \in Mates(r) : x = Buffer(q, Local(r), t, Even(r)) /\ R[x] = {q}
    BY <1>5 DEF Block
  <1>7. Sum(mem, X) = Inputs(k, UNION {R[x] : x \in X})
    <2>1. \A x \in X : mem[x] = Inputs(k, R[x])
      BY <1>3, <1>6
    <2>2. \A x, y \in X : x # y => R[x] \cap R[y] = {}
      BY <1>6
    <2> QED
      BY <2>1, <2>2, SumInputs
  <1>8. UNION {R[x] : x \in X} = Mates(r)
    BY <1>5, <1>6 DEF Block
  <1> QED
    BY <1>7, <1>8 DEF Reads

\* The partner in the other die, when a thread collects or spreads.
LEMMA PartnerDid ==
  ASSUME Inv, NEW r \in Ranks, NEW t \in Tids, Step(r, t) \in {"collect", "spread"}, Dies # 1
  PROVE  /\ InterDie(r) \in Ranks /\ InterDie(InterDie(r)) = r /\ call[InterDie(r)] = call[r]
         /\ Local(InterDie(r)) = Local(r) /\ Odd(r) = Even(InterDie(r)) /\ InterDie(r) \notin Mates(r)
         /\ Did(InterDie(r), t, "reduce") = call[r]
  <1> DEFINE p == InterDie(r)
  <1>1. TypeOK /\ world \in Worlds
    BY DEF Inv, TypeOK
  <1>2. p \in Ranks /\ InterDie(p) = r /\ call[p] = call[r] /\ pc[p] = "work" /\ at[p][t] \in 3..StepAt("spread") + 2
    BY PartnerBetween
  <1>3. r[2] \in {0, 1}
    BY <1>1, RankIs, Geometry
  <1>4. Local(p) = Local(r) /\ Odd(r) = Even(p) /\ p \notin Mates(r)
    BY <1>3 DEF InterDie, Local, Odd, Even, Die, Mates
  <1>5. Did(p, t, "reduce") = call[r]
    BY <1>1, <1>2, StepsStand DEF Did, Passed
  <1> QED
    BY <1>2, <1>4, <1>5

\* Two dies of a socket, or the only one, are all of it.
LEMMA DiesOfSocket ==
  ASSUME world \in Worlds, NEW r \in Ranks
  PROVE  /\ Dies = 1 => SocketMates(r) = Mates(r) /\ SocketMates(r) = Ranks
         /\ Dies # 1 => SocketMates(r) = Mates(r) \cup Mates(InterDie(r))
         /\ Sockets = 1 => SocketMates(r) = Ranks
         /\ Sockets # 1 => Ranks = SocketMates(r) \cup SocketMates(InterSocket(r))
                           /\ SocketMates(r) \cap SocketMates(InterSocket(r)) = {}
  <1>1. Sockets \in {1, 2} /\ Dies \in {1, 2} /\ (Dies = 1 => Sockets = 1)
    BY Geometry
  <1>2. \A q \in Ranks : q[1] \in 0..Sockets - 1 /\ q[2] \in 0..Dies - 1
    BY RankIs
  <1>3. InterDie(r)[1] = r[1] /\ InterDie(r)[2] = 1 - r[2] /\ InterSocket(r)[1] = 1 - r[1]
    BY DEF InterDie, InterSocket
  <1>4. Dies = 1 => \A q \in Ranks : q[2] = r[2]
    BY <1>2
  <1>5. Dies # 1 => \A q \in Ranks : q[2] = r[2] \/ q[2] = 1 - r[2]
    BY <1>1, <1>2
  <1>6. Sockets = 1 => \A q \in Ranks : q[1] = r[1]
    BY <1>2
  <1>7. Sockets # 1 => \A q \in Ranks : (q[1] = r[1]) <=> q[1] # 1 - r[1]
    BY <1>1, <1>2
  <1> QED
    BY <1>1, <1>3, <1>4, <1>5, <1>6, <1>7 DEF SocketMates, Mates

\* collect adds up the other blocks of the die and what the other die has
\* summed up of its own: one socket.
LEMMA CollectSums ==
  ASSUME SumInv, NEW r \in Ranks, NEW t \in Tids, Step(r, t) = "collect"
  PROVE  Sum(mem, Reads(r, t, "collect")) = Inputs(call[r], SocketMates(r))
  <1> DEFINE k == call[r]
  <1> DEFINE p == InterDie(r)
  <1>0. PICK X : X = Block(Mates(r) \cup Across(r), r, t, Odd(r))
    OBVIOUS
  <1>1. Inv /\ Met /\ BlocksHold /\ TypeOK /\ world \in Worlds /\ Step(r, t) \in ComputeSteps
    BY DEF SumInv, Inv, TypeOK, ComputeSteps
  <1>2. /\ k \in Nat \ {0} /\ \A q \in Mates(r) : q \in Ranks /\ call[q] = k
        /\ Did(r, t, "spread") = k - 1
    <2>1. ~(StepAt("spread") < StepAt("collect"))
      BY <1>1, StepsStand, Geometry
    <2> QED
      BY <1>1, <2>1, Computing DEF ComputeSteps
  <1>3. ASSUME NEW q \in Mates(r) PROVE mem[Buffer(q, Local(r), t, Odd(r))] = Inputs(k, {q})
    <2>1. Local(r) \in Locals /\ Odd(r) \in {0, 1} /\ Odd(q) = Odd(r) /\ Summer(q, Local(r)) = r
      <3>1. q \in Ranks /\ r \in Mates(q) /\ Local(r) \in Locals
        BY <1>1, MatesAre, BlocksOfRank
      <3>2. Summer(q, Local(r)) = r
        BY <1>1, <3>1, SummerIs
      <3> QED
        BY <1>1, <3>1, <3>2, SummerIs, BlocksOfRank
    <2>2. Summed(q, Local(r), t, Odd(r)) = {q}
      BY <1>2, <2>1 DEF Summed
    <2>3. q \in Ranks /\ call[q] > 0 /\ call[q] = k
      BY <1>2
    <2>4. mem[Buffer(q, Local(r), t, Odd(r))] = Inputs(call[q], Summed(q, Local(r), t, Odd(r)))
      BY <1>1, <2>1, <2>3 DEF BlocksHold
    <2> QED
      BY <2>2, <2>3, <2>4
  <1>4. ASSUME Dies # 1 PROVE mem[Buffer(p, Local(r), t, Odd(r))] = Inputs(k, Mates(p))
    <2>1. /\ p \in Ranks /\ InterDie(p) = r /\ call[p] = k /\ Local(p) = Local(r) /\ Odd(r) = Even(p)
          /\ Did(p, t, "reduce") = k
      BY <1>1, <1>4, PartnerDid
    <2>2. p \in Mates(p) /\ Local(p) \in Locals /\ Even(p) # Odd(p) /\ Odd(r) \in {0, 1}
      BY <1>1, <2>1, BlocksOfRank DEF Mates
    <2>3. Summer(p, Local(p)) = p
      BY <1>1, <2>1, <2>2, SummerIs
    <2>4. Summed(p, Local(r), t, Odd(r)) = Mates(p)
      BY <1>2, <1>4, <2>1, <2>2, <2>3 DEF Summed
    <2> QED
      BY <1>1, <1>2, <2>1, <2>2, <2>4 DEF BlocksHold
  <1>5. PICK R : R = [x \in X |-> IF x[2] \in Mates(r) THEN {x[2]} ELSE Mates(p)]
    OBVIOUS
  <1>6. \A q \in Mates(r) : R[Buffer(q, Local(r), t, Odd(r))] = {q}
    BY <1>0, <1>5 DEF Block, Buffer
  <1>7. Dies # 1 => p \notin Mates(r) /\ R[Buffer(p, Local(r), t, Odd(r))] = Mates(p)
    <2>1. Dies # 1 => p \notin Mates(r)
      BY <1>1, PartnerDid
    <2> QED
      BY <1>0, <1>5, <2>1 DEF Block, Buffer, Across
  <1>8. \A x \in X : \/ \E q \in Mates(r) : x = Buffer(q, Local(r), t, Odd(r)) /\ R[x] = {q}
                     \/ Dies # 1 /\ x = Buffer(p, Local(r), t, Odd(r)) /\ R[x] = Mates(p)
    BY <1>0, <1>6, <1>7 DEF Block, Across
  <1>9. Dies # 1 => Mates(r) \cap Mates(p) = {}
    <2>1. Dies # 1 => p[2] # r[2]
      <3>1. r[2] \in {0, 1}
        BY <1>1, RankIs, Geometry
      <3> QED
        BY <3>1 DEF InterDie
    <2> QED
      BY <2>1 DEF Mates
  <1>10. Sum(mem, X) = Inputs(k, UNION {R[x] : x \in X})
    <2>1. \A x \in X : mem[x] = Inputs(k, R[x])
      BY <1>3, <1>4, <1>8
    <2>2. \A x, y \in X : x # y => R[x] \cap R[y] = {}
      BY <1>8, <1>9
    <2> QED
      BY <2>1, <2>2, SumInputs
  <1>11. UNION {R[x] : x \in X} = SocketMates(r)
    <2>1. UNION {R[x] : x \in X} = IF Dies = 1 THEN Mates(r) ELSE Mates(r) \cup Mates(p)
      BY <1>0, <1>6, <1>7, <1>8 DEF Block, Across
    <2> QED
      BY <1>1, <2>1, DiesOfSocket
  <1> QED
    BY <1>0, <1>10, <1>11 DEF Reads

\* spread adds up the sums of the sockets: all ranks.
LEMMA SpreadSums ==
  ASSUME SumInv, NEW r \in Ranks, NEW t \in Tids, Step(r, t) = "spread"
  PROVE  Sum(mem, Reads(r, t, "spread")) = Inputs(call[r], Ranks)
  <1> DEFINE k == call[r]
  <1> DEFINE n == InterSocket(r)
  <1>0. PICK X : X = {Extra(q, FlipFlag(r), t) : q \in {r} \cup Beyond(r)}
    OBVIOUS
  <1>1. Inv /\ Met /\ ExtrasHold /\ TypeOK /\ world \in Worlds /\ Step(r, t) \in ComputeSteps
    BY DEF SumInv, Inv, TypeOK, ComputeSteps
  <1>2. k \in Nat \ {0} /\ Did(r, t, "collect") = k
    <2>1. StepAt("collect") < StepAt("spread")
      BY <1>1, StepsStand, Geometry
    <2> QED
      BY <1>1, <2>1, Computing DEF ComputeSteps
  <1>3. mem[Extra(r, FlipFlag(r), t)] = Inputs(k, SocketMates(r))
    BY <1>1, <1>2 DEF ExtrasHold, FlipFlag
  <1>4. ASSUME Sockets # 1 PROVE n \in Ranks /\ mem[Extra(n, FlipFlag(r), t)] = Inputs(k, SocketMates(n))
    <2>1. /\ Sockets = 2 /\ 1 \in Ids /\ SetAt(1) = 5 /\ StepAt("spread") = 7 /\ StepAt("collect") = 4
      BY <1>1, <1>4, StepsStand
    <2>2. n \in Ranks /\ Partner(r, 1) = n /\ Partner(n, 1) = r
      BY <1>1, <2>1, Partners DEF Partner
    <2>3. Waits(r, t, 1) = k /\ Sets(r, t, 1) = k
      BY <1>1, <2>1, AtStep DEF Waits, Sets
    <2>4. k <= Sets(n, t, 1) /\ Waits(n, t, 1) <= k
      BY <1>1, <2>1, <2>2, <2>3 DEF Inv, Answered
    <2>5. k <= Passed(n, t, 5) /\ Passed(n, t, 6) <= k
      BY <2>1, <2>4 DEF Sets, Waits
    <2>6. /\ Passed(n, t, 5) <= Passed(n, t, 4) /\ call[n] \in Nat
          /\ Passed(n, t, 4) \in {call[n] - 1, call[n]} /\ Passed(n, t, 6) \in {call[n] - 1, call[n]}
          /\ Passed(n, t, 5) \in {call[n] - 1, call[n]}
      BY <1>1, <2>2, InOrder
    <2>7. Did(n, t, "collect") \in {k, k + 1}
      BY <1>2, <2>1, <2>5, <2>6 DEF Did
    <2>8. k \in {Did(n, t, "collect") - 1, Did(n, t, "collect")}
      BY <1>2, <2>7
    <2> QED
      BY <1>1, <1>2, <2>2, <2>8 DEF ExtrasHold, FlipFlag
  <1>5. PICK R : R = [x \in X |-> SocketMates(x[2])]
    OBVIOUS
  <1>6. \A x \in X : \/ x = Extra(r, FlipFlag(r), t) /\ R[x] = SocketMates(r)
                     \/ Sockets # 1 /\ x = Extra(n, FlipFlag(r), t) /\ R[x] = SocketMates(n)
    BY <1>0, <1>5 DEF Beyond, Extra
  <1>7. /\ Extra(r, FlipFlag(r), t) \in X /\ R[Extra(r, FlipFlag(r), t)] = SocketMates(r)
        /\ Sockets # 1 => Extra(n, FlipFlag(r), t) \in X /\ R[Extra(n, FlipFlag(r), t)] = SocketMates(n)
    BY <1>0, <1>5 DEF Beyond, Extra
  <1>8. Sum(mem, X) = Inputs(k, UNION {R[x] : x \in X})
    <2>1. \A x \in X : mem[x] = Inputs(k, R[x])
      BY <1>3, <1>4, <1>6
    <2>2. \A x, y \in X : x # y => R[x] \cap R[y] = {}
      BY <1>1, <1>6, DiesOfSocket
    <2> QED
      BY <2>1, <2>2, SumInputs
  <1>9. UNION {R[x] : x \in X} = Ranks
    <2>1. UNION {R[x] : x \in X} = IF Sockets = 1 THEN SocketMates(r) ELSE SocketMates(r) \cup SocketMates(n)
      BY <1>6, <1>7
    <2> QED
      BY <1>1, <2>1, DiesOfSocket
  <1> QED
    BY <1>0, <1>8, <1>9 DEF Reads

\* A thread that is past its wait for flag 2 finds what its partner has spread.
LEMMA PartnerSpread ==
  ASSUME Inv, NEW r \in Ranks, NEW t \in Tids, Dies # 1, Waits(r, t, 2) = call[r]
  PROVE  ~(Did(InterDie(r), t, "spread") < call[r])
  <1> DEFINE p == InterDie(r)
  <1>1. TypeOK /\ world \in Worlds
    BY DEF Inv, TypeOK
  <1>2. 2 \in Ids /\ Dies = 2 /\ SetAt(2) = StepAt("spread") + 1 /\ StepAt("spread") \in {5, 7}
    BY <1>1, StepsStand, Geometry
  <1>3. p \in Ranks /\ Partner(r, 2) = p
    BY <1>1, <1>2, Partners DEF Partner
  <1>4. call[r] <= Passed(p, t, StepAt("spread") + 1)
    <2>1. Waits(r, t, 2) <= Sets(p, t, 2)
      BY <1>2, <1>3 DEF Inv, Answered
    <2> QED
      BY <1>2, <2>1 DEF Sets
  <1>5. /\ Passed(p, t, StepAt("spread") + 1) <= Passed(p, t, StepAt("spread"))
        /\ Passed(p, t, StepAt("spread")) \in {call[p] - 1, call[p]} /\ call[p] \in Nat
        /\ Passed(p, t, StepAt("spread") + 1) \in {call[p] - 1, call[p]}
    <2>1. StepAt("spread") \in Nat /\ StepAt("spread") + 1 \in Nat /\ StepAt("spread") <= StepAt("spread") + 1
      BY <1>2
    <2> QED
      BY <1>1, <1>3, <2>1, InOrder
  <1>6. call[r] \in Nat
    BY <1>1 DEF TypeOK
  <1> QED
    BY <1>4, <1>5, <1>6 DEF Did

\* copy hands on a block that the other die, or the rank itself, has summed up.
LEMMA CopySums ==
  ASSUME SumInv, NEW r \in Ranks, NEW t \in Tids, Step(r, t) = "copy"
  PROVE  Sum(mem, Reads(r, t, "copy")) = Inputs(call[r], Ranks)
  <1> DEFINE k == call[r]
  <1> DEFINE p == InterDie(r)
  <1> DEFINE x == Buffer(r, Local(r), t, Even(r))
  <1>1. Inv /\ Met /\ BlocksHold /\ TypeOK /\ world \in Worlds /\ Step(r, t) \in ComputeSteps
    BY DEF SumInv, Inv, TypeOK, ComputeSteps
  <1>2. k \in Nat \ {0} /\ Did(r, t, "reduce") = k
    <2>1. StepAt("reduce") < StepAt("copy")
      BY <1>1, StepsStand, Geometry
    <2> QED
      BY <1>1, <2>1, Computing DEF ComputeSteps
  <1>3. Dies # 1 => ~(Did(p, t, "spread") < k)
    <2> SUFFICES ASSUME Dies # 1 PROVE ~(Did(p, t, "spread") < k)
      OBVIOUS
    <2>1. Dies = 2 /\ SetAt(2) = StepAt("spread") + 1 /\ StepAt("copy") = StepAt("spread") + 3 /\ StepAt("spread") \in {5, 7}
      BY <1>1, StepsStand, Geometry
    <2>2. SetAt(2) + 1 < StepAt("copy") /\ SetAt(2) + 1 \in Nat
      BY <2>1
    <2>3. Waits(r, t, 2) = k
      BY <1>1, <2>2, AtStep DEF Waits
    <2> QED
      BY <1>1, <2>3, PartnerSpread
  <1>4. Summed(r, Local(r), t, Even(r)) = Ranks
    <2>1. Summer(r, Local(r)) = r
      BY <1>1, SummerIs, BlocksOfRank DEF Mates
    <2>2. Odd(r) # Even(r)
      BY <1>1, BlocksOfRank
    <2> QED
      BY <1>2, <1>3, <2>1, <2>2 DEF Summed
  <1>5. mem[x] = Inputs(k, Ranks)
    <2>1. Local(r) \in Locals /\ Even(r) \in {0, 1} /\ call[r] > 0
      BY <1>1, <1>2, BlocksOfRank
    <2> QED
      BY <1>1, <1>4, <2>1 DEF BlocksHold
  <1>6. Sum(mem, {x}) = mem[x]
    BY DEF Sum
  <1>7. Block({r}, r, t, Even(r)) = {x}
    BY DEF Block
  <1> QED
    BY <1>5, <1>6, <1>7 DEF Reads

\* Blocks belong to the buffer of their rank, extra buffers to nobody's.
LEMMA PlacesAre ==
  ASSUME NEW q \in Ranks, NEW t \in Tids, NEW h \in {0, 1}, NEW r \in Ranks
  PROVE  /\ \A l \in Locals : /\ Buffer(q, l, t, h) \in Places
                            /\ Buffer(q, l, t, h) \in Own(r) <=> q = r
         /\ Extra(q, h, t) \in Places /\ Extra(q, h, t) \notin Own(r)
  <1>1. \A l \in Locals : Buffer(q, l, t, h) \in Own(q)
    BY DEF Own
  <1>2. \A l \in Locals : Buffer(q, l, t, h) \in Own(r) => q = r
    BY DEF Own, Buffer
  <1>3. Extra(q, h, t) \in {Extra(x, i, u) : x \in Ranks, i \in {0, 1}, u \in Tids}
    OBVIOUS
  <1>4. Extra(q, h, t) \notin Own(r)
    BY PlaceNames DEF Own
  <1> QED
    BY <1>1, <1>2, <1>3, <1>4 DEF Places

\* The steps that the content of a block depends on.
LEMMA SummedSame ==
  ASSUME world' = world, NEW q \in Ranks, NEW l \in Locals, NEW t \in Tids, NEW b \in {0, 1}, call'[q] = call[q],
         b = Odd(q) => Did(Summer(q, l), t, "spread")' = Did(Summer(q, l), t, "spread"),
         (b # Odd(q) /\ Summer(q, l) # q) => Did(Summer(q, l), t, "copy")' = Did(Summer(q, l), t, "copy"),
         (b # Odd(q) /\ Summer(q, l) = q) =>
           /\ Did(q, t, "reduce")' = Did(q, t, "reduce")
           /\ Dies # 1 => Did(InterDie(q), t, "spread")' = Did(InterDie(q), t, "spread")
  PROVE  Summed(q, l, t, b)' = Summed(q, l, t, b)
  <1>1. Ranks' = Ranks /\ Dies' = Dies /\ Mates(q)' = Mates(q)
    BY SameWorld DEF Mates
  <1>3. CASE b = Odd(q)
    BY <1>1, <1>3 DEF Summed
  <1>4. CASE b # Odd(q) /\ Summer(q, l) # q
    BY <1>1, <1>4 DEF Summed
  <1>5. CASE b # Odd(q) /\ Summer(q, l) = q /\ Dies = 1
    BY <1>1, <1>5 DEF Summed
  <1>6. CASE b # Odd(q) /\ Summer(q, l) = q /\ Dies # 1
    BY <1>1, <1>6 DEF Summed
  <1> QED
    BY <1>3, <1>4, <1>5, <1>6

\* A step that neither collects nor writes an extra buffer.
LEMMA ExtrasSame ==
  ASSUME ExtrasHold, world' = world,
         \A r \in Ranks, t \in Tids : Did(r, t, "collect")' = Did(r, t, "collect"),
         \A r \in Ranks, t \in Tids, h \in {0, 1} : mem'[Extra(r, h, t)] = mem[Extra(r, h, t)]
  PROVE  ExtrasHold'
  <1>1. Ranks' = Ranks /\ \A r \in Ranks : SocketMates(r)' = SocketMates(r)
    BY SameWorld DEF SocketMates
  <1>2. \A k \in Nat : k % 2 \in {0, 1}
    OBVIOUS
  <1> QED
    BY <1>1, <1>2 DEF ExtrasHold

\* A rank that calls puts its inputs in its buffer: its mates have done nothing
\* of this call.
LEMMA RankKeepsSums ==
  ASSUME SumInv, TypeOK', NEW r \in Ranks, Rank(r)
  PROVE  BlocksHold' /\ ExtrasHold'
  <1>1. Inv /\ Met /\ BlocksHold /\ ExtrasHold /\ TypeOK /\ world \in Worlds
    BY DEF SumInv, Inv, TypeOK
  <1>2. world' = world
    BY DEF Rank, Call, Enter, Leave, Return
  <1>3. Ranks' = Ranks /\ Locals' = Locals
    BY <1>2, SameWorld DEF Locals
  <1>4. \A q \in Ranks, t \in Tids, s \in ComputeSteps : Did(q, t, s)' = Did(q, t, s)
    BY <1>1, DidByRank
  <1>5. ASSUME NEW q \in Ranks, NEW l \in Locals, NEW t \in Tids, NEW b \in {0, 1}, call'[q] = call[q]
        PROVE  Summed(q, l, t, b)' = Summed(q, l, t, b)
    <2>1. Summer(q, l) \in Ranks /\ (Dies # 1 => InterDie(q) \in Ranks)
      BY <1>1, SummerIs, Partners, Geometry
    <2> QED
      BY <1>2, <1>4, <1>5, <2>1, SummedSame DEF ComputeSteps
  <1>6. \A k, Q : Inputs(k, Q)' = Inputs(k, Q)
    BY DEF Inputs
  <1>7. CASE Call(r)
    <2>1. /\ pc[r] = "user" /\ call[r] \in Nat
          /\ \A q \in Ranks : call'[q] = IF q = r THEN call[r] + 1 ELSE call[q]
          /\ \A x \in Places : mem'[x] = IF x \in Own(r) THEN {<<call[r] + 1, r>>} ELSE mem[x]
      BY <1>1, <1>7 DEF Call, TypeOK
    <2>2. ASSUME NEW q \in Ranks, NEW l \in Locals, NEW t \in Tids, NEW b \in {0, 1}, call'[q] > 0
          PROVE  mem'[Buffer(q, l, t, b)] = Inputs(call'[q], Summed(q, l, t, b)')
      <3>1. CASE q = r
        <4>1. Summer(r, l) \in Mates(r) /\ r \in Mates(r) /\ Summer(r, l) \in Ranks
          BY <1>1, SummerIs DEF Mates
        <4>2. \A m \in Mates(r), s \in ComputeSteps : Did(m, t, s) = call[r]
          <5>1. \A s \in ComputeSteps : StepAt(s) \in Nat
            BY <1>1, StepsStand
          <5> QED
            BY <1>1, <2>1, <5>1, MatesOfUser DEF Did
        <4>3. /\ Did(Summer(r, l), t, "spread")' = call[r] /\ Did(Summer(r, l), t, "copy")' = call[r]
              /\ Did(r, t, "reduce")' = call[r]
          BY <1>4, <4>1, <4>2 DEF ComputeSteps
        <4>4. ~(call[r] >= call'[r]) /\ call[r] < call'[r]
          BY <2>1
        <4>5. Summed(r, l, t, b)' = {r}
          BY <4>3, <4>4 DEF Summed
        <4>6. mem'[Buffer(r, l, t, b)] = {<<call[r] + 1, r>>}
          BY <2>1, PlacesAre
        <4> QED
          BY <2>1, <3>1, <4>5, <4>6 DEF Inputs
      <3>2. CASE q # r
        <4>1. mem'[Buffer(q, l, t, b)] = mem[Buffer(q, l, t, b)]
          BY <2>1, <3>2, PlacesAre
        <4>2. call'[q] = call[q] /\ call[q] > 0
          BY <2>1, <2>2, <3>2
        <4>3. Summed(q, l, t, b)' = Summed(q, l, t, b)
          BY <1>5, <4>2
        <4> QED
          BY <1>1, <4>1, <4>2, <4>3 DEF BlocksHold
      <3> QED
        BY <3>1, <3>2
    <2>3. BlocksHold'
      BY <1>3, <1>6, <2>2 DEF BlocksHold
    <2>4. ExtrasHold'
      <3>1. \A q \in Ranks, t \in Tids, h \in {0, 1} : mem'[Extra(q, h, t)] = mem[Extra(q, h, t)]
        BY <2>1, PlacesAre
      <3> QED
        BY <1>1, <1>2, <1>4, <3>1, ExtrasSame DEF ComputeSteps
    <2> QED
      BY <2>3, <2>4
  <1>8. CASE Enter(r) \/ Leave(r) \/ Return(r)
    <2>1. mem' = mem /\ call' = call
      BY <1>8 DEF Enter, Leave, Return
    <2>2. BlocksHold'
      BY <1>1, <1>3, <1>5, <1>6, <2>1 DEF BlocksHold
    <2>3. ExtrasHold'
      BY <1>1, <1>2, <1>4, <2>1, ExtrasSame DEF ComputeSteps
    <2> QED
      BY <2>2, <2>3
  <1> QED
    BY <1>7, <1>8 DEF Rank

\* Setting and waiting for a flag leaves the buffers alone, and computes nothing.
LEMMA FlagKeepsSums ==
  ASSUME SumInv, NEW r \in Ranks, NEW t \in Tids, SetFence(r, t) \/ WaitFence(r, t)
  PROVE  BlocksHold' /\ ExtrasHold'
  <1>1. BlocksHold /\ ExtrasHold /\ TypeOK /\ world \in Worlds
    BY DEF SumInv, Inv, TypeOK
  <1>2. world' = world /\ pc' = pc /\ call' = call /\ mem' = mem /\ Advance(r, t)
    BY DEF SetFence, WaitFence
  <1>3. PICK id \in Ids : pc[r] = "work" /\ at[r][t] \in {SetAt(id), SetAt(id) + 1}
    <2>1. Step(r, t) \in DOMAIN SetSteps \/ Step(r, t) \in DOMAIN WaitSteps
      BY DEF SetFence, WaitFence
    <2>2. Step(r, t) # "none"
      BY <2>1 DEF SetSteps, WaitSteps
    <2> QED
      BY <1>1, <2>1, <2>2, StepsOfThread
  <1>4. ASSUME NEW q \in Ranks, NEW u \in Tids, NEW s \in ComputeSteps PROVE Did(q, u, s)' = Did(q, u, s)
    <2>1. StepAt(s) # at[r][t]
      BY <1>1, <1>3, StepsInProgram
    <2> QED
      BY <1>1, <1>2, <1>3, <2>1, DidByThread
  <1>5. ASSUME NEW q \in Ranks, NEW l \in Locals, NEW u \in Tids, NEW b \in {0, 1}
        PROVE  Summed(q, l, u, b)' = Summed(q, l, u, b)
    <2>1. Summer(q, l) \in Ranks /\ (Dies # 1 => InterDie(q) \in Ranks)
      BY <1>1, SummerIs, Partners, Geometry
    <2> QED
      BY <1>2, <1>4, <2>1, SummedSame DEF ComputeSteps
  <1>6. Ranks' = Ranks /\ Locals' = Locals /\ \A k, Q : Inputs(k, Q)' = Inputs(k, Q)
    BY <1>2, SameWorld DEF Locals, Inputs
  <1>7. BlocksHold'
    BY <1>1, <1>2, <1>5, <1>6 DEF BlocksHold
  <1>8. ExtrasHold'
    BY <1>1, <1>2, <1>4, ExtrasSame DEF ComputeSteps
  <1> QED
    BY <1>7, <1>8

\* What a step has written.
Target(r, s) ==
  CASE s = "reduce" -> Mates(r) [] s = "collect" -> SocketMates(r) [] s \in {"spread", "copy"} -> Ranks

\* A computing step writes its target into all places that it writes.
LEMMA ComputeWrites ==
  ASSUME SumInv, NEW r \in Ranks, NEW t \in Tids, Compute(r, t)
  PROVE  \A x \in Places : mem'[x] = IF x \in Writes(r, t, Step(r, t))
                                       THEN Inputs(call[r], Target(r, Step(r, t))) ELSE mem[x]
  <1>1. Step(r, t) \in {"reduce", "collect", "spread", "copy"}
    BY DEF Compute
  <1>2. Sum(mem, Reads(r, t, Step(r, t))) = Inputs(call[r], Target(r, Step(r, t)))
    BY <1>1, ReduceSums, CollectSums, SpreadSums, CopySums DEF Target
  <1>3. mem' = [x \in Places |-> IF x \in Writes(r, t, Step(r, t))
                                   THEN Sum(mem, Reads(r, t, Step(r, t))) ELSE mem[x]]
    BY DEF Compute
  <1> QED
    BY <1>2, <1>3

\* Which blocks those are.
LEMMA WritesBlocks ==
  ASSUME NEW r \in Ranks, NEW t \in Tids, NEW q \in Ranks, NEW l \in Locals, NEW u \in Tids, NEW b \in {0, 1}
  PROVE  /\ Buffer(q, l, u, b) \in Writes(r, t, "reduce") <=> q = r /\ l = Local(r) /\ u = t /\ b = Even(r)
         /\ Buffer(q, l, u, b) \notin Writes(r, t, "collect")
         /\ Buffer(q, l, u, b) \in Writes(r, t, "spread") <=>
              /\ l = Local(r) /\ u = t /\ b = Odd(r)
              /\ q \in Mates(r) \/ (Dies # 1 /\ q = InterDie(r))
         /\ Buffer(q, l, u, b) \in Writes(r, t, "copy") <=>
              /\ l = Local(r) /\ u = t /\ b = Even(r)
              /\ q \in Mates(r) /\ (Dies = 1 \/ q # r)
  <1>1. ASSUME NEW Q, NEW c
        PROVE  Buffer(q, l, u, b) \in Block(Q, r, t, c) <=> q \in Q /\ l = Local(r) /\ u = t /\ b = c
    BY DEF Block, Buffer
  <1>2. /\ Writes(r, t, "reduce") = Block({r}, r, t, Even(r))
        /\ Writes(r, t, "collect") = {Extra(r, FlipFlag(r), t)}
        /\ Writes(r, t, "spread") = Block(Mates(r) \cup Across(r), r, t, Odd(r))
        /\ Writes(r, t, "copy") = Block(IF Dies = 1 THEN Mates(r) ELSE Mates(r) \ {r}, r, t, Even(r))
    BY DEF Writes
  <1>3. Buffer(q, l, u, b) # Extra(r, FlipFlag(r), t)
    BY PlaceNames
  <1> QED
    BY <1>1, <1>2, <1>3 DEF Across

\* And which extra buffers.
LEMMA WritesExtras ==
  ASSUME NEW r \in Ranks, NEW t \in Tids, NEW q \in Ranks, NEW u \in Tids, NEW h \in {0, 1}
  PROVE  /\ Extra(q, h, u) \in Writes(r, t, "collect") <=> q = r /\ h = FlipFlag(r) /\ u = t
         /\ \A s \in {"reduce", "spread", "copy"} : Extra(q, h, u) \notin Writes(r, t, s)
  <1>1. ASSUME NEW Q, NEW c PROVE Extra(q, h, u) \notin Block(Q, r, t, c)
    BY DEF Block, Buffer, Extra
  <1>2. /\ Writes(r, t, "reduce") = Block({r}, r, t, Even(r))
        /\ Writes(r, t, "collect") = {Extra(r, FlipFlag(r), t)}
        /\ Writes(r, t, "spread") = Block(Mates(r) \cup Across(r), r, t, Odd(r))
        /\ Writes(r, t, "copy") = Block(IF Dies = 1 THEN Mates(r) ELSE Mates(r) \ {r}, r, t, Even(r))
    BY DEF Writes
  <1> QED
    BY <1>1, <1>2 DEF Extra

\* After a step that is not a collect the extra buffers are as before; a collect
\* writes the one that the sum of the last call but one was in.
LEMMA ComputeKeepsExtras ==
  ASSUME SumInv, NEW r \in Ranks, NEW t \in Tids, Compute(r, t)
  PROVE  ExtrasHold'
  <1> DEFINE k == call[r]
  <1>1. Inv /\ Met /\ ExtrasHold /\ TypeOK /\ world \in Worlds
    BY DEF SumInv, Inv, TypeOK
  <1>2. world' = world /\ pc' = pc /\ call' = call /\ Advance(r, t) /\ Step(r, t) \in ComputeSteps
    BY DEF Compute, ComputeSteps
  <1>3. /\ pc[r] = "work" /\ at[r][t] = StepAt(Step(r, t)) /\ k \in Nat \ {0}
        /\ Did(r, t, Step(r, t)) = k - 1
    <2>1. StepAt(Step(r, t)) \in 1..10
      BY <1>1, <1>2, StepsStand
    <2> QED
      BY <1>1, <1>2, <2>1, Computing
  <1>4. \A q \in Ranks, u \in Tids :
          Did(q, u, "collect")' = IF q = r /\ u = t /\ Step(r, t) = "collect" THEN k ELSE Did(q, u, "collect")
    <2>1. StepAt("collect") = StepAt(Step(r, t)) <=> Step(r, t) = "collect"
      BY <1>1, <1>2, StepsStand, Geometry DEF ComputeSteps
    <2> QED
      BY <1>1, <1>2, <1>3, <2>1, DidByThread DEF ComputeSteps
  <1>5. \A q \in Ranks, u \in Tids, h \in {0, 1} :
          mem'[Extra(q, h, u)] = IF q = r /\ u = t /\ h = k % 2 /\ Step(r, t) = "collect"
                                   THEN Inputs(k, SocketMates(r)) ELSE mem[Extra(q, h, u)]
    <2>1. ASSUME NEW q \in Ranks, NEW u \in Tids, NEW h \in {0, 1}
          PROVE  mem'[Extra(q, h, u)] = IF q = r /\ u = t /\ h = k % 2 /\ Step(r, t) = "collect"
                                          THEN Inputs(k, SocketMates(r)) ELSE mem[Extra(q, h, u)]
      <3>1. Extra(q, h, u) \in Places
        BY PlacesAre
      <3>2. Extra(q, h, u) \in Writes(r, t, Step(r, t)) <=> q = r /\ u = t /\ h = k % 2 /\ Step(r, t) = "collect"
        BY <1>2, WritesExtras DEF ComputeSteps, FlipFlag
      <3>3. Step(r, t) = "collect" => Target(r, Step(r, t)) = SocketMates(r)
        BY DEF Target
      <3> QED
        BY <3>1, <3>2, <3>3, ComputeWrites
    <2> QED
      BY <2>1
  <1>6. Ranks' = Ranks /\ \A q \in Ranks : SocketMates(q)' = SocketMates(q)
    BY <1>2, SameWorld DEF SocketMates
  <1>7. ASSUME NEW q \in Ranks, NEW u \in Tids, NEW j \in Nat \ {0},
               j \in {Did(q, u, "collect")' - 1, Did(q, u, "collect")'}
        PROVE  mem'[Extra(q, j % 2, u)] = Inputs(j, SocketMates(q))
    <2>1. j % 2 \in {0, 1} /\ k % 2 \in {0, 1}
      BY <1>3
    <2>2. CASE q = r /\ u = t /\ Step(r, t) = "collect"
      <3>1. j \in {k - 1, k}
        BY <1>4, <1>7, <2>2
      <3>2. CASE j = k
        BY <1>5, <2>1, <2>2, <3>2
      <3>3. CASE j = k - 1
        <4>1. j % 2 # k % 2
          BY <1>3, <3>3
        <4>2. mem[Extra(q, j % 2, u)] = Inputs(j, SocketMates(q))
          BY <1>1, <1>3, <2>2, <3>3 DEF ExtrasHold
        <4> QED
          BY <1>5, <2>1, <4>1, <4>2
      <3> QED
        BY <3>1, <3>2, <3>3
    <2>3. CASE ~(q = r /\ u = t /\ Step(r, t) = "collect")
      <3>1. Did(q, u, "collect")' = Did(q, u, "collect")
        BY <1>4, <2>3
      <3>2. mem'[Extra(q, j % 2, u)] = mem[Extra(q, j % 2, u)]
        BY <1>5, <2>1, <2>3
      <3> QED
        BY <1>1, <1>7, <3>1, <3>2 DEF ExtrasHold
    <2> QED
      BY <2>2, <2>3
  <1>8. \A j, Q : Inputs(j, Q)' = Inputs(j, Q)
    BY DEF Inputs
  <1> QED
    BY <1>6, <1>7, <1>8 DEF ExtrasHold

\* Before a rank reduces, its partner in the other die has not spread the sum.
LEMMA NotYetSpread ==
  ASSUME Inv, NEW r \in Ranks, NEW t \in Tids, Step(r, t) = "reduce", Dies # 1
  PROVE  Did(InterDie(r), t, "spread") <= call[r] - 1
  <1> DEFINE p == InterDie(r)
  <1>1. TypeOK /\ world \in Worlds
    BY DEF Inv, TypeOK
  <1>2. Dies = 2 /\ 0 \in Ids /\ SetAt(0) = 2 /\ StepAt("reduce") = 1 /\ StepAt("spread") \in {5, 7}
    BY <1>1, StepsStand, Geometry
  <1>3. p \in Ranks /\ Partner(p, 0) = r
    BY <1>1, <1>2, Partners DEF Partner
  <1>4. Sets(r, t, 0) = call[r] - 1
    BY <1>1, <1>2, AtStep DEF Sets, ComputeSteps
  <1>5. Passed(p, t, 3) <= call[r] - 1
    <2>1. Waits(p, t, 0) <= Sets(r, t, 0)
      BY <1>2, <1>3 DEF Inv, Answered
    <2> QED
      BY <1>2, <1>4, <2>1 DEF Waits
  <1>6. /\ Passed(p, t, StepAt("spread")) <= Passed(p, t, 3) /\ call[p] \in Nat /\ call[r] \in Nat
        /\ Passed(p, t, 3) \in {call[p] - 1, call[p]}
        /\ Passed(p, t, StepAt("spread")) \in {call[p] - 1, call[p]}
    <2>1. StepAt("spread") \in Nat /\ 3 <= StepAt("spread")
      BY <1>2
    <2>2. call[r] \in Nat
      BY <1>1 DEF TypeOK
    <2>3. Passed(p, t, StepAt("spread")) <= Passed(p, t, 3)
      BY <1>1, <1>3, <2>1, InOrder
    <2>4. Passed(p, t, 3) \in {call[p] - 1, call[p]} /\ call[p] \in Nat
      BY <1>1, <1>3, InOrder
    <2>5. Passed(p, t, StepAt("spread")) \in {call[p] - 1, call[p]}
      BY <1>1, <1>3, <2>1, InOrder
    <2> QED
      BY <2>2, <2>3, <2>4, <2>5
  <1> QED
    BY <1>5, <1>6 DEF Did

\* Of a block that a step does not write, the content stays what it was to be:
\* what it depends on is a step of another kind, or of another thread.
LEMMA ComputeKeepsBlocks ==
  ASSUME SumInv, NEW r \in Ranks, NEW t \in Tids, Compute(r, t)
  PROVE  BlocksHold'
  <1> DEFINE k == call[r]
  <1> DEFINE s == Step(r, t)
  <1>1. Inv /\ Met /\ BlocksHold /\ TypeOK /\ world \in Worlds
    BY DEF SumInv, Inv, TypeOK
  <1>2. world' = world /\ pc' = pc /\ call' = call /\ Advance(r, t) /\ s \in ComputeSteps
    BY DEF Compute, ComputeSteps
  <1>3. /\ pc[r] = "work" /\ at[r][t] = StepAt(s) /\ k \in Nat \ {0}
        /\ \A q \in Mates(r) : q \in Ranks /\ call[q] = k
        /\ \A s2 \in ComputeSteps : Did(r, t, s2) = IF StepAt(s2) < StepAt(s) THEN k ELSE k - 1
    BY <1>1, <1>2, Computing
  <1>4. \A s1, s2 \in ComputeSteps : StepAt(s1) = StepAt(s2) => s1 = s2
    BY <1>1, StepsStand, Geometry DEF ComputeSteps
  <1>5. \A q \in Ranks, u \in Tids, s2 \in ComputeSteps :
          Did(q, u, s2)' = IF q = r /\ u = t /\ s2 = s THEN k ELSE Did(q, u, s2)
    BY <1>1, <1>2, <1>3, <1>4, DidByThread
  <1>6. Ranks' = Ranks /\ Locals' = Locals /\ \A i, Q : Inputs(i, Q)' = Inputs(i, Q)
    BY <1>2, SameWorld DEF Locals, Inputs
  <1>7. SUFFICES ASSUME NEW q \in Ranks, NEW l \in Locals, NEW u \in Tids, NEW b \in {0, 1}, call[q] > 0
                 PROVE  mem'[Buffer(q, l, u, b)] = Inputs(call[q], Summed(q, l, u, b)')
    BY <1>2, <1>6 DEF BlocksHold
  <1> DEFINE x == Buffer(q, l, u, b)
  <1>8. x \in Places
    BY PlacesAre
  <1>9. /\ Summer(q, l) \in Mates(q) /\ Summer(q, l) \in Ranks /\ Local(Summer(q, l)) = l
        /\ Odd(Summer(q, l)) = Odd(q) /\ Even(Summer(q, l)) = Even(q)
        /\ Odd(q) \in {0, 1} /\ Even(q) \in {0, 1} /\ Odd(q) # Even(q)
        /\ Odd(r) \in {0, 1} /\ Even(r) \in {0, 1} /\ Odd(r) # Even(r)
        /\ q \in Mates(r) => (Odd(q) = Odd(r) /\ Even(q) = Even(r) /\ (l = Local(r) => Summer(q, l) = r))
    <2>1. q \in Mates(r) => r \in Mates(q) /\ Odd(q) = Odd(r) /\ Even(q) = Even(r)
      BY MatesAre DEF Odd, Even, Die
    <2> QED
      BY <1>1, <2>1, SummerIs, BlocksOfRank
  <1>10. Dies # 1 => InterDie(q) \in Ranks /\ InterDie(InterDie(q)) = q
    BY <1>1, Partners, Geometry
  <1>11. ASSUME x \notin Writes(r, t, s), Summed(q, l, u, b)' = Summed(q, l, u, b)
         PROVE  mem'[x] = Inputs(call[q], Summed(q, l, u, b)')
    <2>1. mem'[x] = mem[x]
      BY <1>8, <1>11, ComputeWrites
    <2>2. mem[x] = Inputs(call[q], Summed(q, l, u, b))
      BY <1>1, <1>7 DEF BlocksHold
    <2> QED
      BY <1>11, <2>1, <2>2
  <1>12. ASSUME x \in Writes(r, t, s), Summed(q, l, u, b)' = Target(r, s), call[q] = k
         PROVE  mem'[x] = Inputs(call[q], Summed(q, l, u, b)')
    <2>1. mem'[x] = Inputs(k, Target(r, s))
      BY <1>8, <1>12, ComputeWrites
    <2> QED
      BY <1>12, <2>1
  <1>13. Dies' = Dies /\ Mates(q)' = Mates(q)
    BY <1>2, SameWorld DEF Mates
  <1>14. CASE s = "reduce"
    <2>1. CASE q = r /\ l = Local(r) /\ u = t /\ b = Even(r)
      <3>1. x \in Writes(r, t, s) /\ Target(r, s) = Mates(r)
        BY <1>14, <2>1, WritesBlocks DEF Target
      <3>2. Did(r, t, "reduce")' = k /\ Summer(q, l) = r /\ b # Odd(q)
        BY <1>2, <1>5, <1>9, <1>14, <2>1, MatesAre
      <3>3. Dies # 1 => Did(InterDie(q), t, "spread")' < k
        <4> SUFFICES ASSUME Dies # 1 PROVE Did(InterDie(q), t, "spread")' < k
          OBVIOUS
        <4>1. Did(InterDie(q), t, "spread")' = Did(InterDie(q), t, "spread")
          BY <1>5, <1>10, <1>14 DEF ComputeSteps
        <4>2. Did(InterDie(q), t, "spread") <= k - 1
          BY <1>1, <1>14, <2>1, NotYetSpread
        <4>3. Did(InterDie(q), t, "spread") \in Int
          <5>1. call[InterDie(q)] \in Nat
            BY <1>1, <1>10 DEF TypeOK
          <5> QED
            BY <5>1 DEF Did, Passed
        <4> QED
          BY <1>3, <4>1, <4>2, <4>3
      <3>4. Summed(q, l, u, b)' = Mates(q)
        <4>1. CASE Dies = 1
          <5>1. Ranks = Mates(q)
            BY <1>1, <4>1, DiesOfSocket
          <5> QED
            BY <1>2, <1>3, <1>6, <1>13, <2>1, <3>2, <4>1, <5>1 DEF Summed
        <4>2. CASE Dies # 1
          BY <1>2, <1>3, <1>6, <1>13, <2>1, <3>2, <3>3, <4>2 DEF Summed
        <4> QED
          BY <4>1, <4>2
      <3> QED
        BY <1>12, <2>1, <3>1, <3>4
    <2>2. CASE ~(q = r /\ l = Local(r) /\ u = t /\ b = Even(r))
      <3>1. x \notin Writes(r, t, s)
        BY <1>14, <2>2, WritesBlocks
      <3>2. (b # Odd(q) /\ Summer(q, l) = q) => Did(q, u, "reduce")' = Did(q, u, "reduce")
        <4>1. Summer(q, l) = q => l = Local(q)
          BY <1>9
        <4>2. b # Odd(q) => b = Even(q)
          BY <1>9
        <4> QED
          BY <1>5, <1>14, <2>2, <4>1, <4>2 DEF ComputeSteps
      <3>3. Summed(q, l, u, b)' = Summed(q, l, u, b)
        BY <1>2, <1>5, <1>9, <1>10, <1>14, <3>2, SummedSame DEF ComputeSteps
      <3> QED
        BY <1>11, <3>1, <3>3
    <2> QED
      BY <2>1, <2>2
  <1>15. CASE s = "collect"
    <2>1. x \notin Writes(r, t, s)
      BY <1>15, WritesBlocks
    <2>2. Summed(q, l, u, b)' = Summed(q, l, u, b)
      BY <1>2, <1>5, <1>9, <1>10, <1>15, SummedSame DEF ComputeSteps
    <2> QED
      BY <1>11, <2>1, <2>2
  <1>16. CASE s = "spread"
    <2>0. Did(r, t, "spread")' = k
      BY <1>2, <1>5, <1>16
    <2>1. CASE l = Local(r) /\ u = t /\ b = Odd(r) /\ q \in Mates(r)
      <3>1. x \in Writes(r, t, s) /\ Target(r, s) = Ranks
        BY <1>16, <2>1, WritesBlocks DEF Target
      <3>2. Summed(q, l, u, b)' = Ranks
        BY <1>2, <1>3, <1>6, <1>9, <2>0, <2>1 DEF Summed
      <3> QED
        BY <1>3, <1>12, <2>1, <3>1, <3>2
    <2>2. CASE l = Local(r) /\ u = t /\ b = Odd(r) /\ Dies # 1 /\ q = InterDie(r)
      <3>1. x \in Writes(r, t, s) /\ Target(r, s) = Ranks
        BY <1>16, <2>2, WritesBlocks DEF Target
      <3>2. /\ InterDie(q) = r /\ call[q] = k /\ Local(q) = Local(r) /\ Odd(r) = Even(q)
            /\ Did(q, t, "reduce") = k
        BY <1>1, <1>16, <2>2, PartnerDid
      <3>3. Did(q, t, "reduce")' = k
        BY <1>5, <1>16, <3>2 DEF ComputeSteps
      <3>4. Summer(q, l) = q
        <4>1. q \in Mates(q)
          BY DEF Mates
        <4> QED
          BY <1>1, <2>2, <3>2, <4>1, SummerIs
      <3>5. Summed(q, l, u, b)' = Ranks
        BY <1>2, <1>3, <1>6, <1>9, <1>13, <2>0, <2>2, <3>2, <3>3, <3>4 DEF Summed
      <3> QED
        BY <1>12, <3>1, <3>2, <3>5
    <2>3. CASE ~(l = Local(r) /\ u = t /\ b = Odd(r) /\ (q \in Mates(r) \/ (Dies # 1 /\ q = InterDie(r))))
      <3>1. x \notin Writes(r, t, s)
        BY <1>16, <2>3, WritesBlocks
      <3>2. b = Odd(q) => Did(Summer(q, l), u, "spread")' = Did(Summer(q, l), u, "spread")
        <4>1. Summer(q, l) = r => q \in Mates(r) /\ l = Local(r) /\ Odd(q) = Odd(r)
          BY <1>9, MatesAre
        <4> QED
          BY <1>5, <1>9, <2>3, <4>1 DEF ComputeSteps
      <3>3. (b # Odd(q) /\ Summer(q, l) = q /\ Dies # 1) =>
               Did(InterDie(q), u, "spread")' = Did(InterDie(q), u, "spread")
        <4>1. (InterDie(q) = r /\ Summer(q, l) = q /\ Dies # 1) => q = InterDie(r) /\ l = Local(r) /\ Even(q) = Odd(r)
          <5>1. q[2] \in {0, 1}
            BY <1>1, RankIs, Geometry
          <5> QED
            BY <1>9, <1>10, <5>1 DEF InterDie, Local, Odd, Even, Die
        <4>2. b # Odd(q) => b = Even(q)
          BY <1>9
        <4> QED
          BY <1>5, <1>10, <2>3, <4>1, <4>2 DEF ComputeSteps
      <3>4. Summed(q, l, u, b)' = Summed(q, l, u, b)
        BY <1>2, <1>5, <1>9, <1>10, <1>16, <3>2, <3>3, SummedSame DEF ComputeSteps
      <3> QED
        BY <1>11, <3>1, <3>4
    <2> QED
      BY <2>1, <2>2, <2>3
  <1>17. CASE s = "copy"
    <2>0. Did(r, t, "copy")' = k /\ Did(r, t, "reduce")' = k
      <3>1. StepAt("reduce") < StepAt("copy")
        BY <1>1, StepsStand, Geometry
      <3> QED
        BY <1>2, <1>3, <1>5, <1>17, <3>1 DEF ComputeSteps
    <2>1. CASE l = Local(r) /\ u = t /\ b = Even(r) /\ q \in Mates(r) /\ (Dies = 1 \/ q # r)
      <3>1. x \in Writes(r, t, s) /\ Target(r, s) = Ranks
        BY <1>17, <2>1, WritesBlocks DEF Target
      <3>2. Summer(q, l) = r /\ b # Odd(q) /\ call[q] = k
        BY <1>3, <1>9, <2>1
      <3>3. Summed(q, l, u, b)' = Ranks
        <4>1. CASE q # r
          BY <1>2, <1>3, <1>6, <2>0, <2>1, <3>2, <4>1 DEF Summed
        <4>2. CASE q = r
          BY <1>2, <1>3, <1>6, <1>13, <2>0, <2>1, <3>2, <4>2 DEF Summed
        <4> QED
          BY <4>1, <4>2
      <3> QED
        BY <1>12, <3>1, <3>2, <3>3
    <2>2. CASE ~(l = Local(r) /\ u = t /\ b = Even(r) /\ q \in Mates(r) /\ (Dies = 1 \/ q # r))
      <3>1. x \notin Writes(r, t, s)
        BY <1>17, <2>2, WritesBlocks
      <3>2. (b # Odd(q) /\ Summer(q, l) # q) => Did(Summer(q, l), u, "copy")' = Did(Summer(q, l), u, "copy")
        <4>1. Summer(q, l) = r => q \in Mates(r) /\ l = Local(r) /\ Even(q) = Even(r)
          BY <1>9, MatesAre
        <4>2. b # Odd(q) => b = Even(q)
          BY <1>9
        <4> QED
          BY <1>5, <1>9, <2>2, <4>1, <4>2 DEF ComputeSteps
      <3>3. Summed(q, l, u, b)' = Summed(q, l, u, b)
        BY <1>2, <1>5, <1>9, <1>10, <1>17, <3>2, SummedSame DEF ComputeSteps
      <3> QED
        BY <1>11, <3>1, <3>3
    <2> QED
      BY <2>1, <2>2
  <1> QED
    BY <1>2, <1>14, <1>15, <1>16, <1>17 DEF ComputeSteps

\* What the buffers hold is inductive, together with the flags and the fences.
LEMMA SumInvStep == SumInv /\ [Next]_vars => SumInv'
  <1> SUFFICES ASSUME SumInv, [Next]_vars PROVE SumInv'
    OBVIOUS
  <1>1. Inv /\ Met /\ BlocksHold /\ ExtrasHold /\ TypeOK
    BY DEF SumInv, Inv
  <1>2. Inv' /\ Met' /\ TypeOK'
    BY <1>1, InvStep, MetStep, TypeStep
  <1>3. ASSUME NEW r \in Ranks, Rank(r) PROVE BlocksHold' /\ ExtrasHold'
    BY <1>2, <1>3, RankKeepsSums
  <1>4. ASSUME NEW r \in Ranks, NEW t \in Tids, Compute(r, t) PROVE BlocksHold' /\ ExtrasHold'
    BY <1>4, ComputeKeepsBlocks, ComputeKeepsExtras
  <1>5. ASSUME NEW r \in Ranks, NEW t \in Tids, SetFence(r, t) \/ WaitFence(r, t) PROVE BlocksHold' /\ ExtrasHold'
    BY <1>5, FlagKeepsSums
  <1>6. ASSUME UNCHANGED vars PROVE BlocksHold' /\ ExtrasHold'
    <2>1. /\ world' = world /\ call' = call /\ pc' = pc /\ at' = at /\ mem' = mem
      BY <1>6 DEF vars
    <2>2. /\ Ranks' = Ranks /\ Locals' = Locals /\ Dies' = Dies /\ Sockets' = Sockets
          /\ \A q \in Ranks : Mates(q)' = Mates(q) /\ SocketMates(q)' = SocketMates(q)
      BY <2>1, SameWorld DEF Mates, SocketMates, Locals
    <2>3. \A q, u, s : Did(q, u, s)' = Did(q, u, s)
      BY <2>1, <2>2 DEF Did, Passed, StepAt
    <2>4. \A q \in Ranks, l \in Locals, u \in Tids, b \in {0, 1} : Summed(q, l, u, b)' = Summed(q, l, u, b)
      BY <2>1, <2>3, SummedSame
    <2>5. \A k, Q : Inputs(k, Q)' = Inputs(k, Q)
      BY DEF Inputs
    <2>6. BlocksHold'
      BY <1>1, <2>1, <2>2, <2>4, <2>5 DEF BlocksHold
    <2>7. ExtrasHold'
      BY <1>1, <2>1, <2>3, ExtrasSame
    <2> QED
      BY <2>6, <2>7
  <1>7. BlocksHold' /\ ExtrasHold'
    BY <1>3, <1>4, <1>5, <1>6 DEF Next, Thread
  <1> QED
    BY <1>2, <1>7 DEF SumInv

\* A rank that is back finds all blocks of its buffer summed up: its mates have
\* passed every step of the call, and its partner the spread.
LEMMA SumInvImpliesWholeSum == SumInv => WholeSum
  <1> SUFFICES ASSUME SumInv, NEW r \in Ranks, pc[r] = "user", call[r] > 0, NEW x \in Own(r)
               PROVE  mem[x] = {<<call[r], q>> : q \in Ranks}
    BY DEF WholeSum
  <1>1. Inv /\ Met /\ BlocksHold /\ TypeOK /\ world \in Worlds /\ call[r] \in Nat
    BY DEF SumInv, Inv, TypeOK
  <1>2. PICK l \in Locals, t \in Tids, b \in {0, 1} : x = Buffer(r, l, t, b)
    BY DEF Own
  <1>3. r \in Mates(r) /\ Summer(r, l) \in Mates(r)
    BY <1>1, SummerIs DEF Mates
  <1>4. \A m \in Mates(r), s \in ComputeSteps : Did(m, t, s) = call[r]
    <2>1. \A s \in ComputeSteps : StepAt(s) \in Nat
      BY <1>1, StepsStand
    <2> QED
      BY <1>1, <2>1, MatesOfUser DEF Did
  <1>5. Dies # 1 => ~(Did(InterDie(r), t, "spread") < call[r])
    <2> SUFFICES ASSUME Dies # 1 PROVE ~(Did(InterDie(r), t, "spread") < call[r])
      OBVIOUS
    <2>1. Waits(r, t, 2) = call[r]
      BY DEF Waits, Passed
    <2> QED
      BY <1>1, <2>1, PartnerSpread
  <1>6. Summed(r, l, t, b) = Ranks
    <2>1. /\ Did(Summer(r, l), t, "spread") = call[r] /\ Did(Summer(r, l), t, "copy") = call[r]
          /\ Did(r, t, "reduce") = call[r]
      BY <1>3, <1>4 DEF ComputeSteps
    <2> QED
      BY <1>1, <1>5, <2>1 DEF Summed
  <1>7. mem[x] = Inputs(call[r], Ranks)
    BY <1>1, <1>2, <1>6 DEF BlocksHold
  <1> QED
    BY <1>7 DEF Inputs

\* A rank that is back from shm_allreduce has, in every place of its buffer, the
\* sum of the inputs that all ranks gave in this call, each added once, whatever
\* the others are doing by then: still copying, back too, or in the next call.
THEOREM WholeSumCorrect == Spec => []WholeSum
  <1>1. Init => SumInv
    BY SumInvInit
  <1>2. SumInv /\ [Next]_vars => SumInv'
    BY SumInvStep
  <1>3. SumInv => WholeSum
    BY SumInvImpliesWholeSum
  <1> QED
    BY <1>1, <1>2, <1>3, PTL DEF Spec
=============================================================================
