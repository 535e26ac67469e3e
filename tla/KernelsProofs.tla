--------------------------- MODULE KernelsProofs ---------------------------
(***************************************************************************)
(* Theorems about Kernels, for any team, vector length and operators.  The    *)
(* chunks of parallel_for share out the units, and no unit is left to two     *)
(* threads.  What RowOffsetsProofs shows of the tables holds in a run of the  *)
(* operators.  A unit owns places of the output that no other unit does, it   *)
(* stores to those alone and reads those or what no unit stores to: so the    *)
(* threads of a team never race.                                             *)
(***************************************************************************)
EXTENDS Kernels, RowOffsetsProofs, TLAPS

\* The lesser of two numbers.
LEMMA MinOfTwo ==
  ASSUME NEW a \in Nat, NEW b \in Nat
  PROVE  Min({a, b}) = IF a <= b THEN a ELSE b
BY DEF Min

\* The smallest number of parts that covers.
LEMMA DivUpCovers ==
  ASSUME NEW n \in Nat \ {0}, NEW m \in Nat \ {0}
  PROVE  DivUp(n, m) \in Nat \ {0} /\ n <= DivUp(n, m) * m
<1>1. n + m - 1 \in Nat
  OBVIOUS
<1> DEFINE d == (n + m - 1) \div m
<1>2. d \in Nat /\ n + m - 1 < d * m + m
  BY <1>1
<1>3. n <= d * m /\ d * m \in Nat
  BY <1>2
<1>4. d # 0
  <2> SUFFICES ASSUME d = 0 PROVE FALSE
    OBVIOUS
  <2>1. d * m = 0
    OBVIOUS
  <2> QED
    BY <1>3, <2>1
<1> QED
  BY <1>2, <1>3, <1>4 DEF DivUp

\* A team has a thread and a chunk a unit; as many chunks as threads cover the units.
LEMMA SizesArePositive ==
  ASSUME NEW n \in Nat \ {0}, NEW grain \in Nat
  PROVE  /\ TeamSize(n, grain) \in 1..Threads
         /\ ChunkSize(n, grain) \in Nat \ {0}
         /\ n <= ChunkSize(n, grain) * Threads
<1>1. Threads \in Nat \ {0}
  BY KernelsAssumption
<1>2. TeamSize(n, grain) \in 1..Threads
  <2>1. CASE grain = 0
    BY <1>1, <2>1 DEF TeamSize
  <2>2. CASE grain # 0
    <3>1. DivUp(n, grain) \in Nat \ {0}
      BY <2>2, DivUpCovers
    <3> QED
      BY <1>1, <2>2, <3>1, MinOfTwo DEF TeamSize
  <2> QED
    BY <2>1, <2>2
<1> DEFINE m == TeamSize(n, grain)
           c == DivUp(n, m)
<1>3. m \in Nat \ {0} /\ m <= Threads
  BY <1>1, <1>2
<1> HIDE DEF m
<1>4. c \in Nat \ {0} /\ n <= c * m
  BY <1>3, DivUpCovers
<1> HIDE DEF c
<1>5. c * m <= c * Threads /\ c * m \in Nat /\ c * Threads \in Nat
  BY <1>1, <1>3, <1>4
<1>6. n <= c * Threads
  BY <1>4, <1>5
<1> QED
  BY <1>2, <1>4, <1>6 DEF ChunkSize, c, m

\* parallel_for runs every unit, each in the chunk of exactly one thread, whatever
\* their number, the team and the grain (parallel.cpp 104-124).
THEOREM ChunksShareOut ==
  ASSUME NEW n \in Nat, NEW grain \in Nat
  PROVE  /\ \A t \in Team : Chunk(n, grain, t) \subseteq 0..(n - 1)
         /\ \A u \in 0..(n - 1) : \E t \in Team : u \in Chunk(n, grain, t)
         /\ \A t, s \in Team : t # s => Chunk(n, grain, t) \cap Chunk(n, grain, s) = {}
<1>1. CASE n = 0
  BY <1>1 DEF Chunk
<1>2. CASE n # 0
  <2> DEFINE c == ChunkSize(n, grain)
  <2>1. Threads \in Nat \ {0} /\ n \in Nat \ {0}
    BY <1>2, KernelsAssumption
  <2>2. c \in Nat \ {0} /\ n <= c * Threads
    BY <2>1, SizesArePositive
  <2> HIDE DEF c
  <2>3. ASSUME NEW t \in Team, NEW u
        PROVE  u \in Chunk(n, grain, t) <=> u \in 0..(n - 1) /\ t * c <= u /\ u < (t + 1) * c
    <3>1. t * c \in Nat /\ (t + 1) * c \in Nat
      BY <2>1, <2>2 DEF Team
    <3>2. ChunkEnd(n, c, t) = IF n <= (t + 1) * c THEN n ELSE (t + 1) * c
      BY <3>1, MinOfTwo DEF ChunkEnd
    <3> DEFINE lo == t * c
               hi == (t + 1) * c
    <3>3. Chunk(n, grain, t) = lo..(ChunkEnd(n, c, t) - 1)
      BY <1>2 DEF Chunk, c
    <3> HIDE DEF lo, hi
    <3>4. lo \in Nat /\ hi \in Nat /\ ChunkEnd(n, c, t) = IF n <= hi THEN n ELSE hi
      BY <3>1, <3>2 DEF lo, hi
    <3>5. u \in Chunk(n, grain, t) <=> u \in 0..(n - 1) /\ lo <= u /\ u < hi
      BY <3>3, <3>4
    <3> QED
      BY <3>5 DEF lo, hi
  <2>4. ASSUME NEW u \in 0..(n - 1) PROVE \E t \in Team : u \in Chunk(n, grain, t)
    <3> DEFINE t == u \div c
    <3>1. t \in Nat /\ t * c <= u /\ u < t * c + c
      BY <2>1, <2>2
    <3> HIDE DEF t
    <3>2. (t + 1) * c = t * c + c /\ t * c \in Nat
      BY <2>2, <3>1
    <3>3. t < Threads
      <4> SUFFICES ASSUME t >= Threads PROVE FALSE
        BY <2>1, <3>1
      <4>1. t * c >= Threads * c /\ Threads * c = c * Threads /\ c * Threads \in Nat
        BY <2>1, <2>2, <3>1
      <4> QED
        BY <2>1, <2>2, <3>1, <3>2, <4>1
    <3>4. t \in Team
      BY <2>1, <3>1, <3>3 DEF Team
    <3> QED
      BY <2>3, <3>1, <3>2, <3>4
  <2>5. ASSUME NEW t \in Team, NEW s \in Team, t < s
        PROVE  Chunk(n, grain, t) \cap Chunk(n, grain, s) = {}
    <3>1. (t + 1) * c <= s * c /\ (t + 1) * c \in Nat /\ s * c \in Nat
      BY <2>1, <2>2, <2>5 DEF Team
    <3> SUFFICES ASSUME NEW u \in Chunk(n, grain, t), u \in Chunk(n, grain, s)
                 PROVE  FALSE
      OBVIOUS
    <3>2. u \in Nat /\ u < (t + 1) * c /\ s * c <= u
      BY <2>1, <2>3
    <3> QED
      BY <3>1, <3>2
  <2>6. \A t, s \in Team : t # s => t < s \/ s < t
    BY <2>1 DEF Team
  <2> QED
    BY <2>3, <2>4, <2>5, <2>6
<1> QED
  BY <1>1, <1>2

-----------------------------------------------------------------------------
(* A run of the operators *)

\* What each thread is to run: units of the operator, none of another thread's.
Shared == \A t, s \in Team : t # s => left[t] \cap left[s] = {}

Inv ==
  /\ TypeOK
  /\ phase # "run" => left = Idle
  /\ phase = "offsets" => at # "idle" /\ op.name \in Rms
  /\ phase = "run" /\ op.name \notin Rms => at = "idle"
  /\ Shared

\* Every split of the loop, by OpenMP or by parallel_for, gives each unit to one thread.
LEMMA SplitsShareOut ==
  ASSUME NEW c \in Calls, NEW split \in Splits(c)
  PROVE  /\ split \in [Team -> SUBSET (0..(Units(c) - 1))]
         /\ \A t, s \in Team : t # s => split[t] \cap split[s] = {}
<1>1. Units(c) \in Nat
  BY CallsAssumption
<1>2. CASE c.name \in Flat \cup {"random_uniform"}
  <2>1. PICK cut \in Cuts(Units(c)) : split = [t \in Team |-> cut[t]..(cut[t + 1] - 1)]
    BY <1>2 DEF Splits
  <2>2. /\ \A t \in 0..Threads : cut[t] \in 0..Units(c)
        /\ \A s, t \in 0..Threads : s <= t => cut[s] <= cut[t]
    BY DEF Cuts
  <2>3. \A t \in Team : t \in 0..Threads /\ t + 1 \in 0..Threads
    BY KernelsAssumption DEF Team
  <2>4. \A t \in Team : split[t] \subseteq 0..(Units(c) - 1)
    BY <1>1, <2>1, <2>2, <2>3
  <2>5. ASSUME NEW t \in Team, NEW s \in Team, t < s PROVE split[t] \cap split[s] = {}
    <3>1. cut[t + 1] <= cut[s]
      BY <2>2, <2>3, <2>5 DEF Team
    <3>2. cut[t + 1] \in Nat /\ cut[s] \in Nat /\ cut[t] \in Nat /\ cut[s + 1] \in Nat
      BY <1>1, <2>2, <2>3
    <3> QED
      BY <2>1, <3>1, <3>2
  <2>6. \A t, s \in Team : t # s => t < s \/ s < t
    BY KernelsAssumption DEF Team
  <2> QED
    BY <2>1, <2>4, <2>5, <2>6
<1>3. CASE c.name \notin Flat \cup {"random_uniform"}
  <2> DEFINE grain == IF Strided(c) THEN 0 ELSE 1
  <2>1. split = [t \in Team |-> Chunk(Units(c), grain, t)]
    BY <1>3 DEF Splits
  <2>2. grain \in Nat
    OBVIOUS
  <2> HIDE DEF grain
  <2> QED
    BY <1>1, <2>1, <2>2, ChunksShareOut
<1> QED
  BY <1>2, <1>3

\* Nothing is left to any thread before the first call.
LEMMA InitInv == Init => Inv
<1> SUFFICES ASSUME Init PROVE Inv
  OBVIOUS
<1>1. at = "idle" /\ phase = "idle" /\ left = Idle /\ calls = 0
  BY DEF Init, RowsInit
<1>2. op \in Calls
  BY CallsAssumption DEF Init
<1>3. MaxCalls \in Nat
  BY KernelsAssumption
<1> QED
  BY <1>1, <1>2, <1>3 DEF Inv, TypeOK, Shared, Idle

\* A call gives the threads the units of its operator.
LEMMA CallInv ==
  ASSUME Inv, NEW c \in Calls, Call(c)
  PROVE  Inv'
<1>1. /\ phase = "idle" /\ calls < MaxCalls /\ calls' = calls + 1 /\ op' = c /\ c.name \notin Rms
      /\ phase' = "run" /\ left' \in Splits(c) /\ at' = at
  BY DEF Call, Starts, Fork, rowsVars
<1>2. at = "idle" /\ calls \in 0..MaxCalls /\ MaxCalls \in Nat
  BY <1>1, KernelsAssumption DEF Inv, TypeOK
<1>3. /\ left' \in [Team -> SUBSET (0..(Units(c) - 1))]
      /\ \A t, s \in Team : t # s => left'[t] \cap left'[s] = {}
  BY <1>1, SplitsShareOut
<1>4. Units(op)' = Units(c)
  BY <1>1
<1> QED
  BY <1>1, <1>2, <1>3, <1>4 DEF Inv, TypeOK, Shared

\* A call of rms_norm only begins to look for its table.
LEMMA CallRmsInv ==
  ASSUME Inv, NEW c \in Calls, CallRms(c)
  PROVE  Inv'
<1>1. /\ phase = "idle" /\ calls < MaxCalls /\ calls' = calls + 1 /\ op' = c /\ c.name \in Rms
      /\ phase' = "offsets" /\ left' = left /\ at' \in {"rows", "have"} /\ key' = KeyOf(c)
  BY DEF CallRms, Starts, Hit, Miss
<1>2. calls \in 0..MaxCalls /\ MaxCalls \in Nat /\ left = Idle
  BY <1>1, KernelsAssumption DEF Inv, TypeOK
<1>3. KeyOf(c) \in Keys
  BY <1>1, CallsAssumption
<1>4. left' \in [Team -> SUBSET (0..(Units(op) - 1))]' /\ Shared'
  BY <1>1, <1>2 DEF Idle, Shared
<1> QED
  BY <1>1, <1>2, <1>3, <1>4 DEF Inv, TypeOK, Idle

\* No thread has a unit while the rows are listed.
LEMMA ListRowsInv ==
  ASSUME Inv, ListRows
  PROVE  Inv'
<1>1. /\ at = "rows" /\ at' \in {"rows", "have"} /\ key' = key
      /\ calls' = calls /\ phase' = phase /\ op' = op /\ left' = left
  BY DEF ListRows, Row, Emplace, regionVars
<1>2. phase = "offsets" /\ left = Idle
  BY <1>1 DEF Inv, TypeOK
<1> QED
  BY <1>1, <1>2 DEF Inv, TypeOK, Shared, Idle

\* The kernel of rms_norm gives the threads the rows of its operator.
LEMMA NormsInv ==
  ASSUME Inv, Norms
  PROVE  Inv'
<1>1. /\ phase = "offsets" /\ at = "have" /\ phase' = "run" /\ left' \in Splits(op)
      /\ at' = at /\ key' = key /\ calls' = calls /\ op' = op
  BY DEF Norms, Fork, rowsVars
<1>2. op \in Calls /\ op.name \in Rms
  BY <1>1 DEF Inv, TypeOK
<1>3. /\ left' \in [Team -> SUBSET (0..(Units(op) - 1))]
      /\ \A t, s \in Team : t # s => left'[t] \cap left'[s] = {}
  BY <1>1, <1>2, SplitsShareOut
<1> QED
  BY <1>1, <1>2, <1>3 DEF Inv, TypeOK, Shared

\* A thread that takes a unit has one unit less.
LEMMA UnitInv ==
  ASSUME Inv, NEW t \in Team, Unit(t)
  PROVE  Inv'
<1>1. /\ phase = "run" /\ left' = [left EXCEPT ![t] = @ \ {Min(left[t])}]
      /\ phase' = phase /\ at' = at /\ key' = key /\ calls' = calls /\ op' = op
  BY DEF Unit, rowsVars
<1>2. left \in [Team -> SUBSET (0..(Units(op) - 1))]
  BY DEF Inv, TypeOK
<1> DEFINE m == Min(left[t])
<1> HIDE DEF m
<1>3. \A s \in Team : left'[s] \subseteq left[s]
  BY <1>1, <1>2 DEF m
<1>4. left' \in [Team -> SUBSET (0..(Units(op) - 1))]
  BY <1>1, <1>2, <1>3
<1>5. Shared'
  BY <1>3 DEF Inv, Shared
<1> QED
  BY <1>1, <1>4, <1>5 DEF Inv, TypeOK

\* An operator returns when nothing is left.
LEMMA ReturnInv ==
  ASSUME Inv, Return
  PROVE  Inv'
<1>1. /\ phase = "run" /\ left = Idle /\ phase' = "idle" /\ left' = left
      /\ calls' = calls /\ op' = op
      /\ IF op.name \in Rms THEN at' = "idle" ELSE at' = at
  BY DEF Return, Release, rowsVars
<1>2. at' = "idle"
  BY <1>1 DEF Inv
<1> QED
  BY <1>1, <1>2 DEF Inv, TypeOK, Shared

\* Every step preserves the invariant.
LEMMA NextInv ==
  ASSUME Inv, [Next]_vars
  PROVE  Inv'
<1>1. CASE UNCHANGED vars
  BY <1>1 DEF Inv, TypeOK, Shared, vars, rowsVars, regionVars, Idle
<1> QED
  BY <1>1, CallInv, CallRmsInv, ListRowsInv, NormsInv, UnitInv, ReturnInv DEF Next

\* The invariant holds of every run of the operators.
THEOREM OperatorsInvariant == Spec => []Inv
BY InitInv, NextInv, PTL DEF Spec

\* No thread is left a unit that its operator does not have (basic.cc 12, rope.cc 77,
\* parallel.cpp 121).
THEOREM TypeCorrect == Spec => []TypeOK
<1>1. Inv => TypeOK
  BY DEF Inv
<1> QED
  BY <1>1, OperatorsInvariant, PTL

\* A unit of work is never left to two threads at once, whatever the loop: each row,
\* block or head is computed and stored by one of them (rms_norm.cc 32, basic.cc 11).
THEOREM NoUnitIsShared == Spec => []Shared
<1>1. Inv => Shared
  BY DEF Inv
<1> QED
  BY <1>1, OperatorsInvariant, PTL

-----------------------------------------------------------------------------
(* The operators use the tables as RowOffsets says. *)

\* A step of the operators is a step of the tables, or leaves them alone.
LEMMA StepsOfRows ==
  ASSUME Inv, [Next]_vars
  PROVE  [RowsNext]_rowsVars
<1>1. ASSUME NEW c \in Calls, CallRms(c) PROVE RowsNext
  BY <1>1, CallsAssumption DEF CallRms, RowsNext
<1>2. ASSUME NEW c \in Calls, Call(c) PROVE UNCHANGED rowsVars
  BY <1>2 DEF Call
<1>3. ASSUME ListRows PROVE RowsNext
  BY <1>3 DEF ListRows, RowsNext
<1>4. ASSUME Norms PROVE UNCHANGED rowsVars
  BY <1>4 DEF Norms
<1>5. ASSUME NEW t \in Team, Unit(t) PROVE UNCHANGED rowsVars
  BY <1>5 DEF Unit
<1>6. ASSUME Return PROVE RowsNext \/ UNCHANGED rowsVars
  BY <1>6 DEF Return, RowsNext
<1>7. CASE UNCHANGED vars
  BY <1>7 DEF vars
<1> QED
  BY <1>1, <1>2, <1>3, <1>4, <1>5, <1>6, <1>7 DEF Next

\* The calls of rms_norm, with whatever else runs between them, are behaviours of
\* RowOffsets, so that its theorems hold of them (rms_norm.cc 474, 513).
LEMMA OperatorsUseTheTables == Spec => RowsSpec
<1>1. Init => RowsInit
  BY DEF Init
<1> QED
  BY <1>1, StepsOfRows, OperatorsInvariant, PTL DEF Spec, RowsSpec

\* In a run of the operators too, the norms are computed row by row, each row once,
\* and at the offsets of the call's own tensors (rms_norm.cc 39-40, 148-151).
THEOREM OperatorsFindTheirRows == Spec => [](EveryRowOnce /\ OffsetsFit)
BY OperatorsUseTheTables, EveryRowIsListedOnce, CachedOffsetsFit, PTL

-----------------------------------------------------------------------------
(* The places of an operator and of its units. *)

\* A vector of n numbers is a sequence of length n.
LEMMA VectorLen ==
  ASSUME NEW n \in Nat, NEW X, NEW v \in [1..n -> X]
  PROVE  v \in Seq(X) /\ Len(v) = n
<1>1. v \in Seq(X)
  BY DEF Seq
<1>2. Len(v) \in Nat /\ DOMAIN v = 1..Len(v) /\ DOMAIN v = 1..n
  BY <1>1
<1>3. Len(v) = n
  BY <1>2
<1> QED
  BY <1>1, <1>3

\* The product is also that of the first size and the rest.
LEMMA InnerFront ==
  ASSUME NEW sizes, NEW d \in Nat \ {0}, NEW e \in Nat, d <= e,
         \A i \in d..e : sizes[i] \in Nat
  PROVE  Inner(sizes, d - 1, e) = sizes[d] * Inner(sizes, d, e)
<1> DEFINE T == {i \in Nat : i <= e => Inner(sizes, d - 1, i) = sizes[d] * Inner(sizes, d, i)}
<1>1. d \in T
  <2>1. Inner(sizes, d - 1, (d - 1) + 1) = Inner(sizes, d - 1, d - 1) * sizes[(d - 1) + 1]
    BY InnerSteps
  <2>2. Inner(sizes, d - 1, d - 1) = 1 /\ Inner(sizes, d, d) = 1
    BY InnerSteps
  <2>3. (d - 1) + 1 = d /\ sizes[d] \in Nat
    OBVIOUS
  <2> QED
    BY <2>1, <2>2, <2>3
<1>2. ASSUME NEW i \in Nat, i >= d, i \in T PROVE i + 1 \in T
  <2>1. CASE i + 1 <= e
    <3>1. Inner(sizes, d - 1, i) = sizes[d] * Inner(sizes, d, i)
      BY <1>2, <2>1
    <3>2. Inner(sizes, d - 1, i + 1) = Inner(sizes, d - 1, i) * sizes[i + 1]
      BY <1>2, InnerSteps
    <3>3. Inner(sizes, d, i + 1) = Inner(sizes, d, i) * sizes[i + 1]
      BY <1>2, InnerSteps
    <3>4. sizes[d] \in Nat /\ sizes[i + 1] \in Nat /\ Inner(sizes, d, i) \in Nat
      <4>1. \A j \in (d + 1)..i : sizes[j] \in Nat
        BY <2>1
      <4> QED
        BY <1>2, <2>1, <4>1, InnerType
    <3> QED
      BY <3>1, <3>2, <3>3, <3>4
  <2>2. CASE ~ (i + 1 <= e)
    BY <2>2
  <2> QED
    BY <2>1, <2>2
<1> HIDE DEF T
<1>3. e \in T
  BY <1>1, <1>2, Upwards
<1> QED
  BY <1>3 DEF T

\* When a product is positive, so are the products of its last sizes.
LEMMA InnerPositive ==
  ASSUME NEW sizes, NEW n \in Nat, \A i \in 1..n : sizes[i] \in Nat, Inner(sizes, 0, n) > 0
  PROVE  \A d \in 0..n : Inner(sizes, d, n) \in Nat \ {0}
<1> DEFINE T == {d \in Nat : d <= n => Inner(sizes, d, n) \in Nat \ {0}}
<1>1. 0 \in T
  <2>1. \A i \in (0 + 1)..n : sizes[i] \in Nat
    OBVIOUS
  <2>2. 0 \in Nat /\ 0 <= n
    OBVIOUS
  <2>3. Inner(sizes, 0, n) \in Nat
    BY <2>1, <2>2, InnerType
  <2> QED
    BY <2>3
<1>2. ASSUME NEW d \in Nat, d >= 0, d \in T PROVE d + 1 \in T
  <2>1. CASE d + 1 <= n
    <3>1. Inner(sizes, (d + 1) - 1, n) = sizes[d + 1] * Inner(sizes, d + 1, n)
      BY <2>1, InnerFront
    <3>2. Inner(sizes, d, n) \in Nat \ {0} /\ (d + 1) - 1 = d /\ sizes[d + 1] \in Nat
      BY <1>2, <2>1
    <3>3. Inner(sizes, d + 1, n) \in Nat
      BY <2>1, InnerType
    <3>4. Inner(sizes, d + 1, n) # 0
      BY <3>1, <3>2
    <3> QED
      BY <3>3, <3>4
  <2>2. CASE ~ (d + 1 <= n)
    BY <2>2
  <2> QED
    BY <2>1, <2>2
<1> HIDE DEF T
<1>3. \A d \in Nat : d >= 0 => d \in T
  <2>1. 0 \in Nat
    OBVIOUS
  <2> QED
    BY <1>1, <1>2, <2>1, Upwards
<1> QED
  BY <1>3 DEF T

\* Dividing twice is dividing by the product.
LEMMA DivTwice ==
  ASSUME NEW u \in Nat, NEW p \in Nat \ {0}, NEW s \in Nat \ {0}
  PROVE  u \div (s * p) = (u \div p) \div s
<1> DEFINE q == u \div p
           r == q \div s
<1>1. q \in Nat /\ q * p <= u /\ u < q * p + p
  OBVIOUS
<1> HIDE DEF q
<1>2. r \in Nat /\ r * s <= q /\ q < r * s + s
  BY <1>1
<1> HIDE DEF r
<1>3. q + 1 <= r * s + s /\ r * s \in Nat
  BY <1>1, <1>2
<1>4. (r * s) * p <= q * p /\ (q + 1) * p <= (r * s + s) * p
  BY <1>1, <1>2, <1>3
<1>5. (r * s) * p = r * (s * p) /\ (q + 1) * p = q * p + p
      /\ (r * s + s) * p = r * (s * p) + s * p
  BY <1>1, <1>2
<1> DEFINE m == s * p
<1>6. m \in Nat \ {0} /\ r * m \in Nat /\ q * p \in Nat
  BY <1>1, <1>2
<1>7. r * m <= u /\ u < r * m + m
  <2> HIDE DEF m
  <2>1. r * m <= q * p /\ q * p + p <= r * m + m
    BY <1>4, <1>5 DEF m
  <2> QED
    BY <1>1, <1>6, <2>1
<1> HIDE DEF m
<1> DEFINE z == u \div m
<1>8. z \in Nat /\ z * m <= u /\ u < z * m + m
  BY <1>6
<1> HIDE DEF z
<1>9. z = r
  <2>1. z < r + 1
    <3>1. z >= r + 1 => z * m >= (r + 1) * m
      BY <1>2, <1>6, <1>8
    <3>2. (r + 1) * m = r * m + m /\ z * m \in Nat
      BY <1>2, <1>6, <1>8
    <3> QED
      BY <1>2, <1>6, <1>7, <1>8, <3>1, <3>2
  <2>2. r < z + 1
    <3>1. r >= z + 1 => r * m >= (z + 1) * m
      BY <1>2, <1>6, <1>8
    <3>2. (z + 1) * m = z * m + m /\ z * m \in Nat
      BY <1>2, <1>6, <1>8
    <3> QED
      BY <1>2, <1>6, <1>7, <1>8, <3>1, <3>2
  <2> QED
    BY <1>2, <1>8, <2>1, <2>2
<1> QED
  BY <1>9 DEF z, m, r, q

\* A quotient is a number, and 0 when the divisor is the larger one.
LEMMA DivType ==
  ASSUME NEW u \in Nat, NEW p \in Nat \ {0}
  PROVE  u \div p \in Nat /\ (u < p => u \div p = 0)
<1> DEFINE q == u \div p
<1>1. q \in Nat /\ q * p <= u
  OBVIOUS
<1> HIDE DEF q
<1>2. q # 0 => q * p >= p
  BY <1>1
<1> QED
  BY <1>1, <1>2 DEF q

\* The next digit of an index, in units of the dimensions after it.
DigitAdds(u, p, s, w) ==
  w * ((u \div (s * p)) * (s * p)) + ((u \div p) % s) * (p * w) = w * ((u \div p) * p)

\* Adding it moves from the multiples of one place to those of the next.
LEMMA NextDigit ==
  ASSUME NEW u \in Nat, NEW p \in Nat \ {0}, NEW s \in Nat \ {0}, NEW w \in Nat
  PROVE  DigitAdds(u, p, s, w)
<1> DEFINE q == u \div p
           r == q \div s
           m == q % s
<1>1. q \in Nat
  OBVIOUS
<1>2. u \div (s * p) = r
  BY DivTwice
<1> HIDE DEF q
<1>3. r \in Nat /\ m \in Nat /\ q = s * r + m
  BY <1>1
<1> HIDE DEF r, m
<1>4. q * p = r * (s * p) + m * p
  BY <1>1, <1>3
<1>5. w * (q * p) = w * (r * (s * p)) + w * (m * p)
  <2> DEFINE a == r * (s * p)
             b == m * p
  <2>1. a \in Nat /\ b \in Nat
    BY <1>3
  <2>2. q * p = a + b
    BY <1>4
  <2> HIDE DEF a, b
  <2>3. w * (a + b) = w * a + w * b
    BY <2>1
  <2> QED
    BY <2>2, <2>3 DEF a, b
<1>6. w * (m * p) = m * (p * w)
  BY <1>3
<1> QED
  BY <1>2, <1>5, <1>6 DEF q, r, m, DigitAdds

\* In row-major order, the row of an outer index begins after the rows before it.
LEMMA RowBegins ==
  ASSUME NEW sizes \in Seq(Nat), Len(sizes) >= 1,
         NEW u \in Nat, u < Inner(sizes, 0, Len(sizes) - 1)
  PROVE  Offset(RowMajor(sizes), Unravel(sizes, u)) = u * sizes[Len(sizes)]
<1> DEFINE n == Len(sizes) - 1
           v == Unravel(sizes, u)
           P(d) == Inner(sizes, d, n)
           w == sizes[n + 1]
<1>1. n \in Nat /\ Len(sizes) = n + 1 /\ DOMAIN sizes = 1..(n + 1)
      /\ \A d \in 1..(n + 1) : sizes[d] \in Nat
  OBVIOUS
<1>2. v = [d \in 1..n |-> (u \div P(d)) % sizes[d]]
  BY DEF Unravel
<1>3. RowMajor(sizes) = [d \in 1..(n + 1) |-> Inner(sizes, d, n + 1)]
  BY <1>1 DEF RowMajor
<1>4. u < P(0)
  OBVIOUS
<1> HIDE DEF n, v
<1>5. \A d \in 0..n : P(d) \in Nat \ {0}
  <2>1. \A i \in 1..n : sizes[i] \in Nat
    BY <1>1
  <2>2. P(0) > 0
    <3>1. \A i \in (0 + 1)..n : sizes[i] \in Nat
      BY <1>1
    <3>2. P(0) \in Nat
      BY <1>1, <3>1, InnerType
    <3> QED
      BY <1>4, <3>2
  <2> QED
    BY <1>1, <2>1, <2>2, InnerPositive
<1>6. \A d \in 1..n : P(d - 1) = sizes[d] * P(d) /\ sizes[d] \in Nat \ {0}
  <2> SUFFICES ASSUME NEW d \in 1..n
               PROVE  P(d - 1) = sizes[d] * P(d) /\ sizes[d] \in Nat \ {0}
    OBVIOUS
  <2>1. d \in Nat \ {0} /\ d <= n /\ \A i \in d..n : sizes[i] \in Nat
    BY <1>1
  <2>2. P(d - 1) = sizes[d] * P(d)
    BY <1>1, <2>1, InnerFront
  <2>3. P(d - 1) \in Nat \ {0} /\ P(d) \in Nat /\ sizes[d] \in Nat
    BY <1>1, <1>5, <2>1
  <2> QED
    BY <2>2, <2>3
<1>7. \A d \in 1..n : Inner(sizes, d, n + 1) = P(d) * w
  <2> SUFFICES ASSUME NEW d \in 1..n PROVE Inner(sizes, d, n + 1) = P(d) * w
    OBVIOUS
  <2>1. d \in Nat /\ d <= n
    BY <1>1
  <2> QED
    BY <1>1, <2>1, InnerSteps
<1>8. P(n) = 1
  BY <1>1, InnerSteps
<1> HIDE DEF P
<1>9. v \in [1..n -> Nat] /\ Len(v) = n
  <2>1. \A d \in 1..n : (u \div P(d)) % sizes[d] \in Nat
    <3> SUFFICES ASSUME NEW d \in 1..n PROVE (u \div P(d)) % sizes[d] \in Nat
      OBVIOUS
    <3>1. P(d) \in Nat \ {0} /\ sizes[d] \in Nat \ {0}
      BY <1>1, <1>5, <1>6
    <3>2. u \div P(d) \in Nat
      BY <3>1, DivType
    <3> QED
      BY <3>1, <3>2
  <2>2. v \in [1..n -> Nat]
    BY <1>2, <2>1
  <2> QED
    BY <1>1, <2>2, VectorLen
<1>10. PICK S : /\ S[0] = 0
                /\ \A d \in 1..n : S[d] = S[d - 1] + v[d] * RowMajor(sizes)[d]
                /\ Offset(RowMajor(sizes), v) = S[n]
  BY <1>1, <1>9, OffsetSteps
<1> DEFINE T == {d \in Nat : d <= n => S[d] = w * ((u \div P(d)) * P(d))}
<1>11. 0 \in T
  <2>1. P(0) \in Nat \ {0} /\ w \in Nat
    BY <1>1, <1>5
  <2>2. u \div P(0) = 0
    BY <1>4, <2>1, DivType
  <2>3. w * ((u \div P(0)) * P(0)) = 0
    BY <2>1, <2>2
  <2> QED
    BY <1>10, <2>3
<1>12. ASSUME NEW d \in Nat, d >= 0, d \in T PROVE d + 1 \in T
  <2>1. CASE d + 1 <= n
    <3>1. d + 1 \in 1..n /\ (d + 1) - 1 = d /\ d <= n /\ d + 1 \in 1..(n + 1)
      BY <1>1, <2>1
    <3>2. S[d] = w * ((u \div P(d)) * P(d))
      BY <1>12, <3>1
    <3>3. P(d) = sizes[d + 1] * P(d + 1) /\ sizes[d + 1] \in Nat \ {0}
      BY <1>6, <3>1
    <3>4. RowMajor(sizes)[d + 1] = P(d + 1) * w
      BY <1>3, <1>7, <3>1
    <3>5. v[d + 1] = (u \div P(d + 1)) % sizes[d + 1]
      BY <1>2, <3>1
    <3>6. P(d + 1) \in Nat \ {0} /\ w \in Nat
      BY <1>1, <1>5, <3>1
    <3>7. S[d + 1] = S[d] + v[d + 1] * RowMajor(sizes)[d + 1]
      BY <1>10, <3>1
    <3>8. S[d + 1] = w * ((u \div P(d + 1)) * P(d + 1))
      <4>1. PICK p \in Nat \ {0} : p = P(d + 1)
        BY <3>6
      <4>2. PICK k \in Nat \ {0} : k = sizes[d + 1]
        BY <3>3
      <4>3. PICK y \in Nat : y = w
        BY <3>6
      <4>4. DigitAdds(u, p, k, y)
        BY NextDigit
      <4>5. y * ((u \div (k * p)) * (k * p)) + ((u \div p) % k) * (p * y) = y * ((u \div p) * p)
        BY <4>4 DEF DigitAdds
      <4>6. S[d] = y * ((u \div (k * p)) * (k * p))
        BY <3>2, <3>3, <4>1, <4>2, <4>3
      <4>7. v[d + 1] * RowMajor(sizes)[d + 1] = ((u \div p) % k) * (p * y)
        BY <3>4, <3>5, <4>1, <4>2, <4>3
      <4> QED
        BY <3>7, <4>1, <4>3, <4>5, <4>6, <4>7
    <3> QED
      BY <3>8
  <2>2. CASE ~ (d + 1 <= n)
    BY <2>2
  <2> QED
    BY <2>1, <2>2
<1> HIDE DEF T
<1>13. n \in T
  <2>1. 0 \in Nat /\ n >= 0
    BY <1>1
  <2> QED
    BY <1>1, <1>11, <1>12, <2>1, Upwards
<1>14. S[n] = w * (u * 1)
  <2>1. S[n] = w * ((u \div P(n)) * P(n))
    BY <1>1, <1>13 DEF T
  <2>2. u \div 1 = u
    OBVIOUS
  <2> QED
    BY <1>8, <2>1, <2>2
<1>15. w \in Nat /\ w * (u * 1) = u * w
  BY <1>1
<1> QED
  BY <1>1, <1>10, <1>14, <1>15 DEF v

\* The last dimension is added last.
LEMMA OffsetLast ==
  ASSUME NEW strides, NEW n \in Nat, NEW v \in [1..n -> Nat], NEW e \in Nat
  PROVE  Offset(strides, [d \in 1..(n + 1) |-> IF d = n + 1 THEN e ELSE v[d]])
           = Offset(strides, v) + e * strides[n + 1]
<1> DEFINE x == [d \in 1..(n + 1) |-> IF d = n + 1 THEN e ELSE v[d]]
<1>1. Len(v) = n
  BY VectorLen
<1>2. Len(x) = n + 1
  <2>1. x \in [1..(n + 1) -> Nat]
    BY (\A d \in 1..(n + 1) : d # n + 1 => d \in 1..n)
  <2> HIDE DEF x
  <2> QED
    BY <2>1, VectorLen
<1>3. (\A d \in 1..n : x[d] = v[d]) /\ x[n + 1] = e
  OBVIOUS
<1> HIDE DEF x
<1>4. PICK S : /\ S[0] = 0
               /\ \A d \in 1..n : S[d] = S[d - 1] + v[d] * strides[d]
               /\ Offset(strides, v) = S[n]
  BY <1>1, OffsetSteps
<1>5. PICK R : /\ R[0] = 0
               /\ \A d \in 1..(n + 1) : R[d] = R[d - 1] + x[d] * strides[d]
               /\ Offset(strides, x) = R[n + 1]
  BY <1>2, OffsetSteps
<1> DEFINE T == {d \in Nat : d <= n => R[d] = S[d]}
<1>6. 0 \in T
  BY <1>4, <1>5
<1>7. ASSUME NEW d \in Nat, d >= 0, d \in T PROVE d + 1 \in T
  <2>1. CASE d + 1 <= n
    <3>1. d + 1 \in 1..n /\ d + 1 \in 1..(n + 1) /\ (d + 1) - 1 = d
      BY <2>1
    <3>2. R[d] = S[d] /\ x[d + 1] = v[d + 1]
      BY <1>3, <1>7, <2>1, <3>1
    <3>3. S[d + 1] = S[(d + 1) - 1] + v[d + 1] * strides[d + 1]
      BY <1>4, <3>1
    <3>4. R[d + 1] = R[(d + 1) - 1] + x[d + 1] * strides[d + 1]
      BY <1>5, <3>1
    <3>5. R[d + 1] = S[d + 1]
      BY <3>1, <3>2, <3>3, <3>4
    <3> QED
      BY <3>5
  <2>2. CASE ~ (d + 1 <= n)
    BY <2>2
  <2> QED
    BY <2>1, <2>2
<1> HIDE DEF T
<1>8. R[n] = S[n]
  <2>1. 0 \in Nat /\ n >= 0
    OBVIOUS
  <2>2. n \in T
    BY <1>6, <1>7, <2>1, Upwards
  <2> QED
    BY <2>2 DEF T
<1>9. R[n + 1] = R[n] + x[n + 1] * strides[n + 1]
  <2>1. n + 1 \in 1..(n + 1) /\ (n + 1) - 1 = n
    OBVIOUS
  <2> QED
    BY <1>5, <2>1
<1> QED
  BY <1>3, <1>4, <1>5, <1>8, <1>9 DEF x

\* An offset of numbers is a number.
LEMMA OffsetType ==
  ASSUME NEW n \in Nat, NEW v \in [1..n -> Nat], NEW strides, \A d \in 1..n : strides[d] \in Nat
  PROVE  Offset(strides, v) \in Nat
<1>1. Len(v) = n
  BY VectorLen
<1>2. PICK S : /\ S[0] = 0
               /\ \A d \in 1..n : S[d] = S[d - 1] + v[d] * strides[d]
               /\ Offset(strides, v) = S[n]
  BY <1>1, OffsetSteps
<1> DEFINE T == {d \in Nat : d <= n => S[d] \in Nat}
<1>3. 0 \in T
  BY <1>2
<1>4. ASSUME NEW d \in Nat, d >= 0, d \in T PROVE d + 1 \in T
  <2>1. CASE d + 1 <= n
    <3>1. d + 1 \in 1..n /\ (d + 1) - 1 = d /\ S[d] \in Nat
      BY <1>4, <2>1
    <3>2. v[d + 1] \in Nat /\ strides[d + 1] \in Nat
      BY <3>1
    <3>3. v[d + 1] * strides[d + 1] \in Nat
      BY <3>2
    <3> QED
      BY <1>2, <3>1, <3>3
  <2>2. CASE ~ (d + 1 <= n)
    BY <2>2
  <2> QED
    BY <2>1, <2>2
<1> HIDE DEF T
<1>5. n \in T
  <2>1. 0 \in Nat /\ n >= 0
    OBVIOUS
  <2> QED
    BY <1>3, <1>4, <2>1, Upwards
<1> QED
  BY <1>2, <1>5 DEF T

\* The place of an element of a tensor of four dimensions.
LEMMA OffsetOfFour ==
  ASSUME NEW strides, \A d \in 1..4 : strides[d] \in Nat,
         NEW b \in Nat, NEW h \in Nat, NEW s \in Nat, NEW e \in Nat
  PROVE  Offset(strides, <<b, h, s, e>>)
           = ((b * strides[1] + h * strides[2]) + s * strides[3]) + e * strides[4]
<1> DEFINE v == <<b, h, s, e>>
<1>1. Len(v) = 4 /\ Len(v) \in Nat /\ v[1] = b /\ v[2] = h /\ v[3] = s /\ v[4] = e
  OBVIOUS
<1> HIDE DEF v
<1>2. PICK S : /\ S[0] = 0
               /\ \A d \in 1..Len(v) : S[d] = S[d - 1] + v[d] * strides[d]
               /\ Offset(strides, v) = S[Len(v)]
  BY <1>1, OffsetSteps
<1>3. S[1] = S[0] + b * strides[1]
  BY <1>1, <1>2
<1>4. S[2] = S[1] + h * strides[2]
  BY <1>1, <1>2
<1>5. S[3] = S[2] + s * strides[3]
  BY <1>1, <1>2
<1>6. S[4] = S[3] + e * strides[4]
  BY <1>1, <1>2
<1>7. /\ b * strides[1] \in Nat /\ h * strides[2] \in Nat
      /\ s * strides[3] \in Nat /\ e * strides[4] \in Nat
  BY (1 \in 1..4 /\ 2 \in 1..4 /\ 3 \in 1..4 /\ 4 \in 1..4)
<1>8. S[1] = b * strides[1]
  BY <1>2, <1>3, <1>7
<1> QED
  BY <1>2, <1>4, <1>5, <1>6, <1>8 DEF v

\* The two half vectors of a block stay below the number of elements ...
LEMMA BlockRange ==
  ASSUME NEW b \in Nat, NEW n \in Nat
  PROVE  \A e : e \in Block(2 * Lanes * b, n) <=>
                  e \in Nat /\ 2 * Lanes * b <= e /\ e < 2 * Lanes * (b + 1) /\ e < n
<1>1. Lanes \in Nat \ {0}
  BY KernelsAssumption
<1> DEFINE i == 2 * Lanes * b
<1>2. i \in Nat /\ 2 * Lanes * (b + 1) = i + Lanes + Lanes
  BY <1>1
<1> HIDE DEF i
<1>3. \A e : e \in Block(i, n) <=> e \in Nat /\ i <= e /\ e < i + Lanes + Lanes /\ e < n
  BY <1>1, <1>2 DEF Block, Half
<1> QED
  BY <1>2, <1>3 DEF i

\* ... so that the blocks of two units have no element in common.
LEMMA BlocksApart ==
  ASSUME NEW b \in Nat, NEW d \in Nat, NEW n \in Nat, b # d
  PROVE  Block(2 * Lanes * b, n) \cap Block(2 * Lanes * d, n) = {}
<1>1. Lanes \in Nat \ {0}
  BY KernelsAssumption
<1>2. ASSUME NEW x \in Nat, NEW y \in Nat, x < y
      PROVE  2 * Lanes * (x + 1) <= 2 * Lanes * y /\ 2 * Lanes * (x + 1) \in Nat /\ 2 * Lanes * y \in Nat
  BY <1>1, <1>2
<1>3. ASSUME NEW e, NEW x \in Nat, NEW y \in Nat, x < y,
             e \in Block(2 * Lanes * x, n), e \in Block(2 * Lanes * y, n)
      PROVE  FALSE
  <2>1. e \in Nat /\ e < 2 * Lanes * (x + 1) /\ 2 * Lanes * y <= e
    BY <1>3, BlockRange
  <2>2. 2 * Lanes * (x + 1) <= 2 * Lanes * y /\ 2 * Lanes * (x + 1) \in Nat /\ 2 * Lanes * y \in Nat
    BY <1>2, <1>3
  <2> QED
    BY <2>1, <2>2
<1>4. b < d \/ d < b
  OBVIOUS
<1> QED
  BY <1>3, <1>4

\* The blocks of a row cover it.
LEMMA SweepIs ==
  ASSUME NEW n \in Nat
  PROVE  Sweep(n) = 0..(n - 1)
<1>1. Lanes \in Nat \ {0}
  BY KernelsAssumption
<1> DEFINE m == 2 * Lanes
<1>2. m \in Nat \ {0}
  BY <1>1
<1>3. ASSUME NEW e \in Sweep(n) PROVE e \in 0..(n - 1)
  <2>1. PICK b \in 0..(Blocks(n) - 1) : e \in Block(2 * Lanes * b, n)
    BY DEF Sweep
  <2>2. b \in Nat
    BY <2>1
  <2> QED
    BY <2>1, <2>2, BlockRange
<1>4. ASSUME NEW e \in 0..(n - 1) PROVE e \in Sweep(n)
  <2>1. PICK q \in Nat : q * m <= e /\ e < q * m + m
    <3> HIDE DEF m
    <3>1. e \div m \in Nat /\ (e \div m) * m <= e /\ e < (e \div m) * m + m
      BY <1>2
    <3> QED
      BY <3>1
  <2>2. n \in Nat \ {0} /\ Blocks(n) \in Nat \ {0} /\ n <= Blocks(n) * m
    BY <1>2, DivUpCovers DEF Blocks
  <2>3. q < Blocks(n)
    <3> DEFINE k == Blocks(n)
    <3>1. k \in Nat /\ q * m < k * m
      BY <1>2, <2>1, <2>2
    <3> HIDE DEF m, k
    <3>2. q >= k => q * m >= k * m
      BY <1>2, <3>1
    <3>3. q * m \in Nat /\ k * m \in Nat
      BY <1>2, <3>1
    <3>4. q < k
      BY <3>1, <3>2, <3>3
    <3> QED
      BY <3>4 DEF k
  <2>4. q \in 0..(Blocks(n) - 1)
    BY <2>2, <2>3
  <2>5. 2 * Lanes * q = q * m /\ 2 * Lanes * (q + 1) = q * m + m
    BY <1>1
  <2>6. e \in Block(2 * Lanes * q, n)
    BY <2>1, <2>5, BlockRange
  <2> QED
    BY <2>4, <2>6 DEF Sweep
<1> QED
  BY <1>3, <1>4

-----------------------------------------------------------------------------
(* What belongs to one unit of an operator: all the places it writes, and those *)
(* of the buffers written that it reads.                                       *)

BlockOwn(c, u)  == {Item(c.out, e) : e \in Block(2 * Lanes * u, Numel(c.ins[1].size))}
SpanOwn(c, w, u) == {Item(c.out, u * w + e) : e \in 0..(w - 1)}
HeadOwn(c, u)   ==
  {Item(c.out, Offset(c.out.stride, <<u \div c.out.size[2], u % c.out.size[2], p[1], p[2]>>)) :
     p \in (0..(c.out.size[3] - 1)) \X (0..(c.out.size[4] - 1))}
RowOwn(c, tb, u) ==
  {<<"rms", u>>} \cup
  {Item(c.out, Offset(c.out.stride, tb[u + 1].of) + e) : e \in 0..(Width(c.out) - 1)}

Span(c) ==
  IF c.name = "random_uniform" THEN 4
  ELSE IF ~ Strided(c) THEN c.out.size[2]
  ELSE IF c.out.size = <<>> THEN 1 ELSE Width(c.out)
OwnOf(c, tb, u) ==
  IF c.name \in Flat THEN BlockOwn(c, u)
  ELSE IF c.name \in Rope THEN HeadOwn(c, u)
  ELSE IF c.name \in Rms THEN RowOwn(c, tb, u)
  ELSE SpanOwn(c, Span(c), u)

\* What the operators accept, spelled out.
LEMMA CallFacts ==
  ASSUME NEW c \in Calls
  PROVE  /\ c.out.size \in Seq(Nat) /\ c.out.stride \in Seq(Nat)
         /\ Len(c.out.size) = Len(c.out.stride) /\ c.out.at # "rms"
         /\ \A k \in DOMAIN c.ins :
              /\ c.ins[k].size \in Seq(Nat) /\ c.ins[k].stride \in Seq(Nat)
              /\ Len(c.ins[k].size) = Len(c.ins[k].stride) /\ c.ins[k].at # "rms"
         /\ Units(c) \in Nat
         /\ Strided(c) => StridedAccepts(c) /\ \A k \in DOMAIN c.ins : Apart(c, c.ins[k])
         /\ c.name \in Rope => RopeAccepts(c)
         /\ c.name \in Rms  => RmsAccepts(c) /\ KeyOf(c) \in Keys
         /\ c.name = "act_scale_pack" => PackAccepts(c)
<1>1. Accepts(c) /\ Units(c) \in Nat /\ (c.name \in Rms => KeyOf(c) \in Keys)
  BY CallsAssumption
<1>2. Strided(c) => StridedAccepts(c) /\ \A k \in DOMAIN c.ins : Apart(c, c.ins[k])
  BY <1>1 DEF Accepts, StridedAccepts
<1> QED
  BY <1>1, <1>2 DEF Accepts, IsTensor

\* Each operator has the operands that its kernel reads.
LEMMA CallArity ==
  ASSUME NEW c \in Calls
  PROVE  /\ c.name # "random_uniform" => 1 \in DOMAIN c.ins
         /\ c.name \in Rope \cup {"act_scale_pack"} => DOMAIN c.ins = 1..2
         /\ c.name = "rmsnorm_forward" => DOMAIN c.ins \in {1..1, 1..2}
         /\ c.name = "rmsnorm_backward" => DOMAIN c.ins = 1..3
         /\ c.name = "rmsnorm_forward" => DOMAIN c.ins = 1..Len(c.ins) /\ Len(c.ins) \in {1, 2}
<1>1. PICK n \in Arity(c) : DOMAIN c.ins = 1..n /\ n = Len(c.ins)
  BY CallsAssumption
<1>2. c.name \in Rope \cup {"act_scale_pack"} => n = 2
  BY <1>1 DEF Arity, Rope
<1>3. c.name = "rmsnorm_forward" => n \in {1, 2}
  BY <1>1 DEF Arity
<1>4. c.name = "rmsnorm_backward" => n = 3
  BY <1>1 DEF Arity
<1>5. c.name # "random_uniform" => n \in {1, 2, 3}
  BY <1>1 DEF Arity
<1>6. c.name = "rmsnorm_forward" => DOMAIN c.ins = 1..Len(c.ins) /\ Len(c.ins) \in {1, 2}
  BY <1>1, <1>3
<1>7. DOMAIN c.ins = 1..n
  BY <1>1
<1>8. n \in {1, 2, 3} => 1 \in 1..n
  OBVIOUS
<1>9. n \in {1, 2} => 1..n \in {1..1, 1..2}
  OBVIOUS
<1> QED
  BY <1>2, <1>3, <1>4, <1>5, <1>6, <1>7, <1>8, <1>9, Zenon

\* The number of elements is a number.
LEMMA NumelType ==
  ASSUME NEW sizes \in Seq(Nat)
  PROVE  Numel(sizes) \in Nat
<1>1. Len(sizes) \in Nat /\ 0 \in Nat /\ 0 <= Len(sizes)
      /\ \A i \in (0 + 1)..Len(sizes) : sizes[i] \in Nat
  OBVIOUS
<1> QED
  BY <1>1, InnerType DEF Numel

\* A span ends where the next one begins.
LEMMA SpansApart ==
  ASSUME NEW c, NEW w \in Nat, NEW u \in Nat, NEW v \in Nat, u # v
  PROVE  SpanOwn(c, w, u) \cap SpanOwn(c, w, v) = {}
<1>1. ASSUME NEW x \in Nat, NEW y \in Nat, x < y, NEW d \in 0..(w - 1), NEW e \in 0..(w - 1)
      PROVE  x * w + d # y * w + e
  <2>1. (x + 1) * w <= y * w /\ (x + 1) * w = x * w + w /\ x * w \in Nat /\ y * w \in Nat
    BY <1>1
  <2> QED
    BY <2>1
<1>2. u < v \/ v < u
  OBVIOUS
<1>3. \A a : a \in SpanOwn(c, w, u) => \E d \in 0..(w - 1) : a = <<c.out.at, u * w + d>>
  BY DEF SpanOwn, Item
<1>4. \A a : a \in SpanOwn(c, w, v) => \E d \in 0..(w - 1) : a = <<c.out.at, v * w + d>>
  BY DEF SpanOwn, Item
<1> SUFFICES ASSUME NEW a, a \in SpanOwn(c, w, u), a \in SpanOwn(c, w, v) PROVE FALSE
  OBVIOUS
<1>5. PICK d \in 0..(w - 1) : a = <<c.out.at, u * w + d>>
  BY <1>3
<1>6. PICK e \in 0..(w - 1) : a = <<c.out.at, v * w + e>>
  BY <1>4
<1>7. u * w + d = v * w + e
  BY <1>5, <1>6
<1> QED
  BY <1>1, <1>2, <1>7

\* A unit's batch and head.
BatchAndHead(u, b, h) ==
  /\ h > 0 /\ u \div h \in 0..(b - 1) /\ u % h \in 0..(h - 1)
  /\ u = h * (u \div h) + (u % h)

\* They are below the number of batches and of heads, and determine the unit.
LEMMA DivBelow ==
  ASSUME NEW u \in Nat, NEW b \in Nat, NEW h \in Nat, u < b * h
  PROVE  BatchAndHead(u, b, h)
<1>1. h # 0
  <2>1. h = 0 => b * h = 0
    OBVIOUS
  <2> QED
    BY <2>1
<1> DEFINE q == u \div h
           r == u % h
<1>2. q \in Nat /\ r \in 0..(h - 1) /\ u = h * q + r
  BY <1>1
<1> HIDE DEF q, r
<1>3. q < b
  <2>1. q >= b => h * q >= b * h
    BY <1>2
  <2>2. h * q \in Nat /\ b * h \in Nat
    BY <1>2
  <2> QED
    BY <1>2, <2>1, <2>2
<1> QED
  BY <1>1, <1>2, <1>3 DEF q, r, BatchAndHead

\* A sequence is a vector of its length.
LEMMA SeqIsVector ==
  ASSUME NEW X, NEW v \in Seq(X), NEW n, Len(v) = n
  PROVE  DOMAIN v = 1..n /\ v \in [1..n -> X] /\ \A d \in 1..n : v[d] \in X
<1>1. DOMAIN v = 1..Len(v) /\ v \in [1..Len(v) -> X]
  OBVIOUS
<1> QED
  BY <1>1

\* Four numbers are a vector.
LEMMA VectorOfFour ==
  ASSUME NEW b \in Nat, NEW h \in Nat, NEW s \in Nat, NEW e \in Nat
  PROVE  /\ <<b, h, s, e>> \in [1..4 -> Nat]
         /\ <<b, h, s, e>>[1] = b /\ <<b, h, s, e>>[2] = h
         /\ <<b, h, s, e>>[3] = s /\ <<b, h, s, e>>[4] = e
<1>1. <<b, h, s, e>> \in Seq(Nat) /\ Len(<<b, h, s, e>>) = 4
  OBVIOUS
<1>2. <<b, h, s, e>> \in [1..4 -> Nat]
  BY <1>1, SeqIsVector
<1> QED
  BY <1>2

\* Four sizes are numbers.
LEMMA SizesOfFour ==
  ASSUME NEW z \in Seq(Nat), Len(z) = 4
  PROVE  /\ DOMAIN z = 1..4 /\ \A d \in 1..4 : z[d] \in Nat
         /\ z[1] \in Nat /\ z[2] \in Nat /\ z[3] \in Nat /\ z[4] \in Nat
<1>1. DOMAIN z = 1..4 /\ \A d \in 1..4 : z[d] \in Nat
  BY SeqIsVector
<1>2. 1 \in 1..4 /\ 2 \in 1..4 /\ 3 \in 1..4 /\ 4 \in 1..4
  OBVIOUS
<1> QED
  BY <1>1, <1>2

\* The index vectors of a tensor of four dimensions.
LEMMA FourVectors ==
  ASSUME NEW t, t.size \in Seq(Nat), Len(t.size) = 4,
         NEW b \in Nat, NEW h \in Nat, NEW s \in Nat, NEW e \in Nat,
         b < t.size[1], h < t.size[2], s < t.size[3], e < t.size[4]
  PROVE  <<b, h, s, e>> \in All(t)
<1>1. DOMAIN t.size = 1..4 /\ \A d \in 1..4 : t.size[d] \in Nat
  BY SizesOfFour
<1>2. PICK v : v = <<b, h, s, e>>
  OBVIOUS
<1>3. v \in [1..4 -> Nat] /\ v[1] = b /\ v[2] = h /\ v[3] = s /\ v[4] = e
  BY <1>2, VectorOfFour
<1>4. \A d \in 1..4 : v[d] < t.size[d]
  <2>1. \A d \in 1..4 : d = 1 \/ d = 2 \/ d = 3 \/ d = 4
    OBVIOUS
  <2> QED
    BY <1>3, <2>1
<1>5. v \in Below(t.size, 1..4)
  BY <1>1, <1>3, <1>4, BelowIs
<1> QED
  BY <1>1, <1>2, <1>5 DEF All

\* A unit, a row of it and an element of the row are an index vector.
LEMMA VectorsOfUnit ==
  ASSUME NEW t, t.size \in Seq(Nat), Len(t.size) = 4,
         NEW u \in Nat, BatchAndHead(u, t.size[1], t.size[2]),
         NEW p \in (0..(t.size[3] - 1)) \X (0..(t.size[4] - 1))
  PROVE  <<u \div t.size[2], u % t.size[2], p[1], p[2]>> \in All(t)
<1>1. PICK B \in Nat, H \in Nat, S \in Nat, D \in Nat :
        B = t.size[1] /\ H = t.size[2] /\ S = t.size[3] /\ D = t.size[4]
  <2>1. t.size[1] \in Nat /\ t.size[2] \in Nat /\ t.size[3] \in Nat /\ t.size[4] \in Nat
    BY SizesOfFour
  <2> QED
    BY <2>1
<1>2. BatchAndHead(u, B, H)
  BY <1>1
<1>3. u \div H \in Nat /\ u \div H < B /\ u % H \in Nat /\ u % H < H
  BY <1>2 DEF BatchAndHead
<1>4. p \in (0..(S - 1)) \X (0..(D - 1))
  BY <1>1
<1>5. p[1] \in Nat /\ p[1] < S /\ p[2] \in Nat /\ p[2] < D
  BY <1>4
<1> QED
  BY <1>1, <1>3, <1>5, FourVectors

\* The rows of two heads have no element in common.
LEMMA HeadsApart ==
  ASSUME NEW c \in Calls, c.name \in Rope,
         NEW u \in Nat, NEW w \in Nat, u < Units(c), w < Units(c), u # w
  PROVE  HeadOwn(c, u) \cap HeadOwn(c, w) = {}
<1> DEFINE B == c.out.size[1]
           H == c.out.size[2]
<1>1. /\ c.out.size \in Seq(Nat) /\ Len(c.out.size) = 4 /\ NoOverlap(c.out)
      /\ c.ins[1].size = c.out.size
  BY CallFacts DEF RopeAccepts, LikeOutput
<1>2. Units(c) = B * H /\ B \in Nat /\ H \in Nat
  <2>1. /\ c.name \notin Flat /\ c.name # "random_uniform" /\ ~ Strided(c)
        /\ c.name \notin Rms /\ c.name # "act_scale_pack"
    BY DEF Rope, Flat, Silu, Strided, Rms
  <2>2. Units(c) = c.ins[1].size[1] * c.ins[1].size[2]
    BY <2>1 DEF Units
  <2>3. 1 \in 1..4 /\ 2 \in 1..4 /\ DOMAIN c.out.size = 1..4
    BY <1>1
  <2> QED
    BY <1>1, <2>2, <2>3
<1>3. BatchAndHead(u, B, H) /\ BatchAndHead(w, B, H)
  BY <1>2, DivBelow
<1> DEFINE V(x, p) == <<x \div H, x % H, p[1], p[2]>>
           R == (0..(c.out.size[3] - 1)) \X (0..(c.out.size[4] - 1))
<1>4. ASSUME NEW p \in R, NEW q \in R, Offset(c.out.stride, V(u, p)) = Offset(c.out.stride, V(w, q))
      PROVE  FALSE
  <2>1. V(u, p) \in All(c.out) /\ V(w, q) \in All(c.out)
    BY <1>1, <1>2, <1>3, VectorsOfUnit
  <2>2. V(u, p) = V(w, q)
    BY <1>1, <1>4, <2>1 DEF NoOverlap
  <2>3. u \div H = w \div H /\ u % H = w % H
    BY <2>2
  <2> QED
    BY <1>2, <1>3, <2>3 DEF BatchAndHead
<1>5. \A x, a : a \in HeadOwn(c, x) => \E p \in R : a = <<c.out.at, Offset(c.out.stride, V(x, p))>>
  BY DEF HeadOwn, Item
<1> HIDE DEF V, R
<1> SUFFICES ASSUME NEW a, a \in HeadOwn(c, u), a \in HeadOwn(c, w) PROVE FALSE
  OBVIOUS
<1>6. PICK p \in R : a = <<c.out.at, Offset(c.out.stride, V(u, p))>>
  BY <1>5
<1>7. PICK q \in R : a = <<c.out.at, Offset(c.out.stride, V(w, q))>>
  BY <1>5
<1> QED
  BY <1>4, <1>6, <1>7

\* One more at the end of a sequence.
LEMMA Joined ==
  ASSUME NEW X, NEW s \in Seq(X), NEW b \in X
  PROVE  /\ s \o <<b>> \in Seq(X) /\ Len(s \o <<b>>) = Len(s) + 1
         /\ \A i \in 1..Len(s) : (s \o <<b>>)[i] = s[i]
         /\ (s \o <<b>>)[Len(s) + 1] = b
<1>1. <<b>> \in Seq(X) /\ Len(<<b>>) = 1 /\ <<b>>[1] = b
  OBVIOUS
<1> QED
  BY <1>1

\* The layouts in the key of a table are those of the input, of the gradient that
\* the backward has, and of the output, in this order.
LEMMA KeyStrides ==
  ASSUME NEW c \in Calls, c.name \in Rms
  PROVE  /\ KeyOf(c) \in Keys /\ KeyOf(c).sizes = c.out.size /\ c.ins[1].size = c.out.size
         /\ LET z == KeyOf(c).strides
            IN  /\ c.name = "rmsnorm_forward" =>
                     DOMAIN z = 1..2 /\ z[1] = c.ins[1].stride /\ z[2] = c.out.stride
                /\ c.name = "rmsnorm_backward" =>
                     /\ DOMAIN z = 1..3 /\ z[1] = c.ins[1].stride
                     /\ z[2] = c.ins[2].stride /\ z[3] = c.out.stride
         /\ Units(c) = Rows(KeyOf(c))
<1>1. RmsAccepts(c) /\ KeyOf(c) \in Keys
  BY CallFacts
<1>2. 1 \in DOMAIN c.ins
  BY CallArity DEF Rms
<1>3. c.ins[1].size = c.out.size
  BY <1>1, <1>2 DEF RmsAccepts, LikeOutput
<1>4. \A k \in DOMAIN c.ins : c.ins[k].stride \in Seq(Nat)
  BY CallFacts
<1>5. c.out.stride \in Seq(Nat)
  BY CallFacts
<1> DEFINE X == Seq(Nat)
           a == c.ins[1].stride
           b == c.out.stride
           z == KeyOf(c).strides
<1>6. c.name = "rmsnorm_forward" => DOMAIN z = 1..2 /\ z[1] = a /\ z[2] = b
  <2> SUFFICES ASSUME c.name = "rmsnorm_forward" PROVE DOMAIN z = 1..2 /\ z[1] = a /\ z[2] = b
    OBVIOUS
  <2>1. z = (<<a>> \o <<>>) \o <<b>>
    BY DEF KeyOf
  <2>2. a \in X /\ b \in X
    BY <1>2, <1>4, <1>5
  <2> HIDE DEF X, a, b, z
  <2>3. <<a>> \o <<>> \in Seq(X) /\ Len(<<a>> \o <<>>) = 1 /\ (<<a>> \o <<>>)[1] = a
    BY <2>2
  <2>4. z \in Seq(X) /\ Len(z) = 2 /\ z[1] = a /\ z[2] = b
    BY <2>1, <2>2, <2>3, Joined
  <2> QED
    BY <2>4, SeqIsVector
<1>7. c.name = "rmsnorm_backward" =>
        DOMAIN z = 1..3 /\ z[1] = a /\ z[2] = c.ins[2].stride /\ z[3] = b
  <2> DEFINE d == c.ins[2].stride
  <2> SUFFICES ASSUME c.name = "rmsnorm_backward"
               PROVE DOMAIN z = 1..3 /\ z[1] = a /\ z[2] = d /\ z[3] = b
    OBVIOUS
  <2>1. z = (<<a>> \o <<d>>) \o <<b>>
    BY DEF KeyOf
  <2>2. a \in X /\ b \in X /\ d \in X
    <3>1. DOMAIN c.ins = 1..3
      BY CallArity
    <3> QED
      BY <1>2, <1>4, <1>5, <3>1
  <2> HIDE DEF X, a, b, z, d
  <2>3. <<a>> \o <<d>> \in Seq(X) /\ Len(<<a>> \o <<d>>) = 2
        /\ (<<a>> \o <<d>>)[1] = a /\ (<<a>> \o <<d>>)[2] = d
    BY <2>2, Joined
  <2>4. z \in Seq(X) /\ Len(z) = 3 /\ z[1] = a /\ z[2] = d /\ z[3] = b
    BY <2>1, <2>2, <2>3, Joined
  <2> QED
    BY <2>4, SeqIsVector
<1>8. KeyOf(c).sizes = c.ins[1].size
  BY DEF KeyOf
<1>9. Units(c) = Rows(KeyOf(c))
  <2>1. /\ c.name \notin Flat /\ c.name # "random_uniform" /\ ~ Strided(c)
        /\ c.name \notin Rope /\ c.name # "act_scale_pack"
    BY DEF Rope, Flat, Silu, Strided, Rms
  <2>2. Units(c) = Numel(c.ins[1].size) \div Width(c.ins[1])
    BY <2>1 DEF Units
  <2> QED
    BY <1>8, <2>2 DEF Rows, Width
<1> QED
  BY <1>1, <1>3, <1>6, <1>7, <1>8, <1>9

\* An outer index and a place in the row are an index vector of the output.
RowVector(k, v, e) == [d \in 1..Len(k.sizes) |-> IF d = Len(k.sizes) THEN e ELSE v[d]]

\* Its element lies so far behind the beginning of the row.
LEMMA RowVectors ==
  ASSUME NEW c \in Calls, c.name \in Rms,
         NEW v \in Vectors(KeyOf(c)), NEW e \in 0..(Width(c.out) - 1)
  PROVE  /\ RowVector(KeyOf(c), v, e) \in All(c.out)
         /\ Offset(c.out.stride, RowVector(KeyOf(c), v, e)) = Offset(c.out.stride, v) + e
         /\ Offset(c.out.stride, v) \in Nat
<1> DEFINE k == KeyOf(c)
           z == c.out.size
<1>1. k \in Keys /\ k.sizes = z /\ z \in Seq(Nat) /\ c.out.stride \in Seq(Nat)
      /\ Len(c.out.stride) = Len(z) /\ c.out.stride[Len(z)] = 1
  BY KeyStrides, CallFacts DEF RmsAccepts
<1>2. PICK n \in Nat : Len(z) = n + 1
  <2>1. Len(z) \in Nat \ {0}
    BY <1>1, KeyFacts
  <2>2. Len(z) - 1 \in Nat /\ Len(z) = (Len(z) - 1) + 1
    BY <2>1
  <2> QED
    BY <2>2
<1>3. v \in [1..n -> Nat] /\ \A d \in 1..n : v[d] < z[d]
  <2>1. Outer(k) = 1..n
    BY <1>1, <1>2 DEF Outer
  <2> QED
    BY <1>1, <2>1, VectorFacts
<1>4. DOMAIN z = 1..(n + 1) /\ \A d \in 1..(n + 1) : z[d] \in Nat /\ c.out.stride[d] \in Nat
  <2>1. DOMAIN z = 1..(n + 1) /\ \A d \in 1..(n + 1) : z[d] \in Nat
    BY <1>1, <1>2, SeqIsVector
  <2>2. c.out.stride \in Seq(Nat) /\ Len(c.out.stride) = n + 1
    BY <1>1, <1>2
  <2>3. \A d \in 1..(n + 1) : c.out.stride[d] \in Nat
    BY <2>2, SeqIsVector
  <2> QED
    BY <2>1, <2>3
<1>5. e \in Nat /\ e < z[n + 1] /\ n + 1 \in 1..(n + 1)
  <2>1. z[n + 1] \in Nat /\ Width(c.out) = z[n + 1] /\ n + 1 \in 1..(n + 1)
    BY <1>2, <1>4 DEF Width
  <2> QED
    BY <2>1
<1> DEFINE x == [d \in 1..(n + 1) |-> IF d = n + 1 THEN e ELSE v[d]]
<1>6. RowVector(k, v, e) = x
  BY <1>1, <1>2 DEF RowVector
<1>7. Offset(c.out.stride, x) = Offset(c.out.stride, v) + e * c.out.stride[n + 1]
  BY <1>3, <1>5, OffsetLast
<1>8. x \in All(c.out)
  <2>1. \A d \in 1..(n + 1) : d # n + 1 => d \in 1..n
    OBVIOUS
  <2>2. x \in [1..(n + 1) -> Nat] /\ \A d \in 1..(n + 1) : x[d] < z[d]
    BY <1>3, <1>5, <2>1
  <2> HIDE DEF x
  <2>3. x \in Below(z, 1..(n + 1))
    BY <1>4, <2>2, BelowIs
  <2> QED
    BY <1>4, <2>3 DEF All
<1>9. Offset(c.out.stride, v) \in Nat
  <2>1. \A d \in 1..n : c.out.stride[d] \in Nat
    BY <1>4
  <2> QED
    BY <1>3, <2>1, OffsetType
<1> HIDE DEF x
<1>10. e * c.out.stride[n + 1] = e
  BY <1>1, <1>2, <1>5
<1> QED
  BY <1>6, <1>7, <1>8, <1>9, <1>10

\* No two entries of a complete table are of the same row.
LEMMA EntriesDiffer ==
  ASSUME NEW k \in Keys, NEW tb, Complete(k, tb)
  PROVE  /\ DOMAIN tb = 1..Rows(k)
         /\ \A i \in 1..Rows(k) : tb[i] \in Entries(k) /\ tb[i].of \in Vectors(k)
         /\ \A i, j \in 1..Rows(k) : tb[i].of = tb[j].of => i = j
<1>1. tb \in Seq(Entries(k)) /\ ListedIn(tb) = Vectors(k) /\ Len(tb) = Rows(k)
  BY DEF Complete
<1>2. IsFiniteSet(Vectors(k)) /\ Rows(k) = Cardinality(Vectors(k)) /\ Rows(k) \in Nat
  BY KeyFacts, FS_CardinalityType
<1>3. DOMAIN tb = 1..Rows(k) /\ \A i \in 1..Rows(k) : tb[i] \in Entries(k)
  BY <1>1, SeqIsVector
<1>4. \A i \in 1..Rows(k) : tb[i].of \in Vectors(k)
  BY <1>1, <1>3 DEF ListedIn
<1> DEFINE f == [i \in 1..Rows(k) |-> tb[i].of]
<1>5. f \in Surjection(1..Rows(k), Vectors(k))
  <2>1. f \in [1..Rows(k) -> Vectors(k)]
    BY <1>4
  <2>2. \A v \in Vectors(k) : \E i \in 1..Rows(k) : f[i] = v
    BY <1>1, <1>3 DEF ListedIn
  <2> QED
    BY <2>1, <2>2 DEF Surjection
<1>6. IsFiniteSet(1..Rows(k)) /\ Cardinality(1..Rows(k)) = Rows(k)
  <2>1. 1 \in Int /\ Rows(k) \in Int
    BY <1>2
  <2>2. /\ IsFiniteSet(1..Rows(k))
        /\ Cardinality(1..Rows(k)) = IF 1 > Rows(k) THEN 0 ELSE Rows(k) - 1 + 1
    BY <2>1, FS_Interval
  <2> QED
    BY <1>2, <2>2
<1> HIDE DEF f
<1>7. f \in Injection(1..Rows(k), Vectors(k))
  BY <1>2, <1>5, <1>6, FS_Surjection
<1>8. \A i, j \in 1..Rows(k) : f[i] = f[j] => i = j
  BY <1>7 DEF Injection, IsInjective
<1> QED
  BY <1>3, <1>4, <1>8 DEF f

\* The rows of two entries of the table have no element in common.
LEMMA RowsApart ==
  ASSUME NEW c \in Calls, c.name \in Rms, NEW tb, Complete(KeyOf(c), tb),
         NEW u \in Nat, NEW w \in Nat, u < Units(c), w < Units(c), u # w
  PROVE  RowOwn(c, tb, u) \cap RowOwn(c, tb, w) = {}
<1> DEFINE k == KeyOf(c)
           E == 0..(Width(c.out) - 1)
           At1(x, e) == Offset(c.out.stride, tb[x + 1].of) + e
<1>1. /\ k \in Keys /\ Units(c) = Rows(k) /\ k.sizes = c.out.size
      /\ NoOverlap(c.out) /\ c.out.at # "rms"
  BY KeyStrides, CallFacts DEF RmsAccepts
<1>2. Rows(k) \in Nat
  BY <1>1, KeyFacts, FS_CardinalityType
<1>3. u + 1 \in 1..Rows(k) /\ w + 1 \in 1..Rows(k) /\ u + 1 # w + 1
  BY <1>1, <1>2
<1>4. tb[u + 1].of \in Vectors(k) /\ tb[w + 1].of \in Vectors(k) /\ tb[u + 1].of # tb[w + 1].of
  BY <1>1, <1>3, EntriesDiffer
<1>5. ASSUME NEW d \in E, NEW e \in E, At1(u, d) = At1(w, e)
      PROVE  FALSE
  <2> DEFINE x == RowVector(k, tb[u + 1].of, d)
             y == RowVector(k, tb[w + 1].of, e)
  <2>1. x \in All(c.out) /\ y \in All(c.out) /\ Offset(c.out.stride, x) = Offset(c.out.stride, y)
    BY <1>4, <1>5, RowVectors
  <2>2. x = y
    BY <1>1, <2>1 DEF NoOverlap
  <2>3. Outer(k) = 1..(Len(k.sizes) - 1) /\ Len(k.sizes) \in Nat \ {0}
    BY <1>1, KeyFacts DEF Outer
  <2>4. \A i \in Outer(k) : i \in 1..Len(k.sizes) /\ i # Len(k.sizes)
    BY <2>3
  <2>5. \A i \in Outer(k) : tb[u + 1].of[i] = tb[w + 1].of[i]
    <3> SUFFICES ASSUME NEW i \in Outer(k) PROVE tb[u + 1].of[i] = tb[w + 1].of[i]
      OBVIOUS
    <3>1. x[i] = tb[u + 1].of[i] /\ y[i] = tb[w + 1].of[i]
      BY <2>4 DEF RowVector
    <3> QED
      BY <2>2, <3>1
  <2>6. tb[u + 1].of \in [Outer(k) -> Nat] /\ tb[w + 1].of \in [Outer(k) -> Nat]
    BY <1>1, <1>4, VectorFacts
  <2> QED
    BY <1>4, <2>5, <2>6
<1>6. \A x, a : a \in RowOwn(c, tb, x) => a = <<"rms", x>> \/ \E e \in E : a = <<c.out.at, At1(x, e)>>
  BY DEF RowOwn, Item
<1> HIDE DEF E, At1
<1> SUFFICES ASSUME NEW a, a \in RowOwn(c, tb, u), a \in RowOwn(c, tb, w) PROVE FALSE
  OBVIOUS
<1>7. CASE a = <<"rms", u>>
  BY <1>1, <1>6, <1>7
<1>8. CASE a # <<"rms", u>>
  <2>1. PICK d \in E : a = <<c.out.at, At1(u, d)>>
    BY <1>6, <1>8
  <2>2. a # <<"rms", w>>
    BY <1>1, <2>1
  <2>3. PICK e \in E : a = <<c.out.at, At1(w, e)>>
    BY <1>6, <2>2
  <2> QED
    BY <1>5, <2>1, <2>3
<1> QED
  BY <1>7, <1>8

\* What a unit stores, by operator.
LEMMA StoresAre ==
  ASSUME NEW c \in Calls, NEW u
  PROVE  /\ c.name \in Flat => Stores(c, u) = FlatStores(c, u)
         /\ c.name = "random_uniform"    => Stores(c, u) = FillStores(c, u)
         /\ c.name = "sve_add"           => Stores(c, u) = AddStores(c, u)
         /\ c.name = "sve_add_scalar"    => Stores(c, u) = AddScalarStores(c, u)
         /\ c.name \in Rope => Stores(c, u) = HeadRows(c, u, RopeRow)
         /\ c.name = "rmsnorm_forward"   => Stores(c, u) = ForwardStores(c, u)
         /\ c.name = "rmsnorm_backward"  => Stores(c, u) = BackwardStores(c, u)
         /\ c.name = "act_scale_pack"    => Stores(c, u) = PackStores(c, u)
<1>1. c.name \in Flat => Stores(c, u) = FlatStores(c, u)
  <2>1. CASE c.name \in Silu
    BY <2>1 DEF Stores, SiluStores, Silu, Flat
  <2>2. CASE c.name \in Flat \ Silu
    BY <2>2 DEF Stores, Silu, Flat
  <2> QED
    BY <2>1, <2>2
<1>2. c.name = "random_uniform" => Stores(c, u) = FillStores(c, u)
  BY DEF Stores, Silu, Flat
<1>3. c.name = "sve_add" => Stores(c, u) = AddStores(c, u)
  BY DEF Stores, Silu, Flat
<1>4. c.name = "sve_add_scalar" => Stores(c, u) = AddScalarStores(c, u)
  BY DEF Stores, Silu, Flat
<1>5. c.name \in Rope => Stores(c, u) = HeadRows(c, u, RopeRow)
  <2>1. HeadRows(c, u, RopeBackwardRow) = HeadRows(c, u, RopeRow)
    BY DEF HeadRows, RopeBackwardRow
  <2>2. CASE c.name = "rope_forward"
    BY <2>2 DEF Stores, Silu, Flat, RopeStores
  <2>3. CASE c.name = "rope_backward"
    BY <2>1, <2>3 DEF Stores, Silu, Flat, RopeBackwardStores
  <2> QED
    BY <2>2, <2>3 DEF Rope
<1>6. c.name = "rmsnorm_forward" => Stores(c, u) = ForwardStores(c, u)
  BY DEF Stores, Silu, Flat
<1>7. c.name = "rmsnorm_backward" => Stores(c, u) = BackwardStores(c, u)
  BY DEF Stores, Silu, Flat
<1>8. c.name = "act_scale_pack" => Stores(c, u) = PackStores(c, u)
  BY DEF Stores, Silu, Flat
<1> QED
  BY <1>1, <1>2, <1>3, <1>4, <1>5, <1>6, <1>7, <1>8

\* A store goes to the unit's own places and reads them or what no unit writes.
Owned(c, O, s) ==
  /\ s.to \in O
  /\ \A i \in DOMAIN s.from : s.from[i] \in O \/ s.from[i][1] \notin {c.out.at, "rms"}

\* An operand that lies elsewhere than the output is written by no unit.
LEMMA Elsewhere ==
  ASSUME NEW c \in Calls, NEW k \in DOMAIN c.ins, Apart(c, c.ins[k]), NEW n
  PROVE  Item(c.ins[k], n)[1] \notin {c.out.at, "rms"}
BY CallFacts DEF Item, Apart

\* The pointwise operators: what a lane reads of the output is what it writes.
LEMMA FlatOwned ==
  ASSUME NEW c \in Calls, c.name \in Flat, NEW u, NEW s \in FlatStores(c, u)
  PROVE  Owned(c, BlockOwn(c, u), s)
<1>1. PICK e \in Block(2 * Lanes * u, Numel(c.ins[1].size)) :
        s = Put(Item(c.out, e), c.name, <<>>, [k \in DOMAIN c.ins |-> Item(c.ins[k], e)])
  BY DEF FlatStores
<1>2. s.to = Item(c.out, e) /\ s.from = [k \in DOMAIN c.ins |-> Item(c.ins[k], e)]
  BY <1>1 DEF Put
<1>3. Item(c.out, e) \in BlockOwn(c, u)
  BY DEF BlockOwn
<1>4. ASSUME NEW k \in DOMAIN c.ins
      PROVE  s.from[k] \in BlockOwn(c, u) \/ s.from[k][1] \notin {c.out.at, "rms"}
  <2>1. CASE Apart(c, c.ins[k])
    BY <1>2, <2>1, Elsewhere
  <2>2. CASE ~ Apart(c, c.ins[k])
    <3>1. Item(c.ins[k], e) = Item(c.out, e)
      BY <2>2 DEF Item, Apart
    <3> QED
      BY <1>2, <1>3, <3>1
  <2> QED
    BY <2>1, <2>2
<1> QED
  BY <1>2, <1>3, <1>4 DEF Owned

\* uniform_fill: a counter has four numbers.
LEMMA FillOwned ==
  ASSUME NEW c \in Calls, c.name = "random_uniform", NEW u \in Nat, NEW s \in FillStores(c, u)
  PROVE  Owned(c, SpanOwn(c, 4, u), s)
<1> DEFINE x == Numel(c.out.size) - 4 * u
<1>1. x \in Int
  BY CallFacts, NumelType
<1>2. Min({4, x}) \in Int /\ Min({4, x}) <= 4
  <2> HIDE DEF x
  <2>1. Min({4, x}) = IF 4 <= x THEN 4 ELSE x
    BY <1>1 DEF Min
  <2> QED
    BY <1>1, <2>1
<1>3. PICK l \in UNION {Half(Lanes * i, Min({4, x})) : i \in 0..3} :
        s = Put(Item(c.out, 4 * u + l), c.name, <<u, l>>, <<>>)
  BY DEF FillStores
<1>4. PICK i \in 0..3 : l \in Half(Lanes * i, Min({4, x}))
  BY <1>3
<1> HIDE DEF x
<1>5. l \in 0..3
  <2>1. Lanes * i \in Nat
    BY KernelsAssumption
  <2> QED
    BY <1>2, <1>4, <2>1, KernelsAssumption DEF Half
<1>6. Item(c.out, u * 4 + l) \in SpanOwn(c, 4, u)
  BY <1>5 DEF SpanOwn
<1>7. s.to = Item(c.out, u * 4 + l) /\ DOMAIN s.from = {}
  BY <1>3, <1>5 DEF Put
<1> QED
  BY <1>6, <1>7 DEF Owned

\* act_scale_pack: a row of the output is the bytes of a row and its scale.
LEMMA PackOwned ==
  ASSUME NEW c \in Calls, c.name = "act_scale_pack", NEW u \in Nat, NEW s \in PackStores(c, u)
  PROVE  Owned(c, SpanOwn(c, c.out.size[2], u), s)
<1>1. PICK a \in Nat, b \in Nat : a = c.ins[1].size[2] /\ b = c.out.size[2] /\ b = a + 4
  <2>1. /\ c.ins[1].size \in Seq(Nat) /\ Len(c.ins[1].size) = 2 /\ c.out.size \in Seq(Nat)
        /\ Len(c.out.size) = 2 /\ c.out.size[2] = c.ins[1].size[2] + 4
    BY CallFacts, CallArity DEF PackAccepts
  <2>2. 2 \in 1..2
    OBVIOUS
  <2>3. c.ins[1].size[2] \in Nat /\ c.out.size[2] \in Nat
    BY <2>1, <2>2, SeqIsVector
  <2> QED
    BY <2>1, <2>3
<1>2. \A k \in 1..2 : k \in DOMAIN c.ins /\ Apart(c, c.ins[k])
  BY CallFacts, CallArity DEF PackAccepts
<1>3. \A n : Item(c.ins[1], n)[1] \notin {c.out.at, "rms"} /\ Item(c.ins[2], n)[1] \notin {c.out.at, "rms"}
  <2>1. 1 \in 1..2 /\ 2 \in 1..2
    OBVIOUS
  <2> QED
    BY <1>2, <2>1, Elsewhere
<1>4. \E n : \E e \in 0..(b - 1), i \in 1..2 :
        s.to = Item(c.out, u * b + e) /\ s.from = <<Item(c.ins[i], n)>>
  <2>1. CASE \E e \in 0..(a - 1) :
               s = Put(Item(c.out, u * b + e), c.name, 0, <<Item(c.ins[1], u * a + e)>>)
    <3>1. PICK e \in 0..(a - 1) :
            s = Put(Item(c.out, u * b + e), c.name, 0, <<Item(c.ins[1], u * a + e)>>)
      BY <2>1
    <3>2. e \in 0..(b - 1) /\ 1 \in 1..2
      BY <1>1
    <3> QED
      BY <3>1, <3>2 DEF Put
  <2>2. CASE \E e \in 0..3 :
               s = Put(Item(c.out, u * b + a + e), c.name, e, <<Item(c.ins[2], u)>>)
    <3>1. PICK e \in 0..3 :
            s = Put(Item(c.out, u * b + a + e), c.name, e, <<Item(c.ins[2], u)>>)
      BY <2>2
    <3>2. a + e \in 0..(b - 1) /\ 2 \in 1..2 /\ u * b + a + e = u * b + (a + e)
      BY <1>1
    <3>3. s.to = Item(c.out, u * b + (a + e)) /\ s.from = <<Item(c.ins[2], u)>>
      BY <3>1, <3>2 DEF Put
    <3> QED
      BY <3>2, <3>3
  <2> QED
    BY <1>1, <2>1, <2>2 DEF PackStores
<1>5. PICK n : \E e \in 0..(b - 1), i \in 1..2 :
        s.to = Item(c.out, u * b + e) /\ s.from = <<Item(c.ins[i], n)>>
  BY <1>4
<1>6. PICK e \in 0..(b - 1), i \in 1..2 :
        s.to = Item(c.out, u * b + e) /\ s.from = <<Item(c.ins[i], n)>>
  BY <1>5
<1>7. s.to \in SpanOwn(c, b, u)
  BY <1>6 DEF SpanOwn
<1>8. DOMAIN s.from = {1} /\ s.from[1] = Item(c.ins[i], n)
  BY <1>6
<1>9. i = 1 \/ i = 2
  OBVIOUS
<1> QED
  BY <1>1, <1>3, <1>7, <1>8, <1>9 DEF Owned

\* sve_add: a row of the output, in row-major order.
LEMMA AddOwned ==
  ASSUME NEW c \in Calls, Strided(c), NEW u \in Nat, u < Units(c), NEW s \in Stores(c, u)
  PROVE  Owned(c, SpanOwn(c, Span(c), u), s)
<1> DEFINE z == c.out.size
<1>1. z \in Seq(Nat) /\ \A k \in DOMAIN c.ins : Apart(c, c.ins[k])
  BY CallFacts
<1>2. c.name = "sve_add" \/ c.name = "sve_add_scalar"
  BY DEF Strided
<1>3. Units(c) = IF Len(z) < 2 THEN 1 ELSE Inner(z, 0, Len(z) - 1)
  <2>1. /\ c.name \notin Flat /\ c.name # "random_uniform" /\ c.name \notin Rope
        /\ c.name \notin Rms /\ c.name # "act_scale_pack"
    BY <1>2 DEF Flat, Silu, Rope, Rms
  <2> QED
    BY <2>1 DEF Units
<1>4. PICK strides : s \in StridedStores(c, u, strides)
  BY <1>2, StoresAre DEF AddStores, AddScalarStores
<1>5. \E to, at1 : /\ s.to = Item(c.out, to) /\ s.from = [k \in DOMAIN c.ins |-> Item(c.ins[k], at1[k])]
                   /\ \E e \in 0..(Span(c) - 1) : to = u * Span(c) + e
  <2>1. CASE z = <<>>
    <3>1. s = Put(Item(c.out, 0), c.name, <<>>, [k \in DOMAIN c.ins |-> Item(c.ins[k], 0)])
      BY <1>4, <2>1 DEF StridedStores
    <3>2. Span(c) = 1
      BY <1>2, <2>1 DEF Span, Strided
    <3>3. u = 0
      <4>1. Units(c) = 1
        <5>1. Len(z) = 0
          BY <2>1
        <5> QED
          BY <1>3, <5>1
      <4> QED
        BY <4>1
    <3>4. 0 \in 0..(Span(c) - 1) /\ 0 = u * Span(c) + 0
      BY <3>2, <3>3
    <3> DEFINE f == [k \in DOMAIN c.ins |-> 0]
    <3>5. s.to = Item(c.out, 0) /\ s.from = [k \in DOMAIN c.ins |-> Item(c.ins[k], f[k])]
      BY <3>1 DEF Put
    <3> QED
      BY <3>4, <3>5
  <2>2. CASE z # <<>>
    <3> DEFINE v == Unravel(z, u)
               rows == [k \in DOMAIN strides |-> Offset(strides[k], v)]
               steps == [k \in DOMAIN strides |-> strides[k][Len(z)]]
    <3>1. s \in AddRow(c, Offset(RowMajor(z), v), rows, steps)
      BY <1>4, <2>2 DEF StridedStores
    <3>2. PICK i \in 0..(Width(c.out) - 1) :
            s = Put(Item(c.out, Offset(RowMajor(z), v) + i), c.name, <<>>,
                    [k \in DOMAIN c.ins |-> Item(c.ins[k], rows[k] + i * steps[k])])
      BY <3>1 DEF AddRow
    <3>3. Span(c) = Width(c.out)
      BY <1>2, <2>2 DEF Span, Strided
    <3>4. Offset(RowMajor(z), v) = u * Width(c.out)
      <4>1. Len(z) \in Nat /\ Len(z) >= 1
        BY <1>1, <2>2
      <4>2. u < Inner(z, 0, Len(z) - 1)
        <5>1. Units(c) = IF Len(z) < 2 THEN 1 ELSE Inner(z, 0, Len(z) - 1)
          BY <1>3
        <5>2. CASE Len(z) < 2
          <6>1. Len(z) = 1
            <7>1. PICK y : y = z
              OBVIOUS
            <7>2. Len(y) \in Nat /\ Len(y) >= 1 /\ Len(y) < 2
              BY <4>1, <5>2, <7>1
            <7>3. Len(y) = 1
              BY <7>2
            <7> QED
              BY <7>1, <7>3
          <6>2. 1 - 1 = 0
            OBVIOUS
          <6>3. Inner(z, 0, 0) = 1
            BY InnerSteps
          <6> QED
            BY <5>1, <5>2, <6>1, <6>2, <6>3
        <5>3. CASE ~ (Len(z) < 2)
          BY <5>1, <5>3
        <5> QED
          BY <5>2, <5>3
      <4> QED
        BY <1>1, <4>1, <4>2, RowBegins DEF Width
    <3> DEFINE f == [k \in DOMAIN c.ins |-> rows[k] + i * steps[k]]
    <3>5. s.to = Item(c.out, u * Span(c) + i) /\ s.from = [k \in DOMAIN c.ins |-> Item(c.ins[k], f[k])]
      BY <3>2, <3>3, <3>4 DEF Put
    <3> HIDE DEF f
    <3> QED
      BY <3>2, <3>3, <3>5
  <2> QED
    BY <2>1, <2>2
<1>6. PICK to, at1 : /\ s.to = Item(c.out, to)
                     /\ s.from = [k \in DOMAIN c.ins |-> Item(c.ins[k], at1[k])]
                     /\ \E e \in 0..(Span(c) - 1) : to = u * Span(c) + e
  BY <1>5
<1>7. s.to \in SpanOwn(c, Span(c), u)
  BY <1>6 DEF SpanOwn
<1>8. \A i \in DOMAIN s.from : s.from[i][1] \notin {c.out.at, "rms"}
  <2> SUFFICES ASSUME NEW k \in DOMAIN c.ins PROVE s.from[k][1] \notin {c.out.at, "rms"}
    BY <1>6
  <2>1. s.from[k] = Item(c.ins[k], at1[k])
    BY <1>6
  <2> QED
    BY <1>1, <2>1, Elsewhere
<1> QED
  BY <1>7, <1>8 DEF Owned

\* A width of pairs: the neighbour of an even place is in the row too.
LEMMA PairInRow ==
  ASSUME NEW w \in Nat, w % 2 = 0, NEW e \in 0..(w - 1)
  PROVE  Real(e) \in 0..(w - 1) /\ Real(e) + 1 \in 0..(w - 1)
<1>1. PICK m \in Int : w = 2 * m
  <2>1. w = 2 * (w \div 2) + (w % 2) /\ w \div 2 \in Int
    OBVIOUS
  <2> QED
    BY <2>1
<1>2. PICK q \in Int, r \in 0..1 : e = 2 * q + r /\ e % 2 = r
  <2>1. e = 2 * (e \div 2) + (e % 2) /\ e \div 2 \in Int /\ e % 2 \in 0..1
    OBVIOUS
  <2> QED
    BY <2>1
<1>3. Real(e) = 2 * q
  BY <1>2 DEF Real
<1> QED
  BY <1>1, <1>2, <1>3

\* rope: a row of a head; a pair is read from the row that it is stored to.
LEMMA RopeOwned ==
  ASSUME NEW c \in Calls, c.name \in Rope, NEW u \in Nat, u < Units(c),
         NEW s \in HeadRows(c, u, RopeRow)
  PROVE  Owned(c, HeadOwn(c, u), s)
<1>1. /\ c.out.size \in Seq(Nat) /\ Len(c.out.size) = 4 /\ c.out.stride \in Seq(Nat)
      /\ Len(c.out.stride) = 4 /\ c.out.stride[4] = 1 /\ Width(c.out) % 2 = 0
      /\ LikeOutput(c, c.ins[1]) /\ Apart(c, c.ins[2]) /\ DOMAIN c.ins = 1..2
  BY CallFacts, CallArity DEF RopeAccepts
<1>2. PICK B \in Nat, H \in Nat, S \in Nat, D \in Nat :
        B = c.out.size[1] /\ H = c.out.size[2] /\ S = c.out.size[3] /\ D = c.out.size[4]
  <2>1. /\ c.out.size[1] \in Nat /\ c.out.size[2] \in Nat
        /\ c.out.size[3] \in Nat /\ c.out.size[4] \in Nat
    BY <1>1, SizesOfFour
  <2> QED
    BY <2>1
<1>3. Width(c.out) = D /\ D % 2 = 0 /\ c.ins[1].size = c.out.size /\ Width(c.ins[1]) = D
  BY <1>1, <1>2 DEF Width, LikeOutput
<1>4. BatchAndHead(u, B, H)
  <2>1. /\ c.name \notin Flat /\ c.name # "random_uniform" /\ ~ Strided(c)
        /\ c.name \notin Rms /\ c.name # "act_scale_pack"
    BY DEF Rope, Flat, Silu, Strided, Rms
  <2>2. Units(c) = B * H
    BY <1>2, <1>3, <2>1 DEF Units
  <2> QED
    BY <2>2, DivBelow
<1>5. PICK b \in Nat, h \in Nat : b = u \div H /\ h = u % H
  BY <1>4 DEF BatchAndHead
<1> DEFINE A(st, y) == b * st[1] + h * st[2] + y * st[3]
           F(y) == b * FreqBatchStride(c.ins[2]) + y * Width(c.ins[2])
<1>6. PICK y \in 0..(S - 1) : s \in RopeRow(c, A(c.ins[1].stride, y), F(y), A(c.out.stride, y))
  BY <1>2, <1>3, <1>5 DEF HeadRows
<1>7. PICK e \in 0..(D - 1) :
        s = Put(Item(c.out, A(c.out.stride, y) + e), c.name, e % 2,
                Pair(c.ins[1], A(c.ins[1].stride, y) + Real(e)) \o Pair(c.ins[2], F(y) + Real(e)))
  BY <1>3, <1>6, SweepIs DEF RopeRow
<1>8. ASSUME NEW i \in 0..(D - 1) PROVE Item(c.out, A(c.out.stride, y) + i) \in HeadOwn(c, u)
  <2>1. \A d \in 1..4 : c.out.stride[d] \in Nat
    BY <1>1, SizesOfFour
  <2>2. y \in Nat /\ i \in Nat
    OBVIOUS
  <2>3. Offset(c.out.stride, <<b, h, y, i>>) = A(c.out.stride, y) + i * c.out.stride[4]
    <3>1. PICK g : g = c.out.stride
      OBVIOUS
    <3>2. \A d \in 1..4 : g[d] \in Nat
      BY <2>1, <3>1
    <3>3. Offset(g, <<b, h, y, i>>)
            = ((b * g[1] + h * g[2]) + y * g[3]) + i * g[4]
      BY <2>2, <3>2, OffsetOfFour
    <3> QED
      BY <3>1, <3>3
  <2>4. Offset(c.out.stride, <<b, h, y, i>>) = A(c.out.stride, y) + i
    <3>1. i * c.out.stride[4] = i
      BY <1>1, <2>2
    <3> HIDE DEF A
    <3> QED
      BY <2>3, <3>1
  <2>5. <<y, i>> \in (0..(S - 1)) \X (0..(D - 1)) /\ <<y, i>>[1] = y /\ <<y, i>>[2] = i
    OBVIOUS
  <2> HIDE DEF A
  <2> QED
    BY <1>2, <1>5, <2>4, <2>5 DEF HeadOwn
<1> HIDE DEF A, F
<1>9. s.to \in HeadOwn(c, u)
  BY <1>7, <1>8 DEF Put
<1> DEFINE X == c.ins[1]
           a == A(X.stride, y)
           f == F(y)
<1>10. /\ DOMAIN s.from = 1..4
       /\ s.from[1] = Item(X, a + Real(e)) /\ s.from[2] = Item(X, a + Real(e) + 1)
       /\ s.from[3] = Item(c.ins[2], f + Real(e)) /\ s.from[4] = Item(c.ins[2], f + Real(e) + 1)
  <2>1. s.from = Pair(X, a + Real(e)) \o Pair(c.ins[2], f + Real(e))
    BY <1>7 DEF Put
  <2> HIDE DEF a, f, X
  <2> QED
    BY <2>1 DEF Pair
<1>11. Item(c.ins[2], f + Real(e))[1] \notin {c.out.at, "rms"}
       /\ Item(c.ins[2], f + Real(e) + 1)[1] \notin {c.out.at, "rms"}
  <2>1. 1 \in 1..2 /\ 2 \in 1..2
    OBVIOUS
  <2> QED
    BY <1>1, <2>1, Elsewhere
<1>12. ASSUME ~ Apart(c, X)
       PROVE  Item(X, a + Real(e)) \in HeadOwn(c, u) /\ Item(X, a + Real(e) + 1) \in HeadOwn(c, u)
  <2>1. X.at = c.out.at /\ X.stride = c.out.stride
    BY <1>1, <1>12 DEF Apart, LikeOutput
  <2>2. Real(e) \in 0..(D - 1) /\ Real(e) + 1 \in 0..(D - 1)
    BY <1>3, PairInRow
  <2>3. Item(c.out, a + Real(e)) \in HeadOwn(c, u) /\ Item(c.out, a + (Real(e) + 1)) \in HeadOwn(c, u)
    BY <1>8, <2>1, <2>2
  <2>4. a \in Int /\ a + (Real(e) + 1) = a + Real(e) + 1
    <3>1. \A d \in 1..4 : c.out.stride[d] \in Nat
      BY <1>1, SizesOfFour
    <3>2. 1 \in 1..4 /\ 2 \in 1..4 /\ 3 \in 1..4
      OBVIOUS
    <3>3. a \in Int
      BY <2>1, <3>1, <3>2 DEF A
    <3> HIDE DEF a
    <3> QED
      BY <2>2, <3>3
  <2> QED
    BY <2>1, <2>3, <2>4 DEF Item
<1>13. Apart(c, X) => Item(X, a + Real(e))[1] \notin {c.out.at, "rms"}
                      /\ Item(X, a + Real(e) + 1)[1] \notin {c.out.at, "rms"}
  <2>1. 1 \in 1..2 /\ 2 \in 1..2
    OBVIOUS
  <2> QED
    BY <1>1, <2>1, Elsewhere
<1>14. \A i \in 1..4 : i = 1 \/ i = 2 \/ i = 3 \/ i = 4
  OBVIOUS
<1> HIDE DEF X, a, f
<1> QED
  BY <1>9, <1>10, <1>11, <1>12, <1>13, <1>14 DEF Owned

\* The unit's own places, and those of the operands that no unit writes.
Mine(c, O) ==
  O \cup {a \in {Item(c.ins[p[1]], p[2]) : p \in (DOMAIN c.ins) \X Int} :
            a[1] \notin {c.out.at, "rms"}}

\* A store to the one that reads only the other is owned.
LEMMA OwnedByMine ==
  ASSUME NEW c, NEW O, NEW s, s.to \in O, s.from \in Seq(Mine(c, O))
  PROVE  Owned(c, O, s)
<1>1. \A i \in DOMAIN s.from : s.from[i] \in Mine(c, O)
  <2>1. PICK f \in Seq(Mine(c, O)) : f = s.from
    OBVIOUS
  <2>2. \A i \in DOMAIN f : f[i] \in Mine(c, O)
    OBVIOUS
  <2> QED
    BY <2>1, <2>2
<1>2. \A a \in Mine(c, O) : a \in O \/ a[1] \notin {c.out.at, "rms"}
  BY DEF Mine
<1> QED
  BY <1>1, <1>2 DEF Owned

\* The items of a row are a sequence.
LEMMA RowIsSeq ==
  ASSUME NEW X, NEW t, NEW start \in Int, Width(t) \in Nat,
         \A e \in 0..(Width(t) - 1) : Item(t, start + e) \in X
  PROVE  RowItems(t, start) \in Seq(X)
<1>1. PICK n \in Nat : n = Width(t)
  OBVIOUS
<1>2. ASSUME NEW e \in 1..n PROVE Item(t, start + e - 1) \in X
  <2>1. e - 1 \in 0..(n - 1) /\ start + e - 1 = start + (e - 1)
    OBVIOUS
  <2> QED
    BY <1>1, <2>1
<1>3. RowItems(t, start) \in [1..n -> X]
  BY <1>1, <1>2 DEF RowItems
<1> QED
  BY <1>3, VectorLen

\* An operand is a row of the output itself, or written by no unit.
LEMMA RowMine ==
  ASSUME NEW c \in Calls, c.name \in Rms, NEW tb, NEW u,
         NEW k \in DOMAIN c.ins, LikeOutput(c, c.ins[k]),
         NEW v, v = tb[u + 1].of, Offset(c.ins[k].stride, v) \in Nat
  PROVE  /\ Width(c.ins[k]) = Width(c.out)
         /\ \A e \in 0..(Width(c.out) - 1) :
              Item(c.ins[k], Offset(c.ins[k].stride, v) + e) \in Mine(c, RowOwn(c, tb, u))
<1>1. Width(c.ins[k]) = Width(c.out)
  BY DEF LikeOutput, Width
<1>2. ASSUME NEW e \in 0..(Width(c.out) - 1)
      PROVE  Item(c.ins[k], Offset(c.ins[k].stride, v) + e) \in Mine(c, RowOwn(c, tb, u))
  <2>1. CASE Apart(c, c.ins[k])
    <3>1. PICK m \in Int : m = Offset(c.ins[k].stride, v) + e
      OBVIOUS
    <3>2. Item(c.ins[k], m)[1] \notin {c.out.at, "rms"}
      BY <2>1, Elsewhere
    <3>3. \E p \in (DOMAIN c.ins) \X Int : Item(c.ins[k], m) = Item(c.ins[p[1]], p[2])
      <4>1. <<k, m>> \in (DOMAIN c.ins) \X Int /\ <<k, m>>[1] = k /\ <<k, m>>[2] = m
        OBVIOUS
      <4> QED
        BY <4>1
    <3> QED
      BY <3>1, <3>2, <3>3 DEF Mine
  <2>2. CASE ~ Apart(c, c.ins[k])
    <3>1. c.ins[k].at = c.out.at /\ c.ins[k].stride = c.out.stride
      BY <2>2 DEF Apart, LikeOutput
    <3>2. Item(c.ins[k], Offset(c.ins[k].stride, v) + e) = Item(c.out, Offset(c.out.stride, v) + e)
      BY <3>1 DEF Item
    <3> QED
      BY <3>2 DEF RowOwn, Mine
  <2> QED
    BY <2>1, <2>2
<1> QED
  BY <1>1, <1>2

\* An item of an operand that lies elsewhere.
LEMMA ElsewhereMine ==
  ASSUME NEW c \in Calls, NEW k \in DOMAIN c.ins, Apart(c, c.ins[k]), NEW O, NEW m \in Int
  PROVE  Item(c.ins[k], m) \in Mine(c, O)
<1>1. Item(c.ins[k], m)[1] \notin {c.out.at, "rms"}
  BY Elsewhere
<1>2. <<k, m>> \in (DOMAIN c.ins) \X Int /\ <<k, m>>[1] = k /\ <<k, m>>[2] = m
  OBVIOUS
<1>3. \E p \in (DOMAIN c.ins) \X Int : Item(c.ins[k], m) = Item(c.ins[p[1]], p[2])
  BY <1>2
<1> QED
  BY <1>1, <1>3 DEF Mine

\* Where the rows of an entry of a complete table begin.
LEMMA EntryOffsets ==
  ASSUME NEW c \in Calls, c.name \in Rms, Complete(KeyOf(c), table),
         NEW u \in Nat, u < Units(c)
  PROVE  /\ table[u + 1].of \in Vectors(KeyOf(c))
         /\ \A t \in DOMAIN KeyOf(c).strides :
              table[u + 1].offsets[t] = Offset(KeyOf(c).strides[t], table[u + 1].of)
<1> DEFINE k == KeyOf(c)
<1>1. k \in Keys /\ Units(c) = Rows(k)
  BY KeyStrides
<1>2. Rows(k) \in Nat
  BY <1>1, KeyFacts, FS_CardinalityType
<1>3. u + 1 \in 1..Rows(k)
  BY <1>1, <1>2
<1>4. table[u + 1] \in Entries(k) /\ table[u + 1].of \in Vectors(k)
  BY <1>1, <1>3, EntriesDiffer
<1>5. table[u + 1].offsets = Offsets(k, table[u + 1].of)
  <2>1. PICK w \in Vectors(k) : table[u + 1] = [of |-> w, offsets |-> Offsets(k, w)]
    BY <1>4 DEF Entries
  <2> QED
    BY <2>1
<1> QED
  BY <1>4, <1>5 DEF Offsets

\* The offset of a row is a number, in every operand that the output is like.
LEMMA RowOffsetType ==
  ASSUME NEW c \in Calls, c.name \in Rms, NEW v \in Vectors(KeyOf(c)),
         NEW k \in DOMAIN c.ins, LikeOutput(c, c.ins[k])
  PROVE  Offset(c.ins[k].stride, v) \in Nat
<1>1. /\ KeyOf(c) \in Keys /\ KeyOf(c).sizes = c.out.size
      /\ c.ins[k].stride \in Seq(Nat) /\ Len(c.ins[k].stride) = Len(c.out.size)
  BY KeyStrides, CallFacts DEF LikeOutput
<1>2. PICK n \in Nat : Len(c.out.size) = n + 1
  <2>1. Len(c.out.size) \in Nat \ {0}
    BY <1>1, KeyFacts
  <2>2. Len(c.out.size) - 1 \in Nat /\ Len(c.out.size) = (Len(c.out.size) - 1) + 1
    BY <2>1
  <2> QED
    BY <2>2
<1>3. v \in [1..n -> Nat]
  <2>1. Outer(KeyOf(c)) = 1..n
    BY <1>1, <1>2 DEF Outer
  <2> QED
    BY <1>1, <2>1, VectorFacts
<1>4. \A d \in 1..n : c.ins[k].stride[d] \in Nat
  <2>1. \A d \in 1..(n + 1) : c.ins[k].stride[d] \in Nat
    BY <1>1, <1>2, SeqIsVector
  <2> QED
    BY <2>1
<1> QED
  BY <1>3, <1>4, OffsetType

\* The width of the output is a number.
LEMMA RmsWidth ==
  ASSUME NEW c \in Calls, c.name \in Rms
  PROVE  Width(c.out) \in Nat
<1>1. KeyOf(c) \in Keys /\ KeyOf(c).sizes = c.out.size /\ c.out.size \in Seq(Nat)
  BY KeyStrides, CallFacts
<1>2. PICK n \in Nat \ {0} : Len(c.out.size) = n
  BY <1>1, KeyFacts
<1>3. \A d \in 1..n : c.out.size[d] \in Nat
  BY <1>1, <1>2, SeqIsVector
<1>4. n \in 1..n
  OBVIOUS
<1> QED
  BY <1>2, <1>3, <1>4 DEF Width

\* rms_norm forward: the norm of its own row, and the row.
LEMMA ForwardOwned ==
  ASSUME NEW c \in Calls, c.name = "rmsnorm_forward", Complete(KeyOf(c), table),
         NEW u \in Nat, u < Units(c), NEW s \in ForwardStores(c, u)
  PROVE  Owned(c, RowOwn(c, table, u), s)
<1> DEFINE O == RowOwn(c, table, u)
           M == Mine(c, O)
           v == table[u + 1].of
           a == Offset(c.ins[1].stride, v)
           W == Width(c.out)
           row == RowItems(c.ins[1], a)
<1>1. c.name \in Rms
  BY DEF Rms
<1>2. /\ 1 \in DOMAIN c.ins /\ LikeOutput(c, c.ins[1])
      /\ 2 \in DOMAIN c.ins => Apart(c, c.ins[2])
  BY <1>1, CallFacts, CallArity DEF RmsAccepts
<1>3. /\ v \in Vectors(KeyOf(c))
      /\ table[u + 1].offsets[1] = a
      /\ table[u + 1].offsets[2] = Offset(c.out.stride, v)
  <2>1. 1 \in 1..2 /\ 2 \in 1..2
    OBVIOUS
  <2> QED
    BY <1>1, <2>1, EntryOffsets, KeyStrides
<1>4. a \in Nat /\ W \in Nat
  BY <1>1, <1>2, <1>3, RowOffsetType, RmsWidth
<1>5. Width(c.ins[1]) = W /\ \A e \in 0..(W - 1) : Item(c.ins[1], a + e) \in M
  BY <1>1, <1>2, <1>4, RowMine
<1>6. row \in Seq(M) /\ \A e \in 0..(W - 1) : row[e + 1] \in M
  <2>1. row \in Seq(M)
    <3> HIDE DEF a, W, M
    <3>1. Width(c.ins[1]) \in Nat
      BY <1>4, <1>5
    <3>2. \A e \in 0..(Width(c.ins[1]) - 1) : Item(c.ins[1], a + e) \in M
      BY <1>5
    <3>3. a \in Int
      BY <1>4
    <3>4. PICK t : t = c.ins[1]
      OBVIOUS
    <3>5. RowItems(t, a) \in Seq(M)
      BY <3>1, <3>2, <3>3, <3>4, RowIsSeq
    <3> QED
      BY <3>4, <3>5
  <2>2. \A e \in 0..(W - 1) : e + 1 \in 1..W /\ a + (e + 1) - 1 = a + e
    <3> HIDE DEF a, W
    <3> QED
      BY <1>4
  <2>3. \A i \in 1..W : row[i] = Item(c.ins[1], a + i - 1)
    BY <1>5 DEF RowItems
  <2> HIDE DEF a, W, M, row
  <2> QED
    BY <1>5, <2>1, <2>2, <2>3
<1>7. CASE s = Put(<<"rms", u>>, "rms", <<>>, row)
  <2>1. s.to = <<"rms", u>> /\ s.from = row
    BY <1>7 DEF Put
  <2>2. s.to \in O
    BY <2>1 DEF RowOwn
  <2> HIDE DEF O, row
  <2> QED
    BY <1>6, <2>1, <2>2, OwnedByMine DEF O
<1>8. CASE \E e \in Sweep(W) :
             s = Put(Item(c.out, Offset(c.out.stride, v) + e), c.name, <<>>,
                     <<row[e + 1]>> \o row \o Weighted(c, 2, e))
  <2>1. PICK e \in 0..(W - 1) :
             s = Put(Item(c.out, Offset(c.out.stride, v) + e), c.name, <<>>,
                     <<row[e + 1]>> \o row \o Weighted(c, 2, e))
    BY <1>4, <1>8, SweepIs
  <2>2. s.to = Item(c.out, Offset(c.out.stride, v) + e)
        /\ s.from = <<row[e + 1]>> \o row \o Weighted(c, 2, e)
    BY <2>1 DEF Put
  <2>3. s.to \in O
    BY <2>2 DEF RowOwn
  <2>4. Weighted(c, 2, e) \in Seq(M)
    <3>1. CASE Len(c.ins) < 2
      BY <3>1 DEF Weighted
    <3>2. CASE ~ (Len(c.ins) < 2)
      <4>1. 2 \in DOMAIN c.ins
        BY <3>2, CallArity
      <4>2. Item(c.ins[2], e) \in M
        BY <1>2, <4>1, ElsewhereMine
      <4>3. Weighted(c, 2, e) = <<Item(c.ins[2], e)>>
        BY <3>2 DEF Weighted
      <4>4. PICK y : y = Item(c.ins[2], e)
        OBVIOUS
      <4> HIDE DEF M
      <4>5. <<y>> \in Seq(M)
        BY <4>2, <4>4
      <4> QED
        BY <4>3, <4>4, <4>5
    <3> QED
      BY <3>1, <3>2
  <2>5. s.from \in Seq(M)
    <3>1. row[e + 1] \in M
      BY <1>6
    <3> HIDE DEF M, row
    <3>2. <<row[e + 1]>> \in Seq(M)
      BY <3>1
    <3> QED
      BY <1>6, <2>2, <2>4, <3>2
  <2> HIDE DEF O
  <2>6. s.from \in Seq(Mine(c, O))
    BY <2>5 DEF M
  <2> QED
    BY <2>3, <2>6, OwnedByMine DEF O
<1>9. ForwardStores(c, u) =
        {Put(<<"rms", u>>, "rms", <<>>, row)} \cup
        {Put(Item(c.out, Offset(c.out.stride, v) + e), c.name, <<>>,
             <<row[e + 1]>> \o row \o Weighted(c, 2, e)) : e \in Sweep(W)}
  <2>1. ForwardStores(c, u) =
          {Put(<<"rms", u>>, "rms", <<>>, RowItems(c.ins[1], table[u + 1].offsets[1]))} \cup
          {Put(Item(c.out, table[u + 1].offsets[2] + e), c.name, <<>>,
               <<RowItems(c.ins[1], table[u + 1].offsets[1])[e + 1]>>
               \o RowItems(c.ins[1], table[u + 1].offsets[1]) \o Weighted(c, 2, e)) :
             e \in Sweep(Width(c.ins[1]))}
    BY DEF ForwardStores
  <2> QED
    BY <1>3, <1>5, <2>1
<1> HIDE DEF O, a, row, v, W
<1>10. CASE s \in {Put(<<"rms", u>>, "rms", <<>>, row)}
  BY <1>7, <1>10 DEF O
<1>11. CASE s \in {Put(Item(c.out, Offset(c.out.stride, v) + e), c.name, <<>>,
                       <<row[e + 1]>> \o row \o Weighted(c, 2, e)) : e \in Sweep(W)}
  <2>1. \E e \in Sweep(W) :
          s = Put(Item(c.out, Offset(c.out.stride, v) + e), c.name, <<>>,
                  <<row[e + 1]>> \o row \o Weighted(c, 2, e))
    BY <1>11
  <2> QED
    BY <1>8, <2>1
<1>12. s \in ForwardStores(c, u)
  OBVIOUS
<1> QED
  BY <1>9, <1>10, <1>11, <1>12

\* The row that a unit reads of an operand that the output is like.
LEMMA RowOfMine ==
  ASSUME NEW c \in Calls, c.name \in Rms, NEW tb, NEW u,
         NEW k \in DOMAIN c.ins, LikeOutput(c, c.ins[k]),
         NEW v \in Vectors(KeyOf(c)), v = tb[u + 1].of
  PROVE  RowItems(c.ins[k], Offset(c.ins[k].stride, v)) \in Seq(Mine(c, RowOwn(c, tb, u)))
<1> DEFINE a == Offset(c.ins[k].stride, v)
           M == Mine(c, RowOwn(c, tb, u))
<1>1. a \in Nat /\ Width(c.out) \in Nat
  BY RowOffsetType, RmsWidth
<1>2. Width(c.ins[k]) = Width(c.out)
      /\ \A e \in 0..(Width(c.out) - 1) : Item(c.ins[k], a + e) \in M
  BY <1>1, RowMine
<1> HIDE DEF a, M
<1>3. PICK t : t = c.ins[k]
  OBVIOUS
<1>4. Width(t) \in Nat /\ a \in Int /\ \A e \in 0..(Width(t) - 1) : Item(t, a + e) \in M
  BY <1>1, <1>2, <1>3
<1>5. RowItems(t, a) \in Seq(M)
  BY <1>4, RowIsSeq
<1> QED
  BY <1>3, <1>5 DEF a, M

\* rms_norm backward: a row of the gradient, from the row's norm, the row itself,
\* its gradient and the weight.
LEMMA BackwardOwned ==
  ASSUME NEW c \in Calls, c.name = "rmsnorm_backward", Complete(KeyOf(c), table),
         NEW u \in Nat, u < Units(c), NEW s \in BackwardStores(c, u)
  PROVE  Owned(c, RowOwn(c, table, u), s)
<1> DEFINE O == RowOwn(c, table, u)
           M == Mine(c, O)
           v == table[u + 1].of
           W == Width(c.out)
           x == RowItems(c.ins[1], Offset(c.ins[1].stride, v))
           dy == RowItems(c.ins[2], Offset(c.ins[2].stride, v))
           w == RowItems(c.ins[3], 0)
<1>1. c.name \in Rms /\ c.name # "rmsnorm_forward"
  BY DEF Rms
<1>2. /\ 1 \in DOMAIN c.ins /\ LikeOutput(c, c.ins[1])
      /\ 2 \in DOMAIN c.ins /\ LikeOutput(c, c.ins[2])
      /\ 3 \in DOMAIN c.ins /\ Apart(c, c.ins[3]) /\ c.ins[3].size = <<W>>
  <2>1. RmsAccepts(c) /\ DOMAIN c.ins = 1..3
    BY <1>1, CallFacts, CallArity
  <2>2. 1 \in 1..3 /\ 2 \in 1..3 /\ 3 \in 1..3
    OBVIOUS
  <2> QED
    BY <1>1, <2>1, <2>2 DEF RmsAccepts
<1>3. /\ v \in Vectors(KeyOf(c))
      /\ table[u + 1].offsets[1] = Offset(c.ins[1].stride, v)
      /\ table[u + 1].offsets[2] = Offset(c.ins[2].stride, v)
      /\ table[u + 1].offsets[3] = Offset(c.out.stride, v)
  <2>1. 1 \in 1..3 /\ 2 \in 1..3 /\ 3 \in 1..3
    OBVIOUS
  <2> QED
    BY <1>1, <2>1, EntryOffsets, KeyStrides
<1>4. W \in Nat /\ Width(c.ins[1]) = W
  BY <1>1, <1>2, RmsWidth DEF LikeOutput, Width
<1>5. x \in Seq(M)
  BY <1>1, <1>2, <1>3, RowOfMine
<1>6. dy \in Seq(M)
  BY <1>1, <1>2, <1>3, RowOfMine
<1>7. w \in Seq(M)
  <2>1. PICK t : t = c.ins[3]
    OBVIOUS
  <2>2. Width(t) = W
    <3>1. PICK n \in Nat : n = W
      BY <1>4
    <3>2. t.size = <<n>>
      BY <1>2, <2>1, <3>1
    <3>3. Len(<<n>>) = 1 /\ <<n>>[1] = n
      OBVIOUS
    <3> HIDE DEF W
    <3> QED
      BY <3>1, <3>2, <3>3 DEF Width
  <2>3. \A e \in 0..(W - 1) : Item(t, 0 + e) \in M
    <3> SUFFICES ASSUME NEW e \in 0..(W - 1) PROVE Item(t, 0 + e) \in M
      OBVIOUS
    <3>1. 0 + e \in Int
      OBVIOUS
    <3> QED
      BY <1>2, <2>1, <3>1, ElsewhereMine
  <2> HIDE DEF M, W
  <2>4. RowItems(t, 0) \in Seq(M)
    BY <1>4, <2>2, <2>3, RowIsSeq
  <2> QED
    BY <2>1, <2>4
<1>8. <<"rms", u>> \in O /\ << <<"rms", u>> >> \in Seq(M)
  <2>1. <<"rms", u>> \in O
    BY DEF RowOwn
  <2>2. PICK y : y = <<"rms", u>>
    OBVIOUS
  <2>3. y \in M
    BY <2>1, <2>2 DEF Mine
  <2> HIDE DEF M
  <2>4. <<y>> \in Seq(M)
    BY <2>3
  <2> QED
    BY <2>1, <2>2, <2>4
<1>9. BackwardStores(c, u) =
        {Put(Item(c.out, Offset(c.out.stride, v) + e), c.name, e,
             << <<"rms", u>> >> \o x \o dy \o w) : e \in Sweep(W)}
  <2>1. BackwardStores(c, u) =
        {Put(Item(c.out, table[u + 1].offsets[3] + e), c.name, e,
             << <<"rms", u>> >> \o RowItems(c.ins[1], table[u + 1].offsets[1])
             \o RowItems(c.ins[2], table[u + 1].offsets[2])
             \o RowItems(c.ins[3], 0)) : e \in Sweep(Width(c.ins[1]))}
    BY DEF BackwardStores
  <2> QED
    BY <1>3, <1>4, <2>1
<1>10. s \in BackwardStores(c, u)
  OBVIOUS
<1> HIDE DEF x, dy, w, W
<1>11. PICK e \in 0..(W - 1) :
         s = Put(Item(c.out, Offset(c.out.stride, v) + e), c.name, e,
                 << <<"rms", u>> >> \o x \o dy \o w)
  <2>1. Sweep(W) = 0..(W - 1)
    BY <1>4, SweepIs
  <2> QED
    BY <1>9, <1>10, <2>1
<1>12. s.to = Item(c.out, Offset(c.out.stride, v) + e)
       /\ s.from = << <<"rms", u>> >> \o x \o dy \o w
  BY <1>11 DEF Put
<1>13. s.to \in O
  BY <1>12 DEF RowOwn, W
<1>14. s.from \in Seq(M)
  <2>1. PICK z : z = << <<"rms", u>> >>
    OBVIOUS
  <2> HIDE DEF M
  <2>2. z \o x \o dy \o w \in Seq(M)
    BY <1>5, <1>6, <1>7, <1>8, <2>1
  <2> QED
    BY <1>12, <2>1, <2>2
<1> HIDE DEF O
<1>15. s.from \in Seq(Mine(c, O))
  BY <1>14 DEF M
<1> QED
  BY <1>13, <1>15, OwnedByMine DEF O

\* The names of the operators that own a span of the output are no others.
LEMMA SpanNames ==
  ASSUME NEW c \in Calls
  PROVE  /\ c.name \in Flat \cup Rope \cup Rms \cup {"random_uniform", "act_scale_pack"} \/ Strided(c)
         /\ c.name = "random_uniform" \/ Strided(c) \/ c.name = "act_scale_pack" =>
              c.name \notin Flat /\ c.name \notin Rope /\ c.name \notin Rms
         /\ c.name \in Rope => c.name \notin Flat
         /\ c.name \in Rms  => c.name \notin Flat /\ c.name \notin Rope
         /\ c.name = "act_scale_pack" => ~ Strided(c)
<1>1. c.name \in Flat \cup Rope \cup Rms \cup
           {"random_uniform", "sve_add", "sve_add_scalar", "act_scale_pack"}
  BY CallsAssumption
<1> QED
  BY <1>1 DEF Flat, Silu, Rope, Rms, Strided

\* What each operator owns, by its name.
LEMMA OwnIs ==
  ASSUME NEW c \in Calls, NEW tb, NEW u
  PROVE  /\ c.name \in Flat => OwnOf(c, tb, u) = BlockOwn(c, u)
         /\ c.name \in Rope => OwnOf(c, tb, u) = HeadOwn(c, u)
         /\ c.name \in Rms  => OwnOf(c, tb, u) = RowOwn(c, tb, u)
         /\ c.name \in {"random_uniform", "act_scale_pack"} \/ Strided(c) =>
              OwnOf(c, tb, u) = SpanOwn(c, Span(c), u)
BY SpanNames DEF OwnOf

\* A span is as long as a row of the output.
LEMMA SpanType ==
  ASSUME NEW c \in Calls, c.name \in {"random_uniform", "act_scale_pack"} \/ Strided(c)
  PROVE  Span(c) \in Nat
<1>1. c.out.size \in Seq(Nat)
  BY CallFacts
<1>2. CASE c.name = "random_uniform"
  BY <1>2 DEF Span
<1>3. CASE Strided(c)
  <2>1. Span(c) = IF c.out.size = <<>> THEN 1 ELSE Width(c.out)
    BY <1>3 DEF Span, Strided
  <2>2. CASE c.out.size # <<>>
    <3>1. PICK z : z = c.out.size
      OBVIOUS
    <3>2. z \in Seq(Nat) /\ z # <<>>
      BY <1>1, <2>2, <3>1
    <3>3. z[Len(z)] \in Nat
      BY <3>2
    <3> QED
      BY <2>1, <2>2, <3>1, <3>3 DEF Width
  <2> QED
    BY <2>1, <2>2
<1>4. CASE c.name = "act_scale_pack"
  <2>1. Span(c) = c.out.size[2]
    BY <1>4, SpanNames DEF Span
  <2>2. Len(c.out.size) = 2 /\ 2 \in 1..2
    BY <1>4, CallFacts DEF PackAccepts
  <2>3. c.out.size[2] \in Nat
    BY <1>1, <2>2, SeqIsVector
  <2> QED
    BY <2>1, <2>3
<1> QED
  BY <1>2, <1>3, <1>4

\* Two units own no place in common.
LEMMA OwnsApart ==
  ASSUME NEW c \in Calls, NEW tb, c.name \in Rms => Complete(KeyOf(c), tb),
         NEW u \in 0..(Units(c) - 1), NEW w \in 0..(Units(c) - 1), u # w
  PROVE  OwnOf(c, tb, u) \cap OwnOf(c, tb, w) = {}
<1>1. Units(c) \in Nat /\ u \in Nat /\ w \in Nat /\ u < Units(c) /\ w < Units(c)
  BY CallFacts
<1>2. CASE c.name \in Flat
  <2>1. PICK n \in Nat : n = Numel(c.ins[1].size)
    <3>1. 1 \in DOMAIN c.ins
      BY <1>2, CallArity DEF Flat, Silu
    <3> QED
      BY <3>1, CallFacts, NumelType
  <2>2. Block(2 * Lanes * u, n) \cap Block(2 * Lanes * w, n) = {}
    BY <1>1, BlocksApart
  <2>3. BlockOwn(c, u) \cap BlockOwn(c, w) = {}
    <3> SUFFICES ASSUME NEW a \in BlockOwn(c, u), a \in BlockOwn(c, w) PROVE FALSE
      OBVIOUS
    <3>1. PICK d \in Block(2 * Lanes * u, n) : a = <<c.out.at, d>>
      BY <2>1 DEF BlockOwn, Item
    <3>2. PICK e \in Block(2 * Lanes * w, n) : a = <<c.out.at, e>>
      BY <2>1 DEF BlockOwn, Item
    <3>3. d = e
      BY <3>1, <3>2
    <3> QED
      BY <2>2, <3>3
  <2> QED
    BY <1>2, <2>3, OwnIs
<1>3. CASE c.name \in Rope
  BY <1>1, <1>3, OwnIs, HeadsApart
<1>4. CASE c.name \in Rms
  BY <1>1, <1>4, OwnIs, RowsApart
<1>5. CASE c.name \in {"random_uniform", "act_scale_pack"} \/ Strided(c)
  <2>1. Span(c) \in Nat
    BY <1>5, SpanType
  <2> QED
    BY <1>1, <1>5, <2>1, OwnIs, SpansApart
<1> QED
  BY <1>2, <1>3, <1>4, <1>5, SpanNames

\* What a unit owns lies in the output or among the norms.
LEMMA OwnsHere ==
  ASSUME NEW c \in Calls, NEW tb, NEW u, NEW a \in OwnOf(c, tb, u)
  PROVE  a[1] \in {c.out.at, "rms"}
<1>1. \A n : Item(c.out, n)[1] = c.out.at
  BY DEF Item
<1>2. CASE c.name \in Flat
  BY <1>1, <1>2, OwnIs DEF BlockOwn
<1>3. CASE c.name \in Rope
  <2>1. a \in HeadOwn(c, u)
    BY <1>3, OwnIs
  <2> QED
    BY <1>1, <2>1 DEF HeadOwn
<1>4. CASE c.name \in Rms
  <2>1. <<"rms", u>>[1] = "rms"
    OBVIOUS
  <2> QED
    BY <1>1, <1>4, <2>1, OwnIs DEF RowOwn
<1>5. CASE c.name \in {"random_uniform", "act_scale_pack"} \/ Strided(c)
  <2>1. PICK w : w = Span(c)
    OBVIOUS
  <2>2. a \in SpanOwn(c, w, u)
    BY <1>5, <2>1, OwnIs
  <2> QED
    BY <1>1, <2>2 DEF SpanOwn
<1> QED
  BY <1>2, <1>3, <1>4, <1>5, SpanNames

\* A unit stores to places of its own, and reads those or what no unit writes.
LEMMA StoresOwned ==
  ASSUME NEW c \in Calls, c.name \in Rms => Complete(KeyOf(c), table),
         NEW u \in 0..(Units(c) - 1), NEW s \in Stores(c, u)
  PROVE  Owned(c, OwnOf(c, table, u), s)
<1>1. Units(c) \in Nat /\ u \in Nat /\ u < Units(c)
  BY CallFacts
<1>2. CASE c.name \in Flat
  BY <1>2, StoresAre, OwnIs, FlatOwned
<1>3. CASE c.name \in Rope
  BY <1>1, <1>3, StoresAre, OwnIs, RopeOwned
<1>4. CASE c.name = "rmsnorm_forward"
  <2>1. c.name \in Rms
    BY <1>4 DEF Rms
  <2> QED
    BY <1>1, <1>4, <2>1, StoresAre, OwnIs, ForwardOwned
<1>5. CASE c.name = "rmsnorm_backward"
  <2>1. c.name \in Rms
    BY <1>5 DEF Rms
  <2> QED
    BY <1>1, <1>5, <2>1, StoresAre, OwnIs, BackwardOwned
<1>6. CASE c.name = "random_uniform"
  <2>1. Span(c) = 4
    BY <1>6 DEF Span
  <2> QED
    BY <1>1, <1>6, <2>1, StoresAre, OwnIs, FillOwned
<1>7. CASE Strided(c)
  BY <1>1, <1>7, OwnIs, AddOwned
<1>8. CASE c.name = "act_scale_pack"
  <2>1. Span(c) = c.out.size[2]
    BY <1>8, SpanNames DEF Span
  <2> QED
    BY <1>1, <1>8, <2>1, StoresAre, OwnIs, PackOwned
<1> QED
  BY <1>2, <1>3, <1>4, <1>5, <1>6, <1>7, <1>8, SpanNames DEF Rms

\* What the units of a thread own in the operator that runs.
Own(us) == UNION {OwnOf(op, table, u) : u \in us}

\* A thread has written only what its own units own, and has read only that and what
\* no unit owns.
Within(share) ==
  \A t \in Team :
    /\ left[t] \subseteq share[t]
    /\ writes[t] \subseteq Own(share[t])
    /\ \A a \in reads[t] : a \in Own(share[t]) \/ a[1] \notin {op.out.at, "rms"}

RunInv ==
  /\ phase # "run" => reads = Idle /\ writes = Idle
  /\ phase # "idle" /\ op.name \in Rms => key = KeyOf(op)
  /\ phase = "run" => \E share \in Splits(op) : Within(share)

\* The table of the operator that runs is complete.
LEMMA TableOfRun ==
  ASSUME Inv, TableInv, RunInv, phase = "run"
  PROVE  op \in Calls /\ (op.name \in Rms => Complete(KeyOf(op), table))
<1>1. op \in Calls /\ (op.name \in Rms => at = "have")
  BY DEF Inv, TypeOK
<1>2. op.name \in Rms => key = KeyOf(op)
  BY DEF RunInv
<1> QED
  BY <1>1, <1>2 DEF TableInv

\* What two threads' units own is apart, and what no unit owns is not among it.
LEMMA RunIsRaceFree ==
  ASSUME Inv, TableInv, RunInv
  PROVE  RaceFree
<1> SUFFICES ASSUME NEW t \in Team, NEW s \in Team, t # s,
                    NEW a, a \in writes[t], a \in reads[s] \cup writes[s]
             PROVE  FALSE
  BY DEF RaceFree
<1>1. phase = "run"
  <2> SUFFICES ASSUME phase # "run" PROVE FALSE
    OBVIOUS
  <2>1. writes = Idle
    BY DEF RunInv
  <2> QED
    BY <2>1 DEF Idle
<1>2. op \in Calls /\ (op.name \in Rms => Complete(KeyOf(op), table))
  BY <1>1, TableOfRun
<1>3. PICK share \in Splits(op) : Within(share)
  BY <1>1 DEF RunInv
<1>4. share \in [Team -> SUBSET (0..(Units(op) - 1))] /\ share[t] \cap share[s] = {}
  BY <1>2, <1>3, SplitsShareOut
<1>5. PICK u \in share[t] : a \in OwnOf(op, table, u)
  BY <1>3 DEF Within, Own
<1>6. a[1] \in {op.out.at, "rms"}
  BY <1>2, <1>5, OwnsHere
<1>7. a \in Own(share[s])
  BY <1>3, <1>6 DEF Within
<1>8. PICK w \in share[s] : a \in OwnOf(op, table, w)
  BY <1>7 DEF Own
<1>9. u # w /\ u \in 0..(Units(op) - 1) /\ w \in 0..(Units(op) - 1)
  BY <1>4
<1>10. OwnOf(op, table, u) \cap OwnOf(op, table, w) = {}
  BY <1>2, <1>9, OwnsApart
<1> QED
  BY <1>5, <1>8, <1>10

\* The unit that a thread takes is one that is left to it.
LEMMA FirstIsLeft ==
  ASSUME NEW us \in SUBSET Nat, us # {}
  PROVE  Min(us) \in us
<1>1. \E x \in us : \A y \in us : x <= y
  BY Least
<1> QED
  BY <1>1 DEF Min

\* Nothing is touched before the first call.
LEMMA InitRunInv == Init => RunInv
BY DEF Init, RunInv

\* A call begins with nothing touched.
LEMMA ForkRunInv ==
  ASSUME NEW c \in Calls, Fork(c), op' = c, reads = Idle, writes = Idle,
         c.name \in Rms => key' = KeyOf(c)
  PROVE  RunInv'
<1>1. phase' = "run" /\ left' \in Splits(c) /\ reads' = Idle /\ writes' = Idle
  BY DEF Fork
<1>2. PICK split \in Splits(c) : split = left'
  BY <1>1
<1>3. \A t \in Team : reads'[t] = {} /\ writes'[t] = {}
  BY <1>1 DEF Idle
<1>4. Within(split)'
  BY <1>2, <1>3 DEF Within
<1>5. (\E share \in Splits(op) : Within(share))'
  BY <1>2, <1>4
<1> QED
  BY <1>1, <1>5 DEF RunInv

\* A call of another operator begins its run.
LEMMA CallRunInv ==
  ASSUME Inv, RunInv, NEW c \in Calls, Call(c)
  PROVE  RunInv'
<1>1. phase = "idle" /\ op' = c /\ c.name \notin Rms /\ Fork(c)
  BY DEF Call, Starts
<1>2. reads = Idle /\ writes = Idle
  BY <1>1 DEF RunInv
<1> QED
  BY <1>1, <1>2, ForkRunInv

\* A call of rms_norm remembers the layout that it looks for.
LEMMA CallRmsRunInv ==
  ASSUME Inv, RunInv, NEW c \in Calls, CallRms(c)
  PROVE  RunInv'
<1>1. phase = "idle" /\ op' = c /\ phase' = "offsets" /\ key' = KeyOf(c)
      /\ reads' = reads /\ writes' = writes
  BY DEF CallRms, Starts, Hit, Miss
<1> QED
  BY <1>1 DEF RunInv, Idle

\* No operator runs while the rows are listed.
LEMMA ListRowsRunInv ==
  ASSUME Inv, RunInv, ListRows
  PROVE  RunInv'
<1>1. /\ at = "rows" /\ key' = key /\ phase' = phase /\ op' = op
      /\ reads' = reads /\ writes' = writes
  BY DEF ListRows, Row, Emplace, regionVars
<1>2. phase # "run"
  BY <1>1 DEF Inv, TypeOK
<1> QED
  BY <1>1, <1>2 DEF RunInv, Idle

\* The kernel of rms_norm begins its run.
LEMMA NormsRunInv ==
  ASSUME Inv, RunInv, Norms
  PROVE  RunInv'
<1>1. phase = "offsets" /\ Fork(op) /\ op' = op /\ key' = key
  BY DEF Norms, rowsVars
<1>2. reads = Idle /\ writes = Idle /\ (op.name \in Rms => key = KeyOf(op)) /\ op \in Calls
  BY <1>1 DEF RunInv, Inv, TypeOK
<1> QED
  BY <1>1, <1>2, ForkRunInv

\* A unit stores what it owns.
LEMMA UnitRunInv ==
  ASSUME Inv, TableInv, RunInv, NEW t \in Team, Unit(t)
  PROVE  RunInv'
<1> DEFINE u == Min(left[t])
           S == Stores(op, u)
<1>1. /\ phase = "run" /\ left[t] # {} /\ phase' = phase /\ op' = op
      /\ key' = key /\ table' = table
      /\ left' = [left EXCEPT ![t] = @ \ {u}]
      /\ reads' = [reads EXCEPT ![t] = @ \cup UNION {{s.from[i] : i \in DOMAIN s.from} : s \in S}]
      /\ writes' = [writes EXCEPT ![t] = @ \cup {s.to : s \in S}]
  BY DEF Unit, rowsVars
<1>2. op \in Calls /\ (op.name \in Rms => Complete(KeyOf(op), table))
  BY <1>1, TableOfRun
<1>3. PICK share \in Splits(op) : Within(share)
  BY <1>1 DEF RunInv
<1>4. left \in [Team -> SUBSET (0..(Units(op) - 1))] /\ Units(op) \in Nat
  BY <1>2, CallFacts DEF Inv, TypeOK
<1>5. u \in left[t] /\ u \in 0..(Units(op) - 1)
  <2>1. left[t] \in SUBSET Nat
    BY <1>4
  <2> QED
    BY <1>1, <1>4, <2>1, FirstIsLeft
<1> HIDE DEF u
<1>6. OwnOf(op, table, u) \subseteq Own(share[t])
  BY <1>3, <1>5 DEF Within, Own
<1>7. \A s \in S : Owned(op, OwnOf(op, table, u), s)
  BY <1>2, <1>5, StoresOwned
<1> HIDE DEF S
<1>8. {s.to : s \in S} \subseteq Own(share[t])
  BY <1>6, <1>7 DEF Owned
<1>9. \A a \in UNION {{s.from[i] : i \in DOMAIN s.from} : s \in S} :
        a \in Own(share[t]) \/ a[1] \notin {op.out.at, "rms"}
  BY <1>6, <1>7 DEF Owned
<1>10. ASSUME NEW r \in Team
       PROVE  /\ left'[r] \subseteq share[r]
              /\ writes'[r] \subseteq Own(share[r])
              /\ \A a \in reads'[r] : a \in Own(share[r]) \/ a[1] \notin {op.out.at, "rms"}
  <2>1. /\ left[r] \subseteq share[r]
        /\ writes[r] \subseteq Own(share[r])
        /\ \A a \in reads[r] : a \in Own(share[r]) \/ a[1] \notin {op.out.at, "rms"}
    BY <1>3 DEF Within
  <2>2. CASE r = t
    BY <1>1, <1>8, <1>9, <2>1, <2>2
  <2>3. CASE r # t
    BY <1>1, <2>1, <2>3
  <2> QED
    BY <2>2, <2>3
<1>11. \A us : Own(us)' = Own(us)
  BY <1>1 DEF Own
<1>12. Within(share)'
  BY <1>1, <1>10, <1>11 DEF Within
<1> QED
  BY <1>1, <1>3, <1>12 DEF RunInv

\* What was touched is forgotten at the end of the call.
LEMMA ReturnRunInv ==
  ASSUME Inv, RunInv, Return
  PROVE  RunInv'
<1>1. phase' = "idle" /\ reads' = Idle /\ writes' = Idle
  BY DEF Return
<1> QED
  BY <1>1 DEF RunInv, Idle

\* Every step preserves what the threads have touched.
LEMMA NextRunInv ==
  ASSUME Inv, TableInv, RunInv, [Next]_vars
  PROVE  RunInv'
<1>1. CASE UNCHANGED vars
  BY <1>1 DEF RunInv, Within, Own, vars, rowsVars, regionVars, Idle
<1> QED
  BY <1>1, CallRunInv, CallRmsRunInv, ListRowsRunInv, NormsRunInv, UnitRunInv, ReturnRunInv DEF Next

\* While an operator runs, no thread of the team writes a place that another thread
\* reads or writes: not the blocks of lanes of the pointwise loops (basic.cc 11-20), not
\* the rows of sve_add, rope and act_scale_pack (sve_add.cc 90, rope.cc 77), nor those
\* of rms_norm, whose places are read from the cached tables (rms_norm.cc 32, 146).
THEOREM RaceFreeCorrect == Spec => []RaceFree
<1>1. Inv /\ TableInv /\ RunInv => RaceFree
  BY RunIsRaceFree
<1>2. Inv /\ TableInv /\ RunInv /\ [Next]_vars => RunInv'
  BY NextRunInv
<1> QED
  BY <1>1, <1>2, InitRunInv, OperatorsInvariant, OperatorsUseTheTables, TableInvariant, PTL DEF Spec
=============================================================================
