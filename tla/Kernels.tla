------------------------------ MODULE Kernels ------------------------------
(***************************************************************************)
(* The operators of async_rt/csrc/compute_ops.  The runtime's worker calls   *)
(* them one after another; each cuts its loop into units (a block of lanes,  *)
(* a row, the rows of one batch and head) and a team of threads runs them.    *)
(*                                                                          *)
(* An address is a pair of a buffer and an offset in elements.  A value is    *)
(* symbolic: what a buffer holds when the call starts is its address, and     *)
(* what a kernel stores names the operator, the lane's own part in it (key)   *)
(* and the values it was computed from.                                       *)
(***************************************************************************)
EXTENDS RowOffsets, FiniteSetsExt

CONSTANTS
  Threads,   \* bound: threads of the team
  Lanes,     \* bound: 32-bit lanes of a vector, svcntw()
  MaxCalls,  \* bound: operators called
  Calls      \* bound: the operators, with their tensors

ASSUME KernelsAssumption == {Threads, Lanes, MaxCalls} \subseteq Nat \ {0}

VARIABLES
  calls,   \* operators called so far
  phase,   \* "idle", "offsets" (rms_norm only), "run"
  op,      \* the operator called last
  left,    \* the units each thread has still to run
  mem,     \* what has been stored, by address
  reads, writes,  \* history: addresses each thread has touched in this call
  saved    \* history: the tensor whose norms the buffer "rms" holds, if any

regionVars == <<left, mem, reads, writes>>
vars == <<rowsVars, calls, phase, op, regionVars, saved>>

-----------------------------------------------------------------------------
(* Tensors *)

All(t)   == Below(t.size, DOMAIN t.size)
At(t, v) == <<t.at, Offset(t.stride, v)>>
Width(t) == t.size[Len(t.size)]
Item(t, n) == <<t.at, n>>              \* by a pointer, whatever the strides

RowMajor(sizes) == [d \in DOMAIN sizes |-> Inner(sizes, d, Len(sizes))]
DivUp(x, y) == (x + y - 1) \div y

Dense(t) == {Offset(t.stride, v) : v \in All(t)} = 0..(Numel(t.size) - 1)

\* External, torch.empty_like: the strides of a dense tensor are kept.
EmptyLike(t, buffer) ==
  [at |-> buffer, size |-> t.size, stride |-> IF Dense(t) THEN t.stride ELSE RowMajor(t.size)]

-----------------------------------------------------------------------------
(* Stores of one unit: where, under which name and key, from which addresses. *)

Put(to, name, lane, from) == [to |-> to, name |-> name, lane |-> lane, from |-> from]

\* Two half vectors, each under a predicate of its own: svwhilelt(i, n).
Half(i, n)  == {e \in i..(i + Lanes - 1) : e < n}
Block(i, n) == Half(i, n) \cup Half(i + Lanes, n)
Blocks(n)   == DivUp(n, 2 * Lanes)
Sweep(n)    == UNION {Block(2 * Lanes * b, n) : b \in 0..(Blocks(n) - 1)}

\* basic.cc and silu.cc: the first numel() elements at each pointer.
Silu == {"silu_out", "silu_backward_out"}
Flat == Silu \cup {"add_out", "add_scalar_out", "mul_out", "tanh_out", "tanh_backward_out"}

FlatStores(c, u) ==
  {Put(Item(c.out, e), c.name, <<>>, [k \in DOMAIN c.ins |-> Item(c.ins[k], e)]) :
     e \in Block(2 * Lanes * u, Numel(c.ins[1].size))}
SiluStores(c, u) == FlatStores(c, u)

\* uniform_fill: four numbers per Philox counter; the lanes of a vector at a time.
FillStores(c, u) ==
  {Put(Item(c.out, 4 * u + l), c.name, <<u, l>>, <<>>) :
     l \in UNION {Half(Lanes * i, Min({4, Numel(c.out.size) - 4 * u})) : i \in 0..3}}

\* sve_add: a missing dimension, or one of size 1 that is expanded, has stride 0.
MissingStride(t, shape, d) ==
  LET i == d - (Len(shape) - Len(t.size)) IN IF i < 1 THEN 0 ELSE t.stride[i]
BroadcastStride(t, shape, d) ==
  LET i == d - (Len(shape) - Len(t.size))
  IN  IF i < 1 \/ (t.size[i] = 1 /\ shape[d] # 1) THEN 0 ELSE t.stride[i]
BroadcastSize(a, b, n, d) ==
  LET Size(t) == LET i == d - (n - Len(t.size)) IN IF i < 1 THEN 1 ELSE t.size[i]
  IN  IF Size(a) = Size(b) \/ 1 \in {Size(a), Size(b)} THEN Max({Size(a), Size(b)}) ELSE -1
BroadcastShape(a, b) ==
  LET n == Max({Len(a.size), Len(b.size)}) IN [d \in 1..n |-> BroadcastSize(a, b, n, d)]
BroadcastStrides(t, shape) == [d \in DOMAIN shape |-> BroadcastStride(t, shape, d)]

\* The calls of the two operators, which allocate their outputs.
SveAdd(a, b) ==
  LET shape == BroadcastShape(a, b)
  IN  [name |-> "sve_add", ins |-> <<a, b>>,
       out  |-> [at |-> "o", size |-> shape, stride |-> RowMajor(shape)]]
SveAddScalar(a) == [name |-> "sve_add_scalar", ins |-> <<a>>, out |-> EmptyLike(a, "o")]

\* The outer index of a unit: tmp % shape[d], tmp /= shape[d], from the last one on.
Unravel(shape, u) ==
  [d \in 1..(Len(shape) - 1) |-> (u \div Inner(shape, d, Len(shape) - 1)) % shape[d]]

\* A row: of the operand k, from rows[k] in steps of steps[k]; the output's elements
\* follow each other.  The loops differ in how they load, not in what.
AddRow(c, orow, rows, steps) ==
  {Put(Item(c.out, orow + i), c.name, <<>>,
       [k \in DOMAIN c.ins |-> Item(c.ins[k], rows[k] + i * steps[k])]) :
     i \in 0..(Width(c.out) - 1)}

\* The output is written in row-major order.
StridedStores(c, u, strides) ==
  LET shape == c.out.size
      v     == Unravel(shape, u)
  IN  IF shape = <<>>
      THEN {Put(Item(c.out, 0), c.name, <<>>, [k \in DOMAIN c.ins |-> Item(c.ins[k], 0)])}
      ELSE AddRow(c, Offset(RowMajor(shape), v), [k \in DOMAIN strides |-> Offset(strides[k], v)],
                  [k \in DOMAIN strides |-> strides[k][Len(shape)]])

AddStores(c, u) ==
  StridedStores(c, u, [k \in DOMAIN c.ins |-> BroadcastStrides(c.ins[k], c.out.size)])
AddScalarStores(c, u) == StridedStores(c, u, <<c.ins[1].stride>>)

\* rope.  An element and its neighbour are one complex number, multiplied by that of
\* the frequencies, or by its conjugate.
Rope == {"rope_forward", "rope_backward"}
Real(e) == e - (e % 2)
Pair(t, n) == <<Item(t, n), Item(t, n + 1)>>

RopeRow(c, xrow, frow, orow) ==
  {Put(Item(c.out, orow + e), c.name, e % 2,
       Pair(c.ins[1], xrow + Real(e)) \o Pair(c.ins[2], frow + Real(e))) :
     e \in Sweep(Width(c.ins[1]))}
RopeBackwardRow(c, xrow, frow, orow) == RopeRow(c, xrow, frow, orow)

\* The frequencies are made contiguous and, with two dimensions, serve every batch.
FreqBatchStride(f) == IF Len(f.size) = 3 THEN RowMajor(f.size)[1] ELSE 0

\* Unit bh is batch bh / H and head bh % H.
HeadRows(c, u, Kernel(_, _, _, _)) ==
  LET x == c.ins[1]  f == c.ins[2]
      b == u \div x.size[2]  h == u % x.size[2]
      At3(t, s) == b * t.stride[1] + h * t.stride[2] + s * t.stride[3]
  IN  UNION {Kernel(c, At3(x, s), b * FreqBatchStride(f) + s * Width(f), At3(c.out, s)) :
               s \in 0..(x.size[3] - 1)}
RopeStores(c, u)         == HeadRows(c, u, RopeRow)
RopeBackwardStores(c, u) == HeadRows(c, u, RopeBackwardRow)

\* rms_norm: where a row begins is read from the table; the norms are saved in the
\* order of the table.
Rms == {"rmsnorm_forward", "rmsnorm_backward"}
RowItems(t, start) == [e \in 1..Width(t) |-> Item(t, start + e - 1)]
Weighted(c, w, e)  == IF Len(c.ins) < w THEN <<>> ELSE <<Item(c.ins[w], e)>>

ForwardStores(c, u) ==
  LET x == c.ins[1]  o == table[u + 1].offsets  row == RowItems(x, o[1])
  IN  {Put(<<"rms", u>>, "rms", <<>>, row)} \cup
      {Put(Item(c.out, o[2] + e), c.name, <<>>,
           <<row[e + 1]>> \o row \o Weighted(c, 2, e)) : e \in Sweep(Width(x))}

\* The sums for grad_weight are left out: gw_ptr is null, they are never added up.
BackwardStores(c, u) ==
  LET x == c.ins[1]  dy == c.ins[2]  o == table[u + 1].offsets
  IN  {Put(Item(c.out, o[3] + e), c.name, e,
           << <<"rms", u>> >> \o RowItems(x, o[1]) \o RowItems(dy, o[2])
           \o RowItems(c.ins[3], 0)) : e \in Sweep(Width(x))}

\* act_scale_pack: a row of bytes, then the four bytes of its scale.
PackStores(c, u) ==
  LET w1 == c.ins[1].size[2]  w2 == c.out.size[2]
  IN  {Put(Item(c.out, u * w2 + e), c.name, 0, <<Item(c.ins[1], u * w1 + e)>>) : e \in 0..(w1 - 1)}
      \cup {Put(Item(c.out, u * w2 + w1 + e), c.name, e, <<Item(c.ins[2], u)>>) : e \in 0..3}

Stores(c, u) ==
  CASE c.name \in Flat \ Silu        -> FlatStores(c, u)
    [] c.name \in Silu               -> SiluStores(c, u)
    [] c.name = "random_uniform"     -> FillStores(c, u)
    [] c.name = "sve_add"            -> AddStores(c, u)
    [] c.name = "sve_add_scalar"     -> AddScalarStores(c, u)
    [] c.name = "rope_forward"       -> RopeStores(c, u)
    [] c.name = "rope_backward"      -> RopeBackwardStores(c, u)
    [] c.name = "rmsnorm_forward"    -> ForwardStores(c, u)
    [] c.name = "rmsnorm_backward"   -> BackwardStores(c, u)
    [] c.name = "act_scale_pack"     -> PackStores(c, u)

-----------------------------------------------------------------------------
(* The loops *)

Strided(c) == c.name \in {"sve_add", "sve_add_scalar"}

Units(c) ==
  CASE c.name \in Flat      -> Blocks(Numel(c.ins[1].size))
    [] c.name = "random_uniform" -> DivUp(Numel(c.out.size), 4)
    [] Strided(c)                -> IF Len(c.out.size) < 2 THEN 1
                                    ELSE Inner(c.out.size, 0, Len(c.out.size) - 1)
    [] c.name \in Rope           -> c.ins[1].size[1] * c.ins[1].size[2]
    [] c.name \in Rms            -> Numel(c.ins[1].size) \div Width(c.ins[1])
    [] c.name = "act_scale_pack" -> c.ins[1].size[1]

Team == 0..(Threads - 1)

\* at::parallel_for (external) and kutacc::parallel_for: grain 0 means every thread.
TeamSize(n, grain) == IF grain = 0 THEN Threads ELSE Min({Threads, DivUp(n, grain)})
ChunkSize(n, grain) == DivUp(n, TeamSize(n, grain))
UnboundedEnd(n, c, t)  == (t + 1) * c
OverlappingEnd(n, c, t) == Min({n, (t + 1) * c + 1})
ChunkEnd(n, c, t)      == Min({n, (t + 1) * c})
Chunk(n, grain, t) ==
  IF n = 0 THEN {}
  ELSE (t * ChunkSize(n, grain))..(ChunkEnd(n, ChunkSize(n, grain), t) - 1)

\* omp parallel for (external): runs of consecutive units, in whatever sizes.
Cuts(n) == {c \in [0..Threads -> 0..n] :
              c[0] = 0 /\ c[Threads] = n /\ \A s, t \in 0..Threads : s <= t => c[s] <= c[t]}

Splits(c) ==
  IF c.name \in Flat \cup {"random_uniform"}
  THEN {[t \in Team |-> cut[t]..(cut[t + 1] - 1)] : cut \in Cuts(Units(c))}
  ELSE {[t \in Team |-> Chunk(Units(c), IF Strided(c) THEN 0 ELSE 1, t)]}

LayoutOf(t) == [size |-> t.size, stride |-> t.stride]
KeyOf(c) ==
  [sizes   |-> c.ins[1].size,
   strides |-> <<c.ins[1].stride>> \o
               (IF c.name = "rmsnorm_forward" THEN <<>> ELSE <<c.ins[2].stride>>) \o
               <<c.out.stride>>]

\* The tensors an operator is called with.  It checks some of this (act_scale_pack)
\* or asserts it (rms_norm); that an output's elements lie in places of their own, and
\* that an operand is the output itself or shares no storage with it, is what the
\* callers' allocations give.
IsTensor(t) == /\ {t.size, t.stride} \subseteq Seq(Nat) /\ Len(t.size) = Len(t.stride)
               /\ t.at # "rms"
NoOverlap(t) == \A v, w \in All(t) : Offset(t.stride, v) = Offset(t.stride, w) => v = w
LikeOutput(c, t) == t.size = c.out.size /\ (t.at = c.out.at => t.stride = c.out.stride)
Apart(c, t) == t.at # c.out.at
IsRowMajor(t) == t.stride = RowMajor(t.size)

StridedAccepts(c) ==
  /\ \A k \in DOMAIN c.ins : Apart(c, c.ins[k])
  /\ IF c.name = "sve_add"
     THEN c.out.size = BroadcastShape(c.ins[1], c.ins[2]) /\ IsRowMajor(c.out)
     ELSE c.out.size = c.ins[1].size
RopeAccepts(c) ==
  /\ Len(c.out.size) = 4 /\ c.out.stride[4] = 1 /\ Width(c.out) % 2 = 0
  /\ NoOverlap(c.out) /\ LikeOutput(c, c.ins[1]) /\ Apart(c, c.ins[2])
  /\ Len(c.ins[2].size) \in {2, 3} /\ IsRowMajor(c.ins[2])
RmsAccepts(c) ==
  LET rows == IF c.name = "rmsnorm_forward" THEN {1} ELSE {1, 2}
  IN  /\ c.out.stride[Len(c.out.stride)] = 1 /\ NoOverlap(c.out)
      /\ \A k \in DOMAIN c.ins :
           IF k \in rows THEN LikeOutput(c, c.ins[k]) /\ c.ins[k].stride[Len(c.out.size)] = 1
           ELSE Apart(c, c.ins[k]) /\ c.ins[k].size = <<Width(c.out)>>
PackAccepts(c) ==
  /\ Len(c.ins[1].size) = 2 /\ Len(c.out.size) = 2
  /\ c.out.size[2] = c.ins[1].size[2] + 4 /\ c.ins[2].size = <<c.ins[1].size[1], 1>>
  /\ \A k \in DOMAIN c.ins : Apart(c, c.ins[k])

Accepts(c) ==
  /\ IsTensor(c.out) /\ \A k \in DOMAIN c.ins : IsTensor(c.ins[k])
  /\ Strided(c) => StridedAccepts(c)
  /\ c.name \in Rope => RopeAccepts(c)
  /\ c.name \in Rms  => RmsAccepts(c)
  /\ c.name = "act_scale_pack" => PackAccepts(c)

Arity(c) ==
  CASE c.name = "random_uniform"                                       -> {0}
    [] c.name \in {"add_scalar_out", "tanh_out", "silu_out", "sve_add_scalar"} -> {1}
    [] c.name = "rmsnorm_forward"                                      -> {1, 2}
    [] c.name = "rmsnorm_backward"                                     -> {3}
    [] OTHER                                                           -> {2}

\* There is a call to make; each is of an operator, and Keys has its layout.
ASSUME CallsAssumption ==
  /\ Calls # {}
  /\ \A c \in Calls :
       /\ c.name \in Flat \cup Rope \cup Rms \cup
            {"random_uniform", "sve_add", "sve_add_scalar", "act_scale_pack"}
       /\ DOMAIN c.ins = 1..Len(c.ins) /\ Len(c.ins) \in Arity(c)
       /\ Accepts(c) /\ Units(c) \in Nat
       /\ c.name \in Rms => KeyOf(c) \in Keys

-----------------------------------------------------------------------------
Idle == [t \in Team |-> {}]
Nothing == [a \in {} |-> 0]
Kept == [a \in {a \in DOMAIN mem : a[1] = "rms"} |-> mem[a]]

Init ==
  /\ RowsInit
  /\ calls = 0 /\ phase = "idle" /\ saved = {} /\ op = CHOOSE c \in Calls : TRUE
  /\ left = Idle /\ mem = Nothing /\ reads = Idle /\ writes = Idle

Starts(c) ==
  /\ phase = "idle" /\ calls < MaxCalls
  /\ calls' = calls + 1 /\ op' = c

Fork(c) == phase' = "run" /\ left' \in Splits(c) /\ UNCHANGED <<reads, writes>>

\* The buffers hold other data at every call; the norms stay for the backward.
Call(c) ==
  /\ Starts(c) /\ c.name \notin Rms
  /\ mem' = Kept /\ Fork(c)
  /\ UNCHANGED <<rowsVars, saved>>

\* The backward is called with the input and the norms that the forward saved.
CallRms(c) ==
  /\ Starts(c) /\ c.name \in Rms
  /\ c.name = "rmsnorm_backward" => saved = {c.ins[1]}
  /\ Hit(KeyOf(c)) \/ Miss(KeyOf(c))
  /\ phase' = "offsets"
  /\ mem' = IF c.name = "rmsnorm_forward" THEN Nothing ELSE Kept
  /\ UNCHANGED <<left, reads, writes, saved>>

ListRows ==
  /\ Row \/ Emplace
  /\ UNCHANGED <<calls, phase, op, regionVars, saved>>

Norms ==
  /\ phase = "offsets" /\ at = "have"
  /\ Fork(op)
  /\ UNCHANGED <<rowsVars, calls, op, mem, saved>>

Load(a) == IF a \in DOMAIN mem THEN mem[a] ELSE a
Value(s) == [name |-> s.name, lane |-> s.lane, from |-> [i \in DOMAIN s.from |-> Load(s.from[i])]]

Unit(t) ==
  /\ phase = "run" /\ left[t] # {}
  /\ LET u == Min(left[t])
         S == Stores(op, u)
         stored == {s.to : s \in S}
     IN  /\ left' = [left EXCEPT ![t] = @ \ {u}]
         /\ mem' = [a \in DOMAIN mem \cup stored |->
                      IF a \in stored THEN Value(CHOOSE s \in S : s.to = a) ELSE mem[a]]
         /\ reads'  = [reads EXCEPT ![t] = @ \cup UNION {{s.from[i] : i \in DOMAIN s.from} : s \in S}]
         /\ writes' = [writes EXCEPT ![t] = @ \cup stored]
  /\ UNCHANGED <<rowsVars, calls, phase, op, saved>>

Return ==
  /\ phase = "run" /\ left = Idle
  /\ phase' = "idle"
  /\ IF op.name \in Rms THEN Release ELSE UNCHANGED rowsVars
  /\ saved' = IF op.name = "rmsnorm_forward" THEN {op.ins[1]} ELSE saved
  /\ reads' = Idle /\ writes' = Idle
  /\ UNCHANGED <<calls, op, left, mem>>

Next ==
  \/ \E c \in Calls : Call(c) \/ CallRms(c)
  \/ ListRows \/ Norms \/ Return
  \/ \E t \in Team : Unit(t)

Spec == Init /\ [][Next]_vars

-----------------------------------------------------------------------------
TypeOK ==
  /\ at \in {"idle", "rows", "have"} /\ (at # "idle" => key \in Keys)
  /\ calls \in 0..MaxCalls /\ phase \in {"idle", "offsets", "run"} /\ op \in Calls
  /\ left \in [Team -> SUBSET (0..(Units(op) - 1))]
  /\ phase = "idle" => at = "idle"
  /\ phase = "run" /\ op.name \in Rms => at = "have"

\* What each element of the output is to be, by its logical index.
Expect(to, name, lane, from) ==
  [to |-> to, val |-> [name |-> name, lane |-> lane, from |-> from]]

Expanded(t, v, n) ==
  At(t, [i \in DOMAIN t.size |-> IF t.size[i] = 1 THEN 0 ELSE v[i + n - Len(t.size)]])
Complex(t, v, d)  == <<At(t, [v EXCEPT ![d] = Real(@)]), At(t, [v EXCEPT ![d] = Real(@) + 1])>>
RowAt(t, v)       == [e \in 1..Width(t) |-> At(t, [v EXCEPT ![Len(t.size)] = e - 1])]
Norm(row)         == [name |-> "rms", lane |-> <<>>, from |-> row]

PointElement(c, v) ==
  Expect(At(c.out, v), c.name, <<>>, [k \in DOMAIN c.ins |-> At(c.ins[k], v)])
AddElement(c, v) ==
  Expect(At(c.out, v), c.name, <<>>,
         [k \in DOMAIN c.ins |-> Expanded(c.ins[k], v, Len(c.out.size))])
\* Whatever the threads: by place in memory.
FillElement(c, v) ==
  LET m == Offset(c.out.stride, v)
  IN  Expect(At(c.out, v), c.name, <<m \div 4, m % 4>>, <<>>)
RopeElement(c, v) ==
  LET f == c.ins[2]
      n == Len(f.size)
  IN  Expect(At(c.out, v), c.name, v[4] % 2, Complex(c.ins[1], v, 4) \o
             Complex(f, IF n = 3 THEN <<v[1], v[3], v[4]>> ELSE <<v[3], v[4]>>, n))
ForwardElement(c, v) ==
  LET x == c.ins[1]
  IN  Expect(At(c.out, v), c.name, <<>>,
             <<At(x, v)>> \o RowAt(x, v) \o Weighted(c, 2, v[Len(c.out.size)]))
BackwardElement(c, v) ==
  LET row == RowAt(c.ins[1], v)
  IN  Expect(At(c.out, v), c.name, v[Len(c.out.size)],
             <<Norm(row)>> \o row \o RowAt(c.ins[2], v) \o RowItems(c.ins[3], 0))
PackElement(c, v) ==
  LET w1 == Width(c.ins[1])
  IN  IF v[2] < w1 THEN Expect(At(c.out, v), c.name, 0, <<At(c.ins[1], v)>>)
                   ELSE Expect(At(c.out, v), c.name, v[2] - w1, <<At(c.ins[2], <<v[1], 0>>)>>)

Element(c, v) ==
  CASE c.name \in Flat \cup {"sve_add_scalar"} -> PointElement(c, v)
    [] c.name = "sve_add"                     -> AddElement(c, v)
    [] c.name = "random_uniform"              -> FillElement(c, v)
    [] c.name \in Rope                        -> RopeElement(c, v)
    [] c.name = "rmsnorm_forward"             -> ForwardElement(c, v)
    [] c.name = "rmsnorm_backward"            -> BackwardElement(c, v)
    [] c.name = "act_scale_pack"              -> PackElement(c, v)

\* The operands each kernel can address: the pointwise ones and act_scale_pack go by
\* the pointer, sve_add_scalar writes in row-major order and rope reads pairs that
\* follow each other, whatever the strides are.
Addressed(c) ==
  CASE c.name \in Flat ->
         Dense(c.out) /\ \A k \in DOMAIN c.ins : LayoutOf(c.ins[k]) = LayoutOf(c.out)
    [] c.name = "random_uniform"  -> Dense(c.out)
    [] c.name = "sve_add_scalar"  -> IsRowMajor(c.out)
    [] c.name \in Rope            -> c.ins[1].stride[4] = 1
    [] c.name = "act_scale_pack"  ->
         /\ IsRowMajor(c.out) /\ \A k \in DOMAIN c.ins : IsRowMajor(c.ins[k])
         /\ c.out.size[1] = c.ins[1].size[1]
    [] OTHER                      -> TRUE

Written == {[to |-> a, val |-> mem[a]] : a \in {a \in DOMAIN mem : a[1] # "rms"}}

\* When an operator returns, each element of its output is the one that its logical
\* index asks for, computed from the operands as they were at the call, in place or
\* not, with the norms of its own row, and nothing else has been written; how the
\* loop was cut into chunks does not show (random.cc 122-125).
ResultRight ==
  phase = "idle" /\ calls > 0 /\ Addressed(op) => Written = {Element(op, v) : v \in All(op.out)}

\* No thread touches what another thread of the team writes.
RaceFree ==
  \A t, u \in Team : t # u => writes[t] \cap (reads[u] \cup writes[u]) = {}
=============================================================================
