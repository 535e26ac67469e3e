----------------------------- MODULE RowOffsets -----------------------------
(***************************************************************************)
(* compute_paired_offsets_memory_order and its triple form in rms_norm.cc:  *)
(* where each row of the input, and of the one or two tensors that go with   *)
(* it, begins in memory.  The rows are listed by an odometer that turns the   *)
(* dimension of the smallest input stride first, and the list is cached for   *)
(* ever under the layout of the tensors.                                      *)
(***************************************************************************)
EXTENDS Integers, Sequences, FiniteSets, Functions

CONSTANT Keys  \* bound: layouts, the input's sizes and the strides of each tensor

\* The index vectors over the dimensions D of a tensor of these sizes.
Below(sizes, D) ==
  {v \in [D -> UNION {0..(sizes[d] - 1) : d \in D}] : \A d \in D : v[d] < sizes[d]}

\* The product of the sizes from dimension d + 1 to e, and the place of v.
Inner(sizes, d, e) ==
  LET P[i \in d..e] == IF i = d THEN 1 ELSE P[i - 1] * sizes[i] IN P[e]
Numel(sizes) == Inner(sizes, 0, Len(sizes))
Offset(strides, v) ==
  LET S[d \in 0..Len(v)] == IF d = 0 THEN 0 ELSE S[d - 1] + v[d] * strides[d] IN S[Len(v)]

\* All dimensions but the last one, which is a row.
Outer(k)   == 1..(Len(k.sizes) - 1)
Rows(k)    == Numel(k.sizes) \div k.sizes[Len(k.sizes)]
Vectors(k) == Below(k.sizes, Outer(k))
Offsets(k, v) == [t \in DOMAIN k.strides |-> Offset(k.strides[t], v)]

\* The input comes first, and a stride goes with every size.  A row of a tensor that
\* the operators accept has elements.
ASSUME KeysAssumption ==
  \A k \in Keys :
    /\ k \in [sizes : Seq(Nat), strides : Seq(Seq(Nat))]
    /\ Len(k.strides) >= 1 /\ \A t \in DOMAIN k.strides : Len(k.strides[t]) = Len(k.sizes)
    /\ Len(k.sizes) >= 1 /\ k.sizes[Len(k.sizes)] > 0

VARIABLES
  at,     \* "idle", "rows" (computing), "have" (the kernel uses the table)
  key,    \* the layout of the call
  cache,  \* the static map
  order,  \* the place of each outer dimension in the sorted dims
  idx,    \* the odometer
  table   \* for each row the offsets and, as a history, the row's index vector

rowsVars == <<at, key, cache, order, idx, table>>

\* What the map is keyed by.  Were it the input's layout alone, a call could use
\* the offsets of an output of another layout.
KeyOfInput(k) == [k EXCEPT !.strides = SubSeq(@, 1, 1)]
MakeKey(k)    == k

\* std::sort of the outer dimensions by input stride.  So few are sorted by
\* insertion, which leaves equal ones in order: forward and backward agree.
Earlier(strides, a, b) == strides[a] < strides[b] \/ (strides[a] = strides[b] /\ a < b)
Sorted(k) == {o \in Injection(Outer(k), Outer(k)) :
                \A a, b \in Outer(k) : Earlier(k.strides[1], a, b) => o[a] < o[b]}

RowsInit ==
  /\ at = "idle" /\ key = CHOOSE k \in Keys : TRUE
  /\ cache = [k \in {} |-> <<>>]
  /\ order = <<>> /\ idx = <<>> /\ table = <<>>

Hit(k) ==
  /\ at = "idle" /\ MakeKey(k) \in DOMAIN cache
  /\ at' = "have" /\ key' = k /\ table' = cache[MakeKey(k)]
  /\ UNCHANGED <<cache, order, idx>>

Miss(k) ==
  /\ at = "idle" /\ MakeKey(k) \notin DOMAIN cache
  /\ at' = "rows" /\ key' = k /\ table' = <<>>
  /\ order' \in Sorted(k)
  /\ idx' = [d \in Outer(k) |-> 0]
  /\ UNCHANGED cache

\* ++idx[d] < sizes[d] stops the carry, else the digit starts again at 0.
Passes(d) == idx[d] + 1 > key.sizes[d]
Full(d)   == idx[d] + 1 >= key.sizes[d]

Carry ==
  [d \in Outer(key) |->
     IF \A e \in Outer(key) : order[e] < order[d] => Full(e)
     THEN IF Full(d) THEN 0 ELSE idx[d] + 1
     ELSE idx[d]]

Row ==
  /\ at = "rows" /\ Len(table) < Rows(key)
  /\ table' = Append(table, [of |-> idx, offsets |-> Offsets(key, idx)])
  /\ idx' = Carry
  /\ UNCHANGED <<at, key, cache, order>>

Emplace ==
  /\ at = "rows" /\ Len(table) = Rows(key)
  /\ at' = "have"
  /\ cache' = [k \in DOMAIN cache \cup {MakeKey(key)} |->
                 IF k = MakeKey(key) THEN table ELSE cache[k]]
  /\ UNCHANGED <<key, order, idx, table>>

\* The kernel has run.
Release == at = "have" /\ at' = "idle" /\ UNCHANGED <<key, cache, order, idx, table>>

RowsNext == (\E k \in Keys : Hit(k) \/ Miss(k)) \/ Row \/ Emplace \/ Release

RowsSpec == RowsInit /\ [][RowsNext]_rowsVars

-----------------------------------------------------------------------------
Listed == {table[r].of : r \in DOMAIN table}

\* The table a kernel uses lists every row of the call's tensors, and none twice:
\* there are as many entries as rows (rms_norm.cc 375-392, 433-453).
EveryRowOnce == at = "have" => Listed = Vectors(key) /\ Len(table) = Cardinality(Vectors(key))

\* A table from the cache is the one that this call's tensors need: each of them is
\* addressed by its own strides (rms_norm.cc 350-354, 406-410).
OffsetsFit == at = "have" => \A r \in DOMAIN table : table[r].offsets = Offsets(key, table[r].of)
=============================================================================
