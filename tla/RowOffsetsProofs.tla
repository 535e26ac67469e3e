-------------------------- MODULE RowOffsetsProofs --------------------------
(***************************************************************************)
(* The tables of row offsets list every row once and fit the tensors of the  *)
(* call, for any layouts.  The invariant follows the odometer: while it      *)
(* turns, the rows listed are the index vectors that precede the odometer,    *)
(* when the dimensions are read from the one sorted last.                     *)
(***************************************************************************)
EXTENDS RowOffsets, FiniteSetTheorems, WellFoundedInduction, TLAPS

(* Numbers, products and offsets *)

\* A set of numbers has a least element.
LEMMA Least ==
  ASSUME NEW T \in SUBSET Nat, T # {}
  PROVE  \E x \in T : \A y \in T : x <= y
<1> DEFINE R == OpToRel(<, Nat)
<1>1. IsWellFoundedOn(R, Nat)
  BY NatLessThanWellFounded
<1>2. ASSUME NEW x \in Nat, NEW y \in Nat, <<y, x>> \notin R
      PROVE  x <= y
  BY <1>2 DEF OpToRel
<1> HIDE DEF R
<1>3. \E x \in T : \A y \in T : ~ (<<y, x>> \in R)
  BY <1>1, WFMin
<1>4. \E x \in T : \A y \in T : <<y, x>> \notin R
  BY <1>3
<1> QED
  BY <1>2, <1>4

\* A set of numbers from a on that has a and, with a number, the next one has all.
LEMMA Upwards ==
  ASSUME NEW a \in Nat, NEW T, a \in T, \A i \in Nat : i >= a /\ i \in T => i + 1 \in T
  PROVE  \A i \in Nat : i >= a => i \in T
<1> DEFINE Bad == {i \in Nat : i >= a /\ i \notin T}
<1>1. ASSUME Bad # {} PROVE FALSE
  <2>1. PICK i \in Bad : \A j \in Bad : i <= j
    BY <1>1, Least
  <2>2. i - 1 \in Nat /\ i - 1 >= a /\ (i - 1) + 1 = i
    BY <2>1
  <2>3. i - 1 \in T
    BY <2>1, <2>2
  <2> QED
    BY <2>1, <2>2, <2>3
<1> QED
  BY <1>1

-----------------------------------------------------------------------------
(* The product of the sizes *)

\* g is the recursion of Inner from dimension d up to e.
Products(g, sizes, d, e) ==
  g = [i \in d..e |-> IF i = d THEN 1 ELSE g[i - 1] * sizes[i]]

\* The recursion can be solved up to any dimension.
LEMMA ProductsExist ==
  ASSUME NEW sizes, NEW d \in Nat
  PROVE  \A e \in Nat : e >= d => \E g : Products(g, sizes, d, e)
<1> DEFINE T == {e \in Nat : \E g : Products(g, sizes, d, e)}
<1>1. d \in T
  <2>1. Products([i \in d..d |-> 1], sizes, d, d)
    BY DEF Products
  <2> QED
    BY <2>1
<1>2. ASSUME NEW e \in Nat, e >= d, e \in T PROVE e + 1 \in T
  <2>1. PICK g : Products(g, sizes, d, e)
    BY <1>2
  <2> DEFINE h == [i \in d..(e + 1) |-> IF i = d THEN 1 ELSE g[i - 1] * sizes[i]]
  <2>2. \A i \in d..e : h[i] = g[i]
    BY <1>2, <2>1 DEF Products
  <2>3. \A i \in d..(e + 1) : i # d => h[i - 1] = g[i - 1]
    <3>1. \A i \in d..(e + 1) : i # d => i - 1 \in d..e
      BY <1>2
    <3> HIDE DEF h
    <3> QED
      BY <2>2, <3>1
  <2>4. Products(h, sizes, d, e + 1)
    BY <2>3 DEF Products
  <2> QED
    BY <2>4
<1> HIDE DEF T
<1>3. \A e \in Nat : e >= d => e \in T
  BY <1>1, <1>2, Upwards
<1> QED
  BY <1>3 DEF T

\* The recursion to a higher dimension goes through the lower ones.
LEMMA ProductsAgree ==
  ASSUME NEW sizes, NEW d \in Nat, NEW e \in Nat, NEW f \in Nat, d <= e, e <= f
  PROVE  \A g, h : Products(g, sizes, d, e) /\ Products(h, sizes, d, f) => g[e] = h[e]
<1> SUFFICES ASSUME NEW g, NEW h, Products(g, sizes, d, e), Products(h, sizes, d, f)
             PROVE  g[e] = h[e]
  OBVIOUS
<1> DEFINE T == {i \in Nat : i <= e => g[i] = h[i]}
<1>1. d \in T
  BY DEF Products
<1>2. ASSUME NEW i \in Nat, i >= d, i \in T PROVE i + 1 \in T
  <2>1. CASE i + 1 <= e
    <3>1. i + 1 \in d..e /\ i + 1 \in d..f /\ i + 1 # d /\ (i + 1) - 1 = i
      BY <1>2, <2>1
    <3>2. g[i + 1] = g[i] * sizes[i + 1] /\ h[i + 1] = h[i] * sizes[i + 1]
      BY <3>1 DEF Products
    <3>3. g[i] = h[i]
      BY <1>2, <2>1
    <3> QED
      BY <3>2, <3>3
  <2>2. CASE ~ (i + 1 <= e)
    BY <2>2
  <2> QED
    BY <2>1, <2>2
<1> HIDE DEF T
<1>3. e \in T
  BY <1>1, <1>2, Upwards
<1> QED
  BY <1>3 DEF T

\* Inner is the last value of a solution of the recursion.
LEMMA InnerIsProduct ==
  ASSUME NEW sizes, NEW d, NEW e
  PROVE  Inner(sizes, d, e) = (CHOOSE g : Products(g, sizes, d, e))[e]
BY DEF Inner, Products

\* The product of no size is one, and every further dimension multiplies by its size.
LEMMA InnerSteps ==
  ASSUME NEW sizes, NEW d \in Nat, NEW e \in Nat, d <= e
  PROVE  /\ Inner(sizes, d, d) = 1
         /\ Inner(sizes, d, e + 1) = Inner(sizes, d, e) * sizes[e + 1]
<1>1. PICK o : o = (CHOOSE g : Products(g, sizes, d, d)) /\ Products(o, sizes, d, d)
  BY ProductsExist
<1>2. PICK p : p = (CHOOSE g : Products(g, sizes, d, e)) /\ Products(p, sizes, d, e)
  BY ProductsExist
<1>3. PICK q : q = (CHOOSE g : Products(g, sizes, d, e + 1)) /\ Products(q, sizes, d, e + 1)
  <2>1. e + 1 \in Nat /\ e + 1 >= d
    OBVIOUS
  <2> QED
    BY <2>1, ProductsExist
<1>4. o[d] = 1
  BY <1>1 DEF Products
<1>5. q[e + 1] = q[e] * sizes[e + 1]
  BY <1>3 DEF Products
<1>6. p[e] = q[e]
  BY <1>2, <1>3, ProductsAgree
<1> QED
  BY <1>1, <1>2, <1>3, <1>4, <1>5, <1>6, InnerIsProduct

\* A product of sizes is a natural number.
LEMMA InnerType ==
  ASSUME NEW sizes, NEW d \in Nat, NEW e \in Nat, d <= e, \A i \in (d + 1)..e : sizes[i] \in Nat
  PROVE  Inner(sizes, d, e) \in Nat
<1> DEFINE T == {i \in Nat : i <= e => Inner(sizes, d, i) \in Nat}
<1>1. d \in T
  BY InnerSteps
<1>2. ASSUME NEW i \in Nat, i >= d, i \in T PROVE i + 1 \in T
  <2>1. Inner(sizes, d, i + 1) = Inner(sizes, d, i) * sizes[i + 1]
    BY <1>2, InnerSteps
  <2>2. CASE i + 1 <= e
    <3>1. sizes[i + 1] \in Nat /\ Inner(sizes, d, i) \in Nat
      BY <1>2, <2>2
    <3> QED
      BY <2>1, <3>1
  <2>3. CASE ~ (i + 1 <= e)
    BY <2>3
  <2> QED
    BY <2>2, <2>3
<1> HIDE DEF T
<1>3. e \in T
  BY <1>1, <1>2, Upwards
<1> QED
  BY <1>3 DEF T

\* An offset is reached by adding the dimensions one after another.
LEMMA OffsetSteps ==
  ASSUME NEW strides, NEW v, Len(v) \in Nat
  PROVE  \E S : /\ S[0] = 0
                /\ \A d \in 1..Len(v) : S[d] = S[d - 1] + v[d] * strides[d]
                /\ Offset(strides, v) = S[Len(v)]
<1> DEFINE Is(S, n) == S = [d \in 0..n |-> IF d = 0 THEN 0 ELSE S[d - 1] + v[d] * strides[d]]
           T == {n \in Nat : \E S : Is(S, n)}
<1>1. 0 \in T
  <2>1. Is([d \in 0..0 |-> 0], 0)
    OBVIOUS
  <2> QED
    BY <2>1
<1>2. ASSUME NEW n \in Nat, n >= 0, n \in T PROVE n + 1 \in T
  <2>1. PICK S : Is(S, n)
    BY <1>2
  <2> DEFINE R == [d \in 0..(n + 1) |-> IF d = 0 THEN 0 ELSE S[d - 1] + v[d] * strides[d]]
  <2>2. \A d \in 0..n : R[d] = S[d]
    BY <1>2, <2>1
  <2>3. \A d \in 0..(n + 1) : d # 0 => R[d - 1] = S[d - 1]
    <3>1. \A d \in 0..(n + 1) : d # 0 => d - 1 \in 0..n
      BY <1>2
    <3> HIDE DEF R
    <3> QED
      BY <2>2, <3>1
  <2>4. Is(R, n + 1)
    BY <2>3
  <2> HIDE DEF Is, R
  <2> QED
    BY <2>4
<1>3. Offset(strides, v) = (CHOOSE S : Is(S, Len(v)))[Len(v)]
  BY DEF Offset
<1> HIDE DEF T
<1>4. Len(v) \in T
  BY <1>1, <1>2, Upwards
<1> HIDE DEF Is
<1>5. PICK S : S = (CHOOSE R : Is(R, Len(v))) /\ Is(S, Len(v))
  BY <1>4 DEF T
<1>6. S[0] = 0 /\ \A d \in 1..Len(v) : S[d] = S[d - 1] + v[d] * strides[d]
  <2>1. Len(v) \in Nat /\ DOMAIN S = 0..Len(v)
    BY <1>5 DEF Is
  <2>2. \A d \in 0..Len(v) : S[d] = IF d = 0 THEN 0 ELSE S[d - 1] + v[d] * strides[d]
    BY <1>5 DEF Is
  <2>3. 0 \in 0..Len(v) /\ \A d \in 1..Len(v) : d \in 0..Len(v) /\ d # 0
    BY <2>1
  <2> QED
    BY <2>2, <2>3
<1> QED
  BY <1>3, <1>5, <1>6

\* The index vectors are those whose every component is below its size.
LEMMA BelowIs ==
  ASSUME NEW sizes, NEW D, \A d \in D : sizes[d] \in Nat
  PROVE  \A v : v \in Below(sizes, D) <=> v \in [D -> Nat] /\ \A d \in D : v[d] < sizes[d]
<1>1. ASSUME NEW v, v \in Below(sizes, D)
      PROVE  v \in [D -> Nat] /\ \A d \in D : v[d] < sizes[d]
  BY <1>1 DEF Below
<1>2. ASSUME NEW v, v \in [D -> Nat], \A d \in D : v[d] < sizes[d]
      PROVE  v \in Below(sizes, D)
  <2>1. ASSUME NEW d \in D
        PROVE  v[d] \in UNION {0..(sizes[e] - 1) : e \in D}
    <3>1. v[d] \in 0..(sizes[d] - 1)
      BY <1>2
    <3> QED
      BY <3>1
  <2> QED
    BY <1>2, <2>1 DEF Below
<1> QED
  BY <1>1, <1>2

\* The index vectors of one more dimension are pairs.
LEMMA BelowPairs ==
  ASSUME NEW sizes, NEW n \in Nat, \A d \in 1..(n + 1) : sizes[d] \in Nat
  PROVE  ExistsBijection(Below(sizes, 1..n) \X (0..(sizes[n + 1] - 1)), Below(sizes, 1..(n + 1)))
<1> DEFINE A == Below(sizes, 1..n)
           B == 0..(sizes[n + 1] - 1)
           C == Below(sizes, 1..(n + 1))
           Join(p) == [d \in 1..(n + 1) |-> IF d = n + 1 THEN p[2] ELSE p[1][d]]
           f == [p \in A \X B |-> Join(p)]
<1>1. \A v : v \in A <=> v \in [1..n -> Nat] /\ \A d \in 1..n : v[d] < sizes[d]
  BY BelowIs
<1>2. \A v : v \in C <=> v \in [1..(n + 1) -> Nat] /\ \A d \in 1..(n + 1) : v[d] < sizes[d]
  BY BelowIs
<1>3. 1..(n + 1) = 1..n \cup {n + 1} /\ n + 1 \notin 1..n /\ sizes[n + 1] \in Nat
  OBVIOUS
<1> HIDE DEF A, C
<1>4. ASSUME NEW p \in A \X B PROVE Join(p) \in C
  <2>1. p[1] \in [1..n -> Nat] /\ (\A d \in 1..n : p[1][d] < sizes[d]) /\ p[2] \in Nat /\ p[2] < sizes[n + 1]
    BY <1>1, <1>3, <1>4
  <2>2. \A d \in 1..(n + 1) : Join(p)[d] \in Nat /\ Join(p)[d] < sizes[d]
    BY <1>3, <2>1
  <2> QED
    BY <1>2, <2>2
<1>5. f \in [A \X B -> C]
  BY <1>4
<1>6. ASSUME NEW p \in A \X B, NEW q \in A \X B, f[p] = f[q] PROVE p = q
  <2>1. Join(p) = Join(q)
    BY <1>6
  <2>2. Join(p)[n + 1] = p[2] /\ Join(q)[n + 1] = q[2]
    BY <1>3
  <2>3. \A d \in 1..n : Join(p)[d] = p[1][d] /\ Join(q)[d] = q[1][d]
    BY <1>3
  <2>4. p[1] \in [1..n -> Nat] /\ q[1] \in [1..n -> Nat]
    BY <1>1
  <2>5. p[1] = q[1] /\ p[2] = q[2]
    <3> HIDE DEF Join
    <3> QED
      BY <2>1, <2>2, <2>3, <2>4
  <2> QED
    BY <2>5
<1>7. ASSUME NEW v \in C PROVE \E p \in A \X B : f[p] = v
  <2> DEFINE u == [d \in 1..n |-> v[d]]
  <2>1. v \in [1..(n + 1) -> Nat] /\ \A d \in 1..(n + 1) : v[d] < sizes[d]
    BY <1>2
  <2>2. u \in A
    <3>1. u \in [1..n -> Nat] /\ \A d \in 1..n : u[d] < sizes[d]
      BY <1>3, <2>1
    <3> QED
      BY <1>1, <3>1
  <2>3. v[n + 1] \in B
    BY <1>3, <2>1
  <2>4. Join(<<u, v[n + 1]>>) = v
    BY <1>3, <2>1
  <2>5. <<u, v[n + 1]>> \in A \X B
    BY <2>2, <2>3
  <2> HIDE DEF Join
  <2> QED
    BY <2>4, <2>5
<1> HIDE DEF f
<1>8. f \in Bijection(A \X B, C)
  BY <1>5, <1>6, <1>7 DEF Bijection, Injection, Surjection, IsInjective
<1> QED
  BY <1>8 DEF ExistsBijection, A, C

\* There are as many index vectors as the product of the sizes says.
LEMMA BelowCounts ==
  ASSUME NEW sizes, NEW n \in Nat, \A d \in 1..n : sizes[d] \in Nat
  PROVE  IsFiniteSet(Below(sizes, 1..n)) /\ Cardinality(Below(sizes, 1..n)) = Inner(sizes, 0, n)
<1> DEFINE Count(e) == /\ IsFiniteSet(Below(sizes, 1..e))
                       /\ Cardinality(Below(sizes, 1..e)) = Inner(sizes, 0, e)
           T == {e \in Nat : e <= n => Count(e)}
<1>1. 0 \in T
  <2>1. Below(sizes, 1..0) = {[d \in {} |-> 0]}
    <3>1. 1..0 = {}
      OBVIOUS
    <3>2. \A v : v \in Below(sizes, {}) <=> v \in [{} -> Nat]
      BY BelowIs
    <3>3. \A v : v \in [{} -> Nat] <=> v = [d \in {} |-> 0]
      OBVIOUS
    <3> QED
      BY <3>1, <3>2, <3>3
  <2>2. Inner(sizes, 0, 0) = 1
    BY InnerSteps
  <2> QED
    BY <2>1, <2>2, FS_Singleton
<1>2. ASSUME NEW e \in Nat, e >= 0, e \in T PROVE e + 1 \in T
  <2>1. CASE e + 1 <= n
    <3> DEFINE A == Below(sizes, 1..e)
               B == 0..(sizes[e + 1] - 1)
    <3>1. /\ IsFiniteSet(A) /\ Cardinality(A) = Inner(sizes, 0, e)
      BY <1>2, <2>1
    <3>2. IsFiniteSet(B) /\ Cardinality(B) = sizes[e + 1]
      <4>1. sizes[e + 1] \in Nat /\ sizes[e + 1] - 1 \in Int /\ 0 \in Int
        BY <2>1
      <4>2. /\ IsFiniteSet(B)
            /\ Cardinality(B) = IF 0 > sizes[e + 1] - 1 THEN 0 ELSE sizes[e + 1] - 1 - 0 + 1
        BY <4>1, FS_Interval
      <4> QED
        BY <4>1, <4>2
    <3>3. ExistsBijection(A \X B, Below(sizes, 1..(e + 1)))
      <4>1. \A d \in 1..(e + 1) : sizes[d] \in Nat
        BY <2>1
      <4> QED
        BY <4>1, BelowPairs
    <3> HIDE DEF A, B
    <3>4. IsFiniteSet(A \X B) /\ Cardinality(A \X B) = Cardinality(A) * Cardinality(B)
      BY <3>1, <3>2, FS_Product
    <3>5. /\ IsFiniteSet(Below(sizes, 1..(e + 1)))
          /\ Cardinality(Below(sizes, 1..(e + 1))) = Cardinality(A \X B)
      BY <3>3, <3>4, FS_Bijection, FS_SameCardinalityBij, FS_CardinalityType
    <3>6. Inner(sizes, 0, e + 1) = Inner(sizes, 0, e) * sizes[e + 1]
      <4>1. 0 \in Nat /\ 0 <= e
        OBVIOUS
      <4> QED
        BY <4>1, InnerSteps
    <3> QED
      BY <3>1, <3>2, <3>4, <3>5, <3>6
  <2>2. CASE ~ (e + 1 <= n)
    BY <2>2
  <2> QED
    BY <2>1, <2>2
<1> HIDE DEF T
<1>3. n \in T
  BY <1>1, <1>2, Upwards
<1> QED
  BY <1>3 DEF T

\* A product divides by its factor.
LEMMA DivExact ==
  ASSUME NEW a \in Nat, NEW m \in Nat, m > 0
  PROVE  (a * m) \div m = a
<1> DEFINE q == (a * m) \div m
<1>1. a * m \in Nat
  OBVIOUS
<1>2. q \in Int /\ q * m <= a * m /\ a * m < q * m + m
  BY <1>1
<1> HIDE DEF q
<1>3. q * m <= a * m => q <= a
  BY <1>2
<1>4. a * m < (q + 1) * m => a < q + 1
  BY <1>2
<1>5. (q + 1) * m = q * m + m
  BY <1>2
<1> QED
  BY <1>2, <1>3, <1>4, <1>5 DEF q

-----------------------------------------------------------------------------
(* The invariant *)

\* In the order o of the dimensions D, v comes before w.
Precedes(o, D, v, w) ==
  \E d \in D : v[d] < w[d] /\ \A e \in D : o[e] > o[d] => v[e] = w[e]

Passed(k, o, w) == {v \in Vectors(k) : Precedes(o, Outer(k), v, w)}

Entries(k)      == {[of |-> v, offsets |-> Offsets(k, v)] : v \in Vectors(k)}
ListedIn(tb)    == {tb[r].of : r \in DOMAIN tb}
Complete(k, tb) == tb \in Seq(Entries(k)) /\ ListedIn(tb) = Vectors(k) /\ Len(tb) = Rows(k)

\* In the order that the sort gives the dimensions, v comes before w ...
Comes(k, v, w) ==
  \E d \in Outer(k) :
    v[d] < w[d] /\ \A e \in Outer(k) : Earlier(k.strides[1], d, e) => v[e] = w[e]

\* ... and the rows of the table are listed in that order.
Ordered(k, tb) == \A i, j \in DOMAIN tb : i < j => Comes(k, tb[i].of, tb[j].of)

Turning ==
  /\ idx \in Vectors(key)
  /\ ListedIn(table) = Passed(key, order, idx)
  /\ Cardinality(ListedIn(table)) = Len(table)

TableInv ==
  /\ at \in {"idle", "rows", "have"}
  /\ at # "idle" => key \in Keys
  /\ \A k \in DOMAIN cache : k \in Keys /\ Complete(k, cache[k]) /\ Ordered(k, cache[k])
  /\ at = "rows" => /\ order \in Sorted(key)
                    /\ table \in Seq(Entries(key)) /\ Ordered(key, table)
                    /\ Complete(key, table) \/ Turning
  /\ at = "have" => Complete(key, table) /\ Ordered(key, table)

-----------------------------------------------------------------------------
\* There are as many rows as index vectors over the outer dimensions: what the
\* constructor computes from numel() is the number that the loop has to list.
THEOREM KeyFacts ==
  ASSUME NEW k \in Keys
  PROVE  /\ Len(k.sizes) \in Nat \ {0}
         /\ \A d \in Outer(k) : k.sizes[d] \in Nat
         /\ IsFiniteSet(Vectors(k)) /\ Rows(k) = Cardinality(Vectors(k))
<1>1. k.sizes \in Seq(Nat) /\ Len(k.sizes) >= 1 /\ k.sizes[Len(k.sizes)] > 0
  BY KeysAssumption
<1> DEFINE n == Len(k.sizes) - 1
<1>2. n \in Nat /\ Len(k.sizes) = n + 1 /\ 0 <= n /\ Outer(k) = 1..n
  BY <1>1 DEF Outer
<1>3. (\A d \in 1..n : k.sizes[d] \in Nat) /\ k.sizes[n + 1] \in Nat /\ k.sizes[n + 1] > 0
  BY <1>1, <1>2
<1> HIDE DEF n
<1>4. /\ IsFiniteSet(Vectors(k)) /\ Cardinality(Vectors(k)) = Inner(k.sizes, 0, n)
  BY <1>2, <1>3, BelowCounts DEF Vectors
<1>5. Inner(k.sizes, 0, n) \in Nat
  BY <1>2, <1>4, FS_CardinalityType
<1>6. Inner(k.sizes, 0, n + 1) = Inner(k.sizes, 0, n) * k.sizes[n + 1]
  BY <1>2, InnerSteps
<1>7. Rows(k) = Inner(k.sizes, 0, n)
  BY <1>2, <1>3, <1>5, <1>6, DivExact DEF Rows, Numel
<1> QED
  BY <1>2, <1>3, <1>4, <1>7

\* Of some dimensions, one is sorted first.
LEMMA First ==
  ASSUME NEW n \in Nat, NEW o \in [1..n -> 1..n], NEW D, D \subseteq 1..n, D # {}
  PROVE  \E d \in D : \A e \in D : o[d] <= o[e]
<1> DEFINE T == {o[d] : d \in D}
<1>0. \A d \in D : o[d] \in Nat
  OBVIOUS
<1>1. T \in SUBSET Nat /\ T # {}
  BY <1>0
<1>2. PICK x \in T : \A y \in T : x <= y
  BY <1>1, Least
<1>3. PICK d \in D : x = o[d]
  BY <1>2
<1>4. ASSUME NEW e \in D PROVE o[d] <= o[e]
  BY <1>2, <1>3
<1> QED
  BY <1>4

\* ... and one last.
LEMMA Last ==
  ASSUME NEW n \in Nat, NEW o \in [1..n -> 1..n], NEW D, D \subseteq 1..n, D # {}
  PROVE  \E d \in D : \A e \in D : o[d] >= o[e]
<1> DEFINE T == {n - o[d] : d \in D}
<1>0. \A d \in D : o[d] \in Nat /\ n - o[d] \in Nat
  OBVIOUS
<1>1. T \in SUBSET Nat /\ T # {}
  BY <1>0
<1>2. PICK x \in T : \A y \in T : x <= y
  BY <1>1, Least
<1>3. PICK d \in D : x = n - o[d]
  BY <1>2
<1>4. ASSUME NEW e \in D PROVE o[d] >= o[e]
  <2>1. x <= n - o[e]
    BY <1>2
  <2> QED
    BY <1>0, <1>3, <2>1
<1> QED
  BY <1>4

\* What an index vector of a layout is.
LEMMA VectorFacts ==
  ASSUME NEW k \in Keys
  PROVE  /\ Outer(k) = 1..(Len(k.sizes) - 1) /\ Len(k.sizes) - 1 \in Nat
         /\ \A v : v \in Vectors(k) <=>
              v \in [Outer(k) -> Nat] /\ \A d \in Outer(k) : v[d] < k.sizes[d]
<1>1. Len(k.sizes) - 1 \in Nat /\ \A d \in Outer(k) : k.sizes[d] \in Nat
  BY KeyFacts
<1>2. \A v : v \in Vectors(k) <=>
         v \in [Outer(k) -> Nat] /\ \A d \in Outer(k) : v[d] < k.sizes[d]
  BY <1>1, BelowIs DEF Vectors
<1> QED
  BY <1>1, <1>2 DEF Outer

\* Two index vectors that differ do so in a last dimension.
LEMMA LastDifference ==
  ASSUME NEW k \in Keys, NEW o \in Injection(Outer(k), Outer(k)),
         NEW v \in Vectors(k), NEW w \in Vectors(k), v # w
  PROVE  \E d \in Outer(k) : v[d] # w[d] /\ \A e \in Outer(k) : o[e] > o[d] => v[e] = w[e]
<1> DEFINE n == Len(k.sizes) - 1
           D == {d \in Outer(k) : v[d] # w[d]}
<1>1. n \in Nat /\ Outer(k) = 1..n
  BY VectorFacts
<1>2. o \in [1..n -> 1..n]
  BY <1>1 DEF Injection
<1>3. D # {}
  BY VectorFacts
<1> HIDE DEF n
<1>4. PICK d \in D : \A e \in D : o[d] >= o[e]
  BY <1>1, <1>2, <1>3, Last
<1>5. ASSUME NEW e \in Outer(k), o[e] > o[d] PROVE v[e] = w[e]
  BY <1>1, <1>2, <1>4, <1>5
<1> QED
  BY <1>4, <1>5

-----------------------------------------------------------------------------
(* The odometer *)

\* When every digit is at its last, every other vector has been passed.
LEMMA TurnsOver ==
  ASSUME key \in Keys, order \in Injection(Outer(key), Outer(key)), idx \in Vectors(key),
         \A d \in Outer(key) : Full(d)
  PROVE  Vectors(key) \subseteq Passed(key, order, idx) \cup {idx}
<1> SUFFICES ASSUME NEW v \in Vectors(key), v # idx
             PROVE  v \in Passed(key, order, idx)
  OBVIOUS
<1>1. PICK d \in Outer(key) :
        v[d] # idx[d] /\ \A e \in Outer(key) : order[e] > order[d] => v[e] = idx[e]
  BY LastDifference
<1>2. v[d] < idx[d]
  <2>1. v[d] \in Nat /\ idx[d] \in Nat /\ key.sizes[d] \in Nat /\ v[d] < key.sizes[d]
    BY VectorFacts, KeyFacts
  <2>2. Full(d)
    OBVIOUS
  <2> QED
    BY <1>1, <2>1, <2>2 DEF Full
<1> QED
  BY <1>1, <1>2 DEF Passed, Precedes

\* Else the first digit that is not moves on and those before it start again.
LEMMA TurnsOn ==
  ASSUME key \in Keys, order \in Injection(Outer(key), Outer(key)), idx \in Vectors(key),
         NEW x \in Outer(key), ~ Full(x)
  PROVE  /\ Carry \in Vectors(key)
         /\ Passed(key, order, Carry) = Passed(key, order, idx) \cup {idx}
<1> DEFINE D == Outer(key)
           n == Len(key.sizes) - 1
           N == {d \in D : ~ Full(d)}
<1>1. n \in Nat /\ D = 1..n /\ \A d \in D : key.sizes[d] \in Nat
  BY VectorFacts, KeyFacts
<1>2. order \in [1..n -> 1..n] /\ \A a, b \in D : order[a] = order[b] => a = b
  BY <1>1 DEF Injection, IsInjective
<1>3. idx \in [D -> Nat] /\ \A d \in D : idx[d] < key.sizes[d]
  BY VectorFacts
<1>4. PICK p \in N : \A d \in N : order[p] <= order[d]
  <2>1. N \subseteq 1..n /\ N # {}
    BY <1>1
  <2> HIDE DEF n, N
  <2> QED
    BY <1>1, <1>2, <2>1, First
<1> HIDE DEF n
<1>5. \A d \in D : order[d] \in Nat
  BY <1>1, <1>2
<1>6. \A d \in D : order[d] < order[p] => Full(d)
  BY <1>4, <1>5
<1>7. ~ Full(p) /\ p \in D
  BY <1>4
<1> HIDE DEF N
<1>8. \A d \in D : Carry[d] = IF order[d] < order[p] THEN 0
                              ELSE IF d = p THEN idx[d] + 1 ELSE idx[d]
  <2> SUFFICES ASSUME NEW d \in D
               PROVE  Carry[d] = IF order[d] < order[p] THEN 0
                                 ELSE IF d = p THEN idx[d] + 1 ELSE idx[d]
    OBVIOUS
  <2>1. CASE order[d] < order[p]
    <3>1. \A e \in D : order[e] < order[d] => Full(e)
      BY <1>5, <1>6, <1>7, <2>1
    <3> QED
      BY <1>6, <2>1, <3>1 DEF Carry
  <2>2. CASE d = p
    BY <1>5, <1>6, <1>7, <2>2 DEF Carry
  <2>3. CASE order[d] > order[p]
    BY <1>5, <1>7, <2>3 DEF Carry
  <2> QED
    BY <1>2, <1>5, <1>7, <2>1, <2>2, <2>3
<1>9. Carry \in Vectors(key)
  <2>1. Carry \in [D -> Nat]
    <3>1. \A d \in D : Carry[d] \in Nat
      BY <1>3, <1>8
    <3> QED
      BY <3>1 DEF Carry
  <2>2. \A d \in D : Carry[d] < key.sizes[d]
    <3>1. idx[p] + 1 < key.sizes[p]
      BY <1>1, <1>3, <1>7 DEF Full
    <3>2. \A d \in D : 0 < key.sizes[d]
      BY <1>1, <1>3
    <3> QED
      BY <1>3, <1>8, <3>1, <3>2
  <2> QED
    BY <2>1, <2>2, VectorFacts
<1>10. ASSUME NEW v \in Vectors(key), Precedes(order, D, v, idx) \/ v = idx
       PROVE  Precedes(order, D, v, Carry)
  <2>1. v \in [D -> Nat]
    BY VectorFacts
  <2>2. CASE v = idx
    <3>1. v[p] < Carry[p] /\ \A e \in D : order[e] > order[p] => v[e] = Carry[e]
      BY <1>3, <1>5, <1>7, <1>8, <2>2
    <3> QED
      BY <1>7, <3>1 DEF Precedes
  <2>3. CASE Precedes(order, D, v, idx)
    <3>1. PICK d \in D : v[d] < idx[d] /\ \A e \in D : order[e] > order[d] => v[e] = idx[e]
      BY <2>3 DEF Precedes
    <3>2. CASE order[d] > order[p]
      <4>1. v[d] < Carry[d] /\ \A e \in D : order[e] > order[d] => v[e] = Carry[e]
        BY <1>5, <1>7, <1>8, <3>1, <3>2
      <4> QED
        BY <4>1 DEF Precedes
    <3>3. CASE order[d] <= order[p]
      <4>1. v[p] < Carry[p]
        BY <1>2, <1>3, <1>5, <1>7, <1>8, <2>1, <3>1, <3>3
      <4>2. \A e \in D : order[e] > order[p] => v[e] = Carry[e]
        BY <1>5, <1>7, <1>8, <3>1, <3>3
      <4> QED
        BY <1>7, <4>1, <4>2 DEF Precedes
    <3> QED
      BY <1>5, <1>7, <3>2, <3>3
  <2> QED
    BY <1>10, <2>2, <2>3
<1>11. ASSUME NEW v \in Vectors(key), Precedes(order, D, v, Carry), v # idx
       PROVE  Precedes(order, D, v, idx)
  <2>1. v \in [D -> Nat] /\ \A d \in D : v[d] < key.sizes[d]
    BY VectorFacts
  <2>2. PICK d \in D : v[d] < Carry[d] /\ \A e \in D : order[e] > order[d] => v[e] = Carry[e]
    BY <1>11 DEF Precedes
  <2>3. order[d] >= order[p]
    BY <1>5, <1>7, <1>8, <2>1, <2>2
  <2>4. CASE order[d] > order[p]
    <3>1. v[d] < idx[d] /\ \A e \in D : order[e] > order[d] => v[e] = idx[e]
      BY <1>5, <1>7, <1>8, <2>2, <2>4
    <3> QED
      BY <3>1 DEF Precedes
  <2>5. CASE order[d] = order[p]
    <3>1. d = p /\ v[p] <= idx[p]
      BY <1>2, <1>3, <1>7, <1>8, <2>1, <2>2, <2>5
    <3>2. \A e \in D : order[e] > order[p] => v[e] = idx[e]
      BY <1>5, <1>7, <1>8, <2>2, <3>1
    <3>3. PICK c \in D : v[c] # idx[c] /\ \A e \in D : order[e] > order[c] => v[e] = idx[e]
      BY <1>11, LastDifference
    <3>4. CASE order[c] < order[p]
      <4>1. Full(c)
        BY <1>6, <3>4
      <4>2. v[c] \in Nat /\ idx[c] \in Nat /\ key.sizes[c] \in Nat /\ v[c] < key.sizes[c]
        BY <1>1, <1>3, <2>1
      <4>3. v[c] < idx[c]
        BY <3>3, <4>1, <4>2 DEF Full
      <4> QED
        BY <3>3, <4>3 DEF Precedes
    <3>5. CASE order[c] >= order[p]
      <4>1. c = p
        BY <1>2, <1>5, <1>7, <3>2, <3>3, <3>5
      <4>2. v[c] < idx[c]
        BY <1>3, <2>1, <3>1, <3>3, <4>1
      <4> QED
        BY <3>3, <4>2 DEF Precedes
    <3> QED
      BY <1>5, <1>7, <3>4, <3>5
  <2> QED
    BY <1>5, <1>7, <2>3, <2>4, <2>5
<1> QED
  BY <1>9, <1>10, <1>11 DEF Passed

\* The odometer itself has not been passed.
LEMMA NotPassed ==
  ASSUME key \in Keys, idx \in Vectors(key)
  PROVE  idx \notin Passed(key, order, idx)
BY VectorFacts DEF Passed, Precedes

-----------------------------------------------------------------------------
(* The steps *)

\* At its start the odometer has passed nothing.
LEMMA StartsTurning ==
  ASSUME NEW k \in Keys, NEW o \in Injection(Outer(k), Outer(k)), Vectors(k) # {}
  PROVE  /\ [d \in Outer(k) |-> 0] \in Vectors(k)
         /\ Passed(k, o, [d \in Outer(k) |-> 0]) = {}
<1> DEFINE z == [d \in Outer(k) |-> 0]
<1>1. PICK v : v \in Vectors(k)
  OBVIOUS
<1>2. \A d \in Outer(k) : 0 < k.sizes[d]
  BY <1>1, VectorFacts, KeyFacts
<1>3. z \in Vectors(k)
  BY <1>2, VectorFacts
<1>4. Passed(k, o, z) = {}
  BY VectorFacts DEF Passed, Precedes
<1> QED
  BY <1>3, <1>4

\* A table grows by a row.
LEMMA ListedAppend ==
  ASSUME NEW S, NEW tb \in Seq(S), NEW e \in S
  PROVE  /\ Append(tb, e) \in Seq(S) /\ Len(Append(tb, e)) = Len(tb) + 1
         /\ ListedIn(Append(tb, e)) = ListedIn(tb) \cup {e.of}
<1>1. /\ Append(tb, e) \in Seq(S) /\ Len(Append(tb, e)) = Len(tb) + 1 /\ Len(tb) \in Nat
      /\ DOMAIN tb = 1..Len(tb) /\ DOMAIN Append(tb, e) = 1..(Len(tb) + 1)
      /\ \A i \in 1..Len(tb) : Append(tb, e)[i] = tb[i]
      /\ Append(tb, e)[Len(tb) + 1] = e
  OBVIOUS
<1>2. DOMAIN Append(tb, e) = DOMAIN tb \cup {Len(tb) + 1}
  BY <1>1
<1> HIDE DEF ListedIn
<1>3. ListedIn(Append(tb, e)) = ListedIn(tb) \cup {e.of}
  <2>1. ASSUME NEW x \in ListedIn(Append(tb, e)) PROVE x \in ListedIn(tb) \cup {e.of}
    BY <1>1, <1>2 DEF ListedIn
  <2>2. ASSUME NEW x \in ListedIn(tb) PROVE x \in ListedIn(Append(tb, e))
    BY <1>1, <1>2 DEF ListedIn
  <2>3. e.of \in ListedIn(Append(tb, e))
    BY <1>1, <1>2 DEF ListedIn
  <2> QED
    BY <2>1, <2>2, <2>3
<1> QED
  BY <1>1, <1>3

\* Of two dimensions, one is sorted earlier.
LEMMA EarlierIsTotal ==
  ASSUME NEW k \in Keys, NEW d \in Outer(k), NEW e \in Outer(k)
  PROVE  d = e \/ Earlier(k.strides[1], d, e) \/ Earlier(k.strides[1], e, d)
<1>1. PICK s : s = k.strides[1] /\ s \in Seq(Nat) /\ Len(s) = Len(k.sizes)
  BY KeysAssumption
<1>2. Outer(k) = 1..(Len(k.sizes) - 1) /\ Len(k.sizes) - 1 \in Nat
  BY VectorFacts
<1>3. d \in 1..Len(s) /\ e \in 1..Len(s)
  BY <1>1, <1>2
<1>4. s[d] \in Nat /\ s[e] \in Nat /\ d \in Nat /\ e \in Nat
  <2>1. DOMAIN s = 1..Len(s) /\ \A i \in 1..Len(s) : s[i] \in Nat
    BY <1>1
  <2>2. d \in Nat /\ e \in Nat
    BY <1>2
  <2> QED
    BY <1>3, <2>1, <2>2
<1>5. d = e \/ Earlier(s, d, e) \/ Earlier(s, e, d)
  BY <1>4 DEF Earlier
<1> QED
  BY <1>1, <1>5

\* The vectors that precede another are those that come before it.
LEMMA ComesIs ==
  ASSUME NEW k \in Keys, NEW o \in Sorted(k), NEW v, NEW w
  PROVE  Precedes(o, Outer(k), v, w) <=> Comes(k, v, w)
<1>1. o \in [Outer(k) -> Outer(k)]
      /\ \A a, b \in Outer(k) : Earlier(k.strides[1], a, b) => o[a] < o[b]
  BY DEF Sorted, Injection
<1>2. \A d \in Outer(k) : d \in Int
  BY VectorFacts
<1>3. ASSUME NEW d \in Outer(k), NEW e \in Outer(k)
      PROVE  o[e] > o[d] <=> Earlier(k.strides[1], d, e)
  <2>1. o[d] \in Int /\ o[e] \in Int
    BY <1>1, <1>2
  <2>2. Earlier(k.strides[1], d, e) => o[d] < o[e]
    BY <1>1
  <2>3. Earlier(k.strides[1], e, d) => o[e] < o[d]
    BY <1>1
  <2> QED
    BY <2>1, <2>2, <2>3, EarlierIsTotal
<1> QED
  BY <1>3 DEF Precedes, Comes

\* No vector comes before itself, nor do two before each other.
LEMMA ComesIsStrict ==
  ASSUME NEW k \in Keys, NEW v \in Vectors(k), NEW w \in Vectors(k), Comes(k, v, w)
  PROVE  v # w /\ ~ Comes(k, w, v)
<1>1. \A d \in Outer(k) : v[d] \in Nat /\ w[d] \in Nat
  BY VectorFacts
<1>2. PICK d \in Outer(k) :
        v[d] < w[d] /\ \A e \in Outer(k) : Earlier(k.strides[1], d, e) => v[e] = w[e]
  BY DEF Comes
<1>3. ASSUME Comes(k, w, v) PROVE FALSE
  <2>1. PICK c \in Outer(k) :
          w[c] < v[c] /\ \A e \in Outer(k) : Earlier(k.strides[1], c, e) => w[e] = v[e]
    BY <1>3 DEF Comes
  <2>2. d = c \/ Earlier(k.strides[1], d, c) \/ Earlier(k.strides[1], c, d)
    BY EarlierIsTotal
  <2> QED
    BY <1>1, <1>2, <2>1, <2>2
<1> QED
  BY <1>1, <1>2, <1>3

\* Initially no table is in use and none is cached.
LEMMA InitTableInv == RowsInit => TableInv
BY DEF RowsInit, TableInv

\* A new table is empty, and its odometer has passed nothing.
LEMMA MissInv ==
  ASSUME TableInv, NEW k \in Keys, Miss(k)
  PROVE  TableInv'
<1>1. /\ at' = "rows" /\ key' = k /\ table' = <<>> /\ cache' = cache
      /\ order' \in Sorted(k) /\ idx' = [d \in Outer(k) |-> 0]
  BY DEF Miss
<1>2. order' \in Injection(Outer(k), Outer(k))
  BY <1>1 DEF Sorted
<1>3. /\ ListedIn(table') = {} /\ Len(table') = 0 /\ table' \in Seq(Entries(k))
      /\ Ordered(k, table')
  BY <1>1 DEF ListedIn, Ordered
<1>4. CASE Vectors(k) = {}
  <2>1. Rows(k) = 0
    BY <1>4, KeyFacts, FS_EmptySet
  <2>2. Complete(k, table')
    BY <1>3, <1>4, <2>1 DEF Complete
  <2> QED
    BY <1>1, <1>2, <1>3, <2>2 DEF TableInv
<1>5. CASE Vectors(k) # {}
  <2>1. idx' \in Vectors(k) /\ Passed(k, order', idx') = {}
    BY <1>1, <1>2, <1>5, StartsTurning
  <2>2. Cardinality(ListedIn(table')) = Len(table')
    BY <1>3, FS_EmptySet
  <2>3. Turning'
    BY <1>1, <1>3, <2>1, <2>2 DEF Turning
  <2> QED
    BY <1>1, <1>2, <1>3, <2>3 DEF TableInv
<1> QED
  BY <1>4, <1>5

\* The row that is listed is the one the odometer moves past.
LEMMA RowInv ==
  ASSUME TableInv, Row
  PROVE  TableInv'
<1> DEFINE e == [of |-> idx, offsets |-> Offsets(key, idx)]
<1>1. /\ at = "rows" /\ Len(table) < Rows(key) /\ table' = Append(table, e) /\ idx' = Carry
      /\ at' = at /\ key' = key /\ cache' = cache /\ order' = order
  BY DEF Row
<1>2. /\ key \in Keys /\ order \in Sorted(key) /\ order \in Injection(Outer(key), Outer(key))
      /\ table \in Seq(Entries(key)) /\ Ordered(key, table)
  BY <1>1 DEF TableInv, Sorted
<1>3. IsFiniteSet(Vectors(key)) /\ Rows(key) = Cardinality(Vectors(key)) /\ Rows(key) \in Nat
  BY <1>2, KeyFacts, FS_CardinalityType
<1>4. Turning
  <2>1. Complete(key, table) \/ Turning
    BY <1>1 DEF TableInv
  <2>2. Len(table) # Rows(key)
    BY <1>1, <1>2, <1>3
  <2> QED
    BY <2>1, <2>2 DEF Complete
<1>5. /\ idx \in Vectors(key) /\ ListedIn(table) = Passed(key, order, idx)
      /\ Cardinality(ListedIn(table)) = Len(table)
  BY <1>4 DEF Turning
<1>6. e \in Entries(key)
  BY <1>5 DEF Entries
<1>7. /\ table' \in Seq(Entries(key)) /\ Len(table') = Len(table) + 1
      /\ ListedIn(table') = ListedIn(table) \cup {idx}
  BY <1>1, <1>2, <1>6, ListedAppend
<1>8. Cardinality(ListedIn(table')) = Len(table')
  <2>1. ListedIn(table) \subseteq Vectors(key)
    BY <1>5 DEF Passed
  <2>2. IsFiniteSet(ListedIn(table))
    BY <1>3, <2>1, FS_Subset
  <2>3. idx \notin ListedIn(table)
    BY <1>2, <1>5, NotPassed
  <2> QED
    BY <1>5, <1>7, <2>2, <2>3, FS_AddElement
<1>11. Ordered(key, table')
  <2> SUFFICES ASSUME NEW i \in DOMAIN table', NEW j \in DOMAIN table', i < j
               PROVE  Comes(key, table'[i].of, table'[j].of)
    BY DEF Ordered
  <2>1. /\ Len(table) \in Nat /\ DOMAIN table = 1..Len(table) /\ DOMAIN table' = 1..(Len(table) + 1)
        /\ \A r \in 1..Len(table) : table'[r] = table[r]
        /\ table'[Len(table) + 1] = e
    BY <1>1, <1>2, <1>6
  <2>2. i \in DOMAIN table /\ table'[i] = table[i]
    BY <2>1
  <2>3. CASE j \in DOMAIN table
    BY <1>2, <2>1, <2>2, <2>3 DEF Ordered
  <2>4. CASE j \notin DOMAIN table
    <3>1. table'[j].of = idx
      BY <2>1, <2>4
    <3>2. table[i].of \in Passed(key, order, idx)
      BY <1>5, <2>2 DEF ListedIn
    <3> QED
      BY <1>2, <2>2, <3>1, <3>2, ComesIs DEF Passed
  <2> QED
    BY <2>3, <2>4
<1>9. CASE \A d \in Outer(key) : Full(d)
  <2>1. ListedIn(table') = Vectors(key)
    <3>1. Vectors(key) \subseteq Passed(key, order, idx) \cup {idx}
      BY <1>2, <1>5, <1>9, TurnsOver
    <3> QED
      BY <1>5, <1>7, <3>1 DEF Passed
  <2>2. Complete(key, table')
    BY <1>3, <1>7, <1>8, <2>1 DEF Complete
  <2> QED
    BY <1>1, <1>2, <1>7, <1>11, <2>2 DEF TableInv
<1>10. CASE ~ \A d \in Outer(key) : Full(d)
  <2>1. PICK x \in Outer(key) : ~ Full(x)
    BY <1>10
  <2>2. Carry \in Vectors(key) /\ Passed(key, order, Carry) = Passed(key, order, idx) \cup {idx}
    BY <1>2, <1>5, <2>1, TurnsOn
  <2>3. Turning'
    BY <1>1, <1>5, <1>7, <1>8, <2>2 DEF Turning
  <2> QED
    BY <1>1, <1>2, <1>7, <1>11, <2>3 DEF TableInv
<1> QED
  BY <1>9, <1>10

\* A table that has as many rows as the tensor is complete.
LEMMA EmplaceInv ==
  ASSUME TableInv, Emplace
  PROVE  TableInv'
<1>1. /\ at = "rows" /\ Len(table) = Rows(key) /\ at' = "have" /\ key' = key /\ table' = table
      /\ cache' = [k \in DOMAIN cache \cup {key} |-> IF k = key THEN table ELSE cache[k]]
  BY DEF Emplace, MakeKey
<1>2. /\ key \in Keys /\ table \in Seq(Entries(key)) /\ Ordered(key, table)
      /\ Complete(key, table) \/ Turning
  BY <1>1 DEF TableInv
<1>3. Complete(key, table)
  <2> SUFFICES ASSUME Turning PROVE Complete(key, table)
    BY <1>2
  <2>1. ListedIn(table) \subseteq Vectors(key) /\ Cardinality(ListedIn(table)) = Rows(key)
    BY <1>1 DEF Turning, Passed
  <2>2. ListedIn(table) = Vectors(key)
    BY <1>2, <2>1, KeyFacts, FS_Subset
  <2> QED
    BY <1>1, <1>2, <2>2 DEF Complete
<1>4. \A k \in DOMAIN cache' : k \in Keys /\ Complete(k, cache'[k]) /\ Ordered(k, cache'[k])
  BY <1>1, <1>2, <1>3 DEF TableInv
<1> QED
  BY <1>1, <1>2, <1>3, <1>4 DEF TableInv

\* No step breaks the invariant.
LEMMA NextTableInv ==
  ASSUME TableInv, [RowsNext]_rowsVars
  PROVE  TableInv'
<1>1. CASE UNCHANGED rowsVars
  BY <1>1 DEF TableInv, Turning, rowsVars, Full, Carry
<1>2. ASSUME NEW k \in Keys, Hit(k) PROVE TableInv'
  <2>1. /\ k \in DOMAIN cache /\ at' = "have" /\ key' = k /\ table' = cache[k] /\ cache' = cache
    BY <1>2 DEF Hit, MakeKey
  <2>2. Complete(k, cache[k]) /\ Ordered(k, cache[k])
    BY <2>1 DEF TableInv
  <2> QED
    BY <1>2, <2>1, <2>2 DEF TableInv
<1>3. CASE Release
  BY <1>3 DEF Release, TableInv
<1> QED
  BY <1>1, <1>2, <1>3, MissInv, RowInv, EmplaceInv DEF RowsNext

\* The table in use and every table in the cache are complete, or still being listed.
THEOREM TableInvariant == RowsSpec => []TableInv
BY InitTableInv, NextTableInv, PTL DEF RowsSpec

-----------------------------------------------------------------------------
\* Two tables of layouts with the same sizes and the same strides of the input list
\* the same rows at the same places, whatever the strides of the other tensors: the
\* norms that the forward saves by the place of the row in its table are found by the
\* backward in its own (rms_norm.cc 366-367, 423-424).
THEOREM TablesAgree ==
  ASSUME NEW k \in Keys, NEW l \in Keys, k.sizes = l.sizes, k.strides[1] = l.strides[1],
         NEW a, NEW b, Complete(k, a), Ordered(k, a), Complete(l, b), Ordered(l, b)
  PROVE  DOMAIN a = DOMAIN b /\ \A r \in DOMAIN a : a[r].of = b[r].of
<1>1. Rows(k) = Rows(l) /\ Outer(k) = Outer(l) /\ Vectors(k) = Vectors(l)
  BY DEF Rows, Outer, Vectors
<1>2. \A v, w : Comes(k, v, w) <=> Comes(l, v, w)
  BY <1>1 DEF Comes
<1>3. DOMAIN a = 1..Rows(k) /\ DOMAIN b = 1..Rows(k)
  BY <1>1 DEF Complete
<1>4. \A r \in DOMAIN a : a[r].of \in Vectors(k) /\ b[r].of \in Vectors(k)
  BY <1>1, <1>3 DEF Complete, ListedIn
<1>5. Rows(k) \in Nat
  BY KeyFacts, FS_CardinalityType
<1> DEFINE Bad == {r \in DOMAIN a : a[r].of # b[r].of}
<1>6. ASSUME Bad # {} PROVE FALSE
  <2>1. Bad \subseteq Nat
    BY <1>3
  <2>2. PICK r \in Bad : \A q \in Bad : r <= q
    BY <1>6, <2>1, Least
  <2>3. /\ r \in 1..Rows(k) /\ a[r].of # b[r].of /\ r \in Nat
        /\ \A q \in 1..Rows(k) : q < r => a[q].of = b[q].of
    BY <1>3, <2>1, <2>2
  <2> HIDE DEF Bad
  <2>4. PICK i \in 1..Rows(k) : b[i].of = a[r].of
    BY <1>1, <1>3, <1>4, <2>3 DEF Complete, ListedIn
  <2>5. PICK j \in 1..Rows(k) : a[j].of = b[r].of
    BY <1>1, <1>3, <1>4, <2>3 DEF Complete, ListedIn
  <2>6. i > r
    <3>1. ~ (i < r)
      <4>1. i < r => Comes(k, a[i].of, a[r].of)
        BY <1>3, <2>3 DEF Ordered
      <4> QED
        BY <1>3, <1>4, <2>3, <2>4, <4>1, ComesIsStrict
    <3> QED
      BY <2>3, <2>4, <3>1
  <2>7. j > r
    <3>1. ~ (j < r)
      <4>1. j < r => Comes(k, b[j].of, b[r].of)
        BY <1>2, <1>3, <2>3 DEF Ordered
      <4> QED
        BY <1>3, <1>4, <2>3, <2>5, <4>1, ComesIsStrict
    <3> QED
      BY <2>3, <2>5, <3>1
  <2>8. Comes(k, a[r].of, b[r].of)
    BY <1>3, <2>3, <2>5, <2>7 DEF Ordered
  <2>9. Comes(k, b[r].of, a[r].of)
    BY <1>2, <1>3, <2>3, <2>4, <2>6 DEF Ordered
  <2> QED
    BY <1>3, <1>4, <2>3, <2>8, <2>9, ComesIsStrict
<1> QED
  BY <1>3, <1>6

-----------------------------------------------------------------------------
\* What a complete table is, in the words of the two properties.
LEMMA TableInvImplies == TableInv => EveryRowOnce /\ OffsetsFit
<1> SUFFICES ASSUME TableInv, at = "have"
             PROVE  EveryRowOnce /\ OffsetsFit
  BY DEF EveryRowOnce, OffsetsFit
<1>1. key \in Keys /\ Complete(key, table)
  BY DEF TableInv
<1>2. EveryRowOnce
  BY <1>1, KeyFacts DEF Complete, EveryRowOnce, Listed, ListedIn
<1>3. \A r \in DOMAIN table : table[r] \in Entries(key)
  BY <1>1 DEF Complete
<1>4. OffsetsFit
  BY <1>3 DEF OffsetsFit, Entries
<1> QED
  BY <1>2, <1>4

\* The table that a kernel uses lists every row of the tensors exactly once, for
\* every layout, in whatever order the sort leaves the dimensions, computed now or
\* found in the cache (rms_norm.cc 344-458).
THEOREM EveryRowIsListedOnce == RowsSpec => []EveryRowOnce
BY TableInvariant, TableInvImplies, PTL

\* Every table addresses each tensor of the call by its own strides, from the cache
\* too: the key holds all that the offsets depend on (rms_norm.cc 262-342).
THEOREM CachedOffsetsFit == RowsSpec => []OffsetsFit
BY TableInvariant, TableInvImplies, PTL
=============================================================================
