------------------------ MODULE KernelsResultProofs ------------------------
(***************************************************************************)
(* What the operators of Kernels compute, for any team, vector length and     *)
(* tensors: when one returns, its output holds the elements that its logical  *)
(* indices ask for, and nothing else is written.  The stores of all units are *)
(* the elements of the output, each once; and a unit stores what the contents *)
(* of the operands at the call make of it, since no other unit has written    *)
(* what it reads, and the norms are those of the rows.                       *)
(***************************************************************************)
EXTENDS KernelsProofs

(* What a store is to leave at its address. *)

\* What an operator reads there: the norm of the row that the table lists at this
\* place, or what the buffer held at the call.
Origin(c, a) ==
  IF a[1] = "rms" THEN Norm(RowItems(c.ins[1], Offset(c.ins[1].stride, table[a[2] + 1].of))) ELSE a
Origins(c, s) == [i \in DOMAIN s |-> Origin(c, s[i])]

Wanted(c, s) == [name |-> s.name, lane |-> s.lane, from |-> Origins(c, s.from)]
Leaves(c, s) == [to |-> s.to, val |-> Wanted(c, s)]

UnitsOf(c) == 0..(Units(c) - 1)

\* Every store is to leave an element of the output, or a norm ...
StoresElements(c) ==
  \A u \in UnitsOf(c) : \A s \in Stores(c, u) :
    s.to[1] = "rms" \/ \E v \in All(c.out) : Leaves(c, s) = Element(c, v)

\* ... every element is what a store is to leave ...
CoversOutput(c) ==
  \A v \in All(c.out) : \E u \in UnitsOf(c) : \E s \in Stores(c, u) :
    s.to[1] # "rms" /\ Leaves(c, s) = Element(c, v)

\* ... and a unit stores to no address twice.
StoresOnce(c) == \A u \in UnitsOf(c) : \A s, r \in Stores(c, u) : s.to = r.to => s = r

\* The places of the operands.
Places(c) == {Item(c.ins[p[1]], p[2]) : p \in (DOMAIN c.ins) \X Int}

\* An item of an operand is one of its places.
LEMMA IsPlace ==
  ASSUME NEW c \in Calls, NEW k \in DOMAIN c.ins, NEW m \in Int
  PROVE  Item(c.ins[k], m) \in Places(c)
<1>1. <<k, m>> \in (DOMAIN c.ins) \X Int /\ <<k, m>>[1] = k /\ <<k, m>>[2] = m
  OBVIOUS
<1> QED
  BY <1>1 DEF Places

\* What is read at a place of an operand is what it held at the call.
LEMMA PlaceOrigin ==
  ASSUME NEW c \in Calls
  PROVE  \A a \in Places(c) : Origin(c, a) = a /\ a[1] # "rms"
<1> SUFFICES ASSUME NEW a \in Places(c) PROVE Origin(c, a) = a /\ a[1] # "rms"
  OBVIOUS
<1>1. PICK p \in (DOMAIN c.ins) \X Int : a = Item(c.ins[p[1]], p[2])
  BY DEF Places
<1>2. p[1] \in DOMAIN c.ins
  OBVIOUS
<1>3. a[1] = c.ins[p[1]].at
  BY <1>1 DEF Item
<1>4. a[1] # "rms"
  BY <1>2, <1>3, CallFacts
<1> QED
  BY <1>4 DEF Origin

\* So it is for a sequence of places.
LEMMA PlacesOrigin ==
  ASSUME NEW c \in Calls, NEW s \in Seq(Places(c))
  PROVE  Origins(c, s) = s
<1>1. PICK n \in Nat : Len(s) = n
  OBVIOUS
<1>2. DOMAIN s = 1..n /\ s \in [1..n -> Places(c)] /\ \A i \in 1..n : s[i] \in Places(c)
  BY <1>1, SeqIsVector
<1>3. \A i \in 1..n : Origin(c, s[i]) = s[i]
  BY <1>2, PlaceOrigin
<1>4. Origins(c, s) = [i \in 1..n |-> s[i]]
  BY <1>2, <1>3 DEF Origins
<1> QED
  BY <1>2, <1>4

\* What two sequences of addresses hold, one after the other.
LEMMA OriginsJoin ==
  ASSUME NEW c, NEW X, NEW s \in Seq(X), NEW r \in Seq(X)
  PROVE  Origins(c, s \o r) = Origins(c, s) \o Origins(c, r)
<1> DEFINE F(a) == Origin(c, a)
           Y == {F(a) : a \in X}
           p == [i \in DOMAIN s |-> F(s[i])]
           q == [i \in DOMAIN r |-> F(r[i])]
<1>1. PICK m \in Nat, n \in Nat : m = Len(s) /\ n = Len(r)
  OBVIOUS
<1>2. DOMAIN s = 1..m /\ DOMAIN r = 1..n
  BY <1>1
<1>3. (\A i \in 1..m : s[i] \in X) /\ \A i \in 1..n : r[i] \in X
  BY <1>1, SeqIsVector
<1>4. p \in [1..m -> Y] /\ q \in [1..n -> Y]
  BY <1>2, <1>3
<1>5. p \in Seq(Y) /\ Len(p) = m /\ q \in Seq(Y) /\ Len(q) = n
  BY <1>4, VectorLen
<1>6. /\ DOMAIN (s \o r) = 1..(m + n)
      /\ \A i \in 1..(m + n) : (s \o r)[i] = IF i <= m THEN s[i] ELSE r[i - m]
  BY <1>1
<1>7. (\A i \in 1..m : p[i] = F(s[i])) /\ \A i \in 1..n : q[i] = F(r[i])
  BY <1>2
<1> HIDE DEF p, q, F, Y
<1>8. /\ DOMAIN (p \o q) = 1..(m + n) /\ p \o q \in [1..(m + n) -> Y]
      /\ \A i \in 1..(m + n) : (p \o q)[i] = IF i <= m THEN p[i] ELSE q[i - m]
  <2>1. p \o q \in Seq(Y) /\ Len(p \o q) = m + n
    <3>1. p \o q \in Seq(Y)
      BY <1>5
    <3>2. DOMAIN (p \o q) = 1..(m + n)
      BY <1>5
    <3>3. PICK z : z = p \o q
      OBVIOUS
    <3>4. Len(z) \in Nat /\ DOMAIN z = 1..Len(z) /\ DOMAIN z = 1..(m + n)
      BY <3>1, <3>2, <3>3
    <3>5. Len(z) = m + n
      <4>1. PICK k \in Nat : k = Len(z)
        BY <3>4
      <4>2. PICK l \in Nat : l = m + n
        OBVIOUS
      <4>3. 1..k = 1..l
        BY <3>4, <4>1, <4>2
      <4>4. k = l
        BY <4>3
      <4> QED
        BY <4>1, <4>2, <4>4
    <3> QED
      BY <3>1, <3>3, <3>5
  <2>2. \A i \in 1..(m + n) : (p \o q)[i] = IF i <= m THEN p[i] ELSE q[i - m]
    BY <1>5
  <2> QED
    BY <2>1, <2>2, SeqIsVector
<1>9. \A i \in 1..(m + n) : F((s \o r)[i]) = (p \o q)[i]
  <2> SUFFICES ASSUME NEW i \in 1..(m + n) PROVE F((s \o r)[i]) = (p \o q)[i]
    OBVIOUS
  <2>1. CASE i <= m
    <3>1. i \in 1..m
      BY <2>1
    <3> QED
      BY <1>6, <1>7, <1>8, <2>1, <3>1
  <2>2. CASE ~ (i <= m)
    <3>1. i - m \in 1..n
      BY <2>2
    <3> QED
      BY <1>6, <1>7, <1>8, <2>2, <3>1
  <2> QED
    BY <2>1, <2>2
<1>10. Origins(c, s \o r) = [i \in 1..(m + n) |-> F((s \o r)[i])]
  BY <1>6 DEF Origins, F
<1>11. Origins(c, s) = p /\ Origins(c, r) = q
  BY DEF Origins, p, q, F
<1>12. p \o q = [i \in 1..(m + n) |-> (p \o q)[i]]
  BY <1>8
<1> QED
  BY <1>9, <1>10, <1>11, <1>12

-----------------------------------------------------------------------------
(* The elements, by operator *)

\* What Element says of each operator.
LEMMA ElementIs ==
  ASSUME NEW c \in Calls, NEW v
  PROVE  /\ c.name \in Flat \cup {"sve_add_scalar"} => Element(c, v) = PointElement(c, v)
         /\ c.name = "sve_add"          => Element(c, v) = AddElement(c, v)
         /\ c.name = "random_uniform"   => Element(c, v) = FillElement(c, v)
         /\ c.name \in Rope             => Element(c, v) = RopeElement(c, v)
         /\ c.name = "rmsnorm_forward"  => Element(c, v) = ForwardElement(c, v)
         /\ c.name = "rmsnorm_backward" => Element(c, v) = BackwardElement(c, v)
         /\ c.name = "act_scale_pack"   => Element(c, v) = PackElement(c, v)
<1>1. c.name \in Flat \cup {"sve_add_scalar"} => Element(c, v) = PointElement(c, v)
  BY DEF Element, Flat, Silu, Rope
<1>2. c.name = "sve_add" => Element(c, v) = AddElement(c, v)
  BY DEF Element, Flat, Silu, Rope
<1>3. c.name = "random_uniform" => Element(c, v) = FillElement(c, v)
  BY DEF Element, Flat, Silu, Rope
<1>4. c.name \in Rope => Element(c, v) = RopeElement(c, v)
  BY DEF Element, Flat, Silu, Rope
<1>5. c.name = "rmsnorm_forward" => Element(c, v) = ForwardElement(c, v)
  BY DEF Element, Flat, Silu, Rope
<1>6. c.name = "rmsnorm_backward" => Element(c, v) = BackwardElement(c, v)
  BY DEF Element, Flat, Silu, Rope
<1>7. c.name = "act_scale_pack" => Element(c, v) = PackElement(c, v)
  BY DEF Element, Flat, Silu, Rope
<1> QED
  BY <1>1, <1>2, <1>3, <1>4, <1>5, <1>6, <1>7

\* A store and the element that it is to leave.
LEMMA Leaving ==
  ASSUME NEW c, NEW to, NEW name, NEW lane, NEW from, NEW full, Origins(c, from) = full
  PROVE  Leaves(c, Put(to, name, lane, from)) = Expect(to, name, lane, full)
BY DEF Leaves, Wanted, Put, Expect

\* How many units each operator has.
LEMMA UnitsAre ==
  ASSUME NEW c \in Calls
  PROVE  /\ c.name \in Flat => Units(c) = Blocks(Numel(c.ins[1].size))
         /\ c.name = "random_uniform" => Units(c) = DivUp(Numel(c.out.size), 4)
         /\ Strided(c) => Units(c) = IF Len(c.out.size) < 2 THEN 1
                                     ELSE Inner(c.out.size, 0, Len(c.out.size) - 1)
         /\ c.name \in Rope => Units(c) = c.ins[1].size[1] * c.ins[1].size[2]
         /\ c.name = "act_scale_pack" => Units(c) = c.ins[1].size[1]
<1>1. c.name \in Flat => Units(c) = Blocks(Numel(c.ins[1].size))
  BY DEF Units, Flat, Silu, Strided, Rope, Rms
<1>2. c.name = "random_uniform" => Units(c) = DivUp(Numel(c.out.size), 4)
  BY DEF Units, Flat, Silu, Strided, Rope, Rms
<1>3. Strided(c) => Units(c) = IF Len(c.out.size) < 2 THEN 1
                               ELSE Inner(c.out.size, 0, Len(c.out.size) - 1)
  BY DEF Units, Flat, Silu, Strided, Rope, Rms
<1>4. c.name \in Rope => Units(c) = c.ins[1].size[1] * c.ins[1].size[2]
  BY DEF Units, Flat, Silu, Strided, Rope, Rms
<1>5. c.name = "act_scale_pack" => Units(c) = c.ins[1].size[1]
  BY DEF Units, Flat, Silu, Strided, Rope, Rms
<1> QED
  BY <1>1, <1>2, <1>3, <1>4, <1>5

\* What Addressed asks of each operator.
LEMMA AddressedIs ==
  ASSUME NEW c \in Calls, Addressed(c)
  PROVE  /\ c.name \in Flat =>
              Dense(c.out) /\ \A k \in DOMAIN c.ins : LayoutOf(c.ins[k]) = LayoutOf(c.out)
         /\ c.name = "random_uniform" => Dense(c.out)
         /\ c.name = "sve_add_scalar" => IsRowMajor(c.out)
         /\ c.name \in Rope => c.ins[1].stride[4] = 1
         /\ c.name = "act_scale_pack" =>
              /\ IsRowMajor(c.out) /\ \A k \in DOMAIN c.ins : IsRowMajor(c.ins[k])
              /\ c.out.size[1] = c.ins[1].size[1]
<1>1. c.name \in Flat =>
        Dense(c.out) /\ \A k \in DOMAIN c.ins : LayoutOf(c.ins[k]) = LayoutOf(c.out)
  BY DEF Addressed, Flat, Silu, Rope
<1>2. c.name = "random_uniform" => Dense(c.out)
  BY DEF Addressed, Flat, Silu, Rope
<1>3. c.name = "sve_add_scalar" => IsRowMajor(c.out)
  BY DEF Addressed, Flat, Silu, Rope
<1>4. c.name \in Rope => c.ins[1].stride[4] = 1
  BY DEF Addressed, Flat, Silu, Rope
<1>5. c.name = "act_scale_pack" =>
        /\ IsRowMajor(c.out) /\ \A k \in DOMAIN c.ins : IsRowMajor(c.ins[k])
        /\ c.out.size[1] = c.ins[1].size[1]
  BY DEF Addressed, Flat, Silu, Rope
<1> QED
  BY <1>1, <1>2, <1>3, <1>4, <1>5

\* The places of a dense tensor are those of its elements.
LEMMA DensePlaces ==
  ASSUME NEW t, Dense(t)
  PROVE  /\ \A v \in All(t) : Offset(t.stride, v) \in 0..(Numel(t.size) - 1)
         /\ \A e \in 0..(Numel(t.size) - 1) : \E v \in All(t) : Offset(t.stride, v) = e
BY DEF Dense

-----------------------------------------------------------------------------
(* The pointwise operators and uniform_fill *)

FlatStore(c, e) == Put(Item(c.out, e), c.name, <<>>, [k \in DOMAIN c.ins |-> Item(c.ins[k], e)])

\* An operand's item at the place of an index is its element.
LEMMA FlatLeaves ==
  ASSUME NEW c \in Calls, c.name \in Flat, Addressed(c), NEW v \in All(c.out), NEW e \in Int,
         Offset(c.out.stride, v) = e
  PROVE  Leaves(c, FlatStore(c, e)) = Element(c, v)
<1> DEFINE from == [k \in DOMAIN c.ins |-> Item(c.ins[k], e)]
           full == [k \in DOMAIN c.ins |-> At(c.ins[k], v)]
<1>1. ASSUME NEW k \in DOMAIN c.ins PROVE Origin(c, from[k]) = At(c.ins[k], v)
  <2>1. c.ins[k].stride = c.out.stride
    BY AddressedIs DEF LayoutOf
  <2>2. Item(c.ins[k], e) = At(c.ins[k], v)
    BY <2>1 DEF Item, At
  <2>3. Origin(c, Item(c.ins[k], e)) = Item(c.ins[k], e)
    BY IsPlace, PlaceOrigin
  <2> QED
    BY <2>2, <2>3
<1>2. DOMAIN from = DOMAIN c.ins
  OBVIOUS
<1> HIDE DEF from
<1>3. Origins(c, from) = full
  BY <1>1, <1>2 DEF Origins
<1> HIDE DEF full
<1>4. Item(c.out, e) = At(c.out, v)
  BY DEF Item, At
<1>5. Leaves(c, Put(Item(c.out, e), c.name, <<>>, from)) = Expect(At(c.out, v), c.name, <<>>, full)
  BY <1>3, <1>4, Leaving
<1>6. Element(c, v) = Expect(At(c.out, v), c.name, <<>>, full)
  BY ElementIs DEF PointElement, full
<1>7. FlatStore(c, e) = Put(Item(c.out, e), c.name, <<>>, from)
  BY DEF FlatStore, from
<1> QED
  BY <1>5, <1>6, <1>7

\* The pointwise operators store every element once.
LEMMA FlatRight ==
  ASSUME NEW c \in Calls, c.name \in Flat
  PROVE  /\ StoresOnce(c)
         /\ Addressed(c) => StoresElements(c) /\ CoversOutput(c)
<1> DEFINE n == Numel(c.ins[1].size)
<1>1. Units(c) = Blocks(n) /\ n \in Nat /\ c.out.at # "rms"
  <2>1. c.ins[1].size \in Seq(Nat)
    <3>1. 1 \in DOMAIN c.ins
      BY CallArity DEF Flat, Silu
    <3> QED
      BY <3>1, CallFacts
  <2> QED
    BY <2>1, UnitsAre, NumelType, CallFacts
<1>2. \A u : Stores(c, u) = {FlatStore(c, e) : e \in Block(2 * Lanes * u, n)}
  BY StoresAre DEF FlatStores, FlatStore
<1>3. \A e : FlatStore(c, e).to = <<c.out.at, e>>
  BY DEF FlatStore, Put, Item
<1> HIDE DEF n
<1>4. StoresOnce(c)
  <2> SUFFICES ASSUME NEW u \in UnitsOf(c), NEW s \in Stores(c, u), NEW r \in Stores(c, u),
                      s.to = r.to
               PROVE  s = r
    BY DEF StoresOnce
  <2>1. PICK e : s = FlatStore(c, e)
    BY <1>2
  <2>2. PICK f : r = FlatStore(c, f)
    BY <1>2
  <2>3. e = f
    BY <1>3, <2>1, <2>2
  <2> QED
    BY <2>1, <2>2, <2>3
<1>5. ASSUME Addressed(c) PROVE StoresElements(c) /\ CoversOutput(c)
  <2>1. Dense(c.out) /\ n = Numel(c.out.size)
    <3>1. 1 \in DOMAIN c.ins
      BY CallArity DEF Flat, Silu
    <3>2. c.ins[1].size = c.out.size
      BY <1>5, <3>1, AddressedIs DEF LayoutOf
    <3> QED
      BY <1>5, <3>2, AddressedIs DEF n
  <2>2. StoresElements(c)
    <3> SUFFICES ASSUME NEW u \in UnitsOf(c), NEW s \in Stores(c, u)
                 PROVE  \E v \in All(c.out) : Leaves(c, s) = Element(c, v)
      BY DEF StoresElements
    <3>1. PICK e \in Block(2 * Lanes * u, n) : s = FlatStore(c, e)
      BY <1>2
    <3>2. e \in 0..(n - 1)
      <4>1. u \in Nat
        BY DEF UnitsOf
      <4> QED
        BY <1>1, <4>1, BlockRange
    <3>3. PICK v \in All(c.out) : Offset(c.out.stride, v) = e
      BY <2>1, <3>2, DensePlaces
    <3> QED
      BY <1>5, <3>1, <3>2, <3>3, FlatLeaves
  <2>3. CoversOutput(c)
    <3> SUFFICES ASSUME NEW v \in All(c.out)
                 PROVE  \E u \in UnitsOf(c) : \E s \in Stores(c, u) :
                          s.to[1] # "rms" /\ Leaves(c, s) = Element(c, v)
      BY DEF CoversOutput
    <3>1. PICK e \in 0..(n - 1) : Offset(c.out.stride, v) = e
      BY <2>1, DensePlaces
    <3>2. e \in Sweep(n)
      BY <1>1, SweepIs
    <3>3. PICK u \in 0..(Blocks(n) - 1) : e \in Block(2 * Lanes * u, n)
      BY <3>2 DEF Sweep
    <3>4. u \in UnitsOf(c)
      BY <1>1 DEF UnitsOf
    <3>5. FlatStore(c, e) \in Stores(c, u) /\ FlatStore(c, e).to[1] # "rms"
      BY <1>1, <1>2, <1>3, <3>3
    <3>6. Leaves(c, FlatStore(c, e)) = Element(c, v)
      BY <1>5, <3>1, FlatLeaves
    <3> QED
      BY <3>4, <3>5, <3>6
  <2> QED
    BY <2>2, <2>3
<1> QED
  BY <1>4, <1>5

FillStore(c, u, l) == Put(Item(c.out, 4 * u + l), c.name, <<u, l>>, <<>>)

\* The lanes of a counter: four, or what is left of the elements.
LEMMA FillLanes ==
  ASSUME NEW n \in Nat, NEW u \in Nat
  PROVE  UNION {Half(Lanes * i, Min({4, n - 4 * u})) : i \in 0..3} = {l \in 0..3 : 4 * u + l < n}
<1> DEFINE x == n - 4 * u
<1>1. x \in Int /\ Lanes \in Nat \ {0}
  BY KernelsAssumption
<1>2. PICK m \in Int : m = Min({4, x}) /\ m = IF 4 <= x THEN 4 ELSE x
  <2> HIDE DEF x
  <2>1. Min({4, x}) = IF 4 <= x THEN 4 ELSE x
    BY <1>1 DEF Min
  <2> QED
    BY <1>1, <2>1
<1>3. ASSUME NEW i \in 0..3, NEW l \in Half(Lanes * i, m) PROVE l \in 0..3 /\ 4 * u + l < n
  <2>1. Lanes * i \in Nat
    BY <1>1
  <2>2. l \in Nat /\ l < m
    BY <1>1, <2>1 DEF Half
  <2> QED
    BY <1>2, <2>2
<1>4. ASSUME NEW l \in 0..3, 4 * u + l < n PROVE \E i \in 0..3 : l \in Half(Lanes * i, m)
  <2>1. l < m
    BY <1>2, <1>4
  <2>2. PICK i \in Nat : Lanes * i <= l /\ l < Lanes * i + Lanes
    <3> DEFINE k == Lanes
    <3>1. k \in Nat \ {0}
      BY <1>1
    <3> HIDE DEF k
    <3>2. l \div k \in Nat /\ k * (l \div k) <= l /\ l < k * (l \div k) + k
      BY <3>1
    <3> QED
      BY <3>2 DEF k
  <2>3. i <= 3
    <3>1. Lanes * i >= i
      BY <1>1, <2>2
    <3>2. Lanes * i \in Nat
      BY <1>1
    <3> QED
      BY <2>2, <3>1, <3>2
  <2>4. l \in Half(Lanes * i, m)
    <3>1. Lanes * i \in Nat
      BY <1>1
    <3> QED
      BY <1>1, <2>1, <2>2, <3>1 DEF Half
  <2> QED
    BY <2>3, <2>4
<1> QED
  BY <1>2, <1>3, <1>4

\* The numbers that a counter gives are those of the places in memory.
LEMMA FillLeaves ==
  ASSUME NEW c \in Calls, c.name = "random_uniform", NEW v \in All(c.out),
         NEW u \in Nat, NEW l \in 0..3, Offset(c.out.stride, v) = 4 * u + l
  PROVE  Leaves(c, FillStore(c, u, l)) = Element(c, v)
<1>1. Origins(c, <<>>) = <<>>
  <2>1. <<>> \in Seq(Places(c))
    OBVIOUS
  <2> QED
    BY <2>1, PlacesOrigin
<1>2. PICK m \in Nat : m = Offset(c.out.stride, v) /\ m = 4 * u + l
  OBVIOUS
<1>3. m \div 4 = u /\ m % 4 = l
  BY <1>2
<1>4. Element(c, v) = Expect(At(c.out, v), c.name, <<u, l>>, <<>>)
  BY <1>2, <1>3, ElementIs DEF FillElement
<1>5. Item(c.out, 4 * u + l) = At(c.out, v)
  BY DEF Item, At
<1> QED
  BY <1>1, <1>4, <1>5, Leaving DEF FillStore

\* uniform_fill stores every element once.
LEMMA FillRight ==
  ASSUME NEW c \in Calls, c.name = "random_uniform"
  PROVE  /\ StoresOnce(c)
         /\ Addressed(c) => StoresElements(c) /\ CoversOutput(c)
<1> DEFINE n == Numel(c.out.size)
<1>1. n \in Nat /\ n = Numel(c.out.size)
  BY CallFacts, NumelType
<1>2. ASSUME NEW u \in UnitsOf(c)
      PROVE  u \in Nat /\ Stores(c, u) = {FillStore(c, u, l) : l \in {l \in 0..3 : 4 * u + l < n}}
  <2>1. u \in Nat
    BY DEF UnitsOf
  <2>2. Stores(c, u) = {FillStore(c, u, l) : l \in UNION {Half(Lanes * i, Min({4, n - 4 * u})) : i \in 0..3}}
    BY StoresAre DEF FillStores, FillStore
  <2> HIDE DEF n
  <2> QED
    BY <1>1, <2>1, <2>2, FillLanes
<1> HIDE DEF n
<1>3. \A u, l : FillStore(c, u, l).to = <<c.out.at, 4 * u + l>>
  BY DEF FillStore, Put, Item
<1>4. StoresOnce(c)
  <2> SUFFICES ASSUME NEW u \in UnitsOf(c), NEW s \in Stores(c, u), NEW r \in Stores(c, u),
                      s.to = r.to
               PROVE  s = r
    BY DEF StoresOnce
  <2>1. PICK e \in 0..3 : s = FillStore(c, u, e)
    BY <1>2
  <2>2. PICK f \in 0..3 : r = FillStore(c, u, f)
    BY <1>2
  <2>3. 4 * u + e = 4 * u + f
    BY <1>3, <2>1, <2>2
  <2>4. e = f
    BY <1>2, <2>3
  <2> QED
    BY <2>1, <2>2, <2>4
<1>5. ASSUME Addressed(c) PROVE StoresElements(c) /\ CoversOutput(c)
  <2>1. Dense(c.out)
    BY <1>5, AddressedIs
  <2>2. StoresElements(c)
    <3> SUFFICES ASSUME NEW u \in UnitsOf(c), NEW s \in Stores(c, u)
                 PROVE  \E v \in All(c.out) : Leaves(c, s) = Element(c, v)
      BY DEF StoresElements
    <3>1. u \in Nat
      BY <1>2
    <3>2. PICK l \in 0..3 : s = FillStore(c, u, l) /\ 4 * u + l < n
      BY <1>2
    <3>3. 4 * u + l \in 0..(n - 1)
      BY <1>1, <3>1, <3>2
    <3>4. PICK v \in All(c.out) : Offset(c.out.stride, v) = 4 * u + l
      BY <1>1, <2>1, <3>3, DensePlaces
    <3> QED
      BY <3>1, <3>2, <3>4, FillLeaves
  <2>3. CoversOutput(c)
    <3> SUFFICES ASSUME NEW v \in All(c.out)
                 PROVE  \E u \in UnitsOf(c) : \E s \in Stores(c, u) :
                          s.to[1] # "rms" /\ Leaves(c, s) = Element(c, v)
      BY DEF CoversOutput
    <3>1. PICK m \in 0..(n - 1) : Offset(c.out.stride, v) = m
      BY <1>1, <2>1, DensePlaces
    <3>2. PICK u \in Nat, l \in 0..3 : m = 4 * u + l
      <4>1. m \div 4 \in Nat /\ m % 4 \in 0..3 /\ m = 4 * (m \div 4) + (m % 4)
        OBVIOUS
      <4> QED
        BY <4>1
    <3>3. u \in UnitsOf(c)
      <4>1. n \in Nat \ {0} /\ 4 \in Nat \ {0}
        BY <1>1
      <4>2. DivUp(n, 4) \in Nat \ {0} /\ n <= DivUp(n, 4) * 4
        BY <4>1, DivUpCovers
      <4>3. Units(c) = DivUp(n, 4)
        BY <1>1, UnitsAre
      <4> QED
        BY <1>1, <3>2, <4>2, <4>3 DEF UnitsOf
    <3>4. FillStore(c, u, l) \in Stores(c, u) /\ FillStore(c, u, l).to[1] # "rms"
      <4>1. 4 * u + l < n
        BY <1>1, <3>2
      <4> QED
        BY <1>2, <1>3, <3>3, <4>1, CallFacts
    <3>5. Leaves(c, FillStore(c, u, l)) = Element(c, v)
      BY <3>1, <3>2, FillLeaves
    <3> QED
      BY <3>3, <3>4, <3>5
  <2> QED
    BY <2>2, <2>3
<1> QED
  BY <1>4, <1>5

-----------------------------------------------------------------------------
(* sve_add *)

\* An item of an operand is read as it was at the call.
LEMMA ItemOrigin ==
  ASSUME NEW c \in Calls, NEW k \in DOMAIN c.ins, NEW m
  PROVE  Origin(c, Item(c.ins[k], m)) = Item(c.ins[k], m)
<1>1. Item(c.ins[k], m)[1] # "rms"
  BY CallFacts DEF Item
<1> QED
  BY <1>1 DEF Origin

\* An outer index, and a place in the row.
Extend(w, m, e) == [d \in 1..(m + 1) |-> IF d = m + 1 THEN e ELSE w[d]]

\* They are the index vectors of one more dimension.
LEMMA ExtendsAll ==
  ASSUME NEW sizes, NEW m \in Nat, \A d \in 1..(m + 1) : sizes[d] \in Nat
  PROVE  \A w \in Below(sizes, 1..m) : \A e \in 0..(sizes[m + 1] - 1) :
           Extend(w, m, e) \in Below(sizes, 1..(m + 1))
<1>1. \A w : w \in Below(sizes, 1..m) <=> w \in [1..m -> Nat] /\ \A d \in 1..m : w[d] < sizes[d]
  BY BelowIs
<1>2. \A v : v \in Below(sizes, 1..(m + 1)) <=>
               v \in [1..(m + 1) -> Nat] /\ \A d \in 1..(m + 1) : v[d] < sizes[d]
  BY BelowIs
<1>3. 1..(m + 1) = 1..m \cup {m + 1} /\ m + 1 \notin 1..m
  OBVIOUS
<1> SUFFICES ASSUME NEW w \in Below(sizes, 1..m), NEW e \in 0..(sizes[m + 1] - 1)
             PROVE  Extend(w, m, e) \in Below(sizes, 1..(m + 1))
  OBVIOUS
<1>4. w \in [1..m -> Nat] /\ \A d \in 1..m : w[d] < sizes[d]
  BY <1>1
<1>5. e \in Nat /\ e < sizes[m + 1]
  BY <1>3
<1> DEFINE x == Extend(w, m, e)
<1>6. x \in [1..(m + 1) -> Nat] /\ \A d \in 1..(m + 1) : x[d] < sizes[d]
  BY <1>3, <1>4, <1>5 DEF Extend
<1> HIDE DEF x
<1>7. x \in Below(sizes, 1..(m + 1))
  BY <1>2, <1>6
<1> QED
  BY <1>7 DEF x

Extended(sizes, m, D, v) == \E w \in Below(sizes, 1..m) : \E e \in D : v = Extend(w, m, e)

\* There are no others.
LEMMA ExtendsOnto ==
  ASSUME NEW sizes, NEW m \in Nat, NEW n \in Nat, n = m + 1, \A d \in 1..n : sizes[d] \in Nat,
         NEW v \in Below(sizes, 1..n), NEW D, D = 0..(sizes[n] - 1)
  PROVE  Extended(sizes, m, D, v)
<1> DEFINE w == [d \in 1..m |-> v[d]]
           e == v[n]
<1>1. v \in [1..n -> Nat] /\ \A d \in 1..n : v[d] < sizes[d]
  BY BelowIs
<1>2. 1..n = 1..m \cup {n} /\ n \notin 1..m /\ n \in 1..n
  OBVIOUS
<1>3. w \in [1..m -> Nat] /\ \A d \in 1..m : w[d] < sizes[d]
  BY <1>1, <1>2
<1>4. e \in D
  BY <1>1, <1>2
<1>5. v = Extend(w, m, e)
  BY <1>1, <1>2 DEF Extend
<1> HIDE DEF w, e
<1>6. w \in Below(sizes, 1..m)
  BY <1>2, <1>3, BelowIs
<1> QED
  BY <1>4, <1>5, <1>6 DEF Extended

\* A unit's outer index is one of the tensor.
LEMMA UnravelType ==
  ASSUME NEW sizes, NEW n \in Nat, Len(sizes) = n + 1, \A d \in 1..(n + 1) : sizes[d] \in Nat,
         NEW u \in Nat, u < Inner(sizes, 0, n)
  PROVE  Unravel(sizes, u) \in Below(sizes, 1..n)
<1> DEFINE P(d) == Inner(sizes, d, n)
           v == Unravel(sizes, u)
<1>1. v = [d \in 1..n |-> (u \div P(d)) % sizes[d]]
  <2>1. Len(sizes) - 1 = n
    OBVIOUS
  <2> QED
    BY <2>1 DEF Unravel
<1>2. \A i \in 1..n : sizes[i] \in Nat
  OBVIOUS
<1>3. \A d \in 0..n : P(d) \in Nat \ {0}
  <2>1. P(0) > 0
    <3>1. \A i \in (0 + 1)..n : sizes[i] \in Nat
      OBVIOUS
    <3>2. 0 \in Nat /\ 0 <= n
      OBVIOUS
    <3>3. P(0) \in Nat
      BY <3>1, <3>2, InnerType
    <3> QED
      BY <3>3
  <2> QED
    BY <1>2, <2>1, InnerPositive
<1>4. \A d \in 1..n : P(d) \in Nat \ {0} /\ sizes[d] \in Nat \ {0}
  <2> SUFFICES ASSUME NEW d \in 1..n PROVE P(d) \in Nat \ {0} /\ sizes[d] \in Nat \ {0}
    OBVIOUS
  <2>1. d \in Nat \ {0} /\ d <= n /\ \A i \in d..n : sizes[i] \in Nat
    OBVIOUS
  <2>2. P(d - 1) = sizes[d] * P(d)
    BY <2>1, InnerFront
  <2>3. P(d - 1) \in Nat \ {0} /\ P(d) \in Nat \ {0} /\ sizes[d] \in Nat
    BY <1>3, <2>1
  <2> QED
    BY <2>2, <2>3
<1> HIDE DEF P, v
<1>5. \A d \in 1..n : (u \div P(d)) % sizes[d] \in Nat /\ (u \div P(d)) % sizes[d] < sizes[d]
  <2> SUFFICES ASSUME NEW d \in 1..n
               PROVE  (u \div P(d)) % sizes[d] \in Nat /\ (u \div P(d)) % sizes[d] < sizes[d]
    OBVIOUS
  <2>1. P(d) \in Nat \ {0} /\ sizes[d] \in Nat \ {0}
    BY <1>4
  <2>2. u \div P(d) \in Nat
    BY <2>1, DivType
  <2> QED
    BY <2>1, <2>2
<1>6. v \in [1..n -> Nat] /\ \A d \in 1..n : v[d] < sizes[d]
  BY <1>1, <1>5
<1>7. v \in Below(sizes, 1..n)
  BY <1>2, <1>6, BelowIs
<1> QED
  BY <1>7 DEF v

\* Every outer index of a tensor that has elements is that of a unit.
LEMMA UnravelOnto ==
  ASSUME NEW sizes \in Seq(Nat), NEW n \in Nat, Len(sizes) = n + 1, sizes[n + 1] > 0
  PROVE  \A v \in Below(sizes, 1..n) : \E u \in 0..(Inner(sizes, 0, n) - 1) : Unravel(sizes, u) = v
<1> DEFINE N == Inner(sizes, 0, n)
           B == Below(sizes, 1..n)
           f == [u \in 0..(N - 1) |-> Unravel(sizes, u)]
<1>1. \A d \in 1..(n + 1) : sizes[d] \in Nat
  BY SeqIsVector
<1>2. IsFiniteSet(B) /\ Cardinality(B) = N
  <2>1. \A d \in 1..n : sizes[d] \in Nat
    BY <1>1
  <2> QED
    BY <2>1, BelowCounts
<1>3. N \in Nat
  BY <1>2, FS_CardinalityType
<1> HIDE DEF N, B
<1>4. Cardinality(0..(N - 1)) = N
  <2>1. 0 \in Int /\ N - 1 \in Int
    BY <1>3
  <2>2. Cardinality(0..(N - 1)) = IF 0 > N - 1 THEN 0 ELSE (N - 1) - 0 + 1
    BY <2>1, FS_Interval
  <2> QED
    BY <1>3, <2>2
<1>5. f \in [0..(N - 1) -> B]
  <2>1. ASSUME NEW u \in 0..(N - 1) PROVE Unravel(sizes, u) \in B
    <3>1. u \in Nat /\ u < Inner(sizes, 0, n)
      BY <1>3 DEF N
    <3> QED
      BY <1>1, <3>1, UnravelType DEF B
  <2> QED
    BY <2>1
<1>6. ASSUME NEW u \in 0..(N - 1), NEW w \in 0..(N - 1), f[u] = f[w] PROVE u = w
  <2>1. n + 1 >= 1 /\ (n + 1) - 1 = n
    OBVIOUS
  <2>2. /\ u \in Nat /\ u < Inner(sizes, 0, Len(sizes) - 1)
        /\ w \in Nat /\ w < Inner(sizes, 0, Len(sizes) - 1) /\ Len(sizes) >= 1
    BY <1>3, <2>1 DEF N
  <2>3. u * sizes[n + 1] = w * sizes[n + 1]
    <3>1. Offset(RowMajor(sizes), Unravel(sizes, u)) = u * sizes[Len(sizes)]
      BY <2>2, RowBegins
    <3>2. Offset(RowMajor(sizes), Unravel(sizes, w)) = w * sizes[Len(sizes)]
      BY <2>2, RowBegins
    <3>3. Unravel(sizes, u) = Unravel(sizes, w)
      BY <1>6
    <3> QED
      BY <3>1, <3>2, <3>3
  <2>4. PICK k \in Nat \ {0} : k = sizes[n + 1]
    <3>1. n + 1 \in 1..(n + 1)
      OBVIOUS
    <3>2. sizes[n + 1] \in Nat
      BY <1>1, <3>1
    <3> QED
      BY <3>2
  <2>5. u * k = w * k
    BY <2>3, <2>4
  <2> QED
    BY <2>2, <2>5
<1>7. f \in Injection(0..(N - 1), B)
  BY <1>5, <1>6 DEF Injection, IsInjective
<1> HIDE DEF f
<1>8. f \in Surjection(0..(N - 1), B)
  BY <1>2, <1>4, <1>7, FS_Injection
<1>9. \A v \in B : \E u \in 0..(N - 1) : f[u] = v
  BY <1>8 DEF Surjection
<1> QED
  BY <1>9 DEF f, N, B

\* What an index asks for is stored where the index lies in row-major order.
SpreadStore(c, v, strides) ==
  Put(Item(c.out, Offset(RowMajor(c.out.size), v)), c.name, <<>>,
      [k \in DOMAIN c.ins |-> Item(c.ins[k], Offset(strides[k], v))])

\* The indices of a unit: a row, or the only element of a tensor of no dimension.
RowOf(z, u) ==
  IF z = <<>> THEN {<<>>}
  ELSE {Extend(Unravel(z, u), Len(z) - 1, i) : i \in 0..(z[Len(z)] - 1)}

\* An offset along a row.
LEMMA ExtendOffset ==
  ASSUME NEW strides, NEW m \in Nat, NEW w \in [1..m -> Nat], NEW e \in Nat
  PROVE  Offset(strides, Extend(w, m, e)) = Offset(strides, w) + e * strides[m + 1]
BY OffsetLast DEF Extend

\* The offset of the empty index.
LEMMA NoOffset ==
  ASSUME NEW strides
  PROVE  Offset(strides, <<>>) = 0
<1>1. Len(<<>>) = 0 /\ Len(<<>>) \in Nat
  OBVIOUS
<1> QED
  BY <1>1, OffsetSteps

\* In row-major order the elements of a row follow each other.
LEMMA RowMajorLast ==
  ASSUME NEW z \in Seq(Nat), NEW m \in Nat, Len(z) = m + 1
  PROVE  RowMajor(z)[m + 1] = 1
<1>1. DOMAIN z = 1..(m + 1) /\ m + 1 \in 1..(m + 1)
  BY SeqIsVector
<1>2. Inner(z, m + 1, m + 1) = 1
  BY InnerSteps
<1> QED
  BY <1>1, <1>2 DEF RowMajor

\* A unit of sve_add has an outer index, whose row begins after the rows before it.
LEMMA StridedUnit ==
  ASSUME NEW c \in Calls, Strided(c), NEW u \in UnitsOf(c),
         NEW m \in Nat, Len(c.out.size) = m + 1
  PROVE  /\ u \in Nat /\ u < Inner(c.out.size, 0, m)
         /\ Unravel(c.out.size, u) \in Below(c.out.size, 1..m)
         /\ Unravel(c.out.size, u) \in [1..m -> Nat]
         /\ Offset(RowMajor(c.out.size), Unravel(c.out.size, u)) \in Nat
<1>1. PICK z \in Seq(Nat) : z = c.out.size
  BY CallFacts
<1>2. Len(z) = m + 1
  BY <1>1
<1>3. u \in Nat /\ u < Units(c)
  BY CallFacts DEF UnitsOf
<1>4. Units(c) = IF m + 1 < 2 THEN 1 ELSE Inner(z, 0, m)
  <2>1. Units(c) = IF Len(z) < 2 THEN 1 ELSE Inner(z, 0, Len(z) - 1)
    BY <1>1, UnitsAre
  <2>2. (m + 1) - 1 = m
    OBVIOUS
  <2> QED
    BY <1>2, <2>1, <2>2
<1>5. Units(c) = Inner(z, 0, m)
  <2>1. CASE m = 0
    <3>1. Inner(z, 0, 0) = 1
      BY InnerSteps
    <3> QED
      BY <1>4, <2>1, <3>1
  <2>2. CASE m # 0
    BY <1>4, <2>2
  <2> QED
    BY <2>1, <2>2
<1>6. u < Inner(z, 0, m)
  BY <1>3, <1>5
<1>7. \A d \in 1..(m + 1) : z[d] \in Nat
  BY <1>2, SeqIsVector
<1>8. Unravel(z, u) \in Below(z, 1..m)
  BY <1>2, <1>3, <1>6, <1>7, UnravelType
<1>9. \A d \in 1..m : z[d] \in Nat
  BY <1>7
<1>10. Unravel(z, u) \in [1..m -> Nat]
  BY <1>8, <1>9, BelowIs
<1>11. \A d \in 1..m : RowMajor(z)[d] \in Nat
  <2> SUFFICES ASSUME NEW d \in 1..m PROVE RowMajor(z)[d] \in Nat
    OBVIOUS
  <2>1. DOMAIN z = 1..(m + 1)
    BY <1>2, SeqIsVector
  <2>2. RowMajor(z)[d] = Inner(z, d, m + 1)
    BY <1>2, <2>1 DEF RowMajor
  <2>3. d \in Nat /\ d <= m + 1 /\ \A i \in (d + 1)..(m + 1) : z[i] \in Nat
    BY <1>7
  <2> QED
    BY <2>2, <2>3, InnerType
<1>12. Offset(RowMajor(z), Unravel(z, u)) \in Nat
  BY <1>10, <1>11, OffsetType
<1> QED
  BY <1>1, <1>3, <1>6, <1>8, <1>10, <1>12

\* The stores of a unit of sve_add are those of the indices of its row.
LEMMA SpreadStores ==
  ASSUME NEW c \in Calls, Strided(c), NEW u \in UnitsOf(c),
         NEW strides, DOMAIN strides = DOMAIN c.ins
  PROVE  StridedStores(c, u, strides) = {SpreadStore(c, v, strides) : v \in RowOf(c.out.size, u)}
<1>1. PICK z \in Seq(Nat) : z = c.out.size
  BY CallFacts
<1>2. CASE z = <<>>
  <2>1. StridedStores(c, u, strides)
          = {Put(Item(c.out, 0), c.name, <<>>, [k \in DOMAIN c.ins |-> Item(c.ins[k], 0)])}
    BY <1>1, <1>2 DEF StridedStores
  <2>2. SpreadStore(c, <<>>, strides)
          = Put(Item(c.out, 0), c.name, <<>>, [k \in DOMAIN c.ins |-> Item(c.ins[k], 0)])
    BY NoOffset DEF SpreadStore
  <2>3. RowOf(c.out.size, u) = {<<>>}
    BY <1>1, <1>2 DEF RowOf
  <2> QED
    BY <2>1, <2>2, <2>3
<1>3. CASE z # <<>>
  <2>1. PICK m \in Nat : Len(z) = m + 1 /\ Len(z) - 1 = m
    <3>1. Len(z) \in Nat \ {0}
      BY <1>3
    <3>2. Len(z) - 1 \in Nat /\ Len(z) = (Len(z) - 1) + 1
      BY <3>1
    <3> QED
      BY <3>2
  <2> DEFINE w == Unravel(z, u)
             orow == Offset(RowMajor(z), w)
             rows == [k \in DOMAIN strides |-> Offset(strides[k], w)]
             steps == [k \in DOMAIN strides |-> strides[k][Len(z)]]
             D == 0..(z[Len(z)] - 1)
             F(i) == Put(Item(c.out, orow + i), c.name, <<>>,
                         [k \in DOMAIN c.ins |-> Item(c.ins[k], rows[k] + i * steps[k])])
  <2>2. StridedStores(c, u, strides) = {F(i) : i \in D}
    BY <1>1, <1>3 DEF StridedStores, AddRow, Width
  <2>3. RowOf(c.out.size, u) = {Extend(w, m, i) : i \in D}
    BY <1>1, <1>3, <2>1 DEF RowOf
  <2>4. w \in [1..m -> Nat] /\ orow \in Nat
    BY <1>1, <2>1, StridedUnit
  <2>5. D \subseteq Nat
    OBVIOUS
  <2> HIDE DEF w, D
  <2>6. ASSUME NEW i \in D PROVE F(i) = SpreadStore(c, Extend(w, m, i), strides)
    <3>1. i \in Nat
      BY <2>5
    <3>2. \A s : Offset(s, Extend(w, m, i)) = Offset(s, w) + i * s[m + 1]
      BY <2>4, <3>1, ExtendOffset
    <3>3. Offset(RowMajor(z), Extend(w, m, i)) = orow + i
      <4>1. RowMajor(z)[m + 1] = 1
        BY <2>1, RowMajorLast
      <4>2. i * 1 = i
        BY <3>1
      <4> QED
        BY <3>2, <4>1, <4>2
    <3>4. ASSUME NEW k \in DOMAIN c.ins
          PROVE  rows[k] + i * steps[k] = Offset(strides[k], Extend(w, m, i))
      <4>1. steps[k] = strides[k][m + 1] /\ rows[k] = Offset(strides[k], w)
        BY <2>1
      <4> HIDE DEF rows, steps
      <4> QED
        BY <3>2, <4>1
    <3> HIDE DEF orow, rows, steps
    <3>5. [k \in DOMAIN c.ins |-> Item(c.ins[k], rows[k] + i * steps[k])]
            = [k \in DOMAIN c.ins |-> Item(c.ins[k], Offset(strides[k], Extend(w, m, i)))]
      BY <3>4
    <3> QED
      BY <1>1, <3>3, <3>5 DEF SpreadStore
  <2> HIDE DEF F
  <2> QED
    BY <2>2, <2>3, <2>6
<1> QED
  BY <1>2, <1>3

\* The index of no dimension is the only one.
LEMMA NoIndex ==
  ASSUME NEW z \in Seq(Nat), z = <<>>
  PROVE  Below(z, DOMAIN z) = {<<>>}
<1>1. DOMAIN z = {}
  OBVIOUS
<1>2. \A v : v \in Below(z, {}) <=> v \in [{} -> Nat]
  BY BelowIs
<1>3. \A v \in [{} -> Nat] : v = <<>>
  OBVIOUS
<1>4. <<>> \in [{} -> Nat]
  OBVIOUS
<1> QED
  BY <1>1, <1>2, <1>3, <1>4

\* The rows of the units are the indices of the output.
LEMMA RowsAre ==
  ASSUME NEW c \in Calls, Strided(c)
  PROVE  /\ \A u \in UnitsOf(c) : RowOf(c.out.size, u) \subseteq All(c.out)
         /\ \A v \in All(c.out) : \E u \in UnitsOf(c) : v \in RowOf(c.out.size, u)
<1>1. PICK z \in Seq(Nat) : z = c.out.size
  BY CallFacts
<1>2. All(c.out) = Below(z, DOMAIN z)
  BY <1>1 DEF All
<1>3. Units(c) = IF Len(z) < 2 THEN 1 ELSE Inner(z, 0, Len(z) - 1)
  BY <1>1, UnitsAre
<1>4. CASE z = <<>>
  <2>1. All(c.out) = {<<>>} /\ \A u : RowOf(c.out.size, u) = {<<>>}
    BY <1>1, <1>2, <1>4, NoIndex DEF RowOf
  <2>2. 0 \in UnitsOf(c)
    <3>1. Len(z) = 0
      BY <1>4
    <3>2. Units(c) = 1
      BY <1>3, <3>1
    <3> QED
      BY <3>2 DEF UnitsOf
  <2> QED
    BY <2>1, <2>2
<1>5. CASE z # <<>>
  <2>1. PICK m \in Nat : Len(z) = m + 1 /\ Len(z) - 1 = m
    <3>1. Len(z) \in Nat \ {0}
      BY <1>5
    <3>2. Len(z) - 1 \in Nat /\ Len(z) = (Len(z) - 1) + 1
      BY <3>1
    <3> QED
      BY <3>2
  <2>2. DOMAIN z = 1..(m + 1) /\ \A d \in 1..(m + 1) : z[d] \in Nat
    BY <2>1, SeqIsVector
  <2>3. \A u : RowOf(c.out.size, u) = {Extend(Unravel(z, u), m, i) : i \in 0..(z[m + 1] - 1)}
    BY <1>1, <1>5, <2>1 DEF RowOf
  <2>4. Units(c) = Inner(z, 0, m)
    <3>1. CASE m = 0
      <4>1. Inner(z, 0, 0) = 1
        BY InnerSteps
      <4>2. Units(c) = 1
        BY <1>3, <2>1, <3>1
      <4> QED
        BY <3>1, <4>1, <4>2
    <3>2. CASE m # 0
      <4>1. PICK l \in Nat : l = Len(z)
        BY <2>1
      <4>2. ~ (l < 2)
        BY <2>1, <3>2, <4>1
      <4> QED
        BY <1>3, <2>1, <4>1, <4>2
    <3> QED
      BY <3>1, <3>2
  <2>5. ASSUME NEW u \in UnitsOf(c) PROVE RowOf(c.out.size, u) \subseteq All(c.out)
    <3>1. Unravel(z, u) \in Below(z, 1..m)
      BY <1>1, <2>1, StridedUnit
    <3>2. \A e \in 0..(z[m + 1] - 1) : Extend(Unravel(z, u), m, e) \in Below(z, 1..(m + 1))
      BY <2>2, <3>1, ExtendsAll
    <3> QED
      BY <1>2, <2>2, <2>3, <3>2
  <2>6. ASSUME NEW v \in All(c.out) PROVE \E u \in UnitsOf(c) : v \in RowOf(c.out.size, u)
    <3>1. v \in Below(z, 1..(m + 1))
      BY <1>2, <2>2
    <3>5. PICK D : D = 0..(z[m + 1] - 1)
      OBVIOUS
    <3>6. \E w \in Below(z, 1..m) : \E e \in D : v = Extend(w, m, e)
      <4>1. PICK n \in Nat : n = m + 1
        OBVIOUS
      <4>2. D = 0..(z[n] - 1) /\ v \in Below(z, 1..n) /\ \A d \in 1..n : z[d] \in Nat
        BY <2>2, <3>1, <3>5, <4>1
      <4>3. Extended(z, m, D, v)
        BY <4>1, <4>2, ExtendsOnto
      <4> QED
        BY <4>3 DEF Extended
    <3>2. PICK w \in Below(z, 1..m), e \in 0..(z[m + 1] - 1) : v = Extend(w, m, e)
      BY <3>5, <3>6
    <3>3. z[m + 1] > 0
      <4>1. z[m + 1] \in Nat
        BY <2>2
      <4> QED
        BY <4>1
    <3>4. PICK u \in 0..(Inner(z, 0, m) - 1) : Unravel(z, u) = w
      BY <2>1, <3>3, UnravelOnto
    <3> QED
      BY <2>3, <2>4, <3>2, <3>4 DEF UnitsOf
  <2> QED
    BY <2>5, <2>6
<1> QED
  BY <1>4, <1>5

\* Two elements of one row are stored to two places.
LEMMA SpreadOnce ==
  ASSUME NEW c \in Calls, Strided(c), NEW u \in UnitsOf(c),
         NEW v \in RowOf(c.out.size, u), NEW w \in RowOf(c.out.size, u),
         Offset(RowMajor(c.out.size), v) = Offset(RowMajor(c.out.size), w)
  PROVE  v = w
<1>1. PICK z \in Seq(Nat) : z = c.out.size
  BY CallFacts
<1>2. CASE z = <<>>
  BY <1>1, <1>2 DEF RowOf
<1>3. CASE z # <<>>
  <2>1. PICK m \in Nat : Len(z) = m + 1 /\ Len(z) - 1 = m
    <3>1. Len(z) \in Nat \ {0}
      BY <1>3
    <3>2. Len(z) - 1 \in Nat /\ Len(z) = (Len(z) - 1) + 1
      BY <3>1
    <3> QED
      BY <3>2
  <2> DEFINE x == Unravel(z, u)
  <2>2. x \in [1..m -> Nat] /\ Offset(RowMajor(z), x) \in Nat
    BY <1>1, <2>1, StridedUnit
  <2>3. \A y \in RowOf(c.out.size, u) : \E i \in 0..(z[m + 1] - 1) : y = Extend(x, m, i)
    BY <1>1, <1>3, <2>1 DEF RowOf
  <2> HIDE DEF x
  <2>4. PICK i \in Nat : v = Extend(x, m, i)
    BY <2>3
  <2>5. PICK j \in Nat : w = Extend(x, m, j)
    BY <2>3
  <2>6. RowMajor(z)[m + 1] = 1
    BY <2>1, RowMajorLast
  <2>7. Offset(RowMajor(z), v) = Offset(RowMajor(z), x) + i * RowMajor(z)[m + 1]
    BY <2>2, <2>4, ExtendOffset
  <2>8. Offset(RowMajor(z), w) = Offset(RowMajor(z), x) + j * RowMajor(z)[m + 1]
    BY <2>2, <2>5, ExtendOffset
  <2>9. i = j
    <3>1. PICK a \in Nat : a = Offset(RowMajor(z), x)
      BY <2>2
    <3>2. i * 1 = i /\ j * 1 = j
      OBVIOUS
    <3>3. Offset(RowMajor(z), v) = a + i /\ Offset(RowMajor(z), w) = a + j
      BY <2>6, <2>7, <2>8, <3>1, <3>2
    <3>4. a + i = a + j
      BY <1>1, <3>3
    <3> QED
      BY <3>4
  <2> QED
    BY <2>4, <2>5, <2>9
<1> QED
  BY <1>2, <1>3

\* The strides g of the output's dimensions z for a tensor, and an index of the tensor.
Spreads(g, z, n, size, stride, l) ==
  /\ n \in Nat /\ l \in Nat /\ l <= n
  /\ (\A d \in 1..n : z[d] \in Nat) /\ \A i \in 1..l : stride[i] \in Nat
  /\ \A d \in 1..n :
       g[d] = IF d - (n - l) < 1 \/ (size[d - (n - l)] = 1 /\ z[d] # 1) THEN 0 ELSE stride[d - (n - l)]
Reduced(size, v, n, l) == [i \in 1..l |-> IF size[i] = 1 THEN 0 ELSE v[i + n - l]]

\* A tensor is read by the strides of the broadcast where its own index is that of the
\* output, 0 in a dimension that is expanded.
LEMMA BroadcastOffset ==
  ASSUME NEW g, NEW z, NEW n, NEW size, NEW stride, NEW l, Spreads(g, z, n, size, stride, l),
         NEW v \in Below(z, 1..n)
  PROVE  Offset(g, v) = Offset(stride, Reduced(size, v, n, l))
<1> DEFINE x == Reduced(size, v, n, l)
<1>0. \A d \in 1..n :
        g[d] = IF d - (n - l) < 1 \/ (size[d - (n - l)] = 1 /\ z[d] # 1)
               THEN 0 ELSE stride[d - (n - l)]
  BY DEF Spreads
<1>12. /\ n \in Nat /\ l \in Nat /\ l <= n
       /\ (\A d \in 1..n : z[d] \in Nat) /\ \A i \in 1..l : stride[i] \in Nat
  BY DEF Spreads
<1>13. v \in [1..n -> Nat] /\ \A d \in 1..n : v[d] < z[d]
  BY <1>12, BelowIs
<1>1. x \in [1..l -> Nat]
  <2>1. \A i \in 1..l : i + n - l \in 1..n
    BY <1>12
  <2> QED
    BY <1>13, <2>1 DEF Reduced
<1>2. \A i \in 1..l : x[i] = IF size[i] = 1 THEN 0 ELSE v[i + n - l]
  BY DEF Reduced
<1> HIDE DEF x
<1>3. Len(v) = n
  BY <1>12, <1>13, VectorLen
<1>11. Len(x) = l
  BY <1>1, <1>12, VectorLen
<1>4. PICK S : /\ S[0] = 0
               /\ \A d \in 1..n : S[d] = S[d - 1] + v[d] * g[d]
               /\ Offset(g, v) = S[n]
  BY <1>3, <1>12, OffsetSteps
<1>5. PICK R : /\ R[0] = 0
               /\ \A i \in 1..l : R[i] = R[i - 1] + x[i] * stride[i]
               /\ Offset(stride, x) = R[l]
  BY <1>11, <1>12, OffsetSteps
<1> DEFINE T == {d \in Nat : d <= n => S[d] = IF d <= n - l THEN 0 ELSE R[d - (n - l)]}
<1>6. 0 \in T
  BY <1>4, <1>12
<1>7. ASSUME NEW d \in Nat, d >= 0, d \in T PROVE d + 1 \in T
  <2> SUFFICES ASSUME d + 1 <= n
               PROVE  S[d + 1] = IF d + 1 <= n - l THEN 0 ELSE R[(d + 1) - (n - l)]
    OBVIOUS
  <2>1. d + 1 \in 1..n /\ (d + 1) - 1 = d
    BY <1>12
  <2>2. S[d] = IF d <= n - l THEN 0 ELSE R[d - (n - l)]
    BY <1>7, <1>12
  <2>3. S[d + 1] = S[d] + v[d + 1] * g[d + 1]
    BY <1>4, <2>1
  <2>4. v[d + 1] \in Nat /\ z[d + 1] \in Nat /\ v[d + 1] < z[d + 1]
    BY <1>12, <1>13, <2>1
  <2>5. CASE d + 1 <= n - l
    <3>1. g[d + 1] = 0
      BY <1>0, <1>12, <2>1, <2>5
    <3>2. v[d + 1] * 0 = 0
      BY <2>4
    <3> QED
      BY <1>12, <2>2, <2>3, <2>5, <3>1, <3>2
  <2>6. CASE ~ (d + 1 <= n - l)
    <3>1. PICK j \in 1..l : j = (d + 1) - (n - l)
      BY <1>12, <2>6
    <3>2. S[d] = R[j - 1]
      <4>1. CASE d <= n - l
        <5>1. j - 1 = 0
          BY <1>12, <2>6, <3>1, <4>1
        <5> QED
          BY <1>5, <2>2, <4>1, <5>1
      <4>2. CASE ~ (d <= n - l)
        <5>1. j - 1 = d - (n - l)
          BY <1>12, <3>1
        <5> QED
          BY <2>2, <4>2, <5>1
      <4> QED
        BY <4>1, <4>2
    <3>3. R[j] = R[j - 1] + x[j] * stride[j]
      BY <1>5
    <3>4. g[d + 1] = IF size[j] = 1 /\ z[d + 1] # 1 THEN 0 ELSE stride[j]
      <4>1. ~ ((d + 1) - (n - l) < 1)
        BY <1>12, <2>6
      <4> QED
        BY <1>0, <2>1, <3>1, <4>1
    <3>5. x[j] = IF size[j] = 1 THEN 0 ELSE v[d + 1]
      <4>1. j + n - l = d + 1
        BY <1>12, <3>1
      <4> QED
        BY <1>2, <4>1
    <3>6. v[d + 1] * g[d + 1] = x[j] * stride[j]
      <4>1. PICK a \in Nat : a = v[d + 1]
        BY <2>4
      <4>2. PICK b \in Nat : b = stride[j]
        BY <1>12
      <4>3. 0 * b = 0 /\ a * 0 = 0
        BY <4>1, <4>2
      <4>4. CASE size[j] = 1 /\ z[d + 1] # 1
        BY <3>4, <3>5, <4>1, <4>2, <4>3, <4>4
      <4>5. CASE size[j] = 1 /\ z[d + 1] = 1
        <5>1. a = 0
          BY <2>4, <4>1, <4>5
        <5> QED
          BY <3>4, <3>5, <4>1, <4>2, <4>5, <5>1
      <4>6. CASE size[j] # 1
        BY <3>4, <3>5, <4>1, <4>2, <4>6
      <4> QED
        BY <4>4, <4>5, <4>6
    <3> QED
      BY <1>12, <2>3, <2>6, <3>1, <3>2, <3>3, <3>6
  <2> QED
    BY <2>5, <2>6
<1> HIDE DEF T
<1>8. n \in T
  <2>1. 0 \in Nat /\ n >= 0 /\ n \in Nat
    BY <1>12
  <2> QED
    BY <1>6, <1>7, <2>1, Upwards
<1>9. S[n] = IF n <= n - l THEN 0 ELSE R[n - (n - l)]
  BY <1>8, <1>12 DEF T
<1>10. S[n] = R[l]
  <2>1. CASE l = 0
    BY <1>5, <1>9, <1>12, <2>1
  <2>2. CASE l # 0
    <3>1. n - (n - l) = l /\ ~ (n <= n - l)
      BY <1>12, <2>2
    <3> QED
      BY <1>9, <2>2, <3>1
  <2> QED
    BY <2>1, <2>2
<1> QED
  BY <1>4, <1>5, <1>10 DEF x

\* sve_add has two operands, of no more dimensions than the output.
LEMMA AddOperands ==
  ASSUME NEW c \in Calls, c.name = "sve_add"
  PROVE  /\ DOMAIN c.ins = 1..2 /\ IsRowMajor(c.out)
         /\ \A k \in DOMAIN c.ins : Len(c.ins[k].size) \in Nat /\ Len(c.ins[k].size) <= Len(c.out.size)
<1>1. DOMAIN c.ins = 1..2
  <2>1. DOMAIN c.ins = 1..Len(c.ins) /\ Len(c.ins) \in Arity(c)
    BY CallsAssumption
  <2>2. Arity(c) = {2}
    BY DEF Arity
  <2> QED
    BY <2>1, <2>2
<1>2. StridedAccepts(c)
  BY CallFacts DEF Strided
<1>3. c.out.size = BroadcastShape(c.ins[1], c.ins[2]) /\ IsRowMajor(c.out)
  BY <1>2 DEF StridedAccepts
<1>4. PICK a \in Nat, b \in Nat : a = Len(c.ins[1].size) /\ b = Len(c.ins[2].size)
  <2>1. 1 \in 1..2 /\ 2 \in 1..2
    OBVIOUS
  <2>2. c.ins[1].size \in Seq(Nat) /\ c.ins[2].size \in Seq(Nat)
    BY <1>1, <2>1, CallFacts
  <2>3. \A s \in Seq(Nat) : Len(s) \in Nat
    OBVIOUS
  <2> QED
    BY <2>2, <2>3
<1>5. PICK n \in Nat : n = Max({a, b}) /\ a <= n /\ b <= n
  <2>1. Max({a, b}) = IF a <= b THEN b ELSE a
    BY DEF Max
  <2> QED
    BY <2>1
<1>6. DOMAIN c.out.size = 1..n
  BY <1>3, <1>4, <1>5 DEF BroadcastShape
<1>7. Len(c.out.size) = n
  <2>1. PICK z \in Seq(Nat) : z = c.out.size
    BY CallFacts
  <2>2. DOMAIN z = 1..Len(z) /\ Len(z) \in Nat /\ DOMAIN z = 1..n
    BY <1>6, <2>1
  <2>3. Len(z) = n
    <3>1. PICK k \in Nat : k = Len(z)
      BY <2>2
    <3>2. 1..k = 1..n
      BY <2>2, <3>1
    <3>3. k = n
      BY <3>2
    <3> QED
      BY <3>1, <3>3
  <2> QED
    BY <2>1, <2>3
<1>8. \A k \in 1..2 : k = 1 \/ k = 2
  OBVIOUS
<1> QED
  BY <1>1, <1>3, <1>4, <1>5, <1>7, <1>8

\* What sve_add reads of an operand is its element at the expanded index.
LEMMA AddLeaves ==
  ASSUME NEW c \in Calls, c.name = "sve_add", NEW v \in All(c.out)
  PROVE  Leaves(c, SpreadStore(c, v, [k \in DOMAIN c.ins |-> BroadcastStrides(c.ins[k], c.out.size)]))
           = Element(c, v)
<1>1. PICK z \in Seq(Nat), n \in Nat : z = c.out.size /\ n = Len(z)
  <2>1. \A s \in Seq(Nat) : Len(s) \in Nat
    OBVIOUS
  <2> QED
    BY <2>1, CallFacts
<1>2. DOMAIN z = 1..n /\ \A d \in 1..n : z[d] \in Nat
  BY <1>1, SeqIsVector
<1>3. v \in Below(z, 1..n)
  BY <1>1, <1>2 DEF All
<1> DEFINE strides == [k \in DOMAIN c.ins |-> BroadcastStrides(c.ins[k], c.out.size)]
           from == [k \in DOMAIN c.ins |-> Item(c.ins[k], Offset(strides[k], v))]
           full == [k \in DOMAIN c.ins |-> Expanded(c.ins[k], v, Len(c.out.size))]
<1>4. ASSUME NEW k \in DOMAIN c.ins
      PROVE  Item(c.ins[k], Offset(BroadcastStrides(c.ins[k], c.out.size), v))
               = Expanded(c.ins[k], v, Len(c.out.size))
  <2>1. PICK size \in Seq(Nat), stride \in Seq(Nat), l \in Nat :
          size = c.ins[k].size /\ stride = c.ins[k].stride /\ l = Len(size) /\ l = Len(stride) /\ l <= n
    <3>1. \A s \in Seq(Nat) : Len(s) \in Nat
      OBVIOUS
    <3>2. c.ins[k].size \in Seq(Nat) /\ c.ins[k].stride \in Seq(Nat)
          /\ Len(c.ins[k].size) = Len(c.ins[k].stride)
      BY CallFacts
    <3>3. Len(c.ins[k].size) <= n
      BY <1>1, AddOperands
    <3> QED
      BY <3>1, <3>2, <3>3
  <2>2. DOMAIN size = 1..l
    <3>1. Len(size) = l
      BY <2>1
    <3> QED
      BY <3>1, SeqIsVector
  <2>3. \A i \in 1..l : stride[i] \in Nat
    <3>1. Len(stride) = l
      BY <2>1
    <3> QED
      BY <3>1, SeqIsVector
  <2> DEFINE g == BroadcastStrides(c.ins[k], c.out.size)
  <2>4. Spreads(g, z, n, size, stride, l)
    <3>1. ASSUME NEW d \in 1..n
          PROVE  g[d] = IF d - (n - l) < 1 \/ (size[d - (n - l)] = 1 /\ z[d] # 1)
                        THEN 0 ELSE stride[d - (n - l)]
      BY <1>1, <1>2, <2>1 DEF BroadcastStrides, BroadcastStride
    <3> HIDE DEF g
    <3>2. l <= n
      BY <2>1
    <3> QED
      BY <1>2, <2>3, <3>1, <3>2 DEF Spreads
  <2>5. Expanded(c.ins[k], v, Len(c.out.size)) = Item(c.ins[k], Offset(stride, Reduced(size, v, n, l)))
    BY <1>1, <2>1, <2>2 DEF Expanded, At, Item, Reduced
  <2> HIDE DEF g
  <2>7. Offset(g, v) = Offset(stride, Reduced(size, v, n, l))
    BY <1>3, <2>4, BroadcastOffset
  <2> QED
    BY <2>5, <2>7 DEF g
<1>5. \A k \in DOMAIN c.ins : from[k] = Item(c.ins[k], Offset(BroadcastStrides(c.ins[k], c.out.size), v))
  OBVIOUS
<1>6. DOMAIN from = DOMAIN c.ins
  OBVIOUS
<1>7. SpreadStore(c, v, strides) = Put(Item(c.out, Offset(RowMajor(c.out.size), v)), c.name, <<>>, from)
  BY DEF SpreadStore
<1>8. Element(c, v) = Expect(At(c.out, v), c.name, <<>>, full)
  BY ElementIs DEF AddElement
<1> HIDE DEF from
<1>9. Origins(c, from) = full
  <2>1. ASSUME NEW k \in DOMAIN c.ins
        PROVE  Origin(c, from[k]) = Expanded(c.ins[k], v, Len(c.out.size))
    BY <1>4, <1>5, ItemOrigin
  <2> QED
    BY <1>6, <2>1 DEF Origins
<1>10. Item(c.out, Offset(RowMajor(c.out.size), v)) = At(c.out, v)
  BY AddOperands DEF IsRowMajor, Item, At
<1> HIDE DEF strides, full
<1>11. Leaves(c, SpreadStore(c, v, strides)) = Element(c, v)
  BY <1>7, <1>8, <1>9, <1>10, Leaving
<1> QED
  BY <1>11 DEF strides

\* sve_add_scalar reads the element at the same index, when it writes in this order.
LEMMA ScalarLeaves ==
  ASSUME NEW c \in Calls, c.name = "sve_add_scalar", Addressed(c), NEW v \in All(c.out)
  PROVE  Leaves(c, SpreadStore(c, v, <<c.ins[1].stride>>)) = Element(c, v)
<1>1. DOMAIN c.ins = 1..1
  <2>1. DOMAIN c.ins = 1..Len(c.ins) /\ Len(c.ins) \in Arity(c)
    BY CallsAssumption
  <2>2. Arity(c) = {1}
    BY DEF Arity
  <2> QED
    BY <2>1, <2>2
<1> DEFINE strides == <<c.ins[1].stride>>
           from == [k \in DOMAIN c.ins |-> Item(c.ins[k], Offset(strides[k], v))]
           full == [k \in DOMAIN c.ins |-> At(c.ins[k], v)]
<1>2. ASSUME NEW k \in DOMAIN c.ins PROVE from[k] = At(c.ins[k], v) /\ Origin(c, from[k]) = from[k]
  <2>1. k = 1
    BY <1>1
  <2>2. strides[k] = c.ins[k].stride
    BY <2>1
  <2>3. from[k] = Item(c.ins[k], Offset(c.ins[k].stride, v))
    BY <2>2
  <2> HIDE DEF from
  <2> QED
    BY <2>3, ItemOrigin DEF At, Item
<1>3. DOMAIN from = DOMAIN c.ins
  OBVIOUS
<1>4. SpreadStore(c, v, strides) = Put(Item(c.out, Offset(RowMajor(c.out.size), v)), c.name, <<>>, from)
  BY DEF SpreadStore
<1>5. Element(c, v) = Expect(At(c.out, v), c.name, <<>>, full)
  BY ElementIs DEF PointElement
<1> HIDE DEF from
<1>6. Origins(c, from) = full
  BY <1>2, <1>3 DEF Origins
<1>7. Item(c.out, Offset(RowMajor(c.out.size), v)) = At(c.out, v)
  BY AddressedIs DEF IsRowMajor, Item, At
<1> HIDE DEF strides, full
<1>8. Leaves(c, SpreadStore(c, v, strides)) = Element(c, v)
  BY <1>4, <1>5, <1>6, <1>7, Leaving
<1> QED
  BY <1>8 DEF strides

\* sve_add and sve_add_scalar store every element once.
LEMMA StridedRight ==
  ASSUME NEW c \in Calls, Strided(c)
  PROVE  /\ StoresOnce(c)
         /\ Addressed(c) => StoresElements(c) /\ CoversOutput(c)
<1>1. c.name = "sve_add" \/ c.name = "sve_add_scalar"
  BY DEF Strided
<1>2. PICK strides : /\ DOMAIN strides = DOMAIN c.ins
                     /\ \A u : Stores(c, u) = StridedStores(c, u, strides)
                     /\ Addressed(c) =>
                          \A v \in All(c.out) : Leaves(c, SpreadStore(c, v, strides)) = Element(c, v)
  <2>1. CASE c.name = "sve_add"
    <3> DEFINE strides == [k \in DOMAIN c.ins |-> BroadcastStrides(c.ins[k], c.out.size)]
    <3>1. DOMAIN strides = DOMAIN c.ins /\ \A u : Stores(c, u) = StridedStores(c, u, strides)
      BY <2>1, StoresAre DEF AddStores
    <3>2. \A v \in All(c.out) : Leaves(c, SpreadStore(c, v, strides)) = Element(c, v)
      BY <2>1, AddLeaves
    <3> HIDE DEF strides
    <3> QED
      BY <3>1, <3>2
  <2>2. CASE c.name = "sve_add_scalar"
    <3> DEFINE strides == <<c.ins[1].stride>>
    <3>1. DOMAIN strides = DOMAIN c.ins
      <4>1. DOMAIN c.ins = 1..Len(c.ins) /\ Len(c.ins) \in Arity(c)
        BY CallsAssumption
      <4>2. Arity(c) = {1}
        BY <2>2 DEF Arity
      <4>3. DOMAIN strides = 1..1
        OBVIOUS
      <4> QED
        BY <4>1, <4>2, <4>3
    <3>2. \A u : Stores(c, u) = StridedStores(c, u, strides)
      BY <2>2, StoresAre DEF AddScalarStores
    <3>3. Addressed(c) => \A v \in All(c.out) : Leaves(c, SpreadStore(c, v, strides)) = Element(c, v)
      BY <2>2, ScalarLeaves
    <3> HIDE DEF strides
    <3> QED
      BY <3>1, <3>2, <3>3
  <2> QED
    BY <1>1, <2>1, <2>2
<1>3. \A u \in UnitsOf(c) : Stores(c, u) = {SpreadStore(c, v, strides) : v \in RowOf(c.out.size, u)}
  BY <1>2, SpreadStores
<1>4. \A v : SpreadStore(c, v, strides).to = <<c.out.at, Offset(RowMajor(c.out.size), v)>>
  BY DEF SpreadStore, Put, Item
<1>5. StoresOnce(c)
  <2> SUFFICES ASSUME NEW u \in UnitsOf(c), NEW s \in Stores(c, u), NEW r \in Stores(c, u),
                      s.to = r.to
               PROVE  s = r
    BY DEF StoresOnce
  <2>1. PICK v \in RowOf(c.out.size, u) : s = SpreadStore(c, v, strides)
    BY <1>3
  <2>2. PICK w \in RowOf(c.out.size, u) : r = SpreadStore(c, w, strides)
    BY <1>3
  <2>3. Offset(RowMajor(c.out.size), v) = Offset(RowMajor(c.out.size), w)
    BY <1>4, <2>1, <2>2
  <2>4. v = w
    BY <2>3, SpreadOnce
  <2> QED
    BY <2>1, <2>2, <2>4
<1>6. ASSUME Addressed(c) PROVE StoresElements(c) /\ CoversOutput(c)
  <2>1. StoresElements(c)
    <3> SUFFICES ASSUME NEW u \in UnitsOf(c), NEW s \in Stores(c, u)
                 PROVE  \E v \in All(c.out) : Leaves(c, s) = Element(c, v)
      BY DEF StoresElements
    <3>1. PICK v \in RowOf(c.out.size, u) : s = SpreadStore(c, v, strides)
      BY <1>3
    <3>2. v \in All(c.out)
      BY RowsAre
    <3> QED
      BY <1>2, <1>6, <3>1, <3>2
  <2>2. CoversOutput(c)
    <3> SUFFICES ASSUME NEW v \in All(c.out)
                 PROVE  \E u \in UnitsOf(c) : \E s \in Stores(c, u) :
                          s.to[1] # "rms" /\ Leaves(c, s) = Element(c, v)
      BY DEF CoversOutput
    <3>1. PICK u \in UnitsOf(c) : v \in RowOf(c.out.size, u)
      BY RowsAre
    <3>2. SpreadStore(c, v, strides) \in Stores(c, u)
      BY <1>3, <3>1
    <3>3. SpreadStore(c, v, strides).to[1] # "rms"
      BY <1>4, CallFacts
    <3> QED
      BY <1>2, <1>6, <3>2, <3>3
  <2> QED
    BY <2>1, <2>2
<1> QED
  BY <1>5, <1>6

-----------------------------------------------------------------------------
(* rope *)

\* Where a row of a batch and head begins, and the two stores of a complex number.
Place3(t, b, h, y) == b * t.stride[1] + h * t.stride[2] + y * t.stride[3]
FreqPlace(f, b, y) == b * FreqBatchStride(f) + y * Width(f)
RopeAt(c, b, h, y, e) ==
  Put(Item(c.out, Place3(c.out, b, h, y) + e), c.name, e % 2,
      Pair(c.ins[1], Place3(c.ins[1], b, h, y) + Real(e)) \o
      Pair(c.ins[2], FreqPlace(c.ins[2], b, y) + Real(e)))
FreqIndex(f, b, y, r) == IF Len(f.size) = 3 THEN <<b, y, r>> ELSE <<y, r>>

\* The sizes and strides of rope's tensors.
LEMMA RopeFacts ==
  ASSUME NEW c \in Calls, c.name \in Rope
  PROVE  /\ c.out.size \in Seq(Nat) /\ Len(c.out.size) = 4 /\ DOMAIN c.out.size = 1..4
         /\ \A d \in 1..4 : c.out.size[d] \in Nat /\ c.out.stride[d] \in Nat /\ c.ins[1].stride[d] \in Nat
         /\ c.out.stride[4] = 1 /\ c.ins[1].size = c.out.size /\ DOMAIN c.ins = 1..2
         /\ Width(c.out) = c.out.size[4] /\ Width(c.ins[1]) = c.out.size[4] /\ c.out.size[4] % 2 = 0
         /\ NoOverlap(c.out) /\ IsRowMajor(c.ins[2]) /\ Len(c.ins[2].size) \in {2, 3}
         /\ c.ins[2].size \in Seq(Nat)
<1>1. RopeAccepts(c) /\ DOMAIN c.ins = 1..2 /\ 1 \in DOMAIN c.ins /\ 2 \in DOMAIN c.ins
  <2>1. 1 \in 1..2 /\ 2 \in 1..2
    OBVIOUS
  <2> QED
    BY <2>1, CallFacts, CallArity
<1>2. /\ Len(c.out.size) = 4 /\ c.out.stride[4] = 1 /\ Width(c.out) % 2 = 0
      /\ NoOverlap(c.out) /\ c.ins[1].size = c.out.size
      /\ Len(c.ins[2].size) \in {2, 3} /\ IsRowMajor(c.ins[2])
  BY <1>1 DEF RopeAccepts, LikeOutput
<1>3. /\ c.out.size \in Seq(Nat) /\ c.out.stride \in Seq(Nat) /\ c.ins[1].stride \in Seq(Nat)
      /\ Len(c.out.size) = Len(c.out.stride) /\ Len(c.ins[1].size) = Len(c.ins[1].stride)
      /\ c.ins[2].size \in Seq(Nat)
  BY <1>1, CallFacts
<1>4. Len(c.out.stride) = 4 /\ Len(c.ins[1].stride) = 4
  BY <1>2, <1>3
<1>5. /\ \A d \in 1..4 : c.out.size[d] \in Nat
      /\ \A d \in 1..4 : c.out.stride[d] \in Nat
      /\ \A d \in 1..4 : c.ins[1].stride[d] \in Nat
      /\ DOMAIN c.out.size = 1..4
  BY <1>2, <1>3, <1>4, SizesOfFour
<1>6. Width(c.out) = c.out.size[4] /\ Width(c.ins[1]) = c.out.size[4]
  BY <1>2 DEF Width
<1>7. c.out.size[4] % 2 = 0
  BY <1>2, <1>6
<1> QED
  BY <1>1, <1>2, <1>3, <1>5, <1>6, <1>7

\* A unit of rope is a batch and a head.
LEMMA RopeUnit ==
  ASSUME NEW c \in Calls, c.name \in Rope, NEW u \in UnitsOf(c)
  PROVE  u \in Nat /\ BatchAndHead(u, c.out.size[1], c.out.size[2])
<1>1. u \in Nat /\ u < Units(c)
  BY CallFacts DEF UnitsOf
<1>2. Units(c) = c.out.size[1] * c.out.size[2]
  BY RopeFacts, UnitsAre
<1>3. PICK b \in Nat, h \in Nat : b = c.out.size[1] /\ h = c.out.size[2]
  <2>1. 1 \in 1..4 /\ 2 \in 1..4
    OBVIOUS
  <2> QED
    BY <2>1, RopeFacts
<1>4. BatchAndHead(u, b, h)
  BY <1>1, <1>2, <1>3, DivBelow
<1> QED
  BY <1>1, <1>3, <1>4

\* What a unit of rope stores.
LEMMA RopeStoresAre ==
  ASSUME NEW c \in Calls, c.name \in Rope, NEW u \in UnitsOf(c)
  PROVE  /\ \A s \in Stores(c, u) :
              \E y \in 0..(c.out.size[3] - 1), e \in 0..(c.out.size[4] - 1) :
                s = RopeAt(c, u \div c.out.size[2], u % c.out.size[2], y, e)
         /\ \A y \in 0..(c.out.size[3] - 1), e \in 0..(c.out.size[4] - 1) :
              RopeAt(c, u \div c.out.size[2], u % c.out.size[2], y, e) \in Stores(c, u)
<1>1. PICK H, S, D : H = c.out.size[2] /\ S = c.out.size[3] /\ D = c.out.size[4] /\ D \in Nat
  <2>1. 4 \in 1..4
    OBVIOUS
  <2> QED
    BY <2>1, RopeFacts
<1> DEFINE b == u \div H
           h == u % H
           A(t, y) == b * t.stride[1] + h * t.stride[2] + y * t.stride[3]
           F(y) == b * FreqBatchStride(c.ins[2]) + y * Width(c.ins[2])
<1>2. Stores(c, u) = UNION {RopeRow(c, A(c.ins[1], y), F(y), A(c.out, y)) : y \in 0..(S - 1)}
  <2>1. Stores(c, u) = HeadRows(c, u, RopeRow)
    BY StoresAre
  <2>2. c.ins[1].size[2] = H /\ c.ins[1].size[3] = S
    BY <1>1, RopeFacts
  <2> QED
    BY <2>1, <2>2 DEF HeadRows
<1>3. Sweep(Width(c.ins[1])) = 0..(D - 1)
  BY <1>1, RopeFacts, SweepIs
<1>4. ASSUME NEW y
      PROVE  RopeRow(c, A(c.ins[1], y), F(y), A(c.out, y)) = {RopeAt(c, b, h, y, e) : e \in 0..(D - 1)}
  <2>1. A(c.ins[1], y) = Place3(c.ins[1], b, h, y) /\ A(c.out, y) = Place3(c.out, b, h, y)
        /\ F(y) = FreqPlace(c.ins[2], b, y)
    BY DEF Place3, FreqPlace
  <2> HIDE DEF A, F, b, h
  <2> QED
    BY <1>3, <2>1 DEF RopeRow, RopeAt
<1> HIDE DEF A, F, b, h
<1>5. Stores(c, u) = UNION {{RopeAt(c, b, h, y, e) : e \in 0..(D - 1)} : y \in 0..(S - 1)}
  BY <1>2, <1>4
<1>6. /\ \A s \in Stores(c, u) : \E y \in 0..(S - 1), e \in 0..(D - 1) : s = RopeAt(c, b, h, y, e)
      /\ \A y \in 0..(S - 1), e \in 0..(D - 1) : RopeAt(c, b, h, y, e) \in Stores(c, u)
  BY <1>5
<1> QED
  BY <1>1, <1>6 DEF b, h

\* An element lies r places behind the beginning p of its row.
OffsetIs(g, v, p, r) == Offset(g, v) = p + r /\ p \in Nat

\* The place of a row of a tensor of four dimensions.
RowPlace(g, b, h, y) == b * g[1] + h * g[2] + y * g[3]

\* The place of an element from that of its row.
LEMMA FourPlace ==
  ASSUME NEW g, \A d \in 1..4 : g[d] \in Nat, g[4] = 1,
         NEW b \in Nat, NEW h \in Nat, NEW y \in Nat, NEW r \in Nat
  PROVE  OffsetIs(g, <<b, h, y, r>>, RowPlace(g, b, h, y), r)
<1>1. Offset(g, <<b, h, y, r>>) = ((b * g[1] + h * g[2]) + y * g[3]) + r * g[4]
  BY OffsetOfFour
<1>2. r * g[4] = r
  OBVIOUS
<1>3. RowPlace(g, b, h, y) = (b * g[1] + h * g[2]) + y * g[3]
  BY DEF RowPlace
<1>4. RowPlace(g, b, h, y) \in Nat
  <2>1. g[1] \in Nat /\ g[2] \in Nat /\ g[3] \in Nat
    OBVIOUS
  <2>2. b * g[1] \in Nat /\ h * g[2] \in Nat /\ y * g[3] \in Nat
    BY <2>1
  <2> QED
    BY <1>3, <2>2
<1> QED
  BY <1>1, <1>2, <1>3, <1>4 DEF OffsetIs

\* As of the tensors that rope is called with.
LEMMA RopePlace ==
  ASSUME NEW t, \A d \in 1..4 : t.stride[d] \in Nat, t.stride[4] = 1,
         NEW b \in Nat, NEW h \in Nat, NEW y \in Nat, NEW r \in Nat
  PROVE  OffsetIs(t.stride, <<b, h, y, r>>, Place3(t, b, h, y), r)
<1>1. PICK g : g = t.stride
  OBVIOUS
<1>2. (\A d \in 1..4 : g[d] \in Nat) /\ g[4] = 1
  BY <1>1
<1>3. OffsetIs(g, <<b, h, y, r>>, RowPlace(g, b, h, y), r)
  BY <1>2, FourPlace
<1>4. Place3(t, b, h, y) = RowPlace(g, b, h, y)
  BY <1>1 DEF Place3, RowPlace
<1> QED
  BY <1>1, <1>3, <1>4

\* The place of an element of three dimensions, and of two.
LEMMA OffsetOfThree ==
  ASSUME NEW strides, \A d \in 1..3 : strides[d] \in Nat,
         NEW b \in Nat, NEW y \in Nat, NEW e \in Nat
  PROVE  Offset(strides, <<b, y, e>>) = (b * strides[1] + y * strides[2]) + e * strides[3]
<1> DEFINE v == <<b, y, e>>
<1>1. Len(v) = 3 /\ Len(v) \in Nat /\ v[1] = b /\ v[2] = y /\ v[3] = e
  OBVIOUS
<1> HIDE DEF v
<1>2. PICK S : /\ S[0] = 0
               /\ \A d \in 1..Len(v) : S[d] = S[d - 1] + v[d] * strides[d]
               /\ Offset(strides, v) = S[Len(v)]
  BY <1>1, OffsetSteps
<1>3. S[1] = S[0] + b * strides[1]
  BY <1>1, <1>2
<1>4. S[2] = S[1] + y * strides[2]
  BY <1>1, <1>2
<1>5. S[3] = S[2] + e * strides[3]
  BY <1>1, <1>2
<1>6. b * strides[1] \in Nat /\ y * strides[2] \in Nat /\ e * strides[3] \in Nat
  BY (1 \in 1..3 /\ 2 \in 1..3 /\ 3 \in 1..3)
<1>7. S[1] = b * strides[1]
  BY <1>2, <1>3, <1>6
<1> QED
  BY <1>1, <1>2, <1>4, <1>5, <1>7 DEF v

LEMMA OffsetOfTwo ==
  ASSUME NEW strides, \A d \in 1..2 : strides[d] \in Nat, NEW y \in Nat, NEW e \in Nat
  PROVE  Offset(strides, <<y, e>>) = y * strides[1] + e * strides[2]
<1> DEFINE v == <<y, e>>
<1>1. Len(v) = 2 /\ Len(v) \in Nat /\ v[1] = y /\ v[2] = e
  OBVIOUS
<1> HIDE DEF v
<1>2. PICK S : /\ S[0] = 0
               /\ \A d \in 1..Len(v) : S[d] = S[d - 1] + v[d] * strides[d]
               /\ Offset(strides, v) = S[Len(v)]
  BY <1>1, OffsetSteps
<1>3. S[1] = S[0] + y * strides[1]
  BY <1>1, <1>2
<1>4. S[2] = S[1] + e * strides[2]
  BY <1>1, <1>2
<1>5. y * strides[1] \in Nat /\ e * strides[2] \in Nat
  BY (1 \in 1..2 /\ 2 \in 1..2)
<1>6. S[1] = y * strides[1]
  BY <1>2, <1>3, <1>5
<1> QED
  BY <1>1, <1>2, <1>4, <1>6 DEF v

\* Where a row of a plane of the frequencies begins, and a row of one plane.
PlaneRow(g, z, b, y) == b * g[1] + y * z[3]
LineRow(z, y) == y * z[2]

\* Three dimensions in row-major order.
LEMMA ThreePlace ==
  ASSUME NEW z \in Seq(Nat), Len(z) = 3, NEW g, g = RowMajor(z),
         NEW b \in Nat, NEW y \in Nat, NEW r \in Nat
  PROVE  OffsetIs(g, <<b, y, r>>, PlaneRow(g, z, b, y), r)
<1>1. DOMAIN z = 1..3 /\ \A d \in 1..3 : z[d] \in Nat
  BY SeqIsVector
<1>2. g[1] = Inner(z, 1, 3) /\ g[2] = Inner(z, 2, 3) /\ g[3] = Inner(z, 3, 3)
  BY <1>1 DEF RowMajor
<1>3. Inner(z, 3, 3) = 1 /\ Inner(z, 2, 2) = 1
  BY InnerSteps
<1>4. Inner(z, 2, 2 + 1) = Inner(z, 2, 2) * z[2 + 1]
  BY InnerSteps
<1>5. g[3] = 1 /\ g[2] = z[3] /\ z[3] \in Nat
  BY <1>1, <1>2, <1>3, <1>4
<1>6. g[1] \in Nat
  <2>1. 1 \in Nat /\ 3 \in Nat /\ 1 <= 3 /\ \A i \in (1 + 1)..3 : z[i] \in Nat
    BY <1>1
  <2>2. Inner(z, 1, 3) \in Nat
    BY <2>1, InnerType
  <2> QED
    BY <1>2, <2>2
<1>7. \A d \in 1..3 : g[d] \in Nat
  <2>1. \A d \in 1..3 : d = 1 \/ d = 2 \/ d = 3
    OBVIOUS
  <2> QED
    BY <1>5, <1>6, <2>1
<1>8. Offset(g, <<b, y, r>>) = (b * g[1] + y * g[2]) + r * g[3]
  BY <1>7, OffsetOfThree
<1>9. b * g[1] \in Nat /\ y * z[3] \in Nat /\ r * g[3] = r /\ y * g[2] = y * z[3]
  BY <1>5, <1>6
<1>10. PlaneRow(g, z, b, y) = b * g[1] + y * z[3]
  BY DEF PlaneRow
<1>11. Offset(g, <<b, y, r>>) = PlaneRow(g, z, b, y) + r
  BY <1>8, <1>9, <1>10
<1>12. PlaneRow(g, z, b, y) \in Nat
  BY <1>9, <1>10
<1> QED
  BY <1>11, <1>12 DEF OffsetIs

\* Two of them.
LEMMA TwoPlace ==
  ASSUME NEW z \in Seq(Nat), Len(z) = 2, NEW g, g = RowMajor(z), NEW y \in Nat, NEW r \in Nat
  PROVE  OffsetIs(g, <<y, r>>, LineRow(z, y), r)
<1>1. DOMAIN z = 1..2 /\ \A d \in 1..2 : z[d] \in Nat
  BY SeqIsVector
<1>2. g[1] = Inner(z, 1, 2) /\ g[2] = Inner(z, 2, 2)
  BY <1>1 DEF RowMajor
<1>3. Inner(z, 2, 2) = 1 /\ Inner(z, 1, 1) = 1
  BY InnerSteps
<1>4. Inner(z, 1, 1 + 1) = Inner(z, 1, 1) * z[1 + 1]
  BY InnerSteps
<1>5. g[2] = 1 /\ g[1] = z[2] /\ z[2] \in Nat
  BY <1>1, <1>2, <1>3, <1>4
<1>6. \A d \in 1..2 : g[d] \in Nat
  <2>1. \A d \in 1..2 : d = 1 \/ d = 2
    OBVIOUS
  <2> QED
    BY <1>5, <2>1
<1>7. Offset(g, <<y, r>>) = y * g[1] + r * g[2]
  BY <1>6, OffsetOfTwo
<1>8. y * z[2] \in Nat /\ r * g[2] = r /\ y * g[1] = y * z[2]
  BY <1>5
<1> QED
  BY <1>7, <1>8 DEF LineRow, OffsetIs

\* The place of a frequency from that of its row.
LEMMA FreqOffset ==
  ASSUME NEW f, f.size \in Seq(Nat), Len(f.size) \in {2, 3}, IsRowMajor(f),
         NEW b \in Nat, NEW y \in Nat, NEW r \in Nat
  PROVE  OffsetIs(f.stride, FreqIndex(f, b, y, r), FreqPlace(f, b, y), r)
<1>1. PICK z \in Seq(Nat) : z = f.size
  OBVIOUS
<1>2. PICK g : g = f.stride /\ g = RowMajor(z)
  BY <1>1 DEF IsRowMajor
<1>3. CASE Len(z) = 3
  <2>1. OffsetIs(g, <<b, y, r>>, PlaneRow(g, z, b, y), r)
    BY <1>2, <1>3, ThreePlace
  <2>2. FreqBatchStride(f) = g[1] /\ Width(f) = z[3]
    BY <1>1, <1>2, <1>3 DEF FreqBatchStride, Width
  <2>3. FreqPlace(f, b, y) = PlaneRow(g, z, b, y)
    BY <2>2 DEF FreqPlace, PlaneRow
  <2>4. FreqIndex(f, b, y, r) = <<b, y, r>>
    BY <1>1, <1>3 DEF FreqIndex
  <2> QED
    BY <1>2, <2>1, <2>3, <2>4
<1>4. CASE Len(z) = 2
  <2>1. OffsetIs(g, <<y, r>>, LineRow(z, y), r)
    BY <1>2, <1>4, TwoPlace
  <2>2. FreqBatchStride(f) = 0 /\ Width(f) = z[2]
    BY <1>1, <1>4 DEF FreqBatchStride, Width
  <2>3. LineRow(z, y) \in Nat /\ b * 0 = 0
    BY <2>1 DEF OffsetIs
  <2>4. FreqPlace(f, b, y) = LineRow(z, y)
    <3>1. FreqPlace(f, b, y) = b * 0 + y * z[2]
      BY <2>2 DEF FreqPlace
    <3> QED
      BY <2>3, <3>1 DEF LineRow
  <2>5. FreqIndex(f, b, y, r) = <<y, r>>
    BY <1>1, <1>4 DEF FreqIndex
  <2> QED
    BY <1>2, <2>1, <2>4, <2>5
<1> QED
  BY <1>1, <1>3, <1>4

\* A complex number of a tensor, from the places of its two parts.
LEMMA PairIs ==
  ASSUME NEW t, NEW v, NEW w, NEW p, NEW q \in Nat,
         OffsetIs(t.stride, v, p, q), OffsetIs(t.stride, w, p, q + 1)
  PROVE  Pair(t, p + q) = <<At(t, v), At(t, w)>>
<1>1. PICK n \in Nat : n = p
  BY DEF OffsetIs
<1>2. (n + q) + 1 = n + (q + 1)
  OBVIOUS
<1>3. Offset(t.stride, v) = n + q /\ Offset(t.stride, w) = (n + q) + 1
  BY <1>1, <1>2 DEF OffsetIs
<1> QED
  BY <1>1, <1>3 DEF Pair, Item, At

\* The parts of an element of four, three and two dimensions.
LEMMA Exchange ==
  ASSUME NEW b, NEW h, NEW y, NEW e, NEW q
  PROVE  /\ [<<b, h, y, e>> EXCEPT ![4] = q] = <<b, h, y, q>>
         /\ [<<b, y, e>> EXCEPT ![3] = q] = <<b, y, q>>
         /\ [<<y, e>> EXCEPT ![2] = q] = <<y, q>>
<1>1. [<<b, h, y, e>> EXCEPT ![4] = q] = <<b, h, y, q>>
  OBVIOUS
<1>2. [<<b, y, e>> EXCEPT ![3] = q] = <<b, y, q>>
  OBVIOUS
<1>3. [<<y, e>> EXCEPT ![2] = q] = <<y, q>>
  OBVIOUS
<1> QED
  BY <1>1, <1>2, <1>3

\* A complex number of the input, and of the frequencies.
LEMMA ComplexInput ==
  ASSUME NEW t, NEW b, NEW h, NEW y, NEW e
  PROVE  Complex(t, <<b, h, y, e>>, 4)
           = <<At(t, <<b, h, y, Real(e)>>), At(t, <<b, h, y, Real(e) + 1>>)>>
<1>1. PICK v : v = <<b, h, y, e>>
  OBVIOUS
<1>2. v[4] = e
  BY <1>1
<1>3. [v EXCEPT ![4] = Real(@)] = [v EXCEPT ![4] = Real(e)]
      /\ [v EXCEPT ![4] = Real(@) + 1] = [v EXCEPT ![4] = Real(e) + 1]
  BY <1>2
<1>4. [v EXCEPT ![4] = Real(e)] = <<b, h, y, Real(e)>>
      /\ [v EXCEPT ![4] = Real(e) + 1] = <<b, h, y, Real(e) + 1>>
  BY <1>1, Exchange
<1> QED
  BY <1>1, <1>3, <1>4 DEF Complex

LEMMA ComplexFreq ==
  ASSUME NEW f, Len(f.size) \in {2, 3}, NEW b, NEW y, NEW e
  PROVE  Complex(f, FreqIndex(f, b, y, e), Len(f.size))
           = <<At(f, FreqIndex(f, b, y, Real(e))), At(f, FreqIndex(f, b, y, Real(e) + 1))>>
<1>1. CASE Len(f.size) = 3
  <2>1. PICK v : v = <<b, y, e>>
    OBVIOUS
  <2>2. v[3] = e
    BY <2>1
  <2>3. [v EXCEPT ![3] = Real(@)] = [v EXCEPT ![3] = Real(e)]
        /\ [v EXCEPT ![3] = Real(@) + 1] = [v EXCEPT ![3] = Real(e) + 1]
    BY <2>2
  <2>4. [v EXCEPT ![3] = Real(e)] = <<b, y, Real(e)>>
        /\ [v EXCEPT ![3] = Real(e) + 1] = <<b, y, Real(e) + 1>>
    BY <2>1, Exchange
  <2>5. \A i : FreqIndex(f, b, y, i) = <<b, y, i>>
    BY <1>1 DEF FreqIndex
  <2>6. Complex(f, v, 3) = <<At(f, <<b, y, Real(e)>>), At(f, <<b, y, Real(e) + 1>>)>>
    BY <2>3, <2>4 DEF Complex
  <2> QED
    BY <1>1, <2>1, <2>5, <2>6
<1>2. CASE Len(f.size) = 2
  <2>1. PICK v : v = <<y, e>>
    OBVIOUS
  <2>2. v[2] = e
    BY <2>1
  <2>3. [v EXCEPT ![2] = Real(@)] = [v EXCEPT ![2] = Real(e)]
        /\ [v EXCEPT ![2] = Real(@) + 1] = [v EXCEPT ![2] = Real(e) + 1]
    BY <2>2
  <2>4. [v EXCEPT ![2] = Real(e)] = <<y, Real(e)>>
        /\ [v EXCEPT ![2] = Real(e) + 1] = <<y, Real(e) + 1>>
    BY <2>1, Exchange
  <2>5. \A i : FreqIndex(f, b, y, i) = <<y, i>>
    BY <1>2 DEF FreqIndex
  <2>6. Complex(f, v, 2) = <<At(f, <<y, Real(e)>>), At(f, <<y, Real(e) + 1>>)>>
    BY <2>3, <2>4 DEF Complex
  <2> QED
    BY <1>2, <2>1, <2>5, <2>6
<1> QED
  BY <1>1, <1>2

\* What rope reads are places of its operands.
LEMMA PairPlaces ==
  ASSUME NEW c \in Calls, NEW k \in DOMAIN c.ins, NEW m \in Int
  PROVE  Pair(c.ins[k], m) \in Seq(Places(c))
<1>1. m + 1 \in Int
  OBVIOUS
<1>2. Item(c.ins[k], m) \in Places(c) /\ Item(c.ins[k], m + 1) \in Places(c)
  BY <1>1, IsPlace
<1> QED
  BY <1>2 DEF Pair

\* The sequence of a store of rope is of places.
LEMMA JoinPlaces ==
  ASSUME NEW X, NEW s \in Seq(X), NEW r \in Seq(X)
  PROVE  s \o r \in Seq(X)
OBVIOUS

\* A store of rope leaves the element of its batch, head, row and place in the row.
LEMMA RopeLeaves ==
  ASSUME NEW c \in Calls, c.name \in Rope, Addressed(c),
         NEW b \in Nat, NEW h \in Nat, NEW y \in Nat, NEW e \in 0..(c.out.size[4] - 1)
  PROVE  Leaves(c, RopeAt(c, b, h, y, e)) = Element(c, <<b, h, y, e>>)
<1>1. PICK D \in Nat : D = c.out.size[4] /\ D % 2 = 0
  <2>1. 4 \in 1..4
    OBVIOUS
  <2> QED
    BY <2>1, RopeFacts
<1>2. e \in 0..(D - 1) /\ e \in Nat
  BY <1>1
<1>3. Real(e) \in 0..(D - 1) /\ Real(e) + 1 \in 0..(D - 1)
  BY <1>1, <1>2, PairInRow
<1>4. PICK q \in Nat : q = Real(e) /\ q + 1 \in Nat
  BY <1>3
<1>5. PICK x, f, o : x = c.ins[1] /\ f = c.ins[2] /\ o = c.out
  OBVIOUS
<1>6. /\ \A d \in 1..4 : o.stride[d] \in Nat
      /\ \A d \in 1..4 : x.stride[d] \in Nat
      /\ o.stride[4] = 1 /\ x.stride[4] = 1
      /\ f.size \in Seq(Nat) /\ Len(f.size) \in {2, 3} /\ IsRowMajor(f)
      /\ 1 \in DOMAIN c.ins /\ 2 \in DOMAIN c.ins
  <2>1. x.stride[4] = 1
    BY <1>5, AddressedIs
  <2>2. 1 \in 1..2 /\ 2 \in 1..2
    OBVIOUS
  <2> QED
    BY <1>5, <2>1, <2>2, RopeFacts
<1> DEFINE P == Place3(x, b, h, y)
           F == FreqPlace(f, b, y)
<1>7. OffsetIs(o.stride, <<b, h, y, e>>, Place3(o, b, h, y), e)
  BY <1>2, <1>6, RopePlace
<1>8. OffsetIs(x.stride, <<b, h, y, q>>, P, q) /\ OffsetIs(x.stride, <<b, h, y, q + 1>>, P, q + 1)
  <2> HIDE DEF P
  <2>1. OffsetIs(x.stride, <<b, h, y, q>>, Place3(x, b, h, y), q)
    BY <1>6, RopePlace
  <2>2. OffsetIs(x.stride, <<b, h, y, q + 1>>, Place3(x, b, h, y), q + 1)
    BY <1>4, <1>6, RopePlace
  <2> QED
    BY <2>1, <2>2 DEF P
<1>9. OffsetIs(f.stride, FreqIndex(f, b, y, q), F, q) /\ OffsetIs(f.stride, FreqIndex(f, b, y, q + 1), F, q + 1)
  <2> HIDE DEF F
  <2>1. OffsetIs(f.stride, FreqIndex(f, b, y, q), FreqPlace(f, b, y), q)
    BY <1>6, FreqOffset
  <2>2. OffsetIs(f.stride, FreqIndex(f, b, y, q + 1), FreqPlace(f, b, y), q + 1)
    BY <1>4, <1>6, FreqOffset
  <2> QED
    BY <2>1, <2>2 DEF F
<1>10. P \in Nat /\ F \in Nat /\ P + q \in Int /\ F + q \in Int
  <2>1. P \in Nat /\ F \in Nat
    BY <1>8, <1>9 DEF OffsetIs
  <2> HIDE DEF P, F
  <2> QED
    BY <2>1
<1> HIDE DEF P, F
<1>11. Pair(x, P + q) = Complex(x, <<b, h, y, e>>, 4)
  <2>1. Pair(x, P + q) = <<At(x, <<b, h, y, q>>), At(x, <<b, h, y, q + 1>>)>>
    BY <1>8, PairIs
  <2> QED
    BY <1>4, <2>1, ComplexInput
<1>12. Pair(f, F + q) = Complex(f, FreqIndex(f, b, y, e), Len(f.size))
  <2>1. Pair(f, F + q) = <<At(f, FreqIndex(f, b, y, q)), At(f, FreqIndex(f, b, y, q + 1))>>
    BY <1>9, PairIs
  <2> QED
    <3>1. Complex(f, FreqIndex(f, b, y, e), Len(f.size))
            = <<At(f, FreqIndex(f, b, y, Real(e))), At(f, FreqIndex(f, b, y, Real(e) + 1))>>
      BY <1>6, ComplexFreq
    <3> QED
      BY <1>4, <2>1, <3>1
<1>13. Item(o, Place3(o, b, h, y) + e) = At(o, <<b, h, y, e>>)
  BY <1>7 DEF OffsetIs, Item, At
<1> DEFINE from == Pair(x, P + q) \o Pair(f, F + q)
<1>14. Origins(c, from) = from
  <2>1. Pair(x, P + q) \in Seq(Places(c)) /\ Pair(f, F + q) \in Seq(Places(c))
    BY <1>5, <1>6, <1>10, PairPlaces
  <2>2. from \in Seq(Places(c))
    BY <2>1, JoinPlaces
  <2> HIDE DEF from
  <2> QED
    BY <2>2, PlacesOrigin
<1>15. RopeAt(c, b, h, y, e) = Put(At(o, <<b, h, y, e>>), c.name, e % 2, from)
  BY <1>4, <1>5, <1>13 DEF RopeAt, P, F
<1>16. Leaves(c, RopeAt(c, b, h, y, e)) = Expect(At(o, <<b, h, y, e>>), c.name, e % 2, from)
  <2> HIDE DEF from
  <2> QED
    BY <1>14, <1>15, Leaving
<1>17. Element(c, <<b, h, y, e>>) = Expect(At(o, <<b, h, y, e>>), c.name, e % 2, from)
  <2>1. PICK v : v = <<b, h, y, e>>
    OBVIOUS
  <2>2. v[1] = b /\ v[3] = y /\ v[4] = e
    BY <2>1
  <2>3. Element(c, v) = RopeElement(c, v)
    BY ElementIs
  <2>4. RopeElement(c, v) = Expect(At(o, v), c.name, e % 2, Complex(x, v, 4) \o
          Complex(f, IF Len(f.size) = 3 THEN <<b, y, e>> ELSE <<y, e>>, Len(f.size)))
    BY <1>5, <2>2 DEF RopeElement
  <2>5. FreqIndex(f, b, y, e) = IF Len(f.size) = 3 THEN <<b, y, e>> ELSE <<y, e>>
    BY DEF FreqIndex
  <2> QED
    BY <1>11, <1>12, <2>1, <2>3, <2>4, <2>5
<1> QED
  BY <1>16, <1>17

\* Where a store of rope goes.
LEMMA RopeTo ==
  ASSUME NEW c \in Calls, c.name \in Rope,
         NEW b \in Nat, NEW h \in Nat, NEW y \in Nat, NEW e \in Nat
  PROVE  RopeAt(c, b, h, y, e).to = At(c.out, <<b, h, y, e>>)
<1>1. PICK o : o = c.out
  OBVIOUS
<1>2. (\A d \in 1..4 : o.stride[d] \in Nat) /\ o.stride[4] = 1
  BY <1>1, RopeFacts
<1>3. OffsetIs(o.stride, <<b, h, y, e>>, Place3(o, b, h, y), e)
  BY <1>2, RopePlace
<1>4. Item(o, Place3(o, b, h, y) + e) = At(o, <<b, h, y, e>>)
  BY <1>3 DEF OffsetIs, Item, At
<1> QED
  BY <1>1, <1>4 DEF RopeAt, Put

\* The batch and head of a unit, a row and an element are an index of the output.
LEMMA RopeIndex ==
  ASSUME NEW c \in Calls, c.name \in Rope, NEW u \in UnitsOf(c),
         NEW y \in 0..(c.out.size[3] - 1), NEW e \in 0..(c.out.size[4] - 1)
  PROVE  <<u \div c.out.size[2], u % c.out.size[2], y, e>> \in All(c.out)
         /\ u \div c.out.size[2] \in Nat /\ u % c.out.size[2] \in Nat
<1>1. PICK o : o = c.out
  OBVIOUS
<1>2. o.size \in Seq(Nat) /\ Len(o.size) = 4
  BY <1>1, RopeFacts
<1>3. u \in Nat /\ BatchAndHead(u, o.size[1], o.size[2])
  BY <1>1, RopeUnit
<1>4. PICK p \in (0..(o.size[3] - 1)) \X (0..(o.size[4] - 1)) : p[1] = y /\ p[2] = e
  <2>1. PICK S, D : S = 0..(o.size[3] - 1) /\ D = 0..(o.size[4] - 1)
    OBVIOUS
  <2>2. y \in S /\ e \in D
    BY <1>1, <2>1
  <2>3. <<y, e>> \in S \X D /\ <<y, e>>[1] = y /\ <<y, e>>[2] = e
    BY <2>2
  <2> QED
    BY <2>1, <2>3
<1>5. <<u \div o.size[2], u % o.size[2], p[1], p[2]>> \in All(o)
  BY <1>2, <1>3, VectorsOfUnit
<1>6. u \div o.size[2] \in Nat /\ u % o.size[2] \in Nat
  BY <1>3 DEF BatchAndHead
<1> QED
  BY <1>1, <1>4, <1>5, <1>6

\* The unit of a batch and a head.
IsUnit(u, B, H, b, h) == u < B * H /\ u \div H = b /\ u % H = h

\* Every batch and head have one.
LEMMA UnitOf ==
  ASSUME NEW B \in Nat, NEW H \in Nat, NEW b \in Nat, NEW h \in Nat, b < B, h < H
  PROVE  \E u \in Nat : IsUnit(u, B, H, b, h)
<1>1. PICK u \in Nat : u = H * b + h
  OBVIOUS
<1>2. u < B * H
  <2>1. H * b + H <= B * H
    <3>1. (b + 1) * H <= B * H
      BY b + 1 <= B
    <3> QED
      BY <3>1
  <2> QED
    BY <1>1, <2>1
<1>3. u \div H = b /\ u % H = h
  <2>1. PICK q \in Int, r \in 0..(H - 1) : q = u \div H /\ r = u % H /\ u = H * q + r
    OBVIOUS
  <2>2. q = b
    <3>1. q < b => H * q + H <= H * b
      <4>1. q < b => H * (q + 1) <= H * b
        OBVIOUS
      <4> QED
        BY <4>1
    <3>2. b < q => H * b + H <= H * q
      <4>1. b < q => H * (b + 1) <= H * q
        OBVIOUS
      <4> QED
        BY <4>1
    <3> QED
      BY <1>1, <2>1, <3>1, <3>2
  <2> QED
    BY <1>1, <2>1, <2>2
<1> QED
  BY <1>2, <1>3 DEF IsUnit

\* An index of four dimensions.
LEMMA IndexOfFour ==
  ASSUME NEW t, t.size \in Seq(Nat), Len(t.size) = 4, NEW v \in All(t)
  PROVE  /\ v = <<v[1], v[2], v[3], v[4]>>
         /\ \A d \in 1..4 : v[d] \in Nat /\ v[d] < t.size[d]
<1>1. PICK z \in Seq(Nat) : z = t.size
  OBVIOUS
<1>2. DOMAIN z = 1..4 /\ \A d \in 1..4 : z[d] \in Nat
  BY <1>1, SizesOfFour
<1>3. v \in Below(z, 1..4)
  BY <1>1, <1>2 DEF All
<1>4. v \in [1..4 -> Nat] /\ \A d \in 1..4 : v[d] < z[d]
  BY <1>2, <1>3, BelowIs
<1>5. v = <<v[1], v[2], v[3], v[4]>>
  <2>1. PICK w : w = <<v[1], v[2], v[3], v[4]>>
    OBVIOUS
  <2>2. /\ 1 \in 1..4 /\ 2 \in 1..4 /\ 3 \in 1..4 /\ 4 \in 1..4
        /\ \A d \in 1..4 : d = 1 \/ d = 2 \/ d = 3 \/ d = 4
    OBVIOUS
  <2>3. w \in [1..4 -> Nat] /\ w[1] = v[1] /\ w[2] = v[2] /\ w[3] = v[3] /\ w[4] = v[4]
    BY <1>4, <2>1, <2>2, VectorOfFour
  <2>4. \A d \in 1..4 : w[d] = v[d]
    BY <2>2, <2>3
  <2>5. w = v
    <3>1. w = [d \in 1..4 |-> w[d]]
      BY <2>3
    <3>2. v = [d \in 1..4 |-> v[d]]
      BY <1>4
    <3> QED
      BY <2>4, <3>1, <3>2
  <2> QED
    BY <2>1, <2>5
<1> QED
  BY <1>1, <1>4, <1>5

\* rope stores every element once.
LEMMA RopeRight ==
  ASSUME NEW c \in Calls, c.name \in Rope
  PROVE  /\ StoresOnce(c)
         /\ Addressed(c) => StoresElements(c) /\ CoversOutput(c)
<1>1. StoresOnce(c)
  <2> SUFFICES ASSUME NEW u \in UnitsOf(c), NEW s \in Stores(c, u), NEW r \in Stores(c, u),
                      s.to = r.to
               PROVE  s = r
    BY DEF StoresOnce
  <2>1. PICK H : H = c.out.size[2]
    OBVIOUS
  <2> DEFINE b == u \div H
             h == u % H
  <2>2. PICK y \in 0..(c.out.size[3] - 1), e \in 0..(c.out.size[4] - 1) : s = RopeAt(c, b, h, y, e)
    BY <2>1, RopeStoresAre
  <2>3. PICK z \in 0..(c.out.size[3] - 1), f \in 0..(c.out.size[4] - 1) : r = RopeAt(c, b, h, z, f)
    BY <2>1, RopeStoresAre
  <2>4. /\ <<b, h, y, e>> \in All(c.out) /\ <<b, h, z, f>> \in All(c.out)
        /\ b \in Nat /\ h \in Nat
    BY <2>1, RopeIndex
  <2> HIDE DEF b, h
  <2>5. y \in Nat /\ e \in Nat /\ z \in Nat /\ f \in Nat
    <3>1. c.out.size[3] \in Nat /\ c.out.size[4] \in Nat
      BY (3 \in 1..4 /\ 4 \in 1..4), RopeFacts
    <3> QED
      BY <3>1
  <2>6. s.to = At(c.out, <<b, h, y, e>>) /\ r.to = At(c.out, <<b, h, z, f>>)
    BY <2>2, <2>3, <2>4, <2>5, RopeTo
  <2>7. Offset(c.out.stride, <<b, h, y, e>>) = Offset(c.out.stride, <<b, h, z, f>>)
    <3>1. PICK i, j : i = Offset(c.out.stride, <<b, h, y, e>>) /\ j = Offset(c.out.stride, <<b, h, z, f>>)
      OBVIOUS
    <3>2. <<c.out.at, i>> = <<c.out.at, j>>
      BY <2>6, <3>1 DEF At
    <3> QED
      BY <3>1, <3>2
  <2>8. <<b, h, y, e>> = <<b, h, z, f>>
    BY <2>4, <2>7, RopeFacts DEF NoOverlap
  <2>9. y = z /\ e = f
    BY <2>8
  <2> QED
    BY <2>2, <2>3, <2>9
<1>2. ASSUME Addressed(c) PROVE StoresElements(c) /\ CoversOutput(c)
  <2>1. StoresElements(c)
    <3> SUFFICES ASSUME NEW u \in UnitsOf(c), NEW s \in Stores(c, u)
                 PROVE  \E v \in All(c.out) : Leaves(c, s) = Element(c, v)
      BY DEF StoresElements
    <3>1. PICK H : H = c.out.size[2]
      OBVIOUS
    <3> DEFINE b == u \div H
               h == u % H
    <3>2. PICK y \in 0..(c.out.size[3] - 1), e \in 0..(c.out.size[4] - 1) : s = RopeAt(c, b, h, y, e)
      BY <3>1, RopeStoresAre
    <3>3. <<b, h, y, e>> \in All(c.out) /\ b \in Nat /\ h \in Nat
      BY <3>1, RopeIndex
    <3> HIDE DEF b, h
    <3>4. y \in Nat
      <4>1. c.out.size[3] \in Nat
        BY (3 \in 1..4), RopeFacts
      <4> QED
        BY <4>1
    <3>5. Leaves(c, s) = Element(c, <<b, h, y, e>>)
      BY <1>2, <3>2, <3>3, <3>4, RopeLeaves
    <3> QED
      BY <3>3, <3>5
  <2>2. CoversOutput(c)
    <3> SUFFICES ASSUME NEW v \in All(c.out)
                 PROVE  \E u \in UnitsOf(c) : \E s \in Stores(c, u) :
                          s.to[1] # "rms" /\ Leaves(c, s) = Element(c, v)
      BY DEF CoversOutput
    <3>1. PICK o : o = c.out
      OBVIOUS
    <3>2. o.size \in Seq(Nat) /\ Len(o.size) = 4 /\ o.at # "rms"
      BY <3>1, RopeFacts, CallFacts
    <3>3. v = <<v[1], v[2], v[3], v[4]>> /\ \A d \in 1..4 : v[d] \in Nat /\ v[d] < o.size[d]
      BY <3>1, <3>2, IndexOfFour
    <3>4. PICK B \in Nat, H \in Nat, S \in Nat, D \in Nat :
            B = o.size[1] /\ H = o.size[2] /\ S = o.size[3] /\ D = o.size[4]
      BY <3>2, SizesOfFour
    <3>5. PICK b \in Nat, h \in Nat, y \in Nat, e \in Nat :
            b = v[1] /\ h = v[2] /\ y = v[3] /\ e = v[4] /\ b < B /\ h < H /\ y < S /\ e < D
      BY <3>3, <3>4, (1 \in 1..4 /\ 2 \in 1..4 /\ 3 \in 1..4 /\ 4 \in 1..4)
    <3>6. PICK u \in Nat : u < B * H /\ u \div H = b /\ u % H = h
      <4>1. b < B /\ h < H
        BY <3>5
      <4>2. \E u \in Nat : IsUnit(u, B, H, b, h)
        BY <4>1, UnitOf
      <4> QED
        BY <4>2 DEF IsUnit
    <3>7. u \in UnitsOf(c)
      <4>1. Units(c) = B * H
        BY <3>1, <3>4, RopeFacts, UnitsAre
      <4>2. B * H \in Nat
        OBVIOUS
      <4> QED
        BY <3>6, <4>1, <4>2 DEF UnitsOf
    <3>8. y \in 0..(c.out.size[3] - 1) /\ e \in 0..(c.out.size[4] - 1)
      <4>1. y \in 0..(S - 1) /\ e \in 0..(D - 1)
        BY <3>5
      <4> QED
        BY <3>1, <3>4, <4>1
    <3>9. RopeAt(c, b, h, y, e) \in Stores(c, u)
      <4>1. RopeAt(c, u \div H, u % H, y, e) \in Stores(c, u)
        BY <3>1, <3>4, <3>7, <3>8, RopeStoresAre
      <4> QED
        BY <3>6, <4>1
    <3>10. RopeAt(c, b, h, y, e).to[1] # "rms"
      <4>1. RopeAt(c, b, h, y, e).to = At(o, <<b, h, y, e>>)
        BY <3>1, RopeTo
      <4> QED
        BY <3>2, <4>1 DEF At
    <3>11. v = <<b, h, y, e>>
      BY <3>3, <3>5
    <3>12. Leaves(c, RopeAt(c, b, h, y, e)) = Element(c, v)
      BY <1>2, <3>8, <3>11, RopeLeaves
    <3> QED
      BY <3>7, <3>9, <3>10, <3>12
  <2> QED
    BY <2>1, <2>2
<1> QED
  BY <1>1, <1>2

-----------------------------------------------------------------------------
(* act_scale_pack *)

\* The store of a byte of a row: of the activations, or of the scale behind them.
PackStore(c, u, e) ==
  LET w1 == c.ins[1].size[2]
  IN  IF e < w1
      THEN Put(Item(c.out, u * c.out.size[2] + e), c.name, 0, <<Item(c.ins[1], u * w1 + e)>>)
      ELSE Put(Item(c.out, u * c.out.size[2] + e), c.name, e - w1, <<Item(c.ins[2], u)>>)

\* The sizes of the tensors of act_scale_pack.
LEMMA PackFacts ==
  ASSUME NEW c \in Calls, c.name = "act_scale_pack"
  PROVE  /\ c.out.size \in Seq(Nat) /\ Len(c.out.size) = 2
         /\ c.ins[1].size \in Seq(Nat) /\ Len(c.ins[1].size) = 2
         /\ c.out.size[2] = c.ins[1].size[2] + 4
         /\ c.ins[2].size = <<c.ins[1].size[1], 1>>
         /\ 1 \in DOMAIN c.ins /\ 2 \in DOMAIN c.ins
         /\ c.ins[1].size[1] \in Nat /\ c.ins[1].size[2] \in Nat
<1>1. PackAccepts(c) /\ 1 \in DOMAIN c.ins /\ 2 \in DOMAIN c.ins
  <2>1. 1 \in 1..2 /\ 2 \in 1..2
    OBVIOUS
  <2> QED
    BY <2>1, CallFacts, CallArity
<1>2. /\ Len(c.ins[1].size) = 2 /\ Len(c.out.size) = 2
      /\ c.out.size[2] = c.ins[1].size[2] + 4 /\ c.ins[2].size = <<c.ins[1].size[1], 1>>
  BY <1>1 DEF PackAccepts
<1>3. c.out.size \in Seq(Nat) /\ c.ins[1].size \in Seq(Nat)
  BY <1>1, CallFacts
<1>4. c.ins[1].size[1] \in Nat /\ c.ins[1].size[2] \in Nat
  <2>1. PICK z \in Seq(Nat) : z = c.ins[1].size /\ Len(z) = 2
    BY <1>2, <1>3
  <2>2. z[1] \in Nat /\ z[2] \in Nat
    BY <2>1, (1 \in 1..2 /\ 2 \in 1..2), SeqIsVector
  <2> QED
    BY <2>1, <2>2
<1> QED
  BY <1>1, <1>2, <1>3, <1>4

\* What a unit of act_scale_pack stores.
LEMMA PackStoresAre ==
  ASSUME NEW c \in Calls, c.name = "act_scale_pack", NEW u \in Nat
  PROVE  Stores(c, u) = {PackStore(c, u, e) : e \in 0..(c.out.size[2] - 1)}
<1>1. PICK w1 \in Nat, w2 \in Nat : w1 = c.ins[1].size[2] /\ w2 = c.out.size[2] /\ w2 = w1 + 4
  <2>1. PICK w1 \in Nat : w1 = c.ins[1].size[2]
    BY PackFacts
  <2>2. c.out.size[2] = w1 + 4 /\ w1 + 4 \in Nat
    BY <2>1, PackFacts
  <2> QED
    BY <2>1, <2>2
<1> DEFINE A(e) == Put(Item(c.out, u * w2 + e), c.name, 0, <<Item(c.ins[1], u * w1 + e)>>)
           S(e) == Put(Item(c.out, u * w2 + w1 + e), c.name, e, <<Item(c.ins[2], u)>>)
           P(e) == PackStore(c, u, e)
<1>2. Stores(c, u) = {A(e) : e \in 0..(w1 - 1)} \cup {S(e) : e \in 0..3}
  <2>1. Stores(c, u) = PackStores(c, u)
    BY StoresAre
  <2> QED
    BY <1>1, <2>1 DEF PackStores
<1>3. ASSUME NEW e \in 0..(w1 - 1) PROVE A(e) = P(e)
  <2>1. e < w1
    OBVIOUS
  <2> QED
    BY <1>1, <2>1 DEF PackStore
<1>4. ASSUME NEW e \in 0..3 PROVE S(e) = P(w1 + e)
  <2>1. ~ (w1 + e < w1) /\ (w1 + e) - w1 = e
    BY <1>1
  <2>2. u * w2 + w1 + e = u * w2 + (w1 + e)
    <3>1. u * w2 \in Nat
      BY <1>1
    <3> QED
      BY <1>1, <3>1
  <2> QED
    BY <1>1, <2>1, <2>2 DEF PackStore
<1> HIDE DEF A, S, P
<1>5. \A e \in 0..(w1 - 1) : e \in 0..(w2 - 1)
  BY <1>1
<1>6. \A e \in 0..3 : w1 + e \in 0..(w2 - 1)
  BY <1>1
<1>7. \A e \in 0..(w2 - 1) : e \in 0..(w1 - 1) \/ \E f \in 0..3 : e = w1 + f
  <2> SUFFICES ASSUME NEW e \in 0..(w2 - 1), e \notin 0..(w1 - 1) PROVE \E f \in 0..3 : e = w1 + f
    OBVIOUS
  <2>1. e - w1 \in 0..3 /\ e = w1 + (e - w1)
    BY <1>1
  <2> QED
    BY <2>1
<1>8. {A(e) : e \in 0..(w1 - 1)} \cup {S(e) : e \in 0..3} = {P(e) : e \in 0..(w2 - 1)}
  BY <1>3, <1>4, <1>5, <1>6, <1>7
<1> QED
  BY <1>1, <1>2, <1>8 DEF P

\* Where it goes.
LEMMA PackTo ==
  ASSUME NEW c, NEW u, NEW e
  PROVE  PackStore(c, u, e).to = <<c.out.at, u * c.out.size[2] + e>>
BY DEF PackStore, Put, Item

\* An item of a tensor of two dimensions in row-major order is an element.
LEMMA LineItem ==
  ASSUME NEW t, t.size \in Seq(Nat), Len(t.size) = 2, IsRowMajor(t), NEW u \in Nat, NEW e \in Nat
  PROVE  Item(t, u * t.size[2] + e) = At(t, <<u, e>>) /\ u * t.size[2] + e \in Int
<1>1. PICK z \in Seq(Nat) : z = t.size /\ Len(z) = 2
  OBVIOUS
<1>2. PICK g : g = t.stride /\ g = RowMajor(z)
  BY <1>1 DEF IsRowMajor
<1>3. OffsetIs(g, <<u, e>>, LineRow(z, u), e)
  BY <1>1, <1>2, TwoPlace
<1>4. PICK n \in Nat : n = LineRow(z, u) /\ Offset(g, <<u, e>>) = n + e
  BY <1>3 DEF OffsetIs
<1>5. n = u * t.size[2]
  BY <1>1, <1>4 DEF LineRow
<1> QED
  BY <1>2, <1>4, <1>5 DEF Item, At

\* A store of act_scale_pack leaves the element of its row and byte.
LEMMA PackLeaves ==
  ASSUME NEW c \in Calls, c.name = "act_scale_pack", Addressed(c), NEW u \in Nat, NEW e \in Nat
  PROVE  Leaves(c, PackStore(c, u, e)) = Element(c, <<u, e>>)
<1>1. PICK x, s, o : x = c.ins[1] /\ s = c.ins[2] /\ o = c.out
  OBVIOUS
<1>2. /\ IsRowMajor(o) /\ IsRowMajor(x) /\ IsRowMajor(s)
      /\ o.size \in Seq(Nat) /\ Len(o.size) = 2
      /\ x.size \in Seq(Nat) /\ Len(x.size) = 2
      /\ s.size = <<x.size[1], 1>> /\ x.size[1] \in Nat /\ x.size[2] \in Nat
  BY <1>1, AddressedIs, PackFacts
<1>3. PICK w1 \in Nat : w1 = x.size[2] /\ Width(x) = w1
  BY <1>2 DEF Width
<1>4. Item(o, u * o.size[2] + e) = At(o, <<u, e>>)
  BY <1>2, LineItem
<1>5. Item(x, u * w1 + e) = At(x, <<u, e>>) /\ u * w1 + e \in Int
  BY <1>2, <1>3, LineItem
<1>6. Item(s, u) = At(s, <<u, 0>>)
  <2>1. s.size \in Seq(Nat) /\ Len(s.size) = 2 /\ s.size[2] = 1
    BY <1>2
  <2>2. Item(s, u * s.size[2] + 0) = At(s, <<u, 0>>)
    BY <1>2, <2>1, LineItem
  <2>3. u * s.size[2] + 0 = u
    BY <2>1
  <2> QED
    BY <2>2, <2>3
<1> DEFINE v == <<u, e>>
<1>7. v[1] = u /\ v[2] = e
  OBVIOUS
<1>8. PackElement(c, v) = IF e < w1 THEN Expect(At(o, v), c.name, 0, <<At(x, v)>>)
                          ELSE Expect(At(o, v), c.name, e - w1, <<At(s, <<u, 0>>)>>)
  <2> HIDE DEF v
  <2> QED
    BY <1>1, <1>3, <1>7 DEF PackElement
<1>9. PackStore(c, u, e) = IF e < w1 THEN Put(At(o, v), c.name, 0, <<Item(x, u * w1 + e)>>)
                           ELSE Put(At(o, v), c.name, e - w1, <<Item(s, u)>>)
  BY <1>1, <1>3, <1>4 DEF PackStore
<1>10. Origins(c, <<Item(x, u * w1 + e)>>) = <<Item(x, u * w1 + e)>>
  <2>1. Item(x, u * w1 + e) \in Places(c)
    BY <1>1, <1>5, PackFacts, IsPlace
  <2>2. <<Item(x, u * w1 + e)>> \in Seq(Places(c))
    BY <2>1
  <2> QED
    BY <2>2, PlacesOrigin
<1>11. Origins(c, <<Item(s, u)>>) = <<Item(s, u)>>
  <2>1. Item(s, u) \in Places(c)
    BY <1>1, PackFacts, IsPlace
  <2>2. <<Item(s, u)>> \in Seq(Places(c))
    BY <2>1
  <2> QED
    BY <2>2, PlacesOrigin
<1>12. Element(c, v) = PackElement(c, v)
  BY ElementIs
<1> HIDE DEF v
<1>13. CASE e < w1
  <2>1. Leaves(c, PackStore(c, u, e)) = Expect(At(o, v), c.name, 0, <<Item(x, u * w1 + e)>>)
    BY <1>9, <1>10, <1>13, Leaving
  <2> QED
    BY <1>5, <1>8, <1>12, <1>13, <2>1 DEF v
<1>14. CASE ~ (e < w1)
  <2>1. Leaves(c, PackStore(c, u, e)) = Expect(At(o, v), c.name, e - w1, <<Item(s, u)>>)
    BY <1>9, <1>11, <1>14, Leaving
  <2> QED
    BY <1>6, <1>8, <1>12, <1>14, <2>1 DEF v
<1> QED
  BY <1>13, <1>14

\* An index of two dimensions.
LEMMA IndexOfTwo ==
  ASSUME NEW t, t.size \in Seq(Nat), Len(t.size) = 2
  PROVE  /\ \A v \in All(t) : /\ v = <<v[1], v[2]>> /\ v[1] \in Nat /\ v[2] \in Nat
                              /\ v[1] < t.size[1] /\ v[2] < t.size[2]
         /\ \A u, e \in Nat : u < t.size[1] /\ e < t.size[2] => <<u, e>> \in All(t)
<1>1. PICK z \in Seq(Nat) : z = t.size /\ Len(z) = 2
  OBVIOUS
<1>2. DOMAIN z = 1..2 /\ \A d \in 1..2 : z[d] \in Nat
  BY <1>1, SeqIsVector
<1>3. 1 \in 1..2 /\ 2 \in 1..2 /\ \A d \in 1..2 : d = 1 \/ d = 2
  OBVIOUS
<1>4. ASSUME NEW v \in Below(z, 1..2)
      PROVE  /\ v = <<v[1], v[2]>> /\ v[1] \in Nat /\ v[2] \in Nat
             /\ v[1] < z[1] /\ v[2] < z[2]
  <2>1. v \in [1..2 -> Nat] /\ \A d \in 1..2 : v[d] < z[d]
    BY <1>2, BelowIs
  <2>2. PICK w : w = <<v[1], v[2]>>
    OBVIOUS
  <2>3. w \in Seq(Nat) /\ Len(w) = 2
    BY <1>3, <2>1, <2>2
  <2>4. w \in [1..2 -> Nat]
    BY <2>3, SeqIsVector
  <2>5. \A d \in 1..2 : w[d] = v[d]
    BY <1>3, <2>2
  <2>6. w = v
    <3>1. w = [d \in 1..2 |-> w[d]]
      BY <2>4
    <3>2. v = [d \in 1..2 |-> v[d]]
      BY <2>1
    <3> QED
      BY <2>5, <3>1, <3>2
  <2> QED
    BY <1>3, <2>1, <2>2, <2>6
<1>5. ASSUME NEW u \in Nat, NEW e \in Nat, u < z[1], e < z[2]
      PROVE  <<u, e>> \in Below(z, 1..2)
  <2>1. PICK w : w = <<u, e>>
    OBVIOUS
  <2>2. w \in Seq(Nat) /\ Len(w) = 2 /\ w[1] = u /\ w[2] = e
    BY <2>1
  <2>3. w \in [1..2 -> Nat]
    BY <2>2, SeqIsVector
  <2>4. \A d \in 1..2 : w[d] < z[d]
    BY <1>3, <1>5, <2>2
  <2> QED
    BY <1>2, <2>1, <2>3, <2>4, BelowIs
<1>6. All(t) = Below(z, 1..2)
  BY <1>1, <1>2 DEF All
<1> QED
  BY <1>1, <1>4, <1>5, <1>6

\* act_scale_pack stores every byte once.
LEMMA PackRight ==
  ASSUME NEW c \in Calls, c.name = "act_scale_pack"
  PROVE  /\ StoresOnce(c)
         /\ Addressed(c) => StoresElements(c) /\ CoversOutput(c)
<1>1. PICK w \in Nat, n \in Nat : w = c.out.size[2] /\ n = c.ins[1].size[1] /\ Units(c) = n
  <2>1. PICK w1 \in Nat : w1 = c.ins[1].size[2]
    BY PackFacts
  <2>2. c.out.size[2] = w1 + 4 /\ w1 + 4 \in Nat
    BY <2>1, PackFacts
  <2> QED
    BY <2>2, PackFacts, UnitsAre
<1>2. \A u \in UnitsOf(c) : u \in Nat /\ u < n
  BY <1>1 DEF UnitsOf
<1>3. \A u \in UnitsOf(c) : Stores(c, u) = {PackStore(c, u, e) : e \in 0..(w - 1)}
  BY <1>1, <1>2, PackStoresAre
<1>4. \A u, e : PackStore(c, u, e).to = <<c.out.at, u * w + e>>
  BY <1>1, PackTo
<1>5. StoresOnce(c)
  <2> SUFFICES ASSUME NEW u \in UnitsOf(c), NEW s \in Stores(c, u), NEW r \in Stores(c, u),
                      s.to = r.to
               PROVE  s = r
    BY DEF StoresOnce
  <2>1. PICK e \in 0..(w - 1) : s = PackStore(c, u, e)
    BY <1>3
  <2>2. PICK f \in 0..(w - 1) : r = PackStore(c, u, f)
    BY <1>3
  <2>3. PICK p \in Nat : p = u * w
    BY <1>1, <1>2
  <2>4. <<c.out.at, p + e>> = <<c.out.at, p + f>>
    BY <1>4, <2>1, <2>2, <2>3
  <2>5. p + e = p + f
    <3>1. PICK i, j : i = p + e /\ j = p + f
      OBVIOUS
    <3> QED
      BY <2>4, <3>1
  <2>6. e = f
    BY <2>3, <2>5
  <2> QED
    BY <2>1, <2>2, <2>6
<1>6. ASSUME Addressed(c) PROVE StoresElements(c) /\ CoversOutput(c)
  <2>1. PICK o : o = c.out
    OBVIOUS
  <2>2. o.size \in Seq(Nat) /\ Len(o.size) = 2 /\ o.size[1] = n /\ o.size[2] = w /\ o.at # "rms"
    BY <1>1, <1>6, <2>1, AddressedIs, PackFacts, CallFacts
  <2>3. /\ \A v \in All(o) : /\ v = <<v[1], v[2]>> /\ v[1] \in Nat /\ v[2] \in Nat
                             /\ v[1] < n /\ v[2] < w
        /\ \A u, e \in Nat : u < n /\ e < w => <<u, e>> \in All(o)
    BY <2>2, IndexOfTwo
  <2>4. StoresElements(c)
    <3> SUFFICES ASSUME NEW u \in UnitsOf(c), NEW s \in Stores(c, u)
                 PROVE  \E v \in All(c.out) : Leaves(c, s) = Element(c, v)
      BY DEF StoresElements
    <3>1. PICK e \in 0..(w - 1) : s = PackStore(c, u, e)
      BY <1>3
    <3>2. u \in Nat /\ u < n /\ e \in Nat /\ e < w
      BY <1>1, <1>2
    <3>3. <<u, e>> \in All(c.out)
      BY <2>1, <2>3, <3>2
    <3>4. Leaves(c, s) = Element(c, <<u, e>>)
      BY <1>6, <3>1, <3>2, PackLeaves
    <3> QED
      BY <3>3, <3>4
  <2>5. CoversOutput(c)
    <3> SUFFICES ASSUME NEW v \in All(c.out)
                 PROVE  \E u \in UnitsOf(c) : \E s \in Stores(c, u) :
                          s.to[1] # "rms" /\ Leaves(c, s) = Element(c, v)
      BY DEF CoversOutput
    <3>1. PICK u \in Nat, e \in Nat : v = <<u, e>> /\ u < n /\ e < w
      BY <2>1, <2>3
    <3>2. u \in UnitsOf(c) /\ e \in 0..(w - 1)
      BY <1>1, <3>1 DEF UnitsOf
    <3>3. PackStore(c, u, e) \in Stores(c, u)
      BY <1>3, <3>2
    <3>4. PackStore(c, u, e).to[1] # "rms"
      BY <1>4, <2>1, <2>2
    <3>5. Leaves(c, PackStore(c, u, e)) = Element(c, v)
      BY <1>6, <3>1, PackLeaves
    <3> QED
      BY <3>2, <3>3, <3>4, <3>5
  <2> QED
    BY <2>4, <2>5
<1> QED
  BY <1>5, <1>6

-----------------------------------------------------------------------------
(* rms_norm *)

\* An outer index of a tensor whose rows lie in one piece.
IsRowOf(t, n, w) ==
  /\ n \in Nat /\ w \in [1..n -> Nat] /\ Len(t.size) = n + 1
  /\ t.stride[n + 1] = 1 /\ Offset(t.stride, w) \in Nat

\* An element of a row lies behind its beginning.
LEMMA RowElement ==
  ASSUME NEW t, NEW n, NEW w, IsRowOf(t, n, w), NEW e \in Nat
  PROVE  At(t, Extend(w, n, e)) = Item(t, Offset(t.stride, w) + e)
<1>1. PICK g : g = t.stride
  OBVIOUS
<1>2. n \in Nat /\ w \in [1..n -> Nat] /\ g[n + 1] = 1
  BY <1>1 DEF IsRowOf
<1>3. Offset(g, Extend(w, n, e)) = Offset(g, w) + e * g[n + 1]
  BY <1>2, ExtendOffset
<1>4. e * g[n + 1] = e
  BY <1>2
<1> QED
  BY <1>1, <1>3, <1>4 DEF At, Item

\* The row of an element is its row's items.
LEMMA RowAtIs ==
  ASSUME NEW t, NEW n, NEW w, IsRowOf(t, n, w), NEW e \in Nat
  PROVE  RowAt(t, Extend(w, n, e)) = RowItems(t, Offset(t.stride, w))
<1>1. PICK a \in Nat : a = Offset(t.stride, w)
  BY DEF IsRowOf
<1>2. n \in Nat /\ Len(t.size) = n + 1 /\ n + 1 \in 1..(n + 1)
  BY DEF IsRowOf
<1>3. ASSUME NEW i \in 1..Width(t)
      PROVE  At(t, [Extend(w, n, e) EXCEPT ![Len(t.size)] = i - 1]) = Item(t, a + i - 1)
  <2>1. PICK j \in Nat : j = i - 1 /\ a + j = a + i - 1
    <3>1. i \in Nat /\ i >= 1
      OBVIOUS
    <3>2. i - 1 \in Nat /\ a + (i - 1) = a + i - 1
      BY <3>1
    <3> QED
      BY <3>2
  <2>2. [Extend(w, n, e) EXCEPT ![n + 1] = j] = Extend(w, n, j)
    <3>1. DOMAIN Extend(w, n, e) = 1..(n + 1)
      BY DEF Extend
    <3>2. \A d \in 1..(n + 1) : [Extend(w, n, e) EXCEPT ![n + 1] = j][d] = Extend(w, n, j)[d]
      BY <1>2, <3>1 DEF Extend
    <3>3. PICK f : f = [Extend(w, n, e) EXCEPT ![n + 1] = j]
      OBVIOUS
    <3>4. f = [d \in 1..(n + 1) |-> f[d]]
      BY <3>1, <3>3
    <3>5. Extend(w, n, j) = [d \in 1..(n + 1) |-> Extend(w, n, j)[d]]
      BY DEF Extend
    <3> QED
      BY <3>2, <3>3, <3>4, <3>5
  <2>3. At(t, Extend(w, n, j)) = Item(t, a + j)
    BY <1>1, RowElement
  <2> QED
    BY <1>2, <2>1, <2>2, <2>3
<1> QED
  BY <1>1, <1>3 DEF RowAt, RowItems

\* The rows of an operator's tensors at an outer index.
RmsRow(c, n, w, W) ==
  /\ n \in Nat /\ Len(c.out.size) = n + 1 /\ W \in Nat /\ Width(c.out) = W
  /\ IsRowOf(c.out, n, w) /\ IsRowOf(c.ins[1], n, w) /\ Width(c.ins[1]) = W
  /\ c.name = "rmsnorm_backward" => IsRowOf(c.ins[2], n, w) /\ Width(c.ins[2]) = W

\* The dimensions of the output: the outer ones and the last.
LEMMA RmsShape ==
  ASSUME NEW c \in Calls, c.name \in Rms, NEW n \in Nat, Len(c.out.size) = n + 1
  PROVE  /\ Vectors(KeyOf(c)) = Below(c.out.size, 1..n)
         /\ \A d \in 1..(n + 1) : c.out.size[d] \in Nat
         /\ DOMAIN c.out.size = 1..(n + 1) /\ Width(c.out) = c.out.size[n + 1]
<1>1. KeyOf(c).sizes = c.out.size /\ c.out.size \in Seq(Nat)
  BY KeyStrides, CallFacts
<1>2. PICK z \in Seq(Nat) : z = c.out.size /\ Len(z) = n + 1
  BY <1>1
<1>3. DOMAIN z = 1..(n + 1) /\ \A d \in 1..(n + 1) : z[d] \in Nat
  BY <1>2, SeqIsVector
<1>4. Len(z) - 1 = n
  BY <1>2
<1>5. Outer(KeyOf(c)) = 1..n
  BY <1>1, <1>2, <1>4 DEF Outer
<1> QED
  BY <1>1, <1>2, <1>3, <1>5 DEF Vectors, Width

\* The output and the operands it is like.
LEMMA LikeRow ==
  ASSUME NEW t, t.size \in Seq(Nat), t.stride \in Seq(Nat), Len(t.size) = Len(t.stride),
         NEW n \in Nat, Len(t.size) = n + 1, t.stride[n + 1] = 1, NEW w \in [1..n -> Nat]
  PROVE  IsRowOf(t, n, w)
<1>1. PICK g \in Seq(Nat) : g = t.stride /\ Len(g) = n + 1
  OBVIOUS
<1>2. \A d \in 1..(n + 1) : g[d] \in Nat
  BY <1>1, SeqIsVector
<1>3. \A d \in 1..n : g[d] \in Nat
  <2>1. \A d \in 1..n : d \in 1..(n + 1)
    OBVIOUS
  <2> QED
    BY <1>2, <2>1, Zenon
<1>4. Offset(g, w) \in Nat
  BY <1>3, OffsetType
<1> QED
  BY <1>1, <1>4 DEF IsRowOf

\* Every outer index has its rows.
LEMMA RmsRows ==
  ASSUME NEW c \in Calls, c.name \in Rms, NEW w \in Vectors(KeyOf(c))
  PROVE  \E n, W \in Nat : RmsRow(c, n, w, W)
<1>1. RmsAccepts(c) /\ KeyOf(c) \in Keys /\ KeyOf(c).sizes = c.out.size
  BY CallFacts, KeyStrides
<1>2. PICK n \in Nat : Len(c.out.size) = n + 1
  <2>1. Len(c.out.size) \in Nat \ {0}
    BY <1>1, KeyFacts
  <2>2. Len(c.out.size) - 1 \in Nat /\ Len(c.out.size) = (Len(c.out.size) - 1) + 1
    BY <2>1
  <2> QED
    BY <2>2
<1>3. w \in [1..n -> Nat]
  <2>1. w \in Below(c.out.size, 1..n) /\ \A d \in 1..(n + 1) : c.out.size[d] \in Nat
    BY <1>2, RmsShape
  <2>2. \A d \in 1..n : c.out.size[d] \in Nat
    BY <2>1
  <2> QED
    BY <2>1, <2>2, BelowIs
<1>4. Width(c.out) \in Nat
  BY RmsWidth
<1>5. /\ 1 \in DOMAIN c.ins
      /\ c.name = "rmsnorm_backward" => 2 \in DOMAIN c.ins
  BY CallArity DEF Rms
<1>6. /\ c.ins[1].size = c.out.size /\ c.ins[1].stride[n + 1] = 1
      /\ c.name = "rmsnorm_backward" => c.ins[2].size = c.out.size /\ c.ins[2].stride[n + 1] = 1
  BY <1>1, <1>2, <1>5 DEF RmsAccepts, LikeOutput
<1>7. c.out.stride[n + 1] = 1
  BY <1>1, <1>2, CallFacts DEF RmsAccepts
<1>8. /\ c.out.size \in Seq(Nat) /\ c.out.stride \in Seq(Nat) /\ Len(c.out.size) = Len(c.out.stride)
      /\ \A k \in DOMAIN c.ins : /\ c.ins[k].size \in Seq(Nat) /\ c.ins[k].stride \in Seq(Nat)
                                 /\ Len(c.ins[k].size) = Len(c.ins[k].stride)
  BY CallFacts
<1>9. IsRowOf(c.out, n, w)
  BY <1>2, <1>3, <1>7, <1>8, LikeRow
<1>10. IsRowOf(c.ins[1], n, w)
  <2>1. PICK t : t = c.ins[1]
    OBVIOUS
  <2>2. /\ t.size \in Seq(Nat) /\ t.stride \in Seq(Nat) /\ Len(t.size) = Len(t.stride)
        /\ Len(t.size) = n + 1 /\ t.stride[n + 1] = 1
    BY <1>2, <1>5, <1>6, <1>8, <2>1
  <2>3. IsRowOf(t, n, w)
    BY <1>3, <2>2, LikeRow
  <2> QED
    BY <2>1, <2>3
<1>11. ASSUME c.name = "rmsnorm_backward" PROVE IsRowOf(c.ins[2], n, w)
  <2>1. PICK t : t = c.ins[2]
    OBVIOUS
  <2>2. /\ t.size \in Seq(Nat) /\ t.stride \in Seq(Nat) /\ Len(t.size) = Len(t.stride)
        /\ Len(t.size) = n + 1 /\ t.stride[n + 1] = 1
    BY <1>2, <1>5, <1>6, <1>8, <1>11, <2>1
  <2>3. IsRowOf(t, n, w)
    BY <1>3, <2>2, LikeRow
  <2> QED
    BY <2>1, <2>3
<1>12. Width(c.ins[1]) = Width(c.out) /\ (c.name = "rmsnorm_backward" => Width(c.ins[2]) = Width(c.out))
  BY <1>6 DEF Width
<1> QED
  BY <1>2, <1>4, <1>9, <1>10, <1>11, <1>12 DEF RmsRow

\* The index of an element of a row, of the output too.
LEMMA RmsIndex ==
  ASSUME NEW c \in Calls, c.name \in Rms, NEW w \in Vectors(KeyOf(c)),
         NEW n, NEW W, RmsRow(c, n, w, W), NEW e \in 0..(W - 1)
  PROVE  Extend(w, n, e) \in All(c.out)
<1>1. n \in Nat /\ Len(c.out.size) = n + 1 /\ Width(c.out) = W
  BY DEF RmsRow
<1>2. PICK z : z = c.out.size
  OBVIOUS
<1>3. /\ w \in Below(z, 1..n) /\ \A d \in 1..(n + 1) : z[d] \in Nat
      /\ DOMAIN z = 1..(n + 1) /\ W = z[n + 1]
  BY <1>1, <1>2, RmsShape
<1>4. Extend(w, n, e) \in Below(z, 1..(n + 1))
  BY <1>1, <1>3, ExtendsAll
<1> QED
  BY <1>2, <1>3, <1>4 DEF All

\* Every index of the output is of a row.
InARow(c, v) == \E w \in Vectors(KeyOf(c)) : \E n, W \in Nat :
                  RmsRow(c, n, w, W) /\ \E e \in 0..(W - 1) : v = Extend(w, n, e)

\* No other.
LEMMA RmsIndices ==
  ASSUME NEW c \in Calls, c.name \in Rms, NEW v \in All(c.out)
  PROVE  InARow(c, v)
<1>1. KeyOf(c) \in Keys /\ KeyOf(c).sizes = c.out.size
  BY KeyStrides
<1>2. PICK n \in Nat : Len(c.out.size) = n + 1
  <2>1. Len(c.out.size) \in Nat \ {0}
    BY <1>1, KeyFacts
  <2>2. Len(c.out.size) - 1 \in Nat /\ Len(c.out.size) = (Len(c.out.size) - 1) + 1
    BY <2>1
  <2> QED
    BY <2>2
<1>3. PICK z : z = c.out.size
  OBVIOUS
<1>4. /\ Vectors(KeyOf(c)) = Below(z, 1..n) /\ \A d \in 1..(n + 1) : z[d] \in Nat
      /\ DOMAIN z = 1..(n + 1) /\ Width(c.out) = z[n + 1]
  BY <1>2, <1>3, RmsShape
<1>5. v \in Below(z, 1..(n + 1))
  BY <1>3, <1>4 DEF All
<1>6. PICK m, D : m = n + 1 /\ m \in Nat /\ D = 0..(z[m] - 1)
  OBVIOUS
<1>7. Extended(z, n, D, v)
  BY <1>4, <1>5, <1>6, ExtendsOnto
<1>8. PICK w \in Below(z, 1..n) : \E e \in D : v = Extend(w, n, e)
  BY <1>7 DEF Extended
<1>9. w \in Vectors(KeyOf(c))
  BY <1>4, <1>8
<1>10. PICK i, W \in Nat : RmsRow(c, i, w, W)
  BY <1>9, RmsRows
<1>11. i = n /\ W = z[m]
  <2>1. i \in Nat /\ i + 1 = n + 1
    BY <1>2, <1>10 DEF RmsRow
  <2> QED
    BY <1>4, <1>6, <1>10, <2>1 DEF RmsRow
<1> QED
  BY <1>6, <1>8, <1>9, <1>10, <1>11 DEF InARow

\* What a unit stores of the row at the outer index w, and its norm.
RowFrom(t, w) == RowItems(t, Offset(t.stride, w))
ForwardStore(c, w, e) ==
  Put(Item(c.out, Offset(c.out.stride, w) + e), c.name, <<>>,
      <<RowFrom(c.ins[1], w)[e + 1]>> \o RowFrom(c.ins[1], w) \o Weighted(c, 2, e))
BackwardStore(c, u, w, e) ==
  Put(Item(c.out, Offset(c.out.stride, w) + e), c.name, e,
      << <<"rms", u>> >> \o RowFrom(c.ins[1], w) \o RowFrom(c.ins[2], w) \o RowItems(c.ins[3], 0))
RmsStore(c, u, w, e) ==
  IF c.name = "rmsnorm_forward" THEN ForwardStore(c, w, e) ELSE BackwardStore(c, u, w, e)
NormStore(c, u, w) == Put(<<"rms", u>>, "rms", <<>>, RowFrom(c.ins[1], w))

\* The forward stores a norm too.
LEMMA RmsStoresAre ==
  ASSUME NEW c \in Calls, c.name \in Rms, Complete(KeyOf(c), table), NEW u \in UnitsOf(c),
         NEW w, w = table[u + 1].of
  PROVE  /\ w \in Vectors(KeyOf(c))
         /\ Stores(c, u) = {RmsStore(c, u, w, e) : e \in 0..(Width(c.out) - 1)} \cup
                           (IF c.name = "rmsnorm_forward" THEN {NormStore(c, u, w)} ELSE {})
<1>1. u \in Nat /\ u < Units(c)
  BY CallFacts DEF UnitsOf
<1>2. w \in Vectors(KeyOf(c))
  BY <1>1, EntryOffsets
<1>3. PICK W \in Nat : W = Width(c.out) /\ Width(c.ins[1]) = W /\ Sweep(W) = 0..(W - 1)
  <2>1. PICK n, W \in Nat : RmsRow(c, n, w, W)
    BY <1>2, RmsRows
  <2> QED
    BY <2>1, SweepIs DEF RmsRow
<1>4. CASE c.name = "rmsnorm_forward"
  <2>1. table[u + 1].offsets[1] = Offset(c.ins[1].stride, w)
        /\ table[u + 1].offsets[2] = Offset(c.out.stride, w)
    <3>1. 1 \in 1..2 /\ 2 \in 1..2
      OBVIOUS
    <3> QED
      BY <1>1, <1>4, <3>1, EntryOffsets, KeyStrides
  <2>2. Stores(c, u) = ForwardStores(c, u)
    BY <1>4, StoresAre
  <2>3. ForwardStores(c, u) =
          {NormStore(c, u, w)} \cup {ForwardStore(c, w, e) : e \in Sweep(W)}
    BY <1>3, <2>1 DEF ForwardStores, NormStore, ForwardStore, RowFrom
  <2>4. {ForwardStore(c, w, e) : e \in Sweep(W)} = {RmsStore(c, u, w, e) : e \in 0..(W - 1)}
    BY <1>3, <1>4 DEF RmsStore
  <2> QED
    BY <1>2, <1>3, <1>4, <2>2, <2>3, <2>4
<1>5. CASE c.name = "rmsnorm_backward"
  <2>1. /\ table[u + 1].offsets[1] = Offset(c.ins[1].stride, w)
        /\ table[u + 1].offsets[2] = Offset(c.ins[2].stride, w)
        /\ table[u + 1].offsets[3] = Offset(c.out.stride, w)
    <3>1. 1 \in 1..3 /\ 2 \in 1..3 /\ 3 \in 1..3
      OBVIOUS
    <3> QED
      BY <1>1, <1>5, <3>1, EntryOffsets, KeyStrides
  <2>2. Stores(c, u) = BackwardStores(c, u)
    BY <1>5, StoresAre
  <2>3. BackwardStores(c, u) = {BackwardStore(c, u, w, e) : e \in Sweep(W)}
    BY <1>3, <2>1 DEF BackwardStores, BackwardStore, RowFrom
  <2>4. {BackwardStore(c, u, w, e) : e \in Sweep(W)} = {RmsStore(c, u, w, e) : e \in 0..(W - 1)}
    BY <1>3, <1>5 DEF RmsStore
  <2> QED
    BY <1>2, <1>3, <1>5, <2>2, <2>3, <2>4
<1> QED
  BY <1>4, <1>5 DEF Rms

\* Where they go.
LEMMA RmsTo ==
  ASSUME NEW c, NEW u, NEW w, NEW e
  PROVE  /\ RmsStore(c, u, w, e).to = Item(c.out, Offset(c.out.stride, w) + e)
         /\ NormStore(c, u, w).to = <<"rms", u>>
BY DEF RmsStore, NormStore, ForwardStore, BackwardStore, Put

\* A row that is read is a sequence of places.
LEMMA RowPlaces ==
  ASSUME NEW c \in Calls, NEW k \in DOMAIN c.ins, Width(c.ins[k]) \in Nat, NEW a \in Nat
  PROVE  RowItems(c.ins[k], a) \in Seq(Places(c))
<1>1. \A e \in 0..(Width(c.ins[k]) - 1) : Item(c.ins[k], a + e) \in Places(c)
  <2> SUFFICES ASSUME NEW e \in 0..(Width(c.ins[k]) - 1) PROVE Item(c.ins[k], a + e) \in Places(c)
    OBVIOUS
  <2>1. a + e \in Int
    OBVIOUS
  <2> QED
    BY <2>1, IsPlace
<1>2. PICK t : t = c.ins[k]
  OBVIOUS
<1>3. a \in Int /\ Width(t) \in Nat /\ \A e \in 0..(Width(t) - 1) : Item(t, a + e) \in Places(c)
  BY <1>1, <1>2
<1>4. RowItems(t, a) \in Seq(Places(c))
  BY <1>3, RowIsSeq
<1> QED
  BY <1>2, <1>4

\* The forward reads places of its operands only.
LEMMA ForwardReads ==
  ASSUME NEW c \in Calls, c.name = "rmsnorm_forward", NEW w, NEW n, NEW W, RmsRow(c, n, w, W)
  PROVE  /\ RowFrom(c.ins[1], w) \in Seq(Places(c))
         /\ \A e \in 0..(W - 1) :
              /\ RowFrom(c.ins[1], w)[e + 1] = At(c.ins[1], Extend(w, n, e))
              /\ <<RowFrom(c.ins[1], w)[e + 1]>> \o RowFrom(c.ins[1], w) \o Weighted(c, 2, e)
                   \in Seq(Places(c))
<1>1. 1 \in DOMAIN c.ins
  BY CallArity
<1>2. PICK t : t = c.ins[1]
  OBVIOUS
<1>3. PICK a \in Nat : a = Offset(t.stride, w)
  BY <1>2 DEF RmsRow, IsRowOf
<1>4. W \in Nat /\ Width(t) = W /\ IsRowOf(t, n, w)
  BY <1>2 DEF RmsRow
<1> DEFINE row == RowItems(t, a)
           P == Places(c)
<1>5. row \in Seq(P)
  BY <1>1, <1>2, <1>4, RowPlaces
<1>6. ASSUME NEW e \in 0..(W - 1) PROVE row[e + 1] = At(t, Extend(w, n, e)) /\ row[e + 1] \in P
  <2>1. e \in Nat /\ e + 1 \in 1..W /\ a + (e + 1) - 1 = a + e /\ a + e \in Int
    BY <1>4
  <2>2. row[e + 1] = Item(t, a + (e + 1) - 1)
    BY <1>4, <2>1 DEF RowItems
  <2>3. At(t, Extend(w, n, e)) = Item(t, a + e)
    BY <1>3, <1>4, <2>1, RowElement
  <2>4. Item(t, a + e) \in P
    BY <1>1, <1>2, <2>1, IsPlace
  <2> QED
    BY <2>1, <2>2, <2>3, <2>4
<1>7. ASSUME NEW e \in Int PROVE Weighted(c, 2, e) \in Seq(P)
  <2>1. CASE Len(c.ins) < 2
    BY <2>1 DEF Weighted
  <2>2. CASE ~ (Len(c.ins) < 2)
    <3>1. 2 \in DOMAIN c.ins
      BY <2>2, CallArity
    <3>2. Item(c.ins[2], e) \in P
      BY <3>1, IsPlace
    <3>3. PICK y : y = Item(c.ins[2], e)
      OBVIOUS
    <3> HIDE DEF P
    <3>4. <<y>> \in Seq(P)
      BY <3>2, <3>3
    <3> QED
      BY <2>2, <3>3, <3>4 DEF Weighted
  <2> QED
    BY <2>1, <2>2
<1> HIDE DEF P, row
<1>8. ASSUME NEW e \in 0..(W - 1) PROVE <<row[e + 1]>> \o row \o Weighted(c, 2, e) \in Seq(P)
  <2>1. <<row[e + 1]>> \in Seq(P) /\ e \in Int
    BY <1>6
  <2>2. Weighted(c, 2, e) \in Seq(P)
    BY <1>7, <2>1
  <2>3. <<row[e + 1]>> \o row \in Seq(P)
    BY <1>5, <2>1, JoinPlaces
  <2> QED
    BY <2>2, <2>3, JoinPlaces
<1>9. RowFrom(c.ins[1], w) = row
  BY <1>2, <1>3 DEF RowFrom, row
<1> QED
  BY <1>2, <1>5, <1>6, <1>8, <1>9 DEF P

\* A store leaves the element of an index.
IsLeft(c, s, v) == Leaves(c, s) = Element(c, v)

\* A store of the forward leaves the element of its row and place.
LEMMA ForwardLeaves ==
  ASSUME NEW c \in Calls, c.name = "rmsnorm_forward", NEW w, NEW n, NEW W, RmsRow(c, n, w, W),
         NEW e \in 0..(W - 1)
  PROVE  IsLeft(c, ForwardStore(c, w, e), Extend(w, n, e))
<1> DEFINE v == Extend(w, n, e)
           row == RowFrom(c.ins[1], w)
           from == <<row[e + 1]>> \o row \o Weighted(c, 2, e)
<1>1. n \in Nat /\ e \in Nat /\ Len(c.out.size) = n + 1 /\ IsRowOf(c.out, n, w) /\ IsRowOf(c.ins[1], n, w)
  BY DEF RmsRow
<1>2. row[e + 1] = At(c.ins[1], v) /\ from \in Seq(Places(c))
  BY ForwardReads
<1>3. Item(c.out, Offset(c.out.stride, w) + e) = At(c.out, v)
  BY <1>1, RowElement
<1>4. RowAt(c.ins[1], v) = row
  BY <1>1, RowAtIs DEF RowFrom
<1>5. v[n + 1] = e
  BY <1>1 DEF Extend
<1> HIDE DEF v, row
<1>6. Origins(c, from) = from
  <2> HIDE DEF from
  <2> QED
    BY <1>2, PlacesOrigin
<1>7. ForwardStore(c, w, e) = Put(At(c.out, v), c.name, <<>>, from)
  BY <1>3 DEF ForwardStore, row
<1>8. ForwardElement(c, v) = Expect(At(c.out, v), c.name, <<>>, from)
  BY <1>1, <1>2, <1>4, <1>5 DEF ForwardElement
<1>9. Element(c, v) = ForwardElement(c, v)
  BY ElementIs
<1> HIDE DEF from
<1>10. Leaves(c, Put(At(c.out, v), c.name, <<>>, from)) = Expect(At(c.out, v), c.name, <<>>, from)
  BY <1>6, Leaving
<1> QED
  BY <1>7, <1>8, <1>9, <1>10 DEF v, IsLeft

\* A sequence of places is one of more addresses.
LEMMA SeqOfMore ==
  ASSUME NEW X, NEW Y, X \subseteq Y, NEW s \in Seq(X)
  PROVE  s \in Seq(Y)
OBVIOUS

\* The norm that a unit of the backward reads is that of its row.
LEMMA NormOrigin ==
  ASSUME NEW c, NEW u, NEW w, w = table[u + 1].of
  PROVE  Origins(c, << <<"rms", u>> >>) = <<Norm(RowFrom(c.ins[1], w))>>
<1>1. PICK y : y = <<"rms", u>>
  OBVIOUS
<1>2. y[1] = "rms" /\ y[2] = u
  BY <1>1
<1>3. Origin(c, y) = Norm(RowFrom(c.ins[1], w))
  BY <1>2 DEF Origin, RowFrom
<1>4. Origins(c, <<y>>) = <<Origin(c, y)>>
  <2>1. DOMAIN <<y>> = 1..1 /\ <<y>>[1] = y /\ \A i \in 1..1 : i = 1
    OBVIOUS
  <2>2. Origins(c, <<y>>) = [i \in 1..1 |-> Origin(c, y)]
    BY <2>1 DEF Origins
  <2>3. PICK z : z = Origin(c, y)
    OBVIOUS
  <2>4. [i \in 1..1 |-> z] = <<z>>
    OBVIOUS
  <2> QED
    BY <2>2, <2>3, <2>4
<1> QED
  BY <1>1, <1>3, <1>4

\* The places that the backward reads besides.
LEMMA BackwardReads ==
  ASSUME NEW c \in Calls, c.name = "rmsnorm_backward", NEW w, NEW n, NEW W, RmsRow(c, n, w, W)
  PROVE  /\ RowFrom(c.ins[1], w) \in Seq(Places(c)) /\ RowFrom(c.ins[2], w) \in Seq(Places(c))
         /\ RowItems(c.ins[3], 0) \in Seq(Places(c))
<1>1. c.name \in Rms /\ c.name # "rmsnorm_forward"
  BY DEF Rms
<1>2. 1 \in DOMAIN c.ins /\ 2 \in DOMAIN c.ins /\ 3 \in DOMAIN c.ins
  <2>1. 1 \in 1..3 /\ 2 \in 1..3 /\ 3 \in 1..3
    OBVIOUS
  <2> QED
    BY <2>1, CallArity
<1>3. /\ W \in Nat /\ Width(c.ins[1]) = W /\ Width(c.ins[2]) = W /\ Width(c.out) = W
      /\ Offset(c.ins[1].stride, w) \in Nat /\ Offset(c.ins[2].stride, w) \in Nat
  BY DEF RmsRow, IsRowOf
<1>4. Width(c.ins[3]) = W
  <2>1. RmsAccepts(c)
    BY <1>1, CallFacts
  <2>2. c.ins[3].size = <<Width(c.out)>>
    BY <1>1, <1>2, <2>1 DEF RmsAccepts
  <2>3. PICK t : t = c.ins[3] /\ t.size = <<W>>
    BY <1>3, <2>2
  <2>4. Len(<<W>>) = 1 /\ <<W>>[1] = W
    OBVIOUS
  <2> QED
    BY <2>3, <2>4 DEF Width
<1> QED
  BY <1>2, <1>3, <1>4, RowPlaces DEF RowFrom

\* A store of the backward leaves the element of its row and place.
LEMMA BackwardLeaves ==
  ASSUME NEW c \in Calls, c.name = "rmsnorm_backward", NEW u, NEW w, w = table[u + 1].of,
         NEW n, NEW W, RmsRow(c, n, w, W), NEW e \in 0..(W - 1)
  PROVE  IsLeft(c, BackwardStore(c, u, w, e), Extend(w, n, e))
<1> DEFINE v == Extend(w, n, e)
           x == RowFrom(c.ins[1], w)
           dy == RowFrom(c.ins[2], w)
           g == RowItems(c.ins[3], 0)
           y == << <<"rms", u>> >>
           from == y \o x \o dy \o g
           full == <<Norm(x)>> \o x \o dy \o g
           X == Places(c) \cup {<<"rms", u>>}
<1>1. n \in Nat /\ e \in Nat /\ Len(c.out.size) = n + 1 /\ IsRowOf(c.out, n, w)
      /\ IsRowOf(c.ins[1], n, w) /\ IsRowOf(c.ins[2], n, w)
  BY DEF RmsRow
<1>2. x \in Seq(Places(c)) /\ dy \in Seq(Places(c)) /\ g \in Seq(Places(c))
  BY BackwardReads
<1>3. Item(c.out, Offset(c.out.stride, w) + e) = At(c.out, v)
  BY <1>1, RowElement
<1>4. RowAt(c.ins[1], v) = x /\ RowAt(c.ins[2], v) = dy
  BY <1>1, RowAtIs DEF RowFrom
<1>5. v[n + 1] = e
  BY <1>1 DEF Extend
<1>6. Origins(c, y) = <<Norm(x)>>
  BY NormOrigin
<1>7. y \in Seq(X)
  <2>1. PICK z : z = <<"rms", u>>
    OBVIOUS
  <2>2. z \in X
    BY <2>1
  <2> HIDE DEF X
  <2>3. <<z>> \in Seq(X)
    BY <2>2
  <2> QED
    BY <2>1, <2>3
<1>8. Places(c) \subseteq X
  OBVIOUS
<1> HIDE DEF v, x, dy, g, y, X
<1>9. x \in Seq(X) /\ dy \in Seq(X) /\ g \in Seq(X)
  BY <1>2, <1>8, SeqOfMore
<1>10. Origins(c, x) = x /\ Origins(c, dy) = dy /\ Origins(c, g) = g
  BY <1>2, PlacesOrigin
<1>11. Origins(c, from) = full
  <2>1. y \o x \in Seq(X)
    BY <1>7, <1>9, JoinPlaces
  <2>2. y \o x \o dy \in Seq(X)
    BY <1>9, <2>1, JoinPlaces
  <2>3. Origins(c, y \o x) = <<Norm(x)>> \o x
    <3>1. Origins(c, y \o x) = Origins(c, y) \o Origins(c, x)
      BY <1>7, <1>9, OriginsJoin, Zenon
    <3> QED
      BY <1>6, <1>10, <3>1
  <2>4. Origins(c, y \o x \o dy) = <<Norm(x)>> \o x \o dy
    <3>1. Origins(c, y \o x \o dy) = Origins(c, y \o x) \o Origins(c, dy)
      BY <1>9, <2>1, OriginsJoin, Zenon
    <3> QED
      BY <1>10, <2>3, <3>1
  <2>5. Origins(c, y \o x \o dy \o g) = <<Norm(x)>> \o x \o dy \o g
    <3>1. Origins(c, y \o x \o dy \o g) = Origins(c, y \o x \o dy) \o Origins(c, g)
      BY <1>9, <2>2, OriginsJoin, Zenon
    <3> QED
      BY <1>10, <2>4, <3>1
  <2> QED
    BY <2>5
<1>12. BackwardStore(c, u, w, e) = Put(At(c.out, v), c.name, e, from)
  BY <1>3 DEF BackwardStore, x, dy, g, y
<1>13. BackwardElement(c, v) = Expect(At(c.out, v), c.name, e, full)
  BY <1>1, <1>4, <1>5 DEF BackwardElement, g
<1>14. Element(c, v) = BackwardElement(c, v)
  BY ElementIs
<1> HIDE DEF from, full
<1>15. Leaves(c, Put(At(c.out, v), c.name, e, from)) = Expect(At(c.out, v), c.name, e, full)
  BY <1>11, Leaving
<1> QED
  BY <1>12, <1>13, <1>14, <1>15 DEF v, IsLeft

\* A store of rms_norm leaves the element of its row and place.
LEMMA RmsLeaves ==
  ASSUME NEW c \in Calls, c.name \in Rms, NEW u, NEW w, w = table[u + 1].of,
         NEW n, NEW W, RmsRow(c, n, w, W), NEW e \in 0..(W - 1)
  PROVE  IsLeft(c, RmsStore(c, u, w, e), Extend(w, n, e))
<1>1. CASE c.name = "rmsnorm_forward"
  <2>1. IsLeft(c, ForwardStore(c, w, e), Extend(w, n, e))
    BY <1>1, ForwardLeaves
  <2> QED
    BY <1>1, <2>1 DEF RmsStore
<1>2. CASE c.name = "rmsnorm_backward"
  <2>1. IsLeft(c, BackwardStore(c, u, w, e), Extend(w, n, e))
    BY <1>2, BackwardLeaves
  <2> QED
    BY <1>2, <2>1 DEF RmsStore
<1> QED
  BY <1>1, <1>2 DEF Rms

\* Where a store of rms_norm goes is the place of its element.
LEMMA RmsPlace ==
  ASSUME NEW c, NEW u, NEW w, NEW n, NEW W, RmsRow(c, n, w, W), NEW e \in 0..(W - 1)
  PROVE  RmsStore(c, u, w, e).to = At(c.out, Extend(w, n, e))
<1>1. IsRowOf(c.out, n, w) /\ e \in Nat
  BY DEF RmsRow
<1>2. At(c.out, Extend(w, n, e)) = Item(c.out, Offset(c.out.stride, w) + e)
  BY <1>1, RowElement
<1> QED
  BY <1>2, RmsTo

\* rms_norm stores every element once.
LEMMA RmsRight ==
  ASSUME NEW c \in Calls, c.name \in Rms, Complete(KeyOf(c), table)
  PROVE  StoresOnce(c) /\ StoresElements(c) /\ CoversOutput(c)
<1>1. c.out.at # "rms" /\ NoOverlap(c.out) /\ KeyOf(c) \in Keys /\ Units(c) = Rows(KeyOf(c)) /\ Units(c) \in Nat
  BY CallFacts, KeyStrides DEF RmsAccepts
<1>2. StoresOnce(c)
  <2> SUFFICES ASSUME NEW u \in UnitsOf(c), NEW s \in Stores(c, u), NEW r \in Stores(c, u),
                      s.to = r.to
               PROVE  s = r
    BY DEF StoresOnce
  <2>1. PICK w : w = table[u + 1].of
    OBVIOUS
  <2>2. /\ w \in Vectors(KeyOf(c))
        /\ Stores(c, u) = {RmsStore(c, u, w, e) : e \in 0..(Width(c.out) - 1)} \cup
                          (IF c.name = "rmsnorm_forward" THEN {NormStore(c, u, w)} ELSE {})
    BY <2>1, RmsStoresAre
  <2>3. PICK n, W \in Nat : RmsRow(c, n, w, W)
    BY <2>2, RmsRows
  <2>4. PICK a \in Nat : a = Offset(c.out.stride, w) /\ Width(c.out) = W
    BY <2>3 DEF RmsRow, IsRowOf
  <2>5. /\ \A e : RmsStore(c, u, w, e).to = <<c.out.at, a + e>>
        /\ NormStore(c, u, w).to = <<"rms", u>>
    BY <2>4, RmsTo DEF Item
  <2>6. \A q \in Stores(c, u) : (\E e \in 0..(W - 1) : q = RmsStore(c, u, w, e)) \/ q = NormStore(c, u, w)
    BY <2>2, <2>4
  <2>7. CASE s = NormStore(c, u, w) \/ r = NormStore(c, u, w)
    <3>1. \A e : <<c.out.at, a + e>> # <<"rms", u>>
      BY <1>1
    <3> QED
      BY <2>5, <2>6, <2>7, <3>1
  <2>8. CASE s # NormStore(c, u, w) /\ r # NormStore(c, u, w)
    <3>1. PICK e \in 0..(W - 1) : s = RmsStore(c, u, w, e)
      BY <2>6, <2>8
    <3>2. PICK f \in 0..(W - 1) : r = RmsStore(c, u, w, f)
      BY <2>6, <2>8
    <3>3. <<c.out.at, a + e>> = <<c.out.at, a + f>>
      BY <2>5, <3>1, <3>2
    <3>4. a + e = a + f
      <4>1. PICK i, j : i = a + e /\ j = a + f
        OBVIOUS
      <4> QED
        BY <3>3, <4>1
    <3>5. e = f
      BY <3>4
    <3> QED
      BY <3>1, <3>2, <3>5
  <2> QED
    BY <2>7, <2>8
<1>3. StoresElements(c)
  <2> SUFFICES ASSUME NEW u \in UnitsOf(c), NEW s \in Stores(c, u), s.to[1] # "rms"
               PROVE  \E v \in All(c.out) : Leaves(c, s) = Element(c, v)
    BY DEF StoresElements
  <2>1. PICK w : w = table[u + 1].of
    OBVIOUS
  <2>2. /\ w \in Vectors(KeyOf(c))
        /\ Stores(c, u) = {RmsStore(c, u, w, e) : e \in 0..(Width(c.out) - 1)} \cup
                          (IF c.name = "rmsnorm_forward" THEN {NormStore(c, u, w)} ELSE {})
    BY <2>1, RmsStoresAre
  <2>3. PICK n, W \in Nat : RmsRow(c, n, w, W)
    BY <2>2, RmsRows
  <2>4. Width(c.out) = W
    BY <2>3 DEF RmsRow
  <2>5. s # NormStore(c, u, w)
    <3>1. NormStore(c, u, w).to = <<"rms", u>>
      BY RmsTo
    <3> QED
      BY <3>1
  <2>6. PICK e \in 0..(W - 1) : s = RmsStore(c, u, w, e)
    BY <2>2, <2>4, <2>5
  <2>7. Extend(w, n, e) \in All(c.out)
    BY <2>2, <2>3, RmsIndex
  <2>8. IsLeft(c, RmsStore(c, u, w, e), Extend(w, n, e))
    BY <2>1, <2>3, RmsLeaves
  <2> QED
    BY <2>6, <2>7, <2>8 DEF IsLeft
<1>4. CoversOutput(c)
  <2> SUFFICES ASSUME NEW v \in All(c.out)
               PROVE  \E u \in UnitsOf(c) : \E s \in Stores(c, u) :
                        s.to[1] # "rms" /\ Leaves(c, s) = Element(c, v)
    BY DEF CoversOutput
  <2>1. InARow(c, v)
    BY RmsIndices
  <2>2. PICK w \in Vectors(KeyOf(c)) : \E n, W \in Nat :
                  RmsRow(c, n, w, W) /\ \E e \in 0..(W - 1) : v = Extend(w, n, e)
    BY <2>1 DEF InARow
  <2>3. PICK n, W \in Nat : RmsRow(c, n, w, W) /\ \E e \in 0..(W - 1) : v = Extend(w, n, e)
    BY <2>2
  <2>4. PICK e \in 0..(W - 1) : v = Extend(w, n, e)
    BY <2>3
  <2>5. PICK i \in 1..Rows(KeyOf(c)) : table[i].of = w
    <3>1. ListedIn(table) = Vectors(KeyOf(c)) /\ DOMAIN table = 1..Rows(KeyOf(c))
      BY <1>1, EntriesDiffer DEF Complete
    <3>2. w \in ListedIn(table)
      BY <3>1
    <3> QED
      BY <3>1, <3>2 DEF ListedIn
  <2>6. PICK u \in UnitsOf(c) : u + 1 = i
    <3>1. i - 1 \in 0..(Units(c) - 1) /\ (i - 1) + 1 = i
      BY <1>1
    <3> QED
      BY <3>1 DEF UnitsOf
  <2>7. w = table[u + 1].of
    BY <2>5, <2>6
  <2>8. Width(c.out) = W
    BY <2>3 DEF RmsRow
  <2>9. RmsStore(c, u, w, e) \in Stores(c, u)
    BY <2>7, <2>8, RmsStoresAre
  <2>10. RmsStore(c, u, w, e).to[1] # "rms"
    <3>1. RmsStore(c, u, w, e).to = At(c.out, Extend(w, n, e))
      BY <2>3, RmsPlace
    <3> QED
      BY <1>1, <3>1 DEF At
  <2>11. Leaves(c, RmsStore(c, u, w, e)) = Element(c, v)
    <3>1. IsLeft(c, RmsStore(c, u, w, e), Extend(w, n, e))
      BY <2>3, <2>7, RmsLeaves
    <3> QED
      BY <2>4, <3>1 DEF IsLeft
  <2> QED
    BY <2>9, <2>10, <2>11
<1> QED
  BY <1>2, <1>3, <1>4

\* Every operator stores every element of its output once.
LEMMA AllRight ==
  ASSUME NEW c \in Calls, c.name \in Rms => Complete(KeyOf(c), table)
  PROVE  /\ StoresOnce(c)
         /\ Addressed(c) => StoresElements(c) /\ CoversOutput(c)
<1>1. c.name \in Flat \cup Rope \cup Rms \cup {"random_uniform", "act_scale_pack"} \/ Strided(c)
  BY SpanNames
<1>2. CASE c.name \in Flat
  BY <1>2, FlatRight
<1>3. CASE c.name \in Rope
  BY <1>3, RopeRight
<1>4. CASE c.name \in Rms
  BY <1>4, RmsRight
<1>5. CASE c.name = "random_uniform"
  BY <1>5, FillRight
<1>6. CASE c.name = "act_scale_pack"
  BY <1>6, PackRight
<1>7. CASE Strided(c)
  BY <1>7, StridedRight
<1> QED
  BY <1>1, <1>2, <1>3, <1>4, <1>5, <1>6, <1>7

-----------------------------------------------------------------------------
(* The loop: what its units have stored, and what is left. *)

\* The norms of the tensor x are held, each at the place that any table of x's layout
\* gives its row.
NormsHeld(x) ==
  \A k \in Keys : \A tb :
    Complete(k, tb) /\ Ordered(k, tb) /\ k.sizes = x.size /\ k.strides[1] = x.stride =>
      \A r \in DOMAIN tb : /\ <<"rms", r - 1>> \in DOMAIN mem
                           /\ mem[<<"rms", r - 1>>] = Norm(RowFrom(x, tb[r].of))

Done == {u \in UnitsOf(op) : \A t \in Team : u \notin left[t]}

\* The stores of the units that are done, and only they, have been made.
Stored ==
  /\ \A u \in Done : \A s \in Stores(op, u) : s.to \in DOMAIN mem /\ mem[s.to] = Wanted(op, s)
  /\ \A a \in DOMAIN mem : a[1] = "rms" \/ \E u \in Done : \E s \in Stores(op, u) : a = s.to

ResultInv ==
  /\ ResultRight
  /\ phase = "run" => Stored
  /\ phase = "offsets" => \A a \in DOMAIN mem : a[1] = "rms"
  /\ phase = "idle" \/ op.name # "rmsnorm_forward" => \A x \in saved : NormsHeld(x)
  /\ phase # "idle" /\ op.name = "rmsnorm_backward" => saved = {op.ins[1]}

\* The cuts of a loop leave out no unit.
LEMMA CutsCover ==
  ASSUME NEW n \in Nat, NEW cut \in Cuts(n), NEW u \in 0..(n - 1)
  PROVE  \E t \in Team : u \in cut[t]..(cut[t + 1] - 1)
<1>1. Threads \in Nat \ {0}
  BY KernelsAssumption
<1>2. cut \in [0..Threads -> 0..n] /\ cut[0] = 0 /\ cut[Threads] = n
  BY DEF Cuts
<1> DEFINE T == {t \in 0..Threads : u < cut[t]}
<1>3. T \in SUBSET Nat /\ Threads \in T
  BY <1>1, <1>2
<1>4. PICK t \in T : \A y \in T : t <= y
  BY <1>3, Least
<1>5. t \in 0..Threads /\ t # 0 /\ u < cut[t]
  BY <1>1, <1>2, <1>4
<1>6. t - 1 \in 0..Threads /\ t - 1 \in Team /\ (t - 1) + 1 = t
  BY <1>1, <1>5 DEF Team
<1>7. t - 1 \notin T
  BY <1>4, <1>5
<1>8. cut[t - 1] \in 0..n /\ cut[t] \in 0..n /\ ~ (u < cut[t - 1])
  BY <1>2, <1>5, <1>6, <1>7
<1>9. u \in cut[t - 1]..(cut[(t - 1) + 1] - 1)
  BY <1>5, <1>6, <1>8
<1> QED
  BY <1>6, <1>9

\* However a loop is cut, each unit is in some thread's share.
LEMMA SplitsCover ==
  ASSUME NEW c \in Calls, NEW split \in Splits(c), NEW u \in UnitsOf(c)
  PROVE  \E t \in Team : u \in split[t]
<1>1. PICK n \in Nat : n = Units(c)
  BY CallFacts
<1>2. u \in 0..(n - 1)
  BY <1>1 DEF UnitsOf
<1>3. CASE c.name \in Flat \cup {"random_uniform"}
  <2>1. PICK cut \in Cuts(n) : split = [t \in Team |-> cut[t]..(cut[t + 1] - 1)]
    BY <1>1, <1>3 DEF Splits
  <2>2. PICK t \in Team : u \in cut[t]..(cut[t + 1] - 1)
    BY <1>2, CutsCover
  <2> QED
    BY <2>1, <2>2
<1>4. CASE c.name \notin Flat \cup {"random_uniform"}
  <2>1. PICK grain \in Nat : split = [t \in Team |-> Chunk(n, grain, t)]
    <3>1. split = [t \in Team |-> Chunk(n, IF Strided(c) THEN 0 ELSE 1, t)]
      BY <1>1, <1>4 DEF Splits
    <3>2. PICK grain \in Nat : grain = IF Strided(c) THEN 0 ELSE 1
      OBVIOUS
    <3> QED
      BY <3>1, <3>2
  <2>2. PICK t \in Team : u \in Chunk(n, grain, t)
    BY <1>2, ChunksShareOut
  <2> QED
    BY <2>1, <2>2
<1> QED
  BY <1>3, <1>4

\* Only a unit of rms_norm owns a norm, that of its row.
LEMMA OwnsNorm ==
  ASSUME NEW c \in Calls, NEW tb, NEW u, NEW a \in OwnOf(c, tb, u), a[1] = "rms"
  PROVE  c.name \in Rms /\ a = <<"rms", u>>
<1>1. \A n : Item(c.out, n)[1] # "rms"
  BY CallFacts DEF Item
<1>2. CASE c.name \in Flat
  BY <1>1, <1>2, OwnIs DEF BlockOwn
<1>3. CASE c.name \in Rope
  <2>1. a \in HeadOwn(c, u)
    BY <1>3, OwnIs
  <2> QED
    BY <1>1, <2>1 DEF HeadOwn
<1>4. CASE c.name \in Rms
  BY <1>1, <1>4, OwnIs DEF RowOwn
<1>5. CASE c.name \in {"random_uniform", "act_scale_pack"} \/ Strided(c)
  <2>1. PICK w : w = Span(c)
    OBVIOUS
  <2>2. a \in SpanOwn(c, w, u)
    BY <1>5, <2>1, OwnIs
  <2> QED
    BY <1>1, <2>2 DEF SpanOwn
<1> QED
  BY <1>2, <1>3, <1>4, <1>5, SpanNames

\* The forward reads no norm.
LEMMA ForwardReadsNoNorm ==
  ASSUME NEW c \in Calls, c.name = "rmsnorm_forward", Complete(KeyOf(c), table),
         NEW u \in UnitsOf(c), NEW s \in Stores(c, u), NEW i \in DOMAIN s.from
  PROVE  s.from[i][1] # "rms"
<1>1. c.name \in Rms
  BY DEF Rms
<1>2. PICK w : w = table[u + 1].of
  OBVIOUS
<1>3. /\ w \in Vectors(KeyOf(c))
      /\ Stores(c, u) = {RmsStore(c, u, w, e) : e \in 0..(Width(c.out) - 1)} \cup {NormStore(c, u, w)}
  BY <1>1, <1>2, RmsStoresAre
<1>4. PICK n, W \in Nat : RmsRow(c, n, w, W)
  BY <1>1, <1>3, RmsRows
<1>5. s.from \in Seq(Places(c))
  <2>1. CASE s = NormStore(c, u, w)
    <3>1. s.from = RowFrom(c.ins[1], w)
      BY <2>1 DEF NormStore, Put
    <3> QED
      BY <1>4, <3>1, ForwardReads
  <2>2. CASE s # NormStore(c, u, w)
    <3>1. PICK e \in 0..(Width(c.out) - 1) : s = RmsStore(c, u, w, e)
      BY <1>3, <2>2
    <3>2. e \in 0..(W - 1)
      BY <1>4 DEF RmsRow
    <3>3. s.from = <<RowFrom(c.ins[1], w)[e + 1]>> \o RowFrom(c.ins[1], w) \o Weighted(c, 2, e)
      BY <3>1 DEF RmsStore, ForwardStore, Put
    <3> QED
      BY <1>4, <3>2, <3>3, ForwardReads
  <2> QED
    BY <2>1, <2>2
<1>6. s.from[i] \in Places(c)
  BY <1>5
<1> QED
  BY <1>6, PlaceOrigin

\* Only the forward stores a norm.
LEMMA NormsStored ==
  ASSUME NEW c \in Calls, c.name \in Rms => Complete(KeyOf(c), table), c.name # "rmsnorm_forward",
         NEW u \in UnitsOf(c), NEW s \in Stores(c, u)
  PROVE  s.to[1] # "rms"
<1>1. CASE c.name \in Rms
  <2>1. PICK w : w = table[u + 1].of
    OBVIOUS
  <2>2. Stores(c, u) = {RmsStore(c, u, w, e) : e \in 0..(Width(c.out) - 1)}
    BY <1>1, <2>1, RmsStoresAre
  <2>3. PICK e \in 0..(Width(c.out) - 1) : s = RmsStore(c, u, w, e)
    BY <2>2
  <2> QED
    BY <2>3, RmsTo, CallFacts DEF Item
<1>2. CASE c.name \notin Rms
  <2>1. s.to \in OwnOf(c, table, u)
    BY <1>2, StoresOwned DEF Owned, UnitsOf
  <2> QED
    BY <1>2, <2>1, OwnsNorm
<1> QED
  BY <1>1, <1>2

\* What a unit loads is what was there at the call, or the norm of its row.
LEMMA Loads ==
  ASSUME Inv, TableInv, RunInv, ResultInv, phase = "run",
         NEW u \in UnitsOf(op), u \notin Done, NEW s \in Stores(op, u), NEW i \in DOMAIN s.from
  PROVE  Load(s.from[i]) = Origin(op, s.from[i])
<1>1. op \in Calls /\ (op.name \in Rms => Complete(KeyOf(op), table))
  BY TableOfRun
<1>2. PICK a : a = s.from[i]
  OBVIOUS
<1>3. Stored
  BY DEF ResultInv
<1>4. a \in OwnOf(op, table, u) \/ a[1] \notin {op.out.at, "rms"}
  BY <1>1, <1>2, StoresOwned DEF Owned, UnitsOf
<1>5. CASE a[1] = "rms"
  <2>1. op.name \in Rms /\ a = <<"rms", u>>
    BY <1>1, <1>4, <1>5, OwnsNorm
  <2>2. op.name = "rmsnorm_backward"
    <3>1. op.name # "rmsnorm_forward"
      BY <1>1, <1>2, <1>5, <2>1, ForwardReadsNoNorm
    <3> QED
      BY <2>1, <3>1 DEF Rms
  <2>3. NormsHeld(op.ins[1])
    BY <2>2 DEF ResultInv
  <2>4. /\ KeyOf(op) \in Keys /\ Complete(KeyOf(op), table) /\ Ordered(KeyOf(op), table)
        /\ KeyOf(op).sizes = op.ins[1].size /\ KeyOf(op).strides[1] = op.ins[1].stride
        /\ Units(op) = Rows(KeyOf(op)) /\ Units(op) \in Nat
    <3>1. key = KeyOf(op) /\ at = "have"
      BY <2>1 DEF RunInv, Inv, TypeOK
    <3>2. Ordered(KeyOf(op), table)
      BY <3>1 DEF TableInv
    <3> QED
      BY <1>1, <2>1, <2>2, <3>2, KeyStrides, CallFacts
  <2>5. u + 1 \in DOMAIN table /\ (u + 1) - 1 = u
    <3>1. DOMAIN table = 1..Rows(KeyOf(op))
      BY <2>4 DEF Complete
    <3> QED
      BY <2>4, <3>1 DEF UnitsOf
  <2>6. <<"rms", u>> \in DOMAIN mem /\ mem[<<"rms", u>>] = Norm(RowFrom(op.ins[1], table[u + 1].of))
    BY <2>3, <2>4, <2>5 DEF NormsHeld
  <2>7. Load(a) = Norm(RowFrom(op.ins[1], table[u + 1].of))
    BY <2>1, <2>6 DEF Load
  <2>8. a[1] = "rms" /\ a[2] = u
    BY <2>1
  <2>9. Origin(op, a) = Norm(RowFrom(op.ins[1], table[u + 1].of))
    BY <2>8 DEF Origin, RowFrom
  <2> QED
    BY <1>2, <2>7, <2>9
<1>6. CASE a[1] # "rms"
  <2>1. a \notin DOMAIN mem
    <3> SUFFICES ASSUME a \in DOMAIN mem PROVE FALSE
      OBVIOUS
    <3>5. PICK w \in Done : \E r \in Stores(op, w) : a = r.to
      BY <1>3, <1>6 DEF Stored
    <3>1. PICK r \in Stores(op, w) : a = r.to
      BY <3>5
    <3>2. w \in UnitsOf(op) /\ w # u
      BY DEF Done
    <3>3. a \in OwnOf(op, table, w)
      BY <1>1, <3>1, <3>2, StoresOwned DEF Owned, UnitsOf
    <3>4. a \in OwnOf(op, table, u)
      BY <1>1, <1>4, <3>3, OwnsHere
    <3> QED
      BY <1>1, <3>2, <3>3, <3>4, OwnsApart DEF UnitsOf
  <2> QED
    BY <1>2, <1>6, <2>1 DEF Load, Origin
<1> QED
  BY <1>5, <1>6

\* What a unit stores is what its stores are to leave.
LEMMA UnitStores ==
  ASSUME Inv, TableInv, RunInv, ResultInv, NEW t \in Team, Unit(t)
  PROVE  \E u \in UnitsOf(op) :
           /\ u \in left[t] /\ left' = [left EXCEPT ![t] = @ \ {u}]
           /\ DOMAIN mem' = DOMAIN mem \cup {s.to : s \in Stores(op, u)}
           /\ \A s \in Stores(op, u) : mem'[s.to] = Wanted(op, s)
           /\ \A a \in DOMAIN mem : a \notin {s.to : s \in Stores(op, u)} => mem'[a] = mem[a]
<1> DEFINE u == Min(left[t])
           S == Stores(op, u)
           stored == {s.to : s \in S}
<1>1. /\ phase = "run" /\ left[t] # {}
      /\ left' = [left EXCEPT ![t] = @ \ {u}]
      /\ mem' = [a \in DOMAIN mem \cup stored |->
                   IF a \in stored THEN Value(CHOOSE s \in S : s.to = a) ELSE mem[a]]
  BY DEF Unit
<1>2. op \in Calls /\ (op.name \in Rms => Complete(KeyOf(op), table))
  BY <1>1, TableOfRun
<1>3. left \in [Team -> SUBSET (0..(Units(op) - 1))] /\ Units(op) \in Nat
  BY <1>2, CallFacts DEF Inv, TypeOK
<1>4. u \in left[t] /\ u \in UnitsOf(op) /\ u \notin Done
  <2>1. left[t] \in SUBSET Nat
    BY <1>3
  <2>2. u \in left[t]
    BY <1>1, <2>1, FirstIsLeft
  <2> QED
    BY <1>3, <2>2 DEF UnitsOf, Done
<1> HIDE DEF u
<1>5. StoresOnce(op)
  BY <1>2, AllRight
<1>6. \A s \in S : (CHOOSE r \in S : r.to = s.to) = s
  <2> SUFFICES ASSUME NEW s \in S PROVE (CHOOSE r \in S : r.to = s.to) = s
    OBVIOUS
  <2>1. \E r \in S : r.to = s.to
    OBVIOUS
  <2>2. \A r \in S : r.to = s.to => r = s
    BY <1>4, <1>5 DEF StoresOnce
  <2> QED
    BY <2>1, <2>2
<1>7. \A s \in S : Value(s) = Wanted(op, s)
  <2> SUFFICES ASSUME NEW s \in S PROVE Value(s) = Wanted(op, s)
    OBVIOUS
  <2>1. \A i \in DOMAIN s.from : Load(s.from[i]) = Origin(op, s.from[i])
    BY <1>1, <1>4, Loads
  <2>2. [i \in DOMAIN s.from |-> Load(s.from[i])] = Origins(op, s.from)
    BY <2>1 DEF Origins
  <2> QED
    BY <2>2 DEF Value, Wanted
<1>8. \A s \in S : mem'[s.to] = Wanted(op, s)
  <2> SUFFICES ASSUME NEW s \in S PROVE mem'[s.to] = Wanted(op, s)
    OBVIOUS
  <2>1. s.to \in stored
    OBVIOUS
  <2>2. mem'[s.to] = Value(CHOOSE r \in S : r.to = s.to)
    BY <1>1, <2>1
  <2> QED
    BY <1>6, <1>7, <2>2
<1>9. DOMAIN mem' = DOMAIN mem \cup stored
  BY <1>1
<1>10. \A a \in DOMAIN mem : a \notin stored => mem'[a] = mem[a]
  BY <1>1
<1> QED
  BY <1>1, <1>4, <1>8, <1>9, <1>10

\* A unit that runs is done, and has been stored.
LEMMA UnitResultInv ==
  ASSUME Inv, TableInv, RunInv, ResultInv, NEW t \in Team, Unit(t)
  PROVE  ResultInv'
<1>1. /\ phase = "run" /\ phase' = "run" /\ op' = op /\ saved' = saved /\ table' = table
  BY DEF Unit, rowsVars
<1>2. op \in Calls /\ (op.name \in Rms => Complete(KeyOf(op), table))
  BY <1>1, TableOfRun
<1>3. PICK u \in UnitsOf(op) :
           /\ u \in left[t] /\ left' = [left EXCEPT ![t] = @ \ {u}]
           /\ DOMAIN mem' = DOMAIN mem \cup {s.to : s \in Stores(op, u)}
           /\ \A s \in Stores(op, u) : mem'[s.to] = Wanted(op, s)
           /\ \A a \in DOMAIN mem : a \notin {s.to : s \in Stores(op, u)} => mem'[a] = mem[a]
  BY UnitStores
<1>4. left \in [Team -> SUBSET (0..(Units(op) - 1))] /\ Shared
  BY DEF Inv, TypeOK
<1>5. \A w, s : Stores(op, w)' = Stores(op, w) /\ Wanted(op, s)' = Wanted(op, s)
                /\ UnitsOf(op)' = UnitsOf(op)
  BY <1>1 DEF Stores, ForwardStores, BackwardStores, Wanted, Origins, Origin, UnitsOf
<1>6. Done' = Done \cup {u}
  <2>1. u \notin left'[t] /\ \A r \in Team : left'[r] \subseteq left[r]
    BY <1>3, <1>4
  <2>2. \A r \in Team : u \notin left'[r]
    BY <1>3, <1>4, <2>1 DEF Shared
  <2>3. \A w : w # u => \A r \in Team : w \in left[r] <=> w \in left'[r]
    BY <1>3, <1>4
  <2>4. ASSUME NEW w PROVE w \in Done' <=> w \in Done \cup {u}
    <3>1. CASE w = u
      BY <1>3, <1>5, <2>2, <3>1 DEF Done
    <3>2. CASE w # u
      BY <1>5, <2>3, <3>2 DEF Done
    <3> QED
      BY <3>1, <3>2
  <2> QED
    BY <2>4
<1>7. Stored
  BY <1>1 DEF ResultInv
<1>8. u \notin Done
  BY <1>3 DEF Done
<1>9. ASSUME NEW w \in Done, NEW r \in Stores(op, w)
      PROVE  r.to \in DOMAIN mem' /\ mem'[r.to] = Wanted(op, r)
  <2>1. r.to \in DOMAIN mem /\ mem[r.to] = Wanted(op, r)
    BY <1>7 DEF Stored
  <2>2. w \in UnitsOf(op) /\ w # u
    BY <1>8 DEF Done
  <2>3. r.to \in OwnOf(op, table, w)
    BY <1>2, <2>2, StoresOwned DEF Owned, UnitsOf
  <2>4. \A s \in Stores(op, u) : s.to \in OwnOf(op, table, u)
    BY <1>2, StoresOwned DEF Owned, UnitsOf
  <2>5. OwnOf(op, table, w) \cap OwnOf(op, table, u) = {}
    BY <1>2, <2>2, OwnsApart DEF UnitsOf
  <2>6. r.to \notin {s.to : s \in Stores(op, u)}
    BY <2>3, <2>4, <2>5
  <2> QED
    BY <1>3, <2>1, <2>6
<1>10. \A w \in Done' : \A r \in Stores(op, w) : r.to \in DOMAIN mem' /\ mem'[r.to] = Wanted(op, r)
  BY <1>3, <1>6, <1>9
<1>11. \A a \in DOMAIN mem' : a[1] = "rms" \/ \E w \in Done' : \E s \in Stores(op, w) : a = s.to
  BY <1>3, <1>6, <1>7 DEF Stored
<1>12. Stored'
  BY <1>1, <1>5, <1>10, <1>11 DEF Stored
<1>13. ASSUME op.name # "rmsnorm_forward", NEW x \in saved PROVE NormsHeld(x)'
  <2>1. NormsHeld(x)
    BY <1>13 DEF ResultInv
  <2>2. \A s \in Stores(op, u) : s.to[1] # "rms"
    BY <1>2, <1>13, NormsStored
  <2>3. \A n : <<"rms", n>> \notin {s.to : s \in Stores(op, u)}
    BY <2>2
  <2>4. \A n : <<"rms", n>> \in DOMAIN mem => <<"rms", n>> \in DOMAIN mem' /\ mem'[<<"rms", n>>] = mem[<<"rms", n>>]
    BY <1>3, <2>3
  <2> QED
    BY <2>1, <2>4 DEF NormsHeld
<1>14. ResultRight'
  BY <1>1 DEF ResultRight
<1>15. phase # "idle" /\ op.name = "rmsnorm_backward" => saved = {op.ins[1]}
  BY DEF ResultInv
<1> QED
  BY <1>1, <1>12, <1>13, <1>14, <1>15 DEF ResultInv

\* Nothing has been called.
LEMMA InitResultInv == Init => ResultInv
BY DEF Init, ResultInv, ResultRight

\* A loop begins with nothing done, and with norms alone in memory.
LEMMA ForkStores ==
  ASSUME NEW c \in Calls, Fork(c), op' = c, \A a \in DOMAIN mem' : a[1] = "rms"
  PROVE  Stored'
<1>1. left' \in Splits(c)
  BY DEF Fork
<1>2. Done' = {}
  <2> SUFFICES ASSUME NEW u \in Done' PROVE FALSE
    OBVIOUS
  <2>1. u \in UnitsOf(c) /\ \A t \in Team : u \notin left'[t]
    BY DEF Done
  <2>2. \E t \in Team : u \in left'[t]
    BY <1>1, <2>1, SplitsCover
  <2> QED
    BY <2>1, <2>2
<1> QED
  BY <1>2 DEF Stored

\* What is kept from one call to the next are the norms.
LEMMA KeptNorms ==
  ASSUME mem' = Kept
  PROVE  /\ \A a \in DOMAIN mem' : a[1] = "rms"
         /\ \A x : NormsHeld(x) => NormsHeld(x)'
<1>1. \A a \in DOMAIN mem' : a[1] = "rms"
  BY DEF Kept
<1>2. \A n : <<"rms", n>> \in DOMAIN mem => <<"rms", n>> \in DOMAIN mem' /\ mem'[<<"rms", n>>] = mem[<<"rms", n>>]
  <2> SUFFICES ASSUME NEW n, <<"rms", n>> \in DOMAIN mem
               PROVE  <<"rms", n>> \in DOMAIN mem' /\ mem'[<<"rms", n>>] = mem[<<"rms", n>>]
    OBVIOUS
  <2>1. <<"rms", n>>[1] = "rms"
    OBVIOUS
  <2>2. <<"rms", n>> \in {a \in DOMAIN mem : a[1] = "rms"}
    BY <2>1
  <2> QED
    BY <2>2 DEF Kept
<1>3. ASSUME NEW x, NormsHeld(x) PROVE NormsHeld(x)'
  BY <1>2, <1>3 DEF NormsHeld
<1> QED
  BY <1>1, <1>3

\* A call of another operator leaves the norms.
LEMMA CallResultInv ==
  ASSUME Inv, ResultInv, NEW c \in Calls, Call(c)
  PROVE  ResultInv'
<1>1. /\ phase = "idle" /\ phase' = "run" /\ op' = c /\ c.name \notin Rms /\ Fork(c)
      /\ mem' = Kept /\ saved' = saved
  BY DEF Call, Starts, Fork
<1>2. Stored'
  BY <1>1, KeptNorms, ForkStores
<1>3. \A x \in saved : NormsHeld(x)'
  BY <1>1, KeptNorms DEF ResultInv
<1>4. c.name # "rmsnorm_backward"
  BY <1>1 DEF Rms
<1>5. ResultRight'
  BY <1>1 DEF ResultRight
<1> QED
  BY <1>1, <1>2, <1>3, <1>4, <1>5 DEF ResultInv

\* The forward starts with no norms, the backward with those of its input.
LEMMA CallRmsResultInv ==
  ASSUME Inv, ResultInv, NEW c \in Calls, CallRms(c)
  PROVE  ResultInv'
<1>1. /\ phase = "idle" /\ phase' = "offsets" /\ op' = c /\ saved' = saved
      /\ c.name = "rmsnorm_backward" => saved = {c.ins[1]}
      /\ mem' = IF c.name = "rmsnorm_forward" THEN Nothing ELSE Kept
  BY DEF CallRms, Starts
<1>2. \A a \in DOMAIN mem' : a[1] = "rms"
  BY <1>1, KeptNorms DEF Nothing
<1>3. c.name # "rmsnorm_forward" => \A x \in saved : NormsHeld(x)'
  BY <1>1, KeptNorms DEF ResultInv
<1>4. ResultRight'
  BY <1>1 DEF ResultRight
<1> QED
  BY <1>1, <1>2, <1>3, <1>4 DEF ResultInv

\* Listing the rows stores nothing.
LEMMA ListRowsResultInv ==
  ASSUME Inv, ResultInv, ListRows
  PROVE  ResultInv'
<1>1. /\ at = "rows" /\ phase' = phase /\ op' = op /\ saved' = saved /\ mem' = mem
  BY DEF ListRows, Row, Emplace, regionVars
<1>2. phase = "offsets"
  BY <1>1 DEF Inv, TypeOK
<1>3. \A x : NormsHeld(x) => NormsHeld(x)'
  BY <1>1 DEF NormsHeld
<1> QED
  BY <1>1, <1>2, <1>3 DEF ResultInv, ResultRight

\* The kernel of rms_norm begins with nothing done.
LEMMA NormsResultInv ==
  ASSUME Inv, ResultInv, Norms
  PROVE  ResultInv'
<1>1. /\ phase = "offsets" /\ phase' = "run" /\ op' = op /\ Fork(op) /\ saved' = saved /\ mem' = mem
  BY DEF Norms, Fork
<1>2. op \in Calls /\ \A a \in DOMAIN mem : a[1] = "rms"
  BY <1>1 DEF Inv, TypeOK, ResultInv
<1>3. Stored'
  BY <1>1, <1>2, ForkStores
<1>4. \A x : NormsHeld(x) => NormsHeld(x)'
  BY <1>1 DEF NormsHeld
<1> QED
  BY <1>1, <1>3, <1>4 DEF ResultInv, ResultRight

\* When every unit is done, what has been written is the output.
LEMMA AllWritten ==
  ASSUME NEW c \in Calls, op = c, c.name \in Rms => Complete(KeyOf(c), table),
         Stored, Done = UnitsOf(c), Addressed(c)
  PROVE  Written = {Element(c, v) : v \in All(c.out)}
<1>1. StoresElements(c) /\ CoversOutput(c)
  BY AllRight
<1>2. \A u \in UnitsOf(c) : \A s \in Stores(c, u) : s.to \in DOMAIN mem /\ mem[s.to] = Wanted(c, s)
  BY DEF Stored
<1>3. ASSUME NEW a \in DOMAIN mem, a[1] # "rms"
      PROVE  \E v \in All(c.out) : [to |-> a, val |-> mem[a]] = Element(c, v)
  <2>1. PICK u \in UnitsOf(c) : \E s \in Stores(c, u) : a = s.to
    BY <1>3 DEF Stored
  <2>2. PICK s \in Stores(c, u) : a = s.to
    BY <2>1
  <2>3. PICK v \in All(c.out) : Leaves(c, s) = Element(c, v)
    BY <1>1, <1>3, <2>2 DEF StoresElements
  <2>4. [to |-> a, val |-> mem[a]] = Leaves(c, s)
    BY <1>2, <2>2 DEF Leaves
  <2> QED
    BY <2>3, <2>4
<1>4. ASSUME NEW v \in All(c.out)
      PROVE  \E a \in DOMAIN mem : a[1] # "rms" /\ [to |-> a, val |-> mem[a]] = Element(c, v)
  <2>1. PICK u \in UnitsOf(c) : \E s \in Stores(c, u) : s.to[1] # "rms" /\ Leaves(c, s) = Element(c, v)
    BY <1>1 DEF CoversOutput
  <2>2. PICK s \in Stores(c, u) : s.to[1] # "rms" /\ Leaves(c, s) = Element(c, v)
    BY <2>1
  <2>3. PICK a : a = s.to
    OBVIOUS
  <2>4. a \in DOMAIN mem /\ [to |-> a, val |-> mem[a]] = Leaves(c, s)
    BY <1>2, <2>3 DEF Leaves
  <2> QED
    BY <2>2, <2>3, <2>4
<1> QED
  BY <1>3, <1>4 DEF Written

\* When the forward returns, the norms of its input are held: any table of that
\* layout lists the same rows at the same places.
LEMMA NormsComplete ==
  ASSUME Inv, TableInv, RunInv, phase = "run", op.name = "rmsnorm_forward",
         Stored, Done = UnitsOf(op)
  PROVE  NormsHeld(op.ins[1])
<1>1. op \in Calls /\ op.name \in Rms
  BY DEF Inv, TypeOK, Rms
<1>2. /\ KeyOf(op) \in Keys /\ Complete(KeyOf(op), table) /\ Ordered(KeyOf(op), table)
      /\ KeyOf(op).sizes = op.ins[1].size /\ KeyOf(op).strides[1] = op.ins[1].stride
      /\ Units(op) = Rows(KeyOf(op)) /\ Units(op) \in Nat
  <2>1. key = KeyOf(op) /\ at = "have"
    BY <1>1 DEF RunInv, Inv, TypeOK
  <2>2. Complete(KeyOf(op), table) /\ Ordered(KeyOf(op), table)
    BY <2>1 DEF TableInv
  <2> QED
    BY <1>1, <2>2, KeyStrides, CallFacts
<1> SUFFICES ASSUME NEW k \in Keys, NEW tb, Complete(k, tb), Ordered(k, tb),
                    k.sizes = op.ins[1].size, k.strides[1] = op.ins[1].stride,
                    NEW r \in DOMAIN tb
             PROVE  /\ <<"rms", r - 1>> \in DOMAIN mem
                    /\ mem[<<"rms", r - 1>>] = Norm(RowFrom(op.ins[1], tb[r].of))
  BY DEF NormsHeld
<1>3. r \in DOMAIN table /\ tb[r].of = table[r].of
  <2>1. PICK l \in Keys : l = KeyOf(op)
    BY <1>2
  <2>2. /\ k.sizes = l.sizes /\ k.strides[1] = l.strides[1]
        /\ Complete(l, table) /\ Ordered(l, table)
    BY <1>2, <2>1
  <2>3. DOMAIN tb = DOMAIN table /\ \A q \in DOMAIN tb : tb[q].of = table[q].of
    BY <2>2, TablesAgree
  <2> QED
    BY <2>3
<1>4. DOMAIN table = 1..Rows(KeyOf(op))
  BY <1>2 DEF Complete
<1>5. PICK u : u = r - 1
  OBVIOUS
<1>6. u \in UnitsOf(op) /\ u + 1 = r
  BY <1>2, <1>3, <1>4, <1>5 DEF UnitsOf
<1>7. PICK w : w = table[r].of
  OBVIOUS
<1>8. w \in Vectors(KeyOf(op)) /\ NormStore(op, u, w) \in Stores(op, u)
  BY <1>1, <1>2, <1>6, <1>7, RmsStoresAre
<1>9. PICK s \in Stores(op, u) : s = NormStore(op, u, w)
  BY <1>8
<1>10. s.to = <<"rms", u>> /\ s.name = "rms" /\ s.lane = <<>> /\ s.from = RowFrom(op.ins[1], w)
  BY <1>9 DEF NormStore, Put
<1>11. <<"rms", u>> \in DOMAIN mem /\ mem[<<"rms", u>>] = Wanted(op, s)
  BY <1>6, <1>10 DEF Stored
<1>12. Origins(op, s.from) = RowFrom(op.ins[1], w)
  <2>1. PICK n, W \in Nat : RmsRow(op, n, w, W)
    BY <1>1, <1>8, RmsRows
  <2>2. RowFrom(op.ins[1], w) \in Seq(Places(op))
    BY <1>1, <2>1, ForwardReads
  <2> QED
    BY <1>1, <1>10, <2>2, PlacesOrigin
<1>13. Wanted(op, s) = Norm(RowFrom(op.ins[1], w))
  BY <1>10, <1>12 DEF Wanted, Norm
<1> QED
  BY <1>3, <1>5, <1>7, <1>11, <1>13

\* An operator returns when all its units are done.
LEMMA ReturnResultInv ==
  ASSUME Inv, TableInv, RunInv, ResultInv, Return
  PROVE  ResultInv'
<1>1. /\ phase = "run" /\ left = Idle /\ phase' = "idle" /\ op' = op /\ mem' = mem /\ calls' = calls
      /\ saved' = IF op.name = "rmsnorm_forward" THEN {op.ins[1]} ELSE saved
  BY DEF Return
<1>2. op \in Calls /\ (op.name \in Rms => Complete(KeyOf(op), table))
  BY <1>1, TableOfRun
<1>3. Stored
  BY <1>1 DEF ResultInv
<1>4. Done = UnitsOf(op)
  BY <1>1 DEF Done, Idle
<1>5. Addressed(op) => Written = {Element(op, v) : v \in All(op.out)}
  <2>1. PICK c : c = op
    OBVIOUS
  <2> QED
    BY <1>2, <1>3, <1>4, <2>1, AllWritten
<1>6. ResultRight'
  <2>1. Addressed(op)' = Addressed(op) /\ Written' = Written
        /\ {Element(op, v) : v \in All(op.out)}' = {Element(op, v) : v \in All(op.out)}
    BY <1>1 DEF Written
  <2> QED
    BY <1>5, <2>1 DEF ResultRight
<1>7. \A x : NormsHeld(x) => NormsHeld(x)'
  BY <1>1 DEF NormsHeld
<1>8. \A x \in saved' : NormsHeld(x)
  <2>1. CASE op.name = "rmsnorm_forward"
    <3>1. NormsHeld(op.ins[1])
      BY <1>1, <1>3, <1>4, <2>1, NormsComplete
    <3> QED
      BY <1>1, <2>1, <3>1
  <2>2. CASE op.name # "rmsnorm_forward"
    BY <1>1, <2>2 DEF ResultInv
  <2> QED
    BY <2>1, <2>2
<1> QED
  BY <1>1, <1>6, <1>7, <1>8 DEF ResultInv

\* Every step preserves what has been stored.
LEMMA NextResultInv ==
  ASSUME Inv, TableInv, RunInv, ResultInv, [Next]_vars
  PROVE  ResultInv'
<1>1. CASE UNCHANGED vars
  <2>1. /\ phase' = phase /\ op' = op /\ left' = left /\ mem' = mem /\ saved' = saved
        /\ table' = table /\ calls' = calls
    BY <1>1 DEF vars, rowsVars, regionVars
  <2>2. ResultRight' = ResultRight
    BY <2>1 DEF ResultRight, Written
  <2>3. Stored' = Stored
    BY <2>1 DEF Stored, Done, UnitsOf, Stores, ForwardStores, BackwardStores, Wanted, Origins, Origin
  <2>4. \A x : NormsHeld(x)' = NormsHeld(x)
    BY <2>1 DEF NormsHeld
  <2> QED
    BY <2>1, <2>2, <2>3, <2>4 DEF ResultInv
<1> QED
  BY <1>1, CallResultInv, CallRmsResultInv, ListRowsResultInv, NormsResultInv, UnitResultInv,
     ReturnResultInv DEF Next

\* Whatever the tensors, the team, the length of a vector, the cuts of the loops and the
\* order in which the threads run: when an operator returns, its output holds what each
\* logical index asks for, from the operands as they were at the call (also in place),
\* with the norm of its own row, though forward and backward read their rows from tables
\* of different layouts (rms_norm.cc 39-40, 148-151), and nothing else is written.
THEOREM ResultRightCorrect == Spec => []ResultRight
<1>1. ResultInv => ResultRight
  BY DEF ResultInv
<1>2. Inv /\ TableInv /\ RunInv /\ [Next]_vars => RunInv'
  BY NextRunInv
<1>3. Inv /\ TableInv /\ RunInv /\ ResultInv /\ [Next]_vars => ResultInv'
  BY NextResultInv
<1> QED
  BY <1>1, <1>2, <1>3, InitRunInv, InitResultInv, OperatorsInvariant, OperatorsUseTheTables,
     TableInvariant, PTL DEF Spec
=============================================================================
