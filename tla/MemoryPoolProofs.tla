-------------------------- MODULE MemoryPoolProofs --------------------------
(***************************************************************************)
(* Theorems about MemoryPool, for any threads, sizes, quota and number of   *)
(* shards: first what holds of each thread and block (IInv), then the sums   *)
(* over all of them (Counted).                                              *)
(***************************************************************************)
EXTENDS MemoryPool, Functions, FiniteSetTheorems, TLAPS

-----------------------------------------------------------------------------
(* Sums of a function over a finite set.  The library defines them by a         *)
(* recursive function, and its induction theorems take an operator as a         *)
(* parameter; here each induction is on a set instead: what fails of some       *)
(* finite set fails of a smallest one.                                          *)

\* The element by which the recursion of a sum goes on from a set.
Chosen(s) == CHOOSE x \in s : TRUE

\* g is the recursion that sums f, over the subsets of a set in D.
Sums(g, f, D) == g = [s \in D |-> IF s = {} THEN 0 ELSE f[Chosen(s)] + g[s \ {Chosen(s)}]]

\* A set of sets that are all parts of a finite one has a member from which no
\* element can be taken away.
LEMMA Smallest ==
  ASSUME NEW S, IsFiniteSet(S), NEW Bad \in SUBSET (SUBSET S), Bad # {}
  PROVE  \E s \in Bad : \A x \in s : s \ {x} \notin Bad
<1>1. /\ FiniteSubsetsOf(S) = SUBSET S
      /\ IsWellFoundedOn(StrictSubsetOrdering(S), FiniteSubsetsOf(S))
  BY FS_StrictSubsetOrderingWellFounded, FS_FiniteSubsetsOfFinite
<1>2. PICK s \in Bad : \A r \in Bad : <<r, s>> \notin StrictSubsetOrdering(S)
  BY <1>1, WFMin
<1>3. ASSUME NEW x \in s, s \ {x} \in Bad PROVE FALSE
  BY <1>2, <1>3 DEF StrictSubsetOrdering
<1> QED
  BY <1>2, <1>3

\* A sum is the value of its recursion.
LEMMA SumIsRecursive ==
  ASSUME NEW f, NEW S
  PROVE  SumFunctionOnSet(f, S) = (CHOOSE g : Sums(g, f, SUBSET S))[S]
  BY DEF SumFunctionOnSet, FoldFunctionOnSet, MapThenFoldSet, Sums, Chosen
\* Such a recursion exists over a finite set: a subset for which it does not,
\* with every smaller one below it, would be the smallest.
LEMMA RecursionExists ==
  ASSUME NEW f, NEW S, IsFiniteSet(S)
  PROVE  \E g : Sums(g, f, SUBSET S)
<1> DEFINE Below(n) == {s \in SUBSET S : Cardinality(s) <= n}
           Has(n) == \E g : Sums(g, f, Below(n))
<1>1. \A s \in SUBSET S : IsFiniteSet(s) /\ Cardinality(s) \in Nat /\ Cardinality(s) <= Cardinality(S)
  BY FS_Subset, FS_CardinalityType
<1>2. \A s \in SUBSET S : s # {} =>
         /\ Chosen(s) \in s /\ s \ {Chosen(s)} \in SUBSET S
         /\ Cardinality(s \ {Chosen(s)}) = Cardinality(s) - 1
  BY <1>1, FS_RemoveElement DEF Chosen
<1>3. Has(0)
  <2>1. Below(0) = {{}}
    BY <1>1, FS_EmptySet
  <2>2. Sums([s \in {{}} |-> 0], f, {{}})
    BY DEF Sums
  <2> QED
    BY <2>1, <2>2
<1>4. ASSUME NEW n \in Nat, Has(n) PROVE Has(n + 1)
  <2>1. PICK g : Sums(g, f, Below(n))
    BY <1>4
  <2> DEFINE h == [s \in Below(n + 1) |-> IF s = {} THEN 0 ELSE f[Chosen(s)] + g[s \ {Chosen(s)}]]
  <2>2. \A s \in Below(n + 1) : s # {} => s \ {Chosen(s)} \in Below(n)
    BY <1>1, <1>2
  <2>3. \A s \in Below(n) : s \in Below(n + 1) /\ h[s] = g[s]
    <3>1. \A s \in Below(n) : s \in Below(n + 1)
      BY <1>1
    <3>2. \A s \in Below(n) : g[s] = IF s = {} THEN 0 ELSE f[Chosen(s)] + g[s \ {Chosen(s)}]
      BY <2>1 DEF Sums
    <3> QED
      BY <3>1, <3>2
  <2>4. Sums(h, f, Below(n + 1))
    <3>1. \A s \in Below(n + 1) : s # {} => h[s \ {Chosen(s)}] = g[s \ {Chosen(s)}]
      BY <2>2, <2>3
    <3> HIDE DEF Below
    <3> QED
      BY <3>1 DEF Sums
  <2> QED
    BY <2>4
<1>5. ASSUME ~Has(Cardinality(S)) PROVE FALSE
  <2> DEFINE Bad == {n \in Nat : ~Has(n)}
  <2> HIDE DEF Has
  <2>1. Cardinality(S) \in Bad
    BY <1>1, <1>5
  <2>2. PICK n \in Bad : \A k \in Bad : <<k, n>> \notin OpToRel(<, Nat)
    BY <2>1, NatLessThanWellFounded, WFMin
  <2>3. n # 0
    BY <1>3
  <2>4. n - 1 \in Nat /\ (n - 1) + 1 = n /\ <<n - 1, n>> \in OpToRel(<, Nat)
    BY <2>3 DEF OpToRel
  <2>5. Has(n - 1)
    BY <2>2, <2>4
  <2> QED
    BY <1>4, <2>4, <2>5
<1>6. Below(Cardinality(S)) = SUBSET S
  BY <1>1
<1> QED
  BY <1>5, <1>6

\* What the recursion of a set gives for its parts is what theirs gives.
LEMMA RecursionsAgree ==
  ASSUME NEW f, NEW S, IsFiniteSet(S)
  PROVE  \A T \in SUBSET S : \A g, h :
           Sums(g, f, SUBSET S) /\ Sums(h, f, SUBSET T) => g[T] = h[T]
<1> SUFFICES ASSUME NEW T \in SUBSET S, NEW g, NEW h,
                    Sums(g, f, SUBSET S), Sums(h, f, SUBSET T)
             PROVE  g[T] = h[T]
  OBVIOUS
<1> DEFINE Bad == {s \in SUBSET T : g[s] # h[s]}
<1>1. \A s \in SUBSET T : s # {} => Chosen(s) \in s
  BY DEF Chosen
<1>2. \A s \in SUBSET T :
         /\ g[s] = IF s = {} THEN 0 ELSE f[Chosen(s)] + g[s \ {Chosen(s)}]
         /\ h[s] = IF s = {} THEN 0 ELSE f[Chosen(s)] + h[s \ {Chosen(s)}]
  BY DEF Sums
<1>3. ASSUME Bad # {} PROVE FALSE
  <2>1. PICK s \in Bad : \A x \in s : s \ {x} \notin Bad
    BY <1>3, Smallest
  <2>2. s # {} /\ Chosen(s) \in s
    BY <1>1, <1>2
  <2>3. g[s \ {Chosen(s)}] = h[s \ {Chosen(s)}]
    BY <2>1, <2>2
  <2> QED
    BY <1>2, <2>3
<1> QED
  BY <1>3

\* The sum over no element is zero.
LEMMA SumOfNone ==
  ASSUME NEW f
  PROVE  SumFunctionOnSet(f, {}) = 0
<1>1. IsFiniteSet({})
  BY FS_EmptySet
<1>2. PICK g : Sums(g, f, SUBSET {})
  BY <1>1, RecursionExists
<1>3. Sums(CHOOSE h : Sums(h, f, SUBSET {}), f, SUBSET {})
  BY <1>2
<1> QED
  BY <1>3, SumIsRecursive DEF Sums

\* The sum over a set is one value more than the sum over the rest of it.
LEMMA SumStep ==
  ASSUME NEW f, NEW S, IsFiniteSet(S), S # {}
  PROVE  SumFunctionOnSet(f, S) = f[Chosen(S)] + SumFunctionOnSet(f, S \ {Chosen(S)})
<1> DEFINE R == S \ {Chosen(S)}
           g == CHOOSE k : Sums(k, f, SUBSET S)
           h == CHOOSE k : Sums(k, f, SUBSET R)
<1>1. Chosen(S) \in S /\ R \in SUBSET S /\ IsFiniteSet(R)
  BY FS_Subset DEF Chosen
<1>2. Sums(g, f, SUBSET S) /\ Sums(h, f, SUBSET R)
  BY <1>1, RecursionExists
<1>3. g[R] = h[R]
  <2> HIDE DEF R
  <2>1. \A k, l : Sums(k, f, SUBSET S) /\ Sums(l, f, SUBSET R) => k[R] = l[R]
    BY <1>1, RecursionsAgree
  <2> QED
    BY <1>2, <2>1
<1> HIDE DEF R, g, h
<1>4. g[S] = f[Chosen(S)] + g[R]
  BY <1>2 DEF Sums, R
<1> QED
  BY <1>3, <1>4, SumIsRecursive DEF R, g, h

\* Sums of integers are integers, of natural numbers natural numbers.
LEMMA SumType ==
  ASSUME NEW f, NEW S, IsFiniteSet(S),
         NEW V, V = Int \/ V = Nat, \A x \in S : f[x] \in V
  PROVE  SumFunctionOnSet(f, S) \in V
<1> DEFINE Bad == {s \in SUBSET S : SumFunctionOnSet(f, s) \notin V}
<1>1. ASSUME Bad # {} PROVE FALSE
  <2>1. PICK s \in Bad : \A x \in s : s \ {x} \notin Bad
    BY <1>1, Smallest
  <2>2. s # {}
    BY SumOfNone
  <2>3. Chosen(s) \in s /\ IsFiniteSet(s)
    BY <2>2, FS_Subset DEF Chosen
  <2>4. SumFunctionOnSet(f, s) = f[Chosen(s)] + SumFunctionOnSet(f, s \ {Chosen(s)})
    BY <2>2, <2>3, SumStep
  <2>5. f[Chosen(s)] \in V /\ SumFunctionOnSet(f, s \ {Chosen(s)}) \in V
    BY <2>1, <2>3
  <2> QED
    BY <2>4, <2>5
<1> QED
  BY <1>1

\* Any element may be taken out of a sum first.
LEMMA SumTakeOut ==
  ASSUME NEW f, NEW S, IsFiniteSet(S), \A x \in S : f[x] \in Int, NEW e \in S
  PROVE  SumFunctionOnSet(f, S) = f[e] + SumFunctionOnSet(f, S \ {e})
<1> DEFINE Sum(s) == SumFunctionOnSet(f, s)
           Bad == {s \in SUBSET S : \E x \in s : Sum(s) # f[x] + Sum(s \ {x})}
<1>1. \A s \in SUBSET S : IsFiniteSet(s) /\ Sum(s) \in Int
  BY FS_Subset, SumType
<1>2. \A s \in SUBSET S : s # {} => Chosen(s) \in s /\ Sum(s) = f[Chosen(s)] + Sum(s \ {Chosen(s)})
  <2>1. ASSUME NEW s \in SUBSET S, s # {} PROVE Sum(s) = f[Chosen(s)] + Sum(s \ {Chosen(s)})
    BY <1>1, <2>1, SumStep
  <2> QED
    BY <2>1 DEF Chosen
<1> HIDE DEF Sum
<1>3. ASSUME Bad # {} PROVE FALSE
  <2>1. PICK s \in Bad : \A x \in s : s \ {x} \notin Bad
    BY <1>3, Smallest
  <2>2. PICK x \in s : Sum(s) # f[x] + Sum(s \ {x})
    OBVIOUS
  <2> DEFINE c == Chosen(s)
             rest == s \ {x, c}
  <2>3. c \in s /\ Sum(s) = f[c] + Sum(s \ {c}) /\ x # c
    BY <1>2, <2>2
  <2>4. Sum(s \ {c}) = f[x] + Sum(rest)
    <3>1. s \ {c} \notin Bad /\ x \in s \ {c} /\ (s \ {c}) \ {x} = rest
      BY <2>1, <2>3
    <3> QED
      BY <3>1
  <2>5. Sum(s \ {x}) = f[c] + Sum(rest)
    <3>1. s \ {x} \notin Bad /\ c \in s \ {x} /\ (s \ {x}) \ {c} = rest
      BY <2>1, <2>3
    <3> QED
      BY <3>1
  <2>6. f[x] \in Int /\ f[c] \in Int /\ Sum(rest) \in Int
    BY <1>1, <2>3
  <2> HIDE DEF c, rest
  <2> QED
    BY <2>2, <2>3, <2>4, <2>5, <2>6
<1> QED
  BY <1>3 DEF Sum

\* Only the values of the elements of the set count.
LEMMA SumSame ==
  ASSUME NEW f, NEW g, NEW S, IsFiniteSet(S), \A x \in S : f[x] = g[x]
  PROVE  SumFunctionOnSet(f, S) = SumFunctionOnSet(g, S)
<1> DEFINE Bad == {s \in SUBSET S : SumFunctionOnSet(f, s) # SumFunctionOnSet(g, s)}
<1>1. ASSUME Bad # {} PROVE FALSE
  <2>1. PICK s \in Bad : \A x \in s : s \ {x} \notin Bad
    BY <1>1, Smallest
  <2>2. s # {}
    BY SumOfNone
  <2>3. Chosen(s) \in s /\ IsFiniteSet(s)
    BY <2>2, FS_Subset DEF Chosen
  <2>4. /\ SumFunctionOnSet(f, s) = f[Chosen(s)] + SumFunctionOnSet(f, s \ {Chosen(s)})
        /\ SumFunctionOnSet(g, s) = g[Chosen(s)] + SumFunctionOnSet(g, s \ {Chosen(s)})
    BY <2>2, <2>3, SumStep
  <2> QED
    BY <2>1, <2>3, <2>4
<1> QED
  BY <1>1
\* What an element contributes to a sum.
Share(f, S, e) == IF e \in S THEN f[e] ELSE 0

\* A change of one element, of its value or of its place in the set, changes the
\* sum by what the element contributed and contributes.
LEMMA SumChange ==
  ASSUME NEW f, NEW S, IsFiniteSet(S), \A x \in S : f[x] \in Int,
         NEW g, NEW T, IsFiniteSet(T), \A x \in T : g[x] \in Int,
         NEW e, S \ {e} = T \ {e}, \A x \in S \ {e} : f[x] = g[x]
  PROVE  SumFunctionOnSet(g, T) = SumFunctionOnSet(f, S) - Share(f, S, e) + Share(g, T, e)
<1> DEFINE R == S \ {e}
<1>1. IsFiniteSet(R)
  BY FS_Subset
<1>2. /\ SumFunctionOnSet(f, R) = SumFunctionOnSet(g, R)
      /\ SumFunctionOnSet(f, R) \in Int
  BY <1>1, SumSame, SumType
<1>3. SumFunctionOnSet(f, S) = Share(f, S, e) + SumFunctionOnSet(f, R)
  <2>1. CASE e \in S
    BY <2>1, SumTakeOut DEF Share
  <2>2. CASE e \notin S
    <3>1. R = S
      BY <2>2
    <3> HIDE DEF R
    <3> QED
      BY <1>2, <2>2, <3>1 DEF Share
  <2> QED
    BY <2>1, <2>2
<1>4. SumFunctionOnSet(g, T) = Share(g, T, e) + SumFunctionOnSet(g, R)
  <2>1. CASE e \in T
    <3>1. R = T \ {e}
      OBVIOUS
    <3> HIDE DEF R
    <3> QED
      BY <2>1, <3>1, SumTakeOut DEF Share
  <2>2. CASE e \notin T
    <3>1. R = T
      BY <2>2
    <3> HIDE DEF R
    <3> QED
      BY <1>2, <2>2, <3>1 DEF Share
  <2> QED
    BY <2>1, <2>2
<1>5. Share(f, S, e) \in Int /\ Share(g, T, e) \in Int
  BY DEF Share
<1> QED
  BY <1>2, <1>3, <1>4, <1>5

-----------------------------------------------------------------------------
(* Threads, blocks and cells *)

\* Rounding up to a huge page never gives less.
LEMMA HugeSizeRoundsUp ==
  ASSUME NEW s \in Nat
  PROVE  HugeSize(s) \in Nat /\ HugeSize(s) >= s
<1>1. HugePage \in Nat \ {0}
  BY PoolAssumption
<1> DEFINE d == (s + HugePage - 1) \div HugePage
<1>2. d \in Nat /\ s + HugePage - 1 < d * HugePage + HugePage
  BY <1>1
<1>3. d * HugePage \in Nat
  BY <1>1, <1>2
<1> HIDE DEF d
<1> QED
  BY <1>1, <1>2, <1>3 DEF HugeSize, d

\* Every request belongs to one of the cells.
LEMMA CellOfInCells ==
  ASSUME NEW r \in RequestType
  PROVE  CellOf(r) \in Cells
<1>1. r.size \in Nat /\ r.mem \in 0..1
  BY DEF RequestType
<1>2. Header \in Nat \ {0} /\ NumShards \in Nat \ {0}
  BY PoolAssumption
<1>3. r.size \div Header \in Nat
  BY <1>1, <1>2
<1>4. (r.size \div Header) % NumShards \in 0..NumShards - 1
  BY <1>2, <1>3
<1> QED
  BY <1>1, <1>4 DEF CellOf, ShardOf, Cells

\* The cells that clear_pool visits.
LEMMA NthCellInCells ==
  ASSUME NEW i \in 0..2 * NumShards - 1
  PROVE  NthCell(i) \in Cells
<1>1. NumShards \in Nat \ {0}
  BY PoolAssumption
<1>2. i \div 2 \in 0..NumShards - 1 /\ i % 2 \in 0..1
  BY <1>1
<1> QED
  BY <1>2 DEF NthCell, Cells

\* What an allocation asks for is a request, huge only beyond HugeMin.
LEMMA RequestIsOne ==
  ASSUME TypeOK, NEW n \in Requests, NEW onHbm \in BOOLEAN
  PROVE  /\ Request(n, onHbm) \in RequestType
         /\ Request(n, onHbm).huge <=> hugeOn /\ Request(n, onHbm).size > HugeMin
<1>1. n + Header \in Nat
  BY PoolAssumption
<1>2. HugeSize(n + Header) \in Nat /\ HugeSize(n + Header) >= n + Header
  BY <1>1, HugeSizeRoundsUp
<1>3. HugeMin \in Nat /\ hugeOn \in BOOLEAN
  BY PoolAssumption DEF HugeMin, TypeOK
<1> DEFINE m == IF onHbm /\ n + Header > HbmMin THEN 1 ELSE 0
<1>4. m \in 0..1
  OBVIOUS
<1>5. CASE hugeOn /\ n + Header > HugeMin
  <2>1. (hugeOn /\ n + Header > HugeMin) = TRUE
    BY <1>5
  <2>2. Request(n, onHbm) = [mem |-> m, size |-> HugeSize(n + Header), huge |-> TRUE]
    BY <2>1, Zenon DEF Request
  <2>3. HugeSize(n + Header) > HugeMin
    BY <1>1, <1>2, <1>3, <1>5
  <2> QED
    BY <1>2, <1>4, <1>5, <2>2, <2>3 DEF RequestType
<1>6. CASE ~(hugeOn /\ n + Header > HugeMin)
  <2>1. (hugeOn /\ n + Header > HugeMin) = FALSE
    BY <1>6
  <2>2. Request(n, onHbm) = [mem |-> m, size |-> n + Header, huge |-> FALSE]
    BY <2>1, Zenon DEF Request
  <2> QED
    BY <1>1, <1>4, <1>6, <2>2 DEF RequestType
<1> QED
  BY <1>5, <1>6

-----------------------------------------------------------------------------
\* A block being freed is in the hands of one thread, which works on its header.
HeldBlocks ==
  \A t \in Threads : pc[t] \in {"free_lock", "free_os"} =>
    /\ held[t] \in Blocks
    /\ blk[held[t]].st = "freeing" /\ blk[held[t]].hdr = req[t]
    /\ \A u \in Threads \ {t} : pc[u] \in {"free_lock", "free_os"} => held[u] # held[t]

\* A page kind that follows from the size: true of all that was computed since
\* the last change of hugeOn.
KindOK(r) == r.huge <=> (hugeOn /\ r.size > HugeMin)

AllocPcs == {"alloc_lock", "alloc_try", "alloc_os", "alloc_block", "alloc_wait",
             "alloc_wake", "alloc_regil"}

Kinds ==
  /\ \A b \in Blocks : blk[b].st = "absent" => blk[b] = Absent
  /\ ~switched =>
       /\ \A b \in Blocks : blk[b].st # "absent" => KindOK(blk[b].os) /\ KindOK(blk[b].hdr)
       /\ \A t \in Threads : pc[t] \in AllocPcs => KindOK(req[t])

\* A thread about to block still holds the mutex under which it found nothing.
NothingCached == \A t \in Threads : pc[t] = "alloc_block" => Cached(req[t]) = {}

\* A broadcast visits shards, clear_pool visits cells.
InLoop == \A t \in Threads : pc[t] = "bcast" => idx[t] < NumShards

\* Only a Python thread takes the GIL back or clears the pool.
PythonOnly ==
  \A t \in Threads :
    pc[t] \in {"alloc_regil", "clear", "clear_cell", "clear_bcast"} => t \in PyThreads

IInv == /\ TypeOK /\ LocksHeld /\ HeldBlocks /\ HeaderMatchesBlock
        /\ Kinds /\ NothingCached /\ NoMissedBlock
        /\ InLoop /\ PythonOnly

\* At the start no thread is in a call and no block is out.
LEMMA InitEstablishes == Init => IInv
<1> SUFFICES ASSUME Init PROVE IInv
  OBVIOUS
<1> USE PoolAssumption
<1>1. NoRequest \in RequestType /\ Absent \in BlockType
  BY DEF NoRequest, Absent, RequestType, BlockType
<1>2. TypeOK
  <2>1. /\ blk \in [Blocks -> BlockType] /\ req \in [Threads -> RequestType]
        /\ used \in [0..1 -> Int] /\ idx \in [Threads -> 0..2 * NumShards - 1]
    BY <1>1 DEF Init
  <2> QED
    BY <2>1 DEF Init, TypeOK, Pcs
<1>3. LocksHeld
  BY DEF Init, LocksHeld
<1>4. HeldBlocks /\ HeaderMatchesBlock /\ Kinds /\ NothingCached /\ NoMissedBlock
      /\ InLoop /\ PythonOnly
  BY DEF Init, HeldBlocks, HeaderMatchesBlock, Kinds, NothingCached, NoMissedBlock,
         InLoop, PythonOnly, Absent, AllocPcs
<1> QED
  BY <1>2, <1>3, <1>4 DEF IInv

(* The actions of Next, without their groups. *)
ThreadSteps(t) ==
  \/ \E n \in Requests, onHbm \in BOOLEAN : Allocate(t, n, onHbm)
  \/ AllocLock(t) \/ AllocHit(t) \/ AllocClaim(t) \/ AllocOs(t) \/ AllocOsFails(t)
  \/ AllocLimited(t) \/ AllocBlock(t) \/ Spurious(t) \/ AllocWake(t) \/ AllocRegil(t)
  \/ \E b \in Blocks : Free(t, b)
  \/ FreePush(t) \/ FreeNotify(t) \/ FreeOs(t) \/ FreeSub(t) \/ Broadcast(t)
  \/ ClearPool(t) \/ ClearLock(t) \/ ClearBlock(t) \/ ClearNext(t) \/ ClearBroadcast(t)

\* The grouping of the actions in the next-state relation makes no difference.
LEMMA NextIsSteps ==
  Next <=> \/ \E t \in Threads : ThreadSteps(t)
           \/ \E flag \in BOOLEAN : SetPool(flag) \/ SetHuge(flag)
  BY DEF Next, ThreadSteps, Allocating, Freeing, Clearing

\* Every step keeps the types.
LEMMA TypeStep ==
  ASSUME IInv, Next
  PROVE  TypeOK'
<1> USE PoolAssumption
<1>1. /\ TypeOK
      /\ NoRequest \in RequestType /\ Absent \in BlockType
      /\ \A r \in RequestType : r.size \in Int /\ r.mem \in 0..1 /\ CellOf(r) \in Cells
      /\ \A i \in 0..2 * NumShards - 1 : NthCell(i) \in Cells
      /\ \A b \in Blocks : blk[b].os \in RequestType /\ blk[b].hdr \in RequestType
  BY CellOfInCells, NthCellInCells
     DEF IInv, TypeOK, NoRequest, Absent, RequestType, BlockType
<1>2. \A t \in Threads, os \in RequestType : Filled(t, os) \in BlockType
  BY <1>1 DEF TypeOK, Filled, BlockType
<1> USE DEF TypeOK, Pcs, Goto, EnterCall, LeaveCall
<1>3. ASSUME NEW t \in Threads, NEW n \in Requests, NEW onHbm \in BOOLEAN, Allocate(t, n, onHbm) PROVE TypeOK'
  BY <1>1, RequestIsOne, <1>3 DEF Allocate, memVars, modeVars
<1>4. ASSUME NEW t \in Threads, AllocLock(t) PROVE TypeOK'
  BY <1>1, <1>4 DEF AllocLock, memVars, modeVars
<1>5. ASSUME NEW t \in Threads, AllocHit(t) PROVE TypeOK'
  BY <1>1, <1>2, <1>5 DEF AllocHit, Unlock, Cached, memVars, modeVars
<1>6. ASSUME NEW t \in Threads, AllocClaim(t) PROVE TypeOK'
  BY <1>1, <1>6 DEF AllocClaim, Unlock, Take, memVars, modeVars
<1>7. ASSUME NEW t \in Threads, AllocOs(t) PROVE TypeOK'
  BY <1>1, <1>2, <1>7 DEF AllocOs, memVars, modeVars
<1>8. ASSUME NEW t \in Threads, AllocOsFails(t) PROVE TypeOK'
  BY <1>1, <1>8 DEF AllocOsFails, RollBack, Give, memVars, modeVars
<1>9. ASSUME NEW t \in Threads, AllocLimited(t) PROVE TypeOK'
  BY <1>1, <1>9 DEF AllocLimited, ReleaseGil, memVars, modeVars
<1>10. ASSUME NEW t \in Threads, AllocBlock(t) PROVE TypeOK'
  BY <1>1, <1>10 DEF AllocBlock, Unlock, memVars, modeVars
<1>11. ASSUME NEW t \in Threads, Spurious(t) PROVE TypeOK'
  BY <1>1, <1>11 DEF Spurious, memVars, modeVars
<1>12. ASSUME NEW t \in Threads, AllocWake(t) PROVE TypeOK'
  BY <1>1, <1>12 DEF AllocWake, memVars, modeVars
<1>13. ASSUME NEW t \in Threads, AllocRegil(t) PROVE TypeOK'
  BY <1>1, <1>13 DEF AllocRegil, memVars, modeVars
<1>14. ASSUME NEW t \in Threads, NEW b \in Blocks, Free(t, b) PROVE TypeOK'
  BY <1>1, <1>14 DEF Free, BlockType, memVars, modeVars
<1>15. ASSUME NEW t \in Threads, FreePush(t) PROVE TypeOK'
  BY <1>1, <1>15 DEF FreePush, BlockType, HeldBlocks, IInv, memVars, modeVars
<1>16. ASSUME NEW t \in Threads, FreeNotify(t) PROVE TypeOK'
  BY <1>1, <1>16 DEF FreeNotify, WakeOwnCell, NotifyCell, memVars, modeVars
<1>17. ASSUME NEW t \in Threads, FreeOs(t) PROVE TypeOK'
  BY <1>1, <1>17 DEF FreeOs, memVars, modeVars
<1>18. ASSUME NEW t \in Threads, FreeSub(t) PROVE TypeOK'
  BY <1>1, <1>18 DEF FreeSub, Give, memVars, modeVars
<1>19. ASSUME NEW t \in Threads, Broadcast(t) PROVE TypeOK'
  <2>1. idx' \in [Threads -> 0..2 * NumShards - 1]
    <3>1. idx[t] \in 0..2 * NumShards - 1 /\ idx[t] < NumShards
      BY <1>1, <1>19 DEF IInv, InLoop, Broadcast
    <3>2. CASE idx[t] = NumShards - 1
      BY <1>1, <1>19, <3>1, <3>2 DEF Broadcast
    <3>3. CASE idx[t] # NumShards - 1
      <4>1. idx[t] + 1 \in 0..2 * NumShards - 1
        BY <3>1, <3>3
      <4> QED
        BY <1>1, <1>19, <3>3, <4>1 DEF Broadcast
    <3> QED
      BY <3>2, <3>3
  <2> QED
    BY <1>1, <1>19, <2>1 DEF Broadcast, NotifyCell, memVars, modeVars
<1>20. ASSUME NEW t \in Threads, ClearPool(t) PROVE TypeOK'
  BY <1>1, <1>20 DEF ClearPool, memVars, modeVars
<1>21. ASSUME NEW t \in Threads, ClearLock(t) PROVE TypeOK'
  BY <1>1, <1>21 DEF ClearLock, memVars, modeVars
<1>22. ASSUME NEW t \in Threads, ClearBlock(t) PROVE TypeOK'
  BY <1>1, <1>22 DEF ClearBlock, Give, CachedIn, threadVars, memVars, modeVars
<1>23. ASSUME NEW t \in Threads, ClearNext(t) PROVE TypeOK'
  <2>1. idx' \in [Threads -> 0..2 * NumShards - 1]
    <3>1. idx[t] \in 0..2 * NumShards - 1 
      BY <1>1, <1>23
    <3>2. CASE idx[t] = LastCell
      BY <1>1, <1>23, <3>1, <3>2 DEF ClearNext, LastCell
    <3>3. CASE idx[t] # LastCell
      <4>1. idx[t] + 1 \in 0..2 * NumShards - 1
        BY <3>1, <3>3 DEF LastCell
      <4> QED
        BY <1>1, <1>23, <3>3, <4>1 DEF ClearNext, LastCell
    <3> QED
      BY <3>2, <3>3
  <2> QED
    BY <1>1, <1>23, <2>1 DEF ClearNext, memVars, modeVars
<1>24. ASSUME NEW t \in Threads, ClearBroadcast(t) PROVE TypeOK'
  <2>1. idx' \in [Threads -> 0..2 * NumShards - 1]
    <3>1. idx[t] \in 0..2 * NumShards - 1 
      BY <1>1, <1>24
    <3>2. CASE idx[t] = LastCell
      BY <1>1, <1>24, <3>1, <3>2 DEF ClearBroadcast, LastCell
    <3>3. CASE idx[t] # LastCell
      <4>1. idx[t] + 1 \in 0..2 * NumShards - 1
        BY <3>1, <3>3 DEF LastCell
      <4> QED
        BY <1>1, <1>24, <3>3, <4>1 DEF ClearBroadcast, LastCell
    <3> QED
      BY <3>2, <3>3
  <2> QED
    BY <1>1, <1>24, <2>1 DEF ClearBroadcast, NotifyCell, memVars, modeVars
<1>25. ASSUME NEW flag \in BOOLEAN, SetPool(flag) \/ SetHuge(flag) PROVE TypeOK'
  BY <1>1, <1>25 DEF SetPool, SetHuge, memVars, threadVars
<1> QED
  BY NextIsSteps, <1>3, <1>4, <1>5, <1>6, <1>7, <1>8, <1>9, <1>10, <1>11, <1>12, <1>13, <1>14, <1>15, <1>16, <1>17, <1>18, <1>19, <1>20, <1>21, <1>22, <1>23, <1>24, <1>25 DEF ThreadSteps

\* No thread gains or loses a mutex or the GIL but by its own step.
LEMMA LocksStep ==
  ASSUME IInv, Next
  PROVE  LocksHeld'
<1> USE PoolAssumption
<1>1. /\ TypeOK /\ LocksHeld /\ PythonOnly /\ TypeOK'
      /\ \A r \in RequestType : CellOf(r) \in Cells
      /\ \A i \in 0..2 * NumShards - 1 : NthCell(i) \in Cells
  BY CellOfInCells, NthCellInCells, TypeStep DEF IInv
<1>2. /\ lock \in [Cells -> Threads \cup {None}] /\ gil \in Threads \cup {None}
      /\ pc \in [Threads -> Pcs] /\ req \in [Threads -> RequestType]
      /\ idx \in [Threads -> 0..2 * NumShards - 1]
      /\ \A t \in Threads : CellOf(req[t]) \in Cells /\ NthCell(idx[t]) \in Cells
  BY <1>1 DEF TypeOK
<1> USE DEF LocksHeld, Goto, EnterCall, LeaveCall
<1>3. ASSUME NEW t \in Threads, NEW n \in Requests, NEW onHbm \in BOOLEAN, Allocate(t, n, onHbm) PROVE LocksHeld'
  BY <1>1, <1>2, <1>3 DEF Allocate
<1>4. ASSUME NEW t \in Threads, AllocLock(t) PROVE LocksHeld'
  BY <1>1, <1>2, <1>4 DEF AllocLock
<1>5. ASSUME NEW t \in Threads, AllocHit(t) PROVE LocksHeld'
  BY <1>1, <1>2, <1>5 DEF AllocHit, Unlock
<1>6. ASSUME NEW t \in Threads, AllocClaim(t) PROVE LocksHeld'
  BY <1>1, <1>2, <1>6 DEF AllocClaim, Unlock
<1>7. ASSUME NEW t \in Threads, AllocOs(t) PROVE LocksHeld'
  BY <1>1, <1>2, <1>7 DEF AllocOs
<1>8. ASSUME NEW t \in Threads, AllocOsFails(t) PROVE LocksHeld'
  BY <1>1, <1>2, <1>8 DEF AllocOsFails
<1>9. ASSUME NEW t \in Threads, AllocLimited(t) PROVE LocksHeld'
  BY <1>1, <1>2, <1>9 DEF AllocLimited, ReleaseGil
<1>10. ASSUME NEW t \in Threads, AllocBlock(t) PROVE LocksHeld'
  BY <1>1, <1>2, <1>10 DEF AllocBlock, Unlock
<1>11. ASSUME NEW t \in Threads, Spurious(t) PROVE LocksHeld'
  BY <1>1, <1>2, <1>11 DEF Spurious
<1>12. ASSUME NEW t \in Threads, AllocWake(t) PROVE LocksHeld'
  BY <1>1, <1>2, <1>12 DEF AllocWake
<1>13. ASSUME NEW t \in Threads, AllocRegil(t) PROVE LocksHeld'
  BY <1>1, <1>2, <1>13 DEF AllocRegil, PythonOnly
<1>14. ASSUME NEW t \in Threads, NEW b \in Blocks, Free(t, b) PROVE LocksHeld'
  BY <1>1, <1>2, <1>14 DEF Free
<1>15. ASSUME NEW t \in Threads, FreePush(t) PROVE LocksHeld'
  BY <1>1, <1>2, <1>15 DEF FreePush
<1>16. ASSUME NEW t \in Threads, FreeNotify(t) PROVE LocksHeld'
  BY <1>1, <1>2, <1>16 DEF FreeNotify, WakeOwnCell, NotifyCell, Waiters, At
<1>17. ASSUME NEW t \in Threads, FreeOs(t) PROVE LocksHeld'
  BY <1>1, <1>2, <1>17 DEF FreeOs
<1>18. ASSUME NEW t \in Threads, FreeSub(t) PROVE LocksHeld'
  BY <1>1, <1>2, <1>18 DEF FreeSub
<1>19. ASSUME NEW t \in Threads, Broadcast(t) PROVE LocksHeld'
  BY <1>1, <1>2, <1>19 DEF Broadcast, NotifyCell, Waiters, At
<1>20. ASSUME NEW t \in Threads, ClearPool(t) PROVE LocksHeld'
  BY <1>1, <1>2, <1>20 DEF ClearPool
<1>21. ASSUME NEW t \in Threads, ClearLock(t) PROVE LocksHeld'
  BY <1>1, <1>2, <1>21 DEF ClearLock
<1>22. ASSUME NEW t \in Threads, ClearBlock(t) PROVE LocksHeld'
  BY <1>1, <1>2, <1>22 DEF ClearBlock, threadVars
<1>23. ASSUME NEW t \in Threads, ClearNext(t) PROVE LocksHeld'
  BY <1>1, <1>2, <1>23 DEF ClearNext
<1>24. ASSUME NEW t \in Threads, ClearBroadcast(t) PROVE LocksHeld'
  BY <1>1, <1>2, <1>24 DEF ClearBroadcast, PythonOnly, NotifyCell, Waiters, At
<1>25. ASSUME NEW flag \in BOOLEAN, SetPool(flag) \/ SetHuge(flag) PROVE LocksHeld'
  BY <1>1, <1>25 DEF SetPool, SetHuge, threadVars
<1> QED
  BY NextIsSteps, <1>3, <1>4, <1>5, <1>6, <1>7, <1>8, <1>9, <1>10, <1>11, <1>12, <1>13, <1>14, <1>15, <1>16, <1>17, <1>18, <1>19, <1>20, <1>21, <1>22, <1>23, <1>24, <1>25 DEF ThreadSteps

\* Where a thread can be next: another thread only moves it out of a wait.
LEMMA OthersStep ==
  ASSUME IInv, Next
  PROVE  \/ \E flag \in BOOLEAN : SetPool(flag) \/ SetHuge(flag)
         \/ \E t \in Threads :
              /\ ThreadSteps(t)
              /\ \A u \in Threads \ {t} :
                   /\ \/ pc'[u] = pc[u]
                      \/ pc[u] = "alloc_wait" /\ pc'[u] = "alloc_wake"
                   /\ req'[u] = req[u] /\ held'[u] = held[u] /\ idx'[u] = idx[u]
<1>1. TypeOK
  BY DEF IInv
<1>2. ASSUME NEW t \in Threads, ThreadSteps(t), NEW u \in Threads \ {t}
      PROVE  /\ \/ pc'[u] = pc[u]
                \/ pc[u] = "alloc_wait" /\ pc'[u] = "alloc_wake"
             /\ req'[u] = req[u] /\ held'[u] = held[u] /\ idx'[u] = idx[u]
  <2> USE <1>1 DEF TypeOK, Goto, LeaveCall
  <2>1. CASE \/ \E n \in Requests, onHbm \in BOOLEAN : Allocate(t, n, onHbm)
             \/ AllocLock(t) \/ AllocHit(t) \/ AllocClaim(t) \/ AllocOs(t)
             \/ AllocOsFails(t) \/ AllocLimited(t) \/ AllocBlock(t) \/ Spurious(t)
             \/ AllocWake(t) \/ AllocRegil(t)
    BY <2>1 DEF Allocate, AllocLock, AllocHit, AllocClaim, AllocOs, AllocOsFails,
                AllocLimited, AllocBlock, Spurious, AllocWake, AllocRegil
  <2>2. CASE \/ \E b \in Blocks : Free(t, b)
             \/ FreePush(t) \/ FreeNotify(t) \/ FreeOs(t) \/ FreeSub(t) \/ Broadcast(t)
    BY <2>2 DEF Free, FreePush, FreeNotify, FreeOs, FreeSub, Broadcast, WakeOwnCell,
                NotifyCell, Waiters, At
  <2>3. CASE \/ ClearPool(t) \/ ClearLock(t) \/ ClearBlock(t) \/ ClearNext(t)
             \/ ClearBroadcast(t)
    BY <2>3 DEF ClearPool, ClearLock, ClearBlock, ClearNext, ClearBroadcast,
                NotifyCell, Waiters, At, threadVars
  <2> QED
    BY <1>2, <2>1, <2>2, <2>3 DEF ThreadSteps
<1> QED
  BY <1>2, NextIsSteps

\* The steps that change a block, and what they do to it.
LEMMA BlockEffects ==
  ASSUME IInv, Next
  PROVE  \/ blk' = blk
         \/ \E t \in Threads, b \in Blocks :
              \/ AllocHit(t) /\ b \in Cached(req[t])
                 /\ blk' = [blk EXCEPT ![b] = Filled(t, blk[b].os)]
              \/ AllocOs(t) /\ blk[b].st = "absent"
                 /\ blk' = [blk EXCEPT ![b] = Filled(t, req[t])]
              \/ Free(t, b)
              \/ FreePush(t) /\ b = held[t] /\ blk[b].st = "freeing" /\ blk[b].hdr = req[t]
                 /\ blk' = [blk EXCEPT ![b].st = "cached"]
              \/ FreeOs(t) /\ b = held[t] /\ blk' = [blk EXCEPT ![b] = Absent]
              \/ ClearBlock(t) /\ blk[b].st = "cached"
                 /\ blk' = [blk EXCEPT ![b] = Absent]
<1>1. HeldBlocks
  BY DEF IInv
<1>2. ASSUME NEW t \in Threads, AllocHit(t) \/ AllocOs(t) \/ ClearBlock(t)
      PROVE  \E b \in Blocks :
              \/ AllocHit(t) /\ b \in Cached(req[t])
                 /\ blk' = [blk EXCEPT ![b] = Filled(t, blk[b].os)]
              \/ AllocOs(t) /\ blk[b].st = "absent"
                 /\ blk' = [blk EXCEPT ![b] = Filled(t, req[t])]
              \/ ClearBlock(t) /\ blk[b].st = "cached"
                 /\ blk' = [blk EXCEPT ![b] = Absent]
  BY <1>2 DEF AllocHit, AllocOs, ClearBlock, Cached, CachedIn
<1>3. ASSUME NEW t \in Threads, FreePush(t) \/ FreeOs(t)
      PROVE  /\ held[t] \in Blocks /\ blk[held[t]].st = "freeing"
             /\ blk[held[t]].hdr = req[t]
             /\ \/ FreePush(t) /\ blk' = [blk EXCEPT ![held[t]].st = "cached"]
                \/ FreeOs(t) /\ blk' = [blk EXCEPT ![held[t]] = Absent]
  BY <1>1, <1>3 DEF HeldBlocks, FreePush, FreeOs
<1>4. ASSUME NEW t \in Threads, ThreadSteps(t)
      PROVE  \/ blk' = blk \/ \E b \in Blocks : Free(t, b)
             \/ AllocHit(t) \/ AllocOs(t) \/ ClearBlock(t) \/ FreePush(t) \/ FreeOs(t)
  BY <1>4 DEF ThreadSteps, Allocate, AllocLock, AllocClaim, AllocOsFails, AllocLimited,
              AllocBlock, Spurious, AllocWake, AllocRegil, FreeNotify, FreeSub,
              Broadcast, ClearPool, ClearLock, ClearNext, ClearBroadcast, memVars
<1>5. ASSUME NEW flag \in BOOLEAN, SetPool(flag) \/ SetHuge(flag) PROVE blk' = blk
  BY <1>5 DEF SetPool, SetHuge, memVars
<1> QED
  BY <1>2, <1>3, <1>4, <1>5, NextIsSteps

\* No step changes the size or the memory type of a block that is out.
LEMMA HeaderStep ==
  ASSUME IInv, Next
  PROVE  HeaderMatchesBlock'
<1>1. /\ blk \in [Blocks -> BlockType] /\ HeaderMatchesBlock
  BY DEF IInv, TypeOK
<1>2. ASSUME NEW t \in Threads, NEW b \in Blocks,
             \/ /\ b \in Cached(req[t])
                /\ blk' = [blk EXCEPT ![b] = Filled(t, blk[b].os)]
             \/ blk' = [blk EXCEPT ![b] = Filled(t, req[t])]
             \/ Free(t, b)
             \/ blk' = [blk EXCEPT ![b].st = "cached"]
             \/ blk' = [blk EXCEPT ![b] = Absent]
      PROVE  HeaderMatchesBlock'
  BY <1>1, <1>2 DEF HeaderMatchesBlock, Cached, Filled, Free, Absent, BlockType
<1>3. CASE blk' = blk
  BY <1>1, <1>3 DEF HeaderMatchesBlock
<1> QED
  BY <1>2, <1>3, BlockEffects

\* The loops of the broadcasts stay in their ranges, and in their threads.
LEMMA LoopStep ==
  ASSUME IInv, Next
  PROVE  InLoop' /\ PythonOnly'
<1>1. TypeOK /\ InLoop /\ PythonOnly
  BY DEF IInv
<1>2. CASE \E flag \in BOOLEAN : SetPool(flag) \/ SetHuge(flag)
  BY <1>1, <1>2 DEF SetPool, SetHuge, threadVars, InLoop, PythonOnly
<1>3. ASSUME NEW t \in Threads, ThreadSteps(t)
      PROVE  /\ pc'[t] = "bcast" => idx'[t] < NumShards
             /\ pc'[t] \in {"alloc_regil", "clear", "clear_cell", "clear_bcast"}
                  => t \in PyThreads
  <2> USE <1>1, PoolAssumption DEF TypeOK, Goto, LeaveCall, InLoop, PythonOnly
  <2>1. CASE \/ \E n \in Requests, onHbm \in BOOLEAN : Allocate(t, n, onHbm)
             \/ AllocLock(t) \/ AllocHit(t) \/ AllocClaim(t) \/ AllocOs(t)
             \/ AllocOsFails(t) \/ AllocLimited(t) \/ AllocBlock(t) \/ Spurious(t)
             \/ AllocWake(t) \/ AllocRegil(t)
    BY <2>1 DEF Allocate, AllocLock, AllocHit, AllocClaim, AllocOs, AllocOsFails,
                AllocLimited, AllocBlock, Spurious, AllocWake, AllocRegil
  <2>2. CASE \/ \E b \in Blocks : Free(t, b)
             \/ FreePush(t) \/ FreeNotify(t) \/ FreeOs(t) \/ FreeSub(t)
    BY <2>2 DEF Free, FreePush, FreeNotify, FreeOs, FreeSub, WakeOwnCell, NotifyCell
  <2>3. CASE Broadcast(t)
    BY <2>3 DEF Broadcast, NotifyCell
  <2>4. CASE \/ ClearPool(t) \/ ClearLock(t) \/ ClearBlock(t) \/ ClearNext(t)
             \/ ClearBroadcast(t)
    BY <2>4 DEF ClearPool, ClearLock, ClearBlock, ClearNext, ClearBroadcast,
                NotifyCell, threadVars
  <2> QED
    BY <1>3, <2>1, <2>2, <2>3, <2>4 DEF ThreadSteps
<1>4. CASE \E t \in Threads :
             /\ ThreadSteps(t)
             /\ \A u \in Threads \ {t} :
                  /\ pc'[u] = pc[u] \/ (pc[u] = "alloc_wait" /\ pc'[u] = "alloc_wake")
                  /\ req'[u] = req[u] /\ held'[u] = held[u] /\ idx'[u] = idx[u]
  BY <1>1, <1>3, <1>4 DEF InLoop, PythonOnly
<1> QED
  BY <1>2, <1>4, OthersStep

\* The thread that frees a block is the only one to touch it.
LEMMA HeldStep ==
  ASSUME IInv, Next
  PROVE  HeldBlocks'
<1>1. TypeOK /\ HeldBlocks
  BY DEF IInv
<1> DEFINE Freer(t) == pc[t] \in {"free_lock", "free_os"}
<1>2. CASE \E flag \in BOOLEAN : SetPool(flag) \/ SetHuge(flag)
  BY <1>1, <1>2 DEF SetPool, SetHuge, threadVars, memVars, HeldBlocks
<1>3. ASSUME NEW t \in Threads, ThreadSteps(t), ~\E b \in Blocks : Free(t, b)
      PROVE  ~Freer(t)'
  <2> USE <1>1 DEF TypeOK, Goto, LeaveCall
  <2>1. CASE \/ \E n \in Requests, onHbm \in BOOLEAN : Allocate(t, n, onHbm)
             \/ AllocLock(t) \/ AllocHit(t) \/ AllocClaim(t) \/ AllocOs(t)
             \/ AllocOsFails(t) \/ AllocLimited(t) \/ AllocBlock(t) \/ Spurious(t)
             \/ AllocWake(t) \/ AllocRegil(t)
    BY <2>1 DEF Allocate, AllocLock, AllocHit, AllocClaim, AllocOs, AllocOsFails,
                AllocLimited, AllocBlock, Spurious, AllocWake, AllocRegil
  <2>2. CASE FreePush(t) \/ FreeNotify(t) \/ FreeOs(t) \/ FreeSub(t) \/ Broadcast(t)
    BY <2>2 DEF FreePush, FreeNotify, FreeOs, FreeSub, Broadcast, WakeOwnCell, NotifyCell
  <2>3. CASE \/ ClearPool(t) \/ ClearLock(t) \/ ClearBlock(t) \/ ClearNext(t)
             \/ ClearBroadcast(t)
    BY <2>3 DEF ClearPool, ClearLock, ClearBlock, ClearNext, ClearBroadcast,
                NotifyCell, threadVars
  <2> QED
    BY <1>3, <2>1, <2>2, <2>3 DEF ThreadSteps
<1>4. ASSUME NEW t \in Threads, ThreadSteps(t),
             \A u \in Threads \ {t} :
                  /\ pc'[u] = pc[u] \/ (pc[u] = "alloc_wait" /\ pc'[u] = "alloc_wake")
                  /\ req'[u] = req[u] /\ held'[u] = held[u] /\ idx'[u] = idx[u]
      PROVE  HeldBlocks'
  \* No step but Free makes a freer, and none touches the block of another one.
  <2>1. \A u \in Threads \ {t} : Freer(u)' => Freer(u)
    BY <1>4
  <2>2. CASE \E b \in Blocks : Free(t, b)
    <3>1. PICK b \in Blocks : Free(t, b)
      BY <2>2
    <3>2. /\ held'[t] = b /\ req'[t] = blk[b].hdr /\ blk[b].st = "live"
          /\ blk'[b].st = "freeing" /\ blk'[b].hdr = blk[b].hdr
          /\ \A c \in Blocks \ {b} : blk'[c] = blk[c]
      BY <1>1, <3>1 DEF Free, TypeOK, BlockType
    <3> QED
      BY <1>1, <1>4, <2>1, <3>2 DEF HeldBlocks
  <2>3. CASE ~\E b \in Blocks : Free(t, b)
    <3>1. ~Freer(t)'
      BY <1>3, <1>4, <2>3
    <3>2. ASSUME NEW u \in Threads \ {t}, Freer(u)
          PROVE  blk'[held[u]] = blk[held[u]]
      <4>1. /\ held[u] \in Blocks /\ blk[held[u]].st = "freeing"
            /\ Freer(t) => held[t] # held[u]
        BY <1>1, <3>2 DEF HeldBlocks
      <4>2. CASE FreePush(t) \/ FreeOs(t)
        BY <1>1, <4>1, <4>2 DEF FreePush, FreeOs, TypeOK
      <4>3. CASE AllocHit(t) \/ AllocOs(t) \/ ClearBlock(t)
        BY <1>1, <4>1, <4>3 DEF AllocHit, AllocOs, ClearBlock, Cached, CachedIn, TypeOK
      <4>4. CASE blk' = blk
        BY <4>4
      <4> QED
        BY <1>4, <2>3, <4>2, <4>3, <4>4
           DEF ThreadSteps, Allocate, AllocLock, AllocClaim, AllocOsFails, AllocLimited,
               AllocBlock, Spurious, AllocWake, AllocRegil, FreeNotify, FreeSub,
               Broadcast, ClearPool, ClearLock, ClearNext, ClearBroadcast, memVars
    <3> QED
      BY <1>1, <1>4, <2>1, <3>1, <3>2 DEF HeldBlocks
  <2> QED
    BY <2>2, <2>3
<1> QED
  BY <1>2, <1>4, OthersStep

\* A step of the allocating thread keeps its request or computes a fresh one.
LEMMA KindsStep ==
  ASSUME IInv, Next
  PROVE  Kinds'
<1>1. TypeOK /\ Kinds
  BY DEF IInv
<1>2. ASSUME NEW flag \in BOOLEAN, SetHuge(flag) PROVE Kinds'
  <2>1. /\ blk' = blk /\ pc' = pc /\ req' = req
        /\ ~switched' => (\A b \in Blocks : blk[b].st = "absent") /\ At("idle") = Threads
    BY <1>2 DEF SetHuge, memVars, threadVars
  <2>2. ASSUME ~switched', NEW t \in Threads PROVE pc[t] \notin AllocPcs
    BY <2>1, <2>2 DEF At, AllocPcs
  <2> QED
    BY <1>1, <2>1, <2>2 DEF Kinds
<1>3. ASSUME NEW flag \in BOOLEAN, SetPool(flag) PROVE Kinds'
  BY <1>1, <1>3 DEF SetPool, memVars, threadVars, Kinds, KindOK
<1>4. ASSUME NEW t \in Threads, ThreadSteps(t) PROVE hugeOn' = hugeOn /\ switched' = switched
  BY <1>4 DEF ThreadSteps, Allocate, AllocLock, AllocHit, AllocClaim, AllocOs,
              AllocOsFails, AllocLimited, AllocBlock, Spurious, AllocWake, AllocRegil,
              Free, FreePush, FreeNotify, FreeOs, FreeSub, Broadcast, ClearPool,
              ClearLock, ClearBlock, ClearNext, ClearBroadcast, modeVars
<1>5. ASSUME NEW t \in Threads, ThreadSteps(t), pc'[t] \in AllocPcs, ~switched
      PROVE  KindOK(req'[t])
  <2> USE <1>1, <1>5 DEF TypeOK, Goto, LeaveCall, AllocPcs
  <2>1. ASSUME NEW n \in Requests, NEW onHbm \in BOOLEAN, Allocate(t, n, onHbm)
        PROVE  KindOK(req'[t])
    <3>1. req'[t] = Request(n, onHbm)
      BY <2>1 DEF Allocate
    <3> QED
      BY <3>1, RequestIsOne DEF KindOK
  <2>2. CASE \/ AllocLock(t) \/ AllocClaim(t) \/ AllocLimited(t) \/ AllocBlock(t)
             \/ Spurious(t) \/ AllocWake(t) \/ AllocRegil(t)
    <3>1. req' = req /\ pc[t] \in AllocPcs
      BY <2>2 DEF AllocLock, AllocClaim, AllocLimited, AllocBlock, Spurious, AllocWake,
                  AllocRegil
    <3> QED
      BY <3>1 DEF Kinds
  <2>3. CASE AllocHit(t) \/ AllocOs(t) \/ AllocOsFails(t)
    BY <2>3 DEF AllocHit, AllocOs, AllocOsFails
  <2>4. CASE \/ \E b \in Blocks : Free(t, b)
             \/ FreePush(t) \/ FreeNotify(t) \/ FreeOs(t) \/ FreeSub(t) \/ Broadcast(t)
    BY <2>4 DEF Free, FreePush, FreeNotify, FreeOs, FreeSub, Broadcast, WakeOwnCell,
                NotifyCell
  <2>5. CASE \/ ClearPool(t) \/ ClearLock(t) \/ ClearBlock(t) \/ ClearNext(t)
             \/ ClearBroadcast(t)
    BY <2>5 DEF ClearPool, ClearLock, ClearBlock, ClearNext, ClearBroadcast,
                NotifyCell, threadVars
  <2> QED
    BY <1>5, <2>1, <2>2, <2>3, <2>4, <2>5 DEF ThreadSteps
<1>6. ASSUME NEW t \in Threads, ThreadSteps(t),
             \A u \in Threads \ {t} :
                  /\ pc'[u] = pc[u] \/ (pc[u] = "alloc_wait" /\ pc'[u] = "alloc_wake")
                  /\ req'[u] = req[u] /\ held'[u] = held[u] /\ idx'[u] = idx[u]
      PROVE  ~switched' => \A u \in Threads : pc'[u] \in AllocPcs => KindOK(req[u])'
  <2>1. ASSUME ~switched, NEW u \in Threads, pc'[u] \in AllocPcs PROVE KindOK(req'[u])
    <3>1. CASE u = t
      BY <1>5, <1>6, <2>1, <3>1
    <3>2. CASE u # t
      <4>1. pc[u] \in AllocPcs /\ req'[u] = req[u]
        BY <1>6, <2>1, <3>2 DEF AllocPcs
      <4> QED
        BY <1>1, <2>1, <4>1 DEF Kinds
    <3> QED
      BY <3>1, <3>2
  <2> QED
    BY <1>4, <1>6, <2>1 DEF KindOK
<1>7. ASSUME hugeOn' = hugeOn, switched' = switched
      PROVE  /\ \A b \in Blocks : blk'[b].st = "absent" => blk'[b] = Absent
             /\ ~switched' => \A b \in Blocks : blk'[b].st # "absent" =>
                  KindOK(blk[b].os)' /\ KindOK(blk[b].hdr)'
  <2>1. CASE blk' = blk
    BY <1>1, <1>7, <2>1 DEF Kinds, KindOK
  <2>2. ASSUME NEW t \in Threads, NEW b \in Blocks,
               \/ /\ AllocHit(t) /\ b \in Cached(req[t])
                  /\ blk' = [blk EXCEPT ![b] = Filled(t, blk[b].os)]
               \/ /\ AllocOs(t)
                  /\ blk' = [blk EXCEPT ![b] = Filled(t, req[t])]
        PROVE  /\ \A c \in Blocks : blk'[c].st = "absent" => blk'[c] = Absent
               /\ ~switched' => \A c \in Blocks : blk'[c].st # "absent" =>
                    KindOK(blk[c].os)' /\ KindOK(blk[c].hdr)'
    <3>1. /\ blk'[b].st = "live" /\ blk'[b].hdr = req[t]
          /\ blk'[b].os = req[t] \/ (blk'[b].os = blk[b].os /\ blk[b].st # "absent")
          /\ \A c \in Blocks \ {b} : blk'[c] = blk[c]
      BY <1>1, <2>2 DEF TypeOK, Filled, Cached
    <3>2. ~switched => KindOK(req[t])
      BY <1>1, <2>2 DEF Kinds, AllocHit, AllocOs, AllocPcs
    <3> QED
      BY <1>1, <1>7, <3>1, <3>2 DEF Kinds, KindOK
  <2>3. ASSUME NEW b \in Blocks, blk[b].st # "absent" \/ blk' = [blk EXCEPT ![b] = Absent],
               \/ blk' = [blk EXCEPT ![b].st = "freeing"]
               \/ blk' = [blk EXCEPT ![b].st = "cached"]
               \/ blk' = [blk EXCEPT ![b] = Absent]
        PROVE  /\ \A c \in Blocks : blk'[c].st = "absent" => blk'[c] = Absent
               /\ ~switched' => \A c \in Blocks : blk'[c].st # "absent" =>
                    KindOK(blk[c].os)' /\ KindOK(blk[c].hdr)'
    <3>1. \A c \in Blocks \ {b} : blk'[c] = blk[c]
      BY <1>1, <2>3 DEF TypeOK
    <3>2. CASE blk' = [blk EXCEPT ![b] = Absent]
      <4>1. blk'[b] = Absent /\ Absent.st = "absent"
        BY <1>1, <3>2 DEF TypeOK, Absent
      <4> QED
        BY <1>1, <1>7, <3>1, <4>1 DEF Kinds, KindOK
    <3>3. CASE blk' # [blk EXCEPT ![b] = Absent]
      <4>1. /\ blk[b].st # "absent" /\ blk'[b].st # "absent"
            /\ blk'[b].os = blk[b].os /\ blk'[b].hdr = blk[b].hdr
        BY <1>1, <2>3, <3>3 DEF TypeOK, BlockType
      <4> QED
        BY <1>1, <1>7, <3>1, <4>1 DEF Kinds, KindOK
    <3> QED
      BY <3>2, <3>3
  <2>4. ASSUME NEW t \in Threads, NEW b \in Blocks, Free(t, b)
        PROVE  blk[b].st # "absent" /\ blk' = [blk EXCEPT ![b].st = "freeing"]
    BY <2>4 DEF Free
  <2> QED
    BY <2>1, <2>2, <2>3, <2>4, BlockEffects
<1>8. CASE \E flag \in BOOLEAN : SetPool(flag) \/ SetHuge(flag)
  BY <1>2, <1>3, <1>8
<1>9. CASE \E t \in Threads :
             /\ ThreadSteps(t)
             /\ \A u \in Threads \ {t} :
                  /\ pc'[u] = pc[u] \/ (pc[u] = "alloc_wait" /\ pc'[u] = "alloc_wake")
                  /\ req'[u] = req[u] /\ held'[u] = held[u] /\ idx'[u] = idx[u]
  BY <1>4, <1>6, <1>7, <1>9 DEF Kinds
<1> QED
  BY <1>8, <1>9, OthersStep

-----------------------------------------------------------------------------
\* Only a push into a cell's free list makes a cached block appear there, and it
\* needs the cell's mutex.
LEMMA CachedGrows ==
  ASSUME IInv, Next
  PROVE  \A r \in RequestType :
           \/ {b \in Blocks : blk'[b].st = "cached" /\ blk'[b].hdr.mem = r.mem
                               /\ blk'[b].hdr.size = r.size} \subseteq Cached(r)
           \/ \E t \in Threads : FreePush(t) /\ CellOf(r) = CellOf(req[t])
<1>1. blk \in [Blocks -> BlockType]
  BY DEF IInv, TypeOK
<1> SUFFICES ASSUME NEW r \in RequestType, NEW c \in Blocks, c \notin Cached(r),
                    blk'[c].st = "cached", blk'[c].hdr.mem = r.mem,
                    blk'[c].hdr.size = r.size
             PROVE  \E t \in Threads : FreePush(t) /\ CellOf(r) = CellOf(req[t])
  BY DEF Cached
<1>2. blk' # blk
  BY DEF Cached
<1>3. ASSUME NEW t \in Threads, NEW b \in Blocks,
             \/ blk' = [blk EXCEPT ![b] = Filled(t, blk[b].os)]
             \/ blk' = [blk EXCEPT ![b] = Filled(t, req[t])]
             \/ Free(t, b)
             \/ blk' = [blk EXCEPT ![b] = Absent]
      PROVE  FALSE
  <2>1. blk'[b].st # "cached"
    BY <1>1, <1>3 DEF Filled, Free, Absent, BlockType
  <2>2. c # b /\ blk'[c] = blk[c]
    BY <1>1, <1>3, <2>1 DEF Free
  <2> QED
    BY <2>2 DEF Cached
<1>4. ASSUME NEW t \in Threads, NEW b \in Blocks, FreePush(t), blk[b].hdr = req[t],
             blk' = [blk EXCEPT ![b].st = "cached"]
      PROVE  CellOf(r) = CellOf(req[t])
  <2>1. c = b
    BY <1>1, <1>4 DEF Cached
  <2>2. blk'[b].hdr = req[t]
    BY <1>1, <1>4 DEF BlockType
  <2> QED
    BY <2>1, <2>2 DEF CellOf
<1> QED
  BY <1>2, <1>3, <1>4, BlockEffects

\* What a thread found under the mutex stays true until it waits.
LEMMA NothingStep ==
  ASSUME IInv, Next
  PROVE  NothingCached'
<1>1. TypeOK /\ LocksHeld /\ NothingCached
  BY DEF IInv
<1>2. CASE \E flag \in BOOLEAN : SetPool(flag) \/ SetHuge(flag)
  BY <1>1, <1>2 DEF SetPool, SetHuge, memVars, threadVars, NothingCached, Cached
<1>3. ASSUME NEW t \in Threads, ThreadSteps(t), pc'[t] = "alloc_block"
      PROVE  AllocLimited(t)
  <2> USE <1>1, <1>3 DEF TypeOK, Goto, LeaveCall
  <2>1. CASE \/ \E n \in Requests, onHbm \in BOOLEAN : Allocate(t, n, onHbm)
             \/ AllocLock(t) \/ AllocHit(t) \/ AllocClaim(t) \/ AllocOs(t)
             \/ AllocOsFails(t) \/ AllocBlock(t) \/ Spurious(t)
             \/ AllocWake(t) \/ AllocRegil(t)
    BY <2>1 DEF Allocate, AllocLock, AllocHit, AllocClaim, AllocOs, AllocOsFails,
                AllocBlock, Spurious, AllocWake, AllocRegil
  <2>2. CASE \/ \E b \in Blocks : Free(t, b)
             \/ FreePush(t) \/ FreeNotify(t) \/ FreeOs(t) \/ FreeSub(t) \/ Broadcast(t)
    BY <2>2 DEF Free, FreePush, FreeNotify, FreeOs, FreeSub, Broadcast, WakeOwnCell,
                NotifyCell
  <2>3. CASE \/ ClearPool(t) \/ ClearLock(t) \/ ClearBlock(t) \/ ClearNext(t)
             \/ ClearBroadcast(t)
    BY <2>3 DEF ClearPool, ClearLock, ClearBlock, ClearNext, ClearBroadcast,
                NotifyCell, threadVars
  <2> QED
    BY <1>3, <2>1, <2>2, <2>3 DEF ThreadSteps
<1>4. ASSUME NEW t \in Threads, ThreadSteps(t),
             \A u \in Threads \ {t} :
                  /\ pc'[u] = pc[u] \/ (pc[u] = "alloc_wait" /\ pc'[u] = "alloc_wake")
                  /\ req'[u] = req[u] /\ held'[u] = held[u] /\ idx'[u] = idx[u],
             NEW u \in Threads, pc'[u] = "alloc_block"
      PROVE  Cached(req[u])' = {}
  <2>1. CASE u = t
    <3>1. AllocLimited(t)
      BY <1>3, <1>4, <2>1
    <3> QED
      BY <2>1, <3>1 DEF AllocLimited, memVars, Cached
  <2>2. CASE u # t
    <3>1. pc[u] = "alloc_block" /\ req'[u] = req[u] /\ req[u] \in RequestType
      BY <1>1, <1>4, <2>2 DEF TypeOK
    <3>2. Cached(req[u]) = {} /\ lock[CellOf(req[u])] = u
      BY <1>1, <3>1, CellOfInCells DEF NothingCached, LocksHeld
    <3>3. ~\E w \in Threads : FreePush(w) /\ CellOf(req[u]) = CellOf(req[w])
      BY <3>2, PoolAssumption DEF FreePush
    <3> QED
      BY <3>1, <3>2, <3>3, CachedGrows DEF Cached
  <2> QED
    BY <2>1, <2>2
<1> QED
  BY <1>2, <1>4, OthersStep DEF NothingCached

\* The thread that puts a block under a waiter's nose is the one to notify it.
LEMMA MissedStep ==
  ASSUME IInv, Next
  PROVE  NoMissedBlock'
<1>1. TypeOK /\ NothingCached /\ NoMissedBlock
  BY DEF IInv
<1>2. CASE \E flag \in BOOLEAN : SetPool(flag) \/ SetHuge(flag)
  BY <1>1, <1>2 DEF SetPool, SetHuge, memVars, threadVars, NoMissedBlock, Cached
<1>3. ASSUME NEW t \in Threads, ThreadSteps(t), pc'[t] = "alloc_wait"
      PROVE  AllocBlock(t)
  <2> USE <1>1, <1>3 DEF TypeOK, Goto, LeaveCall
  <2>1. CASE \/ \E n \in Requests, onHbm \in BOOLEAN : Allocate(t, n, onHbm)
             \/ AllocLock(t) \/ AllocHit(t) \/ AllocClaim(t) \/ AllocOs(t)
             \/ AllocOsFails(t) \/ AllocLimited(t) \/ Spurious(t)
             \/ AllocWake(t) \/ AllocRegil(t)
    BY <2>1 DEF Allocate, AllocLock, AllocHit, AllocClaim, AllocOs, AllocOsFails,
                AllocLimited, Spurious, AllocWake, AllocRegil
  <2>2. CASE \/ \E b \in Blocks : Free(t, b)
             \/ FreePush(t) \/ FreeNotify(t) \/ FreeOs(t) \/ FreeSub(t) \/ Broadcast(t)
    BY <2>2 DEF Free, FreePush, FreeNotify, FreeOs, FreeSub, Broadcast, WakeOwnCell,
                NotifyCell
  <2>3. CASE \/ ClearPool(t) \/ ClearLock(t) \/ ClearBlock(t) \/ ClearNext(t)
             \/ ClearBroadcast(t)
    BY <2>3 DEF ClearPool, ClearLock, ClearBlock, ClearNext, ClearBroadcast,
                NotifyCell, threadVars
  <2> QED
    BY <1>3, <2>1, <2>2, <2>3 DEF ThreadSteps
<1>4. ASSUME NEW t \in Threads, ThreadSteps(t), pc[t] = "free_notify"
      PROVE  FreeNotify(t)
  BY <1>4 DEF ThreadSteps, Allocate, AllocLock, AllocHit, AllocClaim, AllocOs,
              AllocOsFails, AllocLimited, AllocBlock, Spurious, AllocWake, AllocRegil,
              Free, FreePush, FreeOs, FreeSub, Broadcast, ClearPool,
              ClearLock, ClearBlock, ClearNext, ClearBroadcast
<1>5. ASSUME NEW t \in Threads, ThreadSteps(t),
             \A u \in Threads \ {t} :
                  /\ pc'[u] = pc[u] \/ (pc[u] = "alloc_wait" /\ pc'[u] = "alloc_wake")
                  /\ req'[u] = req[u] /\ held'[u] = held[u] /\ idx'[u] = idx[u],
             NEW u \in Threads, pc'[u] = "alloc_wait", Cached(req[u])' # {}
      PROVE  \E w \in Threads : pc'[w] = "free_notify" /\ CellOf(req'[w]) = CellOf(req'[u])
  <2>1. u # t
    <3>1. ASSUME AllocBlock(t) PROVE Cached(req[t])' = {}
      BY <1>1, <3>1 DEF AllocBlock, memVars, NothingCached, Cached
    <3> QED
      BY <1>3, <1>5, <3>1
  <2>2. pc[u] = "alloc_wait" /\ req'[u] = req[u] /\ req[u] \in RequestType
    BY <1>1, <1>5, <2>1 DEF TypeOK
  <2>3. CASE \E w \in Threads : FreePush(w) /\ CellOf(req[u]) = CellOf(req[w])
    <3>1. PICK w \in Threads : FreePush(w) /\ CellOf(req[u]) = CellOf(req[w])
      BY <2>3
    <3>2. pc'[w] = "free_notify" /\ req' = req
      BY <1>1, <3>1 DEF FreePush, Goto, TypeOK
    <3> QED
      BY <3>1, <3>2
  <2>4. CASE ~\E w \in Threads : FreePush(w) /\ CellOf(req[u]) = CellOf(req[w])
    <3>1. Cached(req[u]) # {}
      BY <1>5, <2>2, <2>4, CachedGrows DEF Cached
    <3>2. PICK w \in Threads : pc[w] = "free_notify" /\ CellOf(req[w]) = CellOf(req[u])
      BY <1>1, <2>2, <3>1 DEF NoMissedBlock
    <3>3. w # t
      <4>1. ASSUME w = t PROVE FreeNotify(t)
        BY <1>4, <1>5, <3>2, <4>1
      <4>2. ASSUME FreeNotify(t), CellOf(req[t]) = CellOf(req[u]) PROVE pc'[u] = "alloc_wake"
        BY <1>1, <2>1, <2>2, <4>2
           DEF FreeNotify, WakeOwnCell, NotifyCell, Waiters, At
      <4> QED
        BY <1>5, <3>2, <4>1, <4>2
    <3>4. pc'[w] = "free_notify" /\ req'[w] = req[w]
      BY <1>5, <3>2, <3>3
    <3> QED
      BY <2>2, <3>2, <3>4
  <2> QED
    BY <2>3, <2>4
<1> QED
  BY <1>2, <1>5, OthersStep DEF NoMissedBlock

\* All of these hold for ever.
LEMMA Invariance == Spec => []IInv
<1>1. ASSUME IInv, UNCHANGED vars PROVE IInv'
  BY <1>1 DEF IInv, vars, memVars, modeVars, threadVars, TypeOK, LocksHeld, HeldBlocks,
              HeaderMatchesBlock, Kinds, KindOK, NothingCached, NoMissedBlock, Cached,
              InLoop, PythonOnly
<1>2. ASSUME IInv, Next PROVE IInv'
  BY <1>2, TypeStep, LocksStep, HeldStep, HeaderStep, KindsStep, NothingStep, MissedStep,
     LoopStep DEF IInv
<1> QED
  BY InitEstablishes, <1>1, <1>2, PTL DEF Spec

\* Every variable of the allocator keeps its type: the counters are bounded, the
\* free lists and the headers hold requests that were made.
THEOREM PoolTypeCorrect == Spec => []TypeOK
<1>1. IInv => TypeOK
  BY DEF IInv
<1> QED
  BY <1>1, Invariance, PTL

\* The mutex of a cell and the GIL are held by exactly the threads whose place in
\* the code says so, across every wait, wake-up and broadcast.
THEOREM LocksCorrect == Spec => []LocksHeld
<1>1. IInv => LocksHeld
  BY DEF IInv
<1> QED
  BY <1>1, Invariance, PTL

\* A block served from the pool has the size and the memory type that were asked
\* of the operating system, so the bytes counted for it are the bytes it has.
THEOREM HeaderCorrect == Spec => []HeaderMatchesBlock
<1>1. IInv => HeaderMatchesBlock
  BY DEF IInv
<1> QED
  BY <1>1, Invariance, PTL

\* Huge and ordinary blocks never mix while set_huge_state is left alone: the
\* rounded sizes of the one are above every size of the other.
THEOREM KindCorrect == Spec => []FreedWithItsKind
<1>1. ASSUME IInv, ~switched, NEW b \in Blocks
      PROVE  blk[b].os.huge = blk[b].hdr.huge
  <2>1. /\ blk[b].os.huge \in BOOLEAN /\ blk[b].hdr.huge \in BOOLEAN
        /\ blk[b].os.size = blk[b].hdr.size
    BY <1>1 DEF IInv, TypeOK, BlockType, RequestType, HeaderMatchesBlock
  <2>2. CASE blk[b].st = "absent"
    BY <1>1, <2>2 DEF IInv, Kinds, Absent
  <2>3. CASE blk[b].st # "absent"
    <3>1. blk[b].os.huge <=> blk[b].hdr.huge
      BY <1>1, <2>1, <2>3 DEF IInv, Kinds, KindOK
    <3> QED
      BY <2>1, <3>1
  <2> QED
    BY <2>2, <2>3
<1>2. IInv => FreedWithItsKind
  BY <1>1 DEF FreedWithItsKind
<1> QED
  BY <1>2, Invariance, PTL

\* A free that puts a block back wakes the threads that wait for that size: the
\* check under the mutex and the wait cannot lose it.
THEOREM NoMissedCorrect == Spec => []NoMissedBlock
<1>1. IInv => NoMissedBlock
  BY DEF IInv
<1> QED
  BY <1>1, Invariance, PTL
-----------------------------------------------------------------------------
\* There may be any number of threads and addresses, but so far only finitely
\* many have been at work, so that the sums exist.
FiniteUse == /\ IsFiniteSet({b \in Blocks : blk[b].st # "absent"})
             /\ IsFiniteSet({t \in Threads : pc[t] # "idle"})

\* What is counted is there, and fits.
Counted == /\ IInv /\ FiniteUse /\ Accounting
           /\ \A m \in 0..1 : used[m] <= Quota[m]

\* Nothing is out at the start.
LEMMA InitCounts ==
  Init => FiniteUse /\ Accounting /\ \A m \in 0..1 : used[m] <= Quota[m]
<1> SUFFICES ASSUME Init PROVE FiniteUse /\ Accounting /\ \A m \in 0..1 : used[m] <= Quota[m]
  OBVIOUS
<1>1. /\ {b \in Blocks : blk[b].st # "absent"} = {}
      /\ {t \in Threads : pc[t] # "idle"} = {}
      /\ \A m \in 0..1 : Backed(m) = {} /\ Owing(m) = {}
  BY DEF Init, Absent, Backed, Owing
<1>2. \A m \in 0..1 : OsBytes(m) = 0 /\ Owed(m) = 0
  BY <1>1, SumOfNone DEF OsBytes, Owed
<1> QED
  <2>1. FiniteUse
    BY <1>1, FS_EmptySet DEF FiniteUse
  <2>2. \A m \in 0..1 : used[m] = 0 /\ Quota[m] \in Nat
    BY PoolAssumption DEF Init
  <2> QED
    BY <1>2, <2>1, <2>2 DEF Accounting

\* A step starts or ends the call of one thread and takes or gives one block.
LEMMA FiniteStep ==
  ASSUME IInv, FiniteUse, Next
  PROVE  FiniteUse'
<1> DEFINE Out == {b \in Blocks : blk[b].st # "absent"}
           In == {t \in Threads : pc[t] # "idle"}
<1>1. /\ blk \in [Blocks -> BlockType] /\ blk' \in [Blocks -> BlockType]
      /\ IsFiniteSet(Out) /\ IsFiniteSet(In)
  BY TypeStep DEF IInv, TypeOK, FiniteUse
<1>2. IsFiniteSet(Out')
  <2>1. ASSUME NEW b \in Blocks, \A c \in Blocks \ {b} : blk'[c] = blk[c]
        PROVE  Out' \subseteq Out \cup {b}
    BY <2>1
  <2>2. blk' = blk \/ \E b \in Blocks : \A c \in Blocks \ {b} : blk'[c] = blk[c]
    BY <1>1, BlockEffects DEF Free
  <2>3. CASE blk' = blk
    BY <1>1, <2>3
  <2>4. CASE \E b \in Blocks : \A c \in Blocks \ {b} : blk'[c] = blk[c]
    BY <1>1, <2>1, <2>4, FS_AddElement, FS_Subset
  <2> QED
    BY <2>2, <2>3, <2>4
<1>3. IsFiniteSet(In')
  <2>1. CASE \E flag \in BOOLEAN : SetPool(flag) \/ SetHuge(flag)
    BY <1>1, <2>1 DEF SetPool, SetHuge, threadVars
  <2>2. CASE \E t \in Threads : \A u \in Threads \ {t} :
               pc'[u] = pc[u] \/ (pc[u] = "alloc_wait" /\ pc'[u] = "alloc_wake")
    <3>1. PICK t \in Threads : \A u \in Threads \ {t} :
               pc'[u] = pc[u] \/ (pc[u] = "alloc_wait" /\ pc'[u] = "alloc_wake")
      BY <2>2
    <3>2. In' \subseteq In \cup {t}
      BY <3>1
    <3> QED
      BY <1>1, <3>2, FS_AddElement, FS_Subset
  <2> QED
    BY <2>1, <2>2, OthersStep
<1> QED
  BY <1>2, <1>3 DEF FiniteUse

-----------------------------------------------------------------------------
\* What a block and a thread contribute to the count of a memory type.
BlockShare(m, b) == IF b \in Backed(m) THEN blk[b].os.size ELSE 0
ThreadShare(m, t) == IF t \in Owing(m) THEN req[t].size ELSE 0

\* The bytes the system handed out change with the block of the step.
LEMMA BytesChange ==
  ASSUME TypeOK, TypeOK', FiniteUse, FiniteUse', NEW b \in Blocks,
         \A c \in Blocks \ {b} : blk'[c] = blk[c], NEW m \in 0..1
  PROVE  OsBytes(m)' = OsBytes(m) - BlockShare(m, b) + BlockShare(m, b)'
<1> DEFINE f == [c \in Blocks |-> blk[c].os.size]
           S == Backed(m)
<1>1. IsFiniteSet(S) /\ IsFiniteSet(S')
  BY FS_Subset DEF FiniteUse, Backed
<1>2. (\A c \in S : f[c] \in Int) /\ (\A c \in S' : f'[c] \in Int)
  BY DEF TypeOK, BlockType, RequestType, Backed
<1>3. S \ {b} = S' \ {b} /\ \A c \in S \ {b} : f[c] = f'[c]
  BY DEF Backed
<1>4. /\ OsBytes(m) = SumFunctionOnSet(f, S) /\ OsBytes(m)' = SumFunctionOnSet(f', S')
      /\ BlockShare(m, b) = Share(f, S, b) /\ BlockShare(m, b)' = Share(f', S', b)
  BY DEF OsBytes, BlockShare, Share
<1> HIDE DEF f, S
<1>5. SumFunctionOnSet(f', S') = SumFunctionOnSet(f, S) - Share(f, S, b) + Share(f', S', b)
  BY <1>1, <1>2, <1>3, SumChange
<1> QED
  BY <1>4, <1>5

\* The quota in transit changes with the thread of the step.
LEMMA OwedChange ==
  ASSUME TypeOK, TypeOK', FiniteUse, FiniteUse', NEW t \in Threads,
         \A u \in Threads \ {t} :
            /\ pc'[u] = pc[u] \/ (pc[u] = "alloc_wait" /\ pc'[u] = "alloc_wake")
            /\ req'[u] = req[u],
         NEW m \in 0..1
  PROVE  Owed(m)' = Owed(m) - ThreadShare(m, t) + ThreadShare(m, t)'
<1> DEFINE f == [u \in Threads |-> req[u].size]
           S == Owing(m)
<1>1. IsFiniteSet(S) /\ IsFiniteSet(S')
  <2>1. /\ S \subseteq {u \in Threads : pc[u] # "idle"}
        /\ S' \subseteq {u \in Threads : pc'[u] # "idle"}
    BY DEF Owing
  <2> QED
    BY <2>1, FS_Subset DEF FiniteUse
<1>2. (\A u \in S : f[u] \in Int) /\ (\A u \in S' : f'[u] \in Int)
  BY DEF TypeOK, RequestType, Owing
<1>3. S \ {t} = S' \ {t} /\ \A u \in S \ {t} : f[u] = f'[u]
  BY DEF Owing
<1>4. /\ Owed(m) = SumFunctionOnSet(f, S) /\ Owed(m)' = SumFunctionOnSet(f', S')
      /\ ThreadShare(m, t) = Share(f, S, t) /\ ThreadShare(m, t)' = Share(f', S', t)
  BY DEF Owed, ThreadShare, Share, Owing
<1> HIDE DEF f, S
<1>5. SumFunctionOnSet(f', S') = SumFunctionOnSet(f, S) - Share(f, S, t) + Share(f', S', t)
  BY <1>1, <1>2, <1>3, SumChange
<1> QED
  BY <1>4, <1>5

\* Sums of sizes are never negative.
LEMMA SumsAreNat ==
  ASSUME TypeOK, FiniteUse, NEW m \in 0..1
  PROVE  OsBytes(m) \in Nat /\ Owed(m) \in Nat
<1>1. IsFiniteSet(Backed(m)) /\ IsFiniteSet(Owing(m))
  <2>1. /\ Backed(m) \subseteq {b \in Blocks : blk[b].st # "absent"}
        /\ Owing(m) \subseteq {t \in Threads : pc[t] # "idle"}
    BY DEF Backed, Owing
  <2> QED
    BY <2>1, FS_Subset DEF FiniteUse
<1>2. /\ \A b \in Backed(m) : [c \in Blocks |-> blk[c].os.size][b] \in Nat
      /\ \A t \in Owing(m) : [u \in Threads |-> req[u].size][t] \in Nat
  BY DEF TypeOK, BlockType, RequestType, Backed, Owing
<1> QED
  BY <1>1, <1>2, SumType DEF OsBytes, Owed
\* Steps at which no quota is claimed, used or given back: the sums stay, as the
\* block of the step has the size and the type it had.
LEMMA QuietSteps ==
  ASSUME Counted, NEW t \in Threads, ThreadSteps(t),
         ~(AllocClaim(t) \/ AllocOs(t) \/ AllocOsFails(t) \/ FreeOs(t) \/ FreeSub(t)
           \/ ClearBlock(t))
  PROVE  /\ used' = used
         /\ pc[t] \notin {"alloc_os", "free_sub"} /\ pc'[t] \notin {"alloc_os", "free_sub"}
         /\ \/ blk' = blk
            \/ \E b \in Blocks :
                 /\ \A c \in Blocks \ {b} : blk'[c] = blk[c]
                 /\ blk[b].st # "absent" /\ blk'[b].st # "absent"
                 /\ blk'[b].os = blk[b].os
<1>1. TypeOK /\ HeldBlocks
  BY DEF Counted, IInv
<1> USE <1>1 DEF TypeOK, Goto, LeaveCall, memVars
<1>2. CASE \/ \E n \in Requests, onHbm \in BOOLEAN : Allocate(t, n, onHbm)
           \/ AllocLock(t) \/ AllocLimited(t) \/ AllocBlock(t) \/ Spurious(t)
           \/ AllocWake(t) \/ AllocRegil(t)
  BY <1>2 DEF Allocate, AllocLock, AllocLimited, AllocBlock, Spurious, AllocWake, AllocRegil
<1>3. CASE AllocHit(t)
  <2>1. PICK b \in Cached(req[t]) : blk' = [blk EXCEPT ![b] = Filled(t, blk[b].os)]
    BY <1>3 DEF AllocHit
  <2>2. /\ b \in Blocks /\ blk[b].st = "cached"
        /\ blk'[b].st = "live" /\ blk'[b].os = blk[b].os
        /\ \A c \in Blocks \ {b} : blk'[c] = blk[c]
    BY <2>1 DEF Cached, Filled
  <2> QED
    BY <1>3, <2>2 DEF AllocHit
<1>4. ASSUME NEW b \in Blocks, Free(t, b)
      PROVE  /\ used' = used
             /\ pc[t] \notin {"alloc_os", "free_sub"} /\ pc'[t] \notin {"alloc_os", "free_sub"}
             /\ \A c \in Blocks \ {b} : blk'[c] = blk[c]
             /\ blk[b].st # "absent" /\ blk'[b].st # "absent"
             /\ blk'[b].os = blk[b].os
  BY <1>4 DEF Free, BlockType
<1>5. CASE FreePush(t)
  <2>1. held[t] \in Blocks /\ blk[held[t]].st = "freeing"
    BY <1>5 DEF FreePush, HeldBlocks
  <2>2. /\ \A c \in Blocks \ {held[t]} : blk'[c] = blk[c]
        /\ blk'[held[t]].st # "absent" /\ blk'[held[t]].os = blk[held[t]].os
    BY <1>5, <2>1 DEF FreePush, BlockType
  <2> QED
    BY <1>5, <2>1, <2>2 DEF FreePush
<1>6. CASE FreeNotify(t) \/ Broadcast(t)
  BY <1>6 DEF FreeNotify, Broadcast, WakeOwnCell, NotifyCell
<1>7. CASE ClearPool(t) \/ ClearLock(t) \/ ClearNext(t) \/ ClearBroadcast(t)
  BY <1>7 DEF ClearPool, ClearLock, ClearNext, ClearBroadcast, NotifyCell
<1> QED
  BY <1>2, <1>3, <1>4, <1>5, <1>6, <1>7 DEF ThreadSteps

\* Each step moves the count with what it claims or gives back, and quota goes
\* from the thread that claimed it to the block and on to the thread that frees
\* it without a moment in which it belongs to both or to none.
LEMMA CountStep ==
  ASSUME Counted, Next
  PROVE  Accounting' /\ \A m \in 0..1 : used'[m] <= Quota[m]
<1>1. /\ TypeOK /\ TypeOK' /\ FiniteUse /\ FiniteUse' /\ Accounting
      /\ HeldBlocks /\ HeaderMatchesBlock
      /\ \A m \in 0..1 : used[m] <= Quota[m]
  BY TypeStep, FiniteStep DEF Counted, IInv
<1>2. \A m \in 0..1 : /\ OsBytes(m) \in Nat /\ Owed(m) \in Nat
                      /\ used[m] = OsBytes(m) + Owed(m) /\ Quota[m] \in Nat
  BY <1>1, SumsAreNat, PoolAssumption DEF Accounting
<1>3. CASE \E flag \in BOOLEAN : SetPool(flag) \/ SetHuge(flag)
  <2>1. /\ used' = used /\ blk' = blk /\ pc' = pc /\ req' = req
    BY <1>3 DEF SetPool, SetHuge, memVars, threadVars
  <2> QED
    BY <1>1, <2>1 DEF Accounting, OsBytes, Owed, Backed, Owing
<1>4. ASSUME NEW t \in Threads, ThreadSteps(t),
             \A u \in Threads \ {t} :
                  /\ pc'[u] = pc[u] \/ (pc[u] = "alloc_wait" /\ pc'[u] = "alloc_wake")
                  /\ req'[u] = req[u] /\ held'[u] = held[u] /\ idx'[u] = idx[u]
      PROVE  Accounting' /\ \A m \in 0..1 : used'[m] <= Quota[m]
  <2>1. \A m \in 0..1 : Owed(m)' = Owed(m) - ThreadShare(m, t) + ThreadShare(m, t)'
    BY <1>1, <1>4, OwedChange
  <2>2. ASSUME NEW b \in Blocks, \A c \in Blocks \ {b} : blk'[c] = blk[c]
        PROVE  \A m \in 0..1 : OsBytes(m)' = OsBytes(m) - BlockShare(m, b) + BlockShare(m, b)'
    BY <1>1, <2>2, BytesChange
  <2>3. blk' = blk => \A m \in 0..1 : OsBytes(m)' = OsBytes(m)
    BY DEF OsBytes, Backed
  <2>4. ASSUME \A m \in 0..1 : used'[m] = OsBytes(m)' + Owed(m)',
               \A m \in 0..1 : used'[m] <= Quota[m]
        PROVE  Accounting' /\ \A m \in 0..1 : used'[m] <= Quota[m]
    BY <2>4 DEF Accounting
  <2>5. /\ used \in [0..1 -> Int] /\ req \in [Threads -> RequestType]
        /\ pc \in [Threads -> Pcs] /\ blk \in [Blocks -> BlockType]
        /\ req[t].size \in Nat /\ req[t].mem \in 0..1
    BY <1>1 DEF TypeOK, RequestType
  <2>6. CASE AllocClaim(t)
    <3>1. /\ \A m \in 0..1 : ThreadShare(m, t) = 0
          /\ \A m \in 0..1 : ThreadShare(m, t)' = IF m = req[t].mem THEN req[t].size ELSE 0
      BY <2>5, <2>6 DEF AllocClaim, Goto, ThreadShare, Owing
    <3>2. /\ used'[req[t].mem] = used[req[t].mem] + req[t].size
          /\ used'[req[t].mem] <= Quota[req[t].mem]
          /\ \A m \in 0..1 \ {req[t].mem} : used'[m] = used[m]
      BY <2>5, <2>6 DEF AllocClaim, Take, Fits
    <3>3. \A m \in 0..1 : OsBytes(m)' = OsBytes(m)
      BY <2>3, <2>6 DEF AllocClaim
    <3> QED
      BY <1>1, <1>2, <2>1, <2>4, <2>5, <3>1, <3>2, <3>3
  <2>7. CASE AllocOs(t)
    <3>1. PICK b \in Blocks : blk[b].st = "absent" /\ blk' = [blk EXCEPT ![b] = Filled(t, req[t])]
      BY <2>7 DEF AllocOs
    <3>2. /\ \A m \in 0..1 : ThreadShare(m, t)' = 0
          /\ \A m \in 0..1 : ThreadShare(m, t) = IF m = req[t].mem THEN req[t].size ELSE 0
      BY <2>5, <2>7 DEF AllocOs, LeaveCall, Goto, ThreadShare, Owing
    <3>3. /\ \A m \in 0..1 : BlockShare(m, b) = 0
          /\ \A m \in 0..1 : BlockShare(m, b)' = IF m = req[t].mem THEN req[t].size ELSE 0
      BY <2>5, <3>1 DEF Filled, BlockShare, Backed
    <3>4. \A m \in 0..1 : OsBytes(m)' = OsBytes(m) - BlockShare(m, b) + BlockShare(m, b)'
      BY <2>2, <2>5, <3>1
    <3>5. used' = used
      BY <2>7 DEF AllocOs
    <3> QED
      BY <1>1, <1>2, <2>1, <2>4, <2>5, <3>2, <3>3, <3>4, <3>5
  <2>8. CASE AllocOsFails(t) \/ FreeSub(t)
    <3>1. /\ \A m \in 0..1 : ThreadShare(m, t)' = 0
          /\ \A m \in 0..1 : ThreadShare(m, t) = IF m = req[t].mem THEN req[t].size ELSE 0
      BY <2>5, <2>8 DEF AllocOsFails, FreeSub, LeaveCall, Goto, ThreadShare, Owing
    <3>2. /\ used'[req[t].mem] = used[req[t].mem] - req[t].size
          /\ \A m \in 0..1 \ {req[t].mem} : used'[m] = used[m]
      BY <2>5, <2>8 DEF AllocOsFails, FreeSub, RollBack, Give
    <3>3. \A m \in 0..1 : OsBytes(m)' = OsBytes(m)
      BY <2>3, <2>8 DEF AllocOsFails, FreeSub
    <3> QED
      BY <1>1, <1>2, <2>1, <2>4, <2>5, <3>1, <3>2, <3>3
  <2>9. CASE FreeOs(t)
    <3>1. PICK b \in Blocks :
          /\ blk[b].st = "freeing"
          /\ blk[b].os.size = req[t].size /\ blk[b].os.mem = req[t].mem
          /\ blk' = [blk EXCEPT ![b] = Absent]
      <4>1. held[t] \in Blocks /\ blk[held[t]].st = "freeing" /\ blk[held[t]].hdr = req[t]
        BY <1>1, <2>9 DEF FreeOs, HeldBlocks
      <4>2. /\ blk[held[t]].os.size = req[t].size /\ blk[held[t]].os.mem = req[t].mem
            /\ blk' = [blk EXCEPT ![held[t]] = Absent]
        BY <1>1, <2>9, <4>1 DEF FreeOs, HeaderMatchesBlock
      <4> QED
        BY <4>1, <4>2
    <3>2. /\ \A m \in 0..1 : ThreadShare(m, t) = 0
          /\ \A m \in 0..1 : ThreadShare(m, t)' = IF m = req[t].mem THEN req[t].size ELSE 0
      BY <2>5, <2>9 DEF FreeOs, Goto, ThreadShare, Owing
    <3>3. /\ \A m \in 0..1 : BlockShare(m, b)' = 0
          /\ \A m \in 0..1 : BlockShare(m, b) = IF m = req[t].mem THEN req[t].size ELSE 0
      <4>1. blk'[b].st = "absent"
        BY <2>5, <3>1 DEF Absent
      <4> QED
        BY <3>1, <4>1 DEF BlockShare, Backed
    <3>4. \A m \in 0..1 : OsBytes(m)' = OsBytes(m) - BlockShare(m, b) + BlockShare(m, b)'
      BY <2>2, <2>5, <3>1
    <3>5. used' = used
      BY <2>9 DEF FreeOs
    <3> QED
      BY <1>1, <1>2, <2>1, <2>4, <2>5, <3>2, <3>3, <3>4, <3>5
  <2>10. CASE ClearBlock(t)
    <3>1. PICK b \in Blocks : /\ blk[b].st = "cached" /\ blk' = [blk EXCEPT ![b] = Absent]
                              /\ Give(blk[b].hdr)
      BY <2>10 DEF ClearBlock, CachedIn
    <3>2. /\ blk[b].os.size = blk[b].hdr.size /\ blk[b].os.mem = blk[b].hdr.mem
          /\ blk[b].os.size \in Nat /\ blk[b].os.mem \in 0..1
      BY <1>1, <2>5 DEF HeaderMatchesBlock, BlockType, RequestType
    <3>3. \A m \in 0..1 : ThreadShare(m, t) = 0 /\ ThreadShare(m, t)' = 0
      BY <2>10 DEF ClearBlock, threadVars, ThreadShare, Owing
    <3>4. /\ \A m \in 0..1 : BlockShare(m, b)' = 0
          /\ \A m \in 0..1 : BlockShare(m, b) = IF m = blk[b].os.mem THEN blk[b].os.size ELSE 0
      <4>1. blk'[b].st = "absent"
        BY <2>5, <3>1 DEF Absent
      <4> QED
        BY <3>1, <4>1 DEF BlockShare, Backed
    <3>5. \A m \in 0..1 : OsBytes(m)' = OsBytes(m) - BlockShare(m, b) + BlockShare(m, b)'
      BY <2>2, <2>5, <3>1
    <3>6. /\ used'[blk[b].os.mem] = used[blk[b].os.mem] - blk[b].os.size
          /\ \A m \in 0..1 \ {blk[b].os.mem} : used'[m] = used[m]
      BY <2>5, <3>1, <3>2 DEF Give
    <3> QED
      BY <1>1, <1>2, <2>1, <2>4, <2>5, <3>2, <3>3, <3>4, <3>5, <3>6
  <2>11. CASE ~(AllocClaim(t) \/ AllocOs(t) \/ AllocOsFails(t) \/ FreeOs(t) \/ FreeSub(t)
                \/ ClearBlock(t))
    <3>1. /\ used' = used
          /\ pc[t] \notin {"alloc_os", "free_sub"} /\ pc'[t] \notin {"alloc_os", "free_sub"}
          /\ \/ blk' = blk
             \/ \E b \in Blocks :
                  /\ \A c \in Blocks \ {b} : blk'[c] = blk[c]
                  /\ blk[b].st # "absent" /\ blk'[b].st # "absent"
                  /\ blk'[b].os = blk[b].os
      BY <1>4, <2>11, QuietSteps
    <3>2. \A m \in 0..1 : ThreadShare(m, t) = 0 /\ ThreadShare(m, t)' = 0
      BY <3>1 DEF ThreadShare, Owing
    <3>3. ASSUME NEW b \in Blocks, \A c \in Blocks \ {b} : blk'[c] = blk[c],
                 blk[b].st # "absent", blk'[b].st # "absent", blk'[b].os = blk[b].os,
                 NEW m \in 0..1
          PROVE  OsBytes(m)' = OsBytes(m)
      <4>1. BlockShare(m, b)' = BlockShare(m, b) /\ BlockShare(m, b) \in Nat
        BY <2>5, <3>3 DEF BlockShare, Backed, BlockType, RequestType
      <4>2. OsBytes(m)' = OsBytes(m) - BlockShare(m, b) + BlockShare(m, b)'
        BY <2>2, <3>3
      <4> QED
        BY <1>2, <4>1, <4>2
    <3>4. \A m \in 0..1 : OsBytes(m)' = OsBytes(m)
      BY <2>3, <3>1, <3>3
    <3> QED
      BY <1>1, <1>2, <2>1, <2>4, <3>1, <3>2, <3>4
  <2> QED
    BY <2>6, <2>7, <2>8, <2>9, <2>10, <2>11
<1> QED
  BY <1>3, <1>4, OthersStep DEF Counted

\* The count and its limit hold for ever.
LEMMA CountedHolds == Spec => []Counted
<1>1. ASSUME Counted, UNCHANGED vars PROVE FiniteUse' /\ Accounting' /\ \A m \in 0..1 : used'[m] <= Quota[m]
  BY <1>1 DEF Counted, vars, memVars, modeVars, threadVars, FiniteUse, Accounting,
              OsBytes, Owed, Backed, Owing
<1>2. ASSUME Counted, Next PROVE FiniteUse' /\ Accounting' /\ \A m \in 0..1 : used'[m] <= Quota[m]
  BY <1>2, FiniteStep, CountStep DEF Counted
<1>3. ASSUME Counted, [Next]_vars, IInv' PROVE Counted'
  BY <1>1, <1>2, <1>3 DEF Counted
<1>4. ASSUME Init, IInv PROVE Counted
  BY <1>4, InitCounts DEF Counted
<1> QED
  BY Invariance, <1>3, <1>4, PTL DEF Spec

\* The counter of a memory type is at every moment the bytes of all blocks that
\* the system handed out and of the quota on its way from or to a block: for any
\* number of threads, and whichever allocations fail.
THEOREM AccountingCorrect == Spec => []Accounting
<1>1. Counted => Accounting
  BY DEF Counted
<1> QED
  BY <1>1, CountedHolds, PTL

\* The memory the process has from the system never exceeds the limit of its
\* type, although the quota is claimed before the memory and given back after.
THEOREM LimitCorrect == Spec => []WithinLimit
<1>1. ASSUME Counted, NEW m \in 0..1 PROVE OsBytes(m) <= Quota[m]
  <2>1. /\ OsBytes(m) \in Nat /\ Owed(m) \in Nat /\ Quota[m] \in Nat
    BY <1>1, SumsAreNat, PoolAssumption DEF Counted, IInv
  <2>2. used[m] = OsBytes(m) + Owed(m) /\ used[m] <= Quota[m]
    BY <1>1 DEF Counted, Accounting
  <2> QED
    BY <2>1, <2>2
<1>2. Counted => WithinLimit
  BY <1>1 DEF WithinLimit
<1> QED
  BY <1>2, CountedHolds, PTL
=============================================================================
