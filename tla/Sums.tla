-------------------------------- MODULE Sums --------------------------------
(***************************************************************************)
(* The sum of a function over a finite set, and the laws of it that the    *)
(* proofs about the counters of the system need. The fold of the community *)
(* modules takes the elements of the set in the order of CHOOSE; the laws  *)
(* are proved by induction over the subsets of the set, without any        *)
(* assumption on that order.                                               *)
(***************************************************************************)
EXTENDS Integers, FiniteSetsExt, FiniteSetTheorems, TLAPS

SumOf(f, S) == MapThenSumSet(LAMBDA x : f[x], S)

Pick(S) == CHOOSE x \in S : TRUE

LEMMA PickIn == \A S : S # {} => Pick(S) \in S
BY DEF Pick

-----------------------------------------------------------------------------
(* Induction, over sets that collect what an induction hypothesis holds of. *)

\* A set of naturals that has 0 and with every number the next has them all.
LEMMA NatInduced ==
    ASSUME NEW T, 0 \in T, \A n \in Nat : n \in T => n + 1 \in T
    PROVE  Nat \subseteq T
<1> DEFINE left == Nat \ T
<1> SUFFICES ASSUME left # {} PROVE FALSE
  OBVIOUS
<1>1. PICK m \in left : \A k \in left : <<k, m>> \notin OpToRel(<, Nat)
  <2>1. IsWellFoundedOn(OpToRel(<, Nat), Nat)
    BY NatLessThanWellFounded
  <2>2. left \subseteq Nat
    OBVIOUS
  <2> QED
    BY <2>1, <2>2, WFMin
<1>2. \A k \in left : ~(k < m)
  BY <1>1 DEF OpToRel
<1>3. m \in Nat /\ m # 0
  OBVIOUS
<1>4. m - 1 \in T
  BY <1>2, <1>3
<1> QED
  BY <1>3, <1>4

\* A finite set is in T if T has every subset whose proper subsets it has.
LEMMA SubsetInduced ==
    ASSUME NEW S, IsFiniteSet(S), NEW T,
           \A s \in SUBSET S : (\A t \in SUBSET s : t # s => t \in T) => s \in T
    PROVE  S \in T
<1> DEFINE K == {n \in Nat : \A s \in SUBSET S : Cardinality(s) <= n => s \in T}
<1>1. \A s \in SUBSET S : IsFiniteSet(s) /\ Cardinality(s) \in Nat
  BY FS_Subset, FS_CardinalityType
<1>2. 0 \in K
  <2> SUFFICES ASSUME NEW s \in SUBSET S, Cardinality(s) <= 0 PROVE s \in T
    OBVIOUS
  <2>1. s = {}
    BY <1>1, FS_EmptySet
  <2>2. \A t \in SUBSET s : t = s
    BY <2>1
  <2> QED
    BY <2>2
<1>3. ASSUME NEW n \in Nat, n \in K PROVE n + 1 \in K
  <2> SUFFICES ASSUME NEW s \in SUBSET S, Cardinality(s) <= n + 1 PROVE s \in T
    OBVIOUS
  <2>1. ASSUME NEW t \in SUBSET s, t # s PROVE t \in T
    <3>1. Cardinality(t) <= Cardinality(s) /\ Cardinality(t) # Cardinality(s)
      BY <1>1, <2>1, FS_Subset
    <3>2. t \in SUBSET S /\ Cardinality(t) \in Nat /\ Cardinality(s) \in Nat
      BY <1>1
    <3>3. Cardinality(t) <= n
      BY <3>1, <3>2
    <3> QED
      BY <1>3, <3>2, <3>3
  <2> QED
    BY <2>1
<1> HIDE DEF K
<1>4. Nat \subseteq K
  BY <1>2, <1>3, NatInduced
<1>5. Cardinality(S) \in K
  BY <1>1, <1>4
<1> QED
  BY <1>5, <1>1 DEF K

-----------------------------------------------------------------------------
(* The table the fold computes exists, is unique, and is the sum. *)

\* The recursion of the fold, on the subsets in D.
IsTable(g, f, D) ==
    g = [s \in D |-> IF s = {} THEN 0 ELSE f[Pick(s)] + g[s \ {Pick(s)}]]

\* Subsets of S of at most n elements have a table, whatever n.
LEMMA TableExists ==
    ASSUME NEW S, IsFiniteSet(S), NEW f
    PROVE  \E g : IsTable(g, f, SUBSET S)
<1> DEFINE Small(n) == {s \in SUBSET S : Cardinality(s) <= n}
           K == {n \in Nat : \E g : IsTable(g, f, Small(n))}
<1>1. \A s \in SUBSET S : IsFiniteSet(s) /\ Cardinality(s) \in Nat
  BY FS_Subset, FS_CardinalityType
<1>2. \A s \in SUBSET S : s # {} => /\ Pick(s) \in s
                                    /\ s \ {Pick(s)} \in SUBSET S
                                    /\ Cardinality(s \ {Pick(s)}) = Cardinality(s) - 1
  BY <1>1, FS_RemoveElement DEF Pick
<1>3. 0 \in K
  <2>1. \A s \in Small(0) : s = {}
    BY <1>1, FS_EmptySet
  <2>2. IsTable([s \in Small(0) |-> 0], f, Small(0))
    BY <2>1 DEF IsTable
  <2> QED
    BY <2>2
<1>4. ASSUME NEW n \in Nat, n \in K PROVE n + 1 \in K
  <2>1. PICK g : IsTable(g, f, Small(n))
    BY <1>4
  <2> DEFINE h == [s \in Small(n + 1) |->
                      IF s = {} THEN 0 ELSE f[Pick(s)] + g[s \ {Pick(s)}]]
  <2>2. \A s \in Small(n) : s \in Small(n + 1)
    BY <1>1
  <2>3. \A s \in Small(n) : h[s] = g[s]
    BY <2>1, <2>2 DEF IsTable
  <2>4. \A s \in Small(n + 1) : s # {} => s \ {Pick(s)} \in Small(n)
    BY <1>1, <1>2
  <2> DEFINE k == [s \in Small(n + 1) |->
                      IF s = {} THEN 0 ELSE f[Pick(s)] + h[s \ {Pick(s)}]]
  <2> HIDE DEF Small
  <2>5. \A s \in Small(n + 1) : h[s] = k[s]
    BY <2>3, <2>4
  <2>6. h = k
    BY <2>5
  <2>7. IsTable(h, f, Small(n + 1))
    BY <2>6 DEF IsTable
  <2> QED
    BY <2>7
<1> HIDE DEF K
<1>5. Cardinality(S) \in K
  BY <1>1, <1>3, <1>4, NatInduced
<1>6. Small(Cardinality(S)) = SUBSET S
  BY FS_Subset
<1> QED
  BY <1>5, <1>6 DEF K

\* Two tables agree on the subsets they share.
LEMMA TableUnique ==
    ASSUME NEW S, IsFiniteSet(S), NEW f, NEW g, NEW h, NEW R,
           IsTable(g, f, SUBSET S), IsTable(h, f, SUBSET R), S \subseteq R
    PROVE  g[S] = h[S]
<1> DEFINE T == {s \in SUBSET S : g[s] = h[s]}
<1>1. ASSUME NEW s \in SUBSET S, \A t \in SUBSET s : t # s => t \in T
      PROVE  s \in T
  <2>1. CASE s = {}
    BY <2>1 DEF IsTable
  <2>2. CASE s # {}
    <3>1. Pick(s) \in s
      BY <2>2 DEF Pick
    <3>2. s \ {Pick(s)} \in T
      BY <1>1, <3>1
    <3>3. g[s] = f[Pick(s)] + g[s \ {Pick(s)}] /\ h[s] = f[Pick(s)] + h[s \ {Pick(s)}]
      BY <2>2 DEF IsTable
    <3> QED
      BY <3>2, <3>3
  <2> QED
    BY <2>1, <2>2
<1> HIDE DEF T
<1>2. S \in T
  BY <1>1, SubsetInduced
<1> QED
  BY <1>2 DEF T

LEMMA SumIsTable ==
    ASSUME NEW S, IsFiniteSet(S), NEW f, NEW g, IsTable(g, f, SUBSET S)
    PROVE  SumOf(f, S) = g[S]
<1> DEFINE fold == CHOOSE h : IsTable(h, f, SUBSET S)
<1>1. SumOf(f, S) = fold[S]
  BY DEF SumOf, MapThenSumSet, MapThenFoldSet, IsTable, Pick
<1>2. IsTable(fold, f, SUBSET S)
  OBVIOUS
<1> HIDE DEF fold
<1> QED
  BY <1>1, <1>2, TableUnique

-----------------------------------------------------------------------------
(* The laws. *)

\* Nothing adds up to 0.
LEMMA SumEmpty == \A f : SumOf(f, {}) = 0
<1> TAKE f
<1>1. IsFiniteSet({})
  BY FS_EmptySet
<1>2. PICK g : IsTable(g, f, SUBSET {})
  BY <1>1, TableExists
<1>3. SumOf(f, {}) = g[{}]
  BY <1>1, <1>2, SumIsTable
<1>4. g[{}] = 0
  BY <1>2 DEF IsTable
<1> QED
  BY <1>3, <1>4

\* One element of a set and the rest of it.
LEMMA SumPick ==
    ASSUME NEW S, IsFiniteSet(S), S # {}, NEW f
    PROVE  SumOf(f, S) = f[Pick(S)] + SumOf(f, S \ {Pick(S)})
<1> DEFINE R == S \ {Pick(S)}
<1>1. IsFiniteSet(R) /\ R \subseteq S
  BY FS_Subset
<1> HIDE DEF R
<1>2. PICK g : IsTable(g, f, SUBSET S)
  BY TableExists
<1>3. PICK h : IsTable(h, f, SUBSET R)
  BY <1>1, TableExists
<1>4. SumOf(f, S) = g[S] /\ SumOf(f, R) = h[R] /\ h[R] = g[R]
  BY <1>1, <1>2, <1>3, SumIsTable, TableUnique
<1>5. g[S] = f[Pick(S)] + g[R]
  BY <1>2 DEF IsTable, R
<1> QED
  BY <1>4, <1>5 DEF R

\* Functions that agree on a set have the same sum over it.
LEMMA SumSame ==
    ASSUME NEW S, IsFiniteSet(S), NEW f, NEW e, \A x \in S : f[x] = e[x]
    PROVE  SumOf(f, S) = SumOf(e, S)
<1> DEFINE T == {s \in SUBSET S : SumOf(f, s) = SumOf(e, s)}
<1>1. ASSUME NEW s \in SUBSET S, \A t \in SUBSET s : t # s => t \in T
      PROVE  s \in T
  <2>1. CASE s = {}
    BY <2>1, SumEmpty
  <2>2. CASE s # {}
    <3>1. Pick(s) \in s /\ IsFiniteSet(s)
      BY <2>2, FS_Subset DEF Pick
    <3>2. s \ {Pick(s)} \in T
      BY <1>1, <3>1
    <3>3. /\ SumOf(f, s) = f[Pick(s)] + SumOf(f, s \ {Pick(s)})
          /\ SumOf(e, s) = e[Pick(s)] + SumOf(e, s \ {Pick(s)})
      BY <2>2, <3>1, SumPick
    <3> QED
      BY <3>1, <3>2, <3>3
  <2> QED
    BY <2>1, <2>2
<1> HIDE DEF T
<1>2. S \in T
  BY <1>1, SubsetInduced
<1> QED
  BY <1>2 DEF T

\* Integers add up to an integer.
LEMMA SumInt ==
    ASSUME NEW S, IsFiniteSet(S), NEW f, \A x \in S : f[x] \in Int
    PROVE  SumOf(f, S) \in Int
<1> DEFINE T == {s \in SUBSET S : SumOf(f, s) \in Int}
<1>1. ASSUME NEW s \in SUBSET S, \A t \in SUBSET s : t # s => t \in T
      PROVE  s \in T
  <2>1. CASE s = {}
    BY <2>1, SumEmpty
  <2>2. CASE s # {}
    <3>1. Pick(s) \in s /\ IsFiniteSet(s)
      BY <2>2, FS_Subset DEF Pick
    <3>2. s \ {Pick(s)} \in T
      BY <1>1, <3>1
    <3>3. SumOf(f, s) = f[Pick(s)] + SumOf(f, s \ {Pick(s)})
      BY <2>2, <3>1, SumPick
    <3> QED
      BY <3>1, <3>2, <3>3
  <2> QED
    BY <2>1, <2>2
<1> HIDE DEF T
<1>2. S \in T
  BY <1>1, SubsetInduced
<1> QED
  BY <1>2 DEF T

\* Any element may be taken first.
LEMMA SumTake ==
    ASSUME NEW S, IsFiniteSet(S), NEW f, \A x \in S : f[x] \in Int, NEW y \in S
    PROVE  SumOf(f, S) = f[y] + SumOf(f, S \ {y})
<1> DEFINE T == {s \in SUBSET S : \A x \in s : SumOf(f, s) = f[x] + SumOf(f, s \ {x})}
<1>1. ASSUME NEW s \in SUBSET S, \A t \in SUBSET s : t # s => t \in T
      PROVE  s \in T
  <2> SUFFICES ASSUME NEW x \in s PROVE SumOf(f, s) = f[x] + SumOf(f, s \ {x})
    OBVIOUS
  <2>1. Pick(s) \in s
    BY DEF Pick
  <2>2. /\ IsFiniteSet(s) /\ IsFiniteSet(s \ {x})
        /\ IsFiniteSet(s \ {Pick(s)}) /\ IsFiniteSet((s \ {x}) \ {Pick(s)})
    BY FS_Subset
  <2>3. SumOf(f, s) = f[Pick(s)] + SumOf(f, s \ {Pick(s)})
    BY <2>2, SumPick
  <2>4. CASE x = Pick(s)
    BY <2>3, <2>4
  <2>5. CASE x # Pick(s)
    <3>1. s \ {Pick(s)} \in T /\ s \ {x} \in T
      BY <1>1, <2>1
    <3>2. x \in s \ {Pick(s)} /\ Pick(s) \in s \ {x}
      BY <2>1, <2>5
    <3>3. SumOf(f, s \ {Pick(s)}) = f[x] + SumOf(f, (s \ {Pick(s)}) \ {x})
      BY <3>1, <3>2
    <3>4. SumOf(f, s \ {x}) = f[Pick(s)] + SumOf(f, (s \ {x}) \ {Pick(s)})
      BY <3>1, <3>2
    <3>5. (s \ {Pick(s)}) \ {x} = (s \ {x}) \ {Pick(s)}
      OBVIOUS
    <3>6. SumOf(f, (s \ {x}) \ {Pick(s)}) \in Int
      BY <2>2, SumInt
    <3>7. f[x] \in Int /\ f[Pick(s)] \in Int
      BY <2>1
    <3> DEFINE rest == SumOf(f, (s \ {x}) \ {Pick(s)})
    <3>8. rest \in Int /\ SumOf(f, s) = f[Pick(s)] + (f[x] + rest)
      BY <2>3, <3>3, <3>5, <3>6
    <3>9. SumOf(f, s \ {x}) = f[Pick(s)] + rest
      BY <3>4
    <3> HIDE DEF rest
    <3> QED
      BY <3>7, <3>8, <3>9
  <2> QED
    BY <2>4, <2>5
<1> HIDE DEF T
<1>2. S \in T
  BY <1>1, SubsetInduced
<1> QED
  BY <1>2 DEF T

\* The sum after one value has changed.
LEMMA SumChange ==
    ASSUME NEW S, IsFiniteSet(S), NEW y \in S, NEW f, NEW e,
           \A x \in S : f[x] \in Int /\ e[x] \in Int,
           \A x \in S \ {y} : e[x] = f[x]
    PROVE  SumOf(e, S) = SumOf(f, S) + e[y] - f[y]
<1>1. IsFiniteSet(S \ {y})
  BY FS_Subset
<1>2. SumOf(f, S \ {y}) \in Int /\ SumOf(f, S \ {y}) = SumOf(e, S \ {y})
  BY <1>1, SumInt, SumSame
<1>3. /\ SumOf(f, S) = f[y] + SumOf(f, S \ {y})
      /\ SumOf(e, S) = e[y] + SumOf(e, S \ {y})
  BY SumTake
<1> QED
  BY <1>2, <1>3

\* A sum is no less than one whose values are no greater.
LEMMA SumMonotone ==
    ASSUME NEW S, IsFiniteSet(S), NEW f, NEW e,
           \A x \in S : f[x] \in Int /\ e[x] \in Int /\ f[x] <= e[x]
    PROVE  SumOf(f, S) <= SumOf(e, S)
<1> DEFINE T == {s \in SUBSET S : SumOf(f, s) <= SumOf(e, s)}
<1>1. ASSUME NEW s \in SUBSET S, \A t \in SUBSET s : t # s => t \in T
      PROVE  s \in T
  <2>1. CASE s = {}
    BY <2>1, SumEmpty
  <2>2. CASE s # {}
    <3>1. Pick(s) \in s /\ IsFiniteSet(s) /\ IsFiniteSet(s \ {Pick(s)})
      BY <2>2, FS_Subset DEF Pick
    <3>2. s \ {Pick(s)} \in T
      BY <1>1, <3>1
    <3>3. /\ SumOf(f, s) = f[Pick(s)] + SumOf(f, s \ {Pick(s)})
          /\ SumOf(e, s) = e[Pick(s)] + SumOf(e, s \ {Pick(s)})
      BY <2>2, <3>1, SumPick
    <3>4. SumOf(f, s \ {Pick(s)}) \in Int /\ SumOf(e, s \ {Pick(s)}) \in Int
      BY <3>1, SumInt
    <3>5. /\ f[Pick(s)] \in Int /\ e[Pick(s)] \in Int
          /\ f[Pick(s)] <= e[Pick(s)]
      BY <3>1
    <3>6. SumOf(f, s \ {Pick(s)}) <= SumOf(e, s \ {Pick(s)})
      BY <3>2
    <3>7. SumOf(f, s) <= SumOf(e, s)
      BY <3>3, <3>4, <3>5, <3>6
    <3> QED
      BY <3>7
  <2> QED
    BY <2>1, <2>2
<1> HIDE DEF T
<1>2. S \in T
  BY <1>1, SubsetInduced
<1> QED
  BY <1>2 DEF T

\* Naturals add up to a natural.
LEMMA SumNat ==
    ASSUME NEW S, IsFiniteSet(S), NEW f, \A x \in S : f[x] \in Nat
    PROVE  SumOf(f, S) \in Nat
<1> DEFINE T == {s \in SUBSET S : SumOf(f, s) \in Nat}
<1>1. ASSUME NEW s \in SUBSET S, \A t \in SUBSET s : t # s => t \in T
      PROVE  s \in T
  <2>1. CASE s = {}
    BY <2>1, SumEmpty
  <2>2. CASE s # {}
    <3>1. Pick(s) \in s /\ IsFiniteSet(s)
      BY <2>2, FS_Subset DEF Pick
    <3>2. s \ {Pick(s)} \in T
      BY <1>1, <3>1
    <3>3. SumOf(f, s) = f[Pick(s)] + SumOf(f, s \ {Pick(s)})
      BY <2>2, <3>1, SumPick
    <3> QED
      BY <3>1, <3>2, <3>3
  <2> QED
    BY <2>1, <2>2
<1> HIDE DEF T
<1>2. S \in T
  BY <1>1, SubsetInduced
<1> QED
  BY <1>2 DEF T

\* The sum over a prefix of the positions of a sequence.
LEMMA SumPrefix ==
    ASSUME NEW n \in Nat, NEW f, \A i \in 1..(n + 1) : f[i] \in Int
    PROVE  SumOf(f, 1..(n + 1)) = SumOf(f, 1..n) + f[n + 1] /\ SumOf(f, 1..n) \in Int
<1>1. IsFiniteSet(1..(n + 1)) /\ IsFiniteSet(1..n)
  BY FS_Interval
<1>2. (1..(n + 1)) \ {n + 1} = 1..n /\ n + 1 \in 1..(n + 1)
  OBVIOUS
<1>3. SumOf(f, 1..(n + 1)) = f[n + 1] + SumOf(f, (1..(n + 1)) \ {n + 1})
  BY <1>1, <1>2, SumTake
<1>4. SumOf(f, 1..n) \in Int
  BY <1>1, SumInt
<1>5. SumOf(f, 1..(n + 1)) = f[n + 1] + SumOf(f, 1..n) /\ f[n + 1] \in Int
  BY <1>2, <1>3
<1> QED
  BY <1>4, <1>5

\* The sum of two functions.
LEMMA SumPlus ==
    ASSUME NEW S, IsFiniteSet(S), NEW f, NEW e, NEW h,
           \A x \in S : f[x] \in Int /\ e[x] \in Int /\ h[x] = f[x] + e[x]
    PROVE  SumOf(h, S) = SumOf(f, S) + SumOf(e, S)
<1> DEFINE T == {s \in SUBSET S : SumOf(h, s) = SumOf(f, s) + SumOf(e, s)}
<1>1. ASSUME NEW s \in SUBSET S, \A t \in SUBSET s : t # s => t \in T
      PROVE  s \in T
  <2>1. CASE s = {}
    BY <2>1, SumEmpty
  <2>2. CASE s # {}
    <3>1. Pick(s) \in s /\ IsFiniteSet(s) /\ IsFiniteSet(s \ {Pick(s)})
      BY <2>2, FS_Subset DEF Pick
    <3> DEFINE r == s \ {Pick(s)}
    <3>2. SumOf(h, r) = SumOf(f, r) + SumOf(e, r)
      BY <1>1, <3>1
    <3>3. /\ SumOf(f, s) = f[Pick(s)] + SumOf(f, r)
          /\ SumOf(e, s) = e[Pick(s)] + SumOf(e, r)
          /\ SumOf(h, s) = h[Pick(s)] + SumOf(h, r)
      BY <2>2, <3>1, SumPick
    <3>4. SumOf(f, r) \in Int /\ SumOf(e, r) \in Int
      BY <3>1, SumInt
    <3>5. /\ f[Pick(s)] \in Int /\ e[Pick(s)] \in Int
          /\ h[Pick(s)] = f[Pick(s)] + e[Pick(s)]
      BY <3>1
    <3> HIDE DEF r
    <3>6. SumOf(h, s) = SumOf(f, s) + SumOf(e, s)
      BY <3>2, <3>3, <3>4, <3>5
    <3> QED
      BY <3>6
  <2> QED
    BY <2>1, <2>2
<1> HIDE DEF T
<1>2. S \in T
  BY <1>1, SubsetInduced
<1> QED
  BY <1>2 DEF T

-----------------------------------------------------------------------------
(* Sums over parts of a set. *)

\* The sum over two sets without a common element.
LEMMA SumUnion ==
    ASSUME NEW S, IsFiniteSet(S), NEW R, IsFiniteSet(R), S \cap R = {}, NEW f,
           \A x \in S \cup R : f[x] \in Int
    PROVE  SumOf(f, S \cup R) = SumOf(f, S) + SumOf(f, R)
<1> DEFINE T == {s \in SUBSET R : SumOf(f, S \cup s) = SumOf(f, S) + SumOf(f, s)}
<1>1. SumOf(f, S) \in Int
  BY SumInt
<1>2. ASSUME NEW s \in SUBSET R, \A t \in SUBSET s : t # s => t \in T
      PROVE  s \in T
  <2>1. CASE s = {}
    <3>1. S \cup s = S
      BY <2>1
    <3> QED
      BY <1>1, <2>1, <3>1, SumEmpty
  <2>2. CASE s # {}
    <3> DEFINE y == Pick(s)
               r == s \ {y}
    <3>1. y \in s /\ y \notin S /\ y \in R
      BY <2>2, PickIn
    <3>2. IsFiniteSet(s) /\ IsFiniteSet(r) /\ IsFiniteSet(S \cup s)
      BY FS_Subset, FS_Union
    <3>3. SumOf(f, S \cup r) = SumOf(f, S) + SumOf(f, r)
      BY <1>2, <3>1
    <3>4. (S \cup s) \ {y} = S \cup r
      BY <3>1
    <3>5. SumOf(f, S \cup s) = f[y] + SumOf(f, (S \cup s) \ {y})
      BY <3>1, <3>2, SumTake
    <3>6. SumOf(f, s) = f[y] + SumOf(f, r)
      BY <3>1, <3>2, SumTake
    <3>7. SumOf(f, r) \in Int /\ f[y] \in Int
      BY <3>1, <3>2, SumInt
    <3> HIDE DEF y, r
    <3>8. SumOf(f, S \cup s) = f[y] + SumOf(f, S \cup r)
      BY <3>4, <3>5
    <3>9. SumOf(f, S \cup s) = SumOf(f, S) + SumOf(f, s)
      BY <1>1, <3>3, <3>6, <3>7, <3>8
    <3> QED
      BY <3>9
  <2> QED
    BY <2>1, <2>2
<1> HIDE DEF T
<1>3. R \in T
  BY <1>2, SubsetInduced
<1> QED
  BY <1>3 DEF T

\* Zeros add up to zero.
LEMMA SumZero ==
    ASSUME NEW S, IsFiniteSet(S), NEW f, \A x \in S : f[x] = 0
    PROVE  SumOf(f, S) = 0
<1> DEFINE g == [x \in S |-> f[x] + f[x]]
<1>1. \A x \in S : f[x] \in Int /\ g[x] = f[x] + f[x] /\ g[x] = f[x]
  OBVIOUS
<1> HIDE DEF g
<1>2. SumOf(g, S) = SumOf(f, S) + SumOf(f, S)
  BY <1>1, SumPlus
<1>3. SumOf(f, S) = SumOf(g, S)
  BY <1>1, SumSame
<1>4. SumOf(f, S) \in Int
  BY <1>1, SumInt
<1>5. \A a \in Int : a = a + a => a = 0
  OBVIOUS
<1>6. SumOf(f, S) = SumOf(f, S) + SumOf(f, S)
  BY <1>2, <1>3, Zenon
<1> QED
  BY <1>4, <1>5, <1>6, Zenon

\* What is zero may be left out.
LEMMA SumSubset ==
    ASSUME NEW S, IsFiniteSet(S), NEW R \in SUBSET S, NEW f,
           \A x \in S : f[x] \in Int, \A x \in S \ R : f[x] = 0
    PROVE  SumOf(f, S) = SumOf(f, R)
<1>1. IsFiniteSet(R) /\ IsFiniteSet(S \ R) /\ R \cup (S \ R) = S /\ R \cap (S \ R) = {}
  BY FS_Subset
<1>2. SumOf(f, R \cup (S \ R)) = SumOf(f, R) + SumOf(f, S \ R)
  BY <1>1, SumUnion
<1>3. SumOf(f, S \ R) = 0 /\ SumOf(f, R) \in Int
  BY <1>1, SumZero, SumInt
<1>4. SumOf(f, S) = SumOf(f, R) + SumOf(f, S \ R)
  BY <1>1, <1>2
<1> QED
  BY <1>3, <1>4

\* A part of a sum of naturals is no more than the sum.
LEMMA SumShrink ==
    ASSUME NEW S, IsFiniteSet(S), NEW R \in SUBSET S, NEW f, \A x \in S : f[x] \in Nat
    PROVE  SumOf(f, R) <= SumOf(f, S)
<1>1. IsFiniteSet(R) /\ IsFiniteSet(S \ R) /\ R \cup (S \ R) = S /\ R \cap (S \ R) = {}
  BY FS_Subset
<1>2. SumOf(f, R \cup (S \ R)) = SumOf(f, R) + SumOf(f, S \ R)
  BY <1>1, SumUnion
<1>3. SumOf(f, S \ R) \in Nat /\ SumOf(f, R) \in Nat
  BY <1>1, SumNat
<1>4. SumOf(f, S) = SumOf(f, R) + SumOf(f, S \ R)
  BY <1>1, <1>2
<1> QED
  BY <1>3, <1>4

\* A sum may be taken part by part: g tells the part of an element, h adds the
\* parts up.
LEMMA SumPartition ==
    ASSUME NEW S, IsFiniteSet(S), NEW P, IsFiniteSet(P), NEW f, NEW g, NEW h, NEW part,
           \A x \in S : f[x] \in Int /\ g[x] \in P,
           \A p \in P : part[p] \in SUBSET S /\ h[p] = SumOf(f, part[p]),
           \A p \in P : \A x \in S : x \in part[p] <=> g[x] = p
    PROVE  SumOf(h, P) = SumOf(f, S)
<1> DEFINE In(Q) == {x \in S : g[x] \in Q}
           T == {Q \in SUBSET P : SumOf(h, Q) = SumOf(f, In(Q))}
<1>1. ASSUME NEW Q \in SUBSET P, \A t \in SUBSET Q : t # Q => t \in T
      PROVE  Q \in T
  <2>1. CASE Q = {}
    <3>1. In(Q) = {}
      BY <2>1
    <3> QED
      BY <2>1, <3>1, SumEmpty
  <2>2. CASE Q # {}
    <3> DEFINE y == Pick(Q)
               r == Q \ {y}
               Y == part[y]
    <3>1. y \in Q /\ y \in P
      BY <2>2, PickIn
    <3>2. IsFiniteSet(Q) /\ IsFiniteSet(r) /\ IsFiniteSet(In(r)) /\ IsFiniteSet(Y)
      BY <3>1, FS_Subset
    <3>3. SumOf(h, r) = SumOf(f, In(r))
      BY <1>1, <3>1
    <3>4. In(Q) = In(r) \cup Y /\ In(r) \cap Y = {}
      BY <3>1
    <3>5. \A x \in In(r) \cup Y : f[x] \in Int
      BY <3>1
    <3>6. /\ SumOf(f, In(r) \cup Y) = SumOf(f, In(r)) + SumOf(f, Y)
          /\ SumOf(f, In(r)) \in Int /\ SumOf(f, Y) \in Int
      <4> HIDE DEF r, Y, In
      <4>1. SumOf(f, In(r) \cup Y) = SumOf(f, In(r)) + SumOf(f, Y)
        BY <3>2, <3>4, <3>5, SumUnion
      <4>2. SumOf(f, In(r)) \in Int
        BY <3>2, <3>5, SumInt
      <4>3. SumOf(f, Y) \in Int
        BY <3>2, <3>5, SumInt
      <4> QED
        BY <4>1, <4>2, <4>3
    <3>7. \A p \in Q : h[p] \in Int
      <4> TAKE p \in Q
      <4>1. IsFiniteSet(part[p])
        BY FS_Subset
      <4> QED
        BY <4>1, SumInt
    <3>8. SumOf(h, Q) = h[y] + SumOf(h, r)
      BY <3>1, <3>2, <3>7, SumTake
    <3>9. h[y] = SumOf(f, Y)
      BY <3>1
    <3> HIDE DEF y, r, Y, In
    <3>10. SumOf(f, In(Q)) = SumOf(f, In(r)) + SumOf(f, Y)
      BY <3>4, <3>6
    <3>11. SumOf(h, Q) = SumOf(f, In(Q))
      BY <3>3, <3>6, <3>8, <3>9, <3>10
    <3> QED
      BY <3>11
  <2> QED
    BY <2>1, <2>2
<1> HIDE DEF T
<1>2. P \in T
  BY <1>1, SubsetInduced
<1>3. In(P) = S
  OBVIOUS
<1> QED
  BY <1>2, <1>3 DEF T
=============================================================================
