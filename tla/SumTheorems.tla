----------------------------- MODULE SumTheorems -----------------------------
(***************************************************************************)
(* Facts about SumFunctionOnSet(f, S), the sum of f[x] over x \in S, that  *)
(* the proofs about balances and counters need.  The sum is a fold, hence  *)
(* a function defined by recursion over the subsets of S; everything here  *)
(* follows from its recursive equation by taking a minimal counterexample  *)
(* among the subsets of a finite set, which is a first-order argument.     *)
(***************************************************************************)
EXTENDS Integers, FiniteSets, Functions, FiniteSetTheorems, WellFoundedInduction, TLAPS

(* A set T of subsets of S that contains each set whose strict subsets it  *)
(* contains, contains them all.                                            *)
LEMMA SubsetInduction ==
  ASSUME NEW S, IsFiniteSet(S), NEW T,
         \A s \in SUBSET S : (\A u \in SUBSET s : u # s => u \in T) => s \in T
  PROVE  SUBSET S \subseteq T
<1>. DEFINE Bad == {s \in SUBSET S : s \notin T}
<1>. SUFFICES ASSUME Bad # {} PROVE FALSE
  OBVIOUS
<1>1. IsWellFoundedOn(StrictSubsetOrdering(S), SUBSET S)
  <2>1. FiniteSubsetsOf(S) = SUBSET S
    BY FS_FiniteSubsetsOfFinite
  <2>2. IsWellFoundedOn(StrictSubsetOrdering(S), FiniteSubsetsOf(S))
    BY FS_StrictSubsetOrderingWellFounded
  <2>. QED
    BY <2>1, <2>2
<1>2. PICK s \in Bad : \A u \in Bad : <<u, s>> \notin StrictSubsetOrdering(S)
  <2>. HIDE DEF Bad
  <2>1. Bad \subseteq SUBSET S
    BY DEF Bad
  <2>. QED
    BY <1>1, <2>1, WFMin
<1>3. \A u \in SUBSET s : u # s => u \in T
  BY <1>2 DEF StrictSubsetOrdering
<1>. QED
  BY <1>2, <1>3
-----------------------------------------------------------------------------
(* The recursive function behind the sum. *)

Pick(s) == CHOOSE x \in s : TRUE

(* g is the table of the sums of f over the subsets of S. *)
IsTable(f, S, g) ==
  g = [s \in SUBSET S |-> IF s = {} THEN 0 ELSE f[Pick(s)] + g[s \ {Pick(s)}]]

Table(f, S) == CHOOSE g : IsTable(f, S, g)

LEMMA PickIn == ASSUME NEW s, s # {} PROVE Pick(s) \in s
  BY DEF Pick

(* The sum is the last entry of the table. *)
LEMMA SumIsTable ==
  ASSUME NEW f, NEW S
  PROVE  SumFunctionOnSet(f, S) = Table(f, S)[S]
  BY DEF SumFunctionOnSet, FoldFunctionOnSet, MapThenFoldSet, Table, IsTable, Pick

(* Two tables agree where both are defined. *)
LEMMA TablesAgree ==
  ASSUME NEW f, NEW A, NEW B, A \subseteq B, IsFiniteSet(A),
         NEW g, NEW h, IsTable(f, A, g), IsTable(f, B, h)
  PROVE  \A s \in SUBSET A : g[s] = h[s]
<1>. DEFINE T == {s \in SUBSET A : g[s] = h[s]}
<1>1. ASSUME NEW s \in SUBSET A, \A u \in SUBSET s : u # s => u \in T PROVE s \in T
  <2>1. g[s] = IF s = {} THEN 0 ELSE f[Pick(s)] + g[s \ {Pick(s)}]
    BY DEF IsTable
  <2>2. h[s] = IF s = {} THEN 0 ELSE f[Pick(s)] + h[s \ {Pick(s)}]
    BY DEF IsTable
  <2>3. s # {} => s \ {Pick(s)} \in T
    BY <1>1, PickIn
  <2>. QED
    BY <2>1, <2>2, <2>3
<1>2. SUBSET A \subseteq T
  <2>. HIDE DEF T
  <2>. QED
    BY <1>1, SubsetInduction
<1>. QED
  BY <1>2

(* A finite set has a table. *)
LEMMA TableExists ==
  ASSUME NEW f, NEW S, IsFiniteSet(S)
  PROVE  \E g : IsTable(f, S, g)
<1>. DEFINE T == {s \in SUBSET S : \E g : IsTable(f, s, g)}
<1>1. ASSUME NEW s \in SUBSET S, \A u \in SUBSET s : u # s => u \in T PROVE s \in T
  <2>. DEFINE value(u) == Table(f, u)[u]
              G == [u \in SUBSET s |-> IF u = {} THEN 0
                                       ELSE f[Pick(u)] + value(u \ {Pick(u)})]
  <2>1. ASSUME NEW u \in SUBSET s, u # s PROVE IsFiniteSet(u) /\ IsTable(f, u, Table(f, u))
    <3>1. IsFiniteSet(u)
      BY FS_Subset
    <3>2. \E g : IsTable(f, u, g)
      BY <1>1, <2>1
    <3>. QED
      BY <3>1, <3>2 DEF Table
  <2>2. ASSUME NEW u \in SUBSET s, u # s PROVE value(u) = G[u]
    <3>1. IsTable(f, u, Table(f, u))
      BY <2>1, <2>2
    <3>2. value(u) = IF u = {} THEN 0 ELSE f[Pick(u)] + Table(f, u)[u \ {Pick(u)}]
      <4>. DEFINE t == Table(f, u)
      <4>1. IsTable(f, u, t)
        BY <3>1
      <4>. HIDE DEF t
      <4>2. t[u] = IF u = {} THEN 0 ELSE f[Pick(u)] + t[u \ {Pick(u)}]
        BY <4>1 DEF IsTable
      <4>. QED
        BY <4>2 DEF t
    <3>3. ASSUME u # {} PROVE Table(f, u)[u \ {Pick(u)}] = value(u \ {Pick(u)})
      <4>. DEFINE v == u \ {Pick(u)}
      <4>1. v \in SUBSET u /\ v \in SUBSET s /\ v # s
        BY <2>2, <3>3, PickIn
      <4>2. IsFiniteSet(v) /\ IsTable(f, v, Table(f, v))
        BY <2>1, <4>1
      <4>. HIDE DEF v
      <4>3. Table(f, v)[v] = Table(f, u)[v]
        BY <3>1, <4>1, <4>2, TablesAgree
      <4>. QED
        BY <4>3 DEF v
    <3>. QED
      BY <3>2, <3>3
  <2>3. ASSUME NEW u \in SUBSET s, u # {} PROVE value(u \ {Pick(u)}) = G[u \ {Pick(u)}]
    <3>1. u \ {Pick(u)} \in SUBSET s /\ u \ {Pick(u)} # s
      BY <2>3, PickIn
    <3>. QED
      BY <2>2, <3>1
  <2>4. IsTable(f, s, G)
    <3>1. \A u \in SUBSET s : (IF u = {} THEN 0 ELSE f[Pick(u)] + value(u \ {Pick(u)}))
                                = (IF u = {} THEN 0 ELSE f[Pick(u)] + G[u \ {Pick(u)}])
      BY <2>3
    <3>2. G = [u \in SUBSET s |-> IF u = {} THEN 0 ELSE f[Pick(u)] + G[u \ {Pick(u)}]]
      BY <3>1
    <3>. QED
      BY <3>2 DEF IsTable
  <2>. QED
    BY <2>4
<1>2. SUBSET S \subseteq T
  <2>. HIDE DEF T
  <2>. QED
    BY <1>1, SubsetInduction
<1>. QED
  BY <1>2
-----------------------------------------------------------------------------
(* The equation of the sum. *)

LEMMA TableOfSubset ==
  ASSUME NEW f, NEW S, IsFiniteSet(S), NEW u \in SUBSET S
  PROVE  Table(f, S)[u] = SumFunctionOnSet(f, u)
<1>1. IsFiniteSet(u)
  BY FS_Subset
<1>2. IsTable(f, S, Table(f, S))
  BY TableExists DEF Table
<1>3. IsTable(f, u, Table(f, u))
  BY <1>1, TableExists DEF Table
<1>4. Table(f, u)[u] = Table(f, S)[u]
  BY <1>1, <1>2, <1>3, TablesAgree
<1>. QED
  BY <1>4, SumIsTable

LEMMA SumEmpty == ASSUME NEW f PROVE SumFunctionOnSet(f, {}) = 0
<1>1. IsTable(f, {}, Table(f, {}))
  BY FS_EmptySet, TableExists DEF Table
<1>2. ASSUME NEW g, IsTable(f, {}, g) PROVE g[{}] = 0
  BY <1>2 DEF IsTable
<1>. QED
  BY <1>1, <1>2, SumIsTable

LEMMA SumPicked ==
  ASSUME NEW f, NEW S, IsFiniteSet(S), S # {}
  PROVE  SumFunctionOnSet(f, S) = f[Pick(S)] + SumFunctionOnSet(f, S \ {Pick(S)})
<1>1. IsTable(f, S, Table(f, S))
  BY TableExists DEF Table
<1>2. ASSUME NEW g, IsTable(f, S, g) PROVE g[S] = f[Pick(S)] + g[S \ {Pick(S)}]
  BY <1>2 DEF IsTable
<1>. QED
  BY <1>1, <1>2, SumIsTable, TableOfSubset

LEMMA SumInt ==
  ASSUME NEW f, NEW S, IsFiniteSet(S), \A x \in S : f[x] \in Int
  PROVE  SumFunctionOnSet(f, S) \in Int
<1>. DEFINE T == {s \in SUBSET S : SumFunctionOnSet(f, s) \in Int}
<1>1. ASSUME NEW s \in SUBSET S, \A u \in SUBSET s : u # s => u \in T PROVE s \in T
  <2>1. CASE s = {}
    BY <2>1, SumEmpty
  <2>2. CASE s # {}
    <3>1. IsFiniteSet(s) /\ Pick(s) \in s
      BY <2>2, FS_Subset, PickIn
    <3>2. SumFunctionOnSet(f, s) = f[Pick(s)] + SumFunctionOnSet(f, s \ {Pick(s)})
      BY <2>2, <3>1, SumPicked
    <3>3. s \ {Pick(s)} \in T
      BY <1>1, <3>1
    <3>. QED
      BY <3>1, <3>2, <3>3
  <2>. QED
    BY <2>1, <2>2
<1>2. SUBSET S \subseteq T
  <2>. HIDE DEF T
  <2>. QED
    BY <1>1, SubsetInduction
<1>. QED
  BY <1>2

(* The order of summation does not matter: any element may come first. *)
LEMMA SumRemove ==
  ASSUME NEW f, NEW S, IsFiniteSet(S), \A x \in S : f[x] \in Int, NEW a \in S
  PROVE  SumFunctionOnSet(f, S) = f[a] + SumFunctionOnSet(f, S \ {a})
<1>. DEFINE sum(s) == SumFunctionOnSet(f, s)
            T == {s \in SUBSET S : \A x \in s : sum(s) = f[x] + sum(s \ {x})}
<1>0. ASSUME NEW s \in SUBSET S PROVE IsFiniteSet(s) /\ sum(s) \in Int
  <2>1. IsFiniteSet(s)
    BY FS_Subset
  <2>. QED
    BY <2>1, SumInt
<1>1. ASSUME NEW s \in SUBSET S, \A u \in SUBSET s : u # s => u \in T PROVE s \in T
  <2>. SUFFICES ASSUME NEW x \in s PROVE sum(s) = f[x] + sum(s \ {x})
    OBVIOUS
  <2>. DEFINE p == Pick(s)
  <2>1. p \in s /\ IsFiniteSet(s) /\ sum(s) = f[p] + sum(s \ {p})
    BY <1>0, PickIn, SumPicked
  <2>2. CASE x = p
    BY <2>1, <2>2
  <2>3. CASE x # p
    <3>. HIDE DEF p, sum
    <3>1. s \ {p} \in T /\ s \ {x} \in T
      <4>1. s \ {p} \in SUBSET s /\ s \ {p} # s /\ s \ {x} \in SUBSET s /\ s \ {x} # s
        BY <2>1
      <4>. QED
        BY <1>1, <4>1
    <3>2. sum(s \ {p}) = f[x] + sum((s \ {p}) \ {x})
      BY <2>3, <3>1
    <3>3. sum(s \ {x}) = f[p] + sum((s \ {x}) \ {p})
      BY <2>1, <2>3, <3>1
    <3>4. (s \ {p}) \ {x} = (s \ {x}) \ {p}
      OBVIOUS
    <3>5. sum((s \ {x}) \ {p}) \in Int /\ f[x] \in Int /\ f[p] \in Int
      BY <1>0, <2>1
    <3>6. sum(s \ {p}) = f[x] + sum((s \ {x}) \ {p})
      BY <3>2, <3>4
    <3>7. sum(s) = f[p] + sum(s \ {p})
      BY <2>1
    <3>. QED
      BY <3>3, <3>5, <3>6, <3>7
  <2>. QED
    BY <2>2, <2>3
<1>2. SUBSET S \subseteq T
  <2>. HIDE DEF T
  <2>. QED
    BY <1>1, SubsetInduction
<1>. QED
  BY <1>2

(* Adding an element. *)
LEMMA SumInsert ==
  ASSUME NEW f, NEW S, IsFiniteSet(S), NEW a, a \notin S,
         \A x \in S \cup {a} : f[x] \in Int
  PROVE  SumFunctionOnSet(f, S \cup {a}) = f[a] + SumFunctionOnSet(f, S)
<1>1. IsFiniteSet(S \cup {a}) /\ (S \cup {a}) \ {a} = S
  BY FS_AddElement
<1>. QED
  BY <1>1, SumRemove

-----------------------------------------------------------------------------
(* Sums of related functions. *)

(* The sum of a pointwise sum, and so of equal functions and of zeros. *)
LEMMA SumAdd ==
  ASSUME NEW S, IsFiniteSet(S), NEW f, NEW g, NEW h,
         \A x \in S : f[x] \in Int /\ g[x] \in Int /\ h[x] = f[x] + g[x]
  PROVE  SumFunctionOnSet(h, S) = SumFunctionOnSet(f, S) + SumFunctionOnSet(g, S)
<1>. DEFINE sum(k, s) == SumFunctionOnSet(k, s)
            T == {s \in SUBSET S : sum(h, s) = sum(f, s) + sum(g, s)}
<1>1. ASSUME NEW s \in SUBSET S, \A u \in SUBSET s : u # s => u \in T PROVE s \in T
  <2>1. CASE s = {}
    BY <2>1, SumEmpty
  <2>2. CASE s # {}
    <3>. DEFINE p == Pick(s)  u == s \ {p}
    <3>1. p \in s /\ IsFiniteSet(s) /\ u \in SUBSET S /\ IsFiniteSet(u)
      BY <2>2, FS_Subset, PickIn
    <3>2. sum(h, s) = h[p] + sum(h, u)
      BY <2>2, <3>1, SumPicked
    <3>3. sum(f, s) = f[p] + sum(f, u)
      BY <2>2, <3>1, SumPicked
    <3>4. sum(g, s) = g[p] + sum(g, u)
      BY <2>2, <3>1, SumPicked
    <3>5. u \in T
      BY <1>1, <3>1
    <3>6. sum(f, u) \in Int /\ sum(g, u) \in Int
      BY <3>1, SumInt
    <3>. HIDE DEF sum, p, u
    <3>7. sum(h, u) = sum(f, u) + sum(g, u)
      BY <3>5
    <3>8. f[p] \in Int /\ g[p] \in Int /\ h[p] = f[p] + g[p]
      BY <3>1
    <3>9. sum(h, s) = sum(f, s) + sum(g, s)
      BY <3>2, <3>3, <3>4, <3>6, <3>7, <3>8
    <3>. QED
      BY <3>9
  <2>. QED
    BY <2>1, <2>2
<1>2. SUBSET S \subseteq T
  <2>. HIDE DEF T
  <2>. QED
    BY <1>1, SubsetInduction
<1>. QED
  BY <1>2

LEMMA SumZero ==
  ASSUME NEW S, IsFiniteSet(S), NEW f, \A x \in S : f[x] = 0
  PROVE  SumFunctionOnSet(f, S) = 0
<1>1. SumFunctionOnSet(f, S) = SumFunctionOnSet(f, S) + SumFunctionOnSet(f, S)
  BY SumAdd
<1>2. SumFunctionOnSet(f, S) \in Int
  BY SumInt
<1>3. \A n \in Int : n = n + n => n = 0
  OBVIOUS
<1>. QED
  BY <1>1, <1>2, <1>3

LEMMA SumAgree ==
  ASSUME NEW S, IsFiniteSet(S), NEW f, NEW g, \A x \in S : f[x] \in Int /\ g[x] = f[x]
  PROVE  SumFunctionOnSet(g, S) = SumFunctionOnSet(f, S)
<1>. DEFINE z == [x \in S |-> 0]
<1>1. SumFunctionOnSet(g, S) = SumFunctionOnSet(f, S) + SumFunctionOnSet(z, S)
  BY SumAdd
<1>2. SumFunctionOnSet(z, S) = 0
  BY SumZero
<1>3. SumFunctionOnSet(f, S) \in Int
  BY SumInt
<1>. QED
  BY <1>1, <1>2, <1>3

(* A function that is zero but at one, two or four points. *)
LEMMA SumOne ==
  ASSUME NEW S, IsFiniteSet(S), NEW f, NEW a \in S, f[a] \in Int,
         \A x \in S \ {a} : f[x] = 0
  PROVE  SumFunctionOnSet(f, S) = f[a]
<1>1. IsFiniteSet(S \ {a})
  BY FS_RemoveElement
<1>2. SumFunctionOnSet(f, S \ {a}) = 0
  BY <1>1, SumZero
<1>3. SumFunctionOnSet(f, S) = f[a] + SumFunctionOnSet(f, S \ {a})
  BY SumRemove
<1>. QED
  BY <1>2, <1>3

LEMMA SumTwo ==
  ASSUME NEW S, IsFiniteSet(S), NEW f, NEW a \in S, NEW b \in S, a # b,
         f[a] \in Int, f[b] \in Int,
         \A x \in S \ {a, b} : f[x] = 0
  PROVE  SumFunctionOnSet(f, S) = f[a] + f[b]
<1>1. IsFiniteSet(S \ {a})
  BY FS_RemoveElement
<1>2. SumFunctionOnSet(f, S \ {a}) = f[b]
  BY <1>1, SumOne
<1>3. \A x \in S : f[x] \in Int
  OBVIOUS
<1>4. SumFunctionOnSet(f, S) = f[a] + SumFunctionOnSet(f, S \ {a})
  BY <1>3, SumRemove
<1>. QED
  BY <1>2, <1>4

LEMMA SumFour ==
  ASSUME NEW S, IsFiniteSet(S), NEW f,
         NEW a \in S, NEW b \in S \ {a}, NEW c \in S \ {a, b}, NEW d \in S \ {a, b, c},
         f[a] \in Int, f[b] \in Int, f[c] \in Int, f[d] \in Int,
         \A x \in S \ {a, b, c, d} : f[x] = 0
  PROVE  SumFunctionOnSet(f, S) = f[a] + (f[b] + (f[c] + f[d]))
<1>. DEFINE A == S \ {a}
            B == A \ {b}
<1>0. \A x \in S : f[x] \in Int
  OBVIOUS
<1>1. IsFiniteSet(A) /\ IsFiniteSet(B) /\ A \subseteq S /\ B \subseteq S
  BY FS_RemoveElement
<1>2. SumFunctionOnSet(f, S) = f[a] + SumFunctionOnSet(f, A)
  BY <1>0, SumRemove
<1>3. b \in A /\ c \in B /\ d \in B /\ c # d /\ \A x \in B \ {c, d} : f[x] = 0
  OBVIOUS
<1>4. SumFunctionOnSet(f, A) = f[b] + SumFunctionOnSet(f, B)
  BY <1>0, <1>1, <1>3, SumRemove
<1>. HIDE DEF A, B
<1>5. SumFunctionOnSet(f, B) = f[c] + f[d]
  BY <1>1, <1>3, SumTwo
<1>. QED
  BY <1>2, <1>4, <1>5

(* A sum of values of at most b. *)
LEMMA SumBound ==
  ASSUME NEW S, IsFiniteSet(S), NEW f, NEW b \in Nat, \A x \in S : f[x] \in Int /\ f[x] <= b
  PROVE  SumFunctionOnSet(f, S) <= b * Cardinality(S)
<1>. DEFINE sum(s) == SumFunctionOnSet(f, s)
            T == {s \in SUBSET S : sum(s) <= b * Cardinality(s)}
<1>1. ASSUME NEW s \in SUBSET S, \A u \in SUBSET s : u # s => u \in T PROVE s \in T
  <2>1. CASE s = {}
    BY <2>1, SumEmpty, FS_EmptySet
  <2>2. CASE s # {}
    <3>. DEFINE p == Pick(s)  u == s \ {p}
    <3>1. p \in s /\ IsFiniteSet(s) /\ IsFiniteSet(u) /\ u \in SUBSET s /\ u # s
      BY <2>2, FS_Subset, PickIn
    <3>2. sum(s) = f[p] + sum(u)
      BY <2>2, <3>1, SumPicked
    <3>3. sum(u) \in Int /\ sum(u) <= b * Cardinality(u)
      BY <1>1, <3>1, SumInt
    <3>4. Cardinality(s) = Cardinality(u) + 1 /\ Cardinality(u) \in Nat
      <4>1. Cardinality(u) = Cardinality(s) - 1
        BY <3>1, FS_RemoveElement
      <4>2. Cardinality(s) \in Nat /\ Cardinality(u) \in Nat
        BY <3>1, FS_CardinalityType
      <4>. QED
        BY <4>1, <4>2
    <3>5. f[p] \in Int /\ f[p] <= b
      BY <3>1
    <3>. HIDE DEF sum, p, u
    <3>6. ASSUME NEW m \in Nat, NEW k \in Nat, m = k + 1 PROVE b * m = b * k + b
      BY <3>6
    <3>7. b * Cardinality(s) = b * Cardinality(u) + b
      BY <3>4, <3>6, FS_CardinalityType
    <3>8. b * Cardinality(u) \in Int
      BY <3>4
    <3>9. sum(s) <= b * Cardinality(s)
      BY <3>2, <3>3, <3>5, <3>7, <3>8
    <3>. QED
      BY <3>9
  <2>. QED
    BY <2>1, <2>2
<1>2. SUBSET S \subseteq T
  <2>. HIDE DEF T
  <2>. QED
    BY <1>1, SubsetInduction
<1>. QED
  BY <1>2

=============================================================================
