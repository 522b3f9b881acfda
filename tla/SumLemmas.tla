------------------------------- MODULE SumLemmas -------------------------------
(***************************************************************************)
(* What MapThenSumSet of the community modules adds up: the sum of a       *)
(* finite set is one member's value and the sum of the others, whichever   *)
(* member comes first.  The ledgers' sums (MarketFinance, StudioLedger)    *)
(* are proved about with these.  With them, what every proof module uses   *)
(* of least numbers and of the sizes of sets.                              *)
(*                                                                         *)
(* The induction theorems of the library take an operator, which no prover *)
(* here can instantiate; the inductions below are arguments by a least     *)
(* counterexample.                                                         *)
(***************************************************************************)
EXTENDS Naturals, FiniteSetsExt, FiniteSetTheorems, WellFoundedInduction, TLAPS

\* The sum of a function's values on a set.
SumOn(f, S) == MapThenSumSet(LAMBDA i : f[i], S)

\* The recursive function that MapThenSumSet is the value of.
AddsUp(g, f, S) ==
    g = [T \in SUBSET S |-> IF T = {} THEN 0
                            ELSE f[CHOOSE x \in T : TRUE] + g[T \ {CHOOSE x \in T : TRUE}]]

\* Every set of numbers that is not empty has a least one.
LEMMA Smallest ==
    ASSUME NEW S \in SUBSET Nat, S # {}
    PROVE  \E n \in S : \A m \in S : n <= m
<1> DEFINE R == OpToRel(<, Nat)
<1>1. IsWellFoundedOn(R, Nat)
  BY NatLessThanWellFounded
<1>2. \A m, n \in Nat : <<m, n>> \in R <=> m < n
  BY DEF OpToRel
<1> HIDE DEF R
<1>3. PICK n \in S : \A m \in S : ~(<<m, n>> \in R)
  BY <1>1, WFMin
<1>4. \A m \in S : m \in Nat /\ n \in Nat /\ ~(m < n)
  BY <1>2, <1>3
<1> QED
  BY <1>4

\* Min of the community modules is it.
LEMMA MinLeast ==
    ASSUME NEW S \in SUBSET Nat, S # {}
    PROVE  Min(S) \in S /\ \A m \in S : Min(S) <= m
<1>1. \E n \in S : \A m \in S : n <= m
  BY Smallest
<1> QED
  BY <1>1 DEF Min

\* A set that differs from another one at most in one element is larger or
\* smaller by that element.
LEMMA OneElement ==
    ASSUME NEW S, IsFiniteSet(S), NEW A \in SUBSET S, NEW B \in SUBSET S, NEW x \in S,
           A \ {x} = B \ {x}
    PROVE  /\ Cardinality(A) \in Nat /\ Cardinality(B) \in Nat
           /\ x \in A /\ x \in B => Cardinality(B) = Cardinality(A)
           /\ x \notin A /\ x \notin B => Cardinality(B) = Cardinality(A)
           /\ x \in A /\ x \notin B => Cardinality(B) = Cardinality(A) - 1
           /\ x \notin A /\ x \in B => Cardinality(B) = Cardinality(A) + 1
<1>1. IsFiniteSet(A) /\ IsFiniteSet(B)
  BY FS_Subset
<1>2. Cardinality(A) \in Nat /\ Cardinality(B) \in Nat
  BY <1>1, FS_CardinalityType
<1>3. Cardinality(A \ {x}) = IF x \in A THEN Cardinality(A) - 1 ELSE Cardinality(A)
  BY <1>1, FS_RemoveElement
<1>4. Cardinality(B \ {x}) = IF x \in B THEN Cardinality(B) - 1 ELSE Cardinality(B)
  BY <1>1, FS_RemoveElement
<1>5. CASE x \in A /\ x \in B
  <2>1. A = B
    BY <1>5
  <2> QED
    BY <1>2, <1>5, <2>1
<1>6. CASE x \notin A /\ x \notin B
  <2>1. A = B
    BY <1>6
  <2> QED
    BY <1>2, <1>6, <2>1
<1>7. CASE x \in A /\ x \notin B
  <2>1. B = A \ {x}
    BY <1>7
  <2> QED
    BY <1>2, <1>3, <1>7, <2>1
<1>8. CASE x \notin A /\ x \in B
  <2>1. A = B \ {x}
    BY <1>8
  <2>2. Cardinality(A) = Cardinality(B) - 1
    BY <1>4, <1>8, <2>1
  <2> QED
    BY <1>2, <1>8, <2>2
<1> QED
  BY <1>5, <1>6, <1>7, <1>8

\* A set of numbers that holds each one whose predecessor it holds holds all.
LEMMA Counting ==
    ASSUME NEW G \in SUBSET Nat, 0 \in G, \A n \in G : n + 1 \in G
    PROVE  G = Nat
<1> SUFFICES ASSUME Nat \ G # {} PROVE FALSE
  OBVIOUS
<1>1. PICK n \in Nat \ G : \A m \in Nat \ G : n <= m
  BY Smallest
<1>2. n # 0 /\ n - 1 \in Nat
  BY <1>1
<1>3. n - 1 \in G
  BY <1>1, <1>2
<1>4. (n - 1) + 1 = n
  BY <1>2
<1> QED
  BY <1>1, <1>3, <1>4

\* The member taken out of a set leaves a smaller one.
LEMMA TakeOut ==
    ASSUME NEW T, IsFiniteSet(T), T # {}
    PROVE  /\ (CHOOSE x \in T : TRUE) \in T
           /\ \A x \in T : /\ IsFiniteSet(T \ {x})
                           /\ Cardinality(T) \in Nat /\ Cardinality(T) # 0
                           /\ Cardinality(T \ {x}) = Cardinality(T) - 1
<1>1. (CHOOSE x \in T : TRUE) \in T
  OBVIOUS
<1>2. \A x \in T : IsFiniteSet(T \ {x}) /\ Cardinality(T \ {x}) = Cardinality(T) - 1
  BY FS_RemoveElement
<1>3. Cardinality(T) \in Nat
  BY FS_CardinalityType
<1>4. Cardinality(T) # 0
  BY FS_EmptySet
<1> QED
  BY <1>1, <1>2, <1>3, <1>4

LEMMA SumExists ==
    ASSUME NEW S, IsFiniteSet(S), NEW f, \A x \in S : f[x] \in Nat
    PROVE  \E g \in [SUBSET S -> Nat] : AddsUp(g, f, S)
<1> DEFINE Small(n) == {T \in SUBSET S : Cardinality(T) <= n}
           first(T) == CHOOSE x \in T : TRUE
           Body(g, T) == IF T = {} THEN 0 ELSE f[first(T)] + g[T \ {first(T)}]
           G == {n \in Nat : \E g \in [Small(n) -> Nat] : \A T \in Small(n) : g[T] = Body(g, T)}
<1>0. \A T \in SUBSET S : IsFiniteSet(T) /\ Cardinality(T) \in Nat
  BY FS_Subset, FS_CardinalityType
<1>000. \A T : Cardinality(T) # 0 => T # {}
  BY FS_EmptySet, Zenon
<1>00. \A T \in SUBSET S : T # {} =>
         /\ first(T) \in T /\ f[first(T)] \in Nat
         /\ T \ {first(T)} \in SUBSET S
         /\ Cardinality(T) # 0 /\ Cardinality(T \ {first(T)}) = Cardinality(T) - 1
  BY <1>0, TakeOut
<1> HIDE DEF first
<1>1. 0 \in G
  <2> DEFINE g == [T \in Small(0) |-> 0]
  <2>1. \A T \in Small(0) : T = {}
    BY <1>0, FS_EmptySet
  <2>2. g \in [Small(0) -> Nat] /\ \A T \in Small(0) : g[T] = Body(g, T)
    BY <2>1
  <2> QED
    BY <2>2
<1>2. ASSUME NEW n \in G PROVE n + 1 \in G
  <2>1. PICK g \in [Small(n) -> Nat] : \A T \in Small(n) : g[T] = Body(g, T)
    BY <1>2
  <2> DEFINE h == [T \in Small(n + 1) |-> IF Cardinality(T) <= n THEN g[T] ELSE f[first(T)] + g[T \ {first(T)}]]
  <2>2. n \in Nat
    BY <1>2
  <2>3. \A T \in Small(n + 1) : T # {} => T \ {first(T)} \in Small(n)
    BY <1>0, <1>00, <2>2
  <2>4. \A T \in Small(n + 1) : h[T] \in Nat
    <3> SUFFICES ASSUME NEW T \in Small(n + 1) PROVE h[T] \in Nat
      OBVIOUS
    <3>1. CASE Cardinality(T) <= n
      <4>1. T \in Small(n)
        BY <3>1
      <4> QED
        BY <2>1, <3>1, <4>1
    <3>2. CASE ~(Cardinality(T) <= n)
      <4>1. T # {}
        BY <1>0, <1>000, <2>2, <3>2
      <4>2. g[T \ {first(T)}] \in Nat /\ f[first(T)] \in Nat
        BY <1>00, <2>1, <2>3, <4>1
      <4> QED
        BY <3>2, <4>2
    <3> QED
      BY <3>1, <3>2
  <2>5. \A T \in Small(n) : T \in Small(n + 1) /\ h[T] = g[T]
    BY <1>0, <2>2
  <2>6. \A T \in Small(n + 1) : h[T] = Body(h, T)
    <3> SUFFICES ASSUME NEW T \in Small(n + 1) PROVE h[T] = Body(h, T)
      OBVIOUS
    <3>1. CASE T = {}
      <4>1. T \in Small(n)
        BY <2>2, <3>1, FS_EmptySet
      <4> QED
        BY <2>1, <2>5, <3>1, <4>1
    <3>2. CASE T # {}
      <4>1. T \ {first(T)} \in Small(n) /\ h[T \ {first(T)}] = g[T \ {first(T)}]
        BY <2>3, <2>5, <3>2
      <4>2. CASE Cardinality(T) <= n
        <5>1. T \in Small(n)
          BY <4>2
        <5>2. h[T] = g[T] /\ g[T] = Body(g, T)
          BY <2>1, <2>5, <5>1
        <5> HIDE DEF h
        <5> QED
          BY <3>2, <4>1, <5>2
      <4>3. CASE ~(Cardinality(T) <= n)
        <5>1. h[T] = f[first(T)] + g[T \ {first(T)}]
          BY <4>3
        <5> HIDE DEF h
        <5> QED
          BY <3>2, <4>1, <5>1
      <4> QED
        BY <4>2, <4>3
    <3> QED
      BY <3>1, <3>2
  <2>7. h \in [Small(n + 1) -> Nat]
    BY <2>4
  <2> HIDE DEF h
  <2>8. \E e \in [Small(n + 1) -> Nat] : \A T \in Small(n + 1) : e[T] = Body(e, T)
    BY <2>6, <2>7
  <2> HIDE DEF Small, Body
  <2> QED
    BY <2>2, <2>8
<1>3. G \in SUBSET Nat
  OBVIOUS
<1> HIDE DEF G
<1>4. G = Nat
  BY <1>1, <1>2, <1>3, Counting
<1> DEFINE n == Cardinality(S)
<1>5. n \in G
  BY <1>4, FS_CardinalityType
<1>6. Small(n) = SUBSET S
  BY FS_Subset
<1>7. PICK g \in [SUBSET S -> Nat] : \A T \in SUBSET S : g[T] = Body(g, T)
  BY <1>5, <1>6 DEF G
<1>8. g = [T \in SUBSET S |-> Body(g, T)]
  BY <1>7
<1> QED
  BY <1>8 DEF AddsUp, first

\* Two functions that add up the same values agree on every set they both know.
LEMMA SumUnique ==
    ASSUME NEW S, IsFiniteSet(S), NEW U \in SUBSET S, NEW f, NEW e, \A x \in U : f[x] = e[x],
           NEW g, AddsUp(g, f, S), NEW h, AddsUp(h, e, U)
    PROVE  g[U] = h[U]
<1> DEFINE first(T) == CHOOSE x \in T : TRUE
           G == {n \in Nat : \A T \in SUBSET U : Cardinality(T) = n => g[T] = h[T]}
<1>0. \A T \in SUBSET U : /\ IsFiniteSet(T) /\ Cardinality(T) \in Nat /\ T \in SUBSET S
                          /\ g[T] = IF T = {} THEN 0 ELSE f[first(T)] + g[T \ {first(T)}]
                          /\ h[T] = IF T = {} THEN 0 ELSE e[first(T)] + h[T \ {first(T)}]
  <2>1. \A T \in SUBSET U : IsFiniteSet(T) /\ Cardinality(T) \in Nat /\ T \in SUBSET S
    BY FS_Subset, FS_CardinalityType
  <2>2. \A T \in SUBSET S : g[T] = IF T = {} THEN 0 ELSE f[first(T)] + g[T \ {first(T)}]
    BY DEF AddsUp
  <2>3. \A T \in SUBSET U : h[T] = IF T = {} THEN 0 ELSE e[first(T)] + h[T \ {first(T)}]
    BY DEF AddsUp
  <2> HIDE DEF first
  <2> QED
    BY <2>1, <2>2, <2>3
<1>000. \A T : Cardinality(T) # 0 => T # {}
  BY FS_EmptySet, Zenon
<1>00. \A T \in SUBSET U : T # {} =>
         /\ first(T) \in T /\ T \ {first(T)} \in SUBSET U
         /\ Cardinality(T) # 0 /\ Cardinality(T \ {first(T)}) = Cardinality(T) - 1
  BY <1>0, TakeOut
<1> HIDE DEF first
<1>1. 0 \in G
  <2>1. \A T \in SUBSET U : Cardinality(T) = 0 => T = {}
    BY <1>0, <1>00
  <2> QED
    BY <1>0, <2>1
<1>2. ASSUME NEW n \in G PROVE n + 1 \in G
  <2> SUFFICES ASSUME NEW T \in SUBSET U, Cardinality(T) = n + 1 PROVE g[T] = h[T]
    BY <1>2
  <2>1. n \in Nat /\ T # {}
    BY <1>0, <1>000, <1>2
  <2>2. T \ {first(T)} \in SUBSET U /\ Cardinality(T \ {first(T)}) = n /\ f[first(T)] = e[first(T)]
    BY <1>00, <2>1
  <2>3. g[T \ {first(T)}] = h[T \ {first(T)}]
    BY <1>2, <2>2
  <2> QED
    BY <1>0, <2>1, <2>2, <2>3
<1>3. G \in SUBSET Nat
  OBVIOUS
<1> HIDE DEF G
<1>4. G = Nat
  BY <1>1, <1>2, <1>3, Counting
<1>5. U \in SUBSET U /\ Cardinality(U) \in G
  BY <1>0, <1>4
<1> QED
  BY <1>5 DEF G

\* The sum as the value of one of these functions.
LEMMA SumOnValue ==
    ASSUME NEW S, IsFiniteSet(S), NEW f, \A x \in S : f[x] \in Nat
    PROVE  \E g \in [SUBSET S -> Nat] : AddsUp(g, f, S) /\ SumOn(f, S) = g[S]
<1>1. PICK g \in [SUBSET S -> Nat] : AddsUp(g, f, S)
  BY SumExists
<1>2. \E h : h = [T \in SUBSET S |-> IF T = {} THEN 0
                       ELSE f[CHOOSE x \in T : TRUE] + h[T \ {CHOOSE x \in T : TRUE}]]
  BY <1>1 DEF AddsUp
<1>3. \E h : AddsUp(h, f, S) /\ SumOn(f, S) = h[S]
  BY <1>2, Zenon DEF SumOn, MapThenSumSet, MapThenFoldSet, AddsUp
<1>4. PICK h : AddsUp(h, f, S) /\ SumOn(f, S) = h[S]
  BY <1>3
<1>5. g[S] = h[S]
  BY <1>1, <1>4, SumUnique
<1> QED
  BY <1>1, <1>4, <1>5

\* The sum of a function on a set: its type, the empty sum, one member apart.
LEMMA SumType ==
    ASSUME NEW S, IsFiniteSet(S), NEW f, \A x \in S : f[x] \in Nat
    PROVE  SumOn(f, S) \in Nat
<1>1. PICK g \in [SUBSET S -> Nat] : SumOn(f, S) = g[S]
  BY SumOnValue
<1> QED
  BY <1>1

LEMMA SumEmpty == ASSUME NEW f PROVE SumOn(f, {}) = 0
<1>1. IsFiniteSet({})
  BY FS_EmptySet
<1>2. PICK g : AddsUp(g, f, {}) /\ SumOn(f, {}) = g[{}]
  BY <1>1, SumOnValue
<1>3. g[{}] = 0
  BY <1>2 DEF AddsUp
<1> QED
  BY <1>2, <1>3

LEMMA SumSame ==
    ASSUME NEW S, IsFiniteSet(S), NEW f, NEW e, \A x \in S : f[x] \in Nat /\ f[x] = e[x]
    PROVE  SumOn(f, S) = SumOn(e, S)
<1>1. PICK g : AddsUp(g, f, S) /\ SumOn(f, S) = g[S]
  BY SumOnValue
<1>2. PICK h : AddsUp(h, e, S) /\ SumOn(e, S) = h[S]
  BY SumOnValue
<1>3. g[S] = h[S]
  BY <1>1, <1>2, SumUnique
<1> QED
  BY <1>1, <1>2, <1>3

\* The member that is added first.
LEMMA SumFirst ==
    ASSUME NEW S, IsFiniteSet(S), S # {}, NEW f, \A x \in S : f[x] \in Nat
    PROVE  LET x == CHOOSE x \in S : TRUE IN SumOn(f, S) = f[x] + SumOn(f, S \ {x})
<1> DEFINE x == CHOOSE x \in S : TRUE
           U == S \ {x}
<1>1. PICK g : AddsUp(g, f, S) /\ SumOn(f, S) = g[S]
  BY SumOnValue
<1>2. IsFiniteSet(U) /\ U \in SUBSET S
  BY TakeOut
<1>3. PICK h : AddsUp(h, f, U) /\ SumOn(f, U) = h[U]
  BY <1>2, SumOnValue
<1>4. g[U] = h[U]
  BY <1>1, <1>2, <1>3, SumUnique
<1>5. g[S] = f[x] + g[U]
  BY <1>1 DEF AddsUp
<1> QED
  BY <1>1, <1>3, <1>4, <1>5

\* Any member may be added first.
LEMMA SumMember ==
    ASSUME NEW S, IsFiniteSet(S), NEW f, \A x \in S : f[x] \in Nat, NEW x \in S
    PROVE  SumOn(f, S) = f[x] + SumOn(f, S \ {x})
<1> DEFINE Any(T) == \A y \in T : SumOn(f, T) = f[y] + SumOn(f, T \ {y})
           G == {n \in Nat : \A T \in SUBSET S : Cardinality(T) = n => Any(T)}
<1>0. \A T \in SUBSET S : IsFiniteSet(T) /\ Cardinality(T) \in Nat /\ SumOn(f, T) \in Nat
  BY FS_Subset, FS_CardinalityType, SumType
<1>00. \A T \in SUBSET S : T # {} =>
         \A y \in T : Cardinality(T) # 0 /\ Cardinality(T \ {y}) = Cardinality(T) - 1
  BY <1>0, TakeOut
<1>1. 0 \in G
  <2>1. \A T \in SUBSET S : Cardinality(T) = 0 => T = {}
    BY <1>00
  <2> QED
    BY <2>1
<1>2. ASSUME NEW n \in G PROVE n + 1 \in G
  <2> SUFFICES ASSUME NEW T \in SUBSET S, Cardinality(T) = n + 1, NEW y \in T
               PROVE  SumOn(f, T) = f[y] + SumOn(f, T \ {y})
    BY <1>2
  <2> DEFINE z == CHOOSE z \in T : TRUE
             U == T \ {y}
             V == T \ {z}
             W == T \ {y, z}
  <2>1. z \in T /\ y \in S /\ z \in S /\ n \in Nat
    BY <1>2
  <2>2. SumOn(f, T) = f[z] + SumOn(f, V)
    BY <1>0, SumFirst
  <2> HIDE DEF z
  <2>3. CASE y = z
    BY <2>2, <2>3
  <2>4. CASE y # z
    <3>1. Cardinality(U) = n /\ Cardinality(V) = n /\ U \in SUBSET S /\ V \in SUBSET S
      BY <1>00, <2>1
    <3>2. Any(U) /\ Any(V)
      BY <1>2, <3>1
    <3>3. z \in U /\ y \in V /\ U \ {z} = W /\ V \ {y} = W
      BY <2>1, <2>4
    <3> HIDE DEF U, V, W
    <3>4. SumOn(f, U) = f[z] + SumOn(f, W) /\ SumOn(f, V) = f[y] + SumOn(f, W)
      BY <3>2, <3>3
    <3>5. W \in SUBSET S
      BY DEF W
    <3>6. SumOn(f, W) \in Nat /\ f[y] \in Nat /\ f[z] \in Nat
      BY <1>0, <2>1, <3>5
    <3>7. SumOn(f, T) = f[y] + SumOn(f, U)
      BY <2>2, <3>4, <3>6
    <3> QED
      BY <3>7 DEF U
  <2> QED
    BY <2>3, <2>4
<1>3. G \in SUBSET Nat
  OBVIOUS
<1> HIDE DEF G
<1>4. G = Nat
  BY <1>1, <1>2, <1>3, Counting
<1>5. S \in SUBSET S /\ Cardinality(S) \in G
  BY <1>0, <1>4
<1> QED
  BY <1>5 DEF G

\* One more member.
LEMMA SumAdd ==
    ASSUME NEW S, IsFiniteSet(S), NEW x, x \notin S, NEW f, \A y \in S \cup {x} : f[y] \in Nat
    PROVE  SumOn(f, S \cup {x}) = f[x] + SumOn(f, S)
<1>1. IsFiniteSet(S \cup {x}) /\ (S \cup {x}) \ {x} = S
  BY FS_AddElement
<1> QED
  BY <1>1, SumMember

\* A sum whose values differ at one member only.
LEMMA SumChange ==
    ASSUME NEW S, IsFiniteSet(S), NEW x \in S, NEW f, NEW e,
           \A y \in S : f[y] \in Nat /\ e[y] \in Nat,
           \A y \in S \ {x} : f[y] = e[y]
    PROVE  /\ SumOn(f, S) \in Nat /\ SumOn(e, S) \in Nat
           /\ SumOn(f, S) + e[x] = SumOn(e, S) + f[x]
<1> DEFINE U == S \ {x}
<1>1. IsFiniteSet(U)
  BY FS_Subset
<1>2. SumOn(f, S) = f[x] + SumOn(f, U) /\ SumOn(e, S) = e[x] + SumOn(e, U)
  BY SumMember
<1>3. SumOn(f, U) = SumOn(e, U)
  BY <1>1, SumSame
<1>4. SumOn(f, U) \in Nat
  BY <1>1, SumType
<1> QED
  BY <1>2, <1>3, <1>4
=============================================================================
