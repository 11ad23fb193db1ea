----------------------------- MODULE SumTheorems -----------------------------
(***************************************************************************)
(* Sums over finite sets, SumFunctionOnSet of the community modules: what  *)
(* the caps, the guardrails and the books add up.  First induction over    *)
(* the subsets of a finite set, with a set of sets where the library's     *)
(* theorems take an operator; then that the recursion the sum is defined   *)
(* by has one solution; then what sums obey.                               *)
(***************************************************************************)
EXTENDS FiniteSetsExt, FiniteSetTheorems, WellFoundedInduction, TLAPS

-----------------------------------------------------------------------------
(* Induction. *)

\* A set of numbers that is not empty has a least element.
LEMMA LeastOf ==
    ASSUME NEW T, T \subseteq Nat, T # {}
    PROVE  \E n \in T : \A m \in T : n <= m
<1>1. PICK x \in T : \A y \in T : ~ (<<y, x>> \in OpToRel(<, Nat))
  BY NatLessThanWellFounded, WFMin
<1>2. ASSUME NEW y \in T PROVE ~ (y < x)
  <2>1. y < x => <<y, x>> \in OpToRel(<, Nat)
    BY DEF OpToRel
  <2> QED
    BY <1>1, <2>1
<1> QED
  BY <1>2

\* What a set inherits from all sets with one element less, it has.
LEMMA SubsetInduction ==
    ASSUME NEW S, IsFiniteSet(S), NEW Good,
           \A s \in SUBSET S : (\A x \in s : s \ {x} \in Good) => s \in Good
    PROVE  S \in Good
<1> SUFFICES ASSUME S \notin Good PROVE FALSE
  OBVIOUS
<1> DEFINE Bad == {n \in Nat : \E s \in SUBSET S : s \notin Good /\ Cardinality(s) = n}
<1>1. Cardinality(S) \in Bad
  BY FS_CardinalityType
<1>2. PICK n \in Bad : \A m \in Bad : n <= m
  <2> HIDE DEF Bad
  <2>1. Bad \subseteq Nat
    BY DEF Bad
  <2> QED
    BY <1>1, <2>1, LeastOf
<1>3. PICK s \in SUBSET S : s \notin Good /\ Cardinality(s) = n
  OBVIOUS
<1>4. PICK x \in s : s \ {x} \notin Good
  BY <1>3
<1>5. /\ IsFiniteSet(s) /\ s \ {x} \in SUBSET S
      /\ Cardinality(s \ {x}) = n - 1 /\ Cardinality(s \ {x}) \in Nat
  BY <1>3, FS_Subset, FS_RemoveElement, FS_CardinalityType
<1>6. n - 1 \in Bad
  BY <1>4, <1>5
<1> QED
  BY <1>2, <1>5, <1>6

-----------------------------------------------------------------------------
(* The recursion. *)

Pick(s) == CHOOSE x \in s : TRUE

\* g adds f up over the sets of D, an element at a time.
AddsUp(f, D, g) ==
    g = [s \in D |-> IF s = {} THEN 0 ELSE f[Pick(s)] + g[s \ {Pick(s)}]]

IsSumming(f, S, g) == AddsUp(f, SUBSET S, g)

\* An element of a set that has one.
LEMMA PickIn == ASSUME NEW s, s # {} PROVE Pick(s) \in s
BY DEF Pick

\* There is such a g on all subsets of a finite set.
LEMMA SomeSums ==
    ASSUME NEW f, NEW S, IsFiniteSet(S)
    PROVE  \E g : IsSumming(f, S, g)
<1> DEFINE UpTo(n) == {s \in SUBSET S : Cardinality(s) <= n}
           Bad == {n \in Nat : ~ \E g : AddsUp(f, UpTo(n), g)}
<1>1. \A s \in SUBSET S : IsFiniteSet(s) /\ Cardinality(s) \in Nat /\ Cardinality(s) <= Cardinality(S)
  BY FS_Subset, FS_CardinalityType
<1>2. Cardinality(S) \in Nat /\ UpTo(Cardinality(S)) = SUBSET S
  BY <1>1
<1> SUFFICES ASSUME Bad # {} PROVE FALSE
  <2>1. \E g : AddsUp(f, UpTo(Cardinality(S)), g)
    BY <1>2
  <2> QED
    BY <1>2, <2>1 DEF IsSumming
<1>3. PICK n \in Bad : \A m \in Bad : n <= m
  <2>1. Bad \subseteq Nat
    OBVIOUS
  <2> HIDE DEF Bad
  <2> QED
    BY <2>1, LeastOf
<1>4. CASE n = 0
  <2> DEFINE g == [s \in UpTo(0) |-> 0]
  <2>1. \A s \in UpTo(0) : s = {}
    BY <1>1, FS_EmptySet
  <2>2. AddsUp(f, UpTo(0), g)
    BY <2>1 DEF AddsUp
  <2> QED
    BY <1>4, <2>2
<1>5. CASE n # 0
  <2>1. n \in Nat /\ n - 1 \in Nat /\ n - 1 \notin Bad
    <3>1. n \in Nat
      OBVIOUS
    <3> HIDE DEF Bad
    <3> QED
      BY <1>3, <1>5, <3>1
  <2>2. PICK h : AddsUp(f, UpTo(n - 1), h)
    BY <2>1
  <2> DEFINE g == [s \in UpTo(n) |-> IF s = {} THEN 0 ELSE f[Pick(s)] + h[s \ {Pick(s)}]]
  <2>3. \A s \in UpTo(n) : s # {} => s \ {Pick(s)} \in UpTo(n - 1)
    BY <1>1, PickIn, FS_RemoveElement
  <2>4. \A s \in UpTo(n - 1) : s \in UpTo(n) /\ h[s] = g[s]
    <3> SUFFICES ASSUME NEW s \in UpTo(n - 1)
                 PROVE  s \in UpTo(n) /\ h[s] = g[s]
      OBVIOUS
    <3>1. s \in UpTo(n)
      BY <1>1, <2>1
    <3>2. h[s] = IF s = {} THEN 0 ELSE f[Pick(s)] + h[s \ {Pick(s)}]
      <4> HIDE DEF UpTo
      <4> QED
        BY <2>2 DEF AddsUp
    <3> QED
      BY <3>1, <3>2
  <2>5. AddsUp(f, UpTo(n), g)
    <3>1. \A s \in UpTo(n) : g[s] = IF s = {} THEN 0 ELSE f[Pick(s)] + g[s \ {Pick(s)}]
      BY <2>3, <2>4
    <3>2. g = [s \in UpTo(n) |-> g[s]]
      OBVIOUS
    <3> HIDE DEF g, UpTo
    <3> QED
      BY <3>1, <3>2 DEF AddsUp
  <2> QED
    BY <2>5
<1> QED
  BY <1>4, <1>5

\* And what it makes of a set depends on nothing but f on that set.
LEMMA OneSum ==
    ASSUME NEW f, NEW S, NEW g, IsSumming(f, S, g),
           NEW e, NEW T, NEW h, IsSumming(e, T, h),
           NEW R, IsFiniteSet(R), R \subseteq S, R \subseteq T, \A x \in R : f[x] = e[x]
    PROVE  g[R] = h[R]
<1> DEFINE Good == {s \in SUBSET R : g[s] = h[s]}
<1>1. ASSUME NEW s \in SUBSET R, \A x \in s : s \ {x} \in Good
      PROVE  s \in Good
  <2>1. /\ g[s] = IF s = {} THEN 0 ELSE f[Pick(s)] + g[s \ {Pick(s)}]
        /\ h[s] = IF s = {} THEN 0 ELSE e[Pick(s)] + h[s \ {Pick(s)}]
    BY DEF IsSumming, AddsUp
  <2>2. s # {} => Pick(s) \in s /\ Pick(s) \in R /\ g[s \ {Pick(s)}] = h[s \ {Pick(s)}]
    BY <1>1, PickIn
  <2> QED
    BY <2>1, <2>2
<1>2. R \in Good
  <2> HIDE DEF Good
  <2> QED
    BY <1>1, SubsetInduction
<1> QED
  BY <1>2

-----------------------------------------------------------------------------
(* Sums. *)

\* The sum is such a g, at the whole set.
LEMMA SumAddsUp ==
    ASSUME NEW f, NEW S, IsFiniteSet(S)
    PROVE  \E g : IsSumming(f, S, g) /\ SumFunctionOnSet(f, S) = g[S]
<1>1. IsSumming(f, S, CHOOSE g : IsSumming(f, S, g))
  BY SomeSums
<1> QED
  BY <1>1 DEF SumFunctionOnSet, FoldFunctionOnSet, MapThenFoldSet, IsSumming, AddsUp, Pick

\* Nothing adds up to nothing.
LEMMA SumEmpty == ASSUME NEW f PROVE SumFunctionOnSet(f, {}) = 0
<1>1. PICK g : IsSumming(f, {}, g) /\ SumFunctionOnSet(f, {}) = g[{}]
  BY SumAddsUp, FS_EmptySet
<1>2. g[{}] = 0
  BY <1>1 DEF IsSumming, AddsUp
<1> QED
  BY <1>1, <1>2

\* Functions that agree on a set have the same sum there.
LEMMA SumSame ==
    ASSUME NEW f, NEW e, NEW S, IsFiniteSet(S), \A x \in S : f[x] = e[x]
    PROVE  SumFunctionOnSet(f, S) = SumFunctionOnSet(e, S)
<1>1. PICK g : IsSumming(f, S, g) /\ SumFunctionOnSet(f, S) = g[S]
  BY SumAddsUp
<1>2. PICK h : IsSumming(e, S, h) /\ SumFunctionOnSet(e, S) = h[S]
  BY SumAddsUp
<1>3. S \subseteq S
  OBVIOUS
<1>4. g[S] = h[S]
  BY <1>1, <1>2, <1>3, OneSum
<1> QED
  BY <1>1, <1>2, <1>4

\* The sum takes the chosen element off.
LEMMA SumPicked ==
    ASSUME NEW f, NEW S, IsFiniteSet(S), S # {}
    PROVE  /\ Pick(S) \in S
           /\ SumFunctionOnSet(f, S) = f[Pick(S)] + SumFunctionOnSet(f, S \ {Pick(S)})
<1> DEFINE R == S \ {Pick(S)}
<1>1. Pick(S) \in S /\ IsFiniteSet(R)
  BY PickIn, FS_RemoveElement
<1>2. PICK g : IsSumming(f, S, g) /\ SumFunctionOnSet(f, S) = g[S]
  BY SumAddsUp
<1>3. PICK h : IsSumming(f, R, h) /\ SumFunctionOnSet(f, R) = h[R]
  BY <1>1, SumAddsUp
<1>4. g[R] = h[R]
  <2>1. R \subseteq S /\ R \subseteq R /\ (\A x \in R : f[x] = f[x])
    OBVIOUS
  <2> HIDE DEF R
  <2> QED
    BY <1>1, <1>2, <1>3, <2>1, OneSum
<1>5. g[S] = f[Pick(S)] + g[R]
  BY <1>2 DEF IsSumming, AddsUp
<1> QED
  BY <1>1, <1>2, <1>3, <1>4, <1>5

\* A sum of numbers is a number.
LEMMA SumType ==
    ASSUME NEW f, NEW S, IsFiniteSet(S), \A x \in S : f[x] \in Int
    PROVE  SumFunctionOnSet(f, S) \in Int
<1> DEFINE Good == {s \in SUBSET S : SumFunctionOnSet(f, s) \in Int}
<1>1. ASSUME NEW s \in SUBSET S, \A x \in s : s \ {x} \in Good
      PROVE  s \in Good
  <2>1. CASE s = {}
    BY <2>1, SumEmpty
  <2>2. CASE s # {}
    <3>1. IsFiniteSet(s)
      BY FS_Subset
    <3>2. Pick(s) \in s /\ SumFunctionOnSet(f, s) = f[Pick(s)] + SumFunctionOnSet(f, s \ {Pick(s)})
      BY <2>2, <3>1, SumPicked
    <3> QED
      BY <1>1, <3>2
  <2> QED
    BY <2>1, <2>2
<1>2. S \in Good
  <2> HIDE DEF Good
  <2> QED
    BY <1>1, SubsetInduction
<1> QED
  BY <1>2

\* Any element can be taken off.
LEMMA SumRemove ==
    ASSUME NEW f, NEW S, IsFiniteSet(S), \A x \in S : f[x] \in Int, NEW a \in S
    PROVE  SumFunctionOnSet(f, S) = f[a] + SumFunctionOnSet(f, S \ {a})
<1> DEFINE Good == {s \in SUBSET S : \A x \in s :
                        SumFunctionOnSet(f, s) = f[x] + SumFunctionOnSet(f, s \ {x})}
<1>1. ASSUME NEW s \in SUBSET S, \A x \in s : s \ {x} \in Good
      PROVE  s \in Good
  <2> SUFFICES ASSUME NEW x \in s
               PROVE  SumFunctionOnSet(f, s) = f[x] + SumFunctionOnSet(f, s \ {x})
    OBVIOUS
  <2> DEFINE y == Pick(s)
  <2>1. IsFiniteSet(s)
    BY FS_Subset
  <2>2. y \in s /\ SumFunctionOnSet(f, s) = f[y] + SumFunctionOnSet(f, s \ {y})
    BY <2>1, SumPicked
  <2> HIDE DEF y
  <2>3. CASE x = y
    BY <2>2, <2>3
  <2>4. CASE x # y
    <3>1. /\ SumFunctionOnSet(f, s \ {y}) = f[x] + SumFunctionOnSet(f, (s \ {y}) \ {x})
          /\ SumFunctionOnSet(f, s \ {x}) = f[y] + SumFunctionOnSet(f, (s \ {x}) \ {y})
      BY <1>1, <2>2, <2>4
    <3>2. (s \ {y}) \ {x} = (s \ {x}) \ {y} /\ IsFiniteSet((s \ {x}) \ {y})
      BY <2>1, FS_RemoveElement
    <3> DEFINE r == (s \ {x}) \ {y}
    <3>3. SumFunctionOnSet(f, r) \in Int /\ f[x] \in Int /\ f[y] \in Int
      BY <2>2, <3>2, SumType
    <3>4. /\ SumFunctionOnSet(f, s \ {y}) = f[x] + SumFunctionOnSet(f, r)
          /\ SumFunctionOnSet(f, s \ {x}) = f[y] + SumFunctionOnSet(f, r)
      BY <3>1, <3>2
    <3> HIDE DEF r
    <3> QED
      BY <2>2, <3>3, <3>4
  <2> QED
    BY <2>3, <2>4
<1>2. S \in Good
  <2> HIDE DEF Good
  <2> QED
    BY <1>1, SubsetInduction
<1> QED
  BY <1>2

\* A new element is added.
LEMMA SumAdd ==
    ASSUME NEW f, NEW S, IsFiniteSet(S), NEW a, a \notin S, \A x \in S \cup {a} : f[x] \in Int
    PROVE  SumFunctionOnSet(f, S \cup {a}) = f[a] + SumFunctionOnSet(f, S)
<1>1. IsFiniteSet(S \cup {a}) /\ (S \cup {a}) \ {a} = S
  BY FS_AddElement
<1> QED
  BY <1>1, SumRemove

\* What one sum has more of is not negative, what it has less of is not positive,
\* and what both have is no less: then it is no less.
LEMMA SumCompare ==
    ASSUME NEW f, NEW e, NEW S, NEW T, IsFiniteSet(S), IsFiniteSet(T),
           \A x \in S : f[x] \in Int, \A x \in T : e[x] \in Int,
           \A x \in S \cap T : f[x] <= e[x],
           \A x \in S \ T : f[x] <= 0,
           \A x \in T \ S : e[x] >= 0
    PROVE  SumFunctionOnSet(f, S) <= SumFunctionOnSet(e, T)
<1> DEFINE both == S \cup T
           Good == {s \in SUBSET both :
                        SumFunctionOnSet(f, s \cap S) <= SumFunctionOnSet(e, s \cap T)}
<1>0. IsFiniteSet(both)
  BY FS_Union
<1>1. ASSUME NEW s \in SUBSET both, \A x \in s : s \ {x} \in Good
      PROVE  s \in Good
  <2>1. CASE s = {}
    <3>1. s \cap S = {} /\ s \cap T = {}
      BY <2>1
    <3> QED
      BY <3>1, SumEmpty
  <2>2. CASE s # {}
    <3>1. PICK x \in s : TRUE
      BY <2>2
    <3> DEFINE r == s \ {x}
    <3>2. SumFunctionOnSet(f, r \cap S) <= SumFunctionOnSet(e, r \cap T)
      BY <1>1
    <3>3. /\ IsFiniteSet(s \cap S) /\ IsFiniteSet(s \cap T)
          /\ IsFiniteSet(r \cap S) /\ IsFiniteSet(r \cap T)
      BY FS_Intersection
    <3>4. /\ SumFunctionOnSet(f, r \cap S) \in Int /\ SumFunctionOnSet(e, r \cap T) \in Int
      BY <3>3, SumType
    <3>5. SumFunctionOnSet(f, s \cap S) = IF x \in S THEN f[x] + SumFunctionOnSet(f, r \cap S)
                                          ELSE SumFunctionOnSet(f, r \cap S)
      <4>1. CASE x \in S
        <5>1. (s \cap S) \ {x} = r \cap S /\ x \in s \cap S
          BY <3>1, <4>1
        <5> QED
          BY <3>3, <4>1, <5>1, SumRemove
      <4>2. CASE x \notin S
        <5>1. s \cap S = r \cap S
          BY <4>2
        <5> QED
          BY <4>2, <5>1
      <4> QED
        BY <4>1, <4>2
    <3>6. SumFunctionOnSet(e, s \cap T) = IF x \in T THEN e[x] + SumFunctionOnSet(e, r \cap T)
                                          ELSE SumFunctionOnSet(e, r \cap T)
      <4>1. CASE x \in T
        <5>1. (s \cap T) \ {x} = r \cap T /\ x \in s \cap T
          BY <3>1, <4>1
        <5> QED
          BY <3>3, <4>1, <5>1, SumRemove
      <4>2. CASE x \notin T
        <5>1. s \cap T = r \cap T
          BY <4>2
        <5> QED
          BY <4>2, <5>1
      <4> QED
        BY <4>1, <4>2
    <3>7. /\ x \in S => f[x] \in Int
          /\ x \in T => e[x] \in Int
          /\ x \in S /\ x \in T => f[x] <= e[x]
          /\ x \in S /\ x \notin T => f[x] <= 0
          /\ x \in T /\ x \notin S => e[x] >= 0
          /\ x \in S \/ x \in T
      BY <3>1
    <3>8. SumFunctionOnSet(f, s \cap S) <= SumFunctionOnSet(e, s \cap T)
      <4> HIDE DEF r
      <4> QED
        BY <3>2, <3>4, <3>5, <3>6, <3>7
    <3> QED
      BY <3>8
  <2> QED
    BY <2>1, <2>2
<1>2. both \in Good
  <2> HIDE DEF Good, both
  <2> QED
    BY <1>0, <1>1, SubsetInduction
<1>3. both \cap S = S /\ both \cap T = T
  OBVIOUS
<1> QED
  BY <1>2, <1>3

\* Two sets apart have the sum of their sums.
LEMMA SumUnion ==
    ASSUME NEW f, NEW S, IsFiniteSet(S), NEW T, IsFiniteSet(T), S \cap T = {},
           \A x \in S \cup T : f[x] \in Int
    PROVE  SumFunctionOnSet(f, S \cup T) = SumFunctionOnSet(f, S) + SumFunctionOnSet(f, T)
<1> DEFINE Good == {s \in SUBSET T :
                       SumFunctionOnSet(f, S \cup s) = SumFunctionOnSet(f, S) + SumFunctionOnSet(f, s)}
<1>0. SumFunctionOnSet(f, S) \in Int
  BY SumType
<1>1. ASSUME NEW s \in SUBSET T, \A x \in s : s \ {x} \in Good
      PROVE  s \in Good
  <2>1. CASE s = {}
    <3>1. S \cup s = S
      BY <2>1
    <3> QED
      BY <1>0, <2>1, <3>1, SumEmpty
  <2>2. CASE s # {}
    <3>1. PICK x \in s : TRUE
      BY <2>2
    <3> DEFINE r == s \ {x}
    <3>2. IsFiniteSet(s) /\ IsFiniteSet(r) /\ IsFiniteSet(S \cup s)
      BY FS_Subset, FS_RemoveElement, FS_Union
    <3>3. (S \cup s) \ {x} = S \cup r /\ x \notin S /\ f[x] \in Int
      BY <3>1
    <3>4. SumFunctionOnSet(f, s) = f[x] + SumFunctionOnSet(f, r)
      BY <3>2, SumRemove
    <3>5. SumFunctionOnSet(f, S \cup s) = f[x] + SumFunctionOnSet(f, S \cup r)
      BY <3>2, <3>3, SumRemove
    <3>6. SumFunctionOnSet(f, S \cup r) = SumFunctionOnSet(f, S) + SumFunctionOnSet(f, r)
      BY <1>1
    <3>7. SumFunctionOnSet(f, r) \in Int
      BY <3>2, SumType
    <3> HIDE DEF r
    <3> QED
      BY <1>0, <3>3, <3>4, <3>5, <3>6, <3>7
  <2> QED
    BY <2>1, <2>2
<1>2. T \in Good
  <2> HIDE DEF Good
  <2> QED
    BY <1>1, SubsetInduction
<1> QED
  BY <1>2
=============================================================================
