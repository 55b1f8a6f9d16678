------------------------------ MODULE SumTheorems ------------------------------
(***************************************************************************)
(* Facts about SumFunctionOnSet(f, S), the sum of f[x] for the x in a      *)
(* finite set S. The library's induction theorems take an operator; here   *)
(* induction is over a set of subsets, by looking at a least one that is   *)
(* missing from it.                                                        *)
(***************************************************************************)
EXTENDS Functions, FiniteSetTheorems, TLAPS

\* What holds for every set whose smaller sets have it holds for a finite set.
LEMMA SubsetInduction ==
  ASSUME NEW S, IsFiniteSet(S), NEW Good,
         \A T \in SUBSET S : (\A U \in SUBSET T : U # T => U \in Good) => T \in Good
  PROVE  \A T \in SUBSET S : T \in Good
<1>. DEFINE Bad == {T \in SUBSET S : T \notin Good}
<1>. SUFFICES ASSUME Bad # {} PROVE FALSE
  OBVIOUS
<1>1. IsWellFoundedOn(StrictSubsetOrdering(S), SUBSET S)
  <2>1. IsWellFoundedOn(StrictSubsetOrdering(S), FiniteSubsetsOf(S))
    BY FS_StrictSubsetOrderingWellFounded
  <2>2. FiniteSubsetsOf(S) = SUBSET S
    BY FS_FiniteSubsetsOfFinite
  <2>. QED
    BY <2>1, <2>2
<1>2. PICK T \in Bad : \A U \in Bad : <<U, T>> \notin StrictSubsetOrdering(S)
  <2>1. Bad \subseteq SUBSET S
    OBVIOUS
  <2>. HIDE DEF Bad
  <2>. QED
    BY <1>1, <2>1, WFMin
<1>3. \A U \in SUBSET T : U # T => U \in Good
  <2>. SUFFICES ASSUME NEW U \in SUBSET T, U # T, U \notin Good PROVE FALSE
    OBVIOUS
  <2>1. U \in Bad /\ <<U, T>> \in StrictSubsetOrdering(S)
    BY DEF StrictSubsetOrdering
  <2>. QED
    BY <1>2, <2>1
<1>. QED
  BY <1>3

\* The same, one element at a time.
LEMMA ElementInduction ==
  ASSUME NEW S, IsFiniteSet(S), NEW Good, {} \in Good,
         \A T \in SUBSET S : \A x \in S \ T : T \in Good => T \cup {x} \in Good
  PROVE  \A T \in SUBSET S : T \in Good
<1>1. ASSUME NEW T \in SUBSET S, \A U \in SUBSET T : U # T => U \in Good
      PROVE  T \in Good
  <2>1. CASE T = {}
    BY <2>1
  <2>2. CASE T # {}
    <3>1. PICK x : x \in T
      BY <2>2
    <3>2. T \ {x} \in Good /\ T = (T \ {x}) \cup {x}
      BY <1>1, <3>1
    <3>. QED
      BY <3>1, <3>2
  <2>. QED
    BY <2>1, <2>2
<1>. QED
  BY <1>1, SubsetInduction

-----------------------------------------------------------------------------

First(s) == CHOOSE x \in s : TRUE

\* g[s] is the sum over s, for the subsets s of S.
Sums(g, f, S) ==
  g = [s \in SUBSET S |-> IF s = {} THEN 0 ELSE f[First(s)] + g[s \ {First(s)}]]

\* Partial sums are integers, and agree on the sets they share.
LEMMA SumsAgree ==
  ASSUME NEW S, IsFiniteSet(S), NEW f, \A x \in S : f[x] \in Int,
         NEW T \in SUBSET S, NEW U \in SUBSET S, NEW g, NEW h,
         Sums(g, f, T), Sums(h, f, U)
  PROVE  \A s \in SUBSET (T \cap U) : g[s] \in Int /\ g[s] = h[s]
<1>. DEFINE Good == {s \in SUBSET (T \cap U) : g[s] \in Int /\ g[s] = h[s]}
<1>1. IsFiniteSet(T \cap U)
  BY FS_Subset
<1>2. ASSUME NEW s \in SUBSET (T \cap U), \A u \in SUBSET s : u # s => u \in Good
      PROVE  s \in Good
  <2>1. /\ g[s] = IF s = {} THEN 0 ELSE f[First(s)] + g[s \ {First(s)}]
        /\ h[s] = IF s = {} THEN 0 ELSE f[First(s)] + h[s \ {First(s)}]
    BY DEF Sums
  <2>2. CASE s = {}
    BY <2>1, <2>2
  <2>3. CASE s # {}
    <3>1. First(s) \in s
      BY <2>3 DEF First
    <3>2. s \ {First(s)} \in Good
      BY <1>2, <3>1
    <3>. QED
      BY <2>1, <2>3, <3>1, <3>2
  <2>. QED
    BY <2>2, <2>3
<1>3. \A s \in SUBSET (T \cap U) : s \in Good
  <2>. HIDE DEF Good
  <2>. QED
    BY <1>1, <1>2, SubsetInduction
<1>. QED
  BY <1>3

\* There are partial sums.
LEMMA SumsExist ==
  ASSUME NEW S, IsFiniteSet(S), NEW f, \A x \in S : f[x] \in Int
  PROVE  \A T \in SUBSET S : \E g : Sums(g, f, T)
<1>. DEFINE Good == {T \in SUBSET S : \E g : Sums(g, f, T)}
<1>1. ASSUME NEW T \in SUBSET S, \A U \in SUBSET T : U # T => U \in Good
      PROVE  T \in Good
  <2>. DEFINE On(U) == CHOOSE g : Sums(g, f, U)
              Rest(s) == s \ {First(s)}
              g == [s \in SUBSET T |->
                      IF s = {} THEN 0 ELSE f[First(s)] + On(Rest(s))[Rest(s)]]
  <2>1. ASSUME NEW s \in SUBSET T, s # {}
        PROVE  Sums(On(Rest(s)), f, Rest(s)) /\ First(s) \in s
    <3>1. First(s) \in s
      BY <2>1 DEF First
    <3>2. Rest(s) \in SUBSET T /\ Rest(s) # T
      BY <3>1
    <3>. QED
      BY <1>1, <3>1, <3>2
  <2>2. ASSUME NEW s \in SUBSET T, s # {}
        PROVE  On(Rest(s))[Rest(s)] = g[Rest(s)]
    <3>1. CASE Rest(s) = {}
      BY <2>1, <2>2, <3>1 DEF Sums
    <3>2. CASE Rest(s) # {}
      <4>. DEFINE u == Rest(s)
      <4>0. u \in SUBSET T /\ u # {} /\ First(u) \in u /\ First(s) \in s
        BY <2>1, <2>2, <3>2
      <4>1. On(u)[u] = f[First(u)] + On(u)[Rest(u)]
        <5>1. Sums(On(u), f, u) /\ u \in SUBSET u
          BY <2>1, <2>2
        <5>. HIDE DEF On, u
        <5>. QED
          BY <4>0, <5>1 DEF Sums
      <4>2. On(u)[Rest(u)] = On(Rest(u))[Rest(u)]
        <5>1. Sums(On(u), f, u) /\ Sums(On(Rest(u)), f, Rest(u))
          BY <2>1, <2>2, <4>0
        <5>2. Rest(u) \in SUBSET (u \cap Rest(u)) /\ u \in SUBSET S /\ Rest(u) \in SUBSET S
          BY <4>0
        <5>. HIDE DEF On, Rest, u
        <5>. QED
          BY <5>1, <5>2, SumsAgree
      <4>3. g[u] = f[First(u)] + On(Rest(u))[Rest(u)]
        BY <4>0
      <4>. QED
        BY <4>1, <4>2, <4>3
    <3>. QED
      BY <3>1, <3>2
  <2>3. g = [s \in SUBSET T |-> IF s = {} THEN 0 ELSE f[First(s)] + g[Rest(s)]]
    <3>1. ASSUME NEW s \in SUBSET T
          PROVE  g[s] = IF s = {} THEN 0 ELSE f[First(s)] + g[Rest(s)]
      <4>1. CASE s = {}
        BY <4>1
      <4>2. CASE s # {}
        <5>1. g[s] = f[First(s)] + On(Rest(s))[Rest(s)]
          BY <4>2
        <5>2. On(Rest(s))[Rest(s)] = g[Rest(s)]
          BY <2>2, <4>2
        <5>. HIDE DEF g, On, Rest
        <5>. QED
          BY <4>2, <5>1, <5>2
      <4>. QED
        BY <4>1, <4>2
    <3>2. g = [s \in SUBSET T |-> g[s]]
      OBVIOUS
    <3>. HIDE DEF g, Rest
    <3>3. \A s \in SUBSET T : g[s] = IF s = {} THEN 0 ELSE f[First(s)] + g[Rest(s)]
      BY <3>1
    <3>. QED
      BY <3>2, <3>3
  <2>4. Sums(g, f, T)
    BY <2>3 DEF Sums
  <2>. QED
    BY <2>4
<1>2. \A T \in SUBSET S : T \in Good
  <2>. HIDE DEF Good
  <2>. QED
    BY <1>1, SubsetInduction
<1>. QED
  BY <1>2

\* The library's sum is a partial sum taken over the whole.
LEMMA SumIsLastOfSums ==
  ASSUME NEW S, IsFiniteSet(S), NEW f, \A x \in S : f[x] \in Int
  PROVE  \E g : Sums(g, f, S) /\ SumFunctionOnSet(f, S) = g[S]
<1>. DEFINE g == CHOOSE h : Sums(h, f, S)
<1>1. Sums(g, f, S)
  BY SumsExist
<1>2. SumFunctionOnSet(f, S) = g[S]
  BY DEF SumFunctionOnSet, FoldFunctionOnSet, MapThenFoldSet, Sums, First
<1>. QED
  BY <1>1, <1>2

\* Any element may be taken out first.
LEMMA SumsStep ==
  ASSUME NEW S, IsFiniteSet(S), NEW f, \A x \in S : f[x] \in Int,
         NEW g, Sums(g, f, S)
  PROVE  \A T \in SUBSET S : \A y \in T : g[T] = g[T \ {y}] + f[y]
<1>. DEFINE Good == {T \in SUBSET S : \A y \in T : g[T] = g[T \ {y}] + f[y]}
<1>0. \A T \in SUBSET S : g[T] \in Int
  BY SumsAgree
<1>1. ASSUME NEW T \in SUBSET S, \A U \in SUBSET T : U # T => U \in Good
      PROVE  T \in Good
  <2>. SUFFICES ASSUME NEW y \in T PROVE g[T] = g[T \ {y}] + f[y]
    OBVIOUS
  <2>. DEFINE x == First(T)
  <2>1. x \in T /\ g[T] = f[x] + g[T \ {x}]
    BY DEF Sums, First
  <2>. HIDE DEF x
  <2>2. f[x] \in Int /\ f[y] \in Int /\ g[T \ {x}] \in Int
        /\ g[T \ {y}] \in Int /\ g[(T \ {x}) \ {y}] \in Int
    BY <1>0, <2>1
  <2>3. CASE x = y
    BY <2>1, <2>2, <2>3
  <2>4. CASE x # y
    <3>1. T \ {x} \in Good /\ y \in T \ {x}
      BY <1>1, <2>1, <2>4
    <3>2. T \ {y} \in Good /\ x \in T \ {y}
      BY <1>1, <2>1, <2>4
    <3>3. (T \ {x}) \ {y} = (T \ {y}) \ {x}
      OBVIOUS
    <3>4. g[T \ {x}] = g[(T \ {x}) \ {y}] + f[y]
      BY <3>1
    <3>5. g[T \ {y}] = g[(T \ {y}) \ {x}] + f[x]
      BY <3>2
    <3>6. g[T \ {y}] = g[(T \ {x}) \ {y}] + f[x]
      BY <3>3, <3>5
    <3>. QED
      BY <2>1, <2>2, <3>4, <3>6
  <2>. QED
    BY <2>3, <2>4
<1>2. \A T \in SUBSET S : T \in Good
  <2>. HIDE DEF Good
  <2>. QED
    BY <1>1, SubsetInduction
<1>. QED
  BY <1>2

-----------------------------------------------------------------------------

\* The sum over nothing.
LEMMA SumOfNone ==
  ASSUME NEW f
  PROVE  SumFunctionOnSet(f, {}) = 0
<1>1. IsFiniteSet({}) /\ \A x \in {} : f[x] \in Int
  BY FS_EmptySet
<1>2. PICK g : Sums(g, f, {}) /\ SumFunctionOnSet(f, {}) = g[{}]
  BY <1>1, SumIsLastOfSums
<1>. QED
  BY <1>2 DEF Sums

\* A sum of integers is one.
LEMMA SumIsInt ==
  ASSUME NEW S, IsFiniteSet(S), NEW f, \A x \in S : f[x] \in Int
  PROVE  SumFunctionOnSet(f, S) \in Int
<1>1. PICK g : Sums(g, f, S) /\ SumFunctionOnSet(f, S) = g[S]
  BY SumIsLastOfSums
<1>. QED
  BY <1>1, SumsAgree

\* Taking an element out of the sum.
LEMMA SumRemove ==
  ASSUME NEW S, IsFiniteSet(S), NEW f, \A x \in S : f[x] \in Int, NEW y \in S
  PROVE  SumFunctionOnSet(f, S) = SumFunctionOnSet(f, S \ {y}) + f[y]
<1>1. PICK g : Sums(g, f, S) /\ SumFunctionOnSet(f, S) = g[S]
  BY SumIsLastOfSums
<1>2. IsFiniteSet(S \ {y}) /\ \A x \in S \ {y} : f[x] \in Int
  BY FS_RemoveElement
<1>3. PICK h : Sums(h, f, S \ {y}) /\ SumFunctionOnSet(f, S \ {y}) = h[S \ {y}]
  BY <1>2, SumIsLastOfSums
<1>4. g[S \ {y}] = h[S \ {y}]
  <2>1. S \ {y} \in SUBSET (S \cap (S \ {y}))
    OBVIOUS
  <2>. QED
    BY <1>1, <1>3, <2>1, SumsAgree
<1>5. g[S] = g[S \ {y}] + f[y]
  BY <1>1, SumsStep
<1>. QED
  BY <1>1, <1>3, <1>4, <1>5

\* Putting an element into it.
LEMMA SumInsert ==
  ASSUME NEW S, IsFiniteSet(S), NEW f, \A x \in S : f[x] \in Int,
         NEW y, y \notin S, f[y] \in Int
  PROVE  SumFunctionOnSet(f, S \cup {y}) = SumFunctionOnSet(f, S) + f[y]
<1>. DEFINE T == S \cup {y}
<1>1. IsFiniteSet(T) /\ \A x \in T : f[x] \in Int
  BY FS_AddElement
<1>2. T \ {y} = S /\ y \in T
  OBVIOUS
<1>. HIDE DEF T
<1>3. SumFunctionOnSet(f, T) = SumFunctionOnSet(f, S) + f[y]
  BY <1>1, <1>2, SumRemove
<1>. QED
  BY <1>3 DEF T

\* Equal terms have equal sums.
LEMMA SumSame ==
  ASSUME NEW S, IsFiniteSet(S), NEW f, NEW g,
         \A x \in S : f[x] \in Int /\ g[x] = f[x]
  PROVE  SumFunctionOnSet(g, S) = SumFunctionOnSet(f, S)
<1>. DEFINE Good == {T \in SUBSET S :
                       SumFunctionOnSet(g, T) = SumFunctionOnSet(f, T)}
<1>1. {} \in Good
  BY SumOfNone
<1>2. ASSUME NEW T \in SUBSET S, NEW x \in S \ T, T \in Good
      PROVE  T \cup {x} \in Good
  <2>1. IsFiniteSet(T)
    BY FS_Subset
  <2>2. SumFunctionOnSet(f, T \cup {x}) = SumFunctionOnSet(f, T) + f[x]
    BY <2>1, SumInsert
  <2>3. SumFunctionOnSet(g, T \cup {x}) = SumFunctionOnSet(g, T) + g[x]
    BY <2>1, SumInsert
  <2>. QED
    BY <1>2, <2>2, <2>3
<1>3. \A T \in SUBSET S : T \in Good
  <2>. HIDE DEF Good
  <2>. QED
    BY <1>1, <1>2, ElementInduction
<1>. QED
  BY <1>3

\* A sum is the sum of its parts.
LEMMA SumSplit ==
  ASSUME NEW S, IsFiniteSet(S), NEW T, IsFiniteSet(T), S \cap T = {},
         NEW f, \A x \in S \cup T : f[x] \in Int
  PROVE  SumFunctionOnSet(f, S \cup T)
           = SumFunctionOnSet(f, S) + SumFunctionOnSet(f, T)
<1>. DEFINE Good == {U \in SUBSET T : SumFunctionOnSet(f, S \cup U)
                       = SumFunctionOnSet(f, S) + SumFunctionOnSet(f, U)}
<1>0. SumFunctionOnSet(f, S) \in Int
  BY SumIsInt
<1>1. {} \in Good
  <2>1. S \cup {} = S
    OBVIOUS
  <2>. QED
    BY <1>0, <2>1, SumOfNone
<1>2. ASSUME NEW U \in SUBSET T, NEW x \in T \ U, U \in Good
      PROVE  U \cup {x} \in Good
  <2>1. IsFiniteSet(U) /\ IsFiniteSet(S \cup U)
    BY FS_Subset, FS_Union
  <2>2. SumFunctionOnSet(f, U \cup {x}) = SumFunctionOnSet(f, U) + f[x]
    BY <2>1, SumInsert
  <2>3. x \notin S \cup U /\ \A y \in S \cup U : f[y] \in Int
    OBVIOUS
  <2>4. SumFunctionOnSet(f, (S \cup U) \cup {x})
          = SumFunctionOnSet(f, S \cup U) + f[x]
    BY <2>1, <2>3, SumInsert
  <2>5. (S \cup U) \cup {x} = S \cup (U \cup {x})
    OBVIOUS
  <2>6. SumFunctionOnSet(f, U) \in Int /\ f[x] \in Int
    BY <2>1, SumIsInt
  <2>7. SumFunctionOnSet(f, S \cup U)
          = SumFunctionOnSet(f, S) + SumFunctionOnSet(f, U)
    BY <1>2
  <2>8. SumFunctionOnSet(f, S \cup (U \cup {x}))
          = SumFunctionOnSet(f, S) + SumFunctionOnSet(f, U \cup {x})
    <3>. DEFINE inAll == SumFunctionOnSet(f, S \cup U)
                inS == SumFunctionOnSet(f, S)
                inU == SumFunctionOnSet(f, U)
    <3>1. SumFunctionOnSet(f, S \cup (U \cup {x})) = inAll + f[x]
      BY <2>4, <2>5
    <3>2. /\ SumFunctionOnSet(f, U \cup {x}) = inU + f[x]
          /\ inAll = inS + inU
          /\ inS \in Int /\ inU \in Int /\ f[x] \in Int
      BY <1>0, <2>2, <2>6, <2>7
    <3>. HIDE DEF inAll, inS, inU
    <3>3. inAll + f[x] = inS + (inU + f[x])
      BY <3>2
    <3>. QED
      BY <3>1, <3>2, <3>3 DEF inS
  <2>. QED
    BY <2>8
<1>3. \A U \in SUBSET T : U \in Good
  <2>. HIDE DEF Good
  <2>. QED
    BY <1>1, <1>2, ElementInduction
<1>. QED
  BY <1>3

\* Sums of sums of terms.
LEMMA SumPlus ==
  ASSUME NEW S, IsFiniteSet(S), NEW f, NEW g, NEW h,
         \A x \in S : f[x] \in Int /\ g[x] \in Int /\ h[x] = f[x] + g[x]
  PROVE  SumFunctionOnSet(h, S) = SumFunctionOnSet(f, S) + SumFunctionOnSet(g, S)
<1>. DEFINE Good == {T \in SUBSET S : SumFunctionOnSet(h, T)
                       = SumFunctionOnSet(f, T) + SumFunctionOnSet(g, T)}
<1>1. {} \in Good
  BY SumOfNone
<1>2. ASSUME NEW T \in SUBSET S, NEW x \in S \ T, T \in Good
      PROVE  T \cup {x} \in Good
  <2>1. IsFiniteSet(T)
    BY FS_Subset
  <2>2. SumFunctionOnSet(f, T \cup {x}) = SumFunctionOnSet(f, T) + f[x]
    BY <2>1, SumInsert
  <2>3. SumFunctionOnSet(g, T \cup {x}) = SumFunctionOnSet(g, T) + g[x]
    BY <2>1, SumInsert
  <2>4. SumFunctionOnSet(h, T \cup {x}) = SumFunctionOnSet(h, T) + h[x]
    <3>1. \A y \in T \cup {x} : h[y] \in Int
      OBVIOUS
    <3>. QED
      BY <2>1, <3>1, SumInsert
  <2>5. SumFunctionOnSet(f, T) \in Int /\ SumFunctionOnSet(g, T) \in Int
    BY <2>1, SumIsInt
  <2>6. f[x] \in Int /\ g[x] \in Int /\ h[x] = f[x] + g[x]
    OBVIOUS
  <2>7. SumFunctionOnSet(h, T)
          = SumFunctionOnSet(f, T) + SumFunctionOnSet(g, T)
    BY <1>2
  <2>. QED
    BY <2>2, <2>3, <2>4, <2>5, <2>6, <2>7
<1>3. \A T \in SUBSET S : T \in Good
  <2>. HIDE DEF Good
  <2>. QED
    BY <1>1, <1>2, ElementInduction
<1>. QED
  BY <1>3

\* Larger terms have the larger sum.
LEMMA SumAtMost ==
  ASSUME NEW S, IsFiniteSet(S), NEW f, NEW g,
         \A x \in S : f[x] \in Int /\ g[x] \in Int /\ f[x] <= g[x]
  PROVE  SumFunctionOnSet(f, S) <= SumFunctionOnSet(g, S)
<1>. DEFINE Good == {T \in SUBSET S :
                       SumFunctionOnSet(f, T) <= SumFunctionOnSet(g, T)}
<1>1. {} \in Good
  BY SumOfNone
<1>2. ASSUME NEW T \in SUBSET S, NEW x \in S \ T, T \in Good
      PROVE  T \cup {x} \in Good
  <2>1. IsFiniteSet(T)
    BY FS_Subset
  <2>2. SumFunctionOnSet(f, T \cup {x}) = SumFunctionOnSet(f, T) + f[x]
    BY <2>1, SumInsert
  <2>3. SumFunctionOnSet(g, T \cup {x}) = SumFunctionOnSet(g, T) + g[x]
    BY <2>1, SumInsert
  <2>4. SumFunctionOnSet(f, T) \in Int /\ SumFunctionOnSet(g, T) \in Int
    BY <2>1, SumIsInt
  <2>. QED
    BY <1>2, <2>2, <2>3, <2>4
<1>3. \A T \in SUBSET S : T \in Good
  <2>. HIDE DEF Good
  <2>. QED
    BY <1>1, <1>2, ElementInduction
<1>. QED
  BY <1>3

\* A sum of nothing but zeroes.
LEMMA SumOfZeroes ==
  ASSUME NEW S, IsFiniteSet(S), NEW f, \A x \in S : f[x] = 0
  PROVE  SumFunctionOnSet(f, S) = 0
<1>. DEFINE Good == {T \in SUBSET S : SumFunctionOnSet(f, T) = 0}
<1>1. {} \in Good
  BY SumOfNone
<1>2. ASSUME NEW T \in SUBSET S, NEW x \in S \ T, T \in Good
      PROVE  T \cup {x} \in Good
  <2>1. IsFiniteSet(T)
    BY FS_Subset
  <2>2. SumFunctionOnSet(f, T \cup {x}) = SumFunctionOnSet(f, T) + f[x]
    BY <2>1, SumInsert
  <2>. QED
    BY <1>2, <2>2
<1>3. \A T \in SUBSET S : T \in Good
  <2>. HIDE DEF Good
  <2>. QED
    BY <1>1, <1>2, ElementInduction
<1>. QED
  BY <1>3

\* The sum over one element.
LEMMA SumOfOne ==
  ASSUME NEW x, NEW f, f[x] \in Int
  PROVE  SumFunctionOnSet(f, {x}) = f[x]
<1>1. IsFiniteSet({x}) /\ {x} \ {x} = {}
  BY FS_Singleton
<1>2. SumFunctionOnSet(f, {x}) = SumFunctionOnSet(f, {x} \ {x}) + f[x]
  BY <1>1, SumRemove
<1>. QED
  BY <1>1, <1>2, SumOfNone

\* A sum of nonnegative terms is none of them less.
LEMMA SumCovers ==
  ASSUME NEW S, IsFiniteSet(S), NEW f, \A x \in S : f[x] \in Nat
  PROVE  /\ SumFunctionOnSet(f, S) \in Nat
         /\ \A x \in S : f[x] <= SumFunctionOnSet(f, S)
<1>1. ASSUME NEW T \in SUBSET S PROVE SumFunctionOnSet(f, T) \in Nat
  <2>. DEFINE none == [x \in T |-> 0]
  <2>1. IsFiniteSet(T)
    BY FS_Subset
  <2>2. SumFunctionOnSet(none, T) = 0
    BY <2>1, SumOfZeroes
  <2>3. \A x \in T : none[x] \in Int /\ f[x] \in Int /\ none[x] <= f[x]
    OBVIOUS
  <2>. HIDE DEF none
  <2>4. SumFunctionOnSet(none, T) <= SumFunctionOnSet(f, T)
    BY <2>1, <2>3, SumAtMost
  <2>. QED
    BY <2>1, <2>2, <2>4, SumIsInt
<1>2. ASSUME NEW x \in S PROVE f[x] <= SumFunctionOnSet(f, S)
  <2>1. SumFunctionOnSet(f, S) = SumFunctionOnSet(f, S \ {x}) + f[x]
    BY SumRemove
  <2>2. SumFunctionOnSet(f, S \ {x}) \in Nat
    BY <1>1
  <2>. QED
    BY <2>1, <2>2
<1>. QED
  BY <1>1, <1>2

\* A sum in which one term has changed.
LEMMA SumChange ==
  ASSUME NEW S, IsFiniteSet(S), NEW f, NEW g, NEW y \in S,
         \A x \in S : f[x] \in Int /\ g[x] \in Int,
         \A x \in S \ {y} : g[x] = f[x]
  PROVE  SumFunctionOnSet(g, S) = SumFunctionOnSet(f, S) - f[y] + g[y]
<1>1. IsFiniteSet(S \ {y})
  BY FS_RemoveElement
<1>2. SumFunctionOnSet(f, S) = SumFunctionOnSet(f, S \ {y}) + f[y]
  BY SumRemove
<1>3. SumFunctionOnSet(g, S) = SumFunctionOnSet(g, S \ {y}) + g[y]
  BY SumRemove
<1>4. SumFunctionOnSet(g, S \ {y}) = SumFunctionOnSet(f, S \ {y})
  BY <1>1, SumSame
<1>5. SumFunctionOnSet(f, S \ {y}) \in Int
  BY <1>1, SumIsInt
<1>. QED
  BY <1>2, <1>3, <1>4, <1>5

-----------------------------------------------------------------------------
(* Sums over what a set is made of. *)

\* A finite set has finitely many images.
LEMMA ImageIsFinite ==
  ASSUME NEW S, IsFiniteSet(S), NEW e
  PROVE  IsFiniteSet({e[x] : x \in S})
<1>. DEFINE h == [x \in S |-> e[x]]
            T == {e[x] : x \in S}
<1>1. h \in Surjection(S, T)
  BY DEF Surjection
<1>. HIDE DEF h, T
<1>2. IsFiniteSet(T)
  BY <1>1, FS_Surjection
<1>. QED
  BY <1>2 DEF T

\* Over the images of a set's elements, no two the same.
LEMMA SumImage ==
  ASSUME NEW S, IsFiniteSet(S), NEW e, \A x, y \in S : e[x] = e[y] => x = y,
         NEW f, NEW g, \A x \in S : f[e[x]] \in Int /\ g[x] = f[e[x]]
  PROVE  SumFunctionOnSet(f, {e[x] : x \in S}) = SumFunctionOnSet(g, S)
<1>. DEFINE Image(T) == {e[x] : x \in T}
            Good == {T \in SUBSET S : SumFunctionOnSet(f, Image(T))
                                        = SumFunctionOnSet(g, T)}
<1>1. {} \in Good
  <2>1. Image({}) = {}
    OBVIOUS
  <2>. QED
    BY <2>1, SumOfNone
<1>2. ASSUME NEW T \in SUBSET S, NEW x \in S \ T, T \in Good
      PROVE  T \cup {x} \in Good
  <2>1. IsFiniteSet(T)
    BY FS_Subset
  <2>2. IsFiniteSet(Image(T))
    BY <2>1, ImageIsFinite
  <2>3. /\ Image(T \cup {x}) = Image(T) \cup {e[x]} /\ e[x] \notin Image(T)
        /\ \A y \in Image(T) : f[y] \in Int
    OBVIOUS
  <2>4. SumFunctionOnSet(f, Image(T)) = SumFunctionOnSet(g, T)
    BY <1>2
  <2>5. SumFunctionOnSet(g, T \cup {x}) = SumFunctionOnSet(g, T) + g[x]
    <3>1. \A y \in T : g[y] \in Int
      OBVIOUS
    <3>2. x \notin T /\ g[x] \in Int
      OBVIOUS
    <3>. QED
      BY <2>1, <3>1, <3>2, SumInsert
  <2>6. f[e[x]] \in Int /\ g[x] = f[e[x]]
    OBVIOUS
  <2>7. SumFunctionOnSet(f, Image(T) \cup {e[x]})
          = SumFunctionOnSet(f, Image(T)) + f[e[x]]
    <3>. HIDE DEF Image
    <3>. QED
      BY <2>2, <2>3, <2>6, SumInsert
  <2>8. SumFunctionOnSet(f, Image(T \cup {x})) = SumFunctionOnSet(g, T \cup {x})
    <3>. HIDE DEF Image, Good
    <3>. QED
      BY <2>3, <2>4, <2>5, <2>6, <2>7
  <2>. QED
    BY <2>8
<1>3. S \in SUBSET S
  OBVIOUS
<1>4. S \in Good
  <2>. HIDE DEF Good
  <2>. QED
    BY <1>1, <1>2, <1>3, ElementInduction
<1>. QED
  BY <1>4

\* Over the union of a family of sets, no two with an element in common.
LEMMA SumUnion ==
  ASSUME NEW K, IsFiniteSet(K), NEW F, \A k \in K : IsFiniteSet(F[k]),
         \A k, j \in K : k # j => F[k] \cap F[j] = {},
         NEW f, \A k \in K : \A x \in F[k] : f[x] \in Int,
         NEW g, \A k \in K : g[k] = SumFunctionOnSet(f, F[k]),
         NEW All, \A x : x \in All <=> \E k \in K : x \in F[k]
  PROVE  IsFiniteSet(All) /\ SumFunctionOnSet(f, All) = SumFunctionOnSet(g, K)
<1>. DEFINE Part(T) == UNION {F[k] : k \in T}
            Good == {T \in SUBSET K :
                       /\ IsFiniteSet(Part(T))
                       /\ SumFunctionOnSet(f, Part(T)) = SumFunctionOnSet(g, T)}
<1>0. \A k \in K : g[k] \in Int
  BY SumIsInt
<1>1. {} \in Good
  <2>1. Part({}) = {}
    OBVIOUS
  <2>. QED
    BY <2>1, SumOfNone, FS_EmptySet
<1>2. ASSUME NEW T \in SUBSET K, NEW k \in K \ T, T \in Good
      PROVE  T \cup {k} \in Good
  <2>1. IsFiniteSet(T)
    BY FS_Subset
  <2>2. /\ Part(T \cup {k}) = Part(T) \cup F[k] /\ Part(T) \cap F[k] = {}
        /\ \A x \in Part(T) \cup F[k] : f[x] \in Int
    OBVIOUS
  <2>3. /\ IsFiniteSet(Part(T)) /\ IsFiniteSet(F[k])
        /\ SumFunctionOnSet(f, Part(T)) = SumFunctionOnSet(g, T)
    BY <1>2
  <2>4. SumFunctionOnSet(g, T \cup {k}) = SumFunctionOnSet(g, T) + g[k]
    <3>1. \A y \in T : g[y] \in Int
      BY <1>0
    <3>2. k \notin T /\ g[k] \in Int
      BY <1>0
    <3>. QED
      BY <2>1, <3>1, <3>2, SumInsert
  <2>5. /\ IsFiniteSet(Part(T) \cup F[k])
        /\ SumFunctionOnSet(f, Part(T) \cup F[k])
             = SumFunctionOnSet(f, Part(T)) + SumFunctionOnSet(f, F[k])
    <3>. DEFINE A == Part(T)
                B == F[k]
    <3>1. /\ IsFiniteSet(A) /\ IsFiniteSet(B) /\ A \cap B = {}
          /\ \A x \in A \cup B : f[x] \in Int
      BY <2>2, <2>3
    <3>. HIDE DEF A, B
    <3>2. IsFiniteSet(A \cup B)
      BY <3>1, FS_Union
    <3>3. SumFunctionOnSet(f, A \cup B)
            = SumFunctionOnSet(f, A) + SumFunctionOnSet(f, B)
      BY <3>1, SumSplit
    <3>. QED
      BY <3>2, <3>3 DEF A, B
  <2>6. g[k] = SumFunctionOnSet(f, F[k])
    OBVIOUS
  <2>7. /\ IsFiniteSet(Part(T \cup {k}))
        /\ SumFunctionOnSet(f, Part(T \cup {k})) = SumFunctionOnSet(g, T \cup {k})
    <3>. HIDE DEF Part, Good
    <3>. QED
      BY <2>2, <2>3, <2>4, <2>5, <2>6
  <2>. QED
    BY <2>7
<1>3. K \in SUBSET K
  OBVIOUS
<1>4. IsFiniteSet(Part(K)) /\ SumFunctionOnSet(f, Part(K)) = SumFunctionOnSet(g, K)
  <2>1. K \in Good
    <3>. HIDE DEF Good
    <3>. QED
      BY <1>1, <1>2, <1>3, ElementInduction
  <2>. QED
    BY <2>1
<1>5. Part(K) = All
  OBVIOUS
<1>. HIDE DEF Part
<1>. QED
  BY <1>4, <1>5

\* A sum is the sum of what its groups come to, where each element is in the group
\* of its key.
LEMMA SumByKey ==
  ASSUME NEW S, IsFiniteSet(S), NEW K, IsFiniteSet(K),
         NEW key, \A x \in S : key[x] \in K,
         NEW f, \A x \in S : f[x] \in Int,
         NEW P, \A k \in K : P[k] \subseteq S,
         \A k \in K : \A x \in S : x \in P[k] <=> key[x] = k,
         NEW h, \A k \in K : \A x \in P[k] : h[k][x] = f[x],
         NEW g, \A k \in K : g[k] = SumFunctionOnSet(h[k], P[k])
  PROVE  SumFunctionOnSet(f, S) = SumFunctionOnSet(g, K)
<1>4. ASSUME NEW k \in K
      PROVE  /\ IsFiniteSet(P[k]) /\ \A x \in P[k] : f[x] \in Int
             /\ g[k] = SumFunctionOnSet(f, P[k])
  <2>1. P[k] \subseteq S /\ IsFiniteSet(P[k])
    BY FS_Subset
  <2>2. \A x \in P[k] : f[x] \in Int /\ h[k][x] = f[x]
    BY <2>1
  <2>3. SumFunctionOnSet(h[k], P[k]) = SumFunctionOnSet(f, P[k])
    BY <2>1, <2>2, SumSame
  <2>. QED
    BY <2>1, <2>2, <2>3
<1>5. /\ \A x : x \in S <=> \E k \in K : x \in P[k]
      /\ \A k, j \in K : k # j => P[k] \cap P[j] = {}
  OBVIOUS
<1>6. /\ IsFiniteSet(K) /\ \A k \in K : IsFiniteSet(P[k])
      /\ \A k, j \in K : k # j => P[k] \cap P[j] = {}
      /\ \A k \in K : \A x \in P[k] : f[x] \in Int
      /\ \A k \in K : g[k] = SumFunctionOnSet(f, P[k])
      /\ \A x : x \in S <=> \E k \in K : x \in P[k]
  BY <1>4, <1>5
<1>. QED
  BY <1>6, SumUnion, SMTT(60)
===============================================================================
