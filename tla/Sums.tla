---------------------------------- MODULE Sums ----------------------------------
(***************************************************************************)
(* Sums over finite sets, for the proofs about balances, positions and     *)
(* price levels: taking out an element, changing one, splitting the set.   *)
(*                                                                         *)
(* The library's induction principles are about an operator, which the     *)
(* provers cannot instantiate. Induction is done here with a set instead:  *)
(* the numbers, or the subsets, for which a fact fails have a least one.   *)
(***************************************************************************)
EXTENDS FiniteSetsExt, FiniteSetTheorems, TLAPS

\* A nonempty set of naturals has a least element.
LEMMA NatMin ==
  ASSUME NEW T, T \subseteq Nat, T # {}
  PROVE  \E x \in T : \A y \in T : x <= y
<1> DEFINE R == {ss \in Nat \X Nat : ss[1] < ss[2]}
<1>1. IsWellFoundedOn(R, Nat)
  BY NatLessThanWellFounded, Zenon DEF OpToRel
<1>2. PICK x \in T : \A y \in T : ~(<<y, x>> \in R)
  <2> HIDE DEF R
  <2> QED
    BY <1>1, WFMin
<1>3. ASSUME NEW y \in T PROVE x <= y
  <2>1. x \in Nat /\ y \in Nat /\ ~(<<y, x>> \in R)
    BY <1>2
  <2>2. ~(y < x)
    BY <2>1
  <2> QED
    BY <2>1, <2>2
<1> QED
  BY <1>3

\* Induction over the natural numbers, on a set of them.
LEMMA NatClosed ==
  ASSUME NEW T, T \subseteq Nat, 0 \in T, \A n \in T : n + 1 \in T
  PROVE  T = Nat
<1> SUFFICES ASSUME Nat \ T # {} PROVE FALSE
  OBVIOUS
<1>1. PICK m \in Nat \ T : \A n \in Nat \ T : m <= n
  BY NatMin
<1>2. m # 0 /\ m - 1 \in Nat
  BY <1>1
<1>3. m - 1 \in T
  BY <1>1, <1>2
<1> QED
  BY <1>1, <1>2, <1>3

\* Among sets of subsets of a finite set there is one without a smaller one.
LEMMA LeastSubset ==
  ASSUME NEW S, IsFiniteSet(S), NEW B, B \subseteq SUBSET S, B # {}
  PROVE  \E T \in B : \A U \in B : U \subseteq T => U = T
<1>1. IsWellFoundedOn(StrictSubsetOrdering(S), SUBSET S)
  BY FS_StrictSubsetOrderingWellFounded, FS_FiniteSubsetsOfFinite
<1>2. PICK T \in B : \A U \in B : ~(<<U, T>> \in StrictSubsetOrdering(S))
  BY <1>1, WFMin
<1> QED
  BY <1>2 DEF StrictSubsetOrdering

-------------------------------------------------------------------------------

\* The sum of f over S, as the properties write it with MapThenSumSet.
SumOver(f, S) == MapThenSumSet(LAMBDA x : f[x], S)

SumStep(g, f, s) ==
  IF s = {} THEN 0 ELSE f[CHOOSE x \in s : TRUE] + g[s \ {CHOOSE x \in s : TRUE}]

IsSum(g, f, S) == g = [s \in SUBSET S |-> SumStep(g, f, s)]

\* The definition of the sum, one element at a time.
LEMMA SumUnfolds ==
  ASSUME NEW S, NEW f
  PROVE  SumOver(f, S) = (CHOOSE g : IsSum(g, f, S))[S]
BY DEF SumOver, MapThenSumSet, MapThenFoldSet, IsSum, SumStep

\* The recursion that defines a sum has a solution: it is built up by size.
LEMMA SumExists ==
  ASSUME NEW S, IsFiniteSet(S), NEW f
  PROVE  \E g : IsSum(g, f, S)
<1> DEFINE Small(n) == {s \in SUBSET S : Cardinality(s) <= n}
           Solves(g, n) == g = [s \in Small(n) |-> SumStep(g, f, s)]
           T == {n \in Nat : \E g : Solves(g, n)}
<1>1. \A s \in SUBSET S : IsFiniteSet(s) /\ Cardinality(s) \in Nat
                          /\ (Cardinality(s) = 0 <=> s = {})
  BY FS_Subset, FS_CardinalityType, FS_EmptySet
<1>2. ASSUME NEW s \in SUBSET S, s # {}
      PROVE  /\ s \ {CHOOSE x \in s : TRUE} \in SUBSET S
             /\ Cardinality(s \ {CHOOSE x \in s : TRUE}) = Cardinality(s) - 1
  <2>1. (CHOOSE x \in s : TRUE) \in s
    BY <1>2
  <2> QED BY <1>1, <2>1, FS_RemoveElement
<1>3. 0 \in T
  <2> DEFINE g == [s \in Small(0) |-> 0]
  <2>1. \A s \in Small(0) : s = {}
    BY <1>1
  <2>2. \A s \in Small(0) : SumStep(g, f, s) = 0
    BY <2>1 DEF SumStep
  <2>3. Solves(g, 0)
    BY <2>2, Zenon
  <2> QED BY <2>3
<1>4. ASSUME NEW n \in T PROVE n + 1 \in T
  <2>1. PICK g : Solves(g, n)
    BY <1>4
  <2> DEFINE h == [s \in Small(n + 1) |-> SumStep(g, f, s)]
  <2>2. ASSUME NEW s \in Small(n + 1) PROVE SumStep(h, f, s) = SumStep(g, f, s)
    <3>1. CASE s = {}
      BY <3>1 DEF SumStep
    <3>2. CASE s # {}
      <4> DEFINE r == s \ {CHOOSE x \in s : TRUE}
      <4>1. r \in Small(n) /\ r \in Small(n + 1)
        <5>1. r \in SUBSET S /\ Cardinality(r) = Cardinality(s) - 1
          BY <1>2, <3>2
        <5>2. Cardinality(s) \in Nat /\ Cardinality(s) <= n + 1
          BY <1>1
        <5> HIDE DEF r
        <5> QED BY <5>1, <5>2
      <4>2. h[r] = SumStep(g, f, r)
        BY <4>1
      <4>3. g[r] = SumStep(g, f, r)
        <5> HIDE DEF r, Small
        <5> QED BY <2>1, <4>1
      <4>4. h[s \ {CHOOSE x \in s : TRUE}] = g[s \ {CHOOSE x \in s : TRUE}]
        BY <4>2, <4>3
      <4> HIDE DEF h
      <4> QED BY <4>4, <3>2, Zenon DEF SumStep
    <3> QED BY <3>1, <3>2
  <2>3. Solves(h, n + 1)
    BY <2>2, Zenon
  <2> HIDE DEF h, Solves
  <2> QED BY <2>3
<1>5. T = Nat
  <2> HIDE DEF T
  <2>1. T \subseteq Nat
    BY DEF T
  <2> QED BY <1>3, <1>4, <2>1, NatClosed
<1>6. PICK g : Solves(g, Cardinality(S))
  BY <1>1, <1>5
<1>7. Small(Cardinality(S)) = SUBSET S
  BY FS_Subset, FS_CardinalityType
<1> QED BY <1>6, <1>7, Zenon DEF IsSum

\* What a sum over a nonempty set begins with, and that solutions of the recursion
\* over a set and over a subset of it agree there.
LEMMA SumsAgree ==
  ASSUME NEW S, IsFiniteSet(S), NEW f, NEW R \in SUBSET S, NEW g, NEW h,
         IsSum(g, f, S), IsSum(h, f, R)
  PROVE  \A s \in SUBSET R : g[s] = h[s]
<1> DEFINE B == {s \in SUBSET R : g[s] # h[s]}
<1> SUFFICES ASSUME B # {} PROVE FALSE
  OBVIOUS
<1>1. IsFiniteSet(R)
  BY FS_Subset
<1>2. PICK s \in B : \A u \in B : u \subseteq s => u = s
  <2> HIDE DEF B
  <2>1. B \subseteq SUBSET R
    BY DEF B
  <2> QED BY <1>1, <2>1, LeastSubset
<1>3. s \in SUBSET R /\ s \in SUBSET S /\ g[s] # h[s]
  OBVIOUS
<1>4. g[s] = SumStep(g, f, s) /\ h[s] = SumStep(h, f, s)
  BY <1>3 DEF IsSum
<1>5. CASE s = {}
  BY <1>3, <1>4, <1>5 DEF SumStep
<1>6. CASE s # {}
  <2> DEFINE x == CHOOSE x \in s : TRUE
             r == s \ {x}
  <2>1. x \in s
    BY <1>6
  <2>2. r \in SUBSET R /\ r \subseteq s /\ r # s
    BY <1>3, <2>1
  <2>3. g[r] = h[r]
    BY <1>2, <2>2
  <2>4. g[s] = f[x] + g[r] /\ h[s] = f[x] + h[r]
    BY <1>4, <1>6 DEF SumStep
  <2> QED BY <1>3, <2>3, <2>4
<1> QED BY <1>5, <1>6

\* One sum function serves all subsets.
LEMMA SumOfSubsets ==
  ASSUME NEW S, IsFiniteSet(S), NEW f
  PROVE  \E g : /\ IsSum(g, f, S)
               /\ \A s \in SUBSET S : g[s] = SumOver(f, s)
<1>1. PICK g : IsSum(g, f, S)
  BY SumExists
<1>2. ASSUME NEW s \in SUBSET S PROVE g[s] = SumOver(f, s)
  <2> DEFINE h == CHOOSE h : IsSum(h, f, s)
  <2>1. IsFiniteSet(s)
    BY FS_Subset
  <2>2. IsSum(h, f, s)
    BY <2>1, SumExists
  <2> HIDE DEF h
  <2>3. g[s] = h[s]
    BY <1>1, <2>2, SumsAgree
  <2> QED BY <2>3, SumUnfolds DEF h
<1> QED BY <1>1, <1>2

\* Nothing sums up to 0.
LEMMA SumEmpty ==
  ASSUME NEW f
  PROVE  SumOver(f, {}) = 0
<1>1. IsFiniteSet({}) /\ {} \in SUBSET {}
  BY FS_EmptySet
<1>2. PICK g : IsSum(g, f, {}) /\ \A s \in SUBSET {} : g[s] = SumOver(f, s)
  BY <1>1, SumOfSubsets
<1> QED BY <1>1, <1>2 DEF IsSum, SumStep

\* A sum of integers is an integer, and any element can be taken out of it.
LEMMA SumRemove ==
  ASSUME NEW S, IsFiniteSet(S), NEW f, \A x \in S : f[x] \in Int
  PROVE  /\ SumOver(f, S) \in Int
         /\ \A x \in S : SumOver(f, S) = f[x] + SumOver(f, S \ {x})
<1>1. PICK g : IsSum(g, f, S) /\ \A s \in SUBSET S : g[s] = SumOver(f, s)
  BY SumOfSubsets
<1>2. /\ \A s \in SUBSET S : s # {} =>
           \E x \in s : g[s] = f[x] + g[s \ {x}]
      /\ g[{}] = 0
  BY <1>1 DEF IsSum, SumStep
<1> DEFINE Good(s) == g[s] \in Int /\ \A x \in s : g[s] = f[x] + g[s \ {x}]
           B == {s \in SUBSET S : ~Good(s)}
<1>3. ASSUME B # {} PROVE FALSE
  <2>1. PICK s \in B : \A u \in B : u \subseteq s => u = s
    <3>1. B \subseteq SUBSET S
      OBVIOUS
    <3> HIDE DEF B
    <3> QED BY <1>3, <3>1, LeastSubset
  <2>2. \A u \in SUBSET S : u \subseteq s /\ u # s => Good(u)
    BY <2>1
  <2>3. s # {}
    <3>1. ~Good(s)
      BY <2>1
    <3>2. Good({})
      BY <1>2
    <3> QED BY <3>1, <3>2, Zenon
  <2>4. PICK x \in s : g[s] = f[x] + g[s \ {x}]
    BY <1>2, <2>1, <2>3
  <2>5. Good(s \ {x})
    BY <2>2
  <2>6. g[s] \in Int
    BY <2>4, <2>5
  <2>7. ASSUME NEW y \in s PROVE g[s] = f[y] + g[s \ {y}]
    <3>1. CASE y = x
      BY <2>4, <3>1
    <3>2. CASE y # x
      <4>1. Good(s \ {y}) /\ Good(s \ {x}) /\ Good((s \ {x}) \ {y})
        BY <2>2, <2>4, <3>2
      <4>2. (s \ {x}) \ {y} = (s \ {y}) \ {x}
        OBVIOUS
      <4>3. /\ g[s \ {x}] = f[y] + g[(s \ {x}) \ {y}]
            /\ g[s \ {y}] = f[x] + g[(s \ {x}) \ {y}]
        BY <4>1, <4>2, <3>2
      <4>4. f[x] \in Int /\ f[y] \in Int /\ g[(s \ {x}) \ {y}] \in Int
        BY <4>1
      <4> QED BY <2>4, <4>3, <4>4
    <3> QED BY <3>1, <3>2
  <2> QED BY <2>1, <2>6, <2>7
<1>4. Good(S)
  BY <1>3
<1>5. \A x \in S : S \ {x} \in SUBSET S
  OBVIOUS
<1> QED BY <1>1, <1>4, <1>5

\* Only the values on the set matter.
LEMMA SumSame ==
  ASSUME NEW S, IsFiniteSet(S), NEW f, NEW g,
         \A x \in S : f[x] \in Int /\ f[x] = g[x]
  PROVE  SumOver(f, S) = SumOver(g, S)
<1> DEFINE B == {s \in SUBSET S : SumOver(f, s) # SumOver(g, s)}
<1>1. ASSUME B # {} PROVE FALSE
  <2>1. PICK s \in B : \A u \in B : u \subseteq s => u = s
    <3>1. B \subseteq SUBSET S
      OBVIOUS
    <3> HIDE DEF B
    <3> QED BY <1>1, <3>1, LeastSubset
  <2>2. s # {}
    BY SumEmpty
  <2>3. PICK x \in s : TRUE
    BY <2>2
  <2>4. IsFiniteSet(s) /\ \A y \in s : f[y] \in Int /\ g[y] \in Int
    BY FS_Subset
  <2>5. SumOver(f, s) = f[x] + SumOver(f, s \ {x}) /\ SumOver(g, s) = g[x] + SumOver(g, s \ {x})
    BY <2>3, <2>4, SumRemove
  <2>6. SumOver(f, s \ {x}) = SumOver(g, s \ {x})
    BY <2>1, <2>3
  <2> QED BY <2>1, <2>5, <2>6
<1> QED BY <1>1

\* Zeros sum up to 0.
LEMMA SumZero ==
  ASSUME NEW S, IsFiniteSet(S), NEW f, \A x \in S : f[x] = 0
  PROVE  SumOver(f, S) = 0
<1> DEFINE B == {s \in SUBSET S : SumOver(f, s) # 0}
<1>1. ASSUME B # {} PROVE FALSE
  <2>1. PICK s \in B : \A u \in B : u \subseteq s => u = s
    <3>1. B \subseteq SUBSET S
      OBVIOUS
    <3> HIDE DEF B
    <3> QED BY <1>1, <3>1, LeastSubset
  <2>2. PICK x \in s : TRUE
    BY SumEmpty
  <2>3. IsFiniteSet(s) /\ \A y \in s : f[y] \in Int
    BY FS_Subset
  <2>4. SumOver(f, s) = f[x] + SumOver(f, s \ {x})
    BY <2>2, <2>3, SumRemove
  <2>5. SumOver(f, s \ {x}) = 0
    BY <2>1, <2>2
  <2> QED BY <2>1, <2>4, <2>5
<1> QED BY <1>1

\* A sum of naturals is one, and no element exceeds it.
LEMMA SumNat ==
  ASSUME NEW S, IsFiniteSet(S), NEW f, \A x \in S : f[x] \in Nat
  PROVE  SumOver(f, S) \in Nat /\ \A x \in S : f[x] <= SumOver(f, S)
<1> DEFINE B == {s \in SUBSET S : SumOver(f, s) \notin Nat}
<1>1. ASSUME B # {} PROVE FALSE
  <2>1. PICK s \in B : \A u \in B : u \subseteq s => u = s
    <3>1. B \subseteq SUBSET S
      OBVIOUS
    <3> HIDE DEF B
    <3> QED BY <1>1, <3>1, LeastSubset
  <2>2. s # {}
    BY SumEmpty
  <2>3. PICK x \in s : TRUE
    BY <2>2
  <2>4. IsFiniteSet(s) /\ \A y \in s : f[y] \in Int
    BY FS_Subset
  <2>5. SumOver(f, s) = f[x] + SumOver(f, s \ {x})
    BY <2>3, <2>4, SumRemove
  <2>6. SumOver(f, s \ {x}) \in Nat
    BY <2>1, <2>3
  <2> QED BY <2>1, <2>5, <2>6
<1>2. \A s \in SUBSET S : SumOver(f, s) \in Nat
  BY <1>1
<1>3. ASSUME NEW x \in S PROVE f[x] <= SumOver(f, S)
  <2>1. SumOver(f, S) = f[x] + SumOver(f, S \ {x})
    BY SumRemove
  <2> QED BY <1>2, <2>1
<1> QED BY <1>2, <1>3

\* Changing one value changes the sum by as much.
LEMMA SumChange ==
  ASSUME NEW S, IsFiniteSet(S), NEW f, NEW g, NEW x \in S,
         \A y \in S : f[y] \in Int /\ g[y] \in Int,
         \A y \in S \ {x} : f[y] = g[y]
  PROVE  SumOver(g, S) = SumOver(f, S) + g[x] - f[x]
<1>1. IsFiniteSet(S \ {x})
  BY FS_RemoveElement
<1>2. SumOver(g, S \ {x}) = SumOver(f, S \ {x}) /\ SumOver(f, S \ {x}) \in Int
  BY <1>1, SumSame, SumRemove
<1>3. SumOver(f, S) = f[x] + SumOver(f, S \ {x}) /\ SumOver(g, S) = g[x] + SumOver(g, S \ {x})
  BY SumRemove
<1> QED BY <1>2, <1>3

\* Adding an element to the set adds its value.
LEMMA SumAdd ==
  ASSUME NEW S, IsFiniteSet(S), NEW f, NEW x, x \notin S,
         f[x] \in Int, \A y \in S : f[y] \in Int
  PROVE  SumOver(f, S \cup {x}) = SumOver(f, S) + f[x]
<1> DEFINE T == S \cup {x}
<1>1. IsFiniteSet(T) /\ T \ {x} = S /\ x \in T /\ \A y \in T : f[y] \in Int
  BY FS_AddElement
<1> HIDE DEF T
<1>2. SumOver(f, T) = f[x] + SumOver(f, S) /\ SumOver(f, S) \in Int
  BY <1>1, SumRemove
<1>3. SumOver(f, T) = SumOver(f, S) + f[x]
  BY <1>2
<1> QED BY <1>3 DEF T
===============================================================================
