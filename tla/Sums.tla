-------------------------------- MODULE Sums --------------------------------
(***************************************************************************)
(* Sums over a finite domain.  SumFunction of the community modules folds  *)
(* over a set with a recursive function; what it computes is shown by      *)
(* induction on the subsets of the domain, through the library's theorem   *)
(* that every non-empty part of a well-founded set has a minimal element.  *)
(* The accounts of Trading and Backtest are added up with it.              *)
(***************************************************************************)
EXTENDS Integers, FiniteSets, Functions, FiniteSetTheorems, WellFoundedInduction, TLAPS

\* Induction on the natural numbers, for a set in the place of a predicate.
LEMMA NaturalInduction ==
    ASSUME NEW T \in SUBSET Nat, 0 \in T, \A n \in T : n + 1 \in T
    PROVE  T = Nat
<1>. SUFFICES ASSUME T # Nat PROVE FALSE
  OBVIOUS
<1>. DEFINE Rest == Nat \ T
<1>1. Rest # {} /\ Rest \subseteq Nat
  OBVIOUS
<1>2. PICK n \in Rest : \A m \in Rest : ~(<<m, n>> \in OpToRel(<, Nat))
  <2>. HIDE DEF Rest
  <2>. QED
    BY <1>1, NatLessThanWellFounded, WFMin
<1>3. \A m \in Rest : ~(m < n)
  BY <1>2 DEF OpToRel
<1>4. n # 0 /\ n - 1 \in Nat /\ n - 1 < n
  OBVIOUS
<1>5. n - 1 \in T
  BY <1>3, <1>4
<1>. QED
  BY <1>5

\* Induction on the subsets of a finite set.
LEMMA SubsetInduction ==
    ASSUME NEW D, IsFiniteSet(D), NEW Good \in SUBSET SUBSET D,
           \A S \in SUBSET D : (\A U \in SUBSET S : U # S => U \in Good) => S \in Good
    PROVE  Good = SUBSET D
<1>. SUFFICES ASSUME Good # SUBSET D PROVE FALSE
  OBVIOUS
<1>. DEFINE Rest == (SUBSET D) \ Good
<1>1. Rest # {} /\ Rest \subseteq SUBSET D
  OBVIOUS
<1>2. IsWellFoundedOn(StrictSubsetOrdering(D), SUBSET D)
  <2>1. FiniteSubsetsOf(D) = SUBSET D
    BY FS_FiniteSubsetsOfFinite
  <2>2. IsWellFoundedOn(StrictSubsetOrdering(D), FiniteSubsetsOf(D))
    BY FS_StrictSubsetOrderingWellFounded
  <2>. QED
    BY <2>1, <2>2, Zenon
<1>3. PICK S \in Rest : \A U \in Rest : ~(<<U, S>> \in StrictSubsetOrdering(D))
  <2>. HIDE DEF Rest
  <2>. QED
    BY <1>1, <1>2, WFMin
<1>4. \A U \in Rest : ~(U \subseteq S /\ U # S)
  BY <1>3 DEF StrictSubsetOrdering
<1>5. \A U \in SUBSET S : U # S => U \in Good
  BY <1>4
<1>6. S \in SUBSET D /\ S \notin Good
  OBVIOUS
<1>. QED
  BY <1>5, <1>6

-----------------------------------------------------------------------------
\* The element the fold takes first, and one step of the fold: the sum over
\* S from the sums over its subsets.
Chosen(S) == CHOOSE x \in S : TRUE

Step(f, sum, S) == IF S = {} THEN 0 ELSE f[Chosen(S)] + sum[S \ {Chosen(S)}]

\* sum is the function from which SumFunction reads its answer.
PartialSums(f, sum) == sum = [S \in SUBSET DOMAIN f |-> Step(f, sum, S)]

\* SumFunction, its definitions expanded.
LEMMA TotalIs ==
    ASSUME NEW f
    PROVE  SumFunction(f) = (CHOOSE sum : PartialSums(f, sum))[DOMAIN f]
  BY DEF SumFunction, SumFunctionOnSet, FoldFunctionOnSet, MapThenFoldSet, PartialSums, Step, Chosen

\* The fold comes to a smaller set.
LEMMA ChosenSmaller ==
    ASSUME NEW D, IsFiniteSet(D), NEW S \in SUBSET D, S # {}
    PROVE  /\ Chosen(S) \in S
           /\ S \ {Chosen(S)} \in SUBSET D /\ S \ {Chosen(S)} # S
           /\ Cardinality(S) \in Nat /\ Cardinality(S) > 0
           /\ Cardinality(S \ {Chosen(S)}) = Cardinality(S) - 1
<1>1. Chosen(S) \in S
  BY DEF Chosen
<1>2. IsFiniteSet(S)
  BY FS_Subset
<1>. QED
  BY <1>1, <1>2, FS_CardinalityType, FS_RemoveElement, FS_EmptySet

\* There is such a function: it is built for ever larger subsets.
LEMMA PartialSumsExist ==
    ASSUME NEW D, IsFiniteSet(D), NEW f \in [D -> Int]
    PROVE  \E sum \in [SUBSET D -> Int] : PartialSums(f, sum)
<1>. DEFINE Upto(n) == {S \in SUBSET D : Cardinality(S) <= n}
            Sums(n) == {sum \in [Upto(n) -> Int] : \A S \in Upto(n) : sum[S] = Step(f, sum, S)}
            T == {n \in Nat : Sums(n) # {}}
<1>0. \A S \in SUBSET D : IsFiniteSet(S) /\ Cardinality(S) \in Nat
  BY FS_Subset, FS_CardinalityType
<1>1. 0 \in T
  <2>1. \A S \in Upto(0) : S = {}
    BY <1>0, FS_EmptySet
  <2>2. [S \in Upto(0) |-> 0] \in Sums(0)
    BY <2>1 DEF Step
  <2>. QED
    BY <2>2
<1>2. ASSUME NEW n \in T PROVE n + 1 \in T
  <2>1. PICK sum \in [Upto(n) -> Int] : \A S \in Upto(n) : sum[S] = Step(f, sum, S)
    OBVIOUS
  <2>. DEFINE more == [S \in Upto(n + 1) |-> Step(f, sum, S)]
  <2>2. \A S \in Upto(n + 1) : S # {} => Chosen(S) \in D /\ S \ {Chosen(S)} \in Upto(n)
    BY ChosenSmaller
  <2>3. \A S \in Upto(n + 1) : Step(f, sum, S) \in Int
    BY <2>2 DEF Step
  <2>4. more \in [Upto(n + 1) -> Int]
    BY <2>3
  <2>5. \A S \in Upto(n) : S \in Upto(n + 1) /\ more[S] = sum[S]
    BY <1>0, <2>1
  <2>6. \A S \in Upto(n + 1) : more[S] = Step(f, more, S)
    BY <2>2, <2>5 DEF Step
  <2>7. more \in Sums(n + 1)
    <3>. HIDE DEF more
    <3>. QED
      BY <2>4, <2>6
  <2>8. Sums(n + 1) # {} /\ n + 1 \in Nat
    <3>. HIDE DEF Sums
    <3>. QED
      BY <2>7
  <2>. QED
    BY <2>8
<1>3. Cardinality(D) \in T
  <2>. HIDE DEF T
  <2>1. T \in SUBSET Nat
    BY DEF T
  <2>2. T = Nat
    BY <1>1, <1>2, <2>1, NaturalInduction
  <2>. QED
    BY <2>2, FS_CardinalityType
<1>4. PICK sum \in [Upto(Cardinality(D)) -> Int] :
            \A S \in Upto(Cardinality(D)) : sum[S] = Step(f, sum, S)
  BY <1>3
<1>5. Upto(Cardinality(D)) = SUBSET D
  BY FS_Subset
<1>. HIDE DEF Upto
<1>6. sum \in [SUBSET D -> Int] /\ \A S \in SUBSET D : sum[S] = Step(f, sum, S)
  BY <1>4, <1>5
<1>7. sum = [S \in SUBSET D |-> Step(f, sum, S)]
  BY <1>6
<1>. QED
  BY <1>6, <1>7 DEF PartialSums

\* The partial sums SumFunction uses.
Partial(f) == CHOOSE sum : PartialSums(f, sum)

\* They are integers and obey the recursion.
LEMMA PartialIs ==
    ASSUME NEW D, IsFiniteSet(D), NEW f \in [D -> Int]
    PROVE  /\ SumFunction(f) = Partial(f)[D]
           /\ Partial(f) \in [SUBSET D -> Int]
           /\ \A S \in SUBSET D : Partial(f)[S] = Step(f, Partial(f), S)
<1>0. DOMAIN f = D
  OBVIOUS
<1>1. SumFunction(f) = Partial(f)[D]
  BY <1>0, TotalIs DEF Partial
<1>2. PartialSums(f, Partial(f))
  <2>1. \E sum : PartialSums(f, sum)
    BY PartialSumsExist
  <2>. QED
    BY <2>1 DEF Partial
<1>3. DOMAIN Partial(f) = SUBSET D
  BY <1>0, <1>2 DEF PartialSums
<1>4. \A S \in SUBSET D : Partial(f)[S] = Step(f, Partial(f), S)
  BY <1>0, <1>2 DEF PartialSums
<1>5. Partial(f) = [S \in SUBSET D |-> Partial(f)[S]]
  BY <1>0, <1>2, <1>3 DEF PartialSums
<1>6. \A S \in SUBSET D : Partial(f)[S] \in Int
  <2>. DEFINE Good == {S \in SUBSET D : Partial(f)[S] \in Int}
  <2>1. ASSUME NEW S \in SUBSET D, \A U \in SUBSET S : U # S => U \in Good
        PROVE  S \in Good
    <3>1. Partial(f)[S] = Step(f, Partial(f), S)
      BY <1>4
    <3>2. CASE S = {}
      BY <3>1, <3>2 DEF Step
    <3>3. CASE S # {}
      <4>1. Chosen(S) \in D
        BY <3>3, ChosenSmaller
      <4>2. S \ {Chosen(S)} \in Good
        BY <2>1, <3>3, ChosenSmaller
      <4>3. f[Chosen(S)] \in Int /\ Partial(f)[S \ {Chosen(S)}] \in Int
        BY <4>1, <4>2
      <4>4. Partial(f)[S] = f[Chosen(S)] + Partial(f)[S \ {Chosen(S)}]
        BY <3>1, <3>3 DEF Step
      <4>. QED
        BY <4>3, <4>4
    <3>. QED
      BY <3>2, <3>3
  <2>2. Good = SUBSET D
    <3>1. Good \in SUBSET SUBSET D
      OBVIOUS
    <3>. HIDE DEF Good
    <3>. QED
      BY <2>1, <3>1, SubsetInduction
  <2>. QED
    BY <2>2
<1>. QED
  BY <1>1, <1>4, <1>5, <1>6

\* What is known of the partial sums of f, without the recursion.
AddsUp(D, f) ==
    /\ SumFunction(f) = Partial(f)[D]
    /\ \A S \in SUBSET D :
          /\ Partial(f)[S] \in Int
          /\ S = {} => Partial(f)[S] = 0
          /\ S # {} => Partial(f)[S] = f[Chosen(S)] + Partial(f)[S \ {Chosen(S)}]

\* Every integer function on a finite set has such partial sums.
LEMMA SumAddsUp ==
    ASSUME NEW D, IsFiniteSet(D), NEW f \in [D -> Int]
    PROVE  AddsUp(D, f)
<1>1. /\ SumFunction(f) = Partial(f)[D]
      /\ Partial(f) \in [SUBSET D -> Int]
      /\ \A S \in SUBSET D : Partial(f)[S] = Step(f, Partial(f), S)
  BY PartialIs
<1>. QED
  BY <1>1 DEF Step, AddsUp

-----------------------------------------------------------------------------
\* Changing one value changes the sum by the difference.
THEOREM SumOfUpdate ==
    ASSUME NEW D, IsFiniteSet(D), NEW f \in [D -> Int], NEW x \in D, NEW v \in Int
    PROVE  SumFunction([f EXCEPT ![x] = v]) = SumFunction(f) - f[x] + v
<1>. DEFINE g == [f EXCEPT ![x] = v]
            extra(S) == IF x \in S THEN v - f[x] ELSE 0
            Good == {S \in SUBSET D : Partial(g)[S] = Partial(f)[S] + extra(S)}
<1>1. g \in [D -> Int] /\ g[x] = v /\ \A y \in D \ {x} : g[y] = f[y]
  OBVIOUS
<1>. HIDE DEF g
<1>2. AddsUp(D, f)
  BY SumAddsUp
<1>3. AddsUp(D, g)
  BY <1>1, SumAddsUp
<1>4. ASSUME NEW S \in SUBSET D, \A U \in SUBSET S : U # S => U \in Good
      PROVE  S \in Good
  <2>1. CASE S = {}
    <3>1. Partial(f)[S] = 0 /\ Partial(g)[S] = 0
      BY <1>2, <1>3, <2>1 DEF AddsUp
    <3>2. extra(S) = 0
      BY <2>1
    <3>. QED
      BY <3>1, <3>2
  <2>2. CASE S # {}
    <3>. DEFINE c == Chosen(S)
                U == S \ {c}
    <3>1. c \in S /\ U \in SUBSET D /\ U \in Good
      BY <1>4, <2>2, ChosenSmaller
    <3>2. Partial(f)[S] = f[c] + Partial(f)[U] /\ Partial(g)[S] = g[c] + Partial(g)[U]
      BY <1>2, <1>3, <2>2 DEF AddsUp
    <3>3. Partial(f)[U] \in Int /\ Partial(g)[U] = Partial(f)[U] + extra(U)
      BY <1>2, <3>1 DEF AddsUp
    <3>4. f[c] \in Int /\ g[c] = f[c] + (IF c = x THEN v - f[x] ELSE 0)
      BY <1>1, <3>1
    <3>5. extra(S) = extra(U) + (IF c = x THEN v - f[x] ELSE 0) /\ extra(U) \in Int
      BY <3>1
    <3>6. Partial(g)[S] = Partial(f)[S] + extra(S)
      <4>. HIDE DEF c, U, extra
      <4>. QED
        BY <3>2, <3>3, <3>4, <3>5
    <3>. QED
      BY <3>6
  <2>. QED
    BY <2>1, <2>2
<1>5. D \in Good
  <2>1. Good \in SUBSET SUBSET D
    OBVIOUS
  <2>2. Good = SUBSET D
    <3>. HIDE DEF Good
    <3>. QED
      BY <1>4, <2>1, SubsetInduction
  <2>. QED
    BY <2>2
<1>6. SumFunction(g) = SumFunction(f) + (v - f[x]) /\ SumFunction(f) \in Int
  BY <1>2, <1>3, <1>5 DEF AddsUp
<1>. QED
  BY <1>6 DEF g

\* A sum of integers is an integer.
THEOREM SumType ==
    ASSUME NEW D, IsFiniteSet(D), NEW f \in [D -> Int]
    PROVE  SumFunction(f) \in Int
<1>1. AddsUp(D, f)
  BY SumAddsUp
<1>. QED
  BY <1>1 DEF AddsUp

\* Nothing adds up to nothing.
THEOREM SumOfZeros ==
    ASSUME NEW D, IsFiniteSet(D), NEW f \in [D -> Int], \A x \in D : f[x] = 0
    PROVE  SumFunction(f) = 0
<1>. DEFINE Good == {S \in SUBSET D : Partial(f)[S] = 0}
<1>1. AddsUp(D, f)
  BY SumAddsUp
<1>2. ASSUME NEW S \in SUBSET D, \A U \in SUBSET S : U # S => U \in Good
      PROVE  S \in Good
  <2>1. CASE S = {}
    BY <1>1, <2>1 DEF AddsUp
  <2>2. CASE S # {}
    <3>1. Chosen(S) \in D /\ S \ {Chosen(S)} \in Good
      BY <1>2, <2>2, ChosenSmaller
    <3>2. Partial(f)[S] = f[Chosen(S)] + Partial(f)[S \ {Chosen(S)}]
      BY <1>1, <2>2 DEF AddsUp
    <3>. QED
      BY <3>1, <3>2
  <2>. QED
    BY <2>1, <2>2
<1>3. Good \in SUBSET SUBSET D
  OBVIOUS
<1>4. D \in Good
  <2>. HIDE DEF Good
  <2>. QED
    BY <1>2, <1>3, SubsetInduction
<1>. QED
  BY <1>1, <1>4 DEF AddsUp
=============================================================================
