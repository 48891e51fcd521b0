---------------------------- MODULE FiniteSumProofs ---------------------------
(***************************************************************************)
(* Induction on finite sets and on numbers, and the sums that              *)
(* MapThenSumSet and SumFunction take: a sum may be taken from any element *)
(* of its set, and so it is monotone, a matter of the values alone, and    *)
(* the same when it is taken part by part.                                 *)
(*                                                                         *)
(* The induction is stated over a set of good values: the library's own    *)
(* theorems are about an operator, and the provers cannot be given one.    *)
(***************************************************************************)
EXTENDS Integers, FiniteSets, FiniteSetsExt, Functions, FiniteSetTheorems, TLAPS

-----------------------------------------------------------------------------
(* Induction on finite sets *)

(* What is closed under taking a finite set from its proper subsets holds  *)
(* every subset of a finite set.                                           *)
LEMMA FiniteInduction ==
  ASSUME NEW S, IsFiniteSet(S), NEW Good,
         \A s \in SUBSET S : (\A t \in SUBSET s : t # s => t \in Good) => s \in Good
  PROVE  SUBSET S \subseteq Good
<1> DEFINE bad == (SUBSET S) \ Good
           R == StrictSubsetOrdering(S)
<1>1. SUFFICES ASSUME bad # {} PROVE FALSE
  OBVIOUS
<1>2. IsWellFoundedOn(R, SUBSET S)
  BY FS_FiniteSubsetsOfFinite, FS_StrictSubsetOrderingWellFounded
<1>3. bad \subseteq SUBSET S
  OBVIOUS
<1> HIDE DEF bad, R
<1>4. PICK s \in bad : \A t \in bad : <<t, s>> \notin R
  BY <1>1, <1>2, <1>3, WFMin
<1>5. s \in SUBSET S /\ s \notin Good
  BY <1>4 DEF bad
<1>6. PICK t \in SUBSET s : t # s /\ t \notin Good
  BY <1>5
<1>7. t \in bad /\ <<t, s>> \in R
  BY <1>5, <1>6 DEF bad, R, StrictSubsetOrdering
<1>8. QED
  BY <1>4, <1>7

(* Induction up to a number. *)
LEMMA NumberInduction ==
  ASSUME NEW n \in Nat, NEW Good, 0 \in Good, \A i \in 0 .. n - 1 : i \in Good => i + 1 \in Good
  PROVE  0 .. n \subseteq Good
<1> DEFINE All == {s \in SUBSET (0 .. n) : \A i \in 0 .. n : s = 0 .. i => i \in Good}
<1>1. ASSUME NEW s \in SUBSET (0 .. n), \A t \in SUBSET s : t # s => t \in All
      PROVE  s \in All
  <2>1. SUFFICES ASSUME NEW i \in 0 .. n, s = 0 .. i PROVE i \in Good
    OBVIOUS
  <2>2. CASE i = 0
    BY <2>2
  <2>3. CASE i # 0
    <3>1. i - 1 \in 0 .. n - 1 /\ (i - 1) + 1 = i
      BY <2>3
    <3>2. 0 .. i - 1 \in SUBSET s /\ 0 .. i - 1 # s
      <4>1. i \in 0 .. i /\ i \notin 0 .. i - 1
        BY <2>3
      <4>2. QED
        BY <2>1, <4>1
    <3>3. i - 1 \in Good
      <4>1. 0 .. i - 1 \in All
        BY <1>1, <3>2
      <4>2. i - 1 \in 0 .. n
        BY <3>1
      <4>3. QED
        BY <4>1, <4>2
    <3>4. QED
      BY <3>1, <3>3
  <2>4. QED
    BY <2>2, <2>3
<1>2. IsFiniteSet(0 .. n)
  BY FS_Interval
<1> DEFINE S == 0 .. n
<1>3. SUBSET S \subseteq All
  <2>1. IsFiniteSet(S) /\ \A s \in SUBSET S : (\A t \in SUBSET s : t # s => t \in All) => s \in All
    BY <1>1, <1>2
  <2> HIDE DEF All, S
  <2>2. QED
    BY <2>1, FiniteInduction
<1> HIDE DEF All
<1>4. ASSUME NEW i \in 0 .. n PROVE i \in Good
  <2>1. 0 .. i \in All
    BY <1>3
  <2>2. QED
    BY <2>1 DEF All
<1>5. QED
  BY <1>4

-----------------------------------------------------------------------------
(* The sum of an integer function over a finite set *)

Pick(s) == CHOOSE x \in s : TRUE

(* The recursion by which MapThenSumSet is computed, on the subsets of S.  *)
AddsUp(sum, f, S) ==
  sum = [s \in SUBSET S |->
           IF s = {} THEN 0 ELSE f[Pick(s)] + sum[s \ {Pick(s)}]]

(* The element CHOOSE takes is one of the set. *)
LEMMA PickInSet ==
  ASSUME NEW s, s # {}
  PROVE  Pick(s) \in s
BY DEF Pick

(* The recursion has one value on a finite set, wherever it is taken from. *)
LEMMA SumsAgree ==
  ASSUME NEW S, IsFiniteSet(S), NEW f, NEW A, NEW B, S \subseteq A, S \subseteq B,
         NEW sum, AddsUp(sum, f, A), NEW other, AddsUp(other, f, B)
  PROVE  sum[S] = other[S]
<1> DEFINE Good == {s \in SUBSET S : sum[s] = other[s]}
<1>1. ASSUME NEW s \in SUBSET S, \A t \in SUBSET s : t # s => t \in Good
      PROVE  s \in Good
  <2>1. s \in SUBSET A /\ s \in SUBSET B
    OBVIOUS
  <2>2. /\ sum[s] = IF s = {} THEN 0 ELSE f[Pick(s)] + sum[s \ {Pick(s)}]
        /\ other[s] = IF s = {} THEN 0 ELSE f[Pick(s)] + other[s \ {Pick(s)}]
    BY <2>1 DEF AddsUp
  <2>3. CASE s = {}
    BY <2>2, <2>3
  <2>4. CASE s # {}
    <3>1. s \ {Pick(s)} \in SUBSET s /\ s \ {Pick(s)} # s
      BY <2>4, PickInSet
    <3>2. sum[s \ {Pick(s)}] = other[s \ {Pick(s)}]
      BY <1>1, <3>1
    <3>3. QED
      BY <2>2, <2>4, <3>2
  <2>5. QED
    BY <2>3, <2>4
<1> HIDE DEF Good
<1>2. SUBSET S \subseteq Good
  BY <1>1, FiniteInduction
<1>3. QED
  BY <1>2 DEF Good

(* The recursion has a solution. *)
LEMMA SumExists ==
  ASSUME NEW S, IsFiniteSet(S), NEW f
  PROVE  \E sum : AddsUp(sum, f, S)
<1> DEFINE Good == {s \in SUBSET S : \E sum : AddsUp(sum, f, s)}
           of(s) == CHOOSE sum : AddsUp(sum, f, s)
           rest(s) == s \ {Pick(s)}
<1>1. ASSUME NEW s \in SUBSET S, \A t \in SUBSET s : t # s => t \in Good
      PROVE  s \in Good
  <2> DEFINE sum == [t \in SUBSET s |->
                       IF t = {} THEN 0 ELSE f[Pick(t)] + of(rest(t))[rest(t)]]
  <2>1. ASSUME NEW t \in SUBSET s, t # s
        PROVE  AddsUp(of(t), f, t) /\ IsFiniteSet(t)
    BY <1>1, <2>1, FS_Subset
  <2>2. ASSUME NEW t \in SUBSET s, t # {}
        PROVE  rest(t) \in SUBSET s /\ rest(t) # s
    BY <2>2, PickInSet
  <2> HIDE DEF of, rest
  <2>3. ASSUME NEW t \in SUBSET s, t # s
        PROVE  sum[t] = of(t)[t]
    <3>1. of(t)[t] = IF t = {} THEN 0 ELSE f[Pick(t)] + of(t)[rest(t)]
      BY <2>1, <2>3 DEF AddsUp, rest
    <3>2. CASE t = {}
      BY <3>1, <3>2
    <3>3. CASE t # {}
      <4>1. rest(t) \in SUBSET s /\ rest(t) # s /\ rest(t) \subseteq t
        BY <2>2, <3>3 DEF rest
      <4>2. of(t)[rest(t)] = of(rest(t))[rest(t)]
        BY <2>1, <2>3, <4>1, SumsAgree
      <4>3. QED
        BY <3>1, <3>3, <4>2
    <3>4. QED
      BY <3>2, <3>3
  <2>4. ASSUME NEW t \in SUBSET s, t # {}
        PROVE  sum[t] = f[Pick(t)] + sum[rest(t)]
    BY <2>2, <2>3, <2>4
  <2>5. AddsUp(sum, f, s)
    BY <2>4 DEF AddsUp, rest
  <2>6. QED
    BY <2>5
<1> HIDE DEF Good
<1>2. SUBSET S \subseteq Good
  BY <1>1, FiniteInduction
<1>3. QED
  BY <1>2 DEF Good

SumOver(f, S) == (CHOOSE sum : AddsUp(sum, f, S))[S]

(* Any solution of it gives the sums of the subsets. *)
LEMMA SumFound ==
  ASSUME NEW A, IsFiniteSet(A), NEW S \in SUBSET A, NEW f, NEW sum, AddsUp(sum, f, A)
  PROVE  sum[S] = SumOver(f, S)
<1>1. IsFiniteSet(S)
  BY FS_Subset
<1>2. AddsUp(CHOOSE other : AddsUp(other, f, S), f, S)
  BY <1>1, SumExists
<1>3. QED
  BY <1>1, <1>2, SumsAgree DEF SumOver

(* MapThenSumSet takes the sum of its function. *)
LEMMA SumIsTaken ==
  ASSUME NEW S, IsFiniteSet(S), NEW f
  PROVE  MapThenSumSet(LAMBDA x : f[x], S) = SumOver(f, S)
BY DEF MapThenSumSet, MapThenFoldSet, AddsUp, Pick, SumOver

(* The sum over nothing is zero. *)
LEMMA SumOfNothing ==
  ASSUME NEW f
  PROVE  SumOver(f, {}) = 0
<1>1. PICK sum : AddsUp(sum, f, {})
  BY FS_EmptySet, SumExists
<1>2. sum[{}] = 0
  BY <1>1 DEF AddsUp
<1>3. QED
  BY <1>1, <1>2, FS_EmptySet, SumFound

(* The step of the recursion. *)
LEMMA SumStep ==
  ASSUME NEW S, IsFiniteSet(S), S # {}, NEW f
  PROVE  SumOver(f, S) = f[Pick(S)] + SumOver(f, S \ {Pick(S)})
<1>1. PICK sum : AddsUp(sum, f, S)
  BY SumExists
<1>2. sum[S] = f[Pick(S)] + sum[S \ {Pick(S)}]
  BY <1>1 DEF AddsUp
<1>3. sum[S] = SumOver(f, S) /\ sum[S \ {Pick(S)}] = SumOver(f, S \ {Pick(S)})
  BY <1>1, SumFound
<1>4. QED
  BY <1>2, <1>3

(* The sum may be taken from any element. *)
LEMMA SumWithout ==
  ASSUME NEW S, IsFiniteSet(S), NEW f, \A x \in S : f[x] \in Int
  PROVE  /\ SumOver(f, S) \in Int
         /\ \A x \in S : SumOver(f, S) = f[x] + SumOver(f, S \ {x})
<1> DEFINE Whole(s) == /\ SumOver(f, s) \in Int
                       /\ \A x \in s : SumOver(f, s) = f[x] + SumOver(f, s \ {x})
           Good == {s \in SUBSET S : Whole(s)}
<1>1. ASSUME NEW s \in SUBSET S, \A t \in SUBSET s : t # s => t \in Good
      PROVE  s \in Good
  <2>1. IsFiniteSet(s)
    BY FS_Subset
  <2>2. CASE s = {}
    BY <2>2, SumOfNothing
  <2>3. CASE s # {}
    <3> DEFINE p == Pick(s)
    <3>1. p \in s
      BY <2>3, PickInSet
    <3>2. SumOver(f, s) = f[p] + SumOver(f, s \ {p})
      BY <2>1, <2>3, SumStep
    <3> HIDE DEF p, Whole
    <3>3. \A x \in s : Whole(s \ {x})
      BY <1>1
    <3>4. SumOver(f, s) \in Int
      BY <3>1, <3>2, <3>3 DEF Whole
    <3>5. ASSUME NEW x \in s, x # p
          PROVE  SumOver(f, s) = f[x] + SumOver(f, s \ {x})
      <4> DEFINE both == (s \ {p}) \ {x}
      <4>1. both = (s \ {x}) \ {p}
        OBVIOUS
      <4>2. x \in s \ {p} /\ p \in s \ {x}
        BY <3>1, <3>5
      <4> HIDE DEF both
      <4>3. SumOver(f, s \ {p}) = f[x] + SumOver(f, both)
        BY <3>1, <3>3, <4>2 DEF Whole, both
      <4>4. SumOver(f, s \ {x}) = f[p] + SumOver(f, both)
        BY <3>3, <3>5, <4>1, <4>2 DEF Whole
      <4>5. f[x] \in Int /\ f[p] \in Int /\ SumOver(f, s \ {p}) \in Int
              /\ SumOver(f, s \ {x}) \in Int
        BY <3>1, <3>3, <3>5 DEF Whole
      <4>6. both \in SUBSET s /\ both # s
        BY <3>1 DEF both
      <4>7. SumOver(f, both) \in Int
        BY <1>1, <4>6 DEF Whole
      <4>8. QED
        BY <3>2, <4>3, <4>4, <4>5, <4>7
    <3>6. QED
      BY <3>2, <3>4, <3>5 DEF Whole
  <2>4. QED
    BY <2>2, <2>3
<1> HIDE DEF Good, Whole
<1>2. SUBSET S \subseteq Good
  BY <1>1, FiniteInduction
<1>3. QED
  BY <1>2 DEF Good, Whole

(* A function that is nowhere larger has no larger sum. *)
LEMMA SumIsMonotone ==
  ASSUME NEW S, IsFiniteSet(S), NEW f, NEW g,
         \A x \in S : f[x] \in Int /\ g[x] \in Int /\ f[x] <= g[x]
  PROVE  SumOver(f, S) <= SumOver(g, S)
<1> DEFINE Good == {s \in SUBSET S : SumOver(f, s) <= SumOver(g, s)}
<1>1. ASSUME NEW s \in SUBSET S, \A t \in SUBSET s : t # s => t \in Good
      PROVE  s \in Good
  <2>1. IsFiniteSet(s)
    BY FS_Subset
  <2>2. CASE s = {}
    BY <2>2, SumOfNothing
  <2>3. CASE s # {}
    <3> DEFINE p == Pick(s)
               rest == s \ {p}
    <3>1. p \in s /\ f[p] \in Int /\ g[p] \in Int /\ f[p] <= g[p]
      BY <2>3, PickInSet
    <3>2. /\ SumOver(f, s) = f[p] + SumOver(f, rest)
          /\ SumOver(g, s) = g[p] + SumOver(g, rest)
      BY <2>1, <2>3, SumStep
    <3>3. SumOver(f, rest) <= SumOver(g, rest)
      BY <1>1, <3>1
    <3>4. IsFiniteSet(rest) /\ \A x \in rest : f[x] \in Int /\ g[x] \in Int
      BY <2>1, FS_Subset
    <3> HIDE DEF p, rest
    <3>5. SumOver(f, rest) \in Int /\ SumOver(g, rest) \in Int
      BY <3>4, SumWithout
    <3>6. QED
      BY <3>1, <3>2, <3>3, <3>5
  <2>4. QED
    BY <2>2, <2>3
<1> HIDE DEF Good
<1>2. SUBSET S \subseteq Good
  BY <1>1, FiniteInduction
<1>3. QED
  BY <1>2 DEF Good

(* Functions of equal values have equal sums. *)
LEMMA SumIsOfValues ==
  ASSUME NEW S, IsFiniteSet(S), NEW f, NEW g,
         \A x \in S : f[x] \in Int /\ g[x] = f[x]
  PROVE  SumOver(f, S) = SumOver(g, S)
<1>1. SumOver(f, S) <= SumOver(g, S) /\ SumOver(g, S) <= SumOver(f, S)
  BY SumIsMonotone
<1>2. SumOver(f, S) \in Int /\ SumOver(g, S) \in Int
  BY SumWithout
<1>3. QED
  BY <1>1, <1>2

(* A limit taken off every value is taken off the sum as often. *)
LEMMA SumShifted ==
  ASSUME NEW S, IsFiniteSet(S), NEW f, NEW g, NEW limit \in Int,
         \A x \in S : f[x] \in Int /\ g[x] = f[x] - limit
  PROVE  SumOver(g, S) = SumOver(f, S) - limit * Cardinality(S)
<1> DEFINE Good == {s \in SUBSET S :
                      SumOver(g, s) = SumOver(f, s) - limit * Cardinality(s)}
<1>1. ASSUME NEW s \in SUBSET S, \A t \in SUBSET s : t # s => t \in Good
      PROVE  s \in Good
  <2>1. IsFiniteSet(s)
    BY FS_Subset
  <2>2. CASE s = {}
    BY <2>2, SumOfNothing, FS_EmptySet
  <2>3. CASE s # {}
    <3> DEFINE p == Pick(s)
               rest == s \ {p}
    <3>1. p \in s /\ f[p] \in Int /\ g[p] = f[p] - limit
      BY <2>3, PickInSet
    <3>2. /\ SumOver(f, s) = f[p] + SumOver(f, rest)
          /\ SumOver(g, s) = g[p] + SumOver(g, rest)
      BY <2>1, <2>3, SumStep
    <3>3. SumOver(g, rest) = SumOver(f, rest) - limit * Cardinality(rest)
      BY <1>1, <3>1
    <3>4. IsFiniteSet(rest) /\ \A x \in rest : f[x] \in Int
      BY <2>1, FS_Subset
    <3>5. Cardinality(rest) = Cardinality(s) - 1
      BY <2>1, <3>1, FS_RemoveElement
    <3> DEFINE n == Cardinality(s)
    <3>6. n \in Nat
      BY <2>1, FS_CardinalityType
    <3> HIDE DEF p, rest, n
    <3>7. SumOver(f, rest) \in Int
      BY <3>4, SumWithout
    <3>8. limit * (n - 1) = limit * n - limit
      BY <3>6
    <3>9. SumOver(g, s) = SumOver(f, s) - limit * n
      BY <3>1, <3>2, <3>3, <3>5, <3>6, <3>7, <3>8 DEF n
    <3>10. QED
      BY <3>9 DEF n
  <2>4. QED
    BY <2>2, <2>3
<1> HIDE DEF Good
<1>2. SUBSET S \subseteq Good
  BY <1>1, FiniteInduction
<1>3. QED
  BY <1>2 DEF Good

(* SumFunction is the sum of a function's values. *)
LEMMA SumOfFunction ==
  ASSUME NEW f, IsFiniteSet(DOMAIN f)
  PROVE  SumFunction(f) = SumOver(f, DOMAIN f)
BY DEF SumFunction, SumFunctionOnSet, FoldFunctionOnSet, MapThenFoldSet, AddsUp, Pick, SumOver

(* Where a function is zero it adds nothing. *)
LEMMA SumOnPart ==
  ASSUME NEW S, IsFiniteSet(S), NEW T, NEW f, \A x \in S : f[x] \in Int,
         \A x \in S \ T : f[x] = 0
  PROVE  SumOver(f, S) = SumOver(f, S \cap T)
<1> DEFINE Good == {s \in SUBSET S : SumOver(f, s) = SumOver(f, s \cap T)}
<1>1. ASSUME NEW s \in SUBSET S, \A t \in SUBSET s : t # s => t \in Good
      PROVE  s \in Good
  <2>1. IsFiniteSet(s) /\ IsFiniteSet(s \cap T)
    BY FS_Subset
  <2>2. CASE s = {}
    <3>1. s \cap T = s
      BY <2>2
    <3>2. QED
      BY <3>1
  <2>3. CASE s # {}
    <3> DEFINE p == Pick(s)
               rest == s \ {p}
    <3>1. p \in s /\ f[p] \in Int
      BY <2>3, PickInSet
    <3>2. SumOver(f, s) = f[p] + SumOver(f, rest)
      BY <2>1, <2>3, SumStep
    <3>3. SumOver(f, rest) = SumOver(f, rest \cap T)
      BY <1>1, <3>1
    <3>4. IsFiniteSet(rest) /\ rest \subseteq S
      BY <2>1, FS_Subset
    <3>5. CASE p \in T
      <4> DEFINE part == s \cap T
      <4>1. p \in part /\ part \ {p} = rest \cap T
        BY <3>1, <3>5
      <4>2. \A x \in part : f[x] \in Int
        OBVIOUS
      <4>3. SumOver(f, part) = f[p] + SumOver(f, part \ {p})
        <5> HIDE DEF p, rest, part
        <5>1. IsFiniteSet(part)
          BY <2>1 DEF part
        <5>2. QED
          BY <4>1, <4>2, <5>1, SumWithout
      <4>4. QED
        BY <3>2, <3>3, <4>1, <4>3
    <3>6. CASE p \notin T
      <4>1. s \cap T = rest \cap T
        BY <3>6
      <4>2. f[p] = 0
        BY <3>1, <3>6
      <4>3. SumOver(f, rest) \in Int
        <5> HIDE DEF p, rest
        <5>1. QED
          BY <3>4, SumWithout
      <4> HIDE DEF p, rest
      <4>4. SumOver(f, s) = SumOver(f, rest)
        BY <3>2, <4>2, <4>3
      <4>5. QED
        BY <3>3, <4>1, <4>4
    <3>7. QED
      BY <3>5, <3>6
  <2>4. QED
    BY <2>2, <2>3
<1> HIDE DEF Good
<1>2. SUBSET S \subseteq Good
  BY <1>1, FiniteInduction
<1>3. QED
  BY <1>2 DEF Good

(* A sum of nothing but zeros. *)
LEMMA SumOfZeros ==
  ASSUME NEW S, IsFiniteSet(S), NEW f, \A x \in S : f[x] = 0
  PROVE  SumOver(f, S) = 0
<1>1. SumOver(f, S) = SumOver(f, S \cap {})
  BY SumOnPart
<1>2. S \cap {} = {}
  OBVIOUS
<1>3. QED
  BY <1>1, <1>2, SumOfNothing

(* A sum may be taken part by part: t says which part an element is in. *)
LEMMA SumByParts ==
  ASSUME NEW S, IsFiniteSet(S), NEW V, IsFiniteSet(V), NEW f, NEW t,
         \A x \in S : f[x] \in Int /\ t[x] \in V
  PROVE  SumOver(f, S) = SumOver([v \in V |-> SumOver(f, {x \in S : t[x] = v})], V)
<1> DEFINE part(s, v) == {x \in s : t[x] = v}
           parts(s) == [v \in V |-> SumOver(f, part(s, v))]
           Good == {s \in SUBSET S : SumOver(f, s) = SumOver(parts(s), V)}
<1>1. ASSUME NEW s \in SUBSET S, NEW v \in V
      PROVE  IsFiniteSet(part(s, v)) /\ parts(s)[v] \in Int
  <2>1. IsFiniteSet(part(s, v))
    <3>1. part(s, v) \in SUBSET S
      OBVIOUS
    <3>2. QED
      BY <3>1, FS_Subset
  <2>2. \A x \in part(s, v) : f[x] \in Int
    OBVIOUS
  <2>3. parts(s)[v] = SumOver(f, part(s, v))
    OBVIOUS
  <2> HIDE DEF part
  <2>4. SumOver(f, part(s, v)) \in Int
    BY <2>1, <2>2, SumWithout
  <2>5. QED
    BY <2>1, <2>3, <2>4
<1>2. ASSUME NEW s \in SUBSET S, \A r \in SUBSET s : r # s => r \in Good
      PROVE  s \in Good
  <2>1. IsFiniteSet(s)
    BY FS_Subset
  <2>2. CASE s = {}
    <3>1. \A v \in V : parts(s)[v] = 0
      <4>1. SUFFICES ASSUME NEW v \in V PROVE SumOver(f, part(s, v)) = 0
        OBVIOUS
      <4>2. part(s, v) = {}
        BY <2>2
      <4> HIDE DEF part
      <4>3. QED
        BY <4>2, SumOfNothing
    <3> HIDE DEF parts
    <3>2. SumOver(parts(s), V) = 0
      BY <3>1, SumOfZeros
    <3>3. QED
      BY <2>2, <3>2, SumOfNothing
  <2>3. CASE s # {}
    <3> DEFINE p == Pick(s)
               rest == s \ {p}
               w == t[p]
    <3>1. p \in s /\ f[p] \in Int /\ w \in V
      BY <2>3, PickInSet
    <3>2. SumOver(f, s) = f[p] + SumOver(f, rest)
      BY <2>1, <2>3, SumStep
    <3>3. rest \in SUBSET s /\ rest # s /\ rest \in SUBSET S
      BY <3>1
    <3>4. SumOver(f, rest) = SumOver(parts(rest), V)
      BY <1>2, <3>3
    <3>5. part(s, w) \ {p} = part(rest, w) /\ p \in part(s, w)
      BY <3>1
    <3>6. \A v \in V : v # w => part(s, v) = part(rest, v)
      BY <3>1
    <3>7. \A x \in part(s, w) : f[x] \in Int
      OBVIOUS
    <3> DEFINE g == parts(s)
               h == parts(rest)
    <3>8. \A v \in V : g[v] = SumOver(f, part(s, v)) /\ h[v] = SumOver(f, part(rest, v))
      OBVIOUS
    <3>9. \A v \in V : g[v] \in Int /\ h[v] \in Int
      BY <1>1, <3>3
    <3>10. IsFiniteSet(part(s, w))
      BY <1>1, <3>1
    <3> HIDE DEF p, rest, w, part, parts, g, h
    <3>11. g[w] = f[p] + h[w]
      <4> DEFINE whole == part(s, w)
      <4>1. p \in whole /\ IsFiniteSet(whole) /\ \A x \in whole : f[x] \in Int
        BY <3>5, <3>7, <3>10
      <4>2. g[w] = SumOver(f, whole) /\ h[w] = SumOver(f, whole \ {p})
        BY <3>1, <3>5, <3>8
      <4> HIDE DEF whole
      <4>3. SumOver(f, whole) = f[p] + SumOver(f, whole \ {p})
        BY <4>1, SumWithout
      <4>4. QED
        BY <4>2, <4>3
    <3>12. SumOver(g, V) = g[w] + SumOver(g, V \ {w}) /\ SumOver(h, V) = h[w] + SumOver(h, V \ {w})
      BY <3>1, <3>9, SumWithout
    <3>13. IsFiniteSet(V \ {w})
      BY FS_Subset
    <3>14. SumOver(g, V \ {w}) = SumOver(h, V \ {w}) /\ SumOver(h, V \ {w}) \in Int
      <4>1. \A v \in V \ {w} : g[v] \in Int /\ h[v] = g[v]
        BY <3>6, <3>8, <3>9
      <4>2. \A v \in V \ {w} : h[v] \in Int
        BY <3>9
      <4>3. QED
        BY <3>13, <4>1, <4>2, SumIsOfValues, SumWithout
    <3>15. SumOver(f, s) = SumOver(g, V)
      BY <3>1, <3>2, <3>4, <3>9, <3>11, <3>12, <3>14 DEF h
    <3>16. QED
      BY <3>15 DEF g
  <2>4. QED
    BY <2>2, <2>3
<1> HIDE DEF Good
<1>3. SUBSET S \subseteq Good
  BY <1>2, FiniteInduction
<1>4. QED
  BY <1>3 DEF Good

(* A count is a sum of ones. *)
LEMMA CountIsSum ==
  ASSUME NEW S, IsFiniteSet(S), NEW f, \A x \in S : f[x] = 1
  PROVE  SumOver(f, S) = Cardinality(S)
<1> DEFINE zero == [x \in S |-> 0]
<1>1. \A x \in S : f[x] \in Int /\ zero[x] = f[x] - 1 /\ zero[x] = 0
  OBVIOUS
<1> HIDE DEF zero
<1>2. SumOver(zero, S) = 0 /\ SumOver(f, S) \in Int
  BY <1>1, SumOfZeros, SumWithout
<1>3. SumOver(zero, S) = SumOver(f, S) - 1 * Cardinality(S)
  <2>1. 1 \in Int
    OBVIOUS
  <2>2. QED
    BY <1>1, <2>1, SumShifted
<1>4. Cardinality(S) \in Nat
  BY FS_CardinalityType
<1>5. QED
  BY <1>2, <1>3, <1>4

(* What is counted may be counted part by part. *)
LEMMA CountByParts ==
  ASSUME NEW S, IsFiniteSet(S), NEW V, IsFiniteSet(V), NEW t, \A x \in S : t[x] \in V
  PROVE  Cardinality(S) = SumOver([v \in V |-> Cardinality({x \in S : t[x] = v})], V)
<1> DEFINE one == [x \in S |-> 1]
           part(v) == {x \in S : t[x] = v}
           sums == [v \in V |-> SumOver(one, part(v))]
           counts == [v \in V |-> Cardinality(part(v))]
<1>1. \A x \in S : one[x] = 1 /\ one[x] \in Int
  OBVIOUS
<1>2. \A v \in V : IsFiniteSet(part(v)) /\ part(v) \subseteq S
  BY FS_Subset
<1>3. \A v \in V : sums[v] = SumOver(one, part(v)) /\ counts[v] = Cardinality(part(v))
  OBVIOUS
<1> HIDE DEF one
<1>4. SumOver(one, S) = SumOver(sums, V)
  BY <1>1, SumByParts
<1> HIDE DEF part, sums, counts
<1>5. ASSUME NEW v \in V PROVE sums[v] \in Int /\ counts[v] = sums[v]
  <2>1. SumOver(one, part(v)) = Cardinality(part(v))
    BY <1>1, <1>2, CountIsSum
  <2>2. Cardinality(part(v)) \in Int
    BY <1>2, FS_CardinalityType
  <2>3. QED
    BY <1>3, <2>1, <2>2
<1>6. SumOver(sums, V) = SumOver(counts, V)
  BY <1>5, SumIsOfValues
<1>7. SumOver(one, S) = Cardinality(S)
  BY <1>1, CountIsSum
<1>8. QED
  BY <1>4, <1>6, <1>7 DEF counts, part

(* Twice the values are twice the sum. *)
LEMMA SumDoubled ==
  ASSUME NEW S, IsFiniteSet(S), NEW f, NEW g, \A x \in S : f[x] \in Int /\ g[x] = 2 * f[x]
  PROVE  SumOver(g, S) = 2 * SumOver(f, S)
<1> DEFINE Good == {s \in SUBSET S : SumOver(g, s) = 2 * SumOver(f, s)}
<1>1. ASSUME NEW s \in SUBSET S, \A t \in SUBSET s : t # s => t \in Good
      PROVE  s \in Good
  <2>1. IsFiniteSet(s)
    BY FS_Subset
  <2>2. CASE s = {}
    BY <2>2, SumOfNothing
  <2>3. CASE s # {}
    <3> DEFINE p == Pick(s)
               rest == s \ {p}
    <3>1. p \in s /\ f[p] \in Int /\ g[p] = 2 * f[p]
      BY <2>3, PickInSet
    <3>2. /\ SumOver(f, s) = f[p] + SumOver(f, rest)
          /\ SumOver(g, s) = g[p] + SumOver(g, rest)
      BY <2>1, <2>3, SumStep
    <3>3. SumOver(g, rest) = 2 * SumOver(f, rest)
      BY <1>1, <3>1
    <3>4. IsFiniteSet(rest) /\ \A x \in rest : f[x] \in Int
      BY <2>1, FS_Subset
    <3> HIDE DEF p, rest
    <3>5. SumOver(f, rest) \in Int
      BY <3>4, SumWithout
    <3>6. QED
      BY <3>1, <3>2, <3>3, <3>5
  <2>4. QED
    BY <2>2, <2>3
<1> HIDE DEF Good
<1>2. SUBSET S \subseteq Good
  BY <1>1, FiniteInduction
<1>3. QED
  BY <1>2 DEF Good

-----------------------------------------------------------------------------
(* Pictures of finite sets, and the last of their elements *)

(* The picture of a finite set is finite, and as large if no two elements  *)
(* have the same.                                                          *)
LEMMA PictureIsFinite ==
  ASSUME NEW S, IsFiniteSet(S), NEW f, NEW T, T = {f[x] : x \in S}
  PROVE  /\ IsFiniteSet(T)
         /\ (\A x, y \in S : f[x] = f[y] => x = y) => Cardinality(T) = Cardinality(S)
<1> DEFINE g == [x \in S |-> f[x]]
<1>1. g \in [S -> T] /\ \A x \in S : g[x] = f[x]
  OBVIOUS
<1> HIDE DEF g
<1>2. g \in Surjection(S, T)
  BY <1>1 DEF Surjection
<1>3. ASSUME \A x, y \in S : f[x] = f[y] => x = y
      PROVE  g \in Injection(S, T)
  <2>1. \A x, y \in S : g[x] = g[y] => x = y
    BY <1>1, <1>3
  <2>2. DOMAIN g = S
    BY <1>1
  <2>3. QED
    BY <1>1, <2>1, <2>2 DEF Injection, IsInjective
<1>4. QED
  BY <1>2, <1>3, FS_Surjection

(* The sum over a picture without two of the same is that over the set.    *)
LEMMA SumOfPicture ==
  ASSUME NEW S, IsFiniteSet(S), NEW t, \A x, y \in S : t[x] = t[y] => x = y,
         NEW T, T = {t[x] : x \in S}, NEW f, NEW g, \A x \in S : f[x] \in Int /\ g[t[x]] = f[x]
  PROVE  SumOver(g, T) = SumOver(f, S)
<1> DEFINE parts == [v \in T |-> SumOver(f, {x \in S : t[x] = v})]
<1>1. IsFiniteSet(T)
  BY PictureIsFinite
<1>2. \A x \in S : f[x] \in Int /\ t[x] \in T
  OBVIOUS
<1>3. SumOver(f, S) = SumOver(parts, T)
  BY <1>1, <1>2, SumByParts
<1>4. ASSUME NEW v \in T PROVE g[v] \in Int /\ parts[v] = g[v]
  <2>1. PICK x \in S : v = t[x]
    OBVIOUS
  <2>2. {y \in S : t[y] = v} = {x}
    BY <2>1
  <2>3. parts[v] = SumOver(f, {x})
    BY <2>2
  <2>4. SumOver(f, {x}) = f[x] + SumOver(f, {x} \ {x})
    <3> DEFINE one == {x}
    <3>1. IsFiniteSet(one) /\ x \in one /\ \A y \in one : f[y] \in Int
      BY FS_Singleton
    <3> HIDE DEF one
    <3>2. SumOver(f, one) = f[x] + SumOver(f, one \ {x})
      BY <3>1, SumWithout
    <3>3. QED
      BY <3>2 DEF one
  <2>5. {x} \ {x} = {} /\ f[x] \in Int /\ g[v] = f[x]
    BY <2>1
  <2>6. QED
    BY <2>3, <2>4, <2>5, SumOfNothing
<1> HIDE DEF parts
<1>5. QED
  BY <1>1, <1>3, <1>4, SumIsOfValues

(* A finite set has a last element in any total order of its elements.     *)
LEMMA LastIsFound ==
  ASSUME NEW S, IsFiniteSet(S), S # {}, NEW R,
         \A x, y \in S : <<x, y>> \in R \/ <<y, x>> \in R,
         \A x, y, z \in S : <<x, y>> \in R /\ <<y, z>> \in R => <<x, z>> \in R
  PROVE  \E m \in S : \A x \in S : <<x, m>> \in R
<1> DEFINE Good == {s \in SUBSET S : s # {} => \E m \in s : \A x \in s : <<x, m>> \in R}
<1>1. ASSUME NEW s \in SUBSET S, \A t \in SUBSET s : t # s => t \in Good
      PROVE  s \in Good
  <2>1. SUFFICES ASSUME s # {} PROVE \E m \in s : \A x \in s : <<x, m>> \in R
    OBVIOUS
  <2>2. PICK p \in s : TRUE
    BY <2>1
  <2>3. s \ {p} \in Good
    BY <1>1, <2>2
  <2>4. <<p, p>> \in R
    BY <2>2
  <2>5. CASE s \ {p} = {}
    BY <2>2, <2>4, <2>5
  <2>6. CASE s \ {p} # {}
    <3>1. PICK m \in s \ {p} : \A x \in s \ {p} : <<x, m>> \in R
      BY <2>3, <2>6
    <3>2. CASE <<p, m>> \in R
      BY <3>1, <3>2
    <3>3. CASE <<p, m>> \notin R
      <4>1. <<m, p>> \in R
        BY <2>2, <3>1, <3>3
      <4>2. \A x \in s : <<x, p>> \in R
        BY <2>2, <2>4, <3>1, <4>1
      <4>3. QED
        BY <2>2, <4>2
    <3>4. QED
      BY <3>2, <3>3
  <2>7. QED
    BY <2>5, <2>6
<1> HIDE DEF Good
<1>2. SUBSET S \subseteq Good
  BY <1>1, FiniteInduction
<1>3. QED
  BY <1>2 DEF Good

(* A finite set of integers has a largest one. *)
LEMMA MaxIsFound ==
  ASSUME NEW S \in SUBSET Int, IsFiniteSet(S), S # {}
  PROVE  Max(S) \in S /\ \A x \in S : x <= Max(S)
<1> DEFINE R == {p \in S \X S : p[1] <= p[2]}
<1>1. \A x, y \in S : <<x, y>> \in R <=> x <= y
  OBVIOUS
<1> HIDE DEF R
<1>2. /\ \A x, y \in S : <<x, y>> \in R \/ <<y, x>> \in R
      /\ \A x, y, z \in S : <<x, y>> \in R /\ <<y, z>> \in R => <<x, z>> \in R
  BY <1>1
<1>3. PICK m \in S : \A x \in S : <<x, m>> \in R
  BY <1>2, LastIsFound
<1>4. \A x \in S : m >= x
  BY <1>1, <1>3
<1>5. Max(S) \in S /\ \A x \in S : Max(S) >= x
  BY <1>4 DEF Max
<1>6. QED
  BY <1>5

(* And a smallest one. *)
LEMMA MinIsFound ==
  ASSUME NEW S \in SUBSET Int, IsFiniteSet(S), S # {}
  PROVE  Min(S) \in S /\ \A x \in S : Min(S) <= x
<1> DEFINE R == {p \in S \X S : p[2] <= p[1]}
<1>1. \A x, y \in S : <<x, y>> \in R <=> y <= x
  OBVIOUS
<1> HIDE DEF R
<1>2. /\ \A x, y \in S : <<x, y>> \in R \/ <<y, x>> \in R
      /\ \A x, y, z \in S : <<x, y>> \in R /\ <<y, z>> \in R => <<x, z>> \in R
  BY <1>1
<1>3. PICK m \in S : \A x \in S : <<x, m>> \in R
  BY <1>2, LastIsFound
<1>4. \A x \in S : m <= x
  BY <1>1, <1>3
<1>5. QED
  BY <1>4 DEF Min
=============================================================================
