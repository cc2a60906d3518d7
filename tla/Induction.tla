----------------------------- MODULE Induction -----------------------------
(***************************************************************************)
(* Induction and recursion along 0..n, for what is computed leg after leg  *)
(* over a batch; sums over finite sets, for what is computed account after *)
(* account or hold after hold.                                             *)
(***************************************************************************)
EXTENDS Integers, FiniteSetTheorems, TLAPS

\* The order of the natural numbers, as a relation.
Less == {ss \in Nat \X Nat : ss[1] < ss[2]}

\* The order of the natural numbers is well founded.
LEMMA LessWellFounded == IsWellFoundedOn(Less, Nat)
<1>1. Less = OpToRel(<, Nat)
  BY DEF Less, OpToRel
<1> QED
  BY <1>1, NatLessThanWellFounded

\* A non-empty set of natural numbers has a least element.
LEMMA LeastNat ==
  ASSUME NEW T, T \subseteq Nat, T # {}
  PROVE  \E x \in T : \A y \in T : x <= y
<1>1. \E x \in T : \A y \in T : ~ (<<y, x>> \in Less)
  BY LessWellFounded, WFMin
<1>2. PICK x \in T : \A y \in T : ~ (<<y, x>> \in Less)
  BY <1>1
<1>3. ASSUME NEW y \in T PROVE x <= y
  <2>1. x \in Nat /\ y \in Nat
    OBVIOUS
  <2>2. y < x => <<y, x>> \in Less
    BY <2>1 DEF Less
  <2>3. ~ (<<y, x>> \in Less)
    BY <1>2
  <2> QED
    BY <2>1, <2>2, <2>3
<1> QED
  BY <1>3

\* Induction along a batch: a set that holds 0 and the successor of each of
\* its members below n holds all of 0..n.
LEMMA PrefixInduction ==
  ASSUME NEW n \in Nat, NEW S, 0 \in S,
         \A i \in 1..n : i - 1 \in S => i \in S
  PROVE  \A i \in 0..n : i \in S
<1> DEFINE T == {i \in 0..n : i \notin S}
<1> SUFFICES ASSUME T # {} PROVE FALSE
  OBVIOUS
<1>1. T \subseteq Nat
  OBVIOUS
<1>2. PICK x \in T : \A y \in T : x <= y
  <2> HIDE DEF T
  <2> QED BY <1>1, LeastNat
<1>3. x \in 1..n
  BY <1>2
<1>4. x - 1 \in 0..n /\ x - 1 \notin T
  BY <1>2, <1>3
<1> QED
  BY <1>2, <1>3, <1>4

\* n steps on the set A.
Steps(n, A) == [1..n -> [A -> A]]

\* What the steps make of init, one after another.
IsTrace(n, A, init, step, f) ==
    /\ f \in [0..n -> A]
    /\ f[0] = init
    /\ \A i \in 1..n : f[i] = step[i][f[i-1]]

\* A function on 0..n can be defined by its value at 0 and, at each i above,
\* from its value at i - 1.
LEMMA PrefixRecursion ==
  ASSUME NEW n \in Nat, NEW A, NEW init \in A, NEW step \in Steps(n, A)
  PROVE  \E f : IsTrace(n, A, init, step, f)
<1> DEFINE Good(k, f) == f[0] = init /\ \A i \in 1..k : f[i] = step[i][f[i-1]]
           S == {k \in 0..n : \E f \in [0..k -> A] : Good(k, f)}
<1> USE DEF Steps
<1>1. 0 \in S
  <2> DEFINE f == [i \in 0..0 |-> init]
  <2>1. f \in [0..0 -> A] /\ Good(0, f)
    OBVIOUS
  <2>2. \E h \in [0..0 -> A] : Good(0, h)
    <3> HIDE DEF f, Good
    <3> QED
      BY <2>1
  <2>3. 0 \in 0..n
    OBVIOUS
  <2> HIDE DEF Good
  <2> QED
    BY <2>2, <2>3
<1>2. ASSUME NEW k \in 1..n, k - 1 \in S
      PROVE  k \in S
  <2>1. PICK f \in [0..(k-1) -> A] : Good(k - 1, f)
    BY <1>2
  <2> DEFINE g == [i \in 0..k |-> IF i = k THEN step[k][f[k-1]] ELSE f[i]]
  <2>2. k - 1 \in 0..(k-1) /\ f[k-1] \in A /\ step[k][f[k-1]] \in A
    BY <2>1
  <2>3. g \in [0..k -> A]
    BY <2>2
  <2>4. g[0] = init
    BY <2>1
  <2>5. ASSUME NEW i \in 1..k PROVE g[i] = step[i][g[i-1]]
    <3>1. CASE i = k
      BY <3>1, <2>2
    <3>2. CASE i # k
      <4>1. i \in 1..(k-1) /\ i - 1 \in 0..(k-1) /\ i - 1 # k
        BY <3>2
      <4>2. g[i] = f[i] /\ g[i-1] = f[i-1]
        BY <4>1, <3>2
      <4> QED
        BY <4>1, <4>2, <2>1
    <3> QED
      BY <3>1, <3>2
  <2>6. Good(k, g)
    BY <2>4, <2>5
  <2>7. \E h \in [0..k -> A] : Good(k, h)
    <3> HIDE DEF g, Good
    <3> QED
      BY <2>3, <2>6
  <2>8. k \in 0..n
    OBVIOUS
  <2> HIDE DEF Good
  <2> QED
    BY <2>7, <2>8
<1>3. n \in S
  <2> HIDE DEF S
  <2>1. \A i \in 0..n : i \in S
    BY <1>1, <1>2, PrefixInduction
  <2> QED
    BY <2>1
<1> QED
  BY <1>3 DEF IsTrace

-----------------------------------------------------------------------------
(***************************************************************************)
(* Sums over finite sets.  SumFunctionOnSet of module Functions takes the  *)
(* elements out one by one; here it is shown to satisfy the equation that  *)
(* defines it, and not to depend on the order.                             *)
(***************************************************************************)

\* The element that is taken out next.
Pick(s) == CHOOSE x \in s : TRUE

\* One round of the equation: what g, right for smaller sets, makes of s.
SumRound(f, S, g) ==
    [s \in SUBSET S |-> IF s = {} THEN 0 ELSE f[Pick(s)] + g[s \ {Pick(s)}]]

\* Taking out an element of a non-empty subset leaves a smaller one.
LEMMA PickSmaller ==
  ASSUME NEW S, IsFiniteSet(S), NEW s \in SUBSET S, s # {}
  PROVE  /\ Pick(s) \in s
         /\ s \ {Pick(s)} \in SUBSET S
         /\ Cardinality(s) \in Nat
         /\ Cardinality(s \ {Pick(s)}) = Cardinality(s) - 1
<1>1. Pick(s) \in s
  BY DEF Pick
<1>2. IsFiniteSet(s)
  BY FS_Subset
<1> QED
  BY <1>1, <1>2, FS_RemoveElement, FS_CardinalityType

\* A subset is no larger than the set.
LEMMA SubsetSize ==
  ASSUME NEW S, IsFiniteSet(S), NEW s \in SUBSET S
  PROVE  /\ Cardinality(S) \in Nat
         /\ Cardinality(s) \in 0..Cardinality(S)
         /\ Cardinality(s) = 0 <=> s = {}
<1>1. IsFiniteSet(s) /\ Cardinality(s) <= Cardinality(S)
  BY FS_Subset
<1> QED
  BY <1>1, FS_CardinalityType, FS_EmptySet

\* The equation has a solution: as many rounds as the set has elements.
LEMMA SumExists ==
  ASSUME NEW S, IsFiniteSet(S), NEW f, \A x \in S : f[x] \in Int
  PROVE  \E g \in [SUBSET S -> Int] : g = SumRound(f, S, g)
<1> DEFINE A == [SUBSET S -> Int]
           n == Cardinality(S)
           zero == [s \in SUBSET S |-> 0]
           step == [i \in 1..n |-> [g \in A |-> SumRound(f, S, g)]]
<1>1. n \in Nat
  BY FS_CardinalityType
<1>2. ASSUME NEW g \in A PROVE SumRound(f, S, g) \in A
  <2>1. ASSUME NEW s \in SUBSET S, s # {}
        PROVE  f[Pick(s)] + g[s \ {Pick(s)}] \in Int
    <3>1. Pick(s) \in S /\ s \ {Pick(s)} \in SUBSET S
      BY <2>1, PickSmaller
    <3> QED
      BY <3>1
  <2> QED
    BY <2>1 DEF SumRound
<1>3. zero \in A
  OBVIOUS
<1> HIDE DEF A, n, zero
<1>4. step \in Steps(n, A)
  BY <1>2 DEF Steps
<1>5. PICK h : IsTrace(n, A, zero, step, h)
  <2> HIDE DEF step
  <2> QED
    BY <1>1, <1>3, <1>4, PrefixRecursion
<1>6. /\ h \in [0..n -> A]
      /\ \A i \in 1..n : h[i] = SumRound(f, S, h[i-1])
  <2>1. h \in [0..n -> A] /\ h[0] = zero
        /\ \A i \in 1..n : h[i] = step[i][h[i-1]]
    BY <1>5 DEF IsTrace
  <2>2. \A i \in 1..n : h[i-1] \in A
    BY <1>1, <2>1
  <2> QED
    BY <2>1, <2>2
<1>7. h[0] = zero
  BY <1>5 DEF IsTrace
<1> DEFINE Stable(i) == \A s \in SUBSET S : Cardinality(s) <= i =>
                           SumRound(f, S, h[i])[s] = h[i][s]
           R == {i \in 0..n : Stable(i)}
<1>8. 0 \in R
  <2>1. ASSUME NEW s \in SUBSET S, Cardinality(s) <= 0
        PROVE  SumRound(f, S, h[0])[s] = h[0][s]
    <3>1. s = {}
      BY <2>1, SubsetSize
    <3> QED
      BY <3>1, <1>7 DEF SumRound, zero
  <2> QED
    BY <1>1, <2>1
<1>9. ASSUME NEW i \in 1..n, i - 1 \in R PROVE i \in R
  <2>1. ASSUME NEW s \in SUBSET S, Cardinality(s) <= i
        PROVE  SumRound(f, S, h[i])[s] = h[i][s]
    <3>1. h[i] = SumRound(f, S, h[i-1])
      BY <1>6
    <3>2. CASE s = {}
      BY <3>1, <3>2 DEF SumRound
    <3>3. CASE s # {}
      <4> DEFINE t == s \ {Pick(s)}
      <4>1. /\ t \in SUBSET S
            /\ Cardinality(s) \in Nat
            /\ Cardinality(t) = Cardinality(s) - 1
        BY <3>3, PickSmaller
      <4>2. Cardinality(t) <= i - 1
        BY <1>1, <2>1, <4>1
      <4>3. SumRound(f, S, h[i-1])[t] = h[i-1][t]
        BY <1>9, <4>1, <4>2
      <4>4. SumRound(f, S, h[i])[s] = f[Pick(s)] + h[i][t]
        BY <3>3 DEF SumRound
      <4>5. h[i][s] = f[Pick(s)] + h[i-1][t]
        BY <3>1, <3>3 DEF SumRound
      <4> HIDE DEF t
      <4> QED
        BY <3>1, <4>3, <4>4, <4>5
    <3> QED
      BY <3>2, <3>3
  <2> QED
    BY <1>1, <2>1
<1>10. \A i \in 0..n : i \in R
  <2> HIDE DEF R
  <2> QED
    BY <1>1, <1>8, <1>9, PrefixInduction
<1>11. h[n] \in [SUBSET S -> Int]
  <2>1. h[n] \in A
    BY <1>1, <1>6
  <2> QED
    BY <2>1 DEF A
<1>12. \A s \in SUBSET S : SumRound(f, S, h[n])[s] = h[n][s]
  BY <1>1, <1>10, SubsetSize DEF n
<1>13. h[n] = SumRound(f, S, h[n])
  BY <1>11, <1>12 DEF SumRound
<1> QED
  BY <1>11, <1>13

\* Solutions for a set and for a part of it agree on the part.
LEMMA SumUnique ==
  ASSUME NEW S, IsFiniteSet(S), NEW T \in SUBSET S, NEW f, NEW g, NEW k,
         g = SumRound(f, T, g), k = SumRound(f, S, k)
  PROVE  g[T] = k[T]
<1> DEFINE n == Cardinality(T)
           R == {i \in 0..n : \A s \in SUBSET T : Cardinality(s) <= i => g[s] = k[s]}
<1>1. IsFiniteSet(T)
  BY FS_Subset
<1>2. n \in Nat
  BY <1>1, FS_CardinalityType
<1>3. ASSUME NEW s \in SUBSET T
      PROVE  /\ g[s] = IF s = {} THEN 0 ELSE f[Pick(s)] + g[s \ {Pick(s)}]
             /\ k[s] = IF s = {} THEN 0 ELSE f[Pick(s)] + k[s \ {Pick(s)}]
  <2>1. s \in SUBSET S
    OBVIOUS
  <2>2. /\ SumRound(f, T, g)[s] = IF s = {} THEN 0
                                  ELSE f[Pick(s)] + g[s \ {Pick(s)}]
        /\ SumRound(f, S, k)[s] = IF s = {} THEN 0
                                  ELSE f[Pick(s)] + k[s \ {Pick(s)}]
    BY <2>1 DEF SumRound
  <2> QED
    BY <2>2
<1>4. 0 \in R
  <2>1. ASSUME NEW s \in SUBSET T, Cardinality(s) <= 0 PROVE g[s] = k[s]
    <3>1. s = {}
      BY <1>1, <2>1, SubsetSize
    <3> QED
      BY <1>3, <3>1
  <2> QED
    BY <1>2, <2>1
<1>5. ASSUME NEW i \in 1..n, i - 1 \in R PROVE i \in R
  <2>1. ASSUME NEW s \in SUBSET T, Cardinality(s) <= i PROVE g[s] = k[s]
    <3>1. CASE s = {}
      BY <1>3, <3>1
    <3>2. CASE s # {}
      <4>1. /\ s \ {Pick(s)} \in SUBSET T
            /\ Cardinality(s \ {Pick(s)}) <= i - 1
        BY <1>1, <1>2, <2>1, <3>2, PickSmaller
      <4>2. g[s \ {Pick(s)}] = k[s \ {Pick(s)}]
        BY <1>5, <4>1
      <4> QED
        BY <1>3, <3>2, <4>2
    <3> QED
      BY <3>1, <3>2
  <2> QED
    BY <1>2, <2>1
<1>6. \A i \in 0..n : i \in R
  <2> HIDE DEF R, n
  <2> QED
    BY <1>2, <1>4, <1>5, PrefixInduction
<1>7. n \in R
  <2> HIDE DEF R, n
  <2> QED
    BY <1>2, <1>6
<1>8. n <= n
  BY <1>2
<1> QED
  BY <1>7, <1>8

\* k holds the sum over each subset of S, and satisfies the equation.
SumsOf(f, S, k) ==
    /\ k \in [SUBSET S -> Int]
    /\ k = SumRound(f, S, k)
    /\ \A T \in SUBSET S : SumFunctionOnSet(f, T) = k[T]

\* The sums over a finite set and over all its parts solve the equation.
LEMMA SumSolves ==
  ASSUME NEW S, IsFiniteSet(S), NEW f, \A x \in S : f[x] \in Int
  PROVE  \E k : SumsOf(f, S, k)
<1>1. PICK k \in [SUBSET S -> Int] : k = SumRound(f, S, k)
  BY SumExists
<1>2. ASSUME NEW T \in SUBSET S PROVE SumFunctionOnSet(f, T) = k[T]
  <2> DEFINE iter == CHOOSE g : g = SumRound(f, T, g)
  <2>1. IsFiniteSet(T) /\ \A x \in T : f[x] \in Int
    BY FS_Subset
  <2>2. PICK g : g = SumRound(f, T, g)
    BY <2>1, SumExists
  <2>3. iter = SumRound(f, T, iter)
    BY <2>2
  <2>4. SumFunctionOnSet(f, T) = iter[T]
    BY DEF SumFunctionOnSet, FoldFunctionOnSet, MapThenFoldSet, SumRound, Pick
  <2> HIDE DEF iter
  <2>5. iter[T] = k[T]
    BY <1>1, <2>3, SumUnique
  <2> QED
    BY <2>4, <2>5
<1> QED
  BY <1>1, <1>2 DEF SumsOf

\* The sum over no element.
LEMMA SumEmpty ==
  ASSUME NEW f
  PROVE  SumFunctionOnSet(f, {}) = 0
<1> DEFINE S == {}
<1>1. IsFiniteSet(S) /\ \A x \in S : f[x] \in Int
  BY FS_EmptySet
<1>2. PICK k : SumsOf(f, S, k)
  <2> HIDE DEF S
  <2> QED
    BY <1>1, SumSolves
<1>3. SumRound(f, S, k)[S] = 0
  BY DEF SumRound
<1> QED
  BY <1>2, <1>3 DEF SumsOf

\* A sum of integers is an integer.
LEMMA SumInt ==
  ASSUME NEW S, IsFiniteSet(S), NEW f, \A x \in S : f[x] \in Int
  PROVE  SumFunctionOnSet(f, S) \in Int
<1>1. PICK k : SumsOf(f, S, k)
  BY SumSolves
<1>2. S \in SUBSET S
  OBVIOUS
<1> QED
  BY <1>1, <1>2 DEF SumsOf

\* Any element can be taken out first.
LEMMA SumRemove ==
  ASSUME NEW S, IsFiniteSet(S), NEW f, \A x \in S : f[x] \in Int, NEW x \in S
  PROVE  SumFunctionOnSet(f, S) = f[x] + SumFunctionOnSet(f, S \ {x})
<1>0. PICK k : SumsOf(f, S, k)
  BY SumSolves
<1>1. /\ k \in [SUBSET S -> Int]
      /\ k = SumRound(f, S, k)
      /\ \A T \in SUBSET S : SumFunctionOnSet(f, T) = k[T]
  BY <1>0 DEF SumsOf
<1> DEFINE n == Cardinality(S)
           R == {i \in 0..n : \A s \in SUBSET S : Cardinality(s) <= i =>
                    \A y \in s : k[s] = f[y] + k[s \ {y}]}
<1>2. n \in Nat
  BY FS_CardinalityType
<1>3. ASSUME NEW s \in SUBSET S, s # {}
      PROVE  k[s] = f[Pick(s)] + k[s \ {Pick(s)}]
  <2>1. SumRound(f, S, k)[s] = f[Pick(s)] + k[s \ {Pick(s)}]
    BY <1>3 DEF SumRound
  <2> QED
    BY <1>1, <2>1
<1>4. 0 \in R
  <2>1. ASSUME NEW s \in SUBSET S, Cardinality(s) <= 0 PROVE s = {}
    BY <2>1, SubsetSize
  <2> QED
    BY <1>2, <2>1
<1>5. ASSUME NEW i \in 1..n, i - 1 \in R PROVE i \in R
  <2>1. ASSUME NEW s \in SUBSET S, Cardinality(s) <= i, NEW y \in s
        PROVE  k[s] = f[y] + k[s \ {y}]
    <3> DEFINE c == Pick(s)
    <3>1. /\ c \in s
          /\ s \ {c} \in SUBSET S
          /\ Cardinality(s) \in Nat
          /\ Cardinality(s \ {c}) = Cardinality(s) - 1
      BY PickSmaller
    <3>2. IsFiniteSet(s)
      BY FS_Subset
    <3>3. s \ {y} \in SUBSET S /\ Cardinality(s \ {y}) = Cardinality(s) - 1
      BY <3>2, FS_RemoveElement
    <3>4. k[s] = f[c] + k[s \ {c}]
      BY <1>3
    <3> HIDE DEF c
    <3>5. CASE c = y
      BY <3>4, <3>5
    <3>6. CASE c # y
      <4>1. Cardinality(s \ {c}) <= i - 1 /\ Cardinality(s \ {y}) <= i - 1
        BY <1>2, <2>1, <3>1, <3>3
      <4>2. y \in s \ {c} /\ c \in s \ {y}
        BY <3>1, <3>6
      <4>3. k[s \ {c}] = f[y] + k[(s \ {c}) \ {y}]
        BY <1>5, <3>1, <4>1, <4>2
      <4>4. k[s \ {y}] = f[c] + k[(s \ {y}) \ {c}]
        BY <1>5, <3>3, <4>1, <4>2
      <4>5. (s \ {c}) \ {y} = (s \ {y}) \ {c}
        OBVIOUS
      <4> DEFINE rest == (s \ {c}) \ {y}
      <4>6. rest \in SUBSET S
        OBVIOUS
      <4>7. f[c] \in Int /\ f[y] \in Int /\ k[rest] \in Int
        BY <1>1, <3>1, <4>6
      <4>8. k[s \ {c}] = f[y] + k[rest] /\ k[s \ {y}] = f[c] + k[rest]
        BY <4>3, <4>4, <4>5
      <4> HIDE DEF rest
      <4> QED
        BY <3>4, <4>7, <4>8
    <3> QED
      BY <3>5, <3>6
  <2> QED
    BY <1>2, <2>1
<1>6. \A i \in 0..n : i \in R
  <2> HIDE DEF R, n
  <2> QED
    BY <1>2, <1>4, <1>5, PrefixInduction
<1>7. n \in R
  <2> HIDE DEF R, n
  <2> QED
    BY <1>2, <1>6
<1>8. n <= n
  BY <1>2
<1>9. k[S] = f[x] + k[S \ {x}]
  BY <1>7, <1>8
<1> QED
  BY <1>1, <1>9

\* Functions that agree on a set have the same sum over it.
LEMMA SumSame ==
  ASSUME NEW S, IsFiniteSet(S), NEW f, NEW g,
         \A x \in S : f[x] \in Int /\ g[x] = f[x]
  PROVE  SumFunctionOnSet(g, S) = SumFunctionOnSet(f, S)
<1>1. PICK k : SumsOf(f, S, k)
  BY SumSolves
<1>2. PICK h : SumsOf(g, S, h)
  BY SumSolves
<1>3. SumRound(g, S, k) = SumRound(f, S, k)
  <2>1. ASSUME NEW s \in SUBSET S, s # {} PROVE g[Pick(s)] = f[Pick(s)]
    BY <2>1, PickSmaller
  <2> QED
    BY <2>1 DEF SumRound
<1>4. k = SumRound(g, S, k) /\ h = SumRound(g, S, h)
  BY <1>1, <1>2, <1>3 DEF SumsOf
<1>5. S \in SUBSET S
  OBVIOUS
<1>6. h[S] = k[S]
  BY <1>4, <1>5, SumUnique
<1> QED
  BY <1>1, <1>2, <1>5, <1>6 DEF SumsOf

\* A sum of zeros.
LEMMA SumZero ==
  ASSUME NEW S, IsFiniteSet(S), NEW f, \A x \in S : f[x] = 0
  PROVE  SumFunctionOnSet(f, S) = 0
<1> DEFINE zero == [s \in SUBSET S |-> 0]
<1>1. PICK k : SumsOf(f, S, k)
  BY SumSolves
<1>2. zero = SumRound(f, S, zero)
  <2>1. ASSUME NEW s \in SUBSET S PROVE SumRound(f, S, zero)[s] = 0
    <3>1. CASE s = {}
      BY <3>1 DEF SumRound
    <3>2. CASE s # {}
      <4>1. f[Pick(s)] = 0 /\ s \ {Pick(s)} \in SUBSET S
        BY <3>2, PickSmaller
      <4> QED
        BY <3>2, <4>1 DEF SumRound
    <3> QED
      BY <3>1, <3>2
  <2> QED
    BY <2>1 DEF SumRound
<1>3. S \in SUBSET S
  OBVIOUS
<1>4. k = SumRound(f, S, k)
  BY <1>1 DEF SumsOf
<1>5. zero[S] = k[S]
  <2> HIDE DEF zero
  <2> QED
    BY <1>2, <1>3, <1>4, SumUnique
<1> QED
  BY <1>1, <1>3, <1>5 DEF SumsOf

\* Changing one summand changes the sum by as much.
LEMMA SumUpdate ==
  ASSUME NEW S, IsFiniteSet(S), NEW f, NEW g, NEW x \in S,
         \A y \in S : f[y] \in Int /\ g[y] \in Int,
         \A y \in S \ {x} : g[y] = f[y]
  PROVE  SumFunctionOnSet(g, S) = SumFunctionOnSet(f, S) - f[x] + g[x]
<1> DEFINE R == S \ {x}
<1>1. IsFiniteSet(R)
  BY FS_RemoveElement
<1>2. \A y \in R : f[y] \in Int /\ g[y] = f[y]
  OBVIOUS
<1>3. /\ SumFunctionOnSet(g, S) = g[x] + SumFunctionOnSet(g, R)
      /\ SumFunctionOnSet(f, S) = f[x] + SumFunctionOnSet(f, R)
  BY SumRemove
<1> HIDE DEF R
<1>4. SumFunctionOnSet(g, R) = SumFunctionOnSet(f, R)
  BY <1>1, <1>2, SumSame
<1>5. SumFunctionOnSet(f, R) \in Int
  BY <1>1, <1>2, SumInt
<1> QED
  BY <1>3, <1>4, <1>5

\* A sum of naturals is a natural.
LEMMA SumNat ==
  ASSUME NEW S, IsFiniteSet(S), NEW f, \A x \in S : f[x] \in Nat
  PROVE  SumFunctionOnSet(f, S) \in Nat
<1>0. PICK k : SumsOf(f, S, k)
  BY SumSolves
<1>1. /\ k = SumRound(f, S, k)
      /\ \A T \in SUBSET S : SumFunctionOnSet(f, T) = k[T]
  BY <1>0 DEF SumsOf
<1> DEFINE n == Cardinality(S)
           R == {i \in 0..n :
                   \A s \in SUBSET S : Cardinality(s) <= i => k[s] \in Nat}
<1>2. n \in Nat
  BY FS_CardinalityType
<1>3. ASSUME NEW s \in SUBSET S
      PROVE  k[s] = IF s = {} THEN 0 ELSE f[Pick(s)] + k[s \ {Pick(s)}]
  <2>1. SumRound(f, S, k)[s] = IF s = {} THEN 0
                               ELSE f[Pick(s)] + k[s \ {Pick(s)}]
    BY DEF SumRound
  <2> QED
    BY <1>1, <2>1
<1>4. 0 \in R
  <2>1. ASSUME NEW s \in SUBSET S, Cardinality(s) <= 0 PROVE k[s] \in Nat
    <3>1. s = {}
      BY <2>1, SubsetSize
    <3>2. k[s] = 0
      BY <1>3, <3>1
    <3> QED
      BY <3>2
  <2> QED
    BY <1>2, <2>1
<1>5. ASSUME NEW i \in 1..n, i - 1 \in R PROVE i \in R
  <2>1. ASSUME NEW s \in SUBSET S, Cardinality(s) <= i PROVE k[s] \in Nat
    <3>1. CASE s = {}
      BY <1>3, <3>1
    <3>2. CASE s # {}
      <4>1. /\ Pick(s) \in S
            /\ s \ {Pick(s)} \in SUBSET S
            /\ Cardinality(s \ {Pick(s)}) <= i - 1
        BY <1>2, <2>1, <3>2, PickSmaller
      <4>2. k[s \ {Pick(s)}] \in Nat
        BY <1>5, <4>1
      <4>3. k[s] = f[Pick(s)] + k[s \ {Pick(s)}]
        BY <1>3, <3>2
      <4> QED
        BY <4>1, <4>2, <4>3
    <3> QED
      BY <3>1, <3>2
  <2> QED
    BY <1>2, <2>1
<1>6. n \in R
  <2> HIDE DEF R, n
  <2>1. \A i \in 0..n : i \in R
    BY <1>2, <1>4, <1>5, PrefixInduction
  <2> QED
    BY <1>2, <2>1
<1>7. n <= n
  BY <1>2
<1> QED
  BY <1>1, <1>6, <1>7

\* A summand is no larger than a sum of naturals.
LEMMA SumMember ==
  ASSUME NEW S, IsFiniteSet(S), NEW f, \A x \in S : f[x] \in Nat, NEW x \in S
  PROVE  f[x] <= SumFunctionOnSet(f, S)
<1> DEFINE R == S \ {x}
<1>1. IsFiniteSet(R) /\ \A y \in R : f[y] \in Nat
  BY FS_RemoveElement
<1>2. SumFunctionOnSet(f, S) = f[x] + SumFunctionOnSet(f, R)
  BY SumRemove
<1> HIDE DEF R
<1>3. SumFunctionOnSet(f, R) \in Nat
  BY <1>1, SumNat
<1> QED
  BY <1>2, <1>3

=============================================================================
