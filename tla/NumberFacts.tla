----------------------------- MODULE NumberFacts -----------------------------
(***************************************************************************)
(* What the proofs need to know of numbers: a set of them has a smallest   *)
(* and a largest member, which Min and Max of FiniteSetsExt return; a set  *)
(* that holds 0 and every successor of a member holds them all; a step can *)
(* be repeated any number of times; and a recursive definition over the    *)
(* natural numbers has a solution.                                         *)
(***************************************************************************)
EXTENDS Integers, FiniteSetsExt, FiniteSetTheorems, WellFoundedInduction, TLAPS

\* A set of natural numbers that is not empty has a smallest member.
LEMMA LeastNumber ==
  ASSUME NEW S \in SUBSET Nat, S # {}
  PROVE  Min(S) \in S /\ \A k \in S : Min(S) <= k
<1> DEFINE T == {0 .. k : k \in S}
           R == StrictSubsetOrdering(Nat)
           F == FiniteSubsetsOf(Nat)
<1>1. T \subseteq F
  <2>1. ASSUME NEW k \in S
        PROVE  0 .. k \in F
    <3>1. IsFiniteSet(0 .. k)
      BY FS_Interval
    <3>2. 0 .. k \in SUBSET Nat
      OBVIOUS
    <3>. QED  BY <3>1, <3>2 DEF FiniteSubsetsOf
  <2>. QED  BY <2>1
<1>2. T # {}
  <2>1. PICK k \in S : TRUE
    OBVIOUS
  <2>2. 0 .. k \in T
    OBVIOUS
  <2>. QED  BY <2>2
<1>3. IsWellFoundedOn(R, F)
  BY FS_StrictSubsetOrderingWellFounded
<1>4. PICK t \in T : \A u \in T : <<u, t>> \notin R
  <2>. HIDE DEF R, F, T
  <2>. QED  BY <1>1, <1>2, <1>3, WFMin
<1>5. PICK m \in S : t = 0 .. m
  OBVIOUS
<1>6. ASSUME NEW k \in S, k < m
      PROVE  FALSE
  <2>1. 0 .. k \subseteq 0 .. m /\ m \in (0 .. m) \ (0 .. k)
    BY <1>6
  <2>2. <<0 .. k, 0 .. m>> \in R
    BY <2>1 DEF StrictSubsetOrdering
  <2>. QED  BY <1>4, <1>5, <2>2
<1>7. \A k \in S : m <= k
  BY <1>6
<1>. QED  BY <1>7 DEF Min

\* A set of natural numbers up to n that is not empty has a largest member.
LEMMA GreatestNumber ==
  ASSUME NEW n \in Nat, NEW S \in SUBSET (0 .. n), S # {}
  PROVE  Max(S) \in S /\ \A k \in S : k <= Max(S)
<1>. DEFINE D == {n - k : k \in S}
<1>1. D \in SUBSET Nat /\ D # {}
  <2>1. ASSUME NEW k \in S PROVE n - k \in Nat
    <3>1. k \in Int /\ 0 <= k /\ k <= n
      OBVIOUS
    <3>. QED  BY <3>1
  <2>2. PICK k \in S : TRUE
    OBVIOUS
  <2>3. n - k \in D
    OBVIOUS
  <2>. QED  BY <2>1, <2>3
<1>2. Min(D) \in D /\ \A d \in D : Min(D) <= d
  <2>. HIDE DEF D
  <2>. QED  BY <1>1, LeastNumber
<1>3. PICK m \in S : Min(D) = n - m
  BY <1>2
<1>4. \A k \in S : k <= m
  <2>1. ASSUME NEW k \in S PROVE k <= m
    <3>1. n - k \in D
      OBVIOUS
    <3>2. n - m <= n - k
      BY <1>2, <1>3, <3>1
    <3>. QED  BY <3>2
  <2>. QED  BY <2>1
<1>5. \A k \in S : m >= k
  BY <1>4
<1>6. Max(S) \in S /\ \A k \in S : Max(S) >= k
  BY <1>5 DEF Max
<1>. QED  BY <1>6

\* Induction, with a set in the place of a predicate.
LEMMA Induction ==
  ASSUME NEW S, 0 \in S, \A k \in Nat : k \in S => k + 1 \in S
  PROVE  Nat \subseteq S
<1>. DEFINE C == {k \in Nat : k \notin S}
<1>. SUFFICES ASSUME C # {} PROVE FALSE
  OBVIOUS
<1>1. Min(C) \in C /\ \A k \in C : Min(C) <= k
  <2>1. C \in SUBSET Nat
    OBVIOUS
  <2>. HIDE DEF C
  <2>. QED  BY <2>1, LeastNumber
<1>2. PICK m \in C : \A k \in C : m <= k
  BY <1>1
<1>3. m \in Nat /\ m # 0 /\ m \notin S
  OBVIOUS
<1>4. m - 1 \in Nat /\ m - 1 \notin C
  BY <1>2, <1>3
<1>. QED  BY <1>3, <1>4

\* Multiples of m, and that two of them are not less than m apart.
LEMMA MultipleOf ==
  ASSUME NEW m \in Nat \ {0}, NEW q \in Int
  PROVE  (m * q) % m = 0
<1>1. (m * q + 0) % m = 0
  OBVIOUS
<1>. QED  BY <1>1

LEMMA MultiplesApart ==
  ASSUME NEW m \in Nat \ {0}, NEW a \in Nat, NEW r \in Nat, a % m = 0, r % m = 0, a <= r, r < a + m
  PROVE  r = a
OBVIOUS

\* E holds the values that Step takes from x, the first n of them.
IsIteration(E, Step, x, n) ==
  E = [k \in 0 .. n |-> IF k = 0 THEN x ELSE Step[E[k - 1]]]

\* One value after the other.
LEMMA IterationValues ==
  ASSUME NEW Step, NEW x, NEW n \in Nat, NEW E, IsIteration(E, Step, x, n)
  PROVE  /\ E[0] = x
         /\ \A k \in 0 .. n - 1 : E[k + 1] = Step[E[k]]
<1>1. \A k \in 0 .. n : E[k] = IF k = 0 THEN x ELSE Step[E[k - 1]]
  BY DEF IsIteration
<1>. QED  BY <1>1

\* A step can be repeated any number of times.
LEMMA Iteration ==
  ASSUME NEW Step, NEW x, NEW n \in Nat
  PROVE  \E E : IsIteration(E, Step, x, n)
<1>. DEFINE S == {m \in Nat : \E E : IsIteration(E, Step, x, m)}
<1>1. 0 \in S
  <2>1. IsIteration([k \in 0 .. 0 |-> x], Step, x, 0)
    BY DEF IsIteration
  <2>. QED  BY <2>1
<1>2. ASSUME NEW m \in Nat, m \in S
      PROVE  m + 1 \in S
  <2>1. PICK E : IsIteration(E, Step, x, m)
    BY <1>2
  <2>. DEFINE F == [k \in 0 .. m + 1 |-> IF k = m + 1 THEN Step[E[m]] ELSE E[k]]
  <2>2. F[0] = x
    BY <2>1 DEF IsIteration
  <2>3. ASSUME NEW k \in 0 .. m + 1, k # 0
        PROVE  F[k] = Step[F[k - 1]]
    <3>1. CASE k = m + 1
      BY <3>1
    <3>2. CASE k \in 1 .. m
      <4>1. k - 1 \in 0 .. m /\ k \in 0 .. m /\ k # m + 1
        BY <3>2
      <4>. QED  BY <2>1, <3>2, <4>1 DEF IsIteration
    <3>. QED  BY <2>3, <3>1, <3>2
  <2>4. IsIteration(F, Step, x, m + 1)
    BY <2>2, <2>3 DEF IsIteration
  <2>. QED  BY <2>4
<1>3. n \in S
  <2>. HIDE DEF S
  <2>. QED  BY <1>1, <1>2, Induction
<1>. QED  BY <1>3

\* E begins with x and goes on for ever, by steps that may depend on the place.
IsRecursion(E, Step, x) ==
  E = [k \in Nat |-> IF k = 0 THEN x ELSE Step[<<k - 1, E[k - 1]>>]]

IsRecursionUpTo(E, Step, x, n) ==
  E = [k \in 0 .. n |-> IF k = 0 THEN x ELSE Step[<<k - 1, E[k - 1]>>]]

LEMMA RecursionUpTo ==
  ASSUME NEW Step, NEW x, NEW n \in Nat
  PROVE  \E E : IsRecursionUpTo(E, Step, x, n)
<1>. DEFINE S == {m \in Nat : \E E : IsRecursionUpTo(E, Step, x, m)}
<1>1. 0 \in S
  <2>1. IsRecursionUpTo([k \in 0 .. 0 |-> x], Step, x, 0)
    BY DEF IsRecursionUpTo
  <2>. QED  BY <2>1
<1>2. ASSUME NEW m \in Nat, m \in S
      PROVE  m + 1 \in S
  <2>1. PICK E : IsRecursionUpTo(E, Step, x, m)
    BY <1>2
  <2>. DEFINE F == [k \in 0 .. m + 1 |-> IF k = m + 1 THEN Step[<<m, E[m]>>] ELSE E[k]]
  <2>2. F[0] = x
    BY <2>1 DEF IsRecursionUpTo
  <2>3. ASSUME NEW k \in 0 .. m + 1, k # 0
        PROVE  F[k] = Step[<<k - 1, F[k - 1]>>]
    <3>1. CASE k = m + 1
      BY <3>1
    <3>2. CASE k \in 1 .. m
      <4>1. k \in 0 .. m /\ k - 1 \in 0 .. m + 1 /\ k - 1 # m + 1 /\ k # m + 1
        BY <3>2
      <4>2. E[k] = Step[<<k - 1, E[k - 1]>>]
        BY <2>1, <2>3, <4>1 DEF IsRecursionUpTo
      <4>. QED  BY <4>1, <4>2
    <3>. QED  BY <2>3, <3>1, <3>2
  <2>4. IsRecursionUpTo(F, Step, x, m + 1)
    BY <2>2, <2>3 DEF IsRecursionUpTo
  <2>. QED  BY <2>4
<1>3. n \in S
  <2>. HIDE DEF S
  <2>. QED  BY <1>1, <1>2, Induction
<1>. QED  BY <1>3

LEMMA RecursionsAgree ==
  ASSUME NEW Step, NEW x, NEW m \in Nat, NEW n \in Nat, NEW E, NEW F,
         IsRecursionUpTo(E, Step, x, m), IsRecursionUpTo(F, Step, x, n), NEW i \in Nat, i <= m, i <= n
  PROVE  E[i] = F[i]
<1>. DEFINE S == {k \in Nat : k <= m /\ k <= n => E[k] = F[k]}
<1>1. 0 \in S
  BY DEF IsRecursionUpTo
<1>2. ASSUME NEW k \in Nat, k \in S
      PROVE  k + 1 \in S
  <2>. SUFFICES ASSUME k + 1 <= m, k + 1 <= n PROVE E[k + 1] = F[k + 1]
    OBVIOUS
  <2>. DEFINE h == k + 1
  <2>1. h \in 0 .. m /\ h \in 0 .. n /\ h # 0 /\ h - 1 = k
    OBVIOUS
  <2>2. E[k] = F[k]
    BY <1>2
  <2>. HIDE DEF h, S
  <2>3. E[h] = Step[<<h - 1, E[h - 1]>>] /\ F[h] = Step[<<h - 1, F[h - 1]>>]
    BY <2>1 DEF IsRecursionUpTo
  <2>. QED  BY <2>1, <2>2, <2>3 DEF h
<1>3. i \in S
  <2>. HIDE DEF S
  <2>. QED  BY <1>1, <1>2, Induction
<1>. QED  BY <1>3

\* A recursive definition over the natural numbers has a solution.
LEMMA Recursion ==
  ASSUME NEW Step, NEW x
  PROVE  \E E : IsRecursion(E, Step, x)
<1>. DEFINE Part(n) == CHOOSE F : IsRecursionUpTo(F, Step, x, n)
            E == [k \in Nat |-> Part(k)[k]]
<1>1. ASSUME NEW n \in Nat
      PROVE  IsRecursionUpTo(Part(n), Step, x, n)
  BY RecursionUpTo
<1>2. ASSUME NEW k \in Nat
      PROVE  E[k] = IF k = 0 THEN x ELSE Step[<<k - 1, E[k - 1]>>]
  <2>1. Part(k)[k] = IF k = 0 THEN x ELSE Step[<<k - 1, Part(k)[k - 1]>>]
    <3>. DEFINE G == Part(k)
    <3>1. k \in 0 .. k /\ IsRecursionUpTo(G, Step, x, k)
      BY <1>1
    <3>. HIDE DEF G
    <3>2. G = [i \in 0 .. k |-> IF i = 0 THEN x ELSE Step[<<i - 1, G[i - 1]>>]]
      BY <3>1 DEF IsRecursionUpTo
    <3>3. G[k] = IF k = 0 THEN x ELSE Step[<<k - 1, G[k - 1]>>]
      BY <3>1, <3>2
    <3>. QED  BY <3>3 DEF G
  <2>2. CASE k # 0
    <3>1. k - 1 \in Nat /\ k - 1 <= k /\ k - 1 <= k - 1
      BY <2>2
    <3>2. IsRecursionUpTo(Part(k), Step, x, k) /\ IsRecursionUpTo(Part(k - 1), Step, x, k - 1)
      BY <1>1, <3>1
    <3>. HIDE DEF Part
    <3>3. Part(k)[k - 1] = Part(k - 1)[k - 1]
      BY <3>1, <3>2, RecursionsAgree
    <3>4. E[k] = Part(k)[k] /\ E[k - 1] = Part(k - 1)[k - 1]
      BY <3>1
    <3>. QED  BY <2>1, <2>2, <3>3, <3>4
  <2>3. CASE k = 0
    BY <2>1, <2>3
  <2>. QED  BY <2>2, <2>3
<1>3. IsRecursion(E, Step, x)
  <2>. HIDE DEF Part
  <2>. QED  BY <1>2 DEF IsRecursion
<1>. QED  BY <1>3

LEMMA RecursionValues ==
  ASSUME NEW Step, NEW x, NEW E, IsRecursion(E, Step, x)
  PROVE  E[0] = x /\ \A k \in Nat : E[k + 1] = Step[<<k, E[k]>>]
<1>1. \A k \in Nat : E[k] = IF k = 0 THEN x ELSE Step[<<k - 1, E[k - 1]>>]
  BY DEF IsRecursion
<1>2. ASSUME NEW k \in Nat
      PROVE  E[k + 1] = Step[<<k, E[k]>>]
  <2>. DEFINE h == k + 1
  <2>1. h \in Nat /\ h # 0 /\ h - 1 = k
    OBVIOUS
  <2>. HIDE DEF h
  <2>2. E[h] = Step[<<h - 1, E[h - 1]>>]
    BY <1>1, <2>1
  <2>. QED  BY <2>1, <2>2 DEF h
<1>3. 0 \in Nat /\ E[0] = x
  BY <1>1
<1>. QED  BY <1>2, <1>3
=============================================================================
