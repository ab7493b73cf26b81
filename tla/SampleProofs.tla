---------------------------- MODULE SampleProofs ----------------------------
(***************************************************************************)
(* Theorems about the programs of task.sample: DemoSkeletonize, for images *)
(* of any size and depth and any structuring element that is symmetric and *)
(* holds its anchor; and, from the second half on, CamshiftDemo, for       *)
(* frames of every size.                                                   *)
(***************************************************************************)
EXTENDS DemoSkeletonize, CamshiftDemo, NumberFacts

\* Erosion and dilation stay between the gray levels, on either side of the
\* image.
LEMMA ErodedBelow ==
  ASSUME NEW f \in GrayImages
  PROVE  /\ GrayEroded(f) \in GrayImages
         /\ \A p \in Pixels : GrayEroded(f)[p] <= f[p]
         /\ \A p \in Pixels : \A q \in Nbr[p] : GrayEroded(f)[p] <= f[q]
<1>1. ASSUME NEW p \in Pixels
      PROVE  /\ Min({f[q] : q \in Nbr[p]}) \in Gray
             /\ \A q \in Nbr[p] : Min({f[q1] : q1 \in Nbr[p]}) <= f[q]
  <2> DEFINE S == {f[q] : q \in Nbr[p]}
  <2>1. Nbr[p] \subseteq Pixels /\ p \in Nbr[p]
    BY FootprintAssumption
  <2>2. S \in SUBSET Gray /\ S \in SUBSET Nat /\ S # {}
    BY <2>1, GrayAssumption DEF Gray, GrayImages
  <2>3. Min(S) \in S /\ \A k \in S : Min(S) <= k
    <3>. HIDE DEF S
    <3>. QED  BY <2>2, LeastNumber
  <2>. QED  BY <2>2, <2>3
<1>2. \A p \in Pixels : GrayEroded(f)[p] = Min({f[q] : q \in Nbr[p]})
  BY DEF GrayEroded
<1>3. \A p \in Pixels : p \in Nbr[p]
  BY FootprintAssumption
<1>4. GrayEroded(f) \in GrayImages
  BY <1>1 DEF GrayEroded, GrayImages
<1>. QED  BY <1>1, <1>2, <1>3, <1>4

LEMMA DilatedAbove ==
  ASSUME NEW f \in GrayImages
  PROVE  /\ GrayDilated(f) \in GrayImages
         /\ \A p \in Pixels : f[p] <= GrayDilated(f)[p]
         /\ \A p \in Pixels : \E q \in Nbr[p] : GrayDilated(f)[p] = f[q]
<1>1. ASSUME NEW p \in Pixels
      PROVE  /\ Max({f[q] : q \in Nbr[p]}) \in Gray
             /\ f[p] <= Max({f[q] : q \in Nbr[p]})
             /\ \E q \in Nbr[p] : Max({f[q1] : q1 \in Nbr[p]}) = f[q]
  <2> DEFINE S == {f[q] : q \in Nbr[p]}
  <2>1. Nbr[p] \subseteq Pixels /\ p \in Nbr[p]
    BY FootprintAssumption
  <2>2. MaxGray \in Nat /\ S \in SUBSET (0 .. MaxGray) /\ S # {} /\ f[p] \in S
    BY <2>1, GrayAssumption DEF Gray, GrayImages
  <2>3. Max(S) \in S /\ \A k \in S : k <= Max(S)
    <3>. HIDE DEF S
    <3>. QED  BY <2>2, GreatestNumber
  <2>. QED  BY <2>2, <2>3 DEF Gray
<1>2. \A p \in Pixels : GrayDilated(f)[p] = Max({f[q] : q \in Nbr[p]})
  BY DEF GrayDilated
<1>3. GrayDilated(f) \in GrayImages
  BY <1>1 DEF GrayDilated, GrayImages
<1>. QED  BY <1>1, <1>2, <1>3

\* The opening of an image is nowhere above it.
LEMMA OpenedBelow ==
  ASSUME NEW f \in GrayImages
  PROVE  /\ GrayDilated(GrayEroded(f)) \in GrayImages
         /\ \A p \in Pixels : GrayDilated(GrayEroded(f))[p] <= f[p]
         /\ \A p \in Pixels : GrayEroded(f)[p] <= GrayDilated(GrayEroded(f))[p]
<1>1. GrayEroded(f) \in GrayImages
  BY ErodedBelow
<1>2. ASSUME NEW p \in Pixels
      PROVE  GrayDilated(GrayEroded(f))[p] <= f[p]
  <2>1. PICK q \in Nbr[p] : GrayDilated(GrayEroded(f))[p] = GrayEroded(f)[q]
    BY <1>1, DilatedAbove
  <2>2. q \in Pixels /\ p \in Nbr[q]
    BY FootprintAssumption
  <2>. QED  BY <2>1, <2>2, ErodedBelow
<1>. QED  BY <1>1, <1>2, DilatedAbove

LEMMA ArithmeticTypes ==
  ASSUME NEW f \in GrayImages, NEW g \in GrayImages
  PROVE  /\ Minus(f, g) \in GrayImages
         /\ Plus(f, g) \in GrayImages
         /\ Negative(f) \in GrayImages
BY GrayAssumption DEF Minus, Plus, Negative, GrayImages, Gray

-----------------------------------------------------------------------------

\* orig is the layer, whenever a turn begins.
LayerKept == pc \in {"turn", "wait"} => orig = eroded

\* Since a round began, the window shows the skeleton or has been left alone.
ShownKept == InRound => shown = skeleton \/ skeleton = Black

IInv == TypeOK /\ LayerKept /\ ShownKept /\ SkeletonFits

LEMMA InitInv == Init => IInv
<1>. SUFFICES ASSUME Init PROVE IInv
  OBVIOUS
<1>1. Black \in GrayImages
  BY GrayAssumption DEF Black, GrayImages, Gray
<1>. QED  BY <1>1 DEF Init, IInv, TypeOK, LayerKept, ShownKept, SkeletonFits, InRound

\* Lines 132-137: the layer loses as much as the skeleton gains, or more.
LEMMA TurnFits ==
  ASSUME IInv, pc = "turn"
  PROVE  /\ GrayEroded(eroded) \in GrayImages
         /\ Delta \in GrayImages
         /\ Plus(skeleton, Delta) \in GrayImages
         /\ \A p \in Pixels : Plus(skeleton, Delta)[p] + GrayEroded(eroded)[p] <= input[p]
         /\ Delta = Black => \A p \in Pixels : skeleton[p] + GrayEroded(eroded)[p] <= input[p]
<1>1. /\ orig = eroded /\ eroded \in GrayImages /\ skeleton \in GrayImages
      /\ input \in GrayImages
      /\ \A p \in Pixels : skeleton[p] + eroded[p] <= input[p]
  BY DEF IInv, TypeOK, LayerKept, SkeletonFits, InRound
<1>2. GrayEroded(eroded) \in GrayImages
  BY <1>1, ErodedBelow
<1>3. GrayDilated(GrayEroded(eroded)) \in GrayImages
  BY <1>1, OpenedBelow
<1>4. Delta \in GrayImages /\ Plus(skeleton, Delta) \in GrayImages
  BY <1>1, <1>3, ArithmeticTypes DEF Delta
<1>5. ASSUME NEW p \in Pixels
      PROVE  /\ Plus(skeleton, Delta)[p] + GrayEroded(eroded)[p] <= input[p]
             /\ skeleton[p] + GrayEroded(eroded)[p] <= input[p]
  <2> DEFINE d == GrayDilated(GrayEroded(eroded))[p]
             e == GrayEroded(eroded)[p]
  <2>1. /\ d \in Nat /\ e \in Nat /\ skeleton[p] \in Nat /\ eroded[p] \in Nat
        /\ input[p] \in 0 .. MaxGray /\ MaxGray \in Nat
    BY <1>1, <1>2, <1>3, GrayAssumption DEF GrayImages, Gray
  <2>2. e <= d /\ d <= eroded[p] /\ e <= eroded[p]
    BY <1>1, OpenedBelow, ErodedBelow
  <2>3. Delta[p] = IF eroded[p] > d THEN eroded[p] - d ELSE 0
    BY <1>1 DEF Delta, Minus
  <2>4. Plus(skeleton, Delta)[p] =
          IF skeleton[p] + Delta[p] > MaxGray THEN MaxGray ELSE skeleton[p] + Delta[p]
    BY DEF Plus
  <2>5. skeleton[p] + eroded[p] <= input[p]
    BY <1>1
  <2>. HIDE DEF d, e
  <2>. QED  BY <2>1, <2>2, <2>3, <2>4, <2>5 DEF e
<1>. QED  BY <1>2, <1>4, <1>5

LEMMA NextInv == IInv /\ [Next]_vars => IInv'
<1>. SUFFICES ASSUME IInv, [Next]_vars PROVE IInv'
  OBVIOUS
<1>. USE DEF IInv, TypeOK, LayerKept, ShownKept, SkeletonFits, InRound
<1>1. CASE StartRound
  <2>1. Layer0(round) \in GrayImages /\ Black \in GrayImages
    BY <1>1, ArithmeticTypes, GrayAssumption
    DEF StartRound, Layer0, Black, GrayImages, Gray, Negative
  <2>2. \A p \in Pixels : Black[p] + Layer0(round)[p] <= Layer0(round)[p]
    BY <2>1 DEF Black, GrayImages, Gray
  <2>. QED  BY <1>1, <2>1, <2>2 DEF StartRound
<1>2. CASE StartFails
  BY <1>2 DEF StartFails
<1>3. CASE Turn
  <2>1. pc = "turn"
    BY <1>3 DEF Turn
  <2>2. TypeOK' /\ LayerKept' /\ ShownKept'
    BY <1>3, <2>1, TurnFits DEF Turn
  <2>3. SkeletonFits'
    BY <1>3, <2>1, TurnFits DEF Turn
  <2>. QED  BY <2>2, <2>3
<1>4. CASE Finish
  <2>1. pc = "turn" /\ Delta = Black
    BY <1>4 DEF Finish
  <2>2. TypeOK' /\ LayerKept' /\ ShownKept'
    BY <1>4, <2>1, TurnFits DEF Finish
  <2>3. SkeletonFits'
    BY <1>4, <2>1, TurnFits DEF Finish
  <2>. QED  BY <2>2, <2>3
<1>5. CASE NoKey
  BY <1>5 DEF NoKey
<1>6. CASE KeyQ \/ AnyKey
  BY <1>6 DEF KeyQ, AnyKey, Return
<1>7. CASE UNCHANGED vars
  BY <1>7 DEF vars
<1>. QED
  BY <1>1, <1>2, <1>3, <1>4, <1>5, <1>6, <1>7 DEF Next, Exited

LEMMA Invariance == Spec => []IInv
BY InitInv, NextInv, PTL DEF Spec

-----------------------------------------------------------------------------
(* The finished skeleton is the sum of what the layers lose.               *)

\* The recursive definition of a ball has a solution.
LEMMA BallUnfolds ==
  ASSUME NEW p \in Pixels
  PROVE  /\ Ball(p, 0) = {p}
         /\ \A k \in Nat : Ball(p, k + 1) = UNION {Nbr[q] : q \in Ball(p, k)}
<1>. DEFINE Step == [a \in Nat \X SUBSET Pixels |-> UNION {Nbr[q] : q \in a[2]}]
            Unfolded(B) == B = [i \in Nat |-> IF i = 0 THEN {p} ELSE UNION {Nbr[q] : q \in B[i - 1]}]
<1>1. PICK E : IsRecursion(E, Step, {p})
  <2>. HIDE DEF Step, Unfolded
  <2>. QED  BY Recursion
<1>2. E[0] = {p} /\ \A k \in Nat : E[k + 1] = Step[<<k, E[k]>>]
  <2>. HIDE DEF Step, Unfolded
  <2>. QED  BY <1>1, RecursionValues
<1>3. ASSUME NEW k \in Nat, E[k] \in SUBSET Pixels
      PROVE  Step[<<k, E[k]>>] = UNION {Nbr[q] : q \in E[k]} /\ Step[<<k, E[k]>>] \in SUBSET Pixels
  <2>1. <<k, E[k]>> \in Nat \X SUBSET Pixels
    BY <1>3
  <2>. QED  BY <1>3, <2>1, FootprintAssumption
<1>4. \A k \in Nat : E[k] \in SUBSET Pixels
  <2>. DEFINE S == {k \in Nat : E[k] \in SUBSET Pixels}
  <2>1. 0 \in S
    BY <1>2
  <2>2. ASSUME NEW k \in Nat, k \in S
        PROVE  k + 1 \in S
    <3>1. E[k] \in SUBSET Pixels /\ k + 1 \in Nat
      BY <2>2
    <3>. HIDE DEF Step, Unfolded
    <3>2. E[k + 1] \in SUBSET Pixels
      BY <1>2, <1>3, <3>1
    <3>. QED  BY <3>1, <3>2
  <2>. HIDE DEF S
  <2>3. Nat \subseteq S
    BY <2>1, <2>2, Induction
  <2>. QED  BY <2>3 DEF S
<1>5. Unfolded(E)
  <2>. HIDE DEF Step, Unfolded
  <2>1. ASSUME NEW k \in Nat, k # 0
        PROVE  Step[<<k - 1, E[k - 1]>>] = UNION {Nbr[q] : q \in E[k - 1]}
    <3>1. k - 1 \in Nat
      BY <2>1
    <3>. QED  BY <1>3, <1>4, <3>1
  <2>2. E = [k \in Nat |-> IF k = 0 THEN {p} ELSE Step[<<k - 1, E[k - 1]>>]]
    BY <1>1 DEF IsRecursion
  <2>3. E = [k \in Nat |-> IF k = 0 THEN {p} ELSE UNION {Nbr[q] : q \in E[k - 1]}]
    BY <2>1, <2>2
  <2>. QED  BY <2>3 DEF Unfolded
<1>. DEFINE C == CHOOSE B : Unfolded(B)
<1>6. Unfolded(C)
  <2>. HIDE DEF Unfolded
  <2>. QED  BY <1>5
<1>7. \A k \in Nat : Ball(p, k) = C[k]
  BY DEF Ball
<1>. HIDE DEF C, Step
<1>8. C[0] = {p} /\ \A k \in Nat : C[k + 1] = UNION {Nbr[q] : q \in C[k]}
  <2>1. \A k \in Nat : C[k] = IF k = 0 THEN {p} ELSE UNION {Nbr[q] : q \in C[k - 1]}
    BY <1>6
  <2>2. ASSUME NEW k \in Nat
        PROVE  C[k + 1] = UNION {Nbr[q] : q \in C[k]}
    <3>. DEFINE h == k + 1
    <3>1. h \in Nat /\ h # 0 /\ h - 1 = k
      OBVIOUS
    <3>. HIDE DEF h, Unfolded
    <3>2. C[h] = UNION {Nbr[q] : q \in C[h - 1]}
      BY <2>1, <3>1
    <3>. QED  BY <3>1, <3>2 DEF h
  <2>3. 0 \in Nat /\ C[0] = {p}
    BY <2>1
  <2>. QED  BY <2>2, <2>3
<1>9. \A k \in Nat : k + 1 \in Nat
  OBVIOUS
<1>. QED  BY <1>7, <1>8, <1>9

LEMMA BallsGrow ==
  ASSUME NEW p \in Pixels, NEW k \in Nat
  PROVE  Ball(p, k) \in SUBSET Pixels /\ p \in Ball(p, k) /\ Ball(p, k) \subseteq Ball(p, k + 1)
<1>. DEFINE S == {j \in Nat : Ball(p, j) \in SUBSET Pixels /\ p \in Ball(p, j)}
<1>1. 0 \in S
  BY BallUnfolds
<1>2. ASSUME NEW j \in Nat, j \in S
      PROVE  j + 1 \in S
  <2>1. Ball(p, j + 1) = UNION {Nbr[q] : q \in Ball(p, j)}
    BY BallUnfolds
  <2>. QED  BY <1>2, <2>1, FootprintAssumption
<1>3. k \in S
  <2>. HIDE DEF S
  <2>. QED  BY <1>1, <1>2, Induction
<1>4. Ball(p, k + 1) = UNION {Nbr[q] : q \in Ball(p, k)}
  BY BallUnfolds
<1>. QED  BY <1>3, <1>4, FootprintAssumption

\* A ball can be grown from its first step as well as by its last.
LEMMA BallSplits ==
  ASSUME NEW p \in Pixels, NEW k \in Nat
  PROVE  Ball(p, k + 1) = UNION {Ball(q, k) : q \in Nbr[p]}
<1>0. Nbr[p] \subseteq Pixels
  BY FootprintAssumption
<1>. DEFINE S == {j \in Nat : Ball(p, j + 1) = UNION {Ball(q, j) : q \in Nbr[p]}}
<1>1. 0 \in S
  <2>1. Ball(p, 0 + 1) = UNION {Nbr[q] : q \in {p}}
    BY BallUnfolds
  <2>2. \A q \in Nbr[p] : Ball(q, 0) = {q}
    BY <1>0, BallUnfolds
  <2>. QED  BY <2>1, <2>2
<1>2. ASSUME NEW j \in Nat, j \in S
      PROVE  j + 1 \in S
  <2>1. Ball(p, j + 1 + 1) = UNION {Nbr[r] : r \in Ball(p, j + 1)}
    BY BallUnfolds
  <2>2. \A q \in Nbr[p] : Ball(q, j + 1) = UNION {Nbr[r] : r \in Ball(q, j)}
    BY <1>0, BallUnfolds
  <2>3. Ball(p, j + 1) = UNION {Ball(q, j) : q \in Nbr[p]}
    BY <1>2
  <2>4. Ball(p, j + 1 + 1) = UNION {Ball(q, j + 1) : q \in Nbr[p]}
    BY <2>1, <2>2, <2>3
  <2>. QED  BY <2>4
<1>3. k \in S
  <2>. HIDE DEF S
  <2>. QED  BY <1>1, <1>2, Induction
<1>. QED  BY <1>3

\* As many steps as there are pixels reach all that can be reached.
LEMMA BallsFill ==
  ASSUME NEW p \in Pixels
  PROVE  Ball(p, Cardinality(Pixels) + 1) = Ball(p, Cardinality(Pixels))
<1>. DEFINE N == Cardinality(Pixels)
            S == {j \in Nat : Cardinality(Ball(p, j)) >= j + 1 \/ Ball(p, j + 1) = Ball(p, j)}
<1>0. N \in Nat /\ \A j \in Nat : /\ IsFiniteSet(Ball(p, j)) /\ Cardinality(Ball(p, j)) \in Nat
                                  /\ Cardinality(Ball(p, j)) <= N
  BY BallsGrow, FS_Subset, FS_CardinalityType, FootprintAssumption
<1>1. 0 \in S
  <2>1. Cardinality({p}) = 1 /\ Ball(p, 0) = {p}
    BY FS_Singleton, BallUnfolds
  <2>. QED  BY <2>1
<1>2. ASSUME NEW j \in Nat, j \in S
      PROVE  j + 1 \in S
  <2>1. j + 1 \in Nat
    OBVIOUS
  <2>2. CASE Ball(p, j + 1) = Ball(p, j)
    <3>1. Ball(p, j + 1 + 1) = Ball(p, j + 1)
      BY <2>1, <2>2, BallUnfolds
    <3>. QED  BY <3>1
  <2>3. CASE Ball(p, j + 1) # Ball(p, j)
    <3>. DEFINE X == Ball(p, j)
                Y == Ball(p, j + 1)
    <3>1. X \subseteq Y /\ X # Y /\ IsFiniteSet(Y)
      BY <1>0, <2>1, <2>3, BallsGrow
    <3>. HIDE DEF X, Y
    <3>2. Cardinality(X) \in Nat /\ Cardinality(Y) \in Nat /\ Cardinality(X) < Cardinality(Y)
      BY <3>1, FS_Subset, FS_CardinalityType
    <3>3. Cardinality(X) >= j + 1
      BY <1>2, <2>3 DEF X
    <3>4. Cardinality(Y) >= j + 1 + 1
      BY <3>2, <3>3
    <3>. QED  BY <3>4 DEF Y
  <2>. QED  BY <2>2, <2>3
<1>3. N \in S
  <2>. HIDE DEF S, N
  <2>. QED  BY <1>0, <1>1, <1>2, Induction
<1>4. ~ (Cardinality(Ball(p, N)) >= N + 1)
  BY <1>0
<1>. QED  BY <1>3, <1>4

\* The k-th layer, from the input alone.
LayerAt(k) == [p \in Pixels |-> Min({input[q] : q \in Ball(p, k)})]

LEMMA LayerValues ==
  ASSUME input \in GrayImages, NEW k \in Nat
  PROVE  /\ LayerAt(k) \in GrayImages
         /\ \A p \in Pixels : \A q \in Ball(p, k) : LayerAt(k)[p] <= input[q]
         /\ \A p \in Pixels : \E q \in Ball(p, k) : LayerAt(k)[p] = input[q]
<1>1. ASSUME NEW p \in Pixels
      PROVE  /\ Min({input[q] : q \in Ball(p, k)}) \in Gray
             /\ \A q \in Ball(p, k) : Min({input[r] : r \in Ball(p, k)}) <= input[q]
             /\ \E q \in Ball(p, k) : Min({input[r] : r \in Ball(p, k)}) = input[q]
  <2>. DEFINE S == {input[q] : q \in Ball(p, k)}
  <2>1. Ball(p, k) \subseteq Pixels /\ p \in Ball(p, k)
    BY BallsGrow
  <2>2. S \in SUBSET Gray /\ S \in SUBSET Nat /\ S # {}
    BY <2>1, GrayAssumption DEF Gray, GrayImages
  <2>3. Min(S) \in S /\ \A v \in S : Min(S) <= v
    <3>. HIDE DEF S
    <3>. QED  BY <2>2, LeastNumber
  <2>. QED  BY <2>2, <2>3
<1>2. \A p \in Pixels : LayerAt(k)[p] = Min({input[q] : q \in Ball(p, k)})
  BY DEF LayerAt
<1>3. LayerAt(k) \in GrayImages
  BY <1>1 DEF LayerAt, GrayImages
<1>. QED  BY <1>1, <1>2, <1>3

LEMMA FirstLayer ==
  ASSUME input \in GrayImages
  PROVE  LayerAt(0) = input
<1>1. ASSUME NEW p \in Pixels
      PROVE  LayerAt(0)[p] = input[p]
  <2>1. PICK q \in Ball(p, 0) : LayerAt(0)[p] = input[q]
    BY LayerValues
  <2>. QED  BY <2>1, BallUnfolds
<1>2. LayerAt(0) \in GrayImages
  BY LayerValues
<1>. QED  BY <1>1, <1>2 DEF GrayImages

\* Every layer is the erosion of the one before.
LEMMA LayersErode ==
  ASSUME input \in GrayImages, NEW k \in Nat
  PROVE  GrayEroded(LayerAt(k)) = LayerAt(k + 1)
<1>1. /\ LayerAt(k) \in GrayImages /\ LayerAt(k + 1) \in GrayImages /\ k + 1 \in Nat
      /\ GrayEroded(LayerAt(k)) \in GrayImages
  BY LayerValues, ErodedBelow
<1>2. ASSUME NEW p \in Pixels
      PROVE  GrayEroded(LayerAt(k))[p] = LayerAt(k + 1)[p]
  <2>. DEFINE v == GrayEroded(LayerAt(k))[p]
              w == LayerAt(k + 1)[p]
  <2>1. v \in Nat /\ w \in Nat
    BY <1>1, GrayAssumption DEF GrayImages, Gray
  <2>2. Nbr[p] \subseteq Pixels /\ Ball(p, k + 1) = UNION {Ball(q, k) : q \in Nbr[p]}
    BY BallSplits, FootprintAssumption
  <2>3. w <= v
    <3>. DEFINE S == {LayerAt(k)[q] : q \in Nbr[p]}
    <3>1. S \in SUBSET Nat /\ S # {}
      BY <1>1, FootprintAssumption, GrayAssumption DEF GrayImages, Gray
    <3>2. Min(S) \in S
      <4>. HIDE DEF S
      <4>. QED  BY <3>1, LeastNumber
    <3>3. v = Min(S)
      BY DEF GrayEroded
    <3>4. PICK q \in Nbr[p] : v = LayerAt(k)[q]
      BY <3>2, <3>3
    <3>5. PICK r \in Ball(q, k) : v = input[r]
      BY <2>2, <3>4, LayerValues
    <3>6. r \in Ball(p, k + 1)
      BY <2>2, <3>5
    <3>. QED  BY <1>1, <3>5, <3>6, LayerValues
  <2>4. v <= w
    <3>1. PICK r \in Ball(p, k + 1) : w = input[r]
      BY <1>1, LayerValues
    <3>2. PICK q \in Nbr[p] : r \in Ball(q, k)
      BY <2>2, <3>1
    <3>3. LayerAt(k)[q] <= w
      BY <2>2, <3>1, <3>2, LayerValues
    <3>4. v <= LayerAt(k)[q]
      BY <1>1, <3>2, ErodedBelow
    <3>5. LayerAt(k)[q] \in Nat
      BY <1>1, <2>2, GrayAssumption DEF GrayImages, Gray
    <3>. HIDE DEF v, w
    <3>. QED  BY <2>1, <3>3, <3>4, <3>5
  <2>. HIDE DEF v, w
  <2>5. v = w
    BY <2>1, <2>3, <2>4
  <2>. QED  BY <2>5 DEF v, w
<1>. QED  BY <1>1, <1>2 DEF GrayImages

\* What a layer loses is what the loop subtracts.
LEMMA LostIs ==
  ASSUME input \in GrayImages, NEW k \in Nat
  PROVE  /\ Lost(k) = Minus(LayerAt(k), GrayDilated(LayerAt(k + 1)))
         /\ Lost(k) \in GrayImages
<1>1. LayerAt(k) \in GrayImages /\ GrayEroded(LayerAt(k)) = LayerAt(k + 1)
  BY LayerValues, LayersErode
<1>2. /\ GrayDilated(LayerAt(k + 1)) \in GrayImages
      /\ \A p \in Pixels : GrayDilated(LayerAt(k + 1))[p] <= LayerAt(k)[p]
  <2>1. /\ GrayDilated(GrayEroded(LayerAt(k))) \in GrayImages
        /\ \A p \in Pixels : GrayDilated(GrayEroded(LayerAt(k)))[p] <= LayerAt(k)[p]
    BY <1>1, OpenedBelow
  <2>. QED  BY <1>1, <2>1
<1>3. ASSUME NEW p \in Pixels
      PROVE  LayerAt(k)[p] - GrayDilated(LayerAt(k + 1))[p]
               = Minus(LayerAt(k), GrayDilated(LayerAt(k + 1)))[p]
  <2>. DEFINE a == LayerAt(k)[p]
              b == GrayDilated(LayerAt(k + 1))[p]
  <2>1. a \in Nat /\ b \in Nat /\ b <= a
    BY <1>1, <1>2, GrayAssumption DEF GrayImages, Gray
  <2>2. Minus(LayerAt(k), GrayDilated(LayerAt(k + 1)))[p] = IF a > b THEN a - b ELSE 0
    BY DEF Minus
  <2>. HIDE DEF a, b
  <2>3. a - b = IF a > b THEN a - b ELSE 0
    BY <2>1
  <2>. QED  BY <2>2, <2>3 DEF a, b
<1>4. ASSUME NEW p \in Pixels
      PROVE  Lost(k)[p] = LayerAt(k)[p] - GrayDilated(LayerAt(k + 1))[p]
  <2>1. Nbr[p] \subseteq Pixels
    BY FootprintAssumption
  <2>2. {Min({input[q] : q \in Ball(r, k + 1)}) : r \in Nbr[p]} = {LayerAt(k + 1)[r] : r \in Nbr[p]}
    BY <2>1 DEF LayerAt
  <2>3. GrayDilated(LayerAt(k + 1))[p] = Max({LayerAt(k + 1)[r] : r \in Nbr[p]})
    BY DEF GrayDilated
  <2>4. LayerAt(k)[p] = Min({input[q] : q \in Ball(p, k)})
    BY DEF LayerAt
  <2>5. Lost(k)[p] = Min({input[q] : q \in Ball(p, k)})
                       - Max({Min({input[q] : q \in Ball(r, k + 1)}) : r \in Nbr[p]})
    BY DEF Lost
  <2>. QED  BY <2>2, <2>3, <2>4, <2>5
<1>5. Lost(k) = [p \in Pixels |-> Lost(k)[p]]
  BY DEF Lost
<1>6. Minus(LayerAt(k), GrayDilated(LayerAt(k + 1))) \in GrayImages
  BY <1>1, <1>2, ArithmeticTypes
<1>7. Lost(k) = Minus(LayerAt(k), GrayDilated(LayerAt(k + 1)))
  <2>. DEFINE M == Minus(LayerAt(k), GrayDilated(LayerAt(k + 1)))
  <2>1. M = [p \in Pixels |-> M[p]]
    BY DEF Minus
  <2>2. \A p \in Pixels : Lost(k)[p] = M[p]
    BY <1>3, <1>4
  <2>. HIDE DEF M
  <2>3. Lost(k) = M
    BY <1>5, <2>1, <2>2
  <2>. QED  BY <2>3 DEF M
<1>. QED  BY <1>6, <1>7

\* The layer after as many turns as there are pixels loses nothing.
LEMMA NothingLeft ==
  ASSUME input \in GrayImages
  PROVE  Lost(Cardinality(Pixels)) = Black
<1>. DEFINE N == Cardinality(Pixels)
            f == LayerAt(N)
<1>0. N \in Nat
  BY FS_CardinalityType, FootprintAssumption
<1>1. LayerAt(N + 1) = f
  BY BallsFill DEF LayerAt
<1>2. f \in GrayImages /\ GrayEroded(f) = f
  BY <1>0, <1>1, LayerValues, LayersErode
<1>3. Lost(N) = Minus(f, GrayDilated(f))
  BY <1>0, <1>1, LostIs
<1>. HIDE DEF f, N
<1>4. ASSUME NEW p \in Pixels, NEW q \in Nbr[p]
      PROVE  f[p] = f[q]
  <2>1. q \in Pixels /\ p \in Nbr[q]
    BY FootprintAssumption
  <2>2. f[p] <= f[q] /\ f[q] <= f[p]
    BY <1>2, <2>1, ErodedBelow
  <2>3. f[p] \in Nat /\ f[q] \in Nat
    BY <1>2, <2>1, GrayAssumption DEF GrayImages, Gray
  <2>. QED  BY <2>2, <2>3
<1>5. ASSUME NEW p \in Pixels
      PROVE  Minus(f, GrayDilated(f))[p] = 0
  <2>1. GrayDilated(f)[p] = f[p]
    BY <1>2, <1>4, DilatedAbove
  <2>2. f[p] \in Nat
    BY <1>2, GrayAssumption DEF GrayImages, Gray
  <2>3. Minus(f, GrayDilated(f))[p] = IF f[p] > f[p] THEN f[p] - f[p] ELSE 0
    BY <2>1 DEF Minus
  <2>. QED  BY <2>2, <2>3
<1>6. Minus(f, GrayDilated(f)) = [p \in Pixels |-> Minus(f, GrayDilated(f))[p]]
  BY DEF Minus
<1>7. Minus(f, GrayDilated(f)) = [p \in Pixels |-> 0]
  BY <1>5, <1>6
<1>. QED  BY <1>3, <1>7 DEF Black, N

\* The recursive definition of the sum has a solution.
LEMMA SumUnfolds ==
  ASSUME input \in GrayImages, NEW p \in Pixels
  PROVE  /\ LostBefore(p, 0) = 0
         /\ \A k \in Nat : LostBefore(p, k) \in Nat /\ LostBefore(p, k + 1) = LostBefore(p, k) + Lost(k)[p]
<1>. DEFINE Step == [a \in Nat \X Nat |-> a[2] + Lost(a[1])[p]]
            Unfolded(T) == T = [i \in Nat |-> IF i = 0 THEN 0 ELSE T[i - 1] + Lost(i - 1)[p]]
<1>0. \A k \in Nat : Lost(k)[p] \in Nat
  BY LostIs, GrayAssumption DEF GrayImages, Gray
<1>1. PICK E : IsRecursion(E, Step, 0)
  <2>. HIDE DEF Step, Unfolded
  <2>. QED  BY Recursion
<1>2. E[0] = 0 /\ \A k \in Nat : E[k + 1] = Step[<<k, E[k]>>]
  <2>. HIDE DEF Step, Unfolded
  <2>. QED  BY <1>1, RecursionValues
<1>3. ASSUME NEW k \in Nat, E[k] \in Nat
      PROVE  Step[<<k, E[k]>>] = E[k] + Lost(k)[p] /\ Step[<<k, E[k]>>] \in Nat
  <2>1. <<k, E[k]>> \in Nat \X Nat
    BY <1>3
  <2>2. Step[<<k, E[k]>>] = E[k] + Lost(k)[p]
    BY <2>1
  <2>. HIDE DEF Step
  <2>. QED  BY <1>0, <1>3, <2>2
<1>4. \A k \in Nat : E[k] \in Nat
  <2>. DEFINE S == {k \in Nat : E[k] \in Nat}
  <2>1. 0 \in S
    BY <1>2
  <2>2. ASSUME NEW k \in Nat, k \in S
        PROVE  k + 1 \in S
    <3>1. E[k] \in Nat /\ k + 1 \in Nat
      BY <2>2
    <3>. HIDE DEF Step, Unfolded
    <3>2. E[k + 1] \in Nat
      BY <1>2, <1>3, <3>1
    <3>. QED  BY <3>1, <3>2
  <2>. HIDE DEF S
  <2>3. Nat \subseteq S
    BY <2>1, <2>2, Induction
  <2>. QED  BY <2>3 DEF S
<1>5. Unfolded(E)
  <2>. HIDE DEF Step, Unfolded
  <2>1. ASSUME NEW k \in Nat, k # 0
        PROVE  Step[<<k - 1, E[k - 1]>>] = E[k - 1] + Lost(k - 1)[p]
    <3>1. k - 1 \in Nat
      BY <2>1
    <3>. QED  BY <1>3, <1>4, <3>1
  <2>2. E = [k \in Nat |-> IF k = 0 THEN 0 ELSE Step[<<k - 1, E[k - 1]>>]]
    BY <1>1 DEF IsRecursion
  <2>3. E = [k \in Nat |-> IF k = 0 THEN 0 ELSE E[k - 1] + Lost(k - 1)[p]]
    BY <2>1, <2>2
  <2>. QED  BY <2>3 DEF Unfolded
<1>. DEFINE C == CHOOSE T : Unfolded(T)
<1>6. Unfolded(C)
  <2>. HIDE DEF Unfolded
  <2>. QED  BY <1>5
<1>7. \A k \in Nat : LostBefore(p, k) = C[k]
  BY DEF LostBefore
<1>. HIDE DEF C, Step
<1>8. C[0] = 0 /\ \A k \in Nat : C[k + 1] = C[k] + Lost(k)[p]
  <2>1. \A k \in Nat : C[k] = IF k = 0 THEN 0 ELSE C[k - 1] + Lost(k - 1)[p]
    BY <1>6
  <2>2. ASSUME NEW k \in Nat
        PROVE  C[k + 1] = C[k] + Lost(k)[p]
    <3>. DEFINE h == k + 1
    <3>1. h \in Nat /\ h # 0 /\ h - 1 = k
      OBVIOUS
    <3>. HIDE DEF h, Unfolded
    <3>2. C[h] = C[h - 1] + Lost(h - 1)[p]
      BY <2>1, <3>1
    <3>. QED  BY <3>1, <3>2 DEF h
  <2>3. 0 \in Nat /\ C[0] = 0
    BY <2>1
  <2>. QED  BY <2>2, <2>3
<1>9. \A k \in Nat : C[k] \in Nat
  <2>. DEFINE S == {k \in Nat : C[k] \in Nat}
  <2>1. 0 \in S
    BY <1>8
  <2>2. ASSUME NEW k \in Nat, k \in S
        PROVE  k + 1 \in S
    <3>1. C[k] \in Nat /\ k + 1 \in Nat /\ C[k + 1] = C[k] + Lost(k)[p] /\ Lost(k)[p] \in Nat
      BY <1>0, <1>8, <2>2
    <3>2. C[k + 1] \in Nat
      BY <3>1
    <3>. QED  BY <3>1, <3>2
  <2>. HIDE DEF S
  <2>3. Nat \subseteq S
    BY <2>1, <2>2, Induction
  <2>. QED  BY <2>3 DEF S
<1>10. \A k \in Nat : k + 1 \in Nat
  OBVIOUS
<1>. QED  BY <1>7, <1>8, <1>9, <1>10

LEMMA NothingBefore == input \in GrayImages => LayerAt(0) = input /\ \A p \in Pixels : LostBefore(p, 0) = 0
BY FirstLayer, SumUnfolds

\* The loop has added up what k layers lose, and all of them lost something.
Collected(k) ==
  /\ eroded = LayerAt(k)
  /\ skeleton = [p \in Pixels |-> LostBefore(p, k)]
  /\ \A j \in 0 .. k - 1 : Lost(j) # Black

TurnsCounted == pc \in {"turn", "wait"} => \E k \in 0 .. Cardinality(Pixels) : Collected(k)

SumInv == IInv /\ TurnsCounted /\ FinishedIsSum

\* All of this depends on the input of the round alone.
LEMMA SumUnchanged ==
  ASSUME input' = input, NEW k
  PROVE  /\ LayerAt(k)' = LayerAt(k) /\ Lost(k)' = Lost(k)
         /\ \A p \in Pixels : LostBefore(p, k)' = LostBefore(p, k)
BY DEF LayerAt, Lost, LostBefore

\* A turn subtracts what its layer loses, and adds it exactly.
LEMMA TurnAdds ==
  ASSUME SumInv, pc = "turn"
  PROVE  \E k \in 0 .. Cardinality(Pixels) :
           /\ Collected(k) /\ Delta = Lost(k)
           /\ GrayEroded(eroded) = LayerAt(k + 1)
           /\ Plus(skeleton, Delta) = [p \in Pixels |-> LostBefore(p, k + 1)]
<1>1. PICK k \in 0 .. Cardinality(Pixels) : Collected(k)
  BY DEF SumInv, TurnsCounted
<1>2. k \in Nat /\ k + 1 \in Nat
  BY FS_CardinalityType, FootprintAssumption
<1>3. /\ orig = LayerAt(k) /\ eroded = LayerAt(k) /\ input \in GrayImages /\ skeleton \in GrayImages
      /\ eroded \in GrayImages /\ \A p \in Pixels : skeleton[p] + eroded[p] <= input[p]
  BY <1>1 DEF Collected, SumInv, IInv, TypeOK, LayerKept, SkeletonFits, InRound
<1>4. GrayEroded(eroded) = LayerAt(k + 1)
  BY <1>2, <1>3, LayersErode
<1>5. Delta = Lost(k) /\ Delta \in GrayImages
  BY <1>2, <1>3, <1>4, LostIs DEF Delta
<1>6. ASSUME NEW p \in Pixels
      PROVE  Plus(skeleton, Delta)[p] = LostBefore(p, k + 1)
  <2>. DEFINE d == Delta[p]
              o == GrayDilated(LayerAt(k + 1))[p]
  <2>1. /\ skeleton[p] \in Nat /\ eroded[p] \in Nat /\ d \in Nat /\ input[p] <= MaxGray /\ MaxGray \in Nat
        /\ input[p] \in Nat
    BY <1>3, <1>5, GrayAssumption DEF GrayImages, Gray
  <2>2. d <= eroded[p]
    <3>1. LayerAt(k + 1) \in GrayImages
      BY <1>2, <1>3, LayerValues
    <3>2. o \in Nat
      BY <3>1, DilatedAbove, GrayAssumption DEF GrayImages, Gray
    <3>3. d = IF eroded[p] > o THEN eroded[p] - o ELSE 0
      BY <1>2, <1>3, <1>5, LostIs DEF Minus
    <3>. HIDE DEF d, o
    <3>. QED  BY <2>1, <3>2, <3>3
  <2>3. Plus(skeleton, Delta)[p] = IF skeleton[p] + d > MaxGray THEN MaxGray ELSE skeleton[p] + d
    BY DEF Plus
  <2>. HIDE DEF d
  <2>4. Plus(skeleton, Delta)[p] = skeleton[p] + d
    <3>1. skeleton[p] + eroded[p] <= input[p]
      BY <1>3
    <3>. QED  BY <2>1, <2>2, <2>3, <3>1
  <2>5. skeleton[p] = LostBefore(p, k) /\ d = Lost(k)[p]
    BY <1>1, <1>5 DEF Collected, d
  <2>6. LostBefore(p, k + 1) = LostBefore(p, k) + Lost(k)[p]
    BY <1>2, <1>3, SumUnfolds
  <2>. QED  BY <2>4, <2>5, <2>6
<1>7. Plus(skeleton, Delta) = [p \in Pixels |-> Plus(skeleton, Delta)[p]]
  BY DEF Plus
<1>8. Plus(skeleton, Delta) = [p \in Pixels |-> LostBefore(p, k + 1)]
  BY <1>6, <1>7
<1>. QED  BY <1>1, <1>4, <1>5, <1>8

LEMMA TurnCounts ==
  ASSUME SumInv, Turn
  PROVE  TurnsCounted'
<1>. DEFINE N == Cardinality(Pixels)
<1>1. /\ pc = "turn" /\ Delta # Black /\ input' = input /\ input \in GrayImages
      /\ eroded' = GrayEroded(eroded) /\ skeleton' = Plus(skeleton, Delta)
  BY DEF Turn, SumInv, IInv, TypeOK
<1>2. PICK k \in 0 .. N :
        /\ Collected(k) /\ Delta = Lost(k)
        /\ GrayEroded(eroded) = LayerAt(k + 1)
        /\ Plus(skeleton, Delta) = [p \in Pixels |-> LostBefore(p, k + 1)]
  BY <1>1, TurnAdds
<1>3. N \in Nat
  BY FS_CardinalityType, FootprintAssumption
<1>4. k # N
  BY <1>1, <1>2, NothingLeft
<1>. HIDE DEF N
<1>5. k + 1 \in 0 .. N /\ \A j \in 0 .. k + 1 - 1 : j \in 0 .. k - 1 \/ j = k
  BY <1>3, <1>4
<1>6. \A j \in 0 .. k + 1 - 1 : Lost(j) # Black
  BY <1>1, <1>2, <1>5 DEF Collected
<1>7. \A j \in 0 .. k + 1 - 1 : Lost(j)' # Black
  BY <1>1, <1>6, SumUnchanged
<1>8. eroded' = LayerAt(k + 1)'
  BY <1>1, <1>2, SumUnchanged
<1>9. skeleton' = [p \in Pixels |-> LostBefore(p, k + 1)']
  BY <1>1, <1>2, SumUnchanged
<1>10. Collected(k + 1)'
  BY <1>7, <1>8, <1>9 DEF Collected, Black
<1>. QED  BY <1>5, <1>10 DEF TurnsCounted, N

\* The layer that loses nothing is the first that does.
LEMMA FinishSums ==
  ASSUME SumInv, Finish
  PROVE  FinishedIsSum'
<1>. DEFINE N == Cardinality(Pixels)
            L == {j \in 0 .. N : Lost(j) = Black}
<1>1. pc = "turn" /\ Delta = Black /\ input' = input /\ skeleton' = skeleton
  BY DEF Finish
<1>2. PICK k \in 0 .. N : Collected(k) /\ Delta = Lost(k)
  BY <1>1, TurnAdds
<1>3. N \in Nat
  BY FS_CardinalityType, FootprintAssumption
<1>4. k \in L /\ \A j \in L : k <= j
  <2>1. \A j \in 0 .. N : j \in 0 .. k - 1 \/ k <= j
    BY <1>3
  <2>. QED  BY <1>1, <1>2, <2>1 DEF Collected
<1>5. L \in SUBSET Nat /\ L # {}
  BY <1>3, <1>4
<1>6. Min(L) \in L /\ \A j \in L : Min(L) <= j
  <2>. HIDE DEF L
  <2>. QED  BY <1>5, LeastNumber
<1>7. Min(L) = k
  <2>1. Min(L) <= k /\ k <= Min(L) /\ Min(L) \in Nat /\ k \in Nat
    BY <1>4, <1>5, <1>6
  <2>. HIDE DEF L
  <2>. QED  BY <2>1
<1>8. {j \in 0 .. N : Lost(j)' = Black} = L
  BY <1>1, SumUnchanged
<1>9. skeleton' = [p \in Pixels |-> LostBefore(p, k)']
  BY <1>1, <1>2, SumUnchanged DEF Collected
<1>. HIDE DEF L
<1>. QED  BY <1>7, <1>8, <1>9 DEF FinishedIsSum, Black

LEMMA SumStart ==
  ASSUME SumInv, StartRound
  PROVE  TurnsCounted' /\ FinishedIsSum'
<1>1. pc' = "turn" /\ eroded' = input' /\ skeleton' = Black /\ input' \in GrayImages
  <2>1. IInv'
    BY NextInv DEF SumInv, Next
  <2>. QED  BY <2>1 DEF StartRound, IInv, TypeOK
<1>2. (input \in GrayImages => LayerAt(0) = input /\ \A p \in Pixels : LostBefore(p, 0) = 0)'
  BY NothingBefore, PTL
<1>3. eroded' = LayerAt(0)' /\ skeleton' = [p \in Pixels |-> LostBefore(p, 0)']
  BY <1>1, <1>2 DEF Black
<1>4. Collected(0)'
  BY <1>3 DEF Collected
<1>5. 0 \in 0 .. Cardinality(Pixels)
  BY FS_CardinalityType, FootprintAssumption
<1>. QED  BY <1>1, <1>4, <1>5 DEF TurnsCounted, FinishedIsSum

LEMMA SumIdle ==
  ASSUME SumInv, UNCHANGED <<eroded, skeleton, input>>, pc' \in {"turn", "wait"} => pc \in {"turn", "wait"},
         pc' = "finished" => pc = "finished"
  PROVE  TurnsCounted' /\ FinishedIsSum'
<1>1. ASSUME NEW k \in 0 .. Cardinality(Pixels), Collected(k)
      PROVE  Collected(k)'
  BY <1>1, SumUnchanged DEF Collected, Black
<1>2. TurnsCounted'
  BY <1>1 DEF SumInv, TurnsCounted
<1>3. FinishedIsSum'
  <2>1. {j \in 0 .. Cardinality(Pixels) : Lost(j)' = Black} = {j \in 0 .. Cardinality(Pixels) : Lost(j) = Black}
    BY SumUnchanged
  <2>2. \A k : [p \in Pixels |-> LostBefore(p, k)'] = [p \in Pixels |-> LostBefore(p, k)]
    BY SumUnchanged
  <2>. QED  BY <2>1, <2>2 DEF SumInv, FinishedIsSum, Black
<1>. QED  BY <1>2, <1>3

LEMMA SumInvariance == Spec => []SumInv
<1>1. Init => SumInv
  BY InitInv DEF SumInv, TurnsCounted, FinishedIsSum, Init
<1>2. SumInv /\ [Next]_vars => SumInv'
  <2>. SUFFICES ASSUME SumInv, [Next]_vars
                PROVE  SumInv'
    OBVIOUS
  <2>1. IInv'
    BY NextInv DEF SumInv
  <2>2. TurnsCounted' /\ FinishedIsSum'
    <3>1. CASE Turn
      BY <3>1, TurnCounts DEF Turn, FinishedIsSum
    <3>2. CASE Finish
      BY <3>2, FinishSums DEF Finish, TurnsCounted
    <3>3. CASE StartRound
      BY <3>3, SumStart
    <3>4. CASE StartFails
      BY <3>4, SumIdle DEF StartFails
    <3>5. CASE NoKey
      BY <3>5, SumIdle DEF NoKey
    <3>6. CASE KeyQ \/ AnyKey
      BY <3>6, SumIdle DEF KeyQ, AnyKey, Return
    <3>7. CASE UNCHANGED vars
      BY <3>7, SumIdle DEF vars
    <3>. QED  BY <3>1, <3>2, <3>3, <3>4, <3>5, <3>6, <3>7 DEF Next, Exited
  <2>. QED  BY <2>1, <2>2 DEF SumInv
<1>. QED  BY <1>1, <1>2, PTL DEF Spec

\* The finished skeleton is the sum of what the layers lose, up to the first
\* that loses nothing: line 137 adds every layer once, and none too many.
THEOREM SkeletonIsTheSum == Spec => []FinishedIsSum
BY SumInvariance, PTL DEF SumInv

-----------------------------------------------------------------------------

\* No image ever leaves the gray levels, in either round.
THEOREM TypeCorrect == Spec => []TypeOK
BY Invariance, PTL DEF IInv

\* The saturating addition of line 137 never saturates.
THEOREM AdditionIsExact == Spec => []SkeletonFits
BY Invariance, PTL DEF IInv

\* The window shows the finished skeleton, if it is not empty.
THEOREM ResultIsShown == Spec => []FinishedIsShown
<1>1. IInv => FinishedIsShown
  BY DEF IInv, ShownKept, FinishedIsShown, InRound
<1>. QED  BY <1>1, Invariance, PTL

\* Nothing is eroded away only from a layer that loses nothing.
LEMMA TurnTakes ==
  ASSUME IInv, Turn
  PROVE  eroded' # eroded /\ \A p \in Pixels : eroded'[p] <= eroded[p]
<1>1. eroded' = GrayEroded(eroded) /\ Delta # Black /\ orig = eroded /\ eroded \in GrayImages
  BY DEF Turn, IInv, TypeOK, LayerKept
<1>2. \A p \in Pixels : GrayEroded(eroded)[p] <= eroded[p]
  BY <1>1, ErodedBelow
<1>3. ASSUME GrayEroded(eroded) = eroded PROVE FALSE
  <2>1. \A p \in Pixels : GrayDilated(eroded)[p] = eroded[p]
    <3>1. ASSUME NEW p \in Pixels PROVE GrayDilated(eroded)[p] = eroded[p]
      <4>1. GrayDilated(eroded)[p] <= eroded[p] /\ eroded[p] <= GrayDilated(eroded)[p]
        BY <1>1, <1>3, OpenedBelow
      <4>2. GrayDilated(eroded)[p] \in Nat /\ eroded[p] \in Nat
        BY <1>1, DilatedAbove DEF GrayImages, Gray
      <4>. QED  BY <4>1, <4>2
    <3>. QED  BY <3>1
  <2>2. \A p \in Pixels : eroded[p] \in Nat
    BY <1>1 DEF GrayImages, Gray
  <2>3. Delta = Black
    BY <1>1, <1>3, <2>1, <2>2 DEF Delta, Minus, Black
  <2>. QED  BY <1>1, <2>3
<1>. QED  BY <1>1, <1>2, <1>3

\* An image that is nowhere above another and differs from it has a smaller
\* umbra.
LEMMA SmallerUmbra ==
  ASSUME NEW f \in GrayImages, NEW g \in GrayImages, \A p \in Pixels : g[p] <= f[p]
  PROVE  Umbra(g) \subseteq Umbra(f) /\ (g # f => Umbra(g) # Umbra(f))
<1>1. \A p \in Pixels : f[p] \in Nat /\ g[p] \in Nat /\ f[p] <= MaxGray
  BY GrayAssumption DEF GrayImages, Gray
<1>2. Umbra(g) \subseteq Umbra(f)
  BY <1>1, GrayAssumption DEF Umbra, Levels
<1>3. ASSUME g # f PROVE Umbra(g) # Umbra(f)
  <2>1. PICK p \in Pixels : g[p] # f[p]
    BY <1>3 DEF GrayImages
  <2>2. f[p] \in 1 .. MaxGray /\ ~ (f[p] <= g[p])
    BY <1>1, <2>1, GrayAssumption
  <2>3. <<p, f[p]>> \in Umbra(f) /\ <<p, f[p]>> \notin Umbra(g)
    BY <1>1, <2>2 DEF Umbra, Levels
  <2>. QED  BY <2>3
<1>. QED  BY <1>2, <1>3

\* Both rounds peel: the loop ends on every image.
THEOREM LoopPeels == Spec => IsPeeling
<1>. DEFINE abstract == <<Umbra(eroded), pc \in {"turn", "wait"}>>
<1>. USE DEF Loop!PeelInit, Loop!PeelNext, Loop!PeelTurn, Loop!Load, Loop!Take, Loop!Last
<1>1. Init => Loop!PeelInit
  BY DEF Init
<1>2. ASSUME IInv, IInv', Turn \/ Finish PROVE Loop!PeelTurn
  <2>1. eroded \in GrayImages /\ eroded' \in GrayImages
    BY <1>2 DEF IInv, TypeOK
  <2>2. CASE Turn
    <3>1. Umbra(eroded') \subseteq Umbra(eroded) /\ Umbra(eroded') # Umbra(eroded)
      BY <1>2, <2>1, <2>2, TurnTakes, SmallerUmbra
    <3>. QED  BY <2>2, <3>1 DEF Turn, Umbra
  <2>3. CASE Finish
    <3>1. \A p \in Pixels : eroded'[p] <= eroded[p]
      BY <2>1, <2>3, ErodedBelow DEF Finish
    <3>2. Umbra(eroded') \subseteq Umbra(eroded)
      BY <2>1, <3>1, SmallerUmbra
    <3>. QED  BY <2>3, <3>2 DEF Finish, Umbra
  <2>. QED  BY <1>2, <2>2, <2>3
<1>3. IInv /\ IInv' /\ [Next]_vars => [Loop!PeelNext]_abstract
  <2>. SUFFICES ASSUME IInv, IInv', Next
                PROVE  [Loop!PeelNext]_abstract
    BY DEF vars, Umbra
  <2>1. CASE StartRound
    <3>1. eroded' \in GrayImages
      BY DEF IInv, TypeOK
    <3>. QED  BY <2>1, <3>1 DEF StartRound, Umbra
  <2>2. CASE Turn \/ Finish
    BY <1>2, <2>2
  <2>3. CASE StartFails \/ NoKey \/ KeyQ \/ AnyKey \/ Exited
    BY <2>3 DEF StartFails, NoKey, KeyQ, AnyKey, Return, Exited, vars, Umbra
  <2>. QED  BY <2>1, <2>2, <2>3 DEF Next
<1>4. IInv /\ IInv' /\ [Next]_vars => [pc = "turn" => Loop!PeelTurn]_vars
  <2>. SUFFICES ASSUME IInv, IInv', Next, pc = "turn"
                PROVE  Loop!PeelTurn
    OBVIOUS
  <2>1. Turn \/ Finish
    BY DEF Next, StartRound, StartFails, NoKey, KeyQ, AnyKey, Return, Exited
  <2>. QED  BY <1>2, <2>1
<1>. QED  BY <1>1, <1>3, <1>4, Invariance, PTL DEF Spec, IsPeeling, Loop!PeelSpec

-----------------------------------------------------------------------------
(* CamshiftDemo.                                                           *)

\* A window waits for the tracker in good order, unless the mouse or the
\* edge of the image spoiled it.
WindowsInOrder ==
  at # "threw" =>
    /\ trackObject = -1 => Area(selection) > 0 \/ disturbed
    /\ trackObject = 1 => Area(trackWindow) > 0 \/ cornered

CamInv ==
  CamshiftTypeOK /\ HistogramFollowsTracker /\ WindowsInOrder /\ ThrowsOnlyIfDisturbedOrCornered

-----------------------------------------------------------------------------

LEMMA AreaOfRect ==
  ASSUME NEW r \in Rects
  PROVE  /\ Area(r) \in Nat
         /\ Area(r) > 0 <=> r.width > 0 /\ r.height > 0
<1>1. r.width \in Nat /\ r.height \in Nat
  BY SizeAssumption DEF Rects
<1>2. \A a, b \in Nat : a * b \in Nat /\ (a * b > 0 <=> a > 0 /\ b > 0)
  OBVIOUS
<1>. QED  BY <1>1, <1>2 DEF Area

\* An intersection with the image lies inside the image.
LEMMA ClippedInside ==
  ASSUME NEW x \in Int, NEW y \in Int, NEW w \in Int, NEW h \in Int
  PROVE  Clipped(Rect(x, y, w, h)) \in Rects
BY SizeAssumption DEF Clipped, Rect, Rects, Larger, Smaller

\* Whatever event comes, from wherever, the selection stays inside the image.
LEMMA DraggedInside ==
  ASSUME CamshiftTypeOK, NEW p \in Anywhere
  PROVE  Dragged(p) \in Rects
<1>1. p[1] \in Int /\ p[2] \in Int /\ origin[1] \in Int /\ origin[2] \in Int
  BY SizeAssumption DEF CamshiftTypeOK, Anywhere, Inside
<1>. DEFINE x == Smaller(p[1], origin[1])
            y == Smaller(p[2], origin[2])
            w == Larger(p[1], origin[1]) - x
            h == Larger(p[2], origin[2]) - y
<1>2. x \in Int /\ y \in Int /\ w \in Int /\ h \in Int
  BY <1>1 DEF Smaller, Larger
<1>3. Clipped(Rect(x, y, w, h)) \in Rects
  <2>. HIDE DEF x, y, w, h
  <2>. QED  BY <1>2, ClippedInside
<1>. QED  BY <1>3 DEF CamshiftTypeOK, Dragged

\* Reseeding stays inside the image, and it gives a window to work with
\* unless the tracker collapsed on the top or the left edge.
LEMMA ReseedingWorks ==
  ASSUME NEW r \in Rects
  PROVE  /\ Reseeded(r) \in Rects
         /\ Area(Reseeded(r)) > 0 \/ (Area(r) <= 1 /\ (r.x = 0 \/ r.y = 0))
<1>. DEFINE rad == (Smaller(Width, Height) + 5) \div 6
            around == Rect(r.x - rad, r.y - rad, r.x + rad, r.y + rad)
<1>1. r.x \in 0 .. Width /\ r.y \in 0 .. Height
  BY DEF Rects
<1>2. rad \in Nat /\ rad >= 1
  BY SizeAssumption DEF Smaller
<1>3. Clipped(around) \in Rects
  <2>1. r.x - rad \in Int /\ r.y - rad \in Int /\ r.x + rad \in Int /\ r.y + rad \in Int
    BY <1>1, <1>2, SizeAssumption
  <2>. HIDE DEF rad
  <2>. QED  BY <2>1, ClippedInside
<1>4. CASE Area(r) > 1
  BY <1>4, AreaOfRect DEF Reseeded
<1>5. CASE Area(r) <= 1
  <2>1. Reseeded(r) = Clipped(around)
    BY <1>5 DEF Reseeded
  <2>2. ASSUME r.x # 0, r.y # 0
        PROVE  Clipped(around).width > 0 /\ Clipped(around).height > 0
    <3>. HIDE DEF rad
    <3>. QED  BY <1>1, <1>2, <2>2, SizeAssumption DEF Clipped, Rect, Larger, Smaller
  <2>. QED  BY <1>3, <1>5, <2>1, <2>2, AreaOfRect
<1>. QED  BY <1>4, <1>5, AreaOfRect

-----------------------------------------------------------------------------

LEMMA CamInitInv == CamshiftInit => CamInv
<1>. SUFFICES ASSUME CamshiftInit PROVE CamInv
  OBVIOUS
<1>1. CamshiftTypeOK
  <2>1. Rect(0, 0, 0, 0) \in Rects
    BY SizeAssumption DEF Rect, Rects
  <2>2. origin \in Inside
    BY SizeAssumption DEF CamshiftInit, Inside
  <2>. QED  BY <2>1, <2>2 DEF CamshiftInit, CamshiftTypeOK, viewVars
<1>2. HistogramFollowsTracker /\ WindowsInOrder /\ ThrowsOnlyIfDisturbedOrCornered
  BY DEF CamshiftInit, HistogramFollowsTracker, WindowsInOrder, ThrowsOnlyIfDisturbedOrCornered
<1>. QED  BY <1>1, <1>2 DEF CamInv

\* The mouse handler keeps the invariant, whatever the event.
LEMMA OnMouseInv ==
  ASSUME CamInv, OnMouse
  PROVE  CamInv'
<1>. USE DEF CamInv
<1>1. PICK p \in Anywhere : MouseMove(p) \/ MouseDown(p) \/ MouseUp(p)
  BY DEF OnMouse
<1>2. Dragged(p) \in Rects
  BY DraggedInside
<1>3. CASE MouseMove(p)
  <2>1. CamshiftTypeOK'
    BY <1>2, <1>3 DEF MouseMove, CamshiftTypeOK, viewVars, trackVars
  <2>2. HistogramFollowsTracker' /\ ThrowsOnlyIfDisturbedOrCornered'
    BY <1>3 DEF MouseMove, HistogramFollowsTracker, ThrowsOnlyIfDisturbedOrCornered,
                trackVars
  <2>3. WindowsInOrder'
    <3>1. trackObject' = -1 => selection' = selection \/ disturbed'
      BY <1>3 DEF MouseMove
    <3>2. trackObject = -1 /\ disturbed => disturbed'
      BY <1>3 DEF MouseMove
    <3>. QED  BY <1>3, <3>1, <3>2 DEF MouseMove, WindowsInOrder, trackVars
  <2>. QED  BY <2>1, <2>2, <2>3
<1>4. CASE MouseDown(p)
  <2>1. Rect(p[1], p[2], 0, 0) \in Rects
    BY <1>4, SizeAssumption DEF MouseDown, Inside, Rect, Rects
  <2>2. CamshiftTypeOK'
    BY <1>4, <2>1 DEF MouseDown, CamshiftTypeOK, viewVars, trackVars
  <2>3. HistogramFollowsTracker' /\ ThrowsOnlyIfDisturbedOrCornered'
    BY <1>4 DEF MouseDown, HistogramFollowsTracker, ThrowsOnlyIfDisturbedOrCornered,
                trackVars
  <2>4. WindowsInOrder'
    BY <1>4 DEF MouseDown, WindowsInOrder, trackVars
  <2>. QED  BY <2>2, <2>3, <2>4
<1>5. CASE MouseUp(p)
  <2>1. selection' \in Rects /\ (Area(selection') > 0 \/ Area(selection') = 0)
    BY <1>2, <1>5, AreaOfRect DEF MouseUp
  <2>2. CamshiftTypeOK'
    BY <1>5, <2>1 DEF MouseUp, CamshiftTypeOK, viewVars, trackVars
  <2>3. HistogramFollowsTracker' /\ ThrowsOnlyIfDisturbedOrCornered'
    BY <1>5 DEF MouseUp, HistogramFollowsTracker, ThrowsOnlyIfDisturbedOrCornered,
                trackVars
  <2>4. WindowsInOrder'
    <3>1. CASE Area(selection') > 0
      <4>1. trackObject' = -1
        BY <1>5, <3>1 DEF MouseUp
      <4>. QED  BY <3>1, <4>1 DEF WindowsInOrder
    <3>2. CASE Area(selection') = 0
      <4>1. trackObject' = trackObject
        BY <1>5, <3>2 DEF MouseUp
      <4>2. trackObject = -1 => disturbed'
        BY <1>5, <3>2 DEF MouseUp
      <4>. QED  BY <1>5, <4>1, <4>2 DEF MouseUp, WindowsInOrder, trackVars
    <3>. QED  BY <2>1, <3>1, <3>2
  <2>. QED  BY <2>2, <2>3, <2>4
<1>. QED  BY <1>1, <1>3, <1>4, <1>5

\* A turn of the loop that tracks keeps the invariant.
LEMMA TrackInv ==
  ASSUME CamInv, Track
  PROVE  CamInv'
<1>. USE DEF CamInv
<1>1. PICK found \in Rects :
        /\ trackWindow' = Reseeded(found)
        /\ cornered' = (Area(found) <= 1 /\ (found.x = 0 \/ found.y = 0))
  BY DEF Track
<1>2. trackWindow' \in Rects /\ (Area(trackWindow') > 0 \/ cornered')
  BY <1>1, ReseedingWorks
<1>3. cornered' \in BOOLEAN
  BY <1>1
<1>4. CamshiftTypeOK'
  BY <1>2, <1>3 DEF Track, CamshiftTypeOK, viewVars, ShowWindows
<1>5. HistogramFollowsTracker'
  BY DEF Track, HistogramFollowsTracker, CamshiftTypeOK
<1>6. WindowsInOrder' /\ ThrowsOnlyIfDisturbedOrCornered'
  BY <1>2 DEF Track, WindowsInOrder, ThrowsOnlyIfDisturbedOrCornered
<1>. QED  BY <1>4, <1>5, <1>6

\* When the tracker throws, one of the two causes is on record.
LEMMA TrackThrowsInv ==
  ASSUME CamInv, TrackThrows
  PROVE  CamInv'
<1>. USE DEF CamInv
<1>1. StartWindow \in Rects
  BY DEF StartWindow, CamshiftTypeOK
<1>2. CamshiftTypeOK'
  BY <1>1 DEF TrackThrows, CamshiftTypeOK, viewVars, mouseVars
<1>3. HistogramFollowsTracker'
  BY DEF TrackThrows, HistogramFollowsTracker, CamshiftTypeOK
<1>4. ThrowsOnlyIfDisturbedOrCornered'
  BY DEF TrackThrows, StartWindow, WindowsInOrder, CamshiftTypeOK, mouseVars,
         ThrowsOnlyIfDisturbedOrCornered
<1>5. WindowsInOrder'
  BY DEF TrackThrows, WindowsInOrder
<1>. QED  BY <1>2, <1>3, <1>4, <1>5

LEMMA CamNextInv == CamInv /\ [CamshiftNext]_camshiftVars => CamInv'
<1>. SUFFICES ASSUME CamInv, [CamshiftNext]_camshiftVars PROVE CamInv'
  OBVIOUS
<1>. USE DEF CamInv, CamshiftTypeOK, HistogramFollowsTracker, WindowsInOrder,
             ThrowsOnlyIfDisturbedOrCornered, viewVars, mouseVars, trackVars
<1>1. CASE OnMouse
  BY <1>1, OnMouseInv
<1>2. CASE EndOfMovie
  BY <1>2 DEF EndOfMovie
<1>3. CASE ShowFrame
  BY <1>3 DEF ShowFrame, ShowWindows
<1>4. CASE Track
  BY <1>4, TrackInv
<1>5. CASE TrackThrows
  BY <1>5, TrackThrowsInv
<1>6. CASE ShowPaused
  <2>1. paused' \in BOOLEAN
    BY <1>6 DEF ShowPaused
  <2>. QED  BY <1>6, <2>1 DEF ShowPaused, ShowWindows
<1>7. CASE NoKeyPressed
  BY <1>7 DEF NoKeyPressed
<1>8. CASE KeyEsc
  BY <1>8 DEF KeyEsc
<1>9. CASE KeyB
  BY <1>9 DEF KeyB
<1>10. CASE KeyC
  <2>1. trackObject' = 0 /\ histimg' = "blank" /\ at' = "top"
    BY <1>10 DEF KeyC
  <2>2. HistogramFollowsTracker' /\ WindowsInOrder' /\ ThrowsOnlyIfDisturbedOrCornered'
    BY <2>1
  <2>3. CamshiftTypeOK'
    BY <1>10, <2>1 DEF KeyC
  <2>. QED  BY <2>2, <2>3
<1>11. CASE KeyH
  BY <1>11 DEF KeyH
<1>12. CASE KeyP
  BY <1>12 DEF KeyP
<1>13. CASE UNCHANGED camshiftVars
  BY <1>13 DEF camshiftVars
<1>. QED
  BY <1>1, <1>2, <1>3, <1>4, <1>5, <1>6, <1>7, <1>8, <1>9, <1>10, <1>11, <1>12, <1>13
  DEF CamshiftNext, CamshiftTurn, Key, Ended

LEMMA CamInvariance == CamshiftSpec => []CamInv
<1>1. CamshiftInit => CamInv
  BY CamInitInv
<1>2. CamInv /\ [CamshiftNext]_camshiftVars => CamInv'
  BY CamNextInv
<1>. QED  BY <1>1, <1>2, PTL DEF CamshiftSpec

-----------------------------------------------------------------------------

\* The selection and the window of the tracker stay inside the image, among
\* the other types.
THEOREM CamshiftTypeCorrect == CamshiftSpec => []CamshiftTypeOK
<1>1. CamInv => CamshiftTypeOK
  BY DEF CamInv
<1>2. CamshiftSpec => []CamInv
  BY CamInvariance
<1>. QED  BY <1>1, <1>2, PTL

\* The histogram shown is the tracker's.
THEOREM HistogramIsCurrent == CamshiftSpec => []HistogramFollowsTracker
<1>1. CamInv => HistogramFollowsTracker
  BY DEF CamInv
<1>2. CamshiftSpec => []CamInv
  BY CamInvariance
<1>. QED  BY <1>1, <1>2, PTL

\* Every exception of the tracker has one of two causes, for every frame
\* size; in particular reseeding never fails away from the two edges.
THEOREM ExceptionsExplained == CamshiftSpec => []ThrowsOnlyIfDisturbedOrCornered
<1>1. CamInv => ThrowsOnlyIfDisturbedOrCornered
  BY DEF CamInv
<1>2. CamshiftSpec => []CamInv
  BY CamInvariance
<1>. QED  BY <1>1, <1>2, PTL
=============================================================================
