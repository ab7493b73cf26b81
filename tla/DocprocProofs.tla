---------------------------- MODULE DocprocProofs ----------------------------
(***************************************************************************)
(* Theorems about the programs of task.docproc: Skeletonization, for every *)
(* image size, every footprint that is symmetric and holds its anchor and  *)
(* every number of gray levels; and, from the second half on, AngleSearch, *)
(* for every range, every step of KCS and every page.                      *)
(***************************************************************************)
EXTENDS Skeletonization, AngleSearch, NumberFacts

\* Erosion only takes pixels away, because the footprint holds its anchor.
LEMMA ErodedShrinks ==
  ASSUME NEW X \in SUBSET Pixels
  PROVE  Eroded(X) \subseteq X
BY FootprintAssumption DEF Eroded

\* Erosion takes at least one pixel off every image that is neither empty
\* nor all white.
LEMMA ErodedStrictly ==
  ASSUME NEW X \in SUBSET Pixels, X # {}, X # Pixels
  PROVE  Eroded(X) # X
BY ConnectedAssumption DEF Eroded

\* A scan has a brightest pixel: the gray levels above a pixel are a subset
\* of a finite set, so one of these subsets is minimal.
LEMMA BrightestPixel ==
  ASSUME NEW scan \in [Pixels -> Gray]
  PROVE  \E p \in Pixels : \A q \in Pixels : scan[q] <= scan[p]
<1> DEFINE Above(p) == {v \in Gray : v > scan[p]}
           T == {Above(p) : p \in Pixels}
           R == StrictSubsetOrdering(Gray)
           S == FiniteSubsetsOf(Gray)
<1>1. IsFiniteSet(Gray)
  BY FS_Interval, GrayAssumption DEF Gray
<1>2. T \subseteq S /\ T # {}
  <2>1. T \subseteq SUBSET Gray
    OBVIOUS
  <2>2. T # {}
    <3>1. PICK p \in Pixels : TRUE
      BY FootprintAssumption
    <3>2. Above(p) \in T
      OBVIOUS
    <3>. QED  BY <3>2
  <2>3. S = SUBSET Gray
    BY <1>1, FS_FiniteSubsetsOfFinite
  <2>. QED  BY <2>1, <2>2, <2>3
<1>3. IsWellFoundedOn(R, S)
  BY FS_StrictSubsetOrderingWellFounded
<1>4. PICK t \in T : \A u \in T : <<u, t>> \notin R
  <2>. HIDE DEF R, S, T
  <2>. QED  BY <1>2, <1>3, WFMin
<1>5. PICK p \in Pixels : t = Above(p)
  OBVIOUS
<1>6. ASSUME NEW q \in Pixels, scan[q] > scan[p]
      PROVE  FALSE
  <2>1. Above(q) \subseteq Above(p) /\ scan[q] \in Above(p) \ Above(q)
    BY <1>6, GrayAssumption DEF Gray
  <2>2. <<Above(q), Above(p)>> \in R
    BY <2>1 DEF StrictSubsetOrdering
  <2>. QED  BY <1>4, <1>5, <2>2
<1>7. \A q \in Pixels : scan[q] \in Nat
  BY GrayAssumption DEF Gray
<1>. QED  BY <1>6, <1>7

\* The pixel that is brightest in the scan comes out black, whatever the
\* background and the threshold, so the loop never starts all white.
LEMMA BinarizedNotAllWhite ==
  ASSUME NEW scan \in [Pixels -> Gray],
         NEW background \in Backgrounds(scan),
         NEW level \in Gray
  PROVE  Binarized(scan, background, level) # Pixels
<1>1. PICK p \in Pixels : \A q \in Pixels : scan[q] <= scan[p]
  BY BrightestPixel
<1>2. PICK q \in Pixels : background[p] = scan[q]
  BY DEF Backgrounds
<1>3. scan[p] \in Nat /\ scan[q] \in Nat /\ level \in Nat
  BY GrayAssumption DEF Gray
<1>4. Minus(background[p], scan[p]) = 0
  BY <1>1, <1>2, <1>3 DEF Minus
<1>5. p \notin Binarized(scan, background, level)
  BY <1>3, <1>4 DEF Binarized
<1>. QED  BY <1>5

-----------------------------------------------------------------------------

\* Opening stays inside the image, because the footprint is symmetric.
LEMMA OpenedInside ==
  ASSUME NEW X \in SUBSET Pixels
  PROVE  Opened(X) \subseteq X
BY FootprintAssumption DEF Opened, Dilated, Eroded

\* A layer is its residue and what the next layer dilates to.
LEMMA LayerSplits ==
  ASSUME NEW X \in SUBSET Pixels
  PROVE  X = Residue(X) \cup Opened(X)
BY OpenedInside DEF Residue

\* The reach of a union is the union of the reaches.
LEMMA GrownUnion ==
  ASSUME NEW X \in SUBSET Pixels, NEW Y \in SUBSET Pixels
  PROVE  Grown(X \cup Y) = Grown(X) \cup Grown(Y)
BY DEF Grown

-----------------------------------------------------------------------------

\* The strengthening that makes the invariants inductive: what the history
\* holds before the loop, that the loop is left with nothing, and that the
\* file is the negative of the skelet the loop ended with.
Bookkeeping ==
  /\ phase \in {"first", "read"} => reach = [p \in Pixels |-> {p}]
  /\ phase = "write" => image = {}
  /\ phase # "exit" => skeletFile = Unreadable
  /\ skeletFile # Unreadable => skeletFile = Pixels \ skelet

IInv == TypeOK /\ NeverAllWhite /\ SkeletonIsNear /\ Bookkeeping

LEMMA InitInv == Init => IInv
<1>. SUFFICES ASSUME Init PROVE IInv
  OBVIOUS
<1>1. TypeOK
  <2>1. reach \in [Pixels -> SUBSET Pixels]
    BY DEF Init
  <2>2. source \in [Pixels -> Gray] \cup {Unreadable}
    BY DEF Init
  <2>3. phase \in Phases /\ firstFile \in BOOLEAN /\ skeletFile \in (SUBSET Pixels) \cup {Unreadable}
    BY DEF Init, Phases
  <2>4. image \in SUBSET Pixels /\ skelet \in SUBSET Pixels
        /\ input \in SUBSET Pixels
    BY DEF Init
  <2>. QED  BY <2>1, <2>2, <2>3, <2>4 DEF TypeOK
<1>2. NeverAllWhite /\ SkeletonIsNear
  BY DEF Init, NeverAllWhite, SkeletonIsNear
<1>3. Bookkeeping
  BY DEF Init, Bookkeeping
<1>. QED  BY <1>1, <1>2, <1>3 DEF IInv

LEMMA BinarizeInv ==
  ASSUME IInv, Binarize
  PROVE  IInv'
<1>1. PICK background \in Backgrounds(source), level \in Gray :
        image' = Binarized(source, background, level)
  BY DEF Binarize
<1>2. source \in [Pixels -> Gray] /\ image' \in SUBSET Pixels
  BY <1>1 DEF IInv, TypeOK, Binarize, Binarized
<1>3. TypeOK'
  BY <1>2 DEF IInv, TypeOK, Binarize, Phases
<1>4. NeverAllWhite'
  BY <1>1, <1>2, BinarizedNotAllWhite DEF NeverAllWhite
<1>5. SkeletonIsNear'
  <2>1. reach' = [p \in Pixels |-> {p}] /\ input' = image' /\ skelet' = {}
    BY DEF IInv, Bookkeeping, Binarize
  <2>2. Grown(skelet \cup image)' = image'
    BY <1>2, <2>1 DEF Grown
  <2>3. skeletFile' = Unreadable
    BY DEF IInv, Bookkeeping, Binarize
  <2>. QED  BY <2>1, <2>2, <2>3 DEF SkeletonIsNear
<1>6. Bookkeeping'
  BY DEF IInv, Bookkeeping, Binarize
<1>. QED  BY <1>3, <1>4, <1>5, <1>6 DEF IInv

LEMMA PeelInv ==
  ASSUME IInv, Peel
  PROVE  IInv'
<1>. USE DEF IInv
<1>1. image \in SUBSET Pixels /\ image # Pixels /\ reach \in [Pixels -> SUBSET Pixels]
  BY DEF TypeOK, NeverAllWhite, Peel
<1>2. image' \subseteq image
  BY <1>1, ErodedShrinks DEF Peel
<1>3. input \in SUBSET Pixels /\ skelet \in SUBSET Pixels /\ Residue(image) \subseteq image
  BY DEF TypeOK, Residue
<1>4. \A p \in Pixels : Grown(Nbr[p]) \in SUBSET Pixels
  BY <1>1, FootprintAssumption DEF Grown
<1>5. TypeOK'
  <2>1. reach' \in [Pixels -> SUBSET Pixels]
    BY <1>4 DEF Peel
  <2>2. skelet' \in SUBSET Pixels /\ image' \in SUBSET Pixels
    BY <1>1, <1>2, <1>3 DEF TypeOK, Peel, Residue
  <2>. QED  BY <2>1, <2>2 DEF TypeOK, Peel, Phases
<1>6. NeverAllWhite'
  BY <1>1, <1>2 DEF NeverAllWhite
<1>7. SkeletonIsNear'
  <2>1. phase = "peel" /\ input' = input /\ skelet' = skelet \cup Residue(image)
        /\ image' = Eroded(image) /\ skeletFile' = Unreadable
    BY DEF Bookkeeping, Peel
  <2>2. skelet \cup image \subseteq input /\ input \subseteq Grown(skelet \cup image)
    BY <2>1 DEF SkeletonIsNear
  <2>3. skelet' \cup image' \subseteq input'
    BY <1>2, <1>3, <2>1, <2>2
  <2>4. ASSUME NEW q \in input PROVE \E r \in skelet' \cup image' : q \in reach'[r]
    <3>1. PICK r \in skelet \cup image : q \in reach[r]
      BY <2>2 DEF Grown
    <3>2. \A p \in Pixels : r \in Nbr[p] => q \in reach'[p]
      BY <3>1 DEF Grown, Peel
    <3>3. CASE r \in skelet'
      <4>1. r \in Pixels /\ r \in Nbr[r]
        BY <1>1, <1>3, FootprintAssumption
      <4>. QED  BY <3>2, <3>3, <4>1
    <3>4. CASE r \in Opened(image)
      <4>1. PICK p \in Eroded(image) : r \in Nbr[p]
        BY <3>4, FootprintAssumption DEF Opened, Dilated, Eroded
      <4>. QED  BY <2>1, <3>2, <4>1 DEF Eroded
    <3>. QED  BY <1>1, <2>1, <3>3, <3>4, LayerSplits
  <2>5. input' \subseteq Grown(skelet \cup image)'
    BY <2>1, <2>4 DEF Grown
  <2>. QED  BY <2>1, <2>3, <2>5 DEF SkeletonIsNear
<1>8. Bookkeeping'
  BY DEF Bookkeeping, Peel
<1>. QED  BY <1>5, <1>6, <1>7, <1>8

LEMMA NextInv == IInv /\ [Next]_vars => IInv'
<1>. SUFFICES ASSUME IInv, [Next]_vars PROVE IInv'
  OBVIOUS
<1>. USE DEF IInv
<1>1. CASE FirstStage
  BY <1>1 DEF FirstStage, TypeOK, Phases, NeverAllWhite, SkeletonIsNear, Bookkeeping
<1>2. CASE FirstStageFails
  BY <1>2 DEF FirstStageFails, TypeOK, Phases, NeverAllWhite, SkeletonIsNear, Bookkeeping
<1>3. CASE ReadFails
  BY <1>3 DEF ReadFails, TypeOK, Phases, NeverAllWhite, SkeletonIsNear, Bookkeeping
<1>4. CASE Binarize
  BY <1>4, BinarizeInv
<1>5. CASE Peel
  BY <1>5, PeelInv
<1>6. CASE Write
  <2>1. skeletFile' = Pixels \ skelet /\ skelet \subseteq Pixels /\ phase' = "exit"
        /\ input \subseteq Grown(skelet \cup image) /\ image = {}
    BY <1>6 DEF Write, TypeOK, SkeletonIsNear, Bookkeeping
  <2>2. TypeOK'
    BY <1>6 DEF Write, TypeOK, Phases
  <2>3. NeverAllWhite' /\ SkeletonIsNear'
    <3>1. Pixels \ skeletFile' = skelet \cup image
      BY <2>1
    <3>2. Grown(Pixels \ skeletFile)' = Grown(skelet \cup image)
      BY <1>6, <3>1 DEF Write, Grown
    <3>. QED  BY <1>6, <2>1, <3>2 DEF Write, NeverAllWhite, SkeletonIsNear
  <2>4. Bookkeeping'
    BY <1>6, <2>1 DEF Write, Bookkeeping
  <2>. QED  BY <2>2, <2>3, <2>4
<1>7. CASE UNCHANGED vars
  <2>1. TypeOK' /\ NeverAllWhite' /\ Bookkeeping'
    BY <1>7 DEF vars, TypeOK, NeverAllWhite, Bookkeeping
  <2>2. SkeletonIsNear'
    BY <1>7 DEF vars, SkeletonIsNear, Grown
  <2>. QED  BY <2>1, <2>2
<1>. QED  BY <1>1, <1>2, <1>3, <1>4, <1>5, <1>6, <1>7 DEF Next, Exited

LEMMA Invariance == Spec => []IInv
BY InitInv, NextInv, PTL DEF Spec

-----------------------------------------------------------------------------
(* The file is the textbook skeleton.                                      *)

\* The recursive definition of the layers has a solution.
LEMMA LayersUnfold ==
  ASSUME NEW X \in SUBSET Pixels, NEW n \in Nat
  PROVE  /\ Erosions(X, n)[0] = X
         /\ \A k \in 1 .. n : Erosions(X, n)[k] = Eroded(Erosions(X, n)[k - 1])
<1>. DEFINE Step == [Y \in SUBSET Pixels |-> Eroded(Y)]
            Unfolded(E) == E = [k \in 0 .. n |-> IF k = 0 THEN X ELSE Eroded(E[k - 1])]
<1>1. PICK E : IsIteration(E, Step, X, n)
  <2>. HIDE DEF Step
  <2>. QED  BY Iteration
<1>values. E[0] = X /\ \A k \in 0 .. n - 1 : E[k + 1] = Step[E[k]]
  <2>. HIDE DEF Step, Unfolded
  <2>. QED  BY <1>1, IterationValues
<1>2. \A k \in 0 .. n : E[k] \in SUBSET Pixels
  <2>. DEFINE S == {k \in Nat : k \in 0 .. n => E[k] \in SUBSET Pixels}
  <2>1. 0 \in S
    BY <1>values
  <2>2. ASSUME NEW k \in Nat, k \in S
        PROVE  k + 1 \in S
    <3>. SUFFICES ASSUME k + 1 \in 0 .. n PROVE E[k + 1] \in SUBSET Pixels
      OBVIOUS
    <3>1. k \in 0 .. n /\ E[k] \in SUBSET Pixels
      BY <2>2
    <3>2. E[k + 1] = Step[E[k]]
      <4>1. k \in 0 .. n - 1
        OBVIOUS
      <4>. HIDE DEF Step
      <4>. QED  BY <1>values, <4>1
    <3>3. E[k + 1] = Eroded(E[k])
      BY <3>1, <3>2
    <3>. QED  BY <3>3 DEF Eroded
  <2>3. Nat \subseteq S
    <3>. HIDE DEF S
    <3>. QED  BY <2>1, <2>2, Induction
  <2>. QED  BY <2>3
<1>3. Unfolded(E)
  <2>1. ASSUME NEW k \in 0 .. n, k # 0
        PROVE  Step[E[k - 1]] = Eroded(E[k - 1])
    <3>1. k - 1 \in 0 .. n
      BY <2>1
    <3>2. E[k - 1] \in SUBSET Pixels
      BY <1>2, <3>1
    <3>. QED  BY <1>1, <3>2 DEF IsIteration
  <2>. QED  BY <1>1, <2>1 DEF IsIteration
<1>4. Erosions(X, n) = CHOOSE F : Unfolded(F)
  BY DEF Erosions
<1>5. Unfolded(Erosions(X, n))
  <2>. HIDE DEF Unfolded
  <2>. QED  BY <1>3, <1>4
<1>. QED  BY <1>5

\* The layers of the loop's input, one for each turn there can be.
Layer(k) == Erosions(input, Cardinality(Pixels))[k]

\* After k turns the loop has the k-th layer in its hands, and has collected the
\* residues of the layers before; no layer is reached too late to be counted.
Layered(k) ==
  /\ image = Layer(k)
  /\ skelet = UNION {Residue(Layer(j)) : j \in 0 .. k - 1}
  /\ phase = "peel" => Cardinality(image) + k <= Cardinality(Pixels) /\ (image = {} => k = 0)

TurnsCounted ==
  phase \in {"peel", "write"} => \E k \in 0 .. Cardinality(Pixels) : Layered(k)

FInv == IInv /\ TurnsCounted /\ FileIsSkeleton

LEMMA PixelNumber == Cardinality(Pixels) \in Nat \ {0}
BY FS_CardinalityType, FS_EmptySet, FootprintAssumption

LEMMA NextLayer ==
  ASSUME input \in SUBSET Pixels
  PROVE  /\ Layer(0) = input
         /\ \A k \in 0 .. Cardinality(Pixels) - 1 : Layer(k + 1) = Eroded(Layer(k))
<1>1. \A k \in 1 .. Cardinality(Pixels) : Layer(k) = Eroded(Layer(k - 1))
  BY PixelNumber, LayersUnfold DEF Layer
<1>2. ASSUME NEW k \in 0 .. Cardinality(Pixels) - 1
      PROVE  Layer(k + 1) = Eroded(Layer(k))
  <2>1. k + 1 \in 1 .. Cardinality(Pixels) /\ (k + 1) - 1 = k
    BY PixelNumber
  <2>. QED  BY <1>1, <2>1
<1>. QED  BY <1>2, PixelNumber, LayersUnfold DEF Layer

\* Below an empty layer there is nothing to lose.
LEMMA EmptyBelow ==
  ASSUME input \in SUBSET Pixels, NEW k \in 0 .. Cardinality(Pixels), Layer(k) = {}
  PROVE  \A j \in k .. Cardinality(Pixels) : Residue(Layer(j)) = {}
<1>. DEFINE S == {i \in Nat : k + i <= Cardinality(Pixels) => Layer(k + i) = {}}
<1>1. 0 \in S
  OBVIOUS
<1>2. ASSUME NEW i \in Nat, i \in S
      PROVE  i + 1 \in S
  <2>. SUFFICES ASSUME k + (i + 1) <= Cardinality(Pixels)
                PROVE  Layer(k + (i + 1)) = {}
    OBVIOUS
  <2>1. k + i \in 0 .. Cardinality(Pixels) - 1 /\ Layer(k + i) = {}
    BY <1>2, PixelNumber
  <2>2. Layer((k + i) + 1) = Eroded({})
    BY <2>1, NextLayer
  <2>3. Eroded({}) = {}
    BY FootprintAssumption DEF Eroded
  <2>. QED  BY <2>2, <2>3, PixelNumber
<1>3. Nat \subseteq S
  <2>. HIDE DEF S
  <2>. QED  BY <1>1, <1>2, Induction
<1>4. ASSUME NEW j \in k .. Cardinality(Pixels)
      PROVE  Layer(j) = {}
  <2>1. j - k \in Nat /\ k + (j - k) = j /\ j <= Cardinality(Pixels)
    BY PixelNumber
  <2>2. j - k \in S
    BY <1>3, <2>1
  <2>. QED  BY <2>1, <2>2
<1>. QED  BY <1>4 DEF Residue

\* The loop has gone through all layers that lose something.
LEMMA AllLayersTaken ==
  ASSUME input \in SUBSET Pixels, NEW k \in 0 .. Cardinality(Pixels), Layered(k), image = {}
  PROVE  skelet = ReferenceSkeleton(input)
<1>1. ReferenceSkeleton(input) = UNION {Residue(Layer(j)) : j \in 0 .. Cardinality(Pixels)}
  BY DEF ReferenceSkeleton, Layer
<1>2. \A j \in 0 .. Cardinality(Pixels) : j \in 0 .. k - 1 \/ Residue(Layer(j)) = {}
  <2>1. \A j \in k .. Cardinality(Pixels) : Residue(Layer(j)) = {}
    BY EmptyBelow DEF Layered
  <2>. QED  BY <2>1, PixelNumber
<1>3. \A j \in 0 .. k - 1 : j \in 0 .. Cardinality(Pixels)
  BY PixelNumber
<1>. QED  BY <1>1, <1>2, <1>3 DEF Layered

LEMMA PeelCounts ==
  ASSUME FInv, Peel
  PROVE  TurnsCounted'
<1>. DEFINE n == Cardinality(Pixels)
<1>1. image \in SUBSET Pixels /\ image # Pixels /\ input \in SUBSET Pixels /\ input' = input
      /\ image' = Eroded(image) /\ phase = "peel"
  BY DEF FInv, IInv, TypeOK, NeverAllWhite, Peel
<1>2. PICK k \in 0 .. n : Layered(k)
  BY <1>1 DEF FInv, TurnsCounted
<1>3. /\ Cardinality(image) \in Nat /\ Cardinality(image') \in Nat
      /\ image # {} => Cardinality(image') + 1 <= Cardinality(image)
      /\ Cardinality(image') <= Cardinality(image)
  <2>1. IsFiniteSet(image) /\ image' \subseteq image /\ (image # {} => image' # image)
    BY <1>1, ErodedShrinks, ErodedStrictly, FootprintAssumption, FS_Subset
  <2>2. Cardinality(image) \in Nat /\ IsFiniteSet(image') /\ Cardinality(image') \in Nat
        /\ Cardinality(image') <= Cardinality(image)
        /\ (image # {} => Cardinality(image') < Cardinality(image))
    BY <2>1, FS_Subset, FS_CardinalityType
  <2>. QED  BY <2>2
<1>4. Cardinality(image) + k <= n /\ (image = {} => k = 0) /\ image = Layer(k)
  BY <1>1, <1>2 DEF Layered
<1>5. k + 1 \in 0 .. n /\ k \in 0 .. n - 1 /\ Cardinality(image') + (k + 1) <= n
  <2>1. CASE image = {}
    <3>1. Cardinality(image') <= 0
      BY <1>3, <2>1, FS_EmptySet
    <3>. QED  BY <1>3, <1>4, <2>1, <3>1, PixelNumber
  <2>2. CASE image # {}
    BY <1>3, <1>4, <2>2, PixelNumber
  <2>. QED  BY <2>1, <2>2
<1>6. \A j \in 0 .. n : Layer(j)' = Layer(j)
  BY <1>1 DEF Layer
<1>7. image' = Layer(k + 1)'
  BY <1>1, <1>4, <1>5, <1>6, NextLayer
<1>8. skelet' = UNION {Residue(Layer(j)') : j \in 0 .. (k + 1) - 1}
  <2>1. skelet' = skelet \cup Residue(Layer(k))
    BY <1>4 DEF Peel
  <2>2. \A j : j \in 0 .. (k + 1) - 1 <=> (j \in 0 .. k - 1 \/ j = k)
    BY PixelNumber
  <2>3. \A j \in 0 .. (k + 1) - 1 : Layer(j)' = Layer(j)
    BY <1>5, <1>6, PixelNumber
  <2>. QED  BY <1>2, <2>1, <2>2, <2>3 DEF Layered
<1>9. Layered(k + 1)'
  BY <1>5, <1>7, <1>8 DEF Layered, Peel
<1>. QED  BY <1>5, <1>9 DEF TurnsCounted

LEMMA FileInit == Init => FInv
BY InitInv DEF Init, FInv, TurnsCounted, FileIsSkeleton

LEMMA FileStep ==
  ASSUME FInv, [Next]_vars
  PROVE  FInv'
<1>1. IInv /\ IInv'
  BY NextInv DEF FInv
<1>2. CASE Binarize
  <2>1. skeletFile' = Unreadable
    BY <1>1, <1>2 DEF Binarize, IInv, Bookkeeping
  <2>2. Layered(0)'
    <3>1. input' \in SUBSET Pixels /\ image' = input' /\ skelet' = {}
      BY <1>1, <1>2 DEF Binarize, IInv, TypeOK
    <3>2. Layer(0)' = input'
      BY <3>1, PixelNumber, LayersUnfold DEF Layer
    <3>3. Cardinality(image') \in Nat /\ Cardinality(image') + 0 <= Cardinality(Pixels)
      BY <3>1, FootprintAssumption, FS_Subset, FS_CardinalityType, PixelNumber
    <3>4. 0 .. 0 - 1 = {}
      OBVIOUS
    <3>. QED  BY <3>1, <3>2, <3>3, <3>4 DEF Layered
  <2>3. TurnsCounted'
    BY <2>2, PixelNumber DEF TurnsCounted
  <2>. QED  BY <1>1, <2>1, <2>3 DEF FInv, FileIsSkeleton
<1>3. CASE Peel
  <2>1. skeletFile' = Unreadable
    BY <1>1, <1>3 DEF Peel, IInv, Bookkeeping
  <2>. QED  BY <1>1, <1>3, <2>1, PeelCounts DEF FInv, FileIsSkeleton
<1>4. CASE Write
  <2>1. PICK k \in 0 .. Cardinality(Pixels) : Layered(k)
    BY <1>4 DEF Write, FInv, TurnsCounted
  <2>2. input \in SUBSET Pixels /\ image = {}
    BY <1>1, <1>4 DEF Write, IInv, TypeOK, Bookkeeping
  <2>3. skelet = ReferenceSkeleton(input)
    BY <2>1, <2>2, AllLayersTaken
  <2>4. FileIsSkeleton'
    BY <1>4, <2>3 DEF Write, FileIsSkeleton
  <2>5. TurnsCounted'
    BY <1>4 DEF Write, TurnsCounted
  <2>. QED  BY <1>1, <2>4, <2>5 DEF FInv
<1>5. CASE FirstStage \/ FirstStageFails \/ ReadFails
  <2>1. skeletFile' = Unreadable
    BY <1>1, <1>5 DEF FirstStage, FirstStageFails, ReadFails, IInv, Bookkeeping
  <2>2. TurnsCounted'
    BY <1>5 DEF FirstStage, FirstStageFails, ReadFails, TurnsCounted
  <2>. QED  BY <1>1, <2>1, <2>2 DEF FInv, FileIsSkeleton
<1>6. CASE UNCHANGED vars
  <2>1. image' = image /\ skelet' = skelet /\ phase' = phase /\ input' = input
        /\ skeletFile' = skeletFile
    BY <1>6 DEF vars
  <2>2. ASSUME phase \in {"peel", "write"} PROVE \E k \in 0 .. Cardinality(Pixels) : Layered(k)'
    <3>1. PICK k \in 0 .. Cardinality(Pixels) : Layered(k)
      BY <2>2 DEF FInv, TurnsCounted
    <3>2. Layered(k)'
      BY <2>1, <3>1 DEF Layered, Layer
    <3>. QED  BY <3>2
  <2>3. TurnsCounted'
    BY <2>1, <2>2 DEF TurnsCounted
  <2>. QED  BY <1>1, <2>1, <2>3 DEF FInv, FileIsSkeleton
<1>. QED  BY <1>2, <1>3, <1>4, <1>5, <1>6 DEF Next, Exited

LEMMA FileInvariance == Spec => []FInv
BY FileInit, FileStep, PTL DEF Spec

-----------------------------------------------------------------------------

\* Every variable keeps its type in every run of the program.
THEOREM TypeCorrect == Spec => []TypeOK
BY Invariance, PTL DEF IInv

\* The loop of lines 55-64 never meets an all-white image, on which it would
\* not end.
THEOREM LoopIsSafe == Spec => []NeverAllWhite
BY Invariance, PTL DEF IInv

\* No pixel of the binarized scan is further from what is collected and what
\* is left of the image than layers are gone, nor from the skeleton in the
\* file than there were layers; and nothing is collected outside the scan.
THEOREM NoInkFarFromSkeleton == Spec => []SkeletonIsNear
BY Invariance, PTL DEF IInv

\* A scan with ink gives a file with ink.
THEOREM InkIsKept == Spec => []InkSurvives
<1>1. IInv => InkSurvives
  BY DEF IInv, TypeOK, SkeletonIsNear, InkSurvives, Grown
<1>. QED  BY <1>1, Invariance, PTL

\* The file the program leaves is the negative of the textbook skeleton of the
\* binarized scan, on every connected image of any size.
THEOREM FileIsTheSkeleton == Spec => []FileIsSkeleton
BY FileInvariance, PTL DEF FInv

\* The loop is a peeling of the binarized scan, on every connected image.
THEOREM LoopPeels == Spec => IsPeeling
<1>. USE DEF Loop!PeelInit, Loop!PeelNext, Loop!PeelTurn, Loop!Load, Loop!Take, Loop!Last
<1>1. Init => Loop!PeelInit
  BY DEF Init
<1>2. ASSUME IInv, IInv', Peel PROVE Loop!PeelTurn
  <2>1. image \in SUBSET Pixels /\ image # Pixels /\ image' = Eroded(image)
    BY <1>2 DEF Peel, IInv, TypeOK, NeverAllWhite
  <2>2. image' \subseteq image /\ (image # {} => image' # image)
    BY <2>1, ErodedShrinks, ErodedStrictly
  <2>. QED  BY <1>2, <2>1, <2>2 DEF Peel
<1>3. IInv /\ IInv' /\ [Next]_vars => [Loop!PeelNext]_<<image, phase = "peel">>
  <2>. SUFFICES ASSUME IInv, IInv', Next
                PROVE  [Loop!PeelNext]_<<image, phase = "peel">>
    BY DEF vars
  <2>1. CASE Binarize
    BY <2>1 DEF Binarize, IInv, TypeOK
  <2>2. CASE Peel
    BY <1>2, <2>2
  <2>3. CASE FirstStage \/ FirstStageFails \/ ReadFails \/ Write \/ Exited
    BY <2>3 DEF FirstStage, FirstStageFails, ReadFails, Write, Exited, vars
  <2>. QED  BY <2>1, <2>2, <2>3 DEF Next
<1>4. IInv /\ IInv' /\ [Next]_vars => [phase = "peel" => Loop!PeelTurn]_vars
  <2>. SUFFICES ASSUME IInv, IInv', Next, phase = "peel"
                PROVE  Loop!PeelTurn
    OBVIOUS
  <2>1. Peel
    BY DEF Next, FirstStage, FirstStageFails, ReadFails, Binarize, Write, Exited
  <2>. QED  BY <1>2, <2>1
<1>. QED  BY <1>1, <1>3, <1>4, Invariance, PTL DEF Spec, IsPeeling, Loop!PeelSpec

\* The skeleton only gains pixels, and only pixels of the image.
THEOREM SkeletonGrows == Spec => SkeletonGrowsInsideImage
<1>1. IInv /\ [Next]_vars =>
        [phase = "peel" => skelet \subseteq skelet' /\ skelet' \subseteq skelet \cup image]_vars
  <2>. SUFFICES ASSUME IInv, Next, phase = "peel"
                PROVE  skelet \subseteq skelet' /\ skelet' \subseteq skelet \cup image
    OBVIOUS
  <2>1. Peel
    BY DEF Next, FirstStage, FirstStageFails, ReadFails, Binarize, Write, Exited
  <2>. QED  BY <2>1 DEF Peel, Residue
<1>. QED  BY <1>1, Invariance, PTL DEF Spec, SkeletonGrowsInsideImage

-----------------------------------------------------------------------------
(* AngleSearch.                                                            *)

USE SearchAssumption

\* The best so far, once there is one.
Leads(n) ==
  \E k \in Turns(program) :
    FirstBest(k, n) /\ best = AngleOf(program, k) /\ bestScore = ScoreOf(k)

BeforeSearch ==
  pc \in {"first", "start"} => turn = First(program) /\ flag

Searching ==
  pc = "search" =>
    /\ program \in {"TBR", "TBR.py"} => turn # First(program)
    /\ turn = First(program) => best = StartAngle /\ bestScore = StartScore /\ flag
    /\ turn # First(program) /\ Measures => Leads(turn)
    /\ ~ Measures => best = 0
    /\ program = "TCR" /\ turn # First(program) => gradient = best /\ ~ flag

NotYetRotated == rotated # NoAngle => pc = "exit"

\* What a program has behind it when it gets as far as it is; without it the
\* page need not be free of troubles when it is written.
Passed ==
  /\ pc = "first" => ~ binarized
  /\ pc \notin {"exit", "threw"} => status = -1 /\ rotated = NoAngle
  /\ pc \in {"start", "search"} => trouble \subseteq {"last name", "gone"}
  /\ pc = "search" =>
       /\ "gone" \notin trouble
       /\ program = "TCR" => CropFits
       /\ turn # First(program) => RegionFits

AngInv ==
  /\ AngleTypeOK /\ BeforeSearch /\ Searching /\ NotYetRotated
  /\ Passed /\ PageOrReason /\ WrittenIsFirstBest /\ GradientIsOfResult

-----------------------------------------------------------------------------

\* The loops: they make a first turn, they do not leave Most behind, and once
\* they stop no turn is left.
LEMMA Loops ==
  ASSUME NEW p \in Programs, NEW n \in First(p) .. Most + 1
  PROVE  /\ First(p) \in Turns(p)
         /\ GoesOn(p, n) => n \in Turns(p) /\ n + 1 \in First(p) .. Most + 1
         /\ ~ GoesOn(p, n) => \A j \in Turns(p) : j < n
BY DEF First, Turns, Most, GoesOn, KBRGoesOn, TBRGoesOn, TCRGoesOn,
   KCSGoesOn

\* The sentinel of KBR is not an angle it tries.
LEMMA SentinelIsNoAngle ==
  ASSUME NEW p \in {"KBR", "KBR.py"}, NEW k \in Turns(p)
  PROVE  AngleOf(p, k) # INITIAL_ANGLE
BY DEF Turns, First, Most, AngleOf, Normal, INITIAL_ANGLE

LEMMA ScoreTypes ==
  ASSUME AngleTypeOK, NEW k \in Turns(program)
  PROVE  /\ AngleOf(program, k) \in Tried(program)
         /\ ScoreOf(k) \in Means
         /\ ScoreOf(k) \in Int
         /\ ScoreOf(k) < MinMean
<1>1. AngleOf(program, k) \in Tried(program)
  BY DEF Tried
<1>2. ScoreOf(k) \in MeansOf(program)
  BY <1>1 DEF AngleTypeOK, ScoreOf
<1>. QED  BY <1>1, <1>2 DEF MeansOf

\* A first turn takes whatever it measures; a later one what is better.
LEMMA WhatIsTaken ==
  ASSUME AngInv, Turn
  PROVE  /\ turn = First(program) /\ Measures => Takes(ScoreOf(turn))
         /\ turn # First(program) /\ Measures =>
              (Takes(ScoreOf(turn)) <=> Better(ScoreOf(turn), bestScore))
         /\ ~ Measures => ~ Takes(ScoreOf(turn))
<1>1. pc = "search" /\ turn \in Turns(program)
  BY Loops DEF AngInv, Turn, AngleTypeOK
<1>2. ScoreOf(turn) \in Int /\ ScoreOf(turn) < MinMean
  BY <1>1, ScoreTypes DEF AngInv
<1>3. program \in {"KBR", "TBR", "TCR", "KCS", "KBR.py", "TBR.py", "KCS.py"}
  BY DEF AngInv, AngleTypeOK
<1>4. ASSUME turn = First(program), Measures
      PROVE  Takes(ScoreOf(turn))
  <2>1. best = StartAngle /\ bestScore = StartScore /\ flag
        /\ program \notin {"TBR", "TBR.py"}
    BY <1>1, <1>4 DEF AngInv, Searching
  <2>. QED  BY <1>2, <1>3, <1>4, <2>1 DEF Takes, KBRTakes, TCRTakes, KCSTakes,
               StartAngle, StartScore
<1>5. ASSUME turn # First(program), Measures
      PROVE  Takes(ScoreOf(turn)) <=> Better(ScoreOf(turn), bestScore)
  <2>1. Leads(turn) /\ (program = "TCR" => ~ flag)
    BY <1>1, <1>5 DEF AngInv, Searching
  <2>2. program \in {"KBR", "KBR.py"} => best # INITIAL_ANGLE
    BY <2>1, SentinelIsNoAngle DEF Leads
  <2>. QED
    BY <1>3, <1>5, <2>1, <2>2 DEF Takes, KBRTakes, TBRTakes, TCRTakes,
       KCSTakes, Better, Sense
<1>6. ~ Measures => ~ Takes(ScoreOf(turn))
  BY DEF Takes, Measures
<1>. QED  BY <1>4, <1>5, <1>6

LEMMA TurnLeads ==
  ASSUME AngInv, Turn, Measures
  PROVE  /\ Takes(ScoreOf(turn)) => FirstBest(turn, turn + 1)
         /\ ~ Takes(ScoreOf(turn)) => Leads(turn + 1)
<1>1. pc = "search" /\ turn \in Turns(program) /\ turn \in Int
  BY Loops DEF AngInv, Turn, AngleTypeOK, Turns, Most, First
<1>2. \A j \in Turns(program) : ScoreOf(j) \in Int /\ j \in Int /\ j >= First(program)
  BY ScoreTypes DEF AngInv, Turns, Most, First
<1>3. CASE turn = First(program)
  <2>1. Takes(ScoreOf(turn))
    BY <1>3, WhatIsTaken
  <2>2. \A j \in Turns(program) : j < turn + 1 => j = turn
    BY <1>1, <1>2, <1>3
  <2>3. \A j \in Turns(program) : ~ (j < turn)
    BY <1>1, <1>2, <1>3
  <2>4. FirstBest(turn, turn + 1)
    BY <1>1, <1>2, <2>2, <2>3 DEF FirstBest, Better
  <2>. QED  BY <2>1, <2>4
<1>4. CASE turn # First(program)
  <2>1. PICK k \in Turns(program) :
          FirstBest(k, turn) /\ best = AngleOf(program, k) /\ bestScore = ScoreOf(k)
    BY <1>1, <1>4 DEF AngInv, Searching, Leads
  <2>2. Takes(ScoreOf(turn)) <=> Better(ScoreOf(turn), ScoreOf(k))
    BY <1>4, <2>1, WhatIsTaken
  <2>3. \A j \in Turns(program) : j < turn + 1 => j < turn \/ j = turn
    BY <1>1, <1>2
  <2>4. ScoreOf(k) \in Int /\ ScoreOf(turn) \in Int /\ k < turn
    BY <1>1, <1>2, <2>1 DEF FirstBest
  <2>5. ASSUME Better(ScoreOf(turn), ScoreOf(k))
        PROVE  FirstBest(turn, turn + 1)
    <3>1. ASSUME NEW j \in Turns(program), j < turn
          PROVE  Better(ScoreOf(turn), ScoreOf(j))
      <4>1. ~ Better(ScoreOf(j), ScoreOf(k)) /\ ScoreOf(j) \in Int
        BY <1>2, <2>1, <3>1 DEF FirstBest
      <4>. QED  BY <2>4, <2>5, <4>1 DEF Better
    <3>2. ASSUME NEW j \in Turns(program), j < turn + 1
          PROVE  ~ Better(ScoreOf(j), ScoreOf(turn))
      <4>1. CASE j = turn
        BY <2>4, <4>1 DEF Better
      <4>2. CASE j < turn
        <5>1. Better(ScoreOf(turn), ScoreOf(j)) /\ ScoreOf(j) \in Int
          BY <1>2, <3>1, <4>2
        <5>. QED  BY <2>4, <5>1 DEF Better
      <4>. QED  BY <2>3, <3>2, <4>1, <4>2
    <3>3. turn < turn + 1
      BY <1>1
    <3>. QED  BY <1>1, <3>1, <3>2, <3>3 DEF FirstBest
  <2>6. ASSUME ~ Better(ScoreOf(turn), ScoreOf(k))
        PROVE  FirstBest(k, turn + 1)
    <3>1. k < turn + 1
      BY <1>1, <1>2, <2>4
    <3>. QED  BY <2>1, <2>3, <2>6, <3>1 DEF FirstBest
  <2>. QED  BY <2>1, <2>2, <2>5, <2>6 DEF Leads
<1>. QED  BY <1>3, <1>4

\* At the end of the loop the leader leads over all turns.
LEMMA LastLeads ==
  ASSUME AngInv, pc = "search", ~ GoesOn(program, turn), Measures
  PROVE  \E k \in Turns(program) :
           /\ FirstBest(k, Most + 1)
           /\ best = AngleOf(program, k) /\ bestScore = ScoreOf(k)
<1>1. turn # First(program) /\ \A j \in Turns(program) : j < turn
  BY Loops DEF AngInv, AngleTypeOK, Turns
<1>2. PICK k \in Turns(program) :
        FirstBest(k, turn) /\ best = AngleOf(program, k) /\ bestScore = ScoreOf(k)
  BY <1>1 DEF AngInv, Searching, Leads
<1>3. k < Most + 1
  BY DEF Turns, Most, First
<1>. QED  BY <1>1, <1>2, <1>3 DEF FirstBest

-----------------------------------------------------------------------------

\* While the page is the same, so is what is said of it.
LEMMA PageKept ==
  ASSUME UNCHANGED page
  PROVE  /\ program' = program /\ size' = size /\ trouble' = trouble /\ score' = score
         /\ Troubles' = Troubles /\ (LargeEnough' <=> LargeEnough)
         /\ (CropFits' <=> CropFits) /\ (RegionFits' <=> RegionFits)
         /\ \A k, n : FirstBest(k, n)' <=> FirstBest(k, n)
         /\ \A k : ScoreOf(k)' = ScoreOf(k)
         /\ Measures' <=> Measures
         /\ StartAngle' = StartAngle /\ StartScore' = StartScore
BY DEF page, FirstBest, ScoreOf, Better, Sense, Measures, StartAngle,
   StartScore, Troubles, WritesFirst, CropFits, RegionFits, LargeEnough, cols, rows

\* What fits is what the property asks of the page.
LEMMA FitsIfLarge ==
  ASSUME AngleTypeOK
  PROVE  /\ LargeEnough <=> (program = "TCR" => CropFits) /\ RegionFits
         /\ trouble \subseteq Troubles
<1>1. size \in Nat \X Nat
  BY DEF AngleTypeOK
<1>2. cols \in Nat /\ rows \in Nat
  BY <1>1 DEF cols, rows
<1>3. Crop \in Nat
  OBVIOUS
<1>4. (2 * Crop <= cols <=> cols \div 2 >= Crop) /\ (2 * Crop <= rows <=> rows \div 2 >= Crop)
  BY <1>2, <1>3
<1>5. rows \div 4 <= cols - cols \div 4 <=> cols \div 4 + rows \div 4 <= cols
  BY <1>2
<1>. QED  BY <1>4, <1>5 DEF LargeEnough, CropFits, RegionFits, AngleTypeOK

LEMMA AngInitInv == AngleInit => AngInv
<1>. SUFFICES ASSUME AngleInit PROVE AngInv
  OBVIOUS
<1>1. First(program) \in First(program) .. Most + 1
  BY DEF AngleInit, First, Most
<1>2. AngleTypeOK
  BY <1>1 DEF AngleInit, AngleTypeOK
<1>. QED
  BY <1>2 DEF AngleInit, AngInv, BeforeSearch, Searching, NotYetRotated, WrittenIsFirstBest,
     GradientIsOfResult, Passed, PageOrReason

LEMMA ImproveInv == AngInv /\ Improve => AngInv'
<1>. SUFFICES ASSUME AngInv, Improve PROVE AngInv'
  OBVIOUS
<1>0. UNCHANGED page /\ pc = "search" /\ pc' = pc /\ Turn
  BY DEF Improve, Turn
<1>1. /\ turn \in Turns(program) /\ turn + 1 \in First(program) .. Most + 1
      /\ turn + 1 # First(program)
  BY <1>0, Loops DEF AngInv, Turn, AngleTypeOK, First
<1>2. Measures /\ FirstBest(turn, turn + 1)
  BY <1>0, WhatIsTaken, TurnLeads DEF Improve, ScoreOf, Angle
<1>3. AngleOf(program, turn) \in Tried(program) /\ ScoreOf(turn) \in Means
  BY <1>1, ScoreTypes DEF AngInv
<1>4. AngleTypeOK'
  <2>1. AngleTypeOK
    BY DEF AngInv
  <2>2. gradient' \in Tried(program) \cup {NoAngle}
    BY <1>3, <2>1 DEF AngleTypeOK, Improve, Angle
  <2>. QED  BY <1>0, <1>1, <1>3, <2>1, <2>2, PageKept DEF AngleTypeOK, Improve, Angle, ScoreOf
<1>5. Searching'
  <2>1. Leads(turn)'
    BY <1>0, <1>1, <1>2, PageKept DEF Leads, Improve, Angle, ScoreOf
  <2>. QED  BY <1>0, <1>1, <1>2, <2>1, PageKept DEF Searching, Improve
<1>6. (BeforeSearch /\ NotYetRotated /\ WrittenIsFirstBest /\ GradientIsOfResult)'
  BY <1>0 DEF AngInv, BeforeSearch, NotYetRotated, WrittenIsFirstBest,
     GradientIsOfResult, Improve
<1>passed. (Passed /\ PageOrReason)'
  BY <1>0, PageKept DEF AngInv, Passed, PageOrReason, Turn, Improve
<1>. QED  BY <1>4, <1>5, <1>6, <1>passed DEF AngInv

LEMMA KeepInv == AngInv /\ Keep => AngInv'
<1>. SUFFICES ASSUME AngInv, Keep PROVE AngInv'
  OBVIOUS
<1>0. UNCHANGED page /\ pc = "search" /\ pc' = pc /\ Turn
  BY DEF Keep, Turn
<1>1. /\ turn \in Turns(program) /\ turn + 1 \in First(program) .. Most + 1
      /\ turn + 1 # First(program)
  BY <1>0, Loops DEF AngInv, Turn, AngleTypeOK, First
<1>2. Measures => turn # First(program) /\ Leads(turn + 1)
  BY <1>0, WhatIsTaken, TurnLeads DEF Keep, ScoreOf, Angle, AngInv, Searching
<1>3. AngleTypeOK'
  BY <1>0, <1>1, PageKept DEF AngInv, AngleTypeOK, Keep
<1>4. Searching'
  <2>1. Measures => Leads(turn)'
    BY <1>0, <1>2, PageKept DEF Leads, Keep
  <2>2. program = "TCR" => Measures
    BY DEF Measures
  <2>. QED  BY <1>0, <1>1, <1>2, <2>1, <2>2, PageKept DEF AngInv, Searching, Keep
<1>5. (BeforeSearch /\ NotYetRotated /\ WrittenIsFirstBest /\ GradientIsOfResult)'
  BY <1>0 DEF AngInv, BeforeSearch, NotYetRotated, WrittenIsFirstBest,
     GradientIsOfResult, Keep
<1>passed. (Passed /\ PageOrReason)'
  BY <1>0, PageKept DEF AngInv, Passed, PageOrReason, Turn, Keep
<1>. QED  BY <1>3, <1>4, <1>5, <1>passed DEF AngInv

\* What main writes is the leader, or for the twin of TBR its mean.
LEMMA RotateInv == AngInv /\ Rotate => AngInv'
<1>. SUFFICES ASSUME AngInv, Rotate PROVE AngInv'
  OBVIOUS
<1>0. UNCHANGED page /\ pc = "search" /\ pc' = "exit" /\ ~ GoesOn(program, turn)
  BY DEF Rotate
<1>1. turn # First(program)
  BY <1>0, Loops DEF AngInv, AngleTypeOK, Turns
<1>2. Measures => \E k \in Turns(program) :
        /\ FirstBest(k, Most + 1)
        /\ best = AngleOf(program, k) /\ bestScore = ScoreOf(k)
  BY <1>0, LastLeads
<1>3. ~ Measures => best = 0 /\ program = "KCS.py"
  BY <1>0 DEF AngInv, Searching, Measures
<1>4. rotated' \in Tried(program) \cup Means \cup {NoAngle, 0}
  <2>1. rotated' = IF program = "TBR.py" THEN bestScore ELSE best
    BY DEF Rotate
  <2>2. AngleTypeOK
    BY DEF AngInv
  <2>. QED  BY <1>2, <1>3, <2>1, <2>2, ScoreTypes
<1>tried. best \in Int /\ bestScore \in Int
  <2>1. \A k \in Turns(program) : AngleOf(program, k) \in Int
    BY DEF AngInv, AngleTypeOK, Turns, First, Most, AngleOf, Normal
  <2>. QED  BY <2>1 DEF AngInv, AngleTypeOK, Tried, INITIAL_ANGLE
<1>5. AngleTypeOK'
  <2>1. AngleTypeOK /\ status' = 0
        /\ UNCHANGED <<turn, best, bestScore, flag, binarized, gradient>>
    BY DEF AngInv, Rotate
  <2>. QED  BY <1>0, <1>4, <2>1, PageKept DEF AngleTypeOK
<1>6. WrittenIsFirstBest'
  BY <1>0, <1>2, <1>3, PageKept DEF WrittenIsFirstBest, Rotate
<1>7. GradientIsOfResult'
  BY <1>0, <1>1, PageKept DEF AngInv, Searching, GradientIsOfResult, Rotate
<1>8. (BeforeSearch /\ Searching /\ NotYetRotated)'
  BY <1>0 DEF BeforeSearch, Searching, NotYetRotated
<1>9. (Passed /\ PageOrReason)'
  <2>1. trouble = {}
    BY <1>0 DEF AngInv, Passed, Rotate
  <2>2. LargeEnough
    BY <1>0, <1>1, FitsIfLarge DEF AngInv, Passed
  <2>3. rotated' # NoAngle
    BY <1>2, <1>3, <1>tried DEF AngInv, AngleTypeOK, Rotate
  <2>4. status' = 0
    BY DEF Rotate
  <2>. QED  BY <1>0, <2>1, <2>2, <2>3, <2>4, PageKept DEF Passed, PageOrReason
<1>. QED  BY <1>5, <1>6, <1>7, <1>8, <1>9 DEF AngInv

LEMMA StartInv == AngInv /\ (StartFromNothing \/ StartFromFirst) => AngInv'
<1>1. ASSUME AngInv, StartFromNothing
      PROVE  AngInv'
  <2>0. UNCHANGED page /\ turn = First(program) /\ flag /\ rotated = NoAngle
    BY <1>1 DEF AngInv, BeforeSearch, NotYetRotated, StartFromNothing
  <2>1. AngleTypeOK'
    BY <1>1, <2>0, PageKept DEF AngInv, AngleTypeOK, StartFromNothing, StartAngle,
       StartScore
  <2>2. ~ Measures => StartAngle = 0
    BY DEF Measures, StartAngle
  <2>3. Searching'
    BY <1>1, <2>0, <2>2, PageKept DEF Searching, StartFromNothing
  <2>4. (Passed /\ PageOrReason)'
    <3>1. "gone" \notin trouble
      BY <1>1, FitsIfLarge DEF AngInv, StartFromNothing, Troubles
    <3>. QED  BY <1>1, <2>0, <3>1, PageKept DEF AngInv, Passed, PageOrReason, StartFromNothing
  <2>. QED
    BY <1>1, <2>0, <2>1, <2>3, <2>4 DEF AngInv, BeforeSearch, NotYetRotated, WrittenIsFirstBest,
       GradientIsOfResult, StartFromNothing
<1>2. ASSUME AngInv, StartFromFirst
      PROVE  AngInv'
  <2>0. UNCHANGED page /\ turn = First(program) /\ rotated = NoAngle
    BY <1>2 DEF AngInv, BeforeSearch, NotYetRotated, StartFromFirst
  <2>1. /\ turn \in Turns(program) /\ turn + 1 \in First(program) .. Most + 1
        /\ turn + 1 # First(program)
    <3>1. First(program) \in First(program) .. Most + 1
      BY DEF First, Most
    <3>2. First(program) \in Turns(program)
      BY <1>2, <3>1, Loops DEF AngInv, AngleTypeOK
    <3>. QED  BY <2>0, <3>1, <3>2 DEF Turns, First, Most
  <2>2. /\ AngleOf(program, turn) \in Tried(program)
        /\ ScoreOf(turn) \in Means /\ ScoreOf(turn) \in Int
    BY <1>2, <2>1, ScoreTypes DEF AngInv
  <2>3. AngleTypeOK'
    BY <1>2, <2>0, <2>1, <2>2, PageKept DEF AngInv, AngleTypeOK, StartFromFirst, ScoreOf
  <2>4. FirstBest(turn, turn + 1)
    <3>1. \A j \in Turns(program) : j \in Int /\ j >= turn
      BY <2>0 DEF Turns, Most, First
    <3>2. \A j \in Turns(program) : j < turn + 1 => j = turn
      BY <2>1, <3>1
    <3>. QED  BY <2>1, <2>2, <3>1, <3>2 DEF FirstBest, Better
  <2>5. Leads(turn)'
    BY <1>2, <2>0, <2>1, <2>4, PageKept DEF Leads, StartFromFirst, ScoreOf
  <2>6. Searching'
    BY <1>2, <2>0, <2>1, <2>5, PageKept DEF Searching, StartFromFirst, Measures
  <2>7. (Passed /\ PageOrReason)'
    <3>1. program # "TCR" /\ RegionFits
      BY <1>2 DEF StartFromFirst, RegionFits
    <3>. QED  BY <1>2, <2>0, <3>1, PageKept DEF AngInv, Passed, PageOrReason, StartFromFirst
  <2>. QED
    BY <1>2, <2>0, <2>3, <2>6, <2>7 DEF AngInv, BeforeSearch, NotYetRotated, WrittenIsFirstBest,
       GradientIsOfResult, StartFromFirst
<1>. QED  BY <1>1, <1>2

LEMMA AngNextInv == AngInv /\ [AngleNext]_angleVars => AngInv'
<1>. SUFFICES ASSUME AngInv, [AngleNext]_angleVars PROVE AngInv'
  OBVIOUS
<1>1. CASE UNCHANGED angleVars
  <2>1. UNCHANGED page
    BY <1>1 DEF angleVars
  <2>2. AngleTypeOK' /\ Leads(turn)' = Leads(turn)
    BY <1>1, <2>1, PageKept DEF AngInv, AngleTypeOK, Leads, angleVars
  <2>3. UNCHANGED <<pc, turn, best, bestScore, flag, binarized, gradient, rotated, status>>
    BY <1>1 DEF angleVars
  <2>4. (BeforeSearch /\ Searching /\ NotYetRotated)'
    BY <2>1, <2>2, <2>3, PageKept DEF AngInv, BeforeSearch, Searching, NotYetRotated
  <2>5. (Passed /\ PageOrReason)'
    <3>1. Passed /\ PageOrReason
      BY DEF AngInv
    <3>2. program' = program /\ trouble' = trouble /\ (LargeEnough' <=> LargeEnough)
          /\ (CropFits' <=> CropFits) /\ (RegionFits' <=> RegionFits)
      BY <2>1, PageKept
    <3>3. Passed'
      BY <2>3, <3>1, <3>2 DEF Passed
    <3>4. PageOrReason'
      BY <2>3, <3>1, <3>2 DEF PageOrReason
    <3>. QED  BY <3>3, <3>4
  <2>6. (WrittenIsFirstBest /\ GradientIsOfResult)'
    BY <2>1, <2>3, PageKept DEF AngInv, WrittenIsFirstBest, GradientIsOfResult
  <2>. QED  BY <2>2, <2>4, <2>5, <2>6 DEF AngInv
<1>2. CASE FirstStageWorks
  <2>1. UNCHANGED page
    BY <1>2 DEF FirstStageWorks
  <2>2. AngleTypeOK'
    <3>1. pc' = "start" /\ binarized' = WritesFirst
          /\ UNCHANGED <<turn, best, bestScore, flag, gradient, rotated, status>>
      BY <1>2 DEF FirstStageWorks
    <3>2. AngleTypeOK
      BY DEF AngInv
    <3>3. binarized' \in BOOLEAN
      BY <3>1 DEF WritesFirst
    <3>. QED  BY <2>1, <3>1, <3>2, <3>3, PageKept DEF AngleTypeOK
  <2>3. (Passed /\ PageOrReason)'
    <3>1. trouble \subseteq {"last name", "gone"}
      BY <1>2, FitsIfLarge DEF AngInv, FirstStageWorks, Troubles
    <3>. QED  BY <1>2, <2>1, <3>1, PageKept DEF AngInv, Passed, PageOrReason, FirstStageWorks
  <2>. QED
    BY <1>2, <2>1, <2>2, <2>3, PageKept DEF AngInv, BeforeSearch, Searching, NotYetRotated,
       WrittenIsFirstBest, GradientIsOfResult, FirstStageWorks
<1>3. CASE FirstStageThrows \/ StartThrows \/ TurnThrows \/ RotateThrows
  <2>1. UNCHANGED <<page, turn, best, bestScore, flag, binarized, gradient, rotated>>
    BY <1>3 DEF Throws, FirstStageThrows, StartThrows, TurnThrows,
       RotateThrows
  <2>2. pc' \in {"exit", "threw"} /\ status' \in {-1, 0, 1} /\ rotated = NoAngle
    BY <1>3 DEF AngInv, NotYetRotated, AngleTypeOK, Throws, FirstStageThrows,
       StartThrows, TurnThrows, RotateThrows
  <2>3. AngleTypeOK'
    BY <2>1, <2>2, PageKept DEF AngInv, AngleTypeOK
  <2>4. (Passed /\ PageOrReason)'
    <3>5. Throws
      BY <1>3 DEF FirstStageThrows, StartThrows, TurnThrows, RotateThrows
    <3>1. status' # 0
      BY <3>5 DEF Throws
    <3>2. ~ (trouble = {} /\ LargeEnough)
      <4>1. CASE trouble # {}
        BY <4>1
      <4>2. CASE ~ RegionFits \/ (program = "TCR" /\ ~ CropFits)
        BY <4>2, FitsIfLarge DEF AngInv
      <4>. QED  BY <1>3, <4>1, <4>2 DEF FirstStageThrows, StartThrows, TurnThrows, RotateThrows
    <3>3. binarized => trouble \subseteq {"last name", "gone"}
      BY <1>3 DEF AngInv, Passed, FirstStageThrows, StartThrows, TurnThrows, RotateThrows
    <3>4. rotated' = NoAngle /\ binarized' = binarized
      BY <2>1, <2>2
    <3>6. trouble' = trouble /\ (LargeEnough' <=> LargeEnough)
      BY <2>1, PageKept
    <3>7. PageOrReason'
      BY <3>1, <3>2, <3>3, <3>4, <3>6 DEF PageOrReason
    <3>8. Passed'
      BY <2>2 DEF Passed
    <3>. QED  BY <3>7, <3>8
  <2>. QED
    BY <2>1, <2>2, <2>3, <2>4 DEF AngInv, BeforeSearch, Searching, NotYetRotated,
       WrittenIsFirstBest, GradientIsOfResult
<1>4. CASE Ended
  BY <1>1, <1>4 DEF Ended
<1>. QED
  BY <1>1, <1>2, <1>3, <1>4, StartInv, ImproveInv, KeepInv, RotateInv DEF AngleNext

LEMMA AngInvariance == AngleSpec => []AngInv
<1>1. AngleInit => AngInv
  BY AngInitInv
<1>2. AngInv /\ [AngleNext]_angleVars => AngInv'
  BY AngNextInv
<1>. QED  BY <1>1, <1>2, PTL DEF AngleSpec

-----------------------------------------------------------------------------

\* Best angle, best mean and everything written keep their types.
THEOREM AngTypeCorrect == AngleSpec => []AngleTypeOK
<1>1. AngInv => AngleTypeOK
  BY DEF AngInv
<1>2. AngleSpec => []AngInv
  BY AngInvariance
<1>. QED  BY <1>1, <1>2, PTL

\* All programs but the twin of TBR rotate the page by the first of the best
\* angles they try, for every range and every page, negative means included.
THEOREM SearchFindsBest == AngleSpec => []WrittenIsFirstBest
<1>1. AngInv => WrittenIsFirstBest
  BY DEF AngInv
<1>2. AngleSpec => []AngInv
  BY AngInvariance
<1>. QED  BY <1>1, <1>2, PTL

\* gradient_x.jpg is the picture of the angle TCR rotates by.
THEOREM GradientIsRight == AngleSpec => []GradientIsOfResult
<1>1. AngInv => GradientIsOfResult
  BY DEF AngInv
<1>2. AngleSpec => []AngInv
  BY AngInvariance
<1>. QED  BY <1>1, <1>2, PTL

\* However a program ends, it has written its page exactly if its files were
\* in order and the page has room for what is measured, and it returns 0 only
\* then.
THEOREM EveryEndIsExplained == AngleSpec => []PageOrReason
<1>1. AngInv => PageOrReason
  BY DEF AngInv
<1>2. AngleSpec => []AngInv
  BY AngInvariance
<1>. QED  BY <1>1, <1>2, PTL
=============================================================================
