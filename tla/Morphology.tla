----------------------------- MODULE Morphology -----------------------------
(***************************************************************************)
(* Binary mathematical morphology, as the OpenCV calls of the document     *)
(* processing programs compute it.  A binary image is the set of its white *)
(* pixels.  Nbr[p] is the footprint of the structuring element centred at  *)
(* p, clipped to the image: the default border value of cv::erode and      *)
(* cv::dilate makes pixels outside the image count for nothing.            *)
(***************************************************************************)
EXTENDS Naturals, FiniteSets

CONSTANTS
  Pixels,   \* the pixels of the image
  Nbr       \* the clipped footprint of the structuring element at each pixel

\* The footprint of a 3x3 element is centred, hence it holds its anchor and
\* is symmetric, whatever the clipping does.
ASSUME FootprintAssumption ==
  /\ Pixels # {}
  /\ IsFiniteSet(Pixels)
  /\ Nbr \in [Pixels -> SUBSET Pixels]
  /\ \A p \in Pixels : p \in Nbr[p]
  /\ \A p, q \in Pixels : q \in Nbr[p] => p \in Nbr[q]

\* An image is one piece: every part of it that is neither empty nor the
\* whole has a pixel whose footprint leaves the part.
ASSUME ConnectedAssumption ==
  \A S \in SUBSET Pixels :
    S \notin {{}, Pixels} => \E p \in S : ~ (Nbr[p] \subseteq S)

Eroded(X) == {p \in Pixels : Nbr[p] \subseteq X}

Dilated(X) == {p \in Pixels : Nbr[p] \cap X # {}}

Opened(X) == Dilated(Eroded(X))

\* What opening takes away: the pixels the element cannot reach from inside.
Residue(X) == X \ Opened(X)

\* The k-fold erosions of X, for k in 0 .. n.
Erosions(X, n) ==
  LET E[k \in 0 .. n] == IF k = 0 THEN X ELSE Eroded(E[k - 1]) IN E

\* The morphological skeleton by its textbook formula, the reference the
\* loops of the programs are compared with: the residues of all erosions.
\* Cardinality(Pixels) erosions exhaust every image but the all-white one.
ReferenceSkeleton(X) ==
  LET n == Cardinality(Pixels)
      E == Erosions(X, n)
  IN UNION {Residue(E[k]) : k \in 0 .. n}
=============================================================================
