-------------------------- MODULE MCSkeletonization --------------------------
(***************************************************************************)
(* Skeletonization on a small grid with the clipped 3x3 box of the code.   *)
(***************************************************************************)
EXTENDS Skeletonization

CONSTANTS Cols, Rows

MCPixels == (1 .. Cols) \X (1 .. Rows)

Near(a, b) == a <= b + 1 /\ b <= a + 1

MCNbr == [p \in MCPixels |-> {q \in MCPixels : Near(p[1], q[1]) /\ Near(p[2], q[2])}]
=============================================================================
