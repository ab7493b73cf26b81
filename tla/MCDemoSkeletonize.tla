------------------------- MODULE MCDemoSkeletonize -------------------------
(***************************************************************************)
(* DemoSkeletonize on a small grid.  The 3x3 ellipse of OpenCV is a cross. *)
(***************************************************************************)
EXTENDS DemoSkeletonize

CONSTANTS Cols, Rows

MCPixels == (1 .. Cols) \X (1 .. Rows)

Apart(a, b) == IF a > b THEN a - b ELSE b - a

MCNbr ==
  [p \in MCPixels |-> {q \in MCPixels : Apart(p[1], q[1]) + Apart(p[2], q[2]) <= 1}]
=============================================================================
