---------------------------- MODULE MCRetouching ----------------------------
(***************************************************************************)
(* Retouching of two photos of three columns.  The mouse can leave the     *)
(* window on the left.                                                     *)
(***************************************************************************)
EXTENDS Retouching

MCPoints == {-1, 0, 1}
=============================================================================
