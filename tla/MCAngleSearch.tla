---------------------------- MODULE MCAngleSearch ----------------------------
(***************************************************************************)
(* AngleSearch on a few angles.  The pages are square, tall and flat, one  *)
(* of them too small for the square of TCR by a pixel.                     *)
(***************************************************************************)
EXTENDS AngleSearch

MCMeans == {-1, 0, 1}

MCSizes == {<<4, 4>>, <<3, 4>>, <<1, 8>>, <<8, 1>>}
=============================================================================
