---------------------------- MODULE MCSurfacePlot ----------------------------
(* Photos of three rows and two columns: two curves, whose values lie on     *)
(* both sides of where the rounding changes.                                 *)
EXTENDS SurfacePlot

MCGrays == {0, 14, 15, 255}

MCScales == {2}
=============================================================================
