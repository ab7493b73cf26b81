--------------------------- MODULE MCCamshiftDemo ---------------------------
(***************************************************************************)
(* CamshiftDemo on frames of a few pixels, the size set by the             *)
(* configurations.                                                         *)
(***************************************************************************)
EXTENDS CamshiftDemo
=============================================================================
