----------------------------- MODULE MCFlareless -----------------------------
(***************************************************************************)
(* Flareless on a few photos of two samples, the bounds set by the         *)
(* configurations.                                                         *)
(***************************************************************************)
EXTENDS Flareless
=============================================================================
