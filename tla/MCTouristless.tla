---------------------------- MODULE MCTouristless ----------------------------
(***************************************************************************)
(* Touristless on three photos of five pixels.  The rectangles overlap,    *)
(* touch, and keep apart; the third one was drawn backwards, and the last  *)
(* one was dragged over the edge of the photo.                             *)
(***************************************************************************)
EXTENDS Touristless

MCRects == {<<0, 2>>, <<1, 3>>, <<5, 3>>, <<3, 6>>}
=============================================================================
