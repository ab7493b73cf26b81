------------------------------- MODULE Canvas -------------------------------
(***************************************************************************)
(* protovis::Canvas: a pen in user coordinates on an image.  A canvas      *)
(* object is a record of the fields its methods change; the image belongs  *)
(* to the caller.  User coordinates are in tenths.                         *)
(***************************************************************************)
EXTENDS Integers

\* The constructor; it also paints the caller's image white.
NewCanvas == [origin |-> <<0, 0>>, pos |-> <<0, 0>>, scale |-> <<1, 1>>]

SetScale(c, s) == [c EXCEPT !.scale = s]

SetOrigin(c, o) == [c EXCEPT !.origin = o]

ShiftOrigin(c, d) == [c EXCEPT !.origin = <<c.origin[1] + d[1], c.origin[2] + d[2]>>]

FlipYAxis_OriginOnly(c, rows) ==
  [c EXCEPT !.origin = <<c.origin[1], rows - c.origin[2] - 1>>]

FlipYAxis(c, rows) ==
  [c EXCEPT !.scale = <<c.scale[1], - c.scale[2]>>,
            !.origin = <<c.origin[1], rows - c.origin[2] - 1>>]

\* The conversion to int drops the fraction, towards zero.
Truncated(v) == IF v >= 0 THEN v \div 10 ELSE - ((- v) \div 10)

Converted(c, d) ==
  <<Truncated(d[1] * c.scale[1] + 5) + c.origin[1],
    Truncated(d[2] * c.scale[2] + 5) + c.origin[2]>>

MoveTo(c, d) == [c EXCEPT !.pos = Converted(c, d)]

\* What line_to draws before it leaves the pen at d.
Line(c, d) == <<c.pos, Converted(c, d)>>
=============================================================================
