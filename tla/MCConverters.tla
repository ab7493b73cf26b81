---------------------------- MODULE MCConverters ----------------------------
(***************************************************************************)
(* Converters on pictures of a few pixels.  The third size has more bytes  *)
(* than an int counts, the last wraps a word and, gray, drifts.            *)
(***************************************************************************)
EXTENDS Converters

MCSizes == {<<1, 2>>, <<2, 2>>, <<3, 2>>, <<5, 3>>}

\* Rounding and cutting differ on the second.
MCPixels == {<<0, 0, 0>>, <<0, 1, 1>>, <<1, 1, 1>>}

\* All small pictures; of the others the checkered ones.
MCPictures(s) ==
  LET rows == 0 .. s[2] - 1
      cols == 0 .. s[1] - 1
  IN  IF s[1] * s[2] <= 4 THEN [rows -> [cols -> MCPixels]]
      ELSE {[r \in rows |-> [c \in cols |-> IF (r + c) % 2 = 0 THEN p ELSE q]] : p, q \in MCPixels}

MCFaultSets ==
  {{}, {"source"}, {"decode"}, {"target"}, {"write"}, {"memory"}, {"decode", "target"}, {"decode", "write"}}
=============================================================================
