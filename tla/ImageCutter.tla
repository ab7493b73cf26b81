----------------------------- MODULE ImageCutter -----------------------------
(***************************************************************************)
(* imagecutter.py: show a photo at a quarter of its size, print the        *)
(* rectangles the user drags on it and offer each piece for saving.  The   *)
(* mouse callback waits for a key itself, inside the wait of the main      *)
(* loop, so that one callback can run inside another.                      *)
(*                                                                         *)
(* One axis stands for two, as in Touristless.  A drag can leave the       *)
(* window on either side.  The second press of a double click may reach    *)
(* the callback as a double click, which it ignores; a key may answer the  *)
(* innermost wait only, or all that are pending: window systems differ.    *)
(* The files in which pieces are saved are left out: nothing reads them.   *)
(***************************************************************************)
EXTENDS Integers, SequencesExt

CONSTANTS
  Width,      \* of the photo in the window
  Points,     \* where the mouse can be
  Turns,      \* 50 in the code: that many turns go on without a key
  MaxBoxes,   \* bound on the mouse events of one run
  NoPoint,    \* the button is up
  Untold      \* it is down, and the callback does not know

ASSUME ImageCutterAssumption ==
  /\ Width \in Nat \ {0} /\ Turns \in Nat \ {0} /\ MaxBoxes \in Nat
  /\ Points \subseteq Int
  /\ NoPoint \notin Int /\ Untold \notin Int /\ NoPoint # Untold

VARIABLES
  at,           \* "off", "load" or "wait", in the main loop
  count,
  boxes,
  callbacks,    \* how many callbacks wait for a key, one inside another
  printed,      \* the rectangles on the terminal
  coordinates,  \* coordinates.txt: one list of rectangles for each photo
  button,       \* where the callback was told that the button went down
  drawn,        \* history: the drags of this run, both ends of which were told
  stray         \* history: has a release come without its press?

session == <<printed, button, drawn, stray>>

cutterVars == <<at, count, boxes, callbacks, coordinates, session>>

CutterInit ==
  /\ at = "off"
  /\ count = 0
  /\ boxes = <<>>
  /\ callbacks = 0
  /\ printed = <<>>
  /\ coordinates = <<>>
  /\ button = NoPoint
  /\ drawn = <<>>
  /\ stray = FALSE

-----------------------------------------------------------------------------

\* Lines 4-5: opening the file for writing empties it; nothing is ever
\* written to it.
Start ==
  /\ at = "off"
  /\ at' = "load"
  /\ coordinates' = <<>>
  /\ UNCHANGED <<count, boxes, callbacks, session>>

\* The process ends, and what it knew is gone.
Exit ==
  /\ at' = "off"
  /\ count' = 0
  /\ boxes' = <<>>
  /\ callbacks' = 0
  /\ printed' = <<>>
  /\ button' = NoPoint
  /\ drawn' = <<>>
  /\ stray' = FALSE
  /\ UNCHANGED coordinates

\* Lines 34-42.
Load ==
  /\ at = "load"
  /\ count' = count + 1
  /\ at' = "wait"
  /\ UNCHANGED <<boxes, callbacks, coordinates, session>>

\* imread finds no photo, and resize throws.
LoadFails == at = "load" /\ Exit

\* Line 43: waitKey(33) comes back without a key.
NoKey ==
  /\ at = "wait"
  /\ callbacks = 0
  /\ count < Turns
  /\ at' = "load"
  /\ UNCHANGED <<count, boxes, callbacks, coordinates, session>>

\* Lines 23 and 24: the last two boxes.
LastTwo(b) == <<b[Len(b) - 1], b[Len(b)]>>

\* How Python reads one end of a slice: from the end if it is negative, and
\* never past either end.
SliceEnd(x) ==
  LET y == IF x < 0 THEN x + Width ELSE x
  IN CASE y < 0 -> 0 [] y > Width -> Width [] OTHER -> y

Slice(r) == SliceEnd(r[1]) .. SliceEnd(r[2]) - 1

\* Lines 11-14.
Press(x) ==
  /\ at = "wait"
  /\ button = NoPoint
  /\ Len(boxes) < MaxBoxes
  /\ boxes' = Append(boxes, x)
  /\ button' = x
  /\ UNCHANGED <<at, count, callbacks, coordinates, printed, drawn, stray>>

\* The callback ignores a double click.
DoubleClick ==
  /\ at = "wait"
  /\ button = NoPoint
  /\ Len(boxes) < MaxBoxes
  /\ button' = Untold
  /\ UNCHANGED <<at, count, boxes, callbacks, coordinates, printed, drawn, stray>>

Release_FirstTwo(x) ==
  LET b == Append(boxes, x) IN
  /\ at = "wait"
  /\ button # NoPoint
  /\ boxes' = b
  /\ printed' = IF Len(b) >= 2 THEN Append(printed, <<b[1], b[2]>>) ELSE printed
  /\ callbacks' =
       IF Len(b) >= 2 /\ Slice(LastTwo(b)) # {} THEN callbacks + 1 ELSE callbacks
  /\ drawn' = IF button = Untold THEN drawn ELSE Append(drawn, <<button, x>>)
  /\ stray' = (stray \/ button = Untold)
  /\ button' = NoPoint
  /\ UNCHANGED <<at, count, coordinates>>

\* Lines 18-27.  With one box there is no boxes[-2], and an empty piece cannot
\* be shown: the exception ends the callback, and the loop goes on.
Release(x) ==
  LET b == Append(boxes, x) IN
  /\ at = "wait"
  /\ button # NoPoint
  /\ boxes' = b
  /\ printed' = IF Len(b) >= 2 THEN Append(printed, LastTwo(b)) ELSE printed
  /\ callbacks' =
       IF Len(b) >= 2 /\ Slice(LastTwo(b)) # {} THEN callbacks + 1 ELSE callbacks
  /\ drawn' = IF button = Untold THEN drawn ELSE Append(drawn, <<button, x>>)
  /\ stray' = (stray \/ button = Untold)
  /\ button' = NoPoint
  /\ UNCHANGED <<at, count, coordinates>>

\* Lines 28-30: the innermost callback gets a key, whichever, and returns; the
\* others wait on.
InnerKey ==
  /\ callbacks > 0
  /\ callbacks' = callbacks - 1
  /\ UNCHANGED <<at, count, boxes, coordinates, session>>

\* All pending callbacks get the key, and the main loop after them: lines
\* 42-50.
KeyForAll ==
  /\ at = "wait"
  /\ callbacks' = 0
  /\ count' = IF count >= Turns THEN 0 ELSE count
  /\ at' = "load"
  /\ UNCHANGED <<boxes, coordinates, session>>

\* Escape ends the program if it gets as far as the main loop.
Escape == at = "wait" /\ Exit

\* Whatever a running cutter does.
CutterStep ==
  \/ Load \/ LoadFails \/ NoKey
  \/ \E x \in Points : Press(x) \/ Release(x)
  \/ DoubleClick
  \/ InnerKey \/ KeyForAll \/ Escape

-----------------------------------------------------------------------------

\* Line 23: every drag of which both ends were told is printed with its own
\* corners, also after a release without a press has mixed up two others; and
\* without such a release nothing else is printed.
DragsArePrinted ==
  /\ \A i \in DOMAIN drawn : \E j \in DOMAIN printed : printed[j] = drawn[i]
  /\ ~ stray => printed = drawn
=============================================================================
