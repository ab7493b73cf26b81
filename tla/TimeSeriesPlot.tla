--------------------------- MODULE TimeSeriesPlot ---------------------------
(***************************************************************************)
(* protovis::TimeSeriesPlot: a strip chart drawn on a canvas it shares by  *)
(* reference.  Every push erases the cursor of the push before, wraps to   *)
(* the left edge when the canvas is full, blanks a band ahead of the new   *)
(* column, joins the new point to the last one, keeps a copy of the new    *)
(* column and draws the cursor over it.                                    *)
(*                                                                         *)
(* A column of the canvas is the set of the frames whose line has left ink *)
(* in it, or Cursor when the cursor hides it.  A value is given by the     *)
(* height in rows it is scaled to; a point of height 0 lies one row below  *)
(* the canvas, and cv::line draws only what is on it.                      *)
(***************************************************************************)
EXTENDS Integers

CONSTANTS
  Cols,         \* canvas.cols
  Rows,         \* canvas.rows
  ClearWidth,   \* the width of the blank band, 8 in the code
  Heights,      \* the heights the pushed values scale to; above Rows is off the scale
  MaxFrame,     \* bound on frame numbers
  MaxGap,       \* by how much a frame number may exceed the one before
  MaxBack       \* by how much it may fall behind

Columns == 0 .. Cols - 1

Frames == 0 .. MaxFrame

ASSUME PlotAssumption ==
  /\ Cols \in Nat \ {0} /\ Rows \in Nat \ {0}
  /\ ClearWidth \in Nat /\ Heights \subseteq Nat
  /\ MaxFrame \in Nat /\ MaxGap \in Nat /\ MaxBack \in Nat

\* Two columns no frame can draw: the cursor, and an empty cv::Mat.
Cursor == {-1}
NoImage == {-2}

VARIABLES
  canvas,            \* what each column shows
  saved,             \* last_pre_cursor_image
  last_frame_no,
  last_y,
  origin_frame_no,   \* the frame at column 0
  outcome,           \* history: how the last push ended
  start,             \* history: the first frame pushed in this sweep
  segment,           \* history: the last line drawn by a push that succeeded
  widest,            \* history: the widest step between frame numbers so far
  visible            \* history: has every point so far been on the canvas?

vars ==
  <<canvas, saved, last_frame_no, last_y, origin_frame_no, outcome, start, segment, widest, visible>>

Ys == {Rows - h : h \in Heights}

Points == Frames \X Ys

TypeOK ==
  /\ canvas \in [Columns -> (SUBSET Frames) \cup {Cursor}]
  /\ saved \in (SUBSET Frames) \cup {NoImage}
  /\ last_frame_no \in Frames \cup {-1}
  /\ last_y \in Ys \cup {-1}
  /\ origin_frame_no \in Frames \cup {-1}
  /\ outcome \in {"none", "ok", "threw"}
  /\ start \in Frames \cup {-1}
  /\ segment \in (Points \X Points) \cup {<<>>}
  /\ widest \in Nat
  /\ visible \in BOOLEAN

Init ==
  /\ canvas = [c \in Columns |-> {}]
  /\ saved = NoImage
  /\ last_frame_no = -1
  /\ last_y = -1
  /\ origin_frame_no = -1
  /\ outcome = "none"
  /\ start = -1
  /\ segment = <<>>
  /\ widest = 0
  /\ visible = TRUE

-----------------------------------------------------------------------------

\* Line 10: rows count downwards.
YOf(h) == Rows - h

\* Lines 11-14: the sentinels of the first push.
LastY(y) == IF last_y < 0 THEN y ELSE last_y
LastFrame(f) == IF last_frame_no < 0 THEN f ELSE last_frame_no

\* A step back counts as a step of a whole canvas: neither is regular.
Step(f) == IF f < LastFrame(f) THEN Cols ELSE f - LastFrame(f)
Widened(f) == IF Step(f) > widest THEN Step(f) ELSE widest

Wraps_Late(f) == f - origin_frame_no > Cols

\* Lines 22-23: the sweep starts again at the left edge.
Wraps(f) == f - origin_frame_no >= Cols

Origin(f) == IF Wraps(f) THEN LastFrame(f) ELSE origin_frame_no
Column(f) == f - Origin(f)

Restored_AfterWrap(f) ==
  IF saved = NoImage
    THEN canvas
    ELSE [canvas EXCEPT ![LastFrame(f) - Origin(f)] = saved]

\* Lines 16-20: the cursor is taken off its column, in the old sweep.
Restored(f) ==
  IF saved = NoImage
    THEN canvas
    ELSE [canvas EXCEPT ![LastFrame(f) - origin_frame_no] = saved]

Band_OneShort(f) == Column(f) .. Column(f) + ClearWidth - 1

\* The columns cv::rectangle fills; both corners count.
Band(f) == Column(f) .. Column(f) + ClearWidth

\* The columns cv::line crosses, from the last point to the new one.
Crossed(f) ==
  LET a == LastFrame(f) - Origin(f)
  IN {c \in Columns : (a <= c /\ c <= Column(f)) \/ (Column(f) <= c /\ c <= a)}

OnCanvas(y) == 0 <= y /\ y < Rows

\* Where the line leaves ink: everywhere if both its ends are on the canvas,
\* nowhere if both are above or both below it, and otherwise in any run of
\* columns that holds those of its ends that are on the canvas.
Inked(f, y) ==
  LET a == LastFrame(f) - Origin(f)
  IN {run \in SUBSET Crossed(f) :
        /\ \A c, d \in run : c .. d \subseteq run
        /\ OnCanvas(LastY(y)) /\ OnCanvas(y) => run = Crossed(f)
        /\ OnCanvas(LastY(y)) /\ a \in Columns => a \in run
        /\ OnCanvas(y) /\ Column(f) \in Columns => Column(f) \in run
        /\ (LastY(y) < 0 /\ y < 0) \/ (LastY(y) >= Rows /\ y >= Rows) => run = {}}

\* A line leaves its ink, except where a cursor was left standing.
Ink(cell, f) == IF cell = Cursor THEN Cursor ELSE cell \cup {f}

\* Lines 16-34: the canvas before the new cursor, with ink in a run of columns.
Drawn(f, run) ==
  LET blank == [c \in Columns |-> IF c \in Band(f) THEN {} ELSE Restored(f)[c]]
  IN [c \in Columns |-> IF c \in run THEN Ink(blank[c], f) ELSE blank[c]]

\* Line 36: the region of the new column lies inside the canvas.
RegionFits(f) == Column(f) \in Columns

Push_SavesEarly(f, h, run) ==
  /\ RegionFits(f)
  /\ saved' = Restored(f)[Column(f)]
  /\ canvas' = [Drawn(f, run) EXCEPT ![Column(f)] = Cursor]
  /\ origin_frame_no' = Origin(f)
  /\ last_y' = YOf(h)
  /\ last_frame_no' = f
  /\ outcome' = "ok"
  /\ start' = IF last_frame_no < 0 \/ Wraps(f) THEN f ELSE start
  /\ segment' = <<<<LastFrame(f), LastY(YOf(h))>>, <<f, YOf(h)>>>>
  /\ widest' = Widened(f)
  /\ visible' = (visible /\ OnCanvas(YOf(h)))

Push_KeepsY(f, h, run) ==
  /\ RegionFits(f)
  /\ saved' = Drawn(f, run)[Column(f)]
  /\ canvas' = [Drawn(f, run) EXCEPT ![Column(f)] = Cursor]
  /\ origin_frame_no' = Origin(f)
  /\ last_y' = LastY(YOf(h))
  /\ last_frame_no' = f
  /\ outcome' = "ok"
  /\ start' = IF last_frame_no < 0 \/ Wraps(f) THEN f ELSE start
  /\ segment' = <<<<LastFrame(f), LastY(YOf(h))>>, <<f, YOf(h)>>>>
  /\ widest' = Widened(f)
  /\ visible' = (visible /\ OnCanvas(YOf(h)))

\* Lines 10-45 when the new column is on the canvas.
Push(f, h, run) ==
  /\ RegionFits(f)
  /\ saved' = Drawn(f, run)[Column(f)]
  /\ canvas' = [Drawn(f, run) EXCEPT ![Column(f)] = Cursor]
  /\ origin_frame_no' = Origin(f)
  /\ last_y' = YOf(h)
  /\ last_frame_no' = f
  /\ outcome' = "ok"
  /\ start' = IF last_frame_no < 0 \/ Wraps(f) THEN f ELSE start
  /\ segment' = <<<<LastFrame(f), LastY(YOf(h))>>, <<f, YOf(h)>>>>
  /\ widest' = Widened(f)
  /\ visible' = (visible /\ OnCanvas(YOf(h)))

PushThrows_NotesFrame(f, h, run) ==
  /\ ~ RegionFits(f)
  /\ canvas' = Drawn(f, run)
  /\ origin_frame_no' = Origin(f)
  /\ last_y' = LastY(YOf(h))
  /\ last_frame_no' = f
  /\ outcome' = "threw"
  /\ widest' = Widened(f)
  /\ visible' = (visible /\ OnCanvas(YOf(h)))
  /\ UNCHANGED <<saved, start, segment>>

\* Line 36 throws: what the lines before it did stays done.
PushThrows(f, h, run) ==
  /\ ~ RegionFits(f)
  /\ canvas' = Drawn(f, run)
  /\ origin_frame_no' = Origin(f)
  /\ last_y' = LastY(YOf(h))
  /\ last_frame_no' = LastFrame(f)
  /\ outcome' = "threw"
  /\ widest' = Widened(f)
  /\ visible' = (visible /\ OnCanvas(YOf(h)))
  /\ UNCHANGED <<saved, start, segment>>

\* How far frame numbers of successive calls may be apart.
Follows(f) ==
  last_frame_no >= 0 => last_frame_no - MaxBack <= f /\ f <= last_frame_no + MaxGap

Next ==
  \E f \in Frames, h \in Heights :
    /\ Follows(f)
    /\ \E run \in Inked(f, YOf(h)) : Push(f, h, run) \/ PushThrows(f, h, run)

Spec == Init /\ [][Next]_vars

-----------------------------------------------------------------------------

\* So far frame numbers never fell and skipped less than a canvas of frames.
Regular == widest < Cols

\* What a column shows once the cursor is lifted.
Shown(c) == IF canvas[c] = Cursor THEN saved ELSE canvas[c]

\* The region of line 18, where the last cursor stood, always lies inside
\* the canvas: whatever the frame numbers, and after a push that threw.
RestoreInside ==
  saved # NoImage => last_frame_no - origin_frame_no \in Columns

\* A caller whose frame numbers have been regular has not seen push_value throw,
\* at the wrap and on the first push too.
RegularNeverThrows == Regular => outcome # "threw"

\* There is one cursor, at the newest column; a push that threw leaves none.
OneCursor ==
  {c \in Columns : canvas[c] = Cursor} =
    IF outcome = "ok" THEN {last_frame_no - origin_frame_no} ELSE {}

\* The sweep on the canvas has no hole as long as no value was at the bottom of
\* the scale or outside it: every column from its first point to the newest
\* shows a line drawn by a frame of that column or a later one.
NoHoles ==
  Regular /\ visible /\ outcome = "ok" =>
    \A k \in (IF origin_frame_no < 0 THEN start ELSE origin_frame_no) .. last_frame_no :
      \E f \in Shown(k - origin_frame_no) : k <= f /\ f <= last_frame_no

\* A wrap blanks nothing left of the first point of the new sweep, so the ink
\* of the sweep before stays there: in column 0 even if no frame is skipped.
\* Everywhere else, as long as no gap has outrun the blank band, the columns
\* up to the newest are free of the sweep before.
StaleOnlyAtEdge ==
  Regular /\ widest <= ClearWidth + 1 /\ outcome = "ok" =>
    \A c \in 0 .. last_frame_no - origin_frame_no :
      \A f \in Shown(c) : f < origin_frame_no => c < start - origin_frame_no

\* While the values stay on the scale every line starts where the last one
\* ended, across wraps and across pushes that threw: the sentinel of last_y
\* is not taken for a value, nor a value for the sentinel.
LinesJoin ==
  [][(\A h \in Heights : h <= Rows) /\ segment # <<>> /\ segment' # segment
       => segment'[1] = segment[2]]_vars
=============================================================================
