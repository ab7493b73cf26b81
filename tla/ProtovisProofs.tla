------------------------ MODULE ProtovisProofs ------------------------
(***************************************************************************)
(* Theorems about protovis: TimeSeriesPlot, for every canvas, every band   *)
(* width and every sequence of frame numbers and values; and, from         *)
(* SurfaceInv on, SurfacePlot, for photos of every size and every distance *)
(* of the curves.                                                          *)
(***************************************************************************)
EXTENDS TimeSeriesPlot, SurfacePlot, NumberFacts, TLAPS

USE PlotAssumption

\* What the sentinels of the constructor mean: nothing is saved until the
\* first push, and the first push has seen nothing.
Sentinels ==
  /\ saved = NoImage <=> last_frame_no = -1
  /\ last_frame_no = -1 <=> outcome = "none"
  /\ last_frame_no = -1 => origin_frame_no = -1 /\ segment = <<>> /\ last_y = -1
  /\ segment = <<>> => last_frame_no = -1

\* On the scale, the end of the last line is where last_y says it is.
PenAtLastPoint ==
  (\A h \in Heights : h <= Rows) /\ segment # <<>> =>
    last_y >= 0 /\ segment[2] = <<last_frame_no, last_y>>

\* As long as every point was on the canvas, so is the one last_y remembers.
PenVisible == visible /\ last_frame_no # -1 => OnCanvas(last_y)

IInv ==
  TypeOK /\ PenVisible /\ RestoreInside /\ OneCursor /\ RegularNeverThrows /\ Sentinels /\ PenAtLastPoint

-----------------------------------------------------------------------------

\* The sentinels turn every frame number into one on record.
LEMMA FrameTypes ==
  ASSUME TypeOK, NEW f \in Frames
  PROVE  /\ LastFrame(f) \in Frames
         /\ Origin(f) \in Frames \cup {-1}
         /\ Column(f) \in Int
BY DEF TypeOK, LastFrame, Origin, Column, Frames

LEMMA YTypes ==
  ASSUME TypeOK, NEW h \in Heights
  PROVE  YOf(h) \in Ys /\ LastY(YOf(h)) \in Ys /\ Ys \subseteq Int
<1>1. Ys \subseteq Int
  BY DEF Ys
<1>2. YOf(h) \in Ys
  BY DEF YOf, Ys
<1>. QED  BY <1>1, <1>2 DEF TypeOK, LastY

\* Once the cursor is lifted the canvas shows ink only, and drawing the band
\* and the line keeps it so.
LEMMA DrawnIsInk ==
  ASSUME IInv, NEW f \in Frames, NEW run
  PROVE  Drawn(f, run) \in [Columns -> SUBSET Frames]
<1>1. Restored(f) \in [Columns -> SUBSET Frames]
  <2>1. CASE saved = NoImage
    <3>1. {c \in Columns : canvas[c] = Cursor} = {}
      BY <2>1 DEF IInv, Sentinels, OneCursor
    <3>. QED  BY <2>1, <3>1 DEF IInv, TypeOK, Restored
  <2>2. CASE saved # NoImage
    <3>1. last_frame_no \in Frames /\ LastFrame(f) = last_frame_no
      BY <2>2 DEF IInv, TypeOK, Sentinels, LastFrame, Frames
    <3>2. last_frame_no - origin_frame_no \in Columns
      BY <2>2 DEF IInv, RestoreInside
    <3>3. \A c \in Columns : c # last_frame_no - origin_frame_no => canvas[c] \in SUBSET Frames
      BY DEF IInv, TypeOK, OneCursor
    <3>4. saved \in SUBSET Frames
      BY <2>2 DEF IInv, TypeOK
    <3>. QED  BY <2>2, <3>1, <3>2, <3>3, <3>4 DEF IInv, TypeOK, Restored
  <2>. QED  BY <2>1, <2>2
<1>2. Cursor \notin SUBSET Frames
  BY DEF Cursor, Frames
<1>. QED  BY <1>1, <1>2 DEF Drawn, Ink

\* A line leaves ink only where it crosses, and all along if its ends are on
\* the canvas: as they are as long as every point is.
LEMMA InkIsCrossed ==
  ASSUME IInv, NEW f \in Frames, NEW h \in Heights, NEW run \in Inked(f, YOf(h))
  PROVE  /\ run \in SUBSET Crossed(f)
         /\ visible /\ OnCanvas(YOf(h)) => run = Crossed(f)
<1>1. run \in SUBSET Crossed(f) /\ (OnCanvas(LastY(YOf(h))) /\ OnCanvas(YOf(h)) => run = Crossed(f))
  BY DEF Inked
<1>2. ASSUME visible, OnCanvas(YOf(h)) PROVE OnCanvas(LastY(YOf(h)))
  <2>1. CASE last_frame_no = -1
    <3>1. last_y = -1
      BY <2>1 DEF IInv, Sentinels
    <3>. QED  BY <1>2, <3>1 DEF LastY
  <2>2. CASE last_frame_no # -1
    BY <1>2, <2>2 DEF IInv, PenVisible, LastY, OnCanvas
  <2>. QED  BY <2>1, <2>2
<1>. QED  BY <1>1, <1>2

\* A push on a canvas that has seen none always finds its column: column 0
\* or the one after its frame number.
LEMMA FirstPushFits ==
  ASSUME IInv, NEW f \in Frames, last_frame_no = -1
  PROVE  RegionFits(f)
BY DEF IInv, Sentinels, RegionFits, Column, Origin, LastFrame, Wraps, Frames, Columns

\* The widest step never shrinks, and is at least the step just made.
LEMMA WidenedFacts ==
  ASSUME TypeOK, NEW f \in Frames
  PROVE  /\ Widened(f) \in Nat
         /\ widest <= Widened(f) /\ Step(f) <= Widened(f)
<1>1. LastFrame(f) \in Nat /\ f \in Nat
  BY FrameTypes DEF Frames
<1>2. Step(f) \in Nat
  BY <1>1 DEF Step
<1>. QED  BY <1>2 DEF TypeOK, Widened

\* A frame number that leaves them regular always finds its column.
LEMMA RegularFits ==
  ASSUME IInv, NEW f \in Frames, Widened(f) < Cols
  PROVE  RegionFits(f)
<1>1. CASE last_frame_no = -1
  BY <1>1, FirstPushFits
<1>2. CASE last_frame_no # -1
  <2>1. last_frame_no \in Nat /\ origin_frame_no \in Int /\ f \in Nat
        /\ last_frame_no - origin_frame_no \in Columns
    BY <1>2 DEF IInv, TypeOK, Sentinels, RestoreInside, Frames
  <2>2. Step(f) \in Int /\ Step(f) < Cols
    BY <2>1, WidenedFacts DEF IInv, TypeOK, Step, LastFrame
  <2>3. last_frame_no <= f /\ f < last_frame_no + Cols
    BY <2>1, <2>2 DEF Step, LastFrame
  <2>. QED  BY <2>1, <2>3 DEF RegionFits, Column, Origin, LastFrame, Wraps, Columns
<1>. QED  BY <1>1, <1>2

-----------------------------------------------------------------------------

LEMMA InitInv == Init => IInv
<1>. SUFFICES ASSUME Init PROVE IInv
  OBVIOUS
<1>1. TypeOK
  BY DEF Init, TypeOK, NoImage
<1>2. PenVisible /\ RestoreInside /\ RegularNeverThrows /\ Sentinels /\ PenAtLastPoint
  BY DEF Init, PenVisible, RestoreInside, RegularNeverThrows, Sentinels, PenAtLastPoint
<1>3. OneCursor
  BY DEF Init, OneCursor, Cursor
<1>. QED  BY <1>1, <1>2, <1>3 DEF IInv

LEMMA PushInv ==
  ASSUME IInv, NEW f \in Frames, NEW h \in Heights, NEW run \in Inked(f, YOf(h)),
         Push(f, h, run)
  PROVE  IInv'
<1>1. Drawn(f, run) \in [Columns -> SUBSET Frames] /\ Column(f) \in Columns
  BY DrawnIsInk DEF Push, RegionFits
<1>2. TypeOK'
  <2>1. canvas' \in [Columns -> (SUBSET Frames) \cup {Cursor}] /\ saved' \in (SUBSET Frames) \cup {NoImage}
    BY <1>1 DEF Push
  <2>2. last_y' \in Ys \cup {-1} /\ segment' \in Points \X Points
    BY FrameTypes, YTypes DEF IInv, Push, Points
  <2>3. last_frame_no' \in Frames /\ origin_frame_no' \in Frames \cup {-1}
    BY FrameTypes DEF IInv, Push
  <2>4. start' \in Frames \cup {-1} /\ outcome' \in {"none", "ok", "threw"}
    BY DEF IInv, TypeOK, Push
  <2>5. widest' \in Nat /\ visible' \in BOOLEAN
    BY WidenedFacts DEF IInv, TypeOK, Push
  <2>. QED  BY <2>1, <2>2, <2>3, <2>4, <2>5 DEF TypeOK
<1>3. RestoreInside'
  BY DEF RestoreInside, Push, RegionFits, Column
<1>4. OneCursor'
  <2>1. \A c \in Columns : canvas'[c] = Cursor <=> c = Column(f)
    BY <1>1 DEF Push, Cursor, Frames
  <2>. QED  BY <1>1, <2>1 DEF OneCursor, Push, Column
<1>5. RegularNeverThrows'
  BY DEF RegularNeverThrows, Push
<1>6. Sentinels'
  <2>1. saved' # NoImage
    BY <1>1 DEF Push, NoImage, Frames
  <2>. QED  BY <2>1 DEF Sentinels, Push, Frames
<1>7. PenAtLastPoint'
  BY DEF PenAtLastPoint, Push, YOf
<1>8. PenVisible'
  BY DEF PenVisible, Push, OnCanvas
<1>. QED  BY <1>2, <1>3, <1>4, <1>5, <1>6, <1>7, <1>8 DEF IInv

LEMMA PushThrowsInv ==
  ASSUME IInv, NEW f \in Frames, NEW h \in Heights, NEW run \in Inked(f, YOf(h)),
         PushThrows(f, h, run)
  PROVE  IInv'
<1>1. Drawn(f, run) \in [Columns -> SUBSET Frames]
  BY DrawnIsInk
<1>2. last_frame_no \in Frames /\ saved # NoImage /\ segment # <<>>
      /\ last_frame_no' = last_frame_no
  BY FirstPushFits DEF IInv, TypeOK, Sentinels, PushThrows, LastFrame, Frames
<1>3. TypeOK'
  <2>1. canvas' \in [Columns -> (SUBSET Frames) \cup {Cursor}]
    BY <1>1 DEF PushThrows
  <2>2. last_y' \in Ys \cup {-1}
    BY YTypes DEF IInv, PushThrows
  <2>3. origin_frame_no' \in Frames \cup {-1}
    BY FrameTypes DEF IInv, PushThrows
  <2>4. widest' \in Nat /\ visible' \in BOOLEAN
    BY WidenedFacts DEF IInv, TypeOK, PushThrows
  <2>. QED  BY <1>2, <2>1, <2>2, <2>3, <2>4 DEF IInv, TypeOK, PushThrows
<1>4. RestoreInside'
  <2>1. last_frame_no - origin_frame_no \in Columns
    BY <1>2 DEF IInv, RestoreInside
  <2>2. origin_frame_no' = origin_frame_no \/ origin_frame_no' = last_frame_no
    BY <1>2 DEF PushThrows, Origin, LastFrame, Frames
  <2>3. last_frame_no' - origin_frame_no' \in Columns
    BY <1>2, <2>1, <2>2 DEF Columns, Frames
  <2>. QED  BY <2>3 DEF RestoreInside
<1>5. OneCursor'
  BY <1>1 DEF OneCursor, PushThrows, Cursor, Frames
<1>6. RegularNeverThrows'
  BY RegularFits DEF RegularNeverThrows, PushThrows, Regular
<1>7. Sentinels'
  BY <1>2 DEF IInv, Sentinels, PushThrows, Frames
<1>8. PenAtLastPoint'
  <2>1. last_y \in Int
    BY YTypes DEF IInv, TypeOK
  <2>2. last_y >= 0 => last_y' = last_y
    BY <2>1 DEF PushThrows, LastY
  <2>3. segment' = segment
    BY DEF PushThrows
  <2>. QED  BY <1>2, <2>2, <2>3 DEF IInv, PenAtLastPoint
<1>9. PenVisible'
  <2>1. visible' => visible
    BY DEF PushThrows
  <2>2. OnCanvas(last_y) => last_y' = last_y
    <3>1. last_y \in Int
      BY YTypes DEF IInv, TypeOK
    <3>. QED  BY <3>1 DEF PushThrows, LastY, OnCanvas
  <2>3. visible => OnCanvas(last_y)
    BY <1>2 DEF IInv, PenVisible, Frames
  <2>. QED  BY <2>1, <2>2, <2>3 DEF PenVisible, OnCanvas
<1>. QED  BY <1>3, <1>4, <1>5, <1>6, <1>7, <1>8, <1>9 DEF IInv

LEMMA NextInv == IInv /\ [Next]_vars => IInv'
<1>. SUFFICES ASSUME IInv, [Next]_vars PROVE IInv'
  OBVIOUS
<1>1. CASE Next
  BY <1>1, PushInv, PushThrowsInv DEF Next
<1>2. CASE UNCHANGED vars
  BY <1>2 DEF vars, IInv, TypeOK, PenVisible, OnCanvas, RestoreInside, OneCursor, RegularNeverThrows, Regular, Sentinels, PenAtLastPoint
<1>. QED  BY <1>1, <1>2

LEMMA Invariance == Spec => []IInv
BY InitInv, NextInv, PTL DEF Spec

-----------------------------------------------------------------------------
(* What a regular caller sees: the sweep has no hole, and the sweep before *)
(* shows only left of its first point.                                     *)

\* Where the sweep began.
SweepStart == IF origin_frame_no < 0 THEN start ELSE origin_frame_no

\* The sweep has begun, and the band ahead of its newest column is blank.
BlankAhead ==
  Regular /\ outcome = "ok" =>
    /\ origin_frame_no <= start /\ 0 <= start /\ start <= last_frame_no
    /\ \A c \in Columns :
         last_frame_no - origin_frame_no < c /\ c <= last_frame_no - origin_frame_no + ClearWidth
           => canvas[c] = {}

SInv == IInv /\ BlankAhead /\ NoHoles /\ StaleOnlyAtEdge

\* The canvas without its cursor shows what the user saw.
LEMMA ShownIsRestored ==
  ASSUME IInv, NEW f \in Frames, outcome = "ok"
  PROVE  \A c \in Columns : Restored(f)[c] = Shown(c)
<1>1. last_frame_no # -1 /\ saved # NoImage
  BY DEF IInv, Sentinels
<1>2. LastFrame(f) = last_frame_no
  BY <1>1 DEF IInv, TypeOK, LastFrame, Frames
<1>3. \A c \in Columns : canvas[c] = Cursor <=> c = last_frame_no - origin_frame_no
  BY DEF IInv, OneCursor
<1>. QED  BY <1>1, <1>2, <1>3 DEF IInv, TypeOK, Restored, Shown

\* After a push the user sees what was drawn: the cursor hides a copy.
LEMMA ShownAfterPush ==
  ASSUME IInv, NEW f \in Frames, NEW h \in Heights, NEW run \in Inked(f, YOf(h)),
         Push(f, h, run)
  PROVE  \A c \in Columns : Shown(c)' = Drawn(f, run)[c]
<1>1. Drawn(f, run) \in [Columns -> SUBSET Frames] /\ Column(f) \in Columns
  BY DrawnIsInk DEF Push, RegionFits
<1>2. \A c \in Columns : canvas'[c] = IF c = Column(f) THEN Cursor ELSE Drawn(f, run)[c]
  BY <1>1 DEF Push
<1>3. \A c \in Columns : Drawn(f, run)[c] # Cursor
  BY <1>1 DEF Cursor, Frames
<1>. QED  BY <1>1, <1>2, <1>3 DEF Push, Shown

\* What a column gains and what it keeps.
LEMMA DrawnCell ==
  ASSUME IInv, NEW f \in Frames, NEW run \in SUBSET Crossed(f), NEW c \in Columns
  PROVE  /\ c \in run => f \in Drawn(f, run)[c]
         /\ c \notin Band(f) => Restored(f)[c] \subseteq Drawn(f, run)[c]
         /\ \A g \in Drawn(f, run)[c] : g = f \/ (c \notin Band(f) /\ g \in Restored(f)[c])
         /\ c \notin run /\ c \in Band(f) => Drawn(f, run)[c] = {}
<1>1. DEFINE blank == IF c \in Band(f) THEN {} ELSE Restored(f)[c]
<1>2. Drawn(f, run)[c] = IF c \in run THEN Ink(blank, f) ELSE blank
  BY DEF Drawn
<1>3. Drawn(f, run)[c] \in SUBSET Frames
  BY DrawnIsInk
<1>4. c \in run => Ink(blank, f) = blank \cup {f}
  BY <1>2, <1>3 DEF Ink, Cursor, Frames
<1>. QED  BY <1>2, <1>4

\* A push that leaves the frame numbers regular, on a canvas that has seen
\* another, moves to the right by less than a canvas.
LEMMA RegularStep ==
  ASSUME IInv, NEW f \in Frames, Widened(f) < Cols, last_frame_no # -1
  PROVE  /\ Regular /\ outcome = "ok" /\ LastFrame(f) = last_frame_no
         /\ last_frame_no \in Nat /\ origin_frame_no \in Int /\ f \in Nat
         /\ last_frame_no <= f /\ f < last_frame_no + Cols
         /\ f - last_frame_no <= Widened(f)
         /\ last_frame_no - origin_frame_no \in Columns
<1>1. /\ last_frame_no \in Nat /\ origin_frame_no \in Int /\ f \in Nat
      /\ last_frame_no - origin_frame_no \in Columns
  BY DEF IInv, TypeOK, Sentinels, RestoreInside, Frames
<1>2. LastFrame(f) = last_frame_no
  BY <1>1 DEF LastFrame
<1>3. Step(f) <= Widened(f) /\ widest <= Widened(f) /\ Widened(f) \in Nat /\ widest \in Nat
  BY WidenedFacts DEF IInv, TypeOK
<1>4. last_frame_no <= f /\ Step(f) = f - last_frame_no
  BY <1>1, <1>2, <1>3 DEF Step
<1>5. Regular
  BY <1>3 DEF Regular
<1>6. outcome = "ok"
  BY <1>5 DEF IInv, RegularNeverThrows, Sentinels, TypeOK
<1>. QED  BY <1>1, <1>2, <1>3, <1>4, <1>5, <1>6

LEMMA SweepFirstPush ==
  ASSUME SInv, NEW f \in Frames, NEW h \in Heights, NEW run \in Inked(f, YOf(h)),
         Push(f, h, run), last_frame_no = -1
  PROVE  BlankAhead' /\ NoHoles' /\ StaleOnlyAtEdge'
<1>1. /\ LastFrame(f) = f /\ f \in Nat /\ origin_frame_no = -1
      /\ last_frame_no' = f /\ start' = f /\ origin_frame_no' = Origin(f)
      /\ Column(f) = f - Origin(f) /\ Column(f) \in Columns /\ Origin(f) \in {-1, f}
  BY DEF SInv, IInv, Sentinels, Push, RegionFits, LastFrame, Column, Origin, Frames
<1>2. \A c \in Columns : Shown(c)' = Drawn(f, run)[c]
  BY ShownAfterPush DEF SInv
<1>3. Crossed(f) = {Column(f)} /\ Column(f) \in Band(f)
  BY <1>1 DEF Crossed, Band, Columns
<1>run. run \in SUBSET Crossed(f)
  BY InkIsCrossed DEF SInv
<1>4. \A g \in Drawn(f, run)[Column(f)] : g = f
  BY <1>1, <1>3, <1>run, DrawnCell DEF SInv
<1>5. NoHoles'
  <2>. SUFFICES ASSUME visible',
                       NEW k \in (IF origin_frame_no' < 0 THEN start' ELSE origin_frame_no') .. last_frame_no'
                PROVE  \E g \in Shown(k - origin_frame_no)' : k <= g /\ g <= last_frame_no'
    BY DEF NoHoles
  <2>1. k = f
    BY <1>1
  <2>2. Column(f) \in run
    <3>1. visible /\ OnCanvas(YOf(h))
      BY DEF Push
    <3>. QED  BY <1>3, <3>1, InkIsCrossed DEF SInv
  <2>3. f \in Drawn(f, run)[Column(f)]
    BY <1>1, <1>run, <2>2, DrawnCell DEF SInv
  <2>4. f \in Shown(k - origin_frame_no)'
    BY <1>1, <1>2, <2>1, <2>3
  <2>. QED  BY <1>1, <2>1, <2>4
<1>6. StaleOnlyAtEdge'
  <2>. SUFFICES ASSUME NEW c \in 0 .. last_frame_no' - origin_frame_no',
                       NEW g \in Shown(c)', g < origin_frame_no', ~ (c < start' - origin_frame_no')
                PROVE  FALSE
    BY DEF StaleOnlyAtEdge
  <2>1. c = Column(f)
    BY <1>1
  <2>. QED  BY <1>1, <1>2, <1>4, <2>1
<1>7. BlankAhead'
  <2>. SUFFICES ASSUME NEW c \in Columns, Column(f) < c, c <= Column(f) + ClearWidth
                PROVE  canvas'[c] = {}
    BY <1>1 DEF BlankAhead
  <2>1. c \in Band(f) /\ c \notin Crossed(f) /\ c # Column(f)
    BY <1>1, <1>3 DEF Band, Columns
  <2>. QED  BY <1>run, <2>1, DrawnCell, DrawnIsInk DEF SInv, Push
<1>. QED  BY <1>5, <1>6, <1>7

\* The band is blank ahead of the new column too.
LEMMA BandAfterPush ==
  ASSUME SInv, NEW f \in Frames, NEW h \in Heights, NEW run \in Inked(f, YOf(h)),
         Push(f, h, run), last_frame_no # -1, Regular'
  PROVE  BlankAhead'
<1>1. /\ Regular /\ outcome = "ok" /\ LastFrame(f) = last_frame_no
      /\ last_frame_no \in Nat /\ origin_frame_no \in Int /\ f \in Nat
      /\ last_frame_no <= f
      /\ last_frame_no' = f /\ origin_frame_no' = Origin(f) /\ widest' = Widened(f)
      /\ Column(f) = f - Origin(f) /\ Column(f) \in Columns
      /\ start' = IF Wraps(f) THEN f ELSE start
      /\ last_frame_no - origin_frame_no \in Columns
  BY RegularStep DEF SInv, Push, RegionFits, Column, Regular
<1>2. Origin(f) = IF Wraps(f) THEN last_frame_no ELSE origin_frame_no
  BY <1>1 DEF Origin
<1>3. origin_frame_no' <= start' /\ 0 <= start' /\ start' <= last_frame_no'
  <2>1. origin_frame_no <= start /\ 0 <= start /\ start <= last_frame_no /\ start \in Int
    BY <1>1 DEF SInv, BlankAhead, IInv, TypeOK, Frames
  <2>. QED  BY <1>1, <1>2, <2>1
<1>4. ASSUME NEW c \in Columns, Column(f) < c, c <= Column(f) + ClearWidth
      PROVE  canvas'[c] = {}
  <2>1. c \in Band(f) /\ c # Column(f)
    BY <1>1, <1>4 DEF Band, Columns
  <2>2. c \notin Crossed(f) /\ run \in SUBSET Crossed(f)
    BY <1>1, <1>2, <1>4, InkIsCrossed DEF Crossed, Columns, SInv
  <2>. QED  BY <2>1, <2>2, DrawnCell, DrawnIsInk DEF SInv, Push
<1>. QED  BY <1>1, <1>3, <1>4 DEF BlankAhead

\* What a regular push does to the numbers and to what is seen.
Moved(f, run) ==
  /\ Regular /\ outcome = "ok"
  /\ last_frame_no \in Nat /\ origin_frame_no \in Int /\ f \in Nat /\ start \in Int
  /\ last_frame_no <= f /\ f - last_frame_no <= widest' /\ widest <= widest'
  /\ widest \in Nat /\ widest' \in Nat
  /\ last_frame_no' = f /\ origin_frame_no' = Origin(f)
  /\ Origin(f) = IF Wraps(f) THEN last_frame_no ELSE origin_frame_no
  /\ start' = IF Wraps(f) THEN f ELSE start
  /\ f - Origin(f) \in Columns /\ last_frame_no - origin_frame_no \in Columns
  /\ Crossed(f) = {c \in Columns : last_frame_no - Origin(f) <= c /\ c <= f - Origin(f)}
  /\ Band(f) = f - Origin(f) .. f - Origin(f) + ClearWidth
  /\ \A c \in Columns : Shown(c)' = Drawn(f, run)[c] /\ Restored(f)[c] = Shown(c)

LEMMA PushMoves ==
  ASSUME SInv, NEW f \in Frames, NEW h \in Heights, NEW run \in Inked(f, YOf(h)),
         Push(f, h, run), last_frame_no # -1, Regular'
  PROVE  Moved(f, run)
<1>1. /\ Regular /\ outcome = "ok" /\ LastFrame(f) = last_frame_no
      /\ last_frame_no \in Nat /\ origin_frame_no \in Int /\ f \in Nat
      /\ last_frame_no <= f /\ f - last_frame_no <= widest'
      /\ last_frame_no' = f /\ origin_frame_no' = Origin(f)
      /\ Column(f) = f - Origin(f) /\ Column(f) \in Columns
      /\ start' = IF Wraps(f) THEN f ELSE start
      /\ last_frame_no - origin_frame_no \in Columns
  BY RegularStep DEF SInv, Push, RegionFits, Column, Regular
<1>2. widest <= widest' /\ widest \in Nat /\ widest' \in Nat
  BY WidenedFacts DEF SInv, IInv, TypeOK, Push
<1>3. Origin(f) = IF Wraps(f) THEN last_frame_no ELSE origin_frame_no
  BY <1>1 DEF Origin
<1>4. Crossed(f) = {c \in Columns : last_frame_no - Origin(f) <= c /\ c <= f - Origin(f)}
  BY <1>1, <1>3 DEF Crossed, Columns
<1>5. Band(f) = f - Origin(f) .. f - Origin(f) + ClearWidth
  BY <1>1 DEF Band
<1>6. \A c \in Columns : Shown(c)' = Drawn(f, run)[c] /\ Restored(f)[c] = Shown(c)
  BY <1>1, ShownIsRestored, ShownAfterPush DEF SInv
<1>7. start \in Int
  BY DEF SInv, IInv, TypeOK, Frames
<1>. QED  BY <1>1, <1>2, <1>3, <1>4, <1>5, <1>6, <1>7 DEF Moved

\* The new line covers the columns since the last point, and leaves those
\* before it alone.
LEMMA NoHolesAfterPush ==
  ASSUME SInv, NEW f \in Frames, NEW h \in Heights, NEW run \in Inked(f, YOf(h)),
         Push(f, h, run), last_frame_no # -1, Regular', visible'
  PROVE  NoHoles'
<1>1. Moved(f, run)
  BY PushMoves
<1>run. run = Crossed(f) /\ visible
  BY InkIsCrossed DEF SInv, Push
<1>2. PICK o \in Int : o = Origin(f)
  BY <1>1 DEF Moved
<1>3. o <= f /\ last_frame_no' = f /\ origin_frame_no' = o
  BY <1>1, <1>2 DEF Moved, Columns
<1>11. f \in Int /\ start \in Int /\ start' \in Int /\ last_frame_no \in Int /\ last_frame_no <= f
  BY <1>1 DEF Moved
<1>12. \/ o = last_frame_no /\ start' = f
       \/ o = origin_frame_no /\ start' = start /\ o <= start'
  <2>1. origin_frame_no <= start
    BY <1>1 DEF Moved, SInv, BlankAhead
  <2>. QED  BY <1>1, <1>2, <2>1 DEF Moved
<1>. DEFINE a == IF o < 0 THEN start' ELSE o
<1>4. a \in Int /\ o <= a
  BY <1>2, <1>3, <1>11, <1>12
<1>. SUFFICES ASSUME NEW k \in a .. f
              PROVE  \E g \in Shown(k - o)' : k <= g /\ g <= f
  BY <1>3 DEF NoHoles
<1>5. k \in Int /\ k - o \in Columns /\ k <= f
  BY <1>1, <1>2, <1>4 DEF Moved, Columns
<1>6. Shown(k - o)' = Drawn(f, run)[k - o] /\ Restored(f)[k - o] = Shown(k - o)
  BY <1>1, <1>5 DEF Moved
<1>7. CASE k >= last_frame_no
  <2>1. k - o \in Crossed(f)
    BY <1>1, <1>2, <1>5, <1>7 DEF Moved
  <2>2. f \in Drawn(f, run)[k - o]
    BY <1>5, <1>run, <2>1, DrawnCell DEF SInv
  <2>. QED  BY <1>1, <1>5, <1>6, <2>2 DEF Moved
<1>8. CASE k < last_frame_no
  <2>1. o = origin_frame_no /\ start' = start
    <3>1. o <= k
      BY <1>2, <1>4, <1>5
    <3>. QED  BY <1>2, <1>5, <1>8, <1>11, <1>12, <3>1
  <2>2. PICK g \in Shown(k - o) : k <= g /\ g <= last_frame_no
    BY <1>run, <1>1, <1>5, <1>8, <2>1 DEF Moved, SInv, NoHoles
  <2>3. k - o \notin Band(f)
    <3>1. Band(f) = f - o .. f - o + ClearWidth
      BY <1>1, <1>2 DEF Moved
    <3>2. k - o < f - o /\ f \in Int
      BY <1>2, <1>5, <1>8, <1>11
    <3>. QED  BY <1>2, <1>5, <3>1, <3>2
  <2>4. g \in Drawn(f, run)[k - o]
    BY <1>5, <1>6, <1>run, <2>2, <2>3, DrawnCell DEF SInv
  <2>5. g \in Int
    BY <1>5, <2>4, DrawnIsInk DEF SInv, Frames
  <2>. QED  BY <1>1, <1>6, <2>2, <2>4, <2>5 DEF Moved
<1>. QED  BY <1>1, <1>5, <1>7, <1>8 DEF Moved

\* A column of the sweep was there before, or was blank: in the band of the
\* last push while no step was longer than the band, or in the band of this one.
LEMMA StaleOnlyAtEdgeAfterPush ==
  ASSUME SInv, NEW f \in Frames, NEW h \in Heights, NEW run \in Inked(f, YOf(h)),
         Push(f, h, run), last_frame_no # -1,
         Regular', widest' <= ClearWidth + 1
  PROVE  StaleOnlyAtEdge'
<1>1. Moved(f, run)
  BY PushMoves
<1>2. PICK o \in Int : o = Origin(f)
  BY <1>1 DEF Moved
<1>3. o <= f /\ last_frame_no' = f /\ origin_frame_no' = o
  BY <1>1, <1>2 DEF Moved, Columns
<1>4. start' \in Int /\ o <= start'
  BY <1>1, <1>2 DEF Moved, SInv, BlankAhead
<1>. SUFFICES ASSUME NEW c \in 0 .. f - o, NEW g \in Shown(c)', g < o, ~ (c < start' - o)
              PROVE  FALSE
  BY <1>3 DEF StaleOnlyAtEdge
<1>run. run \in SUBSET Crossed(f)
  BY InkIsCrossed DEF SInv
<1>5. c \in Columns /\ c \in Int
  <2>1. f - o \in Columns /\ f \in Int
    BY <1>1, <1>2 DEF Moved
  <2>2. c \in Int /\ 0 <= c /\ c <= f - o
    BY <1>2, <2>1
  <2>. QED  BY <2>1, <2>2 DEF Columns
<1>6. Shown(c)' = Drawn(f, run)[c] /\ Restored(f)[c] = Shown(c)
  BY <1>1, <1>5 DEF Moved
<1>7. g = f \/ (c \notin Band(f) /\ g \in Shown(c))
  BY <1>5, <1>6, <1>run, DrawnCell DEF SInv
<1>8. ASSUME c \notin Band(f), g \in Shown(c)
      PROVE  g >= o
  <2>1. c < f - o
    BY <1>1, <1>2, <1>5, <1>8 DEF Moved
  <2>2. o = origin_frame_no /\ start' = start
    BY <1>1, <1>2, <1>5, <2>1 DEF Moved
  <2>3. CASE c <= last_frame_no - o
    <3>1. Regular /\ widest <= ClearWidth + 1 /\ outcome = "ok"
      <4>1. widest <= widest' /\ widest \in Nat /\ widest' \in Nat /\ Regular /\ outcome = "ok"
        BY <1>1 DEF Moved
      <4>. QED  BY <4>1
    <3>2. c \in 0 .. last_frame_no - origin_frame_no
      BY <1>1, <1>2, <1>5, <2>2, <2>3 DEF Moved
    <3>3. g < origin_frame_no => c < start - origin_frame_no
      BY <1>8, <3>1, <3>2 DEF SInv, StaleOnlyAtEdge
    <3>. QED  BY <2>2, <3>3
  <2>4. CASE c > last_frame_no - o
    <3>0. /\ f - last_frame_no <= widest' /\ widest' <= ClearWidth + 1
          /\ f \in Int /\ last_frame_no \in Int /\ widest' \in Int
      BY <1>1, <1>2, <1>5 DEF Moved
    <3>1. c <= last_frame_no - o + ClearWidth
      BY <1>1, <1>2, <1>5, <2>1, <3>0
    <3>2. canvas[c] = {}
      BY <1>1, <1>5, <2>2, <2>4, <3>1 DEF Moved, SInv, BlankAhead
    <3>. QED  BY <1>8, <3>2 DEF Shown, Cursor
  <2>. QED  BY <1>1, <1>5, <2>3, <2>4 DEF Moved
<1>9. g \in Int
  BY <1>5, <1>6, DrawnIsInk DEF SInv, Frames
<1>. QED  BY <1>2, <1>3, <1>7, <1>8, <1>9

LEMMA SweepInv == SInv /\ [Next]_vars => SInv'
<1>. SUFFICES ASSUME SInv, [Next]_vars PROVE SInv'
  OBVIOUS
<1>1. IInv'
  BY NextInv DEF SInv
<1>2. ASSUME NEW f \in Frames, NEW h \in Heights, NEW run \in Inked(f, YOf(h)),
             Push(f, h, run)
      PROVE  SInv'
  <2>1. CASE last_frame_no = -1
    BY <1>1, <1>2, <2>1, SweepFirstPush DEF SInv
  <2>2. CASE last_frame_no # -1
    <3>1. Regular' => BlankAhead'
      BY <1>2, <2>2, BandAfterPush
    <3>2. Regular' /\ visible' => NoHoles'
      BY <1>2, <2>2, NoHolesAfterPush
    <3>3. Regular' /\ widest' <= ClearWidth + 1 => StaleOnlyAtEdge'
      BY <1>2, <2>2, StaleOnlyAtEdgeAfterPush
    <3>. QED  BY <1>1, <3>1, <3>2, <3>3 DEF SInv, BlankAhead, NoHoles, StaleOnlyAtEdge
  <2>. QED  BY <2>1, <2>2
<1>3. ASSUME NEW f \in Frames, NEW h \in Heights, NEW run \in Inked(f, YOf(h)),
             PushThrows(f, h, run)
      PROVE  SInv'
  BY <1>1, <1>3 DEF SInv, PushThrows, BlankAhead, NoHoles, StaleOnlyAtEdge
<1>4. CASE UNCHANGED vars
  BY <1>1, <1>4 DEF vars, SInv, BlankAhead, NoHoles, StaleOnlyAtEdge, Regular, Shown
<1>. QED  BY <1>2, <1>3, <1>4 DEF Next

LEMMA SweepInvariance == Spec => []SInv
<1>1. Init => SInv
  BY InitInv DEF SInv, Init, BlankAhead, NoHoles, StaleOnlyAtEdge
<1>. QED  BY <1>1, SweepInv, PTL DEF Spec

-----------------------------------------------------------------------------

\* Every field keeps its type, after pushes that threw too.
THEOREM TypeCorrect == Spec => []TypeOK
BY Invariance, PTL DEF IInv

\* The region of line 18 lies inside the canvas in every reachable state.
THEOREM RestoreIsSafe == Spec => []RestoreInside
BY Invariance, PTL DEF IInv

\* The canvas never carries two cursors, and none after a push that threw.
THEOREM CursorIsUnique == Spec => []OneCursor
BY Invariance, PTL DEF IInv

\* push_value throws no exception at a caller whose frame numbers never fall
\* and skip less than a canvas.
THEOREM RegularCallersAreSafe == Spec => []RegularNeverThrows
BY Invariance, PTL DEF IInv

\* A regular caller whose values are all drawn inside the canvas never sees a
\* hole in the sweep.
THEOREM SweepHasNoHoles == Spec => []NoHoles
BY SweepInvariance, PTL DEF SInv

\* A regular caller whose steps are not longer than the band and one sees the
\* sweep before only left of the first point of the sweep that is being drawn.
THEOREM OnlyTheEdgeIsStale == Spec => []StaleOnlyAtEdge
BY SweepInvariance, PTL DEF SInv

\* On the scale the lines form one polyline.
THEOREM PolylineIsConnected == Spec => LinesJoin
<1> DEFINE A == (\A h \in Heights : h <= Rows) /\ segment # <<>> /\ segment' # segment
                  => segment'[1] = segment[2]
<1>1. IInv /\ [Next]_vars => [A]_vars
  <2>. SUFFICES ASSUME IInv, NEW f \in Frames, NEW h \in Heights, NEW run \in Inked(f, YOf(h)),
                       Push(f, h, run) \/ PushThrows(f, h, run),
                       \A g \in Heights : g <= Rows,
                       segment # <<>>, segment' # segment
                PROVE  segment'[1] = segment[2]
    BY DEF Next
  <2>1. Push(f, h, run)
    BY DEF PushThrows
  <2>2. last_frame_no \in Nat /\ last_y >= 0 /\ segment[2] = <<last_frame_no, last_y>>
    BY DEF IInv, TypeOK, Sentinels, PenAtLastPoint, Frames
  <2>3. LastFrame(f) = last_frame_no
    BY <2>2 DEF LastFrame
  <2>4. LastY(YOf(h)) = last_y
    <3>1. Ys \subseteq Int
      BY YTypes DEF IInv
    <3>. QED  BY <2>2, <3>1 DEF LastY, IInv, TypeOK
  <2>. QED  BY <2>1, <2>2, <2>3, <2>4 DEF Push
<1>. QED  BY <1>1, Invariance, PTL DEF Spec, LinesJoin

-----------------------------------------------------------------------------
(* SurfacePlot.                                                            *)

\* Is p the point of the photo f at column x of row r?
PointIn(f, p, r, x) ==
  LET error == 10 * (p[2] - (r + RowStep)) + f[<<r, x>>]
  IN p[1] = x /\ -5 < error /\ error < 15

JoinsIn(f, line, r, x) == PointIn(f, line[1], r, x - 1) /\ PointIn(f, line[2], r, x)

\* The lines are those of the curves of f above row n.
DrawnTo(f, lines, n) ==
  /\ \A line \in lines : \E r \in CurveRows, x \in 1 .. PhotoCols - 1 : JoinsIn(f, line, r, x)
  /\ \A r \in CurveRows, x \in 1 .. PhotoCols - 1 :
       r < n => \E line \in lines : JoinsIn(f, line, r, x)

Canvases == [origin : Int \X Int, pos : Int \X Int, scale : Int \X Int]

SurfaceTypes ==
  /\ who \in {"sample", "client"}
  /\ pc \in {"start", "plot", "rows", "wait", "exit"}
  /\ src \in Photos \cup {Unreadable}
  /\ who = "client" \/ pc \in {"plot", "rows"} => data \in Photos
  /\ plot_canvas \in Canvases
  /\ y \in Nat /\ erosion_w \in Nat
  /\ flipped \in BOOLEAN

\* What the history says of the axis is so.
AxisInv == IF flipped THEN plot_canvas.scale[2] < 0 ELSE plot_canvas.scale[2] > 0

\* The sample draws on a canvas of its own, row by row.
SampleInv ==
  who = "sample" =>
    /\ pc = "plot" => plot_canvas = NewCanvas /\ canvas_mat = {}
    /\ pc = "rows" =>
         /\ plot_canvas.origin = <<0, y>> /\ plot_canvas.scale = <<1, -1>>
         /\ \E k \in Nat : y = RowStep * k
         /\ DrawnTo(data, canvas_mat, y)

SurfaceInv == SurfaceTypes /\ AxisInv /\ SampleInv /\ WindowsAgree /\ UprightByParity

-----------------------------------------------------------------------------

LEMMA NewCanvasFacts ==
  NewCanvas \in Canvases /\ NewCanvas.origin = <<0, 0>> /\ NewCanvas.scale = <<1, 1>>
BY DEF NewCanvas, Canvases

LEMMA FlipFacts ==
  ASSUME NEW c \in Canvases
  PROVE  /\ FlipYAxis(c, PhotoRows) \in Canvases
         /\ FlipYAxis(c, PhotoRows).scale = <<c.scale[1], - c.scale[2]>>
         /\ c.scale[2] \in Int
<1>1. /\ c.scale[1] \in Int /\ c.scale[2] \in Int /\ c.origin[1] \in Int /\ c.origin[2] \in Int
      /\ - c.scale[2] \in Int
  BY DEF Canvases
<1>2. PhotoRows - c.origin[2] - 1 \in Int
  BY <1>1, SurfacePlotAssumption
<1>. DEFINE s == <<c.scale[1], - c.scale[2]>>
            o == <<c.origin[1], PhotoRows - c.origin[2] - 1>>
<1>3. s \in Int \X Int /\ o \in Int \X Int
  BY <1>1, <1>2
<1>4. FlipYAxis(c, PhotoRows) = [c EXCEPT !.scale = s, !.origin = o]
  BY DEF FlipYAxis
<1>. HIDE DEF s, o
<1>5. [c EXCEPT !.scale = s, !.origin = o] \in Canvases
      /\ [c EXCEPT !.scale = s, !.origin = o].scale = s
  BY <1>3 DEF Canvases
<1>. QED  BY <1>1, <1>4, <1>5 DEF s

LEMMA ShiftFacts ==
  ASSUME NEW c \in Canvases
  PROVE  /\ ShiftOrigin(c, <<0, RowStep>>) \in Canvases
         /\ ShiftOrigin(c, <<0, RowStep>>).scale = c.scale
         /\ ShiftOrigin(c, <<0, RowStep>>).origin[2] \in Int
BY SurfacePlotAssumption DEF ShiftOrigin, Canvases

LEMMA GrayLevels ==
  \A g \in Grays : g \in Nat /\ g \in Int
<1>1. Grays \subseteq 0 .. 255 /\ \A g \in 0 .. 255 : g \in Nat /\ g \in Int
  BY SurfacePlotAssumption
<1>. QED  BY <1>1

\* Erosion finds its minima among the gray levels of the photo.
LEMMA ErodedPhoto ==
  ASSUME NEW f \in Photos, NEW w \in Nat
  PROVE  Eroded(f, w) \in Photos
<1>1. ASSUME NEW p \in Pixels
      PROVE  Min({f[q] : q \in {q \in Pixels : /\ q[1] \in p[1] - w .. p[1] + w
                                               /\ q[2] \in p[2] - w .. p[2] + w}}) \in Grays
  <2>. DEFINE N == {q \in Pixels : q[1] \in p[1] - w .. p[1] + w /\ q[2] \in p[2] - w .. p[2] + w}
              S == {f[q] : q \in N}
  <2>1. p[1] \in Int /\ p[2] \in Int
    BY SurfacePlotAssumption DEF Pixels
  <2>2. p \in N
    BY <2>1
  <2>3. \A q \in N : f[q] \in Grays
    BY DEF Photos
  <2>4. S \subseteq Grays /\ S # {}
    BY <2>2, <2>3
  <2>5. Min(S) \in S
    <3>1. S \in SUBSET Nat
      BY <2>4, GrayLevels
    <3>. HIDE DEF S
    <3>. QED  BY <2>4, <3>1, LeastNumber
  <2>. QED  BY <2>4, <2>5
<1>. QED  BY <1>1 DEF Eroded, Photos

\* Rounding to pixels keeps the order of numbers.
LEMMA TruncatedGrows ==
  ASSUME NEW a \in Int, NEW b \in Int, a <= b
  PROVE  Truncated(a) \in Int /\ Truncated(b) \in Int /\ Truncated(a) <= Truncated(b)
BY DEF Truncated

LEMMA ProductOrder ==
  ASSUME NEW a \in Int, NEW b \in Int, a <= b, NEW s \in Int
  PROVE  /\ s > 0 => a * s <= b * s
         /\ s < 0 => b * s <= a * s
         /\ a * s \in Int /\ b * s \in Int
OBVIOUS

LEMMA PointByHeight ==
  ASSUME NEW f, NEW r \in Nat, NEW x, NEW v \in Int, f[<<r, x>>] = v,
         NEW t \in Int, -5 < 10 * t + v, 10 * t + v < 15
  PROVE  PointIn(f, <<x, t + (r + RowStep)>>, r, x)
<1>. DEFINE p == <<x, t + (r + RowStep)>>
<1>1. p[1] = x /\ p[2] - (r + RowStep) = t
  <2>1. p[2] = t + (r + RowStep)
    OBVIOUS
  <2>. QED  BY <2>1, SurfacePlotAssumption
<1>. HIDE DEF p
<1>2. PointIn(f, p, r, x)
  BY <1>1, Zenon DEF PointIn
<1>. QED  BY <1>2 DEF p

\* On a canvas of the sample, a row lower by one distance, the points are
\* those of the row.
LEMMA PointsAreRight ==
  ASSUME NEW c, c.origin = <<0, y + RowStep>>, c.scale = <<1, -1>>,
         y \in Nat, data \in Photos, y < PhotoRows, NEW x \in 0 .. PhotoCols - 1
  PROVE  PointIn(data, Converted(c, Point(x, y)), y, x)
<1>. DEFINE v == data[<<y, x>>]
<1>1. v \in Int
  <2>1. y \in 0 .. PhotoRows - 1
    BY SurfacePlotAssumption
  <2>. QED  BY <2>1, GrayLevels DEF Photos, Pixels
<1>2. Converted(c, Point(x, y)) = <<Truncated(10 * x * 1 + 5) + 0, Truncated(v * (-1) + 5) + (y + RowStep)>>
  BY DEF Converted, Point
<1>. DEFINE t == Truncated(v * (-1) + 5)
<1>. HIDE DEF v
<1>3. Truncated(10 * x * 1 + 5) + 0 = x
  BY SurfacePlotAssumption DEF Truncated
<1>4. t \in Int /\ -5 < 10 * t + v /\ 10 * t + v < 15
  BY <1>1 DEF Truncated
<1>. HIDE DEF t
<1>5. Converted(c, Point(x, y)) = <<x, t + (y + RowStep)>>
  BY <1>2, <1>3 DEF t
<1>6. data[<<y, x>>] = v
  BY DEF v
<1>7. PointIn(data, <<x, t + (y + RowStep)>>, y, x)
  BY <1>1, <1>4, <1>6, PointByHeight
<1>. QED  BY <1>5, <1>7

\* The first row of a curve that is not above a row with a curve is that row.
LEMMA NextCurve ==
  ASSUME NEW k \in Nat, NEW n, n = RowStep * k, NEW r \in CurveRows
  PROVE  r < n + RowStep => r < n \/ r = n
<1>1. RowStep \in Nat \ {0} /\ n \in Nat /\ r \in Nat /\ r % RowStep = 0
  BY SurfacePlotAssumption DEF CurveRows
<1>2. (RowStep * k) % RowStep = 0
  BY <1>1, MultipleOf
<1>3. n % RowStep = 0
  BY <1>1, <1>2
<1>4. n <= r /\ r < n + RowStep => r = n
  BY <1>1, <1>3, MultiplesApart
<1>. QED  BY <1>1, <1>4

\* The row of a curve is one.
LEMMA CurveRowIsOne ==
  ASSUME NEW k \in Nat, NEW n, n = RowStep * k, n < PhotoRows
  PROVE  n \in CurveRows
<1>1. RowStep \in Nat \ {0} /\ n \in Nat
  BY SurfacePlotAssumption
<1>2. (RowStep * k) % RowStep = 0
  BY <1>1, MultipleOf
<1>. QED  BY <1>1, <1>2, SurfacePlotAssumption DEF CurveRows

LEMMA PlotRowSample ==
  ASSUME SurfaceInv, PlotRow, who = "sample"
  PROVE  SampleInv'
<1>. DEFINE c == ShiftOrigin(plot_canvas, <<0, RowStep>>)
            pen(x) == MoveTo(c, Point(x, y))
            line(x) == Line(pen(x - 1), Point(x, y))
<1>1. /\ pc = "rows" /\ y < PhotoRows /\ y \in Nat /\ data \in Photos
      /\ plot_canvas.origin = <<0, y>> /\ plot_canvas.scale = <<1, -1>>
      /\ DrawnTo(data, canvas_mat, y)
      /\ pc' = pc /\ data' = data /\ y' = y + RowStep /\ who' = who
      /\ plot_canvas' = pen(PhotoCols - 1)
      /\ canvas_mat' = canvas_mat \cup {line(x) : x \in 1 .. PhotoCols - 1}
  BY DEF SurfaceInv, SurfaceTypes, SampleInv, PlotRow
<1>2. PICK k \in Nat : y = RowStep * k
  BY <1>1 DEF SurfaceInv, SampleInv
<1>3. plot_canvas \in Canvases
  BY DEF SurfaceInv, SurfaceTypes
<1>4. c.origin = <<0, y + RowStep>> /\ c.scale = <<1, -1>>
  BY <1>1, <1>3 DEF ShiftOrigin
<1>5. \A x : pen(x).origin = c.origin /\ pen(x).scale = c.scale /\ pen(x).pos = Converted(c, Point(x, y))
  BY <1>3 DEF ShiftOrigin, MoveTo
<1>6. \A x \in 1 .. PhotoCols - 1 :
        line(x)[1] = Converted(c, Point(x - 1, y)) /\ line(x)[2] = Converted(c, Point(x, y))
  BY <1>5 DEF Line, Converted
<1>. HIDE DEF c, pen
<1>7. ASSUME NEW x \in 1 .. PhotoCols - 1
      PROVE  JoinsIn(data, line(x), y, x)
  <2>1. x \in 0 .. PhotoCols - 1 /\ x - 1 \in 0 .. PhotoCols - 1
    BY SurfacePlotAssumption
  <2>2. /\ PointIn(data, Converted(c, Point(x, y)), y, x)
        /\ PointIn(data, Converted(c, Point(x - 1, y)), y, x - 1)
    BY <1>1, <1>4, <2>1, PointsAreRight
  <2>. QED  BY <1>6, <2>2 DEF JoinsIn
<1>. HIDE DEF line
<1>8. y \in CurveRows
  BY <1>1, <1>2, CurveRowIsOne
<1>9. DrawnTo(data, canvas_mat', y + RowStep)
  <2>1. ASSUME NEW ln \in canvas_mat'
        PROVE  \E r \in CurveRows, x \in 1 .. PhotoCols - 1 : JoinsIn(data, ln, r, x)
    BY <1>1, <1>7, <1>8 DEF DrawnTo
  <2>2. ASSUME NEW r \in CurveRows, NEW x \in 1 .. PhotoCols - 1, r < y + RowStep
        PROVE  \E ln \in canvas_mat' : JoinsIn(data, ln, r, x)
    <3>1. CASE r < y
      BY <1>1, <3>1 DEF DrawnTo
    <3>2. CASE r = y
      BY <1>1, <1>7, <3>2
    <3>. QED  BY <1>2, <2>2, <3>1, <3>2, NextCurve
  <2>. QED  BY <2>1, <2>2 DEF DrawnTo
<1>10. \E k2 \in Nat : y' = RowStep * k2
  <2>1. y + RowStep = RowStep * (k + 1) /\ k + 1 \in Nat
    BY <1>2, SurfacePlotAssumption
  <2>. QED  BY <1>1, <2>1
<1>11. plot_canvas'.origin = <<0, y'>> /\ plot_canvas'.scale = <<1, -1>>
  BY <1>1, <1>4, <1>5
<1>. QED  BY <1>1, <1>9, <1>10, <1>11 DEF SampleInv

\* The curve just drawn is upright or upside down as the axis is.
LEMMA PlotRowCurve ==
  ASSUME SurfaceInv, PlotRow
  PROVE  UprightByParity'
<1>. DEFINE c == ShiftOrigin(plot_canvas, <<0, RowStep>>)
            s == plot_canvas.scale[2]
            o == c.origin[2]
            At(x) == Truncated(data[<<y, x>>] * s + 5) + o
<1>1. /\ pc = "rows" /\ y \in 0 .. PhotoRows - 1 /\ data \in Photos
      /\ curve' = [values |-> [x \in 0 .. PhotoCols - 1 |-> data[<<y, x>>]],
                   points |-> [x \in 0 .. PhotoCols - 1 |-> MoveTo(c, Point(x, y)).pos],
                   flipped |-> flipped]
  BY SurfacePlotAssumption DEF SurfaceInv, SurfaceTypes, PlotRow
<1>2. /\ plot_canvas \in Canvases
      /\ flipped \in BOOLEAN /\ (IF flipped THEN s < 0 ELSE s > 0)
  BY DEF SurfaceInv, SurfaceTypes, AxisInv
<1>3. s \in Int /\ o \in Int /\ c.scale = plot_canvas.scale
  BY <1>2, ShiftFacts DEF Canvases
<1>4. ASSUME NEW x \in 0 .. PhotoCols - 1
      PROVE  /\ curve'.values[x] = data[<<y, x>>] /\ data[<<y, x>>] \in Int
             /\ curve'.points[x][2] = At(x)
  <2>1. data[<<y, x>>] \in Int
    BY <1>1, GrayLevels DEF Photos, Pixels
  <2>2. MoveTo(c, Point(x, y)).pos = Converted(c, Point(x, y))
    BY <1>2 DEF MoveTo, ShiftOrigin
  <2>3. Converted(c, Point(x, y))[2] = At(x)
    BY <1>3 DEF Converted, Point
  <2>. QED  BY <1>1, <2>1, <2>2, <2>3
<1>. HIDE DEF c, s, o
<1>5. ASSUME NEW x1 \in 0 .. PhotoCols - 1, NEW x2 \in 0 .. PhotoCols - 1,
             data[<<y, x1>>] <= data[<<y, x2>>]
      PROVE  IF flipped THEN At(x2) <= At(x1) ELSE At(x1) <= At(x2)
  <2>. DEFINE a == data[<<y, x1>>] * s
              b == data[<<y, x2>>] * s
  <2>1. a \in Int /\ b \in Int /\ (s > 0 => a <= b) /\ (s < 0 => b <= a)
    BY <1>3, <1>4, <1>5, ProductOrder
  <2>. HIDE DEF a, b
  <2>2. s > 0 => Truncated(a + 5) <= Truncated(b + 5)
    BY <2>1, TruncatedGrows
  <2>3. s < 0 => Truncated(b + 5) <= Truncated(a + 5)
    BY <2>1, TruncatedGrows
  <2>4. Truncated(a + 5) \in Int /\ Truncated(b + 5) \in Int
    BY <2>1, TruncatedGrows
  <2>5. IF flipped THEN Truncated(b + 5) + o <= Truncated(a + 5) + o
                   ELSE Truncated(a + 5) + o <= Truncated(b + 5) + o
    BY <1>2, <1>3, <2>2, <2>3, <2>4
  <2>. QED  BY <2>5 DEF a, b
<1>. HIDE DEF At
<1>6. DOMAIN curve'.values = 0 .. PhotoCols - 1 /\ curve'.flipped = flipped
  BY <1>1
<1>7. ASSUME NEW x1 \in 0 .. PhotoCols - 1, NEW x2 \in 0 .. PhotoCols - 1,
             curve'.values[x1] <= curve'.values[x2]
      PROVE  IF curve'.flipped THEN curve'.points[x2][2] <= curve'.points[x1][2]
                               ELSE curve'.points[x1][2] <= curve'.points[x2][2]
  <2>1. data[<<y, x1>>] <= data[<<y, x2>>]
    BY <1>4, <1>7
  <2>. QED  BY <1>4, <1>5, <1>6, <2>1
<1>. QED  BY <1>6, <1>7 DEF UprightByParity

LEMMA PlotRowInv ==
  ASSUME SurfaceInv, PlotRow
  PROVE  SurfaceInv'
<1>1. UprightByParity'
  BY PlotRowCurve
<1>2. SampleInv'
  <2>1. who' = who
    BY DEF PlotRow
  <2>. QED  BY <2>1, PlotRowSample DEF SampleInv
<1>3. SurfaceTypes' /\ AxisInv' /\ WindowsAgree'
  <2>. DEFINE c == ShiftOrigin(plot_canvas, <<0, RowStep>>)
              p == Point(PhotoCols - 1, y)
  <2>1. /\ pc = "rows" /\ pc' = pc /\ y \in 0 .. PhotoRows - 1 /\ data \in Photos
        /\ y' = y + RowStep /\ plot_canvas' = MoveTo(c, p)
        /\ UNCHANGED <<who, src, erosion_w, data, flipped>>
    BY SurfacePlotAssumption DEF SurfaceInv, SurfaceTypes, PlotRow
  <2>2. plot_canvas \in Canvases
    BY DEF SurfaceInv, SurfaceTypes
  <2>3. c \in Canvases
        /\ c.scale = plot_canvas.scale
    BY <2>2, ShiftFacts
  <2>4. p \in Int \X Int
    <3>1. data[<<y, PhotoCols - 1>>] \in Int
      <4>1. PhotoCols - 1 \in 0 .. PhotoCols - 1
        BY SurfacePlotAssumption
      <4>. QED  BY <2>1, <4>1, GrayLevels DEF Photos, Pixels
    <3>. QED  BY <3>1, SurfacePlotAssumption DEF Point
  <2>. HIDE DEF c, p
  <2>5. Converted(c, p) \in Int \X Int
    <3>1. /\ p[1] \in Int /\ p[2] \in Int /\ c.scale[1] \in Int /\ c.scale[2] \in Int
          /\ c.origin[1] \in Int /\ c.origin[2] \in Int
      BY <2>3, <2>4 DEF Canvases
    <3>2. \A a, b \in Int : Truncated(a * b + 5) \in Int
      BY DEF Truncated
    <3>. QED  BY <3>1, <3>2 DEF Converted
  <2>6. /\ plot_canvas' \in Canvases
        /\ plot_canvas'.scale = plot_canvas.scale
    BY <2>1, <2>3, <2>5 DEF MoveTo, Canvases
  <2>7. y' \in Nat
    BY <2>1, SurfacePlotAssumption
  <2>. QED
    BY <2>1, <2>6, <2>7 DEF SurfaceInv, SurfaceTypes, AxisInv, WindowsAgree
<1>. QED  BY <1>1, <1>2, <1>3 DEF SurfaceInv

\* What is shown are the curves of the photo that is shown.
LEMMA ShowInv ==
  ASSUME SurfaceInv, Show
  PROVE  SurfaceInv'
<1>1. /\ pc = "rows" /\ pc' = "wait" /\ y >= PhotoRows /\ who = "sample"
      /\ src_window' = data /\ canvas_window' = canvas_mat
      /\ UNCHANGED <<who, src, erosion_w, data, plot_canvas, canvas_mat, y, flipped, curve>>
  BY DEF Show, client
<1>2. DrawnTo(data, canvas_mat, y) /\ y \in Nat /\ data \in Photos
  BY <1>1 DEF SurfaceInv, SurfaceTypes, SampleInv
<1>3. \A r \in CurveRows : r < y
  BY <1>1, <1>2, SurfacePlotAssumption DEF CurveRows
<1>4. \A ln, r, x : Joins(ln, r, x)' <=> JoinsIn(data, ln, r, x)
  BY <1>1 DEF Joins, IsPointOf, JoinsIn, PointIn
<1>5. WindowsAgree'
  <2>1. \A ln \in canvas_mat : \E r \in CurveRows, x \in 1 .. PhotoCols - 1 : Joins(ln, r, x)'
    BY <1>2, <1>4 DEF DrawnTo
  <2>2. \A r \in CurveRows, x \in 1 .. PhotoCols - 1 : \E ln \in canvas_mat : Joins(ln, r, x)'
    BY <1>2, <1>3, <1>4 DEF DrawnTo
  <2>. QED  BY <1>1, <2>1, <2>2 DEF WindowsAgree
<1>6. SurfaceTypes' /\ AxisInv' /\ UprightByParity'
  BY <1>1, <1>2 DEF SurfaceInv, SurfaceTypes, AxisInv, UprightByParity
<1>7. SampleInv'
  BY <1>1 DEF SampleInv
<1>. QED  BY <1>5, <1>6, <1>7 DEF SurfaceInv

LEMMA SurfaceInitInv ==
  SurfaceInit => SurfaceInv
<1>. SUFFICES ASSUME SurfaceInit PROVE SurfaceInv
  OBVIOUS
<1>1. SurfaceTypes
  BY NewCanvasFacts DEF SurfaceInit, SurfaceTypes
<1>2. AxisInv /\ SampleInv /\ WindowsAgree
  BY NewCanvasFacts DEF SurfaceInit, AxisInv, SampleInv, WindowsAgree
<1>3. UprightByParity
  BY DEF SurfaceInit, UprightByParity
<1>. QED  BY <1>1, <1>2, <1>3 DEF SurfaceInv

LEMMA StartPlotInv ==
  ASSUME SurfaceInv, StartPlot
  PROVE  SurfaceInv'
<1>1. /\ pc = "plot" /\ pc' = "rows" /\ y' = 0 /\ flipped' = ~ flipped
      /\ plot_canvas' = SetOrigin(FlipYAxis(plot_canvas, PhotoRows), <<0, 0>>)
      /\ UNCHANGED <<who, src, erosion_w, data, canvas_mat, curve>>
  BY DEF StartPlot
<1>2. plot_canvas \in Canvases
  BY DEF SurfaceInv, SurfaceTypes
<1>3. /\ plot_canvas' \in Canvases
      /\ plot_canvas'.scale = <<plot_canvas.scale[1], - plot_canvas.scale[2]>>
      /\ plot_canvas'.origin = <<0, 0>>
  <2>. DEFINE c == FlipYAxis(plot_canvas, PhotoRows)
  <2>1. c \in Canvases /\ c.scale = <<plot_canvas.scale[1], - plot_canvas.scale[2]>>
    BY <1>2, FlipFacts
  <2>. HIDE DEF c
  <2>2. SetOrigin(c, <<0, 0>>) \in Canvases /\ SetOrigin(c, <<0, 0>>).scale = c.scale
        /\ SetOrigin(c, <<0, 0>>).origin = <<0, 0>>
    BY <2>1 DEF SetOrigin, Canvases
  <2>. QED  BY <1>1, <2>1, <2>2 DEF c
<1>4. SurfaceTypes'
  BY <1>1, <1>3 DEF SurfaceInv, SurfaceTypes
<1>5. AxisInv'
  <2>1. plot_canvas'.scale[2] = - plot_canvas.scale[2] /\ plot_canvas.scale[2] \in Int
    BY <1>2, <1>3, FlipFacts
  <2>2. AxisInv /\ flipped \in BOOLEAN
    BY DEF SurfaceInv, SurfaceTypes
  <2>. DEFINE s == plot_canvas.scale[2]
  <2>3. s < 0 \/ s > 0 => (s < 0 => - s > 0) /\ (s > 0 => - s < 0)
    BY <2>1
  <2>. HIDE DEF s
  <2>4. IF flipped THEN - s > 0 ELSE - s < 0
    BY <2>2, <2>3 DEF AxisInv, s
  <2>5. IF flipped' THEN - s < 0 ELSE - s > 0
    BY <1>1, <2>4
  <2>. QED  BY <2>1, <2>5, Zenon DEF AxisInv, s
<1>6. SampleInv'
  <2>. SUFFICES ASSUME who = "sample"
                PROVE  /\ plot_canvas'.origin = <<0, y'>> /\ plot_canvas'.scale = <<1, -1>>
                       /\ \E k \in Nat : y' = RowStep * k
                       /\ DrawnTo(data', canvas_mat', y')
    BY <1>1 DEF SampleInv
  <2>1. plot_canvas.scale = <<1, 1>> /\ canvas_mat = {}
    BY <1>1 DEF SurfaceInv, SampleInv, NewCanvas
  <2>2. DrawnTo(data, {}, 0)
    BY DEF DrawnTo, CurveRows
  <2>3. 0 = RowStep * 0
    BY SurfacePlotAssumption
  <2>. QED  BY <1>1, <1>3, <2>1, <2>2, <2>3
<1>7. WindowsAgree' /\ UprightByParity'
  BY <1>1 DEF SurfaceInv, WindowsAgree, UprightByParity
<1>. QED  BY <1>4, <1>5, <1>6, <1>7 DEF SurfaceInv

LEMMA ErodeInv ==
  ASSUME SurfaceInv, Erode
  PROVE  SurfaceInv'
<1>1. /\ pc' = "plot" /\ who = "sample" /\ src \in Photos
      /\ data' = Eroded(src, Reset(erosion_w)) /\ erosion_w' = Reset(erosion_w) + 1
      /\ plot_canvas' = NewCanvas /\ canvas_mat' = {} /\ flipped' = FALSE
      /\ UNCHANGED <<who, src, y, curve>>
  BY DEF SurfaceInv, SurfaceTypes, Erode
<1>2. Reset(erosion_w) \in Nat
  BY DEF SurfaceInv, SurfaceTypes, Reset
<1>3. data' \in Photos
  BY <1>1, <1>2, ErodedPhoto
<1>4. SurfaceTypes'
  <2>1. erosion_w' \in Nat /\ plot_canvas' \in Canvases
    BY <1>1, <1>2, NewCanvasFacts
  <2>. QED  BY <1>1, <1>3, <2>1 DEF SurfaceInv, SurfaceTypes
<1>6. AxisInv' /\ SampleInv'
  BY <1>1, NewCanvasFacts DEF AxisInv, SampleInv
<1>5. WindowsAgree' /\ UprightByParity'
  BY <1>1 DEF SurfaceInv, WindowsAgree, UprightByParity
<1>. QED  BY <1>4, <1>5, <1>6 DEF SurfaceInv

\* The calls of the client move the axis; only a flip and a new scale turn it.
LEMMA CallInv ==
  ASSUME SurfaceInv,
         NEW c \in Canvases,
         NEW f \in BOOLEAN, IF f THEN c.scale[2] < 0 ELSE c.scale[2] > 0, Call(c, f)
  PROVE  SurfaceInv'
<1>1. /\ pc = "start" /\ who = "client" /\ plot_canvas' = c /\ flipped' = f
      /\ UNCHANGED <<who, src, pc, erosion_w, data, y, curve>>
  BY DEF Call
<1>2. SurfaceTypes' /\ AxisInv' /\ SampleInv'
  BY <1>1 DEF SurfaceInv, SurfaceTypes, AxisInv, SampleInv
<1>3. WindowsAgree' /\ UprightByParity'
  BY <1>1 DEF SurfaceInv, WindowsAgree, UprightByParity
<1>. QED  BY <1>2, <1>3 DEF SurfaceInv

LEMMA SurfaceNextInv ==
  SurfaceInv /\ [SurfaceNext]_surfaceVars => SurfaceInv'
<1>. SUFFICES ASSUME SurfaceInv, [SurfaceNext]_surfaceVars PROVE SurfaceInv'
  OBVIOUS
<1>0. /\ plot_canvas \in Canvases
      /\ flipped \in BOOLEAN /\ AxisInv
  BY DEF SurfaceInv, SurfaceTypes
<1>1. CASE UNCHANGED surfaceVars
  <2>1. UNCHANGED <<who, src, pc, erosion_w, data, plot_canvas, canvas_mat, y, src_window,
                    canvas_window, flipped, curve>>
    BY <1>1 DEF surfaceVars, windows, client
  <2>2. SurfaceTypes' /\ AxisInv' /\ SampleInv'
    BY <2>1 DEF SurfaceInv, SurfaceTypes, AxisInv, SampleInv
  <2>3. \A ln, r, x : Joins(ln, r, x)' <=> Joins(ln, r, x)
    BY <2>1 DEF Joins, IsPointOf
  <2>4. WindowsAgree' /\ UprightByParity'
    BY <2>1, <2>3 DEF SurfaceInv, WindowsAgree, UprightByParity
  <2>. QED  BY <2>2, <2>4 DEF SurfaceInv
<1>2. CASE ReadFails \/ NoKey \/ Escape \/ CallPlot \/ PlotReturns
  <2>1. /\ pc' \in {"start", "plot", "exit"} /\ (pc' = "plot" => who = "client")
        /\ UNCHANGED <<who, src, erosion_w, data, plot_canvas, y, flipped, curve>>
    BY <1>2 DEF ReadFails, NoKey, Escape, CallPlot, PlotReturns, client
  <2>. QED
    BY <2>1 DEF SurfaceInv, SurfaceTypes, AxisInv, SampleInv, WindowsAgree, UprightByParity
<1>3. CASE Erode
  BY <1>3, ErodeInv
<1>4. CASE StartPlot
  BY <1>4, StartPlotInv
<1>5. CASE PlotRow
  BY <1>5, PlotRowInv
<1>6. CASE Show
  BY <1>6, ShowInv
<1>7. ASSUME NEW s \in Scales, CallSetScale(s)
      PROVE  SurfaceInv'
  <2>. DEFINE c == SetScale(plot_canvas, <<1, s>>)
  <2>1. s \in Int /\ s > 0
    BY SurfacePlotAssumption
  <2>2. c \in Canvases /\ c.scale[2] > 0
    BY <1>0, <2>1 DEF SetScale, Canvases
  <2>. QED  BY <1>7, <2>2, CallInv DEF CallSetScale
<1>8. CASE CallFlip
  <2>. DEFINE c == FlipYAxis(plot_canvas, PhotoRows)
  <2>1. /\ c \in Canvases
        /\ c.scale[2] = - plot_canvas.scale[2] /\ plot_canvas.scale[2] \in Int
    BY <1>0, FlipFacts
  <2>2. IF ~ flipped THEN c.scale[2] < 0 ELSE c.scale[2] > 0
    BY <1>0, <2>1 DEF AxisInv
  <2>. HIDE DEF c
  <2>3. Call(c, ~ flipped)
    BY <1>8 DEF CallFlip, c
  <2>. QED  BY <1>0, <2>1, <2>2, <2>3, CallInv
<1>9. CASE CallShift
  <2>. DEFINE c == ShiftOrigin(plot_canvas, <<0, RowStep>>)
  <2>1. /\ c \in Canvases
        /\ c.scale = plot_canvas.scale
    BY <1>0, ShiftFacts
  <2>. HIDE DEF c
  <2>2. Call(c, flipped)
    BY <1>9 DEF CallShift, c
  <2>. QED  BY <1>0, <2>1, <2>2, CallInv DEF AxisInv
<1>. QED
  BY <1>1, <1>2, <1>3, <1>4, <1>5, <1>6, <1>7, <1>8, <1>9 DEF SurfaceNext, Turn, Ended

LEMMA SurfaceInvariance ==
  SurfaceSpec => []SurfaceInv
BY SurfaceInitInv, SurfaceNextInv, PTL DEF SurfaceSpec

-----------------------------------------------------------------------------

\* At any wait the two windows belong together: the lines of the one are the
\* curves of the photo in the other, all of them, for photos of every size and
\* every distance of the curves.
THEOREM WindowsBelongTogether ==
  SurfaceSpec => []WindowsAgree
<1>1. SurfaceInv => WindowsAgree
  BY DEF SurfaceInv
<1>. QED  BY <1>1, SurfaceInvariance, PTL

\* Whatever the client calls, and with whatever scales, the parity of the
\* flips tells whether a curve is upright.
THEOREM FlipsTurnCurves ==
  SurfaceSpec => []UprightByParity
<1>1. SurfaceInv => UprightByParity
  BY DEF SurfaceInv
<1>. QED  BY <1>1, SurfaceInvariance, PTL
=============================================================================
