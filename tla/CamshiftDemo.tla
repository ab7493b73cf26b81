---------------------------- MODULE CamshiftDemo ----------------------------
(***************************************************************************)
(* The camshift demo: a loop that grabs a frame, tracks, shows, and waits  *)
(* for a key; and a mouse handler that shares trackObject, selectObject,   *)
(* selection and origin with the loop.  The window system calls the        *)
(* handler only inside waitKey, any number of times before waitKey returns.*)
(*                                                                         *)
(* A rectangle is a record [x, y, width, height].  What CamShift finds is  *)
(* any rectangle inside the image; it throws on an empty window.           *)
(***************************************************************************)
EXTENDS Integers

CONSTANTS Width, Height    \* the size of a frame

ASSUME SizeAssumption == Width \in Nat \ {0} /\ Height \in Nat \ {0}

VARIABLES
  at,            \* "top" of the loop, inside "wait"Key, "exit", or "threw"
  trackObject,   \* -1: a selection waits; 1: tracking; 0: neither
  paused, backprojMode, showHist,
  selectObject,  \* is a drag going on?
  selection, origin, trackWindow,
  histimg,       \* "blank" or "drawn"
  histWindow,    \* is the window "Histogram" on the screen?
  disturbed,     \* history: selection moved on while trackObject was -1
  cornered       \* history: the last window found was degenerate and touched the top or left edge

mouseVars == <<selectObject, selection, origin, disturbed>>
trackVars == <<trackWindow, cornered>>
viewVars == <<paused, backprojMode, showHist>>

camshiftVars == <<at, trackObject, viewVars, mouseVars, trackVars, histimg, histWindow>>

Rect(x, y, w, h) == [x |-> x, y |-> y, width |-> w, height |-> h]

\* The rectangles inside the image, the empty ones included.
Rects ==
  {r \in [x : 0 .. Width, y : 0 .. Height, width : 0 .. Width, height : 0 .. Height] :
     r.x + r.width <= Width /\ r.y + r.height <= Height}

\* Where a button goes down, and where a drag can lead.
Inside == (0 .. Width - 1) \X (0 .. Height - 1)
Anywhere == (-1 .. Width) \X (-1 .. Height)

CamshiftTypeOK ==
  /\ at \in {"top", "wait", "exit", "threw"}
  /\ trackObject \in {-1, 0, 1}
  /\ viewVars \in BOOLEAN \X BOOLEAN \X BOOLEAN
  /\ selectObject \in BOOLEAN
  /\ selection \in Rects
  /\ origin \in Inside
  /\ trackWindow \in Rects
  /\ histimg \in {"blank", "drawn"}
  /\ histWindow \in BOOLEAN
  /\ disturbed \in BOOLEAN
  /\ cornered \in BOOLEAN

CamshiftInit ==
  /\ at = "top"
  /\ trackObject = 0
  /\ paused = FALSE
  /\ backprojMode = FALSE
  /\ showHist = TRUE
  /\ selectObject = FALSE
  /\ selection = Rect(0, 0, 0, 0)
  /\ origin = <<0, 0>>
  /\ trackWindow = Rect(0, 0, 0, 0)
  /\ histimg = "blank"
  /\ histWindow = TRUE
  /\ disturbed = FALSE
  /\ cornered = FALSE

-----------------------------------------------------------------------------

Smaller(a, b) == IF a < b THEN a ELSE b
Larger(a, b) == IF a < b THEN b ELSE a

Area(r) == r.width * r.height

\* cv::Rect's operator & with the whole image: an empty intersection is the
\* rectangle of zeros.
Clipped(r) ==
  LET x == Larger(r.x, 0)
      y == Larger(r.y, 0)
      w == Smaller(r.x + r.width, Width) - x
      h == Smaller(r.y + r.height, Height) - y
  IN IF w <= 0 \/ h <= 0 THEN Rect(0, 0, 0, 0) ELSE Rect(x, y, w, h)

\* Lines 28-36 of onMouse, for every event.
Dragged(p) ==
  IF selectObject
    THEN Clipped(Rect(Smaller(p[1], origin[1]), Smaller(p[2], origin[2]),
                      Larger(p[1], origin[1]) - Smaller(p[1], origin[1]),
                      Larger(p[2], origin[2]) - Smaller(p[2], origin[2])))
    ELSE selection

MouseMove(p) ==
  /\ at = "wait"
  /\ selection' = Dragged(p)
  /\ disturbed' = (trackObject = -1 /\ (disturbed \/ selection' # selection))
  /\ UNCHANGED <<at, trackObject, viewVars, selectObject, origin, trackVars, histimg, histWindow>>

MouseDown(p) ==
  /\ at = "wait"
  /\ p \in Inside
  /\ selection' = Rect(p[1], p[2], 0, 0)
  /\ origin' = p
  /\ selectObject' = TRUE
  /\ disturbed' = (trackObject = -1)
  /\ UNCHANGED <<at, trackObject, viewVars, trackVars, histimg, histWindow>>

\* The button may come up without having gone down on this window.
MouseUp(p) ==
  /\ at = "wait"
  /\ selection' = Dragged(p)
  /\ selectObject' = FALSE
  /\ trackObject' = IF Area(selection') > 0 THEN -1 ELSE trackObject
  /\ disturbed' = (trackObject = -1 /\ Area(selection') = 0)
  /\ UNCHANGED <<at, viewVars, origin, trackVars, histimg, histWindow>>

-----------------------------------------------------------------------------

\* imshow makes the window it shows in, if there is none.
ShowWindows == histWindow' = TRUE

\* Lines 115-117: the movie is over.
EndOfMovie ==
  /\ at = "top"
  /\ ~ paused
  /\ at' = "exit"
  /\ UNCHANGED <<trackObject, viewVars, mouseVars, trackVars, histimg, histWindow>>

\* A turn of the loop with nothing to track.
ShowFrame ==
  /\ at = "top"
  /\ ~ paused
  /\ trackObject = 0
  /\ ShowWindows
  /\ at' = "wait"
  /\ UNCHANGED <<trackObject, viewVars, mouseVars, trackVars, histimg>>

Reseeded_Never(r) == r

\* Lines 165-171: a degenerate window is replaced by one around its corner.
\* The code passes the far corner where cv::Rect takes a size.
Reseeded(r) ==
  LET rad == (Smaller(Width, Height) + 5) \div 6
  IN IF Area(r) <= 1
       THEN Clipped(Rect(r.x - rad, r.y - rad, r.x + rad, r.y + rad))
       ELSE r

\* Lines 136-143: the window CamShift starts from.
StartWindow == IF trackObject < 0 THEN selection ELSE trackWindow

\* Lines 124-176: the histogram is taken again after a new selection, and
\* CamShift moves the window.
Track ==
  /\ at = "top"
  /\ ~ paused
  /\ trackObject # 0
  /\ Area(StartWindow) > 0
  /\ \E found \in Rects :
       /\ trackWindow' = Reseeded(found)
       /\ cornered' = (Area(found) <= 1 /\ (found.x = 0 \/ found.y = 0))
  /\ histimg' = IF trackObject < 0 THEN "drawn" ELSE histimg
  /\ trackObject' = 1
  /\ disturbed' = FALSE
  /\ ShowWindows
  /\ at' = "wait"
  /\ UNCHANGED <<viewVars, selectObject, selection, origin>>

\* CamShift throws on an empty window, and nothing catches it.
TrackThrows ==
  /\ at = "top"
  /\ ~ paused
  /\ trackObject # 0
  /\ Area(StartWindow) = 0
  /\ trackWindow' = StartWindow
  /\ histimg' = IF trackObject < 0 THEN "drawn" ELSE histimg
  /\ trackObject' = 1
  /\ cornered' = (trackObject > 0 /\ cornered)
  /\ at' = "threw"
  /\ UNCHANGED <<viewVars, mouseVars, histWindow>>

ShowPaused_StaysPaused ==
  /\ at = "top"
  /\ paused
  /\ ShowWindows
  /\ at' = "wait"
  /\ UNCHANGED <<trackObject, viewVars, mouseVars, trackVars, histimg>>

\* Lines 178-179: a paused turn only wakes up for a new selection.
ShowPaused ==
  /\ at = "top"
  /\ paused
  /\ paused' = (trackObject >= 0)
  /\ ShowWindows
  /\ at' = "wait"
  /\ UNCHANGED <<trackObject, backprojMode, showHist, mouseVars, trackVars, histimg>>

-----------------------------------------------------------------------------

\* waitKey returns without a key, or with one the program does not know.
NoKeyPressed ==
  /\ at = "wait"
  /\ at' = "top"
  /\ UNCHANGED <<trackObject, viewVars, mouseVars, trackVars, histimg, histWindow>>

KeyEsc ==
  /\ at = "wait"
  /\ at' = "exit"
  /\ UNCHANGED <<trackObject, viewVars, mouseVars, trackVars, histimg, histWindow>>

KeyB ==
  /\ at = "wait"
  /\ at' = "top"
  /\ backprojMode' = ~ backprojMode
  /\ UNCHANGED <<trackObject, paused, showHist, mouseVars, trackVars, histimg, histWindow>>

KeyC_KeepsHistogram ==
  /\ at = "wait"
  /\ at' = "top"
  /\ trackObject' = 0
  /\ disturbed' = FALSE
  /\ UNCHANGED <<viewVars, selectObject, selection, origin, trackVars, histimg, histWindow>>

KeyC ==
  /\ at = "wait"
  /\ at' = "top"
  /\ trackObject' = 0
  /\ histimg' = "blank"
  /\ disturbed' = FALSE
  /\ UNCHANGED <<viewVars, selectObject, selection, origin, trackVars, histWindow>>

KeyH ==
  /\ at = "wait"
  /\ at' = "top"
  /\ showHist' = ~ showHist
  /\ histWindow' = showHist'
  /\ UNCHANGED <<trackObject, paused, backprojMode, mouseVars, trackVars, histimg>>

KeyP ==
  /\ at = "wait"
  /\ at' = "top"
  /\ paused' = ~ paused
  /\ UNCHANGED <<trackObject, backprojMode, showHist, mouseVars, trackVars, histimg, histWindow>>

Ended == at \in {"exit", "threw"} /\ UNCHANGED camshiftVars

OnMouse == \E p \in Anywhere : MouseMove(p) \/ MouseDown(p) \/ MouseUp(p)

CamshiftTurn == EndOfMovie \/ ShowFrame \/ Track \/ TrackThrows \/ ShowPaused

Key == KeyEsc \/ KeyB \/ KeyC \/ KeyH \/ KeyP

CamshiftNext == OnMouse \/ CamshiftTurn \/ Key \/ NoKeyPressed \/ Ended

\* The loop runs on its own, and waitKey keeps returning without a key: the
\* user does not type in every tenth of a second for ever.
CamshiftSpec ==
  /\ CamshiftInit /\ [][CamshiftNext]_camshiftVars
  /\ WF_camshiftVars(CamshiftTurn) /\ SF_camshiftVars(NoKeyPressed)

-----------------------------------------------------------------------------

\* The histogram on show belongs to the tracker: it is drawn while an object
\* is tracked and blank after the tracking was stopped, however selections,
\* pauses and the c key fall together.
HistogramFollowsTracker ==
  /\ trackObject = 1 => histimg = "drawn"
  /\ trackObject = 0 => histimg = "blank"

\* The program ends with an exception in two cases only: the mouse moved the
\* selection on before the loop had taken it, or the tracker collapsed to a
\* point on the top or left edge of the image, where reseeding gives nothing.
ThrowsOnlyIfDisturbedOrCornered == at = "threw" => disturbed \/ cornered

\* A completed selection does not wait for ever: it is taken up, even if the
\* video was paused when it was made, or the user stops the tracking.
SelectionIsTaken == trackObject = -1 ~> trackObject # -1 \/ at = "exit"
=============================================================================
