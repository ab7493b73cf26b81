----------------------------- MODULE SurfacePlot -----------------------------
(***************************************************************************)
(* multiline_surface_plot and line_plot of protovis, as protovis_sample    *)
(* uses them: every turn erodes the gray photo one step further, plots it  *)
(* on the photo's own copy, and shows both.  Beside the sample there is a  *)
(* client that calls the methods of one canvas in any order.               *)
(***************************************************************************)
EXTENDS Canvas, FiniteSetsExt

CONSTANTS
  PhotoRows, PhotoCols,   \* of the photo
  Grays,        \* its gray levels
  RowStep,         \* rows from one curve to the next, 12 in the sample
  Erosions,     \* 15 in the sample
  Scales,       \* the y scales the client may set
  MaxCalls,     \* bound on the calls of the client
  Unreadable    \* what imread finds where no image can be decoded

Pixels == (0 .. PhotoRows - 1) \X (0 .. PhotoCols - 1)

Photos == [Pixels -> Grays]

ASSUME SurfacePlotAssumption ==
  /\ PhotoRows \in Nat \ {0} /\ PhotoCols \in Nat \ {0} /\ RowStep \in Nat \ {0}
  /\ Grays \subseteq 0 .. 255
  /\ Erosions \in Nat \ {0} /\ MaxCalls \in Nat
  /\ Scales \subseteq Nat \ {0}
  /\ Unreadable \notin Photos

VARIABLES
  who,           \* "sample" or "client"
  src,           \* the file
  pc,
  erosion_w,
  data,          \* what is plotted: src_float of the sample
  plot_canvas,
  canvas_mat,    \* the lines on the image of the canvas
  y,             \* the row whose turn it is
  src_window, canvas_window,
  status,        \* what main returns, -1 before it does
  calls,         \* of the client
  flipped,       \* history: was the axis flipped an odd number of times since
                 \* the scale was last set?
  curve          \* history: the values of the last curve, its points, and
                 \* the flipped it was drawn with

windows == <<src_window, canvas_window>>

client == <<calls, flipped, curve>>

surfaceVars ==
  <<who, src, pc, erosion_w, data, plot_canvas, canvas_mat, y, windows, status, client>>

SurfaceInit ==
  /\ who \in {"sample", "client"}
  /\ src \in Photos \cup {Unreadable}
  /\ who = "client" => src # Unreadable
  /\ pc = "start"
  /\ erosion_w = 0
  /\ data = src
  /\ plot_canvas = NewCanvas
  /\ canvas_mat = {}
  /\ y = 0
  /\ src_window = Unreadable
  /\ canvas_window = {}
  /\ status = -1
  /\ calls = 0
  /\ flipped = FALSE
  /\ curve = [values |-> <<>>, points |-> <<>>, flipped |-> FALSE]

-----------------------------------------------------------------------------

\* cvtColor throws on the empty image that imread has returned.
ReadFails ==
  /\ pc = "start" /\ src = Unreadable
  /\ status' = 1
  /\ pc' = "exit"
  /\ UNCHANGED <<who, src, erosion_w, data, plot_canvas, canvas_mat, y, windows, client>>

\* Erosion by the 3x3 square, w times.
Eroded(f, w) ==
  [p \in Pixels |->
     Min({f[q] : q \in {q \in Pixels : /\ q[1] \in p[1] - w .. p[1] + w
                                       /\ q[2] \in p[2] - w .. p[2] + w}})]

Reset_ToOne(w) == IF w >= Erosions THEN 1 ELSE w

\* Lines 41-42.
Reset(w) == IF w >= Erosions THEN 0 ELSE w

\* Were the constructor not to paint the image white.
Erode_KeepsPicture ==
  /\ pc = "start" /\ src # Unreadable /\ who = "sample"
  /\ data' = Eroded(src, Reset(erosion_w))
  /\ erosion_w' = Reset(erosion_w) + 1
  /\ plot_canvas' = NewCanvas
  /\ flipped' = FALSE
  /\ pc' = "plot"
  /\ UNCHANGED <<who, src, canvas_mat, y, windows, status, calls, curve>>

\* Lines 41-51: each turn has a canvas of its own, on the same image.
Erode ==
  /\ pc = "start" /\ src # Unreadable /\ who = "sample"
  /\ data' = Eroded(src, Reset(erosion_w))
  /\ erosion_w' = Reset(erosion_w) + 1
  /\ plot_canvas' = NewCanvas
  /\ canvas_mat' = {}
  /\ flipped' = FALSE
  /\ pc' = "plot"
  /\ UNCHANGED <<who, src, y, windows, status, calls, curve>>

\* Lines 30-32 of lineplot.cpp.
StartPlot ==
  /\ pc = "plot"
  /\ plot_canvas' = SetOrigin(FlipYAxis(plot_canvas, PhotoRows), <<0, 0>>)
  /\ flipped' = ~ flipped
  /\ y' = 0
  /\ pc' = "rows"
  /\ UNCHANGED <<who, src, erosion_w, data, canvas_mat, windows, status, calls, curve>>

\* The point of the curve of row r at column x; one tenth per gray level.
Point(x, r) == <<10 * x, data[<<r, x>>]>>

PlotRow_ShiftsLate ==
  LET c == plot_canvas
      points == [x \in 0 .. PhotoCols - 1 |-> Converted(c, Point(x, y))]
  IN /\ pc = "rows" /\ y < PhotoRows
     /\ canvas_mat' = canvas_mat \cup {<<points[x - 1], points[x]>> : x \in 1 .. PhotoCols - 1}
     /\ plot_canvas' = ShiftOrigin([c EXCEPT !.pos = points[PhotoCols - 1]], <<0, RowStep>>)
     /\ curve' = [values |-> [x \in 0 .. PhotoCols - 1 |-> data[<<y, x>>]], points |-> points,
                  flipped |-> flipped]
     /\ y' = y + RowStep
     /\ UNCHANGED <<who, src, pc, erosion_w, data, windows, status, calls, flipped>>

\* Lines 32-40, with line_plot: move_to the first point, line_to the others.
PlotRow ==
  LET c == ShiftOrigin(plot_canvas, <<0, RowStep>>)
      pen(x) == MoveTo(c, Point(x, y))
  IN /\ pc = "rows" /\ y < PhotoRows
     /\ canvas_mat' = canvas_mat \cup {Line(pen(x - 1), Point(x, y)) : x \in 1 .. PhotoCols - 1}
     /\ plot_canvas' = pen(PhotoCols - 1)
     /\ curve' = [values |-> [x \in 0 .. PhotoCols - 1 |-> data[<<y, x>>]],
                  points |-> [x \in 0 .. PhotoCols - 1 |-> pen(x).pos],
                  flipped |-> flipped]
     /\ y' = y + RowStep
     /\ UNCHANGED <<who, src, pc, erosion_w, data, windows, status, calls, flipped>>

\* Lines 62-63 of the sample.
Show ==
  /\ pc = "rows" /\ y >= PhotoRows /\ who = "sample"
  /\ src_window' = data
  /\ canvas_window' = canvas_mat
  /\ pc' = "wait"
  /\ UNCHANGED <<who, src, erosion_w, data, plot_canvas, canvas_mat, y, status, client>>

\* waitKey(300) comes back without a key, or with any but Escape.
NoKey ==
  /\ pc = "wait"
  /\ pc' = "start"
  /\ UNCHANGED <<who, src, erosion_w, data, plot_canvas, canvas_mat, y, windows, status, client>>

Escape ==
  /\ pc = "wait"
  /\ status' = 0
  /\ pc' = "exit"
  /\ UNCHANGED <<who, src, erosion_w, data, plot_canvas, canvas_mat, y, windows, client>>

\* The calls of the client.
Call(c, f) ==
  /\ pc = "start" /\ who = "client"
  /\ calls < MaxCalls
  /\ calls' = calls + 1
  /\ plot_canvas' = c
  /\ flipped' = f
  /\ UNCHANGED <<who, src, pc, erosion_w, data, canvas_mat, y, windows, status, curve>>

CallSetScale(s) == Call(SetScale(plot_canvas, <<1, s>>), FALSE)

CallFlip == Call(FlipYAxis(plot_canvas, PhotoRows), ~ flipped)

CallShift == Call(ShiftOrigin(plot_canvas, <<0, RowStep>>), flipped)

CallPlot ==
  /\ pc = "start" /\ who = "client"
  /\ calls < MaxCalls
  /\ calls' = calls + 1
  /\ pc' = "plot"
  /\ UNCHANGED <<who, src, erosion_w, data, plot_canvas, canvas_mat, y, windows, status, flipped,
                 curve>>

PlotReturns ==
  /\ pc = "rows" /\ y >= PhotoRows /\ who = "client"
  /\ pc' = "start"
  /\ UNCHANGED <<who, src, erosion_w, data, plot_canvas, canvas_mat, y, windows, status, client>>

Ended ==
  /\ pc = "exit" \/ (pc = "start" /\ calls = MaxCalls)
  /\ UNCHANGED surfaceVars

Turn == ReadFails \/ Erode \/ StartPlot \/ PlotRow \/ Show

SurfaceNext ==
  \/ Turn \/ NoKey \/ Escape
  \/ \E s \in Scales : CallSetScale(s)
  \/ CallFlip \/ CallShift \/ CallPlot \/ PlotReturns \/ Ended

\* The program runs on its own, and waitKey(300) does not wait for ever.
SurfaceSpec ==
  /\ SurfaceInit /\ [][SurfaceNext]_surfaceVars
  /\ WF_surfaceVars(Turn) /\ WF_surfaceVars(NoKey)

-----------------------------------------------------------------------------
(* The properties.                                                         *)

\* Is p the point of the shown photo at column x of row r?  The row is drawn
\* downwards from its base line, and rounding for positive numbers, used on
\* negative ones, moves a point down by up to one and a half pixels.
IsPointOf(p, r, x) ==
  LET error == 10 * (p[2] - (r + RowStep)) + src_window[<<r, x>>]
  IN p[1] = x /\ -5 < error /\ error < 15

Joins(line, r, x) == IsPointOf(line[1], r, x - 1) /\ IsPointOf(line[2], r, x)

CurveRows == {r \in 0 .. PhotoRows - 1 : r % RowStep = 0}

\* What the user sees at any wait belongs together: each line of the canvas
\* window joins two neighbours of a row of the photo eroded as the other
\* window shows it, and no such pair is missing.  All turns draw on one image,
\* which only the constructor of each turn's canvas clears; the conversion to
\* int rounds the negative heights of the flipped axis the wrong way, but
\* never by two pixels.
WindowsAgree ==
  pc = "wait" =>
    /\ \A line \in canvas_window : \E r \in CurveRows, x \in 1 .. PhotoCols - 1 : Joins(line, r, x)
    /\ \A r \in CurveRows, x \in 1 .. PhotoCols - 1 : \E line \in canvas_window : Joins(line, r, x)

\* multiline_surface_plot leaves the axis of its caller's canvas flipped, and
\* set_scale forgets the flip.  A curve is upright (a larger value is not
\* lower on the image, whose y points down) exactly when the axis has been
\* flipped an odd number of times since the scale was set: the first plot on
\* a canvas is, the second is upside down.
UprightByParity ==
  \A x1, x2 \in DOMAIN curve.values :
    curve.values[x1] <= curve.values[x2] =>
      IF curve.flipped THEN curve.points[x2][2] <= curve.points[x1][2]
      ELSE curve.points[x1][2] <= curve.points[x2][2]

\* Until the user stops it the show repeats: every erosion, none included, is
\* on the screen again and again.
ErosionsRecur ==
  \A w \in 0 .. Erosions - 1 :
    []<>(who = "client" \/ pc = "exit" \/ (pc = "wait" /\ erosion_w = w + 1))
=============================================================================
