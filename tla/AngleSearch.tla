----------------------------- MODULE AngleSearch -----------------------------
(***************************************************************************)
(* The deskewing programs docproc_KBR, docproc_TBR, docproc_TCR and        *)
(* docproc_KCS, and three of their Python twins.  After a first stage      *)
(* (binarization or contrast) each rotates the page by one angle after the *)
(* other, measures it, and keeps the angle with the best mean; the page is *)
(* written rotated by it.  They differ in range, step and direction, in    *)
(* what stands for the best before the first turn, and in what they do     *)
(* about pages they cannot handle.                                         *)
(*                                                                         *)
(* What is measured, a mean over a morphologically filtered page, is any   *)
(* function of the angle.                                                  *)
(***************************************************************************)
EXTENDS Integers

CONSTANTS
  Programs,        \* those of the instance
  Deviation,       \* of KBR and TBR, 30 in the code
  HalfRange,       \* of TCR, 45
  MaxAngle,        \* of KCS, 80
  MaxIter,         \* of KCS, 20; 80 in its twin
  Crop,            \* the side of the square TCR measures, 500
  Means,           \* what cv::mean can give
  MinMean,         \* where KCS starts, 500
  Sizes,           \* the columns and rows a page can have
  NoAngle          \* no file has been written

ASSUME SearchAssumption ==
  /\ Programs \subseteq {"KBR", "TBR", "TCR", "KCS", "KBR.py", "TBR.py", "KCS.py"}
  /\ Deviation \in 1 .. 359 /\ HalfRange \in Nat
  /\ MaxIter \in Nat \ {0} /\ MaxAngle \in Nat /\ MaxAngle % MaxIter = 0
  /\ Crop \in Nat
  /\ Means \subseteq Int /\ MinMean \in Int /\ \A m \in Means : m < MinMean
  /\ Sizes \subseteq Nat \X Nat
  /\ NoAngle \notin Int

VARIABLES
  program,
  size,           \* of the page on disk
  trouble,        \* what the program will meet with
  score,          \* what is measured at each angle
  pc,
  turn,              \* the number of the turn; the angle follows from it
  best, bestScore,
  flag,           \* of TCR: is the first turn still to come?
  binarized,      \* has the first stage written its file?
  gradient,       \* the angle at which gradient_x.jpg was taken
  rotated,        \* the angle by which the page in the last file is rotated
  status          \* what main returns, -1 before it does

page == <<program, size, trouble, score>>

angleVars == <<page, pc, turn, best, bestScore, flag, binarized, gradient, rotated, status>>

INITIAL_ANGLE == -360

cols == size[1]
rows == size[2]

-----------------------------------------------------------------------------

\* KBR counts from 360 - deviation to 360 + deviation and brings the angle
\* back below 360.
Normal(angle) == IF angle < 360 THEN angle ELSE angle - 360

\* The angle of turn k.  TBR measures the page as it is before its loop: that
\* is turn -1.
AngleOf(p, k) ==
  CASE p \in {"KBR", "KBR.py"} -> Normal(360 - Deviation + k)
    [] p = "TBR"    -> IF k = -1 THEN 0 ELSE 2 * k - Deviation
    [] p = "TBR.py" -> 3 * k - Deviation
    [] p = "TCR"    -> k - HalfRange
    [] p \in {"KCS", "KCS.py"} -> k * 2 * (MaxAngle \div MaxIter) - MaxAngle

First(p) == IF p = "TBR" THEN -1 ELSE 0

\* The conditions of the for loops.
KBRGoesOn(k) == 360 - Deviation + k <= 360 + Deviation
TBRGoesOn(k) == 2 * k - Deviation < Deviation
TCRGoesOn(k) == k - HalfRange <= HalfRange
KCSGoesOn(k) == k < MaxIter

GoesOn(p, k) ==
  \/ p = "KBR" /\ KBRGoesOn(k)
  \/ p = "KBR.py" /\ 360 - Deviation + k < 360 + Deviation
  \/ p = "TBR" /\ TBRGoesOn(k)
  \/ p = "TBR.py" /\ 3 * k - Deviation < Deviation
  \/ p = "TCR" /\ TCRGoesOn(k)
  \/ p \in {"KCS", "KCS.py"} /\ KCSGoesOn(k)

\* No program gets further than that.
Most == 2 * Deviation + 2 * HalfRange + MaxIter

\* All turns, by number.
Turns(p) == {k \in First(p) .. Most : GoesOn(p, k)}

Tried(p) == {AngleOf(p, k) : k \in Turns(p)}

\* Only TCR measures a signed image.
MeansOf(p) == IF p = "TCR" THEN Means ELSE Means \cap Nat

\* binarization of KBR and TBR writes a file; the contrast of TCR and KCS
\* stays in memory.
WritesFirst == program \in {"KBR", "KBR.py", "TBR", "TBR.py"}

\* What is beyond a program's control: the page cannot be decoded, there is
\* no encoder for a name it was given (TCR is given none), or the page is gone
\* when TBR reads it again.
Troubles ==
  {"unreadable"}
    \cup (IF WritesFirst THEN {"first name"} ELSE {})
    \cup (IF program = "TCR" THEN {} ELSE {"last name"})
    \cup (IF program = "TBR" THEN {"gone"} ELSE {})

AngleTypeOK ==
  /\ program \in Programs
  /\ size \in Sizes /\ trouble \in SUBSET Troubles
  /\ score \in [Tried(program) -> MeansOf(program)]
  /\ pc \in {"first", "start", "search", "exit", "threw"}
  /\ turn \in First(program) .. Most + 1
  /\ best \in Tried(program) \cup {INITIAL_ANGLE, 0}
  /\ bestScore \in Means \cup {MinMean, 0}
  /\ flag \in BOOLEAN /\ binarized \in BOOLEAN
  /\ gradient \in Tried(program) \cup {NoAngle}
  /\ rotated \in Tried(program) \cup Means \cup {NoAngle, 0}
  /\ status \in {-1, 0, 1}

AngleInit ==
  /\ program \in Programs
  /\ size \in Sizes
  /\ trouble \in SUBSET Troubles
  /\ score \in [Tried(program) -> MeansOf(program)]
  /\ pc = "first"
  /\ turn = First(program)
  /\ best = 0
  /\ bestScore = 0
  /\ flag = TRUE
  /\ binarized = FALSE
  /\ gradient = NoAngle
  /\ rotated = NoAngle
  /\ status = -1

-----------------------------------------------------------------------------

FirstStageWorks ==
  /\ pc = "first"
  /\ trouble \cap {"unreadable", "first name"} = {}
  /\ binarized' = WritesFirst
  /\ pc' = "start"
  /\ UNCHANGED <<page, turn, best, bestScore, flag, gradient, rotated, status>>

\* OpenCV throws.  Only the main of KBR catches it.
Throws ==
  /\ pc' = IF program = "KBR" THEN "exit" ELSE "threw"
  /\ status' = IF program = "KBR" THEN 1 ELSE -1
  /\ UNCHANGED <<page, turn, best, bestScore, flag, binarized, gradient, rotated>>

\* It does on the empty image that imread returned, and on the name of a file
\* it has no encoder for.
FirstStageThrows ==
  /\ pc = "first"
  /\ trouble \cap {"unreadable", "first name"} # {}
  /\ Throws

CropFits_FromZero == cols >= Crop /\ rows >= Crop

\* Rect(cols/2-500, rows/2-500, 500, 500) lies inside the page.
CropFits == cols \div 2 >= Crop /\ rows \div 2 >= Crop

\* What stands for the best before the first turn.
StartAngle == IF program \in {"KBR", "KBR.py"} THEN INITIAL_ANGLE ELSE 0
StartScore == IF program \in {"KCS", "KCS.py"} THEN MinMean ELSE 0

StartFromNothing ==
  /\ pc = "start"
  /\ program \notin {"TBR", "TBR.py"}
  /\ program = "TCR" => CropFits
  /\ best' = StartAngle
  /\ bestScore' = StartScore
  /\ pc' = "search"
  /\ UNCHANGED <<page, turn, flag, binarized, gradient, rotated, status>>

\* TBR measures once before its loop.
StartFromFirst ==
  /\ pc = "start"
  /\ program \in {"TBR", "TBR.py"}
  /\ "gone" \notin trouble
  /\ best' = AngleOf(program, turn)
  /\ bestScore' = score[AngleOf(program, turn)]
  /\ turn' = turn + 1
  /\ pc' = "search"
  /\ UNCHANGED <<page, flag, binarized, gradient, rotated, status>>

\* The square of TCR does not fit, or TBR, which reads the page a second time,
\* does not find it any more.
StartThrows ==
  /\ pc = "start"
  /\ (program = "TCR" /\ ~ CropFits) \/ "gone" \in trouble
  /\ Throws

\* The part of the page KCS measures: its width comes from the rows.
RegionFits == program = "KCS" => cols \div 4 + rows \div 4 <= cols

\* In Python the slice is cut to the page; nothing may be left of it, and the
\* mean of nothing is not a number.
Measures ==
  program = "KCS.py" =>
    /\ cols \div 4 < (cols * 3) \div 4 /\ cols \div 4 < rows
    /\ rows \div 4 < (rows * 3) \div 4 /\ rows \div 4 < cols

\* When a turn replaces the best so far.
KBRTakes(m) == m > bestScore \/ best = INITIAL_ANGLE
TBRTakes(m) == m > bestScore
TCRTakes_NoFlag(m) == m > bestScore
TCRTakes(m) == flag \/ m > bestScore
KCSTakes(m) == m < bestScore

Takes(m) ==
  \/ program \in {"KBR", "KBR.py"} /\ KBRTakes(m)
  \/ program \in {"TBR", "TBR.py"} /\ TBRTakes(m)
  \/ program = "TCR" /\ TCRTakes(m)
  \/ program \in {"KCS", "KCS.py"} /\ Measures /\ KCSTakes(m)

Turn == pc = "search" /\ GoesOn(program, turn) /\ RegionFits

Angle == AngleOf(program, turn)

Improve ==
  /\ Turn
  /\ Takes(score[Angle])
  /\ best' = Angle
  /\ bestScore' = score[Angle]
  /\ flag' = FALSE
  /\ gradient' = IF program = "TCR" THEN Angle ELSE gradient
  /\ turn' = turn + 1
  /\ UNCHANGED <<page, pc, binarized, rotated, status>>

Keep ==
  /\ Turn
  /\ ~ Takes(score[Angle])
  /\ turn' = turn + 1
  /\ UNCHANGED <<page, pc, best, bestScore, flag, binarized, gradient, rotated, status>>

\* A region outside the page: cv::Mat throws.
TurnThrows ==
  /\ pc = "search"
  /\ GoesOn(program, turn)
  /\ ~ RegionFits
  /\ Throws

\* The page is written, rotated by the best angle; by the best mean in the
\* Python twin of TBR.
Rotate ==
  /\ pc = "search"
  /\ ~ GoesOn(program, turn)
  /\ "last name" \notin trouble
  /\ rotated' = IF program = "TBR.py" THEN bestScore ELSE best
  /\ status' = 0
  /\ pc' = "exit"
  /\ UNCHANGED <<page, turn, best, bestScore, flag, binarized, gradient>>

\* No encoder for the name of the output; that of TCR is a .jpg.
RotateThrows ==
  /\ pc = "search"
  /\ ~ GoesOn(program, turn)
  /\ "last name" \in trouble
  /\ Throws

Ended == pc \in {"exit", "threw"} /\ UNCHANGED angleVars

AngleNext ==
  \/ FirstStageWorks \/ FirstStageThrows
  \/ StartFromNothing \/ StartFromFirst \/ StartThrows
  \/ Improve \/ Keep \/ TurnThrows \/ Rotate \/ RotateThrows \/ Ended

\* Safety only: nothing below needs a program to go on.
AngleSpec == AngleInit /\ [][AngleNext]_angleVars

-----------------------------------------------------------------------------

\* KCS looks for the darkest page, the others for the brightest.
Sense == IF program \in {"KCS", "KCS.py"} THEN "min" ELSE "max"

ScoreOf(k) == score[AngleOf(program, k)]

Better(a, b) == IF Sense = "max" THEN a > b ELSE a < b

\* Of the turns below n, k is the first of those nothing beats.
FirstBest(k, n) ==
  /\ k \in Turns(program) /\ k < n
  /\ \A j \in Turns(program) : j < n => ~ Better(ScoreOf(j), ScoreOf(k))
  /\ \A j \in Turns(program) : j < k => Better(ScoreOf(k), ScoreOf(j))

\* The page is rotated by the first of the best angles of the whole range,
\* whatever the sentinels of the programs are and whatever the sign of the
\* means.  The twin of TBR is no such search: it rotates by the mean.  The
\* twin of KCS leaves a page alone of which its slice is empty.
WrittenIsFirstBest ==
  rotated # NoAngle /\ program # "TBR.py" =>
    IF Measures
      THEN \E k \in Turns(program) : FirstBest(k, Most + 1) /\ rotated = AngleOf(program, k)
      ELSE rotated = 0

\* The picture TCR leaves in gradient_x.jpg belongs to the angle it has found.
GradientIsOfResult ==
  program = "TCR" /\ rotated # NoAngle => gradient = rotated

\* What a page must measure: for TCR the square left of and above the middle,
\* for KCS a quarter of the height, right of a quarter of the width.
LargeEnough ==
  /\ program = "TCR" => 2 * Crop <= cols /\ 2 * Crop <= rows
  /\ program = "KCS" => rows \div 4 <= cols - cols \div 4

\* A program that has ended has a reason for every page it does not write:
\* something was wrong with its files, or the page is too small or too tall
\* for the region it measures.  It returns 0 exactly if it has written a page,
\* and what stays of a run that failed later is only a binarized page.
PageOrReason ==
  pc \in {"exit", "threw"} =>
    /\ rotated # NoAngle <=> trouble = {} /\ LargeEnough
    /\ status = 0 <=> rotated # NoAngle
    /\ binarized => trouble \subseteq {"last name", "gone"}
=============================================================================
