--------------------------- MODULE DemoSkeletonize ---------------------------
(***************************************************************************)
(* The skeleton demo of demo_filters: the negative of a gray image is      *)
(* eroded layer by layer, what the opening of each layer loses is added up *)
(* and shown, until a layer loses nothing or the user types q; then the    *)
(* same for the image itself.  All sums and differences are of 8-bit       *)
(* images: they saturate.                                                  *)
(***************************************************************************)
EXTENDS Morphology, Integers, FiniteSetsExt

CONSTANTS
  MaxGray,      \* the largest gray level, 255 in the code
  Unreadable    \* what cv::imread finds where no image can be decoded

Gray == 0 .. MaxGray

GrayImages == [Pixels -> Gray]

ASSUME GrayAssumption ==
  /\ MaxGray \in Nat \ {0}
  /\ Unreadable \notin GrayImages

VARIABLES
  pc,         \* "start" of a round, "turn" of the loop, "wait"Key(50),
              \* "finished" in waitKey(0), "exit"
  round,      \* 1: the image, 2: its negative
  source,     \* the image main has read
  orig, eroded, skeleton,
  shown,      \* the skeleton in the window, Unreadable before the first
  status,     \* what main returns, -1 before it does
  input       \* history: eroded as the round first had it

vars == <<pc, round, source, orig, eroded, skeleton, shown, status, input>>

Black == [p \in Pixels |-> 0]

TypeOK ==
  /\ pc \in {"start", "turn", "wait", "finished", "exit"}
  /\ round \in {1, 2}
  /\ source \in GrayImages \cup {Unreadable}
  /\ orig \in GrayImages
  /\ eroded \in GrayImages
  /\ skeleton \in GrayImages
  /\ shown \in GrayImages \cup {Unreadable}
  /\ status \in {-1, 0, 1}
  /\ input \in GrayImages

Init ==
  /\ pc = "start"
  /\ round = 1
  /\ source \in GrayImages \cup {Unreadable}
  /\ orig = Black
  /\ eroded = Black
  /\ skeleton = Black
  /\ shown = Unreadable
  /\ status = -1
  /\ input = Black

-----------------------------------------------------------------------------

\* cv::erode and cv::dilate of gray images: minimum and maximum over the
\* footprint.
GrayEroded(f) == [p \in Pixels |-> Min({f[q] : q \in Nbr[p]})]
GrayDilated(f) == [p \in Pixels |-> Max({f[q] : q \in Nbr[p]})]

Minus(f, g) == [p \in Pixels |-> IF f[p] > g[p] THEN f[p] - g[p] ELSE 0]

Plus(f, g) ==
  [p \in Pixels |-> IF f[p] + g[p] > MaxGray THEN MaxGray ELSE f[p] + g[p]]

Negative(f) == [p \in Pixels |-> MaxGray - f[p]]

\* Lines 155-156 and 124: skeletonize gets the image, then its negative, and
\* works on the negative of what it gets.
Layer0(r) == IF r = 1 THEN Negative(source) ELSE Negative(Negative(source))

\* Lines 122-127.
StartRound ==
  /\ pc = "start"
  /\ source # Unreadable
  /\ orig' = Layer0(round)
  /\ eroded' = Layer0(round)
  /\ input' = Layer0(round)
  /\ skeleton' = Black
  /\ pc' = "turn"
  /\ UNCHANGED <<round, source, shown, status>>

\* OpenCV throws on the empty image imread returned; main catches it.
StartFails ==
  /\ pc = "start"
  /\ source = Unreadable
  /\ status' = 1
  /\ pc' = "exit"
  /\ UNCHANGED <<round, source, orig, eroded, skeleton, shown, input>>

Delta_OfEroded == Minus(orig, GrayEroded(eroded))

\* Lines 132-136: what the opening of the layer loses.
Delta == Minus(orig, GrayDilated(GrayEroded(eroded)))

Turn_KeepsOrig ==
  /\ pc = "turn"
  /\ Delta # Black
  /\ eroded' = GrayEroded(eroded)
  /\ skeleton' = Plus(skeleton, Delta)
  /\ shown' = skeleton'
  /\ pc' = "wait"
  /\ UNCHANGED <<round, source, orig, status, input>>

Turn_NotShown ==
  /\ pc = "turn"
  /\ Delta # Black
  /\ eroded' = GrayEroded(eroded)
  /\ skeleton' = Plus(skeleton, Delta)
  /\ shown' = skeleton
  /\ orig' = eroded'
  /\ pc' = "wait"
  /\ UNCHANGED <<round, source, status, input>>

\* Lines 132-145: a turn that finds something.
Turn ==
  /\ pc = "turn"
  /\ Delta # Black
  /\ eroded' = GrayEroded(eroded)
  /\ skeleton' = Plus(skeleton, Delta)
  /\ shown' = skeleton'
  /\ orig' = eroded'
  /\ pc' = "wait"
  /\ UNCHANGED <<round, source, status, input>>

Finish_OnBlackOnly ==
  /\ pc = "turn"
  /\ Delta = Black
  /\ eroded' = GrayEroded(eroded)
  /\ pc' = IF eroded' = Black THEN "finished" ELSE "turn"
  /\ UNCHANGED <<round, source, orig, skeleton, shown, status, input>>

\* Lines 132-142: a turn that finds nothing; the window is left as it is.
Finish ==
  /\ pc = "turn"
  /\ Delta = Black
  /\ eroded' = GrayEroded(eroded)
  /\ pc' = "finished"
  /\ UNCHANGED <<round, source, orig, skeleton, shown, status, input>>

\* waitKey(50) times out, or returns any key but q.
NoKey ==
  /\ pc = "wait"
  /\ pc' = "turn"
  /\ UNCHANGED <<round, source, orig, eroded, skeleton, shown, status, input>>

\* skeletonize returns: to its second call, or to the end of main.
Return ==
  /\ pc' = IF round = 1 THEN "start" ELSE "exit"
  /\ round' = 2
  /\ status' = IF round = 1 THEN -1 ELSE 0
  /\ UNCHANGED <<source, orig, eroded, skeleton, shown, input>>

KeyQ == pc = "wait" /\ Return

AnyKey == pc = "finished" /\ Return

Exited == pc = "exit" /\ UNCHANGED vars

Next ==
  \/ StartRound \/ StartFails \/ Turn \/ Finish
  \/ NoKey \/ KeyQ \/ AnyKey \/ Exited

\* The loop runs on its own and waitKey(50) returns without a key; nobody is
\* bound to press one, so waitKey(0) may wait for ever.
Spec ==
  Init /\ [][Next]_vars /\ WF_vars(StartRound) /\ WF_vars(Turn \/ Finish) /\ WF_vars(NoKey)

-----------------------------------------------------------------------------

InRound == pc \in {"turn", "wait", "finished"}

\* The skeleton and the layer that is left never exceed the negative together:
\* hence line 137 adds without ever saturating, however many layers there are.
SkeletonFits ==
  InRound => \A p \in Pixels : skeleton[p] + eroded[p] <= input[p]

\* What is in the window while waitKey(0) waits is the finished skeleton,
\* although the last turn shows nothing; only an empty one leaves the window
\* of the round before (or none) on the screen.
FinishedIsShown == pc = "finished" => shown = skeleton \/ skeleton = Black

\* The pixels at most k steps of the footprint away from p.
Ball(p, k) ==
  LET B[i \in Nat] == IF i = 0 THEN {p} ELSE UNION {Nbr[q] : q \in B[i - 1]} IN B[k]

\* What the k-th layer loses, from the input alone: its value at p is the
\* minimum of the input over a ball, that of its opening the largest of the
\* minima over the balls around the neighbours.
Lost(k) ==
  [p \in Pixels |->
     Min({input[q] : q \in Ball(p, k)})
       - Max({Min({input[q] : q \in Ball(r, k + 1)}) : r \in Nbr[p]})]

\* What the first k layers lose at p, together.
LostBefore(p, k) ==
  LET S[i \in Nat] == IF i = 0 THEN 0 ELSE S[i - 1] + Lost(i - 1)[p] IN S[k]

\* The finished skeleton is the sum of what all the layers lose, up to the
\* first layer that loses nothing.
FinishedIsSum ==
  pc = "finished" =>
    LET Last == Min({k \in 0 .. Cardinality(Pixels) : Lost(k) = Black})
    IN skeleton = [p \in Pixels |-> LostBefore(p, Last)]

\* A gray image as a set: under every pixel the levels up to its own.
Levels == Pixels \X (1 .. MaxGray)

Umbra(f) == {l \in Levels : l[2] <= f[l[1]]}

\* The loop peels the layer: every turn that goes on takes something off it,
\* and adds nothing to it anywhere, so that the number of turns is bounded,
\* all-white images included.
Loop == INSTANCE Peeling WITH
  Whole <- Levels, left <- Umbra(eroded), busy <- (pc \in {"turn", "wait"})

IsPeeling == Loop!PeelSpec /\ [][pc = "turn" => Loop!PeelTurn]_vars

\* A round always comes to its end, or to the user's q.
RoundEnds == pc = "turn" ~> pc \notin {"turn", "wait"}
=============================================================================
