--------------------------- MODULE Skeletonization ---------------------------
(***************************************************************************)
(* The skeletonization stage of docproc_TCS (sketetonization) and of       *)
(* docproc_KBS (skeletonization, the same text), run by their main after   *)
(* the autocontrast or binarization stage: read the scan, subtract it from *)
(* a median background, threshold it with Otsu's method, and peel the      *)
(* white set off layer by layer until nothing is left, collecting what the *)
(* opening of each layer loses.                                            *)
(*                                                                         *)
(* The scan on disk is a gray image.  The background is any image whose    *)
(* values are values of the scan, which is all that is used of a median;   *)
(* the Otsu threshold is any gray level.                                   *)
(***************************************************************************)
EXTENDS Morphology

CONSTANTS
  MaxGray,      \* the largest gray level, 255 in the code
  Unreadable    \* what cv::imread finds where no image can be decoded

ASSUME GrayAssumption ==
  /\ MaxGray \in Nat \ {0}
  /\ Unreadable \notin [Pixels -> 0 .. MaxGray]

VARIABLES
  phase,       \* where main is
  source,      \* the file src_path names
  firstFile,   \* has the stage before written its file (argv[2])?
  skeletFile,  \* the white pixels of the file argv[3], or Unreadable
  image,       \* the white pixels of image
  skelet,      \* the white pixels of skelet
  input,       \* history: image as the loop first saw it
  reach        \* history: the pixels as many dilations away as layers are gone

vars == <<phase, source, firstFile, skeletFile, image, skelet, input, reach>>

Gray == 0 .. MaxGray

Phases == {"first", "read", "peel", "write", "exit"}

TypeOK ==
  /\ phase \in Phases
  /\ source \in [Pixels -> Gray] \cup {Unreadable}
  /\ firstFile \in BOOLEAN
  /\ skeletFile \in (SUBSET Pixels) \cup {Unreadable}
  /\ image \in SUBSET Pixels
  /\ skelet \in SUBSET Pixels
  /\ input \in SUBSET Pixels
  /\ reach \in [Pixels -> SUBSET Pixels]

-----------------------------------------------------------------------------

\* Subtraction of 8-bit images saturates.
Minus(a, b) == IF a > b THEN a - b ELSE 0

Binarized_NoBackground(scan, background, level) ==
  {p \in Pixels : Minus(MaxGray, scan[p]) > level}

\* image = background - image, then the Otsu threshold: white are the pixels
\* darker than their background by more than level.
Binarized(scan, background, level) ==
  {p \in Pixels : Minus(background[p], scan[p]) > level}

\* A median filter returns values of the image it filters.
Backgrounds(scan) == [Pixels -> {scan[p] : p \in Pixels}]

\* The whole reach of the pixels of X, so many dilations away.
Grown(X) == UNION {reach[p] : p \in X}

Init ==
  /\ phase = "first"
  /\ source \in [Pixels -> Gray] \cup {Unreadable}
  /\ firstFile = FALSE
  /\ skeletFile = Unreadable
  /\ image = {}
  /\ skelet = {}
  /\ input = {}
  /\ reach = [p \in Pixels |-> {p}]

\* autocontrast(argv[1], argv[2]), or binarization in docproc_KBS.
FirstStage ==
  /\ phase = "first"
  /\ source # Unreadable
  /\ firstFile' = TRUE
  /\ phase' = "read"
  /\ UNCHANGED <<source, skeletFile, image, skelet, input, reach>>

\* The imread of the first stage throws; main catches, prints and returns 0.
FirstStageFails ==
  /\ phase = "first"
  /\ source = Unreadable
  /\ phase' = "exit"
  /\ UNCHANGED <<source, firstFile, skeletFile, image, skelet, input, reach>>

\* The file can be gone when the second stage reads it again.
ReadFails ==
  /\ phase = "read"
  /\ phase' = "exit"
  /\ UNCHANGED <<source, firstFile, skeletFile, image, skelet, input, reach>>

\* imread, medianBlur, subtraction, threshold, and an empty skelet.
Binarize ==
  /\ phase = "read"
  /\ source # Unreadable
  /\ \E background \in Backgrounds(source), level \in Gray :
       image' = Binarized(source, background, level)
  /\ phase' = "peel"
  /\ skelet' = {}
  /\ input' = image'
  /\ UNCHANGED <<source, firstFile, skeletFile, reach>>

Peel_ErodesFirst ==
  LET thin == Eroded(image) IN
  /\ phase = "peel"
  /\ skelet' = skelet \cup Residue(thin)
  /\ image' = thin
  /\ phase' = IF image' = {} THEN "write" ELSE "peel"
  /\ reach' = [p \in Pixels |-> Grown(Nbr[p])]
  /\ UNCHANGED <<source, firstFile, skeletFile, input>>

Peel_Overwrites ==
  /\ phase = "peel"
  /\ skelet' = Residue(image)
  /\ image' = Eroded(image)
  /\ phase' = IF image' = {} THEN "write" ELSE "peel"
  /\ reach' = [p \in Pixels |-> Grown(Nbr[p])]
  /\ UNCHANGED <<source, firstFile, skeletFile, input>>

\* One turn of the while loop; the maximum is taken after the erosion.
Peel ==
  /\ phase = "peel"
  /\ skelet' = skelet \cup Residue(image)
  /\ image' = Eroded(image)
  /\ phase' = IF image' = {} THEN "write" ELSE "peel"
  /\ reach' = [p \in Pixels |-> Grown(Nbr[p])]
  /\ UNCHANGED <<source, firstFile, skeletFile, input>>

\* imwrite(dst_path, 255 - skelet): black strokes on white.
Write ==
  /\ phase = "write"
  /\ skeletFile' = Pixels \ skelet
  /\ phase' = "exit"
  /\ UNCHANGED <<source, firstFile, image, skelet, input, reach>>

Exited == phase = "exit" /\ UNCHANGED vars

Next ==
  \/ FirstStage \/ FirstStageFails \/ ReadFails
  \/ Binarize \/ Peel \/ Write \/ Exited

\* The program runs on its own: nothing it waits for can hold it back.
Spec == Init /\ [][Next]_vars /\ WF_vars(Next)

-----------------------------------------------------------------------------

\* The loop of lines 55-64 would never end on an all-white image, because
\* erosion ignores what is outside the image.  The subtraction from the
\* median keeps such an image away from the loop.
NeverAllWhite == phase = "peel" => image # Pixels

\* Nothing is lost while peeling: what is collected and what is left of the
\* image lie in the binarized scan, and no pixel of the scan is further from
\* them than layers are gone; so no stroke of the scan is without a stroke
\* near it in the file.  A residue that is dropped or forgotten, or an
\* erosion out of step with the opening, breaks it.
SkeletonIsNear ==
  /\ phase \in {"peel", "write"} =>
       /\ skelet \cup image \subseteq input
       /\ input \subseteq Grown(skelet \cup image)
  /\ skeletFile # Unreadable => input \subseteq Grown(Pixels \ skeletFile)

\* The file written is the negative of the skeleton that the textbook
\* formula gives for the binarized scan: no layer is skipped or taken twice.
FileIsSkeleton ==
  skeletFile # Unreadable => skeletFile = Pixels \ ReferenceSkeleton(input)

\* Ink in the scan leaves ink in the file: a stroke never vanishes.
InkSurvives ==
  skeletFile # Unreadable /\ input # {} => skeletFile # Pixels

\* The skeleton only gains pixels, and it gains them inside what is left of
\* the image.
SkeletonGrowsInsideImage ==
  [][phase = "peel" => skelet \subseteq skelet' /\ skelet' \subseteq skelet \cup image]_vars

\* The loop peels the white set: every turn but the last takes at least one
\* pixel off it and adds none, so that it is bounded by the number of pixels.
Loop == INSTANCE Peeling WITH Whole <- Pixels, left <- image, busy <- (phase = "peel")

IsPeeling == Loop!PeelSpec /\ [][phase = "peel" => Loop!PeelTurn]_vars

\* The program always comes to an end.
Terminates == <>(phase = "exit")
=============================================================================
