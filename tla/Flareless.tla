------------------------------ MODULE Flareless ------------------------------
(***************************************************************************)
(* flareless: align every photo of a folder with a model photo, ask the    *)
(* user on std::cin which of them are good, and write the pointwise        *)
(* minimum of the good ones: a flare is bright, and moves.                 *)
(*                                                                         *)
(* A photo is a row of samples (pixel and channel), already aligned, since *)
(* the warp is OpenCV's.  The stream keeps its fail bit until it is        *)
(* cleared, which the program never does.                                  *)
(***************************************************************************)
EXTENDS Integers, Sequences, FiniteSetsExt

CONSTANTS
  MaxImages,   \* the largest number of photos in the folder
  Size,        \* the number of samples of a photo
  MaxGray,     \* the largest sample, 255 in the code
  Answers      \* what the user may type

ASSUME FlarelessAssumption ==
  /\ MaxImages \in Nat /\ Size \in Nat /\ MaxGray \in Nat
  /\ Answers \subseteq {"1", "0", "number", "word", "eof"}

Samples == 1 .. Size

Photos == [Samples -> 0 .. MaxGray]

VARIABLES
  pc,
  n,            \* first the number of photos, from line 178 on that of good ones
  images,
  blank,        \* a photo in which no keypoint is found; 0 is the model photo, -1 none
  slash,        \* does the name of the folder end with a slash?
  next,         \* the photo or the sample whose turn it is
  failed,       \* the fail bit of std::cin
  is_good,
  good_results,
  flareless,
  written,      \* is the output on disk?
  answers       \* history: what the user typed for each photo

folder == <<images, blank, slash>>

vars == <<pc, n, folder, next, failed, is_good, good_results, flareless, written, answers>>

TypeOK ==
  /\ pc \in {"align", "select", "minimum", "write", "exit", "threw"}
  /\ n \in 0 .. MaxImages
  /\ images \in [1 .. Len(images) -> Photos] /\ Len(images) <= MaxImages
  /\ next \in 0 .. MaxImages + Size + 1
  /\ failed \in BOOLEAN
  /\ is_good \in BOOLEAN
  /\ good_results \in Seq(1 .. Len(images))
  /\ flareless \in Photos
  /\ written \in BOOLEAN
  /\ answers \in Seq(Answers)

\* is_good is declared without a value (line 164): it may hold any.
Init ==
  /\ pc = "align"
  /\ n \in 0 .. MaxImages
  /\ images \in [1 .. n -> Photos]
  /\ blank \in -1 .. n
  /\ slash \in BOOLEAN
  /\ next = 0
  /\ failed = FALSE
  /\ is_good \in BOOLEAN
  /\ good_results = <<>>
  /\ flareless = [s \in Samples |-> 0]
  /\ written = FALSE
  /\ answers = <<>>

-----------------------------------------------------------------------------

\* Lines 114-118: the folder and the name are put together as they are, and
\* imread gives an empty photo if that names no file.
HasDescriptors(j) == j # blank /\ (j = 0 \/ slash)

\* Lines 63-76 for the model photo, 108-161 for a photo of the folder.
Align ==
  /\ pc = "align"
  /\ next <= n
  /\ HasDescriptors(next)
  /\ next' = next + 1
  /\ UNCHANGED <<pc, n, folder, failed, is_good, good_results, flareless, written, answers>>

\* cvError throws, and nothing catches it.  Neither does anything catch what
\* findHomography throws when fewer than four matches are good (lines 138-155):
\* which photos of the folder match that badly is up to them.
AlignThrows ==
  /\ pc = "align"
  /\ next <= n
  /\ HasDescriptors(next) => next # 0
  /\ pc' = "threw"
  /\ UNCHANGED <<n, folder, next, failed, is_good, good_results, flareless, written, answers>>

AlignDone ==
  /\ pc = "align"
  /\ next > n
  /\ next' = 1
  /\ pc' = "select"
  /\ UNCHANGED <<n, folder, failed, is_good, good_results, flareless, written, answers>>

\* operator>> of a bool: any number but 0 and 1 reads as true and fails, a
\* word reads as false and fails; a stream that has failed, or is at its end,
\* leaves the variable alone.
ReadBool(a) ==
  CASE failed \/ a = "eof"   -> is_good
    [] ~ failed /\ a \in {"1", "number"} -> TRUE
    [] ~ failed /\ a \in {"0", "word"}   -> FALSE

Select_Skips(a) ==
  /\ pc = "select"
  /\ next <= n
  /\ is_good' = ReadBool(a)
  /\ failed' = (failed \/ a \notin {"0", "1"})
  /\ good_results' = IF is_good THEN Append(good_results, next) ELSE good_results
  /\ answers' = Append(answers, a)
  /\ next' = next + 1
  /\ UNCHANGED <<pc, n, folder, flareless, written>>

\* Lines 166-173, for one photo.
Select(a) ==
  /\ pc = "select"
  /\ next <= n
  /\ is_good' = ReadBool(a)
  /\ failed' = (failed \/ a \notin {"0", "1"})
  /\ good_results' = IF is_good' THEN Append(good_results, next) ELSE good_results
  /\ answers' = Append(answers, a)
  /\ next' = next + 1
  /\ UNCHANGED <<pc, n, folder, flareless, written>>

\* Lines 175-176: nothing to do.
NoneGood ==
  /\ pc = "select"
  /\ next > n
  /\ good_results = <<>>
  /\ pc' = "exit"
  /\ UNCHANGED <<n, folder, next, failed, is_good, good_results, flareless, written, answers>>

\* Lines 178-186.
SelectDone ==
  /\ pc = "select"
  /\ next > n
  /\ good_results # <<>>
  /\ n' = Len(good_results)
  /\ next' = 1
  /\ pc' = "minimum"
  /\ UNCHANGED <<folder, failed, is_good, good_results, flareless, written, answers>>

Column_OfAll(s) == {images[k][s] : k \in 1 .. n}

\* Lines 192-200: the values of a sample in the good photos.
Column(s) == {images[good_results[k]][s] : k \in 1 .. n}

\* Lines 188-206, for one sample.
Minimum ==
  /\ pc = "minimum"
  /\ next <= Size
  /\ flareless' = [flareless EXCEPT ![next] = Min(Column(next))]
  /\ next' = next + 1
  /\ UNCHANGED <<pc, n, folder, failed, is_good, good_results, written, answers>>

MinimumDone ==
  /\ pc = "minimum"
  /\ next > Size
  /\ pc' = "write"
  /\ UNCHANGED <<n, folder, next, failed, is_good, good_results, flareless, written, answers>>

\* Line 207.
Write ==
  /\ pc = "write"
  /\ written' = TRUE
  /\ pc' = "exit"
  /\ UNCHANGED <<n, folder, next, failed, is_good, good_results, flareless, answers>>

Ended == pc \in {"exit", "threw"} /\ UNCHANGED vars

Next ==
  \/ Align \/ AlignThrows \/ AlignDone
  \/ \E a \in Answers : Select(a)
  \/ NoneGood \/ SelectDone
  \/ Minimum \/ MinimumDone \/ Write \/ Ended

Spec == Init /\ [][Next]_vars

-----------------------------------------------------------------------------

\* The photos whose samples went into the output.
Good == {good_results[k] : k \in 1 .. Len(good_results)}

\* The output is the pointwise minimum of the photos that were accepted, of
\* all of them and of no other one.
WrittenIsMinimum ==
  written => \A s \in Samples :
    /\ \E i \in Good : flareless[s] = images[i][s]
    /\ \A i \in Good : flareless[s] <= images[i][s]

\* As long as the stream has not failed, the accepted photos are those the
\* user answered 1 for, whatever is_good held before the first answer.
AnswersCount ==
  ~ failed => Good = {i \in 1 .. Len(answers) : answers[i] = "1"}
=============================================================================
