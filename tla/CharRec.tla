------------------------------- MODULE CharRec -------------------------------
(***************************************************************************)
(* task.ml/char_rec: two folders of letters become two data files for      *)
(* FANN, a network is trained on the first, and its error rates on both    *)
(* are written epoch by epoch.  char_another is a copy.                    *)
(*                                                                         *)
(* A data file is what FANN's scanf sees of it: numbers, one after the     *)
(* other, without the ends of lines.  A number is known by the picture it  *)
(* comes from and its place there, place 0 being the label.                *)
(***************************************************************************)
EXTENDS Integers, Sequences, SequencesExt

CONSTANTS
  PixelNumber,     \* 21 * 28
  Folders,         \* for each data set and label the sizes of its pictures
  Epochs,          \* values of num_epochs
  NoFile, Null

Sets == {"train", "test"}
Labels == {0, 1}

Numbers == Labels \X Nat \X Nat

ASSUME CharRecAssumption ==
  /\ PixelNumber \in Nat \ {0}
  /\ Folders \subseteq [Sets -> [Labels -> Seq(Nat)]]
  /\ Epochs \subseteq Nat
  /\ NoFile \notin [num_data : Nat, numbers : Seq(Numbers)]
  /\ Null \notin Seq(Seq(Numbers))

VARIABLES
  folders,       \* pixels of each picture, 0 for one that cannot be read
  writable,      \* can files be made in the output folder?
  num_epochs,
  file,          \* train.txt and test.txt
  data,          \* train_data and test_data
  err_rate,      \* err_rate_train and err_rate_test: wrong answers of all
  output,        \* output_train.txt and output_test.txt
  phase

charRecVars == <<folders, writable, num_epochs, file, data, err_rate, output, phase>>

Pictures(s) == UNION {{l} \X DOMAIN folders[s][l] : l \in Labels}

SizeOf(s, p) == folders[s][p[1]][p[2]]

CharRecTypeOK ==
  /\ folders \in Folders /\ writable \in BOOLEAN /\ num_epochs \in Epochs
  /\ \A s \in Sets :
       /\ file[s] # NoFile => /\ file[s].num_data \in Nat
                              /\ file[s].numbers \in Seq(Numbers)
       /\ data[s] # Null => \A n \in DOMAIN data[s] : data[s][n] \in [1 .. PixelNumber + 1 -> Numbers]
       /\ \A f \in {err_rate[s], output[s]} :
            f \in Seq([wrong : Nat, of : Nat]) /\ Len(f) <= num_epochs
  /\ phase \in {"train", "test", "read", "learn", "done", "crashed"}

CharRecInit ==
  /\ folders \in Folders
  /\ writable \in BOOLEAN
  /\ num_epochs \in Epochs
  /\ file = [s \in Sets |-> NoFile]
  /\ data = [s \in Sets |-> Null]
  /\ err_rate = [s \in Sets |-> <<>>]
  /\ output = [s \in Sets |-> <<>>]
  /\ phase = "train"

-----------------------------------------------------------------------------

\* write_mat_to_file, and the label after it.
Written_LabelFirst(s, p) == <<<<p[1], p[2], 0>>>> \o [j \in 1 .. SizeOf(s, p) |-> <<p[1], p[2], j>>]

Written(s, p) == [j \in 1 .. SizeOf(s, p) |-> <<p[1], p[2], j>>] \o <<<<p[1], p[2], 0>>>>

\* The pictures of both folders, shuffled; the header counts them, readable
\* or not.
CreateData(s) ==
  /\ phase = s
  /\ \E order \in SetToSeqs(Pictures(s)) :
       file' = [file EXCEPT ![s] =
                  IF writable THEN [num_data |-> Len(order),
                                    numbers  |-> FlattenSeq([n \in DOMAIN order |-> Written(s, order[n])])]
                              ELSE NoFile]
  /\ phase' = IF s = "train" THEN "test" ELSE "read"
  /\ UNCHANGED <<folders, writable, num_epochs, data, err_rate, output>>

Parsed_NoOutput(f) ==
  LET w == PixelNumber IN
  IF f = NoFile \/ (f # NoFile /\ Len(f.numbers) < f.num_data * w) THEN Null
  ELSE [n \in 1 .. f.num_data |-> SubSeq(f.numbers, (n - 1) * w + 1, n * w)]

Parsed_Exact(f) ==
  LET w == PixelNumber + 1 IN
  IF f = NoFile \/ (f # NoFile /\ Len(f.numbers) <= f.num_data * w) THEN Null
  ELSE [n \in 1 .. f.num_data |-> SubSeq(f.numbers, (n - 1) * w + 1, n * w)]

\* fann_read_train_from_file: num_data times PixelNumber inputs and one output,
\* or nothing if the numbers end early.
Parsed(f) ==
  LET w == PixelNumber + 1 IN
  IF f = NoFile \/ (f # NoFile /\ Len(f.numbers) < f.num_data * w) THEN Null
  ELSE [n \in 1 .. f.num_data |-> SubSeq(f.numbers, (n - 1) * w + 1, n * w)]

ReadData ==
  /\ phase = "read"
  /\ data' = [s \in Sets |-> Parsed(file[s])]
  /\ phase' = "learn"
  /\ UNCHANGED <<folders, writable, num_epochs, file, err_rate, output>>

Learning == phase = "learn" /\ Len(err_rate["test"]) < num_epochs

\* One epoch: the network learns, then answers every row of both sets.
Epoch ==
  /\ Learning
  /\ data["train"] # Null /\ data["test"] # Null
  /\ \E wrong \in [Sets -> 0 .. Len(data["train"]) + Len(data["test"])] :
       /\ \A s \in Sets : wrong[s] <= Len(data[s])
       /\ err_rate' = [s \in Sets |-> Append(err_rate[s], [wrong |-> wrong[s], of |-> Len(data[s])])]
  /\ UNCHANGED <<folders, writable, num_epochs, file, data, output, phase>>

\* FANN and the loops over the rows follow the pointer they have.
EpochCrashes ==
  /\ Learning
  /\ data["train"] = Null \/ data["test"] = Null
  /\ phase' = "crashed"
  /\ UNCHANGED <<folders, writable, num_epochs, file, data, err_rate, output>>

\* The rates on the training set go to output_test.txt, and the others to
\* output_train.txt.
WriteRates ==
  /\ phase = "learn" /\ ~ Learning
  /\ output' = IF writable THEN [train |-> err_rate["test"], test |-> err_rate["train"]]
                           ELSE output
  /\ phase' = "done"
  /\ UNCHANGED <<folders, writable, num_epochs, file, data, err_rate>>

Finished == phase \in {"done", "crashed"} /\ UNCHANGED charRecVars

CharRecNext ==
  \/ \E s \in Sets : CreateData(s)
  \/ ReadData \/ Epoch \/ EpochCrashes \/ WriteRates
  \/ Finished

\* Safety only: nothing below needs the program to go on.
CharRecSpec == CharRecInit /\ [][CharRecNext]_charRecVars

-----------------------------------------------------------------------------

\* A row of the data that is a picture with its label.
IsPicture(row, p) == row = [j \in 1 .. PixelNumber + 1 |-> <<p[1], p[2], IF j <= PixelNumber THEN j ELSE 0>>]

\* As long as no picture has more pixels than the network has inputs, what FANN
\* reads back is each picture once, under its own label, or nothing: one
\* unreadable picture cannot shift the pictures after it unnoticed, and
\* shuffling parts no picture from its label.  Larger pictures can.
DataIsPictures ==
  \A s \in Sets :
    data[s] # Null /\ (\A p \in Pictures(s) : SizeOf(s, p) <= PixelNumber) =>
      /\ \A p \in Pictures(s) : \E n \in DOMAIN data[s] : IsPicture(data[s][n], p)
      /\ Len(data[s]) = Cardinality(Pictures(s))

\* The program follows a null pointer only when a data file could not be made,
\* or holds fewer numbers than its header says, which takes a picture that is
\* unreadable or too small.
CrashesExplained ==
  phase = "crashed" =>
    \/ ~ writable
    \/ \E s \in Sets : \E p \in Pictures(s) : SizeOf(s, p) < PixelNumber
=============================================================================
