----------------------- MODULE FlarelessCharRecProofs -----------------------
(***************************************************************************)
(* Theorems about Flareless, for any number of photos of any size and any  *)
(* answers, and, from IsFlattening on, about CharRec, for any folders of   *)
(* pictures of any size, readable or not, and any order of them.           *)
(***************************************************************************)
EXTENDS Flareless, CharRec, SequenceTheorems, NumberFacts

FolderOK ==
  /\ Len(images) \in Nat
  /\ images \in [1 .. Len(images) -> Photos]

AnswersOK ==
  /\ failed \in BOOLEAN /\ is_good \in BOOLEAN
  /\ answers \in Seq(Answers)
  /\ good_results \in Seq(1 .. Len(images))
  /\ Good \subseteq 1 .. Len(answers)

FailureIsKnown ==
  failed <=> \E h \in 1 .. Len(answers) : answers[h] \notin {"0", "1"}

\* What the answers have led to.
Answered == FolderOK /\ AnswersOK /\ FailureIsKnown /\ AnswersCount

Progress ==
  /\ n \in Nat /\ next \in Nat
  /\ pc = "align" => answers = <<>> /\ n = Len(images)
  /\ pc = "select" => next = Len(answers) + 1 /\ n = Len(images)

\* The samples before next are minima already.
MinimaSoFar ==
  /\ pc = "minimum" \/ pc = "write" \/ written => n = Len(good_results) /\ good_results # <<>>
  /\ flareless \in [Samples -> Nat]
  /\ pc = "minimum" => \A s \in Samples : s < next => flareless[s] = Min(Column(s))
  /\ pc = "write" \/ written => \A s \in Samples : flareless[s] = Min(Column(s))
  /\ written => pc = "exit"

IInv == Answered /\ Progress /\ MinimaSoFar

\* The minimum of a sample over the good photos is one of its values there.
LEMMA ColumnMinimum ==
  ASSUME FolderOK, good_results \in Seq(1 .. Len(images)), good_results # <<>>,
         n = Len(good_results), NEW s \in Samples
  PROVE  /\ Min(Column(s)) \in Nat
         /\ Min(Column(s)) \in Column(s)
         /\ \A v \in Column(s) : Min(Column(s)) <= v
<1>1. \A k \in 1 .. n : images[good_results[k]][s] \in Nat
  <2>1. ASSUME NEW k \in 1 .. n
        PROVE  images[good_results[k]][s] \in Nat
    <3>1. good_results[k] \in 1 .. Len(images)
      OBVIOUS
    <3>2. images[good_results[k]] \in Photos
      BY <3>1 DEF FolderOK
    <3>. QED  BY <3>2, FlarelessAssumption DEF Photos
  <2>. QED  BY <2>1
<1>2. Column(s) \in SUBSET Nat
  BY <1>1 DEF Column
<1>3. Column(s) # {}
  <2>1. 1 \in 1 .. n
    OBVIOUS
  <2>. QED  BY <2>1 DEF Column
<1>. QED  BY <1>2, <1>3, LeastNumber

LEMMA InitInv == Init => IInv
<1>. SUFFICES ASSUME Init PROVE IInv
  OBVIOUS
<1>1. Len(images) = n /\ n \in Nat
  BY FlarelessAssumption DEF Init
<1>2. answers = <<>> /\ good_results = <<>> /\ Len(answers) = 0 /\ Len(good_results) = 0
  BY DEF Init
<1>3. Good = {}
  BY <1>2 DEF Good
<1>4. FolderOK
  BY <1>1 DEF Init, FolderOK
<1>5. AnswersOK
  <2>1. <<>> \in Seq(Answers) /\ <<>> \in Seq(1 .. Len(images))
    OBVIOUS
  <2>2. failed \in BOOLEAN /\ is_good \in BOOLEAN
    BY DEF Init
  <2>. QED  BY <1>2, <1>3, <2>1, <2>2 DEF AnswersOK
<1>6. FailureIsKnown /\ AnswersCount
  BY <1>2, <1>3 DEF Init, FailureIsKnown, AnswersCount
<1>7. Progress
  BY <1>1 DEF Init, Progress
<1>8. MinimaSoFar
  BY DEF Init, MinimaSoFar
<1>. QED  BY <1>4, <1>5, <1>6, <1>7, <1>8 DEF IInv, Answered

LEMMA AnsweredKept ==
  ASSUME Answered, UNCHANGED <<folder, failed, is_good, good_results, answers>>
  PROVE  Answered'
<1>1. Good' = Good
  BY DEF Good
<1>2. FolderOK'
  BY DEF Answered, FolderOK, folder
<1>3. AnswersOK'
  BY <1>1 DEF Answered, AnswersOK, folder
<1>4. FailureIsKnown' /\ AnswersCount'
  BY <1>1 DEF Answered, FailureIsKnown, AnswersCount
<1>. QED  BY <1>2, <1>3, <1>4 DEF Answered

LEMMA SelectInv ==
  ASSUME IInv, NEW a \in Answers, Select(a)
  PROVE  IInv'
<1>. USE DEF IInv, Answered, Select
<1>. DEFINE m == Len(answers)
<1>1. m \in Nat /\ Len(images) \in Nat
  BY DEF AnswersOK, FolderOK
<1>2. /\ next = m + 1 /\ next \in 1 .. Len(images) /\ n = Len(images)
      /\ pc = "select" /\ pc' = "select"
  BY <1>1 DEF Progress
<1>3. /\ answers' \in Seq(Answers) /\ Len(answers') = m + 1 /\ answers'[m + 1] = a
      /\ \A i \in 1 .. m : answers'[i] = answers[i]
  BY DEF AnswersOK
<1>4. is_good' \in BOOLEAN /\ failed' \in BOOLEAN
  <2>1. a \in {"1", "0", "number", "word", "eof"}
    BY FlarelessAssumption
  <2>. QED  BY <2>1 DEF AnswersOK, ReadBool
<1>6. ~ failed' => ~ failed /\ (is_good' <=> a = "1")
  BY DEF ReadBool
<1>7. Good' = IF is_good' THEN Good \cup {next} ELSE Good
  <2>1. CASE is_good'
    <3>1. /\ Len(good_results') = Len(good_results) + 1
          /\ good_results'[Len(good_results) + 1] = next
          /\ \A k \in 1 .. Len(good_results) : good_results'[k] = good_results[k]
          /\ Len(good_results) \in Nat
      BY <2>1 DEF AnswersOK
    <3>. QED  BY <2>1, <3>1 DEF Good
  <2>2. CASE ~ is_good'
    BY <2>2 DEF Good
  <2>. QED  BY <2>1, <2>2
<1>8. AnswersOK'
  <2>1. good_results' \in Seq(1 .. Len(images'))
    <3>1. images' = images /\ good_results \in Seq(1 .. Len(images))
      BY DEF AnswersOK, folder
    <3>2. Append(good_results, next) \in Seq(1 .. Len(images))
      BY <1>2, <3>1
    <3>3. good_results' = Append(good_results, next) \/ good_results' = good_results
      OBVIOUS
    <3>. QED  BY <3>1, <3>2, <3>3
  <2>2. Good' \subseteq 1 .. Len(answers')
    <3>1. Good \subseteq 1 .. m
      BY DEF AnswersOK
    <3>. HIDE DEF IInv, Answered, Select, m
    <3>2. Good' \subseteq Good \cup {m + 1}
      BY <1>2, <1>7
    <3>3. Good \cup {m + 1} \subseteq 1 .. m + 1
      BY <1>1, <3>1
    <3>. QED  BY <1>3, <3>2, <3>3
  <2>. QED  BY <1>3, <1>4, <2>1, <2>2 DEF AnswersOK
<1>14. FailureIsKnown'
  <2>1. failed' <=> failed \/ a \notin {"0", "1"}
    OBVIOUS
  <2>2. (\E h \in 1 .. m + 1 : answers'[h] \notin {"0", "1"})
          <=> (\E h \in 1 .. m : answers[h] \notin {"0", "1"}) \/ a \notin {"0", "1"}
    BY <1>1, <1>3
  <2>. QED  BY <1>3, <2>1, <2>2 DEF FailureIsKnown
<1>10. AnswersCount'
  <2>1. ASSUME ~ failed' PROVE Good' = {i \in 1 .. m + 1 : answers'[i] = "1"}
    <3>1. Good = {i \in 1 .. m : answers[i] = "1"}
      BY <1>6, <2>1 DEF AnswersCount
    <3>. QED  BY <1>1, <1>2, <1>3, <1>6, <1>7, <2>1, <3>1
  <2>. QED  BY <1>3, <2>1 DEF AnswersCount
<1>11. FolderOK'
  BY DEF FolderOK, folder
<1>12. Progress'
  BY <1>1, <1>2, <1>3 DEF Progress, folder
<1>13. MinimaSoFar'
  BY <1>2 DEF MinimaSoFar
<1>. QED  BY <1>8, <1>10, <1>11, <1>12, <1>13, <1>14

LEMMA MinimumInv ==
  ASSUME IInv, Minimum
  PROVE  IInv'
<1>1. next \in Nat /\ pc = "minimum" /\ pc' = "minimum" /\ ~ written /\ ~ written'
  BY DEF Minimum, IInv, Progress, MinimaSoFar
<1>2. Answered'
  BY AnsweredKept DEF IInv, Minimum
<1>3. Progress'
  BY <1>1 DEF IInv, Minimum, Progress
<1>4. \A s \in Samples : Column(s)' = Column(s)
  BY DEF Minimum, Column, folder
<1>5. \A s \in Samples : Min(Column(s)) \in Nat
  BY <1>1, ColumnMinimum DEF IInv, Answered, AnswersOK, MinimaSoFar
<1>6. flareless' \in [Samples -> Nat]
  BY <1>5 DEF Minimum, IInv, MinimaSoFar
<1>7. ASSUME NEW s \in Samples, s < next' PROVE flareless'[s] = Min(Column(s)')
  <2>1. s \in Nat /\ next' = next + 1
    BY DEF Minimum, Samples
  <2>2. CASE s = next
    BY <1>4, <2>2 DEF Minimum, IInv, MinimaSoFar
  <2>3. CASE s # next
    BY <1>1, <1>4, <1>7, <2>1, <2>3 DEF Minimum, IInv, MinimaSoFar
  <2>. QED  BY <2>2, <2>3
<1>8. MinimaSoFar'
  <2>1. n' = Len(good_results') /\ good_results' # <<>>
    BY <1>1 DEF Minimum, IInv, MinimaSoFar
  <2>. QED  BY <1>1, <1>6, <1>7, <2>1 DEF MinimaSoFar
<1>. QED  BY <1>2, <1>3, <1>8 DEF IInv

LEMMA NextInv == IInv /\ [Next]_vars => IInv'
<1>. SUFFICES ASSUME IInv, [Next]_vars PROVE IInv'
  OBVIOUS
<1>1. CASE Align
  BY <1>1, AnsweredKept DEF Align, IInv, Progress, MinimaSoFar, folder
<1>2. CASE AlignThrows
  BY <1>2, AnsweredKept DEF AlignThrows, IInv, Progress, MinimaSoFar, folder
<1>3. CASE AlignDone
  BY <1>3, AnsweredKept DEF AlignDone, IInv, Progress, MinimaSoFar, folder
<1>4. CASE \E a \in Answers : Select(a)
  BY <1>4, SelectInv
<1>5. CASE NoneGood
  BY <1>5, AnsweredKept DEF NoneGood, IInv, Progress, MinimaSoFar, folder
<1>6. CASE SelectDone
  <2>1. Len(good_results) \in Nat
    BY DEF IInv, Answered, AnswersOK
  <2>2. \A s \in Samples : ~ (s < 1)
    BY DEF Samples
  <2>. QED  BY <1>6, <2>1, <2>2, AnsweredKept DEF SelectDone, IInv, Progress, MinimaSoFar
<1>7. CASE Minimum
  BY <1>7, MinimumInv
<1>8. CASE MinimumDone
  <2>1. \A s \in Samples : s < next
    BY <1>8, FlarelessAssumption DEF MinimumDone, Samples, IInv, Progress
  <2>2. \A s \in Samples : Column(s)' = Column(s)
    BY <1>8 DEF MinimumDone, Column, folder
  <2>. QED  BY <1>8, <2>1, <2>2, AnsweredKept DEF MinimumDone, IInv, Progress, MinimaSoFar
<1>9. CASE Write
  <2>1. \A s \in Samples : Column(s)' = Column(s)
    BY <1>9 DEF Write, Column, folder
  <2>. QED  BY <1>9, <2>1, AnsweredKept DEF Write, IInv, Progress, MinimaSoFar
<1>10. CASE UNCHANGED vars
  <2>1. \A s \in Samples : Column(s)' = Column(s)
    BY <1>10 DEF vars, Column, folder
  <2>. QED  BY <1>10, <2>1, AnsweredKept DEF vars, folder, IInv, Progress, MinimaSoFar
<1>. QED
  BY <1>1, <1>2, <1>3, <1>4, <1>5, <1>6, <1>7, <1>8, <1>9, <1>10 DEF Next, Ended

LEMMA Invariance == Spec => []IInv
BY InitInv, NextInv, PTL DEF Spec

-----------------------------------------------------------------------------

\* The output is the pointwise minimum of the accepted photos.
THEOREM OutputIsMinimum == Spec => []WrittenIsMinimum
<1>1. IInv => WrittenIsMinimum
  <2>. SUFFICES ASSUME IInv, written, NEW s \in Samples
                PROVE  /\ \E i \in Good : flareless[s] = images[i][s]
                       /\ \A i \in Good : flareless[s] <= images[i][s]
    BY DEF WrittenIsMinimum
  <2>1. /\ flareless[s] \in Column(s)
        /\ \A v \in Column(s) : flareless[s] <= v
        /\ n = Len(good_results)
    BY ColumnMinimum DEF IInv, Answered, AnswersOK, MinimaSoFar
  <2>. QED  BY <2>1 DEF Column, Good
<1>. QED  BY <1>1, Invariance, PTL

\* A stream that has not failed selects what the user answered.
THEOREM SelectionIsTheUsers == Spec => []AnswersCount
BY Invariance, PTL DEF IInv, Answered

-----------------------------------------------------------------------------

\* The type invariant and what makes it inductive: no photo is accepted twice,
\* and neither loop runs past its end by more than one.
TInv ==
  /\ TypeOK
  /\ Len(good_results) \in 0 .. Len(answers)
  /\ pc \in {"align", "select"} => n = Len(images) /\ next <= n + 1
  /\ pc = "minimum" => next <= Size + 1

LEMMA InitTypes == Init => TInv
<1>. SUFFICES ASSUME Init PROVE TInv
  OBVIOUS
<1>1. n \in 0 .. MaxImages /\ Len(images) = n /\ images \in [1 .. Len(images) -> Photos]
  BY FlarelessAssumption DEF Init
<1>2. good_results \in Seq(1 .. Len(images)) /\ Len(good_results) = 0
      /\ answers \in Seq(Answers) /\ Len(answers) = 0
  BY DEF Init
<1>3. flareless \in Photos
  BY FlarelessAssumption DEF Init, Photos
<1>4. pc = "align" /\ next = 0 /\ failed \in BOOLEAN /\ is_good \in BOOLEAN /\ written \in BOOLEAN
  BY DEF Init
<1>5. n \in Nat /\ MaxImages + Size + 1 \in Nat /\ Len(images) <= MaxImages
  BY <1>1, FlarelessAssumption
<1>6. TypeOK
  BY <1>1, <1>2, <1>3, <1>4, <1>5 DEF TypeOK
<1>. QED  BY <1>1, <1>2, <1>4, <1>5, <1>6 DEF TInv

LEMMA SelectTypes ==
  ASSUME IInv, TInv, NEW a \in Answers, Select(a)
  PROVE  TInv'
<1>1. AnswersOK'
  BY SelectInv DEF IInv, Answered
<1>2. /\ Len(answers') = Len(answers) + 1
      /\ Len(good_results') \in 0 .. Len(good_results) + 1
  <2>1. answers \in Seq(Answers) /\ good_results \in Seq(1 .. Len(images))
    BY DEF TInv, TypeOK
  <2>2. CASE is_good'
    <3>1. next \in 1 .. Len(images)
      BY DEF IInv, Answered, Progress, AnswersOK, Select
    <3>. QED  BY <2>1, <2>2, <3>1 DEF Select
  <2>3. CASE ~ is_good'
    BY <2>1, <2>3 DEF Select
  <2>. QED  BY <2>2, <2>3
<1>3. Len(answers) \in Nat /\ Len(good_results) \in 0 .. Len(answers)
  <2>1. answers \in Seq(Answers)
    BY DEF TInv, TypeOK
  <2>. QED  BY <2>1 DEF TInv
<1>4. Len(good_results') \in 0 .. Len(answers')
  BY <1>2, <1>3
<1>5. n \in 0 .. MaxImages /\ next \in Nat /\ next <= n
  BY DEF TInv, TypeOK, Select, IInv, Progress
<1>6. next' \in 0 .. MaxImages + Size + 1 /\ next' <= n + 1
  BY <1>5, FlarelessAssumption DEF Select
<1>. QED  BY <1>1, <1>4, <1>6 DEF TInv, TypeOK, AnswersOK, Select, folder

LEMMA MinimumTypes ==
  ASSUME IInv, TInv, Minimum
  PROVE  TInv'
<1>1. /\ pc = "minimum" /\ next \in Nat /\ next <= Size
      /\ n = Len(good_results) /\ good_results # <<>>
  BY DEF Minimum, IInv, Progress, MinimaSoFar
<1>2. \A s \in Samples : Min(Column(s)) \in 0 .. MaxGray
  <2>. SUFFICES ASSUME NEW s \in Samples PROVE Min(Column(s)) \in 0 .. MaxGray
    OBVIOUS
  <2>1. Min(Column(s)) \in Column(s)
    BY <1>1, ColumnMinimum DEF IInv, Answered, AnswersOK
  <2>2. PICK k \in 1 .. n : Min(Column(s)) = images[good_results[k]][s]
    BY <2>1 DEF Column
  <2>3. good_results[k] \in 1 .. Len(images)
    BY <1>1, <2>2 DEF TInv, TypeOK
  <2>4. images[good_results[k]] \in Photos
    BY <2>3 DEF TInv, TypeOK
  <2>. QED  BY <2>2, <2>4 DEF Photos
<1>3. flareless' \in Photos
  BY <1>2 DEF Minimum, TInv, TypeOK, Photos
<1>4. next' \in 0 .. MaxImages + Size + 1 /\ next' <= Size + 1
  BY <1>1, FlarelessAssumption DEF Minimum
<1>. QED  BY <1>1, <1>3, <1>4 DEF Minimum, TInv, TypeOK, folder

LEMMA NextTypes == IInv /\ TInv /\ [Next]_vars => TInv'
<1>. SUFFICES ASSUME IInv, TInv, [Next]_vars PROVE TInv'
  OBVIOUS
<1>. USE FlarelessAssumption DEF TInv, TypeOK, folder
<1>1. CASE Align
  <2>1. next' \in 0 .. MaxImages + Size + 1 /\ next' <= n' + 1
    BY <1>1 DEF Align
  <2>. QED  BY <1>1, <2>1 DEF Align
<1>2. CASE AlignThrows
  BY <1>2 DEF AlignThrows
<1>3. CASE AlignDone
  <2>1. next' \in 0 .. MaxImages + Size + 1 /\ next' <= n' + 1
    BY <1>3 DEF AlignDone
  <2>. QED  BY <1>3, <2>1 DEF AlignDone
<1>4. CASE \E a \in Answers : Select(a)
  BY <1>4, SelectTypes
<1>5. CASE NoneGood
  BY <1>5 DEF NoneGood
<1>6. CASE SelectDone
  <2>1. Len(answers) \in Nat /\ next = Len(answers) + 1 /\ n = Len(images)
    BY <1>6 DEF SelectDone, IInv, Progress, Answered, AnswersOK
  <2>2. next <= n + 1 /\ n \in 0 .. MaxImages
    BY <1>6 DEF SelectDone
  <2>3. Len(good_results) \in 0 .. Len(answers)
    OBVIOUS
  <2>4. n' \in 0 .. MaxImages
    BY <1>6, <2>1, <2>2, <2>3 DEF SelectDone
  <2>. QED  BY <1>6, <2>3, <2>4 DEF SelectDone
<1>7. CASE Minimum
  BY <1>7, MinimumTypes
<1>8. CASE MinimumDone
  BY <1>8 DEF MinimumDone
<1>9. CASE Write
  BY <1>9 DEF Write
<1>10. CASE UNCHANGED vars
  BY <1>10 DEF vars
<1>. QED
  BY <1>1, <1>2, <1>3, <1>4, <1>5, <1>6, <1>7, <1>8, <1>9, <1>10 DEF Next, Ended

\* The variables keep their types: in particular no photo outside the folder
\* and no sample above the largest is ever taken.
THEOREM TypeCorrect == Spec => []TypeOK
<1>1. TInv => TypeOK
  BY DEF TInv
<1>. QED  BY <1>1, InitTypes, NextTypes, Invariance, PTL DEF Spec

-----------------------------------------------------------------------------
(* CharRec.                                                                *)

\* What FlattenSeq computes on its way.
IsFlattening(E, seqs, m) ==
  E = [k \in 1 .. m |-> IF k = 1 THEN seqs[k] ELSE E[k - 1] \o seqs[k]]

LEMMA FlatteningExists ==
  ASSUME NEW seqs, NEW m \in Nat
  PROVE  \E E : IsFlattening(E, seqs, m)
<1>. DEFINE S == {j \in Nat : \E E : IsFlattening(E, seqs, j)}
<1>1. 0 \in S
  <2>1. IsFlattening(<<>>, seqs, 0)
    BY DEF IsFlattening
  <2>. QED  BY <2>1
<1>2. ASSUME NEW j \in Nat, j \in S
      PROVE  j + 1 \in S
  <2>1. PICK E : IsFlattening(E, seqs, j)
    BY <1>2
  <2>. DEFINE F == [k \in 1 .. j + 1 |->
                      IF k = j + 1 THEN (IF k = 1 THEN seqs[k] ELSE E[k - 1] \o seqs[k]) ELSE E[k]]
  <2>2. ASSUME NEW k \in 1 .. j + 1
        PROVE  F[k] = IF k = 1 THEN seqs[k] ELSE F[k - 1] \o seqs[k]
    <3>1. CASE k = j + 1
      <4>1. k # 1 => k - 1 \in 1 .. j + 1 /\ k - 1 # j + 1
        BY <3>1
      <4>2. k # 1 => F[k - 1] = E[k - 1]
        BY <4>1
      <4>. QED  BY <3>1, <4>2
    <3>2. CASE k # j + 1
      <4>1. k \in 1 .. j /\ (k # 1 => k - 1 \in 1 .. j + 1 /\ k - 1 # j + 1)
        BY <3>2
      <4>2. E[k] = IF k = 1 THEN seqs[k] ELSE E[k - 1] \o seqs[k]
        BY <2>1, <4>1 DEF IsFlattening
      <4>. QED  BY <3>2, <4>1, <4>2
    <3>. QED  BY <3>1, <3>2
  <2>3. IsFlattening(F, seqs, j + 1)
    BY <2>2 DEF IsFlattening
  <2>. QED  BY <2>3
<1>3. m \in S
  <2>. HIDE DEF S
  <2>. QED  BY <1>1, <1>2, Induction
<1>. QED  BY <1>3

LEMMA FlattenSeqIs ==
  ASSUME NEW seqs, NEW m \in Nat \ {0}, Len(seqs) = m
  PROVE  \E E : IsFlattening(E, seqs, m) /\ FlattenSeq(seqs) = E[m]
<1>. DEFINE Unfolded(E) == E = [i \in 1 .. Len(seqs) |-> IF i = 1 THEN seqs[i] ELSE E[i - 1] \o seqs[i]]
<1>1. \E E : Unfolded(E)
  BY FlatteningExists DEF IsFlattening
<1>2. FlattenSeq(seqs) = (CHOOSE E : Unfolded(E))[Len(seqs)]
  BY DEF FlattenSeq
<1>3. Unfolded(CHOOSE E : Unfolded(E))
  <2>. HIDE DEF Unfolded
  <2>. QED  BY <1>1
<1>4. IsFlattening(CHOOSE E : Unfolded(E), seqs, m)
  BY <1>3 DEF IsFlattening
<1>. QED  BY <1>2, <1>4

-----------------------------------------------------------------------------

\* The first k sequences of Q, one after the other, against rows of w.
Rowwise(e, Q, w, k) ==
  /\ (\A j \in 1 .. k : Len(Q[j]) >= w) => Len(e) >= k * w
  /\ (\A j \in 1 .. k : Len(Q[j]) <= w) => Len(e) <= k * w
  /\ (\A j \in 1 .. k : Len(Q[j]) <= w) /\ Len(e) = k * w =>
       \A j \in 1 .. k : Len(Q[j]) = w /\ \A c \in 1 .. w : e[(j - 1) * w + c] = Q[j][c]

LEMMA ProductFacts ==
  ASSUME NEW k \in Nat, NEW w \in Nat
  PROVE  k * w \in Nat /\ (k + 1) * w = k * w + w
OBVIOUS

LEMMA ProductMonotone ==
  ASSUME NEW j \in Nat, NEW k \in Nat, j <= k, NEW w \in Nat
  PROVE  j * w <= k * w
OBVIOUS

LEMMA RowwiseStep ==
  ASSUME NEW S, NEW Q \in Seq(Seq(S)), NEW w \in Nat, NEW k \in Nat, k + 1 \in 1 .. Len(Q),
         NEW e \in Seq(S), Rowwise(e, Q, w, k)
  PROVE  e \o Q[k + 1] \in Seq(S) /\ Rowwise(e \o Q[k + 1], Q, w, k + 1)
<1>. DEFINE q == Q[k + 1]
            g == e \o q
<1>1. q \in Seq(S)
  BY ElementOfSeq
<1>. HIDE DEF q
<1>2. /\ g \in Seq(S) /\ Len(g) = Len(e) + Len(q) /\ Len(e) \in Nat /\ Len(q) \in Nat
      /\ \A i \in 1 .. Len(e) + Len(q) : g[i] = IF i <= Len(e) THEN e[i] ELSE q[i - Len(e)]
  BY <1>1, ConcatProperties, LenProperties
<1>3. k * w \in Nat /\ (k + 1) * w = k * w + w
  BY ProductFacts
<1>4. \A j \in 1 .. k : j \in 1 .. k + 1
  OBVIOUS
<1>5. k + 1 \in 1 .. k + 1 /\ Q[k + 1] = q
  BY DEF q
<1>. HIDE DEF g
<1>6. ASSUME \A j \in 1 .. k + 1 : Len(Q[j]) >= w
      PROVE  Len(g) >= (k + 1) * w
  <2>1. Len(e) >= k * w /\ Len(q) >= w
    BY <1>4, <1>5, <1>6 DEF Rowwise
  <2>. QED  BY <1>2, <1>3, <2>1
<1>7. ASSUME \A j \in 1 .. k + 1 : Len(Q[j]) <= w
      PROVE  /\ Len(g) <= (k + 1) * w
             /\ Len(g) = (k + 1) * w =>
                  \A j \in 1 .. k + 1 : Len(Q[j]) = w /\ \A c \in 1 .. w : g[(j - 1) * w + c] = Q[j][c]
  <2>1. Len(e) <= k * w /\ Len(q) <= w /\ \A j \in 1 .. k : Len(Q[j]) <= w
    BY <1>4, <1>5, <1>7 DEF Rowwise
  <2>2. Len(g) <= (k + 1) * w
    BY <1>2, <1>3, <2>1
  <2>3. ASSUME Len(g) = (k + 1) * w, NEW j \in 1 .. k + 1
        PROVE  Len(Q[j]) = w /\ \A c \in 1 .. w : g[(j - 1) * w + c] = Q[j][c]
    <3>1. Len(e) = k * w /\ Len(q) = w
      BY <1>2, <1>3, <2>1, <2>3
    <3>2. CASE j \in 1 .. k
      <4>1. Len(Q[j]) = w /\ \A c \in 1 .. w : e[(j - 1) * w + c] = Q[j][c]
        BY <2>1, <3>1, <3>2 DEF Rowwise
      <4>2. ASSUME NEW c \in 1 .. w
            PROVE  g[(j - 1) * w + c] = e[(j - 1) * w + c]
        <5>. DEFINE i == (j - 1) * w + c
        <5>1. j - 1 \in Nat /\ (j - 1) * w \in Nat /\ j * w = (j - 1) * w + w /\ j * w <= k * w
          <6>1. j - 1 \in Nat /\ j - 1 + 1 = j /\ j \in Nat /\ j <= k
            BY <3>2
          <6>. QED  BY <6>1, ProductFacts, ProductMonotone
        <5>2. i \in 1 .. Len(e)
          <6>. DEFINE x == (j - 1) * w
                      y == k * w
                      z == j * w
          <6>1. x \in Nat /\ z = x + w /\ z <= y /\ y \in Nat /\ Len(e) = y /\ i = x + c
            BY <1>3, <3>1, <5>1
          <6>. HIDE DEF x, y, z, i
          <6>. QED  BY <6>1
        <5>3. i \in 1 .. Len(e) + Len(q) /\ i <= Len(e)
          BY <1>2, <5>2
        <5>. HIDE DEF i
        <5>4. g[i] = e[i]
          BY <1>2, <5>3
        <5>. QED  BY <5>4 DEF i
      <4>. QED  BY <4>1, <4>2
    <3>3. CASE j = k + 1
      <4>1. ASSUME NEW c \in 1 .. w
            PROVE  g[k * w + c] = q[c]
        <5>1. k * w + c \in 1 .. Len(e) + Len(q) /\ ~ (k * w + c <= Len(e)) /\ k * w + c - Len(e) = c
          BY <1>2, <1>3, <3>1
        <5>. QED  BY <1>2, <5>1
      <4>2. j - 1 = k
        BY <3>3
      <4>. QED  BY <1>5, <3>1, <3>3, <4>1, <4>2
    <3>. QED  BY <3>2, <3>3
  <2>. QED  BY <2>2, <2>3
<1>8. Rowwise(g, Q, w, k + 1)
  BY <1>6, <1>7 DEF Rowwise
<1>. QED  BY <1>2, <1>8 DEF g, q

\* Sequences one after the other: enough numbers for rows of w if none is
\* shorter; and if none is longer and there are enough numbers, each is a row.
LEMMA FlattenRows ==
  ASSUME NEW S, NEW Q \in Seq(Seq(S)), NEW w \in Nat
  PROVE  FlattenSeq(Q) \in Seq(S) /\ Rowwise(FlattenSeq(Q), Q, w, Len(Q))
<1>0. Len(Q) \in Nat
  BY LenProperties
<1>1. CASE Len(Q) = 0
  <2>1. Q = <<>> /\ FlattenSeq(Q) = <<>>
    <3>1. Q = <<>>
      BY <1>1, EmptySeq
    <3>. QED  BY <1>1, <3>1 DEF FlattenSeq
  <2>2. <<>> \in Seq(S) /\ Len(<<>>) = 0
    BY EmptySeq
  <2>3. 0 * w = 0
    OBVIOUS
  <2>4. Rowwise(<<>>, Q, w, 0)
    BY <2>2, <2>3 DEF Rowwise
  <2>. QED  BY <1>1, <2>1, <2>2, <2>4
<1>2. CASE Len(Q) # 0
  <2>. DEFINE m == Len(Q)
  <2>1. PICK E : IsFlattening(E, Q, m) /\ FlattenSeq(Q) = E[m]
    BY <1>0, <1>2, FlattenSeqIs
  <2>2. \A k \in 1 .. m : E[k] = IF k = 1 THEN Q[k] ELSE E[k - 1] \o Q[k]
    BY <2>1 DEF IsFlattening
  <2>. DEFINE T == {k \in Nat : k + 1 \in 1 .. m => E[k + 1] \in Seq(S) /\ Rowwise(E[k + 1], Q, w, k + 1)}
  <2>3. 0 \in T
    <3>1. Rowwise(<<>>, Q, w, 0) /\ <<>> \in Seq(S)
      BY EmptySeq DEF Rowwise
    <3>2. 1 \in 1 .. m /\ 0 + 1 \in 1 .. Len(Q)
      BY <1>0, <1>2
    <3>3. <<>> \o Q[0 + 1] \in Seq(S) /\ Rowwise(<<>> \o Q[0 + 1], Q, w, 0 + 1)
      BY <3>1, <3>2, RowwiseStep
    <3>4. <<>> \o Q[1] = Q[1] /\ E[1] = Q[1]
      BY <2>2, <3>2, ElementOfSeq, ConcatEmptySeq
    <3>. QED  BY <3>3, <3>4
  <2>4. ASSUME NEW k \in Nat, k \in T
        PROVE  k + 1 \in T
    <3>. SUFFICES ASSUME k + 1 + 1 \in 1 .. m
                  PROVE  E[k + 1 + 1] \in Seq(S) /\ Rowwise(E[k + 1 + 1], Q, w, k + 1 + 1)
      OBVIOUS
    <3>1. k + 1 \in 1 .. m /\ k + 1 \in Nat /\ k + 1 + 1 # 1 /\ k + 1 + 1 - 1 = k + 1
      BY <1>0
    <3>2. E[k + 1] \in Seq(S) /\ Rowwise(E[k + 1], Q, w, k + 1)
      BY <2>4, <3>1
    <3>3. E[k + 1 + 1] = E[k + 1] \o Q[k + 1 + 1]
      <4>. DEFINE h == k + 1 + 1
      <4>1. h \in 1 .. m /\ h # 1 /\ h - 1 = k + 1
        BY <3>1
      <4>. HIDE DEF h, T, m
      <4>2. E[h] = E[h - 1] \o Q[h]
        BY <2>2, <4>1
      <4>. QED  BY <4>1, <4>2 DEF h
    <3>. QED  BY <3>1, <3>2, <3>3, RowwiseStep
  <2>5. m - 1 \in T
    <3>1. m - 1 \in Nat
      BY <1>0, <1>2
    <3>. HIDE DEF T, m
    <3>. QED  BY <2>3, <2>4, <3>1, Induction
  <2>6. m - 1 + 1 = m /\ m \in 1 .. m
    BY <1>0, <1>2
  <2>. QED  BY <2>1, <2>5, <2>6
<1>. QED  BY <1>1, <1>2

-----------------------------------------------------------------------------

LEMMA PictureFacts ==
  ASSUME folders \in Folders, NEW s \in Sets
  PROVE  /\ IsFiniteSet(Pictures(s)) /\ Cardinality(Pictures(s)) \in Nat
         /\ \A p \in Pictures(s) : /\ p[1] \in Labels /\ p[2] \in Nat /\ p = <<p[1], p[2]>>
                                   /\ SizeOf(s, p) \in Nat
<1>1. folders[s] \in [Labels -> Seq(Nat)]
  BY CharRecAssumption
<1>2. ASSUME NEW l \in Labels
      PROVE  /\ folders[s][l] \in Seq(Nat) /\ DOMAIN folders[s][l] = 1 .. Len(folders[s][l])
             /\ Len(folders[s][l]) \in Nat
  <2>1. folders[s][l] \in Seq(Nat)
    BY <1>1
  <2>. QED  BY <2>1, LenProperties
<1>3. ASSUME NEW l \in Labels
      PROVE  IsFiniteSet({l} \X DOMAIN folders[s][l])
  <2>1. IsFiniteSet(1 .. Len(folders[s][l]))
    BY <1>2, FS_Interval
  <2>2. IsFiniteSet({l})
    BY FS_Singleton
  <2>. QED  BY <1>2, <2>1, <2>2, FS_Product
<1>4. Pictures(s) = ({0} \X DOMAIN folders[s][0]) \cup ({1} \X DOMAIN folders[s][1])
  BY DEF Pictures, Labels
<1>5. IsFiniteSet(Pictures(s))
  <2>1. IsFiniteSet({0} \X DOMAIN folders[s][0]) /\ IsFiniteSet({1} \X DOMAIN folders[s][1])
    BY <1>3 DEF Labels
  <2>. DEFINE A == {0} \X DOMAIN folders[s][0]
              B == {1} \X DOMAIN folders[s][1]
  <2>2. IsFiniteSet(A) /\ IsFiniteSet(B) /\ Pictures(s) = A \cup B
    BY <1>4, <2>1
  <2>. HIDE DEF A, B
  <2>. QED  BY <2>2, FS_Union
<1>6. ASSUME NEW p \in Pictures(s)
      PROVE  /\ p[1] \in Labels /\ p[2] \in Nat /\ p = <<p[1], p[2]>>
             /\ SizeOf(s, p) \in Nat
  <2>1. PICK l \in Labels : p \in {l} \X DOMAIN folders[s][l]
    BY DEF Pictures
  <2>2. p[1] = l /\ p[2] \in DOMAIN folders[s][l] /\ p = <<p[1], p[2]>>
    BY <2>1
  <2>3. p[2] \in 1 .. Len(folders[s][l])
    BY <1>2, <2>2
  <2>4. folders[s][l][p[2]] \in Nat
    BY <1>2, <2>3, ElementOfSeq
  <2>. QED  BY <2>2, <2>3, <2>4 DEF SizeOf
<1>. QED  BY <1>5, <1>6, FS_CardinalityType

LEMMA WrittenFacts ==
  ASSUME folders \in Folders, NEW s \in Sets, NEW p \in Pictures(s)
  PROVE  /\ Written(s, p) \in Seq(Numbers)
         /\ Len(Written(s, p)) = SizeOf(s, p) + 1
         /\ SizeOf(s, p) = PixelNumber =>
              \A c \in 1 .. PixelNumber + 1 :
                Written(s, p)[c] = <<p[1], p[2], IF c <= PixelNumber THEN c ELSE 0>>
<1>. DEFINE z == SizeOf(s, p)
            pixels == [j \in 1 .. z |-> <<p[1], p[2], j>>]
            label == <<<<p[1], p[2], 0>>>>
<1>1. p[1] \in Labels /\ p[2] \in Nat /\ z \in Nat
  BY PictureFacts
<1>. HIDE DEF z
<1>2. \A j \in Nat : <<p[1], p[2], j>> \in Numbers
  BY <1>1 DEF Numbers
<1>3. pixels \in Seq(Numbers) /\ Len(pixels) = z
  <2>1. \A j \in 1 .. z : <<p[1], p[2], j>> \in Numbers
    BY <1>1, <1>2
  <2>2. pixels \in [1 .. z -> Numbers]
    BY <2>1
  <2>3. DOMAIN pixels = 1 .. z
    OBVIOUS
  <2>. HIDE DEF pixels
  <2>4. pixels \in Seq(Numbers)
    BY <1>1, <2>2, SeqDef
  <2>. QED  BY <1>1, <2>3, <2>4, LenProperties
<1>4. label \in Seq(Numbers) /\ Len(label) = 1 /\ label[1] = <<p[1], p[2], 0>>
  BY <1>2
<1>5. Written(s, p) = pixels \o label
  BY DEF Written, z
<1>6. \A c \in 1 .. z : pixels[c] = <<p[1], p[2], c>>
  OBVIOUS
<1>. HIDE DEF pixels, label
<1>7. /\ pixels \o label \in Seq(Numbers) /\ Len(pixels \o label) = z + 1
      /\ \A c \in 1 .. z + 1 : (pixels \o label)[c] = IF c <= z THEN pixels[c] ELSE label[c - z]
  <2>. DEFINE both == pixels \o label
  <2>1. /\ both \in Seq(Numbers) /\ Len(both) = Len(pixels) + Len(label)
        /\ \A c \in 1 .. Len(pixels) + Len(label) :
             both[c] = IF c <= Len(pixels) THEN pixels[c] ELSE label[c - Len(pixels)]
    BY <1>3, <1>4, ConcatProperties
  <2>. HIDE DEF both
  <2>2. /\ both \in Seq(Numbers) /\ Len(both) = z + 1
        /\ \A c \in 1 .. z + 1 : both[c] = IF c <= z THEN pixels[c] ELSE label[c - z]
    BY <1>1, <1>3, <1>4, <2>1
  <2>. QED  BY <2>2 DEF both
<1>8. ASSUME z = PixelNumber, NEW c \in 1 .. PixelNumber + 1
      PROVE  Written(s, p)[c] = <<p[1], p[2], IF c <= PixelNumber THEN c ELSE 0>>
  <2>1. CASE c <= PixelNumber
    <3>1. c \in 1 .. z /\ c \in 1 .. z + 1 /\ c <= z
      BY <1>1, <1>8, <2>1
    <3>. QED  BY <1>5, <1>6, <1>7, <2>1, <3>1
  <2>2. CASE ~ (c <= PixelNumber)
    <3>1. c - z = 1 /\ ~ (c <= z) /\ c \in 1 .. z + 1
      BY <1>1, <1>8, <2>2, CharRecAssumption
    <3>. QED  BY <1>4, <1>5, <1>7, <2>2, <3>1
  <2>. QED  BY <2>1, <2>2
<1>. QED  BY <1>5, <1>7, <1>8 DEF z

LEMMA OrderFacts ==
  ASSUME folders \in Folders, NEW s \in Sets, NEW order \in SetToSeqs(Pictures(s))
  PROVE  /\ Len(order) = Cardinality(Pictures(s)) /\ Len(order) \in Nat
         /\ DOMAIN order = 1 .. Len(order)
         /\ order \in [1 .. Len(order) -> Pictures(s)]
         /\ \A p \in Pictures(s) : \E j \in 1 .. Len(order) : order[j] = p
<1>. DEFINE P == Pictures(s)
            N == Cardinality(P)
<1>1. IsFiniteSet(P) /\ N \in Nat
  BY PictureFacts
<1>2. order \in [1 .. N -> P] /\ \A i, j \in 1 .. N : i # j => order[i] # order[j]
  BY DEF SetToSeqs
<1>. HIDE DEF P
<1>3. Len(order) = N /\ DOMAIN order = 1 .. N
  <2>. HIDE DEF N
  <2>1. order \in Seq(P) /\ DOMAIN order = 1 .. N
    BY <1>1, <1>2, SeqDef
  <2>. QED  BY <1>1, <2>1, LenProperties
<1>4. order \in Injection(1 .. N, P)
  BY <1>2 DEF Injection, IsInjective
<1>5. Cardinality(1 .. N) = N
  BY <1>1, FS_Interval
<1>6. order \in Surjection(1 .. N, P)
  BY <1>1, <1>4, <1>5, FS_Injection
<1>. QED  BY <1>1, <1>2, <1>3, <1>6 DEF P, Surjection

-----------------------------------------------------------------------------

\* The numbers a row of the data has, and the sequences a data file is made of.
RowLength == PixelNumber + 1

PicturesInOrder(s, order) == [m \in DOMAIN order |-> Written(s, order[m])]

FileFrom(s, order) == [num_data |-> Len(order), numbers |-> FlattenSeq(PicturesInOrder(s, order))]

FilesOf(s) == {FileFrom(s, order) : order \in SetToSeqs(Pictures(s))}

LEMMA RowLengthType == RowLength \in Nat \ {0} /\ PixelNumber \in Nat
BY CharRecAssumption DEF RowLength

LEMMA FileFacts ==
  ASSUME folders \in Folders, NEW s \in Sets, NEW order \in SetToSeqs(Pictures(s)),
         NEW f, f = FileFrom(s, order)
  PROVE  /\ f.num_data = Len(order) /\ Len(order) \in Nat
         /\ f.numbers \in Seq(Numbers)
         /\ f # NoFile
         /\ Rowwise(f.numbers, PicturesInOrder(s, order), RowLength, Len(order))
<1>. DEFINE Q == PicturesInOrder(s, order)
<1>1. Len(order) \in Nat /\ DOMAIN order = 1 .. Len(order) /\ \A m \in 1 .. Len(order) : order[m] \in Pictures(s)
  BY OrderFacts
<1>2. Q \in Seq(Seq(Numbers)) /\ Len(Q) = Len(order)
  <2>1. DOMAIN Q = 1 .. Len(order)
    BY <1>1 DEF PicturesInOrder
  <2>2. \A m \in 1 .. Len(order) : Written(s, order[m]) \in Seq(Numbers)
    BY <1>1, WrittenFacts
  <2>3. Q \in [1 .. Len(order) -> Seq(Numbers)]
    BY <1>1, <2>2 DEF PicturesInOrder
  <2>. HIDE DEF Q
  <2>4. Q \in Seq(Seq(Numbers))
    BY <1>1, <2>3, SeqDef
  <2>. QED  BY <1>1, <2>1, <2>4, LenProperties
<1>. HIDE DEF Q
<1>3. FlattenSeq(Q) \in Seq(Numbers) /\ Rowwise(FlattenSeq(Q), Q, RowLength, Len(Q))
  BY <1>2, FlattenRows, RowLengthType
<1>4. f = [num_data |-> Len(order), numbers |-> FlattenSeq(Q)]
  BY DEF FileFrom, Q
<1>5. f \in [num_data : Nat, numbers : Seq(Numbers)]
  BY <1>1, <1>3, <1>4
<1>6. f # NoFile
  BY <1>5, CharRecAssumption
<1>. QED  BY <1>1, <1>2, <1>3, <1>4, <1>6 DEF Q

\* The rows that FANN reads are runs of RowLength numbers of the file.
LEMMA RowFacts ==
  ASSUME NEW numbers \in Seq(Numbers), NEW k \in Nat, Len(numbers) >= k * RowLength, NEW m \in 1 .. k
  PROVE  LET row == SubSeq(numbers, (m - 1) * RowLength + 1, m * RowLength) IN
         /\ row \in Seq(Numbers) /\ row \in [1 .. RowLength -> Numbers]
         /\ \A c \in 1 .. RowLength : row[c] = numbers[(m - 1) * RowLength + c]
<1>. DEFINE a == (m - 1) * RowLength
            b == m * RowLength
            d == k * RowLength
            row == SubSeq(numbers, a + 1, b)
<1>1. a \in Nat /\ b = a + RowLength /\ b <= d /\ d \in Nat
  <2>1. m - 1 \in Nat /\ m - 1 + 1 = m /\ m \in Nat /\ m <= k
    OBVIOUS
  <2>. QED  BY <2>1, ProductFacts, ProductMonotone, RowLengthType
<1>2. Len(numbers) \in Nat /\ Len(numbers) >= d
  BY LenProperties
<1>. HIDE DEF a, b, d
<1>3. \A i \in a + 1 .. b : i \in 1 .. Len(numbers)
  BY <1>1, <1>2, RowLengthType
<1>4. \A i \in a + 1 .. b : numbers[i] \in Numbers
  BY <1>3, ElementOfSeq
<1>5. a + 1 \in Int /\ b \in Int /\ a + 1 <= b /\ b - (a + 1) + 1 = RowLength
  BY <1>1, RowLengthType
<1>6. /\ row \in Seq(Numbers) /\ Len(row) = RowLength
      /\ \A c \in 1 .. RowLength : row[c] = numbers[a + 1 + c - 1]
  BY <1>4, <1>5, SubSeqProperties
<1>7. \A c \in 1 .. RowLength : a + 1 + c - 1 = a + c
  BY <1>1, RowLengthType
<1>. HIDE DEF row
<1>8. row \in [1 .. RowLength -> Numbers]
  BY <1>6, LenProperties
<1>. QED  BY <1>6, <1>7, <1>8 DEF row, a, b

\* What FANN makes of a file that was written.
IsReadFrom(d, f) ==
  /\ Len(d) = f.num_data /\ DOMAIN d = 1 .. f.num_data
  /\ Len(f.numbers) >= f.num_data * RowLength
  /\ \A m \in 1 .. f.num_data : d[m] \in [1 .. RowLength -> Numbers]
  /\ \A m \in 1 .. f.num_data : \A c \in 1 .. RowLength : d[m][c] = f.numbers[(m - 1) * RowLength + c]

LEMMA ParsedFacts ==
  ASSUME folders \in Folders, NEW s \in Sets, NEW order \in SetToSeqs(Pictures(s)),
         NEW f, f = FileFrom(s, order)
  PROVE  /\ Parsed(f) = Null => \E p \in Pictures(s) : SizeOf(s, p) < PixelNumber
         /\ Parsed(f) # Null => IsReadFrom(Parsed(f), f)
<1>. DEFINE k == f.num_data
            e == f.numbers
            rows == [m \in 1 .. k |-> SubSeq(e, (m - 1) * RowLength + 1, m * RowLength)]
<1>1. k = Len(order) /\ k \in Nat /\ e \in Seq(Numbers) /\ f # NoFile
  BY FileFacts
<1>2. Len(e) \in Nat /\ k * RowLength \in Nat
  BY <1>1, LenProperties, ProductFacts, RowLengthType
<1>3. Parsed(f) = IF Len(e) < k * RowLength THEN Null ELSE rows
  BY <1>1 DEF Parsed, RowLength
<1>. HIDE DEF k, e
<1>4. CASE Len(e) < k * RowLength
  <2>1. Rowwise(e, PicturesInOrder(s, order), RowLength, k)
    BY <1>1, FileFacts DEF k, e
  <2>2. ~ (Len(e) >= k * RowLength)
    BY <1>2, <1>4
  <2>3. PICK j \in 1 .. k : ~ (Len(PicturesInOrder(s, order)[j]) >= RowLength)
    BY <2>1, <2>2 DEF Rowwise
  <2>4. DOMAIN order = 1 .. k /\ order[j] \in Pictures(s)
    BY <1>1, OrderFacts
  <2>5. PicturesInOrder(s, order)[j] = Written(s, order[j])
    BY <2>4 DEF PicturesInOrder
  <2>6. Len(Written(s, order[j])) = SizeOf(s, order[j]) + 1 /\ SizeOf(s, order[j]) \in Nat
    BY <2>4, WrittenFacts, PictureFacts
  <2>7. SizeOf(s, order[j]) < PixelNumber
    BY <2>3, <2>5, <2>6, CharRecAssumption DEF RowLength
  <2>. QED  BY <1>3, <1>4, <2>4, <2>7
<1>5. CASE ~ (Len(e) < k * RowLength)
  <2>1. Len(e) >= k * RowLength
    BY <1>2, <1>5
  <2>2. ASSUME NEW m \in 1 .. k
        PROVE  /\ rows[m] \in Seq(Numbers) /\ rows[m] \in [1 .. RowLength -> Numbers]
               /\ \A c \in 1 .. RowLength : rows[m][c] = e[(m - 1) * RowLength + c]
    BY <1>1, <2>1, RowFacts
  <2>3. DOMAIN rows = 1 .. k /\ rows \in [1 .. k -> Seq(Numbers)]
    BY <2>2
  <2>. HIDE DEF rows
  <2>4. rows \in Seq(Seq(Numbers))
    BY <1>1, <2>3, SeqDef
  <2>5. rows # Null /\ Len(rows) = k
    BY <1>1, <2>3, <2>4, LenProperties, CharRecAssumption
  <2>6. IsReadFrom(rows, f)
    BY <2>1, <2>2, <2>3, <2>5 DEF IsReadFrom, k, e
  <2>. QED  BY <1>3, <1>5, <2>5, <2>6
<1>. QED  BY <1>4, <1>5

\* If no picture is larger than a row, what is read is the pictures.
LEMMA ReadIsPictures ==
  ASSUME folders \in Folders, NEW s \in Sets, NEW order \in SetToSeqs(Pictures(s)),
         NEW f, f = FileFrom(s, order), NEW d, IsReadFrom(d, f),
         \A p \in Pictures(s) : SizeOf(s, p) <= PixelNumber
  PROVE  /\ \A p \in Pictures(s) : \E m \in DOMAIN d : IsPicture(d[m], p)
         /\ Len(d) = Cardinality(Pictures(s))
<1>. DEFINE k == Len(order)
            Q == PicturesInOrder(s, order)
            e == f.numbers
<1>1. k \in Nat /\ f.num_data = k /\ e \in Seq(Numbers) /\ Rowwise(e, Q, RowLength, k)
  BY FileFacts
<1>2. /\ k = Cardinality(Pictures(s)) /\ DOMAIN order = 1 .. k
      /\ \A j \in 1 .. k : order[j] \in Pictures(s)
      /\ \A p \in Pictures(s) : \E j \in 1 .. k : order[j] = p
  BY OrderFacts
<1>3. \A j \in 1 .. k : Q[j] = Written(s, order[j])
  BY <1>2 DEF PicturesInOrder
<1>. HIDE DEF k, Q, e
<1>4. ASSUME NEW j \in 1 .. k
      PROVE  Len(Q[j]) <= RowLength /\ Len(Q[j]) = SizeOf(s, order[j]) + 1 /\ SizeOf(s, order[j]) \in Nat
  <2>1. Len(Q[j]) = SizeOf(s, order[j]) + 1 /\ SizeOf(s, order[j]) \in Nat /\ SizeOf(s, order[j]) <= PixelNumber
    BY <1>2, <1>3, WrittenFacts, PictureFacts
  <2>. QED  BY <2>1, CharRecAssumption DEF RowLength
<1>5. Len(e) = k * RowLength
  <2>1. Len(e) <= k * RowLength
    BY <1>1, <1>4 DEF Rowwise
  <2>2. Len(e) >= k * RowLength
    BY <1>1 DEF IsReadFrom, e
  <2>3. Len(e) \in Nat /\ k * RowLength \in Nat
    BY <1>1, LenProperties, ProductFacts, RowLengthType
  <2>. DEFINE x == k * RowLength
              y == Len(e)
  <2>4. y <= x /\ y >= x /\ x \in Nat /\ y \in Nat
    BY <2>1, <2>2, <2>3
  <2>. HIDE DEF x, y
  <2>5. x = y
    BY <2>4
  <2>. QED  BY <2>5 DEF x, y
<1>6. \A j \in 1 .. k : Len(Q[j]) = RowLength /\ \A c \in 1 .. RowLength : e[(j - 1) * RowLength + c] = Q[j][c]
  BY <1>1, <1>4, <1>5 DEF Rowwise
<1>7. ASSUME NEW p \in Pictures(s)
      PROVE  \E m \in DOMAIN d : IsPicture(d[m], p)
  <2>1. PICK j \in 1 .. k : order[j] = p
    BY <1>2
  <2>2. SizeOf(s, p) = PixelNumber
    <3>1. Len(Q[j]) = RowLength /\ Len(Q[j]) = SizeOf(s, p) + 1 /\ SizeOf(s, p) \in Nat
      BY <1>4, <1>6, <2>1
    <3>. QED  BY <3>1, CharRecAssumption DEF RowLength
  <2>3. j \in DOMAIN d /\ d[j] \in [1 .. RowLength -> Numbers]
        /\ \A c \in 1 .. RowLength : d[j][c] = e[(j - 1) * RowLength + c]
    BY <1>1 DEF IsReadFrom, e
  <2>4. \A c \in 1 .. RowLength : d[j][c] = Written(s, p)[c]
    BY <1>3, <1>6, <2>1, <2>3
  <2>5. \A c \in 1 .. RowLength : Written(s, p)[c] = <<p[1], p[2], IF c <= PixelNumber THEN c ELSE 0>>
    BY <2>2, WrittenFacts DEF RowLength
  <2>6. d[j] = [c \in 1 .. RowLength |-> <<p[1], p[2], IF c <= PixelNumber THEN c ELSE 0>>]
    BY <2>3, <2>4, <2>5
  <2>. QED  BY <2>3, <2>6 DEF IsPicture, RowLength
<1>8. Len(d) = Cardinality(Pictures(s))
  BY <1>1, <1>2 DEF IsReadFrom
<1>. QED  BY <1>7, <1>8

-----------------------------------------------------------------------------

Rates == [wrong : Nat, of : Nat]

ErrorRatesOK ==
  /\ folders \in Folders /\ writable \in BOOLEAN /\ num_epochs \in Epochs
  /\ phase \in {"train", "test", "read", "learn", "done", "crashed"}
  /\ err_rate = [s \in Sets |-> err_rate[s]] /\ output = [s \in Sets |-> output[s]]
  /\ \A s \in Sets : err_rate[s] \in Seq(Rates) /\ output[s] \in Seq(Rates)
  /\ \A s \in Sets : Len(err_rate[s]) = Len(err_rate["test"]) /\ Len(output[s]) <= num_epochs
  /\ Len(err_rate["test"]) <= num_epochs

\* A file that is there holds the pictures of its folder, and is there once its
\* turn is over, if files can be made at all.
FilesOK ==
  /\ file = [s \in Sets |-> file[s]]
  /\ \A s \in Sets : file[s] # NoFile => file[s] \in FilesOf(s)
  /\ writable /\ phase # "train" => file["train"] # NoFile
  /\ writable /\ phase \notin {"train", "test"} => file["test"] # NoFile

\* The data is what was read from the files, which change no more.
DataOK ==
  /\ data = [s \in Sets |-> data[s]]
  /\ \A s \in Sets : data[s] # Null => phase \notin {"train", "test", "read"}
  /\ phase \notin {"train", "test", "read"} => \A s \in Sets : data[s] = Parsed(file[s])
  /\ phase = "crashed" => \E s \in Sets : data[s] = Null

CharRecInv == ErrorRatesOK /\ FilesOK /\ DataOK

LEMMA CharRecInitInv ==
  ASSUME CharRecInit
  PROVE  CharRecInv
<1>1. ErrorRatesOK
  <2>1. num_epochs \in Nat
    BY CharRecAssumption DEF CharRecInit
  <2>2. <<>> \in Seq(Rates) /\ Len(<<>>) = 0
    BY EmptySeq
  <2>3. \A s \in Sets : err_rate[s] = <<>> /\ output[s] = <<>>
    BY DEF CharRecInit
  <2>4. "test" \in Sets
    BY DEF Sets
  <2>5. phase = "train" /\ folders \in Folders /\ writable \in BOOLEAN /\ num_epochs \in Epochs
        /\ err_rate = [s \in Sets |-> err_rate[s]] /\ output = [s \in Sets |-> output[s]]
    BY <2>3 DEF CharRecInit
  <2>. DEFINE none == <<>>
  <2>6. none \in Seq(Rates) /\ Len(none) = 0 /\ \A s \in Sets : err_rate[s] = none /\ output[s] = none
    BY <2>2, <2>3
  <2>. HIDE DEF none
  <2>7. /\ \A s \in Sets : err_rate[s] \in Seq(Rates) /\ output[s] \in Seq(Rates)
        /\ \A s \in Sets : Len(err_rate[s]) = Len(err_rate["test"]) /\ Len(output[s]) <= num_epochs
        /\ Len(err_rate["test"]) <= num_epochs
    <3>1. Len(none) <= num_epochs
      BY <2>1, <2>6
    <3>. QED  BY <2>4, <2>6, <3>1, Zenon
  <2>. HIDE DEF CharRecInit
  <2>. QED  BY <2>5, <2>7 DEF ErrorRatesOK
<1>2. FilesOK
  BY DEF CharRecInit, FilesOK
<1>3. DataOK
  BY DEF CharRecInit, DataOK
<1>. QED  BY <1>1, <1>2, <1>3 DEF CharRecInv

\* What a file may hold changes only with the folders.
LEMMA FilesUnchanged ==
  ASSUME folders' = folders, NEW s \in Sets
  PROVE  FilesOf(s)' = FilesOf(s)
BY DEF FilesOf, FileFrom, PicturesInOrder, Pictures, Written, SizeOf

LEMMA FilesOKUnchanged ==
  ASSUME FilesOK, folders' = folders, file' = file, writable' = writable,
         phase' # "train" => phase # "train",
         phase' \notin {"train", "test"} => phase \notin {"train", "test"}
  PROVE  FilesOK'
<1>1. \A s \in Sets : file'[s] # NoFile => file'[s] \in FilesOf(s)'
  BY FilesUnchanged DEF FilesOK
<1>. QED  BY <1>1 DEF FilesOK

LEMMA CreateDataInv ==
  ASSUME CharRecInv, NEW s \in Sets, CreateData(s)
  PROVE  CharRecInv'
<1>. USE DEF CharRecInv
<1>1. phase = s /\ phase' = (IF s = "train" THEN "test" ELSE "read")
      /\ UNCHANGED <<folders, writable, num_epochs, data, err_rate, output>>
  BY DEF CreateData
<1>2. PICK order \in SetToSeqs(Pictures(s)) :
        file' = [file EXCEPT ![s] = IF writable THEN FileFrom(s, order) ELSE NoFile]
  BY DEF CreateData, FileFrom, PicturesInOrder
<1>3. FileFrom(s, order) # NoFile /\ FileFrom(s, order) \in FilesOf(s)
  BY FileFacts DEF ErrorRatesOK, FilesOf
<1>4. /\ file' = [t \in Sets |-> file'[t]]
      /\ file'[s] = IF writable THEN FileFrom(s, order) ELSE NoFile
      /\ \A t \in Sets : t # s => file'[t] = file[t]
  BY <1>2 DEF FilesOK
<1>5. ErrorRatesOK'
  BY <1>1 DEF ErrorRatesOK
<1>6. FilesOK'
  <2>1. ASSUME NEW t \in Sets, file'[t] # NoFile
        PROVE  file'[t] \in FilesOf(t)'
    <3>1. file'[t] \in FilesOf(t)
      BY <1>3, <1>4, <2>1 DEF FilesOK
    <3>. QED  BY <1>1, <3>1, FilesUnchanged
  <2>2. writable' /\ phase' # "train" => file'["train"] # NoFile
    BY <1>1, <1>3, <1>4 DEF FilesOK, Sets
  <2>3. writable' /\ phase' \notin {"train", "test"} => file'["test"] # NoFile
    BY <1>1, <1>3, <1>4 DEF FilesOK, Sets
  <2>. QED  BY <1>4, <2>1, <2>2, <2>3 DEF FilesOK
<1>7. DataOK'
  BY <1>1 DEF DataOK, Sets
<1>. QED  BY <1>5, <1>6, <1>7

LEMMA ReadDataInv ==
  ASSUME CharRecInv, ReadData
  PROVE  CharRecInv'
<1>. USE DEF CharRecInv, ReadData
<1>1. ErrorRatesOK'
  BY DEF ErrorRatesOK
<1>2. FilesOK'
  BY FilesOKUnchanged
<1>3. DataOK'
  BY DEF DataOK, Parsed
<1>. QED  BY <1>1, <1>2, <1>3

\* An epoch needs both sets, and they are rows.
LEMMA DataIsRead ==
  ASSUME CharRecInv, NEW s \in Sets, data[s] # Null
  PROVE  /\ file[s] # NoFile /\ data[s] = Parsed(file[s])
         /\ \E order \in SetToSeqs(Pictures(s)) : file[s] = FileFrom(s, order)
         /\ IsReadFrom(data[s], file[s])
<1>1. data[s] = Parsed(file[s]) /\ file[s] # NoFile
  BY DEF CharRecInv, DataOK, Parsed
<1>2. PICK order \in SetToSeqs(Pictures(s)) : file[s] = FileFrom(s, order)
  BY <1>1 DEF CharRecInv, FilesOK, FilesOf
<1>3. folders \in Folders
  BY DEF CharRecInv, ErrorRatesOK
<1>4. IsReadFrom(Parsed(file[s]), file[s])
  BY <1>1, <1>2, <1>3, ParsedFacts
<1>. QED  BY <1>1, <1>2, <1>4

LEMMA EpochInv ==
  ASSUME CharRecInv, Epoch
  PROVE  CharRecInv'
<1>1. /\ Len(err_rate["test"]) < num_epochs
      /\ UNCHANGED <<folders, writable, num_epochs, file, data, output, phase>>
      /\ \A s \in Sets : data[s] # Null
  BY DEF Epoch, Learning, Sets
<1>2. PICK wrong \in [Sets -> 0 .. Len(data["train"]) + Len(data["test"])] :
        err_rate' = [s \in Sets |-> Append(err_rate[s], [wrong |-> wrong[s], of |-> Len(data[s])])]
  BY DEF Epoch
<1>3. \A s \in Sets : Len(data[s]) \in Nat
  <2>. SUFFICES ASSUME NEW s \in Sets
                PROVE  Len(data[s]) \in Nat
    OBVIOUS
  <2>1. PICK order \in SetToSeqs(Pictures(s)) : file[s] = FileFrom(s, order)
    BY <1>1, DataIsRead
  <2>2. IsReadFrom(data[s], file[s])
    BY <1>1, DataIsRead
  <2>3. file[s].num_data \in Nat
    BY <2>1, FileFacts DEF CharRecInv, ErrorRatesOK
  <2>. QED  BY <2>2, <2>3 DEF IsReadFrom
<1>4. ASSUME NEW s \in Sets
      PROVE  err_rate'[s] \in Seq(Rates) /\ Len(err_rate'[s]) = Len(err_rate["test"]) + 1
  <2>1. "train" \in Sets /\ "test" \in Sets
    BY DEF Sets
  <2>2. wrong[s] \in 0 .. Len(data["train"]) + Len(data["test"])
    BY <1>2
  <2>3. wrong[s] \in Nat /\ Len(data[s]) \in Nat
    BY <1>3, <2>1, <2>2
  <2>. DEFINE r == [wrong |-> wrong[s], of |-> Len(data[s])]
  <2>4. r \in Rates /\ err_rate'[s] = Append(err_rate[s], r)
    BY <1>2, <2>3 DEF Rates
  <2>5. err_rate[s] \in Seq(Rates) /\ Len(err_rate[s]) = Len(err_rate["test"])
    BY DEF CharRecInv, ErrorRatesOK
  <2>. HIDE DEF r
  <2>. QED  BY <2>4, <2>5, AppendProperties
<1>5. ErrorRatesOK'
  <2>1. "test" \in Sets
    BY DEF Sets
  <2>2. Len(err_rate["test"]) \in Nat /\ num_epochs \in Nat
    BY <2>1, LenProperties, CharRecAssumption DEF CharRecInv, ErrorRatesOK
  <2>3. /\ \A s \in Sets : Len(err_rate'[s]) = Len(err_rate'["test"])
        /\ Len(err_rate'["test"]) <= num_epochs
    BY <1>1, <1>4, <2>1, <2>2
  <2>4. err_rate' = [s \in Sets |-> err_rate'[s]]
    BY <1>2
  <2>5. ErrorRatesOK
    BY DEF CharRecInv
  <2>. QED  BY <1>1, <1>4, <2>3, <2>4, <2>5 DEF ErrorRatesOK
<1>6. FilesOK'
  BY <1>1, FilesOKUnchanged DEF CharRecInv
<1>7. DataOK'
  BY <1>1 DEF CharRecInv, DataOK, Parsed
<1>. QED  BY <1>5, <1>6, <1>7 DEF CharRecInv

LEMMA EpochCrashesInv ==
  ASSUME CharRecInv, EpochCrashes
  PROVE  CharRecInv'
<1>. USE DEF CharRecInv, EpochCrashes, Learning
<1>1. ErrorRatesOK'
  BY DEF ErrorRatesOK
<1>2. FilesOK'
  BY FilesOKUnchanged
<1>3. DataOK'
  BY DEF DataOK, Parsed, Sets
<1>. QED  BY <1>1, <1>2, <1>3

LEMMA WriteRatesInv ==
  ASSUME CharRecInv, WriteRates
  PROVE  CharRecInv'
<1>. USE DEF CharRecInv, WriteRates
<1>1. ErrorRatesOK'
  <2>1. /\ output' = [s \in Sets |-> output'[s]]
        /\ \A s \in Sets : output'[s] \in Seq(Rates) /\ Len(output'[s]) <= num_epochs
    <3>1. CASE writable
      <4>1. output' = [train |-> err_rate["test"], test |-> err_rate["train"]]
        BY <3>1
      <4>2. DOMAIN output' = Sets /\ output'["train"] = err_rate["test"] /\ output'["test"] = err_rate["train"]
        BY <4>1 DEF Sets
      <4>3. "test" \in Sets /\ "train" \in Sets /\ \A s \in Sets : s = "train" \/ s = "test"
        BY DEF Sets
      <4>4. output' = [s \in Sets |-> output'[s]]
        BY <4>1, <4>2
      <4>. HIDE DEF WriteRates
      <4>. QED  BY <4>2, <4>3, <4>4 DEF ErrorRatesOK
    <3>2. CASE ~ writable
      BY <3>2 DEF ErrorRatesOK
    <3>. QED  BY <3>1, <3>2
  <2>. QED  BY <2>1 DEF ErrorRatesOK
<1>2. FilesOK'
  BY FilesOKUnchanged
<1>3. DataOK'
  BY DEF DataOK, Parsed
<1>. QED  BY <1>1, <1>2, <1>3

LEMMA CharRecInvariance == CharRecSpec => []CharRecInv
<1>1. CharRecInit => CharRecInv
  BY CharRecInitInv
<1>2. CharRecInv /\ [CharRecNext]_charRecVars => CharRecInv'
  <2>. SUFFICES ASSUME CharRecInv, [CharRecNext]_charRecVars
                PROVE  CharRecInv'
    OBVIOUS
  <2>1. CASE UNCHANGED charRecVars
    <3>1. FilesOK'
      BY <2>1, FilesOKUnchanged DEF charRecVars, CharRecInv
    <3>. QED  BY <2>1, <3>1 DEF charRecVars, CharRecInv, ErrorRatesOK, DataOK, Parsed
  <2>2. CASE CharRecNext
    BY <2>1, <2>2, CreateDataInv, ReadDataInv, EpochInv, EpochCrashesInv, WriteRatesInv DEF CharRecNext, Finished
  <2>. QED  BY <2>1, <2>2
<1>. QED  BY <1>1, <1>2, PTL DEF CharRecSpec

\* The state has its types: what FANN reads is rows of the right length, and no
\* rate is recorded after the last epoch.
THEOREM CharRecTypes == CharRecSpec => []CharRecTypeOK
<1>1. CharRecInv => CharRecTypeOK
  <2>. SUFFICES ASSUME CharRecInv
                PROVE  CharRecTypeOK
    OBVIOUS
  <2>1. ASSUME NEW s \in Sets, file[s] # NoFile
        PROVE  file[s].num_data \in Nat /\ file[s].numbers \in Seq(Numbers)
    <3>1. PICK order \in SetToSeqs(Pictures(s)) : file[s] = FileFrom(s, order)
      BY <2>1 DEF CharRecInv, FilesOK, FilesOf
    <3>. QED  BY <3>1, FileFacts DEF CharRecInv, ErrorRatesOK
  <2>2. ASSUME NEW s \in Sets, data[s] # Null, NEW m \in DOMAIN data[s]
        PROVE  data[s][m] \in [1 .. PixelNumber + 1 -> Numbers]
    BY <2>2, DataIsRead DEF IsReadFrom, RowLength
  <2>3. ASSUME NEW s \in Sets
        PROVE  /\ err_rate[s] \in Seq(Rates) /\ Len(err_rate[s]) <= num_epochs
               /\ output[s] \in Seq(Rates) /\ Len(output[s]) <= num_epochs
    BY DEF CharRecInv, ErrorRatesOK
  <2>4. /\ folders \in Folders /\ writable \in BOOLEAN /\ num_epochs \in Epochs
        /\ phase \in {"train", "test", "read", "learn", "done", "crashed"}
    BY DEF CharRecInv, ErrorRatesOK
  <2>. QED  BY <2>1, <2>2, <2>3, <2>4 DEF CharRecTypeOK, Rates
<1>. QED  BY <1>1, CharRecInvariance, PTL

\* As long as no picture has more pixels than the network has inputs, the data
\* that FANN reads back is each picture once, under its own label, however the
\* pictures were shuffled.
THEOREM NoLetterIsLost == CharRecSpec => []DataIsPictures
<1>1. CharRecInv => DataIsPictures
  <2>. SUFFICES ASSUME CharRecInv, NEW s \in Sets, data[s] # Null,
                       \A p \in Pictures(s) : SizeOf(s, p) <= PixelNumber
                PROVE  /\ \A p \in Pictures(s) : \E m \in DOMAIN data[s] : IsPicture(data[s][m], p)
                       /\ Len(data[s]) = Cardinality(Pictures(s))
    BY DEF DataIsPictures
  <2>1. PICK order \in SetToSeqs(Pictures(s)) : file[s] = FileFrom(s, order)
    BY DataIsRead
  <2>2. IsReadFrom(data[s], file[s]) /\ folders \in Folders
    BY DataIsRead DEF CharRecInv, ErrorRatesOK
  <2>. QED  BY <2>1, <2>2, ReadIsPictures
<1>. QED  BY <1>1, CharRecInvariance, PTL

\* The program follows a null pointer only when a data file could not be made
\* or holds fewer numbers than its header says.
THEOREM NullComesFromPictures == CharRecSpec => []CrashesExplained
<1>1. CharRecInv => CrashesExplained
  <2>. SUFFICES ASSUME CharRecInv, phase = "crashed", writable
                PROVE  \E s \in Sets : \E p \in Pictures(s) : SizeOf(s, p) < PixelNumber
    BY DEF CrashesExplained, CharRecInv, ErrorRatesOK
  <2>1. PICK s \in Sets : data[s] = Null /\ data[s] = Parsed(file[s])
    BY DEF CharRecInv, DataOK
  <2>2. file[s] # NoFile
    BY DEF CharRecInv, FilesOK, Sets
  <2>3. PICK order \in SetToSeqs(Pictures(s)) : file[s] = FileFrom(s, order)
    BY <2>2 DEF CharRecInv, FilesOK, FilesOf
  <2>4. folders \in Folders
    BY DEF CharRecInv, ErrorRatesOK
  <2>. QED  BY <2>1, <2>3, <2>4, ParsedFacts
<1>. QED  BY <1>1, CharRecInvariance, PTL
=============================================================================
