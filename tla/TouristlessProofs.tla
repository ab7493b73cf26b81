-------------------------- MODULE TouristlessProofs --------------------------
(***************************************************************************)
(* Theorems about Touristless, for any number of photos of any size, with  *)
(* any rectangles in the coordinates file.                                 *)
(***************************************************************************)
EXTENDS Touristless, NumberFacts

\* The photos are aligned with the object photo.
Aligned == \A k \in Photos : shift[k] = 0

\* What is read from the coordinates file, and what has become of it.
InputsOK ==
  /\ Complete
  /\ \A k \in Photos : file[k] \in Seq(Int \X Int)
  /\ object_id \in Photos

LocationsRead ==
  pc \in {"object", "scenes", "replace", "write"} =>
    /\ n \in Nat /\ Images <= n
    /\ DOMAIN new_tourist_locations = 1 .. n
    /\ \A k \in Photos : tourist_locations[k] = file[k]

ObjectKept ==
  pc \in {"scenes", "replace", "write"} => new_tourist_locations[object_id] = file[object_id]

\* The photos before next have their persons where the file says; the loop
\* over the photos gets to its end only if there are no more of them.
ScenesTransformed ==
  /\ next \in Nat \ {0}
  /\ pc \in {"start", "object"} => next = 1
  /\ pc = "scenes" =>
       \A k \in Photos \ {object_id} :
         k < next => new_tourist_locations[k] = Transformed(file[k], 0)
  /\ pc = "scenes" => next <= Images + 1
  /\ pc = "replace" =>
       /\ n = Images
       /\ \A k \in Photos \ {object_id} : new_tourist_locations[k] = Transformed(file[k], 0)

ReplacedAreOrdered ==
  /\ replaced # {} => pc \notin {"start", "object", "scenes"}
  /\ \A i \in replaced :
       i \in DOMAIN file[object_id] /\ file[object_id][i][1] <= file[object_id][i][2]

IInv ==
  /\ Aligned /\ InputsOK /\ LocationsRead /\ ObjectKept
  /\ ScenesTransformed /\ ReplacedAreOrdered /\ PastedIsClean

\* The rectangle whose turn it is stands in the coordinates file.
LEMMA RectOfFile ==
  ASSUME IInv, Turn
  PROVE  /\ pc = "replace"
         /\ next \in DOMAIN file[object_id]
         /\ Rect = file[object_id][next]
         /\ Rect \in Int \X Int
<1>1. object_id \in Photos /\ new_tourist_locations[object_id] = file[object_id] /\ pc = "replace"
  BY DEF IInv, InputsOK, ObjectKept, Turn
<1>2. file[object_id] \in Seq(Int \X Int)
  BY <1>1 DEF IInv, InputsOK
<1>3. next \in DOMAIN file[object_id]
  BY <1>1, <1>2 DEF Turn, IInv, ScenesTransformed
<1>. QED  BY <1>1, <1>2, <1>3 DEF Rect

\* Cutting a rectangle that was drawn forwards out of a free photo cuts out
\* nobody.
LEMMA FreeIsEmpty ==
  ASSUME IInv, Turn, Free(Rect) # {}, Inside(Rect),
         NEW p \in Pixels, Rect[1] <= p, p < Rect[2]
  PROVE  Min(Free(Rect)) \in Photos /\ ~ PersonAt(Min(Free(Rect)), p)
<1>. DEFINE k == Min(Free(Rect))
<1>1. n = Images /\ Images \in Nat
  BY TouristlessAssumption DEF IInv, ScenesTransformed, Turn
<1>2. k \in Free(Rect)
  <2>1. Free(Rect) \in SUBSET Nat
    BY <1>1 DEF Free
  <2>. QED  BY <2>1, LeastNumber
<1>3. k \in Photos \ {object_id}
  BY <1>1, <1>2 DEF Free, Photos
<1>4. new_tourist_locations[k] = Transformed(file[k], 0)
  <2>. HIDE DEF k
  <2>. QED  BY <1>3 DEF IInv, ScenesTransformed, Turn
<1>5. ASSUME NEW j \in DOMAIN file[k], p \in Cover(file[k][j])
      PROVE  FALSE
  <2>. HIDE DEF k
  <2>1. file[k] \in Seq(Int \X Int)
    BY <1>3 DEF IInv, InputsOK
  <2>2. file[k][j] \in Int \X Int
    BY <1>5, <2>1
  <2>4. file[k][j][1] \in Int /\ file[k][j][2] \in Int
    BY <2>2
  <2>5. Rect[1] \in Int /\ Rect[2] \in Int
    BY RectOfFile
  <2>7. j \in DOMAIN Transformed(file[k], 0)
        /\ Transformed(file[k], 0)[j] = <<Low(file[k][j]) + 0, High(file[k][j]) + 0>>
    BY <1>5 DEF Transformed
  <2>8. ~ Introsect(Rect, <<Low(file[k][j]) + 0, High(file[k][j]) + 0>>)
    BY <1>2, <1>4, <2>7 DEF Free
  <2>9. p \in Int
    BY TouristlessAssumption DEF Pixels
  <2>. QED  BY <1>5, <2>4, <2>5, <2>8, <2>9 DEF Introsect, Cover, Low, High
<1>. QED  BY <1>3, <1>5 DEF PersonAt

-----------------------------------------------------------------------------

LEMMA InitInv ==
  ASSUME Shifts \subseteq {0}, Init, Complete
  PROVE  IInv
<1>1. Aligned /\ InputsOK
  <2>1. PICK m \in 0 .. Images : file \in [1 .. m -> RectLists]
    BY DEF Init
  <2>2. file \in [Photos -> RectLists]
    BY <2>1 DEF Complete
  <2>3. RectLists \subseteq Seq(Int \X Int)
    BY TouristlessAssumption DEF RectLists
  <2>. QED  BY <2>2, <2>3 DEF Init, Aligned, InputsOK
<1>2. LocationsRead /\ ObjectKept /\ ScenesTransformed /\ ReplacedAreOrdered /\ PastedIsClean
  BY DEF Init, LocationsRead, ObjectKept, ScenesTransformed, ReplacedAreOrdered, PastedIsClean
<1>. QED  BY <1>1, <1>2 DEF IInv

LEMMA ScenePhotoInv ==
  ASSUME IInv, ScenePhoto
  PROVE  IInv'
<1>. USE DEF IInv
<1>1. object_id \in Photos /\ object_id' = object_id /\ file' = file /\ shift' = shift
  BY DEF ScenePhoto, inputs, InputsOK
<1>2. next \in Photos
  BY <1>1 DEF ScenePhoto, HasDescriptors
<1>3. pc = "scenes" /\ pc' = "scenes" /\ next' = next + 1 /\ n' = n
      /\ tourist_locations' = tourist_locations /\ out' = out /\ replaced' = replaced
  BY DEF ScenePhoto
<1>4. n \in Nat /\ next \in 1 .. n /\ DOMAIN new_tourist_locations = 1 .. n
      /\ tourist_locations[next] = file[next] /\ shift[next] = 0
  BY <1>2, <1>3, TouristlessAssumption
  DEF LocationsRead, ScenesTransformed, Aligned, ScenePhoto, Photos
<1>5. CASE next = object_id
  <2>1. new_tourist_locations' = new_tourist_locations
    BY <1>5 DEF ScenePhoto
  <2>2. Aligned' /\ InputsOK' /\ LocationsRead' /\ ObjectKept'
    BY <1>1, <1>3, <2>1 DEF Aligned, InputsOK, Complete, LocationsRead, ObjectKept
  <2>3. ScenesTransformed'
    BY <1>1, <1>2, <1>3, <1>5, <2>1, TouristlessAssumption DEF ScenesTransformed, Photos
  <2>4. ReplacedAreOrdered' /\ PastedIsClean'
    BY <1>1, <1>3 DEF ReplacedAreOrdered, PastedIsClean, PersonAt
  <2>. QED  BY <2>2, <2>3, <2>4
<1>6. CASE next # object_id
  <2>1. new_tourist_locations' =
          [new_tourist_locations EXCEPT ![next] = Transformed(file[next], 0)]
    BY <1>4, <1>6 DEF ScenePhoto
  <2>2. DOMAIN new_tourist_locations' = DOMAIN new_tourist_locations
        /\ new_tourist_locations'[next] = Transformed(file[next], 0)
        /\ \A k \in 1 .. n : k # next => new_tourist_locations'[k] = new_tourist_locations[k]
    <3>. DEFINE old == new_tourist_locations
                v == Transformed(file[next], 0)
    <3>. HIDE DEF v
    <3>. QED  BY <1>4, <2>1
  <2>3. Photos \subseteq 1 .. n
    BY <1>3, TouristlessAssumption DEF LocationsRead, Photos
  <2>4. Aligned' /\ InputsOK' /\ LocationsRead'
    BY <1>1, <1>3, <2>2 DEF Aligned, InputsOK, Complete, LocationsRead
  <2>5. ObjectKept'
    BY <1>1, <1>3, <1>6, <2>2, <2>3 DEF ObjectKept
  <2>6. ScenesTransformed'
    <3>1. ASSUME NEW k \in Photos \ {object_id}, k < next'
          PROVE  new_tourist_locations'[k] = Transformed(file[k], 0)
      <4>1. CASE k = next
        BY <2>2, <4>1
      <4>2. CASE k # next
        <5>1. k < next
          BY <1>2, <1>3, <3>1, <4>2, TouristlessAssumption DEF Photos
        <5>. QED  BY <1>3, <2>2, <2>3, <4>2, <5>1 DEF ScenesTransformed
      <4>. QED  BY <4>1, <4>2
    <3>2. next' \in Nat \ {0} /\ next' <= Images + 1
      BY <1>2, <1>3, TouristlessAssumption DEF Photos
    <3>. QED  BY <1>1, <1>3, <3>1, <3>2 DEF ScenesTransformed
  <2>7. ReplacedAreOrdered' /\ PastedIsClean'
    BY <1>1, <1>3 DEF ReplacedAreOrdered, PastedIsClean, PersonAt
  <2>. QED  BY <2>4, <2>5, <2>6, <2>7
<1>. QED  BY <1>5, <1>6

LEMMA PasteInv ==
  ASSUME IInv, Paste
  PROVE  IInv'
<1>. USE DEF IInv
<1>1. /\ Turn /\ Free(Rect) # {} /\ Inside(Rect)
      /\ replaced' = replaced \cup {next} /\ next' = next + 1 /\ pc' = pc
      /\ object_id' = object_id /\ file' = file /\ shift' = shift /\ n' = n
      /\ tourist_locations' = tourist_locations
      /\ new_tourist_locations' = new_tourist_locations
  BY DEF Paste, inputs
<1>2. object_id \in Photos /\ Rect = file[object_id][next] /\ pc = "replace"
  BY <1>1 DEF InputsOK, ObjectKept, Turn, Rect
<1>3. next \in DOMAIN file[object_id]
  BY <1>1, RectOfFile
<1>4. Aligned' /\ InputsOK' /\ LocationsRead' /\ ObjectKept' /\ ScenesTransformed'
  BY <1>1, <1>2 DEF Aligned, InputsOK, Complete, LocationsRead, ObjectKept, ScenesTransformed
<1>5. ReplacedAreOrdered'
  BY <1>1, <1>2, <1>3 DEF ReplacedAreOrdered, Inside
<1>6. PastedIsClean'
  <2>1. ASSUME NEW i \in replaced', NEW p \in Cover(file[object_id][i]) \cap Pixels
        PROVE  ~ PersonAt(out'[p], p)
    <3>1. out'[p] = IF Rect[1] <= p /\ p < Rect[2] THEN Min(Free(Rect)) ELSE out[p]
      BY DEF Paste
    <3>2. CASE Rect[1] <= p /\ p < Rect[2]
      BY <1>1, <3>1, <3>2, FreeIsEmpty
    <3>3. CASE ~ (Rect[1] <= p /\ p < Rect[2])
      <4>1. i # next
        <5>1. SUFFICES ASSUME i = next PROVE FALSE
          OBVIOUS
        <5>3. Rect[1] \in Int /\ Rect[2] \in Int
          BY <1>1, RectOfFile
        <5>4. p \in Rect[1] .. Rect[2] - 1
          BY <1>1, <1>2, <2>1, <5>1, <5>3 DEF Cover, Low, High, Inside
        <5>. QED  BY <3>3, <5>3, <5>4
      <4>2. i \in replaced
        BY <1>1, <4>1
      <4>. QED  BY <2>1, <3>1, <3>3, <4>2 DEF PastedIsClean, InputsOK
    <3>. QED  BY <3>2, <3>3
  <2>. QED  BY <1>1, <2>1 DEF PastedIsClean, PersonAt
<1>. QED  BY <1>4, <1>5, <1>6

LEMMA NextInv == IInv /\ [Next]_vars => IInv'
<1>. SUFFICES ASSUME IInv, [Next]_vars PROVE IInv'
  OBVIOUS
<1>. USE DEF IInv, Aligned, InputsOK, LocationsRead, ObjectKept, ScenesTransformed,
             ReplacedAreOrdered, PastedIsClean, PersonAt, Complete, inputs
<1>1. CASE ReadLocations
  <2>1. n' \in Nat /\ Images <= n'
    BY <1>1, TouristlessAssumption DEF ReadLocations, NumberOfFiles
  <2>2. \A k \in Photos : k \in 1 .. n'
    BY <2>1, TouristlessAssumption DEF Photos
  <2>3. LocationsRead'
    BY <1>1, <2>1, <2>2 DEF ReadLocations
  <2>4. (Aligned /\ InputsOK /\ ObjectKept /\ ScenesTransformed /\ ReplacedAreOrdered /\ PastedIsClean)'
    BY <1>1 DEF ReadLocations
  <2>. QED  BY <2>3, <2>4
<1>2. CASE NoLocations
  BY <1>2 DEF NoLocations
<1>3. CASE ObjectPhoto
  <2>1. object_id \in 1 .. n /\ DOMAIN new_tourist_locations = 1 .. n
    BY <1>3, TouristlessAssumption DEF ObjectPhoto, Photos
  <2>2. new_tourist_locations'[object_id] = file[object_id]
        /\ DOMAIN new_tourist_locations' = 1 .. n
    BY <1>3, <2>1 DEF ObjectPhoto
  <2>3. /\ Aligned' /\ InputsOK' /\ LocationsRead' /\ ObjectKept'
        /\ ReplacedAreOrdered' /\ PastedIsClean'
    BY <1>3, <2>2 DEF ObjectPhoto
  <2>4. ScenesTransformed'
    <3>1. next' = 1 /\ pc' = "scenes"
      BY <1>3 DEF ObjectPhoto
    <3>2. \A k \in Photos : ~ (k < 1)
      BY TouristlessAssumption DEF Photos
    <3>. QED  BY <3>1, <3>2, TouristlessAssumption
  <2>. QED  BY <2>3, <2>4
<1>4. CASE ObjectPhotoFails
  BY <1>4 DEF ObjectPhotoFails
<1>5. CASE ScenePhoto
  BY <1>5, ScenePhotoInv
<1>6. CASE ScenePhotoFails \/ MatchingFails
  BY <1>6 DEF ScenePhotoFails, MatchingFails
<1>7. CASE ScenesDone
  <2>1. n = Images
    BY <1>7, TouristlessAssumption DEF ScenesDone
  <2>2. \A k \in Photos : k < next
    BY <1>7, <2>1, TouristlessAssumption DEF ScenesDone, Photos
  <2>. QED  BY <1>7, <2>1, <2>2 DEF ScenesDone
<1>8. CASE Paste
  BY <1>8, PasteInv
<1>9. CASE PasteThrows
  BY <1>9 DEF PasteThrows, Turn
<1>10. CASE LeavePerson
  BY <1>10 DEF LeavePerson, Turn
<1>11. CASE ReplaceDone
  BY <1>11 DEF ReplaceDone
<1>12. CASE Write
  BY <1>12 DEF Write
<1>13. CASE UNCHANGED vars
  BY <1>13 DEF vars
<1>. QED
  BY <1>1, <1>2, <1>3, <1>4, <1>5, <1>6, <1>7, <1>8, <1>9, <1>10, <1>11, <1>12, <1>13
  DEF Next, Ended

-----------------------------------------------------------------------------

\* The coordinates file stays as it is, and so does the choice of the photo.
LEMMA FileKept ==
  [Next]_vars => file' = file /\ object_id' = object_id /\ (Complete' <=> Complete)
<1>1. [Next]_vars => file' = file /\ object_id' = object_id
  BY DEF Next, ReadLocations, NoLocations, ObjectPhoto, ObjectPhotoFails, ScenePhoto,
         ScenePhotoFails, MatchingFails, ScenesDone, Paste, PasteThrows, LeavePerson, ReplaceDone,
         Write, Ended, inputs, vars
<1>. QED  BY <1>1 DEF Complete

\* So nothing is known of an incomplete file, and all of a complete one.
LEMMA Invariance == Shifts \subseteq {0} => (Spec => [](Complete => IInv))
<1>. SUFFICES ASSUME Shifts \subseteq {0} PROVE Spec => [](Complete => IInv)
  OBVIOUS
<1>1. Init => (Complete => IInv)
  BY InitInv
<1>2. (Complete => IInv) /\ [Next]_vars => (Complete => IInv)'
  BY FileKept, NextInv
<1>. QED  BY <1>1, <1>2, PTL DEF Spec

\* When the photos are aligned, no person ever shows in a rectangle that was
\* pasted over, for any number of photos and persons.
THEOREM AlignedPastingIsClean == Shifts \subseteq {0} => (Spec => []PastedIsClean)
<1>1. (Complete => IInv) => PastedIsClean
  BY DEF IInv, PastedIsClean
<1>. QED  BY <1>1, Invariance, PTL

\* What was pasted shows nobody, where there was somebody.
PastesReplace ==
  \A p \in Pixels : out[p] # object_id =>
    out[p] \in Photos /\ PersonAt(object_id, p) /\ ~ PersonAt(out[p], p)

\* Only Paste changes the picture, and only inside the rectangle.
LEMMA PastesInv ==
  ASSUME IInv, PastesReplace, [Next]_vars
  PROVE  PastesReplace'
<1>1. CASE Paste
  <2>1. Turn /\ Free(Rect) # {} /\ Inside(Rect) /\ file' = file /\ object_id' = object_id
    BY <1>1 DEF Paste, inputs
  <2>2. ASSUME NEW p \in Pixels, out'[p] # object_id
        PROVE  out'[p] \in Photos /\ PersonAt(object_id, p) /\ ~ PersonAt(out'[p], p)
    <3>1. out'[p] = IF Rect[1] <= p /\ p < Rect[2] THEN Min(Free(Rect)) ELSE out[p]
      BY <1>1 DEF Paste
    <3>2. CASE Rect[1] <= p /\ p < Rect[2]
      <4>1. Rect[1] \in Int /\ Rect[2] \in Int /\ p \in Int
        BY <2>1, RectOfFile, TouristlessAssumption DEF Pixels
      <4>2. p \in Cover(Rect)
        BY <2>1, <3>2, <4>1 DEF Cover, Low, High, Inside
      <4>3. PersonAt(object_id, p)
        BY <2>1, <4>2, RectOfFile DEF PersonAt
      <4>. QED  BY <2>1, <3>1, <3>2, <4>3, FreeIsEmpty
    <3>3. CASE ~ (Rect[1] <= p /\ p < Rect[2])
      BY <2>2, <3>1, <3>3 DEF PastesReplace
    <3>. QED  BY <3>2, <3>3
  <2>. QED  BY <2>1, <2>2 DEF PastesReplace, PersonAt
<1>2. CASE ~ Paste
  <2>1. out' = out
    BY <1>2 DEF Next, ReadLocations, NoLocations, ObjectPhoto, ObjectPhotoFails, ScenePhoto,
           ScenePhotoFails, MatchingFails, ScenesDone, PasteThrows, LeavePerson, ReplaceDone,
           Write, Ended, vars
  <2>. QED  BY <2>1, FileKept DEF PastesReplace, PersonAt
<1>. QED  BY <1>1, <1>2

\* In every other photo somebody's rectangle meets the i-th one.
NoneFree(i) ==
  \A k \in Photos \ {object_id} : \E j \in DOMAIN file[k] :
    Low(file[object_id][i]) <= High(file[k][j]) /\ Low(file[k][j]) <= High(file[object_id][i])

\* The rectangles whose turn is over were pasted over or had no free photo.
LeftHaveReason ==
  pc \in {"replace", "write", "done"} =>
    \A i \in DOMAIN file[object_id] \ replaced :
      pc \in {"write", "done"} \/ i < next => NoneFree(i)

LEMMA NotFree ==
  ASSUME IInv, Turn, Free(Rect) = {}
  PROVE  NoneFree(next)
<1>1. n = Images /\ Images \in Nat
  BY TouristlessAssumption DEF IInv, ScenesTransformed, Turn
<1>2. next \in DOMAIN file[object_id] /\ Rect = file[object_id][next]
      /\ Rect[1] \in Int /\ Rect[2] \in Int
  BY RectOfFile, TouristlessAssumption
<1>. SUFFICES ASSUME NEW k \in Photos \ {object_id}
              PROVE  \E j \in DOMAIN file[k] :
                       Low(Rect) <= High(file[k][j]) /\ Low(file[k][j]) <= High(Rect)
  BY <1>2 DEF NoneFree
<1>3. new_tourist_locations[k] = Transformed(file[k], 0)
  BY DEF IInv, ScenesTransformed, Turn
<1>4. k \in 1 .. n
  BY <1>1 DEF Photos
<1>5. PICK j \in DOMAIN new_tourist_locations[k] : Introsect(Rect, new_tourist_locations[k][j])
  BY <1>4 DEF Free
<1>6. j \in DOMAIN file[k]
      /\ new_tourist_locations[k][j] = <<Low(file[k][j]) + 0, High(file[k][j]) + 0>>
  BY <1>3, <1>5 DEF Transformed
<1>7. file[k] \in Seq(Int \X Int)
  BY DEF IInv, InputsOK
<1>8. file[k][j][1] \in Int /\ file[k][j][2] \in Int
  BY <1>6, <1>7
<1>9. Introsect(Rect, <<Low(file[k][j]) + 0, High(file[k][j]) + 0>>)
  BY <1>5, <1>6
<1>. QED  BY <1>2, <1>6, <1>8, <1>9 DEF Introsect, Low, High

LEMMA ReasonInv ==
  ASSUME IInv, LeftHaveReason, [Next]_vars
  PROVE  LeftHaveReason'
<1>1. /\ file' = file /\ object_id' = object_id
      /\ \A i : NoneFree(i)' <=> NoneFree(i)
  BY FileKept DEF NoneFree
<1>2. next \in Nat /\ \A i \in DOMAIN file[object_id] : i \in Nat \ {0}
  <2>1. file[object_id] \in Seq(Int \X Int)
    BY DEF IInv, InputsOK
  <2>. QED  BY <2>1 DEF IInv, ScenesTransformed
<1>3. CASE ScenesDone
  BY <1>1, <1>2, <1>3 DEF ScenesDone, LeftHaveReason
<1>4. CASE Paste
  BY <1>1, <1>2, <1>4, RectOfFile DEF Paste, LeftHaveReason
<1>5. CASE LeavePerson
  BY <1>1, <1>2, <1>5, RectOfFile, NotFree DEF LeavePerson, LeftHaveReason
<1>6. CASE ReplaceDone
  <2>1. new_tourist_locations[object_id] = file[object_id] /\ pc = "replace"
    BY <1>6 DEF IInv, ObjectKept, ReplaceDone
  <2>2. file[object_id] \in Seq(Int \X Int)
    BY DEF IInv, InputsOK
  <2>3. \A i \in DOMAIN file[object_id] : i < next
    BY <1>2, <1>6, <2>1, <2>2 DEF ReplaceDone
  <2>. QED  BY <1>1, <1>6, <2>1, <2>3 DEF ReplaceDone, LeftHaveReason
<1>7. CASE Write
  BY <1>1, <1>7 DEF Write, LeftHaveReason
<1>8. CASE \/ ReadLocations \/ NoLocations \/ ObjectPhoto \/ ObjectPhotoFails
           \/ ScenePhoto \/ ScenePhotoFails \/ MatchingFails \/ PasteThrows
  BY <1>8 DEF ReadLocations, NoLocations, ObjectPhoto, ObjectPhotoFails,
              ScenePhoto, ScenePhotoFails, MatchingFails, PasteThrows, LeftHaveReason
<1>9. CASE UNCHANGED vars
  BY <1>1, <1>9 DEF vars, LeftHaveReason
<1>. QED
  BY <1>3, <1>4, <1>5, <1>6, <1>7, <1>8, <1>9 DEF Next, Ended

\* Outside the rectangles of the object photo no pixel is ever replaced.
THEOREM OnlyPersonsAreReplaced == Shifts \subseteq {0} => (Spec => []RestIsUntouched)
<1>1. Init => (Complete => PastesReplace)
  BY DEF Init, PastesReplace
<1>2. (Complete => IInv) /\ (Complete => PastesReplace) /\ [Next]_vars => (Complete => PastesReplace)'
  BY FileKept, PastesInv
<1>3. (Complete => PastesReplace) => RestIsUntouched
  BY DEF PastesReplace, RestIsUntouched
<1>. QED  BY <1>1, <1>2, <1>3, Invariance, PTL DEF Spec

\* A person who stays could not be replaced from any photo.
THEOREM NobodyStaysInVain == Shifts \subseteq {0} => (Spec => []StaysOnlyIfNoneFree)
<1>1. Init => (Complete => LeftHaveReason)
  BY DEF Init, LeftHaveReason
<1>2. (Complete => IInv) /\ (Complete => LeftHaveReason) /\ [Next]_vars
        => (Complete => LeftHaveReason)'
  BY FileKept, ReasonInv
<1>3. (Complete => LeftHaveReason) => StaysOnlyIfNoneFree
  BY DEF LeftHaveReason, NoneFree, StaysOnlyIfNoneFree
<1>. QED  BY <1>1, <1>2, <1>3, Invariance, PTL DEF Spec

-----------------------------------------------------------------------------

\* How far the run has got says which of the reasons to fail are ruled out, and
\* an end without a result has one of them.
EndHasReason ==
  /\ blank \in 0 .. Images
  /\ pc \in {"object", "scenes", "replace"} => n = NumberOfFiles
  /\ pc \in {"scenes", "replace"} => blank # object_id
  /\ pc = "scenes" => \A k \in Photos \ {object_id} : k < next => k # blank
  /\ pc \in {"replace", "write", "done", "threw"} => blank = 0 /\ ~ nested
  /\ pc = "nodescriptors" => blank # 0 \/ nested
  /\ pc = "replace" => \A i \in DOMAIN file[object_id] : i < next => ~ CannotBeCut(i) \/ Blocked(i)
  /\ pc \in {"write", "done"} => \A i \in DOMAIN file[object_id] : ~ CannotBeCut(i) \/ Blocked(i)
  /\ pc = "threw" => \E i \in DOMAIN file[object_id] : CannotBeCut(i) /\ ~ Blocked(i)

\* A rectangle with sorted corners meets r exactly if it is in the way of it.
LEMMA MeetsIfBlocks ==
  ASSUME NEW r \in Int \X Int, NEW s \in Int \X Int
  PROVE  Introsect(r, <<Low(s) + 0, High(s) + 0>>) <=> Blocks(s, r)
<1>. DEFINE a == r[1]
            b == r[2]
            c == Low(s)
            d == High(s)
<1>1. a \in Int /\ b \in Int /\ c \in Int /\ d \in Int /\ c <= d
  BY DEF Low, High
<1>2. Introsect(r, <<c + 0, d + 0>>) <=> a <= d /\ c <= b
  BY <1>1 DEF Introsect
<1>3. CASE a <= b
  <2>1. Extent(r) = a .. b /\ Extent(s) = c .. d
    BY <1>3 DEF Extent, Low, High
  <2>. HIDE DEF a, b, c, d
  <2>2. a <= d /\ c <= b => (a .. b) \cap (c .. d) # {}
    <3>1. CASE a <= c
      BY <1>1, <3>1
    <3>2. CASE c < a
      BY <1>1, <1>3, <3>2
    <3>. QED  BY <1>1, <3>1, <3>2
  <2>3. (a .. b) \cap (c .. d) # {} => a <= d /\ c <= b
    BY <1>1
  <2>. QED  BY <1>2, <1>3, <2>1, <2>2, <2>3 DEF Blocks, a, b, c, d
<1>4. CASE b < a
  <2>1. Extent(r) = b .. a /\ Extent(s) = c .. d /\ ~ (a <= b)
    BY <1>1, <1>4 DEF Extent, Low, High
  <2>. HIDE DEF a, b, c, d
  <2>2. b .. a \subseteq c .. d <=> a <= d /\ c <= b
    BY <1>1, <1>4
  <2>. QED  BY <1>2, <2>1, <2>2 DEF Blocks, a, b, c, d
<1>. QED  BY <1>1, <1>3, <1>4

\* What the turn of a rectangle decides.
LEMMA TurnDecides ==
  ASSUME IInv, Turn
  PROVE  /\ Free(Rect) = {} <=> Blocked(next)
         /\ Inside(Rect) <=> ~ CannotBeCut(next)
<1>1. n = Images /\ Images \in Nat
  BY TouristlessAssumption DEF IInv, ScenesTransformed, Turn
<1>2. next \in DOMAIN file[object_id] /\ Rect = file[object_id][next] /\ Rect \in Int \X Int
  BY RectOfFile
<1>3. ASSUME NEW k \in Photos \ {object_id}
      PROVE  /\ k \in (1 .. n) \ {object_id}
             /\ DOMAIN new_tourist_locations[k] = DOMAIN file[k]
             /\ \A j \in DOMAIN file[k] :
                  Introsect(Rect, new_tourist_locations[k][j]) <=> Blocks(file[k][j], Rect)
  <2>1. new_tourist_locations[k] = Transformed(file[k], 0)
    BY DEF IInv, ScenesTransformed, Turn
  <2>2. file[k] \in Seq(Int \X Int)
    BY DEF IInv, InputsOK
  <2>3. DOMAIN new_tourist_locations[k] = DOMAIN file[k]
    BY <2>1 DEF Transformed
  <2>4. ASSUME NEW j \in DOMAIN file[k]
        PROVE  Introsect(Rect, new_tourist_locations[k][j]) <=> Blocks(file[k][j], Rect)
    <3>1. file[k][j] \in Int \X Int
      BY <2>2
    <3>2. new_tourist_locations[k][j] = <<Low(file[k][j]) + 0, High(file[k][j]) + 0>>
      BY <2>1 DEF Transformed
    <3>. QED  BY <1>2, <3>1, <3>2, MeetsIfBlocks
  <2>. QED  BY <1>1, <2>3, <2>4 DEF Photos
<1>4. Free(Rect) = {} <=> Blocked(next)
  <2>1. (1 .. n) \ {object_id} = Photos \ {object_id}
    BY <1>1 DEF Photos
  <2>2. Free(Rect) = {k \in Photos \ {object_id} : \A j \in DOMAIN file[k] : ~ Blocks(file[k][j], Rect)}
    BY <1>3, <2>1 DEF Free
  <2>. QED  BY <1>2, <2>2 DEF Blocked
<1>5. Inside(Rect) <=> ~ CannotBeCut(next)
  <2>. DEFINE r == Rect
  <2>1. r[1] \in Int /\ r[2] \in Int /\ Span \in Nat
    BY <1>2, TouristlessAssumption
  <2>2. Inside(r) <=> ~ (r[2] < r[1] \/ ~ (Extent(r) \subseteq 0 .. Span))
    <3>. HIDE DEF r
    <3>. QED  BY <2>1 DEF Inside, Extent, Low, High
  <2>. QED  BY <1>2, <2>2 DEF CannotBeCut
<1>. QED  BY <1>4, <1>5

LEMMA EndInv ==
  ASSUME IInv, EndHasReason, [Next]_vars
  PROVE  EndHasReason'
<1>1. /\ file' = file /\ object_id' = object_id /\ blank' = blank /\ nested' = nested
      /\ NumberOfFiles' = NumberOfFiles
  BY DEF Next, ReadLocations, NoLocations, ObjectPhoto, ObjectPhotoFails, ScenePhoto,
         ScenePhotoFails, MatchingFails, ScenesDone, Paste, PasteThrows, LeavePerson, ReplaceDone,
         Write, Ended, inputs, vars, NumberOfFiles
<1>2. \A i : (CannotBeCut(i)' <=> CannotBeCut(i)) /\ (Blocked(i)' <=> Blocked(i))
  BY <1>1 DEF CannotBeCut, Blocked
<1>3. /\ next \in Nat \ {0} /\ \A i \in DOMAIN file[object_id] : i \in Nat \ {0}
      /\ object_id \in Photos /\ Images \in Nat
  <2>1. file[object_id] \in Seq(Int \X Int)
    BY DEF IInv, InputsOK
  <2>. QED  BY <2>1, TouristlessAssumption DEF IInv, ScenesTransformed, InputsOK
<1>4. CASE ReadLocations \/ NoLocations
  BY <1>1, <1>4 DEF ReadLocations, NoLocations, EndHasReason
<1>5. CASE ObjectPhoto
  <2>1. next = 1 /\ next' = 1
    BY <1>5 DEF ObjectPhoto, IInv, ScenesTransformed
  <2>2. \A k \in Photos : ~ (k < 1)
    BY TouristlessAssumption DEF Photos
  <2>. QED  BY <1>1, <1>5, <2>1, <2>2 DEF ObjectPhoto, HasDescriptors, EndHasReason
<1>6. CASE ObjectPhotoFails
  <2>1. blank = object_id /\ object_id # 0
    BY <1>3, <1>6, TouristlessAssumption DEF ObjectPhotoFails, HasDescriptors, Photos
  <2>. QED  BY <1>1, <1>6, <2>1 DEF ObjectPhotoFails, EndHasReason
<1>7. CASE ScenePhoto
  <2>1. \A k \in Photos \ {object_id} : k < next + 1 => k < next \/ k = next
    BY <1>3 DEF Photos
  <2>2. next = object_id \/ next # blank
    BY <1>7 DEF ScenePhoto, HasDescriptors
  <2>. QED  BY <1>1, <1>7, <2>1, <2>2 DEF ScenePhoto, EndHasReason
<1>8. CASE ScenePhotoFails
  <2>1. next \in Photos \/ nested
    BY <1>3, <1>8 DEF ScenePhotoFails, EndHasReason, NumberOfFiles, Photos
  <2>2. blank # 0 \/ nested
    BY <1>8, <2>1, TouristlessAssumption DEF ScenePhotoFails, HasDescriptors, Photos
  <2>. QED  BY <1>1, <1>8, <2>2 DEF ScenePhotoFails, EndHasReason
<1>15. CASE MatchingFails
  BY <1>1, <1>15 DEF MatchingFails, EndHasReason
<1>9. CASE ScenesDone
  <2>1. n = NumberOfFiles /\ next > n /\ next <= Images + 1
    BY <1>9 DEF ScenesDone, EndHasReason, IInv, ScenesTransformed
  <2>2. ~ nested /\ \A k \in Photos : k < next
    BY <1>3, <2>1 DEF NumberOfFiles, Photos
  <2>3. blank = 0
    BY <1>3, <1>9, <2>2 DEF ScenesDone, EndHasReason, Photos
  <2>4. next' = 1 /\ \A i \in DOMAIN file[object_id] : ~ (i < 1)
    BY <1>3, <1>9 DEF ScenesDone
  <2>. QED  BY <1>1, <1>9, <2>1, <2>2, <2>3, <2>4 DEF ScenesDone, EndHasReason
<1>10. CASE Paste \/ LeavePerson
  <2>1. Turn /\ next' = next + 1 /\ pc' = pc /\ n' = n /\ (Inside(Rect) \/ Free(Rect) = {})
    BY <1>10 DEF Paste, LeavePerson
  <2>2. pc = "replace" /\ (~ CannotBeCut(next) \/ Blocked(next))
    BY <2>1, TurnDecides DEF Turn
  <2>3. \A i \in DOMAIN file[object_id] : i < next + 1 => i < next \/ i = next
    BY <1>3
  <2>. QED  BY <1>1, <1>2, <2>1, <2>2, <2>3 DEF EndHasReason
<1>11. CASE PasteThrows
  <2>1. Turn /\ Free(Rect) # {} /\ ~ Inside(Rect) /\ pc' = "threw"
    BY <1>11 DEF PasteThrows
  <2>2. next \in DOMAIN file[object_id] /\ CannotBeCut(next) /\ ~ Blocked(next) /\ pc = "replace"
    BY <2>1, TurnDecides, RectOfFile
  <2>. QED  BY <1>1, <1>2, <2>1, <2>2 DEF EndHasReason
<1>12. CASE ReplaceDone
  <2>1. new_tourist_locations[object_id] = file[object_id] /\ pc = "replace"
    BY <1>12 DEF IInv, ObjectKept, ReplaceDone
  <2>2. file[object_id] \in Seq(Int \X Int)
    BY DEF IInv, InputsOK
  <2>3. \A i \in DOMAIN file[object_id] : i < next
    BY <1>3, <1>12, <2>1, <2>2 DEF ReplaceDone
  <2>. QED  BY <1>1, <1>2, <1>12, <2>1, <2>3 DEF ReplaceDone, EndHasReason
<1>13. CASE Write
  BY <1>1, <1>2, <1>13 DEF Write, EndHasReason
<1>14. CASE UNCHANGED vars
  BY <1>1, <1>2, <1>14 DEF vars, EndHasReason
<1>. QED
  BY <1>4, <1>5, <1>6, <1>7, <1>8, <1>9, <1>10, <1>11, <1>12, <1>13, <1>14, <1>15
  DEF Next, Ended

\* When the photos are aligned and match, and the file is full, the run ends
\* with a result unless a photo is blank, an entry of the folder is no photo, or
\* a rectangle that cannot be cut is not blocked; and then it ends without one.
THEOREM EndsForAReason == Shifts \subseteq {0} => (Spec => []ResultOrReason)
<1>1. Init => (Complete => EndHasReason)
  BY DEF Init, EndHasReason
<1>2. (Complete => IInv) /\ (Complete => EndHasReason) /\ [Next]_vars
        => (Complete => EndHasReason)'
  BY FileKept, EndInv
<1>3. (Complete => EndHasReason) => ResultOrReason
  BY DEF EndHasReason, ResultOrReason, Final
<1>. QED  BY <1>1, <1>2, <1>3, Invariance, PTL DEF Spec

-----------------------------------------------------------------------------

\* The type invariant and what makes it inductive, for photos displaced in any
\* way: the loop over the photos gets to its end only if every entry of the
\* folder was a photo.
Stages ==
  /\ object_id \in Photos
  /\ file \in UNION {[1 .. m -> RectLists] : m \in 0 .. Images}
  /\ pc \in {"object", "scenes", "replace"} =>
       /\ n \in {Images, Images + 1}
       /\ DOMAIN tourist_locations = 1 .. n
  /\ pc \in {"start", "object"} => next = 1
  /\ pc = "scenes" => next <= Images + 1
  /\ pc = "replace" => n = Images /\ next <= MaxRects + 1
  /\ pc \in {"scenes", "replace"} =>
       new_tourist_locations[object_id] = tourist_locations[object_id]

TInv == TypeOK /\ Stages

LEMMA InitTypes == Init => TInv
<1>. SUFFICES ASSUME Init PROVE TInv
  OBVIOUS
<1>1. out \in [Pixels -> Photos]
  BY DEF Init
<1>2. DOMAIN tourist_locations = {} /\ DOMAIN new_tourist_locations = {}
  BY DEF Init
<1>3. TypeOK
  BY <1>1, <1>2, TouristlessAssumption DEF Init, TypeOK
<1>. QED  BY <1>3 DEF Init, TInv, Stages

LEMMA NextTypes == TInv /\ [Next]_vars => TInv'
<1>. SUFFICES ASSUME TInv, [Next]_vars PROVE TInv'
  OBVIOUS
<1>. USE TouristlessAssumption DEF TInv, TypeOK, Stages, inputs, Final, Photos
<1>1. CASE ReadLocations
  <2>1. n' \in {Images, Images + 1}
    BY <1>1 DEF ReadLocations, NumberOfFiles
  <2>2. PICK garbage \in Garbage :
          tourist_locations' = [k \in 1 .. n' |-> IF k \in DOMAIN file THEN file[k] ELSE garbage]
    BY <1>1 DEF ReadLocations
  <2>3. PICK m \in 0 .. Images : file \in [1 .. m -> RectLists]
    OBVIOUS
  <2>4. \A k \in DOMAIN tourist_locations' : tourist_locations'[k] \in RectLists
    <3>1. garbage \in RectLists
      BY <2>2 DEF Garbage, RectLists
    <3>. QED  BY <2>2, <2>3, <3>1
  <2>. QED  BY <1>1, <2>1, <2>2, <2>4 DEF ReadLocations
<1>2. CASE NoLocations
  BY <1>2 DEF NoLocations, NumberOfFiles
<1>3. CASE ObjectPhoto
  BY <1>3 DEF ObjectPhoto
<1>4. CASE ObjectPhotoFails
  BY <1>4 DEF ObjectPhotoFails
<1>5. CASE ScenePhoto
  <2>1. next \in Photos
    BY <1>5 DEF ScenePhoto, HasDescriptors
  <2>2. /\ DOMAIN new_tourist_locations' = DOMAIN new_tourist_locations
        /\ new_tourist_locations'[object_id] = new_tourist_locations[object_id]
    BY <1>5 DEF ScenePhoto
  <2>3. next' \in 1 .. Images + MaxRects + 2 /\ next' <= Images + 1
    BY <1>5, <2>1 DEF ScenePhoto
  <2>4. TypeOK'
    BY <1>5, <2>2, <2>3 DEF ScenePhoto
  <2>5. Stages'
    BY <1>5, <2>2, <2>3 DEF ScenePhoto
  <2>. QED  BY <2>4, <2>5
<1>6. CASE ScenePhotoFails \/ MatchingFails
  BY <1>6 DEF ScenePhotoFails, MatchingFails
<1>7. CASE ScenesDone
  BY <1>7 DEF ScenesDone
<1>8. ASSUME pc = "replace"
      PROVE  Len(new_tourist_locations[object_id]) \in 0 .. MaxRects
  <2>1. new_tourist_locations[object_id] \in RectLists
    BY <1>8
  <2>2. PICK m \in 0 .. MaxRects : new_tourist_locations[object_id] \in [1 .. m -> Rects]
    BY <2>1 DEF RectLists
  <2>. QED  BY <2>2
<1>9. CASE Paste
  <2>1. next \in 1 .. MaxRects
    BY <1>8, <1>9 DEF Paste, Turn
  <2>2. Min(Free(Rect)) \in Photos
    <3>1. Free(Rect) \in SUBSET Photos /\ Free(Rect) \in SUBSET Nat
      BY <1>9 DEF Paste, Turn, Free
    <3>. QED  BY <1>9, <3>1, LeastNumber DEF Paste
  <2>3. out' \in [Pixels -> Photos]
    BY <1>9, <2>2 DEF Paste
  <2>4. replaced' \subseteq 1 .. MaxRects
    BY <1>9, <2>1 DEF Paste
  <2>5. next' \in 1 .. Images + MaxRects + 2 /\ next' <= MaxRects + 1
    BY <1>9, <2>1 DEF Paste
  <2>6. TypeOK'
    BY <1>9, <2>3, <2>4, <2>5 DEF Paste
  <2>. QED  BY <1>9, <2>5, <2>6 DEF Paste, Turn
<1>10. CASE PasteThrows
  BY <1>10 DEF PasteThrows, Turn
<1>11. CASE LeavePerson
  <2>1. next \in 1 .. MaxRects
    BY <1>8, <1>11 DEF LeavePerson, Turn
  <2>. QED  BY <1>11, <2>1 DEF LeavePerson, Turn
<1>12. CASE ReplaceDone
  BY <1>12 DEF ReplaceDone
<1>13. CASE Write
  BY <1>13 DEF Write
<1>14. CASE UNCHANGED vars
  BY <1>14 DEF vars
<1>. QED
  BY <1>1, <1>2, <1>3, <1>4, <1>5, <1>6, <1>7, <1>9, <1>10, <1>11, <1>12, <1>13, <1>14
  DEF Next, Ended

\* The variables keep their types, with a short coordinates file, an output
\* folder among the photos and displaced photos too: no pixel ever comes from
\* anything but a photo, and next never runs away.
THEOREM TypeCorrect == Spec => []TypeOK
<1>1. TInv => TypeOK
  BY DEF TInv
<1>. QED  BY <1>1, InitTypes, NextTypes, PTL DEF Spec
=============================================================================
