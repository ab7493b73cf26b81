-------------------------- MODULE RetouchingProofs --------------------------
(***************************************************************************)
(* Theorems about ImageCutter and Retouching, for any number of photos of  *)
(* any width, drags anywhere, and any bound on them.                       *)
(***************************************************************************)
EXTENDS Retouching, SequenceTheorems, TLAPS

Drags == Seq(Int \X Int)

\* The last box is where the button went down, if the callback was told: this
\* is why the last two boxes are the drag.
CutterInv ==
  /\ at \in {"off", "load", "wait"}
  /\ boxes \in Seq(Int) /\ printed \in Drags /\ drawn \in Drags
  /\ callbacks \in Nat /\ stray \in BOOLEAN
  /\ button \in Points \cup {NoPoint, Untold}
  /\ button \in Points => Len(boxes) # 0 /\ boxes[Len(boxes)] = button
  /\ at = "off" => callbacks = 0
  /\ DragsArePrinted

LEMMA CutterInitInv == CutterInit => CutterInv
<1>. SUFFICES ASSUME CutterInit PROVE CutterInv
  OBVIOUS
<1>1. boxes \in Seq(Int) /\ printed \in Drags /\ drawn \in Drags
  BY DEF CutterInit, Drags
<1>. QED  BY <1>1, ImageCutterAssumption DEF CutterInit, CutterInv, DragsArePrinted

\* A sequence that has got one more member.
Longer(s, e, t) ==
  /\ \A i \in DOMAIN t : (i \in DOMAIN s /\ t[i] = s[i]) \/ t[i] = e
  /\ \A i \in DOMAIN s : i \in DOMAIN t /\ t[i] = s[i]
  /\ \E i \in DOMAIN t : t[i] = e

LEMMA Appended ==
  ASSUME NEW S, NEW s \in Seq(S), NEW e \in S
  PROVE  Append(s, e) \in Seq(S) /\ Longer(s, e, Append(s, e))
<1>1. DOMAIN s = 1 .. Len(s) /\ Len(s) \in Nat
  BY LenProperties
<1>2. DOMAIN Append(s, e) = 1 .. Len(s) + 1
  BY AppendProperties, LenProperties
<1>. QED  BY <1>1, <1>2, AppendProperties DEF Longer

\* What is printed together with what is drawn stays so.
LEMMA PrintedTogether ==
  ASSUME NEW s \in Drags, NEW t \in Drags, NEW e \in Int \X Int,
         \A i \in DOMAIN s : \E j \in DOMAIN t : t[j] = s[i]
  PROVE  \A i \in DOMAIN Append(s, e) : \E j \in DOMAIN Append(t, e) : Append(t, e)[j] = Append(s, e)[i]
<1>1. Longer(s, e, Append(s, e)) /\ Longer(t, e, Append(t, e))
  BY Appended DEF Drags
<1>. HIDE DEF Drags
<1>. QED  BY <1>1 DEF Longer

\* What is released is printed, and is a drag if the press was told.
LEMMA ReleaseInv ==
  ASSUME CutterInv, NEW x \in Points, Release(x)
  PROVE  CutterInv'
<1>1. x \in Int /\ NoPoint \notin Int /\ Untold \notin Int /\ NoPoint # Untold /\ Points \subseteq Int
  BY ImageCutterAssumption
<1>2. /\ at' = at /\ at = "wait" /\ callbacks \in Nat /\ button' = NoPoint
      /\ button \in Points \cup {Untold} /\ stray' \in BOOLEAN /\ callbacks' \in Nat
  BY DEF Release, CutterInv
<1>3. /\ boxes \in Seq(Int) /\ printed \in Drags /\ drawn \in Drags
      /\ button \in Points => Len(boxes) # 0 /\ boxes[Len(boxes)] = button
      /\ DragsArePrinted
  BY DEF CutterInv
<1>. DEFINE b == Append(boxes, x)
<1>4. b \in Seq(Int) /\ Len(b) = Len(boxes) + 1 /\ b[Len(b)] = x /\ Len(boxes) \in Nat
      /\ (Len(boxes) # 0 => b[Len(b) - 1] = boxes[Len(boxes)])
  BY <1>1, <1>3
<1>5. /\ boxes' = b
      /\ printed' = IF Len(b) >= 2 THEN Append(printed, LastTwo(b)) ELSE printed
      /\ callbacks' \in {callbacks, callbacks + 1}
      /\ drawn' = IF button = Untold THEN drawn ELSE Append(drawn, <<button, x>>)
      /\ stray' = (stray \/ button = Untold)
  BY DEF Release
<1>. HIDE DEF b
<1>6. Len(b) >= 2 => LastTwo(b) \in Int \X Int
  BY <1>4 DEF LastTwo
<1>7. button \in Points => Len(b) >= 2 /\ LastTwo(b) = <<button, x>> /\ <<button, x>> \in Int \X Int
  BY <1>1, <1>3, <1>4 DEF LastTwo
<1>10. printed' \in Drags /\ drawn' \in Drags /\ DragsArePrinted'
  <2>1. CASE button = Untold
    <3>1. drawn' = drawn /\ stray' = TRUE
      BY <1>5, <2>1
    <3>. DEFINE r == LastTwo(b)
    <3>2. printed' = printed \/ (r \in Int \X Int /\ printed' = Append(printed, r))
      BY <1>5, <1>6
    <3>. HIDE DEF r
    <3>3. printed' \in Drags
          /\ \A j \in DOMAIN printed : j \in DOMAIN printed' /\ printed'[j] = printed[j]
      <4>1. CASE printed' = printed
        BY <1>3, <4>1
      <4>2. CASE r \in Int \X Int /\ printed' = Append(printed, r)
        <5>1. printed' \in Drags /\ Longer(printed, r, printed')
          BY <1>3, <4>2, Appended DEF Drags
        <5>. QED  BY <5>1 DEF Longer
      <4>. QED  BY <3>2, <4>1, <4>2
    <3>. QED  BY <1>3, <3>1, <3>3 DEF DragsArePrinted
  <2>2. CASE button \in Points
    <3>. DEFINE d == <<button, x>>
    <3>1. button # Untold /\ d \in Int \X Int
      BY <1>1, <1>7, <2>2
    <3>2. drawn' = Append(drawn, d) /\ printed' = Append(printed, d) /\ (stray => stray')
      BY <1>5, <1>7, <2>2, <3>1
    <3>. HIDE DEF d
    <3>3. printed' \in Drags /\ drawn' \in Drags
      BY <1>3, <3>1, <3>2, Appended DEF Drags
    <3>4. \A i \in DOMAIN drawn' : \E j \in DOMAIN printed' : printed'[j] = drawn'[i]
      BY <1>3, <3>1, <3>2, PrintedTogether DEF DragsArePrinted
    <3>5. ~ stray' => printed' = drawn'
      BY <1>3, <3>2 DEF DragsArePrinted
    <3>. QED  BY <3>3, <3>4, <3>5 DEF DragsArePrinted
  <2>. QED  BY <1>2, <2>1, <2>2
<1>11. boxes' \in Seq(Int) /\ button' \in {NoPoint} /\ NoPoint \notin Points
  BY <1>1, <1>2, <1>4, <1>5
<1>. QED  BY <1>2, <1>10, <1>11 DEF CutterInv

LEMMA KeysInv ==
  ASSUME CutterInv, InnerKey \/ KeyForAll
  PROVE  CutterInv'
<1>1. /\ boxes' = boxes /\ printed' = printed /\ drawn' = drawn /\ button' = button /\ stray' = stray
      /\ at' \in {"load", "wait", "off"} /\ (at' = "off" => at = "off" /\ callbacks > 0)
      /\ callbacks' \in Nat
  BY DEF InnerKey, KeyForAll, CutterInv, session
<1>. QED  BY <1>1 DEF CutterInv, DragsArePrinted

LEMMA CutterStepInv ==
  ASSUME CutterInv, Start \/ CutterStep \/ UNCHANGED cutterVars
  PROVE  CutterInv'
<1>. USE DEF session
<1>1. CASE Start
  BY <1>1 DEF Start, CutterInv, DragsArePrinted
<1>2. CASE Exit
  <2>1. boxes' \in Seq(Int) /\ printed' \in Drags /\ drawn' \in Drags
    BY <1>2 DEF Exit, Drags
  <2>. QED  BY <1>2, <2>1, ImageCutterAssumption DEF Exit, CutterInv, DragsArePrinted
<1>3. CASE Load \/ NoKey \/ UNCHANGED cutterVars
  BY <1>3 DEF Load, NoKey, cutterVars, CutterInv, DragsArePrinted
<1>4. ASSUME NEW x \in Points, Press(x) PROVE CutterInv'
  <2>1. x \in Int /\ boxes \in Seq(Int)
    BY ImageCutterAssumption DEF CutterInv
  <2>2. Append(boxes, x) \in Seq(Int) /\ Len(Append(boxes, x)) # 0
        /\ Append(boxes, x)[Len(Append(boxes, x))] = x
    BY <2>1
  <2>. QED  BY <1>4, <2>2 DEF Press, CutterInv, DragsArePrinted
<1>5. CASE DoubleClick
  BY <1>5, ImageCutterAssumption DEF DoubleClick, CutterInv, DragsArePrinted
<1>. QED
  BY <1>1, <1>2, <1>3, <1>4, <1>5, ReleaseInv, KeysInv DEF CutterStep, LoadFails, Escape

-----------------------------------------------------------------------------

\* The theorems about touristless, for the rectangles drawn in the cutter.
Proved == INSTANCE TouristlessProofs WITH
  Span <- Zoom * Width, Rects <- {<<Zoom * x, Zoom * y>> : x, y \in Points},
  MaxGarbage <- MaxRects, Shifts <- {}, Nested <- FALSE

LEMMA ProvedAssumption == Proved!TouristlessAssumption
<1>1. Zoom * Width \in Nat
  BY RetouchingAssumption, ImageCutterAssumption
<1>2. \A x, y \in Points : <<Zoom * x, Zoom * y>> \in Int \X Int
  BY RetouchingAssumption, ImageCutterAssumption
<1>. QED  BY <1>1, <1>2, RetouchingAssumption DEF Proved!TouristlessAssumption

\* Retouching runs the very actions about which the theorems are.
LEMMA SameNext == Touristless!Next => Proved!Next
<1>. USE DEF Touristless!inputs, Proved!inputs
<1>1. Touristless!Photos = Proved!Photos
  BY DEF Touristless!Photos, Proved!Photos
<1>2. Touristless!Pixels = Proved!Pixels
  BY DEF Touristless!Pixels, Proved!Pixels
<1>3. Touristless!Garbage = Proved!Garbage
  BY DEF Touristless!Garbage, Proved!Garbage
<1>4. \A list, d : Touristless!Transformed(list, d) = Proved!Transformed(list, d)
  BY DEF Touristless!Low, Proved!Low, Touristless!High, Proved!High,
         Touristless!Transformed, Proved!Transformed
<1>5. \A r : Touristless!Free(r) = Proved!Free(r)
  BY DEF Touristless!Introsect, Proved!Introsect, Touristless!Free, Proved!Free
<1>6. Touristless!Rect = Proved!Rect
  BY DEF Touristless!Rect, Proved!Rect
<1>7. \A S : Touristless!Min(S) = Proved!Min(S)
  BY DEF Touristless!Min, Proved!Min
<1>8. Touristless!ReadLocations => Proved!ReadLocations
  BY <1>3 DEF Touristless!ReadLocations, Proved!ReadLocations, Touristless!NumberOfFiles,
         Proved!NumberOfFiles
<1>9. Touristless!NoLocations => Proved!NoLocations
  BY DEF Touristless!NoLocations, Proved!NoLocations, Touristless!NumberOfFiles,
         Proved!NumberOfFiles
<1>10. Touristless!ObjectPhoto => Proved!ObjectPhoto
  BY <1>1 DEF Touristless!ObjectPhoto, Proved!ObjectPhoto, Touristless!HasDescriptors,
         Proved!HasDescriptors
<1>11. Touristless!ObjectPhotoFails => Proved!ObjectPhotoFails
  BY <1>1 DEF Touristless!ObjectPhotoFails, Proved!ObjectPhotoFails,
         Touristless!HasDescriptors, Proved!HasDescriptors
<1>12. Touristless!ScenePhoto => Proved!ScenePhoto
  BY <1>1, <1>4 DEF Touristless!ScenePhoto, Proved!ScenePhoto, Touristless!HasDescriptors,
         Proved!HasDescriptors
<1>13. Touristless!ScenePhotoFails => Proved!ScenePhotoFails
  BY <1>1 DEF Touristless!ScenePhotoFails, Proved!ScenePhotoFails,
         Touristless!HasDescriptors, Proved!HasDescriptors
<1>21. Touristless!MatchingFails => Proved!MatchingFails
  BY <1>1 DEF Touristless!MatchingFails, Proved!MatchingFails,
         Touristless!HasDescriptors, Proved!HasDescriptors
<1>14. Touristless!ScenesDone => Proved!ScenesDone
  BY DEF Touristless!ScenesDone, Proved!ScenesDone
<1>15. Touristless!Paste => Proved!Paste
  BY <1>2, <1>5, <1>6, <1>7 DEF Touristless!Paste, Proved!Paste, Touristless!Turn,
         Proved!Turn, Touristless!Inside, Proved!Inside
<1>16. Touristless!PasteThrows => Proved!PasteThrows
  BY <1>5, <1>6 DEF Touristless!PasteThrows, Proved!PasteThrows, Touristless!Turn,
         Proved!Turn, Touristless!Inside, Proved!Inside
<1>17. Touristless!LeavePerson => Proved!LeavePerson
  BY <1>5, <1>6 DEF Touristless!LeavePerson, Proved!LeavePerson, Touristless!Turn,
         Proved!Turn
<1>18. Touristless!ReplaceDone => Proved!ReplaceDone
  BY DEF Touristless!ReplaceDone, Proved!ReplaceDone
<1>19. Touristless!Write => Proved!Write
  BY DEF Touristless!Write, Proved!Write
<1>20. Touristless!Ended => Proved!Ended
  BY DEF Touristless!Ended, Proved!Ended, Touristless!Final, Proved!Final, Touristless!vars,
         Proved!vars
<1>. QED
  BY <1>8, <1>9, <1>10, <1>11, <1>12, <1>13, <1>14, <1>15, <1>16, <1>17, <1>18, <1>19, <1>20,
     <1>21
  DEF Touristless!Next, Proved!Next

-----------------------------------------------------------------------------

\* The list is what was printed for the drags on the k-th photo.
Noted(list, k) ==
  /\ \A i \in DOMAIN marks[k] : \E j \in DOMAIN list : list[j] = marks[k][i]
  /\ k \notin strays => list = marks[k]

\* What the user has copied and what is still noted down are the drags, photo
\* by photo, but for the first photos, the lists of which are lost.
UserInv ==
  /\ photo \in 0 .. Images
  /\ marks \in Seq(Drags) /\ notes \in Seq(Drags) /\ coordinates \in Seq(Drags)
  /\ strays \subseteq 1 .. Len(marks)
  /\ Len(marks) = IF at = "off" THEN photo ELSE photo - 1
  /\ lost \in Nat /\ lost + Len(coordinates) + Len(notes) = Len(marks)
  /\ \A k \in 1 .. Len(coordinates) : Noted(coordinates[k], lost + k)
  /\ \A k \in 1 .. Len(notes) : Noted(notes[k], lost + Len(coordinates) + k)
  /\ pc # "start" => at = "off" /\ photo = Images /\ notes = <<>>

LEMMA UserInitInv == Init => UserInv
<1>. SUFFICES ASSUME Init PROVE UserInv
  OBVIOUS
<1>1. /\ at = "off" /\ photo = 0 /\ marks = <<>> /\ notes = <<>> /\ coordinates = <<>> /\ pc = "start"
      /\ strays = {} /\ lost = 0
  BY DEF Init, CutterInit, Touristless!Init
<1>. QED  BY <1>1, RetouchingAssumption DEF UserInv

\* Each list the user notes down is what was drawn.
LEMMA NotedInv ==
  ASSUME CutterInv, UserInv, CutterEnds
  PROVE  UserInv'
<1>. DEFINE m == Len(marks)
            c == Len(coordinates)
            l == Len(notes)
<1>1. /\ marks \in Seq(Drags) /\ notes \in Seq(Drags) /\ coordinates \in Seq(Drags)
      /\ strays \subseteq 1 .. m
      /\ printed \in Drags /\ drawn \in Drags /\ photo \in 0 .. Images
      /\ \A i \in DOMAIN drawn : \E j \in DOMAIN printed : printed[j] = drawn[i]
      /\ ~ stray => printed = drawn
  BY DEF UserInv, CutterInv, DragsArePrinted
<1>2. /\ notes' = Append(notes, printed) /\ marks' = Append(marks, drawn)
      /\ strays' = (IF stray THEN strays \cup {photo} ELSE strays) /\ lost' = lost
      /\ photo' = photo /\ pc' = pc /\ at' = "off"
  BY DEF CutterEnds, touristlessVars
<1>3. at # "off" /\ coordinates' = coordinates
  BY DEF CutterEnds, CutterStep, Load, LoadFails, NoKey, Press, Release, DoubleClick,
         InnerKey, KeyForAll, Escape, Exit, CutterInv, session
<1>4. /\ m = photo - 1 /\ pc = "start" /\ lost + c + l = m /\ lost \in Nat
      /\ c \in Nat /\ l \in Nat /\ m \in Nat
      /\ \A k \in 1 .. c : Noted(coordinates[k], lost + k)
      /\ \A k \in 1 .. l : Noted(notes[k], lost + c + k)
  BY <1>1, <1>3, LenProperties DEF UserInv
<1>. HIDE DEF Drags, m, c, l
<1>5. /\ marks' \in Seq(Drags) /\ Len(marks') = m + 1
      /\ notes' \in Seq(Drags) /\ Len(notes') = l + 1
      /\ \A k \in 1 .. m : marks'[k] = marks[k]
      /\ marks'[m + 1] = drawn
      /\ \A k \in 1 .. l : notes'[k] = notes[k]
      /\ notes'[l + 1] = printed
  BY <1>1, <1>2, AppendProperties DEF m, l
<1>6. /\ strays' \subseteq 1 .. m + 1
      /\ \A k \in 1 .. m : k \in strays' <=> k \in strays
      /\ m + 1 \in strays' <=> stray
  <2>1. photo = m + 1
    BY <1>1, <1>4
  <2>. QED  BY <1>1, <1>2, <1>4, <2>1
<1>9. \A k \in 1 .. c : Noted(coordinates[k], lost + k)'
  <2>. SUFFICES ASSUME NEW k \in 1 .. c PROVE Noted(coordinates[k], lost + k)'
    OBVIOUS
  <2>1. lost + k \in 1 .. m /\ Noted(coordinates[k], lost + k)
    BY <1>4
  <2>2. marks'[lost + k] = marks[lost + k] /\ (lost + k \in strays' <=> lost + k \in strays)
    BY <1>5, <1>6, <2>1
  <2>. QED  BY <1>2, <1>3, <2>1, <2>2 DEF Noted
<1>10. \A k \in 1 .. l + 1 : Noted(notes[k], lost + c + k)'
  <2>. SUFFICES ASSUME NEW k \in 1 .. l + 1 PROVE Noted(notes[k], lost + c + k)'
    OBVIOUS
  <2>1. CASE k = l + 1
    <3>1. marks'[lost + c + k] = drawn /\ notes'[k] = printed /\ (lost + c + k \in strays' <=> stray)
      <4>1. lost + c + k = m + 1
        BY <1>4, <2>1
      <4>. QED  BY <1>5, <1>6, <2>1, <4>1
    <3>. QED  BY <1>1, <1>2, <1>3, <3>1 DEF Noted, c
  <2>2. CASE k # l + 1
    <3>1. k \in 1 .. l /\ lost + c + k \in 1 .. m
      BY <1>4, <2>2
    <3>2. Noted(notes[k], lost + c + k) /\ notes'[k] = notes[k]
      BY <1>4, <1>5, <3>1
    <3>3. /\ marks'[lost + c + k] = marks[lost + c + k]
          /\ lost + c + k \in strays' <=> lost + c + k \in strays
      BY <1>5, <1>6, <3>1
    <3>. QED  BY <1>2, <1>3, <3>2, <3>3 DEF Noted, c
  <2>. QED  BY <2>1, <2>2
<1>11. lost' + Len(coordinates') + Len(notes') = Len(marks')
  BY <1>2, <1>3, <1>4, <1>5 DEF c
<1>12. Len(marks') = photo' /\ photo' \in 0 .. Images /\ pc' = "start" /\ lost' \in Nat
  BY <1>1, <1>2, <1>4, <1>5, RetouchingAssumption
<1>. QED  BY <1>1, <1>2, <1>3, <1>5, <1>6, <1>9, <1>10, <1>11, <1>12 DEF UserInv, c

LEMMA UserNextInv ==
  ASSUME CutterInv, UserInv, [Next]_vars
  PROVE  UserInv'
<1>. USE DEF touristlessVars, userVars, cutterVars, session
<1>. HIDE DEF Drags
<1>1. CASE StartCutter
  <2>1. /\ at = "off" /\ at' = "load" /\ coordinates' = <<>> /\ photo < Images
        /\ photo' = photo + 1 /\ notes' = notes /\ marks' = marks /\ strays' = strays /\ pc' = "start"
        /\ lost' = lost + Len(coordinates)
    BY <1>1 DEF StartCutter, Start
  <2>2. /\ marks \in Seq(Drags) /\ notes \in Seq(Drags) /\ photo \in 0 .. Images /\ Len(marks) = photo
        /\ strays \subseteq 1 .. Len(marks)
        /\ lost \in Nat /\ Len(coordinates) \in Nat /\ Len(notes) \in Nat
        /\ lost + Len(coordinates) + Len(notes) = Len(marks)
        /\ \A k \in 1 .. Len(notes) : Noted(notes[k], lost + Len(coordinates) + k)
    BY <2>1, LenProperties DEF UserInv
  <2>3. photo' \in 0 .. Images /\ Len(marks') = photo' - 1
    BY <2>1, <2>2, RetouchingAssumption
  <2>4. /\ coordinates' \in Seq(Drags) /\ Len(coordinates') = 0
        /\ lost' \in Nat /\ lost' + Len(coordinates') + Len(notes') = Len(marks')
    BY <2>1, <2>2
  <2>5. ASSUME NEW k \in 1 .. Len(notes')
        PROVE  Noted(notes[k], lost + Len(coordinates) + k)'
    <3>1. lost' + Len(coordinates') + k = lost + Len(coordinates) + k /\ k \in 1 .. Len(notes)
      BY <2>1, <2>2, <2>4
    <3>2. Noted(notes[k], lost + Len(coordinates) + k)
      BY <2>2, <3>1
    <3>. QED  BY <2>1, <3>1, <3>2 DEF Noted
  <2>6. \A k \in 1 .. Len(coordinates') : Noted(coordinates[k], lost + k)'
    BY <2>4
  <2>. QED  BY <2>1, <2>2, <2>3, <2>4, <2>5, <2>6 DEF UserInv
<1>2. CASE CutterRuns
  <2>1. at # "off" /\ coordinates' = coordinates
    BY <1>2 DEF CutterRuns, CutterStep, Load, LoadFails, NoKey, Press, Release, DoubleClick,
           InnerKey, KeyForAll, Escape, Exit, CutterInv
  <2>. QED  BY <1>2, <2>1 DEF CutterRuns, UserInv, Noted
<1>3. CASE CutterEnds
  BY <1>3, NotedInv
<1>4. CASE CopyNotes
  <2>. DEFINE c == Len(coordinates)
              l == Len(notes)
  <2>1. /\ coordinates \in Seq(Drags) /\ notes \in Seq(Drags) /\ c \in Nat /\ l \in Nat /\ lost \in Nat
        /\ lost + c + l = Len(marks)
        /\ \A k \in 1 .. c : Noted(coordinates[k], lost + k)
        /\ \A k \in 1 .. l : Noted(notes[k], lost + c + k)
    BY LenProperties DEF UserInv
  <2>2. /\ coordinates' = coordinates \o notes /\ notes' = <<>>
        /\ marks' = marks /\ strays' = strays /\ lost' = lost /\ photo' = photo /\ at' = at /\ pc' = pc
    BY <1>4 DEF CopyNotes
  <2>. HIDE DEF c, l
  <2>3. /\ coordinates' \in Seq(Drags) /\ Len(coordinates') = c + l
        /\ \A k \in 1 .. c : coordinates'[k] = coordinates[k]
        /\ \A k \in c + 1 .. c + l : coordinates'[k] = notes[k - c]
    BY <2>1, <2>2, ConcatProperties DEF c, l
  <2>4. ASSUME NEW k \in 1 .. c + l
        PROVE  Noted(coordinates[k], lost + k)'
    <3>1. CASE k \in 1 .. c
      <4>1. coordinates'[k] = coordinates[k] /\ Noted(coordinates[k], lost + k)
        BY <2>1, <2>3, <3>1
      <4>. QED  BY <2>2, <4>1 DEF Noted
    <3>2. CASE k \notin 1 .. c
      <4>1. k - c \in 1 .. l /\ k \in c + 1 .. c + l /\ lost + c + (k - c) = lost + k
        BY <2>1, <3>2
      <4>2. coordinates'[k] = notes[k - c] /\ Noted(notes[k - c], lost + c + (k - c))
        BY <2>1, <2>3, <4>1
      <4>3. Noted(notes[k - c], lost + k)
        BY <4>1, <4>2
      <4>. QED  BY <2>2, <4>2, <4>3 DEF Noted
    <3>. QED  BY <3>1, <3>2
  <2>5. notes' \in Seq(Drags) /\ Len(notes') = 0 /\ lost' + Len(coordinates') + Len(notes') = Len(marks')
    BY <2>1, <2>2, <2>3
  <2>6. \A k \in 1 .. Len(coordinates') : Noted(coordinates[k], lost + k)'
    BY <2>3, <2>4
  <2>7. \A k \in 1 .. Len(notes') : Noted(notes[k], lost + Len(coordinates) + k)'
    BY <2>5
  <2>. QED  BY <2>2, <2>3, <2>5, <2>6, <2>7 DEF UserInv
<1>5. CASE Retouch
  BY <1>5 DEF Retouch, UserInv, Noted
<1>6. CASE UNCHANGED vars
  BY <1>6 DEF vars, UserInv, Noted
<1>. QED  BY <1>1, <1>2, <1>3, <1>4, <1>5, <1>6 DEF Next
-----------------------------------------------------------------------------

\* touristless starts on aligned photos, with nothing replaced, and works on
\* the file that the user has made.
TouristInv ==
  /\ Proved!Aligned /\ object_id \in Proved!Photos
  /\ DOMAIN out = Proved!Pixels
  /\ pc = "start" => next = 1 /\ replaced = {} /\ \A p \in DOMAIN out : out[p] = object_id
  /\ pc # "start" /\ lost = 0 => Proved!IInv /\ Proved!PastesReplace
  /\ pc \notin {"start", "nolocations"} =>
       \A k \in Proved!Photos \cap DOMAIN file : tourist_locations[k] = file[k]

LEMMA TouristInitInv == Init => TouristInv
<1>. SUFFICES ASSUME Init PROVE TouristInv
  OBVIOUS
<1>1. /\ pc = "start" /\ object_id \in 1 .. Images /\ shift \in [1 .. Images -> {0}]
      /\ next = 1 /\ replaced = {} /\ out = [p \in 0 .. Zoom * Width - 1 |-> object_id]
  BY DEF Init, Touristless!Init, Touristless!Photos, Touristless!Pixels
<1>. QED  BY <1>1 DEF TouristInv, Proved!Aligned, Proved!Photos, Proved!Pixels

\* The rectangles that touristless reads for a list are the list in another size.
LEMMA ScaledList ==
  ASSUME NEW list \in Drags
  PROVE  Scaled(list) \in Seq(Int \X Int)
<1>1. \A j \in 1 .. Len(list) : <<Zoom * list[j][1], Zoom * list[j][2]>> \in Int \X Int
  BY RetouchingAssumption DEF Drags
<1>2. DOMAIN list = 1 .. Len(list) /\ Len(list) \in Nat
  BY DEF Drags
<1>3. Scaled(list) \in [1 .. Len(list) -> Int \X Int]
  BY <1>1, <1>2 DEF Scaled
<1>. DEFINE S == Int \X Int
            m == Len(list)
<1>4. Scaled(list) \in [1 .. m -> S] /\ m \in Nat
  BY <1>2, <1>3
<1>. HIDE DEF S, m
<1>5. Scaled(list) \in Seq(S)
  BY <1>4, SeqDef
<1>. QED  BY <1>5 DEF S

\* What the k-th list of the file has to do with the drags on a photo.
ScaledNoted(k) ==
  LET drags == Scaled(marks[k + lost]) IN
  /\ \A i \in DOMAIN drags : \E j \in DOMAIN file[k] : file[k][j] = drags[i]
  /\ k + lost \notin strays => file[k] = drags

\* The file of a user who has noted and copied everything has the drags on
\* each photo, but for those of the first photos that were lost.
LEMMA FileIsDrawn ==
  ASSUME UserInv, at = "off", photo = Images, notes = <<>>
  PROVE  /\ DOMAIN file = 1 .. Images - lost /\ lost \in Nat
         /\ \A k \in 1 .. Images - lost : ScaledNoted(k) /\ file[k] \in Seq(Int \X Int)
<1>1. /\ marks \in Seq(Drags) /\ coordinates \in Seq(Drags) /\ Len(marks) = Images
      /\ lost \in Nat /\ Len(notes) = 0 /\ Len(coordinates) \in Nat
      /\ lost + Len(coordinates) + Len(notes) = Len(marks)
      /\ \A k \in 1 .. Len(coordinates) : Noted(coordinates[k], lost + k)
  BY LenProperties DEF UserInv
<1>. HIDE DEF Drags
<1>2. Len(coordinates) = Images - lost /\ DOMAIN coordinates = 1 .. Images - lost
  BY <1>1, LenProperties
<1>3. ASSUME NEW k \in 1 .. Images - lost
      PROVE  ScaledNoted(k) /\ file[k] \in Seq(Int \X Int)
  <2>1. coordinates[k] \in Drags /\ Noted(coordinates[k], lost + k) /\ lost + k = k + lost
    BY <1>1, <1>2
  <2>2. file[k] = Scaled(coordinates[k])
    BY <1>2 DEF file
  <2>3. file[k] \in Seq(Int \X Int)
    BY <2>1, <2>2, ScaledList
  <2>. DEFINE mark == marks[k + lost]
              list == coordinates[k]
  <2>4. /\ \A i \in DOMAIN mark : \E j \in DOMAIN list : list[j] = mark[i]
        /\ k + lost \notin strays => list = mark
    BY <2>1 DEF Noted
  <2>. HIDE DEF mark, list
  <2>5. /\ DOMAIN Scaled(mark) = DOMAIN mark /\ DOMAIN Scaled(list) = DOMAIN list
        /\ \A i \in DOMAIN mark : Scaled(mark)[i] = <<Zoom * mark[i][1], Zoom * mark[i][2]>>
        /\ \A j \in DOMAIN list : Scaled(list)[j] = <<Zoom * list[j][1], Zoom * list[j][2]>>
    BY DEF Scaled
  <2>6. \A i \in DOMAIN Scaled(mark) : \E j \in DOMAIN Scaled(list) : Scaled(list)[j] = Scaled(mark)[i]
    BY <2>4, <2>5
  <2>7. file[k] = Scaled(list)
    BY <2>2 DEF list
  <2>8. ScaledNoted(k)
    BY <2>4, <2>6, <2>7 DEF ScaledNoted, mark
  <2>. QED  BY <2>3, <2>8
<1>4. DOMAIN file = 1 .. Images - lost
  BY <1>2 DEF file
<1>. QED  BY <1>1, <1>3, <1>4

LEMMA RetouchStarts ==
  ASSUME UserInv, TouristInv, Retouch, pc = "start", lost = 0
  PROVE  Proved!IInv /\ Proved!PastesReplace
<1>1. at = "off" /\ photo = Images /\ notes = <<>>
  BY DEF Retouch
<1>2. Proved!InputsOK
  <2>1. Images - lost = Images
    BY RetouchingAssumption
  <2>2. DOMAIN file = Proved!Photos /\ \A k \in Proved!Photos : file[k] \in Seq(Int \X Int)
    BY <1>1, <2>1, FileIsDrawn DEF Proved!Photos
  <2>. QED  BY <2>2 DEF TouristInv, Proved!InputsOK, Proved!Complete
<1>3. Proved!Aligned /\ next = 1 /\ replaced = {} /\ \A p \in DOMAIN out : out[p] = object_id
  BY DEF TouristInv
<1>4. Proved!LocationsRead /\ Proved!ObjectKept
  BY DEF Proved!LocationsRead, Proved!ObjectKept
<1>5. Proved!ScenesTransformed
  BY <1>3 DEF Proved!ScenesTransformed
<1>6. Proved!ReplacedAreOrdered /\ Proved!PastedIsClean
  BY <1>3 DEF Proved!ReplacedAreOrdered, Proved!PastedIsClean
<1>7. Proved!PastesReplace
  BY <1>3 DEF TouristInv, Proved!PastesReplace
<1>. QED  BY <1>2, <1>3, <1>4, <1>5, <1>6, <1>7 DEF Proved!IInv

\* What any step of touristless leaves alone.
LEMMA TouristlessKeeps ==
  ASSUME Proved!Next
  PROVE  /\ shift' = shift /\ object_id' = object_id /\ pc' # "start"
         /\ out' = out \/ DOMAIN out' = Proved!Pixels
         /\ \/ Proved!ReadLocations
            \/ pc' = "nolocations"
            \/ pc \notin {"start", "nolocations"} /\ tourist_locations' = tourist_locations
<1>. USE DEF Proved!inputs
<1>1. CASE Proved!ReadLocations
  BY <1>1 DEF Proved!ReadLocations
<1>2. CASE Proved!Paste
  BY <1>2 DEF Proved!Paste, Proved!Turn
<1>3. CASE Proved!Ended
  BY <1>3 DEF Proved!Ended, Proved!vars, Proved!Final
<1>. QED
  BY <1>1, <1>2, <1>3
  DEF Proved!Next, Proved!NoLocations, Proved!ObjectPhoto, Proved!ObjectPhotoFails,
      Proved!ScenePhoto, Proved!ScenePhotoFails, Proved!MatchingFails, Proved!ScenesDone, Proved!PasteThrows,
      Proved!LeavePerson, Proved!ReplaceDone, Proved!Write, Proved!Turn

LEMMA RetouchInv ==
  ASSUME UserInv, TouristInv, Retouch
  PROVE  TouristInv'
<1>1. Proved!Next /\ coordinates' = coordinates /\ lost' = lost
  BY SameNext DEF Retouch, cutterVars, userVars
<1>2. file' = file
  BY <1>1 DEF file
<1>3. /\ shift' = shift /\ object_id' = object_id /\ pc' # "start"
      /\ DOMAIN out' = Proved!Pixels
      /\ \/ Proved!ReadLocations
         \/ pc' = "nolocations"
         \/ pc \notin {"start", "nolocations"} /\ tourist_locations' = tourist_locations
  BY <1>1, TouristlessKeeps DEF TouristInv
<1>4. Proved!Aligned' /\ object_id' \in Proved!Photos
  BY <1>3 DEF TouristInv, Proved!Aligned
<1>5. ASSUME lost = 0
      PROVE  Proved!IInv' /\ Proved!PastesReplace'
  <2>1. Proved!IInv /\ Proved!PastesReplace
    BY <1>5, RetouchStarts DEF TouristInv
  <2>2. Proved!IInv'
    BY <1>1, <2>1, Proved!NextInv, ProvedAssumption
  <2>3. Proved!PastesReplace'
    BY <1>1, <2>1, Proved!PastesInv, ProvedAssumption
  <2>. QED  BY <2>2, <2>3
<1>6. ASSUME pc' # "nolocations", NEW k \in Proved!Photos \cap DOMAIN file
      PROVE  tourist_locations'[k] = file[k]
  <2>1. CASE Proved!ReadLocations
    <3>1. n' \in {Images, Images + 1}
      BY <2>1 DEF Proved!ReadLocations, Proved!NumberOfFiles
    <3>2. k \in 1 .. n'
      BY <3>1, RetouchingAssumption DEF Proved!Photos
    <3>. QED  BY <2>1, <3>2 DEF Proved!ReadLocations
  <2>2. CASE pc \notin {"start", "nolocations"} /\ tourist_locations' = tourist_locations
    BY <2>2 DEF TouristInv
  <2>. QED  BY <1>3, <1>6, <2>1, <2>2
<1>. QED  BY <1>1, <1>2, <1>3, <1>4, <1>5, <1>6 DEF TouristInv

\* Before touristless runs, nothing but the file can change; after that, only
\* touristless goes on.
LEMMA TouristNextInv ==
  ASSUME UserInv, TouristInv, CutterInv, [Next]_vars
  PROVE  TouristInv'
<1>1. CASE Retouch
  BY <1>1, RetouchInv
<1>2. CASE UNCHANGED vars
  <2>1. UNCHANGED Proved!vars /\ coordinates' = coordinates /\ lost' = lost
    BY <1>2 DEF vars, touristlessVars, userVars, cutterVars, Proved!vars, Proved!inputs, file
  <2>2. file' = file
    BY <2>1 DEF file
  <2>3. Proved!IInv => Proved!IInv'
    BY <2>1, Proved!NextInv, ProvedAssumption
  <2>. QED  BY <1>2, <2>1, <2>2, <2>3
            DEF vars, touristlessVars, TouristInv, Proved!Aligned, Proved!PastesReplace, Proved!PersonAt
<1>3. CASE StartCutter \/ CutterRuns \/ CutterEnds \/ CopyNotes
  <2>1. UNCHANGED touristlessVars
    BY <1>3 DEF StartCutter, CutterRuns, CutterEnds, CopyNotes
  <2>2. pc = "start"
    <3>1. CASE StartCutter
      BY <3>1 DEF StartCutter
    <3>2. CASE CutterRuns \/ CutterEnds
      <4>1. at # "off"
        BY <3>2 DEF CutterRuns, CutterEnds, CutterStep, Load, LoadFails, NoKey, Press, Release,
                    DoubleClick, InnerKey, KeyForAll, Escape, Exit, CutterInv
      <4>. QED  BY <4>1 DEF UserInv
    <3>3. CASE CopyNotes
      BY <3>3 DEF CopyNotes, UserInv
    <3>. QED  BY <1>3, <3>1, <3>2, <3>3
  <2>. QED  BY <2>1, <2>2 DEF touristlessVars, TouristInv, Proved!Aligned
<1>. QED  BY <1>1, <1>2, <1>3 DEF Next

IInv == CutterInv /\ UserInv /\ TouristInv

LEMMA Invariance == Spec => []IInv
<1>1. Init => IInv
  BY CutterInitInv, UserInitInv, TouristInitInv DEF Init, IInv
<1>2. IInv /\ [Next]_vars => IInv'
  <2>. SUFFICES ASSUME IInv, [Next]_vars PROVE IInv'
    OBVIOUS
  <2>1. Start \/ CutterStep \/ UNCHANGED cutterVars \/ CopyNotes
    BY DEF Next, StartCutter, CutterRuns, CutterEnds, Retouch, vars
  <2>2. CopyNotes => CutterInv'
    BY DEF CopyNotes, session, IInv, CutterInv, DragsArePrinted
  <2>3. CutterInv'
    BY <2>1, <2>2, CutterStepInv DEF IInv
  <2>. QED  BY <2>3, UserNextInv, TouristNextInv DEF IInv
<1>. QED  BY <1>1, <1>2, PTL DEF Spec

\* Whatever was clicked and released, and in whatever order the callbacks got
\* their keys: every drag was printed, and only drags unless a press was lost.
THEOREM EveryDragIsPrinted == Spec => []DragsArePrinted
<1>1. IInv => DragsArePrinted
  BY DEF IInv, CutterInv
<1>. QED  BY <1>1, Invariance, PTL

\* However the user interleaves cutting and copying, and however often a start
\* of the cutter has emptied the file: the lists read are those of the photos
\* from lost + 1 on, with all the drags on the photo, and nothing else unless a
\* release was stray there.
THEOREM DrawingsAreRead == Spec => []ReadsWhatWasDrawn
<1>1. ASSUME IInv, pc \notin {"start", "nolocations"}, NEW k \in 1 .. Images - lost
      PROVE  ScaledNoted(k) /\ tourist_locations[k] = file[k]
  <2>1. at = "off" /\ photo = Images /\ notes = <<>>
    BY <1>1 DEF IInv, UserInv
  <2>2. DOMAIN file = 1 .. Images - lost /\ lost \in Nat /\ ScaledNoted(k)
    BY <1>1, <2>1, FileIsDrawn DEF IInv
  <2>3. k \in Proved!Photos \cap DOMAIN file
    BY <2>2, RetouchingAssumption DEF Proved!Photos
  <2>. QED  BY <1>1, <2>2, <2>3 DEF IInv, TouristInv
<1>2. IInv => ReadsWhatWasDrawn
  BY <1>1 DEF ReadsWhatWasDrawn, ScaledNoted
<1>. QED  BY <1>2, Invariance, PTL

\* And so a pixel is replaced only from a photo on which nobody was marked
\* there, and only where somebody was marked unless a release was stray.
THEOREM ReplacingFollowsTheDrawing == Spec => []ReplacedAsDrawn
<1>1. ASSUME IInv, lost = 0, NEW p \in DOMAIN out, out[p] # object_id
      PROVE  ~ DrawnAt(out[p], p) /\ (object_id \notin strays => DrawnAt(object_id, p))
  <2>1. /\ Proved!IInv /\ Proved!PastesReplace /\ p \in Proved!Pixels
        /\ at = "off" /\ photo = Images /\ notes = <<>> /\ object_id \in Proved!Photos
    BY <1>1 DEF IInv, TouristInv, UserInv
  <2>2. \A k \in Proved!Photos : ScaledNoted(k) /\ k + lost = k
    <3>1. Images - lost = Images
      BY <1>1, RetouchingAssumption
    <3>2. \A k \in 1 .. Images : k + lost = k
      BY <1>1
    <3>. QED  BY <1>1, <2>1, <3>1, <3>2, FileIsDrawn DEF IInv, Proved!Photos
  <2>3. ASSUME NEW k \in Proved!Photos
        PROVE  /\ DrawnAt(k, p) => Proved!PersonAt(k, p)
               /\ k \notin strays => (Proved!PersonAt(k, p) <=> DrawnAt(k, p))
    <3>. DEFINE drags == Scaled(marks[k])
    <3>1. /\ \A i \in DOMAIN drags : \E j \in DOMAIN file[k] : file[k][j] = drags[i]
          /\ k \notin strays => file[k] = drags
      BY <2>2 DEF ScaledNoted
    <3>2. DOMAIN drags = DOMAIN marks[k]
      BY DEF Scaled
    <3>3. \A r : Proved!Cover(r) = Touristless!Cover(r)
      BY DEF Proved!Cover, Touristless!Cover, Proved!Low, Proved!High, Touristless!Low, Touristless!High
    <3>4. DrawnAt(k, p) <=> \E j \in DOMAIN drags : p \in Proved!Cover(drags[j])
      BY <3>2, <3>3 DEF DrawnAt
    <3>. HIDE DEF drags
    <3>. QED  BY <3>1, <3>4 DEF Proved!PersonAt
  <2>. QED  BY <1>1, <2>1, <2>3 DEF Proved!PastesReplace
<1>2. IInv => ReplacedAsDrawn
  BY <1>1 DEF ReplacedAsDrawn
<1>. QED  BY <1>2, Invariance, PTL
=============================================================================
