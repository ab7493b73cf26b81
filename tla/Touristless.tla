----------------------------- MODULE Touristless -----------------------------
(***************************************************************************)
(* touristless: take the persons out of a photo by pasting over each of    *)
(* their rectangles the same rectangle of another photo of the place, one  *)
(* in which nobody stands there.                                           *)
(*                                                                         *)
(* A photo is a row of pixels, and a rectangle is the pair <<first,        *)
(* second>> of its corners, in the order in which they were drawn: the     *)
(* second axis repeats what the first one shows.  The homography from the  *)
(* object photo to another photo is a translation by shift of that photo.  *)
(***************************************************************************)
EXTENDS Integers, Sequences, FiniteSetsExt

CONSTANTS
  Images,     \* the number of photos in the input folder
  Span,       \* the number of pixels in the row
  Rects,      \* the rectangles that can be in the coordinates file
  MaxRects,   \* how many of them one photo has at most
  MaxGarbage, \* how many are read at most where the file has no list
  Shifts,     \* by how much a photo can be displaced against another
  Nested      \* can the output folder be an entry of the input folder?

Photos == 1 .. Images

Pixels == 0 .. Span - 1

RectLists == UNION {[1 .. m -> Rects] : m \in 0 .. MaxRects}

Garbage == UNION {[1 .. m -> Rects] : m \in 0 .. MaxGarbage}

ASSUME TouristlessAssumption ==
  /\ Images \in Nat \ {0} /\ Span \in Nat /\ MaxRects \in Nat /\ MaxGarbage \in 0 .. MaxRects
  /\ Rects \subseteq Int \X Int
  /\ Shifts \subseteq Int
  /\ Nested \in BOOLEAN

VARIABLES
  pc,
  file,        \* the coordinates file: a list of rectangles for each photo
  shift,       \* how far each photo is displaced against the object photo
  blank,       \* a photo in which no keypoint is found, 0 if there is none
  object_id,
  nested,      \* is the output folder an entry of the input folder?
  n,           \* how many photos the program believes in
  tourist_locations,
  new_tourist_locations,
  next,        \* the photo or the rectangle whose turn it is
  out,         \* the photo each pixel of img_object_col comes from
  replaced     \* history: the rectangles of the object photo pasted over

inputs == <<file, shift, blank, object_id, nested>>

vars == <<pc, inputs, n, tourist_locations, new_tourist_locations, next, out, replaced>>

Final == {"done", "nolocations", "nodescriptors", "unmatched", "threw"}

TypeOK ==
  /\ pc \in {"start", "object", "scenes", "replace", "write"} \cup Final
  /\ n \in 0 .. Images + 1
  /\ \A k \in DOMAIN tourist_locations : tourist_locations[k] \in RectLists
  /\ DOMAIN new_tourist_locations = DOMAIN tourist_locations
  /\ next \in 1 .. Images + MaxRects + 2
  /\ out \in [Pixels -> Photos]
  /\ replaced \subseteq 1 .. MaxRects

Init ==
  /\ pc = "start"
  /\ file \in UNION {[1 .. m -> RectLists] : m \in 0 .. Images}
  /\ object_id \in Photos
  /\ shift \in {s \in [Photos -> Shifts \cup {0}] : s[object_id] = 0}
  /\ blank \in 0 .. Images
  /\ nested \in {Nested, FALSE}
  /\ n = 0
  /\ tourist_locations = <<>>
  /\ new_tourist_locations = <<>>
  /\ next = 1
  /\ out = [p \in Pixels |-> object_id]
  /\ replaced = {}

-----------------------------------------------------------------------------

\* get_number_of_files: every entry that does not start with a dot counts,
\* a folder too.
NumberOfFiles == IF nested THEN Images + 1 ELSE Images

ReadLocations_OneLate ==
  /\ pc = "start"
  /\ n' = NumberOfFiles
  /\ \E garbage \in Garbage :
       tourist_locations' = [k \in 1 .. n' |-> IF k - 1 \in DOMAIN file THEN file[k - 1] ELSE garbage]
  /\ new_tourist_locations' = [k \in 1 .. n' |-> <<>>]
  /\ pc' = "object"
  /\ UNCHANGED <<inputs, next, out, replaced>>

\* Lines 259-266.  Past the end of the file the count of rectangles and the
\* rectangles themselves are uninitialized variables: any list can come out.
ReadLocations ==
  /\ pc = "start"
  /\ n' = NumberOfFiles
  /\ \E garbage \in Garbage :
       tourist_locations' = [k \in 1 .. n' |-> IF k \in DOMAIN file THEN file[k] ELSE garbage]
  /\ new_tourist_locations' = [k \in 1 .. n' |-> <<>>]
  /\ pc' = "object"
  /\ UNCHANGED <<inputs, next, out, replaced>>

\* The coordinates file cannot be opened.
NoLocations ==
  /\ pc = "start"
  /\ n' = NumberOfFiles
  /\ pc' = "nolocations"
  /\ UNCHANGED <<inputs, tourist_locations, new_tourist_locations, next, out, replaced>>

\* SIFT finds something in a photo that is there and is not blank.
HasDescriptors(k) == k \in Photos /\ k # blank

\* Lines 113-130.
ObjectPhoto ==
  /\ pc = "object"
  /\ HasDescriptors(object_id)
  /\ new_tourist_locations' =
       [new_tourist_locations EXCEPT ![object_id] = tourist_locations[object_id]]
  /\ pc' = "scenes"
  /\ UNCHANGED <<inputs, n, tourist_locations, next, out, replaced>>

ObjectPhotoFails ==
  /\ pc = "object"
  /\ ~ HasDescriptors(object_id)
  /\ pc' = "nodescriptors"
  /\ UNCHANGED <<inputs, n, tourist_locations, new_tourist_locations, next, out, replaced>>

Low(r) == IF r[1] <= r[2] THEN r[1] ELSE r[2]
High(r) == IF r[1] <= r[2] THEN r[2] ELSE r[1]

Transformed_Dropped(list, d) == <<>>

\* transform_tourist_locations: the homography leads from the object photo
\* to the other one, and is applied to rectangles of the other one; corners
\* come out sorted.
Transformed(list, d) ==
  [j \in DOMAIN list |-> <<Low(list[j]) + d, High(list[j]) + d>>]

\* Lines 133-184, for one photo of the loop.  The aligned photos that are
\* written to the output folder on the way (lines 183 and 186) are left out:
\* nothing reads them.
ScenePhoto ==
  /\ pc = "scenes"
  /\ next <= n
  /\ next = object_id \/ HasDescriptors(next)
  /\ new_tourist_locations' =
       IF next = object_id
         THEN new_tourist_locations
         ELSE [new_tourist_locations EXCEPT
                 ![next] = Transformed(tourist_locations[next], shift[next])]
  /\ next' = next + 1
  /\ UNCHANGED <<pc, inputs, n, tourist_locations, out, replaced>>

ScenePhotoFails ==
  /\ pc = "scenes"
  /\ next <= n
  /\ next # object_id
  /\ ~ HasDescriptors(next)
  /\ pc' = "nodescriptors"
  /\ UNCHANGED <<inputs, n, tourist_locations, new_tourist_locations, next, out, replaced>>

\* Lines 150-179: with fewer than four good matches, findHomography throws; and
\* no match is good when the best has a distance of zero.
MatchingFails ==
  /\ pc = "scenes"
  /\ next <= n
  /\ next # object_id
  /\ HasDescriptors(next)
  /\ pc' = "unmatched"
  /\ UNCHANGED <<inputs, n, tourist_locations, new_tourist_locations, next, out, replaced>>

\* Lines 186-192: the photos are read again, as they were taken.
ScenesDone ==
  /\ pc = "scenes"
  /\ next > n
  /\ next' = 1
  /\ pc' = "replace"
  /\ UNCHANGED <<inputs, n, tourist_locations, new_tourist_locations, out, replaced>>

Introsect_NotTouching(r, s) == ~ (r[1] >= s[2] \/ r[2] <= s[1])

\* introsect: rectangles that touch count as intersecting.
Introsect(r, s) == ~ (r[1] > s[2] \/ r[2] < s[1])

\* Lines 196-218: the photos in which no person's rectangle meets r.
Free(r) ==
  {k \in (1 .. n) \ {object_id} :
     \A j \in DOMAIN new_tourist_locations[k] : ~ Introsect(r, new_tourist_locations[k][j])}

\* The rectangle of the object photo whose turn it is.
Rect == new_tourist_locations[object_id][next]

\* A rectangle drawn backwards has a negative size, and one that was dragged
\* over the edge leaves the photo.
Inside(r) == 0 <= r[1] /\ r[1] <= r[2] /\ r[2] <= Span

Turn == pc = "replace" /\ next <= Len(new_tourist_locations[object_id])

Paste_Everywhere ==
  /\ Turn
  /\ Free(Rect) # {}
  /\ Inside(Rect)
  /\ out' = [p \in Pixels |-> IF Rect[1] <= p THEN Min(Free(Rect)) ELSE out[p]]
  /\ replaced' = replaced \cup {next}
  /\ next' = next + 1
  /\ UNCHANGED <<pc, inputs, n, tourist_locations, new_tourist_locations>>

\* Lines 224-230, for the first such photo.
Paste ==
  /\ Turn
  /\ Free(Rect) # {}
  /\ Inside(Rect)
  /\ out' = [p \in Pixels |->
               IF Rect[1] <= p /\ p < Rect[2] THEN Min(Free(Rect)) ELSE out[p]]
  /\ replaced' = replaced \cup {next}
  /\ next' = next + 1
  /\ UNCHANGED <<pc, inputs, n, tourist_locations, new_tourist_locations>>

\* cv::Mat throws.
PasteThrows ==
  /\ Turn
  /\ Free(Rect) # {}
  /\ ~ Inside(Rect)
  /\ pc' = "threw"
  /\ UNCHANGED <<inputs, n, tourist_locations, new_tourist_locations, next, out, replaced>>

\* Lines 219-222.
LeavePerson ==
  /\ Turn
  /\ Free(Rect) = {}
  /\ next' = next + 1
  /\ UNCHANGED <<pc, inputs, n, tourist_locations, new_tourist_locations, out, replaced>>

ReplaceDone_OneShort ==
  /\ pc = "replace"
  /\ next >= Len(new_tourist_locations[object_id])
  /\ pc' = "write"
  /\ UNCHANGED <<inputs, n, tourist_locations, new_tourist_locations, next, out, replaced>>

ReplaceDone ==
  /\ pc = "replace"
  /\ next > Len(new_tourist_locations[object_id])
  /\ pc' = "write"
  /\ UNCHANGED <<inputs, n, tourist_locations, new_tourist_locations, next, out, replaced>>

\* Lines 233-235: touristless<object_id>.jpg is img_object_col.
Write ==
  /\ pc = "write"
  /\ pc' = "done"
  /\ UNCHANGED <<inputs, n, tourist_locations, new_tourist_locations, next, out, replaced>>

Ended == pc \in Final /\ UNCHANGED vars

Next ==
  \/ ReadLocations \/ NoLocations
  \/ ObjectPhoto \/ ObjectPhotoFails
  \/ ScenePhoto \/ ScenePhotoFails \/ MatchingFails \/ ScenesDone
  \/ Paste \/ PasteThrows \/ LeavePerson \/ ReplaceDone
  \/ Write \/ Ended

\* Safety only: the program is a sequence of bounded loops.
Spec == Init /\ [][Next]_vars

-----------------------------------------------------------------------------

Cover(r) == Low(r) .. High(r) - 1

\* Does the photo k show a person at the pixel p?
PersonAt(k, p) == \E j \in DOMAIN file[k] : p \in Cover(file[k][j])

\* Only a file with a list for every photo says where the persons are.
Complete == DOMAIN file = Photos

\* The comment of line 195, "if on one of them there are no tourists in this
\* rectangle, we simply cut a piece out of it": no person shows inside a
\* rectangle that was pasted over, whatever was pasted after it.
PastedIsClean ==
  Complete =>
    \A i \in replaced : \A p \in Cover(file[object_id][i]) \cap Pixels : ~ PersonAt(out[p], p)

\* Nothing but persons' rectangles is pasted over.
RestIsUntouched ==
  Complete => \A p \in Pixels : out[p] # object_id => PersonAt(object_id, p)

\* A person stays only where every other photo has a person in the way.
StaysOnlyIfNoneFree ==
  Complete /\ pc = "done" =>
    \A i \in DOMAIN file[object_id] \ replaced :
      \A k \in Photos \ {object_id} : \E j \in DOMAIN file[k] :
        Low(file[object_id][i]) <= High(file[k][j]) /\ Low(file[k][j]) <= High(file[object_id][i])

Extent(r) == Low(r) .. High(r)

\* The rectangle s of another photo is in the way of r.  The corners of r are
\* not sorted: if it was drawn backwards, it meets only what covers it.
Blocks(s, r) ==
  IF r[1] <= r[2] THEN Extent(r) \cap Extent(s) # {} ELSE Extent(r) \subseteq Extent(s)

Blocked(i) ==
  \A k \in Photos \ {object_id} : \E j \in DOMAIN file[k] :
    Blocks(file[k][j], file[object_id][i])

\* The i-th rectangle was drawn backwards or leaves the photo.
CannotBeCut(i) ==
  LET r == file[object_id][i] IN r[2] < r[1] \/ ~ (Extent(r) \subseteq 0 .. Span)

\* Lines 127, 145 and 229: a run with a full coordinates file ends with a
\* result, if its photos match, unless one is blank, the folder holds something
\* that is no photo, or a rectangle that cannot be cut is not blocked; and a
\* rectangle that cannot be cut does no harm while every other photo blocks it.
ResultOrReason ==
  Complete /\ pc \in Final \ {"nolocations", "unmatched"} =>
    /\ pc = "nodescriptors" <=> blank # 0 \/ nested
    /\ pc = "threw" <=>
         /\ blank = 0 /\ ~ nested
         /\ \E i \in DOMAIN file[object_id] : CannotBeCut(i) /\ ~ Blocked(i)
=============================================================================
