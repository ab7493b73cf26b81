----------------------------- MODULE Retouching -----------------------------
(***************************************************************************)
(* Taking the persons out of a photo, from end to end: imagecutter.py runs *)
(* once for each photo, the user copies what it has printed into the file  *)
(* coordinates.txt, photo by photo or all at once, and touristless reads   *)
(* the file.  The cutter works on a photo at a quarter of its size, and    *)
(* touristless multiplies by four.                                         *)
(*                                                                         *)
(* The photos are aligned and none is blank; what touristless makes of     *)
(* others is the matter of its own module.                                 *)
(***************************************************************************)
EXTENDS ImageCutter

CONSTANTS
  Images,
  MaxPrinted, \* bound on the rectangles of all photos together
  MaxRects,   \* of a list that is read where the file has none
  Zoom        \* 4 in the code

ASSUME RetouchingAssumption ==
  Images \in Nat \ {0} /\ MaxPrinted \in Nat /\ MaxRects \in Nat /\ Zoom \in Nat \ {0}

VARIABLES
  photo,      \* the photo in images/1.jpg
  notes,      \* lists the user has not put into the file yet
  marks,      \* history: for each photo, the drags on it
  strays,     \* history: the photos on which a release came without its press
  lost,       \* history: how many lists were in the file when it was emptied
  pc, shift, blank, object_id, nested, n, tourist_locations,
  new_tourist_locations, next, out, replaced

userVars == <<photo, notes, marks, strays, lost>>

touristlessVars ==
  <<pc, shift, blank, object_id, nested, n, tourist_locations,
    new_tourist_locations, next, out, replaced>>

vars == <<cutterVars, userVars, touristlessVars>>

\* Line 50 of touristless.cpp.
Scaled(list) == [j \in DOMAIN list |-> <<Zoom * list[j][1], Zoom * list[j][2]>>]

\* The file as touristless reads it.
file == [k \in DOMAIN coordinates |-> Scaled(coordinates[k])]

Touristless == INSTANCE Touristless WITH
  Span <- Zoom * Width, Rects <- {<<Zoom * x, Zoom * y>> : x, y \in Points},
  MaxGarbage <- MaxRects, Shifts <- {}, Nested <- FALSE

Init ==
  /\ CutterInit
  /\ photo = 0
  /\ notes = <<>>
  /\ marks = <<>>
  /\ strays = {}
  /\ lost = 0
  /\ Touristless!Init
  /\ blank = 0

-----------------------------------------------------------------------------

\* The user puts the next photo in place and starts the cutter.
StartCutter ==
  /\ pc = "start" /\ photo < Images
  /\ Start
  /\ photo' = photo + 1
  /\ lost' = lost + Len(coordinates)
  /\ UNCHANGED <<notes, marks, strays, touristlessVars>>

\* Anything the running cutter does but to end.
CutterRuns ==
  /\ CutterStep /\ at' # "off"
  /\ Len(printed') + Len(FlattenSeq(marks)) <= MaxPrinted
  /\ UNCHANGED <<userVars, touristlessVars>>

\* The cutter ends, and the user notes down what it has printed.
CutterEnds ==
  /\ CutterStep /\ at' = "off"
  /\ notes' = Append(notes, printed)
  /\ marks' = Append(marks, drawn)
  /\ strays' = IF stray THEN strays \cup {photo} ELSE strays
  /\ UNCHANGED <<photo, lost, touristlessVars>>

\* The user puts the lists noted so far into the file.
CopyNotes ==
  /\ at = "off"
  /\ notes # <<>>
  /\ coordinates' = coordinates \o notes
  /\ notes' = <<>>
  /\ UNCHANGED <<at, count, boxes, callbacks, session, photo, marks, strays, lost, touristlessVars>>

\* When all photos are done, touristless runs.
Retouch ==
  /\ at = "off" /\ photo = Images /\ notes = <<>>
  /\ UNCHANGED <<cutterVars, userVars>>
  /\ Touristless!Next

Next == StartCutter \/ CutterRuns \/ CutterEnds \/ CopyNotes \/ Retouch

Spec == Init /\ [][Next]_vars

-----------------------------------------------------------------------------

\* However cutting and copying are interleaved, touristless gets the rectangles
\* that were drawn: for each photo all of them, and nothing else unless a
\* release there came without its press.  If starts of the cutter have emptied
\* the file, the lists that remain are read for photos too early by as many as
\* were lost.
ReadsWhatWasDrawn ==
  pc \notin {"start", "nolocations"} => \A k \in 1 .. Images - lost :
    LET drags == Scaled(marks[k + lost]) IN
    /\ \A i \in DOMAIN drags : \E j \in DOMAIN tourist_locations[k] : tourist_locations[k][j] = drags[i]
    /\ k + lost \notin strays => tourist_locations[k] = drags

DrawnAt(k, p) ==
  \E j \in DOMAIN marks[k] : p \in Touristless!Cover(Scaled(marks[k])[j])

\* From the mouse to the picture, when no start has emptied a file in use: a
\* pixel is replaced only by one of a photo on which nothing was drawn there,
\* stray releases or not, and only inside a rectangle drawn on that photo,
\* unless one of its releases was stray.
ReplacedAsDrawn ==
  lost = 0 => \A p \in DOMAIN out : out[p] # object_id =>
    /\ ~ DrawnAt(out[p], p)
    /\ object_id \notin strays => DrawnAt(object_id, p)
=============================================================================
