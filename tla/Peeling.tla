------------------------------- MODULE Peeling -------------------------------
(***************************************************************************)
(* What the two skeleton loops promise: a set is loaded, and until the     *)
(* loop is over every turn of it takes something off the set and adds      *)
(* nothing.  The last turn may find nothing left to take; afterwards the   *)
(* set is left alone until another one is loaded.                          *)
(***************************************************************************)

CONSTANT Whole    \* what a set is made of

VARIABLES
  left,    \* what has not been taken off yet
  busy     \* is the loop running?

PeelInit == ~ busy

Load == ~ busy /\ busy' /\ left' \subseteq Whole

Take == busy /\ busy' /\ left' \subseteq left /\ left' # left

Last == busy /\ ~ busy' /\ left' \subseteq left

\* A turn of the loop.
PeelTurn == Take \/ Last

PeelNext == Load \/ PeelTurn

PeelSpec == PeelInit /\ [][PeelNext]_<<left, busy>>
=============================================================================
