------------------------------ MODULE MCCharRec ------------------------------
(***************************************************************************)
(* CharRec with networks of two inputs.  Pictures have none (unreadable),  *)
(* one, two or three pixels.                                               *)
(***************************************************************************)
EXTENDS CharRec

MCSizes == 0 .. 3

MCUpTo(n) == UNION {[1 .. m -> MCSizes] : m \in 0 .. n}

MCFolders ==
  {[train |-> <<a, b>>, test |-> <<c, d>>] : a \in MCUpTo(2), b \in MCUpTo(1), c \in MCUpTo(1), d \in MCUpTo(0)}

MCLabelled == {[s \in Sets |-> [l \in Labels |-> f[s][l + 1]]] : f \in MCFolders}
=============================================================================
