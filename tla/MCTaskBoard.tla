---------------------------- MODULE MCTaskBoard ----------------------------
(* Two agents, whose names are interchangeable: no call tells them apart. *)
EXTENDS TaskBoard, TLC

CONSTANTS a1, a2

OwnersVal == {a1, a2}
Symmetry == Permutations(OwnersVal)
=============================================================================
