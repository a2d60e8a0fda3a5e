------------------------------ MODULE MCEditing ------------------------------
(* Two files, one of them absent at first, and two contents.               *)
EXTENDS Editing

CONSTANTS f1, f2, a, b

MCFiles == {f1, f2}
MCContents == {a, b}
MCInitDisk == f1 :> a @@ f2 :> Absent
=============================================================================
