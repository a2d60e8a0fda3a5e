----------------------------- MODULE MCSession ------------------------------
(* One session over several runs and kills, and its fork. *)
EXTENDS Session, TLC

CONSTANTS s1, s2

MCSessions == {s1, s2}
=============================================================================
