---------------------------- MODULE MCBackground ----------------------------
(* For two jobs: a command whose shell and child ignore SIGTERM (either may  *)
(* also end by itself at any moment, as if it obeyed), one with a child in   *)
(* the background that ignores SIGTERM and whose output is redirected, and   *)
(* one with a refused timeout.                                              *)
EXTENDS Background, TLC

MCStubborn == [shell |-> "traps", child |-> "traps", pipe |-> TRUE, limit |-> "short"]
MCRedirected == [shell |-> "obeys", child |-> "traps", pipe |-> FALSE, limit |-> "short"]
MCRefused == [NoCommand EXCEPT !.limit = "long"]
MCCommands == {MCStubborn, MCRedirected, MCRefused}

MCSymmetry == Permutations(Jobs) \cup Permutations(Runs)
=============================================================================
