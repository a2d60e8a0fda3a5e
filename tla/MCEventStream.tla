---------------------------- MODULE MCEventStream ----------------------------
(* A run and its background job p3, a client that hears everything and one   *)
(* that follows the run from its file on; or two runs, and a client that     *)
(* follows the first of them.                                                *)
EXTENDS EventStream

CONSTANTS p1, p3, r1, r2, c1, c2

MCRunOf == p1 :> r1 @@ p3 :> r1
MCTwoRunOf == p1 :> r1 @@ p3 :> r2
MCScope == c1 :> Global @@ c2 :> r1
MCReplay == c1 :> NoRun @@ c2 :> r1

\* The events whose row may not be written.
MCFlaky == {<<p1, 1>>, <<p3, 2>>}
=============================================================================
