----------------------------- MODULE MCSubagents -----------------------------
(* A headless run and subagents enough to nest and to stand side by side.   *)
EXTENDS Subagents
=============================================================================
