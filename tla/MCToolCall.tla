------------------------------ MODULE MCToolCall ------------------------------
(* Two calls of different agents share a server; one of the agents has used  *)
(* a tool that is retried before.                                            *)
EXTENDS ToolCall

CONSTANTS m1, m2, r1, s1

MCCalls == {m1, m2, r1}
MCHome == [c \in MCCalls |-> IF c = r1 THEN Builtin ELSE s1]
MCBefore == [c \in MCCalls |-> IF c = m1 THEN r1 ELSE Nothing]
=============================================================================
