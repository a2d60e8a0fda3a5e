------------------------------- MODULE MCTui -------------------------------
EXTENDS Tui
SendsVal == {"send1", "send2"}
=============================================================================
