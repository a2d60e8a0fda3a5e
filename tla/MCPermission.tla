--------------------------- MODULE MCPermission ----------------------------
(* A chat session with a plain and an outside command, and a run started    *)
(* with an allow-list: an outside command of the run itself and a call of   *)
(* its background subagent, whose tool is not on the list.                  *)
EXTENDS Permission, TLC

CONSTANTS c1, c2, c3, c4, bash, edit, chat, batch

MCCalls == {c1, c2, c3, c4}
MCTools == {bash, edit}
MCSessions == {chat, batch}
MCToolOf == c1 :> bash @@ c2 :> bash @@ c3 :> bash @@ c4 :> bash
MCSessionOf == c1 :> chat @@ c2 :> chat @@ c3 :> batch @@ c4 :> batch
MCClassOf == c1 :> "plain" @@ c2 :> "outside" @@ c3 :> "plain" @@ c4 :> "outside"
MCBackground == {c3}
MCPolicy == bash :> "ask" @@ edit :> "ask"
MCModeOf == chat :> "interactive" @@ batch :> "allow_list"
MCAllowTools == chat :> {} @@ batch :> {edit}
=============================================================================
