-------------------------------- MODULE Chat -------------------------------
(***************************************************************************)
(* kyle chat (cli/commands/chat.py): a loop that reads a line, sends it to *)
(* the daemon and waits for the answer, beside the event loop of the       *)
(* connection, whose handler prints events and notes the request for a     *)
(* permission that waits for an answer.  The daemon is reduced to one      *)
(* session, its run and the requests of the run (modules Session and       *)
(* Permission have the rest).                                              *)
(***************************************************************************)
EXTENDS Naturals, Sequences

CONSTANTS
    TimesOut,    \* permission.timeout_s is not 0
    MaxAsks,     \* bound on the permission requests of the runs
    MaxSignals,  \* bound on Ctrl+C
    MaxDown      \* bound on the events in the connection

VARIABLES
    main,      \* what the loop of _chat_async waits for
    shown,     \* ChatPrinter.pending_permission_id, 0 for none
    running,   \* ChatPrinter.active_run_id is set
    linked,    \* the event loop of the connection still runs
    reply,     \* the answer to the command the loop waits for
    down,      \* the events on their way to the client
    stage,     \* how far the daemon has come with the message
    open,      \* the requests nobody has decided
    asks, signals   \* counters of the bounds

vars == <<main, shown, running, linked, reply, down, stage, open, asks, signals>>
client == <<main, shown, running>>

Asks == 1 .. MaxAsks
Event(type, q) == [type |-> type, ask |-> q]

Init ==
    /\ main = "reading" /\ shown = 0 /\ running = FALSE
    /\ linked = TRUE /\ reply = "none" /\ down = <<>>
    /\ stage = "idle" /\ open = {} /\ asks = 0 /\ signals = 0

----------------------------------------------------------------------------
(* The loop.                                                               *)

Await(what) == main' = what /\ reply' = "none"

\* a line while no request is shown is a message
Message ==
    /\ main = "reading" /\ shown = 0
    /\ Await("sending")
    /\ stage' = IF linked /\ stage = "idle" THEN "accepted" ELSE stage
    /\ UNCHANGED <<shown, running, linked, down, open, asks, signals>>

\* a line while a request is shown is the decision
Answer ==
    /\ main = "reading" /\ shown # 0
    /\ Await("answering")
    /\ shown' = 0
    /\ open' = IF linked THEN open \ {shown} ELSE open
    /\ UNCHANGED <<running, linked, down, stage, asks, signals>>

\* the command is answered
Answered ==
    /\ \/ main = "sending" /\ reply = "ok"
       \/ main = "answering" /\ linked
    /\ Await("reading")
    /\ UNCHANGED <<shown, running, linked, down, stage, open, asks, signals>>

\* Ctrl+C, or the future of a connection that was lost: both are a
\* CancelledError in the loop, and both are taken for a wish to cancel.  The
\* cancellation gives up after 5 s when nobody answers it.
Interrupted ==
    /\ main = "sending" /\ reply # "ok"
    /\ \/ reply = "cut" /\ UNCHANGED signals
       \/ signals < MaxSignals /\ signals' = signals + 1
    /\ Await("cancelling")
    /\ stage' = IF linked /\ running /\ stage = "running" THEN "cancelled" ELSE stage
    /\ open' = IF stage' = "cancelled" THEN {} ELSE open
    /\ UNCHANGED <<shown, running, linked, down, asks>>

CancelReturns ==
    /\ main = "cancelling"
    /\ Await("reading")
    /\ UNCHANGED <<shown, running, linked, down, stage, open, asks, signals>>

\* end of input, Ctrl+C at the prompt, or an answer cut off: the program ends
\* and closes the connection
Leave ==
    /\ main = "reading" \/ (main = "answering" /\ ~linked)
    /\ main' = "over" /\ linked' = FALSE /\ down' = <<>>
    /\ UNCHANGED <<shown, running, reply, stage, open, asks, signals>>

----------------------------------------------------------------------------
(* ChatPrinter.handle.                                                     *)

Handle ==
    /\ linked /\ down # <<>>
    /\ down' = Tail(down)
    /\ LET e == Head(down) IN
       \/ e.type = "run.started" /\ running' = TRUE /\ UNCHANGED shown
       \/ e.type = "run.finished" /\ running' = FALSE /\ UNCHANGED shown
       \/ e.type = "permission.requested" /\ shown' = e.ask /\ UNCHANGED running
       \/ /\ e.type \in {"session.waiting_for_input", "session.interrupted"}
          /\ shown' = 0 /\ running' = FALSE
       \/ e.type = "permission.denied" /\ UNCHANGED <<shown, running>>
    /\ UNCHANGED <<main, linked, reply, stage, open, asks, signals>>

----------------------------------------------------------------------------
(* The daemon.                                                             *)

\* publish waits while the buffers of the connection are full
Publish(type, q) ==
    /\ Len(down) < MaxDown
    /\ down' = IF linked THEN Append(down, Event(type, q)) ELSE down

Start ==
    /\ stage = "accepted" /\ stage' = "running"
    /\ Publish("run.started", 0)
    /\ UNCHANGED client /\ UNCHANGED <<linked, reply, open, asks, signals>>

Ask ==
    /\ stage = "running" /\ asks < MaxAsks
    /\ asks' = asks + 1 /\ open' = open \cup {asks'}
    /\ Publish("permission.requested", asks')
    /\ UNCHANGED client /\ UNCHANGED <<linked, reply, stage, signals>>

AskTimesOut ==
    /\ TimesOut
    /\ \E q \in open : open' = open \ {q} /\ Publish("permission.denied", q)
    /\ UNCHANGED client /\ UNCHANGED <<linked, reply, stage, asks, signals>>

Finish ==
    /\ stage \in {"running", "cancelled"} /\ open = {}
    /\ stage' = IF stage = "running" THEN "finished" ELSE "stopped"
    /\ Publish("run.finished", 0)
    /\ UNCHANGED client /\ UNCHANGED <<linked, reply, open, asks, signals>>

Tell ==
    /\ stage \in {"finished", "stopped"}
    /\ stage' = "told"
    /\ Publish(IF stage = "finished" THEN "session.waiting_for_input"
                                     ELSE "session.interrupted", 0)
    /\ UNCHANGED client /\ UNCHANGED <<linked, reply, open, asks, signals>>

\* the answer to send_message, if the loop still waits for it
Reply ==
    /\ stage = "told" /\ stage' = "idle"
    /\ reply' = IF main = "sending" /\ linked THEN "ok" ELSE reply
    /\ UNCHANGED client /\ UNCHANGED <<linked, down, open, asks, signals>>

\* the daemon goes away
Cut ==
    /\ linked /\ linked' = FALSE
    /\ reply' = IF main = "sending" /\ reply = "none" THEN "cut" ELSE reply
    /\ stage' = "gone" /\ open' = {} /\ down' = <<>>
    /\ UNCHANGED client /\ UNCHANGED <<asks, signals>>

Next ==
    \/ Message \/ Answer \/ Answered \/ Interrupted \/ CancelReturns \/ Leave \/ Handle
    \/ Start \/ Ask \/ AskTimesOut \/ Finish \/ Tell \/ Reply \/ Cut

\* Both event loops go on, a run ends once its requests are decided, and the
\* user answers every request he can.
Fairness ==
    /\ WF_vars(Answer) /\ WF_vars(Answered) /\ WF_vars(CancelReturns) /\ WF_vars(Handle)
    /\ WF_vars(Start) /\ WF_vars(AskTimesOut) /\ WF_vars(Finish) /\ WF_vars(Tell \/ Reply)

Spec == Init /\ [][Next]_vars /\ Fairness

----------------------------------------------------------------------------
TypeOK ==
    /\ main \in {"reading", "sending", "answering", "cancelling", "over"}
    /\ shown \in 0 .. MaxAsks /\ running \in BOOLEAN /\ linked \in BOOLEAN
    /\ reply \in {"none", "ok", "cut"}
    /\ stage \in {"idle", "accepted", "running", "cancelled", "finished", "stopped", "told",
                  "gone"}
    /\ open \subseteq Asks /\ asks \in 0 .. MaxAsks /\ signals \in 0 .. MaxSignals

\* A request of the run that is open and shown comes to the user: the loop
\* reads his next line, which it takes for the decision (chat.py:143).  It does
\* not: the request arrives while the loop waits for the answer to the message,
\* the answer comes when the run is over, and the run waits for the decision.
ShownCanBeAnswered ==
    (shown \in open /\ linked) ~> (main \in {"reading", "over"} \/ shown \notin open)
=============================================================================
