-------------------------------- MODULE Tui --------------------------------
(***************************************************************************)
(* The terminal interface and the daemon it talks to, over one connection  *)
(* at a time.                                                              *)
(*                                                                         *)
(*   - the transport (core/transport/socket_client.py, socket_server.py):  *)
(*     a handshake, requests whose handlers run as tasks of their own and  *)
(*     answer in any order, answers and events in one stream, futures that *)
(*     are cancelled when the stream ends;                                 *)
(*   - the interface (tui/app.py): the worker that connects, subscribes,   *)
(*     opens the session and connects again; the flags and widgets that    *)
(*     say whether the user may type, and the requests shown to him;       *)
(*   - the daemon, as far as the interface can tell: one chat session with *)
(*     its lock, its run and the permissions the run asks for (the details *)
(*     are those of the modules Session, AgentLoop and Permission), the    *)
(*     runs, requests and decisions of other clients, whose events every   *)
(*     subscriber is sent, and the end of the process.                     *)
(*                                                                         *)
(* The steps of the interface and those of the daemon interleave; inside   *)
(* each, a step lasts from one await to the next.                          *)
(***************************************************************************)
EXTENDS Naturals, Sequences, SequencesExt

CONSTANTS
    Sends,     \* the messages the user types, each at most once
    MaxAsks,   \* bound on the permission requests of all sessions
    MaxEnds,   \* bound on the ends of the daemon
    MaxOthers, \* bound on the ends of other sessions' runs
    MaxTrouble, \* bound on the three together
    MaxDown    \* bound on the lines in the stream to the client

ASSUME TuiAssumption ==
    /\ Sends # {}
    /\ Sends \cap {"subscribe", "open", "switch", "pick", "cancel", "answer", "nobody"} = {}
    /\ MaxAsks \in Nat
    /\ MaxEnds \in Nat
    /\ MaxOthers \in Nat /\ MaxTrouble \in Nat
    /\ MaxDown \in Nat /\ MaxDown >= 2

VARIABLES
    phase,     \* where _socket_loop is
    client,    \* _client is set
    loop,      \* run_event_loop of the current connection
    call,      \* the futures of send_command: pending, or how they ended
    known,     \* _resume_session_id is set
    busy,      \* _busy
    prompt,    \* the prompt takes input
    picker,    \* the SessionPicker is on the screen
    active,    \* _active_run_id is set
    cancelling, \* _cancel_requested
    blocks,    \* _pending_permission_blocks
    selects,   \* the PermissionSelect widgets on the screen, oldest first
    down,      \* the stream to the client: answers and events
    ended,     \* how the daemon's side of the connection has ended
    inbox,     \* requests whose handlers have not run yet, or wait
    fed,       \* the connection is subscribed to events
    core,      \* the daemon runs
    lock,      \* the request that holds the session lock
    stage,     \* how far send_message has come
    open,      \* the requests of the run that nobody has decided
    theirs,    \* and those of other sessions
    deciding,  \* the request the answer on its way to the daemon is about
    asks, ends, others, \* counters of the bounds
    rough,     \* history: a connection was reset, or lost before it was ready
    dropped,   \* history: the daemon ended while the interface was busy
    locked,    \* history: the last event of a session was the end of another one
    crossed    \* history: another client denied a request out of turn

tui == <<phase, client, known, busy, prompt, picker, active, cancelling, blocks, selects,
                   deciding>>
wire == <<loop, call, down, ended, inbox, fed>>
daemon == <<core, lock, stage, open, theirs, asks, ends, others>>
history == <<rough, dropped, locked, crossed>>
tuiVars == <<phase, client, known, busy, prompt, picker, active, cancelling, blocks, selects,
             deciding, loop, call, down, ended, inbox, fed,
             core, lock, stage, open, theirs, asks, ends, others,
             rough, dropped, locked, crossed>>

Setup == {"subscribe", "open"}
Calls == Setup \cup {"switch", "pick", "cancel", "answer"} \cup Sends
Asks == 1 .. MaxAsks
Nobody == "nobody"

Reply(c, ok) == [kind |-> "reply", call |-> c, ok |-> ok]
Event(type, whose, q) == [kind |-> "event", type |-> type, whose |-> whose, ask |-> q]
Own(type) == Event(type, "own", 0)
Others(type) == Event(type, "other", 0)
About(type, q) == Event(type, "any", q)

StreamLines ==
    {Reply(c, ok) : c \in Calls, ok \in BOOLEAN}
    \cup {Own(t) : t \in {"started", "finished", "waiting", "interrupted"}}
    \cup {Others(t) : t \in {"waiting", "closed"}}
    \cup {About(t, q) : t \in {"requested", "denied"}, q \in Asks}

\* the buffers of the connection: publish and _send wait for the drain
Room(n) == Len(down) + n <= MaxDown

\* publish: what a subscribed connection is sent
Feed(s, events) == IF fed /\ core THEN s \o events ELSE s

Untroubled == asks + ends + others < MaxTrouble

----------------------------------------------------------------------------
TuiInit ==
    /\ phase = "retry" /\ client = FALSE /\ loop = "off"
    /\ call = [c \in Calls |-> "none"]
    /\ known \in BOOLEAN
    /\ busy = FALSE /\ prompt = FALSE /\ picker = FALSE
    /\ active = FALSE /\ cancelling = FALSE
    /\ blocks = {} /\ selects = <<>> /\ deciding = 0
    /\ down = <<>> /\ ended = "no" /\ inbox = {} /\ fed = FALSE
    /\ core \in BOOLEAN
    /\ lock = Nobody /\ stage = "idle" /\ open = {} /\ theirs = {}
    /\ asks = 0 /\ ends = 0 /\ others = 0
    /\ rough = FALSE /\ dropped = FALSE /\ locked = FALSE /\ crossed = FALSE

----------------------------------------------------------------------------
(* The client side of the transport.                                       *)

\* send_command: a future in the table and a line on the wire.  Behind a
\* stream that has ended nobody resolves or cancels it any more.
Issued(f, c) == [f EXCEPT ![c] = IF loop = "running" THEN "pending" ELSE "lost"]
Sent(c) == IF loop = "running" /\ ended = "no" THEN inbox \cup {c} ELSE inbox

Issue(c) ==
    /\ call' = Issued(call, c)
    /\ inbox' = Sent(c)

\* connect and _authenticate, against _authenticate_connection: the loop is
\* started and the first command sent before anything else happens
Connect ==
    /\ phase = "retry" /\ core
    /\ phase' = "subscribe" /\ client' = TRUE /\ loop' = "running"
    /\ call' = [c \in Calls |-> IF c = "subscribe" THEN "pending"
                                ELSE IF c \in Setup THEN "none" ELSE call[c]]
    /\ inbox' = {"subscribe"}
    /\ down' = <<>> /\ ended' = "no" /\ fed' = FALSE
    /\ UNCHANGED <<known, busy, prompt, picker, active, cancelling, blocks, selects,
                   deciding>>
    /\ UNCHANGED daemon /\ UNCHANGED history

\* refused, or the handshake is refused, cut off or out of time
ConnectFails ==
    /\ phase = "retry"
    /\ phase' = "sleep"
    /\ UNCHANGED <<client, known, busy, prompt, picker, active, cancelling, blocks, selects,
                   deciding>>
    /\ UNCHANGED wire /\ UNCHANGED daemon /\ UNCHANGED history

Wake ==
    /\ phase = "sleep"
    /\ phase' = "retry"
    /\ UNCHANGED <<client, known, busy, prompt, picker, active, cancelling, blocks, selects,
                   deciding>>
    /\ UNCHANGED wire /\ UNCHANGED daemon /\ UNCHANGED history

\* how a future that is resolved or cancelled leaves the worker behind it: a
\* worker that has nothing left to do is gone at once (a handler is no worker)
Settled(c, how) ==
    IF \/ c \in Sends \cup {"cancel"} /\ how # "err"
       \/ c = "switch" /\ how = "cut"
    THEN "none" ELSE how

\* _dispatch of an answer: only the future of its own id, and only if somebody
\* still waits for it
Resolved(m) ==
    [call EXCEPT ![m.call] = IF @ = "pending"
                             THEN Settled(m.call, IF m.ok THEN "ok" ELSE "err") ELSE @]

\* the end of the loop cancels what is pending
AllCut == [c \in Calls |-> IF call[c] = "pending" THEN Settled(c, "cut") ELSE call[c]]

\* Variant for mutation: an empty line is not taken for the end of the stream
LoopEndsOnReset ==
    /\ loop = "running" /\ ended = "reset"
    /\ down = <<>>
    /\ loop' = "over"
    /\ call' = AllCut
    /\ UNCHANGED <<down, ended, inbox, fed>>
    /\ UNCHANGED tui /\ UNCHANGED daemon /\ UNCHANGED history

\* run_event_loop ends when the stream does
LoopEnds ==
    /\ loop = "running" /\ ended # "no"
    /\ down = <<>>
    /\ loop' = "over"
    /\ call' = AllCut
    /\ UNCHANGED <<down, ended, inbox, fed>>
    /\ UNCHANGED tui /\ UNCHANGED daemon /\ UNCHANGED history

----------------------------------------------------------------------------
(* _handle_event: what an event does to the interface.                     *)

\* Variant for mutation: the newest select goes
DropNewest(s) == IF s = <<>> THEN s ELSE SubSeq(s, 1, Len(s) - 1)

\* permission.denied: the block of the request and the first select go
DropSelect(s) == IF s = <<>> THEN s ELSE Tail(s)

OnSessionEvent(e) ==
    \/ /\ e.type = "waiting"
       /\ busy' = FALSE /\ cancelling' = FALSE /\ prompt' = TRUE
       /\ UNCHANGED active
    \/ /\ e.type = "interrupted"
       /\ busy' = FALSE /\ cancelling' = FALSE /\ prompt' = TRUE
       /\ active' = FALSE
    \/ /\ e.type = "closed"
       /\ busy' = FALSE /\ cancelling' = FALSE /\ prompt' = FALSE
       /\ UNCHANGED active

OnRunEvent(e) ==
    /\ \/ e.type = "started" /\ active' = TRUE
       \/ e.type = "finished" /\ active' = FALSE
    /\ cancelling' = FALSE
    /\ UNCHANGED <<busy, prompt>>

OnPermissionEvent(e) ==
    /\ \/ /\ e.type = "requested"
          /\ blocks' = blocks \cup {e.ask}
          /\ selects' = Append(selects, e.ask)
          /\ prompt' = FALSE
       \/ /\ e.type = "denied" /\ e.ask \in blocks
          /\ blocks' = blocks \ {e.ask}
          /\ selects' = DropSelect(selects)
          /\ prompt' = (prompt \/ blocks' = {})
       \/ /\ e.type = "denied" /\ e.ask \notin blocks
          /\ UNCHANGED <<blocks, selects, prompt>>
    /\ UNCHANGED <<busy, cancelling, active>>

OnEvent(e) ==
    \/ OnSessionEvent(e) /\ UNCHANGED <<blocks, selects>>
    \/ OnRunEvent(e) /\ UNCHANGED <<blocks, selects>>
    \/ OnPermissionEvent(e)

\* the event loop takes the next line of the stream
Dispatch ==
    /\ loop = "running" /\ down # <<>>
    /\ down' = Tail(down)
    /\ LET m == Head(down) IN
       \/ /\ m.kind = "reply"
          /\ call' = Resolved(m)
          /\ UNCHANGED <<busy, prompt, active, cancelling, blocks, selects, locked>>
       \/ /\ m.kind = "event"
          /\ OnEvent(m)
          /\ locked' = IF m.type \in {"waiting", "interrupted", "closed"}
                       THEN m.type = "closed" ELSE locked
          /\ UNCHANGED call
    /\ UNCHANGED <<phase, client, known, picker, deciding, loop, ended, inbox, fed>>
    /\ UNCHANGED daemon /\ UNCHANGED <<rough, dropped, crossed>>

----------------------------------------------------------------------------
(* _socket_loop.                                                           *)

\* the call the worker waits for in each phase
Await(c) == phase = c /\ call[c] \in {"ok", "err", "cut"}

\* after the subscription: create a session, or resume the one known
Subscribed ==
    /\ Await("subscribe") /\ call["subscribe"] = "ok"
    /\ phase' = "open"
    /\ Issue("open")
    /\ UNCHANGED <<client, known, busy, prompt, picker, active, cancelling, blocks, selects,
                   deciding>>
    /\ UNCHANGED <<loop, down, ended, fed>> /\ UNCHANGED daemon /\ UNCHANGED history

\* the session is open, its history fetched if it is an old one: take input
Opened ==
    /\ Await("open") /\ call["open"] = "ok"
    /\ known' = TRUE
    /\ phase' = "ready" /\ prompt' = TRUE
    /\ UNCHANGED <<client, busy, picker, active, cancelling, blocks, selects, deciding>>
    /\ UNCHANGED wire /\ UNCHANGED daemon /\ UNCHANGED history

\* the finally block: disconnected.  Closing a connection that was reset
\* raises, and an error of the worker ends the interface.
Teardown(next) ==
    /\ client' = FALSE /\ prompt' = FALSE /\ loop' = "over"
    /\ call' = AllCut
    /\ phase' = IF ended = "reset" THEN "crashed" ELSE next
    /\ UNCHANGED <<known, busy, picker, active, cancelling, blocks, selects, deciding>>
    /\ UNCHANGED <<down, ended, inbox, fed>> /\ UNCHANGED daemon /\ UNCHANGED history

\* the loop task has ended, or the daemon refused a call of the setup
Disconnected ==
    /\ \/ phase = "ready" /\ loop = "over"
       \/ \E c \in Setup : Await(c) /\ call[c] = "err"
    /\ Teardown("sleep")

\* the cancelled future of a setup call raises CancelledError, which nothing
\* catches: the worker ends
WorkerEnds ==
    /\ \E c \in Setup : Await(c) /\ call[c] = "cut"
    /\ Teardown("ended")

----------------------------------------------------------------------------
(* The user, and the workers his input starts.                             *)

\* the message pump is free: no handler of it waits for the daemon
PumpFree == call["answer"] = "none" /\ call["pick"] = "none" /\ phase # "crashed"

\* on_chat_text_area_submitted, _do_send_message
Submit(c) ==
    /\ PumpFree /\ prompt /\ call[c] = "none"
    /\ client /\ phase = "ready" /\ ~busy
    /\ busy' = TRUE /\ prompt' = FALSE
    /\ Issue(c)
    /\ dropped' = (dropped \/ ended # "no")
    /\ UNCHANGED <<phase, client, known, picker, active, cancelling, blocks, selects, deciding>>
    /\ UNCHANGED <<loop, down, ended, fed>> /\ UNCHANGED daemon
    /\ UNCHANGED <<rough, locked, crossed>>

\* Variant for mutation: the error is printed, the flag stays
SendReturnsPrinted(c) ==
    /\ call[c] = "err"
    /\ call' = [call EXCEPT ![c] = "none"]
    /\ prompt' = TRUE /\ UNCHANGED busy
    /\ UNCHANGED <<phase, client, known, picker, active, cancelling, blocks, selects, deciding>>
    /\ UNCHANGED <<loop, down, ended, inbox, fed>> /\ UNCHANGED daemon /\ UNCHANGED history

\* an error is the only answer to send_message that matters
SendReturns(c) ==
    /\ call[c] = "err"
    /\ call' = [call EXCEPT ![c] = "none"]
    /\ busy' = FALSE /\ prompt' = TRUE
    /\ UNCHANGED <<phase, client, known, picker, active, cancelling, blocks, selects, deciding>>
    /\ UNCHANGED <<loop, down, ended, inbox, fed>> /\ UNCHANGED daemon /\ UNCHANGED history

\* /new and /sessions: the prompt is off while a worker creates the session, or
\* lists those there are
Switch ==
    /\ PumpFree /\ prompt /\ call["switch"] = "none"
    /\ client /\ phase = "ready" /\ ~busy
    /\ prompt' = FALSE
    /\ Issue("switch")
    /\ dropped' = (dropped \/ ended # "no")
    /\ UNCHANGED <<phase, client, known, busy, picker, active, cancelling, blocks, selects,
                   deciding>>
    /\ UNCHANGED <<loop, down, ended, fed>> /\ UNCHANGED daemon
    /\ UNCHANGED <<rough, locked, crossed>>

\* the new session is loaded, the picker shown, or the error printed
SwitchReturns ==
    /\ call["switch"] \in {"ok", "err"}
    /\ call' = [call EXCEPT !["switch"] = "none"]
    /\ \/ prompt' = TRUE /\ UNCHANGED picker
       \/ call["switch"] = "ok" /\ picker' = TRUE /\ UNCHANGED prompt
    /\ UNCHANGED <<phase, client, known, busy, active, cancelling, blocks, selects, deciding>>
    /\ UNCHANGED <<loop, down, ended, inbox, fed>> /\ UNCHANGED daemon /\ UNCHANGED history

\* on_session_picker_dismissed, and the selection of the session that is open
Dismiss ==
    /\ PumpFree /\ picker
    /\ picker' = FALSE /\ prompt' = TRUE
    /\ UNCHANGED <<phase, client, known, busy, active, cancelling, blocks, selects, deciding>>
    /\ UNCHANGED wire /\ UNCHANGED daemon /\ UNCHANGED history

\* on_session_picker_selected, another session: the handler holds the message
\* pump until the daemon has answered
Pick ==
    /\ PumpFree /\ picker
    /\ picker' = FALSE
    /\ IF client THEN Issue("pick") ELSE UNCHANGED <<call, inbox>>
    /\ rough' = (rough \/ (client /\ ended # "no"))
    /\ UNCHANGED <<phase, client, known, busy, prompt, active, cancelling, blocks, selects,
                   deciding>>
    /\ UNCHANGED <<loop, down, ended, fed>> /\ UNCHANGED daemon
    /\ UNCHANGED <<dropped, locked, crossed>>

PickReturns ==
    /\ call["pick"] \in {"ok", "err"}
    /\ call' = [call EXCEPT !["pick"] = "none"]
    /\ prompt' = TRUE
    /\ UNCHANGED <<phase, client, known, busy, picker, active, cancelling, blocks, selects,
                   deciding>>
    /\ UNCHANGED <<loop, down, ended, inbox, fed>> /\ UNCHANGED daemon /\ UNCHANGED history

\* action_cancel_run, _do_cancel_run
CancelRun ==
    /\ PumpFree /\ client /\ active /\ busy /\ ~cancelling
    /\ call["cancel"] = "none"
    /\ cancelling' = TRUE
    /\ Issue("cancel")
    /\ UNCHANGED <<phase, client, known, busy, prompt, picker, active, blocks, selects, deciding>>
    /\ UNCHANGED <<loop, down, ended, fed>> /\ UNCHANGED daemon /\ UNCHANGED history

CancelReturns ==
    /\ call["cancel"] = "err"
    /\ call' = [call EXCEPT !["cancel"] = "none"]
    /\ cancelling' = FALSE
    /\ UNCHANGED <<phase, client, known, busy, prompt, picker, active, blocks, selects, deciding>>
    /\ UNCHANGED <<loop, down, ended, inbox, fed>> /\ UNCHANGED daemon /\ UNCHANGED history

\* on_permission_select_decided: the select and the block go at once; the
\* handler holds the message pump until the daemon has answered
Decide(i) ==
    /\ PumpFree /\ i \in DOMAIN selects
    /\ selects' = RemoveAt(selects, i)
    /\ blocks' = blocks \ {selects[i]}
    /\ IF client THEN Issue("answer") /\ deciding' = selects[i] /\ UNCHANGED prompt
                 ELSE /\ prompt' = (prompt \/ blocks' = {})
                      /\ UNCHANGED <<call, inbox, deciding>>
    /\ rough' = (rough \/ (client /\ ended # "no"))
    /\ UNCHANGED <<phase, client, known, busy, picker, active, cancelling>>
    /\ UNCHANGED <<loop, down, ended, fed>> /\ UNCHANGED daemon
    /\ UNCHANGED <<dropped, locked, crossed>>

AnswerReturns ==
    /\ call["answer"] \in {"ok", "err"}
    /\ call' = [call EXCEPT !["answer"] = "none"]
    /\ deciding' = 0
    /\ prompt' = (prompt \/ blocks = {})
    /\ UNCHANGED <<phase, client, known, busy, picker, active, cancelling, blocks, selects>>
    /\ UNCHANGED <<loop, down, ended, inbox, fed>> /\ UNCHANGED daemon /\ UNCHANGED history

\* the CancelledError of a cut answer, or of a cut switch, goes through the
\* handler into the message pump of the interface and ends it
HandlerCut ==
    /\ "cut" \in {call["answer"], call["pick"]}
    /\ phase' = "crashed"
    /\ UNCHANGED <<client, known, busy, prompt, picker, active, cancelling, blocks, selects,
                   deciding>>
    /\ UNCHANGED wire /\ UNCHANGED daemon /\ UNCHANGED history

----------------------------------------------------------------------------
(* The daemon: handlers.                                                   *)

\* _handle_line: the handler of one request, in any order among the requests
Handle(c) == core /\ c \in inbox /\ Room(1) /\ inbox' = inbox \ {c}

HandleSubscribe ==
    /\ Handle("subscribe")
    /\ fed' = TRUE
    /\ down' = Append(down, Reply("subscribe", TRUE))
    /\ UNCHANGED <<loop, call, ended>>
    /\ UNCHANGED tui /\ UNCHANGED daemon /\ UNCHANGED history

\* session.create or session.list, or session.resume, which a locked session
\* refuses, with get_history
HandleSession(c) ==
    /\ c \in {"open", "switch", "pick"}
    /\ Handle(c)
    /\ \E locks \in CASE c = "open" -> {known} [] c = "pick" -> BOOLEAN [] OTHER -> {FALSE} :
           down' = Append(down, Reply(c, locks => lock = Nobody))
    /\ UNCHANGED <<loop, call, ended, fed>>
    /\ UNCHANGED tui /\ UNCHANGED daemon /\ UNCHANGED history

\* session.send_message: refused while the session is locked
HandleSend(c) ==
    /\ c \in Sends
    /\ Handle(c)
    /\ \/ /\ lock # Nobody
          /\ down' = Append(down, Reply(c, FALSE))
          /\ UNCHANGED <<lock, stage>>
       \/ /\ lock = Nobody
          /\ lock' = c /\ stage' = "running"
          /\ down' = Feed(down, <<Own("started")>>)
    /\ UNCHANGED <<loop, call, ended, fed>>
    /\ UNCHANGED <<core, open, theirs, asks, ends, others>>
    /\ UNCHANGED tui /\ UNCHANGED history

\* permission.respond: a request that is no longer open is ignored.  The denial
\* that follows a refusal finds no block.
HandleAnswer ==
    /\ Handle("answer")
    /\ open' = open \ {deciding} /\ theirs' = theirs \ {deciding}
    /\ down' = Append(down, Reply("answer", TRUE))
    /\ UNCHANGED <<loop, call, ended, fed>>
    /\ UNCHANGED <<core, lock, stage, asks, ends, others>>
    /\ UNCHANGED tui /\ UNCHANGED history

\* run.cancel: the answer comes when the run has stopped
HandleCancel ==
    /\ Handle("cancel")
    /\ \/ /\ stage = "running"
          /\ stage' = "cancelled" /\ open' = {}
          /\ down' = Feed(down, <<Own("finished")>>)
       \/ /\ stage # "running"
          /\ down' = Append(down, Reply("cancel", FALSE))
          /\ UNCHANGED <<stage, open>>
    /\ UNCHANGED <<loop, call, ended, fed>>
    /\ UNCHANGED <<core, lock, theirs, asks, ends, others>>
    /\ UNCHANGED tui /\ UNCHANGED history

----------------------------------------------------------------------------
(* The daemon: the run of the session, and other clients.                  *)

\* the run, or a subagent of it, asks for a permission; or a run of another
\* session does: the interface is sent the requests of all
Ask ==
    /\ core /\ asks < MaxAsks /\ Untroubled /\ Room(1)
    /\ asks' = asks + 1
    /\ \/ stage = "running" /\ open' = open \cup {asks'} /\ UNCHANGED theirs
       \/ theirs' = theirs \cup {asks'} /\ UNCHANGED open
    /\ down' = Feed(down, <<About("requested", asks')>>)
    /\ UNCHANGED <<loop, call, ended, inbox, fed>>
    /\ UNCHANGED <<core, lock, stage, ends, others>>
    /\ UNCHANGED tui /\ UNCHANGED history

\* a request is decided without the interface
Closed(q, events) ==
    /\ Room(1)
    /\ open' = open \ {q} /\ theirs' = theirs \ {q}
    /\ down' = Feed(down, events)
    /\ UNCHANGED <<loop, call, ended, inbox, fed>>
    /\ UNCHANGED <<core, lock, stage, asks, ends, others>>
    /\ UNCHANGED tui

Oldest(q) == \A r \in open \cup theirs : q <= r

\* nobody has answered: requests time out in the order they were made
AskTimesOut ==
    \E q \in open \cup theirs :
        /\ Oldest(q)
        /\ Closed(q, <<About("denied", q)>>)
        /\ UNCHANGED history

\* another client refuses or grants it, in any order, or its run is cancelled:
\* only a refusal is told
DecidedElsewhere ==
    \E q \in open \cup theirs :
        \/ /\ Closed(q, <<About("denied", q)>>)
           /\ crossed' = (crossed \/ ~Oldest(q))
           /\ UNCHANGED <<rough, dropped, locked>>
        \/ /\ Closed(q, <<>>)
           /\ UNCHANGED history

RunFinishes ==
    /\ stage = "running" /\ open = {} /\ Room(1)
    /\ stage' = "finished"
    /\ down' = Feed(down, <<Own("finished")>>)
    /\ UNCHANGED <<loop, call, ended, inbox, fed>>
    /\ UNCHANGED <<core, lock, open, theirs, asks, ends, others>>
    /\ UNCHANGED tui /\ UNCHANGED history

\* send_message tells that the session waits, or was interrupted; it still
\* holds the lock
Tell ==
    /\ stage \in {"finished", "cancelled"} /\ Room(2)
    /\ stage' = "told"
    /\ down' = Feed(down, <<IF stage = "finished" THEN Own("waiting")
                                                  ELSE Own("interrupted")>>)
                    \o (IF stage = "cancelled" THEN <<Reply("cancel", TRUE)>> ELSE <<>>)
    /\ UNCHANGED <<loop, call, ended, inbox, fed>>
    /\ UNCHANGED <<core, lock, open, theirs, asks, ends, others>>
    /\ UNCHANGED tui /\ UNCHANGED history

Unlock ==
    /\ stage = "told" /\ Room(1)
    /\ stage' = "idle" /\ lock' = Nobody
    /\ down' = Append(down, Reply(lock, TRUE))
    /\ UNCHANGED <<loop, call, ended, inbox, fed>>
    /\ UNCHANGED <<core, open, theirs, asks, ends, others>>
    /\ UNCHANGED tui /\ UNCHANGED history

\* the other session was a one-shot run, or a chat
OtherEnds ==
    /\ core /\ others < MaxOthers /\ Untroubled /\ Room(1)
    /\ others' = others + 1
    /\ \E told \in {"closed", "waiting"} :
           down' = Feed(down, <<Others(told)>>)
    /\ UNCHANGED <<loop, call, ended, inbox, fed>>
    /\ UNCHANGED <<core, lock, stage, open, theirs, asks, ends>>
    /\ UNCHANGED tui /\ UNCHANGED history

----------------------------------------------------------------------------
(* The end of the daemon, and its next start.                              *)

CoreEnds(how, last) ==
    /\ core /\ ends < MaxEnds /\ Untroubled
    /\ ends' = ends + 1
    /\ core' = FALSE /\ lock' = Nobody /\ stage' = "idle" /\ open' = {} /\ theirs' = {}
    /\ inbox' = {} /\ fed' = FALSE
    /\ IF loop = "running"
       THEN ended' = how /\ down' = last
       ELSE UNCHANGED <<ended, down>>
    /\ rough' = (rough \/ (loop = "running" /\ (\/ how = "reset" \/ phase \in Setup
                                                \/ "pending" \in {call["answer"], call["pick"]})))
    /\ dropped' = (dropped \/ busy \/ call["switch"] # "none")
    /\ UNCHANGED <<loop, call, asks, others, locked, crossed>>
    /\ UNCHANGED tui

\* a shutdown cancels the run first, which is told, and then closes
Stop ==
    CoreEnds("closed", IF stage = "running"
                       THEN Feed(down, <<Own("finished"), Own("interrupted")>>)
                       ELSE down)

\* a kill: what was written arrives, or is lost with the connection
Kill ==
    \/ CoreEnds("closed", down)
    \/ CoreEnds("reset", <<>>)

Restart ==
    /\ ~core
    /\ core' = TRUE
    /\ UNCHANGED wire /\ UNCHANGED tui /\ UNCHANGED history
    /\ UNCHANGED <<lock, stage, open, theirs, asks, ends, others>>

----------------------------------------------------------------------------
SocketLoop == Connect \/ ConnectFails \/ Wake \/ Subscribed \/ Opened \/ Disconnected \/ WorkerEnds
Reading == Dispatch \/ LoopEnds
Returns == SwitchReturns \/ PickReturns \/ CancelReturns \/ AnswerReturns \/ HandlerCut
           \/ \E c \in Sends : SendReturns(c)
User == Switch \/ Dismiss \/ Pick \/ CancelRun
        \/ (\E c \in Sends : Submit(c)) \/ (\E i \in DOMAIN selects : Decide(i))
Handlers == HandleSubscribe \/ HandleAnswer \/ HandleCancel
            \/ \E c \in Calls : HandleSession(c) \/ HandleSend(c)
Run == AskTimesOut \/ RunFinishes \/ Tell \/ Unlock

Ends == Stop \/ Kill \/ Restart

TuiNext == SocketLoop \/ Reading \/ Returns \/ User \/ Handlers \/ Run \/ Ask \/ DecidedElsewhere
           \/ OtherEnds \/ Ends

\* The event loops of both processes go on; the daemon does not miss the time
\* limit of the handshake for ever; a run ends (AgentLoop) and its requests
\* time out (Permission).  Nothing is assumed of the user, of other clients,
\* or that a daemon that ended is started again.
Fairness ==
    /\ SF_tuiVars(Connect) /\ WF_tuiVars(SocketLoop) /\ WF_tuiVars(Reading) /\ WF_tuiVars(Returns)
    /\ WF_tuiVars(HandleSubscribe) /\ WF_tuiVars(HandleSession("open"))
    /\ WF_tuiVars(Handlers) /\ WF_tuiVars(Run)

TuiSpec == TuiInit /\ [][TuiNext]_tuiVars /\ Fairness

----------------------------------------------------------------------------
TuiTypeOK ==
    /\ phase \in {"retry", "sleep", "ready", "ended", "crashed"} \cup Setup
    /\ loop \in {"off", "running", "over"}
    /\ call \in [Calls -> {"none", "pending", "ok", "err", "cut", "lost"}]
    /\ {client, known, busy, prompt, picker, active, cancelling, fed, core} \subseteq BOOLEAN
    /\ blocks \subseteq Asks /\ selects \in Seq(Asks) /\ deciding \in 0 .. MaxAsks
    /\ down \in Seq(StreamLines) /\ ended \in {"no", "closed", "reset"}
    /\ inbox \subseteq Calls
    /\ lock \in Sends \cup {Nobody}
    /\ stage \in {"idle", "running", "finished", "cancelled", "told"}
    /\ {open, theirs} \subseteq SUBSET Asks /\ asks \in 0 .. MaxAsks /\ ends \in 0 .. MaxEnds
    /\ others \in 0 .. MaxOthers
    /\ {rough, dropped, locked, crossed} \subseteq BOOLEAN

\* Nothing is on its way and the session is idle.
AtRest ==
    /\ phase = "ready" /\ loop = "running" /\ ended = "no"
    /\ down = <<>> /\ inbox = {} /\ lock = Nobody
    /\ \A c \in Calls \ Setup : call[c] = "none"

\* Whenever everything has come to rest, the interface takes the next message:
\* no order of events, answers, errors, cancellations and decisions leaves it
\* busy or the prompt shut.  Two ways to lock the user out are left: the daemon
\* ends while a message is with it (nothing resets _busy), and the end of some
\* other one-shot session (session.closed is not told apart)
\* (app.py:1004, 1225, 1263, 1286).
ReadyForUser ==
    (AtRest /\ ~dropped /\ ~locked) => ~busy /\ (prompt \/ picker \/ blocks # {})

\* A request of any session that is still open and was shown can be decided:
\* its select is on the screen, although a denial removes the first select and
\* not that of its own request, and requests end unheard.  Left out are the
\* histories in which another client denied a request before an older one:
\* then the older one loses its select (app.py:1187, 1509).
AskAnswerable ==
    ~crossed => (open \cup theirs) \cap blocks \subseteq ToSet(selects)

\* A connection that is lost while it is ready is made again as soon as a
\* daemon is there; a connection that is reset, lost during the setup, or lost
\* while a handler waits under a decision or a pick, ends the interface or its
\* socket worker (app.py:956, 1143).
Reconnects == []<>((phase = "ready" /\ ended = "no") \/ ~core \/ rough)
=============================================================================
