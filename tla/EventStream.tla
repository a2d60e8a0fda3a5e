----------------------------- MODULE EventStream -----------------------------
(***************************************************************************)
(* EventBus, the EventWriter of each run, IpcEventBroadcaster and          *)
(* event.subscribe.  The tasks of the runs publish events on one bus: the  *)
(* broadcaster pushes an event to the subscribed connections one after the *)
(* other and waits in the drain of a client that does not read; only then  *)
(* the writers of all open runs store it.  A step is the code between two  *)
(* awaits that really wait.                                                *)
(***************************************************************************)
EXTENDS Naturals, Sequences, FiniteSets, SequencesExt

CONSTANTS
    Tasks,      \* tasks that publish: the run's own, or one of its parallel tools
    Runs,
    RunOf,      \* the run of each task
    Lasting,    \* the background jobs and subagents, which may outlive their run
    Flaky,      \* bound: the events that a writer may fail to write
    Clients,    \* each a connection with one event.subscribe
    Scope,      \* of each client: a run, or Global
    Replay,     \* of each client: the run whose file it wants first, or NoRun
    Global, NoRun,
    MaxEvents,  \* events of a task
    HighWater   \* unread events at which a connection's drain waits

ASSUME StreamAssumption ==
    /\ RunOf \in [Tasks -> Runs]
    /\ Lasting \subseteq Tasks
    /\ Flaky \subseteq Tasks \X (1..MaxEvents)
    /\ Scope \in [Clients -> Runs \cup {Global}]
    /\ Replay \in [Clients -> Runs \cup {NoRun}]
    /\ MaxEvents \in Nat
    /\ HighWater \in Nat

VARIABLES
    opened,   \* runs that have a writer on the bus
    closed,   \* those of them whose file is closed: the writer stays and ignores
    file      \* events.jsonl of each run

VARIABLES
    begun,    \* events each task has begun to publish
    todo,     \* the subscriptions a publication still has to serve; at its head
              \* the client in whose drain it waits
    dead,     \* the connections a publication has found lost
    busy      \* tasks whose last event is still on its way

VARIABLES
    on,       \* clients that are connected
    stage,    \* of their event.subscribe
    subs,     \* the broadcaster's list
    got,      \* what was written to each client
    unread    \* how much of it the client has not read

VARIABLES
    void,     \* history: events whose publication was cancelled
    failed,   \* history: events whose row the writer of their run dropped
    tardy,     \* history: events that came to that writer when it was closed
    due       \* history: for each client and task, the number after the last
              \* that the client has got, or that preceded its subscription

busVars == <<opened, closed, file>>
netVars == <<on, stage, subs, got, unread, due>>
pubVars == <<begun, todo, dead, busy, void, failed, tardy>>
vars == <<busVars, pubVars, netVars>>

Event == Tasks \X (1..MaxEvents)
Open == opened \ closed

\* The entries of a list that are in S, in their order: each one's place is the
\* number of those that precede it.
Kept(list, S) ==
    LET at == {i \in DOMAIN list : list[i] \in S}
        Before(i) == {j \in at : j < i}
    IN  [n \in 1..Cardinality(at) |->
            list[CHOOSE i \in at : Cardinality(Before(i)) + 1 = n]]

Wants(c, p) == Scope[c] \in {Global, RunOf[p]}

\* Variant for mutation: the drain of a lost connection never returns.
PausedForGood(c) == unread[c] > HighWater

\* drain waits; it raises at once when the connection is lost.
Paused(c) == c \in on /\ unread[c] > HighWater

Init ==
    /\ opened = {}
    /\ closed = {}
    /\ file = [r \in Runs |-> <<>>]
    /\ begun = [p \in Tasks |-> 0]
    /\ todo = [p \in Tasks |-> <<>>]
    /\ dead = [p \in Tasks |-> {}]
    /\ busy = {}
    /\ on = Clients
    /\ stage = [c \in Clients |-> "asked"]
    /\ subs = <<>>
    /\ got = [c \in Clients |-> <<>>]
    /\ unread = [c \in Clients |-> 0]
    /\ void = {}
    /\ failed = {}
    /\ tardy = {}
    /\ due = [c \in Clients |-> [p \in Tasks |-> 0]]

-----------------------------------------------------------------------------
(* Publishing                                                               *)

\* The clients that event n of task p is written to before its publication
\* waits: those of the list up to the first whose buffer is then too full.
Stops(list) ==
    {i \in DOMAIN list : list[i] \in on /\ unread[list[i]] + 1 > HighWater}

Reached(list) ==
    IF Stops(list) = {} THEN Len(list)
    ELSE CHOOSE i \in Stops(list) : \A j \in Stops(list) : i <= j

\* EventWriter.handle of every run: a closed one ignores the event, and a write
\* that fails is logged and the row is lost.
Store(e) ==
    \E bad \in SUBSET (IF e \in Flaky THEN Open ELSE {}) :
        /\ file' = [r \in Runs |-> IF r \in Open \ bad THEN Append(file[r], e) ELSE file[r]]
        /\ failed' = IF RunOf[e[1]] \in bad THEN failed \cup {e} ELSE failed
        /\ tardy' = IF RunOf[e[1]] \in Open THEN tardy ELSE tardy \cup {e}

\* Serve the subscriptions of list.  When nothing is left, the connections that
\* were found lost are unsubscribed, and the writers store the event.
Serve(p, n, list) ==
    LET k    == Reached(list)
        hit  == {list[i] : i \in 1..k} \cap on
        over == Stops(list) = {}
        lost == dead[p] \cup ({list[i] : i \in 1..k} \ on)
    IN  /\ got' = [c \in Clients |->
                      IF c \in hit THEN Append(got[c], <<p, n>>) ELSE got[c]]
        /\ unread' = [c \in Clients |->
                         IF c \in hit THEN unread[c] + 1 ELSE unread[c]]
        /\ due' = [c \in Clients |->
                      IF c \in hit THEN [due[c] EXCEPT ![p] = n + 1] ELSE due[c]]
        /\ todo' = [todo EXCEPT ![p] = IF over THEN <<>> ELSE SubSeq(list, k, Len(list))]
        /\ busy' = IF over THEN busy \ {p} ELSE busy \cup {p}
        /\ dead' = [dead EXCEPT ![p] = IF over THEN {} ELSE lost]
        /\ subs' = IF over THEN Kept(subs, Clients \ lost) ELSE subs
        /\ IF over THEN Store(<<p, n>>) ELSE UNCHANGED <<file, failed, tardy>>
        /\ UNCHANGED <<opened, closed, on, stage, void>>

\* The task is running: its run has begun, and it outlives that or the run has
\* not ended.
Running(p) == RunOf[p] \in opened /\ (p \in Lasting \/ RunOf[p] \notin closed)

\* EventBus.publish up to its first wait.  The broadcaster serves a copy of the
\* list as it is now.
Publish(p) ==
    /\ Running(p)
    /\ p \notin busy
    /\ begun[p] < MaxEvents
    /\ begun' = [begun EXCEPT ![p] = @ + 1]
    /\ Serve(p, begun[p] + 1, Kept(subs, {c \in Clients : Wants(c, p)}))

\* The client it waited for has read, or is gone.
Resume(p) ==
    /\ p \in busy
    /\ ~Paused(Head(todo[p]))
    /\ Serve(p, begun[p], Tail(todo[p]))
    /\ UNCHANGED begun

\* The task is cancelled while it waits: nobody further gets the event, and it
\* is in no file.
Cut(p) ==
    /\ p \in busy
    /\ busy' = busy \ {p}
    /\ todo' = [todo EXCEPT ![p] = <<>>]
    /\ dead' = [dead EXCEPT ![p] = {}]
    /\ void' = void \cup {<<p, begun[p]>>}
    /\ UNCHANGED <<busVars, begun, failed, tardy, netVars>>

-----------------------------------------------------------------------------
(* Runs: the file is open from before run.started until after run.finished  *)

StartRun(r) ==
    /\ r \notin opened
    /\ opened' = opened \cup {r}
    /\ UNCHANGED <<closed, file, pubVars, netVars>>

\* Variant for mutation: the file is closed while a parallel tool publishes.
EndRunEarly(r) ==
    /\ r \in Open
    /\ closed' = closed \cup {r}
    /\ UNCHANGED <<opened, file, pubVars, netVars>>

EndRun(r) ==
    /\ r \in Open
    /\ \A p \in Tasks \ Lasting : RunOf[p] = r => p \notin busy
    /\ closed' = closed \cup {r}
    /\ UNCHANGED <<opened, file, pubVars, netVars>>

-----------------------------------------------------------------------------
(* Clients                                                                  *)

\* The rows of the run's file, whatever run they are of; none without a file.
Replayed(c) ==
    IF Replay[c] = NoRun \/ Replay[c] \notin opened THEN <<>> ELSE file[Replay[c]]

\* Variant for mutation: the connection is registered before its replay and
\* again after it.
JoinNoted(c) ==
    /\ stage' = [stage EXCEPT ![c] = "live"]
    /\ subs' = <<c>> \o Append(subs, c)
    /\ due' = [due EXCEPT ![c] = [p \in Tasks |-> begun[p] + 1]]

Join(c) ==
    /\ stage' = [stage EXCEPT ![c] = "live"]
    /\ subs' = Append(subs, c)
    /\ due' = [due EXCEPT ![c] = [p \in Tasks |-> begun[p] + 1]]

\* _subscribe_handler: write the replay and register, unless the replay has to
\* wait or the connection is found closed in its drain.
Subscribe(c) ==
    LET rows == Replayed(c)
    IN  /\ stage[c] = "asked"
        /\ got' = [got EXCEPT ![c] = @ \o rows]
        /\ unread' = [unread EXCEPT ![c] = @ + Len(rows)]
        /\ CASE rows # <<>> /\ c \notin on ->
                  stage' = [stage EXCEPT ![c] = "failed"] /\ UNCHANGED <<subs, due>>
             [] rows # <<>> /\ c \in on /\ Len(rows) > HighWater ->
                  stage' = [stage EXCEPT ![c] = "replaying"] /\ UNCHANGED <<subs, due>>
             [] OTHER -> Join(c)
        /\ UNCHANGED <<busVars, pubVars, on>>

ReplayEnds(c) ==
    /\ stage[c] = "replaying"
    /\ ~Paused(c)
    /\ IF c \in on THEN Join(c)
       ELSE stage' = [stage EXCEPT ![c] = "failed"] /\ UNCHANGED <<subs, due>>
    /\ UNCHANGED <<busVars, pubVars, on, got, unread>>

Read(c) ==
    /\ c \in on
    /\ unread[c] > 0
    /\ unread' = [unread EXCEPT ![c] = 0]
    /\ UNCHANGED <<busVars, pubVars, on, stage, subs, got, due>>

\* The connection ends: _handle_connection unsubscribes it.  A subscription
\* that is handled later finds nobody to remove it: the next push does.
Disconnect(c) ==
    /\ c \in on
    /\ on' = on \ {c}
    /\ subs' = Kept(subs, Clients \ {c})
    /\ UNCHANGED <<busVars, pubVars, stage, got, unread, due>>

Next ==
    \/ \E p \in Tasks : Publish(p) \/ Resume(p) \/ Cut(p)
    \/ \E r \in Runs : StartRun(r) \/ EndRun(r)
    \/ \E c \in Clients : Subscribe(c) \/ ReplayEnds(c) \/ Read(c) \/ Disconnect(c)

Spec == Init /\ [][Next]_vars

\* The event loop resumes what is ready.
FairSpec ==
    /\ Spec
    /\ \A p \in Tasks : WF_vars(Resume(p))
    /\ \A c \in Clients : WF_vars(Subscribe(c)) /\ WF_vars(ReplayEnds(c))

-----------------------------------------------------------------------------
(* Properties                                                               *)

\* Types.
TypeOK ==
    /\ opened \subseteq Runs
    /\ closed \subseteq opened
    /\ file \in [Runs -> Seq(Event)]
    /\ begun \in [Tasks -> 0..MaxEvents]
    /\ busy \subseteq Tasks
    /\ todo \in [Tasks -> Seq(Clients)]
    /\ dead \in [Tasks -> SUBSET Clients]
    /\ \A p \in Tasks : p \in busy <=> todo[p] # <<>>
    /\ on \subseteq Clients
    /\ stage \in [Clients -> {"asked", "replaying", "live", "failed"}]
    /\ subs \in Seq(Clients)
    /\ got \in [Clients -> Seq(Event)]
    /\ unread \in [Clients -> Nat]
    /\ void \cup failed \cup tardy \subseteq Event
    /\ due \in [Clients -> [Tasks -> 0..MaxEvents + 1]]

\* Every event that was published whole is in the file of its run, once and after
\* the earlier ones of its task, unless the writing itself failed, or the event is
\* one of a background task whose run was over: a slow client delays the file, and
\* neither it nor the end of the run keeps any other event from it.
FileWhole ==
    \A p \in Tasks :
        LET rows == file[RunOf[p]]
        IN  /\ \A n \in 1..MaxEvents :
                  /\ <<p, n>> \in ToSet(rows) <=>
                         /\ n <= begun[p]
                         /\ n = begun[p] => p \notin busy
                         /\ <<p, n>> \notin void \cup failed \cup tardy
                  /\ <<p, n>> \in tardy => p \in Lasting /\ RunOf[p] \in closed
            /\ \A i, j \in DOMAIN rows :
                  i < j /\ rows[i][1] = p /\ rows[j][1] = p => rows[i][2] < rows[j][2]

\* The feed of client c, as EventFeed sees it.
Feed(c) == INSTANCE EventFeed WITH
    Wanted <- {p \in Tasks : Wants(c, p)},
    stage <- stage[c],
    due <- due[c],
    feed <- got[c]

\* Each client gets what EventFeed promises, whatever the other clients and the
\* other publications do: no event is skipped, repeated or overtaken by a later
\* one of its task, through slow clients, disconnections and cancelled
\* publications (EventBus.publish, IpcEventBroadcaster.handle).  It says
\* Feed(c)!Spec of every client, written with the quantifiers inside.
FeedKept ==
    /\ \A c \in Clients : Feed(c)!Init
    /\ [][\A c \in Clients : [Feed(c)!Next]_(Feed(c)!vars)]_vars

\* One client that does not read holds up every publication.  If every
\* client reads again and again or leaves, each publication ends.
PublishEnds ==
    (\A c \in Clients : []<>(c \notin on \/ unread[c] = 0)) =>
        \A p \in Tasks : (p \in busy) ~> (p \notin busy)

\* "If set, first replay the history from events.jsonl, then attach to the live
\* stream" (EventSubscribeCommand.replay_from_run): a client that is attached
\* has all the events of its run that were published.
NoGap ==
    \A c \in Clients : \A p \in Tasks :
        /\ c \in on
        /\ stage[c] = "live"
        /\ RunOf[p] = Replay[c]
        /\ Wants(c, p)
        /\ p \notin busy
        => \A n \in 1..begun[p] : <<p, n>> \in ToSet(got[c]) \cup void
=============================================================================
