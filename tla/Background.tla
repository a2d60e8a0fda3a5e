----------------------------- MODULE Background -----------------------------
(***************************************************************************)
(* BackgroundJobRegistry with the shell commands it runs (BashTool,        *)
(* terminate_process_tree on POSIX) and the background_* tools by which    *)
(* runs use it.                                                            *)
(*                                                                         *)
(* Each job is an asyncio task; pc names the await it stands in.  A        *)
(* Task.cancel only marks the task ("hit"): the CancelledError is raised   *)
(* in that await, when the task is resumed.  A command is a shell and,     *)
(* perhaps, a child; each may ignore SIGTERM.  The child may hold the      *)
(* output pipe or not (cmd >log 2>&1 &), and may have left the process     *)
(* group.  Commands and daemon are only joined by signals and the pipe:    *)
(* what a shell or a child does on its own may happen any time.            *)
(***************************************************************************)
EXTENDS Naturals, Sequences, FiniteSets

CONSTANTS
    Jobs,      \* the jobs that can be started
    Runs,      \* runs whose model calls the background tools
    Commands   \* the commands they can start

CommandType ==
    [shell : {"obeys", "traps"},          \* what the shell does on SIGTERM
     child : {"none", "obeys", "traps",   \* the same for a child it leaves;
              "leaves"},                  \* "leaves": in a session of its own
     pipe : BOOLEAN,                      \* the child holds the output pipe
     limit : {"short", "long"}]           \* "long": timeout above 120 s, which
                                          \* BashParams refuses

ASSUME CommandsAssumption == Commands \subseteq CommandType

Positions == {"none", "new", "announce", "spawn", "run", "term", "kill",
              "eof", "reap", "reapeof", "report", "done"}
Statuses == {"running", "completed", "failed", "cancelled"}

\* A value for the command of a job that was never started.
NoCommand == [shell |-> "obeys", child |-> "none", pipe |-> FALSE, limit |-> "short"]

VARIABLES
    pc,        \* where the task of each job stands
    hit,       \* jobs with a CancelledError to be raised
    cmd,       \* the command of each job
    shells,    \* jobs whose shell is alive
    children,  \* jobs whose shell left a child that is alive
    alone,     \* history: jobs whose shell ended by itself and left the child
    reaper,    \* the shielded terminate_process_tree of a cancelled job
    status,    \* BackgroundJob.status
    told,      \* background.finished events, by status; finished_at is set
               \* together with the first
    call,      \* the background_cancel call of each run
    daemon,    \* "up", "closing" (runs are cancelled), "draining" (cancel_all)
               \* or "off"
    cut,       \* history: jobs interrupted while they cleaned up
    dropped    \* history: jobs whose background_cancel was itself interrupted

vars == <<pc, hit, cmd, shells, children, alone, reaper, status, told, call, daemon,
          cut, dropped>>
tree == <<shells, children, alone>>

NoCall == [phase |-> "idle", job |-> "none", stop |-> FALSE]

Over(j) == pc[j] \in {"none", "done"}

\* Somebody holds the output pipe, or the shell has no exit code yet.
Piped(j) == j \in shells \/ (j \in children /\ cmd[j].pipe)

\* The shell is gone and a child it left still holds the pipe.
Orphaned(j) == j \notin shells /\ Piped(j)

Init ==
    /\ pc = [j \in Jobs |-> "none"]
    /\ hit = {}
    /\ cmd = [j \in Jobs |-> NoCommand]
    /\ shells = {}
    /\ children = {}
    /\ alone = {}
    /\ reaper = [j \in Jobs |-> "none"]
    /\ status = [j \in Jobs |-> "running"]
    /\ told = [j \in Jobs |-> <<>>]
    /\ call = [r \in Runs |-> NoCall]
    /\ daemon = "up"
    /\ cut = {}
    /\ dropped = {}

-----------------------------------------------------------------------------
(* Signals to the process group                                             *)

\* SIGTERM to the group: returncode is set once the shell is dead, and then
\* nothing is sent.
Terminate(j) ==
    /\ shells' = IF cmd[j].shell = "obeys" THEN shells \ {j} ELSE shells
    /\ children' = IF j \in shells /\ cmd[j].child = "obeys"
                   THEN children \ {j} ELSE children

\* Variant for mutation: the grace period ends without SIGKILL.
KillOnceMore(j) ==
    /\ shells' = IF cmd[j].shell = "obeys" THEN shells \ {j} ELSE shells
    /\ children' = IF cmd[j].child = "obeys" THEN children \ {j} ELSE children

Kill(j) ==
    /\ shells' = shells \ {j}
    /\ children' = IF cmd[j].child = "leaves" THEN children ELSE children \ {j}

-----------------------------------------------------------------------------
(* _execute and BashTool.invoke: the steps of a job's task                  *)

At(j, position) == pc[j] = position /\ j \notin hit

Go(j, position) == pc' = [pc EXCEPT ![j] = position]

\* The finally block: set finished_at and publish the finished event.
Report(j, s) ==
    /\ Go(j, "report")
    /\ status' = [status EXCEPT ![j] = s]
    /\ told' = [told EXCEPT ![j] = Append(@, s)]

Begin(j) ==
    /\ At(j, "new")
    /\ Go(j, "announce")
    /\ UNCHANGED <<hit, cmd, tree, reaper, status, told, call, daemon, cut, dropped>>

Announced(j) ==
    /\ At(j, "announce")
    /\ cmd[j].limit = "short"
    /\ Go(j, "spawn")
    /\ UNCHANGED <<hit, cmd, tree, reaper, status, told, call, daemon, cut, dropped>>

\* BashParams raises: no except clause takes a ValidationError, the finally
\* block reports the status as it is.
Refused(j) ==
    /\ At(j, "announce")
    /\ cmd[j].limit = "long"
    /\ Report(j, status[j])
    /\ UNCHANGED <<hit, cmd, tree, reaper, call, daemon, cut, dropped>>

Spawned(j) ==
    /\ At(j, "spawn")
    /\ Go(j, "run")
    /\ shells' = shells \cup {j}
    /\ children' = IF cmd[j].child = "none" THEN children ELSE children \cup {j}
    /\ UNCHANGED <<hit, cmd, alone, reaper, status, told, call, daemon, cut, dropped>>

SpawnFails(j) ==
    /\ At(j, "spawn")
    /\ Report(j, "failed")
    /\ UNCHANGED <<hit, cmd, tree, reaper, call, daemon, cut, dropped>>

\* communicate returns: the pipe is closed and the shell has an exit code.
Ended(j) ==
    /\ At(j, "run")
    /\ ~Piped(j)
    /\ \E s \in {"completed", "failed"} : Report(j, s)
    /\ UNCHANGED <<hit, cmd, tree, reaper, call, daemon, cut, dropped>>

TimedOut(j) ==
    /\ At(j, "run")
    /\ Go(j, IF j \in shells THEN "term" ELSE "eof")
    /\ Terminate(j)
    /\ UNCHANGED <<hit, cmd, alone, reaper, status, told, call, daemon, cut, dropped>>

\* Variant for mutation: a timed out job is over once its shell is.
DiedUnread(j) ==
    /\ At(j, "term") \/ At(j, "kill")
    /\ j \notin shells
    /\ Report(j, "failed")
    /\ UNCHANGED <<hit, cmd, tree, reaper, call, daemon, cut, dropped>>

Died(j) ==
    /\ At(j, "term") \/ At(j, "kill")
    /\ j \notin shells
    /\ Go(j, "eof")
    /\ UNCHANGED <<hit, cmd, tree, reaper, status, told, call, daemon, cut, dropped>>

GraceEnds(j) ==
    /\ At(j, "term")
    /\ Go(j, "kill")
    /\ Kill(j)
    /\ UNCHANGED <<hit, cmd, alone, reaper, status, told, call, daemon, cut, dropped>>

\* The second communicate: it waits for the end of the pipe.
Drained(j) ==
    /\ At(j, "eof")
    /\ ~Piped(j)
    /\ Report(j, "failed")
    /\ UNCHANGED <<hit, cmd, tree, reaper, call, daemon, cut, dropped>>

\* After a cancellation: the shielded termination, then the rest of the pipe.
Reaped(j) ==
    /\ At(j, "reap")
    /\ reaper[j] = "over"
    /\ Go(j, "reapeof")
    /\ UNCHANGED <<hit, cmd, tree, reaper, status, told, call, daemon, cut, dropped>>

ReapDrained(j) ==
    /\ At(j, "reapeof")
    /\ ~Piped(j)
    /\ Report(j, "cancelled")
    /\ UNCHANGED <<hit, cmd, tree, reaper, call, daemon, cut, dropped>>

Reported(j) ==
    /\ At(j, "report")
    /\ Go(j, "done")
    /\ UNCHANGED <<hit, cmd, tree, reaper, status, told, call, daemon, cut, dropped>>

-----------------------------------------------------------------------------
(* A CancelledError is raised in the await the task stands in               *)

Raised(j) == j \in hit /\ hit' = hit \ {j}

\* Before the try block: nothing is caught and nothing is reported.
InterruptEarly(j) ==
    /\ Raised(j)
    /\ pc[j] \in {"new", "announce"}
    /\ Go(j, "done")
    /\ UNCHANGED <<cmd, tree, reaper, status, told, call, daemon, cut, dropped>>

\* asyncio kills a process that is being created.
InterruptSpawn(j) ==
    /\ Raised(j)
    /\ pc[j] = "spawn"
    /\ Report(j, "cancelled")
    /\ UNCHANGED <<cmd, tree, reaper, call, daemon, cut, dropped>>

InterruptRun(j) ==
    /\ Raised(j)
    /\ pc[j] = "run"
    /\ Go(j, "reap")
    /\ reaper' = [reaper EXCEPT ![j] = IF j \in shells THEN "term" ELSE "over"]
    /\ Terminate(j)
    /\ UNCHANGED <<cmd, alone, status, told, call, daemon, cut, dropped>>

\* The termination of a timed out command is not shielded and ends here; that
\* of a cancelled one goes on by itself.  Nobody reads the pipe to its end.
InterruptCleanup(j) ==
    /\ Raised(j)
    /\ pc[j] \in {"term", "kill", "eof", "reap", "reapeof"}
    /\ Report(j, "cancelled")
    /\ cut' = cut \cup {j}
    /\ UNCHANGED <<cmd, tree, reaper, call, daemon, dropped>>

\* The finished event has reached some subscribers only.
InterruptReport(j) ==
    /\ Raised(j)
    /\ pc[j] = "report"
    /\ Go(j, "done")
    /\ UNCHANGED <<cmd, tree, reaper, status, told, call, daemon, cut, dropped>>

JobStep(j) ==
    \/ Begin(j) \/ Announced(j) \/ Refused(j) \/ Spawned(j) \/ SpawnFails(j)
    \/ Ended(j) \/ TimedOut(j) \/ Died(j) \/ GraceEnds(j) \/ Drained(j)
    \/ Reaped(j) \/ ReapDrained(j) \/ Reported(j)
    \/ InterruptEarly(j) \/ InterruptSpawn(j) \/ InterruptRun(j)
    \/ InterruptCleanup(j) \/ InterruptReport(j)

-----------------------------------------------------------------------------
(* The shielded termination, and what the processes do by themselves        *)

ReaperGraceEnds(j) ==
    /\ daemon # "off"
    /\ reaper[j] = "term"
    /\ reaper' = [reaper EXCEPT ![j] = "kill"]
    /\ Kill(j)
    /\ UNCHANGED <<pc, hit, cmd, alone, status, told, call, daemon, cut, dropped>>

ReaperEnds(j) ==
    /\ daemon # "off"
    /\ reaper[j] \in {"term", "kill"}
    /\ j \notin shells
    /\ reaper' = [reaper EXCEPT ![j] = "over"]
    /\ UNCHANGED <<pc, hit, cmd, tree, status, told, call, daemon, cut, dropped>>

ReaperStep(j) == ReaperGraceEnds(j) \/ ReaperEnds(j)

ShellExits(j) ==
    /\ j \in shells
    /\ shells' = shells \ {j}
    /\ alone' = alone \cup ({j} \cap children)
    /\ UNCHANGED <<pc, hit, cmd, children, reaper, status, told, call, daemon, cut, dropped>>

ChildExits(j) ==
    /\ j \in children
    /\ children' = children \ {j}
    /\ UNCHANGED <<pc, hit, cmd, shells, alone, reaper, status, told, call, daemon, cut, dropped>>

-----------------------------------------------------------------------------
(* The tools of a run                                                       *)

\* background_start: the task is created, it has not begun.
Start(r, j, c) ==
    /\ daemon = "up"
    /\ call[r].phase = "idle"
    /\ pc[j] = "none"
    /\ Go(j, "new")
    /\ cmd' = [cmd EXCEPT ![j] = c]
    /\ UNCHANGED <<hit, tree, reaper, status, told, call, daemon, cut, dropped>>

\* Variant for mutation: the status is left to the task.
CancelOnlyTask(r, j) ==
    /\ daemon = "up"
    /\ call[r].phase = "idle"
    /\ ~Over(j)
    /\ hit' = hit \cup {j}
    /\ call' = [call EXCEPT ![r] = [phase |-> "waiting", job |-> j, stop |-> FALSE]]
    /\ UNCHANGED <<pc, cmd, tree, reaper, status, told, daemon, cut, dropped>>

\* background_cancel of a job whose task is not done, of any session; otherwise
\* it returns False and changes nothing.
Cancel(r, j) ==
    /\ daemon = "up"
    /\ call[r].phase = "idle"
    /\ ~Over(j)
    /\ status' = [status EXCEPT ![j] = "cancelled"]
    /\ hit' = hit \cup {j}
    /\ call' = [call EXCEPT ![r] = [phase |-> "waiting", job |-> j, stop |-> FALSE]]
    /\ UNCHANGED <<pc, cmd, tree, reaper, told, daemon, cut, dropped>>

\* Variant for mutation: without the test of finished_at.
CancelReturnsAlwaysTells(r) ==
    /\ call[r].phase = "waiting"
    /\ ~call[r].stop
    /\ pc[call[r].job] = "done"
    /\ told' = [told EXCEPT ![call[r].job] = Append(@, status[call[r].job])]
    /\ call' = [call EXCEPT ![r].phase = "telling"]
    /\ UNCHANGED <<pc, hit, cmd, tree, reaper, status, daemon, cut, dropped>>

\* gather returns.  A job without finished_at never came to its try block: the
\* caller reports it.
CancelReturns(r) ==
    LET j == call[r].job
        unreported == told[j] = <<>>
    IN  /\ call[r].phase = "waiting"
        /\ ~call[r].stop
        /\ pc[j] = "done"
        /\ told' = IF unreported
                   THEN [told EXCEPT ![j] = Append(@, status[j])] ELSE told
        /\ call' = [call EXCEPT ![r] = IF unreported
                                       THEN [@ EXCEPT !.phase = "telling"] ELSE NoCall]
        /\ UNCHANGED <<pc, hit, cmd, tree, reaper, status, daemon, cut, dropped>>

CancelTold(r) ==
    /\ call[r].phase = "telling"
    /\ ~call[r].stop
    /\ call' = [call EXCEPT ![r] = NoCall]
    /\ UNCHANGED <<pc, hit, cmd, tree, reaper, status, told, daemon, cut, dropped>>

\* The runs in rs are cancelled, or their tool calls time out.  gather passes
\* the cancellation on to the job, and the call goes on waiting for its end.
Stopping(rs) ==
    LET busy == {r \in rs : call[r].phase # "idle" /\ ~call[r].stop}
    IN  /\ call' = [r \in Runs |-> IF r \in busy
                                   THEN [call[r] EXCEPT !.stop = TRUE] ELSE call[r]]
        /\ hit' = hit \cup {call[r].job : r \in {q \in busy :
                                /\ call[q].phase = "waiting"
                                /\ pc[call[q].job] # "done"}}

StopRun(r) ==
    /\ call[r].phase # "idle"
    /\ ~call[r].stop
    /\ Stopping({r})
    /\ UNCHANGED <<pc, cmd, tree, reaper, status, told, daemon, cut, dropped>>

\* The call ends with the cancellation: it reports nothing.
Stopped(r) ==
    /\ call[r].phase # "idle"
    /\ call[r].stop
    /\ pc[call[r].job] = "done"
    /\ call' = [call EXCEPT ![r] = NoCall]
    /\ dropped' = dropped \cup {call[r].job}
    /\ UNCHANGED <<pc, hit, cmd, tree, reaper, status, told, daemon, cut>>

CallStep(r) == CancelReturns(r) \/ CancelTold(r) \/ Stopped(r)

-----------------------------------------------------------------------------
(* The end of the daemon: app.run after shutdown.wait                       *)

\* SessionManager.cancel_all, then the runs of agent.run.
Shutdown ==
    /\ daemon = "up"
    /\ daemon' = "closing"
    /\ Stopping(Runs)
    /\ UNCHANGED <<pc, cmd, tree, reaper, status, told, cut, dropped>>

\* BackgroundJobRegistry.cancel_all, once the runs have ended.
CancelAll ==
    /\ daemon = "closing"
    /\ \A r \in Runs : call[r].phase = "idle"
    /\ daemon' = "draining"
    /\ hit' = hit \cup {j \in Jobs : ~Over(j)}
    /\ UNCHANGED <<pc, cmd, tree, reaper, status, told, call, cut, dropped>>

\* asyncio.run cancels what is left of the terminations; a shell whose transport
\* is finalized is killed, its children are not.
Exit ==
    /\ daemon = "draining"
    /\ \A j \in Jobs : Over(j)
    /\ daemon' = "off"
    /\ \E left \in SUBSET shells : shells' = left
    /\ UNCHANGED <<pc, hit, cmd, children, alone, reaper, status, told, call, cut, dropped>>

Next ==
    \/ \E j \in Jobs : \/ JobStep(j) \/ ReaperStep(j)
                       \/ ShellExits(j) \/ ChildExits(j)
    \/ \E r \in Runs : \/ CallStep(r) \/ StopRun(r)
                       \/ \E j \in Jobs : \/ Cancel(r, j)
                                          \/ \E c \in Commands : Start(r, j, c)
    \/ Shutdown \/ CancelAll \/ Exit

Spec == Init /\ [][Next]_vars

\* The event loop runs each ready task and fires each timer.
Fairness ==
    /\ \A j \in Jobs : WF_vars(JobStep(j)) /\ WF_vars(ReaperStep(j))
    /\ \A r \in Runs : WF_vars(CallStep(r))

FairSpec == Spec /\ Fairness

-----------------------------------------------------------------------------
(* Properties                                                               *)

\* The values each variable ranges over.
TypeOK ==
    /\ pc \in [Jobs -> Positions]
    /\ cmd \in [Jobs -> CommandType]
    /\ hit \subseteq {j \in Jobs : ~Over(j)}
    /\ shells \subseteq Jobs
    /\ children \subseteq {j \in Jobs : cmd[j].child # "none"}
    /\ alone \subseteq Jobs
    /\ reaper \in [Jobs -> {"none", "term", "kill", "over"}]
    /\ status \in [Jobs -> Statuses]
    /\ told \in [Jobs -> Seq(Statuses)]
    /\ call \in [Runs -> [phase : {"idle", "waiting", "telling"},
                          job : Jobs \cup {"none"}, stop : BOOLEAN]]
    /\ daemon \in {"up", "closing", "draining", "off"}
    /\ cut \subseteq Jobs
    /\ dropped \subseteq Jobs

\* What escapes the signals that BashTool.invoke sends to the process group: a
\* child that left the group, one whose shell had ended by itself, and one that
\* ignores the SIGTERM of which its shell died, for nothing is sent after that.
Escapes(j) ==
    \/ cmd[j].child = "leaves"
    \/ j \in alone
    \/ cmd[j].child = "traps" /\ cmd[j].shell = "obeys"

\* A job that is over, however it ended, has no shell, and nobody holds its pipe;
\* a child that is left has escaped the signals.  Excepted is a job which a
\* cancellation reached while it was already cleaning up (BashTool.invoke,
\* terminate_process_tree).
TreeGone ==
    \A j \in Jobs : Over(j) /\ j \notin cut =>
        /\ ~Piped(j)
        /\ j \in children => Escapes(j)

\* A job has at most one background.finished event, and has one when it is
\* over, unless its canceller was cancelled or the daemon is leaving; until
\* then the call that will report it is there.
ToldOnce ==
    \A j \in Jobs :
        /\ Len(told[j]) <= 1
        /\ pc[j] = "done" /\ told[j] = <<>> =>
              \/ \E r \in Runs : call[r].phase = "waiting" /\ call[r].job = j
              \/ j \in dropped
              \/ daemon \in {"draining", "off"}

\* When background_cancel answers "cancelled background job", the job's status
\* says so, whatever its command was doing.
CancelConfirmed ==
    [][\A r \in Runs :
          /\ call[r].phase # "idle"
          /\ call'[r].phase = "idle"
          /\ ~call[r].stop
          => status'[call[r].job] = "cancelled"]_vars

\* Every job that is started comes to its end, by its command, its timeout or a
\* cancellation, unless the shell dies and leaves a child that holds the pipe.
JobEnds == \A j \in Jobs : pc[j] = "new" ~> Over(j) \/ Orphaned(j)

\* README.md:199: when the daemon exits, the process trees of its background
\* commands are cleaned up.
ExitCleansUp == daemon = "off" => shells \cup children = {}
=============================================================================
