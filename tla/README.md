# KyleClaude: a TLA+ verification project

KyleClaude (`src/src/kyle_claude`) is a coding agent. A daemon owns sessions, runs
and tools; clients (CLI, TUI) talk to it over a local socket. The code is Python on
one asyncio event loop: everything between two `await`s is atomic for the other
tasks of the daemon, but not for other processes, for the disk, or for a kill.
Paths below are relative to `src/src/kyle_claude/core/` unless they start with `src/`.

## 1. The system

### Components

| Component (source) | State it keeps | Operations | Hard behaviour | What makes it correct |
|---|---|---|---|---|
| Agent loop and runner (`loop.py`, `runner.py`, `context.py`) | context (messages, status, reason, step), deferral counter, todo snapshot | `run_and_capture`, `run`, `_run_act_phase`, `cancel` | cancellation in any await, batches of parallel tools, refusals in mid-batch, compaction in mid-run | tool protocol always valid for the provider, transcript mirrors the context, runs end, verdicts are final |
| Permission manager (`permissions/`) | pending futures, rules per session, persistent rules, `policy.toml` | `check_and_wait`, `respond`, `cancel_session`, save/load | answer against timer, second answers, client gone, restart, kill inside the save | every grant has a basis, no rule from a refused call, headless runs do not wait while they run |
| Session manager (`session/manager.py`, `model.py`) | session table, one lock per session, `meta.json` | create, send_message, compact, fork, close, resume, delete, cancel_run, `_rehydrate` | operations against a running message, kill at any write, two cancellations | prompts survive and reach the model, the lock is always given back |
| Session store (`session/store.py`) | `thread.jsonl`, notes, archives | append, read, recover_incomplete_tail, write_compacted, fork | torn lines, half messages, open tool calls | recovery loses only the unfinished step and is idempotent |
| Compaction (`compact/`) | none of its own | compact, compact_messages, distill, token budget | replaces history while the run uses it | never splits a tool exchange |
| Editing (`editing/`, `patching/`, file tools) | temporary and backup files | edit_file, write_file, apply_patch, `apply_file_transaction` | other processes write, each file-system call may fail, kill between files | all files change or none; nothing is lost |
| Checkpoints (`checkpoints/store.py`) | manifests and blobs of a run | create, discard, rewind, list | rewind after failed calls, after kills, after other edits | changes can be undone in order; foreign changes are not overwritten |
| Tool invocation (`tools/invocation.py`, `hooks/`) | none | schema check, hooks, permission, attempts, timeout | retry of a call that had its effect, timeout, exceptions of hooks | one result per call, which its events tell; what may have had an effect is repeated only if that is harmless |
| Task board (`task/`) | one JSON file per task | create, claim, update, summary | rewrites of other tasks' files, cycles, subagents share it | tasks are claimed in the order of their dependencies, and something can always be claimed |
| Subagents (`subagent/`) | registry of background tasks | spawn_agent, agent_result, cancel_descendants | outlive their run, nested spawns, shared permission session | one truthful finished event, no foreground child outlives its call, all of them end |
| Background jobs (`background/`, `processes.py`) | job table, processes | start, poll, cancel, cancel_all | cancel against completion, process trees | one final status per job |
| Event bus, event files, broadcaster (`events/`, `transport/ipc_broadcaster.py`) | subscriber list, `events.jsonl` | publish, subscribe with replay | replay against live events, slow or dead clients | a subscriber sees every event after it joined once and in order; files are complete |
| IPC (`transport/`, `bus/`) | connections, pending requests | authenticate, dispatch, respond | disconnect in mid-request, shutdown | every request is answered or its connection closed |
| TUI and `kyle chat` (`tui/app.py`, `cli/commands/chat.py`) | busy and prompt flags, permission widgets, the run on display | connect again, submit, switch, cancel, decide | events, answers, cut futures and lost connections in any order | the user can go on, and can decide what is asked |
| Daemon (`app.py`) | wiring, running runs | handlers, start-up, shut-down | order of shut-down | no task outlives the stop |
| MCP servers (`mcp/`) | child processes, pending calls | start, call, restart | timeouts, late answers, dead servers | answers match their calls |
| Trace (`trace/`) | queue, drain task, `daemon.jsonl` and its backups | emit, drain, rotate, stop | kill inside a rotation or a write, a failing write | in order and without gaps; stop ends |
| Model providers (`llm/`) | none | chat, stream, tokens, retries | a stream that breaks after tokens were shown | the answer is one attempt's, whole |
| Memory (`memory/`) | JSON records and an index | save, recall, forget | none | |
| Worktrees, read-only tools, skills, configuration, the other CLI commands | none to check, or in git | | | see `PROJECT.json` |

### How they interact

A client's `session.send_message` takes the session's lock, appends the prompt to the thread, writes
the status and starts a run task. `AgentRunner.run_and_capture` reads the history, builds tools and
hooks, and drives `AgentLoop.run`: publish `step.started`, call the provider, append the answer to
the context **and** to the transcript sink, invoke the tools (which may wait in
`PermissionManager.check_and_wait` for a client), record the results, compact, publish
`step.finished`. The runner publishes `run.finished` and repairs the thread; the session manager
writes the settled status and gives the lock back. `EventBus.publish` awaits every subscriber in
turn, so each publish is an await in which a cancellation can arrive. Background subagents share the
run's permission session and task board. Background jobs outlive the run that started them and
belong to the daemon: any run can cancel them, and the shut-down does. File tools are synchronous:
they block the loop, and share the workspace with other processes only.

A tool call passes `invoke_tool`, which may call an MCP server over a connection that the calls
of all runs share. `spawn_agent` is such a call: the child's loop runs inside it, or as a task
that the daemon keeps. What is published goes to the broadcaster, which writes it to the
subscribed connections, to the writer of each run's `events.jsonl`, and to the trace. The
clients follow that stream: the TUI and `kyle chat` keep flags that answers and events set.

## 2. The modules

| Module | Models | Grain |
|---|---|---|
| `AgentLoop` | one run: `run_and_capture` and `AgentLoop.run` | a step is the code between two awaits of the run task; `pc` names the await |
| `Permission` | `check_and_wait`, `respond`, policy, rules and `policy.toml` for any number of calls, sessions and clients | a step is the code between two awaits of one call |
| `Transcript` | rows of `thread.jsonl`: append, torn write, read, recover, compact | operators only |
| `Session` | `SessionManager` over `Transcript`: all operations, the runs at the grain of their rows, kills, cold starts | a step is the code between two awaits, or between two writes to disk |
| `Editing` | the file tools, `apply_file_transaction`, `CheckpointStore` | a step is the code between two points where another process, a failing call or a kill matters |
| `Background` | `BackgroundJobRegistry`, the `background_*` tools, `BashTool` and `terminate_process_tree` with the processes of each command | a step is the code between two awaits of a job's task; signals and exits of processes are steps of their own |
| `EventFeed` | what one subscriber of the events is promised (abstract specification) | an event or a subscription |
| `EventStream` | `EventBus`, `EventWriter`, `IpcEventBroadcaster` and `event.subscribe` | a step is the code between two waits: a drain waits only for a client that does not read |
| `Subagents` | `SpawnAgentTool`, `AgentResultTool`, `BackgroundTaskRegistry` and the tree of agents | a step is the code between two awaits of an agent's task |
| `ToolCall` | `invoke_tool` with hooks, attempts and limit, over `McpServerManager` and `McpClient` | the same, plus one step per line from a server |
| `TaskBoard` | `TaskManager` and the task tools | a step is a call: the methods are synchronous; a failing write ends it in the middle |
| `Tui` | `SocketClient`, the daemon's side of a connection, `KyleTuiApp` | a step is the code between two awaits, or one line of the stream |
| `Chat` | `kyle chat` | the same |
| `Trace` | `TraceWriter` | one record; the calls of a rotation where a kill or an error comes between them |
| `ModelCall` | `AgentLoop`'s retries, `TracingProvider`, the two providers and the stream block of the TUI, composed with `Trace` | a token, a break of the stream, a record |
| `PermissionProofs`, `BackgroundProofs`, `ToolCallProofs`, `EditingProofs`, `SessionProofs` | theorems about one module each | |
| `AgentLoopProofs`, `SubagentsProofs`, `EventStreamProofs` | theorems about `AgentLoop` and `Tui`; `Subagents` and `TaskBoard`; `EventStream`, `ModelCall` and `Trace` | |
| `MC*` | constants of the model checker | |

**AgentLoop.** `ctx` is `context.messages`, `thread` the transcript sink's rows. A message is
its kind, the ids of its tool calls or results and its step: that is all that the provider's
protocol, `validate_tool_protocol` and the recovery look at. `Histories` is what `read_messages`
may hand to the run, with the new prompt at its end: messages of step 0 that can be replayed,
whole tool exchanges and the `tool_result` a deferred run stored for its reminder among them.
`ToolCalls` lists the shapes a response can have (`"par"` for a tool with `can_parallel`, `"ser"`
otherwise); each stop reason may carry calls, and only `tool_use` and `max_tokens` answer them.
`stray` is a history variable: the steps whose calls nobody answers. `Recovered` is
`recover_incomplete_tail` over `_scan_recovery_state`: `StillOpen` are the messages with an open
call, `CutMarks` the last point without one (`last_balanced`) and the starts of those messages
(`pending_starts`), and the rows are cut at the least of them; damaged lines and half messages
belong to `Transcript`, since here a message is appended whole. `Cancel` and
`RunRaises` are enabled in every await inside the runner's `try`, `CancelOutside` in the three
awaits outside it. A compaction is any cut `Compactions` allows, or none: the model, the
quality gate and the token estimate decide, and they are not modelled.

**Permission.** `pc[c]` follows call `c`; `fut[c]` is its future, `pending` the keys of
`_pending`, `always` and `persistent` the two rule caches, `file` the policy file. The
regular expressions of the policy are a classification `ClassOf` of commands (denied,
outside the working directory, plain). `Respond` is the IPC handler, `TimeOut` the timer of
`wait_for`, which may fire although the future has its answer. `sent` is a history variable:
the first answer sent while the call was open.

**Transcript and Session.** A row stands for a line: `whole` if it parses, `eol` if it ends
with a line break, and `Write` glues a row to a line that was left open. `Recovered` follows
`_scan_recovery_state` (last balanced line, start of the oldest open or half message).
`Session` has the lock as "phase is idle and no compaction", `mem`/`meta` as the status in
memory and on disk, and one action per operation. `Crash` may cut the write in progress short
at any block, in mid-line. `sound` records the prompts that were appended to a clean thread. One
session is created and the others are its forks; the fork comes while few runs and kills have
been used (`MaxShared`), which keeps the two together small. A row is appended as one line and
read as one: see section 5 for the prompts of which that is not true.

**Editing.** `disk` is what paths hold, `backup` the `.bak` files of the transaction; `call`
is the tool call with its mutations in order. `Mishap` is one budget for everything that can
go wrong: another process writes, a file-system call fails, the daemon is killed. `prior`,
`late` and `clean` are history variables: what a path would hold without the call, the paths
changed by others after the last check, and whether the chain of undos is unbroken.

**Background.** `pc[j]` names the await in which the task of job `j` stands, from `_execute`
down to `terminate_process_tree`. `Task.cancel` only puts `j` into `hit`; the `Interrupt*`
actions are what the `CancelledError` does in each await. A command is a shell and perhaps one
child, which holds the output pipe or not (`pipe`: `cmd >log 2>&1 &`, a closed pipe) and stays in
the process group or not (`"leaves"`); each obeys SIGTERM or ignores it, and may end by itself
at any time (`ShellExits`, `ChildExits`). `communicate` waits for the end of the pipe and for the
shell, and for nobody else (`Piped`). `alone` is a history variable: jobs whose shell ended by
itself and left the child. `Terminate` and `Kill` are the two signals to the
process group; as in the code nothing is sent once the shell has an exit code. `reaper[j]` is
the `asyncio.shield`ed termination of a cancelled job: it goes on when the job itself is
interrupted again. The termination after a timeout has no shield: it is the `pc` values `term`,
`kill` and `eof`. `call` is the `background_cancel` of each run, which waits in `gather` and, if
the run is cancelled, passes the cancellation on to the job. `cut` and `dropped` are history
variables: jobs interrupted while cleaning up, jobs whose canceller was interrupted. The model
is the POSIX branch; a foreground `bash` call takes the same path in `BashTool` but its caller is
the run, so it is part of `AgentLoop` (one step, `ToolReturns`) and not of this module.

**EventStream and EventFeed.** `subs` is the broadcaster's list in its order, `todo[p]` what is left
of the copy that a publication of task `p` serves, with the client in whose `drain` it waits at its
head. The broadcaster is subscribed first, the writers when their runs start, and no writer ever
unsubscribes: each open file gets the events of all runs. `Serve` is therefore one step up to the
next client that does not read, with the files written when nobody is left (`Store`): a closed
writer ignores the event, and a write that fails is logged and dropped. `Lasting` are the background
jobs and subagents, which go on publishing when their run is over (`Running`); `failed` and `tardy`
are history variables, the events whose row was dropped and those that found the file closed. `Cut`
is a cancellation in a drain: later subscribers and the files never get the event. `due[c][p]` is a
history variable for the mapping to `EventFeed`: the number of the next event of `p` that `c` has to
get.

**Subagents.** `pc` is where an agent stands, `TaskOf` in whose task it runs. A cancellation and
an expired limit both are a `CancelledError` in the innermost agent of a task (`Interrupt`);
`causes` tells whose they were, so that a tool call takes for its own time-out only what no other
asked for (`Caught`, `asyncio.wait_for` on Python 3.12). A run keeps the depth at two, as
`_build_child_registry` does.

**ToolCall.** `pc[c]` follows `invoke_tool`, `lock[s]` is the `asyncio.Lock` of a server's
connection with its waiters, `out[s]` the lines nobody has read. A call that is cancelled or
times out leaves its request with the server, whose answer the next call reads. Servers may
answer in any order, not at all, with errors, with notifications, or die.

**TaskBoard.** `file[t]` is what the JSON file holds, or that it is torn. `Update` first rewrites
the files that list a completed task and then its own copy, and fails at any of the writes.
`declared`, `reported` and `tangled` are history variables: the dependencies asked for, the
tasks reported completed, and whether a task was made to wait for itself or a younger one.

**Tui.** `down` is the stream to the client, answers and events in one; `call[c]` the future of a
request. Each end of the daemon may come with its last lines or as a reset. The daemon is reduced to
what the interface can tell of it: one session with its run, and of the other sessions their
requests for permission (`theirs`), which every subscriber is sent (`permission.*`, scope `global`),
and their ends. A request is decided by the user (`Decide`), by its timer, in the order the requests
were made (`AskTimesOut`), or by another client or the cancellation of its run, in any order
(`DecidedElsewhere`). `/new` and `/sessions` are workers (`Switch`), whose cut future vanishes; the
choice of the picker (`Pick`) and a decision are awaited in a handler of the message pump
(`PumpFree`), and there a cut future ends the interface (`HandlerCut`). The history variables name
what locks the user out in the code as it is: `rough` (the connection was reset, or lost in the
set-up, under a decision or under a pick), `dropped` (the daemon ended while the interface was
busy), `locked` (the last event of a session was `session.closed` of another) and `crossed` (another
client denied a request before an older one). A session that the user switches to is taken for the
same one, and of the runs of other sessions no `run.*` event is modelled.

**Chat.** `main` is what the loop of `_chat_async` waits for, `shown` the request its printer has
shown, `stage` how far the daemon is with the message.

**Trace and ModelCall.** A record is its number. `Rotated` is a rotation of which only some
renames were made; `HalfWritten` what a kill or an error leaves. In `ModelCall` `text` is
`text_parts`, tokens are pairs of attempt and number, and `shown` is what the interface has got of
the call's tokens, as pairs of the loop's try and the number: it subscribes to `llm.token` and
`llm.usage` only, and between two tries nothing else is published, so that a second try goes on
where the first broke off. Which stream block a token goes to is not modelled: any other event, of
any run, ends the block, and the tokens of other runs go to the same one
(`src/src/kyle_claude/tui/app.py:1252-1261`).
Each publication and each record of a request or response is an `Emit`.

`PROJECT.json` maps each definition to the lines it translates.

## 3. What is checked

All bounds are constants of the modules; every run is exhaustive.

| Run | Bounds | Shows |
|---|---|---|
| `agent_loop` | 2 steps, 1 deferral, 2 attempts, two histories (a prompt; one behind a tool exchange and a stored reminder), two lists of calls (two parallel and a serial one, a serial and a parallel one), every stop reason; 513k states | `StepBound`: the two paths that never look at `max_steps` add at most the deferrals and one compaction; `SerialCallsOrdered`; `RunEnds`; `ContextReady`: whenever the model is called, each tool call is answered by the very next message, and there is no other result but the reminders of earlier runs, unless a stop reason without a branch left calls open; `ThreadMirrorsContext`: transcript and context tell the same, but for answers without blocks and the reminder of a deferral; `HandsOn`: what the repair leaves can be replayed by the next run; `RepairKeepsSteps`: the repair costs the unfinished step only |
| `permission` | 4 calls of a chat session and a headless allow-list run with a background subagent; 283k states | `GrantHasBasis`, `FirstAnswerCounts`, `RuleFollowsVerdict`, `AskedIsDecided` |
| `session` | 1 session, 3 runs of one tool step, 2 kills, torn lines; its fork while 2 runs and kills are used at most; 407k states | `SoundPromptKept`, `PromptReachesModel`, `RecoveryTidies`, `SessionFreed` |
| `editing` | 2 files (one absent at first), 2 contents, 3 calls, 2 mishaps; 7.7M states | `AllOrNothing`, `NothingLost` (at every moment of every call), `UndoChain`, `OverwritesOnlyRead` |
| `background` | 1 job, 2 runs, every command; 22k states | `ToldOnce`; `CancelConfirmed`: the answer "cancelled" agrees with the table; `TreeGone`: what may be left of the processes of a job that is over; `JobEnds` |
| `event_stream` | a run and a background job of it, 2 events each, of which one of either may not be written, a client of everything and one that replays the run's file and follows it, a drain that waits behind one unread event; 833k states | `FeedKept`: both clients see what `EventFeed` promises (the refinement); `PublishEnds`, if clients read again and again or leave; `FileWhole`: every event that was told is stored once and in order, unless its own write failed or it is one of a background task after the end of the run |
| `subagents` | a headless run, 2 subagents, nested or side by side; 35k states | `FinishedOnce`: one finished event each, and a verdict behind every "completed"; `ForegroundNested`; `AsksOnlyAsOrphan`: who of a headless run may still ask a user; `SubagentsEnd` |
| `tool_call` | 2 calls to one server and a retried call, 1 retry, 1 line of noise; 645k states | `AnswerMatches`: no call gets another's late answer or is done twice; `OutcomeTold`: the events tell the result; `CallEnds` by its limit, whatever the server does |
| `task_board` | 3 tasks, 2 agents (symmetric), 3 updates, 1 failing write; 498k states | `ClaimInOrder` |
| `tui` | 2 messages, 2 requests of any session, 1 end of the daemon, 1 end of another session, any 2 of these; 389k states | `ReadyForUser`: when all is quiet the user may type; `AskAnswerable`: each request that is shown and open has its select; `Reconnects` |
| `model_call` | 3 attempts of the loop, 3 of the provider, 2 tokens, both providers, 8 records into a trace with 2 backups, 1 kill or failing write; 987k states | `AnswerWhole`: an answer is one attempt's, complete; the interface gets the tries one after the other, of each a beginning without gap or repetition; `TraceInOrder`; `StopEnds` |
| `chat_permission` | 1 user, 2 requests, `timeout_s = 0` | `ShownCanBeAnswered` is violated (see below) |

The type invariants are not among the runs' properties: they are proved for every module with a
state but `Chat` (section 4), and each can be added to `INVARIANTS` of its configuration.

Why the bounds are enough. Two steps, one deferral and two attempts let each counter reach its limit
and each limit be met while the others are not, and a run take four steps; the lists of calls have a
serial call before and after parallel ones, and a batch of two. Of the histories the prompt alone
can be compacted: one with a stored reminder is not valid for `validate_tool_protocol`, and every
compaction declines. `MCAgentHistory.cfg` has three steps, short lists and a third history that ends
with a whole tool exchange: a compaction may then keep, and so write to `thread.jsonl`, an answer
without blocks that an earlier step left in the context. A reminder that is kept so needs a fourth
step: `MCAgentLoopHistory.cfg` has it, with serial calls and one attempt. Two sessions and two kinds
of run contain each pair of tiers of the permission check, and calls of one tool share its rule.
Three runs let a prompt be lost by the run after the one that damaged the thread; the second kill
falls into the recovery of the first. Two files are the least for a partial commit, three calls the
least for an undo after an undo or after a failed call, and two mishaps the least for a failing
roll-back or for a foreign write during a roll-back. Two runs are the least for two cancellations of
one job, one of them interrupted. Jobs share nothing but their cancellers; `MCBackgroundJobs.cfg`
has a second job, so that the shut-down meets one in its clean-up and another before its start. A
high-water mark of one lets a publication wait in the first, the last or in both drains; two events
of a task are the least for a repetition or an overtaking. `MCEventStreamRuns.cfg` has a second run
instead of the background job, whose events one of the clients does not want. Two subagents are as
deep as the code nests them. A call that times out, one that waits behind it and one that is retried
are the three roles of `ToolCall`. Three tasks are the least for a chain of dependencies whose
middle is reopened. A message that was answered and one that was not, and any two of the things that
can go wrong, let each flag of the interface be set by a wrong event; two requests are the least for
a denial out of turn. Three attempts let a stream break at its first, a middle and its last attempt;
two backups are the least for two renames, and eight records fill a file, rotate it twice and fill
it again.

`CHECK_DEADLOCK FALSE` stands where the system may really stop: all calls decided, all runs
used, no client request pending, no tool call left in the bound, the daemon off. `AgentLoop` is
checked for deadlock: the ended run stutters by `Done`.

### Fairness

* `AgentLoop`: weak fairness of `Progress`. A provider call has a client timeout, each tool call
  runs under `asyncio.wait_for`, and an approval has its timer (with `timeout_s = 0` it has none:
  see `MCPermissionOrphan.cfg`). Publishing ends while clients read or disconnect: a client that
  stays connected and never reads blocks `drain`, and with it every run; `PublishEnds` of
  `EventStream` states exactly that assumption. Cancellations, errors and todo updates have no
  fairness.
* `Permission`: weak fairness of publishing, of resuming a call whose future is done, and of
  the timer. Clients are never obliged to answer.
* `Session`: weak fairness of the steps of the message task and of a compaction's end, with
  the same reasons. Cancellations, kills and client requests have none.
* `Background`: weak fairness of each job's task, of each shielded termination and of each
  call: the event loop resumes every ready task and fires every timer (the timeout of the
  command, the grace period). Processes have no fairness: a shell or a child need never end by
  itself, and `JobEnds` must say what happens when it does not.
* `EventStream`: weak fairness of resuming a drain that may go on and of a subscription's
  steps. Clients have none: `PublishEnds` assumes of them what it says.
* `Subagents`: weak fairness of each agent's next step, of the registry's `cancel_all` and of the
  exit, and strong fairness of an agent's verdict: a loop takes a bounded number of steps
  (`StepBound`), so that it cannot return to its next step for ever.
* `ToolCall`: weak fairness of what the event loop does with a call, of its limit, and of a
  decision about its permission, which comes in a bounded time with the default configuration.
  Servers have none, nor has the 30 s timer of a line, which a notification puts off.
* `Tui`: weak fairness of both event loops, of a run's end and of the timers of its requests;
  strong fairness of the connection: the handshake has a time limit, which may be missed now
  and then but not for ever. Nothing is assumed of the user or of a new start of the daemon.
* `Chat`: the same, and a user who answers whenever he can.
* `ModelCall`: weak fairness of the drain task, and of the shut-down once `join` returns.

### The refinement

`EventFeed` is what a subscriber may rely on: after it has joined it gets every event that is begun,
each once, those of a task in their order, and only an event whose publication was cancelled is left
out. `EventStream` instantiates it for each client (`Feed(c)`) with the tasks in the client's scope
and its own part of the state; `FeedKept`, a property of the run, says that every behaviour of
`EventStream` is one of each of these (`Feed(c)!Spec` of every client, with the quantifiers moved
inside, since TLC does not take one around an action property). What `EventFeed` leaves open is what
the code does not keep: events that are under way while a client joins may be in neither the replay
nor the stream.

### Disagreements found

One run must be found violated by TLC. `chat_permission`: `kyle chat` takes the next line for the
decision on a request, as `chat.py:143` says, but reads that line only when the run is over, and the
run waits for the decision. With `timeout_s = 0` user, loop and run wait for one another for
ever; with the default of 60 s the request is denied before anything can be typed.

The following configurations belong to no run and are checked by hand
(`tlc -config MCx.cfg <module>`). `MCAgentHistory.cfg` and `MCAgentLoopHistory.cfg` (`MCAgentLoop`),
`MCBackgroundJobs.cfg` (`MCBackground`) and `MCEventStreamRuns.cfg` (`MCEventStream`) are other
bounds for properties of the runs, and hold. Each of the rest gives a counterexample to a property
that a comment or a document states:

* `MCAgentLoopReplay.cfg` (`MCAgentLoop`, `ThreadReplayable`): a deferred `end_turn` stores its
  reminder as a `tool_result` without `tool_use`, and later runs replay it.
* `MCPermissionOrphan.cfg` (`MCPermission`, `NoOrphanWait`): nothing calls `cancel_session` when a
  client disconnects.
* `MCSessionCancel.cfg` (`MCSession`, `CancelTidies`): a cancellation while `run.finished` is being
  published skips the repair.
* `MCSessionTorn.cfg` (`MCSession`, `ColdStartTidies`): a kill while the prompt is appended leaves a
  torn line that the cold start does not recover, because the status does not say `active` yet.
* `MCEditingBackup.cfg` (`MCEditing`, `BackupPreserved`): after a failed roll-back the `finally`
  block deletes the backup that the error message says is preserved.
* `MCBackgroundExit.cfg` (`MCBackground`, `ExitCleansUp`): the termination of a timed out command is
  not shielded; when the shut-down interrupts it before SIGKILL, a command that ignores SIGTERM
  outlives the daemon.
* `MCEventStreamGap.cfg` (`MCEventStream`, `NoGap`): events published while the replay of
  `event.subscribe` drains are in neither the replay nor the stream.
* `MCModelCallTwice.cfg` (`ModelCall`, `ShownOnce`): the provider publishes the tokens of its first
  attempt only, "to avoid TUI duplicates" (`llm/provider.py:105`), but each of the up to three calls
  of the loop (`loop.py:263-276`) has a first attempt. An "overloaded" or rate-limit error in the
  middle of a stream is a transient one (`loop.py:128-130`), and then the beginning of the answer
  stands on the screen twice, in one block.

Other things seen while modelling, which are steps of the models and have no run of their own:

* Agent loop: a final answer with unfinished todos is let through after the first reminder that
  changed nothing, not after `_MAX_TODO_DEFERS` of them (`ShouldDefer`). Tool calls under a stop
  reason other than `tool_use` and `max_tokens` get no results (`llm/provider.py:160`,
  `loop.py:322-324`, `stray`): the model is called with open calls, every later compaction
  declines, and the repair at the end cuts everything from that response on.
* Background jobs: a job with a timeout above 120 s is reported, and stays, `running`
  (`Refused`); a job whose shell has died and left a child that holds the pipe waits for that
  child without a limit, and so do its canceller and the shut-down (`Orphaned`, which `JobEnds`
  excludes: an unlimited read is not caught by it); processes outlive a job that is completed or
  cancelled, if they left its process group, were left by a shell that ended by itself without the
  pipe, or ignore the SIGTERM of which the shell died (`Escapes`, `tools/bash.py:74`,
  `processes.py:56`); a cancellation
  that arrives while the finished event is published changes the status the event has told.
* Events: the writer of each run stores the events of all runs and is never unsubscribed
  (`Serve`); a publication that is cancelled is lost for the later subscribers and the files
  (`Cut`); a write that fails is logged and its event dropped (`failed`; a row that a failed flush
  leaves in the buffer may still be written by a later one, here it counts as lost); what background
  jobs and subagents publish after the end of their run is in no file (`tardy`,
  `background/registry.py:57,77,112`, `events/writer.py:33-34`).
* Subagents: nothing calls `cancel_descendants`, so `run.cancel` leaves background subagents
  running; `agent_result` reports a failed subagent as it does a successful one
  (`AgentResult`); a background subagent that outlives an allow-list run asks interactively
  (`AsksOnlyAsOrphan`, and call `c3` of `MCPermission`).
* Tools: an MCP server that sends requests of its own may have one of them taken for an answer
  (`PeerAsks = TRUE` violates `AnswerMatches`); the process of a server that was skipped is
  forgotten (`Skip`); `RateLimitedError` is raised nowhere; no line limit bounds a server that
  keeps sending notifications, only the limit of the call does.
* Task board: reopening a completed task leaves its dependents claimable, since it was taken
  from their lists; a task that is set back to pending keeps its owner and can never be claimed;
  a failing write leaves a file that `list_all` skips; dependencies are cleared before the
  task's own file is written, so that a failed completion unblocks others; dependencies added by
  `update` are not checked at all, and cycles get a board stuck (`tangled`).
* TUI: the user is locked out if the daemon ends while a message is with it (nothing resets
  `_busy`), or if another client's one-shot session ends last (`session.closed` shuts the prompt
  of all); a connection cut during the set-up ends the socket worker, a reset ends the interface, and
  a graceful end while a handler awaits the daemon, for the pick of the session picker
  (`src/src/kyle_claude/tui/app.py:956-981`) or for a decision, ends the message pump
  (`HandlerCut`); a call issued after the event loop of the
  connection has ended is never resolved (`Issued`); the interface takes the run of any session
  for its own (`OnRunEvent`); `permission.denied` of any session removes the first select, whichever
  request it is of (`DropSelect`, `app.py:1187,1192,1509`), so that another client's denial out of
  turn takes the select of a request that is still open (`crossed`).
* Chat: a lost connection is taken for Ctrl+C, and the next message on it waits for ever
  (`Interrupted`, `Message`).
* Trace: records emitted after the drain task has died let `stop` wait for ever, and with it a
  daemon that was sent SIGTERM (`late`); the first record after a torn line cannot be read
  (`glued`); a failed model call leaves a request without a response (`Raised`).
* Model calls: a retry of the loop shows its tokens behind those of the try that broke off
  (`ShownOnce`, above); after a first attempt of the provider that broke off, the text of the second
  is never shown (`Token`).

What some properties leave out on purpose: `NeverStuck`, which is proved and checked by no run, a
board with a cycle (`tangled`), and it counts a pending task that kept its owner as workable;
`ClaimInOrder` takes a task for completed when it was reported so, although the update may have
failed later on (`reported`); `StopEnds` the records emitted after the drain task has died (`late`);
`FeedKept` the gap between replay and stream, which `EventFeed` leaves open; `NothingLost` the
deletion of the backup that an error message calls preserved (`MCEditingBackup.cfg`).

`editing` also draws the line of what holds: a kill between moving a file aside and
installing its new content leaves a file that is neither old nor new, which `rewind`
refuses (the old content is in a `.bak` file only); a failing `fsync` or a failing deletion
of a backup after a complete commit discards the checkpoint of a change that was made; a
checkpoint rewound out of turn breaks the chain of the others. `clean` excludes these three.

## 4. What is proved

TLAPS checks the proofs for every value of the constants that satisfies the assumptions the
modules name. They say what kind of thing a constant is (a number, a function from calls to
tools) and little else: a configuration has a `max_steps` of at least one; the ids of runs and
subagents differ (`NamesAssumption`), as do those of a call and of no call (`NothingAssumption`);
only built-in tools are `Repeatable` (`RepeatAssumption`); a workspace has finitely many files and an
absent file has no content (`DataAssumption`); the messages a user sends have names of their own
(`TuiAssumption`).

Each proof has the same shape: an inductive invariant `IInv` that holds initially (one lemma), is
kept by every step (one lemma per part or per action), and implies the property. TLC checked each
`IInv` on the instance of its run, or one like it, before it was proved.

* **AgentLoop** (`StepsBounded`, `RepairHandsOn`, `RepairLosesOneStep`, `ModelIsReady`,
  `TranscriptMirrors`, `SerialRunsAlone`, `VerdictIsFinal`). `StepBound` alone is not inductive:
  `StepBudget` relates the step counter to the deferrals and compactions used so far, at each `pc`.
  `DecidedIsOver` says that a decided run is on its way out, so that no action that takes a step is
  enabled; `VerdictFinal` follows from it. `RepairIsLast` says that nothing follows the repair and
  that what it left can be replayed. The message histories have the invariant `HistoryInv`. In an
  act phase (`Acting`) the last response and the results recorded so far stand at the end of the
  context, the ids of the results are those of the calls before `next`, and only calls of the
  current batch have returned: this gives `SerialCallsOrdered` at once, and `ContextReady` when the
  last batch is recorded. Between act phases every message is paired with its neighbour
  (`ReadyBetween`). A compaction keeps a suffix that begins where no call is open, and with paired
  messages that means not at a result (`SuffixReady`). `Left` says what a run leaves wherever it
  stops: paired messages, or a last response that is answered in part (`Halved`). From that the
  repair is argued by its marks: an open call is one of the last response or of a step in `stray`
  (`OpenIsLast`), the prefix before the least mark is closed and can be replayed (`KeptIsClosed`,
  `CutReplayable`), and it holds all that is older than the steps cut (`CutKeeps`). `Mirroring`
  compares the transcript and the context by the rank of each message among those that have blocks;
  the lemmas `MirrorsExtended`, `MirrorsWidened` and `MirrorsEmpty` say what a message, a result and
  an empty answer do to it. `Dated` (no message is of a later step) is why a reminder becomes a row
  of its own, and why it can be told from the user's text.
* **Permission** (`GrantsHaveBasis`, `FirstAnswerKept`, `HeadlessRunsNeverWait`,
  `RulesFollowVerdicts`). A grant may rest
  on a remembered rule, so each rule in memory or on disk must have a source
  (`RulesHaveSource`): an `always_allow` some user sent; that in turn needs what is known of a
  call while it is asking (`AskingHeld`) and before (`IdleUnasked`). `RuleStep` says what each
  step may do to a rule, which needs only the types.
* **Background** (`NoTreeLeft`, `FinishedOnce`, `AnswerIsTrue`). `TreeHeld` says that somebody holds
  the pipe only while the job's task stands in an await of `BashTool.invoke` (or was interrupted
  there), and `LeftEscapes` that a child without its shell has escaped the signals (`Childless`:
  before the command is spawned there is none), from which `TreeGone` follows; `HitHasSource`, that
  a job marked for cancellation has a canceller that waits for it, or the daemon is leaving: without
  it `InterruptEarly` would end a job that nobody reports; `ToldInFinally`, that nothing is told
  before the `finally` block and exactly one event in it, so that the test of `finished_at` in
  `cancel` finds the truth; `CallsStarted` and `CutStarted`, that calls and interruptions belong to
  jobs that exist. `CancelHolds` is what makes the answer to `background_cancel` true: a job whose
  status is `cancelled` is marked or on its way out, and stands at no await that could still end it
  otherwise; `CallsCancelled` says that a call which waits for a job's end has given it that status.
* **Tui** (`AskAnswerableHolds`, `ReadyForUserHolds`, in `AgentLoopProofs`). That a request on the
  screen has its select although a denial removes the first select, whichever it is of, rests on
  the order of things: requests are numbered as they are made, their selects stand in that order
  (`Numbered`), so do the requests and the denials on their way (`Coming`, `Going`), and a denial
  comes for the oldest request of any session that is open (`Standing`), unless another client
  denied one out of turn (`crossed`); until its denial has arrived a request keeps its select
  (`Decidable`). That the prompt opens again needs to
  know where the reason is by which it was shut: a message stands in one place at a time, the
  wire, the session or the stream back (`OneAnswer`), and only over the connection it was sent on
  (`Attached`, `Linkage`); as long as the interface is busy an error or the news of the session is
  still to come (`Resolvable`, with `Held` for the lock of the session); and a shut prompt has a
  request, a message, a command or a call of a handler (`Handled`) to blame (`ShutFor`).
* **Session** (`SoundPromptKeptHolds`, `PromptReachesModelHolds`, `RecoveryTidiesHolds`). Recovery
  cuts a thread at the first message it finds broken, so a prompt is kept because nothing before
  it can be cut: `Secured` says that up to it every line parses and every message and call is
  complete (`Settled`). A recovery, a compaction and a fork keep it, and so does a kill in the
  middle of a line, which can only damage what follows (`RowsOf`, for the rows on disk, for
  those a run works on and for those a compaction has read). `RecoveryTidies` needs the shape of
  what a run may leave: the blocks of a message, its call and its result follow each other
  (`Adjacent`), the rows tell how far their run is (`StepsOf`), and only the holder of the lock
  writes (`LockOf`). What a scan finds in a thread of any length is argued by its first or last
  row of a kind, a least element (`LeastOf`, from the well-foundedness of `<`), not by induction.
* **TaskBoard** (`ClaimsInOrder`, `BoardNeverStuck`, in `SubagentsProofs`). Completing a task
  rewrites the lists of others, so what was declared for a task is no longer in its file:
  `DeclaredKept` says that it is there or was reported completed, and `CompletedReported` that
  completed files were. That a board which is not tangled has something to work on is an argument
  about a least element: the oldest open task depends on older ones only, and those are completed,
  hence cleared.
* **Subagents** (`NestedInCalls`, `AsksAsOrphan`, `OneFinishedEvent`). `Forest` and `CurMatches` fix
  the shape of the tree: who has a parent was announced by it, and a caller stands in the call of
  one child of its own. `ForegroundNested` is part of the invariant; it is kept by an expired
  limit because a limit ends the innermost agent of a task first. `ModeSet` (the mode of a headless
  run is set as long as it goes on) gives `AsksOnlyAsOrphan`. `Story` lists what has been told of an
  agent at each place it may stand at, and with which verdict.
* **EventStream** (`FilesWhole`, `EachFeedKept`, `AllFeedsKept`). `Publishing`, `Served` and
  `Listed` describe a publication in mid-way: its list has no client twice, none that is lost, and
  all that are live and connected are in the broadcaster's list. `Rows` and `Complete` say of each
  file which events are in it and in which order: all that are over but those cancelled, dropped by
  a failed write or too late (`Missed`), and only a background task is too late (`LateLasting`).
  `EachFeedKept` is the refinement: for each client every behaviour of `EventStream` is one of
  `EventFeed`, under the mapping of the module. Its heart is `InLine`: a live client has had every
  event of a task but abandoned ones, up to the one under way if it is still in the list of that
  publication. The initial state maps to an initial state, and each of the actions to a step of the
  feed or a stutter.
* **ModelCall and Trace** (`AnswerWholeHolds`, `TraceInOrderHolds`, in `EventStreamProofs`).
  `Streamed` says what is held at each place of the retries: the text is the tokens of the attempt
  under way from the first on, the interface got the tokens of each try in turn, and of the
  try under way those of its first attempt last (`ShownLast`). The
  trace is read over its backups in the order of their ages; `Waiting` says that the records in the
  queue are the latest and newer than any written, `Counted` that `unfinished` counts the queue,
  and a rotation in mid-way leaves each file older than the next.
* **ToolCall** (`OwnAnswer`, `StoryTold`). `OwnAnswer` assumes that servers send no requests of
  their own (`~PeerAsks`), since otherwise it is false. `Queued` says that the lock of a connection
  holds exactly the calls in `McpClient._call`, once each, and that only its head reads. `Ids` makes
  requests of a connection distinct, `Pending` and `Said` say what a server has still to do and
  what its unread lines answer: a late line names a call that has given up, so that the id tells
  it from the answer waited for. `Story` counts the events of a call by its attempts.
* **Editing** (`AllOrNone`, `OldOrNew`, `ReadBeforeOverwritten`, `UndoChainHolds`). A plan names a
  file once (`Plans`),
  for every way a plan is made, rewinding included. `Commits` goes through the list: what is before
  the current mutation is done, what is behind it untouched, and each file is where the backup
  and the list of installed files say (`Tracked`), unless another process wrote it. `Holds`
  says what the files have before and after the commit; `ReadRight`, that what a file would hold
  without the call is what the tool has read. `UndoChain` has an invariant of its own on top of it,
  `UInv`, since between two calls it says nothing of the state in the middle of one. `Undoable`
  says that the chain is whole for the workspace without the call (`Chained(cps, prior)`), that
  the call's own checkpoint is the latest and holds what the call has read, and that a rewind
  restores exactly what differs from its checkpoint (`Restoring`, which needs that a plan of `n`
  files names all `n` that differ: an injection between finite sets of one size is onto). Two
  lemmas carry the chain over the end of a call: below the latest ready checkpoint the contents
  of its files do not matter (`UnwoundBelow`), and to undo it first is to undo it with the others
  (`UnwoundWithout`), which serves the taken, the discarded and the rewound checkpoint alike.

The types are proved for each of these modules (`TypeCorrect`; `TasksTyped`, `TuiTyped`,
`CallTyped` and `TraceTyped` where two modules share one of proofs).

The proofs changed some models, without changing what they stand for. `Kept` (EventStream) and
`Without` (ToolCall) replace library operators on sequences of which the provers know nothing;
`RewindPlans` is the set of plans a rewind may have instead of one plan computed by a fold;
`FileWhole`, `OutcomeTold` and the replay of `EventFeed` are stated row by row. `Transcript` finds
and writes rows by their places instead of folds over the thread, `Trace` lists its records in
order (`RecordsOf`, `Sorted`), `Tui` decides a request by the place of its select. `UndoChain` was a
fold of `Undo` over the checkpoints; it is now the workspace after each of them (`Unwound`, by
the first ready checkpoint that names a file) and that `Undo` leads from each to the next, which
is the fold unrolled. Modules whose theorems share a module have names that do not clash
(`BoardSpec`, `TuiSpec`, `CallSpec`). One property was
wrong, and the proof found it: as first stated `ThreadMirrorsContext` holds for two steps and fails
for three, since a compaction writes to the transcript the empty answers and the reminders that
the context has, which a step by itself would not write or would write as a result. It now allows
both forms; `MCAgentHistory.cfg` has the bounds at which the first occurs, `MCAgentLoopHistory.cfg`
those of the second.

Every safety property of the passing runs but those of `Chat`, whose one run shows a
violation, is proved. Only model-checked: liveness (`RunEnds`, `AskedIsDecided`, `SessionFreed`,
`JobEnds`, `PublishEnds`, `SubagentsEnd`, `CallEnds`, `Reconnects`, `StopEnds`), since fairness and
`ENABLED` are out of the prover's reach. What a fold computes for data of any length would need
induction over data with operator arguments, which the installed provers cannot use; where a
property depended on one it was stated by places instead, as above. No module declares a
`RECURSIVE` operator.

## 5. Not modelled, and the plan

* Rendering of the TUI and of the CLI's printer, slash-command completion, the replay of a
  session's history on the screen, and the CLI commands that send one request and print: no
  state that another step could disturb.
* The provider wire formats (`openai_compatible.py`, the conversion in `provider.py`), parsing of
  configuration, skills and agent definitions: pure functions of their input.
* The text of a compaction, its quality gate and the token estimates: a choice of the model.
* Regular expressions of the permission policy, how an edit or a patch computes the new text,
  and what a record of the trace holds (redaction): abstracted to a classification or a choice.
* Project memory: one process, synchronous calls, each file replaced atomically and the index
  rebuilt from all of them.
* Worktrees: wrappers over git, where the state is. Read-only tools (grep, glob, git diff,
  list_dir, read_file): input and output.
* What a line of `thread.jsonl` is. A row is written with `ensure_ascii=False`
  (`session/store.py:488`) and the file is read with `str.splitlines()` (262, 339, 375), which also
  splits at U+2028, U+2029 and U+0085: a prompt with one of these becomes two broken lines, never
  reaches the model, and the repair cuts the thread there. A row of `Transcript` is one line, so
  `SoundPromptKept` and `PromptReachesModel` speak of prompts without these characters.
* The `isError` of an MCP result (`mcp/client.py:98-102`): the call counts as answered.
* The taskkill branch for Windows, legacy rows and notes of the session store, topic filters of a
  subscription other than the run.

What is left: an abstract conversation (prompts, answered steps) that `Session` implements, with the
mapping `Read(thread)`; `AgentLoop` as an implementation of the run steps of `Session`, and `ToolCall`
of its step `ToolReturns`. The theorems about each of them are the facts such a mapping would use.
