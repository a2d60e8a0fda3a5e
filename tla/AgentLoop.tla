----------------------------- MODULE AgentLoop -----------------------------
(***************************************************************************)
(* One run of the agent: AgentRunner.run_and_capture driving               *)
(* AgentLoop.run (plan, act, observe) until the context is done.           *)
(*                                                                         *)
(* A step of this specification is the code between two awaits of the run  *)
(* task.  pc names the await the task is suspended in:                     *)
(*                                                                         *)
(*   "prompt"   the UserPromptSubmit hooks                                 *)
(*   "start"    publishing run.started (outside the runner's try)          *)
(*   "begin"    publishing step.started, distilling large tool results     *)
(*   "chat"     provider.chat, or the back-off before another attempt      *)
(*   "overflow" the reactive compaction after a context-length error       *)
(*   "act"      waiting for the tool calls of the current batch            *)
(*   "compact"  the compaction triggered by the context threshold          *)
(*   "finish"   publishing step.finished                                   *)
(*   "stop"     the Stop hooks                                             *)
(*   "report"   publishing run.finished (outside the runner's try)         *)
(*   "ended"    run_and_capture has returned or raised                     *)
(*                                                                         *)
(* A run can be cancelled in every one of them.  Background subagents      *)
(* share the run's TaskManager, so the todos may change at any moment.     *)
(***************************************************************************)
EXTENDS Naturals, Sequences, FiniteSets

CONSTANTS
    MaxSteps,     \* config.agent.max_steps
    MaxDefers,    \* _MAX_TODO_DEFERS
    MaxAttempts,  \* attempts of one provider.chat before the error is final
    ToolCalls,    \* the tool-call lists a response may carry: sequences of
                  \* "par" (can_parallel) and "ser" (serial) calls
    Histories     \* what read_messages may return, the new prompt at its end

\* Configuration rejects a max_steps below one; the other two are literals.
ASSUME LimitsAssumption ==
    /\ MaxSteps \in Nat \ {0}
    /\ MaxDefers \in Nat
    /\ MaxAttempts \in Nat \ {0}

ASSUME ToolCallsAssumption == ToolCalls \subseteq Seq({"par", "ser"})

VARIABLES
    pc,          \* the await the run task is suspended in
    status,      \* context.status
    reason,      \* context.reason
    step,        \* context.step
    attempt,     \* attempt number of the current provider.chat
    overflowed,  \* _reactive_compaction_attempted
    defers,      \* _end_turn_defer_count
    lastSnap,    \* _last_todo_snapshot
    todo,        \* what active_summary() returns now, as one of Todos
    children,    \* a background subagent of this run is alive
    calls,       \* tool calls of the response being acted on
    next,        \* index of the first call whose result is not recorded
    got,         \* outcome of each call of the batch that has finished
    ctx,         \* context.messages
    thread,      \* the session's thread.jsonl, rows grouped into messages
    stray,       \* history variable: the steps whose response carried tool
                 \* calls under a stop reason that answers none
    cancelled,   \* the runner caught CancelledError
    reported,    \* status carried by run.finished, "none" before it
    recovered    \* recover_incomplete_tail has run

runVars == <<pc, status, reason, step, attempt, cancelled, reported, recovered>>
todoVars == <<overflowed, defers, lastSnap, todo, children>>
actVars == <<calls, next, got>>
msgVars == <<ctx, thread, stray>>
vars == <<runVars, todoVars, actVars, msgVars>>

-----------------------------------------------------------------------------
(* Todo summaries: no task at all, two different lists with an unfinished  *)
(* task, and a list whose tasks are all completed.                         *)

Todos == {"none", "openA", "openB", "done"}
HasIncomplete == todo \in {"openA", "openB"}

\* The todo check of end_turn.
ShouldDefer == HasIncomplete /\ defers < MaxDefers /\ todo # lastSnap

(* Messages.  A tool_use id is the step and position of its call.  The     *)
(* message kinds are those a consumer of the history can tell apart.       *)

Reminder == <<0, 0>>          \* the id "todo_end_turn_reminder"
CallId(s, k) == <<s, k>>

UserText(s) == [kind |-> "user", ids |-> {}, step |-> s]
Ack == [kind |-> "assistant", ids |-> {}, step |-> 0]
Results(s, ids) == [kind |-> "results", ids |-> ids, step |-> s]

\* The assistant message of a response; without text or tool calls it has no
\* blocks, and append_assistant then writes no row.
AssistantMsg(s, text, n) ==
    [kind |-> IF text \/ n > 0 THEN "assistant" ELSE "empty",
     ids  |-> {CallId(s, k) : k \in 1..n},
     step |-> s]

\* context.add_tool_result: results go to the last message if it holds only
\* tool results, else to a new one.
AddResults(msgs, s, ids) ==
    IF msgs # <<>> /\ msgs[Len(msgs)].kind = "results"
    THEN [msgs EXCEPT ![Len(msgs)].ids = @ \cup ids]
    ELSE Append(msgs, Results(s, ids))

\* append_tool_result: the rows of one step share a message id.
AddResultRows(rows, s, ids) ==
    IF rows # <<>> /\ rows[Len(rows)].kind = "results" /\ rows[Len(rows)].step = s
    THEN [rows EXCEPT ![Len(rows)].ids = @ \cup ids]
    ELSE Append(rows, Results(s, ids))

AddAssistantRows(rows, msg) == IF msg.kind = "empty" THEN rows ELSE Append(rows, msg)

Messages == [kind : {"user", "assistant", "empty", "results"},
             ids : SUBSET (Nat \X Nat), step : Nat]

\* The calls message i makes, and the calls it answers.
Uses(msgs, i) == IF msgs[i].kind = "assistant" THEN msgs[i].ids ELSE {}
Answers(msgs, i) == IF msgs[i].kind = "results" THEN msgs[i].ids ELSE {}

\* The tool calls of a message prefix that have no result in it.
Pending(msgs, n) ==
    UNION {{u \in Uses(msgs, i) : \A j \in (i + 1)..n : u \notin Answers(msgs, j)} :
              i \in 1..n}

\* validate_tool_protocol
ValidProtocol(msgs) ==
    /\ \A j \in 1..Len(msgs) : Answers(msgs, j) \subseteq Pending(msgs, j - 1)
    /\ Pending(msgs, Len(msgs)) = {}

(* What one run leaves to the next: each call is answered by the message   *)
(* behind it, and nothing else is but the reminders of earlier runs.  A    *)
(* message of the past has step 0.                                         *)

Replayable(msgs) ==
    \A i \in 1..Len(msgs) :
        /\ Uses(msgs, i) # {} => i < Len(msgs) /\ Answers(msgs, i + 1) = Uses(msgs, i)
        /\ Answers(msgs, i) \notin {{}, {Reminder}} =>
              i > 1 /\ Uses(msgs, i - 1) = Answers(msgs, i)

\* Calls are told from those of other steps, and from the reminder.
OwnIds(msgs) ==
    \A i \in 1..Len(msgs) :
        \A id \in msgs[i].ids :
            \/ id[1] = msgs[i].step /\ id[2] > 0
            \/ msgs[i].kind = "results" /\ id = Reminder

PastMessages == [kind : {"user", "assistant", "results"}, ids : SUBSET ({0} \X Nat), step : {0}]
ASSUME HistoriesAssumption ==
    \A h \in Histories : h \in Seq(PastMessages) /\ Replayable(h) /\ OwnIds(h)

(* Compaction keeps a suffix of whole tool exchanges behind a summary pair; *)
(* the forced one of an overflow keeps nothing.  It may also decline: the   *)
(* model fails, the summary is rejected, or nothing would be saved.         *)
GroupStart(msgs, k) == Pending(msgs, k - 1) = {}
SummaryOf(msgs, k) == <<UserText(0), Ack>> \o SubSeq(msgs, k, Len(msgs))

Compactions(msgs, force) ==
    LET starts == IF force THEN {Len(msgs) + 1}
                  ELSE {k \in 2..Len(msgs) : GroupStart(msgs, k)}
    IN  IF ValidProtocol(msgs)
        THEN {m \in {SummaryOf(msgs, k) : k \in starts} : ValidProtocol(m)}
        ELSE {}

(* recover_incomplete_tail: nothing is done while every call has its result *)
(* (no row is damaged here).  Else the rows are cut at the last point where  *)
(* none was open, or where a message begins whose call is open at the end.   *)

StillOpen(rows) ==
    {i \in 1..Len(rows) :
        \E u \in Uses(rows, i) : \A j \in i + 1..Len(rows) : u \notin Answers(rows, j)}

\* Variant for mutation: the message before an open one is lost with it.
EarlierMarks(rows) ==
    {n \in 0..Len(rows) : Pending(rows, n) = {}
        /\ \A m \in n + 1..Len(rows) : Pending(rows, m) # {}}
    \cup {IF i > 1 THEN i - 2 ELSE 0 : i \in StillOpen(rows)}

\* Variant for mutation: a call counts as answered by the rows written last.
LastMarks(rows) == {Len(rows)}

CutMarks(rows) ==
    {n \in 0..Len(rows) : Pending(rows, n) = {}
        /\ \A m \in n + 1..Len(rows) : Pending(rows, m) # {}}
    \cup {i - 1 : i \in StillOpen(rows)}

Recovered(rows, repaired) ==
    \/ Pending(rows, Len(rows)) = {} /\ repaired = rows
    \/ /\ Pending(rows, Len(rows)) # {}
       /\ \E n \in CutMarks(rows) :
             /\ \A m \in CutMarks(rows) : n <= m
             /\ repaired = SubSeq(rows, 1, n)

(* The batch that starts at call i: one serial call, or the longest run of  *)
(* consecutive parallel ones, which asyncio.gather runs together.           *)
\* Variant for mutation: whatever follows joins the batch.
WholeBatch(i) == i..Len(calls)

Batch(i) ==
    IF calls[i] = "ser" THEN {i}
    ELSE {j \in i..Len(calls) : \A k \in i..j : calls[k] = "par"}

Outcomes == {"ok", "error", "required"}
Unfinished == {k \in Batch(next) : got[k] = "wait"}

\* The results _record_result appends before it returns True, in call order.
Refused == {k \in Batch(next) : got[k] = "required"}
Recorded == {k \in Batch(next) : \A r \in Refused : k <= r}
\* Variant for mutation: the position in the list of calls does not advance.
StuckRecord == {next - 1}

LastRecorded == {k \in Recorded : \A j \in Recorded : j <= k}

-----------------------------------------------------------------------------
Init ==
    /\ pc = "prompt" /\ status = "running" /\ reason = "none"
    /\ step = 0 /\ attempt = 0
    /\ overflowed = FALSE /\ defers = 0 /\ lastSnap = "none" /\ todo = "none"
    /\ children = FALSE
    /\ calls = <<>> /\ next = 1 /\ got = <<>>
    /\ ctx \in Histories /\ thread = ctx /\ stray = {}
    /\ cancelled = FALSE /\ reported = "none" /\ recovered = FALSE

Suspend(p) == pc' = p
MarkFailed(r) == status' = "failed" /\ reason' = r
KeepStatus == UNCHANGED <<status, reason>>

\* The top of the while loop: the context is done, or a step begins.
EnterStep == step' = step + 1 /\ attempt' = 0 /\ Suspend("begin")
NextStepOrStop ==
    \/ status = "running" /\ EnterStep
    \/ status # "running" /\ Suspend("stop") /\ UNCHANGED <<step, attempt>>

\* A hook may refuse the prompt: run_and_capture returns without an event.
PromptSubmitted ==
    /\ pc = "prompt"
    /\ Suspend("start") \/ Suspend("ended")
    /\ UNCHANGED <<status, reason, step, attempt, cancelled, reported, recovered,
                   todoVars, actVars, msgVars>>

\* Building the provider or the tools may fail before the first step.
RunStarted ==
    /\ pc = "start"
    /\ \/ EnterStep /\ KeepStatus
       \/ MarkFailed("llm_error") /\ Suspend("report") /\ UNCHANGED <<step, attempt>>
    /\ UNCHANGED <<cancelled, reported, recovered,
                   todoVars, actVars, msgVars>>

StepStarted ==
    /\ pc = "begin"
    /\ Suspend("chat")
    /\ UNCHANGED <<status, reason, step, attempt, cancelled, reported, recovered,
                   todoVars, actVars, msgVars>>

-----------------------------------------------------------------------------
(* provider.chat                                                            *)

\* A transient error backs off and tries again, while attempts remain.
ChatRetry ==
    /\ pc = "chat" /\ attempt + 1 < MaxAttempts
    /\ attempt' = attempt + 1
    /\ UNCHANGED <<pc, status, reason, step, cancelled, reported, recovered,
                   todoVars, actVars, msgVars>>

\* Variant for mutation: the attempt is not remembered.
MayAlwaysCompact == TRUE

MayCompact == ~overflowed

\* The final error: a context-length error is answered by one compaction per
\* run, any other ends the run without a step.finished.
ChatFails ==
    /\ pc = "chat"
    /\ \/ /\ MayCompact
          /\ overflowed' = TRUE /\ Suspend("overflow") /\ KeepStatus
       \/ /\ UNCHANGED overflowed
          /\ MarkFailed("llm_error") /\ Suspend("stop")
    /\ UNCHANGED <<step, attempt, cancelled, reported, recovered,
                   defers, lastSnap, todo, children, actVars, msgVars>>

\* The response is appended to the context and the transcript at once.
Observe(text, n) ==
    LET msg == AssistantMsg(step, text, n)
    IN  /\ ctx' = Append(ctx, msg)
        /\ thread' = AddAssistantRows(thread, msg)

\* No branch of the loop answers the calls of this response.
LeftOpen(tcs) == stray' = IF tcs = <<>> THEN stray ELSE stray \cup {step}

ChatToolUse ==
    /\ pc = "chat"
    /\ \E text \in BOOLEAN, tcs \in ToolCalls \ {<<>>} :
          /\ Observe(text, Len(tcs))
          /\ calls' = tcs /\ next' = 1 /\ got' = [k \in 1..Len(tcs) |-> "wait"]
    /\ Suspend("act")
    /\ UNCHANGED <<status, reason, step, attempt, cancelled, reported, recovered, todoVars,
                   stray>>

\* Any stop reason but end_turn fails a run that has used up its steps.
StepLimit ==
    IF step >= MaxSteps THEN MarkFailed("exceeded_max_steps") ELSE KeepStatus

\* tool_use without a call: the act phase has nothing to do.
ChatNoCalls ==
    /\ pc = "chat"
    /\ \E text \in BOOLEAN : Observe(text, 0)
    /\ StepLimit
    /\ Suspend("finish") \/ (status' = "running" /\ Suspend("compact"))
    /\ UNCHANGED <<step, attempt, cancelled, reported, recovered, todoVars, actVars, stray>>

\* Variant for mutation: no synthetic results.
NoErrorResults(stop, tcs) == FALSE

NeedsErrorResults(stop, tcs) == stop = "max_tokens" /\ tcs # <<>>

\* max_tokens in the middle of tool calls gives each call an error result.  Every
\* other stop reason (refusal, pause_turn, a full context window) only goes on,
\* with calls or without.
ChatCutOff ==
    /\ pc = "chat"
    /\ \E stop \in {"max_tokens", "other"}, text \in BOOLEAN, tcs \in ToolCalls \cup {<<>>} :
          LET msg == AssistantMsg(step, text, Len(tcs))
              rows == AddAssistantRows(thread, msg)
          IN  IF NeedsErrorResults(stop, tcs)
              THEN /\ ctx' = AddResults(Append(ctx, msg), step, msg.ids)
                   /\ thread' = AddResultRows(rows, step, msg.ids)
                   /\ UNCHANGED stray
              ELSE /\ ctx' = Append(ctx, msg) /\ thread' = rows
                   /\ IF stop = "other" THEN LeftOpen(tcs) ELSE UNCHANGED stray
    /\ StepLimit
    /\ Suspend("finish")
    /\ UNCHANGED <<step, attempt, cancelled, reported, recovered, todoVars, actVars>>

\* end_turn with unfinished todos is put off: the model sees a plain user
\* message, the transcript gets a tool_result with the reminder's id.
EndTurnDeferred ==
    /\ pc = "chat" /\ ShouldDefer
    /\ \E text \in BOOLEAN, tcs \in ToolCalls \cup {<<>>} :
          LET msg == AssistantMsg(step, text, Len(tcs))
          IN  /\ ctx' = ctx \o <<msg, UserText(step)>>
              /\ thread' = AddResultRows(AddAssistantRows(thread, msg), step, {Reminder})
              /\ LeftOpen(tcs)
    /\ defers' = defers + 1 /\ lastSnap' = todo
    /\ Suspend("finish")
    /\ UNCHANGED <<status, reason, step, attempt, cancelled, reported, recovered,
                   overflowed, todo, children, actVars>>

EndTurn ==
    /\ pc = "chat" /\ ~ShouldDefer
    /\ \E text \in BOOLEAN, tcs \in ToolCalls \cup {<<>>} :
          Observe(text, Len(tcs)) /\ LeftOpen(tcs)
    /\ status' = "success" /\ UNCHANGED reason
    /\ Suspend("finish")
    /\ UNCHANGED <<step, attempt, cancelled, reported, recovered, todoVars, actVars>>

-----------------------------------------------------------------------------
(* _run_act_phase                                                           *)

ChangeTodos == todo' \in Todos \ {todo, "none"}

\* invoke_tool returns for one call; a serial tool may have changed the todos
\* (tasks are never deleted) or left a subagent running in the background.
ToolReturns(k, outcome) ==
    /\ pc = "act" /\ k \in Unfinished
    /\ got' = [got EXCEPT ![k] = outcome]
    /\ \/ UNCHANGED <<todo, children>>
       \/ calls[k] = "ser" /\ outcome = "ok" /\ ChangeTodos /\ UNCHANGED children
       \/ calls[k] = "ser" /\ outcome = "ok" /\ children' = TRUE /\ UNCHANGED todo
    /\ UNCHANGED <<runVars, overflowed, defers, lastSnap, calls, next, msgVars>>

\* The step limit is looked at only while the run is still undecided.
Settle(refused) ==
    IF refused THEN MarkFailed("permission_required") ELSE StepLimit

\* The whole batch has returned: results are recorded in call order up to a
\* permission_required, which ends the act phase with the rest unanswered.
RecordBatch ==
    /\ pc = "act" /\ Unfinished = {}
    /\ LET ids == {CallId(step, k) : k \in Recorded}
       IN  /\ ctx' = AddResults(ctx, step, ids)
           /\ thread' = AddResultRows(thread, step, ids)
    /\ \E k \in LastRecorded : next' = k + 1
    /\ \/ /\ Refused = {} /\ next' <= Len(calls)
          /\ KeepStatus /\ UNCHANGED pc
       \/ /\ Refused # {} \/ next' > Len(calls)
          /\ Settle(Refused # {})
          /\ \/ Suspend("finish")
             \/ status' = "running" /\ Suspend("compact")
    /\ UNCHANGED <<step, attempt, cancelled, reported, recovered, todoVars, calls, got, stray>>

-----------------------------------------------------------------------------
(* Compaction rewrites the context and then thread.jsonl without an await   *)
(* in between.                                                              *)

\* Variant for mutation: thread.jsonl is not rewritten.
ContextCompacted(force) ==
    \E m \in Compactions(ctx, force) : ctx' = m /\ UNCHANGED <<thread, stray>>

Compacted(force) ==
    \E m \in Compactions(ctx, force) : ctx' = m /\ thread' = m /\ UNCHANGED stray

OverflowCompacted ==
    /\ pc = "overflow"
    /\ Compacted(TRUE)
    /\ Suspend("finish")
    /\ UNCHANGED <<status, reason, step, attempt, cancelled, reported, recovered,
                   todoVars, actVars>>

OverflowDeclined ==
    /\ pc = "overflow"
    /\ MarkFailed("llm_error") /\ Suspend("stop")
    /\ UNCHANGED <<step, attempt, cancelled, reported, recovered,
                   todoVars, actVars, msgVars>>

AutoCompact ==
    /\ pc = "compact"
    /\ Compacted(FALSE) \/ UNCHANGED msgVars
    /\ Suspend("finish")
    /\ UNCHANGED <<status, reason, step, attempt, cancelled, reported, recovered,
                   todoVars, actVars>>

StepFinished ==
    /\ pc = "finish"
    /\ NextStepOrStop
    /\ UNCHANGED <<status, reason, cancelled, reported, recovered,
                   todoVars, actVars, msgVars>>

StopHooks ==
    /\ pc = "stop"
    /\ Suspend("report")
    /\ UNCHANGED <<status, reason, step, attempt, cancelled, reported, recovered,
                   todoVars, actVars, msgVars>>

\* run.finished carries the final status; then the transcript is repaired and
\* the run returns, or raises CancelledError again.
RunFinished ==
    /\ pc = "report"
    /\ reported' = status
    /\ Recovered(thread, thread') /\ recovered' = TRUE
    /\ Suspend("ended")
    /\ UNCHANGED <<status, reason, step, attempt, cancelled, todoVars, actVars, ctx, stray>>

-----------------------------------------------------------------------------
(* What can happen at an await besides its result                           *)

InTry == {"begin", "chat", "overflow", "act", "compact", "finish", "stop"}

FailIfRunning(r) == IF status = "running" THEN MarkFailed(r) ELSE KeepStatus

\* task.cancel() inside the runner's try: the run still reports and repairs.
Cancel ==
    /\ pc \in InTry
    /\ cancelled' = TRUE
    /\ FailIfRunning("cancelled")
    /\ Suspend("report")
    /\ UNCHANGED <<step, attempt, reported, recovered, todoVars, actVars, msgVars>>

\* task.cancel() in an await outside the try: nothing is reported or repaired.
CancelOutside ==
    /\ pc \in {"prompt", "start", "report"}
    /\ cancelled' = TRUE
    /\ Suspend("ended")
    /\ UNCHANGED <<status, reason, step, attempt, reported, recovered,
                   todoVars, actVars, msgVars>>

\* An exception of a publish or a hook reaches the runner's last except.
RunRaises ==
    /\ pc \in InTry \ {"chat"}
    /\ FailIfRunning("llm_error")
    /\ Suspend("report")
    /\ UNCHANGED <<step, attempt, cancelled, reported, recovered,
                   todoVars, actVars, msgVars>>

\* A background subagent updates the shared task list.
SubagentUpdatesTodo ==
    /\ children /\ pc # "ended"
    /\ ChangeTodos
    /\ UNCHANGED <<runVars, overflowed, defers, lastSnap, children, actVars, msgVars>>

\* run_and_capture has returned.
Done == pc = "ended" /\ UNCHANGED vars

Progress ==
    \/ PromptSubmitted \/ RunStarted \/ StepStarted
    \/ ChatRetry \/ ChatFails
    \/ ChatToolUse \/ ChatNoCalls \/ ChatCutOff \/ EndTurnDeferred \/ EndTurn
    \/ \E k \in 1..Len(calls), o \in Outcomes : ToolReturns(k, o)
    \/ RecordBatch
    \/ OverflowCompacted \/ OverflowDeclined \/ AutoCompact
    \/ StepFinished \/ StopHooks \/ RunFinished

Next ==
    \/ Progress
    \/ Cancel \/ CancelOutside \/ RunRaises
    \/ SubagentUpdatesTodo
    \/ Done

Spec == Init /\ [][Next]_vars

\* The model and the tools answer: provider.chat has a client timeout, every
\* tool call runs under wait_for, and an approval times out.
FairSpec == Spec /\ WF_vars(Progress)

-----------------------------------------------------------------------------
(* Properties                                                               *)

HistoryOK == ctx \in Seq(Messages) /\ thread \in Seq(Messages) /\ stray \in SUBSET Nat

ControlOK ==
    /\ pc \in {"prompt", "start", "begin", "chat", "overflow", "act", "compact",
               "finish", "stop", "report", "ended"}
    /\ status \in {"running", "success", "failed"}
    /\ reason \in {"none", "llm_error", "exceeded_max_steps", "permission_required",
                   "cancelled"}
    /\ step \in Nat
    /\ attempt \in 0..MaxAttempts - 1
    /\ overflowed \in BOOLEAN
    /\ defers \in 0..MaxDefers
    /\ lastSnap \in Todos
    /\ todo \in Todos
    /\ children \in BOOLEAN
    /\ calls \in Seq({"par", "ser"})
    /\ next \in 1..Len(calls) + 1 /\ (pc = "act" => next <= Len(calls))
    /\ got \in [1..Len(calls) -> Outcomes \cup {"wait"}]
    /\ cancelled \in BOOLEAN
    /\ reported \in {"none", "running", "success", "failed"}
    /\ recovered \in BOOLEAN

\* Type invariant.
TypeOK == ControlOK /\ HistoryOK

\* The steps of a run are bounded although neither a deferred end_turn
\* (loop.py:345) nor the compaction retry (loop.py:301) looks at max_steps:
\* the excess is at most the deferrals and the one compaction.
StepBound == step <= MaxSteps + MaxDefers + 1

\* Whenever the model is called, every tool_use of the history has all its
\* results in the very next message and there is no other tool_result but the
\* reminders an earlier run stored as one: what the provider requires, across
\* batches, refusals, cut-off answers, deferrals and compactions.  Only a
\* response that carried calls under a stop reason without a branch of its own
\* (loop.py:322-324) leaves them open.
ApiReady(msgs) ==
    \A i \in 1..Len(msgs) :
        /\ Uses(msgs, i) # {} /\ msgs[i].step \notin stray =>
              i < Len(msgs) /\ Answers(msgs, i + 1) = Uses(msgs, i)
        /\ Answers(msgs, i) # {} =>
              \/ msgs[i].ids = {Reminder} /\ msgs[i].step = 0
              \/ i > 1 /\ Uses(msgs, i - 1) = Answers(msgs, i)
ContextReady == pc = "chat" => ApiReady(ctx)

\* The transcript a later run would read is the context the model sees now,
\* message by message, except that an answer without blocks may have no row and
\* that a reminder may be stored as a tool_result.
AsRow(msg) ==
    IF msg.kind = "user" /\ msg.step > 0 THEN Results(msg.step, {Reminder}) ELSE msg
Shown(msgs) == {i \in 1..Len(msgs) : msgs[i].kind # "empty"}
Place(msgs, i) == Cardinality({j \in Shown(msgs) : j <= i})
Mirrors(rows, msgs) ==
    /\ Cardinality(Shown(rows)) = Cardinality(Shown(msgs))
    /\ \A i \in Shown(rows), j \in Shown(msgs) :
          Place(rows, i) = Place(msgs, j) => rows[i] \in {msgs[j], AsRow(msgs[j])}
ThreadMirrorsContext ==
    pc \in {"begin", "chat", "overflow", "act", "compact", "finish"} => Mirrors(thread, ctx)

\* However a run ends, the next one can build on what the repair leaves: each
\* call is followed by its results, none is answered twice or out of place.
HandsOn == recovered => Replayable(thread)

\* The repair costs at most the step that was not finished: what stands before
\* it, the whole past included, is kept as it was, unless an earlier response
\* left its calls open.
RepairKeepsSteps ==
    [][recovered' # recovered =>
          \A i \in 1..Len(thread) :
              (\A s \in stray \cup {step} : thread[i].step < s) =>
                  i <= Len(thread') /\ thread'[i] = thread[i]]_vars

\* Once decided, the verdict of a run never changes and no further step,
\* model answer or tool result is taken: a fail-fast refusal stays
\* permission_required and a cancellation does not undo a success.
VerdictFinal ==
    [][status # "running" =>
          UNCHANGED <<status, reason, step, calls, got, defers>>]_vars

\* A side-effecting tool runs alone: when its call returns, every earlier
\* call of the response is recorded and no later one has returned.
SerialCallsOrdered ==
    [][\A k \in 1..Len(calls) :
          (pc = "act" /\ got'[k] # got[k] /\ calls[k] = "ser") =>
              /\ \A j \in 1..k - 1 : CallId(step, j) \in ctx[Len(ctx)].ids
                                     /\ ctx[Len(ctx)].kind = "results"
              /\ \A j \in k + 1..Len(calls) : got[j] = "wait"]_vars

\* Every run that is left alone comes to its end.
RunEnds == <>(pc = "ended")

\* store.py:312: the history handed to the next run causes no
\* messages.invalid.
ThreadReplayable == recovered => ValidProtocol(thread)

=============================================================================
