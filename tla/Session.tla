------------------------------- MODULE Session ------------------------------
(***************************************************************************)
(* SessionManager: the life of sessions under client requests, runs,       *)
(* cancellations, kills of the daemon and cold starts.                     *)
(*                                                                         *)
(* Every session has a lock.  send_message holds it for the whole run, the *)
(* manual compaction while the provider answers; all other operations do   *)
(* their work between two awaits.  A run is followed at the granularity of *)
(* its thread rows; AgentLoop describes it in detail.                      *)
(***************************************************************************)
EXTENDS Transcript

CONSTANTS
    Sessions,   \* session ids
    MaxRuns,    \* bound: runs started or attempted, of all sessions
    MaxSteps,   \* bound: tool steps of one run
    MaxCrashes, \* bound: kills of the daemon
    MaxShared,  \* bound: runs and kills together, with more than one session
    Tearing     \* a kill may leave a line half written

ASSUME BoundsAssumption ==
    /\ MaxRuns \in Nat /\ MaxSteps \in Nat /\ MaxCrashes \in Nat
    /\ Tearing \in BOOLEAN

Statuses == {"absent", "active", "waiting_for_input", "interrupted", "closed", "deleted"}
Phases == {"idle",        \* no message is being handled
           "accepted",    \* send_message has appended the prompt
           "starting",    \* the run's task exists, its loop has not begun
           "running",     \* inside the try of run_and_capture
           "finishing",   \* run.finished is being published
           "interrupting",\* the run's task has ended as cancelled
           "settling",    \* the run's task has returned
           "writing"}     \* its status is published, not yet written

VARIABLES
    up,         \* the daemon has finished its cold start
    mem,        \* status of each session in memory
    meta,       \* status in its meta.json
    mode,       \* "chat" or "one_shot"
    thread,     \* thread.jsonl
    phase,      \* how far send_message is; it holds the lock unless "idle"
    run,        \* the session's last run
    step,       \* tool steps of that run
    open,       \* its last tool step has no result yet
    cancelled,  \* it was cancelled inside its try
    context,    \* the messages the run works on
    compacting, \* a manual compaction holds the lock and waits for its summary
    snapshot,   \* the messages it has read
    runs,       \* run ids used
    crashes,    \* kills so far
    sound       \* history: the runs whose prompt was appended to a clean thread

vars == <<up, mem, meta, mode, thread, phase, run, step, open, cancelled,
          context, compacting, snapshot, runs, crashes, sound>>
compactVars == <<compacting, snapshot>>
taskVars == <<run, step, open, cancelled, context, compacting, snapshot>>

Init ==
    /\ up = TRUE
    /\ mem = [s \in Sessions |-> "absent"]
    /\ meta = [s \in Sessions |-> "absent"]
    /\ mode = [s \in Sessions |-> "chat"]
    /\ thread = [s \in Sessions |-> <<>>]
    /\ phase = [s \in Sessions |-> "idle"]
    /\ run = [s \in Sessions |-> 0]
    /\ step = [s \in Sessions |-> 0]
    /\ open = [s \in Sessions |-> FALSE]
    /\ cancelled = [s \in Sessions |-> FALSE]
    /\ context = [s \in Sessions |-> <<>>]
    /\ compacting = [s \in Sessions |-> FALSE]
    /\ snapshot = [s \in Sessions |-> <<>>]
    /\ runs = 0
    /\ crashes = 0
    /\ sound = [s \in Sessions |-> {}]

\* The bounds: one session is created, the others are forks; once there is a
\* fork, runs and kills are MaxShared in all.  A new session has a fresh id.
Made == {s \in Sessions : meta[s] # "absent"}
Fresh == CHOOSE s \in Sessions : meta[s] = "absent"
ForkMayCome == Made # Sessions /\ runs + crashes <= MaxShared
MoreMayHappen == Cardinality(Made) > 1 => runs + crashes < MaxShared

Known(s) == up /\ mem[s] \notin {"absent", "deleted"}

\* Variant for mutation: an operation does not look at the lock.
NoLock(s) == Known(s)

\* The lock is free; every operation answers SESSION_BUSY otherwise.
Free(s) == Known(s) /\ phase[s] = "idle" /\ ~compacting[s]

LocalsGone(s) ==
    /\ step' = [step EXCEPT ![s] = 0]
    /\ open' = [open EXCEPT ![s] = FALSE]
    /\ cancelled' = [cancelled EXCEPT ![s] = FALSE]
    /\ context' = [context EXCEPT ![s] = <<>>]

\* Variant for mutation: the lock is not released when the task ends.
LockKept(s) == LocalsGone(s) /\ UNCHANGED phase

\* The lock is released and what the operation kept is gone.
EndTask(s) ==
    /\ phase' = [phase EXCEPT ![s] = "idle"]
    /\ LocalsGone(s)

SetStatus(s, status) ==
    /\ mem' = [mem EXCEPT ![s] = status]
    /\ meta' = [meta EXCEPT ![s] = status]

-----------------------------------------------------------------------------
(* send_message and the run                                                 *)

Create(s, m) ==
    /\ up /\ Made = {} /\ s = Fresh
    /\ SetStatus(s, "active")
    /\ mode' = [mode EXCEPT ![s] = m]
    /\ UNCHANGED <<up, thread, phase, taskVars, runs, crashes, sound>>

TakesMessages(s) == mem[s] # "closed"

Accept(s) ==
    /\ Free(s) /\ TakesMessages(s)
    /\ runs < MaxRuns /\ MoreMayHappen
    /\ runs' = runs + 1
    /\ thread' = [thread EXCEPT ![s] = Write(@, Prompt(runs'))]
    /\ sound' = [sound EXCEPT ![s] = IF Clean(thread[s]) THEN @ \cup {runs'} ELSE @]
    /\ run' = [run EXCEPT ![s] = runs']
    /\ phase' = [phase EXCEPT ![s] = "accepted"]
    /\ UNCHANGED <<up, mem, meta, mode, step, open, cancelled, context, compactVars, crashes>>

Activate(s) ==
    /\ phase[s] = "accepted"
    /\ SetStatus(s, "active")
    /\ phase' = [phase EXCEPT ![s] = "starting"]
    /\ UNCHANGED <<up, mode, thread, taskVars, runs, crashes, sound>>

\* run_and_capture up to its try: the history is read once.
Begin(s) ==
    /\ phase[s] = "starting"
    /\ context' = [context EXCEPT ![s] = Read(thread[s])]
    /\ phase' = [phase EXCEPT ![s] = "running"]
    /\ UNCHANGED <<up, mem, meta, mode, thread, run, step, open, cancelled, compactVars, runs,
                   crashes, sound>>

\* A UserPromptSubmit hook blocks the run, which returns at once.
Blocked(s) ==
    /\ phase[s] = "starting"
    /\ phase' = [phase EXCEPT ![s] = "settling"]
    /\ UNCHANGED <<up, mem, meta, mode, thread, taskVars, runs, crashes, sound>>

AppendRows(s, rows) ==
    /\ thread' = [thread EXCEPT ![s] = WriteAll(@, rows)]
    /\ context' = [context EXCEPT ![s] = @ \o rows]

StepsLeft(s) == step[s] < MaxSteps

Call(s) ==
    /\ phase[s] = "running" /\ ~open[s] /\ StepsLeft(s)
    /\ AppendRows(s, CallRows(run[s], step[s] + 1))
    /\ step' = [step EXCEPT ![s] = @ + 1]
    /\ open' = [open EXCEPT ![s] = TRUE]
    /\ UNCHANGED <<up, mem, meta, mode, phase, run, cancelled, compactVars, runs, crashes, sound>>

Result(s) ==
    /\ phase[s] = "running" /\ open[s]
    /\ AppendRows(s, <<ResultRow(run[s], step[s])>>)
    /\ open' = [open EXCEPT ![s] = FALSE]
    /\ UNCHANGED <<up, mem, meta, mode, phase, run, step, cancelled, compactVars, runs, crashes,
                   sound>>

Answer(s) ==
    /\ phase[s] = "running" /\ ~open[s]
    /\ AppendRows(s, <<TextRow(run[s])>>)
    /\ phase' = [phase EXCEPT ![s] = "finishing"]
    /\ UNCHANGED <<up, mem, meta, mode, run, step, open, cancelled, compactVars, runs, crashes,
                   sound>>

\* The loop ends with an error, perhaps between a call and its result.
Fail(s) ==
    /\ phase[s] = "running"
    /\ phase' = [phase EXCEPT ![s] = "finishing"]
    /\ UNCHANGED <<up, mem, meta, mode, thread, taskVars, runs, crashes, sound>>

\* Compactor.compact inside the run, between two steps.
CompactInRun(s) ==
    /\ phase[s] = "running" /\ ~open[s]
    /\ \E t \in Compactions(context[s]) :
          /\ thread' = [thread EXCEPT ![s] = t]
          /\ context' = [context EXCEPT ![s] = t]
    /\ UNCHANGED <<up, mem, meta, mode, phase, run, step, open, cancelled, compactVars, runs,
                   crashes, sound>>

\* cancel_run, or cancel_all at a shutdown.  CancelledError is caught inside
\* the try only: before it, and while run.finished is published, it leaves
\* run_and_capture at once.
Cancel(s) ==
    /\ phase[s] \in {"starting", "running", "finishing"}
    /\ IF phase[s] = "running"
       THEN /\ phase' = [phase EXCEPT ![s] = "finishing"]
            /\ cancelled' = [cancelled EXCEPT ![s] = TRUE]
       ELSE /\ phase' = [phase EXCEPT ![s] = "interrupting"]
            /\ UNCHANGED cancelled
    /\ UNCHANGED <<up, mem, meta, mode, thread, run, step, open, context, compactVars, runs,
                   crashes, sound>>

\* run.finished is published: the tail is recovered and the task ends.
Finish(s) ==
    /\ phase[s] = "finishing"
    /\ thread' = [thread EXCEPT ![s] = Recovered(@)]
    /\ phase' = [phase EXCEPT ![s] = IF cancelled[s] THEN "interrupting" ELSE "settling"]
    /\ UNCHANGED <<up, mem, meta, mode, taskVars, runs, crashes, sound>>

\* An error outside the try, such as a full disk, ends the task and
\* send_message with it; the status stays as it is.
Raise(s) ==
    /\ phase[s] \in {"starting", "finishing"}
    /\ EndTask(s)
    /\ UNCHANGED <<up, mem, meta, mode, thread, run, compactVars, runs, crashes, sound>>

Interrupt(s) ==
    /\ phase[s] = "interrupting"
    /\ SetStatus(s, "interrupted")
    /\ EndTask(s)
    /\ UNCHANGED <<up, mode, thread, run, compactVars, runs, crashes, sound>>

Settle(s) ==
    /\ phase[s] = "settling"
    /\ mem' = [mem EXCEPT ![s] = IF mode[s] = "one_shot" THEN "closed" ELSE "waiting_for_input"]
    /\ phase' = [phase EXCEPT ![s] = "writing"]
    /\ UNCHANGED <<up, meta, mode, thread, taskVars, runs, crashes, sound>>

Written(s) == mem[s]

WriteStatus(s) ==
    /\ phase[s] = "writing"
    /\ meta' = [meta EXCEPT ![s] = Written(s)]
    /\ EndTask(s)
    /\ UNCHANGED <<up, mem, mode, thread, run, compactVars, runs, crashes, sound>>

-----------------------------------------------------------------------------
(* The other operations of the session                                      *)

Close(s) ==
    /\ Free(s)
    /\ SetStatus(s, "closed")
    /\ UNCHANGED <<up, mode, thread, phase, taskVars, runs, crashes, sound>>

Resumable(s) == mode[s] = "chat"

Resume(s) ==
    /\ Free(s) /\ Resumable(s)
    /\ SetStatus(s, "waiting_for_input")
    /\ UNCHANGED <<up, mode, thread, phase, taskVars, runs, crashes, sound>>

BeginCompact(s) ==
    /\ Free(s)
    /\ compacting' = [compacting EXCEPT ![s] = TRUE]
    /\ snapshot' = [snapshot EXCEPT ![s] = Read(thread[s])]
    /\ UNCHANGED <<up, mem, meta, mode, thread, phase, run, step, open, cancelled, context,
                   runs, crashes, sound>>

\* The summary arrives and replaces what was read, or is given up.
EndCompact(s) ==
    /\ compacting[s]
    /\ thread' \in {[thread EXCEPT ![s] = t] : t \in Compactions(snapshot[s]) \cup {thread[s]}}
    /\ compacting' = [compacting EXCEPT ![s] = FALSE]
    /\ snapshot' = [snapshot EXCEPT ![s] = <<>>]
    /\ UNCHANGED <<up, mem, meta, mode, phase, run, step, open, cancelled, context,
                   runs, crashes, sound>>

\* The fork gets the whole thread, open calls and all.
Copied(s) == thread[s]

\* create_fork copies the thread as it is and moves the copy into place.
Fork(s, f) ==
    /\ Free(s) /\ ForkMayCome /\ f = Fresh
    /\ SetStatus(f, "waiting_for_input")
    /\ mode' = [mode EXCEPT ![f] = "chat"]
    /\ thread' = [thread EXCEPT ![f] = Copied(s)]
    /\ sound' = [sound EXCEPT ![f] = sound[s]]
    /\ UNCHANGED <<up, phase, taskVars, runs, crashes>>

Delete(s) ==
    /\ Free(s)
    /\ SetStatus(s, "deleted")
    /\ thread' = [thread EXCEPT ![s] = <<>>]
    /\ sound' = [sound EXCEPT ![s] = {}]
    /\ UNCHANGED <<up, mode, phase, taskVars, runs, crashes>>

-----------------------------------------------------------------------------
(* Kills and cold starts                                                    *)

\* The rows the session's next write appends.
NextWrites(s) ==
    CASE Free(s) /\ TakesMessages(s) /\ runs < MaxRuns /\ MoreMayHappen
            -> {<<Prompt(runs + 1)>>}
      [] phase[s] = "running" /\ open[s] -> {<<ResultRow(run[s], step[s])>>}
      [] phase[s] = "running" /\ ~open[s]
            -> {<<TextRow(run[s])>>} \cup
               IF StepsLeft(s) THEN {CallRows(run[s], step[s] + 1)} ELSE {}
      [] OTHER -> {}

\* The daemon is killed, perhaps inside a write.
Crash ==
    /\ up \/ \E s \in Sessions : mem[s] # "absent"
    /\ crashes < MaxCrashes /\ MoreMayHappen
    /\ crashes' = crashes + 1
    /\ \/ UNCHANGED <<thread, runs>>
       \/ /\ Tearing /\ up
          /\ \E s \in Sessions : \E rows \in NextWrites(s) : \E t \in CutShort(thread[s], rows) :
                /\ thread' = [thread EXCEPT ![s] = t]
                /\ runs' = IF phase[s] = "idle" THEN runs + 1 ELSE runs
    /\ up' = FALSE
    /\ mem' = [s \in Sessions |-> "absent"]
    /\ phase' = [s \in Sessions |-> "idle"]
    /\ step' = [s \in Sessions |-> 0]
    /\ open' = [s \in Sessions |-> FALSE]
    /\ cancelled' = [s \in Sessions |-> FALSE]
    /\ context' = [s \in Sessions |-> <<>>]
    /\ compacting' = [s \in Sessions |-> FALSE]
    /\ snapshot' = [s \in Sessions |-> <<>>]
    /\ UNCHANGED <<meta, mode, run, sound>>

\* _rehydrate recovers the tail of the sessions whose run was under way.
Recovers(s) == meta[s] = "active"

RecoverTail(s) ==
    /\ ~up /\ mem[s] = "absent" /\ Recovers(s)
    /\ Recovered(thread[s]) # thread[s]
    /\ thread' = [thread EXCEPT ![s] = Recovered(@)]
    /\ UNCHANGED <<up, mem, meta, mode, phase, taskVars, runs, crashes, sound>>

Load(s) ==
    /\ ~up /\ mem[s] = "absent" /\ meta[s] # "absent"
    /\ Recovers(s) => Recovered(thread[s]) = thread[s]
    /\ SetStatus(s, IF meta[s] = "active" THEN "interrupted" ELSE meta[s])
    /\ UNCHANGED <<up, mode, thread, phase, taskVars, runs, crashes, sound>>

Up ==
    /\ ~up /\ \A s \in Sessions : mem[s] = "absent" => meta[s] = "absent"
    /\ up' = TRUE
    /\ UNCHANGED <<mem, meta, mode, thread, phase, taskVars, runs, crashes, sound>>

\* what send_message and the run it started do by themselves
Works(s) ==
    \/ Activate(s) \/ Begin(s) \/ Blocked(s) \/ Call(s) \/ Result(s) \/ Answer(s) \/ Fail(s)
    \/ Finish(s) \/ Interrupt(s) \/ Settle(s) \/ WriteStatus(s)

Next ==
    \/ \E s \in Sessions :
          \/ \E m \in {"chat", "one_shot"} : Create(s, m)
          \/ Accept(s) \/ Works(s) \/ CompactInRun(s) \/ Raise(s) \/ Cancel(s)
          \/ Close(s) \/ Resume(s) \/ BeginCompact(s) \/ EndCompact(s) \/ Delete(s)
          \/ \E f \in Sessions : Fork(s, f)
          \/ RecoverTail(s) \/ Load(s)
    \/ Crash \/ Up

Spec == Init /\ [][Next]_vars

\* The event loop resumes the tasks whose awaits are over, publishing ends, a
\* run goes on (AgentLoop shows that it ends) and the provider answers.
FairSpec ==
    /\ Spec
    /\ \A s \in Sessions : WF_vars(Works(s)) /\ WF_vars(EndCompact(s))

-----------------------------------------------------------------------------
(* Properties                                                               *)

Row == [runs : SUBSET (1..MaxRuns), step : 0..MaxSteps, kind : Kinds,
        whole : BOOLEAN, eol : BOOLEAN]

\* Type invariant.
TypeOK ==
    /\ up \in BOOLEAN
    /\ mem \in [Sessions -> Statuses] /\ meta \in [Sessions -> Statuses]
    /\ mode \in [Sessions -> {"chat", "one_shot"}]
    /\ phase \in [Sessions -> Phases]
    /\ {thread, context, snapshot} \subseteq [Sessions -> Seq(Row)]
    /\ compacting \in [Sessions -> BOOLEAN]
    /\ run \in [Sessions -> 0..MaxRuns] /\ step \in [Sessions -> 0..MaxSteps]
    /\ open \in [Sessions -> BOOLEAN] /\ cancelled \in [Sessions -> BOOLEAN]
    /\ runs \in 0..MaxRuns /\ crashes \in 0..MaxCrashes
    /\ sound \in [Sessions -> SUBSET (1..MaxRuns)]

\* A prompt appended to a clean thread is never lost: whatever later runs,
\* kills, half-written lines, recoveries, compactions and forks do, the
\* thread holds it or a summary made of it.
SoundPromptKept == \A s \in Sessions : \A r \in sound[s] : Tells(thread[s], r)

\* Such a run works on a history that holds its own prompt.
PromptReachesModel ==
    \A s \in Sessions :
        (phase[s] = "running" /\ run[s] \in sound[s]) => Tells(context[s], run[s])

\* Whatever a kill, a half-written line or a glued one has left, recovering a
\* thread leaves no damaged line, half message or open call, so recovering it
\* again after a kill inside the recovery changes nothing more.
RecoveryTidies ==
    \A s \in Sessions :
        LET t == Recovered(thread[s]) IN ~Damaged(t) /\ Pending(t, Len(t)) = {}

Busy(s) == phase[s] # "idle" \/ compacting[s]

\* A session taken by a message or a compaction becomes free again, however
\* it ends: no path keeps the lock.
SessionFreed == \A s \in Sessions : Busy(s) ~> ~Busy(s)

\* docs/IMPLEMENTATION_PROGRESS.md:29: a cancelled run leaves no orphaned
\* tool call in the thread.
CancelTidies ==
    [][\A s \in Sessions : Interrupt(s) => Clean(thread[s])]_vars

\* docs/IMPLEMENTATION_PROGRESS.md:29: a cold start leaves no half-written
\* message in any thread.
ColdStartTidies == [][Up => \A s \in Sessions : ~Damaged(thread[s])]_vars
=============================================================================
