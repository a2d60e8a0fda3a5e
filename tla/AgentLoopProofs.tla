-------------------------- MODULE AgentLoopProofs --------------------------
(***************************************************************************)
(* What TLAPS proves of one run of the agent, for every limit, every past  *)
(* of the session and every set of tool-call lists: type correctness, the  *)
(* bound on the steps, that the model is only given paired calls and       *)
(* results, that the transcript mirrors the context, that a serial call    *)
(* runs alone, that the repair of a transcript hands on what can be        *)
(* replayed and drops one step at most, and that a verdict is final.       *)
(* And of the interface in front of it (module Tui), for every bound and   *)
(* every set of messages: type correctness, that a request shown and still *)
(* open can be decided, and that the interface comes to rest ready.        *)
(***************************************************************************)
EXTENDS AgentLoop, Tui, SequenceTheorems, FiniteSetTheorems, TLAPS

-----------------------------------------------------------------------------
(* The operators on histories keep a history a sequence of messages.        *)

\* Every message constructor yields a message.
LEMMA MessageTypes ==
    ASSUME NEW s \in Nat
    PROVE  /\ UserText(s) \in Messages
           /\ Ack \in Messages
           /\ \A ids \in SUBSET (Nat \X Nat) : Results(s, ids) \in Messages
           /\ \A text \in BOOLEAN, n \in Nat :
                 /\ AssistantMsg(s, text, n) \in Messages
                 /\ AssistantMsg(s, text, n).ids \in SUBSET (Nat \X Nat)
<1>1. \A n \in Nat : {CallId(s, k) : k \in 1..n} \in SUBSET (Nat \X Nat)
  BY DEF CallId
<1>2. UserText(s) \in Messages /\ Ack \in Messages
  BY DEF UserText, Ack, Messages
<1>3. \A ids \in SUBSET (Nat \X Nat) : Results(s, ids) \in Messages
  BY DEF Results, Messages
<1>4. ASSUME NEW text \in BOOLEAN, NEW n \in Nat
      PROVE  /\ AssistantMsg(s, text, n) \in Messages
             /\ AssistantMsg(s, text, n).ids \in SUBSET (Nat \X Nat)
  BY <1>1 DEF AssistantMsg, Messages
<1>. QED
  BY <1>2, <1>3, <1>4

\* add_tool_result, in the context and in the transcript.
LEMMA AddResultsType ==
    ASSUME NEW msgs \in Seq(Messages), NEW s \in Nat, NEW ids \in SUBSET (Nat \X Nat)
    PROVE  /\ AddResults(msgs, s, ids) \in Seq(Messages)
           /\ AddResultRows(msgs, s, ids) \in Seq(Messages)
<1>1. Append(msgs, Results(s, ids)) \in Seq(Messages)
  <2>1. Results(s, ids) \in Messages
    BY MessageTypes
  <2>. QED
    BY <2>1, AppendProperties
<1>2. CASE msgs = <<>>
  BY <1>1, <1>2 DEF AddResults, AddResultRows
<1>3. CASE msgs # <<>>
  <2>1. Len(msgs) \in 1..Len(msgs) /\ msgs[Len(msgs)] \in Messages
    BY <1>3, EmptySeq, LenProperties
  <2>2. [msgs[Len(msgs)] EXCEPT !.ids = @ \cup ids] \in Messages
    BY <2>1 DEF Messages
  <2>3. [msgs EXCEPT ![Len(msgs)].ids = @ \cup ids] \in Seq(Messages)
    BY <2>1, <2>2, ExceptSeq
  <2>. QED
    BY <1>1, <2>3 DEF AddResults, AddResultRows
<1>. QED
  BY <1>2, <1>3

\* append_assistant.
LEMMA AddAssistantType ==
    ASSUME NEW msgs \in Seq(Messages), NEW m \in Messages
    PROVE  /\ Append(msgs, m) \in Seq(Messages)
           /\ AddAssistantRows(msgs, m) \in Seq(Messages)
BY AppendProperties DEF AddAssistantRows

\* A compaction yields a history.
LEMMA CompactionType ==
    ASSUME NEW msgs \in Seq(Messages), NEW force \in BOOLEAN,
           NEW m \in Compactions(msgs, force)
    PROVE  m \in Seq(Messages)
<1>0. Len(msgs) \in Nat
  BY LenProperties
<1>1. PICK k \in 1..Len(msgs) + 1 : m = SummaryOf(msgs, k)
  <2>1. CASE force
    BY <1>0, <2>1 DEF Compactions
  <2>2. CASE ~force
    BY <1>0, <2>2 DEF Compactions
  <2>. QED
    BY <2>1, <2>2
<1>2. SubSeq(msgs, k, Len(msgs)) \in Seq(Messages)
  <2>1. \A i \in k..Len(msgs) : msgs[i] \in Messages
    BY <1>0, ElementOfSeq
  <2>. QED
    BY <1>0, <2>1, SubSeqProperties
<1>3. <<UserText(0), Ack>> \in Seq(Messages)
  BY MessageTypes
<1>. QED
  BY <1>1, <1>2, <1>3, ConcatProperties DEF SummaryOf

\* A repair keeps the rows up to some place.
LEMMA RepairType ==
    ASSUME NEW rows \in Seq(Messages), NEW repaired, Recovered(rows, repaired)
    PROVE  /\ repaired \in Seq(Messages)
           /\ \E n \in 0..Len(rows) :
                 /\ Len(repaired) = n /\ \A i \in 1..n : repaired[i] = rows[i]
                 /\ \/ n = Len(rows) /\ Pending(rows, Len(rows)) = {}
                    \/ n \in CutMarks(rows) /\ \A m \in CutMarks(rows) : n <= m
<1>0. Len(rows) \in Nat
  BY LenProperties
<1>1. CASE Pending(rows, Len(rows)) = {} /\ repaired = rows
  <2>1. Len(rows) \in 0..Len(rows)
    BY <1>0
  <2>. QED
    BY <1>1, <2>1
<1>2. CASE ~(Pending(rows, Len(rows)) = {} /\ repaired = rows)
  <2>1. PICK n \in CutMarks(rows) :
           (\A m \in CutMarks(rows) : n <= m) /\ repaired = SubSeq(rows, 1, n)
    BY <1>2 DEF Recovered
  <2>2. n \in 0..Len(rows)
    BY <1>0 DEF CutMarks, StillOpen
  <2>3. \A i \in 1..n : rows[i] \in Messages
    BY <1>0, <2>2, ElementOfSeq
  <2>4. /\ SubSeq(rows, 1, n) \in Seq(Messages)
        /\ Len(SubSeq(rows, 1, n)) = IF 1 <= n THEN n - 1 + 1 ELSE 0
        /\ \A i \in 1..n - 1 + 1 : SubSeq(rows, 1, n)[i] = rows[1 + i - 1]
    BY <1>0, <2>2, <2>3, SubSeqProperties
  <2>5. n \in Nat
    BY <1>0, <2>2
  <2>6. /\ repaired \in Seq(Messages) /\ Len(repaired) = n
        /\ \A i \in 1..n : repaired[i] = rows[i]
    BY <2>1, <2>4, <2>5
  <2>. QED
    BY <2>1, <2>2, <2>6
<1>. QED
  BY <1>1, <1>2

\* What an earlier run left is a history.
LEMMA PastType ==
    ASSUME NEW h \in Histories
    PROVE  /\ h \in Seq(Messages) /\ Replayable(h) /\ OwnIds(h)
           /\ Len(h) \in Nat /\ \A i \in 1..Len(h) : h[i].step = 0
<1>1. h \in Seq(PastMessages) /\ Replayable(h) /\ OwnIds(h) /\ Len(h) \in Nat
  BY HistoriesAssumption, LenProperties
<1>2. \A i \in 1..Len(h) : h[i] \in PastMessages
  BY <1>1, ElementOfSeq
<1>3. \A m \in PastMessages : m \in Messages /\ m.step = 0
  BY DEF PastMessages, Messages
<1>4. h \in Seq(Messages)
  BY <1>1, <1>2, <1>3, SeqDef
<1>. QED
  BY <1>1, <1>2, <1>3, <1>4

-----------------------------------------------------------------------------
(* Type correctness                                                         *)

\* The calls of a response, and the batch the act phase is in.
LEMMA ToolCallTypes ==
    \A tcs \in ToolCalls : Len(tcs) \in Nat /\ tcs \in Seq({"par", "ser"})
BY ToolCallsAssumption, LenProperties

\* The initial state is well typed.
LEMMA InitType == Init => TypeOK
<1>. SUFFICES ASSUME Init PROVE TypeOK
  OBVIOUS
<1>1. ControlOK
  <2>1. calls \in Seq({"par", "ser"}) /\ Len(calls) = 0
    BY EmptySeq DEF Init
  <2>2. got \in [1..Len(calls) -> Outcomes \cup {"wait"}]
    BY <2>1 DEF Init
  <2>3. attempt \in 0..MaxAttempts - 1 /\ defers \in 0..MaxDefers
    BY LimitsAssumption DEF Init
  <2>4. next \in 1..Len(calls) + 1 /\ (pc = "act" => next <= Len(calls)) /\ step \in Nat
    BY <2>1 DEF Init
  <2>5. /\ pc = "prompt" /\ status = "running" /\ reason = "none" /\ reported = "none"
        /\ overflowed = FALSE /\ children = FALSE /\ cancelled = FALSE
        /\ recovered = FALSE /\ lastSnap \in Todos /\ todo \in Todos
    BY DEF Init, Todos
  <2>. QED
    BY <2>1, <2>2, <2>3, <2>4, <2>5, Zenon DEF ControlOK
<1>2. ctx \in Seq(Messages) /\ thread = ctx /\ stray = {}
  BY PastType DEF Init
<1>. QED
  BY <1>1, <1>2 DEF TypeOK, HistoryOK

\* The verdict a settled step leaves.
LEMMA VerdictType ==
    ASSUME status \in {"running", "success", "failed"},
           reason \in {"none", "llm_error", "exceeded_max_steps",
                       "permission_required", "cancelled"},
           \/ KeepStatus \/ StepLimit \/ \E r \in BOOLEAN : Settle(r)
           \/ \E r \in {"llm_error", "cancelled", "permission_required"} :
                 MarkFailed(r) \/ FailIfRunning(r)
    PROVE  /\ status' \in {"running", "success", "failed"}
           /\ reason' \in {"none", "llm_error", "exceeded_max_steps",
                           "permission_required", "cancelled"}
BY DEF KeepStatus, StepLimit, Settle, MarkFailed, FailIfRunning

\* Every step of the loop and of its runner keeps the types.
LEMMA NextType == TypeOK /\ [Next]_vars => TypeOK'
<1>. SUFFICES ASSUME TypeOK, [Next]_vars PROVE TypeOK'
  OBVIOUS
<1>. USE DEF TypeOK, ControlOK, HistoryOK, Suspend, runVars, todoVars, actVars, msgVars
<1>1. CASE PromptSubmitted
  BY <1>1 DEF PromptSubmitted
<1>2. CASE RunStarted
  BY <1>2, LimitsAssumption DEF RunStarted, EnterStep, KeepStatus, MarkFailed
<1>3. CASE StepStarted
  BY <1>3 DEF StepStarted
<1>4. CASE ChatRetry
  BY <1>4, LimitsAssumption DEF ChatRetry
<1>5. CASE ChatFails
  BY <1>5 DEF ChatFails, KeepStatus, MarkFailed
<1>6. CASE ChatToolUse
  <2>1. PICK text \in BOOLEAN, tcs \in ToolCalls \ {<<>>} :
           /\ Observe(text, Len(tcs))
           /\ calls' = tcs /\ next' = 1 /\ got' = [k \in 1..Len(tcs) |-> "wait"]
    BY <1>6 DEF ChatToolUse
  <2>2. HistoryOK'
    BY <1>6, <2>1, ToolCallTypes, MessageTypes, AddAssistantType DEF ChatToolUse, Observe
  <2>3. tcs \in Seq({"par", "ser"}) /\ Len(tcs) \in Nat /\ 1 <= Len(tcs)
    BY ToolCallTypes, EmptySeq
  <2>4. ControlOK'
    BY <1>6, <2>1, <2>3 DEF ChatToolUse
  <2>. QED
    BY <2>2, <2>4
<1>7. CASE ChatCutOff
  <2>1. PICK stop \in {"max_tokens", "other"}, text \in BOOLEAN, tcs \in ToolCalls \cup {<<>>} :
           LET msg == AssistantMsg(step, text, Len(tcs))
               rows == AddAssistantRows(thread, msg)
           IN  IF NeedsErrorResults(stop, tcs)
               THEN /\ ctx' = AddResults(Append(ctx, msg), step, msg.ids)
                    /\ thread' = AddResultRows(rows, step, msg.ids)
                    /\ UNCHANGED stray
               ELSE /\ ctx' = Append(ctx, msg) /\ thread' = rows
                    /\ IF stop = "other" THEN LeftOpen(tcs) ELSE UNCHANGED stray
    BY <1>7 DEF ChatCutOff
  <2>. DEFINE msg == AssistantMsg(step, text, Len(tcs))
  <2>2. Len(tcs) \in Nat
    BY ToolCallTypes
  <2>3. msg \in Messages /\ msg.ids \in SUBSET (Nat \X Nat)
    BY <2>2, MessageTypes
  <2>4. Append(ctx, msg) \in Seq(Messages) /\ AddAssistantRows(thread, msg) \in Seq(Messages)
    BY <2>3, AddAssistantType
  <2>5. HistoryOK'
    <3>. DEFINE rows == AddAssistantRows(thread, msg)
    <3>1. step \in Nat
      OBVIOUS
    <3>2. /\ AddResults(Append(ctx, msg), step, msg.ids) \in Seq(Messages)
          /\ AddResultRows(rows, step, msg.ids) \in Seq(Messages)
      BY <2>3, <2>4, <3>1, AddResultsType
    <3>3. stray' \in SUBSET Nat
      BY <2>1, <3>1 DEF LeftOpen
    <3>4. CASE NeedsErrorResults(stop, tcs)
      BY <2>1, <3>2, <3>3, <3>4
    <3>5. CASE ~NeedsErrorResults(stop, tcs)
      BY <2>1, <2>4, <3>3, <3>5
    <3>. QED
      BY <3>4, <3>5
  <2>6. ControlOK'
    BY <1>7, VerdictType DEF ChatCutOff
  <2>. QED
    BY <2>5, <2>6
<1>8. CASE EndTurnDeferred
  <2>1. PICK text \in BOOLEAN, tcs \in ToolCalls \cup {<<>>} :
           LET msg == AssistantMsg(step, text, Len(tcs))
           IN  /\ ctx' = ctx \o <<msg, UserText(step)>>
               /\ thread' = AddResultRows(AddAssistantRows(thread, msg), step, {Reminder})
               /\ LeftOpen(tcs)
    BY <1>8 DEF EndTurnDeferred
  <2>. DEFINE msg == AssistantMsg(step, text, Len(tcs))
  <2>2. msg \in Messages /\ UserText(step) \in Messages
    BY ToolCallTypes, MessageTypes
  <2>3. ctx' \in Seq(Messages)
    BY <2>1, <2>2, ConcatProperties
  <2>4. thread' \in Seq(Messages)
    <3>1. AddAssistantRows(thread, msg) \in Seq(Messages)
      BY <2>2, AddAssistantType
    <3>2. {Reminder} \in SUBSET (Nat \X Nat)
      BY DEF Reminder
    <3>. QED
      BY <2>1, <3>1, <3>2, AddResultsType
  <2>5. ControlOK'
    BY <1>8, LimitsAssumption DEF EndTurnDeferred, ShouldDefer
  <2>6. stray' \in SUBSET Nat
    BY <2>1 DEF LeftOpen
  <2>. QED
    BY <2>3, <2>4, <2>5, <2>6
<1>9. CASE EndTurn \/ ChatNoCalls
  <2>1. PICK text \in BOOLEAN, tcs \in ToolCalls \cup {<<>>} :
           Observe(text, Len(tcs)) /\ (LeftOpen(tcs) \/ UNCHANGED stray)
    <3>1. Len(<<>>) = 0
      OBVIOUS
    <3>. QED
      BY <1>9, <3>1, Zenon DEF EndTurn, ChatNoCalls
  <2>2. HistoryOK'
    <3>1. stray' \in SUBSET Nat
      BY <2>1 DEF LeftOpen
    <3>. QED
      BY <2>1, <3>1, ToolCallTypes, MessageTypes, AddAssistantType DEF Observe
  <2>3. ControlOK'
    BY <1>9, VerdictType DEF EndTurn, ChatNoCalls
  <2>. QED
    BY <2>2, <2>3
<1>10. ASSUME NEW k \in 1..Len(calls), NEW o \in Outcomes, ToolReturns(k, o)
       PROVE  TypeOK'
  BY <1>10, ZenonT(30) DEF ToolReturns, ChangeTodos
<1>11. CASE RecordBatch
  <2>1. HistoryOK'
    <3>. DEFINE ids == {CallId(step, k) : k \in Recorded}
    <3>1. ids \in SUBSET (Nat \X Nat)
      BY DEF CallId, Recorded, Batch
    <3>. QED
      BY <1>11, <3>1, AddResultsType DEF RecordBatch
  <2>2. next' \in 1..Len(calls) + 1
    BY <1>11 DEF RecordBatch, LastRecorded, Recorded, Batch
  <2>3. ControlOK'
    BY <1>11, <2>2, VerdictType DEF RecordBatch
  <2>. QED
    BY <2>1, <2>3
<1>12. CASE OverflowCompacted
  <2>1. HistoryOK'
    BY <1>12, CompactionType DEF OverflowCompacted, Compacted
  <2>. QED
    BY <1>12, <2>1 DEF OverflowCompacted
<1>13. CASE OverflowDeclined
  BY <1>13 DEF OverflowDeclined, MarkFailed
<1>14. CASE AutoCompact
  <2>1. HistoryOK'
    BY <1>14, CompactionType DEF AutoCompact, Compacted
  <2>. QED
    BY <1>14, <2>1 DEF AutoCompact
<1>15. CASE StepFinished
  BY <1>15, LimitsAssumption DEF StepFinished, NextStepOrStop, EnterStep
<1>16. CASE StopHooks
  BY <1>16 DEF StopHooks
<1>17. CASE RunFinished
  <2>1. HistoryOK'
    BY <1>17, RepairType DEF RunFinished
  <2>. QED
    BY <1>17, <2>1 DEF RunFinished
<1>18. CASE Cancel
  BY <1>18, VerdictType DEF Cancel
<1>19. CASE CancelOutside
  BY <1>19 DEF CancelOutside
<1>20. CASE RunRaises
  BY <1>20, VerdictType DEF RunRaises
<1>21. CASE SubagentUpdatesTodo
  BY <1>21 DEF SubagentUpdatesTodo, ChangeTodos
<1>22. CASE Done \/ UNCHANGED vars
  <2>1. UNCHANGED vars
    BY <1>22 DEF Done
  <2>2. HistoryOK'
    BY <2>1 DEF vars
  <2>3. ControlOK'
    BY <2>1 DEF vars
  <2>. QED
    BY <2>2, <2>3
<1>. QED
  BY <1>1, <1>2, <1>3, <1>4, <1>5, <1>6, <1>7, <1>8, <1>9, <1>10, <1>11, <1>12,
     <1>13, <1>14, <1>15, <1>16, <1>17, <1>18, <1>19, <1>20, <1>21, <1>22
     DEF Next, Progress

\* The run's variables keep their types.
THEOREM TypeCorrect == Spec => []TypeOK
<1>1. QED
  BY InitType, NextType, PTL DEF Spec

-----------------------------------------------------------------------------
(* The histories: what the context and the transcript hold at each await    *)

\* Message i has the answers to its calls in the next one, and what it answers
\* itself is the calls of the message before; S holds the steps whose calls
\* nobody answers.
Paired(msgs, i, S) ==
    /\ Uses(msgs, i) # {} /\ msgs[i].step \notin S =>
          i < Len(msgs) /\ Answers(msgs, i + 1) = Uses(msgs, i)
    /\ Answers(msgs, i) # {} =>
          \/ msgs[i].ids = {Reminder}
          \/ i > 1 /\ Uses(msgs, i - 1) = Answers(msgs, i)
Ready(msgs, S) == \A i \in 1..Len(msgs) : Paired(msgs, i, S)

\* Only the past holds reminders that are stored as results.
OnlyPast(msgs) ==
    \A i \in 1..Len(msgs) : Answers(msgs, i) = {Reminder} => msgs[i].step = 0

\* A step whose calls nobody answers has no results, but perhaps a reminder.
StrayAlone(msgs, S) ==
    \A i \in 1..Len(msgs) :
        msgs[i].kind = "results" /\ msgs[i].step \in S => msgs[i].ids = {Reminder}
Ascending(msgs) == \A i, j \in 1..Len(msgs) : i <= j => msgs[i].step <= msgs[j].step
Shape(msgs, S) == OwnIds(msgs) /\ StrayAlone(msgs, S) /\ Ascending(msgs)

\* The act phase: the last response of the history is being answered, and the
\* results of the batches before the next call stand behind it.
CallIds(n) == {CallId(step, j) : j \in 1..n}
Answering(msgs) ==
    \E k \in 1..Len(msgs) :
        /\ msgs[k].kind = "assistant" /\ msgs[k].ids = CallIds(Len(calls))
        /\ msgs[k].step = step
        /\ \A i \in 1..k - 1 : Paired(msgs, i, stray)
        /\ next = 1 => k = Len(msgs)
        /\ next > 1 => /\ k = Len(msgs) - 1 /\ msgs[Len(msgs)].kind = "results"
                       /\ msgs[Len(msgs)].ids = CallIds(next - 1)
                       /\ msgs[Len(msgs)].step = step

\* Only calls of the batch that is waited for have returned.
OthersWait == \A j \in next..Len(calls) : j \notin Batch(next) => got[j] = "wait"

Acting == pc = "act" => Answering(ctx) /\ Answering(thread) /\ OthersWait

\* Between the act phases the model may be called.
Quiet == {"prompt", "start", "begin", "chat", "overflow", "compact"}
ReadyBetween ==
    (pc \in Quiet \/ (pc = "finish" /\ status = "running")) =>
        Ready(ctx, stray) /\ Ready(thread, stray)

Writing == {"prompt", "start", "begin", "chat", "overflow", "act", "compact", "finish"}
Mirroring == pc \in Writing => Mirrors(thread, ctx)

\* No message is of a step to come.
UpTo(msgs, n) == \A i \in 1..Len(msgs) : msgs[i].step <= n
Dated ==
    /\ \A s \in stray : s <= step
    /\ pc \in {"begin", "chat", "act"} => step > 0 /\ \A s \in stray : s < step
    /\ pc \in {"begin", "chat"} => UpTo(ctx, step - 1) /\ UpTo(thread, step - 1)
    /\ pc \in Writing => UpTo(ctx, step) /\ Shape(ctx, stray) /\ OnlyPast(ctx)
    /\ pc # "ended" => UpTo(thread, step) /\ Shape(thread, stray)

\* What a run that stops in an act phase leaves: its last response, answered in
\* part or not at all.
Halved(msgs, n, S) ==
    \E k \in 1..Len(msgs) :
        /\ msgs[k].kind = "assistant" /\ msgs[k].step = n
        /\ \A i \in 1..k - 1 : Paired(msgs, i, S)
        /\ \/ k = Len(msgs)
           \/ /\ k + 1 = Len(msgs) /\ msgs[Len(msgs)].kind = "results"
              /\ msgs[Len(msgs)].ids \subseteq msgs[k].ids
Left == pc # "ended" => Ready(thread, stray) \/ Halved(thread, step, stray)

HistoryInv == Acting /\ ReadyBetween /\ Mirroring /\ Dated /\ Left

\* The longer history is the shorter one and a message.
Extends(t, s, m) ==
    /\ t \in Seq(Messages) /\ m \in Messages
    /\ Len(t) = Len(s) + 1 /\ t[Len(t)] = m
    /\ \A i \in 1..Len(s) : t[i] = s[i]

\* The last message of a history got more results.
Widens(t, s, ids) ==
    /\ t \in Seq(Messages) /\ Len(s) > 0 /\ Len(t) = Len(s)
    /\ s[Len(s)].kind = "results"
    /\ t[Len(s)] = [s[Len(s)] EXCEPT !.ids = @ \cup ids]
    /\ \A i \in 1..Len(s) : i # Len(s) => t[i] = s[i]

\* Appending a message.
LEMMA AppendExtends ==
    ASSUME NEW s \in Seq(Messages), NEW m \in Messages
    PROVE  Extends(Append(s, m), s, m)
BY AppendProperties DEF Extends

\* add_tool_result, in the context and in the transcript.
LEMMA ResultsAdded ==
    ASSUME NEW s \in Seq(Messages), NEW n \in Nat, NEW ids \in SUBSET (Nat \X Nat)
    PROVE  /\ Len(s) > 0 /\ s[Len(s)].kind = "results" => Widens(AddResults(s, n, ids), s, ids)
           /\ ~(Len(s) > 0 /\ s[Len(s)].kind = "results") =>
                Extends(AddResults(s, n, ids), s, Results(n, ids))
           /\ Len(s) > 0 /\ s[Len(s)].kind = "results" /\ s[Len(s)].step = n =>
                Widens(AddResultRows(s, n, ids), s, ids)
           /\ ~(Len(s) > 0 /\ s[Len(s)].kind = "results" /\ s[Len(s)].step = n) =>
                Extends(AddResultRows(s, n, ids), s, Results(n, ids))
<1>1. Results(n, ids) \in Messages
  BY MessageTypes
<1>2. Extends(Append(s, Results(n, ids)), s, Results(n, ids))
  BY <1>1, AppendExtends
<1>3. Len(s) \in Nat /\ (s = <<>> <=> Len(s) = 0)
  BY EmptySeq, LenProperties
<1>4. ASSUME Len(s) > 0, s[Len(s)].kind = "results"
      PROVE  Widens([s EXCEPT ![Len(s)].ids = @ \cup ids], s, ids)
  <2>1. Len(s) \in 1..Len(s) /\ s[Len(s)] \in Messages
    BY <1>3, <1>4, ElementOfSeq
  <2> DEFINE w == [s[Len(s)] EXCEPT !.ids = @ \cup ids]
             t == [s EXCEPT ![Len(s)] = w]
  <2>2. w \in Messages
    BY <2>1 DEF Messages
  <2>3. /\ t \in Seq(Messages) /\ Len(t) = Len(s) /\ t[Len(s)] = w
        /\ \A i \in 1..Len(s) : i # Len(s) => t[i] = s[i]
    <3> HIDE DEF w
    <3> QED BY <2>1, <2>2, ExceptSeq
  <2>4. Widens(t, s, ids)
    BY <1>4, <2>3, Zenon DEF Widens
  <2> QED BY <2>4
<1> QED
  BY <1>2, <1>3, <1>4 DEF AddResults, AddResultRows

-----------------------------------------------------------------------------
(* The transcript mirrors the context                                       *)

\* The messages shown up to a place can be counted, and the places ascend.
LEMMA Places ==
    ASSUME NEW s \in Seq(Messages)
    PROVE  /\ IsFiniteSet(Shown(s)) /\ Cardinality(Shown(s)) \in Nat
           /\ \A i \in Shown(s) : Place(s, i) \in Nat /\ Place(s, i) <= Cardinality(Shown(s))
           /\ \A i, j \in Shown(s) : i < j => Place(s, i) < Place(s, j)
           /\ \A i \in Shown(s) : i # Len(s) /\ Len(s) \in Shown(s) =>
                Place(s, i) < Cardinality(Shown(s))
           /\ Len(s) \in Shown(s) => Place(s, Len(s)) = Cardinality(Shown(s))
<1>1. Len(s) \in Nat /\ Shown(s) \subseteq 1..Len(s)
  BY LenProperties DEF Shown
<1>2. IsFiniteSet(Shown(s)) /\ Cardinality(Shown(s)) \in Nat
  <2>1. IsFiniteSet(1..Len(s))
    BY <1>1, FS_Interval
  <2> QED BY <1>1, <2>1, FS_Subset, FS_CardinalityType
<1> DEFINE Upto(i) == {j \in Shown(s) : j <= i}
<1>3. \A i : /\ IsFiniteSet(Upto(i)) /\ Cardinality(Upto(i)) \in Nat
             /\ Cardinality(Upto(i)) <= Cardinality(Shown(s))
             /\ Cardinality(Upto(i)) = Cardinality(Shown(s)) => Upto(i) = Shown(s)
  BY <1>2, FS_Subset, FS_CardinalityType
<1>4. ASSUME NEW i \in Shown(s), NEW j \in Shown(s), i < j
      PROVE  Cardinality(Upto(i)) < Cardinality(Upto(j))
  <2>1. Upto(i) \in SUBSET Upto(j) /\ j \in Upto(j) /\ j \notin Upto(i)
    BY <1>1, <1>4
  <2>2. Upto(i) # Upto(j)
    BY <2>1
  <2> HIDE DEF Upto
  <2>3. /\ Cardinality(Upto(i)) <= Cardinality(Upto(j))
        /\ Cardinality(Upto(i)) # Cardinality(Upto(j))
    BY <1>3, <2>1, <2>2, FS_Subset
  <2> QED BY <1>3, <2>3
<1>5. Len(s) \in Shown(s) => Upto(Len(s)) = Shown(s)
  BY <1>1
<1>6. ASSUME NEW i \in Shown(s), i # Len(s), Len(s) \in Shown(s)
      PROVE  Cardinality(Upto(i)) < Cardinality(Shown(s))
  <2>1. i < Len(s)
    BY <1>1, <1>6
  <2> HIDE DEF Upto
  <2> QED BY <1>4, <1>5, <1>6, <2>1
<1>7. \A i : Place(s, i) = Cardinality(Upto(i))
  BY DEF Place
<1> HIDE DEF Upto
<1> QED
  BY <1>2, <1>3, <1>4, <1>5, <1>6, <1>7

\* What a message more does to the places.
LEMMA PlacesExtended ==
    ASSUME NEW s \in Seq(Messages), NEW t, NEW m, Extends(t, s, m)
    PROVE  /\ Len(s) \in Nat /\ Len(t) = Len(s) + 1
           /\ m.kind = "empty" => Shown(t) = Shown(s)
           /\ m.kind # "empty" =>
                /\ Len(t) \in Shown(t) /\ Shown(t) = Shown(s) \cup {Len(t)}
                /\ Cardinality(Shown(t)) = Cardinality(Shown(s)) + 1
           /\ \A i \in Shown(s) : i \in 1..Len(s) /\ t[i] = s[i] /\ Place(t, i) = Place(s, i)
<1>1. Len(s) \in Nat /\ Len(t) = Len(s) + 1 /\ t[Len(t)] = m
  BY LenProperties DEF Extends
<1>2. \A i \in 1..Len(t) : (i \in 1..Len(s) /\ t[i] = s[i]) \/ i = Len(t)
  BY <1>1 DEF Extends
<1>3. \A i \in 1..Len(s) : i \in 1..Len(t) /\ i # Len(t) /\ i < Len(t) /\ t[i] = s[i]
  BY <1>1 DEF Extends
<1>4. m.kind = "empty" => Shown(t) = Shown(s)
  BY <1>1, <1>2, <1>3 DEF Shown
<1>5. m.kind # "empty" => Shown(t) = Shown(s) \cup {Len(t)} /\ Len(t) \notin Shown(s)
  BY <1>1, <1>2, <1>3 DEF Shown
<1>6. m.kind # "empty" => Cardinality(Shown(t)) = Cardinality(Shown(s)) + 1
  BY <1>5, Places, FS_AddElement
<1>7. \A i \in Shown(s) : {j \in Shown(t) : j <= i} = {j \in Shown(s) : j <= i}
  <2>1. \A i \in Shown(s) : i \in 1..Len(s)
    BY DEF Shown
  <2>2. \A i \in Shown(s) : ~(Len(t) <= i)
    BY <1>1, <2>1
  <2> QED BY <1>4, <1>5, <2>2
<1>8. \A i \in Shown(s) : i \in 1..Len(s) /\ t[i] = s[i] /\ Place(t, i) = Place(s, i)
  BY <1>3, <1>7 DEF Place, Shown
<1> QED
  BY <1>1, <1>4, <1>5, <1>6, <1>8

\* A message more in both.
LEMMA MirrorsExtended ==
    ASSUME NEW r \in Seq(Messages), NEW c \in Seq(Messages), Mirrors(r, c),
           NEW r2, NEW c2, NEW x, NEW y, Extends(r2, r, x), Extends(c2, c, y),
           x.kind # "empty", y.kind # "empty", x \in {y, AsRow(y)}
    PROVE  Mirrors(r2, c2)
<1>1. r2 \in Seq(Messages) /\ c2 \in Seq(Messages) /\ r2[Len(r2)] = x /\ c2[Len(c2)] = y
  BY DEF Extends
<1>2. Cardinality(Shown(r2)) = Cardinality(Shown(c2))
  BY PlacesExtended DEF Mirrors
<1> SUFFICES ASSUME NEW i \in Shown(r2), NEW j \in Shown(c2), Place(r2, i) = Place(c2, j)
             PROVE  r2[i] \in {c2[j], AsRow(c2[j])}
  BY <1>2 DEF Mirrors
<1>3. i = Len(r2) <=> j = Len(c2)
  <2>1. /\ Place(r2, i) = Cardinality(Shown(r2)) <=> i = Len(r2)
        /\ Place(c2, j) = Cardinality(Shown(c2)) <=> j = Len(c2)
    <3>1. Len(r2) \in Shown(r2) /\ Len(c2) \in Shown(c2)
      BY PlacesExtended
    <3>2. /\ Place(r2, i) \in Nat /\ Cardinality(Shown(r2)) \in Nat
          /\ Place(c2, j) \in Nat /\ Cardinality(Shown(c2)) \in Nat
      BY <1>1, Places
    <3>3. /\ i # Len(r2) => Place(r2, i) < Cardinality(Shown(r2))
          /\ j # Len(c2) => Place(c2, j) < Cardinality(Shown(c2))
      BY <1>1, <3>1, Places
    <3>4. /\ i = Len(r2) => Place(r2, i) = Cardinality(Shown(r2))
          /\ j = Len(c2) => Place(c2, j) = Cardinality(Shown(c2))
      BY <1>1, <3>1, Places
    <3> QED BY <3>2, <3>3, <3>4
  <2> QED BY <1>2, <2>1
<1>4. CASE i = Len(r2) /\ j = Len(c2)
  BY <1>1, <1>4
<1>5. CASE i # Len(r2) /\ j # Len(c2)
  <2>1. i \in Shown(r) /\ j \in Shown(c)
    BY <1>5, PlacesExtended
  <2>2. Place(r, i) = Place(c, j) /\ r2[i] = r[i] /\ c2[j] = c[j]
    BY <2>1, PlacesExtended
  <2> QED BY <2>1, <2>2 DEF Mirrors
<1> QED
  BY <1>3, <1>4, <1>5

\* A message without blocks has no row.
LEMMA MirrorsEmpty ==
    ASSUME NEW r \in Seq(Messages), NEW c \in Seq(Messages), Mirrors(r, c),
           NEW c2, NEW y, Extends(c2, c, y), y.kind = "empty"
    PROVE  Mirrors(r, c2)
BY PlacesExtended DEF Mirrors

\* The same results more in both.
LEMMA MirrorsWidened ==
    ASSUME NEW r \in Seq(Messages), NEW c \in Seq(Messages), Mirrors(r, c), NEW ids,
           NEW r2, NEW c2, Widens(r2, r, ids), Widens(c2, c, ids)
    PROVE  Mirrors(r2, c2)
<1>1. /\ Len(r2) = Len(r) /\ Len(c2) = Len(c) /\ Len(r) \in Nat /\ Len(c) \in Nat
      /\ Len(r) \in 1..Len(r) /\ Len(c) \in 1..Len(c)
      /\ r2 \in Seq(Messages) /\ c2 \in Seq(Messages)
  BY LenProperties DEF Widens
<1>2. r[Len(r)] \in Messages /\ c[Len(c)] \in Messages
  BY <1>1, ElementOfSeq
<1>3. /\ r[Len(r)].kind = "results" /\ r2[Len(r)].kind = "results"
      /\ c[Len(c)].kind = "results" /\ c2[Len(c)].kind = "results"
  BY <1>2 DEF Widens, Messages
<1>4. Shown(r2) = Shown(r) /\ Shown(c2) = Shown(c)
  <2>1. \A i \in 1..Len(r) : r2[i].kind # "empty" <=> r[i].kind # "empty"
    BY <1>3 DEF Widens
  <2>2. \A i \in 1..Len(c) : c2[i].kind # "empty" <=> c[i].kind # "empty"
    BY <1>3 DEF Widens
  <2> QED BY <1>1, <2>1, <2>2 DEF Shown
<1>5. Len(r) \in Shown(r) /\ Len(c) \in Shown(c)
  BY <1>1, <1>3 DEF Shown
<1>6. Place(r, Len(r)) = Place(c, Len(c))
  BY <1>5, Places DEF Mirrors
<1>7. r[Len(r)] = c[Len(c)]
  BY <1>3, <1>5, <1>6 DEF Mirrors, AsRow
<1>8. r2[Len(r)] = c2[Len(c)]
  BY <1>7 DEF Widens
<1> SUFFICES ASSUME NEW i \in Shown(r), NEW j \in Shown(c), Place(r, i) = Place(c, j)
             PROVE  r2[i] \in {c2[j], AsRow(c2[j])}
  BY <1>4 DEF Mirrors, Place
<1>9. i = Len(r) <=> j = Len(c)
  <2>1. /\ Place(r, i) \in Nat /\ Place(c, j) \in Nat
        /\ Cardinality(Shown(r)) \in Nat /\ Cardinality(Shown(c)) \in Nat
        /\ i # Len(r) => Place(r, i) < Cardinality(Shown(r))
        /\ j # Len(c) => Place(c, j) < Cardinality(Shown(c))
        /\ i = Len(r) => Place(r, i) = Cardinality(Shown(r))
        /\ j = Len(c) => Place(c, j) = Cardinality(Shown(c))
    BY <1>5, Places
  <2> QED BY <2>1 DEF Mirrors
<1>10. CASE i # Len(r) /\ j # Len(c)
  <2>1. i \in 1..Len(r) /\ j \in 1..Len(c)
    BY DEF Shown
  <2>2. r2[i] = r[i] /\ c2[j] = c[j]
    BY <1>10, <2>1 DEF Widens
  <2> QED BY <2>2 DEF Mirrors
<1> QED
  BY <1>8, <1>9, <1>10

\* A compaction writes to the transcript what it leaves in the context.
LEMMA MirrorsItself == ASSUME NEW m \in Seq(Messages) PROVE Mirrors(m, m)
<1> SUFFICES ASSUME NEW i \in Shown(m), NEW j \in Shown(m), Place(m, i) = Place(m, j)
             PROVE  i = j
  BY DEF Mirrors
<1>1. /\ Len(m) \in Nat /\ i \in 1..Len(m) /\ j \in 1..Len(m)
      /\ Place(m, i) \in Nat /\ Place(m, j) \in Nat
  <2>1. Place(m, i) \in Nat /\ Place(m, j) \in Nat
    BY Places
  <2> QED BY <2>1, LenProperties DEF Shown
<1>2. ~(i < j) /\ ~(j < i)
  BY <1>1, Places
<1> QED
  BY <1>1, <1>2
-----------------------------------------------------------------------------
(* What the model is given stays paired                                     *)

\* A message more leaves the pairs of the others alone.
LEMMA PairedExtended ==
    ASSUME NEW s \in Seq(Messages), NEW t, NEW m, Extends(t, s, m), NEW S,
           NEW i \in 1..Len(s), Paired(s, i, S)
    PROVE  Paired(t, i, S)
<1>1. Len(s) \in Nat /\ Len(t) = Len(s) + 1
  BY LenProperties DEF Extends
<1>2. \A j \in 1..Len(s) :
         t[j] = s[j] /\ Uses(t, j) = Uses(s, j) /\ Answers(t, j) = Answers(s, j)
  BY DEF Extends, Uses, Answers
<1>3. Uses(s, i) # {} /\ s[i].step \notin S =>
         i < Len(t) /\ i + 1 \in 1..Len(s) /\ Answers(t, i + 1) = Uses(s, i)
  BY <1>1, <1>2 DEF Paired
<1>4. Answers(s, i) # {} => s[i].ids = {Reminder} \/ (i > 1 /\ Uses(t, i - 1) = Answers(s, i))
  BY <1>1, <1>2 DEF Paired
<1> QED
  BY <1>2, <1>3, <1>4 DEF Paired

\* So do more results in the last message, but for the last pair.
LEMMA PairedWidened ==
    ASSUME NEW s \in Seq(Messages), NEW t, NEW ids, Widens(t, s, ids), NEW S,
           NEW i \in 1..Len(s) - 2, Paired(s, i, S)
    PROVE  Paired(t, i, S)
<1>1. Len(s) \in Nat /\ Len(t) = Len(s)
  BY LenProperties DEF Widens
<1>2. \A j \in 1..Len(s) - 1 :
         t[j] = s[j] /\ Uses(t, j) = Uses(s, j) /\ Answers(t, j) = Answers(s, j)
  BY <1>1 DEF Widens, Uses, Answers
<1>3. Uses(s, i) # {} /\ s[i].step \notin S =>
         i < Len(t) /\ i + 1 \in 1..Len(s) - 1 /\ Answers(t, i + 1) = Uses(s, i)
  BY <1>1, <1>2 DEF Paired
<1>4. Answers(s, i) # {} => s[i].ids = {Reminder} \/ (i > 1 /\ Uses(t, i - 1) = Answers(s, i))
  BY <1>1, <1>2 DEF Paired
<1>5. i \in 1..Len(s) - 1
  BY <1>1
<1> QED
  BY <1>2, <1>3, <1>4, <1>5 DEF Paired

\* More steps without answers only ask for less.
LEMMA PairedMore ==
    ASSUME NEW s, NEW S, NEW T, S \subseteq T, NEW i, Paired(s, i, S)
    PROVE  Paired(s, i, T)
BY DEF Paired

\* A history that ends in an answered message can be sent.
LEMMA AnsweredReady ==
    ASSUME NEW s \in Seq(Messages), NEW S, NEW k \in 1..Len(s), k + 1 = Len(s),
           \A i \in 1..k - 1 : Paired(s, i, S),
           s[k].kind = "assistant", s[Len(s)].kind = "results", s[Len(s)].ids = s[k].ids
    PROVE  Ready(s, S)
<1>1. Len(s) \in Nat
  BY LenProperties
<1>2. /\ Uses(s, k) = s[k].ids /\ Answers(s, k) = {}
      /\ Uses(s, k + 1) = {} /\ Answers(s, k + 1) = s[k].ids
  BY DEF Uses, Answers
<1>3. Paired(s, k, S) /\ Paired(s, k + 1, S)
  BY <1>1, <1>2 DEF Paired
<1>4. \A i \in 1..Len(s) : i \in 1..k - 1 \/ i = k \/ i = k + 1
  BY <1>1
<1> QED
  BY <1>3, <1>4 DEF Ready

\* So can one with a message more that neither calls nor answers, or calls
\* without waiting for an answer.
LEMMA PlainReady ==
    ASSUME NEW s \in Seq(Messages), NEW S, NEW t, NEW m, Extends(t, s, m), Ready(s, S),
           \/ m.ids = {}
           \/ m.kind = "results" /\ m.ids = {Reminder}
           \/ m.kind \in {"assistant", "empty"} /\ m.step \in S
    PROVE  Ready(t, S)
<1>1. Len(s) \in Nat /\ Len(t) = Len(s) + 1 /\ t[Len(t)] = m
  BY LenProperties DEF Extends
<1>2. \A i \in 1..Len(s) : Paired(t, i, S)
  BY PairedExtended DEF Ready
<1>3. Paired(t, Len(t), S)
  BY <1>1 DEF Paired, Uses, Answers
<1>4. \A i \in 1..Len(t) : i \in 1..Len(s) \/ i = Len(t)
  BY <1>1
<1> QED
  BY <1>2, <1>3, <1>4 DEF Ready

-----------------------------------------------------------------------------
(* Whose calls and results a history holds                                  *)

\* A message whose ids are its own.
Fits(m, S) ==
    /\ \A id \in m.ids : (id[1] = m.step /\ id[2] > 0) \/ (m.kind = "results" /\ id = Reminder)
    /\ m.kind = "results" /\ m.step \in S => m.ids = {Reminder}

\* A message of the last step more.
LEMMA ShapeExtended ==
    ASSUME NEW s \in Seq(Messages), NEW S, NEW t, NEW m, Extends(t, s, m),
           Shape(s, S), Fits(m, S), UpTo(s, m.step)
    PROVE  Shape(t, S)
<1>1. Len(s) \in Nat /\ Len(t) = Len(s) + 1 /\ t[Len(t)] = m /\ m.step \in Nat
  BY LenProperties DEF Extends, Messages
<1>2. \A i \in 1..Len(t) : (i \in 1..Len(s) /\ t[i] = s[i]) \/ (i = Len(t) /\ t[i] = m)
  BY <1>1 DEF Extends
<1>3. OwnIds(t)
  BY <1>2 DEF Shape, OwnIds, Fits
<1>4. StrayAlone(t, S)
  BY <1>2 DEF Shape, StrayAlone, Fits
<1>5. Ascending(t)
  <2> SUFFICES ASSUME NEW i \in 1..Len(t), NEW j \in 1..Len(t), i <= j
               PROVE  t[i].step <= t[j].step
    BY DEF Ascending
  <2>1. CASE i = Len(t)
    BY <1>1, <2>1
  <2>2. CASE i \in 1..Len(s) /\ j = Len(t)
    BY <1>1, <1>2, <2>2 DEF UpTo
  <2>3. CASE i \in 1..Len(s) /\ j \in 1..Len(s)
    BY <1>1, <1>2, <2>3 DEF Shape, Ascending
  <2> QED BY <1>2, <2>1, <2>2, <2>3
<1> QED
  BY <1>3, <1>4, <1>5 DEF Shape

\* More results of the step the last message is of.
LEMMA ShapeWidened ==
    ASSUME NEW s \in Seq(Messages), NEW S, NEW t, NEW ids, Widens(t, s, ids),
           Shape(s, S), s[Len(s)].step \notin S,
           \A id \in ids : id[1] = s[Len(s)].step /\ id[2] > 0
    PROVE  Shape(t, S)
<1>1. Len(s) \in Nat /\ Len(t) = Len(s) /\ Len(s) \in 1..Len(s)
  BY LenProperties DEF Widens
<1>2. s[Len(s)] \in Messages
  BY <1>1, ElementOfSeq
<1>3. /\ t[Len(s)].kind = "results" /\ t[Len(s)].step = s[Len(s)].step
      /\ t[Len(s)].ids = s[Len(s)].ids \cup ids
  BY <1>2 DEF Widens, Messages
<1>4. \A i \in 1..Len(s) :
         t[i].step = s[i].step /\ t[i].kind = s[i].kind /\ (i # Len(s) => t[i] = s[i])
  BY <1>3 DEF Widens
<1>5. OwnIds(t)
  <2>1. \A id \in t[Len(s)].ids :
           id \in ids \/ (id \in s[Len(s)].ids /\ s[Len(s)].kind = "results")
    BY <1>3 DEF Widens
  <2>2. \A id \in t[Len(s)].ids :
           \/ id[1] = t[Len(s)].step /\ id[2] > 0
           \/ t[Len(s)].kind = "results" /\ id = Reminder
    BY <1>1, <1>3, <2>1 DEF Shape, OwnIds
  <2> QED BY <1>1, <1>4, <2>2 DEF Shape, OwnIds
<1>6. StrayAlone(t, S)
  BY <1>1, <1>4 DEF Shape, StrayAlone
<1>7. Ascending(t)
  BY <1>1, <1>4 DEF Shape, Ascending
<1> QED
  BY <1>5, <1>6, <1>7 DEF Shape

\* A step of which the history holds nothing yet may leave its calls open.
LEMMA ShapeMore ==
    ASSUME NEW s \in Seq(Messages), NEW S, NEW n \in Nat, Shape(s, S), UpTo(s, n - 1)
    PROVE  Shape(s, S \cup {n})
<1>1. \A i \in 1..Len(s) : s[i].step # n
  <2>1. \A i \in 1..Len(s) : s[i] \in Messages
    BY ElementOfSeq
  <2> QED BY <2>1 DEF UpTo, Messages
<1> QED
  BY <1>1 DEF Shape, StrayAlone

\* What OnlyPast says of a history with a message, or results, more.
LEMMA PastKept ==
    ASSUME NEW s \in Seq(Messages), NEW t, OnlyPast(s)
    PROVE  /\ \A m : Extends(t, s, m) /\ ~(m.kind = "results" /\ m.ids = {Reminder}) =>
                OnlyPast(t)
           /\ \A ids : Widens(t, s, ids) /\ (\E id \in ids : id # Reminder) => OnlyPast(t)
<1>0. Len(s) \in Nat
  BY LenProperties
<1>1. ASSUME NEW m, Extends(t, s, m), ~(m.kind = "results" /\ m.ids = {Reminder})
      PROVE  OnlyPast(t)
  <2>1. \A i \in 1..Len(t) : (i \in 1..Len(s) /\ t[i] = s[i]) \/ t[i] = m
    BY <1>0, <1>1 DEF Extends
  <2> QED BY <1>1, <2>1 DEF OnlyPast, Answers
<1>2. ASSUME NEW ids, Widens(t, s, ids), \E id \in ids : id # Reminder
      PROVE  OnlyPast(t)
  <2>1. s[Len(s)] \in Messages
    BY <1>0, <1>2, ElementOfSeq DEF Widens
  <2>2. t[Len(s)].ids = s[Len(s)].ids \cup ids
    BY <1>2, <2>1 DEF Widens, Messages
  <2>3. t[Len(s)].ids # {Reminder}
    BY <1>2, <2>2
  <2>4. \A i \in 1..Len(t) : i \in 1..Len(s) /\ (i = Len(s) \/ t[i] = s[i])
    BY <1>2 DEF Widens
  <2> QED BY <2>3, <2>4 DEF OnlyPast, Answers
<1> QED
  BY <1>1, <1>2

\* The steps of a history with a message, or results, more.
LEMMA UpToKept ==
    ASSUME NEW s \in Seq(Messages), NEW n \in Nat, UpTo(s, n), NEW t
    PROVE  /\ \A m : Extends(t, s, m) /\ m.step <= n => UpTo(t, n)
           /\ \A ids : Widens(t, s, ids) => UpTo(t, n)
<1>0. Len(s) \in Nat
  BY LenProperties
<1>1. ASSUME NEW m, Extends(t, s, m), m.step <= n PROVE UpTo(t, n)
  BY <1>0, <1>1 DEF UpTo, Extends
<1>2. ASSUME NEW ids, Widens(t, s, ids) PROVE UpTo(t, n)
  <2>1. s[Len(s)] \in Messages /\ Len(s) \in 1..Len(s)
    BY <1>0, <1>2, ElementOfSeq DEF Widens
  <2>2. t[Len(s)].step = s[Len(s)].step
    BY <1>2, <2>1 DEF Widens, Messages
  <2>3. Len(t) = Len(s) /\ \A i \in 1..Len(s) : i # Len(s) => t[i] = s[i]
    BY <1>2 DEF Widens
  <2> QED BY <2>1, <2>2, <2>3 DEF UpTo
<1> QED
  BY <1>1, <1>2

\* A later bound is weaker.
LEMMA UpToLater ==
    ASSUME NEW s \in Seq(Messages), NEW n \in Nat, NEW k \in Int, k <= n, UpTo(s, k)
    PROVE  UpTo(s, n)
<1>1. \A i \in 1..Len(s) : s[i].step \in Nat
  <2>1. \A i \in 1..Len(s) : s[i] \in Messages
    BY ElementOfSeq
  <2> QED BY <2>1 DEF Messages
<1> QED
  BY <1>1 DEF UpTo

\* The summary of a compaction and the exchanges it keeps.
LEMMA SummaryParts ==
    ASSUME NEW s \in Seq(Messages), NEW k \in 1..Len(s) + 1
    PROVE  /\ SummaryOf(s, k) \in Seq(Messages)
           /\ Len(SummaryOf(s, k)) = Len(s) - k + 3
           /\ SummaryOf(s, k)[1] = UserText(0) /\ SummaryOf(s, k)[2] = Ack
           /\ \A j \in 3..Len(s) - k + 3 : SummaryOf(s, k)[j] = s[k + j - 3]
<1>0. Len(s) \in Nat
  BY LenProperties
<1> DEFINE kept == SubSeq(s, k, Len(s))
           pair == <<UserText(0), Ack>>
<1>1. /\ kept \in Seq(Messages) /\ Len(kept) = Len(s) - k + 1
      /\ \A i \in 1..Len(s) - k + 1 : kept[i] = s[k + i - 1]
  <2>1. \A i \in k..Len(s) : s[i] \in Messages
    BY <1>0, ElementOfSeq
  <2> QED BY <1>0, <2>1, SubSeqProperties
<1>2. pair \in Seq(Messages) /\ Len(pair) = 2 /\ pair[1] = UserText(0) /\ pair[2] = Ack
  BY MessageTypes
<1>3. SummaryOf(s, k) = pair \o kept
  BY DEF SummaryOf
<1> HIDE DEF kept, pair
<1>4. /\ pair \o kept \in Seq(Messages) /\ Len(pair \o kept) = 2 + Len(kept)
      /\ \A j \in 1..2 + Len(kept) :
            (pair \o kept)[j] = IF j <= 2 THEN pair[j] ELSE kept[j - 2]
  <2>1. /\ pair \o kept \in Seq(Messages) /\ Len(pair \o kept) = Len(pair) + Len(kept)
        /\ \A j \in 1..Len(pair) + Len(kept) :
              (pair \o kept)[j] = IF j <= Len(pair) THEN pair[j] ELSE kept[j - Len(pair)]
    BY <1>1, <1>2, ConcatProperties
  <2> QED BY <1>2, <2>1
<1>5. ASSUME NEW j \in 3..Len(s) - k + 3
      PROVE  (pair \o kept)[j] = s[k + j - 3]
  <2>1. j - 2 \in 1..Len(s) - k + 1 /\ j \in 1..2 + Len(kept) /\ ~(j <= 2)
    BY <1>0, <1>1
  <2>2. kept[j - 2] = s[k + (j - 2) - 1] /\ k + (j - 2) - 1 = k + j - 3
    BY <1>0, <1>1, <2>1
  <2> QED BY <1>4, <2>1, <2>2
<1>6. 1 \in 1..2 + Len(kept) /\ 2 \in 1..2 + Len(kept) /\ 2 + Len(kept) = Len(s) - k + 3
  BY <1>0, <1>1
<1> QED
  BY <1>2, <1>3, <1>4, <1>5, <1>6

\* What is kept of a history that can be sent starts at no answer.
LEMMA SuffixReady ==
    ASSUME NEW s \in Seq(Messages), NEW S, NEW k \in 1..Len(s) + 1, Ready(s, S),
           Pending(s, k - 1) = {}
    PROVE  Ready(SummaryOf(s, k), S)
<1> DEFINE t == SummaryOf(s, k)
<1>0. Len(s) \in Nat /\ Len(t) = Len(s) - k + 3
  BY LenProperties, SummaryParts
<1>1. Uses(t, 1) = {} /\ Answers(t, 1) = {} /\ Uses(t, 2) = {} /\ Answers(t, 2) = {}
  BY SummaryParts DEF Uses, Answers, UserText, Ack
<1>2. \A j \in 3..Len(t) :
         /\ t[j] = s[k + j - 3]
         /\ Uses(t, j) = Uses(s, k + j - 3) /\ Answers(t, j) = Answers(s, k + j - 3)
  BY <1>0, SummaryParts DEF Uses, Answers
<1>3. k > 1 => Uses(s, k - 1) = {}
  <2>1. ASSUME k > 1, NEW u \in Uses(s, k - 1) PROVE u \in Pending(s, k - 1)
    <3>1. k - 1 \in 1..k - 1 /\ (k - 1 + 1)..(k - 1) = {}
      BY <1>0, <2>1
    <3> QED BY <2>1, <3>1 DEF Pending
  <2> QED BY <2>1
<1> HIDE DEF t
<1>4. ASSUME NEW j \in 3..Len(t) PROVE Paired(t, j, S)
  <2>1. /\ k + j - 3 \in 1..Len(s) /\ (j < Len(t) <=> k + j - 3 < Len(s))
        /\ Paired(s, k + j - 3, S)
    BY <1>0 DEF Ready
  <2>2. Uses(t, j) # {} /\ t[j].step \notin S =>
           j < Len(t) /\ Answers(t, j + 1) = Uses(t, j)
    <3>1. j < Len(t) => j + 1 \in 3..Len(t) /\ k + (j + 1) - 3 = (k + j - 3) + 1
      BY <1>0
    <3> QED BY <1>2, <2>1, <3>1 DEF Paired
  <2>3. Answers(t, j) # {} =>
           t[j].ids = {Reminder} \/ (j > 1 /\ Uses(t, j - 1) = Answers(t, j))
    <3>1. j > 3 => j - 1 \in 3..Len(t) /\ k + (j - 1) - 3 = (k + j - 3) - 1
      BY <1>0
    <3>2. j = 3 => Answers(t, j) = {} \/ t[j].ids = {Reminder}
      <4> SUFFICES ASSUME j = 3, Answers(s, k) # {}, s[k].ids # {Reminder} PROVE FALSE
        BY <1>0, <1>2
      <4>1. k > 1 /\ Uses(s, k - 1) = Answers(s, k)
        BY <1>0, <2>1 DEF Paired
      <4> QED BY <1>3, <4>1
    <3>3. j > 1 /\ (j > 3 \/ j = 3)
      OBVIOUS
    <3> QED BY <1>2, <2>1, <3>1, <3>2, <3>3 DEF Paired
  <2> QED BY <2>2, <2>3 DEF Paired
<1>5. Paired(t, 1, S) /\ Paired(t, 2, S)
  BY <1>1 DEF Paired
<1>6. \A j \in 1..Len(t) : j = 1 \/ j = 2 \/ j \in 3..Len(t)
  BY <1>0
<1>7. Ready(t, S)
  BY <1>4, <1>5, <1>6 DEF Ready
<1> QED
  BY <1>7 DEF t

\* And its messages are those of the history, behind two of no step.
LEMMA SuffixShape ==
    ASSUME NEW s \in Seq(Messages), NEW S, NEW k \in 1..Len(s) + 1, Shape(s, S),
           OnlyPast(s), NEW n \in Nat, UpTo(s, n)
    PROVE  /\ Shape(SummaryOf(s, k), S) /\ OnlyPast(SummaryOf(s, k))
           /\ UpTo(SummaryOf(s, k), n)
<1> DEFINE t == SummaryOf(s, k)
<1>0. Len(s) \in Nat /\ Len(t) = Len(s) - k + 3 /\ t \in Seq(Messages)
  BY LenProperties, SummaryParts
<1>1. \A j \in 1..2 : t[j].ids = {} /\ t[j].step = 0 /\ t[j].kind # "results"
  BY SummaryParts DEF UserText, Ack
<1>2. \A j \in 3..Len(t) : k + j - 3 \in 1..Len(s) /\ t[j] = s[k + j - 3]
  BY <1>0, SummaryParts
<1>3. \A j \in 1..Len(t) : j \in 1..2 \/ j \in 3..Len(t)
  BY <1>0
<1> HIDE DEF t
<1>4. \A j \in 1..Len(t) : t[j].step \in Nat
  <2>1. \A j \in 1..Len(t) : t[j] \in Messages
    BY <1>0, ElementOfSeq
  <2> QED BY <2>1 DEF Messages
<1>5. OwnIds(t) /\ StrayAlone(t, S)
  <2>1. ASSUME NEW j \in 1..Len(t)
        PROVE  /\ \A id \in t[j].ids : \/ id[1] = t[j].step /\ id[2] > 0
                                       \/ t[j].kind = "results" /\ id = Reminder
               /\ t[j].kind = "results" /\ t[j].step \in S => t[j].ids = {Reminder}
    <3>1. CASE j \in 1..2
      BY <1>1, <3>1
    <3>2. CASE j \in 3..Len(t)
      <4>1. PICK i \in 1..Len(s) : t[j] = s[i]
        BY <1>2, <3>2
      <4> QED BY <4>1 DEF Shape, OwnIds, StrayAlone
    <3> QED BY <1>3, <3>1, <3>2
  <2> QED BY <2>1 DEF OwnIds, StrayAlone
<1>6. OnlyPast(t) /\ UpTo(t, n)
  <2>1. ASSUME NEW j \in 1..Len(t)
        PROVE  t[j].step <= n /\ (Answers(t, j) = {Reminder} => t[j].step = 0)
    <3>1. CASE j \in 1..2
      BY <1>1, <3>1
    <3>2. CASE j \in 3..Len(t)
      <4>1. PICK i \in 1..Len(s) : t[j] = s[i]
        BY <1>2, <3>2
      <4> QED BY <4>1 DEF OnlyPast, UpTo, Answers
    <3> QED BY <1>3, <3>1, <3>2
  <2> QED BY <2>1 DEF OnlyPast, UpTo
<1>7. Ascending(t)
  <2> SUFFICES ASSUME NEW i \in 1..Len(t), NEW j \in 1..Len(t), i <= j
               PROVE  t[i].step <= t[j].step
    BY DEF Ascending
  <2>1. CASE i \in 1..2
    BY <1>1, <1>4, <2>1
  <2>2. CASE i \in 3..Len(t)
    <3>1. j \in 3..Len(t) /\ k + i - 3 <= k + j - 3
      BY <1>0, <2>2
    <3> QED BY <1>2, <2>2, <3>1 DEF Shape, Ascending
  <2> QED BY <1>3, <2>1, <2>2
<1>8. Shape(t, S) /\ OnlyPast(t) /\ UpTo(t, n)
  BY <1>5, <1>6, <1>7 DEF Shape
<1> QED
  BY <1>8 DEF t

\* A compaction leaves a history that can be sent, and of no later step.
LEMMA CompactionReady ==
    ASSUME NEW s \in Seq(Messages), NEW S, NEW force \in BOOLEAN,
           NEW m \in Compactions(s, force), Ready(s, S), Shape(s, S), OnlyPast(s),
           NEW n \in Nat, UpTo(s, n)
    PROVE  /\ m \in Seq(Messages) /\ Ready(m, S) /\ Shape(m, S) /\ OnlyPast(m)
           /\ UpTo(m, n)
<1>0. Len(s) \in Nat
  BY LenProperties
<1>1. PICK k \in 1..Len(s) + 1 : m = SummaryOf(s, k) /\ Pending(s, k - 1) = {}
  <2>1. CASE force
    BY <1>0, <2>1 DEF Compactions, ValidProtocol
  <2>2. CASE ~force
    BY <1>0, <2>2 DEF Compactions, GroupStart
  <2> QED BY <2>1, <2>2
<1> QED
  BY <1>1, SuffixReady, SuffixShape, SummaryParts

-----------------------------------------------------------------------------
(* What the repair of a transcript leaves                                   *)

\* The transcript when the repair starts.
Closing(rows, S, n) ==
    /\ rows \in Seq(Messages) /\ Shape(rows, S) /\ UpTo(rows, n)
    /\ Ready(rows, S) \/ Halved(rows, n, S)

\* An open message is of the last step, or of one nobody answers.
LEMMA OpenIsLast ==
    ASSUME NEW rows, NEW S, NEW n \in Nat, Closing(rows, S, n), NEW i \in StillOpen(rows)
    PROVE  rows[i].step \in S \cup {n}
<1>0. Len(rows) \in Nat /\ i \in 1..Len(rows)
  BY LenProperties DEF Closing, StillOpen
<1>1. PICK u \in Uses(rows, i) : \A j \in i + 1..Len(rows) : u \notin Answers(rows, j)
  BY DEF StillOpen
<1>2. ASSUME Paired(rows, i, S) PROVE rows[i].step \in S
  <2> SUFFICES ASSUME rows[i].step \notin S PROVE FALSE
    OBVIOUS
  <2>1. i + 1 \in i + 1..Len(rows) /\ Answers(rows, i + 1) = Uses(rows, i)
    BY <1>0, <1>1, <1>2 DEF Paired
  <2> QED BY <1>1, <2>1
<1>3. CASE Ready(rows, S)
  BY <1>0, <1>2, <1>3 DEF Ready
<1>4. CASE Halved(rows, n, S)
  <2>1. PICK k \in 1..Len(rows) :
           /\ rows[k].kind = "assistant" /\ rows[k].step = n
           /\ \A j \in 1..k - 1 : Paired(rows, j, S)
           /\ \/ k = Len(rows)
              \/ k + 1 = Len(rows) /\ rows[Len(rows)].kind = "results"
    BY <1>4 DEF Halved
  <2>2. i \in 1..k - 1 \/ i = k \/ (i = Len(rows) /\ rows[i].kind = "results")
    BY <1>0, <2>1
  <2>3. rows[i].kind # "results"
    BY <1>1 DEF Uses
  <2> QED BY <1>2, <2>1, <2>2, <2>3
<1> QED
  BY <1>3, <1>4 DEF Closing

\* A message that is not open has its answers in the next one.
LEMMA AnsweredNext ==
    ASSUME NEW rows, NEW S, NEW n \in Nat, Closing(rows, S, n),
           NEW i \in 1..Len(rows), i \notin StillOpen(rows), Uses(rows, i) # {}
    PROVE  i < Len(rows) /\ Answers(rows, i + 1) = Uses(rows, i)
<1>0. Len(rows) \in Nat /\ rows[i].kind = "assistant"
  BY LenProperties DEF Closing, Uses
<1>1. \A u \in Uses(rows, i) : \E j \in i + 1..Len(rows) : u \in Answers(rows, j)
  BY DEF StillOpen
<1>2. rows[i].step \notin S
  <2> SUFFICES ASSUME rows[i].step \in S PROVE FALSE
    OBVIOUS
  <2>1. PICK u \in Uses(rows, i) : TRUE
    OBVIOUS
  <2>2. PICK j \in i + 1..Len(rows) : u \in Answers(rows, j)
    BY <1>1
  <2>3. i \in 1..Len(rows) /\ j \in 1..Len(rows)
    BY <1>0
  <2>4. u \in rows[i].ids /\ u \in rows[j].ids /\ rows[j].kind = "results"
    BY <2>1, <2>2 DEF Uses, Answers
  <2>5. u[1] = rows[i].step /\ u[2] > 0
    BY <1>0, <2>3, <2>4 DEF Closing, Shape, OwnIds
  <2>6. u # Reminder
    BY <2>5 DEF Reminder
  <2>7. rows[j].step \in S
    BY <2>3, <2>4, <2>5, <2>6 DEF Closing, Shape, OwnIds
  <2> QED BY <2>3, <2>4, <2>6, <2>7 DEF Closing, Shape, StrayAlone
<1>3. CASE Paired(rows, i, S)
  BY <1>2, <1>3 DEF Paired
<1>4. CASE ~Paired(rows, i, S)
  <2>1. Halved(rows, n, S)
    BY <1>4 DEF Closing, Ready
  <2>2. PICK k \in 1..Len(rows) :
           /\ \A j \in 1..k - 1 : Paired(rows, j, S)
           /\ \/ k = Len(rows)
              \/ /\ k + 1 = Len(rows) /\ rows[Len(rows)].kind = "results"
                 /\ rows[Len(rows)].ids \subseteq rows[k].ids
    BY <2>1 DEF Halved
  <2>3. i = k \/ (i = Len(rows) /\ rows[i].kind = "results")
    BY <1>0, <1>4, <2>2
  <2>4. i = k /\ k # Len(rows)
    <3>1. i # Len(rows)
      BY <1>0, <1>1
    <3> QED BY <1>0, <2>3, <3>1
  <2>5. /\ i + 1 = Len(rows) /\ rows[Len(rows)].kind = "results"
        /\ rows[Len(rows)].ids \subseteq rows[i].ids
    BY <2>2, <2>4
  <2>6. \A u \in Uses(rows, i) : u \in Answers(rows, i + 1)
    <3>1. i + 1..Len(rows) = {i + 1}
      BY <1>0, <2>5
    <3> QED BY <1>1, <3>1
  <2>7. Answers(rows, i + 1) = rows[Len(rows)].ids /\ Uses(rows, i) = rows[i].ids
    BY <1>0, <2>5 DEF Uses, Answers
  <2> QED BY <1>0, <2>5, <2>6, <2>7
<1> QED
  BY <1>3, <1>4

\* Where the repair cuts, or may leave the transcript as it is.
Cut(rows, n) ==
    /\ n \in 0..Len(rows)
    /\ \/ n = Len(rows) /\ Pending(rows, Len(rows)) = {}
       \/ n \in CutMarks(rows) /\ \A m \in CutMarks(rows) : n <= m

\* No message that is kept is open.
LEMMA KeptIsClosed ==
    ASSUME NEW rows \in Seq(Messages), NEW n, Cut(rows, n), NEW i \in 1..n
    PROVE  i \notin StillOpen(rows)
<1>0. Len(rows) \in Nat /\ n \in 0..Len(rows)
  BY LenProperties DEF Cut
<1> SUFFICES ASSUME i \in StillOpen(rows) PROVE FALSE
  OBVIOUS
<1>1. CASE Pending(rows, Len(rows)) = {}
  <2>1. PICK u \in Uses(rows, i) : \A j \in i + 1..Len(rows) : u \notin Answers(rows, j)
    BY DEF StillOpen
  <2>2. u \in Pending(rows, Len(rows))
    BY <1>0, <2>1 DEF Pending
  <2> QED BY <1>1, <2>2
<1>2. CASE \A m \in CutMarks(rows) : n <= m
  <2>1. i - 1 \in CutMarks(rows)
    BY DEF CutMarks
  <2> QED BY <1>0, <1>2, <2>1
<1> QED
  BY <1>1, <1>2 DEF Cut

\* A repaired transcript can be replayed.
LEMMA CutReplayable ==
    ASSUME NEW rows, NEW S, NEW k \in Nat, Closing(rows, S, k), NEW n, Cut(rows, n),
           NEW kept \in Seq(Messages), Len(kept) = n, \A i \in 1..n : kept[i] = rows[i]
    PROVE  Replayable(kept)
<1>0. Len(rows) \in Nat /\ n \in 0..Len(rows) /\ rows \in Seq(Messages)
  BY LenProperties DEF Cut, Closing
<1>1. \A i \in 1..n : Uses(kept, i) = Uses(rows, i) /\ Answers(kept, i) = Answers(rows, i)
  BY DEF Uses, Answers
<1>2. ASSUME NEW i \in 1..n, Uses(rows, i) # {}
      PROVE  i < n /\ Answers(rows, i + 1) = Uses(rows, i)
  <2>1. i \in 1..Len(rows) /\ i < Len(rows) /\ Answers(rows, i + 1) = Uses(rows, i)
    BY <1>0, <1>2, KeptIsClosed, AnsweredNext
  <2>2. i # n
    <3> SUFFICES ASSUME i = n PROVE FALSE
      OBVIOUS
    <3>1. n \in CutMarks(rows)
      BY <2>1 DEF Cut
    <3>2. Pending(rows, n) # {}
      <4>1. PICK u \in Uses(rows, n) : TRUE
        BY <1>2
      <4>2. n \in 1..n /\ n + 1..n = {}
        BY <1>0
      <4>3. u \in Pending(rows, n)
        BY <4>1, <4>2 DEF Pending
      <4> QED BY <4>3
    <3>3. n + 1 \in StillOpen(rows)
      <4>1. PICK m \in StillOpen(rows) : n = m - 1
        BY <3>1, <3>2 DEF CutMarks
      <4>2. m = n + 1
        BY <1>0, <4>1 DEF StillOpen
      <4> QED BY <4>1, <4>2
    <3>4. Uses(rows, n + 1) # {}
      BY <3>3 DEF StillOpen
    <3> QED BY <1>2, <2>1, <3>4 DEF Uses, Answers
  <2> QED BY <1>0, <2>1, <2>2
<1>3. ASSUME NEW i \in 1..n, Answers(rows, i) # {}, Answers(rows, i) # {Reminder}
      PROVE  i > 1 /\ Uses(rows, i - 1) = Answers(rows, i)
  <2>0. i \in 1..Len(rows) /\ rows[i].kind = "results" /\ rows[i].ids = Answers(rows, i)
    BY <1>0, <1>3 DEF Answers
  <2>1. CASE Paired(rows, i, S)
    BY <1>3, <2>0, <2>1 DEF Paired
  <2>2. CASE ~Paired(rows, i, S)
    <3>1. Halved(rows, k, S)
      BY <2>0, <2>2 DEF Closing, Ready
    <3>2. PICK j \in 1..Len(rows) :
             /\ rows[j].kind = "assistant"
             /\ \A l \in 1..j - 1 : Paired(rows, l, S)
             /\ \/ j = Len(rows)
                \/ /\ j + 1 = Len(rows) /\ rows[Len(rows)].kind = "results"
                   /\ rows[Len(rows)].ids \subseteq rows[j].ids
      BY <3>1 DEF Halved
    <3>3. i # j
      BY <2>0, <3>2
    <3>4. i = j + 1 /\ i = Len(rows) /\ rows[i].ids \subseteq rows[j].ids
      BY <1>0, <2>0, <2>2, <3>2, <3>3
    <3>5. Uses(rows, j) # {} /\ j \in 1..n
      BY <1>0, <1>3, <2>0, <3>2, <3>4 DEF Uses
    <3>6. Answers(rows, j + 1) = Uses(rows, j)
      BY <1>2, <3>5
    <3> QED BY <1>0, <3>4, <3>6
  <2> QED BY <2>1, <2>2
<1>4. ASSUME NEW i \in 1..n
      PROVE  /\ Uses(kept, i) # {} => i < n /\ Answers(kept, i + 1) = Uses(kept, i)
             /\ Answers(kept, i) \notin {{}, {Reminder}} =>
                   i > 1 /\ Uses(kept, i - 1) = Answers(kept, i)
  <2>1. i < n => i + 1 \in 1..n
    BY <1>0
  <2>2. i > 1 => i - 1 \in 1..n
    BY <1>0
  <2> QED BY <1>1, <1>2, <1>3, <2>1, <2>2
<1> QED
  BY <1>4 DEF Replayable

\* The repair keeps every message older than the steps that may be open.
LEMMA CutKeeps ==
    ASSUME NEW rows, NEW S, NEW k \in Nat, Closing(rows, S, k), NEW n, Cut(rows, n),
           NEW i \in 1..Len(rows), \A s \in S \cup {k} : rows[i].step < s
    PROVE  i <= n
<1>0. Len(rows) \in Nat /\ n \in 0..Len(rows) /\ rows \in Seq(Messages)
  BY LenProperties DEF Cut, Closing
<1>t. \A j \in 1..Len(rows) : rows[j].step \in Nat
  <2>1. \A j \in 1..Len(rows) : rows[j] \in Messages
    BY <1>0, ElementOfSeq
  <2> QED BY <2>1 DEF Messages
<1>1. ASSUME NEW j \in StillOpen(rows), n = j - 1 PROVE i <= n
  <2>1. j \in 1..Len(rows) /\ rows[i].step < rows[j].step
    BY OpenIsLast DEF StillOpen
  <2>2. ~(j <= i)
    BY <1>t, <2>1 DEF Closing, Shape, Ascending
  <2> QED BY <1>0, <1>1, <2>1, <2>2
<1>2. ASSUME Pending(rows, n) = {}, \A m \in n + 1..Len(rows) : Pending(rows, m) # {}, n < i
      PROVE  n + 1 \in StillOpen(rows)
  <2>0. n + 1 \in 1..Len(rows) /\ n + 1 \in n + 1..Len(rows)
    BY <1>0, <1>2
  <2>1. ASSUME NEW m \in n + 1..Len(rows)
        PROVE  \E l \in n + 1..m : \E u \in Uses(rows, l) :
                  \A j \in l + 1..m : u \notin Answers(rows, j)
    <3>1. PICK u : u \in Pending(rows, m)
      BY <1>2, <2>1
    <3>2. PICK l \in 1..m : /\ u \in Uses(rows, l)
                            /\ \A j \in (l + 1)..m : u \notin Answers(rows, j)
      BY <3>1 DEF Pending
    <3>3. ~(l <= n)
      <4> SUFFICES ASSUME l <= n PROVE FALSE
        OBVIOUS
      <4>1. l \in 1..n /\ \A j \in (l + 1)..n : j \in (l + 1)..m
        BY <1>0
      <4>2. u \in Pending(rows, n)
        BY <3>2, <4>1 DEF Pending
      <4> QED BY <1>2, <4>2
    <3>4. l \in n + 1..m
      BY <1>0, <3>3
    <3> QED BY <3>2, <3>4
  <2>2. Uses(rows, n + 1) # {}
    <3>1. PICK l \in n + 1..n + 1 : \E u \in Uses(rows, l) : TRUE
      BY <2>0, <2>1
    <3>2. l = n + 1
      BY <1>0
    <3> QED BY <3>1, <3>2
  <2> SUFFICES ASSUME n + 1 \notin StillOpen(rows) PROVE FALSE
    OBVIOUS
  <2>3. n + 1 < Len(rows) /\ Answers(rows, n + 2) = Uses(rows, n + 1)
    <3>1. n + 1 < Len(rows) /\ Answers(rows, (n + 1) + 1) = Uses(rows, n + 1)
      BY <2>0, <2>2, AnsweredNext
    <3>2. (n + 1) + 1 = n + 2
      BY <1>0
    <3> QED BY <3>1, <3>2
  <2>4. n + 2 \in n + 1..Len(rows)
    BY <1>0, <2>3
  <2>5. PICK l \in n + 1..n + 2 : \E u \in Uses(rows, l) :
                  \A j \in l + 1..n + 2 : u \notin Answers(rows, j)
    BY <2>1, <2>4
  <2>6. PICK u \in Uses(rows, l) : \A j \in l + 1..n + 2 : u \notin Answers(rows, j)
    BY <2>5
  <2>7. l = n + 1 \/ l = n + 2
    BY <1>0
  <2>8. l # n + 2
    BY <2>2, <2>3, <2>6 DEF Uses, Answers
  <2>9. n + 2 \in (n + 1) + 1..n + 2
    BY <1>0
  <2> QED BY <2>3, <2>6, <2>7, <2>8, <2>9
<1>3. CASE n = Len(rows)
  BY <1>0, <1>3
<1>4. CASE n \in CutMarks(rows)
  <2>1. CASE \E j \in StillOpen(rows) : n = j - 1
    BY <1>1, <2>1
  <2>2. CASE Pending(rows, n) = {} /\ \A m \in n + 1..Len(rows) : Pending(rows, m) # {}
    <3> SUFFICES ASSUME n < i PROVE FALSE
      BY <1>0
    <3>1. n + 1 \in StillOpen(rows) /\ n = (n + 1) - 1
      BY <1>0, <1>2, <2>2
    <3>2. i <= n
      BY <1>1, <3>1
    <3> QED BY <1>0, <3>2
  <2> QED BY <1>4, <2>1, <2>2 DEF CutMarks
<1> QED
  BY <1>3, <1>4 DEF Cut

-----------------------------------------------------------------------------
(* One step of the run and the histories                                    *)

\* The batch of the act phase starts at the next call and has no gaps; with
\* no refusal in it, it is recorded whole.
LEMMA BatchFacts ==
    ASSUME TypeOK, pc = "act"
    PROVE  /\ next \in Batch(next) /\ Batch(next) \subseteq next..Len(calls)
           /\ \A j \in Batch(next) : next..j \subseteq Batch(next)
           /\ \A j \in Batch(next) : calls[j] = "ser" => j = next /\ Batch(next) = {next}
           /\ Recorded \subseteq Batch(next)
           /\ Refused = {} => Recorded = Batch(next)
<1>1. /\ Len(calls) \in Nat /\ next \in 1..Len(calls)
      /\ \A j \in 1..Len(calls) : calls[j] \in {"par", "ser"}
  BY ElementOfSeq, LenProperties DEF TypeOK, ControlOK
<1>2. CASE calls[next] = "ser"
  BY <1>1, <1>2 DEF Batch, Recorded
<1>3. CASE calls[next] = "par"
  <2>1. Batch(next) = {j \in next..Len(calls) : \A k \in next..j : calls[k] = "par"}
    BY <1>3 DEF Batch
  <2>2. next \in Batch(next) /\ Batch(next) \subseteq next..Len(calls)
    BY <1>1, <1>3, <2>1
  <2>3. \A j \in Batch(next) : next..j \subseteq Batch(next) /\ calls[j] = "par"
    BY <1>1, <2>1
  <2>4. Recorded \subseteq Batch(next) /\ (Refused = {} => Recorded = Batch(next))
    BY DEF Recorded
  <2> QED BY <2>2, <2>3, <2>4
<1> QED
  BY <1>1, <1>2, <1>3

\* A response msg of n calls has been put behind the history s, if it has a
\* block; S may hold the present step.
Entered(msg, n, s, t, S) ==
    /\ t \in Seq(Messages) /\ UpTo(t, step) /\ Shape(t, S)
    /\ msg.kind = "assistant" => Extends(t, s, msg)
    /\ n > 0 => /\ Len(t) \in 1..Len(t) /\ t[Len(t)] = msg
                /\ \A i \in 1..Len(t) - 1 : Paired(t, i, S)
    /\ n = 0 \/ step \in S => Ready(t, S)
    /\ ~(Len(t) > 0 /\ t[Len(t)].kind = "results" /\ t[Len(t)].step = step)

\* The response itself.
IsResponse(msg, n) ==
    /\ msg \in Messages /\ msg.step = step /\ msg.ids = CallIds(n)
    /\ n > 0 => msg.kind = "assistant"
    /\ n = 0 => msg.ids = {}
    /\ msg.kind \in {"assistant", "empty"}
    /\ \A S : Fits(msg, S)
LEMMA Response ==
    ASSUME step \in Nat, NEW text \in BOOLEAN, NEW n \in Nat,
           NEW msg, msg = AssistantMsg(step, text, n)
    PROVE  IsResponse(msg, n)
<1>1. /\ msg \in Messages /\ msg.step = step /\ msg.ids = CallIds(n)
      /\ n > 0 => msg.kind = "assistant"
      /\ msg.kind \in {"assistant", "empty"}
  BY MessageTypes DEF AssistantMsg, CallIds
<1>2. n = 0 => CallIds(n) = {}
  BY DEF CallIds
<1>3. \A id \in CallIds(n) : id[1] = step /\ id[2] > 0
  BY DEF CallIds, CallId
<1> QED
  BY <1>1, <1>2, <1>3 DEF Fits, IsResponse

\* A response enters the context or the transcript.
LEMMA Entering ==
    ASSUME step \in Nat, NEW n \in Nat, NEW msg, IsResponse(msg, n),
           NEW s \in Seq(Messages), Ready(s, stray), Shape(s, stray), UpTo(s, step - 1),
           NEW S, S = stray \/ S = stray \cup {step}, NEW t,
           Extends(t, s, msg) \/ (t = s /\ msg.kind = "empty")
    PROVE  Entered(msg, n, s, t, S)
<1>m. /\ msg \in Messages /\ msg.step = step
      /\ n > 0 => msg.kind = "assistant"
      /\ n = 0 => msg.ids = {}
      /\ msg.kind \in {"assistant", "empty"}
      /\ Fits(msg, S)
  BY DEF IsResponse
<1>0. Len(s) \in Nat /\ UpTo(s, step) /\ Shape(s, S) /\ Ready(s, S)
  <2>1. Shape(s, stray \cup {step})
    BY ShapeMore
  <2>2. Ready(s, S)
    BY PairedMore DEF Ready
  <2>3. UpTo(s, step)
    <3>1. step - 1 \in Int /\ step - 1 <= step
      OBVIOUS
    <3> QED BY <3>1, UpToLater
  <2>4. Len(s) \in Nat
    BY LenProperties
  <2> QED BY <2>1, <2>2, <2>3, <2>4
<1>1. CASE Extends(t, s, msg)
  <2>1. t \in Seq(Messages) /\ Len(t) = Len(s) + 1 /\ t[Len(t)] = msg
    BY <1>1 DEF Extends
  <2>2. UpTo(t, step) /\ Shape(t, S)
    <3>1. UpTo(t, step)
      BY <1>0, <1>1, <1>m, UpToKept
    <3>2. UpTo(s, msg.step) /\ Fits(msg, S)
      BY <1>0, <1>m
    <3> QED BY <1>0, <1>1, <3>1, <3>2, ShapeExtended
  <2>3. \A i \in 1..Len(t) - 1 : Paired(t, i, S)
    <3> SUFFICES ASSUME NEW i \in 1..Len(t) - 1 PROVE Paired(t, i, S)
      OBVIOUS
    <3>1. i \in 1..Len(s) /\ Paired(s, i, S)
      BY <1>0, <2>1 DEF Ready
    <3> QED BY <1>1, <3>1, PairedExtended
  <2>4. n = 0 \/ step \in S => Ready(t, S)
    BY <1>0, <1>1, <1>m, PlainReady
  <2>5. msg.kind # "results"
    BY <1>m
  <2> QED BY <1>0, <1>1, <2>1, <2>2, <2>3, <2>4, <2>5 DEF Entered
<1>2. CASE t = s /\ msg.kind = "empty"
  <2>1. Len(s) > 0 => s[Len(s)].step # step
    <3>1. Len(s) > 0 => s[Len(s)].step <= step - 1 /\ s[Len(s)] \in Messages
      BY <1>0, ElementOfSeq DEF UpTo
    <3> QED BY <3>1 DEF Messages
  <2>2. ~(n > 0)
    BY <1>2, <1>m
  <2> QED BY <1>0, <1>2, <2>1, <2>2 DEF Entered
<1> QED
  BY <1>1, <1>2

\* What the model call starts from.
Called ==
    /\ step \in Nat /\ step > 0 /\ ctx \in Seq(Messages) /\ thread \in Seq(Messages)
    /\ Ready(ctx, stray) /\ Shape(ctx, stray) /\ UpTo(ctx, step - 1) /\ OnlyPast(ctx)
    /\ Ready(thread, stray) /\ Shape(thread, stray) /\ UpTo(thread, step - 1)
    /\ Mirrors(thread, ctx) /\ \A s \in stray : s < step
LEMMA AtChat == TypeOK /\ HistoryInv /\ pc = "chat" => Called
BY DEF Called, TypeOK, ControlOK, HistoryOK, HistoryInv, ReadyBetween, Quiet, Mirroring,
       Writing, Dated

\* Every response enters both histories.
LEMMA Observed ==
    ASSUME Called, NEW text \in BOOLEAN, NEW n \in Nat, NEW msg,
           msg = AssistantMsg(step, text, n), NEW c, c = Append(ctx, msg),
           NEW r, r = AddAssistantRows(thread, msg), NEW S, S = stray \/ S = stray \cup {step}
    PROVE  /\ Entered(msg, n, ctx, c, S) /\ Entered(msg, n, thread, r, S)
           /\ Extends(c, ctx, msg) /\ OnlyPast(c) /\ Mirrors(r, c)
<1>0. /\ step \in Nat /\ ctx \in Seq(Messages) /\ thread \in Seq(Messages)
      /\ Mirrors(thread, ctx) /\ OnlyPast(ctx)
  BY DEF Called
<1>r. IsResponse(msg, n)
  BY <1>0, Response
<1>1. msg \in Messages /\ msg.kind \in {"assistant", "empty"}
  BY <1>r DEF IsResponse
<1>2. Extends(c, ctx, msg)
  BY <1>0, <1>1, AppendExtends
<1>3. /\ msg.kind = "assistant" => Extends(r, thread, msg)
      /\ msg.kind = "empty" => r = thread
  BY <1>0, <1>1, AppendExtends DEF AddAssistantRows
<1>4. Entered(msg, n, ctx, c, S)
  <2>1. Ready(ctx, stray) /\ Shape(ctx, stray) /\ UpTo(ctx, step - 1)
    BY DEF Called
  <2> QED BY <1>0, <1>r, <1>2, <2>1, Entering
<1>5. Entered(msg, n, thread, r, S)
  <2>1. Ready(thread, stray) /\ Shape(thread, stray) /\ UpTo(thread, step - 1)
    BY DEF Called
  <2>2. Extends(r, thread, msg) \/ (r = thread /\ msg.kind = "empty")
    BY <1>1, <1>3
  <2> QED BY <1>0, <1>r, <2>1, <2>2, Entering
<1>6. OnlyPast(c)
  BY <1>0, <1>1, <1>2, PastKept
<1>7. Mirrors(r, c)
  <2>1. CASE msg.kind = "assistant"
    BY <1>0, <1>2, <1>3, <2>1, MirrorsExtended
  <2>2. CASE msg.kind = "empty"
    BY <1>0, <1>2, <1>3, <2>2, MirrorsEmpty
  <2> QED BY <1>1, <2>1, <2>2
<1> QED
  BY <1>2, <1>4, <1>5, <1>6, <1>7

\* A response with tool calls starts an act phase.
LEMMA ToolUseHistories == TypeOK /\ HistoryInv /\ ChatToolUse => HistoryInv'
<1> SUFFICES ASSUME TypeOK, HistoryInv, ChatToolUse PROVE HistoryInv'
  OBVIOUS
<1>1. PICK text \in BOOLEAN, tcs \in ToolCalls \ {<<>>} :
         /\ Observe(text, Len(tcs))
         /\ calls' = tcs /\ next' = 1 /\ got' = [k \in 1..Len(tcs) |-> "wait"]
  BY DEF ChatToolUse
<1>2. tcs \in Seq({"par", "ser"}) /\ Len(tcs) \in Nat /\ Len(tcs) > 0
  BY ToolCallTypes, EmptySeq
<1> DEFINE msg == AssistantMsg(step, text, Len(tcs))
<1>3. pc = "chat" /\ pc' = "act" /\ step' = step /\ stray' = stray /\ Called
  BY AtChat DEF ChatToolUse, Suspend
<1>4. ctx' = Append(ctx, msg) /\ thread' = AddAssistantRows(thread, msg)
  BY <1>1 DEF Observe
<1> HIDE DEF msg
<1>5. /\ Entered(msg, Len(tcs), ctx, ctx', stray) /\ Entered(msg, Len(tcs), thread, thread', stray)
      /\ OnlyPast(ctx') /\ Mirrors(thread', ctx')
      /\ msg.kind = "assistant" /\ msg.ids = CallIds(Len(tcs)) /\ msg.step = step
  <2>1. step \in Nat
    BY <1>3 DEF Called
  <2>2. IsResponse(msg, Len(tcs))
    BY <1>2, <2>1, Response DEF msg
  <2>3. /\ Entered(msg, Len(tcs), ctx, ctx', stray)
        /\ Entered(msg, Len(tcs), thread, thread', stray)
        /\ OnlyPast(ctx') /\ Mirrors(thread', ctx')
    BY <1>2, <1>3, <1>4, Observed DEF msg
  <2> QED BY <1>2, <2>2, <2>3 DEF IsResponse
<1>6. /\ ctx' \in Seq(Messages) /\ thread' \in Seq(Messages)
      /\ UpTo(ctx', step) /\ Shape(ctx', stray) /\ UpTo(thread', step) /\ Shape(thread', stray)
  BY <1>5 DEF Entered
<1>7. ASSUME NEW t, NEW s, Entered(msg, Len(tcs), s, t, stray)
      PROVE  /\ Len(t) \in 1..Len(t) /\ t[Len(t)].kind = "assistant"
             /\ t[Len(t)].ids = CallIds(Len(tcs)) /\ t[Len(t)].step = step
             /\ \A i \in 1..Len(t) - 1 : Paired(t, i, stray)
  BY <1>2, <1>5, <1>7 DEF Entered
<1>8. CallIds(Len(calls))' = CallIds(Len(tcs))
  BY <1>1, <1>3 DEF CallIds
<1>9. Answering(ctx)'
  <2>1. /\ Len(ctx') \in 1..Len(ctx') /\ ctx'[Len(ctx')].kind = "assistant"
        /\ ctx'[Len(ctx')].ids = CallIds(Len(calls))' /\ ctx'[Len(ctx')].step = step'
        /\ \A i \in 1..Len(ctx') - 1 : Paired(ctx', i, stray')
        /\ next' = 1 /\ ~(next' > 1)
    BY <1>1, <1>3, <1>5, <1>7, <1>8
  <2> QED BY <2>1, Zenon DEF Answering
<1>10. Answering(thread)'
  <2>1. /\ Len(thread') \in 1..Len(thread') /\ thread'[Len(thread')].kind = "assistant"
        /\ thread'[Len(thread')].ids = CallIds(Len(calls))'
        /\ thread'[Len(thread')].step = step'
        /\ \A i \in 1..Len(thread') - 1 : Paired(thread', i, stray')
        /\ next' = 1 /\ ~(next' > 1)
    BY <1>1, <1>3, <1>5, <1>7, <1>8
  <2> QED BY <2>1, Zenon DEF Answering
<1>11. OthersWait'
  BY <1>1 DEF OthersWait
<1>12. Left'
  <2>1. Halved(thread', step, stray)
    BY <1>5, <1>7 DEF Halved
  <2> QED BY <1>3, <2>1 DEF Left, Halved, Paired, Uses, Answers
<1>13. Dated'
  <2>1. /\ \A s \in stray : s < step
        /\ step > 0 /\ step \in Nat /\ stray \subseteq Nat
    BY <1>3 DEF Called, TypeOK, HistoryOK
  <2>2. \A s \in stray : s <= step
    BY <2>1
  <2>3. /\ UpTo(ctx, step)' /\ Shape(ctx, stray)' /\ OnlyPast(ctx)'
        /\ UpTo(thread, step)' /\ Shape(thread, stray)'
    BY <1>3, <1>5, <1>6 DEF UpTo, Shape, OwnIds, StrayAlone, Ascending, OnlyPast, Answers
  <2> QED BY <1>3, <2>1, <2>2, <2>3 DEF Dated
<1>14. Mirroring'
  BY <1>5 DEF Mirroring, Mirrors, Shown, Place
<1> QED
  BY <1>3, <1>9, <1>10, <1>11, <1>12, <1>13, <1>14 DEF HistoryInv, Acting, ReadyBetween, Quiet

\* At the end of a step nothing is awaited but the publication, or the
\* compaction before it.
LEMMA FinishHistories ==
    ASSUME pc' \in {"finish", "compact"}, NEW c, NEW r, NEW S, NEW n,
           ctx' = c, thread' = r, stray' = S, step' = n,
           Mirrors(r, c), UpTo(c, n), UpTo(r, n), Shape(c, S), Shape(r, S), OnlyPast(c),
           \A s \in S : s <= n,
           Ready(r, S) \/ Halved(r, n, S),
           status' = "running" \/ pc' = "compact" => Ready(c, S) /\ Ready(r, S)
    PROVE  HistoryInv'
<1>1. Dated'
  BY DEF Dated, UpTo, Shape, OwnIds, StrayAlone, Ascending, OnlyPast, Answers
<1>2. Mirroring'
  BY DEF Mirroring, Mirrors, Shown, Place
<1>3. ReadyBetween'
  BY DEF ReadyBetween, Quiet, Ready, Paired, Uses, Answers
<1>4. Left'
  BY DEF Left, Ready, Halved, Paired, Uses, Answers
<1> QED
  BY <1>1, <1>2, <1>3, <1>4 DEF HistoryInv, Acting

\* A response no branch of the loop goes on with: without calls it needs no
\* answer, with calls it gets none.
LEMMA OpenHistories ==
    ASSUME TypeOK, HistoryInv, pc = "chat", pc' \in {"finish", "compact"}, step' = step,
           NEW text \in BOOLEAN, NEW tcs \in ToolCalls \cup {<<>>},
           Observe(text, Len(tcs)), LeftOpen(tcs)
    PROVE  HistoryInv'
<1> DEFINE msg == AssistantMsg(step, text, Len(tcs))
<1>1. Len(tcs) \in Nat /\ (tcs = <<>> => Len(tcs) = 0)
  BY ToolCallTypes, EmptySeq
<1>2. ctx' = Append(ctx, msg) /\ thread' = AddAssistantRows(thread, msg)
  BY DEF Observe
<1>3. Called /\ step \in Nat /\ \A s \in stray : s < step /\ s \in Nat
  <2>1. Called
    BY AtChat
  <2> QED BY <2>1 DEF Called, TypeOK, HistoryOK
<1>4. /\ stray' = stray \/ stray' = stray \cup {step}
      /\ Len(tcs) = 0 \/ step \in stray'
      /\ \A s \in stray' : s <= step
  BY <1>1, <1>3 DEF LeftOpen
<1>5. /\ Entered(msg, Len(tcs), ctx, ctx', stray')
      /\ Entered(msg, Len(tcs), thread, thread', stray')
      /\ OnlyPast(ctx') /\ Mirrors(thread', ctx')
  BY <1>1, <1>2, <1>3, <1>4, Observed
<1> HIDE DEF msg
<1>6. /\ UpTo(ctx', step) /\ Shape(ctx', stray') /\ Ready(ctx', stray')
      /\ UpTo(thread', step) /\ Shape(thread', stray') /\ Ready(thread', stray')
  BY <1>4, <1>5 DEF Entered
<1> QED
  BY <1>4, <1>5, <1>6, FinishHistories

\* Error results behind a response that was cut off.
LEMMA ErrorResults ==
    ASSUME Called, NEW n \in Nat, n > 0, NEW msg, IsResponse(msg, n), NEW s, NEW t,
           Entered(msg, n, s, t, stray), NEW u, Extends(u, t, Results(step, msg.ids))
    PROVE  UpTo(u, step) /\ Shape(u, stray) /\ Ready(u, stray)
<1>0. step \in Nat /\ step \notin stray
  BY DEF Called
<1>1. /\ t \in Seq(Messages) /\ UpTo(t, step) /\ Shape(t, stray)
      /\ Len(t) \in 1..Len(t) /\ t[Len(t)] = msg /\ Len(t) \in Nat
      /\ \A i \in 1..Len(t) - 1 : Paired(t, i, stray)
  BY LenProperties DEF Entered
<1> DEFINE answer == Results(step, msg.ids)
<1>2. answer.kind = "results" /\ answer.step = step /\ answer.ids = msg.ids
  BY DEF Results
<1>3. Fits(answer, stray)
  <2>1. Fits(msg, {}) /\ msg.kind = "assistant" /\ msg.step = step
    BY DEF IsResponse
  <2> QED BY <1>0, <1>2, <2>1 DEF Fits
<1> HIDE DEF answer
<1>4. UpTo(u, step) /\ Shape(u, stray)
  <2>1. Extends(u, t, answer)
    BY DEF answer
  <2> QED BY <1>0, <1>1, <1>2, <1>3, <2>1, UpToKept, ShapeExtended
<1>5. Ready(u, stray)
  <2>1. /\ u \in Seq(Messages) /\ Len(t) + 1 = Len(u) /\ u[Len(t)] = msg
        /\ u[Len(u)] = answer /\ Len(t) \in 1..Len(u)
    BY <1>1 DEF Extends, answer
  <2>2. \A i \in 1..Len(t) - 1 : Paired(u, i, stray)
    <3> SUFFICES ASSUME NEW i \in 1..Len(t) - 1 PROVE Paired(u, i, stray)
      OBVIOUS
    <3>1. i \in 1..Len(t) /\ Paired(t, i, stray)
      BY <1>1
    <3> QED BY <1>1, <3>1, PairedExtended
  <2>3. msg.kind = "assistant"
    BY DEF IsResponse
  <2> QED BY <1>2, <2>1, <2>2, <2>3, AnsweredReady
<1> QED
  BY <1>4, <1>5

\* A response that is cut off gives each of its calls an error result; one that
\* stops for another reason gives none.
LEMMA CutOffHistories == TypeOK /\ HistoryInv /\ ChatCutOff => HistoryInv'
<1> SUFFICES ASSUME TypeOK, HistoryInv, ChatCutOff PROVE HistoryInv'
  OBVIOUS
<1>0. pc = "chat" /\ pc' = "finish" /\ step' = step /\ step \in Nat /\ Called
  BY AtChat DEF ChatCutOff, Suspend, TypeOK, ControlOK
<1>1. PICK stop \in {"max_tokens", "other"}, text \in BOOLEAN, tcs \in ToolCalls \cup {<<>>} :
         LET msg == AssistantMsg(step, text, Len(tcs))
             rows == AddAssistantRows(thread, msg)
         IN  IF NeedsErrorResults(stop, tcs)
             THEN /\ ctx' = AddResults(Append(ctx, msg), step, msg.ids)
                  /\ thread' = AddResultRows(rows, step, msg.ids)
                  /\ UNCHANGED stray
             ELSE /\ ctx' = Append(ctx, msg) /\ thread' = rows
                  /\ IF stop = "other" THEN LeftOpen(tcs) ELSE UNCHANGED stray
  BY DEF ChatCutOff
<1>2. CASE ~NeedsErrorResults(stop, tcs)
  <2>1. Observe(text, Len(tcs))
    BY <1>1, <1>2 DEF Observe
  <2>2. LeftOpen(tcs)
    BY <1>1, <1>2 DEF NeedsErrorResults, LeftOpen
  <2> QED BY <1>0, <2>1, <2>2, OpenHistories
<1>3. CASE NeedsErrorResults(stop, tcs)
  <2> DEFINE msg == AssistantMsg(step, text, Len(tcs))
             c == Append(ctx, msg)
             r == AddAssistantRows(thread, msg)
  <2>1. Len(tcs) \in Nat /\ Len(tcs) > 0
    BY <1>3, ToolCallTypes, EmptySeq DEF NeedsErrorResults
  <2>2. /\ ctx' = AddResults(c, step, msg.ids) /\ thread' = AddResultRows(r, step, msg.ids)
        /\ stray' = stray
    BY <1>1, <1>3
  <2>3. IsResponse(msg, Len(tcs))
    BY <1>0, <2>1, Response
  <2>4. /\ Entered(msg, Len(tcs), ctx, c, stray) /\ Entered(msg, Len(tcs), thread, r, stray)
        /\ OnlyPast(c) /\ Mirrors(r, c)
    BY <1>0, <2>1, Observed
  <2> HIDE DEF msg, c, r
  <2>5. /\ msg.ids \in SUBSET (Nat \X Nat) /\ msg.kind = "assistant" /\ msg.ids = CallIds(Len(tcs))
    BY <2>1, <2>3 DEF IsResponse, Messages
  <2>6. /\ c \in Seq(Messages) /\ Len(c) > 0 /\ c[Len(c)].kind = "assistant"
        /\ r \in Seq(Messages) /\ Len(r) > 0 /\ r[Len(r)].kind = "assistant"
    BY <2>1, <2>4, <2>5 DEF Entered
  <2> DEFINE answer == Results(step, msg.ids)
  <2>7. Extends(ctx', c, answer) /\ Extends(thread', r, answer)
    BY <1>0, <2>2, <2>5, <2>6, ResultsAdded
  <2>8. answer.kind = "results" /\ answer.ids = msg.ids
    BY DEF Results
  <2>9. /\ UpTo(ctx', step) /\ Shape(ctx', stray) /\ Ready(ctx', stray)
        /\ UpTo(thread', step) /\ Shape(thread', stray) /\ Ready(thread', stray)
    BY <1>0, <2>1, <2>3, <2>4, <2>7, ErrorResults
  <2> HIDE DEF answer
  <2>10. Mirrors(thread', ctx')
    BY <2>4, <2>6, <2>7, <2>8, MirrorsExtended
  <2>11. OnlyPast(ctx')
    <3>1. CallId(step, 1) \in msg.ids
      BY <2>1, <2>5 DEF CallIds
    <3>2. CallId(step, 1) # Reminder
      BY <1>0 DEF CallId, Reminder
    <3>3. ~(answer.kind = "results" /\ answer.ids = {Reminder})
      BY <2>8, <3>1, <3>2
    <3> QED BY <2>4, <2>6, <2>7, <3>3, PastKept
  <2>12. \A s \in stray : s <= step
    BY DEF HistoryInv, Dated
  <2> QED BY <1>0, <2>2, <2>9, <2>10, <2>11, <2>12, FinishHistories
<1> QED
  BY <1>2, <1>3

\* The run ends its turn, or answers a tool_use without a call.
LEMMA EndTurnHistories == TypeOK /\ HistoryInv /\ (EndTurn \/ ChatNoCalls) => HistoryInv'
<1>1. ASSUME TypeOK, HistoryInv, EndTurn PROVE HistoryInv'
  <2>1. pc = "chat" /\ pc' = "finish" /\ step' = step
    BY <1>1 DEF EndTurn, Suspend
  <2>2. PICK text \in BOOLEAN, tcs \in ToolCalls \cup {<<>>} :
           Observe(text, Len(tcs)) /\ LeftOpen(tcs)
    BY <1>1 DEF EndTurn
  <2> QED BY <1>1, <2>1, <2>2, OpenHistories
<1>2. ASSUME TypeOK, HistoryInv, ChatNoCalls PROVE HistoryInv'
  <2>1. pc = "chat" /\ pc' \in {"finish", "compact"} /\ step' = step /\ stray' = stray
    BY <1>2 DEF ChatNoCalls, Suspend
  <2>2. PICK text \in BOOLEAN : Observe(text, 0)
    BY <1>2 DEF ChatNoCalls
  <2>3. Observe(text, Len(<<>>)) /\ LeftOpen(<<>>)
    <3>1. Len(<<>>) = 0
      OBVIOUS
    <3> QED BY <2>1, <2>2, <3>1, Zenon DEF LeftOpen
  <2> QED BY <1>2, <2>1, <2>3, OpenHistories
<1> QED
  BY <1>1, <1>2

\* A deferred end_turn: the reminder enters the context as a user message and
\* the transcript as a tool_result.
LEMMA DeferredHistories == TypeOK /\ HistoryInv /\ EndTurnDeferred => HistoryInv'
<1> SUFFICES ASSUME TypeOK, HistoryInv, EndTurnDeferred PROVE HistoryInv'
  OBVIOUS
<1>0. /\ pc = "chat" /\ pc' = "finish" /\ step' = step /\ step \in Nat /\ step > 0
      /\ Called /\ \A s \in stray : s < step /\ s \in Nat
  <2>1. Called /\ pc = "chat"
    BY AtChat DEF EndTurnDeferred
  <2> QED BY <2>1 DEF EndTurnDeferred, Suspend, Called, TypeOK, HistoryOK
<1>1. PICK text \in BOOLEAN, tcs \in ToolCalls \cup {<<>>} :
         LET msg == AssistantMsg(step, text, Len(tcs))
         IN  /\ ctx' = ctx \o <<msg, UserText(step)>>
             /\ thread' = AddResultRows(AddAssistantRows(thread, msg), step, {Reminder})
             /\ LeftOpen(tcs)
  BY DEF EndTurnDeferred
<1> DEFINE msg == AssistantMsg(step, text, Len(tcs))
           c == Append(ctx, msg)
           r == AddAssistantRows(thread, msg)
<1>3. ctx' = ctx \o <<msg, UserText(step)>> /\ thread' = AddResultRows(r, step, {Reminder})
  BY <1>1
<1>a. Len(tcs) \in Nat /\ (tcs = <<>> => Len(tcs) = 0)
  BY ToolCallTypes, EmptySeq
<1>b. /\ stray' = stray \/ stray' = stray \cup {step}
      /\ Len(tcs) = 0 \/ step \in stray'
      /\ \A s \in stray' : s <= step
  BY <1>0, <1>1, <1>a DEF LeftOpen
<1>c. IsResponse(msg, Len(tcs))
  BY <1>0, <1>a, Response
<1>d. /\ Entered(msg, Len(tcs), ctx, c, stray') /\ Entered(msg, Len(tcs), thread, r, stray')
      /\ Extends(c, ctx, msg) /\ OnlyPast(c) /\ Mirrors(r, c)
  BY <1>0, <1>a, <1>b, Observed
<1> HIDE DEF msg, c, r
<1>2. /\ c \in Seq(Messages) /\ r \in Seq(Messages) /\ msg \in Messages
      /\ Extends(c, ctx, msg) /\ Mirrors(r, c) /\ OnlyPast(c)
      /\ UpTo(c, step) /\ Shape(c, stray') /\ Ready(c, stray')
      /\ UpTo(r, step) /\ Shape(r, stray') /\ Ready(r, stray')
      /\ ~(Len(r) > 0 /\ r[Len(r)].kind = "results" /\ r[Len(r)].step = step)
  BY <1>b, <1>c, <1>d DEF Entered, IsResponse
<1> DEFINE note == UserText(step)
           row == Results(step, {Reminder})
<1>4. /\ note \in Messages /\ note.kind = "user" /\ note.ids = {} /\ note.step = step
      /\ row \in Messages /\ row.kind = "results" /\ row.step = step
      /\ row.ids = {Reminder} /\ row = AsRow(note)
  <2>1. {Reminder} \in SUBSET (Nat \X Nat)
    BY DEF Reminder
  <2> QED BY <1>0, <2>1, MessageTypes DEF UserText, Results, AsRow
<1>5. Extends(ctx', c, note)
  <2> HIDE DEF note
  <2>1. Len(ctx) \in Nat /\ Len(c) = Len(ctx) + 1 /\ ctx \in Seq(Messages)
    BY <1>2, LenProperties DEF Extends, TypeOK, HistoryOK
  <2>2. /\ <<msg, note>> \in Seq(Messages) /\ Len(<<msg, note>>) = 2
        /\ <<msg, note>>[1] = msg /\ <<msg, note>>[2] = note
    BY <1>2, <1>4
  <2>3. ctx' = ctx \o <<msg, note>>
    BY <1>3 DEF note
  <2>4. /\ ctx' \in Seq(Messages) /\ Len(ctx') = Len(ctx) + 2
        /\ \A i \in 1..Len(ctx) + 2 :
              ctx'[i] = IF i <= Len(ctx) THEN ctx[i] ELSE <<msg, note>>[i - Len(ctx)]
    <3> DEFINE two == <<msg, note>>
    <3>1. two \in Seq(Messages) /\ Len(two) = 2
      BY <2>2
    <3> HIDE DEF two
    <3>2. /\ ctx \o two \in Seq(Messages) /\ Len(ctx \o two) = Len(ctx) + Len(two)
          /\ \A i \in 1..Len(ctx) + Len(two) :
                (ctx \o two)[i] = IF i <= Len(ctx) THEN ctx[i] ELSE two[i - Len(ctx)]
      BY <2>1, <3>1, ConcatProperties
    <3>3. /\ ctx \o two \in Seq(Messages) /\ Len(ctx \o two) = Len(ctx) + 2
          /\ \A i \in 1..Len(ctx) + 2 :
                (ctx \o two)[i] = IF i <= Len(ctx) THEN ctx[i] ELSE two[i - Len(ctx)]
      BY <3>1, <3>2
    <3> QED BY <2>3, <3>3 DEF two
  <2>5. Len(ctx') = Len(c) + 1 /\ ctx'[Len(ctx')] = note
    <3>1. /\ Len(ctx) + 2 \in 1..Len(ctx) + 2 /\ ~(Len(ctx) + 2 <= Len(ctx))
          /\ Len(ctx) + 2 - Len(ctx) = 2
      BY <2>1
    <3> QED BY <2>1, <2>2, <2>4, <3>1
  <2>6. \A i \in 1..Len(c) : ctx'[i] = c[i]
    <3>1. ASSUME NEW i \in 1..Len(ctx) PROVE ctx'[i] = c[i]
      BY <1>2, <2>1, <2>4 DEF Extends
    <3>2. ctx'[Len(c)] = c[Len(c)]
      <4>1. /\ Len(c) \in 1..Len(ctx) + 2 /\ ~(Len(c) <= Len(ctx)) /\ Len(c) - Len(ctx) = 1
        BY <2>1
      <4> QED BY <1>2, <2>2, <2>4, <4>1 DEF Extends
    <3> QED BY <2>1, <3>1, <3>2
  <2> QED BY <1>4, <2>4, <2>5, <2>6 DEF Extends
<1>6. Extends(thread', r, row)
  <2>1. {Reminder} \in SUBSET (Nat \X Nat)
    BY DEF Reminder
  <2> QED BY <1>0, <1>2, <1>3, <2>1, ResultsAdded
<1> HIDE DEF note, row
<1>7. Mirrors(thread', ctx')
  BY <1>2, <1>4, <1>5, <1>6, MirrorsExtended
<1>8. UpTo(ctx', step) /\ UpTo(thread', step)
  BY <1>0, <1>2, <1>4, <1>5, <1>6, UpToKept
<1>9. Fits(note, stray') /\ Fits(row, stray')
  BY <1>4 DEF Fits
<1>10. Shape(ctx', stray') /\ Shape(thread', stray')
  <2>1. UpTo(c, note.step) /\ UpTo(r, row.step)
    BY <1>2, <1>4
  <2>2. Shape(ctx', stray')
    BY <1>2, <1>5, <1>9, <2>1, ShapeExtended
  <2>3. Shape(thread', stray')
    BY <1>2, <1>6, <1>9, <2>1, ShapeExtended
  <2> QED BY <2>2, <2>3
<1>11. Ready(ctx', stray') /\ Ready(thread', stray')
  BY <1>2, <1>4, <1>5, <1>6, PlainReady
<1>12. OnlyPast(ctx')
  BY <1>2, <1>4, <1>5, PastKept
<1> QED
  BY <1>0, <1>b, <1>7, <1>8, <1>10, <1>11, <1>12, FinishHistories

\* A call of the batch returns: no other call has, and nothing is recorded.
LEMMA ReturnHistories ==
    ASSUME TypeOK, HistoryInv, NEW k \in 1..Len(calls), NEW o \in Outcomes, ToolReturns(k, o)
    PROVE  HistoryInv'
<1>1. /\ pc = "act" /\ k \in Batch(next) /\ got' = [got EXCEPT ![k] = o]
      /\ UNCHANGED <<pc, status, step, calls, next, ctx, thread, stray>>
  BY DEF ToolReturns, Unfinished, runVars, msgVars
<1>2. Batch(next)' = Batch(next)
  BY <1>1 DEF Batch
<1>3. OthersWait'
  BY <1>1, <1>2 DEF HistoryInv, Acting, OthersWait, TypeOK, ControlOK
<1>4. Answering(ctx)' /\ Answering(thread)'
  <2>1. Answering(ctx) /\ Answering(thread)
    BY <1>1 DEF HistoryInv, Acting
  <2>2. Answering(ctx)' <=> Answering(ctx)
    BY <1>1 DEF Answering, CallIds, Paired, Uses, Answers
  <2>3. Answering(thread)' <=> Answering(thread)
    BY <1>1 DEF Answering, CallIds, Paired, Uses, Answers
  <2> QED BY <2>1, <2>2, <2>3
<1>5. Mirroring'
  BY <1>1 DEF HistoryInv, Mirroring, Mirrors, Shown, Place
<1>6. Dated'
  BY <1>1 DEF HistoryInv, Dated, UpTo, Shape, OwnIds, StrayAlone, Ascending, OnlyPast, Answers
<1>7. Left'
  BY <1>1 DEF HistoryInv, Left, Ready, Halved, Paired, Uses, Answers
<1> QED
  BY <1>1, <1>3, <1>4, <1>5, <1>6, <1>7 DEF HistoryInv, Acting, ReadyBetween, Quiet

\* A history whose last response has the results of these calls.
Recording(t, ids) ==
    \E k \in 1..Len(t) :
        /\ k + 1 = Len(t) /\ t[k].kind = "assistant"
        /\ t[k].ids = CallIds(Len(calls)) /\ t[k].step = step
        /\ \A i \in 1..k - 1 : Paired(t, i, stray)
        /\ t[Len(t)].kind = "results" /\ t[Len(t)].step = step
        /\ t[Len(t)].ids = CallIds(next - 1) \cup ids

\* Recording a batch adds its results behind the response, in the context or in
\* the transcript.
LEMMA ResultsRecorded ==
    ASSUME TypeOK, pc = "act", step \notin stray, NEW s \in Seq(Messages), Answering(s),
           Shape(s, stray), UpTo(s, step), NEW ids, ids = {CallId(step, k) : k \in Recorded},
           NEW t, t = AddResults(s, step, ids) \/ t = AddResultRows(s, step, ids)
    PROVE  /\ t \in Seq(Messages) /\ UpTo(t, step) /\ Shape(t, stray) /\ Recording(t, ids)
           /\ next = 1 => Extends(t, s, Results(step, ids))
           /\ next > 1 => Widens(t, s, ids)
<1>0. /\ step \in Nat /\ Len(s) \in Nat /\ next \in Nat /\ next >= 1
  BY LenProperties DEF TypeOK, ControlOK
<1>1. ids \in SUBSET (Nat \X Nat) /\ \A id \in ids : id[1] = step /\ id[2] > 0
  <2>1. \A k \in Recorded : k \in Nat /\ k > 0
    BY <1>0, BatchFacts DEF TypeOK, ControlOK
  <2> QED BY <1>0, <2>1 DEF CallId
<1>3. PICK k \in 1..Len(s) :
         /\ s[k].kind = "assistant" /\ s[k].ids = CallIds(Len(calls)) /\ s[k].step = step
         /\ \A i \in 1..k - 1 : Paired(s, i, stray)
         /\ next = 1 => k = Len(s)
         /\ next > 1 => /\ k = Len(s) - 1 /\ s[Len(s)].kind = "results"
                        /\ s[Len(s)].ids = CallIds(next - 1) /\ s[Len(s)].step = step
  BY DEF Answering
<1> DEFINE answer == Results(step, ids)
<1>4. /\ answer \in Messages /\ answer.kind = "results" /\ answer.step = step
      /\ answer.ids = ids
  BY <1>0, <1>1, MessageTypes DEF Results
<1>5. CASE next = 1
  <2>1. k = Len(s) /\ s[Len(s)].kind = "assistant"
    BY <1>0, <1>3, <1>5
  <2>2. Extends(t, s, answer)
    BY <1>0, <1>1, <2>1, ResultsAdded
  <2>3. Fits(answer, stray)
    BY <1>1, <1>4 DEF Fits
  <2> HIDE DEF answer
  <2>4. UpTo(t, step) /\ Shape(t, stray)
    BY <1>0, <1>4, <2>2, <2>3, UpToKept, ShapeExtended
  <2>5. /\ k \in 1..Len(t) /\ k + 1 = Len(t) /\ t[k] = s[k] /\ t[Len(t)] = answer
        /\ t \in Seq(Messages)
    BY <1>0, <2>1, <2>2 DEF Extends
  <2>6. \A i \in 1..k - 1 : Paired(t, i, stray)
    <3> SUFFICES ASSUME NEW i \in 1..k - 1 PROVE Paired(t, i, stray)
      OBVIOUS
    <3>1. i \in 1..Len(s) /\ Paired(s, i, stray)
      BY <1>0, <1>3
    <3> QED BY <2>2, <3>1, PairedExtended
  <2>7. CallIds(next - 1) = {}
    BY <1>5 DEF CallIds
  <2>8. Recording(t, ids)
    BY <1>3, <1>4, <2>5, <2>6, <2>7 DEF Recording
  <2> QED BY <1>5, <2>2, <2>4, <2>5, <2>8 DEF answer
<1>6. CASE next > 1
  <2>1. /\ k = Len(s) - 1 /\ Len(s) > 0 /\ s[Len(s)].kind = "results"
        /\ s[Len(s)].ids = CallIds(next - 1) /\ s[Len(s)].step = step
    BY <1>0, <1>3, <1>6
  <2>2. Widens(t, s, ids)
    BY <1>0, <1>1, <2>1, ResultsAdded
  <2>4. UpTo(t, step) /\ Shape(t, stray)
    BY <1>0, <1>1, <2>1, <2>2, UpToKept, ShapeWidened
  <2>5. k \in 1..Len(t) /\ k + 1 = Len(t) /\ t[k] = s[k] /\ t \in Seq(Messages)
    <3>1. k \in 1..Len(s) /\ k # Len(s) /\ k + 1 = Len(s)
      BY <1>0, <2>1
    <3>2. Len(t) = Len(s)
      BY <2>2 DEF Widens
    <3> QED BY <2>2, <3>1, <3>2 DEF Widens
  <2>6. \A i \in 1..k - 1 : Paired(t, i, stray)
    <3> SUFFICES ASSUME NEW i \in 1..k - 1 PROVE Paired(t, i, stray)
      OBVIOUS
    <3>1. i \in 1..Len(s) - 2 /\ Paired(s, i, stray)
      BY <1>0, <1>3, <2>1
    <3> QED BY <2>2, <3>1, PairedWidened
  <2>7. /\ t[Len(t)].kind = "results" /\ t[Len(t)].step = step
        /\ t[Len(t)].ids = CallIds(next - 1) \cup ids
    <3>1. s[Len(s)] \in Messages
      BY <1>0, <2>1, ElementOfSeq
    <3>2. t[Len(t)] = [s[Len(s)] EXCEPT !.ids = @ \cup ids]
      BY <2>2 DEF Widens
    <3> QED BY <2>1, <3>1, <3>2 DEF Messages
  <2>8. Recording(t, ids)
    BY <1>3, <2>5, <2>6, <2>7 DEF Recording
  <2> QED BY <1>6, <2>2, <2>4, <2>5, <2>8
<1>7. next = 1 \/ next > 1
  BY <1>0
<1> HIDE DEF answer
<1> QED
  BY <1>5, <1>6, <1>7

\* Both histories get the results of a batch.
LEMMA BatchRecorded ==
    ASSUME TypeOK, HistoryInv, RecordBatch, NEW ids, ids = {CallId(step, k) : k \in Recorded}
    PROVE  /\ ctx' \in Seq(Messages) /\ UpTo(ctx', step) /\ Shape(ctx', stray)
           /\ thread' \in Seq(Messages) /\ UpTo(thread', step) /\ Shape(thread', stray)
           /\ Recording(ctx', ids) /\ Recording(thread', ids)
           /\ Mirrors(thread', ctx') /\ OnlyPast(ctx')
<1>0. /\ pc = "act" /\ step \in Nat /\ ctx \in Seq(Messages) /\ thread \in Seq(Messages)
      /\ next \in Nat /\ next >= 1
      /\ Answering(ctx) /\ Answering(thread) /\ Mirrors(thread, ctx) /\ OnlyPast(ctx)
      /\ UpTo(ctx, step) /\ UpTo(thread, step) /\ Shape(ctx, stray) /\ Shape(thread, stray)
  BY DEF RecordBatch, HistoryInv, Acting, Mirroring, Writing, Dated, TypeOK, ControlOK,
         HistoryOK
<1>s. step \notin stray
  BY <1>0 DEF HistoryInv, Dated
<1>1. ctx' = AddResults(ctx, step, ids) /\ thread' = AddResultRows(thread, step, ids)
  BY DEF RecordBatch
<1>2. /\ ctx' \in Seq(Messages) /\ UpTo(ctx', step) /\ Shape(ctx', stray) /\ Recording(ctx', ids)
      /\ next = 1 => Extends(ctx', ctx, Results(step, ids))
      /\ next > 1 => Widens(ctx', ctx, ids)
  BY <1>0, <1>s, <1>1, ResultsRecorded
<1>3. /\ thread' \in Seq(Messages) /\ UpTo(thread', step) /\ Shape(thread', stray)
      /\ Recording(thread', ids)
      /\ next = 1 => Extends(thread', thread, Results(step, ids))
      /\ next > 1 => Widens(thread', thread, ids)
  BY <1>0, <1>s, <1>1, ResultsRecorded
<1>4. CallId(step, next) \in ids /\ CallId(step, next) # Reminder
  <2>1. next \in Recorded
    BY <1>0, BatchFacts DEF Recorded, Refused
  <2> QED BY <1>0, <2>1 DEF CallId, Reminder
<1>5. CASE next = 1
  <2> DEFINE answer == Results(step, ids)
  <2>1. answer.kind = "results" /\ answer.ids = ids
    BY DEF Results
  <2>2. Extends(ctx', ctx, answer) /\ Extends(thread', thread, answer)
    BY <1>2, <1>3, <1>5
  <2>3. ~(answer.kind = "results" /\ answer.ids = {Reminder})
    BY <1>4, <2>1
  <2> HIDE DEF answer
  <2>4. Mirrors(thread', ctx')
    BY <1>0, <2>1, <2>2, MirrorsExtended
  <2>5. OnlyPast(ctx')
    BY <1>0, <2>2, <2>3, PastKept
  <2> QED BY <1>2, <1>3, <2>4, <2>5
<1>6. CASE next > 1
  <2>1. Widens(ctx', ctx, ids) /\ Widens(thread', thread, ids)
    BY <1>2, <1>3, <1>6
  <2>2. Mirrors(thread', ctx')
    BY <1>0, <2>1, MirrorsWidened
  <2>3. OnlyPast(ctx')
    BY <1>0, <1>4, <2>1, PastKept
  <2> QED BY <1>2, <1>3, <2>2, <2>3
<1> QED
  BY <1>0, <1>5, <1>6

\* A recorded batch: the next one starts behind it, or the response has all
\* its results, or the run has failed.
LEMMA RecordHistories == TypeOK /\ HistoryInv /\ RecordBatch => HistoryInv'
<1> SUFFICES ASSUME TypeOK, HistoryInv, RecordBatch PROVE HistoryInv'
  OBVIOUS
<1>0. /\ pc = "act" /\ step' = step /\ stray' = stray /\ step \in Nat /\ Len(calls) \in Nat
      /\ calls' = calls /\ got' = got /\ next \in 1..Len(calls)
      /\ OthersWait /\ step > 0 /\ \A s \in stray : s < step
  BY LenProperties DEF RecordBatch, TypeOK, ControlOK, HistoryInv, Acting, Dated
<1> DEFINE ids == {CallId(step, k) : k \in Recorded}
<1>1. /\ ctx' \in Seq(Messages) /\ UpTo(ctx', step) /\ Shape(ctx', stray)
      /\ thread' \in Seq(Messages) /\ UpTo(thread', step) /\ Shape(thread', stray)
      /\ Recording(ctx', ids) /\ Recording(thread', ids)
      /\ Mirrors(thread', ctx') /\ OnlyPast(ctx')
  BY BatchRecorded
<1>s. \A s \in stray : s <= step
  BY DEF HistoryInv, Dated
<1>2. PICK last \in LastRecorded : next' = last + 1
  BY DEF RecordBatch
<1>3. /\ last \in Recorded /\ \A j \in Recorded : j <= last
      /\ last \in next..Len(calls) /\ next' \in Nat /\ next' > 1
  BY <1>0, <1>2, BatchFacts DEF LastRecorded
<1>4. ASSUME Refused = {}
      PROVE  CallIds(next - 1) \cup ids = CallIds(next' - 1)
  <2>1. Recorded = Batch(next) /\ next..last \subseteq Recorded /\ Recorded \subseteq next..last
    BY <1>0, <1>3, <1>4, BatchFacts
  <2>2. (1..next - 1) \cup Recorded = 1..next' - 1
    BY <1>0, <1>2, <1>3, <2>1
  <2> HIDE <1>2
  <2> QED BY <2>2 DEF CallIds
<1>h. CallIds(next - 1) \cup ids \subseteq CallIds(Len(calls))
  <2>1. (1..next - 1) \cup Recorded \subseteq 1..Len(calls)
    BY <1>0, BatchFacts
  <2> HIDE <1>2
  <2> QED BY <2>1 DEF CallIds
<1> HIDE DEF ids
<1>l. Halved(thread', step, stray)
  <2>1. PICK k \in 1..Len(thread') :
            /\ k + 1 = Len(thread') /\ thread'[k].kind = "assistant"
            /\ thread'[k].ids = CallIds(Len(calls)) /\ thread'[k].step = step
            /\ \A i \in 1..k - 1 : Paired(thread', i, stray)
            /\ thread'[Len(thread')].kind = "results"
            /\ thread'[Len(thread')].ids = CallIds(next - 1) \cup ids
    BY <1>1 DEF Recording
  <2> QED BY <1>h, <2>1 DEF Halved
<1>5. CASE Refused = {} /\ next' <= Len(calls) /\ KeepStatus /\ UNCHANGED pc
  <2>1. ASSUME NEW t, t \in Seq(Messages), Recording(t, ids)
        PROVE  \E k \in 1..Len(t) :
                  /\ t[k].kind = "assistant" /\ t[k].ids = CallIds(Len(calls))'
                  /\ t[k].step = step'
                  /\ \A i \in 1..k - 1 : Paired(t, i, stray')
                  /\ next' = 1 => k = Len(t)
                  /\ next' > 1 => /\ k = Len(t) - 1 /\ t[Len(t)].kind = "results"
                                  /\ t[Len(t)].ids = CallIds(next - 1)'
                                  /\ t[Len(t)].step = step'
    <3>1. PICK k \in 1..Len(t) :
            /\ k + 1 = Len(t) /\ t[k].kind = "assistant"
            /\ t[k].ids = CallIds(Len(calls)) /\ t[k].step = step
            /\ \A i \in 1..k - 1 : Paired(t, i, stray)
            /\ t[Len(t)].kind = "results" /\ t[Len(t)].step = step
            /\ t[Len(t)].ids = CallIds(next' - 1)
      BY <1>4, <1>5, <2>1 DEF Recording
    <3>2. CallIds(Len(calls))' = CallIds(Len(calls)) /\ CallIds(next - 1)' = CallIds(next' - 1)
      BY <1>0 DEF CallIds
    <3>3. k = Len(t) - 1
      BY <2>1, <3>1, LenProperties
    <3>4. next' # 1 /\ next' > 1
      BY <1>3
    <3>5. /\ t[k].ids = CallIds(Len(calls))' /\ t[Len(t)].ids = CallIds(next - 1)'
          /\ t[k].step = step' /\ t[Len(t)].step = step'
          /\ \A i \in 1..k - 1 : Paired(t, i, stray')
      BY <1>0, <3>1, <3>2
    <3> QED BY <3>1, <3>3, <3>4, <3>5, Zenon
  <2>2. Answering(ctx)' /\ Answering(thread)'
    <3>1. Answering(ctx)'
      BY <1>1, <2>1, Zenon DEF Answering
    <3>2. Answering(thread)'
      BY <1>1, <2>1, Zenon DEF Answering
    <3> QED BY <3>1, <3>2
  <2>6. OthersWait'
    <3> SUFFICES ASSUME NEW j \in next'..Len(calls) PROVE got[j] = "wait"
      BY <1>0 DEF OthersWait
    <3>1. j \in next..Len(calls) /\ ~(j <= last)
      BY <1>0, <1>2, <1>3
    <3>2. j \notin Batch(next)
      BY <1>0, <1>3, <1>5, <3>1, BatchFacts
    <3> QED BY <1>0, <3>1, <3>2 DEF OthersWait
  <2>7. Mirroring'
    BY <1>1 DEF Mirroring, Mirrors, Shown, Place
  <2>8. Dated'
    <3>1. /\ UpTo(ctx, step)' /\ Shape(ctx, stray)' /\ OnlyPast(ctx)'
          /\ UpTo(thread, step)' /\ Shape(thread, stray)'
      BY <1>0, <1>1 DEF UpTo, Shape, OwnIds, StrayAlone, Ascending, OnlyPast, Answers
    <3> QED BY <1>0, <1>s, <1>5, <3>1 DEF Dated
  <2>9. Left'
    BY <1>0, <1>l DEF Left, Halved, Paired, Uses, Answers
  <2> QED
    BY <1>0, <1>5, <2>2, <2>6, <2>7, <2>8, <2>9 DEF HistoryInv, Acting, ReadyBetween, Quiet
<1>6. CASE /\ Refused # {} \/ next' > Len(calls)
           /\ Settle(Refused # {})
           /\ Suspend("finish") \/ (status' = "running" /\ Suspend("compact"))
  <2>1. pc' \in {"finish", "compact"} /\ (pc' = "compact" => status' = "running")
    BY <1>6 DEF Suspend
  <2>2. ASSUME status' = "running", NEW t, t \in Seq(Messages), Recording(t, ids)
        PROVE  Ready(t, stray)
    <3>1. Refused = {}
      BY <1>6, <2>2 DEF Settle, MarkFailed
    <3>2. next' - 1 = Len(calls)
      BY <1>0, <1>2, <1>3, <1>6, <3>1
    <3>3. PICK k \in 1..Len(t) :
            /\ k + 1 = Len(t) /\ t[k].kind = "assistant"
            /\ t[k].ids = CallIds(Len(calls))
            /\ \A i \in 1..k - 1 : Paired(t, i, stray)
            /\ t[Len(t)].kind = "results"
            /\ t[Len(t)].ids = CallIds(Len(calls))
      BY <1>4, <2>2, <3>1, <3>2 DEF Recording
    <3> QED BY <2>2, <3>3, AnsweredReady
  <2> QED BY <1>0, <1>1, <1>s, <1>l, <2>1, <2>2, FinishHistories
<1>7. \/ Refused = {} /\ next' <= Len(calls) /\ KeepStatus /\ UNCHANGED pc
      \/ /\ Refused # {} \/ next' > Len(calls)
         /\ Settle(Refused # {})
         /\ Suspend("finish") \/ (status' = "running" /\ Suspend("compact"))
  BY DEF RecordBatch
<1> QED
  BY <1>5, <1>6, <1>7, Zenon

\* A compaction rewrites both histories.
LEMMA CompactHistories ==
    TypeOK /\ HistoryInv /\ (OverflowCompacted \/ AutoCompact) => HistoryInv'
<1> SUFFICES ASSUME TypeOK, HistoryInv, OverflowCompacted \/ AutoCompact PROVE HistoryInv'
  OBVIOUS
<1>1. /\ pc \in {"overflow", "compact"} /\ pc' = "finish" /\ step' = step
      /\ step \in Nat /\ ctx \in Seq(Messages)
      /\ Ready(ctx, stray) /\ UpTo(ctx, step) /\ Shape(ctx, stray) /\ OnlyPast(ctx)
      /\ Ready(thread, stray) /\ UpTo(thread, step) /\ Shape(thread, stray)
      /\ Mirrors(thread, ctx) /\ \A s \in stray : s <= step
  BY DEF OverflowCompacted, AutoCompact, Suspend, TypeOK, ControlOK, HistoryOK, HistoryInv,
         ReadyBetween, Quiet, Mirroring, Writing, Dated
<1>2. CASE UNCHANGED msgVars
  <2>1. ctx' = ctx /\ thread' = thread /\ stray' = stray
    BY <1>2 DEF msgVars
  <2> QED BY <1>1, <2>1, FinishHistories
<1>3. CASE \E force \in BOOLEAN : Compacted(force)
  <2>0. PICK force \in BOOLEAN : Compacted(force)
    BY <1>3
  <2>1. PICK m \in Compactions(ctx, force) : ctx' = m /\ thread' = m /\ stray' = stray
    BY <2>0 DEF Compacted
  <2>2. /\ m \in Seq(Messages) /\ Ready(m, stray) /\ UpTo(m, step) /\ Shape(m, stray)
        /\ OnlyPast(m)
    BY <1>1, CompactionReady
  <2>3. Mirrors(m, m)
    BY <2>2, MirrorsItself
  <2> QED BY <1>1, <2>1, <2>2, <2>3, FinishHistories
<1> QED
  BY <1>2, <1>3 DEF OverflowCompacted, AutoCompact

\* The histories hold when the runner has set up the run.
LEMMA InitHistories == Init => HistoryInv
<1> SUFFICES ASSUME Init PROVE HistoryInv
  OBVIOUS
<1>1. /\ pc = "prompt" /\ step = 0 /\ thread = ctx /\ stray = {} /\ ctx \in Seq(Messages)
      /\ Replayable(ctx) /\ OwnIds(ctx) /\ \A i \in 1..Len(ctx) : ctx[i].step = 0
  BY PastType DEF Init
<1>2. Mirrors(thread, ctx)
  BY <1>1, MirrorsItself
<1>3. Ready(ctx, stray)
  <2> SUFFICES ASSUME NEW i \in 1..Len(ctx) PROVE Paired(ctx, i, stray)
    BY DEF Ready
  <2>1. Answers(ctx, i) # {} => Answers(ctx, i) = ctx[i].ids
    BY DEF Answers
  <2> QED BY <1>1, <2>1 DEF Replayable, Paired
<1>4. /\ UpTo(ctx, step) /\ Shape(ctx, stray) /\ OnlyPast(ctx)
  BY <1>1 DEF UpTo, Shape, StrayAlone, Ascending, OnlyPast
<1> QED
  BY <1>1, <1>2, <1>3, <1>4
     DEF HistoryInv, Acting, ReadyBetween, Quiet, Mirroring, Writing, Dated, Left

\* A step that writes no message.
LEMMA UnwrittenHistories ==
    ASSUME TypeOK, HistoryInv, UNCHANGED msgVars,
           \/ pc' = "ended" /\ step' = step
           \/ pc # "ended" /\ pc' \in {"stop", "report"} /\ step' = step
           \/ /\ pc \in Quiet /\ pc' \in Quiet \ {"begin", "chat"} /\ step' = step
           \/ /\ pc \in {"begin", "chat"} /\ pc' = "chat" /\ step' = step
           \/ /\ pc = "start" \/ (pc = "finish" /\ status = "running")
              /\ pc' = "begin" /\ step' = step + 1
           \/ UNCHANGED <<pc, status, step, calls, next, got>>
    PROVE  HistoryInv'
<1>0. step \in Nat /\ stray \subseteq Nat /\ ctx' = ctx /\ thread' = thread /\ stray' = stray
  BY DEF TypeOK, ControlOK, HistoryOK, msgVars
<1>i. Acting /\ ReadyBetween /\ Mirroring /\ Dated /\ Left
  BY DEF HistoryInv
<1>1. /\ Mirrors(thread, ctx)' <=> Mirrors(thread, ctx)
      /\ Ready(ctx, stray)' <=> Ready(ctx, stray)
      /\ Ready(thread, stray)' <=> Ready(thread, stray)
      /\ Shape(ctx, stray)' <=> Shape(ctx, stray)
      /\ Shape(thread, stray)' <=> Shape(thread, stray)
      /\ OnlyPast(ctx)' <=> OnlyPast(ctx)
      /\ UpTo(ctx, step)' <=> UpTo(ctx, step')
      /\ UpTo(thread, step)' <=> UpTo(thread, step')
      /\ UpTo(ctx, step - 1)' <=> UpTo(ctx, step' - 1)
      /\ UpTo(thread, step - 1)' <=> UpTo(thread, step' - 1)
  BY <1>0 DEF Mirrors, Shown, Place, Ready, Paired, Uses, Answers, Shape, OwnIds, StrayAlone,
     Ascending, OnlyPast, UpTo
<1>2. Mirroring'
  BY <1>1, <1>i DEF Mirroring, Quiet, Writing
<1>3. ReadyBetween'
  BY <1>1, <1>i DEF ReadyBetween, Quiet
<1>4. Left'
  <2>1. step' = step => (Halved(thread, step, stray)' <=> Halved(thread, step, stray))
    BY <1>0 DEF Halved, Paired, Uses, Answers
  <2>2. CASE step' = step
    BY <1>1, <1>i, <2>1, <2>2 DEF Left, Quiet
  <2>3. CASE pc' = "begin"
    BY <1>3, <2>3 DEF ReadyBetween, Quiet, Left
  <2> QED BY <2>2, <2>3
<1>5. Dated'
  <2>1. CASE step' = step
    BY <1>0, <1>1, <1>i, <2>1 DEF Dated, Quiet, Writing
  <2>2. CASE /\ pc = "start" \/ (pc = "finish" /\ status = "running")
             /\ pc' = "begin" /\ step' = step + 1
    <3>1. /\ UpTo(ctx, step) /\ UpTo(thread, step) /\ Shape(ctx, stray) /\ Shape(thread, stray)
          /\ OnlyPast(ctx) /\ \A s \in stray : s <= step
      BY <1>i, <2>2 DEF Dated, Writing
    <3>2. /\ \A s \in stray : s < step' /\ s <= step'
          /\ step' - 1 = step /\ step' > 0 /\ step' \in Nat /\ step <= step'
      BY <1>0, <2>2, <3>1
    <3>3. UpTo(ctx, step') /\ UpTo(thread, step')
      BY <1>0, <3>1, <3>2, UpToLater DEF TypeOK, HistoryOK
    <3> QED BY <1>0, <1>1, <2>2, <3>1, <3>2, <3>3 DEF Dated
  <2> QED BY <2>1, <2>2
<1>6. Acting'
  <2>1. CASE UNCHANGED <<pc, status, step, calls, next, got>>
    <3>1. (Answering(ctx)' <=> Answering(ctx)) /\ (Answering(thread)' <=> Answering(thread))
      BY <1>0, <2>1 DEF Answering, CallIds, Paired, Uses, Answers
    <3>2. OthersWait' <=> OthersWait
      BY <2>1 DEF OthersWait, Batch
    <3> QED BY <1>i, <2>1, <3>1, <3>2 DEF Acting
  <2>2. CASE ~UNCHANGED <<pc, status, step, calls, next, got>>
    BY <2>2 DEF Acting, Quiet
  <2> QED BY <2>1, <2>2
<1> QED
  BY <1>2, <1>3, <1>4, <1>5, <1>6 DEF HistoryInv

\* Every step of the run keeps the histories as they have to be.
LEMMA NextHistories == TypeOK /\ HistoryInv /\ [Next]_vars => HistoryInv'
<1> SUFFICES ASSUME TypeOK, HistoryInv, [Next]_vars PROVE HistoryInv'
  OBVIOUS
<1>1. CASE PromptSubmitted
  BY <1>1, UnwrittenHistories DEF PromptSubmitted, Suspend, Quiet
<1>2. CASE RunStarted
  BY <1>2, UnwrittenHistories DEF RunStarted, EnterStep, Suspend
<1>3. CASE StepStarted
  BY <1>3, UnwrittenHistories DEF StepStarted, Suspend
<1>4. CASE ChatRetry
  BY <1>4, UnwrittenHistories DEF ChatRetry
<1>5. CASE ChatFails
  BY <1>5, UnwrittenHistories DEF ChatFails, Suspend, Quiet
<1>6. CASE ChatToolUse
  BY <1>6, ToolUseHistories
<1>7. CASE ChatCutOff
  BY <1>7, CutOffHistories
<1>8. CASE EndTurnDeferred
  BY <1>8, DeferredHistories
<1>9. CASE EndTurn \/ ChatNoCalls
  BY <1>9, EndTurnHistories
<1>10. ASSUME NEW k \in 1..Len(calls), NEW o \in Outcomes, ToolReturns(k, o)
       PROVE  HistoryInv'
  BY <1>10, ReturnHistories
<1>11. CASE RecordBatch
  BY <1>11, RecordHistories
<1>12. CASE OverflowCompacted \/ AutoCompact
  BY <1>12, CompactHistories
<1>13. CASE OverflowDeclined \/ StopHooks \/ Cancel \/ CancelOutside \/ RunRaises
  BY <1>13, UnwrittenHistories
     DEF OverflowDeclined, StopHooks, Cancel, CancelOutside, RunRaises, Suspend, InTry
<1>14. CASE StepFinished
  BY <1>14, UnwrittenHistories DEF StepFinished, NextStepOrStop, EnterStep, Suspend
<1>15. CASE RunFinished
  BY <1>15 DEF RunFinished, Suspend, HistoryInv, Acting, ReadyBetween, Quiet, Mirroring,
     Writing, Dated, Left
<1>16. CASE SubagentUpdatesTodo
  BY <1>16, UnwrittenHistories DEF SubagentUpdatesTodo, runVars, actVars
<1>17. CASE Done \/ UNCHANGED vars
  BY <1>17, UnwrittenHistories DEF Done, vars, runVars, actVars
<1> QED
  BY <1>1, <1>2, <1>3, <1>4, <1>5, <1>6, <1>7, <1>8, <1>9, <1>10, <1>11, <1>12,
     <1>13, <1>14, <1>15, <1>16, <1>17 DEF Next, Progress

-----------------------------------------------------------------------------
(* The inductive invariant                                                  *)

\* Every deferral and the one reactive compaction buy one step; a running
\* step that is over, or that already spent the compaction, has one to spare.
Allowed == MaxSteps + defers + (IF overflowed THEN 1 ELSE 0)
StepBudget ==
    /\ pc \in {"prompt", "start"} => step = 0
    /\ step <= Allowed
    /\ status = "running" /\ pc \in {"overflow", "compact", "finish"} => step < Allowed

\* After the verdict the run task only publishes and runs hooks.
DecidedIsOver == status # "running" => pc \in {"finish", "stop", "report", "ended"}

\* The repair is the last thing a run does, and what it leaves can be replayed.
RepairIsLast == recovered => pc = "ended" /\ Replayable(thread)

IInv == TypeOK /\ StepBudget /\ DecidedIsOver /\ RepairIsLast /\ HistoryInv

\* The inductive invariant holds when the runner has set up the run.
LEMMA InitInvariant == Init => IInv
<1>. SUFFICES ASSUME Init PROVE IInv
  OBVIOUS
<1>1. StepBudget
  BY LimitsAssumption DEF Init, StepBudget, Allowed
<1>. QED
  BY <1>1, InitType, InitHistories DEF Init, IInv, DecidedIsOver, RepairIsLast

\* Every step keeps the count of steps within the limit, its deferrals and
\* its compactions.
LEMMA NextBudget == TypeOK /\ DecidedIsOver /\ StepBudget /\ [Next]_vars => StepBudget'
<1>. SUFFICES ASSUME TypeOK, DecidedIsOver, StepBudget, [Next]_vars PROVE StepBudget'
  OBVIOUS
<1>0. /\ MaxSteps \in Nat \ {0} /\ step \in Nat /\ defers \in Nat /\ overflowed \in BOOLEAN
  BY LimitsAssumption DEF TypeOK, ControlOK
<1>. USE DEF StepBudget, Allowed, Suspend, runVars, todoVars, actVars, msgVars
<1>1. CASE PromptSubmitted \/ StepStarted \/ StopHooks \/ CancelOutside \/ RunFinished
  BY <1>0, <1>1 DEF PromptSubmitted, StepStarted, StopHooks, CancelOutside, RunFinished
<1>2. CASE RunStarted
  BY <1>0, <1>2 DEF RunStarted, EnterStep, KeepStatus, MarkFailed
<1>3. CASE ChatRetry \/ ChatToolUse
  BY <1>0, <1>3 DEF ChatRetry, ChatToolUse
<1>4. CASE ChatFails
  BY <1>0, <1>4 DEF ChatFails, MayCompact, KeepStatus, MarkFailed
<1>5. CASE ChatCutOff \/ ChatNoCalls
  BY <1>0, <1>5 DEF ChatCutOff, ChatNoCalls, StepLimit, KeepStatus, MarkFailed
<1>6. CASE EndTurnDeferred
  BY <1>0, <1>6 DEF EndTurnDeferred
<1>7. CASE EndTurn
  BY <1>0, <1>7 DEF EndTurn
<1>8. ASSUME NEW k \in 1..Len(calls), NEW o \in Outcomes, ToolReturns(k, o)
      PROVE  StepBudget'
  BY <1>0, <1>8 DEF ToolReturns
<1>9. CASE RecordBatch
  <2>1. UNCHANGED <<step, defers, overflowed>> /\ pc = "act"
    BY <1>9 DEF RecordBatch
  <2>2. CASE KeepStatus /\ UNCHANGED pc
    BY <1>0, <2>1, <2>2
  <2>3. CASE Settle(Refused # {}) /\ pc' \in {"finish", "compact"}
    BY <1>0, <2>1, <2>3 DEF Settle, StepLimit, MarkFailed, KeepStatus
  <2>. QED
    BY <1>9, <2>2, <2>3 DEF RecordBatch
<1>10. CASE OverflowCompacted \/ AutoCompact
  <2>1. /\ pc \in {"overflow", "compact"} /\ pc' = "finish"
        /\ UNCHANGED <<status, step, defers, overflowed>>
    BY <1>10, Zenon DEF OverflowCompacted, AutoCompact
  <2>. QED
    BY <1>0, <2>1
<1>11. CASE OverflowDeclined
  BY <1>0, <1>11 DEF OverflowDeclined, MarkFailed
<1>12. CASE StepFinished
  BY <1>0, <1>12 DEF StepFinished, NextStepOrStop, EnterStep
<1>13. CASE Cancel \/ RunRaises
  BY <1>0, <1>13 DEF Cancel, RunRaises, InTry
<1>14. CASE SubagentUpdatesTodo
  BY <1>0, <1>14 DEF SubagentUpdatesTodo
<1>15. CASE Done \/ UNCHANGED vars
  BY <1>0, <1>15 DEF Done, vars
<1>. QED
  BY <1>1, <1>2, <1>3, <1>4, <1>5, <1>6, <1>7, <1>8, <1>9, <1>10, <1>11, <1>12,
     <1>13, <1>14, <1>15 DEF Next, Progress

\* A run whose verdict is given never starts another step or call.
LEMMA NextDecided == TypeOK /\ DecidedIsOver /\ [Next]_vars => DecidedIsOver'
<1>. SUFFICES ASSUME TypeOK, DecidedIsOver, [Next]_vars PROVE DecidedIsOver'
  OBVIOUS
<1>. USE DEF DecidedIsOver, Suspend, runVars
<1>1. CASE PromptSubmitted \/ RunStarted \/ StepStarted \/ StopHooks \/ CancelOutside \/ RunFinished
  BY <1>1 DEF PromptSubmitted, RunStarted, StepStarted, StopHooks, CancelOutside,
              RunFinished, EnterStep, KeepStatus, MarkFailed
<1>2. CASE \/ ChatRetry \/ ChatFails \/ ChatToolUse \/ ChatNoCalls \/ ChatCutOff
           \/ EndTurnDeferred \/ EndTurn
  BY <1>2 DEF ChatRetry, ChatFails, ChatToolUse, ChatNoCalls, ChatCutOff, EndTurnDeferred,
              EndTurn, KeepStatus, MarkFailed
<1>3. ASSUME NEW k \in 1..Len(calls), NEW o \in Outcomes, ToolReturns(k, o)
      PROVE  DecidedIsOver'
  BY <1>3 DEF ToolReturns
<1>4. CASE RecordBatch
  BY <1>4 DEF RecordBatch, KeepStatus
<1>5. CASE OverflowCompacted \/ OverflowDeclined \/ AutoCompact
  BY <1>5 DEF OverflowCompacted, OverflowDeclined, AutoCompact
<1>6. CASE StepFinished
  BY <1>6 DEF StepFinished, NextStepOrStop, EnterStep
<1>7. CASE Cancel \/ RunRaises
  BY <1>7 DEF Cancel, RunRaises
<1>8. CASE SubagentUpdatesTodo \/ Done \/ UNCHANGED vars
  BY <1>8 DEF SubagentUpdatesTodo, Done, vars
<1>. QED
  BY <1>1, <1>2, <1>3, <1>4, <1>5, <1>6, <1>7, <1>8 DEF Next, Progress

\* The transcript the runner repairs.
LEMMA AtReport ==
    ASSUME TypeOK, HistoryInv, RunFinished
    PROVE  /\ Closing(thread, stray, step) /\ step \in Nat
           /\ thread' \in Seq(Messages) /\ Len(thread') \in Nat /\ Cut(thread, Len(thread'))
           /\ \A i \in 1..Len(thread') : thread'[i] = thread[i]
<1>1. Closing(thread, stray, step) /\ step \in Nat
  BY DEF Closing, RunFinished, HistoryInv, Dated, Left, TypeOK, ControlOK, HistoryOK
<1>2. Recovered(thread, thread') /\ thread \in Seq(Messages)
  BY DEF RunFinished, TypeOK, HistoryOK
<1>3. PICK n \in 0..Len(thread) :
         /\ thread' \in Seq(Messages) /\ Len(thread') = n
         /\ \A i \in 1..n : thread'[i] = thread[i]
         /\ \/ n = Len(thread) /\ Pending(thread, Len(thread)) = {}
            \/ n \in CutMarks(thread) /\ \A m \in CutMarks(thread) : n <= m
  BY <1>2, RepairType
<1>4. Len(thread') \in Nat
  BY <1>3, LenProperties
<1> QED
  BY <1>1, <1>3, <1>4 DEF Cut

\* After recover_incomplete_tail nothing is written to the transcript.
LEMMA NextRepair == TypeOK /\ HistoryInv /\ RepairIsLast /\ [Next]_vars => RepairIsLast'
<1>. SUFFICES ASSUME TypeOK, HistoryInv, RepairIsLast, [Next]_vars PROVE RepairIsLast'
  OBVIOUS
<1>1. CASE RunFinished
  <2>1. Replayable(thread')
    BY <1>1, AtReport, CutReplayable
  <2>. QED
    BY <1>1, <2>1 DEF RunFinished, RepairIsLast, Suspend
<1>2. CASE pc = "ended"
  <2>1. UNCHANGED vars
    BY <1>2 DEF Next, Progress, vars, PromptSubmitted, RunStarted, StepStarted, ChatRetry,
       ChatFails, ChatToolUse, ChatNoCalls, ChatCutOff, EndTurnDeferred, EndTurn, ToolReturns,
       RecordBatch, OverflowCompacted, OverflowDeclined, AutoCompact, StepFinished,
       StopHooks, RunFinished, Cancel, CancelOutside, RunRaises, InTry,
       SubagentUpdatesTodo, Done
  <2>. QED
    BY <2>1 DEF vars, runVars, msgVars, RepairIsLast
<1>3. CASE pc # "ended" /\ ~RunFinished
  <2>1. UNCHANGED recovered
    BY <1>3 DEF Next, Progress, vars, runVars, PromptSubmitted, RunStarted, StepStarted,
       ChatRetry, ChatFails, ChatToolUse, ChatNoCalls, ChatCutOff, EndTurnDeferred, EndTurn,
       ToolReturns, RecordBatch, OverflowCompacted, OverflowDeclined, AutoCompact,
       StepFinished, StopHooks, Cancel, CancelOutside, RunRaises, SubagentUpdatesTodo, Done
  <2>. QED
    BY <1>3, <2>1 DEF RepairIsLast
<1>. QED
  BY <1>1, <1>2, <1>3

\* The conjunction the theorems below rest on is an invariant: initially true
\* and kept by every action.
THEOREM InductiveInvariant == Spec => []IInv
<1>1. IInv /\ [Next]_vars => IInv'
  BY NextType, NextBudget, NextDecided, NextRepair, NextHistories DEF IInv
<1>. QED
  BY <1>1, InitInvariant, PTL DEF Spec

-----------------------------------------------------------------------------
(* The properties                                                           *)

\* max_steps is exceeded by at most the deferrals and one compaction.
THEOREM StepsBounded == Spec => []StepBound
<1>1. IInv => StepBound
  BY LimitsAssumption DEF IInv, TypeOK, ControlOK, StepBudget, Allowed, StepBound
<1>. QED
  BY <1>1, InductiveInvariant, PTL

\* Whatever the run was doing when it ended, the transcript its repair leaves can
\* be replayed: each call is followed by its results and nothing else is answered.
THEOREM RepairHandsOn == Spec => []HandsOn
<1>1. IInv => HandsOn
  BY DEF IInv, RepairIsLast, HandsOn
<1>. QED
  BY <1>1, InductiveInvariant, PTL

\* The repair loses nothing older than the last step, or than the first one
\* whose calls nobody answers.
THEOREM RepairLosesOneStep == Spec => RepairKeepsSteps
<1>. DEFINE A == recovered' # recovered =>
                   \A i \in 1..Len(thread) :
                      (\A s \in stray \cup {step} : thread[i].step < s) =>
                         i <= Len(thread') /\ thread'[i] = thread[i]
<1>1. IInv /\ [Next]_vars => [A]_vars
  <2>. SUFFICES ASSUME TypeOK, HistoryInv, [Next]_vars, recovered' # recovered,
                       NEW i \in 1..Len(thread),
                       \A s \in stray \cup {step} : thread[i].step < s
                PROVE  i <= Len(thread') /\ thread'[i] = thread[i]
    BY DEF IInv
  <2>1. RunFinished
    BY DEF Next, Progress, vars, runVars, PromptSubmitted, RunStarted, StepStarted,
       ChatRetry, ChatFails, ChatToolUse, ChatNoCalls, ChatCutOff, EndTurnDeferred, EndTurn,
       ToolReturns, RecordBatch, OverflowCompacted, OverflowDeclined, AutoCompact,
       StepFinished, StopHooks, Cancel, CancelOutside, RunRaises, SubagentUpdatesTodo, Done
  <2>2. i <= Len(thread')
    BY <2>1, AtReport, CutKeeps
  <2>3. i \in 1..Len(thread')
    BY <2>1, <2>2, AtReport, LenProperties DEF TypeOK, HistoryOK
  <2>. QED
    BY <2>1, <2>2, <2>3, AtReport
<1>. QED
  BY <1>1, InductiveInvariant, PTL DEF Spec, RepairKeepsSteps

\* Whenever the model is called, every tool_use of the context has all its
\* results in the next message and no other tool_result is there, but for past
\* reminders and the responses whose stop reason no branch answers.
THEOREM ModelIsReady == Spec => []ContextReady
<1>1. ASSUME IInv, pc = "chat" PROVE ApiReady(ctx)
  <2>1. Ready(ctx, stray) /\ OnlyPast(ctx)
    BY <1>1 DEF IInv, HistoryInv, ReadyBetween, Quiet, Dated, Writing
  <2>2. \A i \in 1..Len(ctx) : Answers(ctx, i) # {} => Answers(ctx, i) = ctx[i].ids
    BY DEF Answers
  <2>. QED
    BY <2>1, <2>2 DEF Ready, Paired, OnlyPast, ApiReady
<1>2. IInv => ContextReady
  BY <1>1 DEF ContextReady
<1>. QED
  BY <1>2, InductiveInvariant, PTL

\* While the run works, the transcript mirrors the context message by message.
THEOREM TranscriptMirrors == Spec => []ThreadMirrorsContext
<1>1. IInv => ThreadMirrorsContext
  BY DEF IInv, HistoryInv, Mirroring, Writing, ThreadMirrorsContext
<1>. QED
  BY <1>1, InductiveInvariant, PTL

\* A serial call returns after the results of all earlier calls are recorded
\* and before any later call has returned.
THEOREM SerialRunsAlone == Spec => SerialCallsOrdered
<1>. DEFINE Alone(k) ==
         /\ \A j \in 1..k - 1 : CallId(step, j) \in ctx[Len(ctx)].ids
                                /\ ctx[Len(ctx)].kind = "results"
         /\ \A j \in k + 1..Len(calls) : got[j] = "wait"
     A == \A k \in 1..Len(calls) :
             (pc = "act" /\ got'[k] # got[k] /\ calls[k] = "ser") => Alone(k)
<1>1. IInv /\ [Next]_vars => [A]_vars
  <2>. SUFFICES ASSUME TypeOK, HistoryInv, [Next]_vars, NEW k \in 1..Len(calls),
                       pc = "act", got'[k] # got[k], calls[k] = "ser"
                PROVE  Alone(k)
    BY DEF IInv
  <2>1. PICK i \in 1..Len(calls), o \in Outcomes : ToolReturns(i, o)
    BY DEF Next, Progress, vars, actVars, PromptSubmitted, RunStarted, StepStarted,
       ChatRetry, ChatFails, ChatToolUse, ChatNoCalls, ChatCutOff, EndTurnDeferred, EndTurn,
       RecordBatch, OverflowCompacted, OverflowDeclined, AutoCompact, StepFinished, StopHooks,
       RunFinished, Cancel, CancelOutside, RunRaises, SubagentUpdatesTodo, Done
  <2>2. k = i
    BY <2>1 DEF ToolReturns, TypeOK, ControlOK
  <2>3. k = next /\ Batch(next) = {next}
    BY <2>1, <2>2, BatchFacts DEF ToolReturns, Unfinished
  <2>4. next \in Nat /\ Answering(ctx) /\ OthersWait
    BY DEF TypeOK, ControlOK, HistoryInv, Acting
  <2>5. ASSUME NEW j \in 1..k - 1
        PROVE  CallId(step, j) \in ctx[Len(ctx)].ids /\ ctx[Len(ctx)].kind = "results"
    <3>1. next > 1 /\ j \in 1..next - 1
      BY <2>3, <2>4
    <3>. QED
      BY <2>4, <3>1 DEF Answering, CallIds
  <2>6. ASSUME NEW j \in k + 1..Len(calls) PROVE got[j] = "wait"
    <3>1. j \in next..Len(calls) /\ j # next
      BY <2>3, <2>4
    <3>. QED
      BY <2>3, <2>4, <3>1 DEF OthersWait
  <2>. QED
    BY <2>5, <2>6
<1>. QED
  BY <1>1, InductiveInvariant, PTL DEF Spec, SerialCallsOrdered

\* No step of a decided run changes its verdict or takes up new work.
THEOREM VerdictIsFinal == Spec => VerdictFinal
<1>. DEFINE A == status # "running" => UNCHANGED <<status, reason, step, calls, got, defers>>
<1>1. IInv /\ [Next]_vars => [A]_vars
  <2>. SUFFICES ASSUME DecidedIsOver, [Next]_vars, status # "running"
                PROVE  UNCHANGED <<status, reason, step, calls, got, defers>>
    BY DEF IInv
  <2>1. pc \in {"finish", "stop", "report", "ended"}
    BY DEF DecidedIsOver
  <2>2. \/ StepFinished \/ StopHooks \/ RunFinished
        \/ Cancel \/ CancelOutside \/ RunRaises
        \/ SubagentUpdatesTodo \/ Done \/ UNCHANGED vars
    BY <2>1 DEF Next, Progress, PromptSubmitted, RunStarted, StepStarted, ChatRetry,
       ChatFails, ChatToolUse, ChatNoCalls, ChatCutOff, EndTurnDeferred, EndTurn, ToolReturns,
       RecordBatch, OverflowCompacted, OverflowDeclined, AutoCompact
  <2>. QED
    BY <2>2 DEF StepFinished, NextStepOrStop, StopHooks, RunFinished, Cancel,
       CancelOutside, RunRaises, FailIfRunning, KeepStatus, SubagentUpdatesTodo, Done,
       vars, runVars, todoVars, actVars
<1>. QED
  BY <1>1, InductiveInvariant, PTL DEF Spec, VerdictFinal

-----------------------------------------------------------------------------
(* The interface: the parts of its inductive invariant.                    *)

\* The places in the stream of the events of a type, and of the answers to c.
Tells(type) == {i \in DOMAIN down : down[i].kind = "event" /\ down[i].type = type}
Due(c) == {i \in DOMAIN down : down[i].kind = "reply" /\ down[i].call = c}

\* The requests that nobody has decided, whoever made them.
Standing == open \cup theirs

\* Requests are numbered as they are made, and their selects are in that order.
Numbered ==
    /\ Standing \cup blocks \subseteq 1..asks
    /\ \A i \in DOMAIN selects : selects[i] \in 1..asks
    /\ \A i, j \in DOMAIN selects : i < j => selects[i] < selects[j]

\* So are the requests on their way to the interface, behind those it has shown.
Coming ==
    \A i \in Tells("requested") :
        /\ down[i].ask \in 1..asks
        /\ \A k \in DOMAIN selects : selects[k] < down[i].ask
        /\ \A j \in Tells("requested") : i < j => down[i].ask < down[j].ask

\* And the denials, which come for the oldest request that is open, as long as
\* no client has denied another one.
Going ==
    \A i \in Tells("denied") :
        /\ down[i].ask \in 1..asks
        /\ ~crossed => \A q \in Standing : down[i].ask < q
        /\ ~crossed => \A j \in Tells("denied") : i < j => down[i].ask < down[j].ask

\* A request that was shown has its select until its denial has arrived.
Decidable ==
    ~crossed =>
        (Standing \cup {down[i].ask : i \in Tells("denied")}) \cap blocks \subseteq ToSet(selects)

AskInv == Numbered /\ Coming /\ Going /\ Decidable

\* The stream has not ended.
Linked == loop = "running" /\ ended = "no"

\* How far the set-up of the connection has come.
Linkage ==
    /\ phase \in {"subscribe", "open", "ready"} => client
    /\ phase \in {"subscribe", "open", "ready"} /\ ended = "no" => loop = "running"
    /\ Linked => core
    /\ Linked /\ (phase \in {"open", "ready"} \/ call["subscribe"] = "ok" \/ Due("subscribe") # {})
          => fed

\* The message of a send is with one of: the wire, the session, the stream back.
OneAnswer ==
    Linked => \A c \in Sends :
        /\ lock = c \/ c \in inbox \/ Due(c) # {} => call[c] = "pending"
        /\ lock = c => c \notin inbox
        /\ Due(c) # {} => lock # c /\ c \notin inbox
        /\ \A i, j \in Due(c) : i = j

\* The calls a handler of the message pump waits for.
Handled == {"pick", "answer"}

Up ==
    /\ phase = "ready" /\ client /\ Linked /\ core /\ fed
    /\ \A c \in Handled : call[c] # "cut"

\* A message is under way only over the connection it was sent on.
Attached == (busy /\ ~dropped) \/ lock # Nobody \/ inbox \cap Sends # {} => Up

\* The session is locked from the run's start until it has told how it ended.
Held == stage = "idle" <=> lock = Nobody

\* The interface is busy until an error of a send that is still to come, or the
\* news of the session.
Resolvable ==
    busy /\ ~dropped =>
        \/ Tells("waiting") \cup Tells("interrupted") # {}
        \/ \E c \in Sends :
              \/ call[c] = "err"
              \/ /\ call[c] = "pending" /\ \A i \in Due(c) : ~down[i].ok
                 /\ lock = c => stage # "told"

\* The prompt is shut for a reason, and whoever is the reason opens it.
ShutFor ==
    phase = "ready" /\ ended = "no" /\ ~dropped /\ ~locked /\ ~prompt =>
        blocks # {} \/ busy \/ picker \/ \E c \in Handled \cup {"switch"} : call[c] # "none"

UseInv == Linkage /\ OneAnswer /\ Attached /\ Resolvable /\ ShutFor

-----------------------------------------------------------------------------
\* No message is named like a command.
LEMMA Names ==
    ASSUME TuiAssumption
    PROVE  /\ Nobody \notin Sends
           /\ \A c \in Sends : c \notin {"subscribe", "open", "switch", "pick", "cancel", "answer"}
           /\ Calls = Sends \cup {"subscribe", "open", "switch", "pick", "cancel", "answer"}
  BY DEF TuiAssumption, Nobody, Calls, Setup

\* What the daemon writes, and what the client reads in it.
LEMMA LinesWritten ==
    /\ \A c \in Calls, ok \in BOOLEAN :
          /\ Reply(c, ok) \in StreamLines
          /\ Reply(c, ok).kind = "reply" /\ Reply(c, ok).call = c /\ Reply(c, ok).ok = ok
    /\ \A t \in {"started", "finished", "waiting", "interrupted"} :
          Own(t) \in StreamLines /\ Own(t).kind = "event" /\ Own(t).type = t
    /\ \A t \in {"waiting", "closed"} :
          Others(t) \in StreamLines /\ Others(t).kind = "event" /\ Others(t).type = t
    /\ \A t \in {"requested", "denied"}, q \in Asks :
          /\ About(t, q) \in StreamLines
          /\ About(t, q).kind = "event" /\ About(t, q).type = t
          /\ About(t, q).ask = q
<1>1. \A c \in Calls, ok \in BOOLEAN :
         /\ Reply(c, ok) \in StreamLines
         /\ Reply(c, ok).kind = "reply" /\ Reply(c, ok).call = c /\ Reply(c, ok).ok = ok
  <2>1. \A c \in Calls, ok \in BOOLEAN : Reply(c, ok) \in StreamLines
    BY DEF StreamLines
  <2> QED BY <2>1 DEF Reply
<1>2. \A t \in {"started", "finished", "waiting", "interrupted"} :
         Own(t) \in StreamLines /\ Own(t).kind = "event" /\ Own(t).type = t
  <2>1. \A t \in {"started", "finished", "waiting", "interrupted"} : Own(t) \in StreamLines
    BY DEF StreamLines
  <2> QED BY <2>1 DEF Own, Event
<1>3. \A t \in {"waiting", "closed"} :
         Others(t) \in StreamLines /\ Others(t).kind = "event" /\ Others(t).type = t
  <2>1. \A t \in {"waiting", "closed"} : Others(t) \in StreamLines
    BY DEF StreamLines
  <2> QED BY <2>1 DEF Others, Event
<1>4. \A t \in {"requested", "denied"}, q \in Asks :
         /\ About(t, q) \in StreamLines
         /\ About(t, q).kind = "event" /\ About(t, q).type = t
         /\ About(t, q).ask = q
  <2>1. \A t \in {"requested", "denied"}, q \in Asks : About(t, q) \in StreamLines
    BY DEF StreamLines
  <2> QED BY <2>1 DEF About, Event
<1> QED BY <1>1, <1>2, <1>3, <1>4

\* An answer, when it is the answer to c.
LEMMA AnswerWritten ==
    ASSUME NEW c \in Calls, NEW ok \in BOOLEAN
    PROVE  /\ Reply(c, ok) \in StreamLines
           /\ Reply(c, ok).kind = "reply" /\ Reply(c, ok).call = c /\ Reply(c, ok).ok = ok
  BY LinesWritten, Zenon

\* What a line of the stream can be.
LEMMA LinesRead ==
    ASSUME NEW m \in StreamLines
    PROVE  /\ m.kind \in {"reply", "event"}
           /\ m.kind = "reply" => m.call \in Calls /\ m.ok \in BOOLEAN
           /\ m.kind = "event" /\ m.type \in {"requested", "denied"} => m.ask \in Asks
  BY DEF StreamLines, Reply, Own, Others, About, Event

\* The lines behind those that were there.
LEMMA Grown ==
    ASSUME NEW X, NEW t \in Seq(X), NEW s \in Seq(X)
    PROVE  /\ t \o s \in Seq(X)
           /\ DOMAIN (t \o s) = 1..(Len(t) + Len(s))
           /\ \A i \in DOMAIN t : i \in DOMAIN (t \o s) /\ (t \o s)[i] = t[i]
           /\ \A i \in DOMAIN (t \o s) :
                 \/ i \in DOMAIN t
                 \/ i - Len(t) \in DOMAIN s /\ (t \o s)[i] = s[i - Len(t)] /\ i \notin DOMAIN t
<1>1. Len(t) \in Nat /\ Len(s) \in Nat /\ DOMAIN t = 1..Len(t) /\ DOMAIN s = 1..Len(s)
  OBVIOUS
<1>2. /\ t \o s \in Seq(X) /\ Len(t \o s) = Len(t) + Len(s)
      /\ \A i \in 1..(Len(t) + Len(s)) :
            (t \o s)[i] = IF i <= Len(t) THEN t[i] ELSE s[i - Len(t)]
  BY ConcatProperties
<1>3. \A i \in 1..(Len(t) + Len(s)) :
         \/ i <= Len(t) /\ i \in 1..Len(t)
         \/ ~(i <= Len(t)) /\ i - Len(t) \in 1..Len(s) /\ i \notin 1..Len(t)
  BY <1>1
<1>4. DOMAIN (t \o s) = 1..(Len(t) + Len(s))
  BY <1>2
<1> QED BY <1>1, <1>2, <1>3, <1>4

\* Without the one at place i, the entries are the others and in their order.
LEMMA Removed ==
    ASSUME NEW X, NEW t \in Seq(X), NEW i \in DOMAIN t
    PROVE  /\ RemoveAt(t, i) \in Seq(X)
           /\ DOMAIN RemoveAt(t, i) = 1..(Len(t) - 1)
           /\ \A k \in 1..(Len(t) - 1) :
                 RemoveAt(t, i)[k] = IF k < i THEN t[k] ELSE t[k + 1]
<1> DEFINE a == SubSeq(t, 1, i - 1)
           b == SubSeq(t, i + 1, Len(t))
<1>1. Len(t) \in Nat /\ i \in 1..Len(t)
  OBVIOUS
<1>2. a \in Seq(X) /\ Len(a) = i - 1 /\ \A k \in 1..(i - 1) : a[k] = t[k]
  BY <1>1
<1>3. b \in Seq(X) /\ Len(b) = Len(t) - i /\ \A k \in 1..(Len(t) - i) : b[k] = t[i + k]
  BY <1>1
<1>4. RemoveAt(t, i) = a \o b
  BY DEF RemoveAt
<1> HIDE DEF a, b
<1>5. /\ a \o b \in Seq(X) /\ Len(a \o b) = Len(t) - 1
      /\ \A k \in 1..(Len(t) - 1) : (a \o b)[k] = IF k <= i - 1 THEN a[k] ELSE b[k - (i - 1)]
  <2>1. Len(a) + Len(b) = Len(t) - 1
    BY <1>1, <1>2, <1>3
  <2> QED BY <1>2, <1>3, <2>1, ConcatProperties, SMTT(30)
<1>6. \A k \in 1..(Len(t) - 1) :
         \/ k < i /\ k <= i - 1 /\ k \in 1..(i - 1)
         \/ ~(k < i) /\ ~(k <= i - 1) /\ k - (i - 1) \in 1..(Len(t) - i)
            /\ i + (k - (i - 1)) = k + 1
  BY <1>1
<1>7. DOMAIN (a \o b) = 1..(Len(t) - 1)
  BY <1>5
<1> QED BY <1>2, <1>3, <1>4, <1>5, <1>6, <1>7, SMTT(30)

-----------------------------------------------------------------------------
CallStates == {"none", "pending", "ok", "err", "cut", "lost"}

\* What the client does to its futures leaves them futures.
LEMMA CallsTyped ==
    ASSUME TuiAssumption, TuiTypeOK
    PROVE  /\ \A c \in Calls : Issued(call, c) \in [Calls -> CallStates] /\ Sent(c) \subseteq Calls
           /\ AllCut \in [Calls -> CallStates]
           /\ \A m \in StreamLines : m.kind = "reply" => Resolved(m) \in [Calls -> CallStates]
           /\ \A c \in Calls : [call EXCEPT ![c] = "none"] \in [Calls -> CallStates]
<1>1. call \in [Calls -> CallStates] /\ inbox \subseteq Calls
  BY DEF TuiTypeOK, CallStates
<1>2. \A c \in Calls, how \in {"ok", "err", "cut"} : Settled(c, how) \in CallStates
  BY DEF Settled, CallStates
<1>3. \A c \in Calls : Issued(call, c) \in [Calls -> CallStates] /\ Sent(c) \subseteq Calls
  BY <1>1 DEF Issued, Sent, CallStates
<1>4. AllCut \in [Calls -> CallStates]
  BY <1>1, <1>2 DEF AllCut
<1>5. \A m \in StreamLines : m.kind = "reply" => Resolved(m) \in [Calls -> CallStates]
  BY <1>1, <1>2 DEF Resolved
<1>6. \A c \in Calls : [call EXCEPT ![c] = "none"] \in [Calls -> CallStates]
  BY <1>1 DEF CallStates
<1> QED BY <1>3, <1>4, <1>5, <1>6

\* The type invariant of the interface, action by action.
LEMMA TypedInit == ASSUME TuiAssumption, TuiInit PROVE TuiTypeOK
<1>1. call \in [Calls -> CallStates]
  BY DEF TuiInit, CallStates
<1>2. /\ blocks \subseteq Asks /\ selects \in Seq(Asks) /\ down \in Seq(StreamLines)
      /\ inbox \subseteq Calls /\ {open, theirs} \subseteq SUBSET Asks
  BY DEF TuiInit
<1>3. deciding \in 0 .. MaxAsks /\ asks \in 0 .. MaxAsks /\ ends \in 0 .. MaxEnds
      /\ others \in 0 .. MaxOthers
  BY DEF TuiInit, TuiAssumption
<1>4. {client, known, busy, prompt, picker, active, cancelling, fed, core} \subseteq BOOLEAN
      /\ {rough, dropped, locked, crossed} \subseteq BOOLEAN
  BY DEF TuiInit
<1>5. /\ phase = "retry" /\ loop = "off" /\ ended = "no" /\ lock = Nobody /\ stage = "idle"
  BY DEF TuiInit
<1> QED BY <1>1, <1>2, <1>3, <1>4, <1>5 DEF TuiTypeOK, CallStates

\* The socket loop keeps the types.
LEMMA TypedSocket ==
    ASSUME TuiAssumption, TuiTypeOK, SocketLoop \/ LoopEnds
    PROVE  TuiTypeOK'
<1>1. "subscribe" \in Calls /\ "open" \in Calls
  BY Names
<1>2. CASE Connect
  <2>1. call' \in [Calls -> CallStates]
    BY <1>2 DEF Connect, TuiTypeOK, CallStates
  <2>2. /\ phase' = "subscribe" /\ client' = TRUE /\ loop' = "running" /\ fed' = FALSE
        /\ inbox' \subseteq Calls /\ down' = <<>> /\ down' \in Seq(StreamLines) /\ ended' = "no"
    BY <1>1, <1>2 DEF Connect
  <2>3. UNCHANGED <<known, busy, prompt, picker, active, cancelling, blocks, selects, deciding,
                    core, lock, stage, open, theirs, asks, ends, others, rough, dropped, locked,
                    crossed>>
    BY <1>2 DEF Connect, daemon, history
  <2> QED BY <2>1, <2>2, <2>3 DEF TuiTypeOK, CallStates, Setup
<1>3. CASE ConnectFails \/ Wake
  BY <1>3 DEF ConnectFails, Wake, TuiTypeOK, wire, daemon, history
<1>4. CASE Subscribed \/ Opened
  <2>1. call' \in [Calls -> CallStates] /\ inbox' \subseteq Calls
    BY <1>1, <1>4, CallsTyped DEF Subscribed, Opened, Issue, wire, TuiTypeOK, CallStates
  <2> QED BY <1>4, <2>1 DEF Subscribed, Opened, TuiTypeOK, wire, daemon, history, CallStates, Setup
<1>5. CASE Disconnected \/ WorkerEnds
  <2>1. Teardown("sleep") \/ Teardown("ended")
    BY <1>5 DEF Disconnected, WorkerEnds
  <2>2. call' \in [Calls -> CallStates]
    BY <2>1, CallsTyped DEF Teardown
  <2> QED BY <2>1, <2>2 DEF Teardown, TuiTypeOK, daemon, history, CallStates
<1>6. CASE LoopEnds
  <2>1. call' \in [Calls -> CallStates]
    BY <1>6, CallsTyped DEF LoopEnds
  <2> QED BY <1>6, <2>1 DEF LoopEnds, TuiTypeOK, tui, daemon, history, CallStates
<1> QED BY <1>2, <1>3, <1>4, <1>5, <1>6 DEF SocketLoop

\* So does the reading of a line, whatever the line is.
LEMMA TypedDispatch == ASSUME TuiAssumption, TuiTypeOK, Dispatch PROVE TuiTypeOK'
<1> DEFINE m == Head(down)
<1>1. m \in StreamLines /\ down' \in Seq(StreamLines)
  BY DEF Dispatch, TuiTypeOK
<1>2. UNCHANGED <<phase, client, known, picker, deciding, loop, ended, inbox, fed, rough, dropped,
                  crossed>>
      /\ UNCHANGED daemon
  BY DEF Dispatch
<1>3. CASE m.kind = "reply"
  <2>1. /\ call' = Resolved(m)
        /\ UNCHANGED <<busy, prompt, active, cancelling, blocks, selects, locked>>
    BY <1>3 DEF Dispatch
  <2>2. call' \in [Calls -> CallStates]
    BY <1>1, <1>3, <2>1, CallsTyped
  <2> HIDE DEF m
  <2> QED BY <1>1, <1>2, <2>1, <2>2 DEF TuiTypeOK, daemon, CallStates
<1>4. CASE m.kind = "event"
  <2>1. OnEvent(m) /\ UNCHANGED call /\ locked' \in BOOLEAN
    BY <1>4 DEF Dispatch, TuiTypeOK
  <2>2. m.type \in {"requested", "denied"} => m.ask \in Asks
    BY <1>1, <1>4, LinesRead
  <2> HIDE DEF m
  <2>3. /\ busy' \in BOOLEAN /\ prompt' \in BOOLEAN /\ active' \in BOOLEAN
        /\ cancelling' \in BOOLEAN
    BY <2>1 DEF OnEvent, OnSessionEvent, OnRunEvent, OnPermissionEvent, TuiTypeOK
  <2>4. blocks' \subseteq Asks /\ selects' \in Seq(Asks)
    <3>1. blocks \subseteq Asks /\ selects \in Seq(Asks)
      BY DEF TuiTypeOK
    <3>2. DropSelect(selects) \in Seq(Asks)
      BY <3>1 DEF DropSelect
    <3>3. \/ UNCHANGED <<blocks, selects>>
          \/ /\ m.type = "requested"
             /\ blocks' = blocks \cup {m.ask} /\ selects' = Append(selects, m.ask)
          \/ blocks' = blocks \ {m.ask} /\ selects' = DropSelect(selects)
      BY <2>1 DEF OnEvent, OnPermissionEvent
    <3>4. Append(selects, m.ask) \in Seq(Asks) \/ m.type # "requested"
      BY <2>2, <3>1
    <3> QED BY <2>2, <3>1, <3>2, <3>3, <3>4
  <2> QED BY <1>1, <1>2, <2>1, <2>3, <2>4 DEF TuiTypeOK, daemon
<1> QED BY <1>1, <1>3, <1>4, LinesRead

\* So do the user and what comes back to him.
LEMMA TypedUser == ASSUME TuiAssumption, TuiTypeOK, User \/ Returns PROVE TuiTypeOK'
<1>1. Sends \subseteq Calls /\ {"switch", "pick", "cancel", "answer"} \subseteq Calls
  BY Names
<1>2. CASE \E c \in Sends : Submit(c)
  <2> PICK c \in Sends : Submit(c)
    BY <1>2
  <2>1. call' \in [Calls -> CallStates] /\ inbox' \subseteq Calls
    BY <1>1, CallsTyped DEF Submit, Issue
  <2> QED BY <2>1 DEF Submit, TuiTypeOK, daemon, CallStates
<1>3. CASE Switch \/ CancelRun
  <2>1. call' \in [Calls -> CallStates] /\ inbox' \subseteq Calls
    BY <1>1, <1>3, CallsTyped DEF Switch, CancelRun, Issue
  <2> QED BY <1>3, <2>1 DEF Switch, CancelRun, TuiTypeOK, daemon, history, CallStates
<1>6. CASE Pick \/ Dismiss
  <2>1. call' \in [Calls -> CallStates] /\ inbox' \subseteq Calls
    BY <1>1, <1>6, CallsTyped DEF Pick, Dismiss, Issue, wire, TuiTypeOK, CallStates
  <2> QED BY <1>6, <2>1 DEF Pick, Dismiss, TuiTypeOK, wire, daemon, history, CallStates
<1>4. CASE \E i \in DOMAIN selects : Decide(i)
  <2> PICK i \in DOMAIN selects : Decide(i)
    BY <1>4
  <2>1. call' \in [Calls -> CallStates] /\ inbox' \subseteq Calls
    BY <1>1, CallsTyped DEF Decide, Issue, TuiTypeOK, CallStates
  <2>2. selects' \in Seq(Asks) /\ blocks' \subseteq Asks /\ deciding' \in 0 .. MaxAsks
    <3>1. selects \in Seq(Asks) /\ selects[i] \in Asks /\ Asks \subseteq 0 .. MaxAsks
      BY DEF TuiTypeOK, Asks, TuiAssumption
    <3> QED BY <3>1, Removed DEF Decide, TuiTypeOK
  <2> QED BY <2>1, <2>2 DEF Decide, TuiTypeOK, daemon, CallStates
<1>5. CASE Returns
  <2>1. call' \in [Calls -> CallStates]
    BY <1>1, <1>5, CallsTyped
    DEF Returns, SwitchReturns, PickReturns, CancelReturns, AnswerReturns, HandlerCut, SendReturns,
        wire, TuiTypeOK, CallStates
  <2>2. deciding' \in 0 .. MaxAsks
    BY <1>5
    DEF Returns, SwitchReturns, PickReturns, CancelReturns, AnswerReturns, HandlerCut, SendReturns,
        TuiTypeOK, TuiAssumption
  <2>3. /\ UNCHANGED <<client, known, active, blocks, selects, loop, down, ended, inbox, fed>>
        /\ UNCHANGED daemon /\ UNCHANGED history
        /\ busy' \in BOOLEAN /\ prompt' \in BOOLEAN /\ picker' \in BOOLEAN
        /\ cancelling' \in BOOLEAN /\ phase' \in {phase, "crashed"}
    <3>1. CASE SwitchReturns \/ PickReturns \/ CancelReturns \/ AnswerReturns
      BY <3>1 DEF SwitchReturns, PickReturns, CancelReturns, AnswerReturns, TuiTypeOK
    <3>2. CASE HandlerCut \/ \E c \in Sends : SendReturns(c)
      BY <3>2 DEF HandlerCut, SendReturns, wire, TuiTypeOK
    <3> QED BY <1>5, <3>1, <3>2 DEF Returns
  <2> QED BY <2>1, <2>2, <2>3 DEF TuiTypeOK, daemon, history, CallStates
<1> QED BY <1>2, <1>3, <1>4, <1>5, <1>6 DEF User

\* A line is put behind the others; an event only for a client that is fed.
LEMMA OneLine ==
    ASSUME down \in Seq(StreamLines), NEW m \in StreamLines
    PROVE  /\ Append(down, m) \in Seq(StreamLines)
           /\ Feed(down, <<m>>) = IF fed /\ core THEN Append(down, m) ELSE down
<1>1. down \o <<m>> = Append(down, m) /\ Append(down, m) \in Seq(StreamLines)
  BY AppendIsConcat, AppendProperties
<1> QED BY <1>1 DEF Feed

\* The requests handled and the steps of the run only lengthen the stream.
LEMMA TypedDaemon ==
    ASSUME TuiAssumption, TuiTypeOK, Held, Handlers \/ Run \/ Ask \/ DecidedElsewhere \/ OtherEnds
    PROVE  TuiTypeOK'
<1> USE DEF tui, daemon, history
<1>1. /\ down \in Seq(StreamLines) /\ asks \in Nat /\ others \in Nat /\ MaxAsks \in Nat
      /\ MaxOthers \in Nat /\ Standing \subseteq Asks /\ inbox \subseteq Calls
      /\ lock \in Sends \cup {Nobody} /\ Sends \subseteq Calls
  BY Names DEF TuiTypeOK, TuiAssumption, Standing
<1>2. CASE HandleSubscribe
  <2>1. down' \in Seq(StreamLines)
    <3>1. Reply("subscribe", TRUE) \in StreamLines
      BY LinesWritten, Names
    <3> QED BY <1>1, <1>2, <3>1, OneLine DEF HandleSubscribe
  <2> QED BY <1>2, <2>1 DEF HandleSubscribe, Handle, TuiTypeOK
<1>3. CASE \E c \in Calls : HandleSession(c)
  <2> PICK c \in Calls : HandleSession(c)
    BY <1>3
  <2>1. down' \in Seq(StreamLines)
    <3>1. PICK ok \in BOOLEAN : down' = Append(down, Reply(c, ok))
      BY DEF HandleSession
    <3> QED BY <1>1, <3>1, LinesWritten, OneLine
  <2> QED BY <2>1 DEF HandleSession, Handle, TuiTypeOK
<1>4. CASE \E c \in Calls : HandleSend(c)
  <2> PICK c \in Calls : HandleSend(c)
    BY <1>4
  <2>1. down' \in Seq(StreamLines)
    <3>1. Reply(c, FALSE) \in StreamLines /\ Own("started") \in StreamLines
      BY LinesWritten
    <3> QED BY <1>1, <3>1, OneLine DEF HandleSend
  <2> QED BY <2>1 DEF HandleSend, Handle, TuiTypeOK
<1>5. CASE HandleAnswer \/ HandleCancel
  <2>1. down' \in Seq(StreamLines)
    <3>1. /\ Reply("answer", TRUE) \in StreamLines /\ Reply("cancel", FALSE) \in StreamLines
          /\ Own("finished") \in StreamLines
      BY LinesWritten, Names
    <3> QED BY <1>1, <1>5, <3>1, OneLine DEF HandleAnswer, HandleCancel
  <2> QED BY <1>5, <2>1 DEF HandleAnswer, HandleCancel, Handle, TuiTypeOK
<1>6. CASE Ask
  <2>1. asks' \in 0 .. MaxAsks /\ asks' \in Asks
    BY <1>1, <1>6 DEF Ask, Asks
  <2>2. down' \in Seq(StreamLines)
    BY <1>1, <1>6, <2>1, LinesWritten DEF Ask, Feed
  <2> QED BY <1>6, <2>1, <2>2 DEF Ask, TuiTypeOK
<1>7. CASE AskTimesOut \/ DecidedElsewhere
  <2>1. PICK q \in Asks, lines \in Seq(StreamLines) : Closed(q, lines)
    <3>1. <<>> \in Seq(StreamLines) /\ \A q \in Asks : <<About("denied", q)>> \in Seq(StreamLines)
      BY LinesWritten
    <3> QED BY <1>1, <1>7, <3>1 DEF AskTimesOut, DecidedElsewhere, Standing
  <2>2. down' \in Seq(StreamLines)
    BY <1>1, <2>1 DEF Closed, Feed
  <2>3. UNCHANGED <<rough, dropped, locked>> /\ crossed' \in BOOLEAN
    BY <1>7 DEF AskTimesOut, DecidedElsewhere, TuiTypeOK
  <2> QED BY <2>1, <2>2, <2>3 DEF Closed, TuiTypeOK
<1>8. CASE RunFinishes \/ OtherEnds
  <2>1. down' \in Seq(StreamLines)
    <3>1. /\ Own("finished") \in StreamLines
          /\ \A told \in {"closed", "waiting"} : Others(told) \in StreamLines
      BY LinesWritten
    <3> QED BY <1>1, <1>8, <3>1, OneLine DEF RunFinishes, OtherEnds
  <2>2. others' \in 0 .. MaxOthers
    BY <1>1, <1>8 DEF RunFinishes, OtherEnds, TuiTypeOK
  <2> QED BY <1>8, <2>1, <2>2 DEF RunFinishes, OtherEnds, TuiTypeOK
<1>9. CASE Tell \/ Unlock
  <2>1. down' \in Seq(StreamLines)
    <3>1. CASE Tell
      <4>1. PICK m \in StreamLines :
               /\ m = IF stage = "finished" THEN Own("waiting") ELSE Own("interrupted")
               /\ down' = Feed(down, <<m>>)
                          \o (IF stage = "cancelled" THEN <<Reply("cancel", TRUE)>> ELSE <<>>)
        BY <3>1, LinesWritten DEF Tell
      <4>2. Feed(down, <<m>>) \in Seq(StreamLines) /\ Reply("cancel", TRUE) \in StreamLines
        <5>1. Reply("cancel", TRUE) \in StreamLines
          BY LinesWritten, Names
        <5>2. Feed(down, <<m>>) \in Seq(StreamLines)
          BY <1>1, OneLine
        <5> QED BY <5>1, <5>2
      <4>3. CASE stage = "cancelled"
        <5>1. PICK r \in StreamLines : down' = Feed(down, <<m>>) \o <<r>>
          BY <4>1, <4>2, <4>3
        <5>2. Feed(down, <<m>>) \o <<r>> = Append(Feed(down, <<m>>), r)
          BY <4>2, AppendIsConcat
        <5> QED BY <4>2, <5>1, <5>2, AppendProperties
      <4>4. CASE stage # "cancelled"
        BY <4>1, <4>2, <4>4
      <4> QED BY <4>3, <4>4
    <3>2. CASE Unlock
      <4>1. lock # Nobody
        BY <3>2 DEF Unlock, Held
      <4>2. Reply(lock, TRUE) \in StreamLines /\ down' = Append(down, Reply(lock, TRUE))
        BY <1>1, <3>2, <4>1, LinesWritten DEF Unlock
      <4> QED BY <1>1, <4>2, AppendProperties
    <3> QED BY <1>9, <3>1, <3>2
  <2> QED BY <1>9, <2>1 DEF Tell, Unlock, TuiTypeOK
<1> QED BY <1>2, <1>3, <1>4, <1>5, <1>6, <1>7, <1>8, <1>9 DEF Handlers, Run

\* The daemon stops or is killed; what it still tells are lines.
LEMMA HowItEnds ==
    ASSUME TuiTypeOK, Stop \/ Kill
    PROVE  \E how \in {"closed", "reset"}, last \in Seq(StreamLines) : CoreEnds(how, last)
<1>1. down \in Seq(StreamLines) /\ <<>> \in Seq(StreamLines)
  BY DEF TuiTypeOK
<1>2. Feed(down, <<Own("finished"), Own("interrupted")>>) \in Seq(StreamLines)
  BY <1>1, LinesWritten DEF Feed
<1> QED BY <1>1, <1>2 DEF Stop, Kill

\* So does the end of the daemon.
LEMMA TypedEnds == ASSUME TuiAssumption, TuiTypeOK, Ends PROVE TuiTypeOK'
<1>1. CASE Restart
  BY <1>1 DEF Restart, wire, tui, history, TuiTypeOK
<1>2. CASE Stop \/ Kill
  <2>1. PICK how \in {"closed", "reset"}, last \in Seq(StreamLines) : CoreEnds(how, last)
    BY <1>2, HowItEnds
  <2>2. ends' \in 0 .. MaxEnds
    BY <2>1 DEF CoreEnds, TuiTypeOK, TuiAssumption
  <2>3. down' \in Seq(StreamLines) /\ ended' \in {"no", "closed", "reset"}
    BY <2>1 DEF CoreEnds, TuiTypeOK
  <2>4. rough' \in BOOLEAN /\ dropped' \in BOOLEAN /\ UNCHANGED <<locked, crossed>>
    BY <2>1 DEF CoreEnds, TuiTypeOK
  <2> QED BY <2>1, <2>2, <2>3, <2>4 DEF CoreEnds, tui, TuiTypeOK
<1> QED BY <1>1, <1>2 DEF Ends

\* Every step keeps the types.
LEMMA TypedStep ==
    ASSUME TuiAssumption, TuiTypeOK, Held, [TuiNext]_tuiVars
    PROVE  TuiTypeOK'
<1>1. UNCHANGED tuiVars => TuiTypeOK'
  BY DEF tuiVars, TuiTypeOK
<1> QED BY <1>1, TypedSocket, TypedDispatch, TypedUser, TypedDaemon, TypedEnds
        DEF TuiNext, Reading

\* A run holds the lock in every step of its own.
LEMMA HeldStep ==
    ASSUME TuiAssumption, TuiTypeOK, Held, [TuiNext]_tuiVars
    PROVE  Held'
<1> USE DEF Held, tui, wire, daemon, history
<1>1. CASE SocketLoop \/ Reading \/ Returns \/ User \/ UNCHANGED tuiVars
  <2>1. UNCHANGED <<stage, lock>>
    <3>1. CASE SocketLoop
      BY <3>1 DEF SocketLoop, Connect, ConnectFails, Wake, Subscribed, Opened, Disconnected,
                  WorkerEnds, Teardown
    <3>2. CASE Reading \/ Returns
      BY <3>2 DEF Reading, Dispatch, LoopEnds, Returns, SwitchReturns, PickReturns,
                  CancelReturns, AnswerReturns, HandlerCut, SendReturns
    <3>3. CASE User \/ UNCHANGED tuiVars
      BY <3>3 DEF User, Switch, Pick, Dismiss, CancelRun, Submit, Decide, tuiVars
    <3> QED BY <1>1, <3>1, <3>2, <3>3
  <2> QED BY <2>1
<1>2. CASE Handlers
  <2>1. \A c \in Sends : c # Nobody
    BY Names
  <2> QED BY <1>2, <2>1 DEF Handlers, HandleSubscribe, HandleSession, HandleSend, HandleAnswer,
                            HandleCancel
<1>3. CASE Run \/ Ask \/ DecidedElsewhere \/ OtherEnds
  BY <1>3 DEF Run, AskTimesOut, DecidedElsewhere, Closed, RunFinishes, Tell, Unlock, Ask, OtherEnds
<1>4. CASE Ends
  BY <1>4 DEF Ends, Stop, Kill, CoreEnds, Restart
<1> QED BY <1>1, <1>2, <1>3, <1>4 DEF TuiNext

-----------------------------------------------------------------------------
\* An event of a request for permission.
Asking(m) == m.kind = "event" /\ m.type \in {"requested", "denied"}

\* Where nothing is shown or asked, lines may come and go, and requests end.
LEMMA AskFrame ==
    ASSUME TuiTypeOK, AskInv, NEW d \in {0, 1},
           UNCHANGED <<blocks, selects, asks>>, Standing' \subseteq Standing, crossed => crossed',
           DOMAIN down' \subseteq Nat,
           \A i \in DOMAIN down' : Asking(down'[i]) =>
              i + d \in DOMAIN down /\ down'[i] = down[i + d]
    PROVE  AskInv'
<1>1. \A type \in {"requested", "denied"} : \A i \in Tells(type)' :
         i \in Nat /\ i + d \in Tells(type) /\ down'[i] = down[i + d]
  BY DEF Tells, Asking
<1>2. \A i, j \in Nat : i < j => i + d < j + d
  OBVIOUS
<1>3. Numbered'
  BY DEF AskInv, Numbered
<1>4. Coming'
  BY <1>1, <1>2 DEF AskInv, Coming
<1>5. Going'
  BY <1>1, <1>2 DEF AskInv, Going
<1>6. Decidable'
  BY <1>1 DEF AskInv, Decidable
<1> QED BY <1>3, <1>4, <1>5, <1>6 DEF AskInv

\* One line more that is about no request.
LEMMA AskPlain ==
    ASSUME TuiTypeOK, AskInv, UNCHANGED <<blocks, selects, asks>>,
           Standing' \subseteq Standing, crossed => crossed',
           NEW m \in StreamLines, ~Asking(m),
           down' \in {down, Append(down, m), Feed(down, <<m>>)}
    PROVE  AskInv'
<1>1. down \in Seq(StreamLines)
  BY DEF TuiTypeOK
<1>2. down' \in {down, Append(down, m)}
  BY <1>1, OneLine
<1>3. /\ DOMAIN down' \subseteq Nat
      /\ \A i \in DOMAIN down' : Asking(down'[i]) =>
            i + 0 \in DOMAIN down /\ down'[i] = down[i + 0]
  <2>1. CASE down' = down
    BY <1>1, <2>1
  <2>2. CASE down' = Append(down, m)
    BY <1>1, <2>2
  <2> QED BY <1>2, <2>1, <2>2
<1> QED BY <1>3, AskFrame

\* The connection, its futures and what the user types leave the requests alone.
LEMMA AskElsewhere ==
    ASSUME TuiTypeOK, AskInv,
           \/ SocketLoop \/ LoopEnds \/ Returns \/ Switch \/ Pick \/ Dismiss \/ CancelRun
           \/ (\E c \in Sends : Submit(c)) \/ Restart \/ UNCHANGED tuiVars
    PROVE  AskInv'
<1>1. UNCHANGED <<blocks, selects, asks, open, theirs, crossed>>
  <2>1. CASE SocketLoop \/ LoopEnds \/ UNCHANGED tuiVars
    BY <2>1 DEF SocketLoop, Connect, ConnectFails, Wake, Subscribed, Opened, Disconnected,
                WorkerEnds, Teardown, LoopEnds, tuiVars, daemon, tui, history
  <2>2. CASE ~(SocketLoop \/ LoopEnds \/ UNCHANGED tuiVars)
    BY <2>2
    DEF Returns, SwitchReturns, PickReturns, CancelReturns, AnswerReturns, HandlerCut, SendReturns,
        Switch, Pick, Dismiss, CancelRun, Submit, Restart, daemon, tui, history
  <2> QED BY <2>1, <2>2
<1>2. down' = down \/ down' = <<>>
  <2>1. CASE SocketLoop \/ LoopEnds \/ UNCHANGED tuiVars
    BY <2>1 DEF SocketLoop, Connect, ConnectFails, Wake, Subscribed, Opened, Disconnected,
                WorkerEnds, Teardown, LoopEnds, tuiVars, wire
  <2>2. CASE ~(SocketLoop \/ LoopEnds \/ UNCHANGED tuiVars)
    BY <2>2
    DEF Returns, SwitchReturns, PickReturns, CancelReturns, AnswerReturns, HandlerCut, SendReturns,
        Switch, Pick, Dismiss, CancelRun, Submit, Restart, wire
  <2> QED BY <2>1, <2>2
<1>3. /\ DOMAIN down' \subseteq Nat
      /\ \A i \in DOMAIN down' : Asking(down'[i]) =>
            i + 0 \in DOMAIN down /\ down'[i] = down[i + 0]
  BY <1>2 DEF TuiTypeOK
<1>4. Standing' = Standing
  BY <1>1 DEF Standing
<1> QED BY <1>1, <1>3, <1>4, AskFrame

\* Handlers and the run, when they tell of no request.
LEMMA AskTold ==
    ASSUME TuiAssumption, TuiTypeOK, Held, AskInv,
           Handlers \/ RunFinishes \/ Tell \/ Unlock \/ OtherEnds
    PROVE  AskInv'
<1>1. UNCHANGED <<blocks, selects, asks, crossed>> /\ Standing' \subseteq Standing
  <2>1. /\ UNCHANGED <<blocks, selects, asks, crossed>>
        /\ open' \subseteq open /\ theirs' \subseteq theirs
    BY DEF Handlers, HandleSubscribe, HandleSession, HandleSend, HandleAnswer, HandleCancel,
           RunFinishes, Tell, Unlock, OtherEnds, daemon, tui, history
  <2> QED BY <2>1 DEF Standing
<1>2. /\ \A c \in Calls, ok \in BOOLEAN : Reply(c, ok) \in StreamLines /\ ~Asking(Reply(c, ok))
      /\ \A t \in {"started", "finished", "waiting", "interrupted"} :
            Own(t) \in StreamLines /\ ~Asking(Own(t))
      /\ \A t \in {"waiting", "closed"} : Others(t) \in StreamLines /\ ~Asking(Others(t))
  BY LinesWritten DEF Asking
<1>3. /\ down \in Seq(StreamLines) /\ lock \in Sends \cup {Nobody} /\ Sends \subseteq Calls
      /\ {"subscribe", "cancel", "answer"} \subseteq Calls
  BY Names DEF TuiTypeOK
<1>4. CASE Handlers \/ RunFinishes \/ OtherEnds
  <2>1. \E m \in StreamLines : ~Asking(m) /\ down' \in {down, Append(down, m), Feed(down, <<m>>)}
    <3>1. CASE HandleSubscribe \/ HandleAnswer
      BY <1>2, <1>3, <3>1 DEF HandleSubscribe, HandleAnswer
    <3>2. CASE \E c \in Calls : HandleSession(c)
      <4>1. PICK c \in Calls, ok \in BOOLEAN : down' = Append(down, Reply(c, ok))
        BY <3>2 DEF HandleSession
      <4> QED BY <1>2, <4>1
    <3>3. CASE \E c \in Calls : HandleSend(c)
      BY <1>2, <1>3, <3>3 DEF HandleSend
    <3>4. CASE HandleCancel
      BY <1>2, <1>3, <3>4 DEF HandleCancel
    <3>5. CASE RunFinishes \/ OtherEnds
      BY <1>2, <3>5 DEF RunFinishes, OtherEnds
    <3> QED BY <1>4, <3>1, <3>2, <3>3, <3>4, <3>5 DEF Handlers
  <2> QED BY <1>1, <2>1, AskPlain
<1>5. CASE Unlock
  <2>1. lock \in Calls
    BY <1>3, <1>5 DEF Unlock, Held
  <2> QED BY <1>1, <1>2, <1>5, <2>1, AskPlain DEF Unlock
<1>6. CASE Tell
  <2>1. PICK m \in StreamLines :
           /\ m = IF stage = "finished" THEN Own("waiting") ELSE Own("interrupted")
           /\ down' = Feed(down, <<m>>)
                      \o (IF stage = "cancelled" THEN <<Reply("cancel", TRUE)>> ELSE <<>>)
    BY <1>2, <1>6 DEF Tell
  <2>2. ~Asking(m)
    BY <1>2, <2>1
  <2>3. PICK r \in StreamLines : r = Reply("cancel", TRUE) /\ ~Asking(r)
    BY <1>2, <1>3
  <2>4. PICK told \in {down, Append(down, m)} : told = Feed(down, <<m>>)
    BY <1>3, OneLine
  <2>5. told \in Seq(StreamLines) /\ down' \in {told, Append(told, r)}
    <3>1. told \in Seq(StreamLines)
      BY <1>3, <2>4, AppendProperties
    <3>2. told \o <<r>> = Append(told, r) /\ told \o <<>> = told
      BY <3>1, AppendIsConcat, ConcatEmptySeq
    <3> QED BY <2>1, <2>3, <2>4, <3>1, <3>2
  <2>6. /\ DOMAIN down' \subseteq Nat
        /\ \A i \in DOMAIN down' : Asking(down'[i]) =>
              i + 0 \in DOMAIN down /\ down'[i] = down[i + 0]
    <3>1. \A i \in DOMAIN down' :
             i \in Nat /\ (down'[i] = r \/ (i \in DOMAIN told /\ down'[i] = told[i]))
      BY <2>5
    <3>2. \A i \in DOMAIN told :
             i \in Nat /\ (told[i] = m \/ (i \in DOMAIN down /\ told[i] = down[i]))
      BY <1>3, <2>4, SMTT(30)
    <3>3. \A i \in Nat : i + 0 = i
      OBVIOUS
    <3> QED BY <2>2, <2>3, <3>1, <3>2, <3>3
  <2> QED BY <1>1, <2>6, AskFrame
<1> QED BY <1>4, <1>5, <1>6

\* The daemon ends: what it still tells is about its run.
LEMMA AskEnds ==
    ASSUME TuiAssumption, TuiTypeOK, AskInv, Stop \/ Kill PROVE AskInv'
<1>1. UNCHANGED <<blocks, selects, asks, crossed>> /\ Standing' \subseteq Standing
  BY DEF Stop, Kill, CoreEnds, tui, Standing
<1>2. PICK a \in StreamLines, b \in StreamLines :
         a = Own("finished") /\ b = Own("interrupted") /\ ~Asking(a) /\ ~Asking(b)
  BY LinesWritten DEF Asking
<1>3. down \in Seq(StreamLines)
  BY DEF TuiTypeOK
<1>4. down' \in {<<>>, down, down \o <<a, b>>}
  BY <1>2 DEF Stop, Kill, CoreEnds, Feed
<1>5. /\ DOMAIN down' \subseteq Nat
      /\ \A i \in DOMAIN down' : Asking(down'[i]) =>
            i + 0 \in DOMAIN down /\ down'[i] = down[i + 0]
  <2>1. CASE down' = down \o <<a, b>>
    <3>1. /\ DOMAIN (down \o <<a, b>>) \subseteq Nat
          /\ \A i \in DOMAIN (down \o <<a, b>>) :
                \/ i \in DOMAIN down /\ (down \o <<a, b>>)[i] = down[i]
                \/ (down \o <<a, b>>)[i] \in {a, b}
      BY <1>3
    <3> QED BY <1>2, <2>1, <3>1
  <2>2. CASE down' \in {<<>>, down}
    BY <1>3, <2>2
  <2> QED BY <1>4, <2>1, <2>2
<1> QED BY <1>1, <1>5, AskFrame

\* A line is taken from the stream; those behind it come one place nearer.
LEMMA Taken ==
    ASSUME TuiTypeOK, Dispatch
    PROVE  /\ 1 \in DOMAIN down /\ Head(down) = down[1] /\ down[1] \in StreamLines
           /\ DOMAIN down' \subseteq Nat
           /\ \A i \in DOMAIN down' :
                 i + 1 \in DOMAIN down /\ 1 < i + 1 /\ down'[i] = down[i + 1]
           /\ \A i \in DOMAIN down : i # 1 => i - 1 \in DOMAIN down' /\ down'[i - 1] = down[i]
  BY DEF Dispatch, TuiTypeOK

\* Whoever is shown goes to the end of the selects, and its denial takes away
\* the first of them: of an older request, or its own.
LEMMA AskShown ==
    ASSUME TuiAssumption, TuiTypeOK, AskInv, Dispatch
    PROVE  AskInv'
<1> DEFINE m == down[1]
<1>1. /\ 1 \in DOMAIN down /\ Head(down) = m /\ m \in StreamLines
      /\ DOMAIN down' \subseteq Nat
      /\ \A i \in DOMAIN down' : i + 1 \in DOMAIN down /\ 1 < i + 1 /\ down'[i] = down[i + 1]
  BY Taken
<1>2. UNCHANGED <<asks, open, theirs, crossed>> /\ Standing' = Standing
  BY DEF Dispatch, daemon, Standing
<1>3. \A type \in {"requested", "denied"} : \A i \in Tells(type)' :
         i \in Nat /\ i + 1 \in Tells(type) /\ 1 < i + 1 /\ down'[i] = down[i + 1]
  BY <1>1 DEF Tells
<1>4. \A i, j \in Nat : i < j => i + 1 < j + 1
  OBVIOUS
<1>5. /\ selects \in Seq(Asks) /\ blocks \subseteq 1..asks /\ Standing \subseteq 1..asks
      /\ asks \in Nat
  BY DEF TuiTypeOK, AskInv, Numbered, TuiAssumption
<1>6. CASE UNCHANGED <<blocks, selects>>
  <2> HIDE DEF m
  <2> QED BY <1>1, <1>2, <1>6, AskFrame
<1>7. CASE m.kind = "event" /\ m.type = "requested"
  <2>1. /\ blocks' = blocks \cup {m.ask} /\ selects' = Append(selects, m.ask)
        /\ 1 \in Tells("requested")
    BY <1>1, <1>7 DEF Dispatch, OnEvent, OnSessionEvent, OnRunEvent, OnPermissionEvent, Tells
  <2>2. /\ m.ask \in 1..asks
        /\ \A k \in DOMAIN selects : selects[k] < m.ask
        /\ \A j \in Tells("requested") : 1 < j => m.ask < down[j].ask
    BY <2>1 DEF AskInv, Coming
  <2> HIDE DEF m
  <2>3. /\ DOMAIN selects' = 1..(Len(selects) + 1)
        /\ \A k \in DOMAIN selects' :
              \/ k \in DOMAIN selects /\ selects'[k] = selects[k]
              \/ k = Len(selects) + 1 /\ selects'[k] = m.ask
        /\ \A k \in DOMAIN selects : k \in DOMAIN selects' /\ selects'[k] = selects[k]
        /\ Len(selects) + 1 \in DOMAIN selects' /\ selects'[Len(selects) + 1] = m.ask
    BY <1>5, <2>1
  <2>4. Numbered'
    <3>1. ASSUME NEW i \in DOMAIN selects', NEW j \in DOMAIN selects', i < j
          PROVE  selects'[i] < selects'[j]
      <4>1. i \in DOMAIN selects /\ selects'[i] = selects[i]
        BY <1>5, <2>3, <3>1
      <4>2. CASE j \in DOMAIN selects /\ selects'[j] = selects[j]
        BY <3>1, <4>1, <4>2 DEF AskInv, Numbered
      <4>3. CASE selects'[j] = m.ask
        BY <2>2, <4>1, <4>3
      <4> QED BY <2>3, <4>2, <4>3
    <3>2. \A i \in DOMAIN selects' : selects'[i] \in 1..asks
      BY <2>2, <2>3 DEF AskInv, Numbered
    <3> QED BY <1>2, <1>5, <2>1, <2>2, <3>1, <3>2 DEF Numbered
  <2>5. Coming'
    <3> SUFFICES ASSUME NEW i \in Tells("requested")'
                 PROVE  /\ down'[i].ask \in 1..asks
                        /\ \A k \in DOMAIN selects' : selects'[k] < down'[i].ask
                        /\ \A j \in Tells("requested")' : i < j => down'[i].ask < down'[j].ask
      BY <1>2 DEF Coming
    <3>1. i \in Nat /\ i + 1 \in Tells("requested") /\ 1 < i + 1 /\ down'[i] = down[i + 1]
      BY <1>3
    <3>2. /\ down[i + 1].ask \in 1..asks
          /\ \A k \in DOMAIN selects : selects[k] < down[i + 1].ask
          /\ \A j \in Tells("requested") : i + 1 < j => down[i + 1].ask < down[j].ask
      BY <3>1 DEF AskInv, Coming
    <3>3. m.ask < down[i + 1].ask
      BY <2>2, <3>1
    <3>4. \A j \in Tells("requested")' : i < j => down'[i].ask < down'[j].ask
      BY <1>3, <1>4, <3>1, <3>2
    <3> QED BY <2>3, <3>1, <3>2, <3>3, <3>4
  <2>6. Going'
    BY <1>2, <1>3, <1>4 DEF AskInv, Going
  <2>7. Decidable'
    <3>1. ToSet(selects) \cup {m.ask} \subseteq ToSet(selects')
      BY <2>3 DEF ToSet
    <3>2. {down[i].ask : i \in Tells("denied")}' \subseteq {down[i].ask : i \in Tells("denied")}
      BY <1>3
    <3> QED BY <1>2, <2>1, <3>1, <3>2 DEF AskInv, Decidable
  <2> QED BY <2>4, <2>5, <2>6, <2>7 DEF AskInv
<1>8. CASE m.kind = "event" /\ m.type = "denied" /\ m.ask \in blocks
  <2>1. /\ blocks' = blocks \ {m.ask} /\ selects' = DropSelect(selects)
        /\ 1 \in Tells("denied")
    BY <1>1, <1>8 DEF Dispatch, OnEvent, OnSessionEvent, OnRunEvent, OnPermissionEvent, Tells
  <2> HIDE DEF m
  <2>2. /\ DOMAIN selects' \subseteq Nat
        /\ \/ UNCHANGED selects /\ selects = <<>>
           \/ \A k \in DOMAIN selects' : k + 1 \in DOMAIN selects /\ selects'[k] = selects[k + 1]
        /\ \A k \in DOMAIN selects :
              k # 1 => k - 1 \in DOMAIN selects' /\ selects'[k - 1] = selects[k]
    BY <1>5, <2>1 DEF DropSelect
  <2>3. Numbered'
    <3>1. CASE UNCHANGED selects
      BY <1>2, <1>5, <2>1, <3>1 DEF AskInv, Numbered
    <3>2. CASE \A k \in DOMAIN selects' : k + 1 \in DOMAIN selects /\ selects'[k] = selects[k + 1]
      <4>1. ASSUME NEW i \in DOMAIN selects', NEW j \in DOMAIN selects', i < j
            PROVE  selects'[i] < selects'[j]
        <5>1. i \in Nat /\ j \in Nat /\ i + 1 < j + 1
          BY <1>4, <2>2, <4>1
        <5> QED BY <3>2, <5>1 DEF AskInv, Numbered
      <4>2. \A i \in DOMAIN selects' : selects'[i] \in 1..asks
        BY <3>2 DEF AskInv, Numbered
      <4> QED BY <1>2, <1>5, <2>1, <4>1, <4>2 DEF Numbered
    <3> QED BY <2>2, <3>1, <3>2
  <2>4. Coming'
    <3>1. \A k \in DOMAIN selects' : \E l \in DOMAIN selects : selects'[k] = selects[l]
      BY <2>2
    <3> QED BY <1>2, <1>3, <1>4, <3>1 DEF AskInv, Coming
  <2>5. Going'
    BY <1>2, <1>3, <1>4 DEF AskInv, Going
  <2>6. Decidable'
    <3> SUFFICES ASSUME ~crossed,
                        NEW q \in (Standing \cup {down'[i].ask : i \in Tells("denied")'}),
                        q \in blocks'
                 PROVE  q \in ToSet(selects')
      BY <1>2 DEF Decidable
    <3>1. /\ \A r \in Standing : m.ask < r
          /\ \A j \in Tells("denied") : 1 < j => m.ask < down[j].ask
          /\ m.ask \in ToSet(selects)
      BY <1>8, <2>1 DEF AskInv, Going, Decidable, m
    <3>2. PICK p \in DOMAIN selects : selects[p] = m.ask
      BY <3>1 DEF ToSet
    <3>3. 1 \in DOMAIN selects /\ (p # 1 => 1 < p)
      BY <1>5, <3>2
    <3>4. selects[1] <= m.ask
      BY <1>5, <1>8, <3>2, <3>3 DEF AskInv, Numbered
    <3>5. m.ask < q /\ q \in Standing \cup {down[i].ask : i \in Tells("denied")}
      BY <1>3, <3>1
    <3>6. q \in ToSet(selects)
      BY <2>1, <3>5 DEF AskInv, Decidable
    <3>7. PICK k \in DOMAIN selects : selects[k] = q
      BY <3>6 DEF ToSet
    <3>8. q \in Nat /\ selects[1] \in Nat /\ m.ask \in Nat
      <4>1. \A l \in DOMAIN selects : selects[l] \in 1..asks
        BY DEF AskInv, Numbered
      <4>2. \A n \in 1..asks : n \in Nat
        BY <1>5
      <4>3. q \in 1..asks /\ selects[1] \in 1..asks /\ m.ask \in 1..asks
        BY <1>5, <1>8, <3>3, <3>7, <4>1
      <4> QED BY <4>2, <4>3
    <3>9. k # 1
      BY <3>4, <3>5, <3>7, <3>8
    <3> QED BY <2>2, <3>7, <3>9 DEF ToSet
  <2> QED BY <2>3, <2>4, <2>5, <2>6 DEF AskInv
<1> QED
  <2>1. \/ UNCHANGED <<blocks, selects>>
        \/ m.kind = "event" /\ m.type = "requested"
        \/ m.kind = "event" /\ m.type = "denied" /\ m.ask \in blocks
    BY <1>1 DEF Dispatch, OnEvent, OnSessionEvent, OnRunEvent, OnPermissionEvent
  <2> QED BY <1>6, <1>7, <1>8, <2>1

\* A decision takes the request's own select away.
LEMMA AskDecided ==
    ASSUME TuiAssumption, TuiTypeOK, AskInv, NEW i \in DOMAIN selects, Decide(i)
    PROVE  AskInv'
<1>1. /\ UNCHANGED <<asks, open, theirs, down, crossed>> /\ Standing' = Standing
      /\ blocks' = blocks \ {selects[i]} /\ selects' = RemoveAt(selects, i)
  BY DEF Decide, daemon, Standing
<1>2. selects \in Seq(Asks) /\ DOMAIN selects = 1..Len(selects) /\ Len(selects) \in Nat
  BY DEF TuiTypeOK
<1>3. /\ DOMAIN selects' = 1..(Len(selects) - 1)
      /\ \A k \in 1..(Len(selects) - 1) :
            selects'[k] = IF k < i THEN selects[k] ELSE selects[k + 1]
  BY <1>1, <1>2, Removed
<1> DEFINE from(k) == IF k < i THEN k ELSE k + 1
<1>4. /\ \A k \in DOMAIN selects' : from(k) \in DOMAIN selects /\ selects'[k] = selects[from(k)]
      /\ \A k, l \in DOMAIN selects' : k < l => from(k) < from(l)
  BY <1>2, <1>3
<1>5. \A k \in DOMAIN selects : k # i => \E l \in DOMAIN selects' : selects'[l] = selects[k]
  <2> SUFFICES ASSUME NEW k \in DOMAIN selects, k # i
               PROVE  \E l \in DOMAIN selects' : selects'[l] = selects[k]
    OBVIOUS
  <2>1. CASE k < i
    BY <1>2, <1>3, <2>1
  <2>2. CASE ~(k < i)
    <3>1. k - 1 \in 1..(Len(selects) - 1) /\ ~(k - 1 < i) /\ (k - 1) + 1 = k
      BY <1>2, <2>2
    <3> QED BY <1>3, <3>1
  <2> QED BY <2>1, <2>2
<1> HIDE DEF from
<1>6. Numbered'
  BY <1>1, <1>4 DEF AskInv, Numbered
<1>7. Coming'
  <2>1. Tells("requested")' = Tells("requested")
    BY <1>1 DEF Tells
  <2> QED BY <1>1, <1>4, <2>1 DEF AskInv, Coming
<1>8. Going'
  BY <1>1 DEF AskInv, Going, Tells
<1>9. Decidable'
  <2>1. Tells("denied")' = Tells("denied")
    BY <1>1 DEF Tells
  <2>2. ToSet(selects) \subseteq ToSet(selects') \cup {selects[i]}
    BY <1>5 DEF ToSet
  <2> QED BY <1>1, <2>1, <2>2 DEF AskInv, Decidable
<1> QED BY <1>6, <1>7, <1>8, <1>9 DEF AskInv

\* A run asks: the request is newer than all others.
LEMMA AskAsked ==
    ASSUME TuiAssumption, TuiTypeOK, AskInv, Ask
    PROVE  AskInv'
<1> DEFINE q == asks + 1
           m == About("requested", q)
<1>1. /\ asks' = q /\ Standing' = Standing \cup {q} /\ UNCHANGED <<blocks, selects, crossed>>
      /\ down' = Feed(down, <<m>>)
  BY DEF Ask, tui, history, Standing
<1>2. /\ asks \in Nat /\ q \in Asks /\ 1..asks \subseteq 1..q /\ q \in 1..q /\ q \notin 1..asks
      /\ \A n \in 1..asks : n < q
  BY DEF Ask, Asks, TuiTypeOK, TuiAssumption
<1>3. /\ m \in StreamLines /\ m.kind = "event" /\ m.type = "requested" /\ m.ask = q
      /\ down \in Seq(StreamLines)
  BY <1>2, LinesWritten DEF TuiTypeOK
<1> HIDE DEF m, q
<1>4. down' \in {down, Append(down, m)}
  BY <1>1, <1>3, OneLine
<1>5. /\ \A i \in DOMAIN down' :
            \/ i \in DOMAIN down /\ down'[i] = down[i]
            \/ down'[i] = m /\ \A j \in DOMAIN down : j < i
      /\ \A i, j \in DOMAIN down' : i < j => i \in DOMAIN down /\ down'[i] = down[i]
  <2>1. CASE down' = down
    BY <1>3, <2>1
  <2>2. CASE down' = Append(down, m)
    BY <1>3, <2>2
  <2> QED BY <1>4, <2>1, <2>2
<1>6. \A i \in Tells("denied")' : i \in Tells("denied") /\ down'[i] = down[i]
  BY <1>3, <1>5 DEF Tells
<1>7. \A i \in Tells("requested")' :
         \/ i \in Tells("requested") /\ down'[i] = down[i]
         \/ down'[i].ask = q /\ \A j \in DOMAIN down : j < i
  BY <1>3, <1>5 DEF Tells
<1>8. Numbered'
  BY <1>1, <1>2 DEF AskInv, Numbered
<1>9. Coming'
  <2> SUFFICES ASSUME NEW i \in Tells("requested")'
               PROVE  /\ down'[i].ask \in 1..q
                      /\ \A k \in DOMAIN selects : selects[k] < down'[i].ask
                      /\ \A j \in Tells("requested")' : i < j => down'[i].ask < down'[j].ask
    BY <1>1 DEF Coming
  <2>1. CASE i \in Tells("requested") /\ down'[i] = down[i]
    <3>1. /\ down[i].ask \in 1..asks
          /\ \A k \in DOMAIN selects : selects[k] < down[i].ask
          /\ \A j \in Tells("requested") : i < j => down[i].ask < down[j].ask
      BY <2>1 DEF AskInv, Coming
    <3> QED BY <1>2, <1>7, <2>1, <3>1
  <2>2. CASE down'[i].ask = q /\ \A j \in DOMAIN down : j < i
    <3>1. \A k \in DOMAIN selects : selects[k] < q
      BY <1>2 DEF AskInv, Numbered
    <3>2. \A j \in Tells("requested")' : ~(i < j)
      <4> SUFFICES ASSUME NEW j \in Tells("requested")', i < j PROVE FALSE
        OBVIOUS
      <4>1. i \in DOMAIN down /\ i \in DOMAIN down' /\ j \in DOMAIN down'
        BY <1>5 DEF Tells
      <4>2. i < i /\ i \in Nat
        BY <1>3, <2>2, <4>1
      <4> QED BY <4>2
    <3> QED BY <1>2, <2>2, <3>1, <3>2
  <2> QED BY <1>7, <2>1, <2>2
<1>10. Going'
  BY <1>1, <1>2, <1>6 DEF AskInv, Going
<1>11. Decidable'
  <2>1. q \notin blocks
    BY <1>2 DEF AskInv, Numbered
  <2> QED BY <1>1, <1>6, <2>1 DEF AskInv, Decidable
<1> QED BY <1>8, <1>9, <1>10, <1>11 DEF AskInv

\* A request is denied: if it is the oldest that is open, its denial is behind
\* those of older ones and before those of all that stay open.
LEMMA AskDenied ==
    ASSUME TuiAssumption, TuiTypeOK, AskInv, NEW q \in Standing, Closed(q, <<About("denied", q)>>),
           crossed => crossed', ~crossed' => Oldest(q)
    PROVE  AskInv'
<1> DEFINE m == About("denied", q)
<1>1. /\ Standing' = Standing \ {q} /\ down' = Feed(down, <<About("denied", q)>>)
      /\ ~crossed' => ~crossed /\ \A r \in Standing : q <= r
  BY DEF Closed, Oldest, Standing
<1>2. /\ UNCHANGED <<blocks, selects, asks>> /\ asks \in Nat
      /\ Standing \subseteq 1..asks /\ q \in Asks /\ down \in Seq(StreamLines)
  BY DEF Closed, tui, AskInv, Numbered, TuiTypeOK, TuiAssumption, Standing
<1>3. /\ m \in StreamLines /\ m.kind = "event" /\ m.type = "denied" /\ m.ask = q
      /\ down' = Feed(down, <<m>>)
  BY <1>1, <1>2, LinesWritten
<1> HIDE DEF m
<1>4. down' \in {down, Append(down, m)}
  BY <1>2, <1>3, OneLine
<1>5. /\ \A i \in DOMAIN down' :
            \/ i \in DOMAIN down /\ down'[i] = down[i]
            \/ down'[i] = m /\ \A j \in DOMAIN down : j < i
      /\ \A i, j \in DOMAIN down' : i < j => i \in DOMAIN down /\ down'[i] = down[i]
  <2>1. CASE down' = down
    BY <1>2, <2>1
  <2>2. CASE down' = Append(down, m)
    BY <1>2, <2>2
  <2> QED BY <1>4, <2>1, <2>2
<1>6. \A i \in Tells("requested")' : i \in Tells("requested") /\ down'[i] = down[i]
  BY <1>3, <1>5 DEF Tells
<1>7. \A i \in Tells("denied")' :
         \/ i \in Tells("denied") /\ down'[i] = down[i]
         \/ down'[i].ask = q /\ \A j \in DOMAIN down : j < i
  BY <1>3, <1>5 DEF Tells
<1>8. ~crossed' => \A r \in Standing' : q < r
  BY <1>1, <1>2
<1>9. Numbered'
  BY <1>1, <1>2 DEF AskInv, Numbered
<1>10. Coming'
  BY <1>2, <1>6 DEF AskInv, Coming
<1>11. Going'
  <2>3. \A i \in Tells("denied")' : down'[i].ask \in 1..asks
    BY <1>2, <1>7 DEF AskInv, Going
  <2> SUFFICES ASSUME ~crossed', NEW i \in Tells("denied")'
               PROVE  /\ \A r \in Standing' : down'[i].ask < r
                      /\ \A j \in Tells("denied")' : i < j => down'[i].ask < down'[j].ask
    BY <1>2, <2>3 DEF Going
  <2>1. CASE i \in Tells("denied") /\ down'[i] = down[i]
    <3>1. /\ \A r \in Standing : down[i].ask < r
          /\ \A j \in Tells("denied") : i < j => down[i].ask < down[j].ask
      BY <2>1 DEF AskInv, Going
    <3> QED BY <1>1, <1>7, <2>1, <3>1
  <2>2. CASE down'[i].ask = q /\ \A j \in DOMAIN down : j < i
    <3>1. \A j \in Tells("denied")' : ~(i < j)
      <4> SUFFICES ASSUME NEW j \in Tells("denied")', i < j PROVE FALSE
        OBVIOUS
      <4>1. i \in DOMAIN down /\ i \in DOMAIN down' /\ j \in DOMAIN down'
        BY <1>5 DEF Tells
      <4>2. i < i /\ i \in Nat
        BY <1>2, <2>2, <4>1
      <4> QED BY <4>2
    <3> QED BY <1>2, <1>8, <2>2, <3>1
  <2> QED BY <1>7, <2>1, <2>2
<1>12. Decidable'
  <2>1. Standing' \cup {down'[i].ask : i \in Tells("denied")'}
           \subseteq Standing \cup {down[i].ask : i \in Tells("denied")}
    BY <1>1, <1>7
  <2> QED BY <1>1, <1>2, <2>1 DEF AskInv, Decidable
<1> QED BY <1>9, <1>10, <1>11, <1>12 DEF AskInv

\* A request is denied, or ends unheard.
LEMMA AskClosed ==
    ASSUME TuiAssumption, TuiTypeOK, AskInv, AskTimesOut \/ DecidedElsewhere
    PROVE  AskInv'
<1>1. PICK q \in Standing :
         \/ /\ Closed(q, <<About("denied", q)>>)
            /\ crossed => crossed'
            /\ ~crossed' => Oldest(q)
         \/ Closed(q, <<>>) /\ UNCHANGED crossed
  <2>1. CASE AskTimesOut
    BY <2>1 DEF AskTimesOut, Standing, history
  <2>2. CASE DecidedElsewhere
    <3>1. PICK q \in Standing :
             \/ Closed(q, <<About("denied", q)>>) /\ crossed' = (crossed \/ ~Oldest(q))
             \/ Closed(q, <<>>) /\ UNCHANGED crossed
      BY <2>2 DEF DecidedElsewhere, Standing, history
    <3>2. crossed' = (crossed \/ ~Oldest(q)) => (crossed => crossed') /\ (~crossed' => Oldest(q))
      BY Zenon
    <3> QED BY <3>1, <3>2
  <2> QED BY <2>1, <2>2
<1>2. CASE Closed(q, <<>>) /\ UNCHANGED crossed
  <2>1. /\ UNCHANGED <<blocks, selects, asks>> /\ Standing' \subseteq Standing
        /\ down' = Feed(down, <<>>) /\ down \in Seq(StreamLines)
    BY <1>2 DEF Closed, Standing, tui, TuiTypeOK
  <2>2. down' = down
    BY <2>1 DEF Feed
  <2>3. /\ DOMAIN down' \subseteq Nat
        /\ \A i \in DOMAIN down' : Asking(down'[i]) =>
              i + 0 \in DOMAIN down /\ down'[i] = down[i + 0]
    BY <2>1, <2>2
  <2> QED BY <1>2, <2>1, <2>3, AskFrame
<1> QED BY <1>1, <1>2, AskDenied

\* At first nothing is asked.
LEMMA AskInit == ASSUME TuiInit PROVE AskInv
  BY DEF TuiInit, AskInv, Numbered, Coming, Going, Decidable, Tells, Standing

\* Every step keeps the requests, the selects and the denials in step.
LEMMA AskStep ==
    ASSUME TuiAssumption, TuiTypeOK, Held, AskInv, [TuiNext]_tuiVars
    PROVE  AskInv'
  BY AskElsewhere, AskTold, AskEnds, AskShown, AskDecided, AskAsked, AskClosed
  DEF TuiNext, Reading, User, Run, Ends

-----------------------------------------------------------------------------
(* Who opens the prompt again.                                             *)

News == Tells("waiting") \cup Tells("interrupted")

\* One line more.
LEMMA LineAdded ==
    ASSUME down \in Seq(StreamLines), NEW m \in StreamLines, down' = Append(down, m)
    PROVE  /\ \A i \in DOMAIN down : down'[i] = down[i]
           /\ Len(down) + 1 \notin DOMAIN down /\ down'[Len(down) + 1] = m
           /\ \A c \in Calls :
                 IF m.kind = "reply" /\ m.call = c
                 THEN Due(c)' = Due(c) \cup {Len(down) + 1} ELSE Due(c)' = Due(c)
           /\ News \subseteq News'
           /\ m.kind = "event" /\ m.type \in {"waiting", "interrupted"} => News' # {}
<1>1. /\ DOMAIN down' = DOMAIN down \cup {Len(down) + 1}
      /\ Len(down) + 1 \notin DOMAIN down
      /\ \A i \in DOMAIN down : down'[i] = down[i]
      /\ down'[Len(down) + 1] = m
  OBVIOUS
<1>2. ASSUME NEW c \in Calls
      PROVE  IF m.kind = "reply" /\ m.call = c
             THEN Due(c)' = Due(c) \cup {Len(down) + 1} ELSE Due(c)' = Due(c)
  BY <1>1 DEF Due
<1> QED BY <1>1, <1>2 DEF News, Tells

\* What only moves the daemon on, and answers no message and no subscription.
LEMMA UseFrame ==
    ASSUME TuiTypeOK, UseInv,
           UNCHANGED <<phase, client, busy, prompt, picker, blocks, call, loop, ended, core, lock,
                       dropped, locked>>,
           inbox' \subseteq inbox,
           \A c \in Sends : Due(c)' = Due(c) /\ \A i \in Due(c) : down'[i] = down[i],
           News \subseteq News',
           \/ fed' = TRUE
           \/ fed' = fed /\ Due("subscribe")' = Due("subscribe"),
           (busy /\ ~dropped /\ stage' = "told") => stage = "told" \/ News' # {}
    PROVE  UseInv'
<1>1. Linkage'
  BY DEF UseInv, Linkage, Linked
<1>2. OneAnswer'
  BY DEF UseInv, OneAnswer, Linked
<1>3. Attached'
  BY DEF UseInv, Attached, Up, Linked
<1>4. Resolvable'
  BY DEF UseInv, Resolvable, News
<1>5. ShutFor'
  BY DEF UseInv, ShutFor
<1> QED BY <1>1, <1>2, <1>3, <1>4, <1>5 DEF UseInv

\* The same for a line m that is no answer to a message.
LEMMA UsePlain ==
    ASSUME TuiAssumption, TuiTypeOK, UseInv,
           UNCHANGED <<phase, client, busy, prompt, picker, blocks, call, loop, ended, core, lock,
                       dropped, locked>>,
           inbox' \subseteq inbox, stage' # "told" \/ stage' = stage,
           NEW m \in StreamLines, m.kind = "reply" => m.call \notin Sends,
           down' \in {down, Append(down, m), Feed(down, <<m>>)},
           fed' = TRUE \/ (fed' = fed /\ (m.kind = "reply" => m.call # "subscribe"))
    PROVE  UseInv'
<1>1. down \in Seq(StreamLines) /\ Sends \subseteq Calls /\ "subscribe" \in Calls
  BY Names DEF TuiTypeOK
<1>2. down' \in {down, Append(down, m)}
  BY <1>1, OneLine
<1>3. /\ \A c \in Sends : Due(c)' = Due(c) /\ \A i \in Due(c) : down'[i] = down[i]
      /\ News \subseteq News'
      /\ fed' = TRUE \/ Due("subscribe")' = Due("subscribe")
  <2>1. CASE down' = down
    BY <2>1 DEF Due, News, Tells
  <2>2. CASE down' = Append(down, m)
    <3>1. ASSUME NEW c \in Sends PROVE Due(c)' = Due(c)
      <4>1. ~(m.kind = "reply" /\ m.call = c) /\ c \in Calls
        BY <1>1
      <4> QED BY <1>1, <2>2, <4>1, LineAdded
    <3>2. \A c \in Sends : \A i \in Due(c) : down'[i] = down[i]
      BY <1>1, <2>2, LineAdded DEF Due
    <3>3. fed' = TRUE \/ Due("subscribe")' = Due("subscribe")
      BY <1>1, <2>2, LineAdded
    <3> QED BY <1>1, <2>2, <3>1, <3>2, <3>3, LineAdded
  <2> QED BY <1>2, <2>1, <2>2
<1> QED BY <1>3, UseFrame

\* A request of the set-up, a command or an answer is handled; the run goes on;
\* another one ends.
LEMMA UseDaemon ==
    ASSUME TuiAssumption, TuiTypeOK, Held, UseInv,
           \/ HandleSubscribe \/ HandleAnswer \/ HandleCancel \/ (\E c \in Calls : HandleSession(c))
           \/ Ask \/ AskTimesOut \/ DecidedElsewhere \/ RunFinishes \/ OtherEnds
    PROVE  UseInv'
<1>1. /\ UNCHANGED <<phase, client, busy, prompt, picker, blocks, call, loop, ended, core, lock,
                     dropped, locked>>
      /\ inbox' \subseteq inbox /\ (stage' # "told" \/ stage' = stage)
  BY DEF HandleSubscribe, HandleAnswer, HandleCancel, HandleSession, Handle, Ask, AskTimesOut,
         DecidedElsewhere, Closed, RunFinishes, OtherEnds, tui, daemon, history
<1>2. /\ {"subscribe", "open", "switch", "pick", "cancel", "answer"} \subseteq Calls \ Sends
      /\ asks \in Nat /\ MaxAsks \in Nat /\ Standing \subseteq Asks
  BY Names DEF TuiTypeOK, TuiAssumption, Standing
<1>3. \E m \in StreamLines :
         /\ m.kind = "reply" => m.call \notin Sends
         /\ down' \in {down, Append(down, m), Feed(down, <<m>>)}
         /\ fed' = TRUE \/ (fed' = fed /\ (m.kind = "reply" => m.call # "subscribe"))
  <2>1. CASE HandleSubscribe \/ HandleAnswer
    <3>1. /\ Reply("subscribe", TRUE) \in StreamLines
          /\ Reply("subscribe", TRUE).call = "subscribe"
          /\ Reply("answer", TRUE) \in StreamLines /\ Reply("answer", TRUE).call = "answer"
      BY <1>2, AnswerWritten
    <3>2. CASE HandleSubscribe
      <4>1. down' = Append(down, Reply("subscribe", TRUE)) /\ fed' = TRUE
        BY <3>2 DEF HandleSubscribe
      <4> QED BY <1>2, <3>1, <4>1
    <3>3. CASE HandleAnswer
      <4>1. down' = Append(down, Reply("answer", TRUE)) /\ fed' = fed
        BY <3>3 DEF HandleAnswer
      <4> QED BY <1>2, <3>1, <4>1
    <3> QED BY <2>1, <3>2, <3>3
  <2>2. CASE \E c \in Calls : HandleSession(c)
    <3>1. PICK c \in Calls, ok \in BOOLEAN :
             c \in {"open", "switch", "pick"} /\ down' = Append(down, Reply(c, ok)) /\ fed' = fed
      BY <2>2 DEF HandleSession
    <3>2. Reply(c, ok) \in StreamLines /\ Reply(c, ok).call = c
      BY LinesWritten
    <3> QED BY <1>2, <3>1, <3>2
  <2>3. CASE HandleCancel
    <3>1. /\ Reply("cancel", FALSE) \in StreamLines /\ Reply("cancel", FALSE).call = "cancel"
          /\ Own("finished") \in StreamLines /\ Own("finished").kind = "event"
      <4>1. Own("finished") \in StreamLines /\ Own("finished").kind = "event"
        BY LinesWritten
      <4> QED BY <1>2, <4>1, AnswerWritten
    <3> QED BY <1>2, <2>3, <3>1 DEF HandleCancel
  <2>4. CASE Ask
    <3>1. asks' \in Asks /\ fed' = fed
      BY <1>2, <2>4 DEF Ask, Asks
    <3> QED BY <2>4, <3>1, LinesWritten DEF Ask
  <2>5. CASE AskTimesOut \/ DecidedElsewhere
    <3>1. PICK q \in Asks :
             /\ fed' = fed
             /\ down' = Feed(down, <<About("denied", q)>>) \/ down' = Feed(down, <<>>)
      BY <1>2, <2>5 DEF AskTimesOut, DecidedElsewhere, Closed, Standing
    <3>2. About("denied", q) \in StreamLines /\ About("denied", q).kind = "event"
      BY LinesWritten
    <3>3. Feed(down, <<>>) = down
      BY DEF Feed, TuiTypeOK
    <3> QED BY <3>1, <3>2, <3>3
  <2>6. CASE RunFinishes \/ OtherEnds
    <3>1. CASE RunFinishes
      <4>1. Own("finished") \in StreamLines /\ Own("finished").kind = "event"
        BY LinesWritten
      <4> QED BY <3>1, <4>1 DEF RunFinishes
    <3>2. CASE OtherEnds
      <4>1. PICK t \in {"closed", "waiting"} : down' = Feed(down, <<Others(t)>>) /\ fed' = fed
        BY <3>2 DEF OtherEnds
      <4>2. Others(t) \in StreamLines /\ Others(t).kind = "event"
        BY LinesWritten
      <4> QED BY <4>1, <4>2
    <3> QED BY <2>6, <3>1, <3>2
  <2> QED BY <2>1, <2>2, <2>3, <2>4, <2>5, <2>6
<1> QED BY <1>1, <1>3, UsePlain

\* The run's end is told: who was busy with it has news coming.
LEMMA UseTell == ASSUME TuiAssumption, TuiTypeOK, Held, UseInv, Tell PROVE UseInv'
<1>1. /\ UNCHANGED <<phase, client, busy, prompt, picker, blocks, call, loop, ended, core, lock,
                     dropped, locked, fed, inbox>>
      /\ lock # Nobody
  BY DEF Tell, tui, history, Held
<1>2. Up
  BY <1>1 DEF UseInv, Attached
<1>3. down \in Seq(StreamLines) /\ "cancel" \in Calls /\ "cancel" \notin Sends
      /\ Sends \subseteq Calls
      /\ "subscribe" \in Calls /\ "subscribe" \notin Sends /\ fed /\ core
  BY <1>2, Names DEF TuiTypeOK, Up
<1>4. PICK m \in StreamLines :
         /\ m = IF stage = "finished" THEN Own("waiting") ELSE Own("interrupted")
         /\ down' = Feed(down, <<m>>)
                    \o (IF stage = "cancelled" THEN <<Reply("cancel", TRUE)>> ELSE <<>>)
  BY LinesWritten DEF Tell
<1>5. m.kind = "event" /\ m.type \in {"waiting", "interrupted"}
  BY <1>4, LinesWritten
<1>6. PICK r \in StreamLines : r = Reply("cancel", TRUE) /\ r.call = "cancel"
  BY <1>3, AnswerWritten
<1> DEFINE told == Append(down, m)
<1>7. told \in Seq(StreamLines) /\ down' \in {told, Append(told, r)}
  <2>1. told \in Seq(StreamLines) /\ Feed(down, <<m>>) = told
    BY <1>3, OneLine
  <2> HIDE DEF told
  <2>2. told \o <<r>> = Append(told, r) /\ told \o <<>> = told
    BY <2>1, AppendIsConcat, ConcatEmptySeq
  <2> QED BY <1>4, <1>6, <2>1, <2>2
<1>8. /\ \A i \in DOMAIN down : i \in DOMAIN down' /\ down'[i] = down[i]
      /\ \A i \in DOMAIN down' : i \in DOMAIN down \/ down'[i] \in {m, r}
      /\ \E i \in DOMAIN down' : down'[i] = m
  <2>1. /\ \A i \in DOMAIN down : i \in DOMAIN told /\ told[i] = down[i]
        /\ \A i \in DOMAIN told : i \in DOMAIN down \/ told[i] = m
        /\ Len(down) + 1 \in DOMAIN told /\ told[Len(down) + 1] = m
    BY <1>3
  <2> HIDE DEF told
  <2>2. /\ \A i \in DOMAIN told : i \in DOMAIN down' /\ down'[i] = told[i]
        /\ \A i \in DOMAIN down' : i \in DOMAIN told \/ down'[i] = r
    BY <1>7
  <2> QED BY <2>1, <2>2
<1>9. \A c \in Sends \cup {"subscribe"} : Due(c)' = Due(c) /\ \A i \in Due(c) : down'[i] = down[i]
  BY <1>3, <1>5, <1>6, <1>8 DEF Due
<1>10. News \subseteq News' /\ News' # {}
  BY <1>5, <1>8 DEF News, Tells
<1> QED BY <1>1, <1>9, <1>10, UseFrame

\* A message is refused, or it has the session.
LEMMA UseSend ==
    ASSUME TuiAssumption, TuiTypeOK, Held, UseInv, NEW c \in Sends, HandleSend(c)
    PROVE  UseInv'
<1>1. /\ UNCHANGED <<phase, client, busy, prompt, picker, blocks, call, loop, ended, core, fed,
                     dropped, locked>>
      /\ c \in inbox /\ inbox' = inbox \ {c}
  BY DEF HandleSend, Handle, tui, history
<1>2. Up /\ Linked
  BY <1>1 DEF UseInv, Attached, Up
<1>3. call[c] = "pending" /\ Due(c) = {} /\ lock # c
  BY <1>1, <1>2 DEF UseInv, OneAnswer
<1>4. down \in Seq(StreamLines) /\ Sends \subseteq Calls /\ "subscribe" \in Calls \ Sends
      /\ c \in Calls /\ c # Nobody
  BY Names DEF TuiTypeOK
<1>5. CASE lock # Nobody /\ down' = Append(down, Reply(c, FALSE)) /\ UNCHANGED <<lock, stage>>
  <2>1. PICK m \in StreamLines : m = Reply(c, FALSE) /\ m.kind = "reply" /\ m.call = c /\ ~m.ok
    BY <1>4, LinesWritten
  <2>2. /\ Due(c)' = {Len(down) + 1} /\ ~down'[Len(down) + 1].ok
        /\ \A d \in Calls : d # c => Due(d)' = Due(d)
        /\ \A i \in DOMAIN down : down'[i] = down[i]
        /\ News \subseteq News'
    <3>1. down' = Append(down, m)
      BY <1>5, <2>1
    <3>2. /\ \A i \in DOMAIN down : down'[i] = down[i]
          /\ down'[Len(down) + 1] = m /\ News \subseteq News'
          /\ \A d \in Calls : IF m.kind = "reply" /\ m.call = d
                              THEN Due(d)' = Due(d) \cup {Len(down) + 1} ELSE Due(d)' = Due(d)
      BY <1>4, <3>1, LineAdded
    <3> QED BY <1>3, <1>4, <2>1, <3>2
  <2>3. Linkage'
    BY <1>1, <1>4, <2>2 DEF UseInv, Linkage, Linked
  <2>4. OneAnswer'
    BY <1>1, <1>3, <1>4, <1>5, <2>2 DEF UseInv, OneAnswer, Linked
  <2>5. Attached'
    BY <1>1, <1>2, <1>5 DEF Attached, Up, Linked
  <2>6. Resolvable'
    <3>1. \A d \in Sends : d # c => \A i \in Due(d)' : i \in Due(d) /\ down'[i] = down[i]
      BY <1>4, <2>2 DEF Due
    <3>2. \A i \in Due(c)' : ~down'[i].ok
      BY <2>2
    <3> QED BY <1>1, <1>3, <1>5, <2>2, <3>1, <3>2 DEF UseInv, Resolvable, News
  <2>7. ShutFor'
    BY <1>1 DEF UseInv, ShutFor
  <2> QED BY <2>3, <2>4, <2>5, <2>6, <2>7 DEF UseInv
<1>6. CASE lock = Nobody /\ lock' = c /\ stage' = "running"
      /\ down' = Feed(down, <<Own("started")>>)
  <2>1. PICK m \in StreamLines : m = Own("started") /\ m.kind = "event" /\ m.kind # "reply"
    BY LinesWritten
  <2>2. /\ \A d \in Calls : Due(d)' = Due(d)
        /\ \A i \in DOMAIN down : down'[i] = down[i]
        /\ News \subseteq News'
    <3>1. down' = Append(down, m)
      BY <1>2, <1>4, <1>6, <2>1, OneLine DEF Up
    <3> QED BY <1>4, <2>1, <3>1, LineAdded
  <2>3. Linkage'
    BY <1>1, <1>4, <2>2 DEF UseInv, Linkage, Linked
  <2>4. OneAnswer'
    BY <1>1, <1>3, <1>4, <1>6, <2>2 DEF UseInv, OneAnswer, Linked
  <2>5. Attached'
    BY <1>1, <1>2, <1>6 DEF Attached, Up, Linked
  <2>6. Resolvable'
    <3>1. \A d \in Sends : \A i \in Due(d)' : i \in Due(d) /\ down'[i] = down[i]
      BY <1>4, <2>2 DEF Due
    <3> QED BY <1>1, <1>6, <2>2, <3>1 DEF UseInv, Resolvable, News
  <2>7. ShutFor'
    BY <1>1 DEF UseInv, ShutFor
  <2> QED BY <2>3, <2>4, <2>5, <2>6, <2>7 DEF UseInv
<1> QED BY <1>5, <1>6 DEF HandleSend

\* The session is free, and the message answered.
LEMMA UseUnlock == ASSUME TuiAssumption, TuiTypeOK, Held, UseInv, Unlock PROVE UseInv'
<1>1. /\ UNCHANGED <<phase, client, busy, prompt, picker, blocks, call, loop, ended, core, fed,
                     inbox,
                     dropped, locked>>
      /\ lock' = Nobody /\ stage = "told" /\ stage' = "idle" /\ lock \in Sends
      /\ down' = Append(down, Reply(lock, TRUE))
  BY DEF Unlock, tui, history, Held, TuiTypeOK
<1>2. Up /\ Linked
  BY <1>1, Names DEF UseInv, Attached, Up
<1>3. call[lock] = "pending" /\ Due(lock) = {} /\ lock \notin inbox
  BY <1>1, <1>2 DEF UseInv, OneAnswer
<1>4. down \in Seq(StreamLines) /\ Sends \subseteq Calls /\ "subscribe" \in Calls \ Sends
      /\ lock \in Calls /\ lock # Nobody /\ Nobody \notin Sends
  BY <1>1, Names DEF TuiTypeOK
<1>5. PICK m \in StreamLines : m = Reply(lock, TRUE) /\ m.kind = "reply" /\ m.call = lock
  BY <1>4, AnswerWritten
<1>6. /\ Due(lock)' \subseteq {Len(down) + 1} \cup Due(lock)'
      /\ \A d \in Calls : Due(d)' = Due(d) \cup (IF d = lock THEN {Len(down) + 1} ELSE {})
      /\ \A i \in DOMAIN down : down'[i] = down[i]
      /\ News \subseteq News'
  BY <1>1, <1>4, <1>5, LineAdded
<1>7. Linkage'
  BY <1>1, <1>4, <1>6 DEF UseInv, Linkage, Linked
<1>8. OneAnswer'
  BY <1>1, <1>3, <1>4, <1>6 DEF UseInv, OneAnswer, Linked
<1>9. Attached'
  BY <1>1, <1>2 DEF Attached, Up, Linked
<1>10. Resolvable'
  <2>1. \A d \in Sends : d # lock => \A i \in Due(d)' : i \in Due(d) /\ down'[i] = down[i]
    BY <1>4, <1>6 DEF Due
  <2> QED BY <1>1, <1>3, <1>4, <1>6, <2>1 DEF UseInv, Resolvable, News
<1>11. ShutFor'
  BY <1>1 DEF UseInv, ShutFor
<1> QED BY <1>7, <1>8, <1>9, <1>10, <1>11 DEF UseInv

\* A line that is taken leaves every other line where it was, one place nearer.
LEMMA Nearer ==
    ASSUME TuiTypeOK, Dispatch
    PROVE  /\ \A c \in Calls : \A i \in Due(c)' :
                 i \in Nat /\ i + 1 \in Due(c) /\ 1 < i + 1 /\ down'[i] = down[i + 1]
           /\ \A c \in Calls : Due(c)' # {} => Due(c) # {}
           /\ ~(down[1].kind = "event" /\ down[1].type \in {"waiting", "interrupted"}) =>
                 (News # {} => News' # {})
<1>1. /\ 1 \in DOMAIN down /\ DOMAIN down' \subseteq Nat
      /\ \A i \in DOMAIN down' : i + 1 \in DOMAIN down /\ 1 < i + 1 /\ down'[i] = down[i + 1]
      /\ \A i \in DOMAIN down : i # 1 => i - 1 \in DOMAIN down' /\ down'[i - 1] = down[i]
  BY Taken
<1>2. \A c \in Calls : \A i \in Due(c)' :
         i \in Nat /\ i + 1 \in Due(c) /\ 1 < i + 1 /\ down'[i] = down[i + 1]
  BY <1>1 DEF Due
<1>3. ASSUME ~(down[1].kind = "event" /\ down[1].type \in {"waiting", "interrupted"}),
             NEW i \in News
      PROVE  i - 1 \in News'
  <2>1. i \in DOMAIN down /\ i # 1
    BY <1>3 DEF News, Tells
  <2> QED BY <1>1, <1>3, <2>1 DEF News, Tells
<1> QED BY <1>2, <1>3

\* The answer that is taken ends its own call, and no other.
LEMMA Answered ==
    ASSUME TuiAssumption, TuiTypeOK, Dispatch, down[1].kind = "reply"
    PROVE  LET m == down[1] IN
           /\ UNCHANGED <<phase, client, busy, prompt, picker, blocks, loop, ended, core, lock,
                          stage,
                          dropped, locked, fed, inbox>>
           /\ m.call \in Calls /\ m.ok \in BOOLEAN /\ 1 \in Due(m.call)
           /\ \A c \in Calls : c # m.call \/ call[c] # "pending" => call'[c] = call[c]
           /\ call[m.call] = "pending" =>
                 /\ m.call \notin Sends \cup {"cancel"} =>
                       call'[m.call] = IF m.ok THEN "ok" ELSE "err"
                 /\ m.call \in Sends => call'[m.call] = IF m.ok THEN "none" ELSE "err"
<1> DEFINE m == down[1]
<1>1. /\ 1 \in DOMAIN down /\ Head(down) = m /\ m \in StreamLines /\ m.kind = "reply"
  BY Taken
<1>2. m.call \in Calls /\ m.ok \in BOOLEAN /\ 1 \in Due(m.call)
  BY <1>1, LinesRead DEF Due
<1>3. /\ call' = Resolved(m)
      /\ UNCHANGED <<phase, client, busy, prompt, picker, blocks, loop, ended, core, lock, stage,
                     dropped, locked, fed, inbox>>
  BY <1>1 DEF Dispatch, daemon
<1>4. call \in [Calls -> CallStates]
  BY DEF TuiTypeOK, CallStates
<1> HIDE DEF m
<1>5. \A c \in Calls : c # m.call \/ call[c] # "pending" => call'[c] = call[c]
  BY <1>2, <1>3, <1>4 DEF Resolved
<1>6. call[m.call] = "pending" => call'[m.call] = Settled(m.call, IF m.ok THEN "ok" ELSE "err")
  BY <1>2, <1>3, <1>4 DEF Resolved
<1>7. /\ m.call \notin Sends \cup {"cancel"} =>
            Settled(m.call, IF m.ok THEN "ok" ELSE "err") = IF m.ok THEN "ok" ELSE "err"
      /\ m.call \in Sends =>
            Settled(m.call, IF m.ok THEN "ok" ELSE "err") = IF m.ok THEN "none" ELSE "err"
  BY <1>2, Names DEF Settled
<1>8. QED BY <1>2, <1>3, <1>5, <1>6, <1>7 DEF m

\* The client takes an answer.
LEMMA UseReply ==
    ASSUME TuiAssumption, TuiTypeOK, UseInv, Dispatch, down[1].kind = "reply"
    PROVE  UseInv'
<1> DEFINE m == down[1]
<1>1. /\ UNCHANGED <<phase, client, busy, prompt, picker, blocks, loop, ended, core, lock, stage,
                     dropped, locked, fed, inbox>>
      /\ m.call \in Calls /\ m.ok \in BOOLEAN /\ 1 \in Due(m.call)
      /\ \A c \in Calls : c # m.call \/ call[c] # "pending" => call'[c] = call[c]
      /\ call[m.call] = "pending" =>
            /\ m.call \notin Sends \cup {"cancel"} => call'[m.call] = IF m.ok THEN "ok" ELSE "err"
            /\ m.call \in Sends => call'[m.call] = IF m.ok THEN "none" ELSE "err"
  BY Answered
<1>2. /\ \A c \in Calls : \A i \in Due(c)' :
            i \in Nat /\ i + 1 \in Due(c) /\ 1 < i + 1 /\ down'[i] = down[i + 1]
      /\ \A c \in Calls : Due(c)' # {} => Due(c) # {}
      /\ News # {} => News' # {}
  BY Nearer
<1>3. Sends \subseteq Calls /\ {"subscribe", "switch"} \cup Handled \subseteq Calls
      /\ \A c \in {"subscribe", "switch"} \cup Handled : c \notin Sends \cup {"cancel"}
  BY Names DEF Handled
<1>4. \A i \in Due(m.call) : i = 1 => down[i] = m
  OBVIOUS
<1> HIDE DEF m
<1>5. Linkage'
  <2>1. call'["subscribe"] = "ok" => call["subscribe"] = "ok" \/ Due("subscribe") # {}
    BY <1>1, <1>3
  <2> QED BY <1>1, <1>2, <1>3, <2>1 DEF UseInv, Linkage, Linked
<1>6. OneAnswer'
  <2> SUFFICES ASSUME Linked, NEW c \in Sends
               PROVE  /\ lock = c \/ c \in inbox \/ Due(c)' # {} => call'[c] = "pending"
                      /\ lock = c => c \notin inbox
                      /\ Due(c)' # {} => lock # c /\ c \notin inbox
                      /\ \A i, j \in Due(c)' : i = j
    BY <1>1 DEF OneAnswer, Linked
  <2>1. /\ lock = c \/ c \in inbox \/ Due(c) # {} => call[c] = "pending"
        /\ lock = c => c \notin inbox
        /\ Due(c) # {} => lock # c /\ c \notin inbox
        /\ \A i, j \in Due(c) : i = j
    BY DEF UseInv, OneAnswer
  <2>2. \A i, j \in Due(c)' : i = j
    <3> SUFFICES ASSUME NEW i \in Due(c)', NEW j \in Due(c)' PROVE i = j
      OBVIOUS
    <3>1. i \in Nat /\ j \in Nat /\ i + 1 \in Due(c) /\ j + 1 \in Due(c)
      BY <1>2, <1>3
    <3>2. i + 1 = j + 1
      BY <2>1, <3>1
    <3> QED BY <3>1, <3>2
  <2>3. c = m.call => Due(c)' = {} /\ lock # c /\ c \notin inbox
    <3> SUFFICES ASSUME c = m.call PROVE Due(c)' = {} /\ lock # c /\ c \notin inbox
      OBVIOUS
    <3>1. 1 \in Due(c) /\ lock # c /\ c \notin inbox
      BY <1>1, <2>1
    <3>2. \A i \in Due(c)' : i + 1 = 1 /\ 1 < i + 1 /\ i \in Nat
      BY <1>2, <1>3, <2>1, <3>1
    <3>3. \A i \in Due(c)' : FALSE
      BY <3>2
    <3> QED BY <3>1, <3>3
  <2> QED BY <1>1, <1>2, <1>3, <2>1, <2>2, <2>3
<1>7. Attached'
  <2>1. \A c \in Handled : call'[c] = "cut" => call[c] = "cut"
    BY <1>1, <1>3
  <2> QED BY <1>1, <2>1 DEF UseInv, Attached, Up, Linked
<1>8. Resolvable'
  <2> SUFFICES ASSUME busy, ~dropped, News = {}
               PROVE  \E c \in Sends :
                         \/ call'[c] = "err"
                         \/ /\ call'[c] = "pending" /\ \A i \in Due(c)' : ~down'[i].ok
                            /\ lock = c => stage # "told"
    BY <1>1, <1>2 DEF Resolvable, News
  <2>1. PICK c \in Sends :
           \/ call[c] = "err"
           \/ /\ call[c] = "pending" /\ \A i \in Due(c) : ~down[i].ok
              /\ lock = c => stage # "told"
    BY DEF UseInv, Resolvable, News
  <2>2. c = m.call /\ call[c] = "pending" => call'[c] = "err"
    <3>1. c = m.call /\ call[c] = "pending" => ~m.ok
      BY <1>1, <1>4, <2>1
    <3> QED BY <1>1, <3>1
  <2>3. c # m.call \/ call[c] # "pending" => call'[c] = call[c]
    BY <1>1, <1>3
  <2>4. (\A i \in Due(c) : ~down[i].ok) => \A i \in Due(c)' : ~down'[i].ok
    BY <1>2, <1>3
  <2> QED BY <2>1, <2>2, <2>3, <2>4
<1>9. ShutFor'
  <2>1. \A c \in Handled \cup {"switch"} : call[c] # "none" => call'[c] # "none"
    BY <1>1, <1>3
  <2> QED BY <1>1, <2>1 DEF UseInv, ShutFor
<1> QED BY <1>5, <1>6, <1>7, <1>8, <1>9 DEF UseInv

\* The interface is shown an event.
LEMMA UseEvent ==
    ASSUME TuiAssumption, TuiTypeOK, UseInv, Dispatch, down[1].kind = "event"
    PROVE  UseInv'
<1> DEFINE m == down[1]
<1>1. /\ OnEvent(m)
      /\ locked' = IF m.type \in {"waiting", "interrupted", "closed"}
                   THEN m.type = "closed" ELSE locked
      /\ UNCHANGED <<phase, client, picker, loop, ended, core, lock, stage, dropped, fed, inbox,
                     call>>
      /\ m.kind = "event"
  BY Taken DEF Dispatch, daemon
<1>2. /\ \A c \in Calls : \A i \in Due(c)' :
            i \in Nat /\ i + 1 \in Due(c) /\ 1 < i + 1 /\ down'[i] = down[i + 1]
      /\ \A c \in Calls : Due(c)' # {} => Due(c) # {}
      /\ m.type \notin {"waiting", "interrupted"} => (News # {} => News' # {})
  BY Nearer
<1>3. Sends \subseteq Calls /\ "subscribe" \in Calls
  BY Names
<1> HIDE DEF m
<1>4. /\ busy' => busy /\ m.type \notin {"waiting", "interrupted"}
      /\ ~prompt' /\ ~locked' =>
            \/ blocks' # {}
            \/ UNCHANGED <<busy, prompt, blocks>> /\ ~locked
  <2>1. CASE OnSessionEvent(m)
    BY <1>1, <2>1 DEF OnSessionEvent
  <2>2. CASE OnRunEvent(m) /\ UNCHANGED <<blocks, selects>>
    BY <1>1, <2>2 DEF OnRunEvent
  <2>3. CASE OnPermissionEvent(m)
    BY <1>1, <2>3 DEF OnPermissionEvent
  <2> QED BY <1>1, <2>1, <2>2, <2>3 DEF OnEvent
<1>5. Linkage'
  BY <1>1, <1>2, <1>3 DEF UseInv, Linkage, Linked
<1>6. OneAnswer'
  <2> SUFFICES ASSUME Linked, NEW c \in Sends
               PROVE  /\ lock = c \/ c \in inbox \/ Due(c)' # {} => call[c] = "pending"
                      /\ lock = c => c \notin inbox
                      /\ Due(c)' # {} => lock # c /\ c \notin inbox
                      /\ \A i, j \in Due(c)' : i = j
    BY <1>1 DEF OneAnswer, Linked
  <2>1. /\ lock = c \/ c \in inbox \/ Due(c) # {} => call[c] = "pending"
        /\ lock = c => c \notin inbox
        /\ Due(c) # {} => lock # c /\ c \notin inbox
        /\ \A i, j \in Due(c) : i = j
    BY DEF UseInv, OneAnswer
  <2>2. \A i, j \in Due(c)' : i = j
    <3> SUFFICES ASSUME NEW i \in Due(c)', NEW j \in Due(c)' PROVE i = j
      OBVIOUS
    <3>1. i \in Nat /\ j \in Nat /\ i + 1 \in Due(c) /\ j + 1 \in Due(c)
      BY <1>2, <1>3
    <3>2. i + 1 = j + 1
      BY <2>1, <3>1
    <3> QED BY <3>1, <3>2
  <2> QED BY <1>2, <1>3, <2>1, <2>2
<1>7. Attached'
  BY <1>1, <1>4 DEF UseInv, Attached, Up, Linked
<1>8. Resolvable'
  <2> SUFFICES ASSUME busy, ~dropped, m.type \notin {"waiting", "interrupted"}, News = {}
               PROVE  \E c \in Sends :
                         \/ call[c] = "err"
                         \/ /\ call[c] = "pending" /\ \A i \in Due(c)' : ~down'[i].ok
                            /\ lock = c => stage # "told"
    BY <1>1, <1>2, <1>4 DEF Resolvable, News
  <2>1. PICK c \in Sends :
           \/ call[c] = "err"
           \/ /\ call[c] = "pending" /\ \A i \in Due(c) : ~down[i].ok
              /\ lock = c => stage # "told"
    BY DEF UseInv, Resolvable, News
  <2>2. (\A i \in Due(c) : ~down[i].ok) => \A i \in Due(c)' : ~down'[i].ok
    BY <1>2, <1>3
  <2> QED BY <2>1, <2>2
<1>9. ShutFor'
  BY <1>1, <1>4 DEF UseInv, ShutFor
<1> QED BY <1>5, <1>6, <1>7, <1>8, <1>9 DEF UseInv

\* Whatever line is taken.
LEMMA UseDispatch == ASSUME TuiAssumption, TuiTypeOK, UseInv, Dispatch PROVE UseInv'
<1>1. down[1].kind \in {"reply", "event"}
  BY Taken, LinesRead
<1> QED BY <1>1, UseReply, UseEvent

\* A connection that is not up carries no message, and none is waited for.
LEMMA NothingSent ==
    ASSUME UseInv, ~Up, UNCHANGED <<busy, dropped, lock>>, inbox' \cap Sends \subseteq inbox
    PROVE  /\ ~(busy /\ ~dropped) /\ lock = Nobody /\ inbox \cap Sends = {}
           /\ Attached' /\ Resolvable'
  BY DEF UseInv, Attached, Resolvable

\* The connection is made, set up, lost and looked for again.
LEMMA UseSocket ==
    ASSUME TuiAssumption, TuiTypeOK, UseInv, SocketLoop \/ LoopEnds
    PROVE  UseInv'
<1>1. /\ {"subscribe", "open"} \subseteq Calls \ Sends /\ Sends \subseteq Calls
      /\ call \in [Calls -> CallStates] /\ inbox \subseteq Calls
  BY Names DEF TuiTypeOK, CallStates
<1>2. CASE Connect
  <2>1. /\ phase = "retry" /\ phase' = "subscribe" /\ client' = TRUE /\ loop' = "running" /\ core
        /\ call'["subscribe"] = "pending" /\ inbox' = {"subscribe"} /\ down' = <<>> /\ ended' = "no"
        /\ UNCHANGED <<busy, prompt, blocks, core, lock, stage, dropped, locked>>
    BY <1>1, <1>2 DEF Connect, daemon, history
  <2>2. ~Up /\ inbox' \cap Sends = {}
    BY <1>1, <2>1 DEF Up
  <2>3. lock = Nobody /\ Attached' /\ Resolvable'
    BY <2>1, <2>2, NothingSent
  <2>4. \A c \in Calls : Due(c)' = {}
    BY <2>1 DEF Due
  <2>5. Linkage'
    BY <1>1, <2>1, <2>4 DEF Linkage, Linked
  <2>6. OneAnswer'
    BY <1>1, <2>1, <2>2, <2>3, <2>4, Names DEF OneAnswer, Linked
  <2>7. ShutFor'
    BY <2>1 DEF ShutFor
  <2> QED BY <2>3, <2>5, <2>6, <2>7 DEF UseInv
<1>3. CASE ConnectFails \/ Wake
  <2>1. /\ phase' \in {"sleep", "retry"}
        /\ UNCHANGED <<client, busy, prompt, picker, blocks, loop, call, down, ended, inbox,
                       fed, core,
                       lock,
                       stage, dropped, locked>> /\ phase \in {"sleep", "retry"}
    BY <1>3 DEF ConnectFails, Wake, wire, daemon, history
  <2>2. \A c : Due(c)' = Due(c)
    BY <2>1 DEF Due
  <2>3. Attached' /\ Resolvable'
    BY <2>1, NothingSent DEF Up
  <2>4. Linkage'
    BY <2>1, <2>2 DEF UseInv, Linkage, Linked
  <2>5. OneAnswer'
    BY <2>1, <2>2 DEF UseInv, OneAnswer, Linked
  <2>6. ShutFor'
    BY <2>1 DEF ShutFor
  <2> QED BY <2>3, <2>4, <2>5, <2>6 DEF UseInv
<1>4. CASE Subscribed \/ Opened
  <2>1. /\ \/ phase = "subscribe" /\ phase' = "open" /\ call["subscribe"] = "ok"
           \/ phase = "open" /\ phase' = "ready" /\ prompt'
        /\ \A c \in Calls \ {"open"} : call'[c] = call[c]
        /\ inbox' \subseteq inbox \cup {"open"}
        /\ UNCHANGED <<client, busy, blocks, loop, down, ended, fed, core, lock, stage, dropped,
                       locked>>
    BY <1>1, <1>4 DEF Subscribed, Opened, Await, Issue, Issued, Sent, wire, daemon, history
  <2>2. ~Up /\ inbox' \cap Sends \subseteq inbox
    BY <1>1, <2>1 DEF Up
  <2>3. \A c : Due(c)' = Due(c)
    BY <2>1 DEF Due
  <2>4. Attached' /\ Resolvable' /\ lock = Nobody /\ inbox \cap Sends = {}
    BY <2>1, <2>2, NothingSent
  <2>5. Linkage'
    BY <1>1, <2>1, <2>3 DEF UseInv, Linkage, Linked
  <2>6. OneAnswer'
    BY <1>1, <2>1, <2>2, <2>3 DEF UseInv, OneAnswer, Linked
  <2>7. ShutFor'
    BY <2>1 DEF ShutFor
  <2> QED BY <2>4, <2>5, <2>6, <2>7 DEF UseInv
<1>5. CASE Disconnected \/ WorkerEnds \/ LoopEnds
  <2>1. /\ loop' = "over" /\ ~Up
        /\ UNCHANGED <<busy, ended, inbox, lock, dropped>>
        /\ phase' \in {"crashed", "sleep", "ended"} \/ (ended # "no" /\ UNCHANGED <<phase, client>>)
    BY <1>5 DEF Disconnected, WorkerEnds, LoopEnds, Teardown, Await, Up, Linked, tui, daemon,
                history, Setup
  <2>2. Attached' /\ Resolvable'
    BY <2>1, NothingSent
  <2>3. Linkage'
    BY <2>1 DEF UseInv, Linkage, Linked
  <2>4. OneAnswer' /\ ShutFor'
    BY <2>1 DEF OneAnswer, ShutFor, Linked
  <2> QED BY <2>2, <2>3, <2>4 DEF UseInv
<1> QED BY <1>2, <1>3, <1>4, <1>5 DEF SocketLoop

\* A call is made, or comes back, that is no message.
LEMMA UseCall ==
    ASSUME TuiAssumption, TuiTypeOK, UseInv, NEW d \in {"switch", "pick", "cancel", "answer"},
           UNCHANGED <<phase, client, busy, loop, down, ended, fed, core, lock, stage>>,
           \A c \in Calls : c # d => call'[c] = call[c],
           \A c \in Handled : call'[c] = "cut" => call[c] = "cut",
           inbox' \subseteq inbox \cup {d},
           dropped => dropped', ShutFor'
    PROVE  UseInv'
<1>1. d \notin Sends \cup {"subscribe"} /\ Sends \subseteq Calls /\ "subscribe" \in Calls
  BY Names
<1>2. \A c : Due(c)' = Due(c)
  BY DEF Due
<1>3. Linkage'
  BY <1>1, <1>2 DEF UseInv, Linkage, Linked
<1>4. OneAnswer'
  BY <1>1, <1>2 DEF UseInv, OneAnswer, Linked
<1>5. Attached'
  BY <1>1 DEF UseInv, Attached, Up, Linked
<1>6. Resolvable'
  <2>1. News' = News
    BY DEF News, Tells
  <2> QED BY <1>1, <1>2, <2>1 DEF UseInv, Resolvable, News
<1> QED BY <1>3, <1>4, <1>5, <1>6 DEF UseInv

\* What the user does besides, and what comes back to him.
LEMMA UseOthers ==
    ASSUME TuiAssumption, TuiTypeOK, UseInv,
           \/ Switch \/ SwitchReturns \/ Pick \/ PickReturns \/ Dismiss
           \/ CancelRun \/ CancelReturns \/ AnswerReturns
           \/ \E i \in DOMAIN selects : Decide(i)
    PROVE  UseInv'
<1>1. /\ {"switch", "pick", "cancel", "answer"} \subseteq Calls /\ Handled = {"pick", "answer"}
      /\ call \in [Calls -> CallStates]
  BY Names DEF TuiTypeOK, CallStates, Handled
<1>2. CASE Switch \/ SwitchReturns
  <2>1. /\ UNCHANGED <<phase, client, busy, blocks, loop, down, ended, fed, core, lock, stage,
                       locked>>
        /\ \A c \in Calls : c # "switch" => call'[c] = call[c]
        /\ inbox' \subseteq inbox \cup {"switch"} /\ (dropped => dropped')
        /\ call'["switch"] # "none" \/ prompt' \/ picker'
    <3>1. CASE Switch
      BY <1>1, <3>1 DEF Switch, Issue, Issued, Sent, daemon
    <3>2. CASE SwitchReturns
      BY <1>1, <3>2 DEF SwitchReturns, daemon, history
    <3> QED BY <1>2, <3>1, <3>2
  <2>2. ShutFor'
    BY <2>1 DEF ShutFor
  <2> QED BY <1>1, <2>1, <2>2, UseCall
<1>5. CASE Pick \/ PickReturns \/ Dismiss
  <2>1. /\ UNCHANGED <<phase, client, busy, blocks, loop, down, ended, fed, core, lock, stage,
                       dropped, locked>>
        /\ \A c \in Calls : c # "pick" => call'[c] = call[c]
        /\ inbox' \subseteq inbox \cup {"pick"}
        /\ call'["pick"] = "cut" => call["pick"] = "cut"
        /\ call'["pick"] # "none" \/ prompt' \/ ~client
    <3>1. CASE Pick
      BY <1>1, <3>1 DEF Pick, PumpFree, Issue, Issued, Sent, daemon
    <3>2. CASE PickReturns \/ Dismiss
      BY <1>1, <3>2 DEF PickReturns, Dismiss, wire, daemon, history
    <3> QED BY <1>5, <3>1, <3>2
  <2>2. ShutFor'
    BY <1>1, <2>1 DEF UseInv, Linkage, ShutFor
  <2> QED BY <1>1, <2>1, <2>2, UseCall
<1>3. CASE CancelRun \/ CancelReturns
  <2>1. /\ UNCHANGED <<phase, client, busy, prompt, picker, blocks, loop, down, ended, fed,
                       core, lock,
                       stage,
                       dropped, locked>>
        /\ \A c \in Calls : c # "cancel" => call'[c] = call[c]
        /\ inbox' \subseteq inbox \cup {"cancel"}
    BY <1>1, <1>3 DEF CancelRun, CancelReturns, Issue, Issued, Sent, daemon, history
  <2>2. ShutFor'
    BY <1>1, <2>1 DEF UseInv, ShutFor
  <2> QED BY <1>1, <2>1, <2>2, UseCall
<1>4. CASE AnswerReturns \/ \E i \in DOMAIN selects : Decide(i)
  <2>1. /\ UNCHANGED <<phase, client, busy, loop, down, ended, fed, core, lock, stage, dropped,
                       locked>>
        /\ \A c \in Calls : c # "answer" => call'[c] = call[c]
        /\ inbox' \subseteq inbox \cup {"answer"}
    BY <1>1, <1>4 DEF AnswerReturns, Decide, Issue, Issued, Sent, daemon, history
  <2>2. /\ call'["answer"] # "cut"
        /\ call'["answer"] # "none" \/ prompt' \/ blocks' # {}
    BY <1>1, <1>4 DEF AnswerReturns, Decide, PumpFree, Issue, Issued
  <2>3. ShutFor'
    BY <1>1, <2>1, <2>2 DEF UseInv, ShutFor
  <2> QED BY <1>1, <2>1, <2>2, <2>3, UseCall
<1> QED BY <1>2, <1>3, <1>4, <1>5

\* A message is sent: over the connection it is waited for on.
LEMMA UseSubmit ==
    ASSUME TuiAssumption, TuiTypeOK, UseInv, NEW c \in Sends, Submit(c)
    PROVE  UseInv'
<1>1. /\ Sends \subseteq Calls /\ {"subscribe"} \cup Handled \subseteq Calls \ Sends
      /\ call \in [Calls -> CallStates]
  BY Names DEF TuiTypeOK, CallStates, Handled
<1>2. /\ UNCHANGED <<phase, client, blocks, loop, down, ended, fed, core, lock, stage, locked>>
      /\ phase = "ready" /\ client /\ busy' = TRUE
      /\ dropped' = (dropped \/ ended # "no")
      /\ call[c] = "none" /\ \A d \in Handled : call[d] = "none"
      /\ \A d \in Calls : d # c => call'[d] = call[d]
      /\ loop = "running" => call'[c] = "pending"
      /\ inbox' = IF Linked THEN inbox \cup {c} ELSE inbox
  BY <1>1 DEF Submit, PumpFree, Handled, Issue, Issued, Sent, Linked, daemon
<1>3. \A d : Due(d)' = Due(d)
  BY <1>2 DEF Due
<1>4. Linkage'
  BY <1>1, <1>2, <1>3 DEF UseInv, Linkage, Linked
<1>5. ShutFor'
  BY <1>2 DEF ShutFor
<1>6. CASE ended = "no"
  <2>1. Linked /\ core /\ fed
    BY <1>2, <1>6 DEF UseInv, Linkage, Linked
  <2>2. lock # c /\ c \notin inbox /\ Due(c) = {}
    BY <1>2, <2>1 DEF UseInv, OneAnswer
  <2>3. OneAnswer'
    BY <1>1, <1>2, <1>3, <2>1, <2>2 DEF UseInv, OneAnswer, Linked
  <2>4. Attached'
    BY <1>1, <1>2, <2>1 DEF Attached, Up, Linked
  <2>5. Resolvable'
    BY <1>2, <1>3, <2>1, <2>2 DEF Resolvable, Linked
  <2> QED BY <1>4, <1>5, <2>3, <2>4, <2>5 DEF UseInv
<1>7. CASE ended # "no"
  <2>1. ~Linked /\ ~Linked' /\ ~Up /\ dropped'
    BY <1>2, <1>7 DEF Linked, Up
  <2>2. OneAnswer' /\ Resolvable'
    BY <2>1 DEF OneAnswer, Resolvable
  <2>3. Attached'
    BY <1>2, <2>1 DEF UseInv, Attached
  <2> QED BY <1>4, <1>5, <2>2, <2>3 DEF UseInv
<1> QED BY <1>6, <1>7

\* An error comes back to it; an answer to a request is cut.
LEMMA UseReturns ==
    ASSUME TuiAssumption, TuiTypeOK, UseInv, HandlerCut \/ \E c \in Sends : SendReturns(c)
    PROVE  UseInv'
<1>1. /\ Sends \subseteq Calls /\ {"subscribe"} \cup Handled \subseteq Calls \ Sends
      /\ call \in [Calls -> CallStates]
  BY Names DEF TuiTypeOK, CallStates, Handled
<1>2. CASE HandlerCut
  <2>1. /\ UNCHANGED <<client, busy, prompt, blocks, loop, call, down, ended, inbox, fed, core,
                       lock,
                       stage, dropped, locked>>
        /\ phase' = "crashed" /\ ~Up
    BY <1>2 DEF HandlerCut, Handled, Up, wire, daemon, history
  <2>2. \A c : Due(c)' = Due(c)
    BY <2>1 DEF Due
  <2>3. Attached' /\ Resolvable'
    BY <2>1, NothingSent
  <2>4. Linkage'
    BY <2>1, <2>2 DEF UseInv, Linkage, Linked
  <2>5. OneAnswer' /\ ShutFor'
    BY <2>1, <2>2 DEF UseInv, OneAnswer, ShutFor, Linked
  <2> QED BY <2>3, <2>4, <2>5 DEF UseInv
<1>3. CASE \E c \in Sends : SendReturns(c)
  <2> PICK c \in Sends : SendReturns(c)
    BY <1>3
  <2>1. /\ UNCHANGED <<phase, client, blocks, loop, down, ended, inbox, fed, core, lock, stage,
                       dropped, locked>>
        /\ busy' = FALSE /\ prompt' = TRUE /\ call[c] = "err"
        /\ \A d \in Calls : d # c => call'[d] = call[d]
    BY <1>1 DEF SendReturns, daemon, history
  <2>2. \A d : Due(d)' = Due(d)
    BY <2>1 DEF Due
  <2>3. Linkage'
    BY <1>1, <2>1, <2>2 DEF UseInv, Linkage, Linked
  <2>4. OneAnswer'
    BY <1>1, <2>1, <2>2 DEF UseInv, OneAnswer, Linked
  <2>5. Attached'
    BY <1>1, <2>1 DEF UseInv, Attached, Up, Linked
  <2>6. Resolvable' /\ ShutFor'
    BY <2>1 DEF Resolvable, ShutFor
  <2> QED BY <2>3, <2>4, <2>5, <2>6 DEF UseInv
<1> QED BY <1>2, <1>3

\* With the daemon the connection ends, and with it whatever was waited for.
LEMMA UseEnds == ASSUME TuiAssumption, TuiTypeOK, UseInv, Ends PROVE UseInv'
<1>1. CASE Restart
  <2>1. /\ UNCHANGED <<phase, client, busy, prompt, picker, blocks, loop, call, down, ended,
                       inbox, fed,
                       lock,
                       stage, dropped, locked>>
        /\ core' = TRUE /\ ~core
    BY <1>1 DEF Restart, wire, tui, history
  <2>2. \A c : Due(c)' = Due(c)
    BY <2>1 DEF Due
  <2>3. Attached' /\ Resolvable'
    BY <2>1, NothingSent DEF Up
  <2>4. Linkage'
    BY <2>1, <2>2 DEF UseInv, Linkage, Linked
  <2>5. OneAnswer' /\ ShutFor'
    BY <2>1, <2>2 DEF UseInv, OneAnswer, ShutFor, Linked
  <2> QED BY <2>3, <2>4, <2>5 DEF UseInv
<1>2. CASE Stop \/ Kill
  <2>1. PICK how \in {"closed", "reset"}, last \in Seq(StreamLines) : CoreEnds(how, last)
    BY <1>2, HowItEnds
  <2>2. /\ UNCHANGED <<phase, client, busy, prompt, picker, blocks, loop, call, locked>>
        /\ lock' = Nobody /\ inbox' = {} /\ (busy => dropped')
        /\ loop = "running" => ended' # "no"
        /\ loop # "running" => ended' = ended
        /\ dropped => dropped'
    BY <2>1 DEF CoreEnds, tui
  <2>3. Linkage' /\ OneAnswer'
    BY <2>2 DEF UseInv, Linkage, OneAnswer, Linked
  <2>4. Attached' /\ Resolvable'
    BY <2>2 DEF Attached, Resolvable
  <2>5. ShutFor'
    BY <2>2 DEF UseInv, Linkage, ShutFor
  <2> QED BY <2>3, <2>4, <2>5 DEF UseInv
<1> QED BY <1>1, <1>2 DEF Ends

\* At first nothing is under way.
LEMMA UseInit == ASSUME TuiAssumption, TuiInit PROVE UseInv /\ Held
<1>1. \A c : Due(c) = {}
  BY DEF TuiInit, Due
<1>2. "subscribe" \in Calls /\ Sends \subseteq Calls
  BY Names
<1>3. Linkage
  BY <1>1, <1>2 DEF TuiInit, Linkage, Linked
<1>4. OneAnswer /\ Attached /\ Resolvable /\ ShutFor /\ Held
  BY <1>1 DEF TuiInit, OneAnswer, Attached, Resolvable, ShutFor, Linked, Held
<1> QED BY <1>3, <1>4 DEF UseInv

\* Every step leaves whoever shut the prompt able to open it again.
LEMMA UseStep ==
    ASSUME TuiAssumption, TuiTypeOK, Held, UseInv, [TuiNext]_tuiVars
    PROVE  UseInv'
<1>1. CASE UNCHANGED tuiVars
  <2>1. UNCHANGED <<phase, client, busy, prompt, picker, blocks, loop, call, down, ended, inbox,
                    fed, core,
                    lock, stage, dropped, locked>>
    BY <1>1 DEF tuiVars
  <2>2. (\A c : Due(c)' = Due(c)) /\ News' = News
    BY <2>1 DEF Due, News, Tells
  <2> QED BY <2>1, <2>2 DEF UseInv, Linkage, OneAnswer, Attached, Up, Resolvable, ShutFor,
     Linked, News
<1>2. CASE SocketLoop \/ Reading
  BY <1>2, UseSocket, UseDispatch DEF Reading
<1>3. CASE Returns \/ User
  BY <1>3, UseOthers, UseReturns, UseSubmit DEF Returns, User
<1>4. CASE Handlers \/ Run \/ Ask \/ DecidedElsewhere \/ OtherEnds
  <2>1. (\E c \in Calls : HandleSend(c)) => \E c \in Sends : HandleSend(c)
    BY DEF HandleSend
  <2> QED BY <1>4, <2>1, UseDaemon, UseSend, UseTell, UseUnlock DEF Handlers, Run
<1>5. CASE Ends
  BY <1>5, UseEnds
<1> QED BY <1>1, <1>2, <1>3, <1>4, <1>5 DEF TuiNext

-----------------------------------------------------------------------------
\* The inductive invariant of the interface.
TuiInv == TuiTypeOK /\ Held /\ AskInv /\ UseInv

\* It is inductive.
LEMMA TuiInductive == TuiSpec => []TuiInv
<1>1. ASSUME TuiInit PROVE TuiInv
  BY <1>1, TuiAssumption, TypedInit, AskInit, UseInit DEF TuiInv
<1>2. ASSUME TuiInv, [TuiNext]_tuiVars PROVE TuiInv'
  BY <1>2, TuiAssumption, TypedStep, HeldStep, AskStep, UseStep DEF TuiInv
<1> QED BY <1>1, <1>2, PTL DEF TuiSpec

\* The variables of the interface, the wire and the daemon keep their types
\* (tui/app.py, core/transport).
THEOREM TuiTyped == TuiSpec => []TuiTypeOK
<1>1. TuiInv => TuiTypeOK
  BY DEF TuiInv
<1> QED BY <1>1, TuiInductive, PTL

\* A request of any session that is still open and was shown has its select on
\* the screen, however timeouts, cancellations and decisions cross each other, as
\* long as no other client denies a request before an older one (app.py:1509).
THEOREM AskAnswerableHolds == TuiSpec => []AskAnswerable
<1>1. TuiInv => AskAnswerable
  BY DEF TuiInv, AskInv, Decidable, Standing, AskAnswerable
<1> QED BY <1>1, TuiInductive, PTL

\* When everything has come to rest the interface takes the next message: it
\* is not busy, and the prompt is open or a request is waiting for the user
\* (app.py:1004, 1225, 1263, 1286).
THEOREM ReadyForUserHolds == TuiSpec => []ReadyForUser
<1>1. ASSUME TuiInv PROVE ReadyForUser
  <2> SUFFICES ASSUME AtRest, ~dropped, ~locked PROVE ~busy /\ (prompt \/ picker \/ blocks # {})
    BY DEF ReadyForUser
  <2>1. /\ phase = "ready" /\ ended = "no" /\ down = <<>>
        /\ \A c \in Sends \cup Handled \cup {"switch"} : call[c] = "none"
    BY Names, TuiAssumption DEF AtRest, Setup, Handled
  <2>2. News = {}
    BY <2>1 DEF News, Tells
  <2>3. ~busy
    BY <1>1, <2>1, <2>2 DEF TuiInv, UseInv, Resolvable, News
  <2> QED BY <1>1, <2>1, <2>3 DEF TuiInv, UseInv, ShutFor
<1> QED BY <1>1, TuiInductive, PTL
=============================================================================
