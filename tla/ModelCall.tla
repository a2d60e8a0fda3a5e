----------------------------- MODULE ModelCall ------------------------------
(***************************************************************************)
(* One call of the model by the agent loop, through everything that is     *)
(* around it: the loop's retries of transient errors (loop.py), the record *)
(* of request and response (trace/provider.py), the provider with its own  *)
(* retries of a dropped stream (llm/provider.py) or without any            *)
(* (llm/openai_compatible.py), and the tokens that the interface gets      *)
(* meanwhile. Every event published is also a record of the trace.         *)
(***************************************************************************)
EXTENDS Trace

CONSTANTS
    ChatTries,       \* attempts of the loop
    StreamAttempts,  \* _MAX_STREAM_RETRIES
    Providers,       \* subset of {"anthropic", "openai_compatible"}
    MaxTokens        \* bound: tokens of an answer

ASSUME ModelCallAssumption ==
    /\ ChatTries \in Nat \ {0} /\ StreamAttempts \in Nat \ {0} /\ MaxTokens \in Nat
    /\ Providers \subseteq {"anthropic", "openai_compatible"}

VARIABLES
    provider,  \* llm.provider of the configuration
    phase,     \* of the call
    try,       \* attempt of the loop
    attempt,   \* attempt of the provider inside it
    sent,      \* tokens the model has sent in this attempt
    text,      \* text_parts: tokens are <<attempt, number>>
    shown      \* the call's tokens at the interface, <<try, number>>: appended to its
               \* stream block, or to a new one after any event but llm.token

callVars == <<provider, phase, try, attempt, sent, text, shown>>
modelCallVars == <<traceVars, callVars>>

Phases == {"idle", "streams", "backoff", "resting", "answered", "failed"}

CallInit ==
    /\ TraceInit
    /\ provider \in Providers
    /\ phase = "idle" /\ try = 0 /\ attempt = 0
    /\ sent = 0 /\ text = <<>> /\ shown = <<>>

\* The provider publishes model_selected, of which the interface hears nothing,
\* puts the request together and begins its first attempt.
Selected == attempt' = 1 /\ sent' = 0 /\ text' = <<>>

\* Before that the request is recorded.
Stream ==
    /\ Emit(2)
    /\ phase' = "streams" /\ Selected
    /\ UNCHANGED provider

\* the plan phase of a step, whose step.started has ended the stream block
Chat ==
    /\ stop = "no" /\ phase \in {"idle", "answered"} /\ try' = 1
    /\ shown' = <<>> /\ Stream

\* after a pause the loop calls once more; the interface hears of neither
ChatAgain == /\ phase = "resting" /\ try' = try + 1 /\ UNCHANGED shown /\ Stream

\* llm.token
Shown(token) == shown' = Append(shown, token) /\ Emit(1)

\* Only the first attempt is published.
Token ==
    /\ provider = "anthropic" /\ phase = "streams" /\ sent < MaxTokens
    /\ sent' = sent + 1
    /\ text' = Append(text, <<attempt, sent'>>)
    /\ IF attempt = 1 THEN Shown(<<try, sent'>>) ELSE UNCHANGED <<shown, traceVars>>
    /\ UNCHANGED <<provider, phase, try, attempt>>

\* The call raises, and no response is recorded. The loop calls again when it
\* takes the error for a transient one.
Raised ==
    \/ try < ChatTries /\ phase' = "resting"
    \/ phase' = "failed"

\* The connection is lost inside the stream: httpx's error is caught.
Dropped ==
    /\ provider = "anthropic" /\ phase = "streams"
    /\ IF attempt = StreamAttempts THEN Raised ELSE phase' = "backoff"
    /\ UNCHANGED <<traceVars, provider, try, attempt, sent, text, shown>>

\* Any other error, of the status or of the body.
Refused ==
    /\ phase = "streams" /\ Raised
    /\ UNCHANGED <<traceVars, provider, try, attempt, sent, text, shown>>

\* Variant for mutation: text_parts is made once, before the attempts.
TextKept == text' = text

TextReset == text' = <<>>

StreamAgain ==
    /\ phase = "backoff"
    /\ phase' = "streams" /\ attempt' = attempt + 1 /\ sent' = 0 /\ TextReset
    /\ UNCHANGED <<traceVars, provider, try, shown>>

\* The stream is over: usage is published and the response recorded.
StreamEnds ==
    /\ provider = "anthropic" /\ phase = "streams"
    /\ phase' = "answered"
    /\ Emit(2)
    /\ UNCHANGED <<provider, try, attempt, sent, text, shown>>

\* The other provider's answer comes in one piece, shown unless it is empty.
Posted ==
    /\ provider = "openai_compatible" /\ phase = "streams"
    /\ \E n \in {0, 1} :
          /\ sent' = n /\ Emit(2 + n)
          /\ text' = [i \in 1 .. n |-> <<1, i>>]
          /\ shown' = IF n = 1 THEN Append(shown, <<try, 1>>) ELSE shown
    /\ phase' = "answered"
    /\ UNCHANGED <<provider, try, attempt>>

\* The run is cancelled, by its user or by the shutdown, or it goes on after
\* its answer; the step of the loop is over.
CallOver ==
    /\ phase # "idle" /\ phase' = "idle"
    /\ try' = 0 /\ attempt' = 0 /\ sent' = 0 /\ text' = <<>> /\ shown' = <<>>
    /\ UNCHANGED provider

Cancelled == CallOver /\ UNCHANGED traceVars

\* The daemon dies, and its clients break the block off; or it shuts down, when
\* every run has been cancelled.
Killed ==
    /\ Kill
    /\ phase' = "idle" /\ try' = 0 /\ attempt' = 0 /\ sent' = 0
    /\ text' = <<>> /\ shown' = <<>> /\ UNCHANGED provider

ShutDown == phase = "idle" /\ Stop /\ UNCHANGED callVars

TraceStep == (Write \/ WriteFails \/ Stopped \/ Start) /\ UNCHANGED callVars

CallNext ==
    \/ Chat \/ ChatAgain \/ Token \/ Dropped \/ Refused \/ StreamAgain
    \/ StreamEnds \/ Posted \/ Cancelled
    \/ Killed \/ ShutDown \/ TraceStep

CallSpec == CallInit /\ [][CallNext]_modelCallVars

\* The drain task is scheduled as long as it has records, and so is the
\* shutdown once the queue's join returns.
CallFairSpec ==
    /\ CallSpec
    /\ WF_modelCallVars(Write /\ UNCHANGED callVars)
    /\ WF_modelCallVars(Stopped /\ UNCHANGED callVars)

-----------------------------------------------------------------------------

CallTypeOK ==
    /\ provider \in Providers /\ phase \in Phases
    /\ try \in 0 .. ChatTries /\ attempt \in 0 .. StreamAttempts /\ sent \in 0 .. MaxTokens + 1
    /\ text \in Seq((1 .. StreamAttempts) \X (1 .. MaxTokens + 1))
    /\ shown \in Seq((1 .. ChatTries) \X (1 .. MaxTokens + 1))

\* The n tokens of one attempt.
Stream1(a, n) == [i \in 1 .. n |-> <<a, i>>]

\* What the interface gets of each try begins with that try's first token, and
\* each further one is the next of the same try.
InTurn ==
    \A i \in DOMAIN shown :
        IF shown[i][2] = 1 THEN i > 1 => shown[i - 1][1] < shown[i][1]
        ELSE i > 1 /\ shown[i - 1] = <<shown[i][1], shown[i][2] - 1>>

\* However often streams break and the loop calls again, the answer the loop
\* gets is what one attempt streamed, complete and in order, with nothing of the
\* attempts before it; and the interface gets of each try a beginning without
\* gap or repetition, the tries in their order, and of the last one the whole
\* answer when no stream of it was dropped. What broken tries left above it stays.
AnswerWhole ==
    /\ phase = "answered" => text = Stream1(attempt, sent)
    /\ InTurn
    /\ phase = "answered" /\ attempt = 1 /\ sent > 0 =>
          shown # <<>> /\ shown[Len(shown)] = <<try, sent>>

\* "Only publish token events on the first attempt to avoid TUI duplicates"
\* (llm/provider.py): the interface gets no place of the answer twice. It does
\* when an error in the stream makes the loop call again.
ShownOnce == \A i, j \in DOMAIN shown : i # j => shown[i][2] # shown[j][2]
=============================================================================
