----------------------------- MODULE Transcript -----------------------------
(***************************************************************************)
(* The rows of a session's thread.jsonl: how SessionStore appends them,    *)
(* what a killed writer leaves behind, what read_messages makes of them    *)
(* and how recover_incomplete_tail cuts a damaged thread back.             *)
(*                                                                         *)
(* A step of a run is an assistant message of two blocks, "head" (text)    *)
(* and "call" (one tool_use), answered by one "result" row; the run's last *)
(* message is one "text" row.  A row stands for its line in the file:      *)
(* "whole" if it parses, "eol" if it ends with a line break.               *)
(***************************************************************************)
EXTENDS Naturals, Sequences, SequencesExt, FiniteSets

Kinds == {"prompt", "head", "call", "result", "text", "summary"}

\* A row written completely.  "runs" is the run it belongs to, or for a
\* compaction summary the runs whose messages it stands for.
RowOf(rs, step, kind) ==
    [runs |-> rs, step |-> step, kind |-> kind, whole |-> TRUE, eol |-> TRUE]

Prompt(r) == RowOf({r}, 0, "prompt")
CallRows(r, step) == <<RowOf({r}, step, "head"), RowOf({r}, step, "call")>>
ResultRow(r, step) == RowOf({r}, step, "result")
TextRow(r) == RowOf({r}, 0, "text")

-----------------------------------------------------------------------------
(* _append_jsonl                                                            *)

\* A row is appended to the file's last line: if that line was left without
\* its line break, both rows become one line that does not parse.
Write(t, row) ==
    IF t # <<>> /\ ~Last(t).eol
    THEN Front(t) \o <<[Last(t) EXCEPT !.whole = FALSE, !.eol = TRUE]>>
    ELSE Append(t, row)

\* Only the first of several rows can meet a line without its line break.
WriteAll(t, rows) ==
    IF rows = <<>> THEN t ELSE Write(t, Head(rows)) \o Tail(rows)

\* What the file may hold when the writer of these rows is killed: some of
\* them, and a last line that is complete, cut short or lacks its line break.
CutShort(t, rows) ==
    UNION {LET done == WriteAll(t, SubSeq(rows, 1, k))
               torn == Write(done, rows[k + 1])
           IN  {done} \cup
               IF Len(torn) = Len(done) THEN {}
               ELSE {Front(torn) \o <<[Last(torn) EXCEPT !.whole = w, !.eol = FALSE]>>
                        : w \in BOOLEAN}
           : k \in 0..(Len(rows) - 1)}

-----------------------------------------------------------------------------
(* _scan_recovery_state                                                     *)

SameStep(a, b) == a.runs = b.runs /\ a.step = b.step
Has(t, k, kind) == t[k].whole /\ t[k].kind = kind

\* The tool_use rows that row i leaves without their results.
Pending(t, i) ==
    {j \in 1..i : /\ Has(t, j, "call")
                  /\ \A k \in (j + 1)..i : ~(Has(t, k, "result") /\ SameStep(t[j], t[k]))}

\* The rows of assistant messages of which a block is missing.
HalfMessages(t) ==
    {i \in 1..Len(t) :
        \/ Has(t, i, "head")
           /\ \A j \in 1..Len(t) : ~(Has(t, j, "call") /\ SameStep(t[i], t[j]))
        \/ Has(t, i, "call")
           /\ \A j \in 1..Len(t) : ~(Has(t, j, "head") /\ SameStep(t[i], t[j]))}

Damaged(t) == (\E i \in 1..Len(t) : ~t[i].whole) \/ HalfMessages(t) # {}

\* Variant for mutation: a message starts at its tool_use row.
StartAtCall(t, i) == i

\* Where the message of row i starts.
MessageStart(t, i) ==
    IF Has(t, i, "call") /\ i > 1 /\ Has(t, i - 1, "head") /\ SameStep(t[i - 1], t[i])
    THEN i - 1 ELSE i

Balanced(t, i) == (\A k \in 1..i : t[k].whole) /\ Pending(t, i) = {}

KeptRows(t) ==
    LET lastBalanced == {0} \cup {i \in 1..Len(t) : Balanced(t, i)}
        starts == {MessageStart(t, i) - 1 : i \in Pending(t, Len(t)) \cup HalfMessages(t)}
        n == Max(lastBalanced)
    IN  IF starts = {} \/ Min(starts) > n THEN n ELSE Min(starts)

\* recover_incomplete_tail: the thread is archived and rewritten as its kept
\* rows, each with a line break; a thread with nothing pending or damaged is
\* left as it is.
Recovered(t) ==
    IF ~Damaged(t) /\ Pending(t, Len(t)) = {} THEN t
    ELSE [i \in 1..KeptRows(t) |-> [t[i] EXCEPT !.eol = TRUE]]

\* Nothing to recover, and the next row gets a line of its own.
Clean(t) ==
    ~Damaged(t) /\ Pending(t, Len(t)) = {} /\ (t # <<>> => Last(t).eol)

-----------------------------------------------------------------------------
(* read_messages and write_compacted                                        *)

\* The lines of t that parse, in their order.
Lines(t) ==
    LET at == {i \in 1..Len(t) : t[i].whole}
        Place(n) == CHOOSE i \in at : Cardinality({j \in at : j < i}) + 1 = n
    IN  [n \in 1..Cardinality(at) |-> t[Place(n)]]

\* Variant for mutation: only what an assistant text has closed is read.
ReadCompleted(t) ==
    LET rows == Lines(t)
    IN  SubSeq(rows, 1, Max({0} \cup {i \in 1..Len(rows) : rows[i].kind \in {"text", "summary"}}))

\* Lines that do not parse are skipped, and a tool_use without its result
\* hides its message and everything after it.
Read(t) ==
    LET rows == Lines(t)
        open == Pending(rows, Len(rows))
        first == Min({MessageStart(rows, i) : i \in open})
        all == [i \in 1..Len(rows) |-> [rows[i] EXCEPT !.eol = TRUE]]
    IN  IF open = {} THEN all ELSE SubSeq(all, 1, first - 1)

\* Compaction replaces a nonempty prefix that splits no message and no tool
\* call from its result by one summary.
Compactions(t) ==
    {<<RowOf(UNION {t[i].runs : i \in 1..k}, 0, "summary")>> \o SubSeq(t, k + 1, Len(t))
        : k \in {k \in 1..Len(t) :
                    k < Len(t) => t[k + 1].kind \notin {"call", "result"}}}

\* The thread still tells the model about the prompt of run r.
Tells(t, r) ==
    \E i \in 1..Len(t) : t[i].whole /\ t[i].kind \in {"prompt", "summary"} /\ r \in t[i].runs
=============================================================================
