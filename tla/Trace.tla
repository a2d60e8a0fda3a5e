------------------------------- MODULE Trace --------------------------------
(***************************************************************************)
(* TraceWriter (trace/writer.py): a queue, the task that drains it into    *)
(* daemon.jsonl, and the rotation of that file into numbered backups.      *)
(* Emitting is synchronous and never waits; what is queued is written when *)
(* the event loop comes to it, and lost when the daemon is killed before.  *)
(* ModelCall composes the writer with the calls that are traced.           *)
(***************************************************************************)
EXTENDS Naturals, Sequences, SequencesExt

CONSTANTS
    Backups,     \* backup_count
    MaxRecords,  \* bound: records emitted
    MaxFaults    \* bound: kills and failing writes

ASSUME TraceAssumption == Backups \in Nat /\ MaxRecords \in Nat /\ MaxFaults \in Nat

VARIABLES
    emitted,     \* records so far: a record is its number
    queue,       \* the asyncio queue
    unfinished,  \* its records without task_done
    writer,      \* the drain task: "runs", "dead" (it raised) or "none"
    files,       \* the lines of daemon.jsonl (0) and of its backups (1 ..)
    torn,        \* daemon.jsonl ends inside a line
    stop,        \* TraceWriter.stop: "no", "joining", "over" or "raised"
    faults,      \* counter of the bound
    lost,        \* history: records that no reader will see
    late         \* history: a record was emitted after the drain task died

fileVars == <<files, torn>>
traceVars == <<emitted, queue, unfinished, writer, files, torn, stop, faults, lost, late>>

Missing == <<>>   \* no such file, or an empty one: a reader sees no difference

TraceInit ==
    /\ emitted = 0 /\ queue = <<>> /\ unfinished = 0
    /\ writer = "runs" /\ stop = "no"
    /\ files = [i \in 0 .. Backups |-> Missing] /\ torn = FALSE
    /\ faults = 0 /\ lost = {} /\ late = FALSE

\* k records, one after the other and without waiting.
Emit(k) ==
    /\ emitted + k <= MaxRecords
    /\ emitted' = emitted + k
    /\ queue' = queue \o [i \in 1 .. k |-> emitted + i]
    /\ unfinished' = unfinished + k
    /\ late' = (late \/ (k > 0 /\ writer # "runs"))
    /\ UNCHANGED <<writer, files, torn, stop, faults, lost>>

-----------------------------------------------------------------------------
(* Rotation.                                                               *)

\* The files after the oldest backup is deleted and `moves` files, from the
\* oldest on, have got the next number; a kill or an error may come between
\* any two of these calls, moves = Backups is the whole rotation.
Rotated(f, moves) ==
    [i \in 0 .. Backups |-> IF i > Backups - moves THEN f[i - 1]
                            ELSE IF i = Backups - moves THEN Missing ELSE f[i]]

\* The next record would exceed max_bytes: records have any size, and a file
\* that holds nothing is never rotated.
MayBeFull == files[0] # Missing \/ torn

-----------------------------------------------------------------------------
(* The drain task.                                                         *)

\* One record is written; behind a torn line it cannot be read.
Write ==
    /\ writer = "runs" /\ queue # <<>>
    /\ \E full \in {FALSE, MayBeFull} :
          LET f == IF full THEN Rotated(files, Backups) ELSE files
              glued == torn /\ ~full
          IN /\ files' = IF glued THEN f ELSE [f EXCEPT ![0] = Append(@, Head(queue))]
             /\ lost' = IF glued THEN lost \cup {Head(queue)} ELSE lost
    /\ torn' = FALSE
    /\ queue' = Tail(queue) /\ unfinished' = unfinished - 1
    /\ UNCHANGED <<emitted, writer, stop, faults, late>>

\* What a kill or an error can leave of the files while a record is written.
HalfWritten ==
    \/ UNCHANGED fileVars
    \/ torn' = TRUE /\ UNCHANGED files
    \/ MayBeFull /\ \E m \in 0 .. Backups :
          files' = Rotated(files, m) /\ torn' \in (IF m < Backups THEN {torn} ELSE BOOLEAN)

\* Variant for mutation: the records still queued are not accounted for.
KeptWaiting == unfinished' = unfinished - 1

\* The queue is emptied, so that nobody waits for it.
Abandoned == unfinished' = unfinished - Len(queue)

\* A call of the rotation or the write raises: the task ends with the exception.
WriteFails ==
    /\ writer = "runs" /\ queue # <<>> /\ faults < MaxFaults
    /\ faults' = faults + 1
    /\ HalfWritten
    /\ writer' = "dead"
    /\ lost' = lost \cup Range(queue)
    /\ queue' = <<>> /\ Abandoned
    /\ UNCHANGED <<emitted, stop, late>>

-----------------------------------------------------------------------------
(* The life of the daemon, as far as the trace sees it.                    *)

Stop ==
    /\ stop = "no" /\ stop' = "joining"
    /\ UNCHANGED <<emitted, queue, unfinished, writer, files, torn, faults, lost, late>>

\* join returns; the task is cancelled, or its exception comes out here
Stopped ==
    /\ stop = "joining" /\ unfinished = 0
    /\ stop' = IF writer = "dead" THEN "raised" ELSE "over"
    /\ writer' = "none"
    /\ UNCHANGED <<emitted, queue, unfinished, files, torn, faults, lost, late>>

Kill ==
    /\ stop \in {"no", "joining"} /\ faults < MaxFaults
    /\ faults' = faults + 1
    /\ IF writer = "runs" /\ queue # <<>> THEN HalfWritten ELSE UNCHANGED fileVars
    /\ stop' = "over" /\ writer' = "none"
    /\ lost' = lost \cup Range(queue)
    /\ queue' = <<>> /\ unfinished' = 0
    /\ UNCHANGED <<emitted, late>>

\* Variant for mutation: the file is opened for writing, not for appending.
StartAnew ==
    /\ stop \in {"over", "raised"}
    /\ stop' = "no" /\ writer' = "runs" /\ late' = FALSE
    /\ files' = [files EXCEPT ![0] = Missing] /\ torn' = FALSE
    /\ UNCHANGED <<emitted, queue, unfinished, faults, lost>>

\* A new daemon appends to the file it finds.
Start ==
    /\ stop \in {"over", "raised"}
    /\ stop' = "no" /\ writer' = "runs" /\ late' = FALSE
    /\ UNCHANGED <<emitted, queue, unfinished, files, torn, faults, lost>>

-----------------------------------------------------------------------------
(* What the trace promises.                                                *)

TraceTypeOK ==
    /\ emitted \in 0 .. MaxRecords
    /\ queue \in Seq(1 .. MaxRecords) /\ unfinished \in 0 .. MaxRecords
    /\ writer \in {"runs", "dead", "none"} /\ stop \in {"no", "joining", "over", "raised"}
    /\ files \in [0 .. Backups -> Seq(1 .. MaxRecords)] /\ torn \in BOOLEAN
    /\ faults \in 0 .. MaxFaults /\ lost \subseteq 1 .. MaxRecords /\ late \in BOOLEAN

\* The records in files f, and their order from the oldest backup on.
RecordsOf(f) == UNION {Range(f[i]) : i \in 0 .. Backups}

Sorted(f) ==
    /\ \A i \in 0 .. Backups : \A m, n \in DOMAIN f[i] : m < n => f[i][m] < f[i][n]
    /\ \A new, old \in 0 .. Backups : new < old =>
          \A r \in Range(f[new]), q \in Range(f[old]) : q < r

\* Read from the oldest backup to the file itself, the trace is in the order of
\* emission and has no gap: between its first record and the last one emitted,
\* a record that is missing is still queued, or was lost with the process or the
\* task that was to write it, or follows a line that was. So it is whatever
\* call a rotation was interrupted at (_rotate, _drain).
TraceInOrder ==
    /\ Sorted(files)
    /\ \A r \in RecordsOf(files) :
          r .. emitted \subseteq RecordsOf(files) \cup Range(queue) \cup lost

\* TraceWriter.stop, the last thing the daemon's shutdown waits for, ends, also
\* when the drain task died with records queued. It does not when a record is
\* emitted after that: nobody accounts for it.
StopEnds == stop = "joining" ~> (stop # "joining" \/ late)
=============================================================================
