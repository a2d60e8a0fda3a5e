------------------------------ MODULE Editing ------------------------------
(***************************************************************************)
(* The file tools of one run: edit_file, write_file and apply_patch, the   *)
(* multi-file transaction they commit through, the checkpoint each of them *)
(* takes first and checkpoint_rewind.                                      *)
(*                                                                         *)
(* A tool call never awaits, so calls of one run do not interleave.  But   *)
(* the workspace is shared with other processes (a background job, another *)
(* agent, an editor), every file-system call may fail, and the daemon may  *)
(* be killed: a step of this specification is the code between two points  *)
(* where that matters.  pc names the step to come:                         *)
(*                                                                         *)
(*   "idle"     no call                                                    *)
(*   "capture"  CheckpointStore.create                                     *)
(*   "check"    the first _assert_current                                  *)
(*   "stage"    writing the temporary files                                *)
(*   "recheck"  the second _assert_current; edit_file's hash check         *)
(*   "swap"     edit_file: os.replace of the file                          *)
(*   "sync"     edit_file: fsync of the directory                          *)
(*   "commit"   the loop over the files: move aside, install               *)
(*   "rollback" _rollback                                                  *)
(*   "cleanup"  deleting the backups and fsync after a complete commit     *)
(*   "finally"  the finally block                                          *)
(*   "settle"   discarding the checkpoint, or marking it rewound           *)
(*   "dead"     the daemon was killed inside the call                      *)
(*                                                                         *)
(* Not modelled: directories that are created and removed on the way, file *)
(* modes, the size and encoding limits, and blobs, whose names are the     *)
(* hashes of their contents: a checkpoint holds the old contents itself.   *)
(***************************************************************************)
EXTENDS Naturals, Sequences, FiniteSets, SequencesExt

CONSTANTS
    Files,       \* paths inside the workspace
    Contents,    \* what a file may hold
    Absent,      \* there is no such file
    InitDisk,    \* the workspace when the run begins
    MaxCalls,    \* bound: tool calls of the run
    MaxMishaps   \* bound: writes of other processes, failing calls and kills

ASSUME DataAssumption ==
    /\ Absent \notin Contents /\ IsFiniteSet(Files)
    /\ InitDisk \in [Files -> Contents \cup {Absent}]
    /\ MaxCalls \in Nat /\ MaxMishaps \in Nat

VARIABLES
    disk,       \* what each path holds
    backup,     \* the .bak file of each path, Absent if there is none
    staged,     \* paths with a .tmp file
    cps,        \* the checkpoint manifests, oldest first
    pc,         \* see above
    call,       \* the tool call: its mutations, checkpoint and result
    at,         \* index of the mutation being committed or rolled back
    installed,  \* state.installed
    stuck,      \* paths _rollback reported an error for
    prior,      \* history: what each path would hold without this call
    late,       \* history: paths changed by others since the last check
    clean,      \* history: nothing happened that cuts the chain of undos
    calls,      \* calls so far
    mishaps     \* mishaps so far

fsVars == <<disk, backup, staged>>
commitVars == <<at, installed, stuck>>
histVars == <<prior, late, clean>>
boundVars == <<calls, mishaps>>
vars == <<fsVars, cps, pc, call, commitVars, histVars, boundVars>>

States == Contents \cup {Absent}
NoBackup == [f \in Files |-> Absent]
NoCall == [tool |-> "none", muts |-> <<>>, cp |-> 0, result |-> "none"]

Mutation(f, c) == [file |-> f, before |-> disk[f], after |-> c]
Mutations == [file : Files, before : States, after : States]
Tools == {"none", "edit_file", "write_file", "apply_patch", "checkpoint_rewind"}
Results == {"none", "ok", "concurrent_change", "commit_failed", "rollback_failed",
            "rewind_conflict", "os_error"}

Muts == ToSet(call.muts)
Mut == call.muts[at]

\* A file-system call fails, another process writes, or the daemon is killed.
Mishap == mishaps < MaxMishaps /\ mishaps' = mishaps + 1
NoMishap == UNCHANGED mishaps

-----------------------------------------------------------------------------
(* What a call sets out to change.                                          *)

EditPlans ==
    {<<Mutation(f, c)>> : f \in {g \in Files : disk[g] # Absent}, c \in Contents}

WritePlans == {<<Mutation(f, c)>> : f \in Files, c \in Contents}

\* The files of a patch, each once and in the patch's order: added, modified
\* or deleted.
PatchPlans ==
    {[i \in DOMAIN s |-> Mutation(s[i], to[s[i]])] :
        s \in SetToAllKPermutations(Files) \ {<<>>}, to \in [Files -> States]}

Changing(plans) == {p \in plans : \A i \in DOMAIN p : p[i].before # p[i].after}

(* A checkpoint restores a file that holds what its call wrote, leaves one  *)
(* that holds the old content, and refuses any other.                       *)

Conflicted(d, c) == \E e \in ToSet(c.files) : d[e.file] \notin {e.before, e.after}

\* The one plan: the files that changed, in the order of the manifest.
RewindPlans(c) ==
    LET changed == {i \in DOMAIN c.files : disk[c.files[i].file] # c.files[i].before}
        orders == {q \in [1..Cardinality(changed) -> changed] :
                      \A j, k \in DOMAIN q : j < k => q[j] < q[k]}
    IN  {[k \in DOMAIN q |-> Mutation(c.files[q[k]].file, c.files[q[k]].before)] : q \in orders}

\* Variant for mutation: the oldest one.
OldestReady ==
    {i \in DOMAIN cps : cps[i].status = "ready"
                        /\ \A j \in 1..(i - 1) : cps[j].status # "ready"}

LatestReady ==
    {i \in DOMAIN cps : cps[i].status = "ready"
                        /\ \A j \in (i + 1)..Len(cps) : cps[j].status # "ready"}

-----------------------------------------------------------------------------
Init ==
    /\ disk = InitDisk /\ backup = NoBackup /\ staged = {}
    /\ cps = <<>>
    /\ pc = "idle" /\ call = NoCall
    /\ at = 0 /\ installed = {} /\ stuck = {}
    /\ prior = disk /\ late = {} /\ clean = TRUE
    /\ calls = 0 /\ mishaps = 0

Goto(p) == pc' = p
Result(r) == call' = [call EXCEPT !.result = r]

\* The tool reads the files and works out their new contents.
Begin ==
    /\ pc = "idle" /\ calls < MaxCalls /\ calls' = calls + 1
    /\ \/ \E p \in Changing(EditPlans) :
             call' = [NoCall EXCEPT !.tool = "edit_file", !.muts = p]
       \/ \E p \in WritePlans :
             call' = [NoCall EXCEPT !.tool = "write_file", !.muts = p]
       \/ \E p \in Changing(PatchPlans) :
             call' = [NoCall EXCEPT !.tool = "apply_patch", !.muts = p]
    /\ Goto("capture")
    /\ UNCHANGED <<fsVars, cps, commitVars, histVars, mishaps>>

\* checkpoint_rewind, of the latest ready checkpoint or of any named one.  The
\* chain of undos is promised to the former only.
BeginRewind ==
    /\ pc = "idle" /\ calls < MaxCalls /\ calls' = calls + 1
    /\ \E i \in DOMAIN cps : \E p \in RewindPlans(cps[i]) :
          /\ call' = [tool |-> "checkpoint_rewind", muts |-> p, cp |-> i,
                      result |-> IF Conflicted(disk, cps[i]) THEN "rewind_conflict"
                                 ELSE IF p = <<>> THEN "ok" ELSE "none"]
          /\ Goto(IF call'.result = "none" THEN "check" ELSE "settle")
          /\ clean' = (clean /\ i \in LatestReady)
    /\ UNCHANGED <<fsVars, cps, commitVars, prior, late, mishaps>>

\* Variant for mutation: the files are not compared with what was read.
TrustedCurrent == TRUE

\* _assert_current; the comparison in create; the hash check of edit_file.
Current == \A m \in Muts : disk[m.file] = m.before

\* CheckpointStore.create compares, then writes the blobs and the manifest.
Capture ==
    /\ pc = "capture"
    /\ \/ /\ Current /\ NoMishap
          /\ cps' = Append(cps, [files |-> call.muts, status |-> "ready"])
          /\ call' = [call EXCEPT !.cp = Len(cps) + 1]
          /\ Goto(IF call.tool = "edit_file" THEN "stage" ELSE "check")
       \/ /\ ~Current /\ NoMishap
          /\ Result("concurrent_change") /\ Goto("settle") /\ UNCHANGED cps
       \/ /\ Mishap
          /\ Result("os_error") /\ Goto("settle") /\ UNCHANGED cps
    /\ UNCHANGED <<fsVars, commitVars, histVars, calls>>

\* The first _assert_current, before the try.
Check ==
    /\ pc = "check"
    /\ \/ Current /\ Goto("stage") /\ UNCHANGED call
       \/ ~Current /\ Result("concurrent_change") /\ Goto("settle")
    /\ UNCHANGED <<fsVars, cps, commitVars, histVars, boundVars>>

\* A temporary file beside each path that gets new content.
Stage ==
    /\ pc = "stage"
    /\ \/ /\ NoMishap /\ Goto("recheck") /\ UNCHANGED call
          /\ staged' = {m.file : m \in {n \in Muts : n.after # Absent}}
       \/ /\ Mishap /\ Result("os_error") /\ Goto("finally") /\ UNCHANGED staged
    /\ UNCHANGED <<disk, backup, cps, commitVars, histVars, calls>>

Recheck ==
    /\ pc = "recheck"
    /\ \/ /\ Current /\ UNCHANGED call
          /\ Goto(IF call.tool = "edit_file" THEN "swap" ELSE "commit")
       \/ ~Current /\ Result("concurrent_change") /\ Goto("finally")
    /\ at' = 1
    /\ UNCHANGED <<fsVars, cps, installed, stuck, histVars, boundVars>>

-----------------------------------------------------------------------------
(* edit_file: atomic_write_bytes                                            *)

Swap ==
    /\ pc = "swap"
    /\ \/ /\ NoMishap /\ Goto("sync") /\ UNCHANGED call
          /\ disk' = [disk EXCEPT ![Mut.file] = Mut.after]
          /\ staged' = {}
       \/ /\ Mishap /\ Result("os_error") /\ Goto("finally") /\ UNCHANGED <<disk, staged>>
    /\ UNCHANGED <<backup, cps, commitVars, histVars, calls>>

Sync ==
    /\ pc = "sync" /\ Goto("settle")
    /\ \/ NoMishap /\ Result("ok")
       \/ Mishap /\ Result("os_error")
    /\ UNCHANGED <<fsVars, cps, commitVars, histVars, calls>>

-----------------------------------------------------------------------------
(* apply_file_transaction: the commit loop                                  *)

Advance ==
    IF at < Len(call.muts) THEN at' = at + 1 /\ UNCHANGED pc
    ELSE UNCHANGED at /\ Goto("cleanup")

Moved(m) == m.before = Absent \/ backup[m.file] # Absent

\* Variant for mutation: the file is deleted, not moved.
DeletedBackup(m) == Absent

MovedBackup(m) == disk[m.file]

\* os.replace(path, backup); it fails by itself if the path has gone.
MoveAside ==
    /\ pc = "commit" /\ ~Moved(Mut)
    /\ \/ /\ NoMishap /\ disk[Mut.file] # Absent
          /\ backup' = [backup EXCEPT ![Mut.file] = MovedBackup(Mut)]
          /\ disk' = [disk EXCEPT ![Mut.file] = Absent]
          /\ IF Mut.after = Absent THEN Advance ELSE UNCHANGED <<at, pc>>
       \/ /\ (disk[Mut.file] = Absent /\ NoMishap) \/ Mishap
          /\ Goto("rollback") /\ UNCHANGED <<disk, backup, at>>
    /\ UNCHANGED <<staged, cps, call, installed, stuck, histVars, calls>>

\* os.replace(staged, path)
Install ==
    /\ pc = "commit" /\ Moved(Mut)
    /\ \/ /\ NoMishap /\ Advance
          /\ disk' = [disk EXCEPT ![Mut.file] = Mut.after]
          /\ staged' = staged \ {Mut.file}
          /\ installed' = installed \cup {Mut.file}
       \/ /\ Mishap /\ Goto("rollback")
          /\ UNCHANGED <<disk, staged, at, installed>>
    /\ UNCHANGED <<backup, cps, call, stuck, histVars, calls>>

(* _rollback, from the file that failed back to the first: an installed     *)
(* file is removed, then its backup is moved back.                          *)

\* Variant for mutation: only installed files are put back.
NeedsRestoreInstalled(m) == m.file \in installed /\ backup[m.file] # Absent

NeedsRestore(m) == backup[m.file] # Absent

Unlinked(m) == IF m.file \in installed THEN Absent ELSE disk[m.file]

Rollback ==
    /\ pc = "rollback"
    /\ \/ /\ NoMishap /\ UNCHANGED stuck
          /\ installed' = installed \ {Mut.file}
          /\ IF NeedsRestore(Mut)
             THEN /\ disk' = [disk EXCEPT ![Mut.file] = backup[Mut.file]]
                  /\ backup' = [backup EXCEPT ![Mut.file] = Absent]
             ELSE disk' = [disk EXCEPT ![Mut.file] = Unlinked(Mut)] /\ UNCHANGED backup
       \/ /\ Mishap /\ Mut.file \in installed           \* unlink fails
          /\ stuck' = stuck \cup {Mut.file} /\ UNCHANGED <<disk, backup, installed>>
       \/ /\ Mishap /\ backup[Mut.file] # Absent        \* os.replace fails
          /\ stuck' = stuck \cup {Mut.file} /\ UNCHANGED backup
          /\ disk' = [disk EXCEPT ![Mut.file] = Unlinked(Mut)]
          /\ installed' = installed \ {Mut.file}
    /\ IF at > 1 THEN at' = at - 1 /\ UNCHANGED <<pc, call>>
       ELSE /\ UNCHANGED at /\ Goto("finally")
            /\ Result(IF stuck' = {} THEN "commit_failed" ELSE "rollback_failed")
    /\ UNCHANGED <<staged, cps, histVars, calls>>

\* Deleting a backup or the fsync may fail when every file is in place.
Cleanup ==
    /\ pc = "cleanup"
    /\ \/ NoMishap /\ backup' = NoBackup /\ Result("ok") /\ Goto("settle")
       \/ Mishap /\ UNCHANGED backup /\ Result("os_error") /\ Goto("finally")
    /\ UNCHANGED <<disk, staged, cps, commitVars, histVars, calls>>

\* Every temporary file and every backup that is left is deleted.  An error
\* here takes the place of the one that is propagating; edit_file ignores it.
Finally ==
    /\ pc = "finally" /\ Goto("settle")
    /\ \/ NoMishap /\ staged' = {} /\ backup' = NoBackup /\ UNCHANGED call
       \/ /\ Mishap /\ UNCHANGED <<staged, backup>>
          /\ IF call.tool = "edit_file" THEN UNCHANGED call ELSE Result("os_error")
    /\ UNCHANGED <<disk, cps, commitVars, histVars, calls>>

-----------------------------------------------------------------------------
\* A call that failed discards its checkpoint; discard ignores errors.  A
\* rewind marks its checkpoint; if that fails the files stay restored.
SettleCheckpoints ==
    \/ /\ call.tool = "checkpoint_rewind" /\ call.result = "ok"
       /\ \/ NoMishap /\ cps' = [cps EXCEPT ![call.cp].status = "rewound"]
          \/ Mishap /\ UNCHANGED cps
    \/ /\ call.tool # "checkpoint_rewind" /\ call.result # "ok" /\ call.cp # 0
       /\ \/ NoMishap /\ cps' = Front(cps)
          \/ Mishap /\ UNCHANGED cps
    \/ /\ \/ call.tool = "checkpoint_rewind" /\ call.result # "ok"
          \/ call.tool # "checkpoint_rewind" /\ (call.result = "ok" \/ call.cp = 0)
       /\ NoMishap /\ UNCHANGED cps

\* The call ends: the variables of the call are reset.
EndCall ==
    /\ Goto("idle") /\ call' = NoCall
    /\ staged' = {} /\ backup' = NoBackup
    /\ at' = 0 /\ installed' = {} /\ stuck' = {} /\ late' = {}
    /\ prior' = disk

\* No file is left with something its checkpoint does not know.
InKnownState == \A m \in Muts : disk[m.file] \in {m.before, m.after}

Settle ==
    /\ pc = "settle" /\ SettleCheckpoints /\ EndCall
    /\ clean' = (/\ clean
                 /\ call.result \in {"ok", "rewind_conflict"} \/ InKnownState
                 /\ Len(cps') < Len(cps) => Current)
    /\ UNCHANGED <<disk, calls>>

-----------------------------------------------------------------------------
\* Another process writes, creates or deletes a file.
OutsideWrite ==
    /\ Mishap
    /\ \E f \in Files, c \in States :
          /\ c # disk[f]
          /\ disk' = [disk EXCEPT ![f] = c]
          /\ prior' = [prior EXCEPT ![f] = c]
          /\ late' = IF pc \in {"swap", "sync", "commit", "rollback", "cleanup", "finally"}
                     THEN late \cup {f} ELSE late
    /\ clean' = FALSE
    /\ UNCHANGED <<backup, staged, cps, pc, call, commitVars, calls>>

\* The daemon is killed inside a call.
Kill ==
    /\ pc \notin {"idle", "dead"} /\ Mishap /\ Goto("dead")
    /\ clean' = (clean /\ InKnownState)
    /\ UNCHANGED <<fsVars, cps, call, commitVars, prior, late, calls>>

\* A store is opened on what the kill left.  Files with random names that
\* nothing reads are forgotten.
Reopen ==
    /\ pc = "dead" /\ EndCall
    /\ UNCHANGED <<disk, cps, clean, boundVars>>

Next ==
    \/ Begin \/ BeginRewind \/ Capture \/ Check \/ Stage \/ Recheck
    \/ Swap \/ Sync \/ MoveAside \/ Install \/ Rollback \/ Cleanup \/ Finally
    \/ Settle \/ OutsideWrite \/ Kill \/ Reopen

Spec == Init /\ [][Next]_vars

-----------------------------------------------------------------------------
(* Properties                                                               *)

Phases == {"idle", "capture", "check", "stage", "recheck", "swap", "sync", "commit",
           "rollback", "cleanup", "finally", "settle", "dead"}

\* Every variable has its type; the index and the checkpoint of a call exist.
TypeOK ==
    /\ disk \in [Files -> States] /\ backup \in [Files -> States]
    /\ staged \subseteq Files /\ installed \subseteq Files
    /\ stuck \subseteq Files /\ late \subseteq Files
    /\ cps \in Seq([files : Seq(Mutations), status : {"ready", "rewound"}])
    /\ pc \in Phases
    /\ call \in [tool : Tools, muts : Seq(Mutations), cp : 0..Len(cps), result : Results]
    /\ at \in 0..Len(call.muts)
    /\ prior \in [Files -> States] /\ clean \in BOOLEAN
    /\ calls \in 0..MaxCalls /\ mishaps \in 0..MaxMishaps

\* A transaction that reports concurrent_change or commit_failed has changed
\* nothing: each of its files holds what it would hold without the call.  Only
\* what another process writes after the last check is not covered.
AllOrNothing ==
    pc = "settle" /\ call.result \in {"concurrent_change", "commit_failed"} =>
        \A m \in Muts : m.file \notin late => disk[m.file] = prior[m.file]

\* At every moment, a kill at that moment included, a file of the call either
\* has its new content or its old content is on the disk, in the file or in
\* its backup, unless the roll-back of that file failed.
NothingLost ==
    \A m \in Muts :
        m.file \in late \cup stuck \/ disk[m.file] = m.after
        \/ prior[m.file] \in {disk[m.file], backup[m.file]}

\* The old content of f that a checkpoint holds.
Names(c, f) == \E e \in ToSet(c.files) : e.file = f
Before(c, f) == (CHOOSE e \in ToSet(c.files) : e.file = f).before

Undo(c, d) ==
    IF c.status = "rewound" \/ Conflicted(d, c) THEN d
    ELSE [f \in Files |-> IF Names(c, f) THEN Before(c, f) ELSE d[f]]

\* The workspace w after the checkpoints of s from the latest to the i-th are undone:
\* a file holds what the first of them that is ready and names it found there.
Naming(s, i, f) == {j \in i..Len(s) : s[j].status = "ready" /\ Names(s[j], f)}
Unwound(s, i, w) ==
    [f \in Files |-> LET js == Naming(s, i, f) IN
                     IF js = {} THEN w[f] ELSE Before(s[Min(js)], f)]

\* Rewinding the ready checkpoints one by one from the latest brings back the
\* workspace the run started with: none of them is refused, and Unwound(cps, i, disk)
\* is what is left when the i-th is done.  Whatever calls failed or were killed on
\* the way, as long as no other process wrote, no checkpoint was rewound out of
\* turn, and no failure left a file in a state no checkpoint knows.
UndoChain ==
    pc = "idle" /\ clean =>
        /\ \A i \in DOMAIN cps :
              Unwound(cps, i, disk) = Undo(cps[i], Unwound(cps, i + 1, disk))
        /\ Unwound(cps, 1, disk) = InitDisk

\* A call replaces only what it has read: a content another process wrote is
\* overwritten or moved away only if it was written after the last check.
OverwritesOnlyRead ==
    [][\A f \in Files :
          (disk'[f] # disk[f] /\ pc \in {"swap", "commit"}) =>
              \/ f \in late'
              \/ disk[f] = prior[f] /\ \E m \in Muts : m.file = f /\ m.before = prior[f]
              \/ backup[f] # Absent]_vars

\* The error of a failed roll-back tells the user where the backup of the file
\* is preserved: when the call returns, the old content is still there.
BackupPreserved ==
    pc = "settle" /\ call.result = "rollback_failed" =>
        \A f \in stuck \ late : prior[f] \in {disk[f], backup[f]}
=============================================================================
