----------------------------- MODULE TaskBoard -----------------------------
(***************************************************************************)
(* The task list of a run (core/task/manager.py and the five task tools).  *)
(* The run and its subagents share one TaskManager over one directory with *)
(* a JSON file per task.  Every method is synchronous, so a call is one    *)
(* step of the event loop; what can go wrong lies in the sequence of calls *)
(* (tasks reopened, dependencies added to any task, the same task claimed  *)
(* twice) and in a write that fails halfway through a call that rewrites   *)
(* several files.                                                          *)
(***************************************************************************)
EXTENDS Naturals, FiniteSets

CONSTANTS
    Owners,       \* the names agents claim tasks under
    MaxTasks,     \* bound on the tasks created
    MaxUpdates,   \* bound on the calls of update
    MaxFailures   \* bound on the writes that fail

ASSUME BoardAssumption ==
    /\ Owners # {}
    /\ MaxTasks \in Nat \ {0}
    /\ MaxUpdates \in Nat
    /\ MaxFailures \in Nat

VARIABLES
    file,       \* what the file of each task id holds
    nextId,     \* _next_id
    updates, failures,   \* counters of the bounds
    declared,   \* history: the dependencies declared for a task and not taken back
    reported,   \* history: the tasks somebody has reported as completed
    tangled     \* history: a task was made to wait for itself or a younger one

boardVars == <<file, nextId, updates, failures, declared, reported, tangled>>

Ids == 1 .. MaxTasks
Status == {"pending", "in_progress", "completed"}
NoOwner == "nobody"
Absent == [status |-> "absent"]      \* there is no such file
Torn == [status |-> "torn"]          \* a write failed: the file is not JSON

Task == [status : Status, blocked : SUBSET Ids, owner : Owners \cup {NoOwner}]

Exists(t) == file[t] # Absent
Readable(t) == file[t] \in Task
Completed(t) == Readable(t) /\ file[t].status = "completed"
Incomplete == {t \in Ids : Readable(t) /\ ~Completed(t)}

----------------------------------------------------------------------------
(* What the methods accept and what they write.                            *)

\* Variant for mutation: claim does not look at the dependencies
ClaimableUnchecked(t) ==
    /\ Readable(t)
    /\ file[t].status = "pending"
    /\ file[t].owner = NoOwner

\* claim: pending, without an owner, and every dependency still listed is a
\* readable, completed task
Claimable(t) ==
    /\ Readable(t)
    /\ file[t].status = "pending"
    /\ file[t].owner = NoOwner
    /\ \A d \in file[t].blocked : Completed(d)

\* _clear_dependency: the files that list t as a dependency, t's own included
Listing(t) == {u \in Ids : Readable(u) /\ t \in file[u].blocked}

Cleared(f, t, us) == [u \in Ids |-> IF u \in us THEN [f[u] EXCEPT !.blocked = @ \ {t}]
                                               ELSE f[u]]

\* update works on the copy of the task it loaded first
Updated(t, status, add, remove) ==
    [file[t] EXCEPT !.status = IF status = "keep" THEN @ ELSE status,
                    !.blocked = (@ \cup add) \ remove]

\* the files after update: the others are cleared, then the copy is written
AfterUpdate(t, status, add, remove) ==
    [Cleared(file, t, IF status = "completed" THEN Listing(t) ELSE {})
        EXCEPT ![t] = Updated(t, status, add, remove)]

\* the files a failing update leaves: some files are cleared, the next one is
\* torn; or all are cleared and the task's own file is torn
FilesAfterFailure(t, status) ==
    LET todo == IF status = "completed" THEN Listing(t) ELSE {}
        next(us) == IF us = todo THEN {t} ELSE todo \ us
    IN  UNION {{[Cleared(file, t, us) EXCEPT ![v] = Torn] : v \in next(us)} :
                  us \in SUBSET todo}

----------------------------------------------------------------------------
BoardInit ==
    /\ file = [t \in Ids |-> Absent]
    /\ nextId = 1
    /\ updates = 0 /\ failures = 0
    /\ declared = [t \in Ids |-> {}]
    /\ reported = {}
    /\ tangled = FALSE

\* task_create: dependencies have to exist, whether or not they can be read
Create(deps) ==
    /\ nextId \in Ids
    /\ \A d \in deps : Exists(d)
    /\ \/ /\ file' = [file EXCEPT ![nextId] =
                        [status |-> "pending", blocked |-> deps, owner |-> NoOwner]]
          /\ nextId' = nextId + 1
          /\ declared' = [declared EXCEPT ![nextId] = deps]
          /\ UNCHANGED failures
       \/ /\ failures < MaxFailures
          /\ failures' = failures + 1
          /\ file' = [file EXCEPT ![nextId] = Torn]
          /\ UNCHANGED <<nextId, declared>>
    /\ tangled' = (tangled \/ \E d \in deps : d >= nextId)
    /\ UNCHANGED <<updates, reported>>

\* task_claim
Claim(t, o) ==
    /\ Claimable(t)
    /\ \/ /\ file' = [file EXCEPT ![t].status = "in_progress", ![t].owner = o]
          /\ UNCHANGED failures
       \/ /\ failures < MaxFailures
          /\ failures' = failures + 1
          /\ file' = [file EXCEPT ![t] = Torn]
    /\ UNCHANGED <<nextId, updates, declared, reported, tangled>>

\* task_update: no check of the new status against the old one, of the owner,
\* or of the dependencies added
Update(t, status, add, remove) ==
    /\ updates < MaxUpdates
    /\ updates' = updates + 1
    /\ Readable(t)
    /\ \/ /\ file' = AfterUpdate(t, status, add, remove)
          /\ declared' = [declared EXCEPT ![t] = (@ \cup add) \ remove]
          /\ UNCHANGED failures
       \/ /\ failures < MaxFailures
          /\ failures' = failures + 1
          /\ file' \in FilesAfterFailure(t, status)
          /\ UNCHANGED declared
    /\ reported' = reported \cup (IF status = "completed" THEN {t} ELSE {})
    /\ tangled' = (tangled \/ \E d \in add \ remove : d >= t)
    /\ UNCHANGED nextId

\* one dependency added or removed per call, alone or with the completion of
\* the task; other calls are the sum of several of these
UpdateSome(t) ==
    \E status \in Status \cup {"keep"}, add, remove \in SUBSET Ids :
        /\ \/ add = {} /\ remove = {} /\ status # "keep"
           \/ /\ status \in {"keep", "completed"}
              /\ Cardinality(add) + Cardinality(remove) = 1
        /\ Update(t, status, add, remove)

BoardNext ==
    \/ \E deps \in SUBSET Ids : Create(deps)
    \/ \E t \in Ids : \/ \E o \in Owners : Claim(t, o)
                      \/ UpdateSome(t)

BoardSpec == BoardInit /\ [][BoardNext]_boardVars

----------------------------------------------------------------------------
\* The shape of the files and the counters.
BoardTypeOK ==
    /\ file \in [Ids -> Task \cup {Absent, Torn}]
    /\ nextId \in 1 .. MaxTasks + 1
    /\ updates \in 0 .. MaxUpdates /\ failures \in 0 .. MaxFailures
    /\ declared \in [Ids -> SUBSET Ids]
    /\ reported \subseteq Ids
    /\ tangled \in BOOLEAN

\* A task is claimed only after every dependency declared for it and not taken
\* back has been reported completed, whatever was reopened, cleared from lists
\* or lost in a failed write before (manager.py:86 claim, 116 completion).
ClaimInOrder ==
    [][\A t \in Ids : (/\ Readable(t) /\ file'[t] \in Task
                       /\ file[t].owner = NoOwner /\ file'[t].owner # NoOwner)
                      => declared[t] \subseteq reported]_boardVars

\* While every task waits for older tasks only and every file can be read, a
\* board with open tasks has one to work on: one can be claimed, or one is
\* owned or in progress (manager.py:86, 119).
NeverStuck ==
    (~tangled /\ (\A t \in Ids : file[t] # Torn) /\ Incomplete # {})
        => \E t \in Incomplete : \/ Claimable(t)
                                 \/ file[t].owner # NoOwner
                                 \/ file[t].status = "in_progress"
=============================================================================
