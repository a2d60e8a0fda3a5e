----------------------------- MODULE EditingProofs -----------------------------
(***************************************************************************)
(* What the transaction of the file tools promises, for any files and      *)
(* contents, any number of calls and any mishaps: types, all or nothing,   *)
(* nothing lost, that only what was read is overwritten, and that rewinds  *)
(* lead back to where the run began.                                       *)
(***************************************************************************)
EXTENDS Editing, FiniteSetTheorems, SequenceTheorems, WellFoundedInduction, TLAPS

Fresh == {"capture", "check", "stage", "recheck"}
Written == {"swap", "sync", "commit", "rollback", "cleanup", "finally"}

\* A plan names each file once.
OneEach(s) == \A i, j \in DOMAIN s : s[i].file = s[j].file => i = j

Plans == OneEach(call.muts) /\ \A i \in DOMAIN cps : OneEach(cps[i].files)

\* Nothing is moved, installed or late.
Quiet == backup = NoBackup /\ installed = {} /\ stuck = {} /\ late = {} /\ prior = disk

\* What a phase knows of the call.
Calling ==
    /\ pc = "idle" => call.muts = <<>> /\ Quiet
    /\ pc \in Fresh => Quiet
    /\ pc \in Fresh \cup Written => Len(call.muts) > 0
    /\ pc \in (Fresh \cup Written) \ {"finally"} => call.result = "none"
    /\ pc \in Written \ {"finally"} => at > 0
    /\ call.tool = "edit_file" => Len(call.muts) = 1
    /\ pc \in {"swap", "sync"} =>
         call.tool = "edit_file" /\ at = 1 /\ installed = {} /\ backup = NoBackup
    /\ pc \in Written \ {"rollback", "finally"} => stuck = {}
    /\ pc \in {"finally", "settle"} /\ call.result = "commit_failed" => stuck = {}

\* What was read is what a file would hold without the call.
ReadRight ==
    pc \in Written \ {"finally"} => \A m \in Muts : m.file \notin late => prior[m.file] = m.before

\* A file that the transaction alone has touched: it is where the backup and the
\* list of installed files say.
Tracked(m) ==
    IF backup[m.file] # Absent
    THEN /\ backup[m.file] = prior[m.file]
         /\ disk[m.file] = IF m.file \in installed THEN m.after ELSE Absent
    ELSE IF m.file \in installed THEN prior[m.file] = Absent /\ disk[m.file] = m.after
    ELSE disk[m.file] = prior[m.file]

Untouched(f) == f \notin installed /\ backup[f] = Absent

Done(m) == m.file \in installed \/ (m.after = Absent /\ backup[m.file] # Absent)

\* The files of the transaction, up to the one that is being worked on and beyond.
Commits ==
    /\ pc \in {"commit", "rollback"} =>
         /\ \A m \in Muts : m.file \notin late \cup stuck => Tracked(m)
         /\ \A i \in DOMAIN call.muts :
              i > at /\ call.muts[i].file \notin stuck => Untouched(call.muts[i].file)
    /\ pc = "commit" =>
         /\ Mut.file \notin installed
         /\ \A i \in DOMAIN call.muts : i < at => Done(call.muts[i])

\* What the files hold in the phases before and after the commit.
Holds ==
    /\ pc = "swap" => \A m \in Muts : m.file \notin late => disk[m.file] = prior[m.file]
    /\ pc \in {"sync", "cleanup"} =>
         \A m \in Muts : m.file \notin late => disk[m.file] = m.after
    /\ pc = "finally" => \A m \in Muts : m.file \notin late \cup stuck =>
         disk[m.file] \in {m.after, prior[m.file]}
    /\ pc \in {"finally", "settle"} /\ call.result \in {"concurrent_change", "commit_failed"} =>
         \A m \in Muts : m.file \notin late => disk[m.file] = prior[m.file]
    /\ pc \in {"settle", "dead"} => NothingLost

IInv == TypeOK /\ Plans /\ Calling /\ ReadRight /\ Commits /\ Holds
-----------------------------------------------------------------------------
(* Plans                                                                    *)

\* What a checkpoint store holds.
Manifests == [files : Seq(Mutations), status : {"ready", "rewound"}]

\* A list of mutations of different files.
Plan(p) == p \in Seq(Mutations) /\ OneEach(p)

\* What edit_file and write_file set out to do.
LEMMA SinglePlans ==
    ASSUME TypeOK, NEW p \in EditPlans \cup WritePlans
    PROVE  Plan(p) /\ Len(p) = 1
<1>1. PICK f \in Files, c \in Contents : p = <<Mutation(f, c)>>
  BY DEF EditPlans, WritePlans
<1>2. Mutation(f, c) \in Mutations
  BY DEF Mutation, Mutations, States, TypeOK
<1>3. p \in Seq(Mutations) /\ Len(p) = 1
  BY <1>1, <1>2
<1>4. OneEach(p)
  BY <1>3 DEF OneEach
<1> QED
  BY <1>3, <1>4 DEF Plan

\* What a patch sets out to do.
LEMMA PatchPlanned ==
    ASSUME TypeOK, NEW p \in PatchPlans
    PROVE  Plan(p) /\ Len(p) > 0
<1>1. PICK s \in SetToAllKPermutations(Files) \ {<<>>}, to \in [Files -> States] :
        p = [i \in DOMAIN s |-> Mutation(s[i], to[s[i]])]
  BY DEF PatchPlans
<1>2. PICK S \in SUBSET Files : s \in SetToSeqs(S)
  BY <1>1 DEF SetToAllKPermutations
<1> DEFINE n == Cardinality(S)
<1>3. n \in Nat
  BY DataAssumption, FS_Subset, FS_CardinalityType
<1>4. s \in [1..n -> S] /\ \A i, j \in 1..n : i # j => s[i] # s[j]
  BY <1>2 DEF SetToSeqs
<1> HIDE DEF n
<1>5. n > 0
  <2> SUFFICES ASSUME n = 0 PROVE s = <<>>
    BY <1>1, <1>3
  <2> QED BY <1>4
<1>6. DOMAIN p = 1..n /\ \A i \in 1..n : p[i] = Mutation(s[i], to[s[i]])
  BY <1>1, <1>4
<1>7. \A i \in 1..n : s[i] \in Files /\ p[i] \in Mutations /\ p[i].file = s[i]
  <2> SUFFICES ASSUME NEW i \in 1..n PROVE s[i] \in Files /\ p[i] \in Mutations /\ p[i].file = s[i]
    OBVIOUS
  <2>1. s[i] \in Files
    BY <1>4
  <2>2. disk[s[i]] \in States /\ to[s[i]] \in States
    BY <1>1, <2>1 DEF TypeOK
  <2> QED BY <1>6, <2>1, <2>2 DEF Mutation, Mutations
<1>8. p \in Seq(Mutations) /\ Len(p) = n
  <2>1. p = [i \in 1..n |-> p[i]]
    BY <1>1, <1>4
  <2> QED BY <1>3, <1>6, <1>7, <2>1
<1>9. OneEach(p)
  BY <1>4, <1>6, <1>7 DEF OneEach
<1> QED
  BY <1>5, <1>8, <1>9 DEF Plan

\* p restores the files of list that differ from it: q finds the place of each.
RewindOf(list, p, n, q) ==
    /\ n \in Nat /\ q \in [1..n -> DOMAIN list]
    /\ \A j, k \in 1..n : q[j] = q[k] => j = k
    /\ \A k \in DOMAIN list : disk[list[k].file] # list[k].before => \E j \in 1..n : q[j] = k
    /\ p = [k \in 1..n |-> p[k]]
    /\ \A k \in 1..n : p[k] = Mutation(list[q[k]].file, list[q[k]].before)

\* The plan of a rewind lists, in order, the files that differ from the checkpoint.
LEMMA RewindOrder ==
    ASSUME TypeOK, NEW i \in DOMAIN cps, NEW p \in RewindPlans(cps[i])
    PROVE  cps[i].files \in Seq(Mutations) /\ \E n, q : RewindOf(cps[i].files, p, n, q)
<1> DEFINE list == cps[i].files
           changed == {k \in DOMAIN list : disk[list[k].file] # list[k].before}
           n == Cardinality(changed)
<1>1. list \in Seq(Mutations)
  <2>1. cps \in Seq(Manifests)
    BY DEF TypeOK, Manifests
  <2>2. cps[i] \in Manifests
    BY <2>1
  <2> QED BY <2>2 DEF Manifests
<1>2. IsFiniteSet(changed) /\ n \in Nat
  <2>1. Len(list) \in Nat /\ DOMAIN list = 1..Len(list)
    BY <1>1
  <2>2. changed \in SUBSET (1..Len(list))
    BY <2>1
  <2> HIDE DEF changed
  <2>3. IsFiniteSet(1..Len(list))
    BY <2>1, FS_Interval
  <2> QED BY <2>2, <2>3, FS_Subset, FS_CardinalityType
<1>3. PICK q \in [1..n -> changed] :
        /\ \A j, k \in DOMAIN q : j < k => q[j] < q[k]
        /\ p = [k \in DOMAIN q |-> Mutation(list[q[k]].file, list[q[k]].before)]
  BY DEF RewindPlans
<1>4. changed \subseteq DOMAIN list /\ DOMAIN list \subseteq Nat
  BY <1>1
<1>5. \A k \in DOMAIN list : disk[list[k].file] # list[k].before => k \in changed
  OBVIOUS
<1> HIDE DEF n, changed
<1>6. \A j, k \in 1..n : q[j] = q[k] => j = k
  <2> SUFFICES ASSUME NEW j \in 1..n, NEW k \in 1..n, q[j] = q[k] PROVE j = k
    OBVIOUS
  <2>1. q[j] \in Nat /\ q[k] \in Nat
    BY <1>3, <1>4
  <2>2. ~(j < k) /\ ~(k < j)
    BY <1>2, <1>3, <2>1, SMTT(30)
  <2> QED BY <1>2, <2>2
<1>7. \A k \in changed : \E j \in 1..n : q[j] = k
  <2>1. q \in Injection(1..n, changed)
    BY <1>3, <1>6 DEF Injection, IsInjective
  <2>2. Cardinality(1..n) = n
    BY <1>2, FS_Interval
  <2>3. q \in Surjection(1..n, changed)
    BY <1>2, <2>1, <2>2, FS_Injection DEF n
  <2> QED BY <2>3 DEF Surjection
<1>8. q \in [1..n -> DOMAIN list]
  BY <1>3, <1>4
<1>9. /\ p = [k \in 1..n |-> p[k]]
      /\ \A k \in 1..n : p[k] = Mutation(list[q[k]].file, list[q[k]].before)
  BY <1>3
<1> HIDE DEF list
<1>10. RewindOf(list, p, n, q)
  BY <1>2, <1>5, <1>6, <1>7, <1>8, <1>9 DEF RewindOf
<1> QED
  BY <1>1, <1>10 DEF list

\* What a rewind sets out to do.
LEMMA RewindPlanned ==
    ASSUME TypeOK, NEW i \in DOMAIN cps, OneEach(cps[i].files), NEW p \in RewindPlans(cps[i])
    PROVE  Plan(p)
<1> DEFINE list == cps[i].files
<1>1. list \in Seq(Mutations) /\ OneEach(list)
  BY RewindOrder
<1>2. PICK n, q : RewindOf(list, p, n, q)
  BY RewindOrder
<1> HIDE DEF list
<1> USE DEF RewindOf
<1>3. \A k \in 1..n : p[k] \in Mutations /\ p[k].file = list[q[k]].file /\ q[k] \in DOMAIN list
  <2> SUFFICES ASSUME NEW k \in 1..n
               PROVE  p[k] \in Mutations /\ p[k].file = list[q[k]].file /\ q[k] \in DOMAIN list
    OBVIOUS
  <2>1. q[k] \in DOMAIN list
    BY <1>2
  <2>2. list[q[k]] \in Mutations
    BY <1>1, <2>1
  <2>3. list[q[k]].file \in Files /\ list[q[k]].before \in States
    BY <2>2 DEF Mutations
  <2>4. disk[list[q[k]].file] \in States
    BY <2>3 DEF TypeOK
  <2> QED BY <1>2, <2>1, <2>3, <2>4 DEF Mutation, Mutations
<1>4. p \in Seq(Mutations)
  <2>1. n \in Nat /\ p = [k \in 1..n |-> p[k]]
    BY <1>2
  <2> QED BY <1>3, <2>1, SMTT(30)
<1>5. OneEach(p)
  <2>1. \A j, k \in 1..n : p[j].file = p[k].file => q[j] = q[k]
    BY <1>1, <1>3 DEF OneEach
  <2>2. DOMAIN p = 1..n
    BY <1>2
  <2> QED BY <1>2, <2>1, <2>2 DEF OneEach
<1> QED
  BY <1>4, <1>5 DEF Plan

\* The run begins.
LEMMA InitInv == Init => IInv
<1> SUFFICES ASSUME Init PROVE IInv
  OBVIOUS
<1>1. TypeOK
  BY DataAssumption DEF Init, TypeOK, NoCall, NoBackup, States, Tools, Results, Phases
<1>2. Plans /\ Calling /\ ReadRight /\ Commits /\ Holds
  BY DEF Init, Plans, OneEach, Calling, Quiet, NoCall, Fresh, Written, ReadRight, Commits, Holds
<1> QED
  BY <1>1, <1>2 DEF IInv

\* The mutations of a call.
LEMMA MutsFacts ==
    ASSUME TypeOK
    PROVE  /\ \A m \in Muts : /\ m \in Mutations /\ m.file \in Files
                              /\ m.before \in States /\ m.after \in States
           /\ \A m \in Muts : \E i \in DOMAIN call.muts : m = call.muts[i]
           /\ \A i \in DOMAIN call.muts : call.muts[i] \in Muts
           /\ DOMAIN call.muts = 1..Len(call.muts) /\ Len(call.muts) \in Nat
<1>1. call.muts \in Seq(Mutations)
  BY DEF TypeOK
<1>2. DOMAIN call.muts = 1..Len(call.muts) /\ Len(call.muts) \in Nat
  BY <1>1
<1>3. \A i \in DOMAIN call.muts : call.muts[i] \in Mutations
  BY <1>1
<1>4. Muts = {call.muts[i] : i \in DOMAIN call.muts}
  BY DEF Muts, ToSet
<1> QED
  BY <1>2, <1>3, <1>4 DEF Mutations

\* The mutation that is being worked on.
LEMMA MutFacts ==
    ASSUME TypeOK, at > 0
    PROVE  /\ at \in DOMAIN call.muts
           /\ Mut \in Mutations /\ Mut \in Muts
           /\ Mut.file \in Files /\ Mut.before \in States /\ Mut.after \in States
<1>1. at \in DOMAIN call.muts
  BY MutsFacts DEF TypeOK
<1> QED
  BY <1>1, MutsFacts DEF Mut

\* Tracked, Done and Untouched speak of the file of a mutation alone.
LEMMA SameFile ==
    ASSUME NEW m, disk'[m.file] = disk[m.file], backup'[m.file] = backup[m.file],
           prior'[m.file] = prior[m.file], (m.file \in installed') <=> (m.file \in installed)
    PROVE  /\ Tracked(m) => Tracked(m)'
           /\ Done(m) => Done(m)'
           /\ Untouched(m.file) => Untouched(m.file)'
  BY DEF Tracked, Done, Untouched

\* The mutations of a call are of different files.
LEMMA OtherFiles ==
    ASSUME TypeOK, Plans, at > 0
    PROVE  /\ \A i \in DOMAIN call.muts : i # at => call.muts[i].file # Mut.file
           /\ \A x \in Muts : x # Mut => x.file # Mut.file
<1>1. at \in DOMAIN call.muts
  BY MutFacts
<1>2. \A i \in DOMAIN call.muts : i # at => call.muts[i].file # Mut.file
  BY <1>1 DEF Plans, OneEach, Mut
<1> QED
  BY <1>1, <1>2, MutsFacts DEF Mut

\* A step of the commit loop changes one file, and what it leaves there is known.
LEMMA CommitStep ==
    ASSUME IInv, pc = "commit", Muts' = Muts, call'.muts = call.muts,
           stuck' = stuck, late' = late, prior' = prior, NEW m, m = Mut,
           \A g \in Files : g # m.file =>
              /\ disk'[g] = disk[g] /\ backup'[g] = backup[g]
              /\ (g \in installed') <=> (g \in installed),
           m.file \notin late => Tracked(m)',
           \/ at' = at /\ pc' = "commit" /\ m.file \notin installed'
           \/ at' = at /\ pc' = "rollback"
           \/ /\ Done(m)'
              /\ \/ at < Len(call.muts) /\ at' = at + 1 /\ pc' = "commit"
                 \/ at = Len(call.muts) /\ at' = at /\ pc' = "cleanup"
    PROVE  /\ Commits'
           /\ pc' = "cleanup" => \A x \in Muts : x.file \notin late => disk'[x.file] = x.after
<1> USE DEF IInv
<1>1. /\ at \in DOMAIN call.muts /\ at \in Nat /\ at > 0 /\ stuck = {} /\ m = call.muts[at]
      /\ DOMAIN call.muts = 1..Len(call.muts) /\ Len(call.muts) \in Nat
      /\ \A i \in DOMAIN call.muts : call.muts[i] \in Muts
      /\ \A x \in Muts : x.file \in Files
      /\ \A x \in Muts : \E i \in DOMAIN call.muts : x = call.muts[i]
  BY MutFacts, MutsFacts DEF Calling, Written, Mut
<1>2. /\ \A i \in DOMAIN call.muts : i # at => call.muts[i].file # m.file
      /\ \A x \in Muts : x # m => x.file # m.file
  BY <1>1, OtherFiles
<1>3. \A x \in Muts : x # m =>
        /\ Tracked(x) => Tracked(x)'
        /\ Done(x) => Done(x)'
        /\ Untouched(x.file) => Untouched(x.file)'
  BY <1>1, <1>2, SameFile
<1>4. \A x \in Muts : x.file \notin late => Tracked(x)'
  BY <1>1, <1>3 DEF Commits
<1>5. \A i \in DOMAIN call.muts : i > at => Untouched(call.muts[i].file)'
  BY <1>1, <1>2, <1>3 DEF Commits
<1>6. \A i \in DOMAIN call.muts : i < at => Done(call.muts[i])'
  BY <1>1, <1>2, <1>3 DEF Commits
<1>7. CASE at' = at /\ pc' = "commit" /\ m.file \notin installed'
  <2>1. Mut' = m
    BY <1>1, <1>7 DEF Mut
  <2> QED BY <1>1, <1>4, <1>5, <1>6, <1>7, <2>1 DEF Commits
<1>8. CASE at' = at /\ pc' = "rollback"
  BY <1>1, <1>4, <1>5, <1>8 DEF Commits
<1>9. CASE Done(m)' /\ at < Len(call.muts) /\ at' = at + 1 /\ pc' = "commit"
  <2>1. at + 1 \in DOMAIN call.muts /\ at + 1 > at
    BY <1>1, <1>9
  <2>2. Mut' = call.muts[at + 1]
    BY <1>9 DEF Mut
  <2>3. Mut'.file \notin installed'
    BY <1>5, <2>1, <2>2 DEF Untouched
  <2>4. \A i \in DOMAIN call.muts : i < at + 1 => Done(call.muts[i])'
    <3>1. \A i \in DOMAIN call.muts : i < at + 1 => i < at \/ i = at
      BY <1>1
    <3> QED BY <1>1, <1>6, <1>9, <3>1
  <2>5. \A i \in DOMAIN call.muts : i > at + 1 => Untouched(call.muts[i].file)'
    BY <1>1, <1>5
  <2> QED BY <1>1, <1>4, <1>9, <2>3, <2>4, <2>5 DEF Commits
<1>10. CASE Done(m)' /\ at = Len(call.muts) /\ at' = at /\ pc' = "cleanup"
  <2>1. \A i \in DOMAIN call.muts : Done(call.muts[i])'
    <3>1. \A i \in DOMAIN call.muts : i < at \/ i = at
      BY <1>1, <1>10
    <3> QED BY <1>1, <1>6, <1>10, <3>1
  <2>2. \A x \in Muts : x.file \notin late => Tracked(x)' /\ Done(x)'
    BY <1>1, <1>4, <2>1
  <2>3. \A x \in Muts : x.file \notin late => disk'[x.file] = x.after
    BY <2>2 DEF Tracked, Done
  <2> QED BY <1>10, <2>3 DEF Commits
<1> QED
  BY <1>7, <1>8, <1>9, <1>10

\* In every phase a file has its new content, or the old one is somewhere.
LEMMA NeverLost == IInv => NothingLost
<1> SUFFICES ASSUME IInv, NEW m \in Muts, m.file \notin late \cup stuck
             PROVE  disk[m.file] = m.after \/ prior[m.file] \in {disk[m.file], backup[m.file]}
  BY DEF NothingLost
<1> USE DEF IInv
<1>1. CASE pc = "idle"
  <2>1. \E i \in DOMAIN call.muts : m = call.muts[i]
    BY MutsFacts
  <2> QED BY <1>1, <2>1 DEF Calling
<1>2. CASE pc \in Fresh
  BY <1>2 DEF Calling, Quiet
<1>3. CASE pc \in {"swap", "sync", "cleanup", "finally"}
  BY <1>3 DEF Holds
<1>4. CASE pc \in {"commit", "rollback"}
  BY <1>4 DEF Commits, Tracked
<1>5. CASE pc \in {"settle", "dead"}
  BY <1>5 DEF Holds, NothingLost
<1> QED
  BY <1>1, <1>2, <1>3, <1>4, <1>5 DEF TypeOK, Phases, Fresh
-----------------------------------------------------------------------------
(* The invariant is inductive                                               *)

\* A tool call begins.
LEMMA BeginKeeps == IInv /\ Begin => IInv'
<1> SUFFICES ASSUME IInv, Begin PROVE IInv'
  OBVIOUS
<1> USE DEF IInv
<1>1. PICK tool \in Tools, p \in Seq(Mutations) :
        /\ OneEach(p) /\ Len(p) > 0 /\ (tool = "edit_file" => Len(p) = 1)
        /\ call' = [tool |-> tool, muts |-> p, cp |-> 0, result |-> "none"]
  <2>1. CASE \E p \in Changing(EditPlans) :
               call' = [NoCall EXCEPT !.tool = "edit_file", !.muts = p]
    <3>1. PICK p \in EditPlans : call' = [NoCall EXCEPT !.tool = "edit_file", !.muts = p]
      BY <2>1 DEF Changing
    <3>2. call' = [tool |-> "edit_file", muts |-> p, cp |-> 0, result |-> "none"]
      BY <3>1 DEF NoCall
    <3>3. p \in Seq(Mutations) /\ OneEach(p) /\ Len(p) = 1 /\ Len(p) > 0
      BY SinglePlans DEF Plan
    <3> QED BY <3>2, <3>3 DEF Tools
  <2>2. CASE \E p \in WritePlans : call' = [NoCall EXCEPT !.tool = "write_file", !.muts = p]
    <3>1. PICK p \in WritePlans : call' = [NoCall EXCEPT !.tool = "write_file", !.muts = p]
      BY <2>2
    <3>2. call' = [tool |-> "write_file", muts |-> p, cp |-> 0, result |-> "none"]
      BY <3>1 DEF NoCall
    <3>3. p \in Seq(Mutations) /\ OneEach(p) /\ Len(p) = 1 /\ Len(p) > 0
      BY SinglePlans DEF Plan
    <3> QED BY <3>2, <3>3 DEF Tools
  <2>3. CASE \E p \in Changing(PatchPlans) :
               call' = [NoCall EXCEPT !.tool = "apply_patch", !.muts = p]
    <3>1. PICK p \in PatchPlans : call' = [NoCall EXCEPT !.tool = "apply_patch", !.muts = p]
      BY <2>3 DEF Changing
    <3>2. call' = [tool |-> "apply_patch", muts |-> p, cp |-> 0, result |-> "none"]
      BY <3>1 DEF NoCall
    <3> QED BY <3>2, PatchPlanned DEF Plan, Tools
  <2> QED BY <2>1, <2>2, <2>3 DEF Begin
<1>2. call'.muts = p /\ call'.tool = tool /\ call'.cp = 0 /\ call'.result = "none"
  BY <1>1
<1>3. /\ pc = "idle" /\ pc' = "capture" /\ calls' \in 0..MaxCalls
      /\ UNCHANGED <<disk, backup, staged, cps, at, installed, stuck, prior, late, clean, mishaps>>
  <2>1. calls \in 0..MaxCalls /\ MaxCalls \in Nat
    BY DataAssumption DEF TypeOK
  <2>2. calls < MaxCalls /\ calls' = calls + 1 /\ pc = "idle" /\ pc' = "capture"
    BY DEF Begin, Goto
  <2>3. calls' \in 0..MaxCalls
    BY <2>1, <2>2
  <2> QED BY <2>2, <2>3 DEF Begin, fsVars, commitVars, histVars
<1>4. TypeOK'
  <2>1. Len(cps) \in Nat /\ Len(p) \in Nat
    BY <1>1
  <2>2. call' \in [tool : Tools, muts : Seq(Mutations), cp : 0..Len(cps), result : Results]
    BY <1>1, <2>1 DEF Results
  <2>3. at \in 0..Len(p)
    BY <1>3, <2>1 DEF TypeOK, Calling
  <2> QED BY <1>2, <1>3, <2>2, <2>3 DEF TypeOK, Phases
<1>5. Plans'
  BY <1>1, <1>2, <1>3 DEF Plans
<1>6. Calling'
  BY <1>1, <1>2, <1>3 DEF Calling, Quiet, Written
<1>7. ReadRight'
  BY <1>3 DEF ReadRight, Written
<1>8. Commits'
  BY <1>3 DEF Commits
<1>9. Holds'
  BY <1>3 DEF Holds
<1> QED
  BY <1>4, <1>5, <1>6, <1>7, <1>8, <1>9

\* A rewind begins.
LEMMA BeginRewindKeeps == IInv /\ BeginRewind => IInv'
<1> SUFFICES ASSUME IInv, BeginRewind PROVE IInv'
  OBVIOUS
<1> USE DEF IInv
<1>1. PICK i, p :
        /\ i \in DOMAIN cps /\ p \in RewindPlans(cps[i])
        /\ call' = [tool |-> "checkpoint_rewind", muts |-> p, cp |-> i,
                    result |-> IF Conflicted(disk, cps[i]) THEN "rewind_conflict"
                               ELSE IF p = <<>> THEN "ok" ELSE "none"]
        /\ pc' = IF call'.result = "none" THEN "check" ELSE "settle"
        /\ clean' = (clean /\ i \in LatestReady)
  BY DEF BeginRewind, Goto
<1>2. /\ call'.muts = p /\ call'.tool = "checkpoint_rewind" /\ call'.cp = i
      /\ call'.result \in {"rewind_conflict", "ok", "none"}
      /\ p = <<>> => call'.result # "none"
      /\ call' \in [tool : {"checkpoint_rewind"}, muts : {p}, cp : {i},
                    result : {"rewind_conflict", "ok", "none"}]
  BY <1>1
<1>3. p \in Seq(Mutations) /\ OneEach(p)
  BY <1>1, RewindPlanned DEF Plans, Plan
<1>4. pc = "idle" /\ UNCHANGED <<disk, backup, staged, cps, at, installed, stuck, prior, late,
                                 mishaps>>
  BY DEF BeginRewind, fsVars, commitVars
<1>5. calls' \in 0..MaxCalls
  <2>1. calls \in 0..MaxCalls /\ MaxCalls \in Nat
    BY DataAssumption DEF TypeOK
  <2>2. calls < MaxCalls /\ calls' = calls + 1
    BY DEF BeginRewind
  <2> QED BY <2>1, <2>2
<1>6. TypeOK'
  <2>1. Len(p) \in Nat /\ i \in 0..Len(cps)
    BY <1>1, <1>3
  <2>2. call' \in [tool : Tools, muts : Seq(Mutations), cp : 0..Len(cps), result : Results]
    BY <1>2, <1>3, <2>1 DEF Tools, Results
  <2>3. at \in 0..Len(p)
    BY <1>4, <2>1 DEF TypeOK, Calling
  <2>4. pc' \in Phases /\ clean' \in BOOLEAN
    BY <1>1 DEF Phases
  <2> QED BY <1>2, <1>4, <1>5, <2>2, <2>3, <2>4 DEF TypeOK
<1>7. Plans'
  BY <1>2, <1>3, <1>4 DEF Plans
<1>8. Calling'
  <2>1. pc' = "check" => Len(p) > 0 /\ call'.result = "none"
    BY <1>1, <1>2, <1>3
  <2>2. pc' \in {"check", "settle"}
    BY <1>1
  <2> QED BY <1>2, <1>4, <2>1, <2>2 DEF Calling, Quiet, Fresh, Written
<1>9. ReadRight'
  <2>1. pc' \in {"check", "settle"}
    BY <1>1
  <2> QED BY <2>1 DEF ReadRight, Written
<1>10. Commits'
  <2>1. pc' \in {"check", "settle"}
    BY <1>1
  <2> QED BY <2>1 DEF Commits
<1>11. Holds'
  <2>1. pc' \in {"check", "settle"} /\ prior' = disk'
    BY <1>1, <1>4 DEF Calling, Quiet
  <2> QED BY <1>2, <2>1 DEF Holds, NothingLost
<1> QED
  BY <1>6, <1>7, <1>8, <1>9, <1>10, <1>11

\* The checkpoint is taken.
LEMMA CaptureKeeps == IInv /\ Capture => IInv'
<1> SUFFICES ASSUME IInv, Capture PROVE IInv'
  OBVIOUS
<1> USE DEF IInv
<1>1. /\ pc = "capture" /\ call'.muts = call.muts /\ call'.tool = call.tool
      /\ UNCHANGED <<disk, backup, staged, at, installed, stuck, prior, late, clean, calls>>
  BY DEF Capture, Result, TypeOK, fsVars, commitVars, histVars
<1>2. \/ /\ cps' = Append(cps, [files |-> call.muts, status |-> "ready"])
         /\ call' = [call EXCEPT !.cp = Len(cps) + 1]
         /\ pc' \in {"stage", "check"}
      \/ /\ cps' = cps /\ pc' = "settle"
         /\ \E r \in {"concurrent_change", "os_error"} : call' = [call EXCEPT !.result = r]
  BY DEF Capture, Result, Goto
<1>3. mishaps' \in 0..MaxMishaps
  BY DataAssumption DEF Capture, Mishap, NoMishap, TypeOK
<1>4. /\ cps \in Seq(Manifests)
      /\ call.muts \in Seq(Mutations) /\ Len(cps) \in Nat /\ call.result = "none"
  BY <1>1 DEF TypeOK, Calling, Fresh, Manifests
<1>5. /\ cps' \in Seq(Manifests)
      /\ call' \in [tool : Tools, muts : Seq(Mutations), cp : 0..Len(cps'), result : Results]
  <2>1. CASE cps' = Append(cps, [files |-> call.muts, status |-> "ready"])
              /\ call' = [call EXCEPT !.cp = Len(cps) + 1]
    <3>1. [files |-> call.muts, status |-> "ready"] \in Manifests
      BY <1>4 DEF Manifests
    <3>2. cps' \in Seq(Manifests) /\ Len(cps') = Len(cps) + 1
      BY <1>4, <2>1, <3>1
    <3>3. call' \in [tool : Tools, muts : Seq(Mutations), cp : {Len(cps) + 1}, result : Results]
      BY <2>1 DEF TypeOK
    <3>4. Len(cps) + 1 \in 0..Len(cps')
      BY <1>4, <3>2
    <3>5. call' \in [tool : Tools, muts : Seq(Mutations), cp : 0..Len(cps'), result : Results]
      BY <3>3, <3>4
    <3> QED BY <3>2, <3>5
  <2>2. CASE cps' = cps
        /\ \E r \in {"concurrent_change", "os_error"} : call' = [call EXCEPT !.result = r]
    <3>1. call' \in [tool : Tools, muts : Seq(Mutations), cp : 0..Len(cps), result : Results]
      BY <2>2 DEF TypeOK, Results
    <3> QED BY <1>4, <2>2, <3>1
  <2> QED BY <1>2, <2>1, <2>2
<1>6. TypeOK'
  <2>4. pc' \in Phases
    BY <1>2 DEF Phases
  <2> QED BY <1>1, <1>3, <1>5, <2>4 DEF TypeOK, Manifests
<1>7. Plans'
  <2>1. CASE cps' = cps
    BY <1>1, <2>1 DEF Plans
  <2>2. CASE cps' = Append(cps, [files |-> call.muts, status |-> "ready"])
    <3>1. \A i \in DOMAIN cps' : (i \in DOMAIN cps /\ cps'[i] = cps[i]) \/ cps'[i].files = call.muts
      BY <1>4, <2>2
    <3> QED BY <1>1, <3>1 DEF Plans
  <2> QED BY <1>2, <2>1, <2>2
<1>8. Calling'
  <2>1. /\ pc' \in {"stage", "check", "settle"}
        /\ pc' \in {"stage", "check"} => call'.result = "none"
        /\ pc' = "settle" => call'.result # "commit_failed"
    BY <1>2, <1>4 DEF TypeOK
  <2> QED BY <1>1, <2>1 DEF Calling, Quiet, Fresh, Written
<1>9. ReadRight'
  BY <1>2 DEF ReadRight, Written
<1>10. Commits'
  BY <1>2 DEF Commits
<1>11. Holds'
  <2>1. pc' \in {"stage", "check", "settle"} /\ prior' = disk'
    BY <1>1, <1>2 DEF Calling, Quiet, Fresh
  <2> QED BY <1>1, <2>1 DEF Holds, NothingLost
<1> QED
  BY <1>6, <1>7, <1>8, <1>9, <1>10, <1>11

\* The files are compared with what was read.
LEMMA CheckKeeps == IInv /\ Check => IInv'
<1> SUFFICES ASSUME IInv, Check PROVE IInv'
  OBVIOUS
<1> USE DEF IInv
<1>1. /\ cps' = cps /\ call'.muts = call.muts /\ call'.tool = call.tool
      /\ call'.result \in {"none", "concurrent_change"}
      /\ call' \in [tool : Tools, muts : Seq(Mutations), cp : 0..Len(cps), result : Results]
  BY DEF Check, Result, TypeOK, Results, Calling, Fresh
<1>2. Muts' = Muts
  BY <1>1 DEF Muts
<1>3. TypeOK'
  <2>1. UNCHANGED <<disk, backup, staged, installed, stuck, late, prior, clean, calls, mishaps, at>>
    BY DEF Check, fsVars, commitVars, histVars, boundVars
  <2>2. pc' \in Phases
    BY DEF Check, Goto, Phases
  <2> QED BY <1>1, <2>1, <2>2 DEF TypeOK
<1>4. Plans'
  BY <1>1 DEF Plans
<1>5. Calling'
  BY <1>1, <1>2 DEF Check, Calling, Quiet, Fresh, Written, Goto, fsVars, commitVars, histVars
<1>6. ReadRight'
  BY <1>1, <1>2 DEF Check, ReadRight, Written, Goto
<1>7. Commits'
  BY <1>1, <1>2 DEF Check, Commits, Goto
<1>8. Holds'
  BY <1>1, <1>2 DEF Check, Holds, NothingLost, Calling, Quiet, Fresh, Goto, fsVars, histVars
<1> QED
  BY <1>3, <1>4, <1>5, <1>6, <1>7, <1>8

\* The temporary files are written.
LEMMA StageKeeps == IInv /\ Stage => IInv'
<1> SUFFICES ASSUME IInv, Stage PROVE IInv'
  OBVIOUS
<1> USE DEF IInv
<1>1. /\ cps' = cps /\ call'.muts = call.muts /\ call'.tool = call.tool
      /\ call'.result \in {"none", "os_error"}
      /\ call' \in [tool : Tools, muts : Seq(Mutations), cp : 0..Len(cps), result : Results]
  BY DEF Stage, Result, TypeOK, Results, Calling, Fresh
<1>2. Muts' = Muts
  BY <1>1 DEF Muts
<1>3. TypeOK'
  <2>1. UNCHANGED <<disk, backup, installed, stuck, late, prior, clean, calls, at>>
    BY DEF Stage, commitVars, histVars
  <2>2. pc' \in Phases
    BY DEF Stage, Goto, Phases
  <2>3. mishaps' \in 0..MaxMishaps
    BY DataAssumption DEF Stage, Mishap, NoMishap, TypeOK
  <2>4. staged' \subseteq Files
    <3>1. \A m \in Muts : m.file \in Files
      BY MutsFacts
    <3> QED BY <3>1, SMTT(30) DEF Stage, TypeOK
  <2> QED BY <1>1, <2>1, <2>2, <2>3, <2>4 DEF TypeOK
<1>4. Plans'
  BY <1>1 DEF Plans
<1>5. Calling'
  BY <1>1, <1>2 DEF Stage, Calling, Quiet, Fresh, Written, Goto, commitVars, histVars
<1>6. ReadRight'
  BY <1>1, <1>2 DEF Stage, ReadRight, Written, Goto
<1>7. Commits'
  BY <1>1, <1>2 DEF Stage, Commits, Goto
<1>8. Holds'
  BY <1>1, <1>2 DEF Stage, Holds, Calling, Quiet, Fresh, Goto, histVars
<1> QED
  BY <1>3, <1>4, <1>5, <1>6, <1>7, <1>8

\* The files are compared again.
LEMMA RecheckKeeps == IInv /\ Recheck => IInv'
<1> SUFFICES ASSUME IInv, Recheck PROVE IInv'
  OBVIOUS
<1> USE DEF IInv
<1>1. /\ cps' = cps /\ call'.muts = call.muts /\ call'.tool = call.tool
      /\ call'.result \in {"none", "concurrent_change"}
      /\ call' \in [tool : Tools, muts : Seq(Mutations), cp : 0..Len(cps), result : Results]
  BY DEF Recheck, Result, TypeOK, Results, Calling, Fresh
<1>2. Muts' = Muts
  BY <1>1 DEF Muts
<1>3. TypeOK'
  <2>1. UNCHANGED <<disk, backup, staged, installed, stuck, late, prior, clean, calls, mishaps>>
    BY DEF Recheck, fsVars, histVars, boundVars
  <2>2. pc' \in Phases
    BY DEF Recheck, Goto, Phases
  <2>3. at' \in 0..Len(call.muts)
    BY DEF Recheck, Calling, Fresh
  <2> QED BY <1>1, <2>1, <2>2, <2>3 DEF TypeOK
<1>4. Plans'
  BY <1>1 DEF Plans
<1>5. Calling'
  BY <1>1, <1>2 DEF Recheck, Calling, Quiet, Fresh, Goto, fsVars
<1>6. ReadRight'
  BY <1>1, <1>2 DEF Recheck, Current, ReadRight, Calling, Fresh, Quiet, Goto, histVars
<1>7. Commits'
  <2>1. /\ pc' \in {"commit", "swap", "finally"} /\ at' = 1 /\ backup' = NoBackup
        /\ installed' = {} /\ disk' = prior' /\ Len(call.muts) > 0
    BY DEF Recheck, Goto, Calling, Quiet, Fresh, fsVars, histVars
  <2>2. \A m \in Muts : m.file \in Files
    BY MutsFacts
  <2>3. /\ \A i \in DOMAIN call.muts : call.muts[i] \in Muts /\ i \in Nat
        /\ DOMAIN call.muts = 1..Len(call.muts) /\ Len(call.muts) \in Nat
    BY MutsFacts
  <2>4. \A m \in Muts : Tracked(m)' /\ Untouched(m.file)'
    BY <2>1, <2>2 DEF Tracked, Untouched, NoBackup
  <2>5. \A i \in DOMAIN call.muts : ~(i < 1)
    BY <2>3
  <2> QED BY <1>1, <1>2, <2>1, <2>3, <2>4, <2>5 DEF Commits
<1>8. Holds'
  BY <1>1, <1>2 DEF Recheck, Holds, Calling, Quiet, Fresh, Goto, fsVars, histVars
<1> QED
  BY <1>3, <1>4, <1>5, <1>6, <1>7, <1>8

\* edit_file replaces the file.
LEMMA SwapKeeps == IInv /\ Swap => IInv'
<1> SUFFICES ASSUME IInv, Swap PROVE IInv'
  OBVIOUS
<1> USE DEF IInv
<1>1. /\ cps' = cps /\ call'.muts = call.muts /\ call'.tool = call.tool
      /\ call'.result \in {"none", "os_error"}
      /\ call' \in [tool : Tools, muts : Seq(Mutations), cp : 0..Len(cps), result : Results]
  BY DEF Swap, Result, TypeOK, Results, Calling, Written
<1>2. Muts' = Muts
  BY <1>1 DEF Muts
<1>3. TypeOK'
  <2>1. UNCHANGED <<backup, installed, stuck, late, prior, clean, calls, at>>
    BY DEF Swap, commitVars, histVars
  <2>2. pc' \in Phases
    BY DEF Swap, Goto, Phases
  <2>3. mishaps' \in 0..MaxMishaps
    BY DataAssumption DEF Swap, Mishap, NoMishap, TypeOK
  <2>4. disk' \in [Files -> States]
    <3>1. Mut \in Mutations
      BY MutFacts DEF Swap, Calling
    <3> QED BY <3>1 DEF Swap, Mutations, TypeOK
  <2>5. staged' \subseteq Files
    BY DEF Swap, TypeOK
  <2> QED BY <1>1, <2>1, <2>2, <2>3, <2>4, <2>5 DEF TypeOK
<1>4. Plans'
  BY <1>1 DEF Plans
<1>5. Calling'
  BY <1>1, <1>2 DEF Swap, Calling, Fresh, Written, Goto, commitVars
<1>6. ReadRight'
  BY <1>1, <1>2 DEF Swap, ReadRight, Written, histVars
<1>7. Commits'
  BY <1>1, <1>2 DEF Swap, Commits, Goto
<1>8. Holds'
  <2>1. Muts = {Mut} /\ Mut.file \in Files
    <3>1. at = 1 /\ Len(call.muts) = 1
      BY DEF Swap, Calling
    <3> QED BY <3>1, MutFacts, MutsFacts
  <2>2. pc = "swap" /\ pc' \in {"sync", "finally"} /\ prior' = prior /\ late' = late
        /\ stuck' = stuck
    BY DEF Swap, Goto, histVars, commitVars
  <2>3. pc' = "sync" => disk'[Mut.file] = Mut.after
    BY <2>1 DEF Swap, Goto, TypeOK
  <2>4. pc' = "finally" => disk' = disk /\ call'.result = "os_error"
    BY DEF Swap, Result, Goto, TypeOK
  <2> QED BY <1>2, <2>1, <2>2, <2>3, <2>4 DEF Holds
<1> QED
  BY <1>3, <1>4, <1>5, <1>6, <1>7, <1>8

\* The directory is synced.
LEMMA SyncKeeps == IInv /\ Sync => IInv'
<1> SUFFICES ASSUME IInv, Sync PROVE IInv'
  OBVIOUS
<1> USE DEF IInv
<1>1. /\ cps' = cps /\ call'.muts = call.muts /\ call'.tool = call.tool
      /\ call'.result \in {"ok", "os_error"}
      /\ call' \in [tool : Tools, muts : Seq(Mutations), cp : 0..Len(cps), result : Results]
  BY DEF Sync, Result, TypeOK, Results
<1>2. Muts' = Muts
  BY <1>1 DEF Muts
<1>3. TypeOK'
  <2>1. UNCHANGED <<disk, backup, staged, installed, stuck, late, prior, clean, calls, at>>
    BY DEF Sync, fsVars, commitVars, histVars
  <2>2. pc' \in Phases
    BY DEF Sync, Goto, Phases
  <2>3. mishaps' \in 0..MaxMishaps
    BY DataAssumption DEF Sync, Mishap, NoMishap, TypeOK
  <2> QED BY <1>1, <2>1, <2>2, <2>3 DEF TypeOK
<1>4. Plans'
  BY <1>1 DEF Plans
<1>5. Calling'
  BY <1>1, <1>2 DEF Sync, Calling, Fresh, Written, Goto
<1>6. ReadRight'
  BY <1>1, <1>2 DEF Sync, ReadRight, Written, Goto
<1>7. Commits'
  BY <1>1, <1>2 DEF Sync, Commits, Goto
<1>8. Holds'
  BY <1>1, <1>2 DEF Sync, Holds, NothingLost, Goto, fsVars, histVars
<1> QED
  BY <1>3, <1>4, <1>5, <1>6, <1>7, <1>8

\* A file is moved aside.
LEMMA MoveAsideKeeps == IInv /\ MoveAside => IInv'
<1> SUFFICES ASSUME IInv, MoveAside PROVE IInv'
  OBVIOUS
<1> USE DEF IInv
<1>1. /\ cps' = cps /\ call'.muts = call.muts /\ call'.tool = call.tool
      /\ call'.result \in {"none"}
      /\ call' \in [tool : Tools, muts : Seq(Mutations), cp : 0..Len(cps), result : Results]
  BY DEF MoveAside, TypeOK, Calling, Written
<1>2. Muts' = Muts
  BY <1>1 DEF Muts
<1>3. /\ pc = "commit" /\ at \in DOMAIN call.muts /\ Mut \in Muts /\ Mut.file \in Files
      /\ Mut.file \notin installed /\ stuck = {} /\ call.tool \in Tools
      /\ at \in 1..Len(call.muts) /\ Len(call.muts) \in Nat
  BY MutFacts, MutsFacts DEF MoveAside, Calling, Written, Commits, TypeOK
<1>4. UNCHANGED <<installed, stuck, prior, late>>
  BY DEF MoveAside, histVars
<1>5. PICK m : m = Mut
  OBVIOUS
<1>6. \/ at' = at /\ pc' = "commit" /\ m.file \notin installed'
      \/ at' = at /\ pc' = "rollback"
      \/ /\ Done(m)'
         /\ \/ at < Len(call.muts) /\ at' = at + 1 /\ pc' = "commit"
            \/ at = Len(call.muts) /\ at' = at /\ pc' = "cleanup"
  BY <1>3, <1>4, <1>5 DEF MoveAside, Advance, Goto, Done, MovedBackup, TypeOK
<1>7. \A g \in Files : g # m.file =>
        /\ disk'[g] = disk[g] /\ backup'[g] = backup[g]
        /\ (g \in installed') <=> (g \in installed)
  BY <1>3, <1>4, <1>5 DEF MoveAside, TypeOK
<1>8. m.file \notin late => Tracked(m)'
  <2>1. m.file \notin late => Tracked(m) /\ prior[m.file] = m.before
    BY <1>3, <1>5 DEF Commits, ReadRight, Written
  <2> QED BY <1>3, <1>4, <1>5, <2>1 DEF MoveAside, Tracked, MovedBackup, TypeOK
<1>9. Commits' /\ (pc' = "cleanup" => \A x \in Muts : x.file \notin late => disk'[x.file] = x.after)
  BY <1>1, <1>2, <1>3, <1>4, <1>5, <1>6, <1>7, <1>8, CommitStep
<1>10. pc' \in {"commit", "rollback", "cleanup"} /\ at' > 0
  BY <1>3, <1>6
<1>11. TypeOK'
  <2>1. UNCHANGED <<staged, installed, stuck, late, prior, clean, calls>>
    BY DEF MoveAside, histVars
  <2>2. pc' \in Phases
    BY DEF MoveAside, Goto, Phases, Advance
  <2>3. mishaps' \in 0..MaxMishaps
    BY DataAssumption DEF MoveAside, Mishap, NoMishap, TypeOK
  <2>4. at' \in 0..Len(call.muts)
    BY DEF MoveAside, Advance, TypeOK
  <2>5. disk' \in [Files -> States]
    BY DEF MoveAside, States, TypeOK
  <2>6. backup' \in [Files -> States]
    <3>1. Mut \in Mutations
      BY MutFacts DEF MoveAside, Calling, Written
    <3> QED BY <3>1 DEF MoveAside, MovedBackup, TypeOK
  <2> QED BY <1>1, <2>1, <2>2, <2>3, <2>4, <2>5, <2>6 DEF TypeOK
<1>12. Plans'
  BY <1>1 DEF Plans
<1>13. Calling'
  BY <1>1, <1>3, <1>4, <1>10 DEF Calling, Fresh
<1>14. ReadRight'
  BY <1>2, <1>3, <1>4, <1>10 DEF ReadRight, Written
<1>15. Commits'
  BY <1>9
<1>16. Holds'
  BY <1>2, <1>4, <1>9, <1>10 DEF Holds
<1> QED
  BY <1>11, <1>12, <1>13, <1>14, <1>15, <1>16

\* A file is installed.
LEMMA InstallKeeps == IInv /\ Install => IInv'
<1> SUFFICES ASSUME IInv, Install PROVE IInv'
  OBVIOUS
<1> USE DEF IInv
<1>1. /\ cps' = cps /\ call'.muts = call.muts /\ call'.tool = call.tool
      /\ call'.result \in {"none"}
      /\ call' \in [tool : Tools, muts : Seq(Mutations), cp : 0..Len(cps), result : Results]
  BY DEF Install, TypeOK, Calling, Written
<1>2. Muts' = Muts
  BY <1>1 DEF Muts
<1>3. /\ pc = "commit" /\ at \in DOMAIN call.muts /\ Mut \in Muts /\ Mut.file \in Files
      /\ Mut.file \notin installed /\ stuck = {} /\ call.tool \in Tools
      /\ at \in 1..Len(call.muts) /\ Len(call.muts) \in Nat
  BY MutFacts, MutsFacts DEF Install, Calling, Written, Commits, TypeOK
<1>4. UNCHANGED <<backup, stuck, prior, late>>
  BY DEF Install, histVars
<1>5. PICK m : m = Mut
  OBVIOUS
<1>6. \/ at' = at /\ pc' = "commit" /\ m.file \notin installed'
      \/ at' = at /\ pc' = "rollback"
      \/ /\ Done(m)'
         /\ \/ at < Len(call.muts) /\ at' = at + 1 /\ pc' = "commit"
            \/ at = Len(call.muts) /\ at' = at /\ pc' = "cleanup"
  BY <1>3, <1>4, <1>5 DEF Install, Advance, Goto, Done
<1>7. \A g \in Files : g # m.file =>
        /\ disk'[g] = disk[g] /\ backup'[g] = backup[g]
        /\ (g \in installed') <=> (g \in installed)
  BY <1>3, <1>4, <1>5 DEF Install, TypeOK
<1>8. m.file \notin late => Tracked(m)'
  <2>1. m.file \notin late => Tracked(m) /\ prior[m.file] = m.before
    BY <1>3, <1>5 DEF Commits, ReadRight, Written
  <2> QED BY <1>3, <1>4, <1>5, <2>1 DEF Install, Moved, Tracked, TypeOK
<1>9. Commits' /\ (pc' = "cleanup" => \A x \in Muts : x.file \notin late => disk'[x.file] = x.after)
  BY <1>1, <1>2, <1>3, <1>4, <1>5, <1>6, <1>7, <1>8, CommitStep
<1>10. pc' \in {"commit", "rollback", "cleanup"} /\ at' > 0
  BY <1>3, <1>6
<1>11. TypeOK'
  <2>1. UNCHANGED <<backup, stuck, late, prior, clean, calls>>
    BY DEF Install, histVars
  <2>2. pc' \in Phases
    BY DEF Install, Goto, Phases, Advance
  <2>3. mishaps' \in 0..MaxMishaps
    BY DataAssumption DEF Install, Mishap, NoMishap, TypeOK
  <2>4. at' \in 0..Len(call.muts)
    BY DEF Install, Advance, TypeOK
  <2>5. disk' \in [Files -> States]
    <3>1. Mut \in Mutations
      BY MutFacts DEF Install, Calling, Written
    <3> QED BY <3>1 DEF Install, Mutations, TypeOK
  <2>6. staged' \subseteq Files
    BY DEF Install, TypeOK
  <2>7. installed' \subseteq Files
    <3>1. Mut \in Mutations
      BY MutFacts DEF Install, Calling, Written
    <3> QED BY <3>1 DEF Install, Mutations, TypeOK
  <2> QED BY <1>1, <2>1, <2>2, <2>3, <2>4, <2>5, <2>6, <2>7 DEF TypeOK
<1>12. Plans'
  BY <1>1 DEF Plans
<1>13. Calling'
  BY <1>1, <1>3, <1>4, <1>10 DEF Calling, Fresh
<1>14. ReadRight'
  BY <1>2, <1>3, <1>4, <1>10 DEF ReadRight, Written
<1>15. Commits'
  BY <1>9
<1>16. Holds'
  BY <1>2, <1>4, <1>9, <1>10 DEF Holds
<1> QED
  BY <1>11, <1>12, <1>13, <1>14, <1>15, <1>16

\* A file is put back.
LEMMA RollbackKeeps == IInv /\ Rollback => IInv'
<1> SUFFICES ASSUME IInv, Rollback PROVE IInv'
  OBVIOUS
<1> USE DEF IInv
<1>1. /\ cps' = cps /\ call'.muts = call.muts /\ call'.tool = call.tool
      /\ call'.result \in {"none", "commit_failed", "rollback_failed"}
      /\ call' \in [tool : Tools, muts : Seq(Mutations), cp : 0..Len(cps), result : Results]
  BY DEF Rollback, Result, TypeOK, Results, Calling, Written
<1>2. Muts' = Muts
  BY <1>1 DEF Muts
<1>3. /\ pc = "rollback" /\ at \in DOMAIN call.muts /\ Mut \in Muts /\ Mut.file \in Files
      /\ at \in 1..Len(call.muts) /\ Len(call.muts) \in Nat
  BY MutFacts, MutsFacts DEF Rollback, Calling, Written
<1>4. UNCHANGED <<prior, late>>
  BY DEF Rollback, histVars
<1>5. PICK m : m = Mut /\ m = call.muts[at]
  BY DEF Mut
<1>6. \/ at > 1 /\ at' = at - 1 /\ pc' = "rollback" /\ call' = call
      \/ /\ at = 1 /\ at' = at /\ pc' = "finally"
         /\ call'.result = IF stuck' = {} THEN "commit_failed" ELSE "rollback_failed"
  BY <1>3 DEF Rollback, Goto, Result, TypeOK
<1>7. /\ stuck \subseteq stuck'
      /\ \A g \in Files : g # m.file =>
           /\ disk'[g] = disk[g] /\ backup'[g] = backup[g]
           /\ (g \in installed') <=> (g \in installed)
  BY <1>3, <1>5 DEF Rollback, TypeOK
<1>8. m.file \notin stuck' =>
        /\ stuck' = stuck /\ m.file \notin installed' /\ backup'[m.file] = Absent
        /\ disk'[m.file] = IF backup[m.file] # Absent THEN backup[m.file]
                           ELSE IF m.file \in installed THEN Absent ELSE disk[m.file]
  BY <1>3, <1>5 DEF Rollback, NeedsRestore, Unlinked, TypeOK
<1>9. /\ m.file \notin stuck' => Untouched(m.file)'
      /\ m.file \notin late \cup stuck' => Tracked(m)'
  <2>1. m.file \notin late \cup stuck' => Tracked(m)
    BY <1>3, <1>5, <1>7 DEF Commits
  <2> QED BY <1>4, <1>8, <2>1 DEF Untouched, Tracked
<1>10. \A x \in Muts : x # m =>
         /\ Tracked(x) => Tracked(x)'
         /\ Untouched(x.file) => Untouched(x.file)'
  <2>1. \A x \in Muts : x # m => x.file # m.file /\ x.file \in Files
    BY <1>3, <1>5, OtherFiles, MutsFacts
  <2> QED BY <1>4, <1>7, <2>1, SameFile
<1>11. \A x \in Muts : x.file \notin late \cup stuck' => Tracked(x)'
  BY <1>3, <1>7, <1>9, <1>10 DEF Commits
<1>12. \A i \in DOMAIN call.muts : \A x \in Muts :
         x = call.muts[i] /\ i > at - 1 /\ x.file \notin stuck' => Untouched(x.file)'
  <2> SUFFICES ASSUME NEW i \in DOMAIN call.muts, NEW x \in Muts, x = call.muts[i],
                      i > at - 1, x.file \notin stuck'
               PROVE  Untouched(x.file)'
    OBVIOUS
  <2>1. i \in Nat
    BY MutsFacts
  <2>2. i = at \/ i > at
    BY <1>3, <2>1
  <2>3. CASE i = at
    BY <1>5, <1>9, <2>3
  <2>4. CASE i > at
    <3>1. Untouched(x.file)
      BY <1>3, <1>7, <2>4 DEF Commits
    <3>2. i # at /\ at > 0
      BY <1>3, <2>1, <2>4
    <3>3. x # m
      BY <1>5, <3>2, OtherFiles
    <3> QED BY <1>10, <3>1, <3>3
  <2> QED BY <2>2, <2>3, <2>4
<1>13. pc' = "finally" =>
         \A x \in Muts : x.file \notin late \cup stuck' => disk'[x.file] = prior[x.file]
  <2> SUFFICES ASSUME pc' = "finally", NEW x \in Muts, x.file \notin late \cup stuck'
               PROVE  disk'[x.file] = prior[x.file]
    OBVIOUS
  <2>1. PICK i \in DOMAIN call.muts : x = call.muts[i]
    BY MutsFacts
  <2>2. i > at - 1
    BY <1>6, MutsFacts
  <2>3. Untouched(x.file)'
    BY <1>12, <2>1, <2>2
  <2> QED BY <1>4, <1>11, <2>3 DEF Untouched, Tracked
<1>14. TypeOK'
  <2>1. UNCHANGED <<staged, late, prior, clean, calls>>
    BY DEF Rollback, histVars
  <2>2. pc' \in Phases
    BY DEF Rollback, Goto, Phases
  <2>3. mishaps' \in 0..MaxMishaps
    BY DataAssumption DEF Rollback, Mishap, NoMishap, TypeOK
  <2>4. at' \in 0..Len(call.muts)
    BY DEF Rollback, TypeOK
  <2>5. disk' \in [Files -> States]
    <3>1. Mut \in Mutations
      BY MutFacts DEF Rollback, Calling, Written
    <3> QED BY <3>1, ZenonT(30) DEF Rollback, Unlinked, States, TypeOK
  <2>6. backup' \in [Files -> States]
    BY DEF Rollback, States, TypeOK
  <2>7. installed' \subseteq Files
    BY DEF Rollback, TypeOK
  <2>8. stuck' \subseteq Files
    <3>1. Mut \in Mutations
      BY MutFacts DEF Rollback, Calling, Written
    <3> QED BY <3>1 DEF Rollback, Mutations, TypeOK
  <2> QED BY <1>1, <2>1, <2>2, <2>3, <2>4, <2>5, <2>6, <2>7, <2>8 DEF TypeOK
<1>15. Plans'
  BY <1>1 DEF Plans
<1>16. Calling'
  <2>1. pc' \in {"rollback", "finally"} /\ (pc' = "rollback" => at' > 0 /\ call'.result = "none")
    BY <1>3, <1>6 DEF Calling, Written
  <2>2. call'.result = "commit_failed" => stuck' = {} \/ pc' = "rollback"
    BY <1>6
  <2> QED BY <1>1, <1>3, <2>1, <2>2 DEF Calling, Fresh
<1>17. ReadRight'
  BY <1>2, <1>3, <1>4, <1>6 DEF ReadRight
<1>18. Commits'
  <2>1. pc' = "rollback" => at' = at - 1
    BY <1>6
  <2>2. pc' # "commit"
    BY <1>6
  <2>3. \A i \in DOMAIN call.muts :
          i > at - 1 /\ call.muts[i].file \notin stuck' =>
            call.muts[i].file \notin installed' /\ backup'[call.muts[i].file] = Absent
    BY <1>12, MutsFacts DEF Untouched
  <2> QED BY <1>1, <1>2, <1>4, <1>11, <2>1, <2>2, <2>3 DEF Commits, Untouched
<1>19. Holds'
  <2>1. /\ pc' \in {"rollback", "finally"}
        /\ pc' = "finally" => call'.result # "concurrent_change"
        /\ pc' = "finally" /\ call'.result = "commit_failed" => stuck' = {}
    BY <1>6
  <2> QED BY <1>2, <1>4, <1>13, <2>1 DEF Holds
<1> QED
  BY <1>14, <1>15, <1>16, <1>17, <1>18, <1>19

\* The backups are deleted.
LEMMA CleanupKeeps == IInv /\ Cleanup => IInv'
<1> SUFFICES ASSUME IInv, Cleanup PROVE IInv'
  OBVIOUS
<1> USE DEF IInv
<1>1. /\ cps' = cps /\ call'.muts = call.muts /\ call'.tool = call.tool
      /\ call'.result \in {"ok", "os_error"}
      /\ call' \in [tool : Tools, muts : Seq(Mutations), cp : 0..Len(cps), result : Results]
  BY DEF Cleanup, Result, TypeOK, Results
<1>2. Muts' = Muts
  BY <1>1 DEF Muts
<1>3. TypeOK'
  <2>1. UNCHANGED <<disk, staged, installed, stuck, late, prior, clean, calls, at>>
    BY DEF Cleanup, commitVars, histVars
  <2>2. pc' \in Phases
    BY DEF Cleanup, Goto, Phases
  <2>3. mishaps' \in 0..MaxMishaps
    BY DataAssumption DEF Cleanup, Mishap, NoMishap, TypeOK
  <2>4. backup' \in [Files -> States]
    BY DEF Cleanup, NoBackup, States, TypeOK
  <2> QED BY <1>1, <2>1, <2>2, <2>3, <2>4 DEF TypeOK
<1>4. Plans'
  BY <1>1 DEF Plans
<1>5. Calling'
  BY <1>1, <1>2 DEF Cleanup, Calling, Fresh, Written, Goto
<1>6. ReadRight'
  BY <1>1, <1>2 DEF Cleanup, ReadRight, Written, Goto
<1>7. Commits'
  BY <1>1, <1>2 DEF Cleanup, Commits, Goto
<1>8. Holds'
  BY <1>1, <1>2 DEF Cleanup, Holds, NothingLost, Goto, histVars
<1> QED
  BY <1>3, <1>4, <1>5, <1>6, <1>7, <1>8

\* What is left is deleted.
LEMMA FinallyKeeps == IInv /\ Finally => IInv'
<1> SUFFICES ASSUME IInv, Finally PROVE IInv'
  OBVIOUS
<1> USE DEF IInv
<1>1. /\ cps' = cps /\ call'.muts = call.muts /\ call'.tool = call.tool
      /\ call'.result \in {call.result, "os_error"}
      /\ call' \in [tool : Tools, muts : Seq(Mutations), cp : 0..Len(cps), result : Results]
  BY DEF Finally, Result, TypeOK, Results
<1>2. Muts' = Muts
  BY <1>1 DEF Muts
<1>3. TypeOK'
  <2>1. UNCHANGED <<disk, installed, stuck, late, prior, clean, calls, at>>
    BY DEF Finally, commitVars, histVars
  <2>2. pc' \in Phases
    BY DEF Finally, Goto, Phases
  <2>3. mishaps' \in 0..MaxMishaps
    BY DataAssumption DEF Finally, Mishap, NoMishap, TypeOK
  <2>4. backup' \in [Files -> States]
    BY DEF Finally, NoBackup, States, TypeOK
  <2>5. staged' \subseteq Files
    BY DEF Finally, TypeOK
  <2> QED BY <1>1, <2>1, <2>2, <2>3, <2>4, <2>5 DEF TypeOK
<1>4. Plans'
  BY <1>1 DEF Plans
<1>5. Calling'
  BY <1>1, <1>2 DEF Finally, Calling, Fresh, Written, Goto, commitVars
<1>6. ReadRight'
  BY <1>1, <1>2 DEF Finally, ReadRight, Written, Goto
<1>7. Commits'
  BY <1>1, <1>2 DEF Finally, Commits, Goto
<1>8. Holds'
  BY <1>1, <1>2 DEF Finally, Holds, NothingLost, Goto, commitVars, histVars
<1> QED
  BY <1>3, <1>4, <1>5, <1>6, <1>7, <1>8

\* The call ends.
LEMMA SettleKeeps == IInv /\ Settle => IInv'
<1> SUFFICES ASSUME IInv, Settle PROVE IInv'
  OBVIOUS
<1> USE DEF IInv
<1>1. /\ call' = NoCall /\ pc' = "idle" /\ at' = 0
      /\ staged' = {} /\ installed' = {} /\ stuck' = {} /\ late' = {}
      /\ backup' = NoBackup /\ prior' = disk /\ UNCHANGED <<disk, calls>>
  BY DEF Settle, EndCall, Goto
<1>2. /\ cps \in Seq(Manifests)
      /\ call.cp \in 0..Len(cps) /\ Len(cps) \in Nat
  BY DEF TypeOK, Manifests
<1>3. \/ cps' = cps
      \/ cps' = [cps EXCEPT ![call.cp].status = "rewound"]
      \/ call.cp # 0 /\ cps' = Front(cps)
  BY DEF Settle, SettleCheckpoints
<1>4. /\ cps' \in Seq(Manifests)
      /\ \A i \in DOMAIN cps' : i \in DOMAIN cps /\ cps'[i].files = cps[i].files
  <2>1. CASE cps' = cps
    BY <1>2, <2>1
  <2>2. CASE cps' = [cps EXCEPT ![call.cp].status = "rewound"]
    <3>0. cps \in [1..Len(cps) -> Manifests]
      BY <1>2
    <3>1. DOMAIN cps' = 1..Len(cps)
      BY <2>2, <3>0, Zenon
    <3>2. \A i \in 1..Len(cps) : cps[i] \in Manifests
      BY <3>0
    <3>3. \A i \in 1..Len(cps) : cps'[i] \in Manifests /\ cps'[i].files = cps[i].files
      BY <2>2, <3>0, <3>2 DEF Manifests
    <3>4. cps' = [i \in 1..Len(cps) |-> cps'[i]]
      BY <2>2, <3>0, <3>2
    <3>5. cps' \in [1..Len(cps) -> Manifests]
      BY <3>3, <3>4
    <3> QED BY <1>2, <3>1, <3>3, <3>5
  <2>3. CASE call.cp # 0 /\ cps' = Front(cps)
    <3>1. cps' = [i \in 1..(Len(cps) - 1) |-> cps[i]] /\ Len(cps) > 0
      BY <1>2, <2>3 DEF Front
    <3>2. \A i \in 1..(Len(cps) - 1) : cps[i] \in Manifests /\ i \in DOMAIN cps
      BY <1>2
    <3>3. Len(cps) - 1 \in Nat
      BY <1>2, <3>1
    <3> QED BY <3>1, <3>2, <3>3
  <2> QED BY <1>3, <2>1, <2>2, <2>3
<1>5. mishaps' \in 0..MaxMishaps
  BY DataAssumption DEF Settle, SettleCheckpoints, Mishap, NoMishap, TypeOK
<1>6. TypeOK'
  <2>1. clean' \in BOOLEAN
    BY DEF Settle
  <2>2. call' \in [tool : Tools, muts : Seq(Mutations), cp : 0..Len(cps'), result : Results]
        /\ Len(call'.muts) = 0
    BY <1>1, <1>4 DEF NoCall, Tools, Results
  <2>3. backup' \in [Files -> States] /\ prior' \in [Files -> States] /\ pc' \in Phases
    BY <1>1 DEF NoBackup, States, Phases, TypeOK
  <2> QED BY <1>1, <1>4, <1>5, <2>1, <2>2, <2>3 DEF TypeOK, Manifests
<1>7. Plans'
  <2>1. call'.muts = <<>>
    BY <1>1 DEF NoCall
  <2>2. \A i \in DOMAIN cps' : OneEach(cps'[i].files)
    BY <1>4 DEF Plans
  <2> QED BY <2>1, <2>2 DEF Plans, OneEach
<1>8. Calling'
  BY <1>1 DEF Calling, Quiet, NoCall, Fresh, Written
<1>9. ReadRight'
  BY <1>1 DEF ReadRight, Written
<1>10. Commits'
  BY <1>1 DEF Commits
<1>11. Holds'
  BY <1>1 DEF Holds
<1> QED
  BY <1>6, <1>7, <1>8, <1>9, <1>10, <1>11

\* Another process writes.
LEMMA OutsideWriteKeeps == IInv /\ OutsideWrite => IInv'
<1> SUFFICES ASSUME IInv, OutsideWrite PROVE IInv'
  OBVIOUS
<1> USE DEF IInv
<1>1. /\ cps' = cps /\ call'.muts = call.muts /\ call'.tool = call.tool
      /\ call'.result \in {call.result}
      /\ call' \in [tool : Tools, muts : Seq(Mutations), cp : 0..Len(cps), result : Results]
  BY DEF OutsideWrite, TypeOK
<1>2. Muts' = Muts
  BY <1>1 DEF Muts
<1>3. TypeOK'
  <2>1. UNCHANGED <<backup, staged, installed, stuck, calls, at, pc>>
    BY DEF OutsideWrite, commitVars
  <2>2. mishaps' \in 0..MaxMishaps
    BY DataAssumption DEF OutsideWrite, Mishap, TypeOK
  <2>3. disk' \in [Files -> States]
    BY DEF OutsideWrite, TypeOK
  <2>4. prior' \in [Files -> States]
    BY DEF OutsideWrite, TypeOK
  <2>5. late' \subseteq Files
    BY DEF OutsideWrite, TypeOK
  <2>6. clean' \in BOOLEAN
    BY DEF OutsideWrite
  <2> QED BY <1>1, <2>1, <2>2, <2>3, <2>4, <2>5, <2>6 DEF TypeOK
<1>4. Plans'
  BY <1>1 DEF Plans
<1>5. Calling'
  BY <1>1, <1>2 DEF OutsideWrite, Calling, Quiet, Fresh, commitVars
<1>6. ReadRight'
  BY <1>1, <1>2 DEF OutsideWrite, ReadRight, Written
<1>7. Commits'
  BY <1>1, <1>2 DEF OutsideWrite, Commits, Untouched, Tracked, Done, Mut, commitVars
<1>8. Holds'
  <2>1. PICK f \in Files, c \in States :
          /\ disk' = [disk EXCEPT ![f] = c] /\ prior' = [prior EXCEPT ![f] = c]
          /\ late' = IF pc \in Written THEN late \cup {f} ELSE late
    BY DEF OutsideWrite, Written
  <2>2. pc' = pc /\ UNCHANGED <<backup, stuck>> /\ call' = call
    BY DEF OutsideWrite, commitVars
  <2>3. \A m \in Muts : m.file \in Files
    BY MutsFacts
  <2>4. /\ disk'[f] = c /\ prior'[f] = c
        /\ \A g \in Files : g # f => disk'[g] = disk[g] /\ prior'[g] = prior[g]
        /\ late \subseteq late' /\ (pc \in Written => f \in late')
    BY <2>1 DEF TypeOK
  <2>5. \A m \in Muts : /\ m.file = f => /\ disk'[m.file] = prior'[m.file]
                                         /\ pc \in Written => m.file \in late'
                        /\ m.file # f => /\ disk'[m.file] = disk[m.file]
                                         /\ prior'[m.file] = prior[m.file]
    BY <2>3, <2>4
  <2>6. pc' \in {"settle", "dead"} => NothingLost'
    BY <1>2, <2>2, <2>4, <2>5 DEF Holds, NothingLost
  <2>7. pc' = "swap" => \A m \in Muts' : m.file \notin late' => disk'[m.file] = prior'[m.file]
    BY <1>2, <2>2, <2>4, <2>5 DEF Holds
  <2>8. pc' \in {"sync", "cleanup"} =>
          \A m \in Muts' : m.file \notin late' => disk'[m.file] = m.after
    BY <1>2, <2>2, <2>4, <2>5 DEF Holds, Written
  <2>9. pc' = "finally" => \A m \in Muts' : m.file \notin late' \cup stuck' =>
          disk'[m.file] \in {m.after, prior'[m.file]}
    BY <1>2, <2>2, <2>4, <2>5 DEF Holds
  <2>10. pc' \in {"finally", "settle"} /\ call'.result \in {"concurrent_change", "commit_failed"} =>
           \A m \in Muts' : m.file \notin late' => disk'[m.file] = prior'[m.file]
    BY <1>2, <2>2, <2>4, <2>5 DEF Holds
  <2> QED BY <2>6, <2>7, <2>8, <2>9, <2>10 DEF Holds
<1> QED
  BY <1>3, <1>4, <1>5, <1>6, <1>7, <1>8

\* The daemon is killed.
LEMMA KillKeeps == IInv /\ Kill => IInv'
<1> SUFFICES ASSUME IInv, Kill PROVE IInv'
  OBVIOUS
<1> USE DEF IInv
<1>1. /\ cps' = cps /\ call'.muts = call.muts /\ call'.tool = call.tool
      /\ call'.result \in {call.result}
      /\ call' \in [tool : Tools, muts : Seq(Mutations), cp : 0..Len(cps), result : Results]
  BY DEF Kill, TypeOK
<1>2. Muts' = Muts
  BY <1>1 DEF Muts
<1>3. TypeOK'
  <2>1. UNCHANGED <<disk, backup, staged, installed, stuck, late, prior, calls, at>>
    BY DEF Kill, fsVars, commitVars
  <2>2. pc' \in Phases
    BY DEF Kill, Goto, Phases
  <2>3. mishaps' \in 0..MaxMishaps
    BY DataAssumption DEF Kill, Mishap, TypeOK
  <2>4. clean' \in BOOLEAN
    BY DEF Kill
  <2> QED BY <1>1, <2>1, <2>2, <2>3, <2>4 DEF TypeOK
<1>4. Plans'
  BY <1>1 DEF Plans
<1>5. Calling'
  BY <1>1, <1>2 DEF Kill, Calling, Fresh, Written, Goto
<1>6. ReadRight'
  BY <1>1, <1>2 DEF Kill, ReadRight, Written, Goto
<1>7. Commits'
  BY <1>1, <1>2 DEF Kill, Commits, Goto
<1>8. Holds'
  <2>1. NothingLost
    BY NeverLost
  <2>2. pc' = "dead" /\ UNCHANGED <<disk, backup, prior, late, stuck>>
    BY DEF Kill, Goto, fsVars, commitVars
  <2> QED BY <1>2, <2>1, <2>2 DEF Holds, NothingLost
<1> QED
  BY <1>3, <1>4, <1>5, <1>6, <1>7, <1>8

\* A store is opened again.
LEMMA ReopenKeeps == IInv /\ Reopen => IInv'
<1> SUFFICES ASSUME IInv, Reopen PROVE IInv'
  OBVIOUS
<1> USE DEF IInv
<1>1. TypeOK'
  BY DEF Reopen, EndCall, TypeOK, States, Tools, Results, Phases, Goto, NoCall, NoBackup,
     boundVars
<1>2. Plans'
  <2>1. cps' = cps /\ call'.muts = <<>>
    BY DEF Reopen, EndCall, NoCall
  <2> QED BY <2>1 DEF Plans, OneEach
<1>3. Calling'
  BY DEF Reopen, EndCall, Calling, Quiet, Fresh, Written, Goto, NoCall
<1>4. ReadRight'
  BY DEF Reopen, EndCall, ReadRight, Written, Goto
<1>5. Commits'
  BY DEF Reopen, EndCall, Commits, Goto
<1>6. Holds'
  BY DEF Reopen, EndCall, Holds, Goto
<1> QED
  BY <1>1, <1>2, <1>3, <1>4, <1>5, <1>6
-----------------------------------------------------------------------------
(* Undoing checkpoints                                                      *)

\* A call touches the files of its plan alone, and nothing before its checkpoint is
\* taken; only a call that captured one has come further.
Placed ==
    /\ \A f \in Files : (\A m \in Muts : m.file # f) => disk[f] = prior[f]
    /\ call.tool # "checkpoint_rewind" /\ call.cp = 0 =>
          disk = prior /\ pc \notin (Fresh \cup Written) \ {"capture"}
    /\ call.tool # "checkpoint_rewind" /\ pc \in {"idle", "capture"} => call.cp = 0
    /\ pc = "capture" => call.tool # "checkpoint_rewind"
    /\ pc = "finally" => call.result # "ok"

\* Undone one by one from the workspace w, no ready checkpoint of s is refused, and
\* the last to be undone leaves what the run began with.
Chained(s, w) ==
    /\ \A i \in DOMAIN s : s[i].status = "ready" =>
          \A e \in ToSet(s[i].files) : Unwound(s, i + 1, w)[e.file] \in {e.before, e.after}
    /\ Unwound(s, 1, w) = InitDisk

\* The rewind changes what differs from the checkpoint c, to what c holds.
Restoring(c) ==
    /\ \A m \in Muts : \E e \in ToSet(c.files) : e.file = m.file /\ m.after = e.before
    /\ \A e \in ToSet(c.files) :
          e.before = prior[e.file] \/ \E m \in Muts : m.file = e.file /\ m.after = e.before

\* Without the call the chain is whole; the call's own checkpoint holds the chain
\* with it, a rewind brings back what the checkpoint below it left.
Undoable ==
    /\ late = {} /\ call.result # "rewind_conflict"
    /\ Chained(cps, prior)
    /\ \A m \in Muts : m.before = prior[m.file]
    /\ call.tool # "checkpoint_rewind" /\ call.cp # 0 =>
          call.cp = Len(cps) /\ cps[call.cp] = [files |-> call.muts, status |-> "ready"]
    /\ call.tool = "checkpoint_rewind" => call.cp \in LatestReady /\ Restoring(cps[call.cp])
    /\ pc = "settle" /\ call.result = "ok" => \A m \in Muts : disk[m.file] = m.after
    /\ pc = "dead" => InKnownState

UInv == Placed /\ (clean => Undoable)

\* A nonempty set of numbers has a least one.
LEMMA LeastOf ==
    ASSUME NEW S \in SUBSET Nat, S # {}
    PROVE  Min(S) \in S /\ \A x \in S : Min(S) <= x
<1>1. PICK i \in S : \A j \in S : ~(<<j, i>> \in OpToRel(<, Nat))
  BY NatLessThanWellFounded, WFMin
<1>2. \A j \in S : j \in Nat /\ i \in Nat /\ ~(j < i)
  BY <1>1 DEF OpToRel
<1>3. \E x \in S : \A y \in S : x =< y
  BY <1>2
<1> QED
  BY <1>3 DEF Min

\* Stores whose plans name each file once.
Stores == {s \in Seq(Manifests) : \A i \in DOMAIN s : OneEach(s[i].files)}

Ready(s, i) == s[i].status = "ready"

\* The checkpoints of a store, and the one mutation of a file in each.
LEMMA StoreFacts ==
    ASSUME NEW s \in Stores
    PROVE  /\ Len(s) \in Nat /\ DOMAIN s = 1..Len(s)
           /\ \A i \in DOMAIN s : s[i] \in Manifests
           /\ \A i \in DOMAIN s : \A e \in ToSet(s[i].files) :
                /\ e \in Mutations /\ Names(s[i], e.file) /\ Before(s[i], e.file) = e.before
                /\ \A d \in ToSet(s[i].files) : d.file = e.file => d = e
<1>1. s \in Seq(Manifests)
  BY DEF Stores
<1>2. Len(s) \in Nat /\ DOMAIN s = 1..Len(s) /\ \A i \in DOMAIN s : s[i] \in Manifests
  BY <1>1
<1>3. ASSUME NEW i \in DOMAIN s, NEW e \in ToSet(s[i].files)
      PROVE  /\ e \in Mutations /\ Names(s[i], e.file) /\ Before(s[i], e.file) = e.before
             /\ \A d \in ToSet(s[i].files) : d.file = e.file => d = e
  <2> DEFINE list == s[i].files
  <2>1. list \in Seq(Mutations) /\ OneEach(list)
    BY <1>2 DEF Manifests, Stores
  <2> HIDE DEF list
  <2>2. ToSet(list) = {list[k] : k \in DOMAIN list}
    BY DEF ToSet
  <2>3. \A d \in ToSet(list) : d \in Mutations
    BY <2>1, <2>2
  <2>4. \A d, c \in ToSet(list) : d.file = c.file => d = c
    BY <2>1, <2>2 DEF OneEach
  <2>5. e \in ToSet(list)
    BY DEF list
  <2>6. (CHOOSE d \in ToSet(list) : d.file = e.file) = e
    BY <2>4, <2>5
  <2>7. Names(s[i], e.file) /\ Before(s[i], e.file) = e.before
    BY <2>5, <2>6 DEF Names, Before, list
  <2> QED BY <2>3, <2>4, <2>5, <2>7 DEF list
<1> QED
  BY <1>2, <1>3

\* A file that no ready checkpoint names keeps its content; otherwise the first one
\* that does decides.
LEMMA UnwoundIs ==
    ASSUME NEW s \in Stores, NEW i \in Nat, i > 0, NEW w, NEW f \in Files
    PROVE  /\ (\A j \in i..Len(s) : ~(Ready(s, j) /\ Names(s[j], f))) => Unwound(s, i, w)[f] = w[f]
           /\ \A j \in i..Len(s) :
                /\ Ready(s, j) /\ Names(s[j], f)
                /\ \A k \in i..(j - 1) : ~(Ready(s, k) /\ Names(s[k], f))
                => Unwound(s, i, w)[f] = Before(s[j], f)
           /\ (\E j \in i..Len(s) : Ready(s, j) /\ Names(s[j], f)) =>
                \E j \in i..Len(s) :
                   /\ Ready(s, j) /\ Names(s[j], f)
                   /\ \A k \in i..(j - 1) : ~(Ready(s, k) /\ Names(s[k], f))
<1>1. Len(s) \in Nat
  BY StoreFacts
<1>2. Naming(s, i, f) = {j \in i..Len(s) : Ready(s, j) /\ Names(s[j], f)}
  BY DEF Naming, Ready
<1>3. Unwound(s, i, w)[f] =
        IF Naming(s, i, f) = {} THEN w[f] ELSE Before(s[Min(Naming(s, i, f))], f)
  BY DEF Unwound
<1>4. Naming(s, i, f) \in SUBSET Nat
  BY <1>1, <1>2
<1>5. Naming(s, i, f) # {} =>
        /\ Min(Naming(s, i, f)) \in Naming(s, i, f)
        /\ \A k \in Naming(s, i, f) : Min(Naming(s, i, f)) <= k
  BY <1>4, LeastOf
<1>6. ASSUME NEW j \in i..Len(s), Ready(s, j), Names(s[j], f),
             \A k \in i..(j - 1) : ~(Ready(s, k) /\ Names(s[k], f))
      PROVE  Unwound(s, i, w)[f] = Before(s[j], f)
  <2> DEFINE l == Min(Naming(s, i, f))
  <2>1. j \in Naming(s, i, f)
    BY <1>2, <1>6
  <2>2. l \in Naming(s, i, f) /\ l <= j
    BY <1>5, <2>1
  <2> HIDE DEF l
  <2>3. l \in i..Len(s) /\ Ready(s, l) /\ Names(s[l], f)
    BY <1>2, <2>2
  <2>4. ~(l \in i..(j - 1))
    BY <1>6, <2>3
  <2>5. l = j
    BY <1>1, <2>2, <2>3, <2>4
  <2> QED BY <1>3, <2>1, <2>5 DEF l
<1>7. ASSUME \E j \in i..Len(s) : Ready(s, j) /\ Names(s[j], f)
      PROVE  \E j \in i..Len(s) :
               /\ Ready(s, j) /\ Names(s[j], f)
               /\ \A k \in i..(j - 1) : ~(Ready(s, k) /\ Names(s[k], f))
  <2> DEFINE l == Min(Naming(s, i, f))
  <2>1. Naming(s, i, f) # {}
    BY <1>2, <1>7
  <2>2. l \in Naming(s, i, f) /\ \A k \in Naming(s, i, f) : l <= k
    BY <1>5, <2>1
  <2> HIDE DEF l
  <2>3. l \in i..Len(s) /\ Ready(s, l) /\ Names(s[l], f)
    BY <1>2, <2>2
  <2>4. \A k \in i..(l - 1) : k \in i..Len(s) /\ ~(l <= k)
    BY <1>1, <2>3
  <2>5. \A k \in i..(l - 1) : ~(Ready(s, k) /\ Names(s[k], f))
    BY <1>2, <2>2, <2>4
  <2> QED BY <2>3, <2>5
<1>8. (\A j \in i..Len(s) : ~(Ready(s, j) /\ Names(s[j], f))) => Unwound(s, i, w)[f] = w[f]
  BY <1>2, <1>3
<1> QED
  BY <1>6, <1>7, <1>8

\* c is the latest ready checkpoint of s.
Latest(s, c) == c \in DOMAIN s /\ Ready(s, c) /\ \A j \in (c + 1)..Len(s) : ~Ready(s, j)

\* Workspaces that agree on the files that the checkpoint c does not name.
Besides(c, w, v) == \A f \in Files : ~Names(c, f) => w[f] = v[f]

\* Above the latest ready checkpoint there is nothing to undo.
LEMMA UnwoundAbove ==
    ASSUME NEW s \in Stores, NEW c, Latest(s, c), NEW w, NEW f \in Files
    PROVE  Unwound(s, c + 1, w)[f] = w[f]
<1>1. c \in Nat /\ c + 1 \in Nat /\ c + 1 > 0
  BY StoreFacts DEF Latest
<1> QED
  BY <1>1, UnwoundIs DEF Latest

\* Below it, what the files it names hold does not matter.
LEMMA UnwoundBelow ==
    ASSUME NEW s \in Stores, NEW c, Latest(s, c), NEW w, NEW v, Besides(s[c], w, v),
           NEW i \in 1..c
    PROVE  Unwound(s, i, w) = Unwound(s, i, v)
<1>1. c \in 1..Len(s) /\ Len(s) \in Nat /\ c \in Nat /\ i \in Nat /\ i > 0 /\ c \in i..Len(s)
  BY StoreFacts DEF Latest
<1>2. ASSUME NEW f \in Files PROVE Unwound(s, i, w)[f] = Unwound(s, i, v)[f]
  <2>1. CASE \E j \in i..Len(s) : Ready(s, j) /\ Names(s[j], f)
    <3>1. PICK j \in i..Len(s) : /\ Ready(s, j) /\ Names(s[j], f)
                                 /\ \A k \in i..(j - 1) : ~(Ready(s, k) /\ Names(s[k], f))
      BY <1>1, <2>1, UnwoundIs
    <3>2. Unwound(s, i, w)[f] = Before(s[j], f) /\ Unwound(s, i, v)[f] = Before(s[j], f)
      BY <1>1, <3>1, UnwoundIs
    <3> QED BY <3>2
  <2>2. CASE \A j \in i..Len(s) : ~(Ready(s, j) /\ Names(s[j], f))
    <3>1. Unwound(s, i, w)[f] = w[f] /\ Unwound(s, i, v)[f] = v[f]
      BY <1>1, <2>2, UnwoundIs
    <3>2. w[f] = v[f]
      BY <1>1, <2>2 DEF Latest, Besides
    <3> QED BY <3>1, <3>2
  <2> QED BY <2>1, <2>2
<1> QED
  BY <1>2 DEF Unwound

\* t is s with the latest ready checkpoint c marked or taken away.
Without(t, s, c) ==
    /\ Len(t) >= c - 1 /\ Len(t) <= Len(s)
    /\ \A j \in 1..(c - 1) : t[j] = s[j]
    /\ \A j \in c..Len(t) : ~Ready(t, j)

\* v is w with the old content of every file that the checkpoint c names.
Restored(c, w, v) == Besides(c, w, v) /\ \A e \in ToSet(c.files) : v[e.file] = e.before

\* To undo the latest ready checkpoint first is to undo it with the others.
LEMMA UnwoundWithout ==
    ASSUME NEW s \in Stores, NEW t \in Stores, NEW c, Latest(s, c), Without(t, s, c),
           NEW w, NEW v, Restored(s[c], w, v), NEW i \in 1..c
    PROVE  Unwound(t, i, v) = Unwound(s, i, w)
<1>1. /\ c \in 1..Len(s) /\ Len(s) \in Nat /\ c \in Nat /\ i \in Nat /\ i > 0
      /\ Len(t) \in Nat /\ c \in i..Len(s)
  BY StoreFacts DEF Latest
<1>2. ASSUME NEW f \in Files PROVE Unwound(t, i, v)[f] = Unwound(s, i, w)[f]
  <2>1. CASE \E j \in i..(c - 1) : Ready(s, j) /\ Names(s[j], f)
    <3>1. \E j \in i..Len(s) : Ready(s, j) /\ Names(s[j], f)
      BY <1>1, <2>1
    <3>2. PICK j \in i..Len(s) : /\ Ready(s, j) /\ Names(s[j], f)
                                 /\ \A k \in i..(j - 1) : ~(Ready(s, k) /\ Names(s[k], f))
      BY <1>1, <3>1, UnwoundIs
    <3>3. j \in 1..(c - 1) /\ j \in i..Len(t)
      BY <1>1, <2>1, <3>2 DEF Without
    <3>4. \A k \in i..(j - 1) : k \in 1..(c - 1)
      BY <1>1, <3>3
    <3>5. /\ Ready(t, j) /\ Names(t[j], f) /\ t[j] = s[j]
          /\ \A k \in i..(j - 1) : ~(Ready(t, k) /\ Names(t[k], f))
      BY <3>2, <3>3, <3>4 DEF Without, Ready
    <3>6. Unwound(s, i, w)[f] = Before(s[j], f)
      BY <1>1, <3>2, UnwoundIs
    <3>7. Unwound(t, i, v)[f] = Before(t[j], f)
      BY <1>1, <3>3, <3>5, UnwoundIs
    <3> QED BY <3>5, <3>6, <3>7
  <2>2. CASE \A j \in i..(c - 1) : ~(Ready(s, j) /\ Names(s[j], f))
    <3>1. \A j \in i..Len(t) : ~(Ready(t, j) /\ Names(t[j], f))
      <4> SUFFICES ASSUME NEW j \in i..Len(t), Ready(t, j), Names(t[j], f) PROVE FALSE
        OBVIOUS
      <4>1. j \in i..(c - 1) /\ j \in 1..(c - 1)
        BY <1>1 DEF Without
      <4> QED BY <2>2, <4>1 DEF Without, Ready
    <3>2. Unwound(t, i, v)[f] = v[f]
      BY <1>1, <3>1, UnwoundIs
    <3>3. CASE Names(s[c], f)
      <4>1. Unwound(s, i, w)[f] = Before(s[c], f)
        BY <1>1, <2>2, <3>3, UnwoundIs DEF Latest
      <4>2. PICK e \in ToSet(s[c].files) : e.file = f
        BY <3>3 DEF Names
      <4>3. Before(s[c], f) = e.before
        BY <1>1, <4>2, StoreFacts
      <4> QED BY <3>2, <4>1, <4>2, <4>3 DEF Restored
    <3>4. CASE ~Names(s[c], f)
      <4>1. \A j \in i..Len(s) : ~(Ready(s, j) /\ Names(s[j], f))
        <5> SUFFICES ASSUME NEW j \in i..Len(s), Ready(s, j), Names(s[j], f) PROVE FALSE
          OBVIOUS
        <5>1. j # c /\ ~(j \in i..(c - 1)) /\ ~(j \in (c + 1)..Len(s))
          BY <2>2, <3>4 DEF Latest
        <5> QED BY <1>1, <5>1
      <4>2. Unwound(s, i, w)[f] = w[f]
        BY <1>1, <4>1, UnwoundIs
      <4> QED BY <3>2, <3>4, <4>2 DEF Restored, Besides
    <3> QED BY <3>3, <3>4
  <2> QED BY <2>1, <2>2
<1> QED
  BY <1>2 DEF Unwound

\* The chain below the latest ready checkpoint c holds whatever c's files hold, as
\* long as c is not refused.
LEMMA ChainedKept ==
    ASSUME NEW s \in Stores, NEW c, Latest(s, c), NEW w, NEW v, Chained(s, w),
           Besides(s[c], w, v), \A e \in ToSet(s[c].files) : v[e.file] \in {e.before, e.after}
    PROVE  Chained(s, v)
<1>1. c \in 1..Len(s) /\ Len(s) \in Nat /\ c \in Nat /\ DOMAIN s = 1..Len(s)
  BY StoreFacts DEF Latest
<1>2. ASSUME NEW i \in DOMAIN s, Ready(s, i), NEW e \in ToSet(s[i].files)
      PROVE  Unwound(s, i + 1, v)[e.file] \in {e.before, e.after}
  <2>1. e.file \in Files
    BY StoreFacts DEF Mutations
  <2>2. i <= c
    BY <1>1, <1>2 DEF Latest
  <2>3. CASE i = c
    BY <1>2, <2>1, <2>3, UnwoundAbove
  <2>4. CASE i < c
    <3>1. i + 1 \in 1..c
      BY <1>1, <2>4
    <3>2. Unwound(s, i + 1, w) = Unwound(s, i + 1, v)
      BY <3>1, UnwoundBelow
    <3> QED BY <1>2, <3>2 DEF Chained, Ready
  <2> QED BY <1>1, <2>2, <2>3, <2>4
<1>3. Unwound(s, 1, v) = InitDisk
  <2>1. 1 \in 1..c
    BY <1>1
  <2> QED BY <2>1, UnwoundBelow DEF Chained
<1> QED
  BY <1>2, <1>3 DEF Chained, Ready

\* The chain without the latest ready checkpoint is the chain with it.
LEMMA ChainedWithout ==
    ASSUME NEW s \in Stores, NEW t \in Stores, NEW c, Latest(s, c), Without(t, s, c),
           NEW w, NEW v, Restored(s[c], w, v)
    PROVE  /\ Chained(s, w) => Chained(t, v)
           /\ Chained(t, v) /\ (\A e \in ToSet(s[c].files) : w[e.file] \in {e.before, e.after})
                => Chained(s, w)
<1>1. /\ c \in 1..Len(s) /\ Len(s) \in Nat /\ c \in Nat /\ DOMAIN s = 1..Len(s)
      /\ Len(t) \in Nat /\ DOMAIN t = 1..Len(t)
  BY StoreFacts DEF Latest
<1>2. \A i \in 1..c : Unwound(t, i, v) = Unwound(s, i, w)
  BY UnwoundWithout
<1>3. Unwound(t, 1, v) = Unwound(s, 1, w)
  BY <1>1, <1>2
<1>4. \A i \in DOMAIN t : Ready(t, i) => i \in 1..(c - 1)
  BY <1>1 DEF Without
<1>5. \A i \in 1..(c - 1) : i + 1 \in 1..c /\ i \in DOMAIN t /\ i \in DOMAIN s /\ t[i] = s[i]
  BY <1>1 DEF Without
<1>6. ASSUME Chained(s, w) PROVE Chained(t, v)
  <2>1. ASSUME NEW i \in DOMAIN t, Ready(t, i), NEW e \in ToSet(t[i].files)
        PROVE  Unwound(t, i + 1, v)[e.file] \in {e.before, e.after}
    <3>1. i \in 1..(c - 1)
      BY <1>4, <2>1
    <3>2. Unwound(t, i + 1, v) = Unwound(s, i + 1, w)
      BY <1>2, <1>5, <3>1
    <3> QED BY <1>5, <1>6, <2>1, <3>1, <3>2 DEF Chained, Ready
  <2> QED BY <1>3, <1>6, <2>1 DEF Chained, Ready
<1>7. ASSUME Chained(t, v), \A e \in ToSet(s[c].files) : w[e.file] \in {e.before, e.after}
      PROVE  Chained(s, w)
  <2>1. ASSUME NEW i \in DOMAIN s, Ready(s, i), NEW e \in ToSet(s[i].files)
        PROVE  Unwound(s, i + 1, w)[e.file] \in {e.before, e.after}
    <3>1. e.file \in Files
      BY StoreFacts DEF Mutations
    <3>2. i = c \/ i \in 1..(c - 1)
      BY <1>1, <2>1 DEF Latest
    <3>3. CASE i = c
      BY <1>7, <2>1, <3>1, <3>3, UnwoundAbove
    <3>4. CASE i \in 1..(c - 1)
      <4>1. Unwound(t, i + 1, v) = Unwound(s, i + 1, w)
        BY <1>2, <1>5, <3>4
      <4> QED BY <1>5, <1>7, <2>1, <3>4, <4>1 DEF Chained, Ready
    <3> QED BY <3>2, <3>3, <3>4
  <2> QED BY <1>3, <1>7, <2>1 DEF Chained, Ready
<1> QED
  BY <1>6, <1>7

\* A chain undoes itself checkpoint by checkpoint.
LEMMA ChainedUndoes ==
    ASSUME NEW s \in Stores, NEW w, Chained(s, w), NEW i \in DOMAIN s
    PROVE  Unwound(s, i, w) = Undo(s[i], Unwound(s, i + 1, w))
<1>1. /\ i \in 1..Len(s) /\ Len(s) \in Nat /\ i \in Nat /\ i > 0 /\ s[i] \in Manifests
      /\ i + 1 \in Nat /\ i + 1 > 0
  BY StoreFacts
<1>2. ASSUME NEW f \in Files
      PROVE  Unwound(s, i, w)[f] = IF Ready(s, i) /\ Names(s[i], f) THEN Before(s[i], f)
                                   ELSE Unwound(s, i + 1, w)[f]
  <2>1. CASE Ready(s, i) /\ Names(s[i], f)
    <3>1. i \in i..Len(s) /\ \A k \in i..(i - 1) : FALSE
      BY <1>1
    <3>2. Unwound(s, i, w)[f] = Before(s[i], f)
      BY <1>1, <2>1, <3>1, UnwoundIs
    <3> QED BY <2>1, <3>2
  <2>2. CASE ~(Ready(s, i) /\ Names(s[i], f))
    <3>1. CASE \E j \in i..Len(s) : Ready(s, j) /\ Names(s[j], f)
      <4>1. PICK j \in i..Len(s) : /\ Ready(s, j) /\ Names(s[j], f)
                                   /\ \A k \in i..(j - 1) : ~(Ready(s, k) /\ Names(s[k], f))
        BY <1>1, <3>1, UnwoundIs
      <4>2. j # i
        BY <2>2, <4>1
      <4>3. j \in (i + 1)..Len(s) /\ \A k \in (i + 1)..(j - 1) : k \in i..(j - 1)
        BY <1>1, <4>2
      <4>4. Unwound(s, i, w)[f] = Before(s[j], f)
        BY <1>1, <4>1, UnwoundIs
      <4>5. Unwound(s, i + 1, w)[f] = Before(s[j], f)
        BY <1>1, <4>1, <4>3, UnwoundIs
      <4> QED BY <2>2, <4>4, <4>5
    <3>2. CASE \A j \in i..Len(s) : ~(Ready(s, j) /\ Names(s[j], f))
      <4>1. \A j \in (i + 1)..Len(s) : j \in i..Len(s)
        BY <1>1
      <4>2. Unwound(s, i, w)[f] = w[f]
        BY <1>1, <3>2, UnwoundIs
      <4>3. Unwound(s, i + 1, w)[f] = w[f]
        BY <1>1, <3>2, <4>1, UnwoundIs
      <4> QED BY <2>2, <4>2, <4>3
    <3> QED BY <3>1, <3>2
  <2> QED BY <2>1, <2>2
<1> DEFINE d == Unwound(s, i + 1, w)
<1>3. d = [f \in Files |-> d[f]] /\ Unwound(s, i, w) = [f \in Files |-> Unwound(s, i, w)[f]]
  BY DEF Unwound
<1> HIDE DEF d
<1>4. CASE Ready(s, i)
  <2>1. ~Conflicted(d, s[i])
    BY <1>4 DEF Conflicted, Chained, Ready, d
  <2>2. s[i].status # "rewound"
    BY <1>4 DEF Ready
  <2>3. Undo(s[i], d) = [f \in Files |-> IF Names(s[i], f) THEN Before(s[i], f) ELSE d[f]]
    BY <2>1, <2>2 DEF Undo
  <2>4. \A f \in Files : Unwound(s, i, w)[f] = IF Names(s[i], f) THEN Before(s[i], f) ELSE d[f]
    BY <1>2, <1>4 DEF d
  <2>5. Unwound(s, i, w) = Undo(s[i], d)
    BY <1>3, <2>3, <2>4
  <2> QED BY <2>5 DEF d
<1>5. CASE ~Ready(s, i)
  <2>1. s[i].status = "rewound"
    BY <1>1, <1>5 DEF Manifests, Ready
  <2>2. Undo(s[i], d) = d
    BY <2>1 DEF Undo
  <2>3. \A f \in Files : Unwound(s, i, w)[f] = d[f]
    BY <1>2, <1>5 DEF d
  <2>4. Unwound(s, i, w) = Undo(s[i], d)
    BY <1>3, <2>2, <2>3
  <2> QED BY <2>4 DEF d
<1> QED
  BY <1>4, <1>5
-----------------------------------------------------------------------------
(* The chain through the actions                                            *)

\* The checkpoints of a state, and the latest one.
LEMMA StoreOf ==
    ASSUME IInv
    PROVE  cps \in Stores /\ \A c \in LatestReady : Latest(cps, c)
<1>1. cps \in Stores
  BY DEF IInv, TypeOK, Plans, Stores, Manifests
<1>2. \A c \in LatestReady : Latest(cps, c)
  BY DEF LatestReady, Latest, Ready
<1> QED
  BY <1>1, <1>2

\* The run begins.
LEMMA ChainBegins == Init => UInv
<1> SUFFICES ASSUME Init PROVE UInv
  OBVIOUS
<1>1. cps = <<>> /\ call = NoCall /\ pc = "idle" /\ prior = disk /\ disk = InitDisk /\ late = {}
  BY DEF Init
<1>2. Muts = {}
  BY <1>1 DEF Muts, NoCall, ToSet
<1>3. Placed
  BY <1>1, <1>2 DEF Placed, NoCall, Fresh, Written
<1>4. Chained(cps, prior)
  <2>1. cps \in Stores /\ Len(cps) = 0 /\ DOMAIN cps = {}
    BY <1>1 DEF Stores
  <2>2. \A f \in Files : Unwound(cps, 1, prior)[f] = prior[f]
    BY <2>1, UnwoundIs
  <2>3. prior \in [Files -> States]
    BY <1>1, DataAssumption DEF States
  <2>4. Unwound(cps, 1, prior) = [f \in Files |-> Unwound(cps, 1, prior)[f]]
    BY DEF Unwound
  <2>5. Unwound(cps, 1, prior) = InitDisk
    BY <1>1, <2>2, <2>3, <2>4
  <2> QED BY <2>1, <2>5 DEF Chained
<1>5. Undoable
  BY <1>1, <1>2, <1>4 DEF Undoable, NoCall
<1> QED
  BY <1>3, <1>5 DEF UInv

\* A call begins: it has read what is on the disk.
LEMMA ChainBegin == IInv /\ UInv /\ Begin => UInv'
<1> SUFFICES ASSUME IInv, UInv, Begin PROVE UInv'
  OBVIOUS
<1>1. PICK tool \in Tools, p \in EditPlans \cup WritePlans \cup PatchPlans :
        /\ tool # "checkpoint_rewind"
        /\ call' = [tool |-> tool, muts |-> p, cp |-> 0, result |-> "none"]
  <2>1. CASE \E p \in Changing(EditPlans) :
               call' = [NoCall EXCEPT !.tool = "edit_file", !.muts = p]
    <3>1. PICK p \in EditPlans : call' = [NoCall EXCEPT !.tool = "edit_file", !.muts = p]
      BY <2>1 DEF Changing
    <3>2. call' = [tool |-> "edit_file", muts |-> p, cp |-> 0, result |-> "none"]
      BY <3>1 DEF NoCall
    <3> QED BY <3>1, <3>2 DEF Tools
  <2>2. CASE \E p \in WritePlans :
               call' = [NoCall EXCEPT !.tool = "write_file", !.muts = p]
    <3>1. PICK p \in WritePlans : call' = [NoCall EXCEPT !.tool = "write_file", !.muts = p]
      BY <2>2
    <3>2. call' = [tool |-> "write_file", muts |-> p, cp |-> 0, result |-> "none"]
      BY <3>1 DEF NoCall
    <3> QED BY <3>1, <3>2 DEF Tools
  <2>3. CASE \E p \in Changing(PatchPlans) :
               call' = [NoCall EXCEPT !.tool = "apply_patch", !.muts = p]
    <3>1. PICK p \in PatchPlans : call' = [NoCall EXCEPT !.tool = "apply_patch", !.muts = p]
      BY <2>3 DEF Changing
    <3>2. call' = [tool |-> "apply_patch", muts |-> p, cp |-> 0, result |-> "none"]
      BY <3>1 DEF NoCall
    <3> QED BY <3>1, <3>2 DEF Tools
  <2> QED BY <2>1, <2>2, <2>3 DEF Begin
<1>2. /\ pc = "idle" /\ pc' = "capture" /\ prior = disk /\ late = {}
      /\ UNCHANGED <<disk, cps, prior, late, clean>>
  BY DEF Begin, Goto, fsVars, histVars, IInv, Calling, Quiet
<1>3. \A m \in ToSet(p) : m.before = disk[m.file]
  <2>1. \A k \in DOMAIN p : p[k].before = disk[p[k].file]
    <3>1. CASE p \in EditPlans \cup WritePlans
      BY <3>1 DEF EditPlans, WritePlans, Mutation
    <3>2. CASE p \in PatchPlans
      <4>1. PICK s \in SetToAllKPermutations(Files) \ {<<>>}, to \in [Files -> States] :
              p = [k \in DOMAIN s |-> Mutation(s[k], to[s[k]])]
        BY <3>2 DEF PatchPlans
      <4> QED BY <4>1 DEF Mutation
    <3> QED BY <3>1, <3>2
  <2> QED BY <2>1 DEF ToSet
<1>4. Muts' = ToSet(p)
  BY <1>1 DEF Muts
<1>5. Placed'
  BY <1>1, <1>2 DEF Placed, Fresh, Written
<1>6. ASSUME clean PROVE Undoable'
  <2>1. Chained(cps', prior')
    BY <1>2, <1>6 DEF UInv, Undoable
  <2> QED BY <1>1, <1>2, <1>3, <1>4, <2>1 DEF Undoable
<1> QED
  BY <1>2, <1>5, <1>6 DEF UInv

\* The plan of a rewind: every file that differs from the checkpoint, and no other.
LEMMA RewindPlansAll ==
    ASSUME TypeOK, NEW i \in DOMAIN cps, NEW p \in RewindPlans(cps[i])
    PROVE  /\ \A m \in ToSet(p) : \E e \in ToSet(cps[i].files) :
                e.file = m.file /\ m.after = e.before /\ m.before = disk[e.file]
           /\ \A e \in ToSet(cps[i].files) : e.before # disk[e.file] =>
                \E m \in ToSet(p) : m.file = e.file /\ m.after = e.before
<1> DEFINE list == cps[i].files
<1>1. PICK n, q : RewindOf(list, p, n, q)
  BY RewindOrder
<1> HIDE DEF list
<1> USE DEF RewindOf
<1>2. ToSet(list) = {list[k] : k \in DOMAIN list} /\ ToSet(p) = {p[k] : k \in 1..n}
  BY <1>1 DEF ToSet
<1>3. ASSUME NEW m \in ToSet(p)
      PROVE  \E e \in ToSet(list) : e.file = m.file /\ m.after = e.before /\ m.before = disk[e.file]
  <2>1. PICK k \in 1..n : m = p[k]
    BY <1>2
  <2>2. list[q[k]] \in ToSet(list)
    BY <1>1, <1>2
  <2> QED BY <1>1, <2>1, <2>2 DEF Mutation
<1>4. ASSUME NEW e \in ToSet(list), e.before # disk[e.file]
      PROVE  \E m \in ToSet(p) : m.file = e.file /\ m.after = e.before
  <2>1. PICK k \in DOMAIN list : e = list[k]
    BY <1>2
  <2>2. PICK j \in 1..n : q[j] = k
    BY <1>1, <1>4, <2>1
  <2>3. p[j] \in ToSet(p) /\ p[j].file = e.file /\ p[j].after = e.before
    BY <1>1, <1>2, <2>1, <2>2 DEF Mutation
  <2> QED BY <2>3
<1> QED
  BY <1>3, <1>4 DEF list

\* A rewind begins: the latest ready checkpoint is not refused.
LEMMA ChainBeginRewind == IInv /\ UInv /\ BeginRewind => UInv'
<1> SUFFICES ASSUME IInv, UInv, BeginRewind PROVE UInv'
  OBVIOUS
<1>1. PICK i, p :
        /\ i \in DOMAIN cps /\ p \in RewindPlans(cps[i])
        /\ call' = [tool |-> "checkpoint_rewind", muts |-> p, cp |-> i,
                    result |-> IF Conflicted(disk, cps[i]) THEN "rewind_conflict"
                               ELSE IF p = <<>> THEN "ok" ELSE "none"]
        /\ pc' = IF call'.result = "none" THEN "check" ELSE "settle"
        /\ clean' = (clean /\ i \in LatestReady)
  BY DEF BeginRewind, Goto
<1>2. /\ call'.muts = p /\ call'.tool = "checkpoint_rewind" /\ call'.cp = i
      /\ Conflicted(disk, cps[i]) \/ call'.result # "rewind_conflict"
      /\ call'.result = "ok" => p = <<>>
      /\ pc' \in {"check", "settle"}
  BY <1>1
<1>3. /\ pc = "idle" /\ prior = disk /\ late = {}
      /\ UNCHANGED <<disk, cps, prior, late>>
  BY DEF BeginRewind, fsVars, IInv, Calling, Quiet
<1>4. Muts' = ToSet(p)
  BY <1>2 DEF Muts
<1>5. Placed'
  BY <1>2, <1>3 DEF Placed
<1>6. ASSUME clean, i \in LatestReady PROVE Undoable'
  <2>1. Chained(cps, disk) /\ Chained(cps', prior')
    BY <1>3, <1>6 DEF UInv, Undoable
  <2>2. cps \in Stores /\ Latest(cps, i)
    BY <1>6, StoreOf
  <2>3. ASSUME NEW e \in ToSet(cps[i].files) PROVE disk[e.file] \in {e.before, e.after}
    <3>1. e.file \in Files
      BY <1>1, <2>2, StoreFacts DEF Mutations
    <3>2. Unwound(cps, i + 1, disk)[e.file] = disk[e.file]
      BY <2>2, <3>1, UnwoundAbove
    <3> QED BY <2>1, <2>2, <3>2 DEF Chained, Latest, Ready
  <2>4. call'.result # "rewind_conflict"
    BY <1>2, <2>3 DEF Conflicted
  <2>5. /\ \A m \in ToSet(p) : \E e \in ToSet(cps[i].files) :
             e.file = m.file /\ m.after = e.before /\ m.before = disk[e.file]
        /\ \A e \in ToSet(cps[i].files) : e.before # disk[e.file] =>
             \E m \in ToSet(p) : m.file = e.file /\ m.after = e.before
    BY <1>1, RewindPlansAll DEF IInv
  <2>6. Restoring(cps[i])'
    BY <1>3, <1>4, <2>5 DEF Restoring
  <2>7. \A m \in Muts' : m.before = prior'[m.file]
    BY <1>3, <1>4, <2>5
  <2>8. call'.result = "ok" => Muts' = {}
    BY <1>2, <1>4 DEF ToSet
  <2>9. call'.cp \in LatestReady'
    BY <1>2, <1>3, <1>6 DEF LatestReady
  <2> QED BY <1>2, <1>3, <2>1, <2>4, <2>6, <2>7, <2>8, <2>9 DEF Undoable
<1> QED
  BY <1>1, <1>5, <1>6 DEF UInv

\* The checkpoint is taken: it knows what the files hold.
LEMMA ChainCapture == IInv /\ IInv' /\ UInv /\ Capture => UInv'
<1> SUFFICES ASSUME IInv, IInv', UInv, Capture PROVE UInv'
  OBVIOUS
<1>1. /\ pc = "capture" /\ call'.muts = call.muts /\ call'.tool = call.tool
      /\ UNCHANGED <<disk, prior, late, clean>> /\ prior = disk /\ late = {}
      /\ call.tool # "checkpoint_rewind" /\ call.cp = 0
  BY DEF Capture, Result, IInv, TypeOK, fsVars, histVars, Calling, Quiet, Fresh, UInv, Placed
<1>2. Muts' = Muts
  BY <1>1 DEF Muts
<1>3. cps \in Stores /\ cps' \in Stores
  <2>1. cps \in Stores
    BY StoreOf
  <2>2. cps' \in Stores
    BY DEF IInv, TypeOK, Plans, Stores, Manifests
  <2> QED BY <2>1, <2>2
<1>4. Len(cps) \in Nat /\ DOMAIN cps = 1..Len(cps)
  BY <1>3, StoreFacts
<1>5. CASE /\ cps' = Append(cps, [files |-> call.muts, status |-> "ready"])
           /\ call' = [call EXCEPT !.cp = Len(cps) + 1]
           /\ pc' \in {"stage", "check"} /\ Current
  <2> DEFINE c == Len(cps) + 1
  <2>1. call'.cp = c /\ call'.result = call.result /\ c # 0 /\ c \in Nat
    BY <1>4, <1>5 DEF IInv, TypeOK
  <2>2. Placed'
    BY <1>1, <1>2, <1>5, <2>1 DEF Placed, UInv
  <2>3. /\ Len(cps') = c /\ cps'[c] = [files |-> call.muts, status |-> "ready"]
        /\ \A j \in 1..(c - 1) : cps'[j] = cps[j]
    BY <1>3, <1>5 DEF Stores
  <2> HIDE DEF c
  <2>4. Latest(cps', c)
    <3>1. c \in DOMAIN cps'
      BY <1>3, <2>1, <2>3, StoreFacts
    <3>2. \A j \in (c + 1)..Len(cps') : FALSE
      BY <2>1, <2>3
    <3> QED BY <2>3, <3>1, <3>2 DEF Latest, Ready
  <2>5. Without(cps, cps', c)
    <3>1. Len(cps) = c - 1 /\ Len(cps) <= c /\ \A j \in c..Len(cps) : FALSE
      BY <1>4 DEF c
    <3> QED BY <2>3, <3>1 DEF Without
  <2>6. \A e \in ToSet(cps'[c].files) : disk[e.file] = e.before
    BY <1>5, <2>3 DEF Current, Muts
  <2>7. Restored(cps'[c], disk, disk)
    BY <2>6 DEF Restored, Besides
  <2>8. ASSUME clean PROVE Undoable'
    <3>1. Chained(cps, disk)
      BY <1>1, <2>8 DEF UInv, Undoable
    <3>2. Chained(cps', disk)
      BY <1>3, <2>4, <2>5, <2>6, <2>7, <3>1, ChainedWithout
    <3> QED BY <1>1, <1>2, <1>5, <2>1, <2>3, <2>8, <3>2 DEF UInv, Undoable
  <2> QED BY <1>1, <2>2, <2>8 DEF UInv
<1>6. CASE /\ cps' = cps /\ pc' = "settle"
           /\ \E r \in {"concurrent_change", "os_error"} : call' = [call EXCEPT !.result = r]
  <2>1. call'.cp = call.cp /\ call'.result \in {"concurrent_change", "os_error"}
    BY <1>6 DEF IInv, TypeOK
  <2>2. Placed'
    BY <1>1, <1>2, <1>6, <2>1 DEF Placed, UInv, Fresh, Written
  <2>3. clean => Undoable'
    BY <1>1, <1>2, <1>6, <2>1 DEF UInv, Undoable
  <2> QED BY <1>1, <2>2, <2>3 DEF UInv
<1> QED
  BY <1>5, <1>6 DEF Capture, Result, Goto

\* A step inside a call that leaves the checkpoints alone.
LEMMA ChainInside ==
    ASSUME IInv, UInv, UNCHANGED <<cps, prior, clean, late>>,
           call'.muts = call.muts, call'.tool = call.tool, call'.cp = call.cp,
           call'.result = call.result \/ call'.result # "rewind_conflict",
           pc \in (Fresh \cup Written) \ {"capture"},
           pc' \in (Fresh \cup Written \cup {"settle"}) \ {"capture"},
           pc' = "finally" => call'.result # "ok",
           \A f \in Files : (\A m \in Muts : m.file # f) => disk'[f] = disk[f],
           late = {} /\ pc' = "settle" /\ call'.result = "ok" =>
              \A m \in Muts : disk'[m.file] = m.after
    PROVE  UInv'
<1>1. Muts' = Muts
  BY DEF Muts
<1>2. Placed'
  BY <1>1 DEF UInv, Placed, Fresh, Written
<1>3. ASSUME clean PROVE Undoable'
  <2>1. Undoable
    BY <1>3 DEF UInv
  <2>2. LatestReady' = LatestReady
    BY DEF LatestReady
  <2>3. pc' # "dead"
    BY DEF Fresh, Written
  <2>4. Restoring(cps[call.cp])' = Restoring(cps[call.cp])
    BY <1>1 DEF Restoring
  <2>5. late' = {} /\ call'.result # "rewind_conflict" /\ Chained(cps', prior')
    BY <2>1 DEF Undoable
  <2>6. \A m \in Muts' : m.before = prior'[m.file]
    BY <1>1, <2>1 DEF Undoable
  <2>7. call'.tool # "checkpoint_rewind" /\ call'.cp # 0 =>
          call'.cp = Len(cps') /\ cps'[call'.cp] = [files |-> call'.muts, status |-> "ready"]
    BY <2>1 DEF Undoable
  <2>8. call'.tool = "checkpoint_rewind" =>
          call'.cp \in LatestReady' /\ Restoring(cps[call.cp])'
    BY <2>1, <2>2, <2>4 DEF Undoable
  <2>9. pc' = "settle" /\ call'.result = "ok" => \A m \in Muts' : disk'[m.file] = m.after
    BY <1>1, <2>1 DEF Undoable
  <2> QED BY <2>3, <2>5, <2>6, <2>7, <2>8, <2>9 DEF Undoable
<1> QED
  BY <1>2, <1>3 DEF UInv

\* Checks, temporary files, the commit, the roll-back and what follows them.
LEMMA ChainSteps ==
    ASSUME IInv, UInv,
           Check \/ Stage \/ Recheck \/ Swap \/ Sync \/ MoveAside \/ Install \/ Rollback
           \/ Cleanup \/ Finally
    PROVE  UInv'
<1> USE DEF IInv
<1>1. /\ UNCHANGED <<cps, prior, clean, late>>
      /\ call'.muts = call.muts /\ call'.tool = call.tool /\ call'.cp = call.cp
  BY DEF Check, Stage, Recheck, Swap, Sync, MoveAside, Install, Rollback, Cleanup, Finally,
     Result, histVars, TypeOK
<1>2. pc \in (Fresh \cup Written) \ {"capture"}
  BY DEF Check, Stage, Recheck, Swap, Sync, MoveAside, Install, Rollback, Cleanup, Finally,
     Fresh, Written
<1>3. CASE Check \/ Stage \/ Recheck
  <2>1. /\ pc' \in {"stage", "recheck", "swap", "commit", "settle", "finally"}
        /\ call'.result \in {"none", "concurrent_change", "os_error"} /\ disk' = disk
    BY <1>3 DEF Check, Stage, Recheck, Goto, Result, fsVars, TypeOK, Calling, Fresh
  <2> QED BY <1>1, <1>2, <2>1, ChainInside DEF Fresh, Written
<1>4. CASE Swap
  <2>1. Mut \in Muts /\ Mut.file \in Files
    BY <1>4, MutFacts DEF Swap, Calling
  <2>2. \A f \in Files : (\A m \in Muts : m.file # f) => disk'[f] = disk[f]
    BY <1>4, <2>1 DEF Swap, TypeOK
  <2>3. pc' \in {"sync", "finally"} /\ call'.result \in {"none", "os_error"}
    BY <1>4 DEF Swap, Goto, Result, TypeOK, Calling, Written
  <2> QED BY <1>1, <1>2, <2>2, <2>3, ChainInside DEF Written
<1>5. CASE Sync
  <2>1. pc' = "settle" /\ call'.result \in {"ok", "os_error"} /\ disk' = disk
    BY <1>5 DEF Sync, Goto, Result, TypeOK, fsVars
  <2>2. late = {} => \A m \in Muts : disk[m.file] = m.after
    BY <1>5 DEF Sync, Holds
  <2> QED BY <1>1, <1>2, <2>1, <2>2, ChainInside
<1>6. CASE MoveAside \/ Install
  <2>1. Mut \in Muts /\ Mut.file \in Files
    BY <1>6, MutFacts DEF MoveAside, Install, Calling, Written
  <2>2. \A f \in Files : (\A m \in Muts : m.file # f) => disk'[f] = disk[f]
    BY <1>6, <2>1 DEF MoveAside, Install, TypeOK
  <2>3. pc' \in {"commit", "cleanup", "rollback"} /\ call'.result = call.result
    BY <1>6 DEF MoveAside, Install, Goto, Advance
  <2> QED BY <1>1, <1>2, <2>2, <2>3, ChainInside DEF Written
<1>7. CASE Rollback
  <2>1. Mut \in Muts /\ Mut.file \in Files
    BY <1>7, MutFacts DEF Rollback, Calling, Written
  <2>2. \A f \in Files : (\A m \in Muts : m.file # f) => disk'[f] = disk[f]
    BY <1>7, <2>1 DEF Rollback, TypeOK
  <2>3. /\ pc' \in {"rollback", "finally"}
        /\ call'.result \in {"none", "commit_failed", "rollback_failed"}
    BY <1>7 DEF Rollback, Goto, Result, Calling, Written, TypeOK
  <2> QED BY <1>1, <1>2, <2>2, <2>3, ChainInside DEF Written
<1>8. CASE Cleanup
  <2>1. /\ \/ pc' = "settle" /\ call'.result = "ok"
           \/ pc' = "finally" /\ call'.result = "os_error"
        /\ disk' = disk
    BY <1>8 DEF Cleanup, Goto, Result, TypeOK
  <2>2. late = {} => \A m \in Muts : disk[m.file] = m.after
    BY <1>8 DEF Cleanup, Holds
  <2> QED BY <1>1, <1>2, <2>1, <2>2, ChainInside DEF Written
<1>9. CASE Finally
  <2>1. pc' = "settle" /\ call'.result \in {call.result, "os_error"} /\ disk' = disk
        /\ call.result # "ok"
    BY <1>9 DEF Finally, Goto, Result, TypeOK, UInv, Placed
  <2> QED BY <1>1, <1>2, <2>1, ChainInside
<1> QED
  BY <1>3, <1>4, <1>5, <1>6, <1>7, <1>8, <1>9

\* A call that leaves its files in a state its checkpoint knows leaves the chain whole.
LEMMA ChainedNow ==
    ASSUME IInv, UInv, clean,
           InKnownState \/ \A m \in Muts : disk[m.file] = m.after
    PROVE  Chained(cps, disk)
<1>1. cps \in Stores
  BY StoreOf
<1>2. /\ Placed /\ Undoable /\ \A m \in Muts : m \in Mutations
      /\ \A m \in Muts : disk[m.file] \in {m.before, m.after} /\ m.before = prior[m.file]
  BY MutsFacts DEF IInv, UInv, Undoable, InKnownState
<1>3. CASE call.tool # "checkpoint_rewind" /\ call.cp = 0
  BY <1>2, <1>3 DEF Placed, Undoable
<1>4. CASE call.tool # "checkpoint_rewind" /\ call.cp # 0
  <2> DEFINE c == call.cp
  <2>1. c = Len(cps) /\ cps[c] = [files |-> call.muts, status |-> "ready"]
    BY <1>2, <1>4 DEF Undoable
  <2>2. c \in DOMAIN cps /\ c \in Nat
    BY <1>1, <1>4, <2>1, StoreFacts DEF IInv, TypeOK
  <2> HIDE DEF c
  <2>3. \A j \in (c + 1)..Len(cps) : FALSE
    BY <2>1, <2>2
  <2>4. Latest(cps, c)
    BY <2>1, <2>2, <2>3 DEF Latest, Ready
  <2>5. ToSet(cps[c].files) = Muts
    BY <2>1 DEF Muts
  <2>6. Besides(cps[c], prior, disk)
    BY <1>2, <2>5 DEF Besides, Names, Placed
  <2>7. \A e \in ToSet(cps[c].files) : disk[e.file] \in {e.before, e.after}
    BY <1>2, <2>5
  <2> QED BY <1>1, <1>2, <2>4, <2>6, <2>7, ChainedKept DEF Undoable
<1>5. CASE call.tool = "checkpoint_rewind"
  <2> DEFINE c == call.cp
  <2>1. Latest(cps, c) /\ Restoring(cps[c]) /\ c \in DOMAIN cps /\ Chained(cps, prior)
    BY <1>2, <1>5, StoreOf DEF Undoable, Latest
  <2> HIDE DEF c
  <2>2. Besides(cps[c], prior, disk)
    BY <1>2, <2>1 DEF Besides, Names, Restoring, Placed
  <2>3. ASSUME NEW e \in ToSet(cps[c].files) PROVE disk[e.file] \in {e.before, e.after}
    <3>1. e.file \in Files
      BY <1>1, <2>1, StoreFacts DEF Mutations
    <3>2. Unwound(cps, c + 1, prior)[e.file] = prior[e.file]
      BY <1>1, <2>1, <3>1, UnwoundAbove
    <3>3. prior[e.file] \in {e.before, e.after}
      BY <2>1, <3>2 DEF Chained, Latest, Ready
    <3>4. CASE \E m \in Muts : m.file = e.file
      <4>1. PICK m \in Muts : m.file = e.file
        BY <3>4
      <4>2. m.after = e.before
        <5>1. PICK d \in ToSet(cps[c].files) : d.file = m.file /\ m.after = d.before
          BY <2>1 DEF Restoring
        <5>2. d = e
          BY <1>1, <2>1, <4>1, <5>1, StoreFacts
        <5> QED BY <5>1, <5>2
      <4> QED BY <1>2, <3>3, <4>1, <4>2
    <3>5. CASE ~ \E m \in Muts : m.file = e.file
      <4>1. disk[e.file] = prior[e.file]
        BY <1>2, <3>1, <3>5 DEF Placed
      <4> QED BY <3>3, <4>1
    <3> QED BY <3>4, <3>5
  <2> QED BY <1>1, <2>1, <2>2, <2>3, ChainedKept
<1> QED
  BY <1>3, <1>4, <1>5

\* A call ends with the chain whole.
LEMMA ChainEnds ==
    ASSUME EndCall, UNCHANGED disk, clean' => Chained(cps', disk)
    PROVE  UInv'
<1>1. /\ call' = NoCall /\ pc' = "idle" /\ late' = {} /\ prior' = disk /\ disk' = disk
  BY DEF EndCall, Goto
<1>2. Muts' = {}
  BY <1>1 DEF Muts, NoCall, ToSet
<1>3. Placed'
  BY <1>1, <1>2 DEF Placed, NoCall, Fresh, Written
<1>4. clean' => Undoable'
  BY <1>1, <1>2 DEF Undoable, NoCall
<1> QED
  BY <1>3, <1>4 DEF UInv

\* A rewind that marks its checkpoint: the files hold what it restored.
LEMMA ChainMarked ==
    ASSUME IInv, UInv, cps' \in Stores, clean, call.tool = "checkpoint_rewind",
           \A m \in Muts : disk[m.file] = m.after,
           cps' = [cps EXCEPT ![call.cp].status = "rewound"]
    PROVE  Chained(cps', disk)
<1> DEFINE c == call.cp
<1>1. cps \in Stores /\ Placed /\ Undoable
  BY StoreOf DEF UInv
<1>2. Latest(cps, c) /\ Restoring(cps[c]) /\ c \in DOMAIN cps /\ Chained(cps, prior)
  BY <1>1, StoreOf DEF Undoable, Latest
<1>3. Restored(cps[c], prior, disk)
  <2>1. Besides(cps[c], prior, disk)
    BY <1>1, <1>2 DEF Besides, Names, Restoring, Placed
  <2>2. ASSUME NEW e \in ToSet(cps[c].files) PROVE disk[e.file] = e.before
    <3>1. e.file \in Files
      BY <1>1, <1>2, StoreFacts DEF Mutations
    <3>2. CASE \E m \in Muts : m.file = e.file
      <4>1. PICK m \in Muts : m.file = e.file
        BY <3>2
      <4>2. PICK d \in ToSet(cps[c].files) : d.file = m.file /\ m.after = d.before
        BY <1>2 DEF Restoring
      <4>3. d = e
        BY <1>1, <1>2, <4>1, <4>2, StoreFacts
      <4> QED BY <4>1, <4>2, <4>3
    <3>3. CASE ~ \E m \in Muts : m.file = e.file
      <4>1. disk[e.file] = prior[e.file]
        BY <1>1, <3>1, <3>3 DEF Placed
      <4>2. e.before = prior[e.file]
        BY <1>2, <3>3 DEF Restoring
      <4> QED BY <4>1, <4>2
    <3> QED BY <3>2, <3>3
  <2> QED BY <2>1, <2>2 DEF Restored
<1>4. Without(cps', cps, c)
  <2>1. c \in 1..Len(cps) /\ Len(cps) \in Nat /\ DOMAIN cps = 1..Len(cps)
    BY <1>1, <1>2, StoreFacts
  <2>2. DOMAIN cps' = DOMAIN cps /\ \A j \in DOMAIN cps : j # c => cps'[j] = cps[j]
    BY <2>1
  <2>3. cps'[c].status = "rewound"
    <3>1. cps'[c] = [cps[c] EXCEPT !.status = "rewound"]
      BY <2>1
    <3>2. cps[c] \in Manifests
      BY <1>1, <1>2, StoreFacts
    <3> QED BY <3>1, <3>2 DEF Manifests
  <2>4. Len(cps') = Len(cps)
    BY <1>1, <2>1, <2>2, StoreFacts
  <2> HIDE DEF c
  <2>5. \A j \in c..Len(cps') : ~Ready(cps', j)
    <3> SUFFICES ASSUME NEW j \in c..Len(cps') PROVE ~Ready(cps', j)
      OBVIOUS
    <3>1. CASE j = c
      BY <2>3, <3>1 DEF Ready
    <3>2. CASE j # c
      <4>1. j \in (c + 1)..Len(cps) /\ j \in DOMAIN cps
        BY <2>1, <2>4, <3>2
      <4> QED BY <1>2, <2>2, <3>2, <4>1 DEF Latest, Ready
    <3> QED BY <3>1, <3>2
  <2>6. \A j \in 1..(c - 1) : j \in DOMAIN cps /\ j # c
    BY <2>1
  <2>7. Len(cps') >= c - 1 /\ Len(cps') <= Len(cps)
    BY <2>1, <2>4
  <2> QED BY <2>2, <2>5, <2>6, <2>7 DEF Without
<1> HIDE DEF c
<1> QED
  BY <1>1, <1>2, <1>3, <1>4, ChainedWithout

\* A failed call that discards its checkpoint: the files hold what it read.
LEMMA ChainDiscarded ==
    ASSUME IInv, UInv, cps' \in Stores, clean, Current,
           call.tool # "checkpoint_rewind", call.cp # 0, cps' = Front(cps)
    PROVE  Chained(cps', disk)
<1> DEFINE c == call.cp
<1>1. cps \in Stores /\ Placed /\ Undoable /\ Chained(cps, prior)
  BY StoreOf DEF UInv, Undoable
<1>2. c = Len(cps) /\ cps[c] = [files |-> call.muts, status |-> "ready"]
  BY <1>1 DEF Undoable
<1>3. c \in DOMAIN cps /\ c \in Nat /\ c > 0
  BY <1>1, <1>2, StoreFacts DEF IInv, TypeOK
<1> HIDE DEF c
<1>4. Latest(cps, c)
  <2>1. \A j \in (c + 1)..Len(cps) : FALSE
    BY <1>2, <1>3
  <2> QED BY <1>2, <1>3, <2>1 DEF Latest, Ready
<1>5. ToSet(cps[c].files) = Muts
  BY <1>2 DEF Muts
<1>6. Restored(cps[c], prior, disk)
  BY <1>1, <1>5 DEF Restored, Besides, Names, Placed, Current
<1>7. Without(cps', cps, c)
  <2>1. cps' = [j \in 1..(c - 1) |-> cps[j]]
    BY <1>2 DEF Front
  <2>2. Len(cps') = c - 1 /\ \A j \in 1..(c - 1) : cps'[j] = cps[j]
    BY <1>3, <2>1
  <2>3. \A j \in c..Len(cps') : FALSE
    BY <1>3, <2>2
  <2> QED BY <1>2, <1>3, <2>2, <2>3 DEF Without
<1> QED
  BY <1>1, <1>4, <1>6, <1>7, ChainedWithout

\* The call ends.
LEMMA ChainSettle == IInv /\ IInv' /\ UInv /\ Settle => UInv'
<1> SUFFICES ASSUME IInv, IInv', UInv, Settle PROVE UInv'
  OBVIOUS
<1>1. cps' \in Stores
  BY DEF IInv, TypeOK, Plans, Stores, Manifests
<1>2. /\ EndCall /\ UNCHANGED disk /\ pc = "settle"
      /\ clean' => /\ clean
                   /\ call.result \in {"ok", "rewind_conflict"} \/ InKnownState
                   /\ Len(cps') < Len(cps) => Current
  BY DEF Settle
<1>3. ASSUME clean' PROVE Chained(cps', disk)
  <2>1. /\ clean /\ Undoable
        /\ call.result = "ok" => \A m \in Muts : disk[m.file] = m.after
        /\ call.result # "ok" => InKnownState
    BY <1>2, <1>3 DEF UInv, Undoable
  <2>2. CASE cps' = cps
    BY <2>1, <2>2, ChainedNow
  <2>3. CASE /\ call.tool = "checkpoint_rewind" /\ call.result = "ok"
             /\ cps' = [cps EXCEPT ![call.cp].status = "rewound"]
    BY <1>1, <2>1, <2>3, ChainMarked
  <2>4. CASE call.tool # "checkpoint_rewind" /\ call.cp # 0 /\ cps' = Front(cps)
    <3>1. Len(cps) \in Nat /\ Len(cps) > 0
      BY <2>4, StoreOf, StoreFacts DEF IInv, TypeOK
    <3>2. cps' = [j \in 1..(Len(cps) - 1) |-> cps[j]] /\ Len(cps) - 1 \in Nat
      BY <2>4, <3>1 DEF Front
    <3>3. Len(cps') < Len(cps)
      BY <3>1, <3>2
    <3>4. Current
      BY <1>2, <1>3, <3>3
    <3> QED BY <1>1, <2>1, <2>4, <3>4, ChainDiscarded
  <2> QED BY <2>2, <2>3, <2>4 DEF Settle, SettleCheckpoints
<1> QED
  BY <1>2, <1>3, ChainEnds

\* Another process writes, the daemon is killed, a store is opened again.
LEMMA ChainMishaps == IInv /\ UInv /\ (OutsideWrite \/ Kill \/ Reopen) => UInv'
<1> SUFFICES ASSUME IInv, UInv, OutsideWrite \/ Kill \/ Reopen PROVE UInv'
  OBVIOUS
<1>1. CASE OutsideWrite
  <2>1. PICK f \in Files, c \in States :
          disk' = [disk EXCEPT ![f] = c] /\ prior' = [prior EXCEPT ![f] = c]
    BY <1>1 DEF OutsideWrite
  <2>2. call' = call /\ pc' = pc /\ clean' = FALSE
    BY <1>1 DEF OutsideWrite
  <2>3. disk \in [Files -> States] /\ prior \in [Files -> States]
    BY DEF IInv, TypeOK
  <2>4. \A g \in Files : disk[g] = prior[g] => disk'[g] = prior'[g]
    BY <2>1, <2>3
  <2>5. disk = prior => disk' = prior'
    BY <2>1
  <2>6. Muts' = Muts
    BY <2>2 DEF Muts
  <2>7. Placed'
    BY <2>2, <2>4, <2>5, <2>6 DEF UInv, Placed
  <2> QED BY <2>2, <2>7 DEF UInv
<1>2. CASE Kill
  <2>1. /\ UNCHANGED <<disk, cps, call, prior, late>> /\ pc' = "dead"
        /\ clean' = (clean /\ InKnownState)
    BY <1>2 DEF Kill, Goto, fsVars
  <2>2. Muts' = Muts /\ LatestReady' = LatestReady /\ InKnownState' = InKnownState
    BY <2>1 DEF Muts, LatestReady, InKnownState
  <2>3. Placed'
    BY <2>1, <2>2 DEF UInv, Placed, Fresh, Written
  <2>4. Restoring(cps[call.cp])' = Restoring(cps[call.cp])
    BY <2>1, <2>2 DEF Restoring
  <2>5. clean' => Undoable'
    BY <2>1, <2>2, <2>4 DEF UInv, Undoable
  <2> QED BY <2>3, <2>5 DEF UInv
<1>3. CASE Reopen
  <2>1. EndCall /\ UNCHANGED <<disk, cps, clean>> /\ pc = "dead"
    BY <1>3 DEF Reopen
  <2>2. clean => InKnownState
    BY <2>1 DEF UInv, Undoable
  <2>3. clean' => Chained(cps', disk)
    BY <2>1, <2>2, ChainedNow
  <2> QED BY <2>1, <2>3, ChainEnds
<1> QED
  BY <1>1, <1>2, <1>3
-----------------------------------------------------------------------------
(* The properties                                                           *)

\* Every reachable state satisfies IInv: the step of every action, and of none.
THEOREM InductiveInvariant == Spec => []IInv
<1>1. ASSUME IInv, [Next]_vars PROVE IInv'
  <2>1. CASE Next
    BY <1>1, <2>1, BeginKeeps, BeginRewindKeeps, CaptureKeeps, CheckKeeps, StageKeeps,
       RecheckKeeps, SwapKeeps, SyncKeeps, MoveAsideKeeps, InstallKeeps, RollbackKeeps,
       CleanupKeeps, FinallyKeeps, SettleKeeps, OutsideWriteKeeps, KillKeeps,
       ReopenKeeps DEF Next
  <2>2. CASE UNCHANGED vars
    <3>1. TypeOK' /\ Plans' /\ Calling'
      BY <1>1, <2>2 DEF IInv, TypeOK, Plans, Calling, Quiet, vars, fsVars, commitVars, histVars,
         boundVars
    <3>2. Muts' = Muts /\ Mut' = Mut
      BY <2>2 DEF Muts, Mut, vars, commitVars
    <3>3. ReadRight' /\ Commits' /\ Holds'
      BY <1>1, <2>2, <3>2 DEF IInv, ReadRight, Commits, Tracked, Untouched, Done, Holds,
         NothingLost, vars, fsVars, commitVars, histVars
    <3> QED BY <3>1, <3>3 DEF IInv
  <2> QED BY <1>1, <2>1, <2>2
<1> QED
  BY <1>1, InitInv, PTL DEF Spec

\* The types, and a call that names a mutation and a checkpoint that exist.
THEOREM TypeCorrect == Spec => []TypeOK
<1>1. IInv => TypeOK
  BY DEF IInv
<1> QED
  BY <1>1, InductiveInvariant, PTL

\* A transaction that reports concurrent_change or commit_failed has changed no
\* file, but for what others wrote after its last check (apply_file_transaction,
\* _rollback).
THEOREM AllOrNone == Spec => []AllOrNothing
<1>1. IInv => AllOrNothing
  BY DEF IInv, Holds, AllOrNothing
<1> QED
  BY <1>1, InductiveInvariant, PTL

\* Whenever the daemon is killed, the old content of a file of the call is in the
\* file or in its backup, or the new content is in place; only a file whose
\* roll-back failed may be worse off (apply_file_transaction, atomic_write_bytes).
THEOREM OldOrNew == Spec => []NothingLost
<1> QED
  BY NeverLost, InductiveInvariant, PTL

\* What the commit and edit_file replace is what the tool has read, unless another
\* process wrote it after the last comparison (_assert_current).
THEOREM ReadBeforeOverwritten == Spec => OverwritesOnlyRead
<1> DEFINE Known(f) == \/ f \in late'
                       \/ disk[f] = prior[f] /\ \E m \in Muts : m.file = f /\ m.before = prior[f]
                       \/ backup[f] # Absent
           Overwrites == \A f \in Files :
                           (disk'[f] # disk[f] /\ pc \in {"swap", "commit"}) => Known(f)
<1>1. ASSUME IInv, [Next]_vars PROVE Overwrites
  <2> SUFFICES ASSUME NEW f \in Files, disk'[f] # disk[f], pc \in {"swap", "commit"}
               PROVE  Known(f)
    OBVIOUS
  <2> USE <1>1 DEF IInv
  <2>1. /\ Mut \in Muts /\ Mut.file \in Files
        /\ Mut.file \notin late => prior[Mut.file] = Mut.before
    BY MutFacts DEF Calling, ReadRight, Written
  <2>2. Swap \/ MoveAside \/ Install \/ OutsideWrite
    BY DEF Next, Begin, BeginRewind, Capture, Check, Stage, Recheck, Sync, Rollback, Cleanup,
       Finally, Settle, Kill, Reopen, vars, fsVars
  <2>3. CASE Swap
    <3>1. f = Mut.file /\ late' = late
      BY <2>1, <2>3 DEF Swap, histVars, TypeOK
    <3>2. f \notin late => disk[f] = prior[f]
      BY <2>1, <2>3, <3>1 DEF Swap, Holds
    <3> QED BY <2>1, <3>1, <3>2
  <2>4. CASE MoveAside
    <3>1. f = Mut.file /\ late' = late /\ pc = "commit"
      BY <2>1, <2>4 DEF MoveAside, histVars, TypeOK
    <3>2. f \notin late => disk[f] = prior[f] \/ backup[f] # Absent
      BY <2>1, <3>1 DEF Commits, Calling, Tracked, Written
    <3> QED BY <2>1, <3>1, <3>2
  <2>5. CASE Install
    <3>1. f = Mut.file /\ late' = late /\ pc = "commit"
      BY <2>1, <2>5 DEF Install, histVars, TypeOK
    <3>2. f \notin late => disk[f] = prior[f] \/ backup[f] # Absent
      BY <2>1, <3>1 DEF Commits, Calling, Tracked, Written
    <3> QED BY <2>1, <3>1, <3>2
  <2>6. CASE OutsideWrite
    BY <2>6 DEF OutsideWrite
  <2> QED BY <2>2, <2>3, <2>4, <2>5, <2>6
<1>2. Overwrites = \A f \in Files :
          (disk'[f] # disk[f] /\ pc \in {"swap", "commit"}) =>
              \/ f \in late'
              \/ disk[f] = prior[f] /\ \E m \in Muts : m.file = f /\ m.before = prior[f]
              \/ backup[f] # Absent
  OBVIOUS
<1> QED
  BY <1>1, <1>2, InductiveInvariant, PTL DEF Spec, OverwritesOnlyRead

\* Rewinding the latest ready checkpoint again and again goes back through every
\* workspace its call found, to the one the run began with
\* (CheckpointStore.create, discard, mark_rewound, checkpoint_rewind).
THEOREM UndoChainHolds == Spec => []UndoChain
<1>1. Init => IInv /\ UInv
  BY InitInv, ChainBegins
<1>2. ASSUME IInv /\ UInv, IInv', [Next]_vars PROVE UInv'
  <2>1. CASE Next
    BY <1>2, <2>1, ChainBegin, ChainBeginRewind, ChainCapture, ChainSteps, ChainSettle,
       ChainMishaps DEF Next
  <2>2. CASE UNCHANGED vars
    <3>1. /\ UNCHANGED <<disk, cps, call, prior, late, clean, pc>>
      BY <2>2 DEF vars, fsVars, histVars
    <3>2. Muts' = Muts /\ LatestReady' = LatestReady /\ InKnownState' = InKnownState
      BY <3>1 DEF Muts, LatestReady, InKnownState
    <3>3. Restoring(cps[call.cp])' = Restoring(cps[call.cp])
      BY <3>1, <3>2 DEF Restoring
    <3>4. Placed'
      BY <1>2, <3>1, <3>2 DEF UInv, Placed
    <3>5. clean => Undoable'
      BY <1>2, <3>1, <3>2, <3>3 DEF UInv, Undoable
    <3> QED BY <3>1, <3>4, <3>5 DEF UInv
  <2> QED BY <1>2, <2>1, <2>2
<1>3. IInv /\ UInv => UndoChain
  <2> SUFFICES ASSUME IInv, UInv, pc = "idle", clean
               PROVE  /\ \A i \in DOMAIN cps :
                           Unwound(cps, i, disk) = Undo(cps[i], Unwound(cps, i + 1, disk))
                      /\ Unwound(cps, 1, disk) = InitDisk
    BY DEF UndoChain
  <2>1. cps \in Stores /\ Chained(cps, disk)
    BY StoreOf DEF IInv, Calling, Quiet, UInv, Undoable
  <2> QED BY <2>1, ChainedUndoes DEF Chained
<1> QED
  BY <1>1, <1>2, <1>3, InductiveInvariant, PTL DEF Spec
=============================================================================
