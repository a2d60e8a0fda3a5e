-------------------------- MODULE BackgroundProofs --------------------------
(***************************************************************************)
(* Theorems about Background, for every set of jobs, runs and commands.    *)
(***************************************************************************)
EXTENDS Background, SequenceTheorems, TLAPS

\* A call belongs to a job that was started.
CallsStarted ==
    \A r \in Runs : call[r].phase # "idle" =>
        call[r].job \in Jobs /\ pc[call[r].job] # "none"

CutStarted == \A j \in cut : pc[j] # "none"

\* The awaits of BashTool.invoke in which a process may be alive.
Commanding == {"run", "term", "kill", "eof", "reap", "reapeof"}

\* Outside them nobody holds the pipe, unless the job was interrupted in one.
TreeHeld == \A j \in Jobs : pc[j] \notin Commanding /\ j \notin cut => ~Piped(j)

\* Before them the job has no child.
Childless ==
    \A j \in Jobs : pc[j] \in {"none", "new", "announce", "spawn"} => j \notin children

\* A child without a shell has escaped the signals to the group.
LeftEscapes ==
    \A j \in Jobs : j \in children /\ j \notin shells /\ j \notin cut => Escapes(j)

\* A job that is to be cancelled has a canceller, who waits, or the daemon.
HitHasSource ==
    \A j \in hit :
        \/ \E r \in Runs : call[r].phase = "waiting" /\ call[r].job = j
        \/ daemon \in {"draining", "off"}

\* Nothing is told before the finally block, and one event in it.
ToldInFinally ==
    \A j \in Jobs :
        /\ pc[j] \notin {"report", "done"} => told[j] = <<>>
        /\ pc[j] = "report" => Len(told[j]) = 1

\* A job whose status is cancelled can reach no await that ends in another one.
CancelHolds ==
    \A j \in Jobs : status[j] = "cancelled" =>
        j \in hit \/ pc[j] \in {"reap", "reapeof", "report", "done"}

\* A call that cancels a job has given it that status.
CallsCancelled ==
    \A r \in Runs : call[r].phase # "idle" => status[call[r].job] = "cancelled"

IInv == TypeOK /\ CallsStarted /\ CutStarted /\ TreeHeld /\ Childless /\ LeftEscapes
        /\ HitHasSource /\ ToldInFinally /\ ToldOnce /\ CancelHolds /\ CallsCancelled

-----------------------------------------------------------------------------
\* The initial state satisfies the inductive invariant.
LEMMA InitInvariant == Init => IInv
<1> SUFFICES ASSUME Init PROVE IInv
  OBVIOUS
<1>1. TypeOK
  BY DEF Init, TypeOK, CommandType, NoCommand, NoCall, Over, Positions, Statuses
<1>2. CallsStarted /\ CutStarted /\ TreeHeld /\ Childless /\ LeftEscapes
  BY DEF Init, CallsStarted, CutStarted, TreeHeld, Piped, Childless, LeftEscapes, NoCall
<1>5. HitHasSource /\ ToldInFinally /\ ToldOnce
  BY DEF Init, HitHasSource, ToldInFinally, ToldOnce, NoCall
<1>3. CancelHolds /\ CallsCancelled
  BY DEF Init, CancelHolds, CallsCancelled, NoCall
<1>4. QED
  BY <1>1, <1>2, <1>3, <1>5 DEF IInv

\* A sequence of at most one element that is not empty has one.
LEMMA OneElement ==
    ASSUME NEW S, NEW s \in Seq(S), s # <<>>, Len(s) <= 1
    PROVE  Len(s) = 1
<1>1. \A n \in Nat : n <= 1 /\ n # 0 => n = 1
  OBVIOUS
<1>2. Len(s) \in Nat /\ Len(s) # 0
  BY EmptySeq
<1>3. QED
  BY <1>1, <1>2

\* Cancelling runs passes the cancellation on to jobs that are not over.
LEMMA StoppingType ==
    ASSUME TypeOK, CallsStarted, NEW rs \in SUBSET Runs, Stopping(rs)
    PROVE  /\ hit' \subseteq {j \in Jobs : ~Over(j)}
           /\ call' \in [Runs -> [phase : {"idle", "waiting", "telling"},
                                job : Jobs \cup {"none"}, stop : BOOLEAN]]
<1>1. call' \in [Runs -> [phase : {"idle", "waiting", "telling"},
                       job : Jobs \cup {"none"}, stop : BOOLEAN]]
  <2>1. \A r \in Runs : [call[r] EXCEPT !.stop = TRUE] \in
          [phase : {"idle", "waiting", "telling"}, job : Jobs \cup {"none"}, stop : BOOLEAN]
    BY DEF TypeOK
  <2>2. QED
    BY <2>1 DEF Stopping, TypeOK
<1>2. \A j \in hit' : j \in hit \/ \E q \in rs : /\ call[q].phase = "waiting"
                                           /\ pc[call[q].job] # "done"
                                           /\ j = call[q].job
  BY DEF Stopping
<1>3. QED
  BY <1>1, <1>2 DEF TypeOK, CallsStarted, Over

\* Every step keeps the types.
LEMMA NextType ==
    ASSUME TypeOK, CallsStarted, Childless, [Next]_vars
    PROVE  TypeOK'
<1>1. CASE \E j \in Jobs : Begin(j)
  BY <1>1 DEF Begin, Go, tree, TypeOK, Over, Positions
<1>2. CASE \E j \in Jobs : Announced(j)
  BY <1>2 DEF Announced, Go, tree, TypeOK, Over, Positions
<1>3. CASE \E j \in Jobs : Refused(j)
  BY <1>3 DEF Refused, Report, Go, tree, TypeOK, Over, Positions
<1>4. CASE \E j \in Jobs : Spawned(j)
  BY <1>4 DEF Spawned, Go, TypeOK, Over, Positions
<1>5. CASE \E j \in Jobs : SpawnFails(j)
  BY <1>5 DEF SpawnFails, Report, Go, tree, TypeOK, Over, Positions, Statuses
<1>6. CASE \E j \in Jobs : Ended(j)
  BY <1>6 DEF Ended, Report, Go, tree, TypeOK, Over, Positions, Statuses
<1>7. CASE \E j \in Jobs : TimedOut(j)
  BY <1>7 DEF TimedOut, Go, Terminate, TypeOK, Over, Positions
<1>8. CASE \E j \in Jobs : Died(j)
  BY <1>8 DEF Died, Go, tree, TypeOK, Over, Positions
<1>9. CASE \E j \in Jobs : GraceEnds(j)
  BY <1>9 DEF GraceEnds, Go, Kill, TypeOK, Over, Positions
<1>10. CASE \E j \in Jobs : Drained(j)
  BY <1>10 DEF Drained, Report, Go, tree, TypeOK, Over, Positions, Statuses
<1>11. CASE \E j \in Jobs : Reaped(j)
  BY <1>11 DEF Reaped, Go, tree, TypeOK, Over, Positions
<1>12. CASE \E j \in Jobs : ReapDrained(j)
  BY <1>12 DEF ReapDrained, Report, Go, tree, TypeOK, Over, Positions, Statuses
<1>13. CASE \E j \in Jobs : Reported(j)
  BY <1>13 DEF Reported, At, Go, tree, TypeOK, Over, Positions
<1>14. CASE \E j \in Jobs : InterruptEarly(j)
  BY <1>14 DEF InterruptEarly, Raised, Go, tree, TypeOK, Over, Positions
<1>15. CASE \E j \in Jobs : InterruptSpawn(j)
  BY <1>15 DEF InterruptSpawn, Raised, Report, Go, tree, TypeOK, Over, Positions, Statuses
<1>16. CASE \E j \in Jobs : InterruptRun(j)
  BY <1>16 DEF InterruptRun, Raised, Go, Terminate, TypeOK, Over, Positions
<1>17. CASE \E j \in Jobs : InterruptCleanup(j)
  BY <1>17 DEF InterruptCleanup, Raised, Report, Go, tree, TypeOK, Over, Positions, Statuses
<1>18. CASE \E j \in Jobs : InterruptReport(j)
  BY <1>18 DEF InterruptReport, Raised, Go, tree, TypeOK, Over, Positions
<1>19. CASE \E j \in Jobs : ReaperGraceEnds(j)
  BY <1>19 DEF ReaperGraceEnds, Kill, TypeOK, Over
<1>20. CASE \E j \in Jobs : ReaperEnds(j)
  BY <1>20 DEF ReaperEnds, tree, TypeOK, Over
<1>21. CASE \E j \in Jobs : ShellExits(j)
  BY <1>21 DEF ShellExits, TypeOK, Over
<1>22. CASE \E j \in Jobs : ChildExits(j)
  BY <1>22 DEF ChildExits, TypeOK, Over
<1>23. CASE \E r \in Runs, j \in Jobs, c \in Commands : Start(r, j, c)
  <2>1. PICK r \in Runs, j \in Jobs, c \in Commands : Start(r, j, c)
    BY <1>23
  <2>2. c \in CommandType /\ pc[j] = "none"
    BY <2>1, CommandsAssumption DEF Start
  <2>3. j \notin children
    BY <2>2 DEF Childless
  <2>4. pc' \in [Jobs -> Positions] /\ cmd' \in [Jobs -> CommandType]
    BY <2>1, <2>2 DEF Start, Go, TypeOK, Positions
  <2>5. hit' \subseteq {q \in Jobs : ~Over(q)'}
    BY <2>1 DEF Start, Go, TypeOK, Over
  <2>6. children' \subseteq {q \in Jobs : cmd'[q].child # "none"}
    BY <2>1, <2>3 DEF Start, tree, TypeOK
  <2>7. QED
    BY <2>1, <2>4, <2>5, <2>6 DEF Start, tree, TypeOK
<1>24. CASE \E r \in Runs, j \in Jobs : Cancel(r, j)
  BY <1>24 DEF Cancel, tree, TypeOK, Over, Statuses
<1>25. CASE \E r \in Runs : CancelReturns(r)
  <2>1. PICK r \in Runs : CancelReturns(r)
    BY <1>25
  <2>2. call[r].job \in Jobs
    BY <2>1 DEF CancelReturns, CallsStarted
  <2>3. told' \in [Jobs -> Seq(Statuses)]
    BY <2>1, <2>2 DEF CancelReturns, TypeOK
  <2>4. call' \in [Runs -> [phase : {"idle", "waiting", "telling"},
                          job : Jobs \cup {"none"}, stop : BOOLEAN]]
    BY <2>1, ZenonT(30) DEF CancelReturns, TypeOK, NoCall
  <2>5. QED
    BY <2>1, <2>3, <2>4 DEF CancelReturns, tree, TypeOK, Over
<1>26. CASE \E r \in Runs : CancelTold(r)
  BY <1>26 DEF CancelTold, tree, TypeOK, NoCall, Over
<1>27. CASE \E r \in Runs : StopRun(r)
  <2>1. PICK r \in Runs : StopRun(r)
    BY <1>27
  <2>2. Stopping({r}) /\ pc' = pc /\ cmd' = cmd
    BY <2>1 DEF StopRun
  <2>3. /\ hit' \subseteq {j \in Jobs : ~Over(j)}
        /\ call' \in [Runs -> [phase : {"idle", "waiting", "telling"},
                             job : Jobs \cup {"none"}, stop : BOOLEAN]]
    BY <2>2, StoppingType
  <2>4. QED
    BY <2>1, <2>3 DEF StopRun, tree, TypeOK, Over
<1>28. CASE \E r \in Runs : Stopped(r)
  BY <1>28 DEF Stopped, tree, TypeOK, NoCall, Over, CallsStarted
<1>29. CASE Shutdown
  <2>1. /\ hit' \subseteq {j \in Jobs : ~Over(j)}
        /\ call' \in [Runs -> [phase : {"idle", "waiting", "telling"},
                             job : Jobs \cup {"none"}, stop : BOOLEAN]]
    BY <1>29, StoppingType DEF Shutdown
  <2>2. QED
    BY <1>29, <2>1 DEF Shutdown, tree, TypeOK, Over
<1>30. CASE CancelAll
  BY <1>30 DEF CancelAll, tree, TypeOK, Over
<1>31. CASE Exit
  BY <1>31 DEF Exit, TypeOK
<1>32. CASE UNCHANGED vars
  BY <1>32 DEF vars, TypeOK, Over
<1>33. QED
  BY <1>1, <1>2, <1>3, <1>4, <1>5, <1>6, <1>7, <1>8, <1>9, <1>10, <1>11, <1>12, <1>13,
     <1>14, <1>15, <1>16, <1>17, <1>18, <1>19, <1>20, <1>21, <1>22, <1>23, <1>24, <1>25,
     <1>26, <1>27, <1>28, <1>29, <1>30, <1>31, <1>32 DEF Next, JobStep, ReaperStep,
     CallStep

\* Calls and interruptions belong to jobs that were started.
LEMMA NextStarted ==
    ASSUME TypeOK, CallsStarted, CutStarted, [Next]_vars
    PROVE  (CallsStarted /\ CutStarted)'
<1>1. CASE \E j \in Jobs : Begin(j)
  BY <1>1 DEF Begin, Go, CallsStarted, CutStarted
<1>2. CASE \E j \in Jobs : Announced(j)
  BY <1>2 DEF Announced, Go, CallsStarted, CutStarted
<1>3. CASE \E j \in Jobs : Refused(j)
  BY <1>3 DEF Refused, Report, Go, CallsStarted, CutStarted
<1>4. CASE \E j \in Jobs : Spawned(j)
  BY <1>4 DEF Spawned, Go, CallsStarted, CutStarted
<1>5. CASE \E j \in Jobs : SpawnFails(j)
  BY <1>5 DEF SpawnFails, Report, Go, CallsStarted, CutStarted
<1>6. CASE \E j \in Jobs : Ended(j)
  BY <1>6 DEF Ended, Report, Go, CallsStarted, CutStarted
<1>7. CASE \E j \in Jobs : TimedOut(j)
  BY <1>7 DEF TimedOut, Go, CallsStarted, CutStarted
<1>8. CASE \E j \in Jobs : Died(j)
  BY <1>8 DEF Died, Go, CallsStarted, CutStarted
<1>9. CASE \E j \in Jobs : GraceEnds(j)
  BY <1>9 DEF GraceEnds, Go, CallsStarted, CutStarted
<1>10. CASE \E j \in Jobs : Drained(j)
  BY <1>10 DEF Drained, Report, Go, CallsStarted, CutStarted
<1>11. CASE \E j \in Jobs : Reaped(j)
  BY <1>11 DEF Reaped, Go, CallsStarted, CutStarted
<1>12. CASE \E j \in Jobs : ReapDrained(j)
  BY <1>12 DEF ReapDrained, Report, Go, CallsStarted, CutStarted
<1>13. CASE \E j \in Jobs : Reported(j)
  BY <1>13 DEF Reported, Go, CallsStarted, CutStarted
<1>14. CASE \E j \in Jobs : InterruptEarly(j)
  BY <1>14 DEF InterruptEarly, Go, CallsStarted, CutStarted
<1>15. CASE \E j \in Jobs : InterruptSpawn(j)
  BY <1>15 DEF InterruptSpawn, Report, Go, CallsStarted, CutStarted
<1>16. CASE \E j \in Jobs : InterruptRun(j)
  BY <1>16 DEF InterruptRun, Go, CallsStarted, CutStarted
<1>17. CASE \E j \in Jobs : InterruptCleanup(j)
  BY <1>17 DEF InterruptCleanup, Report, Go, CallsStarted, CutStarted
<1>18. CASE \E j \in Jobs : InterruptReport(j)
  BY <1>18 DEF InterruptReport, Go, CallsStarted, CutStarted
<1>19. CASE \E j \in Jobs : ReaperGraceEnds(j)
  BY <1>19 DEF ReaperGraceEnds, CallsStarted, CutStarted
<1>20. CASE \E j \in Jobs : ReaperEnds(j)
  BY <1>20 DEF ReaperEnds, CallsStarted, CutStarted
<1>21. CASE \E j \in Jobs : ShellExits(j)
  BY <1>21 DEF ShellExits, CallsStarted, CutStarted
<1>22. CASE \E j \in Jobs : ChildExits(j)
  BY <1>22 DEF ChildExits, CallsStarted, CutStarted
<1>23. CASE \E r \in Runs, j \in Jobs, c \in Commands : Start(r, j, c)
  BY <1>23 DEF Start, Go, CallsStarted, CutStarted
<1>24. CASE \E r \in Runs, j \in Jobs : Cancel(r, j)
  BY <1>24 DEF Cancel, CallsStarted, CutStarted, Over
<1>25. CASE \E r \in Runs : CancelReturns(r)
  BY <1>25 DEF CancelReturns, CallsStarted, CutStarted, NoCall
<1>26. CASE \E r \in Runs : CancelTold(r)
  BY <1>26 DEF CancelTold, CallsStarted, CutStarted, NoCall
<1>27. CASE \E r \in Runs : StopRun(r)
  BY <1>27 DEF StopRun, Stopping, CallsStarted, CutStarted
<1>28. CASE \E r \in Runs : Stopped(r)
  BY <1>28 DEF Stopped, CallsStarted, CutStarted, NoCall
<1>29. CASE Shutdown
  BY <1>29 DEF Shutdown, Stopping, CallsStarted, CutStarted
<1>30. CASE CancelAll
  BY <1>30 DEF CancelAll, CallsStarted, CutStarted
<1>31. CASE Exit
  BY <1>31 DEF Exit, CallsStarted, CutStarted
<1>32. CASE UNCHANGED vars
  BY <1>32 DEF vars, CallsStarted, CutStarted
<1>33. QED
  BY <1>1, <1>2, <1>3, <1>4, <1>5, <1>6, <1>7, <1>8, <1>9, <1>10, <1>11, <1>12, <1>13,
     <1>14, <1>15, <1>16, <1>17, <1>18, <1>19, <1>20, <1>21, <1>22, <1>23, <1>24, <1>25,
     <1>26, <1>27, <1>28, <1>29, <1>30, <1>31, <1>32 DEF Next, JobStep, ReaperStep,
     CallStep

\* A job leaves BashTool.invoke after the end of its pipe, or interrupted.
LEMMA NextTree ==
    ASSUME TypeOK, TreeHeld, Childless, [Next]_vars
    PROVE  TreeHeld'
<1>1. CASE \E j \in Jobs : Begin(j)
  BY <1>1 DEF Begin, At, Go, tree, TreeHeld, Commanding, Piped
<1>2. CASE \E j \in Jobs : Announced(j)
  BY <1>2 DEF Announced, At, Go, tree, TreeHeld, Commanding, Piped
<1>3. CASE \E j \in Jobs : Refused(j)
  BY <1>3 DEF Refused, At, Report, Go, tree, TreeHeld, Commanding, Piped
<1>4. CASE \E j \in Jobs : Spawned(j)
  BY <1>4 DEF Spawned, Go, TypeOK, TreeHeld, Commanding, Piped
<1>5. CASE \E j \in Jobs : SpawnFails(j)
  BY <1>5 DEF SpawnFails, At, Report, Go, tree, TreeHeld, Commanding, Piped
<1>6. CASE \E j \in Jobs : Ended(j)
  BY <1>6 DEF Ended, Report, Go, tree, TreeHeld, Piped
<1>7. CASE \E j \in Jobs : TimedOut(j)
  BY <1>7 DEF TimedOut, Go, Terminate, TreeHeld, Commanding, Piped
<1>8. CASE \E j \in Jobs : Died(j)
  BY <1>8 DEF Died, Go, tree, TreeHeld, Commanding, Piped
<1>9. CASE \E j \in Jobs : GraceEnds(j)
  BY <1>9 DEF GraceEnds, Go, Kill, TypeOK, TreeHeld, Commanding, Piped
<1>10. CASE \E j \in Jobs : Drained(j)
  BY <1>10 DEF Drained, Report, Go, tree, TreeHeld, Piped
<1>11. CASE \E j \in Jobs : Reaped(j)
  BY <1>11 DEF Reaped, Go, tree, TreeHeld, Commanding, Piped
<1>12. CASE \E j \in Jobs : ReapDrained(j)
  BY <1>12 DEF ReapDrained, Report, Go, tree, TreeHeld, Piped
<1>13. CASE \E j \in Jobs : Reported(j)
  BY <1>13 DEF Reported, At, Go, tree, TreeHeld, Commanding, Piped
<1>14. CASE \E j \in Jobs : InterruptEarly(j)
  BY <1>14 DEF InterruptEarly, Go, tree, TreeHeld, Commanding, Piped
<1>15. CASE \E j \in Jobs : InterruptSpawn(j)
  BY <1>15 DEF InterruptSpawn, Report, Go, tree, TreeHeld, Commanding, Piped
<1>16. CASE \E j \in Jobs : InterruptRun(j)
  BY <1>16 DEF InterruptRun, Go, Terminate, TreeHeld, Commanding, Piped
<1>17. CASE \E j \in Jobs : InterruptCleanup(j)
  BY <1>17 DEF InterruptCleanup, Report, Go, tree, TreeHeld, Piped
<1>18. CASE \E j \in Jobs : InterruptReport(j)
  BY <1>18 DEF InterruptReport, Go, tree, TreeHeld, Commanding, Piped
<1>19. CASE \E j \in Jobs : ReaperGraceEnds(j)
  BY <1>19 DEF ReaperGraceEnds, Kill, TreeHeld, Piped
<1>20. CASE \E j \in Jobs : ReaperEnds(j)
  BY <1>20 DEF ReaperEnds, tree, TreeHeld, Piped
<1>21. CASE \E j \in Jobs : ShellExits(j)
  BY <1>21 DEF ShellExits, TreeHeld, Piped
<1>22. CASE \E j \in Jobs : ChildExits(j)
  BY <1>22 DEF ChildExits, TreeHeld, Piped
<1>23. CASE \E r \in Runs, j \in Jobs, c \in Commands : Start(r, j, c)
  BY <1>23 DEF Start, Go, tree, TypeOK, TreeHeld, Childless, Commanding, Piped
<1>24. CASE \E r \in Runs, j \in Jobs : Cancel(r, j)
  BY <1>24 DEF Cancel, tree, TreeHeld, Piped
<1>25. CASE \E r \in Runs : CancelReturns(r)
  BY <1>25 DEF CancelReturns, tree, TreeHeld, Piped
<1>26. CASE \E r \in Runs : CancelTold(r)
  BY <1>26 DEF CancelTold, tree, TreeHeld, Piped
<1>27. CASE \E r \in Runs : StopRun(r)
  BY <1>27 DEF StopRun, tree, TreeHeld, Piped
<1>28. CASE \E r \in Runs : Stopped(r)
  BY <1>28 DEF Stopped, tree, TreeHeld, Piped
<1>29. CASE Shutdown
  BY <1>29 DEF Shutdown, tree, TreeHeld, Piped
<1>30. CASE CancelAll
  BY <1>30 DEF CancelAll, tree, TreeHeld, Piped
<1>31. CASE Exit
  BY <1>31 DEF Exit, TreeHeld, Piped
<1>32. CASE UNCHANGED vars
  BY <1>32 DEF vars, TreeHeld, Piped
<1>33. QED
  BY <1>1, <1>2, <1>3, <1>4, <1>5, <1>6, <1>7, <1>8, <1>9, <1>10, <1>11, <1>12, <1>13,
     <1>14, <1>15, <1>16, <1>17, <1>18, <1>19, <1>20, <1>21, <1>22, <1>23, <1>24, <1>25,
     <1>26, <1>27, <1>28, <1>29, <1>30, <1>31, <1>32 DEF Next, JobStep, ReaperStep,
     CallStep

\* Children come with the shell, and lose it to SIGKILL, which takes those of the
\* group with it, or in a way they escape.
LEMMA NextChildren ==
    ASSUME TypeOK, CutStarted, TreeHeld, Childless, LeftEscapes, [Next]_vars
    PROVE  (Childless /\ LeftEscapes)'
<1> USE DEF Childless, LeftEscapes, Escapes
<1>1. CASE \E j \in Jobs : Begin(j)
  BY <1>1 DEF Begin, At, Go, tree, TypeOK
<1>2. CASE \E j \in Jobs : Announced(j)
  BY <1>2 DEF Announced, At, Go, tree, TypeOK
<1>3. CASE \E j \in Jobs : Refused(j)
  BY <1>3 DEF Refused, At, Report, Go, tree, TypeOK
<1>4. CASE \E j \in Jobs : Spawned(j)
  BY <1>4 DEF Spawned, At, Go, TypeOK
<1>5. CASE \E j \in Jobs : SpawnFails(j)
  BY <1>5 DEF SpawnFails, At, Report, Go, tree, TypeOK
<1>6. CASE \E j \in Jobs : Ended(j)
  BY <1>6 DEF Ended, At, Report, Go, tree, TypeOK
<1>7. CASE \E j \in Jobs : TimedOut(j)
  BY <1>7 DEF TimedOut, At, Go, Terminate, TypeOK, CommandType
<1>8. CASE \E j \in Jobs : Died(j)
  BY <1>8 DEF Died, At, Go, tree, TypeOK
<1>9. CASE \E j \in Jobs : GraceEnds(j)
  BY <1>9 DEF GraceEnds, At, Go, Kill, TypeOK
<1>10. CASE \E j \in Jobs : Drained(j)
  BY <1>10 DEF Drained, At, Report, Go, tree, TypeOK
<1>11. CASE \E j \in Jobs : Reaped(j)
  BY <1>11 DEF Reaped, At, Go, tree, TypeOK
<1>12. CASE \E j \in Jobs : ReapDrained(j)
  BY <1>12 DEF ReapDrained, At, Report, Go, tree, TypeOK
<1>13. CASE \E j \in Jobs : Reported(j)
  BY <1>13 DEF Reported, At, Go, tree, TypeOK
<1>14. CASE \E j \in Jobs : InterruptEarly(j)
  BY <1>14 DEF InterruptEarly, Raised, Go, tree, TypeOK
<1>15. CASE \E j \in Jobs : InterruptSpawn(j)
  BY <1>15 DEF InterruptSpawn, Raised, Report, Go, tree, TypeOK
<1>16. CASE \E j \in Jobs : InterruptRun(j)
  BY <1>16 DEF InterruptRun, Raised, Go, Terminate, TypeOK, CommandType
<1>17. CASE \E j \in Jobs : InterruptCleanup(j)
  BY <1>17 DEF InterruptCleanup, Raised, Report, Go, tree, TypeOK
<1>18. CASE \E j \in Jobs : InterruptReport(j)
  BY <1>18 DEF InterruptReport, Raised, Go, tree, TypeOK
<1>19. CASE \E j \in Jobs : ReaperGraceEnds(j)
  BY <1>19 DEF ReaperGraceEnds, Kill, TypeOK
<1>20. CASE \E j \in Jobs : ReaperEnds(j)
  BY <1>20 DEF ReaperEnds, tree, TypeOK
<1>21. CASE \E j \in Jobs : ShellExits(j)
  BY <1>21 DEF ShellExits, TypeOK
<1>22. CASE \E j \in Jobs : ChildExits(j)
  BY <1>22 DEF ChildExits, TypeOK
<1>23. CASE \E r \in Runs, j \in Jobs, c \in Commands : Start(r, j, c)
  BY <1>23 DEF Start, Go, tree, TypeOK
<1>24. CASE \E r \in Runs, j \in Jobs : Cancel(r, j)
  BY <1>24 DEF Cancel, tree
<1>25. CASE \E r \in Runs : CancelReturns(r)
  BY <1>25 DEF CancelReturns, tree
<1>26. CASE \E r \in Runs : CancelTold(r)
  BY <1>26 DEF CancelTold, tree
<1>27. CASE \E r \in Runs : StopRun(r)
  BY <1>27 DEF StopRun, tree
<1>28. CASE \E r \in Runs : Stopped(r)
  BY <1>28 DEF Stopped, tree
<1>29. CASE Shutdown
  BY <1>29 DEF Shutdown, tree
<1>30. CASE CancelAll
  BY <1>30 DEF CancelAll, tree
<1>31. CASE Exit
  BY <1>31 DEF Exit, Over, TreeHeld, Piped, Commanding
<1>32. CASE UNCHANGED vars
  BY <1>32 DEF vars
<1>33. QED
  BY <1>1, <1>2, <1>3, <1>4, <1>5, <1>6, <1>7, <1>8, <1>9, <1>10, <1>11, <1>12, <1>13,
     <1>14, <1>15, <1>16, <1>17, <1>18, <1>19, <1>20, <1>21, <1>22, <1>23, <1>24, <1>25,
     <1>26, <1>27, <1>28, <1>29, <1>30, <1>31, <1>32 DEF Next, JobStep, ReaperStep,
     CallStep

\* A canceller waits until its job is over.
LEMMA NextSource ==
    ASSUME TypeOK, HitHasSource, [Next]_vars
    PROVE  HitHasSource'
<1>1. CASE \E j \in Jobs : Begin(j)
  BY <1>1 DEF Begin, HitHasSource
<1>2. CASE \E j \in Jobs : Announced(j)
  BY <1>2 DEF Announced, HitHasSource
<1>3. CASE \E j \in Jobs : Refused(j)
  BY <1>3 DEF Refused, HitHasSource
<1>4. CASE \E j \in Jobs : Spawned(j)
  BY <1>4 DEF Spawned, HitHasSource
<1>5. CASE \E j \in Jobs : SpawnFails(j)
  BY <1>5 DEF SpawnFails, HitHasSource
<1>6. CASE \E j \in Jobs : Ended(j)
  BY <1>6 DEF Ended, HitHasSource
<1>7. CASE \E j \in Jobs : TimedOut(j)
  BY <1>7 DEF TimedOut, HitHasSource
<1>8. CASE \E j \in Jobs : Died(j)
  BY <1>8 DEF Died, HitHasSource
<1>9. CASE \E j \in Jobs : GraceEnds(j)
  BY <1>9 DEF GraceEnds, HitHasSource
<1>10. CASE \E j \in Jobs : Drained(j)
  BY <1>10 DEF Drained, HitHasSource
<1>11. CASE \E j \in Jobs : Reaped(j)
  BY <1>11 DEF Reaped, HitHasSource
<1>12. CASE \E j \in Jobs : ReapDrained(j)
  BY <1>12 DEF ReapDrained, HitHasSource
<1>13. CASE \E j \in Jobs : Reported(j)
  BY <1>13 DEF Reported, HitHasSource
<1>14. CASE \E j \in Jobs : InterruptEarly(j)
  BY <1>14 DEF InterruptEarly, Raised, HitHasSource
<1>15. CASE \E j \in Jobs : InterruptSpawn(j)
  BY <1>15 DEF InterruptSpawn, Raised, HitHasSource
<1>16. CASE \E j \in Jobs : InterruptRun(j)
  BY <1>16 DEF InterruptRun, Raised, HitHasSource
<1>17. CASE \E j \in Jobs : InterruptCleanup(j)
  BY <1>17 DEF InterruptCleanup, Raised, HitHasSource
<1>18. CASE \E j \in Jobs : InterruptReport(j)
  BY <1>18 DEF InterruptReport, Raised, HitHasSource
<1>19. CASE \E j \in Jobs : ReaperGraceEnds(j)
  BY <1>19 DEF ReaperGraceEnds, HitHasSource
<1>20. CASE \E j \in Jobs : ReaperEnds(j)
  BY <1>20 DEF ReaperEnds, HitHasSource
<1>21. CASE \E j \in Jobs : ShellExits(j)
  BY <1>21 DEF ShellExits, HitHasSource
<1>22. CASE \E j \in Jobs : ChildExits(j)
  BY <1>22 DEF ChildExits, HitHasSource
<1>23. CASE \E r \in Runs, j \in Jobs, c \in Commands : Start(r, j, c)
  BY <1>23 DEF Start, HitHasSource
<1>24. CASE \E r \in Runs, j \in Jobs : Cancel(r, j)
  BY <1>24 DEF Cancel, TypeOK, HitHasSource
<1>25. CASE \E r \in Runs : CancelReturns(r)
  BY <1>25 DEF CancelReturns, TypeOK, HitHasSource, Over
<1>26. CASE \E r \in Runs : CancelTold(r)
  BY <1>26 DEF CancelTold, HitHasSource
<1>27. CASE \E r \in Runs : StopRun(r)
  BY <1>27 DEF StopRun, Stopping, HitHasSource
<1>28. CASE \E r \in Runs : Stopped(r)
  BY <1>28 DEF Stopped, TypeOK, HitHasSource, Over
<1>29. CASE Shutdown
  BY <1>29 DEF Shutdown, Stopping, HitHasSource
<1>30. CASE CancelAll
  BY <1>30 DEF CancelAll, HitHasSource
<1>31. CASE Exit
  BY <1>31 DEF Exit, HitHasSource
<1>32. CASE UNCHANGED vars
  BY <1>32 DEF vars, HitHasSource
<1>33. QED
  BY <1>1, <1>2, <1>3, <1>4, <1>5, <1>6, <1>7, <1>8, <1>9, <1>10, <1>11, <1>12, <1>13,
     <1>14, <1>15, <1>16, <1>17, <1>18, <1>19, <1>20, <1>21, <1>22, <1>23, <1>24, <1>25,
     <1>26, <1>27, <1>28, <1>29, <1>30, <1>31, <1>32 DEF Next, JobStep, ReaperStep,
     CallStep

\* Who comes to the finished event first publishes it, and nobody else does.
LEMMA NextTold ==
    ASSUME TypeOK, CallsStarted, HitHasSource, ToldInFinally, ToldOnce, [Next]_vars
    PROVE  (ToldInFinally /\ ToldOnce)'
<1>1. CASE \E j \in Jobs : Begin(j)
  BY <1>1 DEF Begin, At, Go, ToldInFinally, ToldOnce
<1>2. CASE \E j \in Jobs : Announced(j)
  BY <1>2 DEF Announced, At, Go, ToldInFinally, ToldOnce
<1>3. CASE \E j \in Jobs : Refused(j)
  BY <1>3 DEF Refused, At, Report, Go, TypeOK, ToldInFinally, ToldOnce
<1>4. CASE \E j \in Jobs : Spawned(j)
  BY <1>4 DEF Spawned, At, Go, ToldInFinally, ToldOnce
<1>5. CASE \E j \in Jobs : SpawnFails(j)
  BY <1>5 DEF SpawnFails, At, Report, Go, TypeOK, ToldInFinally, ToldOnce
<1>6. CASE \E j \in Jobs : Ended(j)
  BY <1>6 DEF Ended, At, Report, Go, TypeOK, ToldInFinally, ToldOnce
<1>7. CASE \E j \in Jobs : TimedOut(j)
  BY <1>7 DEF TimedOut, At, Go, ToldInFinally, ToldOnce
<1>8. CASE \E j \in Jobs : Died(j)
  BY <1>8 DEF Died, At, Go, ToldInFinally, ToldOnce
<1>9. CASE \E j \in Jobs : GraceEnds(j)
  BY <1>9 DEF GraceEnds, At, Go, ToldInFinally, ToldOnce
<1>10. CASE \E j \in Jobs : Drained(j)
  BY <1>10 DEF Drained, At, Report, Go, TypeOK, ToldInFinally, ToldOnce
<1>11. CASE \E j \in Jobs : Reaped(j)
  BY <1>11 DEF Reaped, At, Go, ToldInFinally, ToldOnce
<1>12. CASE \E j \in Jobs : ReapDrained(j)
  BY <1>12 DEF ReapDrained, At, Report, Go, TypeOK, ToldInFinally, ToldOnce
<1>13. CASE \E j \in Jobs : Reported(j)
  <2>1. PICK j \in Jobs : Reported(j)
    BY <1>13
  <2>2. pc[j] = "report" /\ pc' = [pc EXCEPT ![j] = "done"] /\ told' = told
    BY <2>1 DEF Reported, At, Go
  <2>3. Len(told[j]) = 1 /\ told[j] # <<>>
    BY <2>2 DEF ToldInFinally
  <2>4. call' = call /\ dropped' = dropped /\ daemon' = daemon
    BY <2>1 DEF Reported
  <2>5. QED
    BY <2>2, <2>3, <2>4 DEF TypeOK, ToldInFinally, ToldOnce
<1>14. CASE \E j \in Jobs : InterruptEarly(j)
  BY <1>14 DEF InterruptEarly, Raised, Go, HitHasSource, ToldInFinally, ToldOnce
<1>15. CASE \E j \in Jobs : InterruptSpawn(j)
  BY <1>15 DEF InterruptSpawn, Report, Go, TypeOK, ToldInFinally, ToldOnce
<1>16. CASE \E j \in Jobs : InterruptRun(j)
  BY <1>16 DEF InterruptRun, Go, ToldInFinally, ToldOnce
<1>17. CASE \E j \in Jobs : InterruptCleanup(j)
  BY <1>17 DEF InterruptCleanup, Report, Go, TypeOK, ToldInFinally, ToldOnce
<1>18. CASE \E j \in Jobs : InterruptReport(j)
  BY <1>18 DEF InterruptReport, Go, ToldInFinally, ToldOnce
<1>19. CASE \E j \in Jobs : ReaperGraceEnds(j)
  BY <1>19 DEF ReaperGraceEnds, ToldInFinally, ToldOnce
<1>20. CASE \E j \in Jobs : ReaperEnds(j)
  BY <1>20 DEF ReaperEnds, ToldInFinally, ToldOnce
<1>21. CASE \E j \in Jobs : ShellExits(j)
  BY <1>21 DEF ShellExits, ToldInFinally, ToldOnce
<1>22. CASE \E j \in Jobs : ChildExits(j)
  BY <1>22 DEF ChildExits, ToldInFinally, ToldOnce
<1>23. CASE \E r \in Runs, j \in Jobs, c \in Commands : Start(r, j, c)
  BY <1>23 DEF Start, Go, ToldInFinally, ToldOnce
<1>24. CASE \E r \in Runs, j \in Jobs : Cancel(r, j)
  BY <1>24 DEF Cancel, ToldInFinally, ToldOnce
<1>25. CASE \E r \in Runs : CancelReturns(r)
  <2>1. PICK r \in Runs : CancelReturns(r)
    BY <1>25
  <2>2. PICK j \in Jobs : j = call[r].job /\ pc[j] = "done" /\ pc' = pc
    BY <2>1 DEF CancelReturns, CallsStarted
  <2>3. \A q \in Jobs : q # j => told'[q] = told[q]
    BY <2>1, <2>2 DEF CancelReturns, TypeOK
  <2>4. Len(told'[j]) = 1 /\ told'[j] # <<>>
    <3>1. CASE told[j] = <<>>
      BY <2>1, <2>2, <3>1 DEF CancelReturns, TypeOK
    <3>2. CASE told[j] # <<>>
      <4>1. told'[j] = told[j]
        BY <2>1, <2>2, <3>2 DEF CancelReturns
      <4>2. told[j] \in Seq(Statuses) /\ Len(told[j]) <= 1
        BY DEF TypeOK, ToldOnce
      <4>3. Len(told[j]) = 1
        BY <3>2, <4>2, OneElement
      <4>4. Len(told'[j]) = 1
        BY <4>1, <4>3
      <4>5. told'[j] # <<>>
        BY <3>2, <4>1
      <4>6. QED
        BY <4>4, <4>5
    <3>3. QED
      BY <3>1, <3>2
  <2>5. \A p \in Runs : p # r => call'[p] = call[p]
    BY <2>1 DEF CancelReturns, TypeOK
  <2>6. dropped' = dropped /\ daemon' = daemon
    BY <2>1 DEF CancelReturns
  <2>7. ToldInFinally'
    BY <2>2, <2>3, <2>4 DEF ToldInFinally
  <2>8. ASSUME NEW q \in Jobs, q # j
        PROVE  /\ Len(told'[q]) <= 1
               /\ pc'[q] = "done" /\ told'[q] = <<>> =>
                     \/ \E p \in Runs : call'[p].phase = "waiting" /\ call'[p].job = q
                     \/ q \in dropped'
                     \/ daemon' \in {"draining", "off"}
    BY <2>2, <2>3, <2>5, <2>6, <2>8 DEF ToldOnce
  <2>9. Len(told'[j]) <= 1
    BY <2>4
  <2>10. ToldOnce'
    BY <2>4, <2>8, <2>9 DEF ToldOnce
  <2>11. QED
    BY <2>7, <2>10
<1>26. CASE \E r \in Runs : CancelTold(r)
  BY <1>26 DEF CancelTold, ToldInFinally, ToldOnce
<1>27. CASE \E r \in Runs : StopRun(r)
  BY <1>27 DEF StopRun, Stopping, ToldInFinally, ToldOnce
<1>28. CASE \E r \in Runs : Stopped(r)
  BY <1>28 DEF Stopped, ToldInFinally, ToldOnce
<1>29. CASE Shutdown
  BY <1>29 DEF Shutdown, Stopping, ToldInFinally, ToldOnce
<1>30. CASE CancelAll
  BY <1>30 DEF CancelAll, ToldInFinally, ToldOnce
<1>31. CASE Exit
  BY <1>31 DEF Exit, ToldInFinally, ToldOnce
<1>32. CASE UNCHANGED vars
  BY <1>32 DEF vars, ToldInFinally, ToldOnce
<1>33. QED
  BY <1>1, <1>2, <1>3, <1>4, <1>5, <1>6, <1>7, <1>8, <1>9, <1>10, <1>11, <1>12, <1>13,
     <1>14, <1>15, <1>16, <1>17, <1>18, <1>19, <1>20, <1>21, <1>22, <1>23, <1>24, <1>25,
     <1>26, <1>27, <1>28, <1>29, <1>30, <1>31, <1>32 DEF Next, JobStep, ReaperStep,
     CallStep

\* Nothing takes the status cancelled from a job, which is why a call that
\* cancelled one may say so when it returns.
LEMMA NextCancelled ==
    ASSUME TypeOK, CallsStarted, CancelHolds, CallsCancelled, [Next]_vars
    PROVE  /\ CancelHolds' /\ CallsCancelled'
           /\ \A j \in Jobs : status[j] = "cancelled" => status'[j] = "cancelled"
<1> DEFINE Stays == \A j \in Jobs : status[j] = "cancelled" => status'[j] = "cancelled"
<1> USE DEF CancelHolds
<1>1. CASE \E j \in Jobs : Begin(j)
  <2>1. PICK j \in Jobs : Begin(j)
    BY <1>1
  <2>2. CancelHolds' /\ Stays /\ call' = call
    BY <2>1 DEF Begin, At, Go, TypeOK
  <2> QED BY <2>2 DEF CallsCancelled, CallsStarted
<1>2. CASE \E j \in Jobs : Announced(j)
  <2>1. PICK j \in Jobs : Announced(j)
    BY <1>2
  <2>2. CancelHolds' /\ Stays /\ call' = call
    BY <2>1 DEF Announced, At, Go, TypeOK
  <2> QED BY <2>2 DEF CallsCancelled, CallsStarted
<1>3. CASE \E j \in Jobs : Refused(j)
  <2>1. PICK j \in Jobs : Refused(j)
    BY <1>3
  <2>2. CancelHolds' /\ Stays /\ call' = call
    BY <2>1 DEF Refused, At, Report, Go, TypeOK
  <2> QED BY <2>2 DEF CallsCancelled, CallsStarted
<1>4. CASE \E j \in Jobs : Spawned(j)
  <2>1. PICK j \in Jobs : Spawned(j)
    BY <1>4
  <2>2. CancelHolds' /\ Stays /\ call' = call
    BY <2>1 DEF Spawned, At, Go, TypeOK
  <2> QED BY <2>2 DEF CallsCancelled, CallsStarted
<1>5. CASE \E j \in Jobs : SpawnFails(j)
  <2>1. PICK j \in Jobs : SpawnFails(j)
    BY <1>5
  <2>2. CancelHolds' /\ Stays /\ call' = call
    BY <2>1 DEF SpawnFails, At, Report, Go, TypeOK
  <2> QED BY <2>2 DEF CallsCancelled, CallsStarted
<1>6. CASE \E j \in Jobs : Ended(j)
  <2>1. PICK j \in Jobs : Ended(j)
    BY <1>6
  <2>2. CancelHolds' /\ Stays /\ call' = call
    BY <2>1 DEF Ended, At, Report, Go, TypeOK
  <2> QED BY <2>2 DEF CallsCancelled, CallsStarted
<1>7. CASE \E j \in Jobs : TimedOut(j)
  <2>1. PICK j \in Jobs : TimedOut(j)
    BY <1>7
  <2>2. CancelHolds' /\ Stays /\ call' = call
    BY <2>1 DEF TimedOut, At, Go, TypeOK
  <2> QED BY <2>2 DEF CallsCancelled, CallsStarted
<1>8. CASE \E j \in Jobs : Died(j)
  <2>1. PICK j \in Jobs : Died(j)
    BY <1>8
  <2>2. CancelHolds' /\ Stays /\ call' = call
    BY <2>1 DEF Died, At, Go, TypeOK
  <2> QED BY <2>2 DEF CallsCancelled, CallsStarted
<1>9. CASE \E j \in Jobs : GraceEnds(j)
  <2>1. PICK j \in Jobs : GraceEnds(j)
    BY <1>9
  <2>2. CancelHolds' /\ Stays /\ call' = call
    BY <2>1 DEF GraceEnds, At, Go, TypeOK
  <2> QED BY <2>2 DEF CallsCancelled, CallsStarted
<1>10. CASE \E j \in Jobs : Drained(j)
  <2>1. PICK j \in Jobs : Drained(j)
    BY <1>10
  <2>2. CancelHolds' /\ Stays /\ call' = call
    BY <2>1 DEF Drained, At, Report, Go, TypeOK
  <2> QED BY <2>2 DEF CallsCancelled, CallsStarted
<1>11. CASE \E j \in Jobs : Reaped(j)
  <2>1. PICK j \in Jobs : Reaped(j)
    BY <1>11
  <2>2. CancelHolds' /\ Stays /\ call' = call
    BY <2>1 DEF Reaped, At, Go, TypeOK
  <2> QED BY <2>2 DEF CallsCancelled, CallsStarted
<1>12. CASE \E j \in Jobs : ReapDrained(j)
  <2>1. PICK j \in Jobs : ReapDrained(j)
    BY <1>12
  <2>2. CancelHolds' /\ Stays /\ call' = call
    BY <2>1 DEF ReapDrained, At, Report, Go, TypeOK
  <2> QED BY <2>2 DEF CallsCancelled, CallsStarted
<1>13. CASE \E j \in Jobs : Reported(j)
  <2>1. PICK j \in Jobs : Reported(j)
    BY <1>13
  <2>2. CancelHolds' /\ Stays /\ call' = call
    BY <2>1 DEF Reported, At, Go, TypeOK
  <2> QED BY <2>2 DEF CallsCancelled, CallsStarted
<1>14. CASE \E j \in Jobs : InterruptEarly(j)
  <2>1. PICK j \in Jobs : InterruptEarly(j)
    BY <1>14
  <2>2. CancelHolds' /\ Stays /\ call' = call
    BY <2>1 DEF InterruptEarly, Raised, Go, TypeOK
  <2> QED BY <2>2 DEF CallsCancelled, CallsStarted
<1>15. CASE \E j \in Jobs : InterruptSpawn(j)
  <2>1. PICK j \in Jobs : InterruptSpawn(j)
    BY <1>15
  <2>2. CancelHolds' /\ Stays /\ call' = call
    BY <2>1 DEF InterruptSpawn, Raised, Report, Go, TypeOK
  <2> QED BY <2>2 DEF CallsCancelled, CallsStarted
<1>16. CASE \E j \in Jobs : InterruptRun(j)
  <2>1. PICK j \in Jobs : InterruptRun(j)
    BY <1>16
  <2>2. CancelHolds' /\ Stays /\ call' = call
    BY <2>1 DEF InterruptRun, Raised, Go, TypeOK
  <2> QED BY <2>2 DEF CallsCancelled, CallsStarted
<1>17. CASE \E j \in Jobs : InterruptCleanup(j)
  <2>1. PICK j \in Jobs : InterruptCleanup(j)
    BY <1>17
  <2>2. CancelHolds' /\ Stays /\ call' = call
    BY <2>1 DEF InterruptCleanup, Raised, Report, Go, TypeOK
  <2> QED BY <2>2 DEF CallsCancelled, CallsStarted
<1>18. CASE \E j \in Jobs : InterruptReport(j)
  <2>1. PICK j \in Jobs : InterruptReport(j)
    BY <1>18
  <2>2. CancelHolds' /\ Stays /\ call' = call
    BY <2>1 DEF InterruptReport, Raised, Go, TypeOK
  <2> QED BY <2>2 DEF CallsCancelled, CallsStarted
<1>19. CASE \E j \in Jobs : ReaperGraceEnds(j)
  <2>1. PICK j \in Jobs : ReaperGraceEnds(j)
    BY <1>19
  <2>2. CancelHolds' /\ Stays /\ call' = call
    BY <2>1 DEF ReaperGraceEnds, TypeOK
  <2> QED BY <2>2 DEF CallsCancelled, CallsStarted
<1>20. CASE \E j \in Jobs : ReaperEnds(j)
  <2>1. PICK j \in Jobs : ReaperEnds(j)
    BY <1>20
  <2>2. CancelHolds' /\ Stays /\ call' = call
    BY <2>1 DEF ReaperEnds, TypeOK
  <2> QED BY <2>2 DEF CallsCancelled, CallsStarted
<1>21. CASE \E j \in Jobs : ShellExits(j)
  <2>1. PICK j \in Jobs : ShellExits(j)
    BY <1>21
  <2>2. CancelHolds' /\ Stays /\ call' = call
    BY <2>1 DEF ShellExits, TypeOK
  <2> QED BY <2>2 DEF CallsCancelled, CallsStarted
<1>22. CASE \E j \in Jobs : ChildExits(j)
  <2>1. PICK j \in Jobs : ChildExits(j)
    BY <1>22
  <2>2. CancelHolds' /\ Stays /\ call' = call
    BY <2>1 DEF ChildExits, TypeOK
  <2> QED BY <2>2 DEF CallsCancelled, CallsStarted
<1>23. CASE \E r \in Runs, j \in Jobs, c \in Commands : Start(r, j, c)
  <2>1. PICK r \in Runs, j \in Jobs, c \in Commands : Start(r, j, c)
    BY <1>23
  <2>2. CancelHolds' /\ Stays /\ call' = call
    BY <2>1 DEF Start, Go, TypeOK
  <2> QED BY <2>2 DEF CallsCancelled, CallsStarted
<1>24. CASE \E r \in Runs, j \in Jobs : Cancel(r, j)
  <2>1. PICK r \in Runs, j \in Jobs : Cancel(r, j)
    BY <1>24
  <2>2. CancelHolds' /\ Stays
    BY <2>1 DEF Cancel, TypeOK
  <2>3. status'[j] = "cancelled" /\ call'[r].job = j /\ \A q \in Runs : q # r => call'[q] = call[q]
    BY <2>1 DEF Cancel, TypeOK
  <2> QED BY <2>2, <2>3 DEF CallsCancelled, CallsStarted
<1>25. CASE \E r \in Runs : CancelReturns(r) \/ CancelTold(r) \/ Stopped(r)
  <2>1. PICK r \in Runs : CancelReturns(r) \/ CancelTold(r) \/ Stopped(r)
    BY <1>25
  <2>2. UNCHANGED <<pc, hit, status>> /\ \A q \in Runs : q # r => call'[q] = call[q]
    BY <2>1 DEF CancelReturns, CancelTold, Stopped, TypeOK
  <2>3. call'[r].phase = "idle" \/ (call'[r].job = call[r].job /\ call[r].phase # "idle")
    BY <2>1 DEF CancelReturns, CancelTold, Stopped, NoCall, TypeOK
  <2> QED BY <2>2, <2>3 DEF CallsCancelled
<1>26. CASE Shutdown \/ \E r \in Runs : StopRun(r)
  <2>1. PICK rs \in SUBSET Runs : Stopping(rs) /\ UNCHANGED <<pc, status>>
    BY <1>26 DEF Shutdown, StopRun
  <2>2. CancelHolds' /\ Stays
    BY <2>1 DEF Stopping
  <2>3. \A r \in Runs : call'[r].phase = call[r].phase /\ call'[r].job = call[r].job
    BY <2>1 DEF Stopping, TypeOK
  <2> QED BY <2>1, <2>2, <2>3 DEF CallsCancelled
<1>27. CASE CancelAll \/ Exit \/ UNCHANGED vars
  BY <1>27 DEF CancelAll, Exit, vars, CallsCancelled
<1> QED
  BY <1>1, <1>2, <1>3, <1>4, <1>5, <1>6, <1>7, <1>8, <1>9, <1>10, <1>11, <1>12, <1>13,
     <1>14, <1>15, <1>16, <1>17, <1>18, <1>19, <1>20, <1>21, <1>22, <1>23, <1>24, <1>25,
     <1>26, <1>27 DEF Next, JobStep, ReaperStep, CallStep

\* IInv is an invariant of the specification.
LEMMA Inductive == Spec => []IInv
<1>1. IInv /\ [Next]_vars => IInv'
  BY NextType, NextStarted, NextTree, NextChildren, NextSource, NextTold, NextCancelled
     DEF IInv
<1>2. QED
  BY InitInvariant, <1>1, PTL DEF Spec

\* The variables keep their types; in particular no finished task is cancelled.
THEOREM TypeCorrect == Spec => []TypeOK
<1>1. IInv => TypeOK
  BY DEF IInv
<1>2. QED
  BY Inductive, <1>1, PTL

\* A job that is over has no shell, nobody holds its pipe, and a child that is left
\* has escaped the signals, unless a cancellation reached it while it was cleaning
\* up.
THEOREM NoTreeLeft == Spec => []TreeGone
<1>1. IInv => TreeGone
  BY DEF IInv, TreeGone, TreeHeld, LeftEscapes, Piped, Over, Commanding
<1>2. QED
  BY Inductive, <1>1, PTL

\* One background.finished event for each job, and none is forgotten.
THEOREM FinishedOnce == Spec => []ToldOnce
<1>1. IInv => ToldOnce
  BY DEF IInv
<1>2. QED
  BY Inductive, <1>1, PTL

\* When background_cancel answers that a job is cancelled, so does the table.
THEOREM AnswerIsTrue == Spec => CancelConfirmed
<1> DEFINE A == \A r \in Runs :
                   /\ call[r].phase # "idle"
                   /\ call'[r].phase = "idle"
                   /\ ~call[r].stop
                   => status'[call[r].job] = "cancelled"
<1>1. IInv /\ [Next]_vars => [A]_vars
  BY NextCancelled DEF IInv, CallsCancelled, CallsStarted
<1>2. QED
  BY Inductive, <1>1, PTL DEF Spec, CancelConfirmed
=============================================================================
