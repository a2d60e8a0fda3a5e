-------------------------- MODULE SubagentsProofs --------------------------
(***************************************************************************)
(* Theorems about Subagents, for any runs and any number of subagents, and *)
(* about the TaskBoard they share, for any number of tasks and calls.      *)
(***************************************************************************)
EXTENDS Subagents, TaskBoard, SequenceTheorems, WellFoundedInduction, TLAPS

\* Who was spawned has a parent that runs or has run and may spawn; only
\* subagents are announced in vain, have a task to begin in or report.
Forest ==
    /\ \A k \in Kids :
        /\ parent[k] = Nobody => pc[k] = "none" /\ k \notin back
        /\ parent[k] # Nobody => pc[parent[k]] # "none" /\ MaySpawn(parent[k])
    /\ \A r \in Roots : pc[r] \notin {"never", "new", "report"}

\* cur names the subagent an agent announces or calls, which is its own.
CurMatches ==
    \A a \in Agents :
        /\ cur[a] # Nobody <=> pc[a] \in {"announce", "call"}
        /\ cur[a] # Nobody => parent[cur[a]] = a
        /\ pc[a] = "announce" => pc[cur[a]] = "none"

\* A subagent that has not begun is being announced, or has a task.
Announcing ==
    \A k \in Kids :
        /\ pc[k] = "none" /\ parent[k] # Nobody => cur[parent[k]] = k
        /\ pc[k] = "new" => k \in back

\* The mode of a headless run is set as long as the run goes on.
ModeSet == \A r \in Headless : Active(r) => r \in managed

Early == {"none", "new", "loop", "ask", "announce", "call", "closing", "never"}

\* What is told of subagent k, at each place it may stand at.
StoryOf(k) ==
    /\ parent[k] # Nobody /\ pc[k] \in Early => told[k] = <<"started">>
    /\ pc[k] = "closing" => status[k] # "running"
    /\ pc[k] = "report" =>
          /\ how[k] # "open"
          /\ \E s \in {status[k], "running"} : told[k] = <<"started", s>>
    /\ pc[k] = "over" =>
          /\ how[k] # "open"
          /\ \/ \E s \in {status[k], "running"} : told[k] = <<"started", s>>
             \/ told[k] = <<"started">> /\ k \in back /\ how[k] = "cancelled"
    /\ pc[k] \in {"report", "over"} /\ how[k] = "returned" =>
          status[k] # "running" /\ told[k] = <<"started", status[k]>>

Story == \A k \in Kids : StoryOf(k)

\* The types, but for what pend says of the tasks in it.
PlainTypes ==
    /\ pc \in [Agents -> {"none", "never", "new", "loop", "ask", "announce", "call",
                          "closing", "report", "over"}]
    /\ parent \in [Kids -> Agents \cup {Nobody}]
    /\ back \subseteq Kids
    /\ cur \in [Agents -> Kids \cup {Nobody}]
    /\ status \in [Agents -> {"running", "success", "failed"}]
    /\ how \in [Agents -> {"open", "returned", "raised", "cancelled"}]
    /\ told \in [Kids -> Seq({"started", "running", "success", "failed"})]
    /\ causes \in [Agents -> SUBSET (Kids \cup {"cancel"})]
    /\ managed \subseteq Headless
    /\ waitFor \subseteq back

\* A CancelledError is to be raised only in tasks that are not over.
PendActive == \A t \in pend : t \in Agents /\ ~Fore(t) /\ Active(t)

IInv == PlainTypes /\ PendActive /\ Forest /\ CurMatches /\ Announcing
        /\ ForegroundNested /\ ModeSet /\ Story /\ AsksOnlyAsOrphan


-----------------------------------------------------------------------------
\* A second event after the first.
LEMMA TwoEvents ==
    ASSUME NEW first, NEW second
    PROVE  Append(<<first>>, second) = <<first, second>>
<1> DEFINE t == Append(<<first>>, second)
           u == <<first, second>>
           S == {first, second}
<1>1. <<first>> \in Seq(S) /\ u \in Seq(S)
  OBVIOUS
<1>2. Len(<<first>>) = 1 /\ Len(u) = 2 /\ u[1] = first /\ u[2] = second
  OBVIOUS
<1>3. t \in Seq(S) /\ Len(t) = 2
  BY <1>1, <1>2
<1>4. t[1] = first /\ t[2] = second
  BY <1>1, <1>2, AppendProperties
<1>5. \A i \in 1..Len(t) : t[i] = u[i]
  <2>1. \A i \in 1..2 : i = 1 \/ i = 2
    OBVIOUS
  <2> HIDE DEF t, u
  <2> QED BY <1>2, <1>3, <1>4, <2>1
<1>6. Len(t) = Len(u)
  BY <1>2, <1>3
<1> HIDE DEF t, u
<1>7. t = u
  BY <1>1, <1>3, <1>5, <1>6, SeqEqual
<1> QED
  BY <1>7 DEF t, u

\* Nobody has begun.
LEMMA InitInv == Init => IInv
<1> SUFFICES ASSUME Init PROVE IInv
  OBVIOUS
<1>1. PlainTypes /\ PendActive
  BY NamesAssumption DEF Init, PlainTypes, PendActive
<1>2. Forest /\ CurMatches /\ Announcing /\ ForegroundNested /\ ModeSet /\ Story /\ AsksOnlyAsOrphan
  BY HeadlessAssumption, NamesAssumption DEF Init, Agents, Forest, CurMatches, Announcing,
     ForegroundNested, ModeSet, Story, StoryOf, AsksOnlyAsOrphan, Active
<1> QED
  BY <1>1, <1>2 DEF IInv

\* The task of an agent that is active is active too, and has a name of its own.
LEMMA TaskActive ==
    ASSUME PlainTypes, Forest, ForegroundNested, NEW a \in Agents, Active(a)
    PROVE  /\ TaskOf(a) \in Agents
           /\ ~Fore(TaskOf(a))
           /\ Active(TaskOf(a))
<1>1. CASE ~Fore(a)
  BY <1>1 DEF TaskOf
<1>2. CASE Fore(a)
  <2>1. a \in Kids /\ parent[a] \in Agents /\ pc[parent[a]] = "call"
    BY <1>2 DEF Fore, ForegroundNested, PlainTypes
  <2>2. Active(parent[a])
    BY <2>1 DEF Active
  <2>3. CASE ~Fore(parent[a])
    BY <1>2, <2>1, <2>2, <2>3 DEF TaskOf
  <2>4. CASE Fore(parent[a])
    <3>1. parent[parent[a]] \in Roots /\ pc[parent[parent[a]]] = "call"
      BY <1>2, <2>1, <2>2, <2>4 DEF Fore, Forest, MaySpawn, ForegroundNested
    <3> QED BY <1>2, <2>1, <2>4, <3>1, NamesAssumption DEF TaskOf, Active, Fore, Agents
  <2> QED BY <2>3, <2>4
<1> QED BY <1>1, <1>2

\* Nobody starts to ask, and no run that is over begins again.
LEMMA AskingKept ==
    ASSUME AsksOnlyAsOrphan, UNCHANGED <<parent, back>>,
           \A a \in Agents : pc'[a] = "ask" => pc[a] = "ask",
           \A r \in Roots : pc[r] = "over" => pc'[r] = "over"
    PROVE  AsksOnlyAsOrphan'
  BY HeadlessAssumption DEF AsksOnlyAsOrphan, RootOf, TaskOf, Fore


\* A run begins; nobody belongs to it yet.
LEMMA StartRunInv ==
    ASSUME IInv, NEW r \in Roots, StartRun(r)
    PROVE  IInv'
<1> USE HeadlessAssumption, NamesAssumption DEF IInv
<1>1. PlainTypes'
  BY DEF PlainTypes, taskVars, StartRun
<1>2. PendActive'
  BY DEF PendActive, Fore, Active, taskVars, StartRun
<1>3. Forest'
  BY DEF Forest, MaySpawn, StartRun
<1>4. CurMatches'
  BY DEF PlainTypes, CurMatches, StartRun
<1>5. Announcing'
  BY DEF Announcing, StartRun
<1>6. ForegroundNested'
  BY DEF ForegroundNested, Fore, Active, StartRun
<1>7. ModeSet'
  BY DEF ModeSet, Active, StartRun
<1>8. Story'
  BY DEF Story, StoryOf, StartRun
<1>9. AsksOnlyAsOrphan'
  BY AskingKept DEF StartRun
<1> QED
  BY <1>1, <1>2, <1>3, <1>4, <1>5, <1>6, <1>7, <1>8, <1>9


\* Who asks runs in a task that is active, so that a headless run is over by then
\* unless its mode is not set.
LEMMA AskInv ==
    ASSUME IInv, NEW a \in Agents, Ask(a)
    PROVE  IInv'
<1> USE HeadlessAssumption, NamesAssumption DEF IInv
<1>1. PlainTypes'
  BY DEF PlainTypes, taskVars, Ask
<1>2. PendActive'
  BY DEF PendActive, Fore, Active, taskVars, Ask
<1>3. Forest'
  BY DEF Forest, MaySpawn, At, Ask
<1>4. CurMatches'
  BY DEF CurMatches, At, Ask
<1>5. Announcing'
  BY DEF Announcing, Ask
<1>6. ForegroundNested'
  BY DEF ForegroundNested, Fore, Active, At, Ask
<1>7. ModeSet'
  BY DEF ModeSet, Active, At, Ask
<1>8. Story'
  BY DEF Story, StoryOf, Early, At, Ask
<1>9. AsksOnlyAsOrphan'
  <2>1. At(a, "loop") /\ RootOf(a) \notin managed
    BY DEF Ask
  <2>2. /\ pc'[a] = "ask" /\ \A b \in Agents \ {a} : pc'[b] = pc[b]
        /\ UNCHANGED <<parent, back>>
    BY DEF Ask, PlainTypes
  <2>3. RootOf(a) \in Roots /\ pc[RootOf(a)] \notin {"none", "never"}
    BY <2>1 DEF RootOf, At, Forest, MaySpawn, Agents, PlainTypes
  <2>4. RootOf(a) \in Headless =>
          a \in Kids /\ pc[RootOf(a)] = "over" /\ TaskOf(a) \in back
    <3> SUFFICES ASSUME RootOf(a) \in Headless
                 PROVE  a \in Kids /\ pc[RootOf(a)] = "over" /\ TaskOf(a) \in back
      OBVIOUS
    <3>1. ~Active(RootOf(a))
      BY <2>1 DEF ModeSet
    <3>2. Active(a) /\ Active(TaskOf(a)) /\ TaskOf(a) \in Agents /\ ~Fore(TaskOf(a))
      BY <2>1, TaskActive DEF At, Active
    <3>3. a \in Kids
      BY <3>1, <3>2 DEF RootOf, Agents
    <3>4. pc[RootOf(a)] = "over"
      BY <2>3, <3>1, <3>3 DEF Active
    <3>5. TaskOf(a) \in Roots => TaskOf(a) = RootOf(a)
      BY <3>3 DEF TaskOf, RootOf, Fore
    <3>6. TaskOf(a) \in back
      BY <3>1, <3>2, <3>5 DEF Agents, Fore, Forest, Active
    <3> QED BY <3>3, <3>4, <3>6
  <2> SUFFICES ASSUME NEW b \in Agents, pc'[b] = "ask", RootOf(b)' \in Headless
               PROVE  b \in Kids /\ pc'[RootOf(b)'] = "over" /\ TaskOf(b)' \in back'
    BY DEF AsksOnlyAsOrphan
  <2>5. RootOf(b)' = RootOf(b) /\ TaskOf(b)' = TaskOf(b)
    BY <2>2 DEF RootOf, TaskOf, Fore
  <2>6. b \in Kids /\ pc[RootOf(b)] = "over" /\ TaskOf(b) \in back
    BY <2>2, <2>4, <2>5 DEF AsksOnlyAsOrphan
  <2>7. RootOf(b) # a
    BY <2>1, <2>6 DEF At
  <2> QED BY <2>2, <2>5, <2>6, <2>7 DEF Agents
<1> QED
  BY <1>1, <1>2, <1>3, <1>4, <1>5, <1>6, <1>7, <1>8, <1>9


\* An answer lets the agent go on.
LEMMA AnsweredInv ==
    ASSUME IInv, NEW a \in Agents, Answered(a)
    PROVE  IInv'
<1> USE HeadlessAssumption, NamesAssumption DEF IInv
<1>1. PlainTypes'
  BY DEF PlainTypes, taskVars, Answered
<1>2. PendActive'
  BY DEF PendActive, Fore, Active, taskVars, Answered
<1>3. Forest'
  BY DEF Forest, MaySpawn, At, Answered
<1>4. CurMatches'
  BY DEF CurMatches, At, Answered
<1>5. Announcing'
  BY DEF Announcing, Answered
<1>6. ForegroundNested'
  BY DEF ForegroundNested, Fore, Active, At, Answered
<1>7. ModeSet'
  BY DEF ModeSet, Active, At, Answered
<1>8. Story'
  BY DEF Story, StoryOf, Early, At, Answered
<1>9. AsksOnlyAsOrphan'
  BY AskingKept DEF At, Answered
<1> QED
  BY <1>1, <1>2, <1>3, <1>4, <1>5, <1>6, <1>7, <1>8, <1>9


\* A verdict is in the context before the loop closes.
LEMMA DecideInv ==
    ASSUME IInv, NEW a \in Agents, Decide(a)
    PROVE  IInv'
<1> USE HeadlessAssumption, NamesAssumption DEF IInv
<1>1. PlainTypes'
  BY DEF PlainTypes, taskVars, Decide
<1>2. PendActive'
  BY DEF PendActive, Fore, Active, taskVars, Decide
<1>3. Forest'
  BY DEF Forest, MaySpawn, At, Decide
<1>4. CurMatches'
  BY DEF CurMatches, At, Decide
<1>5. Announcing'
  BY DEF Announcing, Decide
<1>6. ForegroundNested'
  BY DEF ForegroundNested, Fore, Active, At, Decide
<1>7. ModeSet'
  BY DEF ModeSet, Active, At, Decide
<1>8. Story'
  BY DEF PlainTypes, Story, StoryOf, Early, At, Decide
<1>9. AsksOnlyAsOrphan'
  BY AskingKept DEF At, Decide
<1> QED
  BY <1>1, <1>2, <1>3, <1>4, <1>5, <1>6, <1>7, <1>8, <1>9


\* A background subagent begins in the task it has.
LEMMA BeginInv ==
    ASSUME IInv, NEW k \in Kids, Begin(k)
    PROVE  IInv'
<1> USE HeadlessAssumption, NamesAssumption DEF IInv
<1>1. PlainTypes'
  BY DEF PlainTypes, taskVars, Begin
<1>2. PendActive'
  BY DEF PendActive, Fore, Active, taskVars, Begin
<1>3. Forest'
  BY DEF Forest, MaySpawn, At, Begin
<1>4. CurMatches'
  BY DEF CurMatches, At, Begin
<1>5. Announcing'
  BY DEF Announcing, Begin
<1>6. ForegroundNested'
  BY DEF ForegroundNested, Fore, Active, At, Begin
<1>7. ModeSet'
  BY DEF ModeSet, Active, Begin
<1>8. Story'
  BY DEF Story, StoryOf, Early, At, Begin
<1>9. AsksOnlyAsOrphan'
  BY AskingKept DEF Begin
<1> QED
  BY <1>1, <1>2, <1>3, <1>4, <1>5, <1>6, <1>7, <1>8, <1>9


\* A subagent is announced: it has a parent now, and nothing else changes for others.
LEMMA SpawnInv ==
    ASSUME IInv, NEW a \in Agents, NEW k \in Kids, Spawn(a, k)
    PROVE  IInv'
<1> USE HeadlessAssumption, NamesAssumption DEF IInv
<1>1. PlainTypes'
  BY DEF PlainTypes, taskVars, Spawn
<1>2. PendActive'
  BY DEF PendActive, Forest, Fore, Active, taskVars, Spawn
<1>3. Forest'
  BY DEF PlainTypes, Forest, MaySpawn, Agents, Spawn
<1>4. CurMatches'
  BY DEF PlainTypes, CurMatches, Forest, At, Agents, Spawn
<1>5. Announcing'
  BY SMTT(30) DEF PlainTypes, Announcing, CurMatches, Forest, At, Spawn
<1>6. ForegroundNested'
  BY DEF Forest, ForegroundNested, Fore, Active, At, Spawn
<1>7. ModeSet'
  BY DEF ModeSet, Active, At, Spawn
<1>8. Story'
  BY DEF PlainTypes, Story, StoryOf, Early, Forest, At, Spawn
<1>9. AsksOnlyAsOrphan'
  <2>1. /\ pc[a] = "loop" /\ pc'[a] = "announce" /\ parent[k] = Nobody
        /\ \A b \in Agents \ {a} : pc'[b] = pc[b]
        /\ \A j \in Kids \ {k} : parent'[j] = parent[j] /\ (j \in back' <=> j \in back)
    BY DEF Spawn, At, PlainTypes
  <2>2. \A j \in Kids : parent[j] # k
    BY <2>1 DEF Forest
  <2> SUFFICES ASSUME NEW b \in Agents, pc'[b] = "ask", RootOf(b)' \in Headless
               PROVE  b \in Kids /\ pc'[RootOf(b)'] = "over" /\ TaskOf(b)' \in back'
    BY DEF AsksOnlyAsOrphan
  <2>3. pc[b] = "ask" /\ b # a /\ b # k
    BY <2>1 DEF Forest
  <2>4. RootOf(b)' = RootOf(b) /\ TaskOf(b)' = TaskOf(b)
    BY <2>1, <2>2, <2>3 DEF RootOf, TaskOf, Fore, Agents, PlainTypes, Forest
  <2>5. b \in Kids /\ pc[RootOf(b)] = "over" /\ TaskOf(b) \in back
    BY <2>3, <2>4 DEF AsksOnlyAsOrphan
  <2>6. TaskOf(b) # k
    BY <2>1, <2>5 DEF Forest
  <2> QED BY <2>1, <2>4, <2>5, <2>6, HeadlessAssumption DEF Spawn
<1> QED
  BY <1>1, <1>2, <1>3, <1>4, <1>5, <1>6, <1>7, <1>8, <1>9


\* Requests for cancellation move no agent.
LEMMA RequestsInv ==
    ASSUME IInv, UNCHANGED <<agentVars, managed>>, PlainTypes', PendActive'
    PROVE  IInv'
BY DEF IInv, Forest, CurMatches, Announcing, ForegroundNested, ModeSet, Story, StoryOf,
   AsksOnlyAsOrphan, MaySpawn, Fore, Active, RootOf, TaskOf, agentVars

\* run.cancel asks for the cancellation of a run that goes on.
LEMMA CancelRunInv ==
    ASSUME IInv, NEW r \in Roots, CancelRun(r)
    PROVE  IInv'
<1>1. PlainTypes'
  BY DEF IInv, PlainTypes, agentVars, CancelRun, Request
<1>2. PendActive'
  BY NamesAssumption DEF IInv, PendActive, Fore, Active, Agents, agentVars, CancelRun, Request
<1> QED
  BY <1>1, <1>2, RequestsInv DEF CancelRun

\* The limit of a call asks for a cancellation in the task that runs the call.
LEMMA LimitInv ==
    ASSUME IInv, NEW a \in Agents, Limit(a)
    PROVE  IInv'
<1>1. PlainTypes'
  <2>1. cur[a] \in Kids
    BY DEF IInv, Limit, CurMatches, PlainTypes
  <2> QED BY <2>1 DEF IInv, PlainTypes, Limit, Request, agentVars
<1>2. PendActive'
  <2>1. TaskOf(a) \in Agents /\ ~Fore(TaskOf(a)) /\ Active(TaskOf(a))
    BY TaskActive DEF IInv, Limit, Active
  <2> QED BY <2>1 DEF IInv, PendActive, Limit, Request, Fore, Active, agentVars
<1> QED
  BY <1>1, <1>2, RequestsInv DEF Limit

\* At shut-down every run that goes on has a CancelledError to come.
LEMMA ShutdownInv ==
    ASSUME IInv, Shutdown
    PROVE  IInv'
<1>1. PlainTypes'
  BY DEF IInv, PlainTypes, agentVars, Shutdown
<1>2. PendActive'
  BY NamesAssumption DEF IInv, PendActive, Fore, Active, Agents, agentVars, Shutdown
<1> QED
  BY <1>1, <1>2, RequestsInv DEF Shutdown

\* The daemon process ends.
LEMMA ExitInv ==
    ASSUME IInv, UNCHANGED <<agentVars, taskVars, managed, waitFor>>
    PROVE  IInv'
<1>1. PlainTypes' /\ PendActive'
  BY DEF IInv, PlainTypes, PendActive, Fore, Active, agentVars, taskVars
<1> QED
  BY <1>1, RequestsInv


\* The registry marks contexts whose verdict is open, and cancels their tasks.
LEMMA CancelAllInv ==
    ASSUME IInv, CancelAll
    PROVE  IInv'
<1> USE HeadlessAssumption, NamesAssumption DEF IInv
<1>1. PlainTypes'
  BY DEF PlainTypes, CancelAll
<1>2. PendActive'
  BY DEF PlainTypes, PendActive, Fore, Active, Agents, CancelAll
<1>3. Forest'
  BY DEF Forest, MaySpawn, CancelAll
<1>4. CurMatches'
  BY DEF CurMatches, CancelAll
<1>5. Announcing'
  BY DEF Announcing, CancelAll
<1>6. ForegroundNested'
  BY DEF ForegroundNested, Fore, Active, CancelAll
<1>7. ModeSet'
  BY DEF ModeSet, Active, CancelAll
<1>8. Story'
  BY DEF Story, StoryOf, Agents, CancelAll
<1>9. AsksOnlyAsOrphan'
  BY AskingKept DEF CancelAll
<1> QED
  BY <1>1, <1>2, <1>3, <1>4, <1>5, <1>6, <1>7, <1>8, <1>9


\* Agent a leaves its loop, cancelled or not: by then it waits for nobody.
LEMMA LeaveInv ==
    ASSUME IInv, NEW a \in Agents, pc[a] \in {"loop", "ask", "closing"},
           NEW way \in {"returned", "raised", "cancelled"},
           NEW s \in {"running", "success", "failed"}, Leave(a, way, s),
           a \in Kids /\ way = "returned" => s # "running",
           pend' \subseteq pend, TaskOf(a) \notin pend',
           UNCHANGED <<parent, back, cur, causes, daemon, waitFor>>
    PROVE  IInv'
<1> USE HeadlessAssumption, NamesAssumption DEF IInv
<1>0. \A b \in Agents \ {a} : pc'[b] = pc[b]
  BY DEF Leave
<1>1. PlainTypes'
  <2>1. CASE a \in Roots
    BY <2>1 DEF PlainTypes, Leave, RunOver
  <2>2. CASE a \in Kids
    <3>1. told[a] \in Seq({"started", "running", "success", "failed"})
      BY <2>2 DEF PlainTypes
    <3>2. Append(told[a], s) \in Seq({"started", "running", "success", "failed"})
      BY <3>1
    <3> QED BY <2>2, <3>2 DEF PlainTypes, Leave
  <2> QED BY <2>1, <2>2 DEF Agents
<1>2. PendActive'
  <2> SUFFICES ASSUME NEW t \in pend' PROVE t \in Agents /\ ~Fore(t)' /\ Active(t)'
    BY DEF PendActive
  <2>1. t \in Agents /\ ~Fore(t) /\ Active(t)
    BY DEF PendActive
  <2>2. ~Fore(t)'
    BY <2>1 DEF Fore
  <2>3. CASE t = a
    BY <2>1, <2>3 DEF TaskOf
  <2>4. CASE t # a
    <3>1. pc'[t] = pc[t]
      BY <1>0, <2>1, <2>4
    <3> QED BY <2>1, <2>2, <3>1 DEF Active
  <2> QED BY <2>1, <2>2, <2>3, <2>4
<1>3. Forest'
  BY DEF Forest, MaySpawn, Leave
<1>4. CurMatches'
  BY DEF CurMatches, Leave
<1>5. Announcing'
  BY DEF Announcing, Leave
<1>6. ForegroundNested'
  BY DEF ForegroundNested, Fore, Active, Leave
<1>7. ModeSet'
  BY DEF PlainTypes, ModeSet, Active, Leave, RunOver
<1>8. Story'
  <2>1. ASSUME NEW k \in Kids, k # a
        PROVE  /\ pc'[k] = pc[k]
               /\ told'[k] = told[k]
               /\ status'[k] = status[k]
               /\ how'[k] = how[k]
    BY <2>1 DEF Leave
  <2>2. ASSUME a \in Kids
        PROVE  /\ pc'[a] = "report"
               /\ told'[a] = <<"started", s>>
               /\ status'[a] = s
               /\ how'[a] = way
    <3>1. pc'[a] = "report" /\ status'[a] = s /\ how'[a] = way
      BY <2>2 DEF PlainTypes, Leave
    <3>2. told[a] = <<"started">>
      BY <2>2 DEF Forest, Story, StoryOf, Early
    <3>3. told'[a] = Append(told[a], s)
      BY <2>2 DEF PlainTypes, Leave
    <3> QED BY <3>1, <3>2, <3>3, TwoEvents
  <2> SUFFICES ASSUME NEW k \in Kids PROVE StoryOf(k)'
    BY DEF Story
  <2>3. CASE k = a
    BY <2>2, <2>3 DEF StoryOf, Early
  <2>4. CASE k # a
    BY <2>1, <2>4 DEF Story, StoryOf
  <2> QED BY <2>3, <2>4
<1>9. AsksOnlyAsOrphan'
  BY AskingKept DEF Leave
<1> QED
  BY <1>1, <1>2, <1>3, <1>4, <1>5, <1>6, <1>7, <1>8, <1>9

\* The loop returns with its verdict.
LEMMA FinishInv ==
    ASSUME IInv, NEW a \in Agents, Finish(a)
    PROVE  IInv'
<1>1. pc[a] = "closing" /\ TaskOf(a) \notin pend /\ Leave(a, "returned", status[a])
  BY DEF Finish, At
<1>2. status[a] \in {"running", "success", "failed"}
  BY DEF IInv, PlainTypes
<1>3. a \in Kids => status[a] # "running"
  BY <1>1 DEF IInv, Story, StoryOf
<1>4. UNCHANGED <<parent, back, cur, pend, causes, daemon, waitFor>>
  BY DEF Finish, taskVars
<1> QED
  BY <1>1, <1>2, <1>3, <1>4, LeaveInv

\* Something in the loop raises.
LEMMA RaiseInv ==
    ASSUME IInv, NEW a \in Agents, Raise(a)
    PROVE  IInv'
<1> DEFINE s == IF a \in Roots THEN "failed" ELSE status[a]
<1>1. pc[a] = "loop" /\ TaskOf(a) \notin pend /\ Leave(a, "raised", s)
  BY DEF Raise, At
<1>2. s \in {"running", "success", "failed"}
  BY DEF IInv, PlainTypes
<1>3. UNCHANGED <<parent, back, cur, pend, causes, daemon, waitFor>>
  BY DEF Raise, taskVars
<1> QED
  BY <1>1, <1>2, <1>3, LeaveInv

\* Agent a, which announces or calls its subagent k, goes to p, with c in its
\* cur, and k goes to q: the tree keeps its form.
LEMMA PairMoves ==
    ASSUME PlainTypes, Forest, CurMatches, Announcing, ForegroundNested,
           NEW a \in Agents, NEW k \in Kids, cur[a] = k, pc[k] \in {"none", "report"},
           NEW p, NEW q, NEW c,
           \/ p \in {"loop", "over"} /\ c = Nobody
           \/ p = "report" /\ a \in Kids /\ c = Nobody
           \/ p = "call" /\ c = k,
           \/ q \in {"over", "never"}
           \/ q = "new" /\ k \in back
           \/ q = "loop" /\ p = "call",
           \A b \in Agents : pc'[b] = IF b = a THEN p ELSE IF b = k THEN q ELSE pc[b],
           \A b \in Agents : cur'[b] = IF b = a THEN c ELSE cur[b],
           UNCHANGED <<parent, back>>
    PROVE  Forest' /\ CurMatches' /\ Announcing' /\ ForegroundNested'
<1> USE NamesAssumption
<1>1. /\ parent[k] = a /\ pc[a] \in {"announce", "call"}
      /\ k \in Agents /\ k \notin Roots /\ a # k /\ a # Nobody /\ k # Nobody
  BY DEF CurMatches, Agents
<1>2. /\ pc'[a] = p /\ pc'[k] = q /\ \A b \in Agents \ {a, k} : pc'[b] = pc[b]
      /\ cur'[a] = c /\ \A b \in Agents \ {a} : cur'[b] = cur[b]
  BY <1>1
<1>3. \A j \in Kids : /\ j \in Agents
                      /\ parent[j] = Nobody \/ parent[j] \in Agents
                      /\ Fore(j)' <=> Fore(j)
  BY DEF PlainTypes, Agents, Fore
<1>4. \A b : MaySpawn(b)' <=> MaySpawn(b)
  BY DEF MaySpawn
<1>5. Forest'
  <2>1. \A b \in Agents : pc[b] # "none" => pc'[b] # "none"
    BY <1>2
  <2>2. \A j \in Kids : parent[j] = Nobody => j # a /\ j # k
    BY <1>1 DEF Forest
  <2>3. \A j \in Kids : parent[j] # Nobody => pc'[parent[j]] # "none" /\ MaySpawn(parent[j])'
    BY <1>3, <1>4, <2>1 DEF Forest
  <2>4. \A r \in Roots : r \in Agents /\ r # k
    BY <1>1 DEF Agents
  <2>5. \A r \in Roots : pc'[r] \notin {"never", "new", "report"}
    BY <1>2, <2>4 DEF Forest
  <2>6. \A j \in Kids : parent[j] = Nobody => pc'[j] = "none" /\ j \notin back
    BY <1>2, <1>3, <2>2 DEF Forest
  <2> QED BY <2>3, <2>5, <2>6 DEF Forest
<1>6. CurMatches'
  <2> SUFFICES ASSUME NEW b \in Agents
               PROVE  /\ cur'[b] # Nobody <=> pc'[b] \in {"announce", "call"}
                      /\ cur'[b] # Nobody => parent[cur'[b]] = b
                      /\ pc'[b] = "announce" => pc'[cur'[b]] = "none"
    BY DEF CurMatches
  <2>1. CASE b = a
    BY <1>1, <1>2, <2>1
  <2>2. CASE b = k
    BY <1>1, <1>2, <2>2 DEF CurMatches
  <2>3. CASE b # a /\ b # k
    <3>1. pc'[b] = pc[b] /\ cur'[b] = cur[b]
      BY <1>2, <2>3
    <3>2. pc[b] = "announce" => cur[b] \in Kids /\ pc[cur[b]] = "none" /\ parent[cur[b]] = b
      BY DEF CurMatches, PlainTypes
    <3>3. pc[b] = "announce" => cur[b] # a /\ cur[b] # k
      BY <1>1, <2>3, <3>2
    <3> QED BY <1>2, <1>3, <3>1, <3>2, <3>3 DEF CurMatches
  <2> QED BY <2>1, <2>2, <2>3
<1>7. Announcing'
  <2> SUFFICES ASSUME NEW j \in Kids
               PROVE  /\ pc'[j] = "none" /\ parent[j] # Nobody => cur'[parent[j]] = j
                      /\ pc'[j] = "new" => j \in back
    BY DEF Announcing
  <2>1. pc'[j] = "none" => j # a /\ j # k /\ pc[j] = "none"
    BY <1>1, <1>2, <1>3
  <2>2. pc'[j] = "none" /\ parent[j] # Nobody => parent[j] # a
    BY <1>1, <2>1 DEF Announcing
  <2>3. pc'[j] = "new" => (j = k /\ k \in back) \/ pc[j] = "new"
    BY <1>2, <1>3
  <2> QED BY <1>2, <1>3, <2>1, <2>2, <2>3 DEF Announcing
<1>8. ForegroundNested'
  <2> SUFFICES ASSUME NEW j \in Kids, Fore(j), Active(j)'
               PROVE  pc'[parent[j]] = "call" /\ cur'[parent[j]] = j
    BY <1>3 DEF ForegroundNested
  <2>1. CASE j = k
    BY <1>1, <1>2, <2>1 DEF Fore, Active
  <2>2. CASE j # k
    <3>1. Active(j)
      BY <1>1, <1>2, <1>3, <2>2 DEF Active
    <3>2. pc[parent[j]] = "call" /\ cur[parent[j]] = j /\ parent[j] \in Agents
      BY <1>3, <3>1 DEF ForegroundNested, Fore
    <3> QED BY <1>2, <2>2, <3>2
  <2> QED BY <2>1, <2>2
<1> QED
  BY <1>5, <1>6, <1>7, <1>8

\* The subagent that a announces begins, in the task of a or in its own.
LEMMA AnnouncedInv ==
    ASSUME IInv, NEW a \in Agents, Announced(a)
    PROVE  IInv'
<1> USE HeadlessAssumption, NamesAssumption DEF IInv
<1>1. PICK k \in Kids : k = cur[a]
  BY DEF Announced, At, PlainTypes, CurMatches
<1>2. /\ pc[a] = "announce"
      /\ k # a /\ k \in Agents
      /\ parent[k] = a /\ pc[k] = "none"
      /\ \A j \in Kids : parent[j] # k
  BY <1>1 DEF Announced, At, CurMatches, Forest, Agents
<1>3. UNCHANGED <<parent, back, status, how, told, pend, causes, managed, daemon, waitFor>>
  BY DEF Announced, taskVars
<1>4. CASE k \in back
  <2>1. /\ pc' = [pc EXCEPT ![a] = "loop", ![k] = "new"]
        /\ cur' = [cur EXCEPT ![a] = Nobody]
    BY <1>1, <1>4 DEF Announced
  <2>2. /\ \A b \in Agents : pc'[b] = IF b = a THEN "loop" ELSE IF b = k THEN "new" ELSE pc[b]
        /\ \A b \in Agents : cur'[b] = IF b = a THEN Nobody ELSE cur[b]
    BY <1>1, <1>2, <2>1 DEF PlainTypes
  <2>3. PlainTypes'
    BY <1>2, <1>3, <2>1 DEF PlainTypes
  <2>4. PendActive'
    BY <1>2, <1>3, <2>2 DEF PendActive, Fore, Active
  <2>5. Forest' /\ CurMatches' /\ Announcing' /\ ForegroundNested'
    BY <1>1, <1>2, <1>3, <1>4, <2>2, PairMoves
  <2>6. ModeSet'
    BY <1>2, <1>3, <2>2 DEF ModeSet, Active, Agents
  <2>7. Story'
    BY <1>2, <1>3, <2>2 DEF Story, StoryOf, Early, Agents
  <2>8. AsksOnlyAsOrphan'
    BY <1>2, <1>3, <2>2, AskingKept DEF Agents
  <2> QED BY <2>3, <2>4, <2>5, <2>6, <2>7, <2>8
<1>5. CASE k \notin back
  <2>1. /\ pc' = [pc EXCEPT ![a] = "call", ![k] = "loop"]
        /\ cur' = cur
    BY <1>1, <1>5 DEF Announced
  <2>2. /\ \A b \in Agents : pc'[b] = IF b = a THEN "call" ELSE IF b = k THEN "loop" ELSE pc[b]
        /\ \A b \in Agents : cur'[b] = IF b = a THEN k ELSE cur[b]
    BY <1>1, <1>2, <2>1 DEF PlainTypes
  <2>3. PlainTypes'
    BY <1>2, <1>3, <2>1 DEF PlainTypes
  <2>4. PendActive'
    BY <1>2, <1>3, <2>2 DEF PendActive, Fore, Active
  <2>5. Forest' /\ CurMatches' /\ Announcing' /\ ForegroundNested'
    BY <1>1, <1>2, <1>3, <1>5, <2>2, PairMoves
  <2>6. ModeSet'
    BY <1>2, <1>3, <2>2 DEF ModeSet, Active, Agents
  <2>7. Story'
    BY <1>2, <1>3, <2>2 DEF Story, StoryOf, Early, Agents
  <2>8. AsksOnlyAsOrphan'
    BY <1>2, <1>3, <2>2, AskingKept DEF Agents
  <2> QED BY <2>3, <2>4, <2>5, <2>6, <2>7, <2>8
<1> QED
  BY <1>4, <1>5

\* Subagent k, whose result a waits for in a call, is over, and so is the call:
\* a goes on in its loop.
LEMMA ReturnInv ==
    ASSUME IInv, NEW k \in Kids, k \notin back, pc[k] = "report", Return(k),
           UNCHANGED <<parent, back, pend, causes, daemon, waitFor>>
    PROVE  IInv'
<1> USE HeadlessAssumption, NamesAssumption DEF IInv
<1>1. PICK a \in Agents : a = parent[k]
  BY DEF PlainTypes, Forest
<1>2. /\ pc[a] = "call" /\ cur[a] = k /\ k # a /\ k \in Agents
      /\ \A j \in Kids : j # k /\ parent[j] = a => ~(Fore(j) /\ Active(j))
      /\ \A j \in Kids : parent[j] = k => ~(Fore(j) /\ Active(j))
  BY <1>1 DEF ForegroundNested, Fore, Active, Agents
<1>3. /\ pc' = [pc EXCEPT ![k] = "over", ![a] = "loop"]
      /\ cur' = [cur EXCEPT ![a] = Nobody]
      /\ UNCHANGED <<status, how, told, managed>>
  BY <1>1 DEF Return
<1>4. /\ \A b \in Agents : pc'[b] = IF b = a THEN "loop" ELSE IF b = k THEN "over" ELSE pc[b]
      /\ \A b \in Agents : cur'[b] = IF b = a THEN Nobody ELSE cur[b]
  BY <1>2, <1>3 DEF PlainTypes
<1>5. PlainTypes'
  BY <1>2, <1>3 DEF PlainTypes
<1>6. PendActive'
  BY <1>1, <1>2, <1>3, <1>4 DEF PendActive, Fore, Active, Forest, PlainTypes
<1>7. Forest' /\ CurMatches' /\ Announcing' /\ ForegroundNested'
  BY <1>2, <1>4, PairMoves
<1>8. ModeSet'
  BY <1>2, <1>3, <1>4 DEF ModeSet, Active, Agents
<1>9. Story'
  <2> SUFFICES ASSUME NEW j \in Kids PROVE StoryOf(j)'
    BY DEF Story
  <2>1. j \in Agents /\ StoryOf(j) /\ UNCHANGED <<told[j], how[j], status[j], parent[j], back>>
    BY <1>3 DEF Agents, Story
  <2>2. CASE j = k
    BY <1>2, <1>4, <2>1, <2>2 DEF StoryOf, Early
  <2>3. CASE j = a
    BY <1>2, <1>4, <2>1, <2>3 DEF StoryOf, Early
  <2>4. CASE j # a /\ j # k
    BY <1>4, <2>1, <2>4 DEF StoryOf
  <2> QED BY <2>2, <2>3, <2>4
<1>10. AsksOnlyAsOrphan'
  <2>1. k \notin Roots
    OBVIOUS
  <2>2. \A b \in Agents : pc'[b] = "ask" => pc[b] = "ask"
    BY <1>4
  <2>3. \A r \in Roots : pc[r] = "over" => pc'[r] = "over"
    BY <1>2, <1>4, <2>1 DEF Agents
  <2> QED BY <2>2, <2>3, AskingKept
<1> QED
  BY <1>5, <1>6, <1>7, <1>8, <1>9, <1>10

\* The CancelledError of a call or an announcement is a result, or goes on to
\* the agent that made the call.
LEMMA CaughtInv ==
    ASSUME IInv, NEW a \in Agents, NEW k \in Kids, k \notin back \/ pc[a] = "announce", cur[a] = k,
           NEW end \in {"over", "never"}, NEW way \in {"cancelled", "open"},
           \/ pc[a] = "call" /\ pc[k] = "report" /\ end = "over" /\ way = "cancelled"
           \/ pc[a] = "announce" /\ pc[k] = "none" /\ end = "never" /\ way = "open",
           Caught(a, k, end, way),
           pend' \subseteq pend, TaskOf(a) \notin pend',
           UNCHANGED <<parent, back, daemon, waitFor>>
    PROVE  IInv'
<1> USE HeadlessAssumption, NamesAssumption DEF IInv
<1> DEFINE through == (causes[TaskOf(a)] \ {k} # {})
<1>1. /\ parent[k] = a /\ k # a /\ k \in Agents
      /\ pc[a] \in {"call", "announce"}
      /\ \A j \in Kids : j # k /\ parent[j] = a => ~(Fore(j) /\ Active(j))
      /\ \A j \in Kids : parent[j] = k => ~(Fore(j) /\ Active(j))
      /\ TaskOf(a) \in Agents
      /\ ~Fore(a) => TaskOf(a) = a
  <2>1. parent[k] = a /\ k # a /\ k \in Agents /\ pc[a] \in {"call", "announce"}
    BY DEF CurMatches, Agents
  <2>2. /\ \A j \in Kids : j # k /\ parent[j] = a => ~(Fore(j) /\ Active(j))
        /\ \A j \in Kids : parent[j] = k => ~(Fore(j) /\ Active(j))
    BY <2>1 DEF ForegroundNested
  <2>3. TaskOf(a) \in Agents
    BY <2>1, TaskActive DEF Active
  <2> QED BY <2>1, <2>2, <2>3 DEF TaskOf
<1>2. causes' = [causes EXCEPT ![TaskOf(a)] = @ \ {k}] /\ cur' = [cur EXCEPT ![a] = Nobody]
  BY DEF Caught
<1>3. \A b \in Agents : cur'[b] = IF b = a THEN Nobody ELSE cur[b]
  BY <1>2 DEF PlainTypes
<1>4. CASE ~through
  <2>1. /\ pc' = [pc EXCEPT ![k] = end, ![a] = "loop"]
        /\ how' = [how EXCEPT ![k] = way]
        /\ UNCHANGED <<status, told, managed>>
    BY <1>4 DEF Caught
  <2>2. /\ \A b \in Agents : pc'[b] = IF b = a THEN "loop" ELSE IF b = k THEN end ELSE pc[b]
        /\ \A b \in Agents : how'[b] = IF b = k THEN way ELSE how[b]
    BY <1>1, <2>1 DEF PlainTypes
  <2>3. PlainTypes'
    BY <1>1, <1>2, <2>1 DEF PlainTypes
  <2>4. PendActive'
    BY <1>1, <2>2 DEF PendActive, Fore, Active, Forest
  <2>5. Forest' /\ CurMatches' /\ Announcing' /\ ForegroundNested'
    BY <1>1, <1>3, <2>2, PairMoves
  <2>6. ModeSet'
    BY <1>1, <2>1, <2>2 DEF ModeSet, Active, Agents
  <2>7. Story'
    <3> SUFFICES ASSUME NEW j \in Kids PROVE StoryOf(j)'
      BY DEF Story
    <3>1. j \in Agents /\ StoryOf(j) /\ UNCHANGED <<told[j], status[j], parent[j], back>>
      BY <2>1 DEF Agents, Story
    <3>2. CASE j = a
      BY <1>1, <2>2, <3>1, <3>2 DEF StoryOf, Early
    <3>3. CASE j = k
      BY <1>1, <2>2, <3>1, <3>3 DEF StoryOf, Early
    <3>4. CASE j # a /\ j # k
      BY <2>2, <3>1, <3>4 DEF StoryOf
    <3> QED BY <3>2, <3>3, <3>4
  <2>8. AsksOnlyAsOrphan'
    <3>1. k \notin Roots
      OBVIOUS
    <3>2. \A b \in Agents : pc'[b] = "ask" => pc[b] = "ask"
      BY <2>2
    <3>3. \A r \in Roots : pc[r] = "over" => pc'[r] = "over"
      BY <1>1, <2>2, <3>1 DEF Agents
    <3> QED BY <3>2, <3>3, AskingKept
  <2> QED
    BY <2>3, <2>4, <2>5, <2>6, <2>7, <2>8
<1>5. CASE through
  <2> DEFINE after == IF a \in Roots THEN "over" ELSE "report"
  <2>1. /\ how' = [how EXCEPT ![k] = way, ![a] = "cancelled"]
        /\ status' = [status EXCEPT ![a] = Cancelled(a)]
        /\ pc' = [pc EXCEPT ![k] = end, ![a] = after]
        /\ told' = IF a \in Roots THEN told ELSE [told EXCEPT ![a] = Append(@, Cancelled(a))]
        /\ (IF a \in Roots THEN RunOver(a) ELSE UNCHANGED managed)
    BY <1>5 DEF Caught
  <2>2. /\ \A b \in Agents : pc'[b] = IF b = a THEN after ELSE IF b = k THEN end ELSE pc[b]
        /\ \A b \in Agents : how'[b] = IF b = a THEN "cancelled" ELSE IF b = k THEN way ELSE how[b]
        /\ \A b \in Agents \ {a} : status'[b] = status[b]
        /\ status'[a] = Cancelled(a)
        /\ Cancelled(a) \in {"success", "failed"}
    BY <1>1, <2>1 DEF PlainTypes, Cancelled
  <2>3. PlainTypes'
    <3>1. told' \in [Kids -> Seq({"started", "running", "success", "failed"})]
      <4>1. ASSUME a \in Kids
            PROVE  Append(told[a], Cancelled(a)) \in
                     Seq({"started", "running", "success", "failed"})
        <5>1. told[a] \in Seq({"started", "running", "success", "failed"})
          BY <4>1 DEF PlainTypes
        <5> QED BY <2>2, <5>1
      <4> QED BY <2>1, <4>1 DEF PlainTypes
    <3>2. managed' \subseteq Headless
      BY <2>1 DEF PlainTypes, RunOver
    <3>3. /\ pc' \in [Agents -> {"none", "never", "new", "loop", "ask", "announce", "call",
                                 "closing", "report", "over"}]
          /\ how' \in [Agents -> {"open", "returned", "raised", "cancelled"}]
          /\ status' \in [Agents -> {"running", "success", "failed"}]
      BY <1>1, <2>1, <2>2 DEF PlainTypes
    <3> QED BY <1>1, <1>2, <3>1, <3>2, <3>3 DEF PlainTypes
  <2>4. PendActive'
    <3> SUFFICES ASSUME NEW t \in pend' PROVE t \in Agents /\ ~Fore(t)' /\ Active(t)'
      BY DEF PendActive
    <3>1. t \in Agents /\ ~Fore(t) /\ Active(t) /\ t # TaskOf(a)
      BY DEF PendActive
    <3>2. t # a
      BY <1>1, <3>1
    <3>3. t # k
      BY <1>1, <3>1 DEF Fore, Active, Forest
    <3> QED BY <2>2, <3>1, <3>2, <3>3 DEF Fore, Active
  <2>5. Forest' /\ CurMatches' /\ Announcing' /\ ForegroundNested'
    <3>1. after = "over" \/ (after = "report" /\ a \in Kids)
      BY DEF Agents
    <3> HIDE DEF after
    <3> QED BY <1>1, <1>3, <2>2, <3>1, PairMoves
  <2>6. ModeSet'
    BY <1>1, <2>1, <2>2 DEF ModeSet, Active, Agents, RunOver
  <2>7. Story'
    <3>1. ASSUME a \in Kids PROVE told'[a] = <<"started", Cancelled(a)>>
      <4>1. told[a] = <<"started">>
        BY <1>1, <3>1 DEF Forest, Story, StoryOf, Early
      <4>2. told'[a] = Append(told[a], Cancelled(a))
        BY <2>1, <3>1 DEF PlainTypes
      <4> QED BY <4>1, <4>2, TwoEvents
    <3>2. \A j \in Kids \ {a} : told'[j] = told[j]
      BY <2>1
    <3> SUFFICES ASSUME NEW j \in Kids PROVE StoryOf(j)'
      BY DEF Story
    <3>3. CASE j = a
      BY <2>2, <3>1, <3>3 DEF StoryOf, Early
    <3>4. CASE j = k
      BY <1>1, <2>2, <3>2, <3>4 DEF Story, StoryOf, Early
    <3>5. CASE j # a /\ j # k
      BY <2>2, <3>2, <3>5 DEF Story, StoryOf, Agents
    <3> QED BY <3>3, <3>4, <3>5
  <2>8. AsksOnlyAsOrphan'
    <3>1. k \notin Roots
      OBVIOUS
    <3>2. \A b \in Agents : pc'[b] = "ask" => pc[b] = "ask"
      BY <2>2
    <3>3. \A r \in Roots : pc[r] = "over" => pc'[r] = "over"
      BY <1>1, <2>2, <3>1 DEF Agents
    <3> QED BY <3>2, <3>3, AskingKept
  <2> QED
    BY <2>3, <2>4, <2>5, <2>6, <2>7, <2>8
<1> QED
  BY <1>4, <1>5

\* A background subagent is over, cancelled before it began or at the last event,
\* or after it: nobody waits for it.
LEMMA BackgroundOverInv ==
    ASSUME IInv, NEW k \in Kids, k \in back, pc[k] \in {"new", "report"},
           pc' = [pc EXCEPT ![k] = "over"],
           how' = how \/ how' = [how EXCEPT ![k] = "cancelled"],
           pc[k] = "new" => how' = [how EXCEPT ![k] = "cancelled"],
           pend' \subseteq pend, k \notin pend',
           UNCHANGED <<parent, back, cur, status, told, causes, managed, daemon, waitFor>>
    PROVE  IInv'
<1> USE HeadlessAssumption, NamesAssumption DEF IInv
<1>1. /\ k \in Agents /\ k \notin Roots /\ parent[k] # Nobody
      /\ \A b \in Agents : pc'[b] = IF b = k THEN "over" ELSE pc[b]
  BY DEF PlainTypes, Agents, Forest
<1>2. PlainTypes'
  BY <1>1 DEF PlainTypes
<1>3. PendActive'
  BY <1>1 DEF PendActive, Fore, Active
<1>4. Forest'
  BY <1>1 DEF Forest, MaySpawn
<1>5. CurMatches'
  BY <1>1 DEF CurMatches
<1>6. Announcing'
  BY <1>1 DEF Announcing
<1>7. ForegroundNested'
  BY <1>1 DEF ForegroundNested, Fore, Active
<1>8. ModeSet'
  BY <1>1 DEF ModeSet, Active
<1>9. Story'
  <2> SUFFICES ASSUME NEW j \in Kids PROVE StoryOf(j)'
    BY DEF Story
  <2>1. j \in Agents /\ StoryOf(j) /\ UNCHANGED <<told[j], status[j], parent[j], back>>
    BY DEF Agents, Story
  <2>2. CASE j = k
    <3>1. how'[k] = how[k] \/ how'[k] = "cancelled"
      BY <1>1 DEF PlainTypes
    <3>2. pc[k] = "new" => how'[k] = "cancelled"
      BY <1>1 DEF PlainTypes
    <3> QED BY <1>1, <2>1, <2>2, <3>1, <3>2 DEF StoryOf, Early
  <2>3. CASE j # k
    <3>1. how'[j] = how[j] /\ pc'[j] = pc[j]
      BY <1>1, <2>1, <2>3 DEF PlainTypes
    <3> QED BY <2>1, <3>1 DEF StoryOf
  <2> QED BY <2>2, <2>3
<1>10. AsksOnlyAsOrphan'
  BY <1>1, AskingKept
<1> QED
  BY <1>2, <1>3, <1>4, <1>5, <1>6, <1>7, <1>8, <1>9, <1>10

\* The task of a foreground subagent is the task of the agent that calls it.
LEMMA CallersTask ==
    ASSUME PlainTypes, Forest, ForegroundNested, NEW k \in Kids, Fore(k)
    PROVE  parent[k] \in Agents /\ TaskOf(k) = TaskOf(parent[k])
<1>1. parent[k] \in Agents /\ MaySpawn(parent[k])
  BY DEF Fore, PlainTypes, Forest
<1>2. CASE Fore(parent[k])
  <2>1. parent[parent[k]] \in Roots /\ parent[k] \in Kids
    BY <1>1, <1>2 DEF Fore, MaySpawn
  <2>2. ~Fore(parent[parent[k]])
    BY <2>1, NamesAssumption DEF Fore
  <2> QED BY <1>1, <1>2, <2>2 DEF TaskOf
<1>3. CASE ~Fore(parent[k])
  BY <1>1, <1>3 DEF TaskOf
<1> QED BY <1>2, <1>3

\* The finished event of k is out: in the background it is over; a call has its
\* result or the CancelledError.
LEMMA ReportedInv ==
    ASSUME IInv, NEW k \in Kids, Reported(k)
    PROVE  IInv'
<1>1. /\ pc[k] = "report" /\ TaskOf(k) \notin pend
      /\ UNCHANGED <<parent, back, pend, daemon, waitFor>>
  BY DEF Reported, At
<1>2. CASE k \in back
  <2>1. TaskOf(k) = k
    BY <1>2 DEF TaskOf, Fore
  <2>2. /\ pc' = [pc EXCEPT ![k] = "over"]
        /\ UNCHANGED <<cur, status, how, told, managed, causes>>
    BY <1>2 DEF Reported
  <2> QED BY <1>1, <1>2, <2>1, <2>2, BackgroundOverInv
<1>3. CASE k \notin back /\ how[k] # "cancelled"
  <2>1. Return(k) /\ UNCHANGED causes
    BY <1>3 DEF Reported
  <2> QED BY <1>1, <1>3, <2>1, ReturnInv
<1>4. CASE k \notin back /\ how[k] = "cancelled"
  <2>1. Caught(parent[k], k, "over", "cancelled")
    BY <1>4 DEF Reported
  <2>2. Fore(k) /\ Active(k)
    BY <1>1, <1>4 DEF IInv, Forest, Fore, Active
  <2>3. parent[k] \in Agents /\ TaskOf(k) = TaskOf(parent[k])
    BY <2>2, CallersTask DEF IInv
  <2>4. pc[parent[k]] = "call" /\ cur[parent[k]] = k
    BY <2>2 DEF IInv, ForegroundNested
  <2> QED BY <1>1, <1>4, <2>1, <2>3, <2>4, CaughtInv
<1> QED
  BY <1>2, <1>3, <1>4

\* Wherever the innermost agent of a task stands, a CancelledError ends it there
\* or ends the call it is in.
LEMMA InterruptInv ==
    ASSUME IInv, NEW a \in Agents, Interrupt(a)
    PROVE  IInv'
<1> DEFINE rest == UNCHANGED <<parent, back, daemon, waitFor>>
<1>1. /\ Active(a) /\ pc[a] # "call" /\ pend' = pend \ {TaskOf(a)} /\ rest
  BY DEF Interrupt, Innermost
<1>2. pend' \subseteq pend /\ TaskOf(a) \notin pend'
  BY <1>1
<1>3. pc[a] \in {"new", "loop", "ask", "announce", "closing", "report"}
  BY <1>1 DEF IInv, PlainTypes, Active
<1>4. CASE pc[a] = "new" \/ (pc[a] = "report" /\ a \in back)
  <2>1. a \in Kids /\ a \in back
    BY <1>4 DEF IInv, Forest, Announcing, Agents
  <2>2. TaskOf(a) = a
    BY <2>1 DEF TaskOf, Fore
  <2>3. /\ pc' = [pc EXCEPT ![a] = "over"]
        /\ how' = [how EXCEPT ![a] = "cancelled"]
        /\ UNCHANGED <<cur, status, told, managed, causes>>
    BY <1>4 DEF Interrupt
  <2> QED BY <1>1, <1>2, <1>4, <2>1, <2>2, <2>3, BackgroundOverInv
<1>5. CASE pc[a] = "announce"
  <2>1. Caught(a, cur[a], "never", "open")
    BY <1>5 DEF Interrupt
  <2>2. cur[a] \in Kids /\ pc[cur[a]] = "none"
    BY <1>5 DEF IInv, CurMatches, PlainTypes
  <2> QED BY <1>1, <1>2, <1>5, <2>1, <2>2, CaughtInv
<1>6. CASE pc[a] = "report" /\ a \notin back
  <2>1. a \in Kids
    BY <1>6 DEF IInv, Forest, Agents
  <2>2. Fore(a) /\ Active(a)
    BY <1>6, <2>1 DEF IInv, Forest, Fore, Active
  <2>3. parent[a] \in Agents /\ TaskOf(a) = TaskOf(parent[a])
    BY <2>1, <2>2, CallersTask DEF IInv
  <2>4. pc[parent[a]] = "call" /\ cur[parent[a]] = a
    BY <2>1, <2>2 DEF IInv, ForegroundNested
  <2>5. Caught(parent[a], a, "over", "cancelled")
    BY <1>6 DEF Interrupt
  <2> QED BY <1>1, <1>2, <1>6, <2>1, <2>3, <2>4, <2>5, CaughtInv
<1>7. CASE pc[a] \in {"loop", "ask", "closing"}
  <2>1. Leave(a, "cancelled", Cancelled(a)) /\ UNCHANGED <<cur, causes>>
    BY <1>7 DEF Interrupt
  <2>2. Cancelled(a) \in {"running", "success", "failed"}
    BY DEF Cancelled, IInv, PlainTypes
  <2> QED BY <1>1, <1>2, <1>7, <2>1, <2>2, LeaveInv
<1>8. \/ pc[a] = "new"
      \/ pc[a] = "report" /\ a \in back
      \/ pc[a] = "announce"
      \/ pc[a] = "report" /\ a \notin back
      \/ pc[a] \in {"loop", "ask", "closing"}
  BY <1>3
<1> QED
  BY <1>4, <1>5, <1>6, <1>7, <1>8

\* Every step keeps the invariant.
LEMMA StepInv == IInv /\ [Next]_vars => IInv'
<1> SUFFICES ASSUME IInv, [Next]_vars PROVE IInv'
  OBVIOUS
<1>1. ASSUME NEW r \in Roots, StartRun(r) \/ CancelRun(r) PROVE IInv'
  BY <1>1, StartRunInv, CancelRunInv
<1>2. ASSUME NEW a \in Agents, Progress(a) \/ Ask(a) \/ Limit(a) PROVE IInv'
  BY <1>2, DecideInv, RaiseInv, FinishInv, BeginInv, ReportedInv, AnsweredInv, AnnouncedInv,
     InterruptInv, AskInv, LimitInv DEF Progress
<1>3. ASSUME NEW a \in Agents, NEW k \in Kids, Spawn(a, k) PROVE IInv'
  BY <1>3, SpawnInv
<1>4. CASE Shutdown \/ CancelAll
  BY <1>4, ShutdownInv, CancelAllInv
<1>5. CASE Exit \/ UNCHANGED vars
  BY <1>5, ExitInv DEF Exit, vars
<1> QED
  BY <1>1, <1>2, <1>3, <1>4, <1>5 DEF Next

-----------------------------------------------------------------------------
\* The inductive invariant holds in every state.
THEOREM InductiveInvariant == Spec => []IInv
BY InitInv, StepInv, PTL DEF Spec

\* Every variable keeps its type: a CancelledError is only ever to be raised in
\* the task of a run or of a background subagent that goes on.
THEOREM TypeCorrect == Spec => []TypeOK
<1>1. IInv => TypeOK
  BY DEF IInv, PlainTypes, PendActive, TypeOK
<1> QED
  BY <1>1, InductiveInvariant, PTL

\* A foreground subagent never runs on after the tool call it belongs to, for
\* any number of agents (invoke_tool's wait_for around SpawnAgentTool.invoke).
THEOREM NestedInCalls == Spec => []ForegroundNested
<1>1. IInv => ForegroundNested
  BY DEF IInv
<1> QED
  BY <1>1, InductiveInvariant, PTL

\* A headless run and its subagents ask nobody, but for a subagent that outlives
\* the run in the background (CoreApp._cleanup).
THEOREM AsksAsOrphan == Spec => []AsksOnlyAsOrphan
<1>1. IInv => AsksOnlyAsOrphan
  BY DEF IInv
<1> QED
  BY <1>1, InductiveInvariant, PTL

\* A subagent that began and is over has published one finished event with the
\* status it keeps, and a result called completed has a verdict
\* (SpawnAgentTool.invoke and _run_background, finally; AgentResultTool).
THEOREM OneFinishedEvent == Spec => []FinishedOnce
<1>1. IInv => FinishedOnce
  <2> SUFFICES ASSUME IInv, NEW k \in Kids, pc[k] = "over"
      PROVE /\ \/ Len(told[k]) = 2 /\ (told[k][2] = status[k] \/ told[k][2] = "running")
               \/ told[k] = <<"started">> /\ k \in back /\ how[k] = "cancelled"
            /\ k \in back /\ AgentResult(k) = "completed" =>
                   status[k] # "running" /\ told[k] = <<"started", status[k]>>
    BY DEF FinishedOnce
  <2>1. StoryOf(k) /\ how[k] # "open"
    BY DEF IInv, Story, StoryOf
  <2>2. \A s : Len(<<"started", s>>) = 2 /\ <<"started", s>>[2] = s
    OBVIOUS
  <2>3. AgentResult(k) = "completed" => how[k] = "returned"
    BY <2>1 DEF AgentResult, IInv, PlainTypes, Agents
  <2> QED BY <2>1, <2>2, <2>3 DEF StoryOf
<1> QED
  BY <1>1, InductiveInvariant, PTL

-----------------------------------------------------------------------------
(* The task board, which a run and its subagents share                     *)

\* A completed task was reported; every dependency declared for a task is still
\* listed in its file, or was reported: clearing the lists of others loses none.
CompletedReported == \A t \in Ids : Completed(t) => t \in reported
DeclaredKept ==
    \A t \in Ids : Readable(t) => declared[t] \subseteq file[t].blocked \cup reported

TasksInv == BoardTypeOK /\ CompletedReported /\ DeclaredKept

\* The markers of files that hold no task are no tasks.
LEMMA NotTasks == Absent \notin Task /\ Torn \notin Task
  BY DEF Absent, Torn, Task, Status

\* A cleared file is a task with the same status and owner, and lacks nothing
\* but the cleared dependency.
LEMMA ClearedTask ==
  ASSUME NEW f \in [Ids -> Task \cup {Absent, Torn}], NEW t \in Ids,
         NEW us \in SUBSET {u \in Ids : f[u] \in Task}, NEW u \in Ids
  PROVE  /\ Cleared(f, t, us)[u] \in Task \cup {Absent, Torn}
         /\ Cleared(f, t, us)[u] \in Task <=> f[u] \in Task
         /\ f[u] \notin Task => Cleared(f, t, us)[u] = f[u]
         /\ f[u] \in Task =>
              /\ Cleared(f, t, us)[u].status = f[u].status
              /\ Cleared(f, t, us)[u].owner = f[u].owner
              /\ f[u].blocked \subseteq Cleared(f, t, us)[u].blocked \cup {t}
              /\ Cleared(f, t, us)[u].blocked \subseteq f[u].blocked
              /\ us = {} => Cleared(f, t, us)[u] = f[u]
  <1>1. CASE u \in us
    <2>1. f[u] \in Task
      BY <1>1
    <2>2. Cleared(f, t, us)[u] = [f[u] EXCEPT !.blocked = @ \ {t}]
      BY <1>1 DEF Cleared
    <2> QED BY <1>1, <2>1, <2>2 DEF Task
  <1>2. CASE u \notin us
    BY <1>2 DEF Cleared
  <1> QED BY <1>1, <1>2

\* An empty board satisfies the invariant.
THEOREM TasksInit == BoardInit => TasksInv
  <1> SUFFICES ASSUME BoardInit PROVE TasksInv OBVIOUS
  <1>1. BoardTypeOK
    <2>1. file \in [Ids -> Task \cup {Absent, Torn}]
          /\ declared \in [Ids -> SUBSET Ids]
      BY DEF BoardInit
    <2>2. nextId \in 1 .. MaxTasks + 1 /\ updates \in 0 .. MaxUpdates
          /\ failures \in 0 .. MaxFailures
      BY BoardAssumption DEF BoardInit
    <2>3. reported \subseteq Ids /\ tangled \in BOOLEAN
      BY DEF BoardInit
    <2> QED BY <2>1, <2>2, <2>3 DEF BoardTypeOK
  <1>2. \A t \in Ids : ~Readable(t)
    BY NotTasks DEF BoardInit, Readable
  <1> QED BY <1>1, <1>2 DEF TasksInv, CompletedReported, DeclaredKept, Completed

\* task_create, whether or not the file is written, keeps the invariant.
LEMMA CreateTask ==
  ASSUME TasksInv, NEW deps \in SUBSET Ids, Create(deps)
  PROVE  TasksInv'
  <1> USE DEF TasksInv
  <1>1. nextId \in Ids /\ UNCHANGED <<updates, reported>>
    BY DEF Create
  <1>2. CASE /\ file' = [file EXCEPT ![nextId] =
                           [status |-> "pending", blocked |-> deps, owner |-> NoOwner]]
             /\ nextId' = nextId + 1
             /\ declared' = [declared EXCEPT ![nextId] = deps]
             /\ failures' = failures
    <2> DEFINE new == [status |-> "pending", blocked |-> deps, owner |-> NoOwner]
    <2>1. new \in Task
      BY DEF Task, Status
    <2>2. BoardTypeOK'
      <3>1. tangled' \in BOOLEAN
        BY DEF Create
      <3> QED BY <1>1, <1>2, <2>1, <3>1, BoardAssumption DEF BoardTypeOK, Ids
    <2>3. \A t \in Ids : t # nextId => file'[t] = file[t] /\ declared'[t] = declared[t]
      BY <1>2 DEF BoardTypeOK
    <2>4. file'[nextId] = new /\ declared'[nextId] = deps
      BY <1>1, <1>2 DEF BoardTypeOK
    <2>5. CompletedReported'
      BY <1>1, <2>3, <2>4 DEF CompletedReported, Completed, Readable
    <2>6. DeclaredKept'
      BY <1>1, <2>3, <2>4 DEF DeclaredKept, Readable
    <2> QED BY <2>2, <2>5, <2>6
  <1>3. CASE /\ failures < MaxFailures
             /\ failures' = failures + 1
             /\ file' = [file EXCEPT ![nextId] = Torn]
             /\ UNCHANGED <<nextId, declared>>
    <2>1. BoardTypeOK'
      <3>1. tangled' \in BOOLEAN
        BY DEF Create
      <3> QED BY <1>1, <1>3, <3>1, BoardAssumption DEF BoardTypeOK, Ids
    <2>2. \A t \in Ids : t # nextId => file'[t] = file[t]
      BY <1>3 DEF BoardTypeOK
    <2>3. file'[nextId] \notin Task
      BY <1>1, <1>3, NotTasks DEF BoardTypeOK
    <2>4. CompletedReported' /\ DeclaredKept'
      BY <1>1, <1>3, <2>2, <2>3 DEF CompletedReported, DeclaredKept, Completed, Readable
    <2> QED BY <2>1, <2>4
  <1> QED BY <1>2, <1>3 DEF Create

\* task_claim keeps it: the list of the claimed task is not touched.
LEMMA ClaimTask ==
  ASSUME TasksInv, NEW t \in Ids, NEW o \in Owners, Claim(t, o)
  PROVE  TasksInv'
  <1> USE DEF TasksInv
  <1>1. /\ file[t] \in Task
        /\ UNCHANGED <<nextId, updates, declared, reported, tangled>>
    BY DEF Claim, Claimable, Readable
  <1>2. /\ file'[t] \in Task \cup {Torn}
        /\ file'[t] \in Task =>
             file'[t].status = "in_progress" /\ file'[t].blocked = file[t].blocked
        /\ \A u \in Ids : u # t => file'[u] = file[u]
        /\ file' \in [Ids -> Task \cup {Absent, Torn}]
    <2>1. CASE file' = [file EXCEPT ![t].status = "in_progress", ![t].owner = o]
      <3>1. file'[t] = [file[t] EXCEPT !.status = "in_progress", !.owner = o]
        BY <2>1 DEF BoardTypeOK
      <3>2. file'[t] \in Task
        BY <1>1, <3>1 DEF Task, Status
      <3>3. file'[t].status = "in_progress" /\ file'[t].blocked = file[t].blocked
        BY <1>1, <3>1 DEF Task
      <3>4. \A u \in Ids : u # t => file'[u] = file[u]
        BY <2>1 DEF BoardTypeOK
      <3>5. file' \in [Ids -> Task \cup {Absent, Torn}]
        BY <2>1, <3>2, <3>4 DEF BoardTypeOK
      <3> QED BY <3>2, <3>3, <3>4, <3>5
    <2>2. CASE file' = [file EXCEPT ![t] = Torn]
      BY <2>2, NotTasks DEF BoardTypeOK
    <2> QED BY <2>1, <2>2 DEF Claim
  <1>3. failures' \in 0 .. MaxFailures
    BY BoardAssumption DEF Claim, BoardTypeOK
  <1>4. BoardTypeOK'
    BY <1>1, <1>2, <1>3 DEF BoardTypeOK
  <1>5. CompletedReported' /\ DeclaredKept'
    BY <1>1, <1>2 DEF CompletedReported, DeclaredKept, Completed, Readable
  <1> QED BY <1>4, <1>5

\* What update makes of the files other than its own, and what of its own.
LEMMA UpdatedFiles ==
  ASSUME BoardTypeOK, NEW t \in Ids, NEW newStatus \in Status \cup {"keep"},
         NEW add \in SUBSET Ids, NEW remove \in SUBSET Ids,
         file[t] \in Task, file' = AfterUpdate(t, newStatus, add, remove)
  PROVE  /\ file' \in [Ids -> Task \cup {Absent, Torn}]
         /\ file'[t] = Updated(t, newStatus, add, remove)
         /\ file'[t] \in Task
         /\ \A u \in Ids \ {t} :
              /\ file'[u] \in Task <=> file[u] \in Task
              /\ file[u] \in Task =>
                   /\ file'[u].status = file[u].status
                   /\ file'[u].owner = file[u].owner
                   /\ file[u].blocked \subseteq
                        file'[u].blocked \cup (IF newStatus = "completed" THEN {t} ELSE {})
         /\ \A u \in Ids \ {t} :
              /\ file[u] \notin Task => file'[u] = file[u]
              /\ file[u] \in Task => file'[u].blocked \subseteq file[u].blocked
  <1> DEFINE us == IF newStatus = "completed" THEN Listing(t) ELSE {}
             f  == Cleared(file, t, us)
  <1>1. us \in SUBSET {u \in Ids : file[u] \in Task}
    BY DEF Listing, Readable
  <1>2. file \in [Ids -> Task \cup {Absent, Torn}]
    BY DEF BoardTypeOK
  <1>3. \A u \in Ids :
          /\ f[u] \in Task \cup {Absent, Torn}
          /\ f[u] \in Task <=> file[u] \in Task
          /\ file[u] \notin Task => f[u] = file[u]
          /\ file[u] \in Task =>
               /\ f[u].status = file[u].status
               /\ f[u].owner = file[u].owner
               /\ f[u].blocked \subseteq file[u].blocked
               /\ file[u].blocked \subseteq f[u].blocked \cup {t}
               /\ us = {} => f[u] = file[u]
    BY <1>1, <1>2, ClearedTask
  <1>4. Updated(t, newStatus, add, remove) \in Task
    BY DEF Updated, Task, Status
  <1>5. f = [u \in Ids |-> f[u]]
    BY DEF Cleared
  <1>6. file' = [f EXCEPT ![t] = Updated(t, newStatus, add, remove)]
    BY DEF AfterUpdate
  <1>7. /\ file' \in [Ids -> Task \cup {Absent, Torn}]
        /\ file'[t] = Updated(t, newStatus, add, remove)
        /\ \A u \in Ids \ {t} : file'[u] = f[u]
    <2> HIDE DEF f
    <2> QED BY <1>3, <1>4, <1>5, <1>6
  <1>8. \A u \in Ids \ {t} : file[u] \in Task =>
          file[u].blocked \subseteq
            file'[u].blocked \cup (IF newStatus = "completed" THEN {t} ELSE {})
    <2>1. CASE newStatus = "completed"
      BY <1>3, <1>7, <2>1
    <2>2. CASE newStatus # "completed"
      <3>1. us = {}
        BY <2>2
      <3> QED BY <1>3, <1>7, <2>2, <3>1
    <2> QED BY <2>1, <2>2
  <1> QED BY <1>3, <1>4, <1>7, <1>8

\* What a failing update leaves of them.
LEMMA FailedFiles ==
  ASSUME BoardTypeOK, NEW t \in Ids, NEW newStatus \in Status \cup {"keep"},
         file' \in FilesAfterFailure(t, newStatus)
  PROVE  /\ file' \in [Ids -> Task \cup {Absent, Torn}]
         /\ \A u \in Ids : file'[u] = Absent => file[u] = Absent
         /\ \A u \in Ids : file'[u] \in Task =>
              /\ file[u] \in Task
              /\ file'[u].status = file[u].status
              /\ file'[u].owner = file[u].owner
              /\ file'[u].blocked \subseteq file[u].blocked
              /\ file[u].blocked \subseteq
                   file'[u].blocked \cup (IF newStatus = "completed" THEN {t} ELSE {})
  <1> DEFINE todo == IF newStatus = "completed" THEN Listing(t) ELSE {}
  <1>1. PICK us \in SUBSET todo, v \in Ids :
             file' = [Cleared(file, t, us) EXCEPT ![v] = Torn]
    <2>1. todo \subseteq Ids
      BY DEF Listing
    <2> QED BY <2>1 DEF FilesAfterFailure
  <1> DEFINE f == Cleared(file, t, us)
  <1>2. us \in SUBSET {u \in Ids : file[u] \in Task}
    BY <1>1 DEF Listing, Readable
  <1>3. file \in [Ids -> Task \cup {Absent, Torn}]
    BY DEF BoardTypeOK
  <1>4. \A u \in Ids :
          /\ f[u] \in Task \cup {Absent, Torn}
          /\ f[u] \in Task <=> file[u] \in Task
          /\ file[u] \notin Task => f[u] = file[u]
          /\ file[u] \in Task =>
               /\ f[u].status = file[u].status
               /\ f[u].owner = file[u].owner
               /\ f[u].blocked \subseteq file[u].blocked
               /\ file[u].blocked \subseteq f[u].blocked \cup {t}
               /\ us = {} => f[u] = file[u]
    BY <1>2, <1>3, ClearedTask
  <1>5. f = [u \in Ids |-> f[u]]
    BY DEF Cleared
  <1>6. /\ file' \in [Ids -> Task \cup {Absent, Torn}]
        /\ file'[v] = Torn
        /\ \A u \in Ids \ {v} : file'[u] = f[u]
    <2>1. file' = [f EXCEPT ![v] = Torn]
      BY <1>1
    <2> HIDE DEF f
    <2> QED BY <1>4, <1>5, <2>1
  <1>7. \A u \in Ids : file'[u] = Absent => file[u] = Absent
    <2>1. Torn # Absent
      BY DEF Torn, Absent
    <2> QED BY <1>4, <1>6, <2>1, NotTasks
  <1>8. CASE newStatus = "completed"
    BY <1>4, <1>6, <1>7, <1>8, NotTasks
  <1>9. CASE newStatus # "completed"
    <2>1. us = {}
      BY <1>1, <1>9
    <2> QED BY <1>4, <1>6, <1>7, <1>9, <2>1, NotTasks
  <1> QED BY <1>8, <1>9

\* task_update keeps it: what it clears from the lists of others is reported.
LEMMA UpdateTask ==
  ASSUME TasksInv, NEW t \in Ids,
         NEW newStatus \in Status \cup {"keep"},
         NEW add \in SUBSET Ids, NEW remove \in SUBSET Ids,
         Update(t, newStatus, add, remove)
  PROVE  TasksInv'
  <1> USE DEF TasksInv
  <1> DEFINE done == IF newStatus = "completed" THEN {t} ELSE {}
  <1>1. /\ file[t] \in Task
        /\ reported' = reported \cup done
        /\ nextId' = nextId
        /\ updates' \in 0 .. MaxUpdates
        /\ failures' \in 0 .. MaxFailures
        /\ tangled' \in BOOLEAN
    BY BoardAssumption DEF Update, Readable, BoardTypeOK
  <1>2. reported' \subseteq Ids
    BY <1>1 DEF BoardTypeOK
  <1>3. CASE /\ file' = AfterUpdate(t, newStatus, add, remove)
             /\ declared' = [declared EXCEPT ![t] = (@ \cup add) \ remove]
    <2>1. /\ file' \in [Ids -> Task \cup {Absent, Torn}]
          /\ file'[t] = Updated(t, newStatus, add, remove)
          /\ file'[t] \in Task
          /\ \A u \in Ids \ {t} :
               /\ file'[u] \in Task <=> file[u] \in Task
               /\ file[u] \in Task =>
                    /\ file'[u].status = file[u].status
                    /\ file'[u].owner = file[u].owner
                    /\ file[u].blocked \subseteq file'[u].blocked \cup done
      <3>1. BoardTypeOK
        OBVIOUS
      <3>2. newStatus \in Status \cup {"keep"}
        OBVIOUS
      <3> QED BY ONLY <1>1, <1>3, <3>1, <3>2, UpdatedFiles, t \in Ids,
                      add \in SUBSET Ids, remove \in SUBSET Ids, ZenonT(30)
    <2>2. /\ file'[t].status = (IF newStatus = "keep" THEN file[t].status ELSE newStatus)
          /\ file'[t].blocked = (file[t].blocked \cup add) \ remove
      BY <1>1, <2>1 DEF Updated, Task
    <2>3. /\ declared'[t] = (declared[t] \cup add) \ remove
          /\ \A u \in Ids \ {t} : declared'[u] = declared[u]
          /\ declared' \in [Ids -> SUBSET Ids]
      BY <1>3 DEF BoardTypeOK
    <2>4. BoardTypeOK'
      BY <1>1, <1>2, <2>1, <2>3 DEF BoardTypeOK
    <2>5. CompletedReported'
      <3> SUFFICES ASSUME NEW u \in Ids, Completed(u)' PROVE u \in reported'
        BY DEF CompletedReported
      <3>1. CASE u = t
        BY <1>1, <2>2, <3>1 DEF CompletedReported, Completed, Readable
      <3>2. CASE u # t
        BY <1>1, <2>1, <3>2 DEF CompletedReported, Completed, Readable
      <3> QED BY <3>1, <3>2
    <2>6. DeclaredKept'
      <3> SUFFICES ASSUME NEW u \in Ids, Readable(u)'
                   PROVE  declared'[u] \subseteq file'[u].blocked \cup reported'
        BY DEF DeclaredKept
      <3>1. CASE u = t
        <4>1. declared[t] \subseteq file[t].blocked \cup reported
          BY <1>1 DEF DeclaredKept, Readable
        <4> QED BY <1>1, <2>2, <2>3, <3>1, <4>1
      <3>2. CASE u # t
        <4>1. file[u] \in Task
          BY <2>1, <3>2 DEF Readable
        <4>2. declared[u] \subseteq file[u].blocked \cup reported
          BY <4>1 DEF DeclaredKept, Readable
        <4>3. file[u].blocked \subseteq file'[u].blocked \cup done
          BY <2>1, <3>2, <4>1
        <4>4. declared'[u] = declared[u]
          BY <2>3, <3>2
        <4> QED BY <1>1, <4>2, <4>3, <4>4
      <3> QED BY <3>1, <3>2
    <2> QED BY <2>4, <2>5, <2>6
  <1>4. CASE file' \in FilesAfterFailure(t, newStatus) /\ declared' = declared
    <2>1. /\ file' \in [Ids -> Task \cup {Absent, Torn}]
          /\ \A u \in Ids : file'[u] \in Task =>
               /\ file[u] \in Task
               /\ file'[u].status = file[u].status
               /\ file'[u].owner = file[u].owner
               /\ file[u].blocked \subseteq file'[u].blocked \cup done
      BY <1>4, FailedFiles
    <2>2. BoardTypeOK'
      BY <1>1, <1>2, <1>4, <2>1 DEF BoardTypeOK
    <2>3. CompletedReported'
      BY <1>1, <2>1 DEF CompletedReported, Completed, Readable
    <2>4. DeclaredKept'
      <3> SUFFICES ASSUME NEW u \in Ids, Readable(u)'
                   PROVE  declared'[u] \subseteq file'[u].blocked \cup reported'
        BY DEF DeclaredKept
      <3>1. file[u] \in Task /\ file[u].blocked \subseteq file'[u].blocked \cup done
        BY <2>1 DEF Readable
      <3>2. declared[u] \subseteq file[u].blocked \cup reported
        BY <3>1 DEF DeclaredKept, Readable
      <3> QED BY <1>1, <1>4, <3>1, <3>2
    <2> QED BY <2>2, <2>3, <2>4
  <1> QED BY <1>3, <1>4 DEF Update

\* Every step is a call of one method, or changes nothing.
LEMMA TaskCalls ==
  ASSUME BoardNext
  PROVE  \/ \E deps \in SUBSET Ids : Create(deps)
         \/ \E t \in Ids, o \in Owners : Claim(t, o)
         \/ \E t \in Ids, newStatus \in Status \cup {"keep"},
               add, remove \in SUBSET Ids :
              Update(t, newStatus, add, remove)
  BY DEF BoardNext, UpdateSome

\* Every step of the board keeps the invariant.
THEOREM TasksStep == TasksInv /\ [BoardNext]_boardVars => TasksInv'
  <1> SUFFICES ASSUME TasksInv, [BoardNext]_boardVars PROVE TasksInv'
    OBVIOUS
  <1>1. CASE BoardNext
    BY <1>1, TaskCalls, CreateTask, ClaimTask, UpdateTask
  <1>2. CASE UNCHANGED boardVars
    BY <1>2 DEF boardVars, TasksInv, BoardTypeOK, CompletedReported, DeclaredKept,
       Completed, Readable
  <1> QED BY <1>1, <1>2

\* The invariant holds in every state a sequence of task calls reaches.
THEOREM TasksInvariant == BoardSpec => []TasksInv
  <1> QED BY TasksInit, TasksStep, PTL DEF BoardSpec

\* The files, the counters and the histories of the board keep their types,
\* whatever calls are made and writes fail.
THEOREM TasksTyped == BoardSpec => []BoardTypeOK
  <1>1. TasksInv => BoardTypeOK
    BY DEF TasksInv
  <1> QED BY <1>1, TasksInvariant, PTL

\* Whether a task becomes owned in this step before its time.
ClaimedInOrder(t) ==
    (/\ Readable(t) /\ file'[t] \in Task
     /\ file[t].owner = NoOwner /\ file'[t].owner # NoOwner)
    => declared[t] \subseteq reported

\* Only a claim makes a task owned, and it looks at every listed dependency.
LEMMA StepClaimsInOrder ==
  ASSUME TasksInv, [BoardNext]_boardVars, NEW t \in Ids
  PROVE  ClaimedInOrder(t)
  <1> USE DEF TasksInv
  <1> SUFFICES ASSUME Readable(t), file'[t] \in Task,
                      file[t].owner = NoOwner, file'[t].owner # NoOwner
               PROVE  declared[t] \subseteq reported
    BY DEF ClaimedInOrder
  <1>1. ASSUME NEW deps \in SUBSET Ids, Create(deps) PROVE FALSE
    <2>1. nextId \in Ids
      BY <1>1 DEF Create
    <2>2. CASE t = nextId
      BY <1>1, <2>1, <2>2, NotTasks DEF Create, BoardTypeOK
    <2>3. CASE t # nextId
      BY <1>1, <2>3 DEF Create, BoardTypeOK
    <2> QED BY <2>2, <2>3
  <1>2. ASSUME NEW u \in Ids, NEW o \in Owners, Claim(u, o)
        PROVE  declared[t] \subseteq reported
    <2>1. CASE u = t
      <3>1. \A d \in file[t].blocked : Completed(d)
        BY <1>2, <2>1 DEF Claim, Claimable
      <3>2. file[t].blocked \subseteq Ids
        BY DEF Readable, Task
      <3>3. file[t].blocked \subseteq reported
        BY <3>1, <3>2 DEF CompletedReported
      <3> QED BY <3>3 DEF DeclaredKept
    <2>2. CASE u # t
      BY <1>2, <2>2 DEF Claim, BoardTypeOK
    <2> QED BY <2>1, <2>2
  <1>3. ASSUME NEW u \in Ids, NEW newStatus \in Status \cup {"keep"},
               NEW add \in SUBSET Ids, NEW remove \in SUBSET Ids,
               Update(u, newStatus, add, remove)
        PROVE  FALSE
    <2>1. file[u] \in Task /\ file[t] \in Task
      BY <1>3 DEF Update, Readable
    <2>2. CASE file' = AfterUpdate(u, newStatus, add, remove)
      <3>1. /\ file'[u] = Updated(u, newStatus, add, remove)
            /\ \A w \in Ids \ {u} : file[w] \in Task => file'[w].owner = file[w].owner
        <4>1. BoardTypeOK
          OBVIOUS
        <4> QED BY ONLY <2>1, <2>2, <4>1, UpdatedFiles, u \in Ids, add \in SUBSET Ids,
                        remove \in SUBSET Ids,
                        newStatus \in Status \cup {"keep"}, ZenonT(30)
      <3>2. file'[u].owner = file[u].owner
        BY <2>1, <3>1 DEF Updated, Task
      <3> QED BY <2>1, <3>1, <3>2
    <2>3. CASE file' \in FilesAfterFailure(u, newStatus)
      <3>1. \A w \in Ids : file'[w] \in Task => file'[w].owner = file[w].owner
        BY <2>3, FailedFiles
      <3> QED BY <3>1
    <2> QED BY <1>3, <2>2, <2>3 DEF Update
  <1>4. CASE BoardNext
    BY <1>1, <1>2, <1>3, <1>4, TaskCalls
  <1>5. CASE UNCHANGED boardVars
    BY <1>5 DEF boardVars
  <1> QED BY <1>4, <1>5

\* A task is claimed only after everything declared for it was reported done,
\* although completions rewrite the files of other tasks, tasks are reopened,
\* and a write may fail between any two files.
THEOREM ClaimsInOrder == BoardSpec => ClaimInOrder
  <1>1. TasksInv /\ [BoardNext]_boardVars => [\A t \in Ids : ClaimedInOrder(t)]_boardVars
    BY StepClaimsInOrder
  <1>2. [][\A t \in Ids : ClaimedInOrder(t)]_boardVars <=> ClaimInOrder
    BY PTL DEF ClaimInOrder, ClaimedInOrder
  <1> QED BY <1>1, <1>2, TasksInvariant, PTL DEF BoardSpec

----------------------------------------------------------------------------
(* A board without cycles                                                  *)

\* The tasks before the next id have files, the others at most a torn one.
IdsGrow ==
    \A t \in Ids : /\ t < nextId => file[t] # Absent
                   /\ t >= nextId => file[t] \notin Task

\* On an untangled board lists name older tasks, which have files.
OlderOnly ==
    ~tangled => \A t \in Ids : Readable(t) => \A d \in file[t].blocked : d < t

OrderInv == TasksInv /\ IdsGrow /\ OlderOnly

\* The empty board lists nothing and no file is there.
LEMMA OrderInit == BoardInit => OrderInv
  <1> SUFFICES ASSUME BoardInit PROVE OrderInv
    OBVIOUS
  <1>1. \A t \in Ids : file[t] \notin Task /\ ~(t < nextId)
    <2>1. \A t \in Ids : file[t] \notin Task
      BY NotTasks DEF BoardInit
    <2>2. \A t \in Ids : ~(t < nextId)
      <3>1. nextId = 1
        BY DEF BoardInit
      <3>2. \A t \in Ids : t \in Nat /\ t >= 1
        BY BoardAssumption DEF Ids
      <3> QED BY <3>1, <3>2
    <2> QED BY <2>1, <2>2
  <1> QED BY <1>1, TasksInit DEF OrderInv, IdsGrow, OlderOnly, Readable

\* A new task has the next id, and what it waits for has a smaller one.
LEMMA CreateOrder ==
  ASSUME OrderInv, NEW deps \in SUBSET Ids, Create(deps)
  PROVE  IdsGrow' /\ OlderOnly'
  <1> USE DEF OrderInv, TasksInv
  <1>1. nextId \in Ids /\ Ids \subseteq Nat
    BY BoardAssumption DEF Create, Ids
  <1>2. ~tangled' => ~tangled /\ \A d \in deps : d < nextId
    <2>1. ~tangled' => ~tangled /\ \A d \in deps : ~(d >= nextId)
      BY DEF Create
    <2>2. \A d \in deps : ~(d >= nextId) => d < nextId
      BY <1>1
    <2> QED BY <2>1, <2>2
  <1>3. CASE /\ file' = [file EXCEPT ![nextId] =
                           [status |-> "pending", blocked |-> deps, owner |-> NoOwner]]
             /\ nextId' = nextId + 1
    <2> DEFINE new == [status |-> "pending", blocked |-> deps, owner |-> NoOwner]
    <2>1. file'[nextId] = new /\ \A t \in Ids \ {nextId} : file'[t] = file[t]
      BY <1>1, <1>3 DEF BoardTypeOK
    <2>2. new \in Task
      BY DEF Task, Status
    <2>3. IdsGrow'
      <3> SUFFICES ASSUME NEW t \in Ids
                   PROVE  /\ t < nextId' => file'[t] # Absent
                          /\ t >= nextId' => file'[t] \notin Task
        BY DEF IdsGrow
      <3>1. CASE t = nextId
        BY <1>1, <1>3, <2>1, <2>2, <3>1, NotTasks
      <3>2. CASE t # nextId
        BY <1>1, <1>3, <2>1, <3>2 DEF IdsGrow
      <3> QED BY <3>1, <3>2
    <2>4. OlderOnly'
      BY <1>2, <2>1 DEF OlderOnly, Readable
    <2> QED BY <2>3, <2>4
  <1>4. CASE file' = [file EXCEPT ![nextId] = Torn] /\ nextId' = nextId
    <2>1. file'[nextId] = Torn /\ \A t \in Ids \ {nextId} : file'[t] = file[t]
      BY <1>1, <1>4 DEF BoardTypeOK
    <2>2. Torn # Absent
      BY DEF Torn, Absent
    <2>3. IdsGrow'
      BY <1>1, <1>4, <2>1, <2>2, NotTasks DEF IdsGrow
    <2>4. OlderOnly'
      BY <1>2, <2>1, NotTasks DEF OlderOnly, Readable
    <2> QED BY <2>3, <2>4
  <1> QED BY <1>3, <1>4 DEF Create

\* A step that writes files of tasks only leaves no new file behind, and no
\* file disappears.
LEMMA IdsStay ==
  ASSUME IdsGrow, nextId' = nextId,
         \A u \in Ids : /\ file'[u] \in Task => file[u] \in Task
                        /\ file'[u] = Absent => file[u] = Absent
  PROVE  IdsGrow'
  BY DEF IdsGrow

\* A claim changes no list and removes no file.
LEMMA ClaimOrder ==
  ASSUME OrderInv, NEW t \in Ids, NEW o \in Owners, Claim(t, o)
  PROVE  IdsGrow' /\ OlderOnly'
  <1> USE DEF OrderInv, TasksInv
  <1>1. file[t] \in Task /\ nextId' = nextId /\ tangled' = tangled
    BY DEF Claim, Claimable, Readable
  <1>2. /\ \A u \in Ids \ {t} : file'[u] = file[u]
        /\ file'[t] # Absent
        /\ file'[t] \in Task => file'[t].blocked = file[t].blocked
    <2>1. CASE file' = [file EXCEPT ![t].status = "in_progress", ![t].owner = o]
      <3>1. file'[t] = [file[t] EXCEPT !.status = "in_progress", !.owner = o]
        BY <2>1 DEF BoardTypeOK
      <3>2. file'[t] \in Task
        BY <1>1, <3>1 DEF Task, Status
      <3>3. file'[t].blocked = file[t].blocked
        BY <1>1, <3>1 DEF Task
      <3>4. \A u \in Ids \ {t} : file'[u] = file[u]
        BY <2>1 DEF BoardTypeOK
      <3> QED BY <3>2, <3>3, <3>4, NotTasks
    <2>2. CASE file' = [file EXCEPT ![t] = Torn]
      <3>1. file'[t] = Torn /\ \A u \in Ids \ {t} : file'[u] = file[u]
        BY <2>2 DEF BoardTypeOK
      <3>2. Torn # Absent
        BY DEF Torn, Absent
      <3> QED BY <3>1, <3>2, NotTasks
    <2> QED BY <2>1, <2>2 DEF Claim
  <1>3. IdsGrow'
    BY <1>1, <1>2, IdsStay
  <1>4. OlderOnly'
    BY <1>1, <1>2 DEF OlderOnly, Readable
  <1> QED BY <1>3, <1>4

\* An update only shortens other lists, and adds older tasks to its own.
LEMMA UpdateOrder ==
  ASSUME OrderInv, NEW t \in Ids, NEW newStatus \in Status \cup {"keep"},
         NEW add \in SUBSET Ids, NEW remove \in SUBSET Ids,
         Update(t, newStatus, add, remove)
  PROVE  IdsGrow' /\ OlderOnly'
  <1>1. BoardTypeOK /\ IdsGrow /\ OlderOnly
    BY DEF OrderInv, TasksInv
  <1>2. /\ file[t] \in Task
        /\ nextId' = nextId
        /\ ~tangled' => ~tangled /\ \A d \in add \ remove : d < t
    <2>1. ~tangled' => ~tangled /\ \A d \in add \ remove : ~(d >= t)
      BY DEF Update
    <2>2. \A d \in add \ remove : ~(d >= t) => d < t
      BY DEF Ids
    <2>3. file[t] \in Task /\ nextId' = nextId
      BY DEF Update, Readable
    <2> QED BY <2>1, <2>2, <2>3
  <1>3. CASE file' = AfterUpdate(t, newStatus, add, remove)
    <2>1. /\ file'[t] = Updated(t, newStatus, add, remove)
          /\ file'[t] \in Task
          /\ \A u \in Ids \ {t} :
               /\ file'[u] \in Task <=> file[u] \in Task
               /\ file[u] \notin Task => file'[u] = file[u]
               /\ file[u] \in Task => file'[u].blocked \subseteq file[u].blocked
      BY <1>1, <1>2, <1>3, UpdatedFiles, ZenonT(60)
    <2>2. file'[t].blocked = (file[t].blocked \cup add) \ remove
      BY <1>2, <2>1 DEF Updated, Task
    <2>3. IdsGrow'
      BY <1>1, <1>2, <2>1, NotTasks, IdsStay
    <2>4. OlderOnly'
      <3> SUFFICES ASSUME ~tangled', NEW u \in Ids, Readable(u)',
                          NEW d \in file'[u].blocked
                   PROVE  d < u
        BY DEF OlderOnly
      <3>1. CASE u = t
        BY <1>1, <1>2, <2>2, <3>1 DEF OlderOnly, Readable
      <3>2. CASE u # t
        BY <1>1, <1>2, <2>1, <3>2 DEF OlderOnly, Readable
      <3> QED BY <3>1, <3>2
    <2> QED BY <2>3, <2>4
  <1>4. CASE file' \in FilesAfterFailure(t, newStatus)
    <2>1. \A u \in Ids :
            /\ file'[u] = Absent => file[u] = Absent
            /\ file'[u] \in Task =>
                 file[u] \in Task /\ file'[u].blocked \subseteq file[u].blocked
      BY <1>1, <1>4, FailedFiles
    <2>2. IdsGrow'
      BY <1>1, <1>2, <2>1, IdsStay
    <2>3. OlderOnly'
      BY <1>1, <1>2, <2>1 DEF OlderOnly, Readable
    <2> QED BY <2>2, <2>3
  <1> QED BY <1>3, <1>4 DEF Update

\* Every step keeps ids and lists in order.
LEMMA OrderStep == OrderInv /\ [BoardNext]_boardVars => OrderInv'
  <1> SUFFICES ASSUME OrderInv, [BoardNext]_boardVars PROVE OrderInv'
    OBVIOUS
  <1>1. TasksInv'
    BY TasksStep DEF OrderInv
  <1>2. CASE BoardNext
    BY <1>1, <1>2, TaskCalls, CreateOrder, ClaimOrder, UpdateOrder DEF OrderInv
  <1>3. CASE UNCHANGED boardVars
    BY <1>1, <1>3 DEF boardVars, OrderInv, IdsGrow, OlderOnly, Readable
  <1> QED BY <1>2, <1>3

\* A set of ids that is not empty has an oldest task.
LEMMA Oldest ==
  ASSUME NEW S \in SUBSET Ids, S # {}
  PROVE  \E t \in S : \A u \in S : ~(u < t)
  <1>1. S \subseteq Nat
    BY DEF Ids
  <1>2. PICK t \in S : \A u \in S : ~(<<u, t>> \in OpToRel(<, Nat))
    BY <1>1, NatLessThanWellFounded, WFMin
  <1> QED BY <1>1, <1>2 DEF OpToRel

\* The oldest open task waits for tasks that are all completed.
LEMMA OldestCanBeClaimed == OrderInv => NeverStuck
  <1> SUFFICES ASSUME OrderInv, ~tangled, \A t \in Ids : file[t] # Torn,
                      Incomplete # {}
               PROVE  \E t \in Incomplete : \/ Claimable(t)
                                            \/ file[t].owner # NoOwner
                                            \/ file[t].status = "in_progress"
    BY DEF NeverStuck
  <1>1. PICK t \in Incomplete : \A u \in Incomplete : ~(u < t)
    BY Oldest DEF Incomplete
  <1>2. t \in Ids /\ file[t] \in Task /\ file[t].status # "completed"
    BY DEF Incomplete, Completed, Readable
  <1>3. \A d \in file[t].blocked : Completed(d)
    <2> SUFFICES ASSUME NEW d \in file[t].blocked PROVE Completed(d)
      OBVIOUS
    <2>1. d \in Ids /\ d < t
      BY <1>2 DEF OrderInv, OlderOnly, Readable, Task
    <2>2. t < nextId
      BY <1>2 DEF OrderInv, TasksInv, BoardTypeOK, IdsGrow, Ids
    <2>3. d < nextId
      BY <1>2, <2>1, <2>2 DEF Ids, OrderInv, TasksInv, BoardTypeOK
    <2>4. file[d] \in Task
      BY <2>1, <2>3 DEF OrderInv, TasksInv, BoardTypeOK, IdsGrow
    <2> QED BY <1>1, <2>1, <2>4 DEF Incomplete, Readable
  <1>4. file[t].status \in {"pending", "in_progress"}
    BY <1>2 DEF Task, Status
  <1> QED BY <1>1, <1>2, <1>3, <1>4 DEF Claimable, Readable

\* On a board where tasks wait for older ones only, and with every file
\* readable, the oldest open task is in somebody's hands or free to claim.
THEOREM BoardNeverStuck == BoardSpec => []NeverStuck
  <1> QED BY OrderInit, OrderStep, OldestCanBeClaimed, PTL DEF BoardSpec
=============================================================================
