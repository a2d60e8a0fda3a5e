------------------------------ MODULE Subagents ------------------------------
(***************************************************************************)
(* SpawnAgentTool, AgentResultTool and BackgroundTaskRegistry: the tree of *)
(* agents that grows from the runs.  A foreground subagent is a call in    *)
(* its parent's task, under the 120 s limit of the tool call; a background *)
(* subagent is a task of its own.  A cancellation of a task is raised in   *)
(* the innermost agent of the task and unwinds outwards; a limit cancels   *)
(* in the same way, and its tool call turns it into a result.  AgentLoop   *)
(* is the module for what an agent does in its loop.                       *)
(***************************************************************************)
EXTENDS Naturals, Sequences, FiniteSets

CONSTANTS
    Roots,     \* runs
    Kids,      \* subagents that can be spawned
    Headless,  \* the runs started by agent.run in a mode that refuses to ask
    Nobody

ASSUME HeadlessAssumption == Headless \subseteq Roots

\* The ids of runs and subagents are different.
ASSUME NamesAssumption ==
    /\ Roots \cap Kids = {}
    /\ Nobody \notin Roots \cup Kids
    /\ "cancel" \notin Kids

Agents == Roots \cup Kids

VARIABLES
    pc,       \* where each agent stands
    parent,   \* who spawned a subagent
    back,     \* subagents in the background
    cur,      \* the subagent that an agent is announcing or waiting for
    status,   \* ExecutionContext.status
    how,      \* how the agent's coroutine ended
    told      \* the events about a subagent

VARIABLES
    pend,     \* tasks in which a CancelledError is still to be raised
    causes,   \* of each task: its requests for cancellation that are not settled,
              \* "cancel" or the subagent whose limit expired
    managed,  \* headless runs whose permission mode is set
    daemon,   \* "up", "runs" (runs are cancelled), "subs" (registry) or "off"
    waitFor   \* the subagents that the registry's cancel_all waits for

agentVars == <<pc, parent, back, cur, status, how, told>>
taskVars == <<pend, causes>>
vars == <<agentVars, taskVars, managed, daemon, waitFor>>

Fore(k) == k \in Kids /\ k \notin back /\ parent[k] # Nobody

\* The task an agent runs in, named after the run or background subagent.
TaskOf(a) ==
    IF ~Fore(a) THEN a
    ELSE IF ~Fore(parent[a]) THEN parent[a] ELSE parent[parent[a]]

RootOf(a) ==
    IF a \in Roots THEN a
    ELSE IF parent[a] \in Roots THEN parent[a] ELSE parent[parent[a]]

\* Nesting: subagents of subagents get no spawn_agent tool.
MaySpawn(a) == a \in Kids => parent[a] \in Roots

Active(a) == pc[a] \notin {"none", "never", "over"}

\* The agent runs and no CancelledError is to be raised in its task.
At(a, position) == pc[a] = position /\ TaskOf(a) \notin pend

Init ==
    /\ pc = [a \in Agents |-> "none"]
    /\ parent = [k \in Kids |-> Nobody]
    /\ back = {}
    /\ cur = [a \in Agents |-> Nobody]
    /\ status = [a \in Agents |-> "running"]
    /\ how = [a \in Agents |-> "open"]
    /\ told = [k \in Kids |-> <<>>]
    /\ pend = {}
    /\ causes = [a \in Agents |-> {}]
    /\ managed = {}
    /\ daemon = "up"
    /\ waitFor = {}

-----------------------------------------------------------------------------
(* Runs and what an agent does by itself                                    *)

\* Variant for mutation: the handler clears the mode when it returns the id.
StartRunUnmanaged(r) ==
    /\ daemon = "up"
    /\ pc[r] = "none"
    /\ pc' = [pc EXCEPT ![r] = "loop"]
    /\ UNCHANGED <<parent, back, cur, status, how, told, taskVars, managed, daemon, waitFor>>

StartRun(r) ==
    /\ daemon = "up"
    /\ pc[r] = "none"
    /\ pc' = [pc EXCEPT ![r] = "loop"]
    /\ managed' = managed \cup (Headless \cap {r})
    /\ UNCHANGED <<parent, back, cur, status, how, told, taskVars, daemon, waitFor>>

\* A tool of the agent needs an approval: a client is asked unless the mode of
\* the run's session refuses at once, which Decide contains.
Ask(a) ==
    /\ At(a, "loop")
    /\ RootOf(a) \notin managed
    /\ pc' = [pc EXCEPT ![a] = "ask"]
    /\ UNCHANGED <<parent, back, cur, status, how, told, taskVars, managed, daemon, waitFor>>

\* The answer, or the end of the time allowed for it.
Answered(a) ==
    /\ At(a, "ask")
    /\ pc' = [pc EXCEPT ![a] = "loop"]
    /\ UNCHANGED <<parent, back, cur, status, how, told, taskVars, managed, daemon, waitFor>>

\* The loop has its verdict and publishes step.finished.
Decide(a) ==
    /\ At(a, "loop")
    /\ \E s \in {"success", "failed"} : status' = [status EXCEPT ![a] = s]
    /\ pc' = [pc EXCEPT ![a] = "closing"]
    /\ UNCHANGED <<parent, back, cur, how, told, taskVars, managed, daemon, waitFor>>

-----------------------------------------------------------------------------
(* The end of an agent                                                      *)

\* The runner's finally of a run; a headless run's mode is cleared with it.
RunOver(r) == managed' = managed \ {r}

\* Variant for mutation: a subagent that is cancelled says nothing.
LeaveQuietly(a, way, s) ==
    /\ how' = [how EXCEPT ![a] = way]
    /\ status' = [status EXCEPT ![a] = s]
    /\ pc' = [pc EXCEPT ![a] = IF a \in Roots THEN "over" ELSE "report"]
    /\ told' = IF a \in Roots \/ way = "cancelled" THEN told
               ELSE [told EXCEPT ![a] = Append(@, s)]
    /\ IF a \in Roots THEN RunOver(a) ELSE UNCHANGED managed

\* The agent leaves its loop: a run is over, a subagent publishes that it has
\* finished, with the status of its context.
Leave(a, way, s) ==
    /\ how' = [how EXCEPT ![a] = way]
    /\ status' = [status EXCEPT ![a] = s]
    /\ pc' = [pc EXCEPT ![a] = IF a \in Roots THEN "over" ELSE "report"]
    /\ told' = IF a \in Roots THEN told ELSE [told EXCEPT ![a] = Append(@, s)]
    /\ IF a \in Roots THEN RunOver(a) ELSE UNCHANGED managed

Finish(a) ==
    /\ At(a, "closing")
    /\ Leave(a, "returned", status[a])
    /\ UNCHANGED <<parent, back, cur, taskVars, daemon, waitFor>>

\* Something in the loop raises: a subagent's context keeps its status.
Raise(a) ==
    /\ At(a, "loop")
    /\ Leave(a, "raised", IF a \in Roots THEN "failed" ELSE status[a])
    /\ UNCHANGED <<parent, back, cur, taskVars, daemon, waitFor>>

\* A CancelledError leaves agent a with its status, running or not.
Cancelled(a) == IF status[a] = "running" THEN "failed" ELSE status[a]

\* Variant for mutation: the result does not reach the waiting parent.
ReturnToNobody(k) ==
    /\ pc' = [pc EXCEPT ![k] = "over"]
    /\ cur' = [cur EXCEPT ![parent[k]] = Nobody]
    /\ UNCHANGED <<status, how, told, managed>>

\* Subagent k is over and its parent, which waited for it, has its result.
Return(k) ==
    /\ pc' = [pc EXCEPT ![k] = "over", ![parent[k]] = "loop"]
    /\ cur' = [cur EXCEPT ![parent[k]] = Nobody]
    /\ UNCHANGED <<status, how, told, managed>>

\* A CancelledError reaches the tool call of agent a for subagent k.  When only
\* the limit of this call asked for it, it is the result "timeout"; else a is
\* cancelled as well.
Caught(a, k, end, way) ==
    LET rest == causes[TaskOf(a)] \ {k}
    IN  /\ causes' = [causes EXCEPT ![TaskOf(a)] = rest]
        /\ cur' = [cur EXCEPT ![a] = Nobody]
        /\ IF rest = {}
           THEN /\ pc' = [pc EXCEPT ![k] = end, ![a] = "loop"]
                /\ how' = [how EXCEPT ![k] = way]
                /\ UNCHANGED <<status, told, managed>>
           ELSE /\ how' = [how EXCEPT ![k] = way, ![a] = "cancelled"]
                /\ status' = [status EXCEPT ![a] = Cancelled(a)]
                /\ pc' = [pc EXCEPT ![k] = end,
                                    ![a] = IF a \in Roots THEN "over" ELSE "report"]
                /\ told' = IF a \in Roots THEN told
                           ELSE [told EXCEPT ![a] = Append(@, Cancelled(a))]
                /\ IF a \in Roots THEN RunOver(a) ELSE UNCHANGED managed

\* The finished event of subagent k is out.
Reported(k) ==
    /\ At(k, "report")
    /\ IF k \in back
       THEN /\ pc' = [pc EXCEPT ![k] = "over"]
            /\ UNCHANGED <<cur, status, how, told, managed, causes>>
       ELSE IF how[k] # "cancelled" THEN Return(k) /\ UNCHANGED causes
       ELSE Caught(parent[k], k, "over", "cancelled")
    /\ UNCHANGED <<parent, back, pend, daemon, waitFor>>

-----------------------------------------------------------------------------
(* SpawnAgentTool.invoke                                                    *)

Spawn(a, k) ==
    /\ At(a, "loop")
    /\ MaySpawn(a)
    /\ parent[k] = Nobody
    /\ parent' = [parent EXCEPT ![k] = a]
    /\ \E b \in {{}, {k}} : back' = back \cup b
    /\ cur' = [cur EXCEPT ![a] = k]
    /\ pc' = [pc EXCEPT ![a] = "announce"]
    /\ told' = [told EXCEPT ![k] = <<"started">>]
    /\ UNCHANGED <<status, how, taskVars, managed, daemon, waitFor>>

\* subagent.started is out: run the child, or register its task and return.
Announced(a) ==
    /\ At(a, "announce")
    /\ IF cur[a] \in back
       THEN /\ pc' = [pc EXCEPT ![a] = "loop", ![cur[a]] = "new"]
            /\ cur' = [cur EXCEPT ![a] = Nobody]
       ELSE /\ pc' = [pc EXCEPT ![a] = "call", ![cur[a]] = "loop"]
            /\ UNCHANGED cur
    /\ UNCHANGED <<parent, back, status, how, told, taskVars, managed, daemon, waitFor>>

Begin(k) ==
    /\ At(k, "new")
    /\ pc' = [pc EXCEPT ![k] = "loop"]
    /\ UNCHANGED <<parent, back, cur, status, how, told, taskVars, managed, daemon, waitFor>>

-----------------------------------------------------------------------------
(* Cancellation                                                             *)

\* Task t has to raise a CancelledError, as agent or limit c asked for.
Request(t, c) ==
    /\ pend' = pend \cup {t}
    /\ causes' = [causes EXCEPT ![t] = @ \cup {c}]

\* run.cancel.
CancelRun(r) ==
    /\ daemon = "up"
    /\ Active(r)
    /\ "cancel" \notin causes[r]
    /\ Request(r, "cancel")
    /\ UNCHANGED <<agentVars, managed, daemon, waitFor>>

\* Variant for mutation: the limit gives its call up and leaves the child.
LimitAbandons(a) ==
    /\ pc[a] \in {"announce", "call"}
    /\ pc' = [pc EXCEPT ![a] = "loop"]
    /\ cur' = [cur EXCEPT ![a] = Nobody]
    /\ UNCHANGED <<parent, back, status, how, told, taskVars, managed, daemon, waitFor>>

\* The 120 s of the tool call in which a spawns a subagent or waits for it.
Limit(a) ==
    /\ pc[a] \in {"announce", "call"}
    /\ cur[a] \notin causes[TaskOf(a)]
    /\ Request(TaskOf(a), cur[a])
    /\ UNCHANGED <<agentVars, managed, daemon, waitFor>>

\* The innermost agent of a task: the one that does not wait for another.
Innermost(a) == Active(a) /\ pc[a] # "call"

\* The CancelledError is raised where the innermost agent of the task stands.
\* A background subagent that had not begun ends without a word, and one that
\* was only announced never exists.
Interrupt(a) ==
    /\ Innermost(a)
    /\ TaskOf(a) \in pend
    /\ pend' = pend \ {TaskOf(a)}
    /\ CASE pc[a] = "new" ->
              /\ pc' = [pc EXCEPT ![a] = "over"]
              /\ how' = [how EXCEPT ![a] = "cancelled"]
              /\ UNCHANGED <<cur, status, told, managed, causes>>
         [] pc[a] = "announce" -> Caught(a, cur[a], "never", "open")
         [] pc[a] = "report" /\ a \in back ->
              /\ pc' = [pc EXCEPT ![a] = "over"]
              /\ how' = [how EXCEPT ![a] = "cancelled"]
              /\ UNCHANGED <<cur, status, told, managed, causes>>
         [] pc[a] = "report" /\ a \notin back ->
              Caught(parent[a], a, "over", "cancelled")
         [] OTHER ->
              /\ Leave(a, "cancelled", Cancelled(a))
              /\ UNCHANGED <<cur, causes>>
    /\ UNCHANGED <<parent, back, daemon, waitFor>>

-----------------------------------------------------------------------------
(* Shut-down: first the runs, then the registry                             *)

Shutdown ==
    /\ daemon = "up"
    /\ daemon' = "runs"
    /\ pend' = pend \cup {r \in Roots : Active(r)}
    /\ causes' = [a \in Agents |->
                     IF a \in Roots /\ Active(a) THEN causes[a] \cup {"cancel"} ELSE causes[a]]
    /\ UNCHANGED <<agentVars, managed, waitFor>>

\* BackgroundTaskRegistry.cancel_all: every context that is not done is marked.
CancelAll ==
    LET open == {k \in back : Active(k)}
    IN  /\ daemon = "runs"
        /\ \A r \in Roots : ~Active(r)
        /\ daemon' = "subs"
        /\ waitFor' = open
        /\ status' = [a \in Agents |->
                         IF a \in back /\ pc[a] # "none" /\ status[a] = "running"
                         THEN "failed" ELSE status[a]]
        /\ pend' = pend \cup open
        /\ causes' = [a \in Agents |-> IF a \in open THEN causes[a] \cup {"cancel"}
                                       ELSE causes[a]]
        /\ UNCHANGED <<pc, parent, back, cur, how, told, managed>>

Exit ==
    /\ daemon = "subs"
    /\ \A k \in waitFor : ~Active(k)
    /\ daemon' = "off"
    /\ UNCHANGED <<agentVars, taskVars, managed, waitFor>>

\* What the event loop does next with an agent that is ready.
Progress(a) ==
    \/ Decide(a) \/ Raise(a) \/ Finish(a)
    \/ a \in Kids /\ (Begin(a) \/ Reported(a))
    \/ Answered(a)
    \/ Announced(a)
    \/ Interrupt(a)

Next ==
    \/ \E r \in Roots : StartRun(r) \/ CancelRun(r)
    \/ \E a \in Agents : Progress(a) \/ Ask(a) \/ Limit(a)
    \/ \E a \in Agents, k \in Kids : Spawn(a, k)
    \/ Shutdown \/ CancelAll \/ Exit

Spec == Init /\ [][Next]_vars

\* The event loop resumes what is ready, and a loop takes a bounded number of
\* steps (AgentLoop): it cannot come back to its next step for ever.
FairSpec ==
    /\ Spec
    /\ \A a \in Agents : WF_vars(Progress(a)) /\ SF_vars(Decide(a))
    /\ WF_vars(CancelAll) /\ WF_vars(Exit)

-----------------------------------------------------------------------------
(* agent_result                                                             *)

\* What agent_result answers about background subagent k.
AgentResult(k) ==
    IF pc[k] # "over" THEN "still running"
    ELSE IF how[k] = "cancelled" THEN "cancelled"
    ELSE IF how[k] = "raised" THEN "exception"
    ELSE "completed"

-----------------------------------------------------------------------------
(* Properties                                                               *)

\* Types.
TypeOK ==
    /\ pc \in [Agents -> {"none", "never", "new", "loop", "ask", "announce", "call",
                          "closing", "report", "over"}]
    /\ parent \in [Kids -> Agents \cup {Nobody}]
    /\ back \subseteq Kids
    /\ cur \in [Agents -> Kids \cup {Nobody}]
    /\ status \in [Agents -> {"running", "success", "failed"}]
    /\ how \in [Agents -> {"open", "returned", "raised", "cancelled"}]
    /\ told \in [Kids -> Seq({"started", "running", "success", "failed"})]
    /\ pend \subseteq {a \in Agents : ~Fore(a) /\ Active(a)}
    /\ causes \in [Agents -> SUBSET (Kids \cup {"cancel"})]
    /\ managed \subseteq Headless
    /\ waitFor \subseteq back

\* However cancellations, expired limits and errors interleave, a subagent that
\* began and is over has published one finished event, after its started event
\* and with the status its context keeps, unless its loop raised; and what
\* agent_result calls completed has a verdict that its event told
\* (SpawnAgentTool.invoke and _run_background, finally; AgentResultTool).
FinishedOnce ==
    \A k \in Kids : pc[k] = "over" =>
        /\ \/ Len(told[k]) = 2 /\ (told[k][2] = status[k] \/ told[k][2] = "running")
           \/ told[k] = <<"started">> /\ k \in back /\ how[k] = "cancelled"
        /\ k \in back /\ AgentResult(k) = "completed" =>
               status[k] # "running" /\ told[k] = <<"started", status[k]>>

\* A foreground subagent never runs on after the tool call it belongs to: its
\* parent waits in that call, whichever of the two was cancelled or timed out
\* (invoke_tool's wait_for around SpawnAgentTool.invoke).
ForegroundNested ==
    \A k \in Kids : Fore(k) /\ Active(k) =>
        pc[parent[k]] = "call" /\ cur[parent[k]] = k

\* An agent of a headless run waits for an approval only if it is (or belongs
\* to) a background subagent and the run itself is over (CoreApp._cleanup).
AsksOnlyAsOrphan ==
    \A a \in Agents : pc[a] = "ask" /\ RootOf(a) \in Headless =>
        /\ a \in Kids
        /\ pc[RootOf(a)] = "over"
        /\ TaskOf(a) \in back

\* Every subagent that was started comes to an end, and so does the shut-down.
SubagentsEnd ==
    /\ \A k \in Kids : Active(k) ~> ~Active(k)
    /\ (daemon = "runs") ~> (daemon = "off")

=============================================================================
