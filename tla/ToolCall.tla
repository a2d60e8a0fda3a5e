------------------------------ MODULE ToolCall ------------------------------
(***************************************************************************)
(* invoke_tool, the path of every tool call: unknown tools, hooks, the     *)
(* permission, attempts under a time limit with retries, and the events    *)
(* that tell of it; together with McpServerManager and McpClient, whose    *)
(* calls share one connection per server under a lock.  The calls belong   *)
(* to different runs and subagents, so that they overlap.  Permission is   *)
(* the module for the decision, Subagents for nested limits.               *)
(***************************************************************************)
EXTENDS Naturals, Sequences, FiniteSets, SequencesExt

CONSTANTS
    Calls,
    Servers,     \* MCP servers of the configuration
    Home,        \* of each call: the server of its tool, or Builtin
    Builtin,
    Repeatable,  \* the calls of tools with retry_policy IDEMPOTENT
    Before,      \* of each call: the one its agent made before it, or Nothing
    Nothing,
    MaxRetries,  \* _MAX_RETRIES
    MaxNoise,    \* bound on lines that a server sends besides its answers
    PeerAsks     \* a server sends requests of its own, numbered by itself

ASSUME HomeAssumption == Home \in [Calls -> Servers \cup {Builtin}]
ASSUME RepeatAssumption == \A c \in Repeatable : Home[c] = Builtin
ASSUME BeforeAssumption == Before \in [Calls -> Calls \cup {Nothing}]
ASSUME RetriesAssumption == MaxRetries \in Nat
ASSUME NothingAssumption == Nothing \notin Calls \cup {"ok"}

Remote(c) == Home[c] # Builtin

VARIABLES
    pc,        \* where invoke_tool stands
    attempt,
    told,      \* the tool.call events of the call
    result,    \* error class of the ToolResult, "ok" or "cancelled"
    content,   \* the call whose answer an MCP result carries
    performed  \* how often the tool has, or may have, done what was asked

VARIABLES
    daemon,    \* "starting", "up" or "stopped" (stop_all is through)
    server,    \* of each server: "idle", "connecting", "ready", "skipped", "closed"
    proc,      \* of each server: its process, "none", "running" or "gone"
    lastId,    \* McpClient._id
    reqId,     \* the id of the request of a call
    lock,      \* McpClient._lock: its holder, followed by those who wait
    todo,      \* requests a server has to perform
    out,       \* lines from a server that are not read yet
    noise

callVars == <<pc, attempt, told, result, content, performed>>
linkVars == <<lastId, reqId, lock, todo, out, noise>>
vars == <<callVars, daemon, server, proc, linkVars>>

Init ==
    /\ pc = [c \in Calls |-> "idle"]
    /\ attempt = [c \in Calls |-> 1]
    /\ told = [c \in Calls |-> <<>>]
    /\ result = [c \in Calls |-> Nothing]
    /\ content = [c \in Calls |-> Nothing]
    /\ performed = [c \in Calls |-> 0]
    /\ daemon = "starting"
    /\ server = [s \in Servers |-> "idle"]
    /\ proc = [s \in Servers |-> "none"]
    /\ lastId = [s \in Servers |-> 2]
    /\ reqId = [c \in Calls |-> 0]
    /\ lock = [s \in Servers |-> <<>>]
    /\ todo = [s \in Servers |-> {}]
    /\ out = [s \in Servers |-> <<>>]
    /\ noise = 0

-----------------------------------------------------------------------------
(* McpServerManager                                                         *)

\* _connect: the process is started; servers are connected one at a time.
Connect(s) ==
    /\ server[s] = "idle"
    /\ \A t \in Servers : server[t] # "connecting"
    /\ server' = [server EXCEPT ![s] = "connecting"]
    /\ proc' = [proc EXCEPT ![s] = "running"]
    /\ UNCHANGED <<callVars, daemon, linkVars>>

\* initialize and tools/list are answered, the client is kept.
Connected(s) ==
    /\ server[s] = "connecting"
    /\ server' = [server EXCEPT ![s] = "ready"]
    /\ UNCHANGED <<callVars, daemon, proc, linkVars>>

\* An error or a time-out in the handshake: the server is skipped, its client
\* forgotten with the process running (or gone by itself).
Skip(s) ==
    /\ server[s] = "connecting"
    /\ server' = [server EXCEPT ![s] = "skipped"]
    /\ \E p \in {"running", "gone"} : proc' = [proc EXCEPT ![s] = p]
    /\ UNCHANGED <<callVars, daemon, linkVars>>

Serve ==
    /\ daemon = "starting"
    /\ \A s \in Servers : server[s] \in {"ready", "skipped"}
    /\ daemon' = "up"
    /\ UNCHANGED <<callVars, server, proc, linkVars>>

\* stop_all, called while background subagents still have calls.
StopAll ==
    /\ daemon = "up"
    /\ daemon' = "stopped"
    /\ server' = [s \in Servers |-> IF server[s] = "ready" THEN "closed" ELSE server[s]]
    /\ proc' = [s \in Servers |-> IF server[s] = "ready" THEN "gone" ELSE proc[s]]
    /\ todo' = [s \in Servers |-> IF server[s] = "ready" THEN {} ELSE todo[s]]
    /\ UNCHANGED <<callVars, lastId, reqId, lock, out, noise>>

-----------------------------------------------------------------------------
(* A server                                                                 *)

Say(s, line) == out' = [out EXCEPT ![s] = Append(@, line)]

\* Requests may be performed, and answered, in any order; or with an error.
Perform(s, c) ==
    /\ proc[s] = "running"
    /\ c \in todo[s]
    /\ todo' = [todo EXCEPT ![s] = @ \ {c}]
    /\ \/ /\ performed' = [performed EXCEPT ![c] = @ + 1]
          /\ Say(s, [kind |-> "answer", id |-> reqId[c], about |-> c])
       \/ /\ Say(s, [kind |-> "error", id |-> reqId[c], about |-> c])
          /\ UNCHANGED performed
    /\ UNCHANGED <<pc, attempt, told, result, content, daemon, server, proc,
                   lastId, reqId, lock, noise>>

\* Notifications and text that is no JSON are skipped by the client, a line that
\* is a JSON value but no object makes it fail; a peer that asks uses its own ids.
Noise(s) ==
    /\ proc[s] = "running"
    /\ server[s] = "ready"
    /\ noise < MaxNoise
    /\ noise' = noise + 1
    /\ \/ \E kind \in {"note", "list"} : Say(s, [kind |-> kind, id |-> 0, about |-> Nothing])
       \/ /\ PeerAsks
          /\ \E n \in 1..lastId[s] : Say(s, [kind |-> "ask", id |-> n, about |-> Nothing])
    /\ UNCHANGED <<callVars, daemon, server, proc, lastId, reqId, lock, todo>>

Crash(s) ==
    /\ proc[s] = "running"
    /\ server[s] = "ready"
    /\ proc' = [proc EXCEPT ![s] = "gone"]
    /\ todo' = [todo EXCEPT ![s] = {}]
    /\ UNCHANGED <<callVars, daemon, server, lastId, reqId, lock, out, noise>>

-----------------------------------------------------------------------------
(* invoke_tool up to the first attempt                                      *)

Event(what, why, n) == [what |-> what, why |-> why, attempt |-> n]
Tell(c, event) == told' = [told EXCEPT ![c] = Append(@, event)]

\* _fail: the event is being published, the result is settled.
Fail(c, why) ==
    /\ Tell(c, Event("failed", why, attempt[c]))
    /\ result' = [result EXCEPT ![c] = why]
    /\ pc' = [pc EXCEPT ![c] = "closing"]

Start(c) ==
    /\ daemon # "starting"
    /\ pc[c] = "idle"
    /\ Before[c] # Nothing => pc[Before[c]] = "over" /\ result[Before[c]] # "cancelled"
    /\ Tell(c, Event("started", Nothing, 0))
    /\ pc' = [pc EXCEPT ![c] = "start"]
    /\ UNCHANGED <<attempt, result, content, performed, daemon, server, proc, linkVars>>

\* ToolRegistry.get: the tools of a server that was connected stay registered.
Known(c) == Remote(c) => server[Home[c]] \in {"ready", "closed"}

\* The tool is unknown, its parameters do not validate (an MCP tool has no
\* model of them), or the hooks are next.
Validate(c) ==
    /\ pc[c] = "start"
    /\ \/ Fail(c, "runtime_error") /\ ~Known(c)
       \/ Fail(c, "schema_error") /\ Known(c) /\ ~Remote(c)
       \/ /\ Known(c)
          /\ pc' = [pc EXCEPT ![c] = "hooks"]
          /\ UNCHANGED <<told, result>>
    /\ UNCHANGED <<attempt, content, performed, daemon, server, proc, linkVars>>

\* HookManager.emit: what the callbacks did; one that raises is ignored.
Blocked(outcomes) == "block" \in outcomes

PreToolUse(c) ==
    /\ pc[c] = "hooks"
    /\ \E outcomes \in SUBSET {"pass", "raise", "block"} :
         IF Blocked(outcomes) THEN Fail(c, "hook_denied")
         ELSE pc' = [pc EXCEPT ![c] = "permit"] /\ UNCHANGED <<told, result>>
    /\ UNCHANGED <<attempt, content, performed, daemon, server, proc, linkVars>>

\* check_and_wait: allowed or refused (a run that may not ask has a class of its
\* own for it).  What is told of the decision itself is left out.
Permit(c) ==
    /\ pc[c] = "permit"
    /\ \/ pc' = [pc EXCEPT ![c] = "try"] /\ UNCHANGED <<told, result>>
       \/ Fail(c, "permission_denied")
    /\ UNCHANGED <<attempt, content, performed, daemon, server, proc, linkVars>>

-----------------------------------------------------------------------------
(* An attempt                                                               *)

\* BaseTool.can_retry
CanRetry(c, why) == c \in Repeatable /\ why \in {"runtime_error", "rate_limited"}

\* What follows an error of the tool.
Failed(c, why) ==
    IF CanRetry(c, why) /\ attempt[c] <= MaxRetries
    THEN /\ Tell(c, Event("failed", why, attempt[c]))
         /\ pc' = [pc EXCEPT ![c] = "backoff"]
         /\ UNCHANGED result
    ELSE Fail(c, why)

\* Variant for mutation: an attempt that succeeds is not told after a failure.
SucceededOnce(c) ==
    /\ IF attempt[c] > 1 THEN UNCHANGED told
       ELSE Tell(c, Event("finished", Nothing, 0))
    /\ result' = [result EXCEPT ![c] = "ok"]
    /\ pc' = [pc EXCEPT ![c] = "closing"]

\* The finished event is being published, PostToolUse follows.
Succeeded(c) ==
    /\ Tell(c, Event("finished", Nothing, 0))
    /\ result' = [result EXCEPT ![c] = "ok"]
    /\ pc' = [pc EXCEPT ![c] = "closing"]

Retry(c) ==
    /\ pc[c] = "backoff"
    /\ attempt' = [attempt EXCEPT ![c] = @ + 1]
    /\ pc' = [pc EXCEPT ![c] = "try"]
    /\ UNCHANGED <<told, result, content, performed, daemon, server, proc, linkVars>>

Close(c) ==
    /\ pc[c] = "closing"
    /\ pc' = [pc EXCEPT ![c] = "over"]
    /\ UNCHANGED <<attempt, told, result, content, performed, daemon, server, proc, linkVars>>

\* A tool of the daemon; if it fails, it may have done its work.
Run(c) ==
    /\ pc[c] = "try"
    /\ ~Remote(c)
    /\ \/ Succeeded(c)
       \/ \E why \in {"runtime_error", "permission_denied"} : Failed(c, why)
    /\ performed' = [performed EXCEPT ![c] = @ + 1]
    /\ UNCHANGED <<attempt, content, daemon, server, proc, linkVars>>

\* McpClient._call takes an id and queues for the lock.
Enter(c) ==
    /\ pc[c] = "try"
    /\ Remote(c)
    /\ lastId' = [lastId EXCEPT ![Home[c]] = @ + 1]
    /\ reqId' = [reqId EXCEPT ![c] = lastId[Home[c]] + 1]
    /\ lock' = [lock EXCEPT ![Home[c]] = Append(@, c)]
    /\ pc' = [pc EXCEPT ![c] = "queue"]
    /\ UNCHANGED <<attempt, told, result, content, performed, daemon, server, proc,
                   todo, out, noise>>

\* asyncio.Lock: the holder lets go, or a waiter leaves the queue.
Without(list, c) ==
    IF c \in ToSet(list) THEN RemoveAt(list, CHOOSE i \in DOMAIN list : list[i] = c) ELSE list

Release(c) == lock' = [s \in Servers |-> Without(lock[s], c)]

\* _write_line; a pipe whose reader is gone gives an error at once or no answer.
Send(c) ==
    LET s == Home[c]
    IN  /\ pc[c] = "queue"
        /\ Head(lock[s]) = c
        /\ \/ /\ pc' = [pc EXCEPT ![c] = "read"]
              /\ todo' = [todo EXCEPT ![s] = IF proc[s] = "running" THEN @ \cup {c} ELSE @]
              /\ UNCHANGED <<told, result, lock>>
           \/ /\ proc[s] = "gone"
              /\ Failed(c, "runtime_error")
              /\ Release(c)
              /\ UNCHANGED todo
        /\ UNCHANGED <<attempt, content, performed, daemon, server, proc,
                       lastId, reqId, out, noise>>

\* Variant for mutation: the next answer is taken for the one to the request.
MineAnyway(c, line) == line.id # 0

\* One line: the answer to the request, or another one, which is skipped.
Mine(c, line) == line.id = reqId[c]

Read(c) ==
    LET s == Home[c]
        line == Head(out[s])
    IN  /\ pc[c] = "read"
        /\ out[s] # <<>>
        /\ out' = [out EXCEPT ![s] = Tail(@)]
        /\ \/ /\ line.kind = "list" \/ (line.kind = "error" /\ Mine(c, line))
              /\ Failed(c, "runtime_error")
              /\ Release(c)
              /\ UNCHANGED content
           \/ /\ line.kind \in {"answer", "ask"} /\ Mine(c, line)
              /\ content' = [content EXCEPT ![c] = line.about]
              /\ Succeeded(c)
              /\ Release(c)
           \/ /\ line.kind = "note" \/ (line.kind # "list" /\ ~Mine(c, line))
              /\ UNCHANGED <<pc, told, result, content, lock>>
        /\ UNCHANGED <<attempt, performed, daemon, server, proc, lastId, reqId, todo, noise>>

\* _read_line: 30 s without a line, or the end of the stream.
ReadFails(c) ==
    /\ pc[c] = "read"
    /\ out[Home[c]] = <<>>
    /\ Failed(c, "runtime_error")
    /\ Release(c)
    /\ UNCHANGED <<attempt, content, performed, daemon, server, proc,
                   lastId, reqId, todo, out, noise>>

\* Variant for mutation: no limit once the request is sent.
LimitUnsent(c) ==
    /\ pc[c] \in {"try", "queue"}
    /\ Fail(c, "timeout")
    /\ Release(c)
    /\ UNCHANGED <<attempt, content, performed, daemon, server, proc,
                   lastId, reqId, todo, out, noise>>

\* wait_for: the limit of an attempt, which includes the queue.
Limit(c) ==
    /\ pc[c] \in {"try", "queue", "read"}
    /\ Fail(c, "timeout")
    /\ Release(c)
    /\ UNCHANGED <<attempt, content, performed, daemon, server, proc,
                   lastId, reqId, todo, out, noise>>

\* run.cancel reaches the call, wherever it waits.
Cancel(c) ==
    /\ pc[c] \notin {"idle", "over"}
    /\ pc' = [pc EXCEPT ![c] = "over"]
    /\ result' = [result EXCEPT ![c] = "cancelled"]
    /\ Release(c)
    /\ UNCHANGED <<attempt, told, content, performed, daemon, server, proc,
                   lastId, reqId, todo, out, noise>>

-----------------------------------------------------------------------------
Progress(c) ==
    \/ Validate(c) \/ PreToolUse(c) \/ Permit(c)
    \/ Run(c) \/ Retry(c) \/ Close(c)
    \/ Remote(c) /\ (Enter(c) \/ Send(c) \/ Read(c))
    \/ Limit(c)

Next ==
    \/ \E s \in Servers : Connect(s) \/ Connected(s) \/ Skip(s) \/ Noise(s) \/ Crash(s)
    \/ \E s \in Servers, c \in Calls : Perform(s, c)
    \/ Serve \/ StopAll
    \/ \E c \in Calls : Start(c) \/ Progress(c) \/ ReadFails(c) \/ Cancel(c)

Spec == Init /\ [][Next]_vars

\* Nothing is asked of a server, which may also put off the end of the 30 s by a
\* notification now and then.  The event loop runs what is ready, a decision on a
\* permission comes in a bounded time (Permission), and so does the limit.
FairSpec == Spec /\ \A c \in Calls : WF_vars(Progress(c))

-----------------------------------------------------------------------------
(* Properties                                                               *)

\* Types; the lock has no holder and no waiter that has left.
TypeOK ==
    /\ pc \in [Calls -> {"idle", "start", "hooks", "permit", "try", "queue", "read",
                         "backoff", "closing", "over"}]
    /\ attempt \in [Calls -> 1..(MaxRetries + 1)]
    /\ \A c \in Calls : content[c] \in Calls \cup {Nothing}
    /\ performed \in [Calls -> 0..(MaxRetries + 1)]
    /\ server \in [Servers -> {"idle", "connecting", "ready", "skipped", "closed"}]
    /\ proc \in [Servers -> {"none", "running", "gone"}]
    /\ \A s \in Servers :
         /\ ToSet(lock[s]) = {c \in Calls : Home[c] = s /\ pc[c] \in {"queue", "read"}}
         /\ IsInjective(lock[s])
         /\ \A c \in Calls : Home[c] = s /\ pc[c] = "read" => Head(lock[s]) = c

\* An MCP call that succeeds has its own answer, of work done once, whatever
\* answers to calls that were cancelled or timed out come late (McpClient._call);
\* and a tool that is not idempotent is never performed twice, since an attempt
\* that failed or timed out may have had its effect (BaseTool.can_retry).
AnswerMatches ==
    \A c \in Calls :
        /\ Remote(c) /\ result[c] = "ok" => content[c] = c /\ performed[c] = 1
        /\ c \notin Repeatable => performed[c] <= 1

\* The events of a call tell its result: the last one of a call that was not
\* cancelled is its outcome, with nothing between it and the start but the failures
\* that were retried, which count the attempts (invoke_tool, _fail).
OutcomeTold ==
    \A c \in Calls :
        LET n == Len(told[c])
        IN  pc[c] = "over" /\ result[c] # "cancelled" =>
              /\ n > 1
              /\ told[c][1] = Event("started", Nothing, 0)
              /\ told[c][n] = IF result[c] = "ok" THEN Event("finished", Nothing, 0)
                              ELSE Event("failed", result[c], n - 1)
              /\ \A i \in 2..(n - 1) :
                   c \in Repeatable /\ told[c][i].what = "failed" /\ told[c][i].attempt = i - 1

\* Every call ends, if need be by its limits, although servers may not answer
\* and hold up those that wait for the lock (invoke_tool, McpClient._call).
CallEnds == \A c \in Calls : pc[c] = "start" ~> pc[c] = "over"

=============================================================================
