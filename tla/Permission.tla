---------------------------- MODULE Permission -----------------------------
(***************************************************************************)
(* PermissionManager as the tool gate uses it: concurrent tool calls of    *)
(* several sessions are decided by policy, by remembered "always" answers, *)
(* by the mode of a headless session, or by asking the user.               *)
(*                                                                         *)
(* A call asks by registering a future and publishing                      *)
(* permission.requested ("emitting"), then waits for the future with a     *)
(* timeout ("waiting").  permission.respond resolves the future in a task  *)
(* of its own, so an answer may arrive in both phases, after the timer has *)
(* fired, or twice.  The daemon may stop at any moment; only the policy    *)
(* file survives.                                                          *)
(***************************************************************************)
EXTENDS Naturals, FiniteSets

CONSTANTS
    Calls,         \* tool_use ids, one per tool invocation
    Tools,         \* tool names
    Sessions,      \* session ids
    ToolOf,        \* the tool of a call
    SessionOf,     \* the session of a call
    ClassOf,       \* what the regular expressions say of a call's command:
                   \* "denied", "outside", "allowed" or "plain"
    Background,    \* calls made by background subagents of a run
    Policy,        \* default decision of a tool: "allow", "deny" or "ask"
    ModeOf,        \* permission mode a session is started with
    AllowTools,    \* the --allow-tool list of a session in mode allow_list
    TimeoutEnabled \* timeout_s > 0

Classes == {"denied", "outside", "allowed", "plain"}
Modes == {"interactive", "deny", "fail_fast", "allow_list"}
Rules == {"none", "allow", "deny"}
Answers == {"allow_once", "always_allow", "deny_once", "always_deny"}

ASSUME CallsAssumption ==
    /\ ToolOf \in [Calls -> Tools]
    /\ SessionOf \in [Calls -> Sessions]
    /\ ClassOf \in [Calls -> Classes]
    /\ Background \subseteq Calls

ASSUME ConfigAssumption ==
    /\ Policy \in [Tools -> {"allow", "deny", "ask"}]
    /\ ModeOf \in [Sessions -> Modes]
    /\ AllowTools \in [Sessions -> SUBSET Tools]
    /\ TimeoutEnabled \in BOOLEAN

VARIABLES
    pc,          \* phase of each call
    decision,    \* the decision string check_and_wait returned for it
    fut,         \* each call's future: "none", "open", "dropped" or an answer
    pending,     \* _pending: the calls respond can resolve
    always,      \* _session_always, as session -> tool -> rule
    persistent,  \* _persistent_always, as tool -> rule
    file,        \* the rules policy.toml holds
    run,         \* per session: "running", "over" (its run has returned) or
                 \* "gone" (the daemon it belonged to has stopped)
    sent,        \* history: the first answer a client sent for a call
    client       \* a client is connected

vars == <<pc, decision, fut, pending, always, persistent, file, run, sent, client>>

NoRules == [t \in Tools |-> "none"]

\* _session_modes: an entry exists only while the headless run is running;
\* its done callback clears it.
CurrentMode(s) == IF run[s] = "running" THEN ModeOf[s] ELSE "interactive"

-----------------------------------------------------------------------------
(* The static tiers of check_and_wait                                       *)

Outside(c) == ClassOf[c] = "outside"
Rule(c) == IF always[SessionOf[c]][ToolOf[c]] # "none"
           THEN always[SessionOf[c]][ToolOf[c]]
           ELSE persistent[ToolOf[c]]

\* Tiers 3 and 4: remembered answers, consulted in interactive mode only.
Remembered(c) ==
    IF CurrentMode(SessionOf[c]) = "interactive" THEN Rule(c) ELSE "none"

\* Tiers 5 and 6: the allow patterns, then the tool's default.
ByPolicy(c) == IF ClassOf[c] = "allowed" THEN "allow" ELSE Policy[ToolOf[c]]

ListedTool(c) ==
    /\ CurrentMode(SessionOf[c]) = "allow_list"
    /\ ToolOf[c] \in AllowTools[SessionOf[c]]

Headless(c) ==
    IF ~Outside(c) /\ ListedTool(c) THEN "headless_allow_list"
    ELSE IF CurrentMode(SessionOf[c]) = "fail_fast" THEN "headless_fail_fast"
    ELSE "headless_deny"

\* Variant for mutation: a remembered answer also covers outside commands.
VerdictCacheFirst(c) ==
    IF ClassOf[c] = "denied" THEN "auto_deny"
    ELSE IF Remembered(c) = "allow" THEN "auto_allow"
    ELSE IF Remembered(c) = "deny" THEN "auto_deny"
    ELSE IF ~Outside(c) /\ ByPolicy(c) = "allow" THEN "auto_allow"
    ELSE IF ~Outside(c) /\ ByPolicy(c) = "deny" THEN "auto_deny"
    ELSE IF CurrentMode(SessionOf[c]) # "interactive" THEN Headless(c)
    ELSE "ask"

\* The decision reached without waiting, or "ask".
Verdict(c) ==
    LET known == IF Outside(c) THEN "none"
                 ELSE IF Remembered(c) # "none" THEN Remembered(c)
                 ELSE ByPolicy(c)
    IN  CASE ClassOf[c] = "denied" -> "auto_deny"
          [] ClassOf[c] # "denied" /\ known = "allow" -> "auto_allow"
          [] ClassOf[c] # "denied" /\ known = "deny" -> "auto_deny"
          [] OTHER -> IF CurrentMode(SessionOf[c]) = "interactive"
                      THEN "ask" ELSE Headless(c)

Grants == {"auto_allow", "headless_allow_list", "allow_once", "always_allow"}

-----------------------------------------------------------------------------
Init ==
    /\ pc = [c \in Calls |-> "idle"]
    /\ decision = [c \in Calls |-> "none"]
    /\ fut = [c \in Calls |-> "none"]
    /\ pending = {}
    /\ always = [s \in Sessions |-> NoRules]
    /\ persistent = NoRules
    /\ file = NoRules
    /\ run = [s \in Sessions |-> "running"]
    /\ sent = [c \in Calls |-> "none"]
    /\ client = TRUE

Decide(c, d) ==
    /\ decision' = [decision EXCEPT ![c] = d]
    /\ pc' = [pc EXCEPT ![c] = IF d \in Grants THEN "granted" ELSE "denied"]

\* A run makes calls while it is running, its background subagents also after
\* it has returned.
MayCall(c) ==
    \/ run[SessionOf[c]] = "running"
    \/ run[SessionOf[c]] = "over" /\ c \in Background

\* check_and_wait up to its first await: decided, or registered and asking.
DecideAtOnce(c) ==
    /\ pc[c] = "idle" /\ MayCall(c)
    /\ Verdict(c) # "ask"
    /\ Decide(c, Verdict(c))
    /\ UNCHANGED <<fut, pending, always, persistent, file, run, sent, client>>

\* Variant for mutation: the request is registered after it is published.
NotRegistered(c) == UNCHANGED pending

Register(c) == pending' = pending \cup {c}

Ask(c) ==
    /\ pc[c] = "idle" /\ MayCall(c)
    /\ Verdict(c) = "ask"
    /\ pc' = [pc EXCEPT ![c] = "emitting"]
    /\ fut' = [fut EXCEPT ![c] = "open"]
    /\ Register(c)
    /\ UNCHANGED <<decision, always, persistent, file, run, sent, client>>

\* permission.requested is published.
Published(c) ==
    /\ pc[c] = "emitting"
    /\ pc' = [pc EXCEPT ![c] = "waiting"]
    /\ UNCHANGED <<decision, fut, pending, always, persistent, file, run, sent, client>>

\* permission.respond for a call some client was shown; an id that is no
\* longer pending is only logged.
Respond(c, a) ==
    /\ client
    /\ pc[c] \notin {"idle"} /\ fut[c] # "none"
    /\ sent[c] = "none" \/ c \in pending
    /\ pending' = pending \ {c}
    /\ fut' = IF c \in pending /\ fut[c] = "open" THEN [fut EXCEPT ![c] = a] ELSE fut
    /\ sent' = IF sent[c] = "none" /\ pc[c] \in {"emitting", "waiting"}
               THEN [sent EXCEPT ![c] = a] ELSE sent
    /\ UNCHANGED <<pc, decision, always, persistent, file, run, client>>

-----------------------------------------------------------------------------
(* The waiting call resumes                                                 *)

RuleOf(a) == IF a \in {"always_allow", "allow_once"} THEN "allow" ELSE "deny"

\* Variant for mutation: a single allow is remembered as well.
RemembersAllow(a) == a # "deny_once"

IsAlways(a) == a \in {"always_allow", "always_deny"}

\* _apply_response up to the write of the policy file.
Remember(c) ==
    IF IsAlways(fut[c])
    THEN /\ always' = [always EXCEPT ![SessionOf[c]][ToolOf[c]] = RuleOf(fut[c])]
         /\ persistent' = [persistent EXCEPT ![ToolOf[c]] = RuleOf(fut[c])]
    ELSE UNCHANGED <<always, persistent>>

\* save_policy_file rewrites the file; a failed write is only logged and may
\* leave it as it was or truncated.
Save(c) ==
    IF IsAlways(fut[c]) THEN file' \in {persistent', file, NoRules} ELSE UNCHANGED file

Resume(c) ==
    /\ pc[c] = "waiting" /\ fut[c] \in Answers
    /\ Remember(c)
    /\ Save(c)
    /\ Decide(c, fut[c])
    /\ UNCHANGED <<fut, pending, run, sent, client>>

\* Variant for mutation: the timer runs only while somebody could answer.
TimerWithClient == TimeoutEnabled /\ client

TimerRuns == TimeoutEnabled

\* The timer fires while the call waits, or after its future was resolved
\* but before it ran again: wait_for then raises TimeoutError all the same.
TimeOut(c) ==
    /\ TimerRuns
    /\ pc[c] = "waiting"
    /\ pending' = pending \ {c}
    /\ fut' = [fut EXCEPT ![c] = IF @ = "open" THEN "dropped" ELSE @]
    /\ Decide(c, "timeout")
    /\ UNCHANGED <<always, persistent, file, run, sent, client>>

\* The run is cancelled while the call waits for its answer.
CancelWaiting(c) ==
    /\ pc[c] = "waiting"
    /\ pc' = [pc EXCEPT ![c] = "aborted"]
    /\ pending' = pending \ {c}
    /\ fut' = [fut EXCEPT ![c] = IF @ = "open" THEN "dropped" ELSE @]
    /\ UNCHANGED <<decision, always, persistent, file, run, sent, client>>

\* The run is cancelled, or a subscriber raises, while the event is being
\* published: that await is outside the try, so the request stays pending.
AbortEmitting(c) ==
    /\ pc[c] = "emitting"
    /\ pc' = [pc EXCEPT ![c] = "aborted"]
    /\ UNCHANGED <<decision, fut, pending, always, persistent, file, run, sent, client>>

-----------------------------------------------------------------------------
(* The sessions, the client and the daemon                                  *)

\* The task of a headless run is done: its mode is cleared.  Foreground calls
\* of the run have all returned by then.
RunDone(s) ==
    /\ ModeOf[s] # "interactive" /\ run[s] = "running"
    /\ \A c \in Calls \ Background :
          SessionOf[c] = s => pc[c] \notin {"emitting", "waiting"}
    /\ run' = [run EXCEPT ![s] = "over"]
    /\ UNCHANGED <<pc, decision, fut, pending, always, persistent, file, sent, client>>

\* A client goes away: the server only drops its event subscription.
Disconnect ==
    /\ client
    /\ client' = FALSE
    /\ UNCHANGED <<pc, decision, fut, pending, always, persistent, file, run, sent>>

\* A client attaches again.
Connect ==
    /\ ~client
    /\ client' = TRUE
    /\ UNCHANGED <<pc, decision, fut, pending, always, persistent, file, run, sent>>

\* The daemon stops and starts again: what was in memory is gone, chat
\* sessions are resumed, headless runs are not.
Restarted(rules) ==
    /\ pc' = [c \in Calls |-> IF pc[c] \in {"emitting", "waiting"} THEN "aborted" ELSE pc[c]]
    /\ fut' = [c \in Calls |-> IF fut[c] = "none" THEN "none" ELSE "dropped"]
    /\ pending' = {}
    /\ always' = [s \in Sessions |-> NoRules]
    /\ file' = rules /\ persistent' = rules
    /\ run' = [s \in Sessions |-> IF ModeOf[s] = "interactive" THEN "running" ELSE "gone"]
    /\ UNCHANGED <<decision, sent, client>>

Restart == Restarted(file)

\* The daemon is killed inside save_policy_file: write_text has truncated the
\* file and not written it yet.
KilledWhileSaving(c) ==
    /\ pc[c] = "waiting" /\ fut[c] \in Answers /\ IsAlways(fut[c])
    /\ Restarted(NoRules)

Next ==
    \/ \E c \in Calls :
          \/ DecideAtOnce(c) \/ Ask(c) \/ Published(c)
          \/ \E a \in Answers : Respond(c, a)
          \/ Resume(c) \/ TimeOut(c) \/ CancelWaiting(c) \/ AbortEmitting(c)
          \/ KilledWhileSaving(c)
    \/ \E s \in Sessions : RunDone(s)
    \/ Disconnect \/ Connect \/ Restart

Spec == Init /\ [][Next]_vars

\* The event loop resumes ready tasks and fires timers; publishing ends.
FairSpec ==
    /\ Spec
    /\ \A c \in Calls : WF_vars(Published(c)) /\ WF_vars(Resume(c)) /\ WF_vars(TimeOut(c))

-----------------------------------------------------------------------------
(* Properties                                                               *)

\* Type invariant.
TypeOK ==
    /\ pc \in [Calls -> {"idle", "emitting", "waiting", "granted", "denied", "aborted"}]
    /\ decision \in [Calls -> Answers \cup {"none", "auto_allow", "auto_deny", "timeout",
                                 "headless_allow_list", "headless_fail_fast", "headless_deny"}]
    /\ fut \in [Calls -> Answers \cup {"none", "open", "dropped"}]
    /\ pending \subseteq Calls
    /\ always \in [Sessions -> [Tools -> Rules]]
    /\ persistent \in [Tools -> Rules] /\ file \in [Tools -> Rules]
    /\ run \in [Sessions -> {"running", "over", "gone"}]
    /\ sent \in [Calls -> Answers \cup {"none"}]
    /\ client \in BOOLEAN

\* Every granted call has a reason that still stands after any number of
\* restarts, timeouts, races and failed saves: the user's own first answer to
\* this very call, the policy, the allow-list the session was started with,
\* or an always_allow a user gave to an open call of the tool; a command outside the
\* working directory is granted by its own answer only, a denied one never.
AlwaysAllowed(t) == \E c \in Calls : ToolOf[c] = t /\ sent[c] = "always_allow"
Basis(c) ==
    \/ decision[c] \in {"allow_once", "always_allow"} /\ sent[c] = decision[c]
    \/ decision[c] = "auto_allow" /\ ~Outside(c)
       /\ (ByPolicy(c) = "allow" \/ AlwaysAllowed(ToolOf[c]))
    \/ decision[c] = "headless_allow_list" /\ ~Outside(c)
       /\ ModeOf[SessionOf[c]] = "allow_list" /\ ToolOf[c] \in AllowTools[SessionOf[c]]
GrantHasBasis ==
    \A c \in Calls : pc[c] = "granted" => ClassOf[c] # "denied" /\ Basis(c)

\* A call of a headless run never waits for a user while its run is running:
\* nobody watches such a run, and it would hold its session's lock.
HeadlessNeverWaits ==
    \A c \in Calls :
        pc[c] \in {"emitting", "waiting"} => CurrentMode(SessionOf[c]) = "interactive"

\* The first answer sent for a call that is still open is the one its future
\* holds: none sent between publishing and waiting is lost, no second one
\* replaces it.
FirstAnswerCounts ==
    \A c \in Calls :
        (sent[c] # "none" /\ pc[c] \in {"emitting", "waiting"}) => fut[c] = sent[c]

\* A rule changes only with the call whose answer it is, which returns that
\* answer as its verdict: a call refused by the timer leaves no rule behind
\* although its future may hold an always answer.  Or the daemon restarts.
RuleFollowsVerdict ==
    [][persistent' # persistent =>
          \/ \E c \in Calls :
                /\ pc[c] = "waiting" /\ decision'[c] \in {"always_allow", "always_deny"}
                /\ persistent' = [persistent EXCEPT ![ToolOf[c]] =
                                     IF pc'[c] = "granted" THEN "allow" ELSE "deny"]
          \/ pending' = {} /\ persistent' = file']_vars

\* With a timeout, every call that asks is decided, whoever listens.
AskedIsDecided ==
    \A c \in Calls : pc[c] = "emitting" ~> pc[c] \notin {"emitting", "waiting"}

\* manager.py:252: when its client disconnects, a session's waiting requests
\* are denied so that no future hangs for ever.
NoOrphanWait ==
    \A c \in Calls : (pc[c] = "waiting" /\ ~client) ~> pc[c] # "waiting"
=============================================================================
