-------------------------- MODULE PermissionProofs --------------------------
(***************************************************************************)
(* Theorems about Permission, for every set of calls, tools and sessions,  *)
(* every policy and every permission mode.                                 *)
(***************************************************************************)
EXTENDS Permission, TLAPS

Asking == {"emitting", "waiting"}
Decisions == Answers \cup {"none", "auto_allow", "auto_deny", "timeout",
                           "headless_allow_list", "headless_fail_fast", "headless_deny"}

\* A call that has not asked has no future and no answer.
IdleUnasked ==
    \A c \in Calls : pc[c] = "idle" => fut[c] = "none" /\ c \notin pending /\ sent[c] = "none"

\* A call that is asking can be answered as long as nobody has answered it,
\* and holds its first answer from then on.
AskingHeld ==
    \A c \in Calls : pc[c] \in Asking =>
        /\ fut[c] = "open" => c \in pending /\ sent[c] = "none"
        /\ fut[c] # "open" => fut[c] \in Answers /\ sent[c] = fut[c]
        /\ ClassOf[c] # "denied"

\* A remembered allow was given by some user.
RulesHaveSource ==
    \A t \in Tools :
        ( \/ file[t] = "allow" \/ persistent[t] = "allow"
          \/ \E s \in Sessions : always[s][t] = "allow" ) => AlwaysAllowed(t)

\* What holds of asking calls together.
Asked == IdleUnasked /\ AskingHeld /\ HeadlessNeverWaits

IInv ==
    TypeOK /\ IdleUnasked /\ AskingHeld /\ HeadlessNeverWaits /\ RulesHaveSource /\ GrantHasBasis

-----------------------------------------------------------------------------
\* What a verdict without waiting may be, and on what a grant among them
\* rests: check_and_wait up to its first await.
LEMMA VerdictSound ==
    ASSUME TypeOK, NEW c \in Calls
    PROVE  /\ Verdict(c) \in (Decisions \ (Answers \cup {"none"})) \cup {"ask"}
           /\ Verdict(c) = "ask" =>
                ClassOf[c] # "denied" /\ CurrentMode(SessionOf[c]) = "interactive"
           /\ Verdict(c) = "auto_allow" =>
                /\ ClassOf[c] # "denied" /\ ~Outside(c)
                /\ ByPolicy(c) = "allow" \/ Rule(c) = "allow"
           /\ Verdict(c) = "headless_allow_list" =>
                ClassOf[c] # "denied" /\ ~Outside(c) /\ ListedTool(c)
<1>1. ToolOf[c] \in Tools /\ SessionOf[c] \in Sessions /\ ClassOf[c] \in Classes
  BY CallsAssumption
<1>2. Rule(c) \in Rules
  BY <1>1 DEF TypeOK, Rule
<1>3. Remembered(c) \in Rules /\ (Remembered(c) = "allow" => Rule(c) = "allow")
  BY <1>2 DEF Remembered, Rules
<1>4. Headless(c) \in {"headless_allow_list", "headless_fail_fast", "headless_deny"}
      /\ (Headless(c) = "headless_allow_list" => ~Outside(c) /\ ListedTool(c))
  BY DEF Headless
<1>5. CASE ClassOf[c] = "denied"
  BY <1>5 DEF Verdict, Decisions, Answers, Outside
<1>6. CASE ClassOf[c] = "outside"
  BY <1>4, <1>6 DEF Verdict, Decisions, Answers, Outside
<1>7. CASE ClassOf[c] \notin {"denied", "outside"} /\ Remembered(c) # "none"
  BY <1>3, <1>4, <1>7 DEF Verdict, Decisions, Answers, Outside, Rules
<1>8. CASE ClassOf[c] \notin {"denied", "outside"} /\ Remembered(c) = "none"
  BY <1>4, <1>8 DEF Verdict, Decisions, Answers, Outside
<1>9. QED
  BY <1>5, <1>6, <1>7, <1>8

\* The initial state satisfies the inductive invariant.
LEMMA InitInvariant == Init => IInv
<1> SUFFICES ASSUME Init PROVE IInv
  OBVIOUS
<1>1. TypeOK
  BY DEF Init, TypeOK, NoRules, Rules, Answers
<1>2. IdleUnasked /\ AskingHeld /\ HeadlessNeverWaits /\ GrantHasBasis
  BY DEF Init, IdleUnasked, AskingHeld, Asking, HeadlessNeverWaits, GrantHasBasis
<1>3. RulesHaveSource
  BY DEF Init, RulesHaveSource, NoRules
<1>4. QED
  BY <1>1, <1>2, <1>3 DEF IInv

\* Every step keeps the types.
LEMMA NextType == TypeOK /\ [Next]_vars => TypeOK'
<1> SUFFICES ASSUME TypeOK, [Next]_vars PROVE TypeOK'
  OBVIOUS
<1> USE CallsAssumption DEF Answers, Rules
<1>1. ASSUME NEW c \in Calls, DecideAtOnce(c) PROVE TypeOK'
  BY VerdictSound, <1>1 DEF TypeOK, DecideAtOnce, Decide, Decisions
<1>2. ASSUME NEW c \in Calls, Ask(c) PROVE TypeOK'
  BY <1>2 DEF TypeOK, Ask, Register
<1>3. ASSUME NEW c \in Calls, Published(c) PROVE TypeOK'
  BY <1>3 DEF TypeOK, Published
<1>4. ASSUME NEW c \in Calls, NEW a \in Answers, Respond(c, a) PROVE TypeOK'
  BY <1>4 DEF TypeOK, Respond
<1>5. ASSUME NEW c \in Calls, Resume(c) PROVE TypeOK'
  <2>1. ToolOf[c] \in Tools /\ SessionOf[c] \in Sessions /\ RuleOf(fut[c]) \in Rules
    BY DEF RuleOf
  <2>2. always' \in [Sessions -> [Tools -> Rules]] /\ persistent' \in [Tools -> Rules]
    <3>1. CASE IsAlways(fut[c])
      <4>1. always' = [always EXCEPT ![SessionOf[c]] =
                          [always[SessionOf[c]] EXCEPT ![ToolOf[c]] = RuleOf(fut[c])]]
        BY <1>5, <3>1 DEF Resume, Remember
      <4>2. [always[SessionOf[c]] EXCEPT ![ToolOf[c]] = RuleOf(fut[c])] \in [Tools -> Rules]
        BY <2>1 DEF TypeOK
      <4>3. persistent' = [persistent EXCEPT ![ToolOf[c]] = RuleOf(fut[c])]
        BY <1>5, <3>1 DEF Resume, Remember
      <4>4. QED
        BY <2>1, <4>1, <4>2, <4>3 DEF TypeOK
    <3>2. CASE ~IsAlways(fut[c])
      BY <1>5, <3>2 DEF Resume, Remember, TypeOK
    <3>3. QED
      BY <3>1, <3>2
  <2>3. file' \in [Tools -> Rules]
    BY <1>5, <2>2 DEF Resume, Save, TypeOK, NoRules
  <2>4. decision' \in [Calls -> Decisions] /\ pc' \in [Calls -> {"idle", "emitting",
                                                  "waiting", "granted", "denied", "aborted"}]
    BY <1>5 DEF Resume, Decide, TypeOK, Decisions
  <2>5. QED
    BY <1>5, <2>2, <2>3, <2>4 DEF Resume, TypeOK, Decisions
<1>6. ASSUME NEW c \in Calls, TimeOut(c) PROVE TypeOK'
  BY <1>6 DEF TypeOK, TimeOut, Decide
<1>7. ASSUME NEW c \in Calls, CancelWaiting(c) PROVE TypeOK'
  BY <1>7 DEF TypeOK, CancelWaiting
<1>8. ASSUME NEW c \in Calls, AbortEmitting(c) PROVE TypeOK'
  BY <1>8 DEF TypeOK, AbortEmitting
<1>9. ASSUME NEW c \in Calls, KilledWhileSaving(c) PROVE TypeOK'
  BY <1>9 DEF TypeOK, KilledWhileSaving, Restarted, NoRules
<1>10. ASSUME NEW s \in Sessions, RunDone(s) PROVE TypeOK'
  BY <1>10 DEF TypeOK, RunDone
<1>11. CASE Disconnect
  BY <1>11 DEF TypeOK, Disconnect
<1>12. CASE Connect
  BY <1>12 DEF TypeOK, Connect
<1>13. CASE Restart
  BY <1>13 DEF TypeOK, Restart, Restarted, NoRules
<1>14. CASE UNCHANGED vars
  BY <1>14 DEF TypeOK, vars
<1>15. QED
  BY <1>1, <1>2, <1>3, <1>4, <1>5, <1>6, <1>7, <1>8, <1>9, <1>10, <1>11, <1>12, <1>13,
     <1>14 DEF Next

\* The answers and futures of asking calls stay consistent, and no call of a
\* headless run starts to wait, in every step: respond, timers, cancellations,
\* the end of runs and restarts included.
LEMMA NextAsking ==
    IInv /\ [Next]_vars => Asked'
<1> SUFFICES ASSUME IInv, [Next]_vars PROVE Asked'
  OBVIOUS
<1> USE CallsAssumption DEF IInv, Asked
<1>1. ASSUME NEW c \in Calls, DecideAtOnce(c) PROVE Asked'
  BY <1>1 DEF DecideAtOnce, Decide, TypeOK, IdleUnasked, AskingHeld,
     HeadlessNeverWaits, Asking, CurrentMode
<1>2. ASSUME NEW c \in Calls, Ask(c) PROVE Asked'
  BY <1>2, VerdictSound DEF Ask, Register, TypeOK, IdleUnasked, AskingHeld,
     HeadlessNeverWaits, Asking, CurrentMode
<1>3. ASSUME NEW c \in Calls, Published(c) PROVE Asked'
  BY <1>3 DEF Published, TypeOK, IdleUnasked, AskingHeld,
     HeadlessNeverWaits, Asking, CurrentMode
<1>4. ASSUME NEW c \in Calls, NEW a \in Answers, Respond(c, a) PROVE Asked'
  <2>1. CASE pc[c] \in Asking /\ fut[c] = "open"
    BY <1>4, <2>1 DEF Respond, TypeOK, IdleUnasked, AskingHeld,
     HeadlessNeverWaits, Asking, CurrentMode, Answers
  <2>2. CASE pc[c] \in Asking /\ fut[c] # "open"
    BY <1>4, <2>2 DEF Respond, TypeOK, IdleUnasked, AskingHeld,
     HeadlessNeverWaits, Asking, CurrentMode, Answers
  <2>3. CASE pc[c] \notin Asking
    BY <1>4, <2>3 DEF Respond, TypeOK, IdleUnasked, AskingHeld,
     HeadlessNeverWaits, Asking, CurrentMode
  <2>4. QED
    BY <2>1, <2>2, <2>3
<1>5. ASSUME NEW c \in Calls, Resume(c) PROVE Asked'
  BY <1>5 DEF Resume, Decide, TypeOK, IdleUnasked, AskingHeld,
     HeadlessNeverWaits, Asking, CurrentMode
<1>6. ASSUME NEW c \in Calls, TimeOut(c) PROVE Asked'
  BY <1>6 DEF TimeOut, Decide, TypeOK, IdleUnasked, AskingHeld,
     HeadlessNeverWaits, Asking, CurrentMode
<1>7. ASSUME NEW c \in Calls, CancelWaiting(c) PROVE Asked'
  BY <1>7 DEF CancelWaiting, TypeOK, IdleUnasked, AskingHeld,
     HeadlessNeverWaits, Asking, CurrentMode
<1>8. ASSUME NEW c \in Calls, AbortEmitting(c) PROVE Asked'
  BY <1>8 DEF AbortEmitting, TypeOK, IdleUnasked, AskingHeld,
     HeadlessNeverWaits, Asking, CurrentMode
<1>9. ASSUME NEW c \in Calls, KilledWhileSaving(c) PROVE Asked'
  BY <1>9 DEF KilledWhileSaving, Restarted, TypeOK, IdleUnasked, AskingHeld,
     HeadlessNeverWaits, Asking, CurrentMode
<1>10. ASSUME NEW s \in Sessions, RunDone(s) PROVE Asked'
  BY <1>10 DEF RunDone, TypeOK, IdleUnasked, AskingHeld,
     HeadlessNeverWaits, Asking, CurrentMode
<1>11. CASE Disconnect
  BY <1>11 DEF Disconnect, TypeOK, IdleUnasked, AskingHeld,
     HeadlessNeverWaits, Asking, CurrentMode
<1>12. CASE Connect
  BY <1>12 DEF Connect, TypeOK, IdleUnasked, AskingHeld,
     HeadlessNeverWaits, Asking, CurrentMode
<1>13. CASE Restart
  BY <1>13 DEF Restart, Restarted, TypeOK, IdleUnasked, AskingHeld,
     HeadlessNeverWaits, Asking, CurrentMode
<1>14. CASE UNCHANGED vars
  BY <1>14 DEF vars, TypeOK, IdleUnasked, AskingHeld,
     HeadlessNeverWaits, Asking, CurrentMode
<1>15. QED
  BY <1>1, <1>2, <1>3, <1>4, <1>5, <1>6, <1>7, <1>8, <1>9, <1>10, <1>11, <1>12, <1>13,
     <1>14 DEF Next

\* The first answer to a call is never changed, so a user's always_allow
\* remains the source of the rule it created.
LEMMA AnswersStand ==
    IInv /\ [Next]_vars =>
        /\ \A c \in Calls : sent[c] # "none" => sent'[c] = sent[c]
        /\ \A t \in Tools : AlwaysAllowed(t) => AlwaysAllowed(t)'
<1> SUFFICES ASSUME IInv, [Next]_vars
             PROVE  \A c \in Calls : sent[c] # "none" => sent'[c] = sent[c]
  BY DEF AlwaysAllowed
<1> USE DEF IInv, TypeOK
<1>1. ASSUME NEW c \in Calls, NEW a \in Answers, Respond(c, a)
      PROVE  \A d \in Calls : sent[d] # "none" => sent'[d] = sent[d]
  BY <1>1 DEF Respond
<1>2. CASE UNCHANGED sent
  BY <1>2
<1>3. CASE Next
  BY <1>1, <1>2, <1>3 DEF Next, DecideAtOnce, Ask, Published, Resume, TimeOut, CancelWaiting,
     AbortEmitting, KilledWhileSaving, Restarted, RunDone, Disconnect, Connect, Restart
<1>4. QED
  BY <1>2, <1>3 DEF vars

\* No step creates an allow rule, in a cache or in the policy file, that no
\* user has answered always_allow for.
LEMMA NextRules == IInv /\ [Next]_vars => RulesHaveSource'
<1> SUFFICES ASSUME IInv, [Next]_vars PROVE RulesHaveSource'
  OBVIOUS
<1> USE CallsAssumption DEF IInv
<1>1. \A t \in Tools : AlwaysAllowed(t) => AlwaysAllowed(t)'
  BY AnswersStand
<1>2. CASE UNCHANGED <<always, persistent, file>>
  BY <1>1, <1>2 DEF RulesHaveSource
<1>3. ASSUME NEW rules \in {file, NoRules}, Restarted(rules) PROVE RulesHaveSource'
  BY <1>1, <1>3 DEF RulesHaveSource, Restarted, NoRules
<1>4. ASSUME NEW c \in Calls, Resume(c) PROVE RulesHaveSource'
  <2>1. ToolOf[c] \in Tools /\ SessionOf[c] \in Sessions /\ fut[c] \in Answers
    BY <1>4 DEF Resume
  <2>2. sent[c] = fut[c] /\ sent' = sent
    BY <1>4, <2>1 DEF Resume, AskingHeld, Asking, Answers
  <2>3. CASE ~IsAlways(fut[c])
    BY <1>2, <1>4, <2>3 DEF Resume, Remember, Save
  <2>4. CASE IsAlways(fut[c])
    <3>1. RuleOf(fut[c]) = "allow" => AlwaysAllowed(ToolOf[c])'
      BY <2>1, <2>2, <2>4 DEF RuleOf, IsAlways, AlwaysAllowed
    <3>2. always' = [always EXCEPT ![SessionOf[c]] =
                        [always[SessionOf[c]] EXCEPT ![ToolOf[c]] = RuleOf(fut[c])]]
          /\ persistent' = [persistent EXCEPT ![ToolOf[c]] = RuleOf(fut[c])]
      BY <1>4, <2>4 DEF Resume, Remember
    <3>3. ASSUME NEW t \in Tools, persistent'[t] = "allow" PROVE AlwaysAllowed(t)'
      BY <1>1, <2>1, <3>1, <3>2, <3>3 DEF RulesHaveSource, TypeOK
    <3>4. ASSUME NEW t \in Tools, NEW s \in Sessions, always'[s][t] = "allow"
          PROVE  AlwaysAllowed(t)'
      BY <1>1, <2>1, <3>1, <3>2, <3>4 DEF RulesHaveSource, TypeOK
    <3>5. ASSUME NEW t \in Tools, file'[t] = "allow" PROVE AlwaysAllowed(t)'
      BY <1>1, <1>4, <2>4, <3>3, <3>5 DEF RulesHaveSource, Resume, Save, NoRules
    <3>6. QED
      BY <3>3, <3>4, <3>5 DEF RulesHaveSource
  <2>5. QED
    BY <2>3, <2>4
<1>5. CASE Next
  BY <1>2, <1>3, <1>4, <1>5 DEF Next, DecideAtOnce, Ask, Published, Respond, TimeOut,
     CancelWaiting, AbortEmitting, KilledWhileSaving, RunDone, Disconnect, Connect, Restart
<1>6. QED
  BY <1>2, <1>5 DEF vars

\* Every grant has its basis when it is given, and no later step takes the
\* basis away.
LEMMA NextGrants == IInv /\ [Next]_vars => GrantHasBasis'
<1> SUFFICES ASSUME IInv, [Next]_vars, NEW d \in Calls, pc'[d] = "granted"
             PROVE  ClassOf[d] # "denied" /\ Basis(d)'
  BY DEF GrantHasBasis
<1> USE CallsAssumption DEF IInv
<1>1. /\ sent[d] # "none" => sent'[d] = sent[d]
      /\ AlwaysAllowed(ToolOf[d]) => AlwaysAllowed(ToolOf[d])'
  BY AnswersStand
<1>2. CASE pc[d] = "granted" /\ decision'[d] = decision[d]
  BY <1>1, <1>2 DEF GrantHasBasis, Basis, Outside, ByPolicy
<1>3. ASSUME NEW c \in Calls, DecideAtOnce(c) PROVE ClassOf[d] # "denied" /\ Basis(d)'
  <2>1. CASE c # d
    BY <1>2, <1>3, <2>1 DEF DecideAtOnce, Decide, TypeOK
  <2>2. CASE c = d
    <3>1. Verdict(c) \in Grants /\ decision'[c] = Verdict(c)
      BY <1>3, <2>2 DEF DecideAtOnce, Decide, TypeOK
    <3>2. CASE Verdict(c) = "auto_allow"
      <4>1. Rule(c) = "allow" => AlwaysAllowed(ToolOf[c])
        BY DEF Rule, RulesHaveSource
      <4>2. QED
        BY <1>1, <2>2, <3>1, <3>2, <4>1, VerdictSound DEF Basis, Outside, ByPolicy
    <3>3. CASE Verdict(c) = "headless_allow_list"
      BY <2>2, <3>1, <3>3, VerdictSound DEF Basis, Outside, ListedTool, CurrentMode
    <3>4. QED
      BY <3>1, <3>2, <3>3, VerdictSound DEF Grants, Decisions, Answers
  <2>3. QED
    BY <2>1, <2>2
<1>4. ASSUME NEW c \in Calls, Resume(c) PROVE ClassOf[d] # "denied" /\ Basis(d)'
  <2>1. CASE c # d
    BY <1>2, <1>4, <2>1 DEF Resume, Decide, TypeOK
  <2>2. CASE c = d
    <3>1. fut[c] \in {"allow_once", "always_allow"} /\ decision'[c] = fut[c] /\ sent' = sent
      BY <1>4, <2>2 DEF Resume, Decide, TypeOK, Grants, Answers
    <3>2. sent[c] = fut[c] /\ ClassOf[c] # "denied"
      BY <1>4, <3>1 DEF Resume, AskingHeld, Asking
    <3>3. QED
      BY <2>2, <3>1, <3>2 DEF Basis
  <2>3. QED
    BY <2>1, <2>2
<1>5. CASE UNCHANGED decision /\ pc[d] = "granted"
  BY <1>2, <1>5
<1>6. ASSUME NEW c \in Calls, TimeOut(c) PROVE ClassOf[d] # "denied" /\ Basis(d)'
  BY <1>2, <1>6 DEF TimeOut, Decide, TypeOK, Grants
<1>7. ASSUME NEW c \in Calls, \/ Ask(c) \/ Published(c) \/ \E a \in Answers : Respond(c, a)
                              \/ CancelWaiting(c) \/ AbortEmitting(c) \/ KilledWhileSaving(c)
      PROVE  pc[d] = "granted" /\ UNCHANGED decision
  BY <1>7 DEF Ask, Published, Respond, CancelWaiting, AbortEmitting, KilledWhileSaving,
     Restarted, TypeOK
<1>8. CASE (\E s \in Sessions : RunDone(s)) \/ Disconnect \/ Connect \/ Restart
  BY <1>5, <1>8 DEF RunDone, Disconnect, Connect, Restart, Restarted, TypeOK
<1>9. QED
  BY <1>3, <1>4, <1>5, <1>6, <1>7, <1>8 DEF Next, vars

\* What a step may do to the remembered rules: write the rule of the answer a
\* call is returning, or lose everything with the daemon.
LEMMA RuleStep ==
    ASSUME IInv, [Next]_vars, persistent' # persistent
    PROVE  \/ \E c \in Calls :
                /\ pc[c] = "waiting" /\ decision'[c] \in {"always_allow", "always_deny"}
                /\ persistent' = [persistent EXCEPT ![ToolOf[c]] =
                                     IF pc'[c] = "granted" THEN "allow" ELSE "deny"]
           \/ pending' = {} /\ persistent' = file'
<1>1. ASSUME NEW c \in Calls, Resume(c)
      PROVE  /\ pc[c] = "waiting" /\ decision'[c] \in {"always_allow", "always_deny"}
             /\ persistent' = [persistent EXCEPT ![ToolOf[c]] =
                                  IF pc'[c] = "granted" THEN "allow" ELSE "deny"]
  <2>1. /\ IsAlways(fut[c])
        /\ persistent' = [persistent EXCEPT ![ToolOf[c]] = RuleOf(fut[c])]
    BY <1>1 DEF Resume, Remember
  <2>2. /\ pc[c] = "waiting" /\ decision'[c] = fut[c]
        /\ pc'[c] = IF fut[c] \in Grants THEN "granted" ELSE "denied"
    BY <1>1 DEF Resume, Decide, IInv, TypeOK
  <2>3. fut[c] \in {"always_allow", "always_deny"}
    BY <2>1 DEF IsAlways
  <2>4. RuleOf(fut[c]) = IF pc'[c] = "granted" THEN "allow" ELSE "deny"
    BY <2>2, <2>3 DEF RuleOf, Grants
  <2>5. QED
    BY <2>1, <2>2, <2>3, <2>4
<1>2. CASE Restart \/ \E c \in Calls : KilledWhileSaving(c)
  BY <1>2 DEF Restart, KilledWhileSaving, Restarted
<1>3. QED
  BY <1>1, <1>2 DEF Next, vars, DecideAtOnce, Ask, Published, Respond, TimeOut, CancelWaiting,
     AbortEmitting, RunDone, Disconnect, Connect

-----------------------------------------------------------------------------
\* The invariant on which the theorems rest is inductive: it holds at the
\* start and every step of PermissionManager and its callers keeps it.
THEOREM InductiveInvariant == Spec => []IInv
<1>1. IInv /\ [Next]_vars => IInv'
  BY NextType, NextAsking, NextRules, NextGrants DEF IInv, Asked
<1>2. QED
  BY InitInvariant, <1>1, PTL DEF Spec

\* Type correctness.
THEOREM TypeCorrect == Spec => []TypeOK
<1>1. IInv => TypeOK
  BY DEF IInv
<1>2. QED
  BY InductiveInvariant, <1>1, PTL

\* Every grant rests on the call's own first answer, the policy, the run's
\* allow-list or an always_allow some user gave (check_and_wait).
THEOREM GrantsHaveBasis == Spec => []GrantHasBasis
<1>1. IInv => GrantHasBasis
  BY DEF IInv
<1>2. QED
  BY InductiveInvariant, <1>1, PTL

\* The first answer sent for an open call is the one it will return (respond).
THEOREM FirstAnswerKept == Spec => []FirstAnswerCounts
<1>1. IInv => FirstAnswerCounts
  BY DEF IInv, AskingHeld, Asking, FirstAnswerCounts
<1>2. QED
  BY InductiveInvariant, <1>1, PTL

\* No call of a running headless run waits for a user (check_and_wait 154-163).
THEOREM HeadlessRunsNeverWait == Spec => []HeadlessNeverWaits
<1>1. IInv => HeadlessNeverWaits
  BY DEF IInv
<1>2. QED
  BY InductiveInvariant, <1>1, PTL

\* A remembered rule changes only with the verdict of the call whose answer it
\* is, or with a restart of the daemon (_apply_response, load_policy_file).
THEOREM RulesFollowVerdicts == Spec => RuleFollowsVerdict
<1> DEFINE Follows ==
          \/ \E c \in Calls :
                /\ pc[c] = "waiting" /\ decision'[c] \in {"always_allow", "always_deny"}
                /\ persistent' = [persistent EXCEPT ![ToolOf[c]] =
                                     IF pc'[c] = "granted" THEN "allow" ELSE "deny"]
          \/ pending' = {} /\ persistent' = file'
<1>1. IInv /\ [Next]_vars => [persistent' # persistent => Follows]_vars
  BY RuleStep
<1>2. QED
  BY InductiveInvariant, <1>1, PTL DEF Spec, RuleFollowsVerdict
=============================================================================
