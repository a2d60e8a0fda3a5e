----------------------------- MODULE ToolCallProofs -----------------------------
(***************************************************************************)
(* The types of ToolCall, the story its events tell of a call and, for     *)
(* servers that do not ask, that an answer is the one to the request.      *)
(***************************************************************************)
EXTENDS ToolCall, SequenceTheorems, TLAPS

Steps == {"idle", "start", "hooks", "permit", "try", "queue", "read",
          "backoff", "closing", "over"}
Before1 == {"idle", "start", "hooks", "permit"}
Unsent == Before1 \cup {"try", "queue"}
Sent == {"read", "closing", "over"}
Errors == {"runtime_error", "schema_error", "hook_denied", "permission_denied", "timeout"}
Results == Errors \cup {"ok", "cancelled", Nothing}
Events == [what : {"started", "failed", "finished"}, why : Results, attempt : Nat]
Kinds == {"answer", "error", "note", "list", "ask"}
Lines == [kind : Kinds, id : Nat, about : Calls \cup {Nothing}]
Started == Event("started", Nothing, 0)

\* The functions and their ranges.
Plain ==
    /\ pc \in [Calls -> Steps]
    /\ attempt \in [Calls -> 1..(MaxRetries + 1)]
    /\ told \in [Calls -> Seq(Events)]
    /\ result \in [Calls -> Results]
    /\ content \in [Calls -> Calls \cup {Nothing}]
    /\ performed \in [Calls -> Nat]
    /\ server \in [Servers -> {"idle", "connecting", "ready", "skipped", "closed"}]
    /\ proc \in [Servers -> {"none", "running", "gone"}]
    /\ lastId \in [Servers -> Nat \ {0, 1}]
    /\ reqId \in [Calls -> Nat]
    /\ lock \in [Servers -> Seq(Calls)]
    /\ todo \in [Servers -> SUBSET Calls]
    /\ out \in [Servers -> Seq(Lines)]

\* Where a call of either kind can stand, and how often it can have been performed.
Attempts ==
    \A c \in Calls :
        /\ pc[c] \in {"queue", "read"} => Remote(c)
        /\ pc[c] = "backoff" =>
             c \in Repeatable /\ attempt[c] <= MaxRetries /\ performed[c] = attempt[c]
        /\ pc[c] \in Before1 \/ c \notin Repeatable => attempt[c] = 1
        /\ pc[c] \in Unsent => performed[c] = attempt[c] - 1
        /\ performed[c] <= attempt[c]

\* What the lock of a connection holds.
Queued ==
    \A s \in Servers :
        /\ ToSet(lock[s]) = {c \in Calls : Home[c] = s /\ pc[c] \in {"queue", "read"}}
        /\ IsInjective(lock[s])
        /\ \A c \in Calls : Home[c] = s /\ pc[c] = "read" => Head(lock[s]) = c

\* The events so far: one for the start, one for each attempt that was retried,
\* then the outcome.
Told(c) ==
    /\ pc[c] = "idle" => told[c] = <<>>
    /\ pc[c] # "idle" => Len(told[c]) > 0 /\ told[c][1] = Started
    /\ pc[c] \in {"start", "hooks", "permit", "try", "queue", "read"} => Len(told[c]) = attempt[c]
    /\ pc[c] = "backoff" => Len(told[c]) = attempt[c] + 1
    /\ pc[c] = "closing" \/ (pc[c] = "over" /\ result[c] # "cancelled") =>
         /\ Len(told[c]) = attempt[c] + 1
         /\ told[c][Len(told[c])] = IF result[c] = "ok" THEN Event("finished", Nothing, 0)
                                    ELSE Event("failed", result[c], attempt[c])
    /\ \A i \in 2..Len(told[c]) : i <= attempt[c] \/ pc[c] = "backoff" =>
         c \in Repeatable /\ told[c][i].what = "failed" /\ told[c][i].attempt = i - 1

Story == \A c \in Calls : Told(c)

\* The ids of the requests of a connection tell them apart.
Ids ==
    \A c \in Calls :
        /\ reqId[c] # 0 => Remote(c) /\ reqId[c] > 2 /\ reqId[c] <= lastId[Home[c]]
        /\ pc[c] \in Unsent \ {"queue"} => reqId[c] = 0
        /\ pc[c] \in {"queue", "read"} => reqId[c] # 0
        /\ \A d \in Calls : c # d /\ Home[c] = Home[d] /\ reqId[c] = reqId[d] => reqId[c] = 0

\* A request that a server has still to perform was sent and is not performed.
Pending ==
    \A s \in Servers : \A c \in todo[s] :
        Home[c] = s /\ Remote(c) /\ reqId[c] # 0 /\ pc[c] \in Sent /\ performed[c] = 0

\* A line answers a request that the server is through with, or has no id of the
\* client, unless the server asks.
Answer(s, line) ==
    /\ line.about \in Calls
    /\ Home[line.about] = s
    /\ line.id = reqId[line.about] /\ line.id # 0
    /\ line.about \notin todo[s]
    /\ pc[line.about] \in Sent
    /\ line.kind = "answer" => performed[line.about] = 1

Said ==
    \A s \in Servers : \A i \in 1..Len(out[s]) :
        /\ out[s][i].kind \in {"answer", "error"} => Answer(s, out[s][i])
        /\ out[s][i].kind \in {"note", "list"} => out[s][i].id = 0
        /\ out[s][i].kind = "ask" => PeerAsks

\* A call that succeeded is done with, an MCP call with its own answer.
Settled ==
    \A c \in Calls : result[c] = "ok" =>
        /\ pc[c] \in {"closing", "over"}
        /\ Remote(c) /\ ~PeerAsks => content[c] = c /\ performed[c] = 1

IInv == Plain /\ Attempts /\ Queued /\ Story /\ Ids /\ Pending /\ Said /\ Settled
-----------------------------------------------------------------------------
(* The lock                                                                 *)

\* A sequence without one of its entries, each of which is there once.
LEMMA WithoutEntries ==
    ASSUME NEW S, NEW list \in Seq(S), IsInjective(list), NEW c
    PROVE  /\ Without(list, c) \in Seq(S)
           /\ ToSet(Without(list, c)) = ToSet(list) \ {c}
           /\ IsInjective(Without(list, c))
           /\ Len(list) > 0 /\ Head(list) # c => Head(Without(list, c)) = Head(list)
           /\ c \notin ToSet(list) => Without(list, c) = list
<1>1. CASE c \notin ToSet(list)
  BY <1>1 DEF Without
<1>2. CASE c \in ToSet(list)
  <2> DEFINE k == CHOOSE i \in DOMAIN list : list[i] = c
             n == Len(list)
             short == Without(list, c)
  <2>1. k \in 1..n /\ list[k] = c /\ n \in Nat
    BY <1>2 DEF ToSet
  <2>2. short = SubSeq(list, 1, k - 1) \o SubSeq(list, k + 1, n)
    BY <1>2 DEF Without, RemoveAt
  <2> HIDE DEF k
  <2>3. /\ SubSeq(list, 1, k - 1) \in Seq(S) /\ Len(SubSeq(list, 1, k - 1)) = k - 1
        /\ SubSeq(list, k + 1, n) \in Seq(S) /\ Len(SubSeq(list, k + 1, n)) = n - k
        /\ \A i \in 1..(k - 1) : SubSeq(list, 1, k - 1)[i] = list[i]
        /\ \A i \in 1..(n - k) : SubSeq(list, k + 1, n)[i] = list[i + k]
    BY <2>1
  <2>4. /\ short \in Seq(S) /\ Len(short) = n - 1
        /\ \A i \in 1..(n - 1) : short[i] = IF i < k THEN list[i] ELSE list[i + 1]
    <3> DEFINE left == SubSeq(list, 1, k - 1)
               right == SubSeq(list, k + 1, n)
    <3>1. left \in Seq(S) /\ Len(left) = k - 1 /\ right \in Seq(S) /\ Len(right) = n - k
      BY <2>3
    <3> HIDE DEF left, right, short, n
    <3>2. /\ left \o right \in Seq(S) /\ Len(left \o right) = n - 1
          /\ \A i \in 1..(n - 1) :
               (left \o right)[i] = IF i < k THEN left[i] ELSE right[i - (k - 1)]
      BY <2>1, <3>1
    <3>3. short = left \o right
      BY <2>2 DEF left, right, n, short
    <3>4. ASSUME NEW i \in 1..(n - 1) PROVE short[i] = IF i < k THEN list[i] ELSE list[i + 1]
      <4>1. CASE i < k
        <5>1. i \in 1..(k - 1)
          BY <2>1, <4>1
        <5> QED BY <2>3, <3>2, <3>3, <4>1, <5>1 DEF left
      <4>2. CASE ~(i < k)
        <5>1. i - (k - 1) \in 1..(n - k) /\ i - (k - 1) + k = i + 1
          BY <2>1, <4>2
        <5> QED BY <2>3, <3>2, <3>3, <4>2, <5>1 DEF right
      <4> QED BY <4>1, <4>2
    <3> QED BY <3>2, <3>3, <3>4
  <2> HIDE DEF short, n
  <2>5. \A i \in 1..n, j \in 1..n : list[i] = list[j] => i = j
    BY DEF IsInjective, n
  <2>6. \A i \in 1..(n - 1), j \in 1..(n - 1) : short[i] = short[j] => i = j
    BY <2>1, <2>4, <2>5
  <2>7. IsInjective(short)
    BY <2>1, <2>4, <2>6 DEF IsInjective
  <2>8. ToSet(short) = ToSet(list) \ {c}
    <3>1. ASSUME NEW x \in ToSet(short) PROVE x \in ToSet(list) \ {c}
      <4>1. PICK i \in 1..(n - 1) : x = short[i]
        BY <2>1, <2>4, <3>1 DEF ToSet
      <4>2. \E j \in 1..n : j # k /\ x = list[j]
        BY <2>1, <2>4, <4>1
      <4> QED BY <2>1, <2>5, <4>2 DEF ToSet, n
    <3>2. ASSUME NEW x \in ToSet(list), x # c PROVE x \in ToSet(short)
      <4>1. PICK j \in 1..n : x = list[j]
        BY <3>2 DEF ToSet, n
      <4>2. \E i \in 1..(n - 1) : short[i] = x
        <5>1. CASE j < k
          BY <2>1, <2>4, <4>1, <5>1
        <5>2. CASE j > k
          <6>1. j - 1 \in 1..(n - 1) /\ ~(j - 1 < k) /\ (j - 1) + 1 = j
            BY <2>1, <5>2
          <6> QED BY <2>4, <4>1, <6>1
        <5> QED BY <2>1, <3>2, <4>1, <5>1, <5>2
      <4> QED BY <2>1, <2>4, <4>2 DEF ToSet
    <3> QED BY <3>1, <3>2
  <2>9. Len(list) > 0 /\ Head(list) # c => Head(short) = Head(list)
    <3> SUFFICES ASSUME Head(list) # c PROVE Head(short) = Head(list)
      OBVIOUS
    <3>1. k # 1 /\ n > 1
      BY <2>1 DEF n
    <3>2. 1 \in 1..(n - 1) /\ 1 < k
      BY <2>1, <3>1
    <3>3. short[1] = list[1] /\ short # <<>>
      BY <2>1, <2>4, <3>2
    <3> QED BY <2>4, <3>3
  <2> QED
    BY <1>2, <2>4, <2>7, <2>8, <2>9 DEF short
<1> QED
  BY <1>1, <1>2

\* A sequence with a new entry at its end.
LEMMA AppendEntry ==
    ASSUME NEW S, NEW list \in Seq(S), NEW e \in S
    PROVE  /\ Append(list, e) \in Seq(S)
           /\ Len(Append(list, e)) = Len(list) + 1
           /\ Append(list, e)[Len(list) + 1] = e
           /\ \A i \in 1..Len(list) : Append(list, e)[i] = list[i]
           /\ ToSet(Append(list, e)) = ToSet(list) \cup {e}
           /\ Len(list) > 0 => Head(Append(list, e)) = Head(list)
<1> DEFINE long == Append(list, e)
<1>1. /\ long \in Seq(S) /\ Len(long) = Len(list) + 1
      /\ long[Len(list) + 1] = e
      /\ \A i \in 1..Len(list) : long[i] = list[i]
  BY AppendProperties
<1>2. DOMAIN long = 1..(Len(list) + 1) /\ DOMAIN list = 1..Len(list) /\ Len(list) \in Nat
  BY <1>1
<1> HIDE DEF long
<1>3. ToSet(long) = ToSet(list) \cup {e}
  <2>1. \A i \in 1..(Len(list) + 1) : i \in 1..Len(list) \/ i = Len(list) + 1
    BY <1>2
  <2>2. \A i \in 1..Len(list) : i \in 1..(Len(list) + 1)
    BY <1>2
  <2>3. Len(list) + 1 \in 1..(Len(list) + 1)
    BY <1>2
  <2> QED BY <1>1, <1>2, <2>1, <2>2, <2>3 DEF ToSet
<1>4. Len(list) > 0 => Head(long) = Head(list)
  <2> SUFFICES ASSUME Len(list) > 0 PROVE Head(long) = Head(list)
    OBVIOUS
  <2>1. 1 \in 1..Len(list) /\ long # <<>> /\ list # <<>>
    BY <1>1, <1>2
  <2> QED BY <1>1, <2>1
<1> QED
  BY <1>1, <1>3, <1>4 DEF long

-----------------------------------------------------------------------------
(* The invariant is inductive                                               *)

\* No call has started, no server is connected.
LEMMA InitInv == Init => IInv
<1> SUFFICES ASSUME Init PROVE IInv
  OBVIOUS
<1>1. Plain
  BY RetriesAssumption DEF Init, Plain, Steps, Results
<1>2. Attempts /\ Story /\ Ids
  BY RetriesAssumption DEF Init, Attempts, Story, Told, Ids
<1>3. Queued
  BY DEF Init, ToSet, IsInjective, Queued
<1>4. Pending /\ Said /\ Settled
  BY NothingAssumption DEF Init, Pending, Said, Settled
<1> QED
  BY <1>1, <1>2, <1>3, <1>4 DEF IInv
-----------------------------------------------------------------------------
(* What the steps do, whatever the action that does it                      *)

shared == <<lastId, reqId, lock>>

\* The manager and the end of a process: requests may be dropped.
Managed ==
    /\ server' \in [Servers -> {"idle", "connecting", "ready", "skipped", "closed"}]
    /\ proc' \in [Servers -> {"none", "running", "gone"}]
    /\ todo' \in [Servers -> SUBSET Calls]
    /\ \A s \in Servers : todo'[s] \subseteq todo[s]
    /\ UNCHANGED <<callVars, shared, out>>

\* A server says a line that answers no request.
Unasked(s, line) ==
    /\ line \in Lines
    /\ line.kind \in {"note", "list", "ask"}
    /\ line.kind = "ask" => PeerAsks
    /\ line.kind # "ask" => line.id = 0
    /\ Say(s, line)
    /\ UNCHANGED <<callVars, server, proc, shared, todo>>

Performed(s, c, n, kind) ==
    /\ c \in todo[s]
    /\ kind = IF n = 1 THEN "answer" ELSE "error"
    /\ todo' = [todo EXCEPT ![s] = @ \ {c}]
    /\ performed' = [performed EXCEPT ![c] = @ + n]
    /\ Say(s, [kind |-> kind, id |-> reqId[c], about |-> c])
    /\ UNCHANGED <<pc, attempt, told, result, content, server, proc, shared>>

\* A call ends before its first attempt, or goes on.
Refused(c, why) ==
    /\ pc[c] \in Before1 \ {"idle"}
    /\ Fail(c, why)
    /\ UNCHANGED <<attempt, content, performed, server, proc, shared, todo, out>>

Passed(c, step) ==
    /\ pc[c] \in Before1 \ {"idle"}
    /\ step \in {"hooks", "permit", "try"}
    /\ pc' = [pc EXCEPT ![c] = step]
    /\ UNCHANGED <<attempt, told, result, content, performed, server, proc, shared, todo, out>>

\* A tool of the daemon succeeds, fails, or fails and is to be tried again.
RunSucceeds(c) ==
    /\ pc[c] = "try"
    /\ ~Remote(c)
    /\ Succeeded(c)
    /\ performed' = [performed EXCEPT ![c] = @ + 1]
    /\ UNCHANGED <<attempt, content, server, proc, shared, todo, out>>

RunFails(c, why) ==
    /\ pc[c] = "try"
    /\ ~Remote(c)
    /\ Fail(c, why)
    /\ performed' = [performed EXCEPT ![c] = @ + 1]
    /\ UNCHANGED <<attempt, content, server, proc, shared, todo, out>>

RunAgain(c, why) ==
    /\ pc[c] = "try"
    /\ ~Remote(c)
    /\ c \in Repeatable /\ attempt[c] <= MaxRetries
    /\ Tell(c, Event("failed", why, attempt[c]))
    /\ pc' = [pc EXCEPT ![c] = "backoff"]
    /\ performed' = [performed EXCEPT ![c] = @ + 1]
    /\ UNCHANGED <<attempt, result, content, server, proc, shared, todo, out>>

\* A request is written, its answer is read, or a line that is none.
Sends(c) ==
    /\ pc[c] = "queue"
    /\ Head(lock[Home[c]]) = c
    /\ pc' = [pc EXCEPT ![c] = "read"]
    /\ todo' \in {todo, [todo EXCEPT ![Home[c]] = @ \cup {c}]}
    /\ UNCHANGED <<attempt, told, result, content, performed, server, proc, shared, out>>

Answered(c) ==
    /\ pc[c] = "read"
    /\ out[Home[c]] # <<>>
    /\ Head(out[Home[c]]).kind \in {"answer", "ask"}
    /\ Head(out[Home[c]]).id = reqId[c]
    /\ out' = [out EXCEPT ![Home[c]] = Tail(@)]
    /\ content' = [content EXCEPT ![c] = Head(out[Home[c]]).about]
    /\ Succeeded(c)
    /\ Release(c)
    /\ UNCHANGED <<attempt, performed, server, proc, lastId, reqId, todo>>

Skipped(c) ==
    /\ pc[c] = "read"
    /\ out[Home[c]] # <<>>
    /\ out' = [out EXCEPT ![Home[c]] = Tail(@)]
    /\ UNCHANGED <<callVars, server, proc, shared, todo>>

\* An attempt fails for good.
GivesUp(c, why) ==
    /\ pc[c] \in {"try", "queue", "read"}
    /\ Fail(c, why)
    /\ Release(c)
    /\ \/ out' = out
       \/ Remote(c) /\ out[Home[c]] # <<>> /\ out' = [out EXCEPT ![Home[c]] = Tail(@)]
    /\ UNCHANGED <<attempt, content, performed, server, proc, lastId, reqId, todo>>

\* The tool of an MCP call is not tried again.
LEMMA RemoteFails ==
    ASSUME NEW c \in Calls, Remote(c), NEW why, Failed(c, why)
    PROVE  Fail(c, why)
  BY RepeatAssumption DEF Failed, CanRetry, Remote

\* Every step is one of these.
LEMMA NextCases ==
    ASSUME Plain, Attempts, [Next]_vars
    PROVE  \/ Managed
           \/ \E s \in Servers : \E line \in Lines : Unasked(s, line)
           \/ \E s \in Servers, c \in Calls :
                Performed(s, c, 1, "answer") \/ Performed(s, c, 0, "error")
           \/ \E c \in Calls :
                \/ Start(c) \/ Retry(c) \/ Close(c) \/ Cancel(c)
                \/ \E why \in Errors : Refused(c, why)
                \/ \E step \in {"hooks", "permit", "try"} : Passed(c, step)
                \/ RunSucceeds(c)
                \/ \E why \in Errors : RunFails(c, why) \/ RunAgain(c, why)
                \/ Remote(c) /\ (Enter(c) \/ Sends(c) \/ Answered(c) \/ Skipped(c))
                \/ \E why \in Errors : GivesUp(c, why)
<1>1. ASSUME NEW s \in Servers, Connect(s) \/ Connected(s) \/ Skip(s) PROVE Managed
  BY <1>1 DEF Connect, Connected, Skip, Managed, Plain, linkVars, shared
<1>2. ASSUME NEW s \in Servers, Crash(s) PROVE Managed
  BY <1>2 DEF Crash, Managed, Plain, shared
<1>3. ASSUME Serve PROVE Managed
  BY <1>3 DEF Serve, Managed, Plain, linkVars, shared
<1>4. ASSUME StopAll PROVE Managed
  BY <1>4 DEF StopAll, Managed, Plain, shared
<1>5. ASSUME UNCHANGED vars PROVE Managed
  BY <1>5 DEF vars, Managed, Plain, linkVars, shared
<1>6. ASSUME NEW s \in Servers, Noise(s) PROVE \E line \in Lines : Unasked(s, line)
  <2>1. ASSUME NEW kind \in {"note", "list"},
               Say(s, [kind |-> kind, id |-> 0, about |-> Nothing])
        PROVE  Unasked(s, [kind |-> kind, id |-> 0, about |-> Nothing])
    BY <1>6, <2>1 DEF Noise, Unasked, Lines, Kinds, shared
  <2>2. ASSUME PeerAsks, NEW n \in 1..lastId[s],
               Say(s, [kind |-> "ask", id |-> n, about |-> Nothing])
        PROVE  Unasked(s, [kind |-> "ask", id |-> n, about |-> Nothing])
    BY <1>6, <2>2 DEF Noise, Unasked, Lines, Kinds, shared
  <2>3. ASSUME NEW line, Unasked(s, line) PROVE line \in Lines
    BY <2>3 DEF Unasked
  <2> QED BY <1>6, <2>1, <2>2, <2>3 DEF Noise
<1>7. ASSUME NEW s \in Servers, NEW c \in Calls, Perform(s, c)
      PROVE  Performed(s, c, 1, "answer") \/ Performed(s, c, 0, "error")
  BY <1>7 DEF Perform, Performed, Plain, shared
<1>8. ASSUME NEW c \in Calls, Validate(c) \/ PreToolUse(c) \/ Permit(c)
      PROVE  \/ \E why \in Errors : Refused(c, why)
             \/ \E step \in {"hooks", "permit", "try"} : Passed(c, step)
  <2>1. CASE Validate(c)
    BY <2>1 DEF Validate, Refused, Passed, Before1, Errors, shared, linkVars
  <2>2. CASE PreToolUse(c)
    BY <2>2 DEF PreToolUse, Refused, Passed, Before1, Errors, shared, linkVars
  <2>3. CASE Permit(c)
    BY <2>3 DEF Permit, Refused, Passed, Before1, Errors, shared, linkVars
  <2> QED BY <1>8, <2>1, <2>2, <2>3
<1>9. ASSUME NEW c \in Calls, Run(c)
      PROVE  RunSucceeds(c) \/ \E why \in Errors : RunFails(c, why) \/ RunAgain(c, why)
  BY <1>9 DEF Run, RunSucceeds, RunFails, RunAgain, Failed, CanRetry, Errors, shared, linkVars
<1>10. ASSUME NEW c \in Calls, Remote(c), Send(c)
       PROVE  Sends(c) \/ \E why \in Errors : GivesUp(c, why)
  <2>1. Failed(c, "runtime_error") => Fail(c, "runtime_error")
    BY <1>10, RemoteFails
  <2> QED BY <1>10, <2>1 DEF Send, Sends, GivesUp, Errors, shared, Plain
<1>11. ASSUME NEW c \in Calls, Remote(c), Read(c)
       PROVE  Answered(c) \/ Skipped(c) \/ \E why \in Errors : GivesUp(c, why)
  <2>1. Failed(c, "runtime_error") => Fail(c, "runtime_error")
    BY <1>11, RemoteFails
  <2> QED BY <1>11, <2>1 DEF Read, Mine, Answered, Skipped, GivesUp, Errors, callVars, shared
<1>12. ASSUME NEW c \in Calls, Limit(c) PROVE \E why \in Errors : GivesUp(c, why)
  BY <1>12 DEF Limit, GivesUp, Errors
<1>13. ASSUME NEW c \in Calls, ReadFails(c) PROVE \E why \in Errors : GivesUp(c, why)
  <2>1. Remote(c) /\ Failed(c, "runtime_error")
    BY <1>13 DEF ReadFails, Attempts
  <2>2. Fail(c, "runtime_error")
    BY <2>1, RemoteFails
  <2> QED BY <1>13, <2>2 DEF ReadFails, GivesUp, Errors
<1> QED
  BY <1>1, <1>2, <1>3, <1>4, <1>5, <1>6, <1>7, <1>8, <1>9, <1>10, <1>11, <1>12, <1>13 DEF Next,
     Progress

\* The story of a call goes on.
LEMMA TellEntry ==
    ASSUME Plain, NEW c \in Calls, NEW e \in Events, Tell(c, e)
    PROVE  /\ told' \in [Calls -> Seq(Events)]
           /\ \A b \in Calls : b # c => told'[b] = told[b]
           /\ Len(told'[c]) = Len(told[c]) + 1
           /\ told'[c][Len(told[c]) + 1] = e
           /\ \A i \in 1..Len(told[c]) : told'[c][i] = told[c][i]
<1>1. told[c] \in Seq(Events)
  BY DEF Plain
<1>2. told' = [told EXCEPT ![c] = Append(@, e)]
  BY DEF Tell
<1>3. told'[c] = Append(told[c], e)
  BY <1>2 DEF Plain
<1>4. Append(told[c], e) \in Seq(Events)
  BY <1>1
<1>5. told' \in [Calls -> Seq(Events)] /\ \A b \in Calls : b # c => told'[b] = told[b]
  BY <1>2, <1>4 DEF Plain
<1> QED
  BY <1>1, <1>3, <1>5, AppendEntry

\* What an outcome does.
LEMMA FailFacts ==
    ASSUME Plain, NEW c \in Calls, NEW why \in Errors, Fail(c, why)
    PROVE  /\ pc' \in [Calls -> Steps] /\ pc'[c] = "closing"
           /\ \A b \in Calls : b # c => pc'[b] = pc[b]
           /\ result' \in [Calls -> Results] /\ result'[c] = why
           /\ \A b \in Calls : b # c => result'[b] = result[b]
           /\ Event("failed", why, attempt[c]) \in Events
           /\ Tell(c, Event("failed", why, attempt[c]))
  BY RetriesAssumption DEF Fail, Plain, Steps, Results, Events, Event

LEMMA SucceedFacts ==
    ASSUME Plain, NEW c \in Calls, Succeeded(c)
    PROVE  /\ pc' \in [Calls -> Steps] /\ pc'[c] = "closing"
           /\ \A b \in Calls : b # c => pc'[b] = pc[b]
           /\ result' \in [Calls -> Results] /\ result'[c] = "ok"
           /\ \A b \in Calls : b # c => result'[b] = result[b]
           /\ Event("finished", Nothing, 0) \in Events
           /\ Tell(c, Event("finished", Nothing, 0))
  BY DEF Succeeded, Plain, Steps, Results, Events, Event
\* Every step keeps the count of the attempts.
LEMMA AttemptsInv ==
    ASSUME Plain, Attempts, Pending, [Next]_vars
    PROVE  Attempts'
<1>1. ASSUME Managed PROVE Attempts'
  BY <1>1, RepeatAssumption, RetriesAssumption DEF Managed, Attempts, callVars
<1>2. ASSUME NEW s \in Servers, NEW line \in Lines, Unasked(s, line) PROVE Attempts'
  BY <1>2, RepeatAssumption, RetriesAssumption DEF Unasked, Attempts, callVars
<1>3. ASSUME NEW s \in Servers, NEW c \in Calls, NEW n \in {0, 1}, NEW kind,
             Performed(s, c, n, kind)
      PROVE  Attempts'
  <2>1. c \in Calls /\ s \in Servers /\ performed[c] = 0 /\ pc[c] \in Sent
    BY <1>3 DEF Performed, Pending
  <2>2. /\ performed' = [performed EXCEPT ![c] = n]
        /\ UNCHANGED <<pc, attempt>>
    BY <1>3, <2>1 DEF Performed
  <2>3. attempt[c] >= 1 /\ n <= attempt[c] /\ pc[c] \notin Unsent \cup {"backoff"}
    BY <2>1, RetriesAssumption DEF Plain, Sent, Unsent, Before1
  <2> QED BY <2>2, <2>3 DEF Attempts
<1>4. ASSUME NEW c \in Calls, Start(c) PROVE Attempts'
  BY <1>4, RepeatAssumption, RetriesAssumption DEF Start, Attempts, Before1, Unsent
<1>5. ASSUME NEW c \in Calls, Retry(c) PROVE Attempts'
  BY <1>5, RepeatAssumption, RetriesAssumption DEF Retry, Attempts, Plain, Before1
<1>6. ASSUME NEW c \in Calls, Close(c) PROVE Attempts'
  BY <1>6, RepeatAssumption, RetriesAssumption DEF Close, Attempts, Before1, Unsent
<1>7. ASSUME NEW c \in Calls, Cancel(c) PROVE Attempts'
  BY <1>7, RepeatAssumption, RetriesAssumption DEF Cancel, Attempts, Before1, Unsent
<1>8. ASSUME NEW c \in Calls, NEW why \in Errors, Refused(c, why) PROVE Attempts'
  <2>1. /\ pc'[c] = "closing" /\ \A b \in Calls : b # c => pc'[b] = pc[b]
       /\ result'[c] # "ok" /\ \A b \in Calls : b # c => result'[b] = result[b]
    BY <1>8, FailFacts DEF Refused, Errors
  <2> QED BY <1>8, RepeatAssumption, RetriesAssumption, <2>1 DEF Refused, Attempts, Unsent
<1>9. ASSUME NEW c \in Calls, NEW step \in {"hooks", "permit", "try"}, Passed(c, step)
      PROVE  Attempts'
  BY <1>9, RepeatAssumption, RetriesAssumption DEF Passed, Attempts, Unsent
<1>10. ASSUME NEW c \in Calls, RunSucceeds(c) PROVE Attempts'
  <2>1. /\ pc'[c] = "closing" /\ \A b \in Calls : b # c => pc'[b] = pc[b]
       /\ result'[c] = "ok" /\ \A b \in Calls : b # c => result'[b] = result[b]
    BY <1>10, SucceedFacts DEF RunSucceeds
  <2> QED BY <1>10, RepeatAssumption, RetriesAssumption, <2>1 DEF RunSucceeds, Attempts, Plain,
     Before1, Unsent
<1>11. ASSUME NEW c \in Calls, NEW why \in Errors, RunFails(c, why) PROVE Attempts'
  <2>1. /\ pc'[c] = "closing" /\ \A b \in Calls : b # c => pc'[b] = pc[b]
       /\ result'[c] # "ok" /\ \A b \in Calls : b # c => result'[b] = result[b]
    BY <1>11, FailFacts DEF RunFails, Errors
  <2> QED BY <1>11, RepeatAssumption, RetriesAssumption, <2>1 DEF RunFails, Attempts, Plain,
     Before1, Unsent
<1>12. ASSUME NEW c \in Calls, NEW why \in Errors, RunAgain(c, why) PROVE Attempts'
  BY <1>12, RepeatAssumption, RetriesAssumption DEF RunAgain, Attempts, Plain, Before1, Unsent
<1>13. ASSUME NEW c \in Calls, Remote(c), Enter(c) PROVE Attempts'
  BY <1>13, RepeatAssumption, RetriesAssumption DEF Enter, Attempts, Before1, Unsent
<1>14. ASSUME NEW c \in Calls, Remote(c), Sends(c) PROVE Attempts'
  BY <1>14, RepeatAssumption, RetriesAssumption DEF Sends, Attempts, Before1, Unsent
<1>15. ASSUME NEW c \in Calls, Remote(c), Answered(c) PROVE Attempts'
  <2>1. /\ pc'[c] = "closing" /\ \A b \in Calls : b # c => pc'[b] = pc[b]
       /\ result'[c] = "ok" /\ \A b \in Calls : b # c => result'[b] = result[b]
    BY <1>15, SucceedFacts DEF Answered
  <2> QED BY <1>15, RepeatAssumption, RetriesAssumption, <2>1 DEF Answered, Attempts, Before1,
     Unsent
<1>16. ASSUME NEW c \in Calls, Remote(c), Skipped(c) PROVE Attempts'
  BY <1>16, RepeatAssumption, RetriesAssumption DEF Skipped, Attempts, callVars
<1>17. ASSUME NEW c \in Calls, NEW why \in Errors, GivesUp(c, why) PROVE Attempts'
  <2>1. /\ pc'[c] = "closing" /\ \A b \in Calls : b # c => pc'[b] = pc[b]
       /\ result'[c] # "ok" /\ \A b \in Calls : b # c => result'[b] = result[b]
    BY <1>17, FailFacts DEF GivesUp, Errors
  <2> QED BY <1>17, RepeatAssumption, RetriesAssumption, <2>1 DEF GivesUp, Attempts, Before1,
     Unsent
<1> QED
  BY NextCases, <1>1, <1>2, <1>3, <1>4, <1>5, <1>6, <1>7, <1>8, <1>9, <1>10, <1>11, <1>12,
     <1>13, <1>14, <1>15, <1>16, <1>17
\* Every step keeps the ids of the requests apart.
LEMMA IdsInv ==
    ASSUME Plain, Attempts, Ids, [Next]_vars
    PROVE  Ids'
<1>1. ASSUME Managed PROVE Ids'
  BY <1>1, HomeAssumption DEF Managed, Ids, callVars, shared
<1>2. ASSUME NEW s \in Servers, NEW line \in Lines, Unasked(s, line) PROVE Ids'
  BY <1>2, HomeAssumption DEF Unasked, Ids, callVars, shared
<1>3. ASSUME NEW s \in Servers, NEW c \in Calls, NEW n \in {0, 1}, NEW kind,
             Performed(s, c, n, kind)
      PROVE  Ids'
  BY <1>3, HomeAssumption DEF Performed, Ids, shared
<1>4. ASSUME NEW c \in Calls, Start(c) PROVE Ids'
  BY <1>4, HomeAssumption DEF Start, Ids, Before1, Unsent, linkVars
<1>5. ASSUME NEW c \in Calls, Retry(c) PROVE Ids'
  <2>1. pc' = [pc EXCEPT ![c] = "try"] /\ reqId' = reqId /\ lastId' = lastId
    BY <1>5 DEF Retry, linkVars
  <2>2. c \in Repeatable
    BY <1>5 DEF Retry, Attempts
  <2>3. reqId[c] = 0
    BY <2>2, RepeatAssumption DEF Ids, Remote
  <2> QED BY <2>1, <2>3 DEF Ids
<1>6. ASSUME NEW c \in Calls, Close(c) PROVE Ids'
  BY <1>6, HomeAssumption DEF Close, Ids, Before1, Unsent, linkVars
<1>7. ASSUME NEW c \in Calls, Cancel(c) PROVE Ids'
  BY <1>7, HomeAssumption DEF Cancel, Ids, Before1, Unsent
<1>8. ASSUME NEW c \in Calls, NEW why \in Errors, Refused(c, why) PROVE Ids'
  <2>1. /\ pc'[c] = "closing" /\ \A b \in Calls : b # c => pc'[b] = pc[b]
       /\ result'[c] # "ok" /\ \A b \in Calls : b # c => result'[b] = result[b]
    BY <1>8, FailFacts DEF Refused, Errors
  <2> QED BY <1>8, HomeAssumption, <2>1 DEF Refused, Ids, Before1, Unsent, shared
<1>9. ASSUME NEW c \in Calls, NEW step \in {"hooks", "permit", "try"}, Passed(c, step) PROVE Ids'
  BY <1>9, HomeAssumption DEF Passed, Ids, Before1, Unsent, shared
<1>10. ASSUME NEW c \in Calls, RunSucceeds(c) PROVE Ids'
  <2>1. /\ pc'[c] = "closing" /\ \A b \in Calls : b # c => pc'[b] = pc[b]
       /\ result'[c] = "ok" /\ \A b \in Calls : b # c => result'[b] = result[b]
    BY <1>10, SucceedFacts DEF RunSucceeds
  <2> QED BY <1>10, HomeAssumption, <2>1 DEF RunSucceeds, Ids, shared
<1>11. ASSUME NEW c \in Calls, NEW why \in Errors, RunFails(c, why) PROVE Ids'
  <2>1. /\ pc'[c] = "closing" /\ \A b \in Calls : b # c => pc'[b] = pc[b]
       /\ result'[c] # "ok" /\ \A b \in Calls : b # c => result'[b] = result[b]
    BY <1>11, FailFacts DEF RunFails, Errors
  <2> QED BY <1>11, HomeAssumption, <2>1 DEF RunFails, Ids, shared
<1>12. ASSUME NEW c \in Calls, NEW why \in Errors, RunAgain(c, why) PROVE Ids'
  BY <1>12, HomeAssumption DEF RunAgain, Ids, shared
<1>13. ASSUME NEW c \in Calls, Remote(c), Enter(c) PROVE Ids'
  <2> DEFINE s == Home[c]
             n == lastId[s] + 1
  <2>1. s \in Servers /\ n \in Nat /\ n > 2 /\ lastId[s] \in Nat
    <3>1. s \in Servers
      BY <1>13, HomeAssumption DEF Remote
    <3>2. lastId[s] \in Nat \ {0, 1}
      BY <3>1 DEF Plain
    <3> HIDE DEF s
    <3> QED BY <3>1, <3>2
  <2>2. /\ pc' = [pc EXCEPT ![c] = "queue"] /\ reqId' = [reqId EXCEPT ![c] = n]
        /\ lastId' = [lastId EXCEPT ![s] = n]
    BY <1>13 DEF Enter
  <2> HIDE DEF n
  <2>3. \A b \in Calls : Home[b] = s => reqId[b] < n
    <3>1. ASSUME NEW b \in Calls, Home[b] = s PROVE reqId[b] < n
      <4>1. reqId[b] \in Nat /\ (reqId[b] # 0 => reqId[b] <= lastId[s])
        BY <3>1 DEF Ids, Plain
      <4> HIDE DEF s
      <4> QED BY <2>1, <4>1 DEF n
    <3> QED BY <3>1
  <2>4. \A b \in Calls : reqId[b] # 0 => Home[b] \in Servers /\ lastId'[Home[b]] >= lastId[Home[b]]
    <3>1. \A t \in Servers : lastId'[t] >= lastId[t]
      <4> HIDE DEF s
      <4> QED BY <2>1, <2>2 DEF Plain, n
    <3> HIDE DEF s
    <3> QED BY <3>1, HomeAssumption DEF Ids, Remote
  <2>5. ASSUME NEW b \in Calls, b # c
        PROVE  /\ reqId'[b] # 0 => Remote(b) /\ reqId'[b] > 2 /\ reqId'[b] <= lastId'[Home[b]]
               /\ pc'[b] \in Unsent \ {"queue"} => reqId'[b] = 0
               /\ pc'[b] \in {"queue", "read"} => reqId'[b] # 0
    <3>1. pc'[b] = pc[b] /\ reqId'[b] = reqId[b]
      BY <2>2, <2>5
    <3>2. ASSUME reqId[b] # 0 PROVE Remote(b) /\ reqId[b] > 2 /\ reqId[b] <= lastId'[Home[b]]
      <4>1. Remote(b) /\ reqId[b] > 2 /\ reqId[b] <= lastId[Home[b]] /\ Home[b] \in Servers
        BY <3>2, HomeAssumption DEF Ids, Remote
      <4>2. lastId[Home[b]] \in Nat /\ lastId'[Home[b]] \in Nat /\ reqId[b] \in Nat
        BY <2>1, <2>2, <4>1 DEF Plain
      <4> QED BY <2>4, <3>2, <4>1, <4>2
    <3> QED BY <3>1, <3>2 DEF Ids
  <2>6. /\ reqId'[c] # 0 /\ Remote(c) /\ reqId'[c] > 2 /\ reqId'[c] <= lastId'[Home[c]]
        /\ pc'[c] \notin Unsent \ {"queue"}
    BY <1>13, <2>1, <2>2 DEF Plain
  <2>7. \A a, b \in Calls : a # b /\ Home[a] = Home[b] /\ reqId'[a] = reqId'[b] => reqId'[a] = 0
    <3>1. \A b \in Calls : b # c /\ Home[b] = Home[c] => reqId'[b] # reqId'[c]
      BY <2>1, <2>2, <2>3 DEF Plain
    <3>2. \A b \in Calls : b # c => reqId'[b] = reqId[b]
      BY <2>2
    <3> QED BY <3>1, <3>2 DEF Ids
  <2> HIDE DEF s
  <2> QED BY <2>5, <2>6, <2>7 DEF Ids
<1>14. ASSUME NEW c \in Calls, Remote(c), Sends(c) PROVE Ids'
  BY <1>14, HomeAssumption DEF Sends, Ids, Before1, Unsent, shared
<1>15. ASSUME NEW c \in Calls, Remote(c), Answered(c) PROVE Ids'
  <2>1. /\ pc'[c] = "closing" /\ \A b \in Calls : b # c => pc'[b] = pc[b]
       /\ result'[c] = "ok" /\ \A b \in Calls : b # c => result'[b] = result[b]
    BY <1>15, SucceedFacts DEF Answered
  <2> QED BY <1>15, HomeAssumption, <2>1 DEF Answered, Ids, Before1, Unsent
<1>16. ASSUME NEW c \in Calls, Remote(c), Skipped(c) PROVE Ids'
  BY <1>16, HomeAssumption DEF Skipped, Ids, callVars, shared
<1>17. ASSUME NEW c \in Calls, NEW why \in Errors, GivesUp(c, why) PROVE Ids'
  <2>1. /\ pc'[c] = "closing" /\ \A b \in Calls : b # c => pc'[b] = pc[b]
       /\ result'[c] # "ok" /\ \A b \in Calls : b # c => result'[b] = result[b]
    BY <1>17, FailFacts DEF GivesUp, Errors
  <2> QED BY <1>17, HomeAssumption, <2>1 DEF GivesUp, Ids, Before1, Unsent
<1> QED
  BY NextCases, <1>1, <1>2, <1>3, <1>4, <1>5, <1>6, <1>7, <1>8, <1>9, <1>10, <1>11, <1>12,
     <1>13, <1>14, <1>15, <1>16, <1>17
\* A call whose request was sent goes on only to its end, and is performed only
\* while the server has the request; a request comes to a server when it is sent.
Onward ==
    /\ \A b \in Calls :
         /\ pc[b] \in Sent => pc'[b] \in Sent /\ reqId'[b] = reqId[b]
         /\ pc[b] \in Sent /\ b \notin todo[Home[b]] => performed'[b] = performed[b]
    /\ \A s \in Servers : \A b \in todo'[s] :
         /\ performed'[b] = performed[b]
         /\ b \notin todo[s] =>
              /\ Home[b] = s /\ Remote(b)
              /\ pc[b] = "queue" /\ pc'[b] = "read" /\ reqId'[b] = reqId[b]
\* Every step takes the calls that were sent onward.
LEMMA OnwardStep ==
    ASSUME Plain, Attempts, Pending, [Next]_vars
    PROVE  Onward
<1>1. ASSUME Managed PROVE Onward
  BY <1>1, HomeAssumption DEF Managed, Onward, callVars, shared
<1>2. ASSUME NEW s \in Servers, NEW line \in Lines, Unasked(s, line) PROVE Onward
  BY <1>2, HomeAssumption DEF Unasked, Onward, callVars, shared
<1>3. ASSUME NEW s \in Servers, NEW c \in Calls, NEW n \in {0, 1}, NEW kind,
             Performed(s, c, n, kind)
      PROVE  Onward
  <2>1. Home[c] = s /\ pc' = pc /\ reqId' = reqId
    BY <1>3 DEF Performed, Pending, shared
  <2>2. todo' = [todo EXCEPT ![s] = @ \ {c}] /\ performed' = [performed EXCEPT ![c] = @ + n]
        /\ c \in todo[s]
    BY <1>3 DEF Performed
  <2>3. \A b \in Calls : b # c => performed'[b] = performed[b]
    BY <2>2
  <2>4. \A t \in Servers : todo'[t] \subseteq todo[t] \ {c}
    BY <2>1, <2>2 DEF Plain, Pending
  <2> QED BY <2>1, <2>2, <2>3, <2>4 DEF Onward
<1>4. ASSUME NEW c \in Calls, Start(c) PROVE Onward
  BY <1>4, HomeAssumption DEF Start, Onward, Sent, linkVars
<1>5. ASSUME NEW c \in Calls, Retry(c) PROVE Onward
  BY <1>5, HomeAssumption DEF Retry, Onward, Sent, linkVars
<1>6. ASSUME NEW c \in Calls, Close(c) PROVE Onward
  BY <1>6, HomeAssumption DEF Close, Onward, Sent, linkVars
<1>7. ASSUME NEW c \in Calls, Cancel(c) PROVE Onward
  BY <1>7, HomeAssumption DEF Cancel, Onward, Sent
<1>8. ASSUME NEW c \in Calls, NEW why \in Errors, Refused(c, why) PROVE Onward
  <2>1. /\ pc'[c] = "closing" /\ \A b \in Calls : b # c => pc'[b] = pc[b]
       /\ result'[c] # "ok" /\ \A b \in Calls : b # c => result'[b] = result[b]
    BY <1>8, FailFacts DEF Refused, Errors
  <2> QED BY <1>8, HomeAssumption, <2>1 DEF Refused, Onward, Sent, shared
<1>9. ASSUME NEW c \in Calls, NEW step \in {"hooks", "permit", "try"}, Passed(c, step) PROVE Onward
  BY <1>9, HomeAssumption DEF Passed, Onward, Sent, Before1, shared
<1>10. ASSUME NEW c \in Calls, RunSucceeds(c) PROVE Onward
  <2>1. /\ pc'[c] = "closing" /\ \A b \in Calls : b # c => pc'[b] = pc[b]
       /\ result'[c] = "ok" /\ \A b \in Calls : b # c => result'[b] = result[b]
    BY <1>10, SucceedFacts DEF RunSucceeds
  <2> QED BY <1>10, HomeAssumption, <2>1 DEF RunSucceeds, Onward, Pending, Sent, shared
<1>11. ASSUME NEW c \in Calls, NEW why \in Errors, RunFails(c, why) PROVE Onward
  <2>1. /\ pc'[c] = "closing" /\ \A b \in Calls : b # c => pc'[b] = pc[b]
       /\ result'[c] # "ok" /\ \A b \in Calls : b # c => result'[b] = result[b]
    BY <1>11, FailFacts DEF RunFails, Errors
  <2> QED BY <1>11, HomeAssumption, <2>1 DEF RunFails, Onward, Pending, Sent, shared
<1>12. ASSUME NEW c \in Calls, NEW why \in Errors, RunAgain(c, why) PROVE Onward
  BY <1>12, HomeAssumption DEF RunAgain, Onward, Pending, Sent, shared
<1>13. ASSUME NEW c \in Calls, Remote(c), Enter(c) PROVE Onward
  BY <1>13, HomeAssumption DEF Enter, Onward, Sent
<1>14. ASSUME NEW c \in Calls, Remote(c), Sends(c) PROVE Onward
  <2> DEFINE s == Home[c]
  <2>1. s \in Servers
    BY <1>14, HomeAssumption DEF Remote
  <2>2. pc' = [pc EXCEPT ![c] = "read"] /\ reqId' = reqId /\ performed' = performed
        /\ pc[c] = "queue"
    BY <1>14 DEF Sends, shared
  <2>3. \A t \in Servers : \A b \in todo'[t] : b \in todo[t] \/ (b = c /\ t = s)
    BY <1>14, SMTT(30) DEF Sends, Plain
  <2> HIDE DEF s
  <2>4. \A b \in Calls : pc[b] \in Sent => pc'[b] \in Sent
    BY <2>2 DEF Sent
  <2>5. pc'[c] = "read"
    BY <2>2 DEF Plain
  <2> QED BY <1>14, <2>1, <2>2, <2>3, <2>4, <2>5 DEF Onward, s
<1>15. ASSUME NEW c \in Calls, Remote(c), Answered(c) PROVE Onward
  <2>1. /\ pc'[c] = "closing" /\ \A b \in Calls : b # c => pc'[b] = pc[b]
       /\ result'[c] = "ok" /\ \A b \in Calls : b # c => result'[b] = result[b]
    BY <1>15, SucceedFacts DEF Answered
  <2> QED BY <1>15, HomeAssumption, <2>1 DEF Answered, Onward, Sent
<1>16. ASSUME NEW c \in Calls, Remote(c), Skipped(c) PROVE Onward
  BY <1>16, HomeAssumption DEF Skipped, Onward, callVars, shared
<1>17. ASSUME NEW c \in Calls, NEW why \in Errors, GivesUp(c, why) PROVE Onward
  <2>1. /\ pc'[c] = "closing" /\ \A b \in Calls : b # c => pc'[b] = pc[b]
       /\ result'[c] # "ok" /\ \A b \in Calls : b # c => result'[b] = result[b]
    BY <1>17, FailFacts DEF GivesUp, Errors
  <2> QED BY <1>17, HomeAssumption, <2>1 DEF GivesUp, Onward, Sent
<1> QED
  BY NextCases, <1>1, <1>2, <1>3, <1>4, <1>5, <1>6, <1>7, <1>8, <1>9, <1>10, <1>11, <1>12,
     <1>13, <1>14, <1>15, <1>16, <1>17
\* Every step keeps the requests that are to be performed.
LEMMA PendingInv ==
    ASSUME Plain, Attempts, Ids, Pending, Onward, Plain'
    PROVE  Pending'
<1> SUFFICES ASSUME NEW s \in Servers, NEW b \in todo'[s]
             PROVE  /\ Home[b] = s /\ Remote(b) /\ reqId'[b] # 0
                    /\ pc'[b] \in Sent /\ performed'[b] = 0
  BY DEF Pending
<1>1. b \in Calls
  BY DEF Plain
<1>2. CASE b \in todo[s]
  BY <1>1, <1>2 DEF Onward, Pending
<1>3. CASE b \notin todo[s]
  <2>1. Home[b] = s /\ Remote(b) /\ pc[b] = "queue" /\ pc'[b] = "read"
    BY <1>1, <1>3 DEF Onward
  <2>2. reqId'[b] = reqId[b] /\ performed'[b] = performed[b]
    BY <1>1, <1>3 DEF Onward
  <2>3. attempt[b] = 1 /\ performed[b] = attempt[b] - 1
    BY <1>1, <2>1, RepeatAssumption DEF Attempts, Remote, Unsent
  <2> QED BY <1>1, <2>1, <2>2, <2>3 DEF Ids, Sent
<1> QED
  BY <1>2, <1>3

\* An answer, after the step.
AnswerAfter(s, line) ==
    /\ line.about \in Calls
    /\ Home[line.about] = s
    /\ line.id = reqId'[line.about] /\ line.id # 0
    /\ line.about \notin todo'[s]
    /\ pc'[line.about] \in Sent
    /\ line.kind = "answer" => performed'[line.about] = 1

\* An answer stays one.
LEMMA AnswerKept ==
    ASSUME Plain, Onward, NEW s \in Servers, NEW line, Answer(s, line)
    PROVE  AnswerAfter(s, line)
<1>1. line.about \in Calls /\ pc[line.about] \in Sent /\ Home[line.about] = s
  BY DEF Answer
<1>2. pc'[line.about] \in Sent /\ reqId'[line.about] = reqId[line.about]
  BY <1>1 DEF Onward
<1>3. performed'[line.about] = performed[line.about]
  BY <1>1 DEF Onward, Answer
<1>4. line.about \notin todo'[s]
  BY <1>1 DEF Onward, Answer, Sent
<1> QED
  BY <1>1, <1>2, <1>3, <1>4 DEF Answer, AnswerAfter

\* A server says one line more.
LEMMA SayEntry ==
    ASSUME Plain, NEW s \in Servers, NEW line \in Lines, Say(s, line)
    PROVE  /\ out' \in [Servers -> Seq(Lines)]
           /\ \A t \in Servers : t # s => out'[t] = out[t]
           /\ Len(out'[s]) = Len(out[s]) + 1
           /\ out'[s][Len(out[s]) + 1] = line
           /\ \A i \in 1..Len(out[s]) : out'[s][i] = out[s][i]
<1>1. out[s] \in Seq(Lines)
  BY DEF Plain
<1>2. out' = [out EXCEPT ![s] = Append(@, line)]
  BY DEF Say
<1>3. out'[s] = Append(out[s], line)
  BY <1>2 DEF Plain
<1>4. Append(out[s], line) \in Seq(Lines)
  BY <1>1
<1>5. out' \in [Servers -> Seq(Lines)] /\ \A t \in Servers : t # s => out'[t] = out[t]
  BY <1>2, <1>4 DEF Plain
<1> QED
  BY <1>1, <1>3, <1>5, AppendEntry

\* A line is read.
LEMMA TailEntry ==
    ASSUME Plain, NEW s \in Servers, out[s] # <<>>, out' = [out EXCEPT ![s] = Tail(@)]
    PROVE  /\ out' \in [Servers -> Seq(Lines)]
           /\ \A t \in Servers : t # s => out'[t] = out[t]
           /\ \A i \in 1..Len(out'[s]) :
                i + 1 \in 1..Len(out[s]) /\ out'[s][i] = out[s][i + 1]
<1>1. out[s] \in Seq(Lines)
  BY DEF Plain
<1>2. out'[s] = Tail(out[s])
  BY DEF Plain
<1>3. Tail(out[s]) \in Seq(Lines)
  BY <1>1
<1>4. out' \in [Servers -> Seq(Lines)] /\ \A t \in Servers : t # s => out'[t] = out[t]
  BY <1>3 DEF Plain
<1>5. \A i \in 1..Len(Tail(out[s])) :
        i + 1 \in 1..Len(out[s]) /\ Tail(out[s])[i] = out[s][i + 1]
  BY <1>1
<1> QED
  BY <1>2, <1>4, <1>5

\* Lines that stay, or come with no id of the client, keep what is known of them.
\* The lines after a step are lines from before, unasked, or of a request performed.
LinesAfter ==
    \A s \in Servers : \A i \in 1..Len(out'[s]) :
        \/ \E j \in 1..Len(out[s]) : out'[s][i] = out[s][j]
        \/ /\ out'[s][i].kind \in {"note", "list", "ask"}
           /\ out'[s][i].kind = "ask" => PeerAsks
           /\ out'[s][i].kind # "ask" => out'[s][i].id = 0
        \/ out'[s][i].kind \in {"answer", "error"} /\ AnswerAfter(s, out'[s][i])
\* Every line after a step is one of these.
LEMMA LinesStep ==
    ASSUME Plain, Attempts, Pending, [Next]_vars
    PROVE  LinesAfter
<1>1. ASSUME Managed PROVE LinesAfter
  BY <1>1 DEF Managed, LinesAfter
<1>2. ASSUME NEW s \in Servers, NEW line \in Lines, Unasked(s, line) PROVE LinesAfter
  <2>1. /\ line \in Lines /\ line.kind \in {"note", "list", "ask"}
        /\ line.kind = "ask" => PeerAsks
        /\ line.kind # "ask" => line.id = 0
    BY <1>2 DEF Unasked
  <2>2. /\ out' \in [Servers -> Seq(Lines)]
        /\ \A t \in Servers : t # s => out'[t] = out[t]
        /\ Len(out'[s]) = Len(out[s]) + 1
        /\ out'[s][Len(out[s]) + 1] = line
        /\ \A i \in 1..Len(out[s]) : out'[s][i] = out[s][i]
    BY <1>2, SayEntry DEF Unasked
  <2>3. Len(out[s]) \in Nat
    OBVIOUS
  <2>4. ASSUME NEW i \in 1..Len(out'[s]) PROVE i \in 1..Len(out[s]) \/ i = Len(out[s]) + 1
    BY <2>2, <2>3
  <2> QED BY <2>1, <2>2, <2>4 DEF LinesAfter
<1>3. ASSUME NEW s \in Servers, NEW c \in Calls, NEW n \in {0, 1}, NEW kind,
             Performed(s, c, n, kind)
      PROVE  LinesAfter
  <2> DEFINE line == [kind |-> kind, id |-> reqId[c], about |-> c]
  <2>1. /\ c \in Calls /\ Home[c] = s /\ reqId[c] # 0 /\ reqId[c] \in Nat
        /\ pc[c] \in Sent /\ performed[c] = 0 /\ c \in todo[s]
    BY <1>3 DEF Performed, Pending, Plain
  <2>2. line \in Lines /\ line.kind \in {"answer", "error"}
    BY <1>3, <2>1 DEF Performed, Lines, Kinds
  <2>3. reqId' = reqId /\ pc' = pc /\ todo'[s] = todo[s] \ {c}
    BY <1>3 DEF Performed, Plain, shared
  <2>4. line.kind = "answer" => performed'[c] = 1
    BY <1>3, <2>1 DEF Performed, Plain
  <2>5. AnswerAfter(s, line)
    BY <2>1, <2>3, <2>4 DEF AnswerAfter
  <2> HIDE DEF line
  <2>6. /\ out' \in [Servers -> Seq(Lines)]
        /\ \A t \in Servers : t # s => out'[t] = out[t]
        /\ Len(out'[s]) = Len(out[s]) + 1
        /\ out'[s][Len(out[s]) + 1] = line
        /\ \A i \in 1..Len(out[s]) : out'[s][i] = out[s][i]
    BY <1>3, <2>2, SayEntry DEF Performed, line
  <2>7. Len(out[s]) \in Nat
    OBVIOUS
  <2>8. ASSUME NEW i \in 1..Len(out'[s]) PROVE i \in 1..Len(out[s]) \/ i = Len(out[s]) + 1
    BY <2>6, <2>7
  <2>9. ASSUME NEW t \in Servers, NEW i \in 1..Len(out'[t])
        PROVE  \/ \E j \in 1..Len(out[t]) : out'[t][i] = out[t][j]
               \/ t = s /\ out'[t][i] = line
    BY <2>6, <2>8
  <2> QED BY <2>2, <2>5, <2>9 DEF LinesAfter
<1>4. ASSUME NEW c \in Calls, Start(c) PROVE LinesAfter
  BY <1>4 DEF Start, LinesAfter, linkVars
<1>5. ASSUME NEW c \in Calls, Retry(c) PROVE LinesAfter
  BY <1>5 DEF Retry, LinesAfter, linkVars
<1>6. ASSUME NEW c \in Calls, Close(c) PROVE LinesAfter
  BY <1>6 DEF Close, LinesAfter, linkVars
<1>7. ASSUME NEW c \in Calls, Cancel(c) PROVE LinesAfter
  BY <1>7 DEF Cancel, LinesAfter
<1>8. ASSUME NEW c \in Calls, NEW why \in Errors, Refused(c, why) PROVE LinesAfter
  <2>1. /\ pc'[c] = "closing" /\ \A b \in Calls : b # c => pc'[b] = pc[b]
       /\ result'[c] # "ok" /\ \A b \in Calls : b # c => result'[b] = result[b]
    BY <1>8, FailFacts DEF Refused, Errors
  <2> QED BY <1>8, <2>1 DEF Refused, LinesAfter
<1>9. ASSUME NEW c \in Calls, NEW step \in {"hooks", "permit", "try"}, Passed(c, step)
      PROVE  LinesAfter
  BY <1>9 DEF Passed, LinesAfter
<1>10. ASSUME NEW c \in Calls, RunSucceeds(c) PROVE LinesAfter
  <2>1. /\ pc'[c] = "closing" /\ \A b \in Calls : b # c => pc'[b] = pc[b]
       /\ result'[c] = "ok" /\ \A b \in Calls : b # c => result'[b] = result[b]
    BY <1>10, SucceedFacts DEF RunSucceeds
  <2> QED BY <1>10, <2>1 DEF RunSucceeds, LinesAfter
<1>11. ASSUME NEW c \in Calls, NEW why \in Errors, RunFails(c, why) PROVE LinesAfter
  <2>1. /\ pc'[c] = "closing" /\ \A b \in Calls : b # c => pc'[b] = pc[b]
       /\ result'[c] # "ok" /\ \A b \in Calls : b # c => result'[b] = result[b]
    BY <1>11, FailFacts DEF RunFails, Errors
  <2> QED BY <1>11, <2>1 DEF RunFails, LinesAfter
<1>12. ASSUME NEW c \in Calls, NEW why \in Errors, RunAgain(c, why) PROVE LinesAfter
  BY <1>12 DEF RunAgain, LinesAfter
<1>13. ASSUME NEW c \in Calls, Remote(c), Enter(c) PROVE LinesAfter
  BY <1>13 DEF Enter, LinesAfter
<1>14. ASSUME NEW c \in Calls, Remote(c), Sends(c) PROVE LinesAfter
  BY <1>14 DEF Sends, LinesAfter
<1>15. ASSUME NEW c \in Calls, Remote(c), Answered(c) PROVE LinesAfter
  <2>1. Home[c] \in Servers
    BY <1>15, HomeAssumption DEF Remote
  <2>2. /\ \A t \in Servers : t # Home[c] => out'[t] = out[t]
        /\ \A i \in 1..Len(out'[Home[c]]) :
             i + 1 \in 1..Len(out[Home[c]]) /\ out'[Home[c]][i] = out[Home[c]][i + 1]
    BY <1>15, <2>1, TailEntry DEF Answered
  <2> QED BY <2>2 DEF LinesAfter
<1>16. ASSUME NEW c \in Calls, Remote(c), Skipped(c) PROVE LinesAfter
  <2>1. Home[c] \in Servers
    BY <1>16, HomeAssumption DEF Remote
  <2>2. /\ \A t \in Servers : t # Home[c] => out'[t] = out[t]
        /\ \A i \in 1..Len(out'[Home[c]]) :
             i + 1 \in 1..Len(out[Home[c]]) /\ out'[Home[c]][i] = out[Home[c]][i + 1]
    BY <1>16, <2>1, TailEntry DEF Skipped
  <2> QED BY <2>2 DEF LinesAfter
<1>17. ASSUME NEW c \in Calls, NEW why \in Errors, GivesUp(c, why) PROVE LinesAfter
  <2>1. CASE out' = out
    BY <2>1 DEF LinesAfter
  <2>2. CASE Remote(c) /\ out[Home[c]] # <<>> /\ out' = [out EXCEPT ![Home[c]] = Tail(@)]
    <3>1. Home[c] \in Servers
      BY <2>2, HomeAssumption DEF Remote
    <3>2. /\ \A t \in Servers : t # Home[c] => out'[t] = out[t]
          /\ \A i \in 1..Len(out'[Home[c]]) :
               i + 1 \in 1..Len(out[Home[c]]) /\ out'[Home[c]][i] = out[Home[c]][i + 1]
      <4> DEFINE s == Home[c]
      <4>1. s \in Servers /\ out[s] # <<>> /\ out' = [out EXCEPT ![s] = Tail(@)]
        BY <2>2, <3>1
      <4> HIDE DEF s
      <4>2. /\ \A t \in Servers : t # s => out'[t] = out[t]
            /\ \A i \in 1..Len(out'[s]) : i + 1 \in 1..Len(out[s]) /\ out'[s][i] = out[s][i + 1]
        BY <4>1, TailEntry
      <4> QED BY <4>2 DEF s
    <3> QED BY <3>2 DEF LinesAfter
  <2>3. (out' = out)
        \/ (Remote(c) /\ out[Home[c]] # <<>> /\ out' = [out EXCEPT ![Home[c]] = Tail(@)])
    BY <1>17 DEF GivesUp
  <2> QED BY <2>1, <2>2, <2>3
<1> QED
  BY NextCases, <1>1, <1>2, <1>3, <1>4, <1>5, <1>6, <1>7, <1>8, <1>9, <1>10, <1>11, <1>12,
     <1>13, <1>14, <1>15, <1>16, <1>17
\* Every step keeps what is known of the lines.
LEMMA SaidInv ==
    ASSUME Plain, Onward, Said, LinesAfter
    PROVE  Said'
<1> SUFFICES ASSUME NEW s \in Servers, NEW i \in 1..Len(out'[s])
             PROVE  /\ out'[s][i].kind \in {"answer", "error"} => AnswerAfter(s, out'[s][i])
                    /\ out'[s][i].kind \in {"note", "list"} => out'[s][i].id = 0
                    /\ out'[s][i].kind = "ask" => PeerAsks
  BY DEF Said, Answer, AnswerAfter
<1>1. ASSUME NEW j \in 1..Len(out[s]), out'[s][i] = out[s][j],
             out[s][j].kind \in {"answer", "error"}
      PROVE  AnswerAfter(s, out'[s][i])
  <2>1. Answer(s, out[s][j])
    BY <1>1 DEF Said
  <2> QED BY <1>1, <2>1, AnswerKept
<1> QED
  BY <1>1 DEF LinesAfter, Said
\* Every step keeps the answers of the calls that succeeded.
LEMMA SettledInv ==
    ASSUME Plain, Attempts, Ids, Pending, Said, Settled, [Next]_vars
    PROVE  Settled'
<1>1. ASSUME Managed PROVE Settled'
  BY <1>1, NothingAssumption DEF Managed, Settled, callVars
<1>2. ASSUME NEW s \in Servers, NEW line \in Lines, Unasked(s, line) PROVE Settled'
  BY <1>2, NothingAssumption DEF Unasked, Settled, callVars
<1>3. ASSUME NEW s \in Servers, NEW c \in Calls, NEW n \in {0, 1}, NEW kind,
             Performed(s, c, n, kind)
      PROVE  Settled'
  <2>1. c \in Calls /\ performed[c] = 0 /\ Remote(c)
    BY <1>3 DEF Performed, Pending
  <2>2. performed' = [performed EXCEPT ![c] = @ + n] /\ UNCHANGED <<pc, result, content>>
    BY <1>3 DEF Performed
  <2>3. \A b \in Calls : b # c => performed'[b] = performed[b]
    BY <2>2
  <2> QED BY <2>1, <2>2, <2>3 DEF Settled
<1>4. ASSUME NEW c \in Calls, Start(c) PROVE Settled'
  BY <1>4, NothingAssumption DEF Start, Settled
<1>5. ASSUME NEW c \in Calls, Retry(c) PROVE Settled'
  BY <1>5, NothingAssumption DEF Retry, Settled
<1>6. ASSUME NEW c \in Calls, Close(c) PROVE Settled'
  BY <1>6, NothingAssumption DEF Close, Settled
<1>7. ASSUME NEW c \in Calls, Cancel(c) PROVE Settled'
  BY <1>7, NothingAssumption DEF Cancel, Settled
<1>8. ASSUME NEW c \in Calls, NEW why \in Errors, Refused(c, why) PROVE Settled'
  <2>1. /\ pc'[c] = "closing" /\ \A b \in Calls : b # c => pc'[b] = pc[b]
       /\ result'[c] # "ok" /\ \A b \in Calls : b # c => result'[b] = result[b]
    BY <1>8, FailFacts DEF Refused, Errors
  <2> QED BY <1>8, NothingAssumption, <2>1 DEF Refused, Settled
<1>9. ASSUME NEW c \in Calls, NEW step \in {"hooks", "permit", "try"}, Passed(c, step)
      PROVE  Settled'
  BY <1>9, NothingAssumption DEF Passed, Settled, Before1
<1>10. ASSUME NEW c \in Calls, RunSucceeds(c) PROVE Settled'
  <2>1. /\ pc'[c] = "closing" /\ \A b \in Calls : b # c => pc'[b] = pc[b]
       /\ result'[c] = "ok" /\ \A b \in Calls : b # c => result'[b] = result[b]
    BY <1>10, SucceedFacts DEF RunSucceeds
  <2> QED BY <1>10, NothingAssumption, <2>1 DEF RunSucceeds, Settled
<1>11. ASSUME NEW c \in Calls, NEW why \in Errors, RunFails(c, why) PROVE Settled'
  <2>1. /\ pc'[c] = "closing" /\ \A b \in Calls : b # c => pc'[b] = pc[b]
       /\ result'[c] # "ok" /\ \A b \in Calls : b # c => result'[b] = result[b]
    BY <1>11, FailFacts DEF RunFails, Errors
  <2> QED BY <1>11, NothingAssumption, <2>1 DEF RunFails, Settled
<1>12. ASSUME NEW c \in Calls, NEW why \in Errors, RunAgain(c, why) PROVE Settled'
  BY <1>12, NothingAssumption DEF RunAgain, Settled
<1>13. ASSUME NEW c \in Calls, Remote(c), Enter(c) PROVE Settled'
  BY <1>13, NothingAssumption DEF Enter, Settled
<1>14. ASSUME NEW c \in Calls, Remote(c), Sends(c) PROVE Settled'
  BY <1>14, NothingAssumption DEF Sends, Settled
<1>15. ASSUME NEW c \in Calls, Remote(c), Answered(c) PROVE Settled'
  <2> DEFINE s == Home[c]
             line == Head(out[s])
  <2>1. s \in Servers
    BY <1>15, HomeAssumption DEF Remote
  <2>2. out[s] \in Seq(Lines) /\ out[s] # <<>> /\ line.kind \in {"answer", "ask"}
        /\ line.id = reqId[c]
    BY <1>15, <2>1 DEF Answered, Plain
  <2>3. 1 \in 1..Len(out[s]) /\ line = out[s][1]
    BY <2>2
  <2>4. /\ pc'[c] = "closing" /\ \A b \in Calls : b # c => pc'[b] = pc[b]
        /\ \A b \in Calls : b # c => result'[b] = result[b]
    BY <1>15, SucceedFacts DEF Answered
  <2>5. performed' = performed /\ content' = [content EXCEPT ![c] = line.about]
    BY <1>15 DEF Answered
  <2> HIDE DEF line, s
  <2>6. ASSUME ~PeerAsks PROVE line.about = c /\ performed[c] = 1
    <3>1. line.kind = "answer" /\ Answer(s, line)
      BY <2>1, <2>2, <2>3, <2>6 DEF Said
    <3>2. /\ line.about \in Calls /\ Home[line.about] = Home[c] /\ reqId[line.about] = reqId[c]
          /\ reqId[c] # 0 /\ performed[line.about] = 1
      BY <2>2, <3>1 DEF Answer, s
    <3> QED BY <3>2 DEF Ids
  <2>7. content'[c] = line.about /\ \A b \in Calls : b # c => content'[b] = content[b]
    BY <2>5 DEF Plain
  <2> QED BY <2>4, <2>5, <2>6, <2>7 DEF Settled
<1>16. ASSUME NEW c \in Calls, Remote(c), Skipped(c) PROVE Settled'
  BY <1>16, NothingAssumption DEF Skipped, Settled, callVars
<1>17. ASSUME NEW c \in Calls, NEW why \in Errors, GivesUp(c, why) PROVE Settled'
  <2>1. /\ pc'[c] = "closing" /\ \A b \in Calls : b # c => pc'[b] = pc[b]
       /\ result'[c] # "ok" /\ \A b \in Calls : b # c => result'[b] = result[b]
    BY <1>17, FailFacts DEF GivesUp, Errors
  <2> QED BY <1>17, NothingAssumption, <2>1 DEF GivesUp, Settled
<1> QED
  BY NextCases, <1>1, <1>2, <1>3, <1>4, <1>5, <1>6, <1>7, <1>8, <1>9, <1>10, <1>11, <1>12,
     <1>13, <1>14, <1>15, <1>16, <1>17
\* The lock without a call.
LEMMA ReleaseFacts ==
    ASSUME Plain, Queued, NEW c \in Calls, Release(c)
    PROVE  /\ lock' \in [Servers -> Seq(Calls)]
           /\ \A s \in Servers :
                /\ ToSet(lock'[s]) = ToSet(lock[s]) \ {c}
                /\ IsInjective(lock'[s])
                /\ Len(lock[s]) > 0 /\ Head(lock[s]) # c => Head(lock'[s]) = Head(lock[s])
<1>1. lock' = [s \in Servers |-> Without(lock[s], c)]
  BY DEF Release
<1>2. ASSUME NEW s \in Servers
      PROVE  /\ lock'[s] \in Seq(Calls)
             /\ ToSet(lock'[s]) = ToSet(lock[s]) \ {c}
             /\ IsInjective(lock'[s])
             /\ Len(lock[s]) > 0 /\ Head(lock[s]) # c => Head(lock'[s]) = Head(lock[s])
  <2>1. lock[s] \in Seq(Calls) /\ IsInjective(lock[s])
    BY DEF Plain, Queued
  <2>2. lock'[s] = Without(lock[s], c)
    BY <1>1
  <2> QED BY <2>1, <2>2, WithoutEntries
<1>3. lock' \in [Servers -> Seq(Calls)]
  BY <1>1, <1>2
<1> QED
  BY <1>2, <1>3
\* Every step keeps the types.
LEMMA PlainInv ==
    ASSUME Plain, Attempts, Pending, Queued, [Next]_vars
    PROVE  Plain'
<1>1. ASSUME Managed PROVE Plain'
  BY <1>1 DEF Managed, Plain, Steps, callVars, shared
<1>2. ASSUME NEW s \in Servers, NEW line \in Lines, Unasked(s, line) PROVE Plain'
  <2>1. UNCHANGED <<pc, attempt, told, result, content, performed, server, proc, lastId, reqId,
                    lock, todo>>
    BY <1>2 DEF Unasked, callVars, shared
  <2>2. out' \in [Servers -> Seq(Lines)]
    BY <1>2, SayEntry DEF Unasked
  <2> QED BY <2>1, <2>2 DEF Plain
<1>3. ASSUME NEW s \in Servers, NEW c \in Calls, NEW n \in {0, 1}, NEW kind,
             Performed(s, c, n, kind)
      PROVE  Plain'
  <2>1. UNCHANGED <<pc, attempt, told, result, content, server, proc, lastId, reqId, lock>>
    BY <1>3 DEF Performed, shared
  <2>2. todo' \in [Servers -> SUBSET Calls]
    BY <1>3 DEF Performed, Plain
  <2>3. performed' \in [Calls -> Nat]
    BY <1>3 DEF Performed, Plain
  <2>4. out' \in [Servers -> Seq(Lines)]
    <3>1. [kind |-> kind, id |-> reqId[c], about |-> c] \in Lines
      BY <1>3 DEF Performed, Lines, Kinds, Plain
    <3> QED BY <1>3, <3>1, SayEntry DEF Performed
  <2> QED BY <2>1, <2>2, <2>3, <2>4 DEF Plain
<1>4. ASSUME NEW c \in Calls, Start(c) PROVE Plain'
  <2>1. UNCHANGED <<attempt, result, content, performed, server, proc, lastId, reqId, lock,
                    todo, out>>
    BY <1>4 DEF Start, linkVars
  <2>2. pc' \in [Calls -> Steps]
    BY <1>4 DEF Start, Plain, Steps
  <2>3. told' \in [Calls -> Seq(Events)]
    <3>1. Event("started", Nothing, 0) \in Events
      BY RetriesAssumption DEF Events, Event, Results
    <3> QED BY <1>4, <3>1, TellEntry DEF Start
  <2> QED BY <2>1, <2>2, <2>3 DEF Plain
<1>5. ASSUME NEW c \in Calls, Retry(c) PROVE Plain'
  <2>1. UNCHANGED <<told, result, content, performed, server, proc, lastId, reqId, lock, todo, out>>
    BY <1>5 DEF Retry, linkVars
  <2>2. pc' \in [Calls -> Steps]
    BY <1>5 DEF Retry, Plain, Steps
  <2>3. attempt' \in [Calls -> 1..(MaxRetries + 1)]
    <3>1. attempt' = [attempt EXCEPT ![c] = @ + 1] /\ attempt[c] <= MaxRetries
      BY <1>5 DEF Retry, Attempts
    <3>2. attempt[c] + 1 \in 1..(MaxRetries + 1)
      BY <3>1, RetriesAssumption DEF Plain
    <3> QED BY <3>1, <3>2 DEF Plain
  <2> QED BY <2>1, <2>2, <2>3 DEF Plain
<1>6. ASSUME NEW c \in Calls, Close(c) PROVE Plain'
  BY <1>6 DEF Close, Plain, Steps, linkVars
<1>7. ASSUME NEW c \in Calls, Cancel(c) PROVE Plain'
  <2>1. UNCHANGED <<attempt, told, content, performed, server, proc, lastId, reqId, todo, out>>
    BY <1>7 DEF Cancel
  <2>2. pc' \in [Calls -> Steps]
    BY <1>7 DEF Cancel, Plain, Steps
  <2>3. result' \in [Calls -> Results]
    BY <1>7 DEF Cancel, Plain, Results
  <2>4. lock' \in [Servers -> Seq(Calls)]
    BY <1>7, ReleaseFacts DEF Cancel
  <2> QED BY <2>1, <2>2, <2>3, <2>4 DEF Plain
<1>8. ASSUME NEW c \in Calls, NEW why \in Errors, Refused(c, why) PROVE Plain'
  <2>1. UNCHANGED <<attempt, content, performed, server, proc, lastId, reqId, lock, todo, out>>
    BY <1>8 DEF Refused, shared
  <2>2. pc' \in [Calls -> Steps]
    BY <1>8, FailFacts DEF Refused
  <2>3. result' \in [Calls -> Results]
    BY <1>8, FailFacts DEF Refused
  <2>4. told' \in [Calls -> Seq(Events)]
    BY <1>8, FailFacts, TellEntry DEF Refused
  <2> QED BY <2>1, <2>2, <2>3, <2>4 DEF Plain
<1>9. ASSUME NEW c \in Calls, NEW step \in {"hooks", "permit", "try"}, Passed(c, step) PROVE Plain'
  BY <1>9 DEF Passed, Plain, Steps, shared
<1>10. ASSUME NEW c \in Calls, RunSucceeds(c) PROVE Plain'
  <2>1. UNCHANGED <<attempt, content, server, proc, lastId, reqId, lock, todo, out>>
    BY <1>10 DEF RunSucceeds, shared
  <2>2. pc' \in [Calls -> Steps]
    BY <1>10, SucceedFacts DEF RunSucceeds
  <2>3. result' \in [Calls -> Results]
    BY <1>10, SucceedFacts DEF RunSucceeds
  <2>4. told' \in [Calls -> Seq(Events)]
    BY <1>10, SucceedFacts, TellEntry DEF RunSucceeds
  <2>5. performed' \in [Calls -> Nat]
    BY <1>10 DEF RunSucceeds, Plain
  <2> QED BY <2>1, <2>2, <2>3, <2>4, <2>5 DEF Plain
<1>11. ASSUME NEW c \in Calls, NEW why \in Errors, RunFails(c, why) PROVE Plain'
  <2>1. UNCHANGED <<attempt, content, server, proc, lastId, reqId, lock, todo, out>>
    BY <1>11 DEF RunFails, shared
  <2>2. pc' \in [Calls -> Steps]
    BY <1>11, FailFacts DEF RunFails
  <2>3. result' \in [Calls -> Results]
    BY <1>11, FailFacts DEF RunFails
  <2>4. told' \in [Calls -> Seq(Events)]
    BY <1>11, FailFacts, TellEntry DEF RunFails
  <2>5. performed' \in [Calls -> Nat]
    BY <1>11 DEF RunFails, Plain
  <2> QED BY <2>1, <2>2, <2>3, <2>4, <2>5 DEF Plain
<1>12. ASSUME NEW c \in Calls, NEW why \in Errors, RunAgain(c, why) PROVE Plain'
  <2>1. UNCHANGED <<attempt, result, content, server, proc, lastId, reqId, lock, todo, out>>
    BY <1>12 DEF RunAgain, shared
  <2>2. pc' \in [Calls -> Steps]
    BY <1>12 DEF RunAgain, Plain, Steps
  <2>3. told' \in [Calls -> Seq(Events)]
    <3>1. Event("failed", why, attempt[c]) \in Events
      BY RetriesAssumption DEF Events, Event, Results, Plain
    <3> QED BY <1>12, <3>1, TellEntry DEF RunAgain
  <2>4. performed' \in [Calls -> Nat]
    BY <1>12 DEF RunAgain, Plain
  <2> QED BY <2>1, <2>2, <2>3, <2>4 DEF Plain
<1>13. ASSUME NEW c \in Calls, Remote(c), Enter(c) PROVE Plain'
  <2>1. UNCHANGED <<attempt, told, result, content, performed, server, proc, todo, out>>
    BY <1>13 DEF Enter
  <2>2. pc' \in [Calls -> Steps]
    BY <1>13 DEF Enter, Plain, Steps
  <2>3. lastId' \in [Servers -> Nat \ {0, 1}]
    <3>1. Home[c] \in Servers
      BY <1>13, HomeAssumption DEF Remote
    <3> QED BY <1>13, <3>1 DEF Enter, Plain
  <2>4. reqId' \in [Calls -> Nat]
    <3>1. Home[c] \in Servers
      BY <1>13, HomeAssumption DEF Remote
    <3> QED BY <1>13, <3>1 DEF Enter, Plain
  <2>5. lock' \in [Servers -> Seq(Calls)]
    <3>1. Home[c] \in Servers
      BY <1>13, HomeAssumption DEF Remote
    <3>2. Append(lock[Home[c]], c) \in Seq(Calls)
      BY <3>1 DEF Plain
    <3> QED BY <1>13, <3>1, <3>2 DEF Enter, Plain
  <2> QED BY <2>1, <2>2, <2>3, <2>4, <2>5 DEF Plain
<1>14. ASSUME NEW c \in Calls, Remote(c), Sends(c) PROVE Plain'
  <2>1. UNCHANGED <<attempt, told, result, content, performed, server, proc, lastId, reqId,
                    lock, out>>
    BY <1>14 DEF Sends, shared
  <2>2. pc' \in [Calls -> Steps]
    BY <1>14 DEF Sends, Plain, Steps
  <2>3. todo' \in [Servers -> SUBSET Calls]
    <3>1. CASE todo' = todo
      BY <3>1 DEF Plain
    <3>2. CASE todo' = [todo EXCEPT ![Home[c]] = @ \cup {c}]
      BY <3>2 DEF Plain
    <3> QED BY <1>14, <3>1, <3>2 DEF Sends
  <2> QED BY <2>1, <2>2, <2>3 DEF Plain
<1>15. ASSUME NEW c \in Calls, Remote(c), Answered(c) PROVE Plain'
  <2>1. UNCHANGED <<attempt, performed, server, proc, lastId, reqId, todo>>
    BY <1>15 DEF Answered
  <2>2. pc' \in [Calls -> Steps]
    BY <1>15, SucceedFacts DEF Answered
  <2>3. result' \in [Calls -> Results]
    BY <1>15, SucceedFacts DEF Answered
  <2>4. told' \in [Calls -> Seq(Events)]
    BY <1>15, SucceedFacts, TellEntry DEF Answered
  <2>5. content' \in [Calls -> Calls \cup {Nothing}]
    <3>1. Home[c] \in Servers
      BY <1>15, HomeAssumption DEF Remote
    <3>2. out[Home[c]] \in Seq(Lines) /\ out[Home[c]] # <<>>
      BY <1>15, <3>1 DEF Answered, Plain
    <3>3. Head(out[Home[c]]) \in Lines
      BY <3>2
    <3>4. Head(out[Home[c]]).about \in Calls \cup {Nothing}
      BY <3>3 DEF Lines
    <3> QED BY <1>15, <3>4 DEF Answered, Plain
  <2>6. out' \in [Servers -> Seq(Lines)]
    <3>1. Home[c] \in Servers
      BY <1>15, HomeAssumption DEF Remote
    <3> QED BY <1>15, <3>1, TailEntry DEF Answered
  <2>7. lock' \in [Servers -> Seq(Calls)]
    BY <1>15, ReleaseFacts DEF Answered
  <2> QED BY <2>1, <2>2, <2>3, <2>4, <2>5, <2>6, <2>7 DEF Plain
<1>16. ASSUME NEW c \in Calls, Remote(c), Skipped(c) PROVE Plain'
  <2>1. UNCHANGED <<pc, attempt, told, result, content, performed, server, proc, lastId, reqId,
                    lock, todo>>
    BY <1>16 DEF Skipped, callVars, shared
  <2>2. out' \in [Servers -> Seq(Lines)]
    <3>1. Home[c] \in Servers
      BY <1>16, HomeAssumption DEF Remote
    <3> QED BY <1>16, <3>1, TailEntry DEF Skipped
  <2> QED BY <2>1, <2>2 DEF Plain
<1>17. ASSUME NEW c \in Calls, NEW why \in Errors, GivesUp(c, why) PROVE Plain'
  <2>1. UNCHANGED <<attempt, content, performed, server, proc, lastId, reqId, todo>>
    BY <1>17 DEF GivesUp
  <2>2. pc' \in [Calls -> Steps]
    BY <1>17, FailFacts DEF GivesUp
  <2>3. result' \in [Calls -> Results]
    BY <1>17, FailFacts DEF GivesUp
  <2>4. told' \in [Calls -> Seq(Events)]
    BY <1>17, FailFacts, TellEntry DEF GivesUp
  <2>5. lock' \in [Servers -> Seq(Calls)]
    BY <1>17, ReleaseFacts DEF GivesUp
  <2>6. out' \in [Servers -> Seq(Lines)]
    <3>1. CASE out' = out
      BY <3>1 DEF Plain
    <3>2. CASE Remote(c) /\ out[Home[c]] # <<>> /\ out' = [out EXCEPT ![Home[c]] = Tail(@)]
      <4>1. Home[c] \in Servers
        BY <3>2, HomeAssumption DEF Remote
      <4> QED BY <3>2, <4>1, TailEntry
    <3>3. (out' = out)
          \/ (Remote(c) /\ out[Home[c]] # <<>> /\ out' = [out EXCEPT ![Home[c]] = Tail(@)])
      BY <1>17 DEF GivesUp
    <3> QED BY <3>1, <3>2, <3>3
  <2> QED BY <2>1, <2>2, <2>3, <2>4, <2>5, <2>6 DEF Plain
<1> QED
  BY NextCases, <1>1, <1>2, <1>3, <1>4, <1>5, <1>6, <1>7, <1>8, <1>9, <1>10, <1>11, <1>12,
     <1>13, <1>14, <1>15, <1>16, <1>17
\* The calls that hold or wait for the lock stay the same.
LEMMA QueueStays ==
    ASSUME Plain, Queued, lock' = lock,
           \A b \in Calls : (pc'[b] \in {"queue", "read"}) <=> (pc[b] \in {"queue", "read"}),
           \A b \in Calls : pc'[b] = "read" => pc[b] = "read" \/ Head(lock[Home[b]]) = b
    PROVE  Queued'
<1> SUFFICES ASSUME NEW s \in Servers
             PROVE  /\ ToSet(lock[s]) = {b \in Calls : Home[b] = s /\ pc'[b] \in {"queue", "read"}}
                    /\ IsInjective(lock[s])
                    /\ \A b \in Calls : Home[b] = s /\ pc'[b] = "read" => Head(lock[s]) = b
  BY DEF Queued
<1>1. {b \in Calls : Home[b] = s /\ pc'[b] \in {"queue", "read"}}
      = {b \in Calls : Home[b] = s /\ pc[b] \in {"queue", "read"}}
  OBVIOUS
<1> QED
  BY <1>1 DEF Queued

\* A call leaves the lock to the others.
LEMMA QueueLeft ==
    ASSUME Plain, Queued, NEW c \in Calls, Release(c),
           pc'[c] \notin {"queue", "read"}, \A b \in Calls : b # c => pc'[b] = pc[b]
    PROVE  Queued'
<1> SUFFICES ASSUME NEW s \in Servers
             PROVE  /\ ToSet(lock'[s]) = {b \in Calls : Home[b] = s /\ pc'[b] \in {"queue", "read"}}
                    /\ IsInjective(lock'[s])
                    /\ \A b \in Calls : Home[b] = s /\ pc'[b] = "read" => Head(lock'[s]) = b
  <2>1. \A s \in Servers :
          /\ ToSet(lock'[s]) = {b \in Calls : Home[b] = s /\ pc'[b] \in {"queue", "read"}}
          /\ IsInjective(lock'[s])
          /\ \A b \in Calls : Home[b] = s /\ pc'[b] = "read" => Head(lock'[s]) = b
    OBVIOUS
  <2> QED BY <2>1 DEF ToSet, IsInjective, Queued
<1>1. /\ ToSet(lock'[s]) = ToSet(lock[s]) \ {c}
      /\ IsInjective(lock'[s])
      /\ Len(lock[s]) > 0 /\ Head(lock[s]) # c => Head(lock'[s]) = Head(lock[s])
  BY ReleaseFacts
<1>2. ToSet(lock[s]) = {b \in Calls : Home[b] = s /\ pc[b] \in {"queue", "read"}}
  BY DEF Queued
<1>3. ToSet(lock'[s]) = {b \in Calls : Home[b] = s /\ pc'[b] \in {"queue", "read"}}
  BY <1>1, <1>2
<1>4. ASSUME NEW b \in Calls, Home[b] = s, pc'[b] = "read" PROVE Head(lock'[s]) = b
  <2>1. b # c /\ pc[b] = "read"
    BY <1>4
  <2>2. Head(lock[s]) = b /\ b \in ToSet(lock[s])
    BY <1>2, <1>4, <2>1 DEF Queued
  <2>3. Len(lock[s]) > 0
    <3>1. lock[s] \in Seq(Calls)
      BY DEF Plain
    <3>2. \E i \in 1..Len(lock[s]) : lock[s][i] = b
      BY <2>2, <3>1 DEF ToSet
    <3> QED BY <3>1, <3>2
  <2> QED BY <1>1, <2>1, <2>2, <2>3
<1> QED
  BY <1>1, <1>3, <1>4
\* Every step keeps what a lock holds.
LEMMA QueuedInv ==
    ASSUME Plain, Attempts, Queued, [Next]_vars
    PROVE  Queued'
<1>1. ASSUME Managed PROVE Queued'
  <2>1. /\ lock' = lock
        /\ \A b \in Calls : (pc'[b] \in {"queue", "read"}) <=> (pc[b] \in {"queue", "read"})
        /\ \A b \in Calls : pc'[b] = "read" => pc[b] = "read" \/ Head(lock[Home[b]]) = b
    BY <1>1 DEF Managed, callVars, shared
  <2> QED BY <2>1, QueueStays
<1>2. ASSUME NEW s \in Servers, NEW line \in Lines, Unasked(s, line) PROVE Queued'
  <2>1. /\ lock' = lock
        /\ \A b \in Calls : (pc'[b] \in {"queue", "read"}) <=> (pc[b] \in {"queue", "read"})
        /\ \A b \in Calls : pc'[b] = "read" => pc[b] = "read" \/ Head(lock[Home[b]]) = b
    BY <1>2 DEF Unasked, callVars, shared
  <2> QED BY <2>1, QueueStays
<1>3. ASSUME NEW s \in Servers, NEW c \in Calls, NEW n \in {0, 1}, NEW kind,
             Performed(s, c, n, kind)
      PROVE  Queued'
  <2>1. /\ lock' = lock
        /\ \A b \in Calls : (pc'[b] \in {"queue", "read"}) <=> (pc[b] \in {"queue", "read"})
        /\ \A b \in Calls : pc'[b] = "read" => pc[b] = "read" \/ Head(lock[Home[b]]) = b
    BY <1>3 DEF Performed, shared
  <2> QED BY <2>1, QueueStays
<1>4. ASSUME NEW c \in Calls, Start(c) PROVE Queued'
  <2>1. /\ lock' = lock
        /\ \A b \in Calls : (pc'[b] \in {"queue", "read"}) <=> (pc[b] \in {"queue", "read"})
        /\ \A b \in Calls : pc'[b] = "read" => pc[b] = "read" \/ Head(lock[Home[b]]) = b
    BY <1>4 DEF Start, linkVars
  <2> QED BY <2>1, QueueStays
<1>5. ASSUME NEW c \in Calls, Retry(c) PROVE Queued'
  <2>1. /\ lock' = lock
        /\ \A b \in Calls : (pc'[b] \in {"queue", "read"}) <=> (pc[b] \in {"queue", "read"})
        /\ \A b \in Calls : pc'[b] = "read" => pc[b] = "read" \/ Head(lock[Home[b]]) = b
    BY <1>5 DEF Retry, linkVars
  <2> QED BY <2>1, QueueStays
<1>6. ASSUME NEW c \in Calls, Close(c) PROVE Queued'
  <2>1. /\ lock' = lock
        /\ \A b \in Calls : (pc'[b] \in {"queue", "read"}) <=> (pc[b] \in {"queue", "read"})
        /\ \A b \in Calls : pc'[b] = "read" => pc[b] = "read" \/ Head(lock[Home[b]]) = b
    BY <1>6 DEF Close, linkVars
  <2> QED BY <2>1, QueueStays
<1>7. ASSUME NEW c \in Calls, Cancel(c) PROVE Queued'
  <2>1. /\ Release(c) /\ pc'[c] \notin {"queue", "read"}
        /\ \A b \in Calls : b # c => pc'[b] = pc[b]
    BY <1>7 DEF Cancel, Plain
  <2> QED BY <2>1, QueueLeft
<1>8. ASSUME NEW c \in Calls, NEW why \in Errors, Refused(c, why) PROVE Queued'
  <2>1. /\ lock' = lock
        /\ \A b \in Calls : (pc'[b] \in {"queue", "read"}) <=> (pc[b] \in {"queue", "read"})
        /\ \A b \in Calls : pc'[b] = "read" => pc[b] = "read" \/ Head(lock[Home[b]]) = b
    BY <1>8, FailFacts DEF Refused, Before1, shared
  <2> QED BY <2>1, QueueStays
<1>9. ASSUME NEW c \in Calls, NEW step \in {"hooks", "permit", "try"}, Passed(c, step) PROVE Queued'
  <2>1. /\ lock' = lock
        /\ \A b \in Calls : (pc'[b] \in {"queue", "read"}) <=> (pc[b] \in {"queue", "read"})
        /\ \A b \in Calls : pc'[b] = "read" => pc[b] = "read" \/ Head(lock[Home[b]]) = b
    BY <1>9 DEF Passed, Before1, shared
  <2> QED BY <2>1, QueueStays
<1>10. ASSUME NEW c \in Calls, RunSucceeds(c) PROVE Queued'
  <2>1. /\ lock' = lock
        /\ \A b \in Calls : (pc'[b] \in {"queue", "read"}) <=> (pc[b] \in {"queue", "read"})
        /\ \A b \in Calls : pc'[b] = "read" => pc[b] = "read" \/ Head(lock[Home[b]]) = b
    BY <1>10, SucceedFacts DEF RunSucceeds, shared
  <2> QED BY <2>1, QueueStays
<1>11. ASSUME NEW c \in Calls, NEW why \in Errors, RunFails(c, why) PROVE Queued'
  <2>1. /\ lock' = lock
        /\ \A b \in Calls : (pc'[b] \in {"queue", "read"}) <=> (pc[b] \in {"queue", "read"})
        /\ \A b \in Calls : pc'[b] = "read" => pc[b] = "read" \/ Head(lock[Home[b]]) = b
    BY <1>11, FailFacts DEF RunFails, shared
  <2> QED BY <2>1, QueueStays
<1>12. ASSUME NEW c \in Calls, NEW why \in Errors, RunAgain(c, why) PROVE Queued'
  <2>1. /\ lock' = lock
        /\ \A b \in Calls : (pc'[b] \in {"queue", "read"}) <=> (pc[b] \in {"queue", "read"})
        /\ \A b \in Calls : pc'[b] = "read" => pc[b] = "read" \/ Head(lock[Home[b]]) = b
    BY <1>12 DEF RunAgain, shared
  <2> QED BY <2>1, QueueStays
<1>13. ASSUME NEW c \in Calls, Remote(c), Enter(c) PROVE Queued'
  <2> DEFINE h == Home[c]
  <2>1. h \in Servers /\ lock[h] \in Seq(Calls) /\ pc[c] = "try"
    BY <1>13, HomeAssumption DEF Remote, Plain, Enter
  <2>2. /\ pc' = [pc EXCEPT ![c] = "queue"]
        /\ lock' = [lock EXCEPT ![h] = Append(@, c)]
    BY <1>13 DEF Enter
  <2> HIDE DEF h
  <2>3. /\ ToSet(Append(lock[h], c)) = ToSet(lock[h]) \cup {c}
        /\ Len(lock[h]) > 0 => Head(Append(lock[h], c)) = Head(lock[h])
        /\ Append(lock[h], c) \in Seq(Calls)
        /\ Len(Append(lock[h], c)) = Len(lock[h]) + 1
        /\ Append(lock[h], c)[Len(lock[h]) + 1] = c
        /\ \A i \in 1..Len(lock[h]) : Append(lock[h], c)[i] = lock[h][i]
    BY <2>1, AppendEntry
  <2>4. c \notin ToSet(lock[h])
    BY <2>1 DEF Queued
  <2>5. IsInjective(Append(lock[h], c))
    <3> DEFINE new == Append(lock[h], c)
               n == Len(lock[h])
    <3>1. n \in Nat /\ \A i \in 1..n : lock[h][i] # c
      BY <2>1, <2>4 DEF ToSet
    <3>2. \A i \in 1..n, j \in 1..n : lock[h][i] = lock[h][j] => i = j
      BY <2>1 DEF IsInjective, Queued
    <3>3. DOMAIN new = 1..(n + 1)
      BY <2>3
    <3>4. new[n + 1] = c /\ \A i \in 1..n : new[i] = lock[h][i]
      BY <2>3
    <3> HIDE DEF new, n
    <3>5. \A i \in 1..(n + 1) : i \in 1..n \/ i = n + 1
      BY <3>1
    <3> QED BY <3>1, <3>2, <3>3, <3>4, <3>5 DEF IsInjective, new
  <2>6. ASSUME NEW s \in Servers
        PROVE  /\ ToSet(lock'[s]) = {b \in Calls : Home[b] = s /\ pc'[b] \in {"queue", "read"}}
               /\ IsInjective(lock'[s])
               /\ \A b \in Calls : Home[b] = s /\ pc'[b] = "read" => Head(lock'[s]) = b
    <3>1. CASE s # h
      <4>1. lock'[s] = lock[s]
        BY <2>2, <3>1
      <4>2. \A b \in Calls : Home[b] = s => pc'[b] = pc[b]
        BY <2>2, <3>1 DEF h
      <4>3. {b \in Calls : Home[b] = s /\ pc'[b] \in {"queue", "read"}}
            = {b \in Calls : Home[b] = s /\ pc[b] \in {"queue", "read"}}
        BY <4>2
      <4> QED BY <4>1, <4>2, <4>3 DEF Queued
    <3>2. CASE s = h
      <4>1. lock'[s] = Append(lock[h], c)
        BY <2>1, <2>2, <3>2 DEF Plain
      <4>2. pc'[c] = "queue" /\ \A b \in Calls : b # c => pc'[b] = pc[b]
        BY <2>2 DEF Plain
      <4>3. ToSet(lock[h]) = {b \in Calls : Home[b] = h /\ pc[b] \in {"queue", "read"}}
        BY <2>1 DEF Queued
      <4>4. {b \in Calls : Home[b] = h /\ pc'[b] \in {"queue", "read"}} = ToSet(lock[h]) \cup {c}
        BY <4>2, <4>3 DEF h
      <4>5. ASSUME NEW b \in Calls, Home[b] = h, pc'[b] = "read" PROVE Head(lock'[s]) = b
        <5>1. pc[b] = "read"
          BY <4>2, <4>5
        <5>2. Head(lock[h]) = b /\ b \in ToSet(lock[h])
          BY <2>1, <4>3, <4>5, <5>1 DEF Queued
        <5>3. Len(lock[h]) > 0
          <6>1. \E i \in 1..Len(lock[h]) : lock[h][i] = b
            BY <2>1, <5>2 DEF ToSet
          <6> QED BY <2>1, <6>1
        <5> QED BY <2>3, <4>1, <5>2, <5>3
      <4> QED BY <2>3, <2>5, <3>2, <4>1, <4>4, <4>5
    <3> QED BY <3>1, <3>2
  <2> QED BY <2>6 DEF ToSet, IsInjective, Queued
<1>14. ASSUME NEW c \in Calls, Remote(c), Sends(c) PROVE Queued'
  <2>1. /\ lock' = lock
        /\ \A b \in Calls : (pc'[b] \in {"queue", "read"}) <=> (pc[b] \in {"queue", "read"})
        /\ \A b \in Calls : pc'[b] = "read" => pc[b] = "read" \/ Head(lock[Home[b]]) = b
    BY <1>14 DEF Sends, shared
  <2> QED BY <2>1, QueueStays
<1>15. ASSUME NEW c \in Calls, Remote(c), Answered(c) PROVE Queued'
  <2>1. /\ Release(c) /\ pc'[c] \notin {"queue", "read"}
        /\ \A b \in Calls : b # c => pc'[b] = pc[b]
    BY <1>15, SucceedFacts DEF Answered
  <2> QED BY <2>1, QueueLeft
<1>16. ASSUME NEW c \in Calls, Remote(c), Skipped(c) PROVE Queued'
  <2>1. /\ lock' = lock
        /\ \A b \in Calls : (pc'[b] \in {"queue", "read"}) <=> (pc[b] \in {"queue", "read"})
        /\ \A b \in Calls : pc'[b] = "read" => pc[b] = "read" \/ Head(lock[Home[b]]) = b
    BY <1>16 DEF Skipped, callVars, shared
  <2> QED BY <2>1, QueueStays
<1>17. ASSUME NEW c \in Calls, NEW why \in Errors, GivesUp(c, why) PROVE Queued'
  <2>1. /\ Release(c) /\ pc'[c] \notin {"queue", "read"}
        /\ \A b \in Calls : b # c => pc'[b] = pc[b]
    BY <1>17, FailFacts DEF GivesUp
  <2> QED BY <2>1, QueueLeft
<1> QED
  BY NextCases, <1>1, <1>2, <1>3, <1>4, <1>5, <1>6, <1>7, <1>8, <1>9, <1>10, <1>11, <1>12,
     <1>13, <1>14, <1>15, <1>16, <1>17
\* A call that a step does not touch.
LEMMA ToldSame ==
    ASSUME NEW c \in Calls, Told(c), pc'[c] = pc[c], attempt'[c] = attempt[c],
           told'[c] = told[c], result'[c] = result[c]
    PROVE  Told(c)'
  BY DEF Told

\* The outcome of a call is told.
LEMMA ToldEnds ==
    ASSUME Plain, Attempts, NEW c \in Calls, Told(c), NEW e \in Events, Tell(c, e),
           pc[c] \in {"start", "hooks", "permit", "try", "queue", "read"},
           pc'[c] = "closing", attempt'[c] = attempt[c],
           e = IF result'[c] = "ok" THEN Event("finished", Nothing, 0)
               ELSE Event("failed", result'[c], attempt[c])
    PROVE  Told(c)'
<1> DEFINE n == Len(told[c])
<1>1. n \in Nat /\ n = attempt[c] /\ n > 0 /\ told[c][1] = Started
  BY RetriesAssumption DEF Told
<1>2. /\ Len(told'[c]) = n + 1 /\ told'[c][n + 1] = e
      /\ \A i \in 1..n : told'[c][i] = told[c][i]
  BY TellEntry
<1> HIDE DEF n
<1>3. told'[c][1] = Started
  BY <1>1, <1>2
<1>4. ASSUME NEW i \in 2..(n + 1), i <= attempt[c]
      PROVE  c \in Repeatable /\ told'[c][i].what = "failed" /\ told'[c][i].attempt = i - 1
  <2>1. i \in 2..n /\ i \in 1..n
    BY <1>1, <1>4
  <2>2. told'[c][i] = told[c][i]
    BY <1>2, <2>1
  <2> QED BY <1>4, <2>1, <2>2 DEF Told, n
<1> QED
  BY <1>1, <1>2, <1>3, <1>4 DEF Told

\* An attempt that failed is told, and is to be tried again.
LEMMA ToldAgain ==
    ASSUME Plain, Attempts, NEW c \in Calls, Told(c), NEW e \in Events, Tell(c, e),
           c \in Repeatable, pc[c] = "try", pc'[c] = "backoff", attempt'[c] = attempt[c],
           e.what = "failed", e.attempt = attempt[c]
    PROVE  Told(c)'
<1> DEFINE n == Len(told[c])
<1>1. n \in Nat /\ n = attempt[c] /\ n > 0 /\ told[c][1] = Started
  BY RetriesAssumption DEF Told
<1>2. /\ Len(told'[c]) = n + 1 /\ told'[c][n + 1] = e
      /\ \A i \in 1..n : told'[c][i] = told[c][i]
  BY TellEntry
<1> HIDE DEF n
<1>3. told'[c][1] = Started
  BY <1>1, <1>2
<1>4. ASSUME NEW i \in 2..(n + 1)
      PROVE  told'[c][i].what = "failed" /\ told'[c][i].attempt = i - 1
  <2>1. CASE i = n + 1
    BY <1>1, <1>2, <2>1
  <2>2. CASE i # n + 1
    <3>1. i \in 2..n /\ i \in 1..n /\ i <= attempt[c]
      BY <1>1, <2>2
    <3>2. told'[c][i] = told[c][i]
      BY <1>2, <3>1
    <3> QED BY <3>1, <3>2 DEF Told, n
  <2> QED BY <2>1, <2>2
<1> QED
  BY <1>1, <1>2, <1>3, <1>4 DEF Told
\* Every step goes on with the story.
LEMMA StoryInv ==
    ASSUME Plain, Attempts, Story, [Next]_vars
    PROVE  Story'
<1>1. ASSUME Managed PROVE Story'
  BY <1>1 DEF Managed, Story, Told, callVars
<1>2. ASSUME NEW s \in Servers, NEW line \in Lines, Unasked(s, line) PROVE Story'
  BY <1>2 DEF Unasked, Story, Told, callVars
<1>3. ASSUME NEW s \in Servers, NEW c \in Calls, NEW n \in {0, 1}, NEW kind,
             Performed(s, c, n, kind)
      PROVE  Story'
  BY <1>3 DEF Performed, Story, Told
<1>4. ASSUME NEW c \in Calls, Start(c) PROVE Story'
  <2>1. /\ pc[c] = "idle" /\ pc' = [pc EXCEPT ![c] = "start"] /\ Tell(c, Started)
        /\ UNCHANGED <<attempt, result>>
    BY <1>4 DEF Start, Started
  <2>2. Started \in Events
    BY DEF Started, Events, Event, Results
  <2>3. told[c] = <<>> /\ attempt[c] = 1
    BY <2>1 DEF Story, Told, Attempts, Before1
  <2>4. Len(told'[c]) = 1 /\ told'[c][1] = Started
    <3>1. Len(told'[c]) = Len(told[c]) + 1 /\ told'[c][Len(told[c]) + 1] = Started
      BY <2>1, <2>2, TellEntry
    <3>2. Len(told[c]) = 0
      BY <2>3
    <3> QED BY <3>1, <3>2
  <2>5. \A b \in Calls : b # c => pc'[b] = pc[b] /\ told'[b] = told[b]
    BY <2>1, <2>2, TellEntry
  <2>6. Told(c)'
    <3>1. pc'[c] = "start"
      BY <2>1 DEF Plain
    <3> QED BY <2>1, <2>3, <2>4, <3>1 DEF Told
  <2>7. ASSUME NEW b \in Calls, b # c PROVE Told(b)'
    BY <2>1, <2>5, <2>7, ToldSame DEF Story
  <2> QED BY <2>6, <2>7 DEF Story
<1>5. ASSUME NEW c \in Calls, Retry(c) PROVE Story'
  <2>1. /\ \A b \in Calls : b # c => pc'[b] = pc[b] /\ result'[b] = result[b]
        /\ \A b \in Calls : b # c => attempt'[b] = attempt[b] /\ told'[b] = told[b]
    BY <1>5 DEF Retry
  <2>2. Told(c)'
    <3>1. /\ pc[c] = "backoff" /\ pc'[c] = "try" /\ attempt'[c] = attempt[c] + 1
          /\ told'[c] = told[c]
      BY <1>5 DEF Retry, Plain
    <3>2. attempt[c] \in Nat
      BY RetriesAssumption DEF Plain
    <3> QED BY <3>1, <3>2 DEF Story, Told
  <2>3. ASSUME NEW b \in Calls, b # c PROVE Told(b)'
    BY <2>1, <2>3, ToldSame DEF Story
  <2> QED BY <2>2, <2>3 DEF Story
<1>6. ASSUME NEW c \in Calls, Close(c) PROVE Story'
  <2>1. /\ \A b \in Calls : b # c => pc'[b] = pc[b] /\ result'[b] = result[b]
        /\ \A b \in Calls : b # c => attempt'[b] = attempt[b] /\ told'[b] = told[b]
    BY <1>6 DEF Close
  <2>2. Told(c)'
    BY <1>6 DEF Close, Story, Told
  <2>3. ASSUME NEW b \in Calls, b # c PROVE Told(b)'
    BY <2>1, <2>3, ToldSame DEF Story
  <2> QED BY <2>2, <2>3 DEF Story
<1>7. ASSUME NEW c \in Calls, Cancel(c) PROVE Story'
  <2>1. /\ \A b \in Calls : b # c => pc'[b] = pc[b] /\ result'[b] = result[b]
        /\ \A b \in Calls : b # c => attempt'[b] = attempt[b] /\ told'[b] = told[b]
    BY <1>7 DEF Cancel
  <2>2. Told(c)'
    BY <1>7 DEF Cancel, Story, Told, Plain
  <2>3. ASSUME NEW b \in Calls, b # c PROVE Told(b)'
    BY <2>1, <2>3, ToldSame DEF Story
  <2> QED BY <2>2, <2>3 DEF Story
<1>8. ASSUME NEW c \in Calls, NEW why \in Errors, Refused(c, why) PROVE Story'
  <2>1. /\ Event("failed", why, attempt[c]) \in Events /\ Tell(c, Event("failed", why, attempt[c]))
        /\ pc'[c] = "closing" /\ result'[c] = why /\ why # "ok"
        /\ \A b \in Calls : b # c => pc'[b] = pc[b] /\ result'[b] = result[b]
    BY <1>8, FailFacts DEF Refused, Errors
  <2>2. attempt' = attempt /\ pc[c] \in {"start", "hooks", "permit", "try", "queue", "read"}
    BY <1>8 DEF Refused, Before1
  <2>3. \A b \in Calls : b # c => told'[b] = told[b]
    BY <2>1, TellEntry
  <2>4. Told(c)'
    BY <2>1, <2>2, ToldEnds DEF Story
  <2>5. ASSUME NEW b \in Calls, b # c PROVE Told(b)'
    BY <2>1, <2>2, <2>3, <2>5, ToldSame DEF Story
  <2> QED BY <2>4, <2>5 DEF Story
<1>9. ASSUME NEW c \in Calls, NEW step \in {"hooks", "permit", "try"}, Passed(c, step) PROVE Story'
  <2>1. /\ \A b \in Calls : b # c => pc'[b] = pc[b] /\ result'[b] = result[b]
        /\ \A b \in Calls : b # c => attempt'[b] = attempt[b] /\ told'[b] = told[b]
    BY <1>9 DEF Passed
  <2>2. Told(c)'
    BY <1>9 DEF Passed, Story, Told, Before1
  <2>3. ASSUME NEW b \in Calls, b # c PROVE Told(b)'
    BY <2>1, <2>3, ToldSame DEF Story
  <2> QED BY <2>2, <2>3 DEF Story
<1>10. ASSUME NEW c \in Calls, RunSucceeds(c) PROVE Story'
  <2>1. /\ Event("finished", Nothing, 0) \in Events /\ Tell(c, Event("finished", Nothing, 0))
        /\ pc'[c] = "closing" /\ result'[c] = "ok"
        /\ \A b \in Calls : b # c => pc'[b] = pc[b] /\ result'[b] = result[b]
    BY <1>10, SucceedFacts DEF RunSucceeds
  <2>2. attempt' = attempt /\ pc[c] \in {"start", "hooks", "permit", "try", "queue", "read"}
    BY <1>10 DEF RunSucceeds
  <2>3. \A b \in Calls : b # c => told'[b] = told[b]
    BY <2>1, TellEntry
  <2>4. Told(c)'
    BY <2>1, <2>2, ToldEnds DEF Story
  <2>5. ASSUME NEW b \in Calls, b # c PROVE Told(b)'
    BY <2>1, <2>2, <2>3, <2>5, ToldSame DEF Story
  <2> QED BY <2>4, <2>5 DEF Story
<1>11. ASSUME NEW c \in Calls, NEW why \in Errors, RunFails(c, why) PROVE Story'
  <2>1. /\ Event("failed", why, attempt[c]) \in Events /\ Tell(c, Event("failed", why, attempt[c]))
        /\ pc'[c] = "closing" /\ result'[c] = why /\ why # "ok"
        /\ \A b \in Calls : b # c => pc'[b] = pc[b] /\ result'[b] = result[b]
    BY <1>11, FailFacts DEF RunFails, Errors
  <2>2. attempt' = attempt /\ pc[c] \in {"start", "hooks", "permit", "try", "queue", "read"}
    BY <1>11 DEF RunFails
  <2>3. \A b \in Calls : b # c => told'[b] = told[b]
    BY <2>1, TellEntry
  <2>4. Told(c)'
    BY <2>1, <2>2, ToldEnds DEF Story
  <2>5. ASSUME NEW b \in Calls, b # c PROVE Told(b)'
    BY <2>1, <2>2, <2>3, <2>5, ToldSame DEF Story
  <2> QED BY <2>4, <2>5 DEF Story
<1>12. ASSUME NEW c \in Calls, NEW why \in Errors, RunAgain(c, why) PROVE Story'
  <2> DEFINE e == Event("failed", why, attempt[c])
  <2>1. /\ pc[c] = "try" /\ pc' = [pc EXCEPT ![c] = "backoff"] /\ Tell(c, e)
        /\ c \in Repeatable /\ UNCHANGED <<attempt, result>>
    BY <1>12 DEF RunAgain
  <2>2. e \in Events /\ e.what = "failed" /\ e.attempt = attempt[c]
    BY RetriesAssumption DEF Events, Event, Results, Plain
  <2> HIDE DEF e
  <2>3. \A b \in Calls : b # c => pc'[b] = pc[b] /\ told'[b] = told[b]
    BY <2>1, <2>2, TellEntry
  <2>4. pc'[c] = "backoff"
    BY <2>1 DEF Plain
  <2>5. Told(c)'
    BY <2>1, <2>2, <2>4, ToldAgain DEF Story
  <2>6. ASSUME NEW b \in Calls, b # c PROVE Told(b)'
    BY <2>1, <2>3, <2>6, ToldSame DEF Story
  <2> QED BY <2>5, <2>6 DEF Story
<1>13. ASSUME NEW c \in Calls, Remote(c), Enter(c) PROVE Story'
  <2>1. /\ \A b \in Calls : b # c => pc'[b] = pc[b] /\ result'[b] = result[b]
        /\ \A b \in Calls : b # c => attempt'[b] = attempt[b] /\ told'[b] = told[b]
    BY <1>13 DEF Enter
  <2>2. Told(c)'
    BY <1>13 DEF Enter, Story, Told
  <2>3. ASSUME NEW b \in Calls, b # c PROVE Told(b)'
    BY <2>1, <2>3, ToldSame DEF Story
  <2> QED BY <2>2, <2>3 DEF Story
<1>14. ASSUME NEW c \in Calls, Remote(c), Sends(c) PROVE Story'
  <2>1. /\ \A b \in Calls : b # c => pc'[b] = pc[b] /\ result'[b] = result[b]
        /\ \A b \in Calls : b # c => attempt'[b] = attempt[b] /\ told'[b] = told[b]
    BY <1>14 DEF Sends
  <2>2. Told(c)'
    BY <1>14 DEF Sends, Story, Told
  <2>3. ASSUME NEW b \in Calls, b # c PROVE Told(b)'
    BY <2>1, <2>3, ToldSame DEF Story
  <2> QED BY <2>2, <2>3 DEF Story
<1>15. ASSUME NEW c \in Calls, Remote(c), Answered(c) PROVE Story'
  <2>1. /\ Event("finished", Nothing, 0) \in Events /\ Tell(c, Event("finished", Nothing, 0))
        /\ pc'[c] = "closing" /\ result'[c] = "ok"
        /\ \A b \in Calls : b # c => pc'[b] = pc[b] /\ result'[b] = result[b]
    BY <1>15, SucceedFacts DEF Answered
  <2>2. attempt' = attempt /\ pc[c] \in {"start", "hooks", "permit", "try", "queue", "read"}
    BY <1>15 DEF Answered
  <2>3. \A b \in Calls : b # c => told'[b] = told[b]
    BY <2>1, TellEntry
  <2>4. Told(c)'
    BY <2>1, <2>2, ToldEnds DEF Story
  <2>5. ASSUME NEW b \in Calls, b # c PROVE Told(b)'
    BY <2>1, <2>2, <2>3, <2>5, ToldSame DEF Story
  <2> QED BY <2>4, <2>5 DEF Story
<1>16. ASSUME NEW c \in Calls, Remote(c), Skipped(c) PROVE Story'
  BY <1>16 DEF Skipped, Story, Told, callVars
<1>17. ASSUME NEW c \in Calls, NEW why \in Errors, GivesUp(c, why) PROVE Story'
  <2>1. /\ Event("failed", why, attempt[c]) \in Events /\ Tell(c, Event("failed", why, attempt[c]))
        /\ pc'[c] = "closing" /\ result'[c] = why /\ why # "ok"
        /\ \A b \in Calls : b # c => pc'[b] = pc[b] /\ result'[b] = result[b]
    BY <1>17, FailFacts DEF GivesUp, Errors
  <2>2. attempt' = attempt /\ pc[c] \in {"start", "hooks", "permit", "try", "queue", "read"}
    BY <1>17 DEF GivesUp
  <2>3. \A b \in Calls : b # c => told'[b] = told[b]
    BY <2>1, TellEntry
  <2>4. Told(c)'
    BY <2>1, <2>2, ToldEnds DEF Story
  <2>5. ASSUME NEW b \in Calls, b # c PROVE Told(b)'
    BY <2>1, <2>2, <2>3, <2>5, ToldSame DEF Story
  <2> QED BY <2>4, <2>5 DEF Story
<1> QED
  BY NextCases, <1>1, <1>2, <1>3, <1>4, <1>5, <1>6, <1>7, <1>8, <1>9, <1>10, <1>11, <1>12,
     <1>13, <1>14, <1>15, <1>16, <1>17
-----------------------------------------------------------------------------
(* The theorems                                                             *)

\* The invariant holds initially and is kept by every step, the calls and servers
\* being any (McpClient, McpServerManager, invoke_tool).
THEOREM InductiveInvariant == Spec => []IInv
<1>1. ASSUME IInv, [Next]_vars PROVE IInv'
  <2>1. Plain' /\ Attempts' /\ Ids' /\ Settled' /\ Queued' /\ Story'
    BY <1>1, PlainInv, AttemptsInv, IdsInv, SettledInv, QueuedInv, StoryInv DEF IInv
  <2>2. Onward /\ LinesAfter
    BY <1>1, OnwardStep, LinesStep DEF IInv
  <2>3. Pending'
    BY <1>1, <2>1, <2>2, PendingInv DEF IInv
  <2>4. Said'
    BY <1>1, <2>2, SaidInv DEF IInv
  <2> QED BY <2>1, <2>3, <2>4 DEF IInv
<1> QED
  BY <1>1, InitInv, PTL DEF Spec

\* The types, and a lock that is held and waited for by exactly the calls that are
\* in McpClient._call, the holder first (asyncio.Lock, wait_for).
THEOREM TypeCorrect == Spec => []TypeOK
<1>1. IInv => TypeOK
  <2> SUFFICES ASSUME IInv PROVE TypeOK
    OBVIOUS
  <2>1. \A c \in Calls : performed[c] \in 0..(MaxRetries + 1)
    <3> SUFFICES ASSUME NEW c \in Calls PROVE performed[c] \in 0..(MaxRetries + 1)
      OBVIOUS
    <3>1. performed[c] \in Nat /\ performed[c] <= attempt[c] /\ attempt[c] \in 1..(MaxRetries + 1)
      BY DEF IInv, Plain, Attempts
    <3> QED BY <3>1, RetriesAssumption
  <2>2. performed \in [Calls -> 0..(MaxRetries + 1)]
    BY <2>1 DEF IInv, Plain
  <2> QED BY <2>2 DEF TypeOK, IInv, Plain, Steps, Queued
<1> QED
  BY <1>1, InductiveInvariant, PTL

\* A server that does not number requests of its own: an MCP call that succeeds has
\* the answer to its own request, of work done once, whatever came late to others;
\* and no tool but an idempotent one is performed twice (McpClient._call, can_retry).
THEOREM OwnAnswer == ASSUME ~PeerAsks PROVE Spec => []AnswerMatches
<1>1. IInv => AnswerMatches
  <2> SUFFICES ASSUME IInv, NEW c \in Calls
               PROVE  /\ Remote(c) /\ result[c] = "ok" => content[c] = c /\ performed[c] = 1
                      /\ c \notin Repeatable => performed[c] <= 1
    BY DEF AnswerMatches
  <2>1. Remote(c) /\ result[c] = "ok" => content[c] = c /\ performed[c] = 1
    BY DEF IInv, Settled
  <2>2. c \notin Repeatable => performed[c] <= 1
    BY DEF IInv, Attempts
  <2> QED BY <2>1, <2>2
<1> QED
  BY <1>1, InductiveInvariant, PTL

\* The events of a call that is over and was not cancelled tell the failures that
\* were retried, in order, and then its result (invoke_tool, _fail).
THEOREM StoryTold == Spec => []OutcomeTold
<1>1. IInv => OutcomeTold
  <2> SUFFICES ASSUME IInv, NEW c \in Calls, pc[c] = "over", result[c] # "cancelled"
               PROVE  /\ Len(told[c]) > 1
                      /\ told[c][1] = Event("started", Nothing, 0)
                      /\ told[c][Len(told[c])] =
                           IF result[c] = "ok" THEN Event("finished", Nothing, 0)
                           ELSE Event("failed", result[c], Len(told[c]) - 1)
                      /\ \A i \in 2..(Len(told[c]) - 1) :
                           /\ c \in Repeatable
                           /\ told[c][i].what = "failed"
                           /\ told[c][i].attempt = i - 1
    BY DEF OutcomeTold
  <2>1. Told(c) /\ attempt[c] \in Nat /\ attempt[c] >= 1
    BY RetriesAssumption DEF IInv, Story, Plain
  <2>2. Len(told[c]) = attempt[c] + 1
    BY <2>1 DEF Told
  <2>3. Len(told[c]) - 1 = attempt[c] /\ Len(told[c]) > 1
    BY <2>1, <2>2
  <2>4. \A i \in 2..(Len(told[c]) - 1) : i \in 2..Len(told[c]) /\ i <= attempt[c]
    BY <2>1, <2>2
  <2> QED BY <2>1, <2>2, <2>3, <2>4 DEF Told, Started
<1> QED
  BY <1>1, InductiveInvariant, PTL
=============================================================================
