------------------------------ MODULE EventFeed ------------------------------
(***************************************************************************)
(* What one subscriber of the daemon's events is promised.  Tasks number   *)
(* the events they publish.  A subscriber may first get a replay; once it  *)
(* has joined it gets every event begun after that moment, each once, and  *)
(* those of one task in their order; only an event whose publication was   *)
(* abandoned may be left out.  Nothing is promised about events that are   *)
(* under way while it joins, nor about the order between tasks.            *)
(***************************************************************************)
EXTENDS Naturals, Sequences

CONSTANTS
    Tasks,    \* who publishes
    Wanted    \* the tasks inside the subscriber's scope

VARIABLES
    begun,    \* the number of events each task has begun to publish
    void,     \* events abandoned on the way
    stage,    \* "asked", "replaying", "live" or "failed"
    due,      \* the first number of each task that the subscriber has to get
    feed      \* what it has been sent

vars == <<begun, void, stage, due, feed>>

\* A replay shows events of the past, those of a task in order and once.
IsReplay(events) ==
    /\ \A i \in DOMAIN events : events[i][2] \in 1..begun[events[i][1]]
    /\ \A i, j \in DOMAIN events :
        i < j /\ events[i][1] = events[j][1] => events[i][2] < events[j][2]

Init ==
    /\ begun = [p \in Tasks |-> 0]
    /\ void = {}
    /\ stage = "asked"
    /\ due = [p \in Tasks |-> 0]
    /\ feed = <<>>

Publish(p) ==
    /\ begun' = [begun EXCEPT ![p] = @ + 1]
    /\ UNCHANGED <<void, stage, due>>

Abandon(p) ==
    /\ void' = void \cup {<<p, begun[p]>>}
    /\ UNCHANGED <<begun, stage, due, feed>>

\* A replay, a join or both; or the connection is lost meanwhile.
Subscribe ==
    /\ stage \in {"asked", "replaying"}
    /\ stage' \in {"replaying", "live", "failed"}
    /\ due' = IF stage' = "live" THEN [p \in Tasks |-> begun[p] + 1] ELSE due
    /\ feed' = feed \/ (stage = "asked" /\ feed = <<>> /\ IsReplay(feed'))
    /\ UNCHANGED <<begun, void>>

\* The event that is pushed is the next one of its task that was not abandoned.
NextInLine(p, n) ==
    /\ n >= due[p]
    /\ \A k \in due[p]..n - 1 : <<p, k>> \in void

Push(p, n) ==
    /\ stage = "live"
    /\ p \in Wanted
    /\ NextInLine(p, n)
    /\ feed' = Append(feed, <<p, n>>)
    /\ due' = [due EXCEPT ![p] = n + 1]
    /\ UNCHANGED <<stage, void>>

Next ==
    \/ \E p \in Tasks : Publish(p) /\ feed' = feed
    \/ \E p \in Tasks : Abandon(p)
    \/ Subscribe
    \/ \E p \in Tasks : Push(p, begun[p]) /\ UNCHANGED begun
    \/ \E p \in Tasks : Push(p, begun[p] + 1) /\ begun' = [begun EXCEPT ![p] = @ + 1]

Spec == Init /\ [][Next]_vars
=============================================================================
