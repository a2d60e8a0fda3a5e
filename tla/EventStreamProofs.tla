-------------------------- MODULE EventStreamProofs --------------------------
(***************************************************************************)
(* Theorems about EventStream, for any tasks, runs and subscribers, and    *)
(* about ModelCall with its Trace: the calls of the model whose tokens are *)
(* the events, and the records that every event and call leaves.           *)
(***************************************************************************)
EXTENDS EventStream, ModelCall, FiniteSetTheorems, SequenceTheorems, WellFoundedInduction, TLAPS

\* No entry occurs twice.
Distinct(s) == \A i, j \in DOMAIN s : s[i] = s[j] => i = j

\* Those that a publication has not reached: the first is the one it waits for.
Behind(list) == {list[i] : i \in 2..Len(list)}

\* Only a task that is running has an event under way.
Publishing == \A p \in busy : Running(p) /\ begun[p] >= 1

\* Who is being served is live and wants the event; who is found lost is gone.
Served ==
    \A p \in Tasks :
        /\ dead[p] \cap on = {}
        /\ Distinct(todo[p])
        /\ \A c \in ToSet(todo[p]) : stage[c] = "live" /\ Wants(c, p)

\* The broadcaster lists every client that is live and connected, once.
Listed ==
    /\ Distinct(subs)
    /\ \A c \in ToSet(subs) : stage[c] = "live"
    /\ \A c \in on : stage[c] = "live" => c \in ToSet(subs)

Fresh == \A c \in Clients : stage[c] = "asked" => got[c] = <<>>

\* Of the events of task p before number n that client c was due, none is left
\* but for abandoned ones.
UpTo(c, p, n) == due[c][p] <= n /\ \A k \in due[c][p]..(n - 1) : <<p, k>> \in void

\* A live client has had every event, or is in the list for the one under way.
InLine ==
    \A c \in on, p \in Tasks : stage[c] = "live" /\ Wants(c, p) =>
        UpTo(c, p, IF c \in Behind(todo[p]) THEN begun[p] ELSE begun[p] + 1)

\* Event e has been begun and is not under way.
Past(e) == e[2] <= begun[e[1]] /\ (e[1] \in busy => e[2] # begun[e[1]])

\* The events that the file of their run has not got and will not get.
Missed == void \cup failed \cup tardy

Voided == \A e \in Missed : Past(e)

\* Only a task that outlives its run comes too late.
LateLasting == \A e \in tardy : e[1] \in Lasting /\ RunOf[e[1]] \in closed

\* The rows of any file, and their order.
Rows ==
    \A r \in Runs :
        /\ \A i \in DOMAIN file[r] : Past(file[r][i])
        /\ \A i, j \in DOMAIN file[r] :
              i < j /\ file[r][i][1] = file[r][j][1] => file[r][i][2] < file[r][j][2]

\* What the file of the own run has.
Complete ==
    \A p \in Tasks, n \in 1..MaxEvents :
        <<p, n>> \in ToSet(file[RunOf[p]]) <=> <<p, n>> \notin Missed /\ Past(<<p, n>>)

IInv == TypeOK /\ Publishing /\ Served /\ Listed /\ Fresh /\ InLine /\ Voided
        /\ LateLasting /\ Rows /\ Complete

-----------------------------------------------------------------------------
\* Kept returns the entries that are in S, each as often as it was there.
LEMMA KeptEntries ==
    ASSUME NEW X, NEW list \in Seq(X), NEW S
    PROVE  /\ Kept(list, S) \in Seq(X)
           /\ ToSet(Kept(list, S)) = ToSet(list) \cap S
           /\ Distinct(list) => Distinct(Kept(list, S))
<1> DEFINE at == {i \in DOMAIN list : list[i] \in S}
           Before(i) == {j \in at : j < i}
           m == Cardinality(at)
           rank == [i \in at |-> Cardinality(Before(i)) + 1]
           Place(n) == CHOOSE i \in at : Cardinality(Before(i)) + 1 = n
<1>1. at \subseteq 1..Len(list) /\ Len(list) \in Nat /\ \A i \in at : list[i] \in X
  OBVIOUS
<1>2. IsFiniteSet(at) /\ m \in Nat
  <2>1. IsFiniteSet(1..Len(list)) /\ at \in SUBSET (1..Len(list))
    BY <1>1, FS_Interval
  <2> HIDE DEF at
  <2> QED BY <2>1, FS_Subset, FS_CardinalityType
<1>3. \A i \in at : IsFiniteSet(Before(i)) /\ Cardinality(Before(i)) \in Nat
  <2> SUFFICES ASSUME NEW i \in at
               PROVE  IsFiniteSet(Before(i)) /\ Cardinality(Before(i)) \in Nat
    OBVIOUS
  <2>1. Before(i) \in SUBSET at
    OBVIOUS
  <2> HIDE DEF Before
  <2> QED BY <1>2, <2>1, FS_Subset, FS_CardinalityType
<1>4. \A i \in at : rank[i] \in 1..m
  <2> SUFFICES ASSUME NEW i \in at PROVE rank[i] \in 1..m
    OBVIOUS
  <2>1. Before(i) \in SUBSET at /\ Before(i) # at
    BY <1>1
  <2>2. Cardinality(Before(i)) < m
    <3>1. Cardinality(Before(i)) \in Nat
      BY <1>3
    <3> HIDE DEF Before, at
    <3>2. Cardinality(Before(i)) <= m /\ Cardinality(Before(i)) # m
      BY <1>2, <2>1, FS_Subset
    <3> QED BY <1>2, <3>1, <3>2
  <2>3. Cardinality(Before(i)) \in Nat /\ rank[i] = Cardinality(Before(i)) + 1
    BY <1>3
  <2> HIDE DEF Before, rank, at
  <2> QED BY <1>2, <2>2, <2>3
<1>5. \A i, j \in at : i < j => rank[i] < rank[j]
  <2> SUFFICES ASSUME NEW i \in at, NEW j \in at, i < j PROVE rank[i] < rank[j]
    OBVIOUS
  <2>1. Before(i) \in SUBSET Before(j) /\ Before(i) # Before(j)
    BY <1>1
  <2>2. Cardinality(Before(i)) < Cardinality(Before(j))
    <3>1. Cardinality(Before(i)) \in Nat /\ Cardinality(Before(j)) \in Nat
      BY <1>3
    <3> HIDE DEF Before
    <3>2. /\ Cardinality(Before(i)) <= Cardinality(Before(j))
          /\ Cardinality(Before(i)) # Cardinality(Before(j))
      BY <1>3, <2>1, FS_Subset
    <3> QED BY <3>1, <3>2
  <2>3. /\ Cardinality(Before(i)) \in Nat /\ rank[i] = Cardinality(Before(i)) + 1
        /\ Cardinality(Before(j)) \in Nat /\ rank[j] = Cardinality(Before(j)) + 1
    BY <1>3
  <2> HIDE DEF Before, rank
  <2> QED BY <2>2, <2>3
<1>6. \A i, j \in at : rank[i] = rank[j] => i = j
  <2> SUFFICES ASSUME NEW i \in at, NEW j \in at, rank[i] = rank[j] PROVE i = j
    OBVIOUS
  <2>1. i \in Nat /\ j \in Nat /\ rank[i] \in Nat /\ rank[j] \in Nat
    <3>1. i \in Nat /\ j \in Nat
      BY <1>1
    <3> HIDE DEF rank, at
    <3> QED BY <1>2, <1>4, <3>1
  <2>2. ~(i < j) /\ ~(j < i)
    <3> HIDE DEF rank, at
    <3> QED BY <1>5, <2>1
  <2> QED BY <2>1, <2>2
<1>7. \A n \in 1..m : \E i \in at : rank[i] = n
  <2>1. rank \in [at -> 1..m]
    BY <1>4
  <2>2. rank \in Injection(at, 1..m)
    <3> HIDE DEF rank, at
    <3> QED BY <1>6, <2>1 DEF Injection, IsInjective
  <2>3. IsFiniteSet(1..m) /\ Cardinality(1..m) = m
    BY <1>2, FS_Interval
  <2>4. rank \in Surjection(at, 1..m)
    <3> HIDE DEF rank, at
    <3> QED BY <2>2, <2>3, FS_Injection
  <2> HIDE DEF rank, at
  <2> QED BY <2>4 DEF Surjection
<1>8. \A n \in 1..m : Place(n) \in at /\ rank[Place(n)] = n
  <2> SUFFICES ASSUME NEW n \in 1..m PROVE Place(n) \in at /\ rank[Place(n)] = n
    OBVIOUS
  <2>1. \E i \in at : Cardinality(Before(i)) + 1 = n
    BY <1>7
  <2>2. Place(n) \in at /\ Cardinality(Before(Place(n))) + 1 = n
    <3> HIDE DEF at, Before
    <3> QED BY <2>1
  <2> HIDE DEF Place
  <2> QED BY <2>2
<1>9. Kept(list, S) = [n \in 1..m |-> list[Place(n)]]
  BY DEF Kept
<1> HIDE DEF Place
<1>10. Kept(list, S) \in Seq(X)
  <2>1. \A n \in 1..m : list[Place(n)] \in X
    BY <1>1, <1>8
  <2> QED BY <1>2, <1>9, <2>1
<1>11. ToSet(Kept(list, S)) = ToSet(list) \cap S
  <2>1. ASSUME NEW x \in ToSet(list) \cap S
        PROVE  x \in ToSet(Kept(list, S))
    <3>1. PICK i \in at : list[i] = x
      BY DEF ToSet
    <3>2. rank[i] \in 1..m /\ Place(rank[i]) \in at /\ rank[Place(rank[i])] = rank[i]
      BY <1>4, <1>8
    <3>3. Place(rank[i]) = i
      <4> HIDE DEF rank, at
      <4> QED BY <1>6, <3>2
    <3> QED BY <1>9, <3>1, <3>2, <3>3, ZenonT(30) DEF ToSet
  <2>2. ASSUME NEW x \in ToSet(Kept(list, S))
        PROVE  x \in ToSet(list) \cap S
    <3>1. PICK n \in 1..m : x = list[Place(n)]
      BY <1>9 DEF ToSet
    <3> QED BY <1>8, <3>1 DEF ToSet
  <2> QED BY <2>1, <2>2
<1>12. ASSUME Distinct(list) PROVE Distinct(Kept(list, S))
  <2> SUFFICES ASSUME NEW a \in 1..m, NEW b \in 1..m, list[Place(a)] = list[Place(b)]
               PROVE  a = b
    BY <1>9 DEF Distinct
  <2>1. Place(a) = Place(b)
    BY <1>8, <1>12 DEF Distinct
  <2> QED BY <1>8, <2>1
<1> QED
  BY <1>10, <1>11, <1>12

\* A set of positions has a first one.
LEMMA FirstOf ==
    ASSUME NEW T \in SUBSET Nat, T # {}
    PROVE  \E i \in T : \A j \in T : i <= j
<1>1. PICK i \in T : \A j \in T : ~(<<j, i>> \in OpToRel(<, Nat))
  BY NatLessThanWellFounded, WFMin
<1>2. \A j \in T : j \in Nat /\ i \in Nat /\ ~(j < i)
  BY <1>1 DEF OpToRel
<1> QED
  BY <1>2

\* What one more row adds.
LEMMA AppendSet ==
    ASSUME NEW X, NEW s \in Seq(X), NEW e \in X
    PROVE  ToSet(Append(s, e)) = ToSet(s) \cup {e}
<1>1. Len(Append(s, e)) = Len(s) + 1 /\ Len(s) \in Nat
  BY AppendProperties
<1>2. /\ DOMAIN Append(s, e) = 1..(Len(s) + 1) /\ DOMAIN s = 1..Len(s)
      /\ \A i \in 1..Len(s) : Append(s, e)[i] = s[i]
      /\ Append(s, e)[Len(s) + 1] = e
  BY <1>1, AppendProperties
<1>3. \A i \in 1..(Len(s) + 1) : i \in 1..Len(s) \/ i = Len(s) + 1
  BY <1>1
<1> QED
  BY <1>1, <1>2, <1>3 DEF ToSet

\* Behind the first of a list is in the list.
LEMMA BehindIn ==
    ASSUME NEW X, NEW list \in Seq(X)
    PROVE  Behind(list) \subseteq ToSet(list)
<1>1. DOMAIN list = 1..Len(list) /\ Len(list) \in Nat
  OBVIOUS
<1>2. \A i \in 2..Len(list) : i \in 1..Len(list)
  BY <1>1
<1> QED
  BY <1>1, <1>2 DEF Behind, ToSet

\* How a publication divides the list it serves: it stops at a client that is
\* connected, and what it keeps for later are those behind that client.
LEMMA Division ==
    ASSUME NEW list \in Seq(Clients), Distinct(list)
    PROVE  LET k     == Reached(list)
               later == IF Stops(list) = {} THEN <<>> ELSE SubSeq(list, k, Len(list))
           IN  /\ k \in 0..Len(list)
               /\ later \in Seq(Clients)
               /\ later = <<>> <=> Stops(list) = {}
               /\ Distinct(later)
               /\ ToSet(later) \subseteq ToSet(list)
               /\ \A c \in ToSet(list) :
                     c \in Behind(later) <=> c \notin {list[i] : i \in 1..k}
<1> DEFINE k == Reached(list)
           later == IF Stops(list) = {} THEN <<>> ELSE SubSeq(list, k, Len(list))
<1> SUFFICES /\ k \in 0..Len(list)
             /\ later \in Seq(Clients)
             /\ later = <<>> <=> Stops(list) = {}
             /\ Distinct(later)
             /\ ToSet(later) \subseteq ToSet(list)
             /\ \A c \in ToSet(list) : c \in Behind(later) <=> c \notin {list[i] : i \in 1..k}
  OBVIOUS
<1>1. Len(list) \in Nat /\ DOMAIN list = 1..Len(list)
  OBVIOUS
<1>2. CASE Stops(list) = {}
  <2>1. k = Len(list) /\ later = <<>>
    BY <1>2 DEF Reached
  <2> HIDE DEF later, k
  <2>2. Behind(later) = {} /\ ToSet(later) = {} /\ Distinct(later)
    BY <2>1 DEF Behind, ToSet, Distinct
  <2>3. \A c \in ToSet(list) : c \in {list[i] : i \in 1..k}
    BY <1>1, <2>1 DEF ToSet
  <2> QED BY <1>1, <1>2, <2>1, <2>2, <2>3
<1>3. CASE Stops(list) # {}
  <2>1. Stops(list) \in SUBSET Nat
    BY <1>1 DEF Stops
  <2>2. \E i \in Stops(list) : \A j \in Stops(list) : i <= j
    BY <1>3, <2>1, FirstOf
  <2>3. k \in Stops(list)
    BY <1>3, <2>2 DEF Reached
  <2>4. k \in 1..Len(list)
    BY <1>1, <2>3 DEF Stops
  <2>5. later = SubSeq(list, k, Len(list))
    BY <1>3
  <2> HIDE DEF later, k
  <2>6. /\ later \in Seq(Clients)
        /\ Len(later) = Len(list) - k + 1
        /\ \A i \in 1..(Len(list) - k + 1) : later[i] = list[k + i - 1]
    BY <1>1, <2>4, <2>5, SubSeqProperties
  <2>7. DOMAIN later = 1..Len(later) /\ later # <<>>
    BY <1>1, <2>4, <2>6
  <2>8. Distinct(later)
    <3> SUFFICES ASSUME NEW i \in 1..Len(later), NEW j \in 1..Len(later), later[i] = later[j]
                 PROVE  i = j
      BY <2>7 DEF Distinct
    <3>1. /\ list[k + i - 1] = list[k + j - 1]
          /\ k + i - 1 \in 1..Len(list) /\ k + j - 1 \in 1..Len(list)
      BY <1>1, <2>4, <2>6
    <3>2. k + i - 1 = k + j - 1
      BY <1>1, <3>1 DEF Distinct
    <3> QED BY <1>1, <2>4, <2>6, <3>2
  <2>9. ToSet(later) \subseteq ToSet(list)
    <3>1. ASSUME NEW i \in 1..Len(later)
          PROVE  later[i] = list[k + i - 1] /\ k + i - 1 \in 1..Len(list)
      BY <1>1, <2>4, <2>6
    <3>2. DOMAIN list = 1..Len(list)
      BY <1>1
    <3> QED BY <2>7, <3>1, <3>2 DEF ToSet
  <2>10. ASSUME NEW i \in 1..Len(list)
         PROVE  list[i] \in Behind(later) <=> list[i] \notin {list[j] : j \in 1..k}
    <3>1. CASE i <= k
      <4>1. ASSUME NEW j \in 2..Len(later) PROVE later[j] # list[i]
        <5>1. later[j] = list[k + j - 1] /\ k + j - 1 \in 1..Len(list) /\ k + j - 1 # i
          BY <1>1, <2>4, <2>6, <3>1
        <5> QED BY <1>1, <5>1 DEF Distinct
      <4> QED BY <1>1, <2>4, <3>1, <4>1 DEF Behind
    <3>2. CASE i > k
      <4>1. i - k + 1 \in 2..Len(later) /\ later[i - k + 1] = list[i]
        BY <1>1, <2>4, <2>6, <3>2, SMTT(30)
      <4>2. \A j \in 1..k : list[j] # list[i]
        BY <1>1, <2>4, <3>2 DEF Distinct
      <4> QED BY <4>1, <4>2 DEF Behind
    <3> QED BY <1>1, <2>4, <3>1, <3>2
  <2>11. \A c \in ToSet(list) : c \in Behind(later) <=> c \notin {list[i] : i \in 1..k}
    BY <1>1, <2>10 DEF ToSet
  <2> QED BY <1>1, <1>3, <2>4, <2>6, <2>7, <2>8, <2>9, <2>11
<1> QED
  BY <1>2, <1>3

-----------------------------------------------------------------------------
\* Nothing is published and nobody is subscribed.
LEMMA InitInv == Init => IInv
<1> SUFFICES ASSUME Init PROVE IInv
  OBVIOUS
<1>1. TypeOK
  BY StreamAssumption DEF Init, TypeOK
<1>2. Publishing /\ Served /\ Listed /\ Fresh /\ InLine
  BY StreamAssumption DEF Init, Publishing, Served, Listed, Fresh, InLine, UpTo, Behind,
                         Distinct, ToSet
<1>3. Voided /\ LateLasting /\ Rows /\ Complete
  BY StreamAssumption DEF Init, Voided, Missed, LateLasting, Rows, Complete, Past, ToSet
<1> QED
  BY <1>1, <1>2, <1>3 DEF IInv

-----------------------------------------------------------------------------
\* Client c is not told, or gets event n of task p, the next in its line.
Told(c, p, n) ==
    \/ UNCHANGED <<got[c], due[c]>>
    \/ /\ stage[c] = "live" /\ Wants(c, p) /\ UpTo(c, p, n)
       /\ got'[c] = Append(got[c], <<p, n>>)
       /\ due'[c] = [due[c] EXCEPT ![p] = n + 1]

\* Publication n of task p serves list, its whole list or what was left of it.
LEMMA ServeInv ==
    ASSUME IInv, NEW p \in Tasks, NEW n \in 1..MaxEvents, NEW list \in Seq(Clients),
           Distinct(list),
           \A c \in ToSet(list) : stage[c] = "live" /\ Wants(c, p),
           Running(p),
           begun' = [begun EXCEPT ![p] = n],
           \/ n = begun[p] + 1 /\ p \notin busy
           \/ n = begun[p] /\ p \in busy,
           \A c \in on : stage[c] = "live" /\ Wants(c, p) =>
               UpTo(c, p, IF c \in ToSet(list) THEN n ELSE n + 1),
           Serve(p, n, list)
    PROVE  IInv' /\ \A c \in Clients : Told(c, p, n)
<1> DEFINE k == Reached(list)
           over == Stops(list) = {}
           served == {list[i] : i \in 1..k}
           hit == served \cap on
           left == dead[p] \cup (served \ on)
           later == IF over THEN <<>> ELSE SubSeq(list, k, Len(list))
<1>1. /\ k \in 0..Len(list)
      /\ later \in Seq(Clients)
      /\ later = <<>> <=> over
      /\ Distinct(later)
      /\ ToSet(later) \subseteq ToSet(list)
      /\ \A c \in ToSet(list) : c \in Behind(later) <=> c \notin served
  BY Division
<1>2. served \subseteq ToSet(list) /\ ToSet(list) \subseteq Clients
  <2> HIDE DEF k
  <2> QED BY <1>1 DEF ToSet
<1>3. Behind(later) \subseteq ToSet(list)
  <2> HIDE DEF later
  <2>1. Len(later) \in Nat /\ DOMAIN later = 1..Len(later)
    BY <1>1
  <2> QED BY <1>1, <2>1, SMTT(30) DEF Behind, ToSet
<1>4. /\ got' = [c \in Clients |-> IF c \in hit THEN Append(got[c], <<p, n>>) ELSE got[c]]
      /\ unread' = [c \in Clients |-> IF c \in hit THEN unread[c] + 1 ELSE unread[c]]
      /\ due' = [c \in Clients |-> IF c \in hit THEN [due[c] EXCEPT ![p] = n + 1] ELSE due[c]]
      /\ todo' = [todo EXCEPT ![p] = later]
      /\ busy' = IF over THEN busy \ {p} ELSE busy \cup {p}
      /\ dead' = [dead EXCEPT ![p] = IF over THEN {} ELSE left]
      /\ subs' = IF over THEN Kept(subs, Clients \ left) ELSE subs
      /\ IF over THEN Store(<<p, n>>) ELSE UNCHANGED <<file, failed, tardy>>
      /\ UNCHANGED <<opened, closed, on, stage, void>>
  BY DEF Serve
<1> HIDE DEF k, over, served, hit, left, later
<1>5. TypeOK
  BY DEF IInv
<1>22. /\ \A r \in Runs : (file'[r] = file[r] \/ (over /\ file'[r] = Append(file[r], <<p, n>>)))
       /\ file' = [r \in Runs |-> file'[r]]
       /\ failed' = failed \/ failed' = failed \cup {<<p, n>>}
       /\ tardy' = tardy \/ (tardy' = tardy \cup {<<p, n>>} /\ RunOf[p] \notin Open)
       /\ ~over => UNCHANGED <<file, failed, tardy>>
       /\ over => \/ file'[RunOf[p]] = Append(file[RunOf[p]], <<p, n>>)
                      /\ failed' = failed /\ tardy' = tardy
                  \/ file'[RunOf[p]] = file[RunOf[p]] /\ <<p, n>> \in failed' \cup tardy'
  <2>1. CASE ~over
    <3>1. UNCHANGED <<file, failed, tardy>>
      BY <1>4, <2>1
    <3>2. file = [r \in Runs |-> file[r]]
      BY <1>5 DEF TypeOK
    <3> QED BY <2>1, <3>1, <3>2
  <2>2. CASE over
    <3>1. PICK bad \in SUBSET Open :
            /\ file' = [r \in Runs |-> IF r \in Open \ bad THEN Append(file[r], <<p, n>>)
                                       ELSE file[r]]
            /\ failed' = IF RunOf[p] \in bad THEN failed \cup {<<p, n>>} ELSE failed
            /\ tardy' = IF RunOf[p] \in Open THEN tardy ELSE tardy \cup {<<p, n>>}
      BY <1>4, <2>2 DEF Store
    <3>2. RunOf[p] \in Runs
      BY StreamAssumption
    <3>3. \A r \in Runs : file'[r] = IF r \in Open \ bad THEN Append(file[r], <<p, n>>)
                                    ELSE file[r]
      BY <3>1
    <3>4. /\ \A r \in Runs : (file'[r] = file[r] \/ (over /\ file'[r] = Append(file[r], <<p, n>>)))
          /\ file' = [r \in Runs |-> file'[r]]
      <4>1. file' = [r \in Runs |-> file'[r]]
        BY <3>1, ZenonT(30)
      <4> QED BY <2>2, <3>3, <4>1
    <3>5. /\ failed' = failed \/ failed' = failed \cup {<<p, n>>}
          /\ tardy' = tardy \/ (tardy' = tardy \cup {<<p, n>>} /\ RunOf[p] \notin Open)
      BY <3>1
    <3>6. \/ file'[RunOf[p]] = Append(file[RunOf[p]], <<p, n>>)
             /\ failed' = failed /\ tardy' = tardy
          \/ file'[RunOf[p]] = file[RunOf[p]] /\ <<p, n>> \in failed' \cup tardy'
      BY <3>1, <3>2, <3>3
    <3> QED BY <2>2, <3>4, <3>5, <3>6
  <2> QED BY <2>1, <2>2
<1>6. /\ \A q \in Tasks : begun'[q] = IF q = p THEN n ELSE begun[q]
      /\ \A q \in Tasks \ {p} : q \in busy' <=> q \in busy
      /\ p \in busy' <=> ~over
  BY <1>4, <1>5 DEF TypeOK
<1>7. <<p, n>> \in Event /\ ~Past(<<p, n>>) /\ (Past(<<p, n>>)' <=> over)
  BY <1>5, <1>6 DEF TypeOK, Past, Event
<1>8. \A e \in Event : e # <<p, n>> => (Past(e)' <=> Past(e))
  <2> SUFFICES ASSUME NEW q \in Tasks, NEW m \in 1..MaxEvents, <<q, m>> # <<p, n>>
               PROVE  Past(<<q, m>>)' <=> Past(<<q, m>>)
    BY DEF Event
  <2>1. CASE q # p
    BY <1>6, <2>1 DEF Past
  <2>2. CASE q = p /\ m # n
    <3>1. begun[p] \in Nat /\ n \in Nat /\ m \in Nat
      BY <1>5 DEF TypeOK
    <3> QED BY <1>6, <2>2, <3>1 DEF Past
  <2> QED BY <2>1, <2>2
<1>9. \A e \in Event : e[1] = p /\ Past(e) => e[2] < n
  <2> SUFFICES ASSUME NEW m \in 1..MaxEvents, Past(<<p, m>>) PROVE m < n
    BY DEF Event
  <2>1. begun[p] \in Nat
    BY <1>5 DEF TypeOK
  <2> QED BY <2>1 DEF Past
<1>10. TypeOK'
  <2>1. /\ opened' \subseteq Runs /\ closed' \subseteq opened' /\ on' \subseteq Clients
        /\ stage' \in [Clients -> {"asked", "replaying", "live", "failed"}]
        /\ begun' \in [Tasks -> 0..MaxEvents]
        /\ busy' \subseteq Tasks
    BY <1>4, <1>5, <1>7 DEF TypeOK
  <2>9. void' \cup failed' \cup tardy' \subseteq Event
    <3>1. void' = void /\ void \cup failed \cup tardy \subseteq Event
      BY <1>4, <1>5 DEF TypeOK
    <3> QED BY <1>7, <1>22, <3>1
  <2>2. file' \in [Runs -> Seq(Event)]
    <3>1. \A r \in Runs : file'[r] \in Seq(Event)
      <4> SUFFICES ASSUME NEW r \in Runs PROVE file'[r] \in Seq(Event)
        OBVIOUS
      <4>1. file[r] \in Seq(Event)
        BY <1>5 DEF TypeOK
      <4>2. file'[r] = file[r] \/ file'[r] = Append(file[r], <<p, n>>)
        BY <1>22
      <4>3. \A q \in Seq(Event), e \in Event : Append(q, e) \in Seq(Event)
        OBVIOUS
      <4>4. <<p, n>> \in Event
        BY <1>7
      <4>5. Append(file[r], <<p, n>>) \in Seq(Event)
        BY <4>1, <4>3, <4>4, Zenon
      <4> QED BY <4>1, <4>2, <4>5, Zenon
    <3> QED BY <1>22, <3>1
  <2>3. todo' \in [Tasks -> Seq(Clients)] /\ \A q \in Tasks : q \in busy' <=> todo'[q] # <<>>
    BY <1>1, <1>4, <1>5, <1>6 DEF TypeOK
  <2>4. dead' \in [Tasks -> SUBSET Clients]
    BY <1>2, <1>4, <1>5 DEF TypeOK, left
  <2>5. subs' \in Seq(Clients)
    BY <1>4, <1>5, KeptEntries DEF TypeOK
  <2>6. got' \in [Clients -> Seq(Event)]
    BY <1>4, <1>5, <1>7 DEF TypeOK
  <2>7. unread' \in [Clients -> Nat]
    BY <1>4, <1>5 DEF TypeOK
  <2>8. due' \in [Clients -> [Tasks -> 0..MaxEvents + 1]]
    <3>1. n + 1 \in 0..MaxEvents + 1
      BY StreamAssumption
    <3> QED BY <1>4, <1>5, <3>1 DEF TypeOK
  <2> QED BY <2>1, <2>2, <2>3, <2>4, <2>5, <2>6, <2>7, <2>8, <2>9 DEF TypeOK
<1>11. Publishing'
  BY <1>4, <1>6 DEF IInv, Publishing, Running, TypeOK
<1>12. Served'
  <2>1. dead'[p] \cap on' = {}
    BY <1>4, <1>5 DEF IInv, Served, TypeOK, left
  <2>2. todo'[p] = later
    BY <1>4, <1>5 DEF TypeOK
  <2>3. \A q \in Tasks \ {p} : dead'[q] = dead[q] /\ todo'[q] = todo[q]
    BY <1>4, <1>5 DEF TypeOK
  <2>4. \A c, q : Wants(c, q)' <=> Wants(c, q)
    BY DEF Wants
  <2> SUFFICES ASSUME NEW q \in Tasks
               PROVE  /\ dead'[q] \cap on' = {}
                      /\ Distinct(todo'[q])
                      /\ \A c \in ToSet(todo'[q]) : stage'[c] = "live" /\ Wants(c, q)
    BY <2>4 DEF Served, Distinct, ToSet
  <2>5. CASE q = p
    BY <1>1, <1>4, <2>1, <2>2, <2>5
  <2>6. CASE q # p
    BY <1>4, <2>3, <2>6 DEF IInv, Served
  <2> QED BY <2>5, <2>6
<1>13. Listed'
  <2>1. subs \in Seq(Clients) /\ Distinct(subs) /\ left \cap on = {} /\ on \subseteq Clients
    BY <1>5 DEF TypeOK, IInv, Listed, Served, left
  <2>2. Distinct(Kept(subs, Clients \ left))
        /\ ToSet(Kept(subs, Clients \ left)) = ToSet(subs) \cap (Clients \ left)
    BY <2>1, KeptEntries
  <2>3. Distinct(subs')
    BY <1>4, <2>1, <2>2
  <2>4. \A c \in ToSet(subs') : c \in ToSet(subs)
    BY <1>4, <2>2
  <2>5. \A c \in on : c \in ToSet(subs) => c \in ToSet(subs')
    BY <1>4, <2>1, <2>2
  <2> QED BY <1>4, <2>3, <2>4, <2>5 DEF IInv, Listed, Distinct, ToSet
<1>14. \A c \in hit : c \in on /\ stage[c] = "live" /\ Wants(c, p) /\ UpTo(c, p, n)
  BY <1>2 DEF hit
<1>15. Fresh'
  BY <1>4, <1>14 DEF IInv, Fresh
<1>16. InLine'
  <2> SUFFICES ASSUME NEW c \in on, NEW q \in Tasks, stage[c] = "live", Wants(c, q)
               PROVE  UpTo(c, q, IF c \in Behind(todo[q]) THEN begun[q] ELSE begun[q] + 1)'
    BY <1>4 DEF InLine, Wants
  <2>1. c \in Clients /\ due[c] \in [Tasks -> 0..MaxEvents + 1]
    BY <1>5 DEF TypeOK
  <2>2. CASE q # p
    <3>1. due'[c][q] = due[c][q]
      BY <1>4, <2>1, <2>2
    <3>2. todo'[q] = todo[q] /\ begun'[q] = begun[q]
      BY <1>4, <1>5, <1>6, <2>2 DEF TypeOK
    <3>3. UpTo(c, q, IF c \in Behind(todo[q]) THEN begun[q] ELSE begun[q] + 1)
      BY DEF IInv, InLine
    <3>4. Behind(todo[q])' = Behind(todo[q])
      BY <3>2 DEF Behind
    <3> QED BY <1>4, <3>1, <3>2, <3>3, <3>4 DEF UpTo
  <2>3. CASE q = p
    <3>1. todo'[p] = later /\ begun'[p] = n
      BY <1>4, <1>5, <1>6 DEF TypeOK
    <3>2. Behind(todo[p])' = Behind(later)
      BY <3>1 DEF Behind
    <3>3. CASE c \in hit
      <4>1. due'[c][p] = n + 1
        BY <1>4, <2>1, <3>3
      <4>2. c \notin Behind(later)
        BY <1>1, <1>2, <3>3 DEF hit
      <4>3. (n + 1)..n = {} /\ n + 1 <= n + 1 /\ n + 1 - 1 = n
        OBVIOUS
      <4> QED BY <2>3, <3>1, <3>2, <4>1, <4>2, <4>3 DEF UpTo
    <3>4. CASE c \notin hit
      <4>1. due'[c] = due[c]
        BY <1>4, <2>1, <3>4
      <4>2. c \in Behind(later) <=> c \in ToSet(list)
        BY <1>1, <1>3, <3>4 DEF hit
      <4>3. UpTo(c, p, IF c \in ToSet(list) THEN n ELSE n + 1)
        BY <2>3
      <4> QED BY <1>4, <2>3, <3>1, <3>2, <4>1, <4>2, <4>3 DEF UpTo
    <3> QED BY <3>3, <3>4
  <2> QED BY <2>2, <2>3
<1>17. Voided'
  <2>1. <<p, n>> \notin Missed /\ Missed \subseteq Event
    BY <1>5, <1>7 DEF IInv, Voided, Missed, TypeOK
  <2>2. \A e \in Missed' : e \in Missed \/ (over /\ e = <<p, n>>)
    BY <1>4, <1>22 DEF Missed
  <2>3. \A e \in Missed : Past(e)'
    BY <1>8, <2>1 DEF IInv, Voided
  <2> QED BY <1>7, <2>2, <2>3 DEF Voided, Past
<1>23. LateLasting'
  <2>1. RunOf[p] \notin Open => p \in Lasting /\ RunOf[p] \in closed
    BY DEF Running, Open
  <2> QED BY <1>4, <1>22, <2>1 DEF IInv, LateLasting
<1>18. \A r \in Runs : /\ file[r] \in Seq(Event)
                       /\ \A i \in DOMAIN file[r] : Past(file[r][i]) /\ file[r][i] \in Event
  BY <1>5 DEF IInv, Rows, TypeOK
<1>19. Rows'
  <2> SUFFICES ASSUME NEW r \in Runs
               PROVE  /\ \A i \in DOMAIN file'[r] : Past(file[r][i])'
                      /\ \A i, j \in DOMAIN file'[r] :
                            i < j /\ file'[r][i][1] = file'[r][j][1] =>
                                file'[r][i][2] < file'[r][j][2]
    BY DEF Rows
  <2>1. \A i \in DOMAIN file[r] : file[r][i] # <<p, n>> /\ Past(file[r][i]) /\ file[r][i] \in Event
    BY <1>7, <1>18
  <2>2. CASE file'[r] = file[r]
    BY <1>8, <2>1, <2>2 DEF IInv, Rows, Past
  <2>3. CASE over /\ file'[r] = Append(file[r], <<p, n>>)
    <3>1. Len(file[r]) \in Nat /\ DOMAIN file[r] = 1..Len(file[r])
      BY <1>18
    <3>2. /\ DOMAIN file'[r] = 1..(Len(file[r]) + 1)
          /\ \A i \in 1..Len(file[r]) : file'[r][i] = file[r][i]
          /\ file'[r][Len(file[r]) + 1] = <<p, n>>
      BY <1>7, <1>18, <2>3, <3>1, AppendProperties
    <3>3. \A i \in DOMAIN file'[r] : i \in DOMAIN file[r] \/ i = Len(file[r]) + 1
      BY <3>1, <3>2
    <3>4. \A i \in DOMAIN file[r] : file[r][i][1] = p => file[r][i][2] < n
      BY <1>9, <2>1
    <3>5. \A i \in DOMAIN file'[r] : Past(file[r][i])'
      <4>1. \A i \in DOMAIN file[r] : Past(file[r][i])'
        BY <1>8, <2>1, <3>1, <3>2 DEF Past
      <4>2. ASSUME NEW i \in DOMAIN file'[r], i = Len(file[r]) + 1 PROVE Past(file[r][i])'
        BY <1>7, <2>3, <3>2, <4>2 DEF Past
      <4> QED BY <3>3, <4>1, <4>2
    <3>6. ASSUME NEW i \in DOMAIN file'[r], NEW j \in DOMAIN file'[r], i < j,
                 file'[r][i][1] = file'[r][j][1]
          PROVE  file'[r][i][2] < file'[r][j][2]
      <4>1. i \in DOMAIN file[r]
        BY <3>1, <3>2, <3>6
      <4>2. CASE j \in DOMAIN file[r]
        BY <3>1, <3>2, <3>6, <4>1, <4>2 DEF IInv, Rows
      <4>3. CASE j = Len(file[r]) + 1
        BY <3>1, <3>2, <3>4, <3>6, <4>1, <4>3
      <4> QED BY <3>3, <4>2, <4>3
    <3> QED BY <3>5, <3>6
  <2> QED BY <1>22, <2>2, <2>3
<1>20. Complete'
  <2> SUFFICES ASSUME NEW q \in Tasks, NEW m \in 1..MaxEvents
               PROVE  <<q, m>> \in ToSet(file'[RunOf[q]]) <=>
                          <<q, m>> \notin Missed' /\ Past(<<q, m>>)'
    BY DEF Complete, ToSet
  <2>1. RunOf[q] \in Runs /\ <<q, m>> \in Event
    BY StreamAssumption DEF Event
  <2>2. <<q, m>> \in ToSet(file[RunOf[q]]) <=> <<q, m>> \notin Missed /\ Past(<<q, m>>)
    BY DEF IInv, Complete
  <2>3. \/ file'[RunOf[q]] = file[RunOf[q]]
        \/ file'[RunOf[q]] = Append(file[RunOf[q]], <<p, n>>)
    BY <1>22, <2>1
  <2>4. CASE <<q, m>> # <<p, n>>
    <3>1. <<q, m>> \in ToSet(file'[RunOf[q]]) <=> <<q, m>> \in ToSet(file[RunOf[q]])
      <4>1. ToSet(Append(file[RunOf[q]], <<p, n>>)) = ToSet(file[RunOf[q]]) \cup {<<p, n>>}
        BY <1>7, <1>18, <2>1, AppendSet
      <4> QED BY <2>3, <2>4, <4>1
    <3>2. <<q, m>> \in Missed' <=> <<q, m>> \in Missed
      BY <1>4, <1>22, <2>4 DEF Missed
    <3> QED BY <1>8, <2>1, <2>2, <2>4, <3>1, <3>2
  <2>5. CASE <<q, m>> = <<p, n>>
    <3>1. <<p, n>> \notin Missed
      BY <1>7 DEF IInv, Voided
    <3>2. <<p, n>> \notin ToSet(file[RunOf[p]])
      BY <1>7, <2>2, <2>5
    <3>3. CASE ~over
      <4>1. file'[RunOf[p]] = file[RunOf[p]]
        BY <1>22, <3>3
      <4> QED BY <1>7, <2>5, <3>2, <3>3, <4>1
    <3>4. CASE over
      <4>1. CASE file'[RunOf[p]] = Append(file[RunOf[p]], <<p, n>>)
                 /\ failed' = failed /\ tardy' = tardy
        <5>1. <<p, n>> \in ToSet(file'[RunOf[p]])
          BY <1>7, <1>18, <2>1, <2>5, <4>1, AppendSet
        <5>2. <<p, n>> \notin Missed'
          BY <1>4, <3>1, <4>1 DEF Missed
        <5> QED BY <1>7, <2>5, <3>4, <5>1, <5>2
      <4>2. CASE file'[RunOf[p]] = file[RunOf[p]] /\ <<p, n>> \in failed' \cup tardy'
        <5>1. <<p, n>> \in Missed'
          BY <4>2 DEF Missed
        <5> QED BY <2>5, <3>2, <4>2, <5>1
      <4> QED BY <1>22, <3>4, <4>1, <4>2
    <3> QED BY <3>3, <3>4
  <2> QED BY <2>4, <2>5
<1>21. ASSUME NEW c \in Clients PROVE Told(c, p, n)
  BY <1>4, <1>14 DEF Told
<1> QED
  BY <1>10, <1>11, <1>12, <1>13, <1>15, <1>16, <1>17, <1>19, <1>20, <1>21, <1>23
     DEF IInv

\* A publication begins.
LEMMA PublishInv ==
    ASSUME IInv, NEW p \in Tasks, Publish(p)
    PROVE  IInv' /\ \A c \in Clients : Told(c, p, begun[p] + 1)
<1> DEFINE n == begun[p] + 1
           list == Kept(subs, {c \in Clients : Wants(c, p)})
<1>1. /\ TypeOK /\ Running(p) /\ p \notin busy /\ begun[p] < MaxEvents
      /\ begun' = [begun EXCEPT ![p] = n] /\ Serve(p, n, list)
  BY DEF Publish, IInv
<1>2. n \in 1..MaxEvents /\ begun[p] \in Nat
  BY <1>1, StreamAssumption DEF TypeOK
<1>3. subs \in Seq(Clients) /\ Distinct(subs)
  BY <1>1 DEF TypeOK, IInv, Listed
<1>4. /\ list \in Seq(Clients) /\ Distinct(list)
      /\ ToSet(list) = ToSet(subs) \cap {c \in Clients : Wants(c, p)}
  BY <1>3, KeptEntries
<1>5. todo[p] = <<>>
  BY <1>1 DEF TypeOK
<1>6. Behind(todo[p]) = {}
  BY <1>5 DEF Behind
<1> HIDE DEF n, list
<1>7. \A c \in ToSet(list) : stage[c] = "live" /\ Wants(c, p)
  BY <1>4 DEF IInv, Listed
<1>8. \A c \in on : stage[c] = "live" /\ Wants(c, p) =>
          UpTo(c, p, IF c \in ToSet(list) THEN n ELSE n + 1)
  <2> SUFFICES ASSUME NEW c \in on, stage[c] = "live", Wants(c, p)
               PROVE  UpTo(c, p, IF c \in ToSet(list) THEN n ELSE n + 1)
    OBVIOUS
  <2>1. c \in ToSet(list)
    BY <1>1, <1>4 DEF IInv, Listed, TypeOK
  <2>2. UpTo(c, p, n)
    BY <1>6 DEF IInv, InLine, n
  <2> QED BY <2>1, <2>2
<1>9. n = begun[p] + 1
  BY DEF n
<1>10. IInv' /\ \A c \in Clients : Told(c, p, n)
  BY <1>1, <1>2, <1>4, <1>7, <1>8, <1>9, ServeInv
<1> QED
  BY <1>9, <1>10

\* A publication goes on behind the client it waited for.
LEMMA ResumeInv ==
    ASSUME IInv, NEW p \in Tasks, Resume(p)
    PROVE  IInv' /\ \A c \in Clients : Told(c, p, begun[p])
<1> DEFINE n == begun[p]
           list == Tail(todo[p])
<1>1. /\ TypeOK /\ p \in busy /\ Serve(p, n, list) /\ begun' = begun
  BY DEF Resume, IInv
<1>2. Running(p) /\ n \in 1..MaxEvents
  BY <1>1, StreamAssumption DEF TypeOK, IInv, Publishing
<1>3. begun' = [begun EXCEPT ![p] = n]
  BY <1>1 DEF TypeOK
<1>4. todo[p] \in Seq(Clients) /\ todo[p] # <<>> /\ Distinct(todo[p])
  BY <1>1 DEF TypeOK, IInv, Served
<1>5. /\ list \in Seq(Clients) /\ Len(todo[p]) \in Nat \ {0}
      /\ Len(list) = Len(todo[p]) - 1
      /\ \A i \in 1..Len(list) : list[i] = todo[p][i + 1]
  BY <1>4
<1>6. DOMAIN list = 1..Len(list) /\ DOMAIN todo[p] = 1..Len(todo[p])
  BY <1>4, <1>5
<1> HIDE DEF n, list
<1>7. Distinct(list)
  <2> SUFFICES ASSUME NEW i \in 1..Len(list), NEW j \in 1..Len(list), list[i] = list[j]
               PROVE  i = j
    BY <1>6 DEF Distinct
  <2>1. i + 1 \in 1..Len(todo[p]) /\ j + 1 \in 1..Len(todo[p]) /\ todo[p][i + 1] = todo[p][j + 1]
    BY <1>5, SMTT(30)
  <2>2. i + 1 = j + 1
    BY <1>4, <1>6, <2>1 DEF Distinct
  <2> QED BY <1>5, <2>2
<1>8. ToSet(list) = Behind(todo[p]) /\ Behind(todo[p]) \subseteq ToSet(todo[p])
  <2>1. ASSUME NEW i \in 2..Len(todo[p]) PROVE todo[p][i] \in ToSet(list)
    <3>1. i - 1 \in 1..Len(list) /\ list[i - 1] = todo[p][i]
      BY <1>5
    <3> QED BY <1>6, <3>1 DEF ToSet
  <2>2. ASSUME NEW i \in 1..Len(list) PROVE list[i] \in Behind(todo[p])
    <3>1. i + 1 \in 2..Len(todo[p]) /\ list[i] = todo[p][i + 1]
      BY <1>5
    <3> QED BY <3>1 DEF Behind
  <2>3. ToSet(list) = Behind(todo[p])
    BY <1>6, <2>1, <2>2 DEF ToSet, Behind
  <2> QED BY <1>4, <2>3, BehindIn
<1>9. \A c \in ToSet(list) : stage[c] = "live" /\ Wants(c, p)
  BY <1>8 DEF IInv, Served
<1>10. \A c \in on : stage[c] = "live" /\ Wants(c, p) =>
           UpTo(c, p, IF c \in ToSet(list) THEN n ELSE n + 1)
  BY <1>8 DEF IInv, InLine, n
<1>11. n = begun[p]
  BY DEF n
<1>12. IInv' /\ \A c \in Clients : Told(c, p, n)
  BY <1>1, <1>2, <1>3, <1>5, <1>7, <1>9, <1>10, <1>11, ServeInv
<1> QED
  BY <1>11, <1>12

\* The task is cancelled while its event is under way.
LEMMA CutInv ==
    ASSUME IInv, NEW p \in Tasks, Cut(p)
    PROVE  IInv'
<1>1. /\ TypeOK /\ p \in busy
      /\ busy' = busy \ {p} /\ void' = void \cup {<<p, begun[p]>>}
      /\ todo' = [todo EXCEPT ![p] = <<>>] /\ dead' = [dead EXCEPT ![p] = {}]
      /\ UNCHANGED <<opened, closed, file, begun, failed, tardy, on, stage, subs, got, unread,
                     due>>
  BY DEF IInv, Cut, busVars, netVars
<1>2. begun[p] \in 1..MaxEvents /\ <<p, begun[p]>> \in Event
  BY <1>1, StreamAssumption DEF TypeOK, IInv, Publishing, Event
<1>3. TypeOK'
  <2>1. \A q \in Tasks : q \in busy' <=> todo'[q] # <<>>
    BY <1>1 DEF TypeOK
  <2>2. todo' \in [Tasks -> Seq(Clients)] /\ dead' \in [Tasks -> SUBSET Clients]
    BY <1>1 DEF TypeOK
  <2>3. busy' \subseteq Tasks /\ void' \cup failed' \cup tardy' \subseteq Event
    BY <1>1, <1>2 DEF TypeOK
  <2> QED BY <1>1, <2>1, <2>2, <2>3 DEF TypeOK
<1>4. \A e \in Event : e # <<p, begun[p]>> => (Past(e)' <=> Past(e))
  <2> SUFFICES ASSUME NEW q \in Tasks, NEW m \in 1..MaxEvents, <<q, m>> # <<p, begun[p]>>
               PROVE  Past(<<q, m>>)' <=> Past(<<q, m>>)
    BY DEF Event
  <2> QED BY <1>1 DEF Past
<1>5. Past(<<p, begun[p]>>)' /\ ~Past(<<p, begun[p]>>)
  BY <1>1, <1>2 DEF Past
<1>6. Publishing' /\ Fresh'
  BY <1>1 DEF IInv, Publishing, Running, Fresh
<1>7. /\ todo'[p] = <<>> /\ dead'[p] = {}
      /\ \A q \in Tasks \ {p} : todo'[q] = todo[q] /\ dead'[q] = dead[q]
  BY <1>1 DEF TypeOK
<1>8. Served'
  <2>1. Distinct(<<>>) /\ ToSet(<<>>) = {}
    BY DEF Distinct, ToSet
  <2> SUFFICES ASSUME NEW q \in Tasks
               PROVE  /\ dead'[q] \cap on = {}
                      /\ Distinct(todo'[q])
                      /\ \A c \in ToSet(todo'[q]) : stage[c] = "live" /\ Wants(c, q)
    BY <1>1 DEF Served, Distinct, ToSet, Wants
  <2> QED BY <1>7, <2>1 DEF IInv, Served
<1>9. Listed'
  BY <1>1 DEF IInv, Listed, Distinct, ToSet
<1>10. InLine'
  <2> SUFFICES ASSUME NEW c \in on, NEW q \in Tasks, stage[c] = "live", Wants(c, q)
               PROVE  UpTo(c, q, IF c \in Behind(todo[q]) THEN begun[q] ELSE begun[q] + 1)'
    BY <1>1 DEF InLine, Wants
  <2>1. UpTo(c, q, IF c \in Behind(todo[q]) THEN begun[q] ELSE begun[q] + 1)
    BY DEF IInv, InLine
  <2>2. CASE q # p
    <3>1. Behind(todo[q])' = Behind(todo[q])
      BY <1>7, <2>2 DEF Behind
    <3> QED BY <1>1, <2>1, <3>1 DEF UpTo
  <2>3. CASE q = p
    <3>1. Behind(todo[p])' = {}
      BY <1>7 DEF Behind
    <3>2. due[c][p] \in Nat /\ begun[p] \in Nat
      BY <1>1, <1>2 DEF TypeOK
    <3>3. \A k \in due[c][p]..begun[p] : k \in due[c][p]..(begun[p] - 1) \/ k = begun[p]
      BY <3>2
    <3> QED BY <1>1, <2>1, <2>3, <3>1, <3>2, <3>3 DEF UpTo
  <2> QED BY <2>2, <2>3
<1>11. Voided' /\ LateLasting'
  <2>1. Missed' = Missed \cup {<<p, begun[p]>>} /\ Missed \subseteq Event
    BY <1>1 DEF Missed, TypeOK
  <2> QED BY <1>1, <1>4, <1>5, <2>1 DEF IInv, Voided, LateLasting
<1>12. Rows'
  <2>1. \A r \in Runs : \A i \in DOMAIN file[r] : file[r][i] \in Event
    BY <1>1 DEF TypeOK
  <2> QED BY <1>1, <1>4, <1>5, <2>1 DEF IInv, Rows, Past
<1>13. Complete'
  <2>1. \A q \in Tasks, m \in 1..MaxEvents : <<q, m>> \in Event
    BY DEF Event
  <2> SUFFICES ASSUME NEW q \in Tasks, NEW m \in 1..MaxEvents
               PROVE  <<q, m>> \in ToSet(file[RunOf[q]]) <=>
                          <<q, m>> \notin Missed' /\ Past(<<q, m>>)'
    BY <1>1, ZenonT(30) DEF Complete, ToSet
  <2>2. Missed' = Missed \cup {<<p, begun[p]>>}
    BY <1>1 DEF Missed
  <2> QED BY <1>4, <1>5, <2>1, <2>2 DEF IInv, Complete
<1> QED
  BY <1>3, <1>6, <1>8, <1>9, <1>10, <1>11, <1>12, <1>13 DEF IInv

\* Steps that neither publish nor abandon.
LEMMA RowsKept ==
    ASSUME IInv, closed \subseteq closed', UNCHANGED <<file, begun, busy, void, failed, tardy>>
    PROVE  Voided' /\ LateLasting' /\ Rows' /\ Complete'
<1>1. \A q \in Tasks : ToSet(file[RunOf[q]])' = ToSet(file[RunOf[q]])
  BY DEF ToSet
<1>2. \A q, n : Past(<<q, n>>)' <=> Past(<<q, n>>)
  BY DEF Past
<1>5. Missed' = Missed
  BY DEF Missed
<1>3. Complete'
  BY <1>1, <1>2, <1>5 DEF IInv, Complete
<1>4. Voided' /\ LateLasting' /\ Rows'
  BY <1>5 DEF IInv, Voided, LateLasting, Rows, Past
<1> QED
  BY <1>3, <1>4

\* A run's file is opened or closed; nothing is under way for a run that ends.
LEMMA RunInv ==
    ASSUME IInv, NEW r \in Runs, StartRun(r) \/ EndRun(r)
    PROVE  IInv'
<1>1. UNCHANGED <<file, begun, todo, dead, busy, void, failed, tardy, on, stage, subs,
                  got, unread, due>>
  BY DEF StartRun, EndRun, pubVars, netVars
<1>2. TypeOK'
  BY <1>1 DEF IInv, TypeOK, StartRun, EndRun, Open
<1>3. Publishing'
  BY <1>1 DEF IInv, TypeOK, Publishing, Running, StartRun, EndRun, Open
<1>4. Served' /\ Listed' /\ Fresh'
  BY <1>1 DEF IInv, Served, Listed, Distinct, ToSet, Wants, Fresh
<1>5. InLine'
  BY <1>1 DEF IInv, InLine, UpTo, Behind, Wants
<1>6. Voided' /\ LateLasting' /\ Rows' /\ Complete'
  <2>1. closed \subseteq closed'
    BY DEF StartRun, EndRun
  <2> QED BY <1>1, <2>1, RowsKept
<1> QED
  BY <1>2, <1>3, <1>4, <1>5, <1>6 DEF IInv

\* A subscription is registered: nothing that went before is due.
LEMMA JoinInv ==
    ASSUME IInv, NEW c \in Clients, stage[c] # "live", Join(c),
           UNCHANGED <<opened, closed, file, begun, todo, dead, busy, void, failed, tardy, on>>,
           got' \in [Clients -> Seq(Event)], unread' \in [Clients -> Nat],
           \A d \in Clients \ {c} : got'[d] = got[d]
    PROVE  IInv'
<1>1. /\ TypeOK /\ stage' = [stage EXCEPT ![c] = "live"] /\ subs' = Append(subs, c)
      /\ due' = [due EXCEPT ![c] = [p \in Tasks |-> begun[p] + 1]]
  BY DEF IInv, Join
<1>2. TypeOK'
  <2>1. [p \in Tasks |-> begun[p] + 1] \in [Tasks -> 0..MaxEvents + 1]
    BY <1>1, StreamAssumption DEF TypeOK
  <2> QED BY <1>1, <2>1 DEF TypeOK
<1>3. Publishing' /\ Voided' /\ LateLasting' /\ Rows' /\ Complete'
  <2>1. Publishing'
    BY DEF IInv, Publishing, Running
  <2> QED BY <2>1, RowsKept
<1>4. \A d \in Clients : stage'[d] = IF d = c THEN "live" ELSE stage[d]
  BY <1>1 DEF TypeOK
<1>5. Served'
  <2> SUFFICES ASSUME NEW p \in Tasks
               PROVE  /\ dead[p] \cap on = {}
                      /\ Distinct(todo[p])
                      /\ \A d \in ToSet(todo[p]) : stage'[d] = "live" /\ Wants(d, p)
    BY DEF Served, Distinct, ToSet, Wants
  <2>1. todo[p] \in Seq(Clients)
    BY <1>1 DEF TypeOK
  <2>2. ToSet(todo[p]) \subseteq Clients
    BY <2>1 DEF ToSet
  <2> QED BY <1>4, <2>2 DEF IInv, Served
<1>6. Listed'
  <2>1. subs \in Seq(Clients) /\ Distinct(subs) /\ ToSet(subs) \subseteq Clients
    BY <1>1 DEF TypeOK, IInv, Listed, ToSet
  <2>2. c \notin ToSet(subs)
    BY DEF IInv, Listed
  <2>3. ToSet(subs)' = ToSet(subs) \cup {c}
    <3>1. ToSet(subs)' = ToSet(Append(subs, c))
      BY <1>1 DEF ToSet
    <3> QED BY <2>1, <3>1, AppendSet
  <2>4. Distinct(subs)'
    <3>1. /\ Len(subs) \in Nat /\ DOMAIN subs = 1..Len(subs)
          /\ DOMAIN subs' = 1..(Len(subs) + 1)
          /\ \A i \in 1..Len(subs) : subs'[i] = subs[i]
          /\ subs'[Len(subs) + 1] = c
      BY <1>1, <2>1, AppendProperties
    <3>2. \A i \in 1..Len(subs) : subs[i] # c
      BY <2>2, <3>1 DEF ToSet
    <3>3. \A i \in 1..(Len(subs) + 1) : i \in 1..Len(subs) \/ i = Len(subs) + 1
      BY <3>1
    <3> QED BY <2>1, <3>1, <3>2, <3>3, ZenonT(30) DEF Distinct
  <2>5. on \subseteq Clients
    BY <1>1 DEF TypeOK
  <2> QED BY <1>4, <2>1, <2>3, <2>4, <2>5 DEF IInv, Listed
<1>7. Fresh'
  BY <1>4 DEF IInv, Fresh
<1>8. InLine'
  <2> SUFFICES ASSUME NEW d \in on, NEW p \in Tasks, stage'[d] = "live", Wants(d, p)
               PROVE  UpTo(d, p, IF d \in Behind(todo[p]) THEN begun[p] ELSE begun[p] + 1)'
    BY DEF InLine, Wants
  <2>1. d \in Clients /\ begun[p] \in Nat
    BY <1>1 DEF TypeOK
  <2>2. Behind(todo[p])' = Behind(todo[p])
    BY DEF Behind
  <2>3. CASE d = c
    <3>1. c \notin Behind(todo[p])
      <4>1. Behind(todo[p]) \subseteq ToSet(todo[p])
        BY <1>1, BehindIn DEF TypeOK
      <4> QED BY <4>1 DEF IInv, Served
    <3>2. due'[c][p] = begun[p] + 1
      BY <1>1 DEF TypeOK
    <3>3. (begun[p] + 1)..(begun[p] + 1 - 1) = {}
      BY <2>1
    <3> QED BY <2>1, <2>2, <2>3, <3>1, <3>2, <3>3 DEF UpTo
  <2>4. CASE d # c
    <3>1. due'[d] = due[d] /\ stage[d] = "live"
      BY <1>1, <1>4, <2>1, <2>4 DEF TypeOK
    <3>2. UpTo(d, p, IF d \in Behind(todo[p]) THEN begun[p] ELSE begun[p] + 1)
      BY <3>1 DEF IInv, InLine
    <3> QED BY <2>2, <3>1, <3>2 DEF UpTo
  <2> QED BY <2>3, <2>4
<1> QED
  BY <1>2, <1>3, <1>5, <1>6, <1>7, <1>8 DEF IInv

\* A subscription that is not live yet fails or has to wait.
LEMMA StageInv ==
    ASSUME IInv, NEW c \in Clients, stage[c] # "live", NEW s \in {"failed", "replaying"},
           stage' = [stage EXCEPT ![c] = s],
           UNCHANGED <<opened, closed, file, begun, todo, dead, busy, void, failed, tardy, on,
                       subs, due>>,
           got' \in [Clients -> Seq(Event)], unread' \in [Clients -> Nat],
           \A d \in Clients \ {c} : got'[d] = got[d]
    PROVE  IInv'
<1>1. TypeOK /\ \A d \in Clients : stage'[d] = IF d = c THEN s ELSE stage[d]
  BY DEF IInv, TypeOK
<1>2. TypeOK'
  BY <1>1 DEF TypeOK
<1>3. Publishing'
  BY DEF IInv, Publishing, Running
<1>4. Served'
  <2> SUFFICES ASSUME NEW p \in Tasks
               PROVE  /\ dead[p] \cap on = {}
                      /\ Distinct(todo[p])
                      /\ \A d \in ToSet(todo[p]) : stage'[d] = "live" /\ Wants(d, p)
    BY DEF Served, Distinct, ToSet, Wants
  <2>1. todo[p] \in Seq(Clients)
    BY <1>1 DEF TypeOK
  <2>2. ToSet(todo[p]) \subseteq Clients
    BY <2>1 DEF ToSet
  <2> QED BY <1>1, <2>2 DEF IInv, Served
<1>5. Listed'
  <2>1. subs \in Seq(Clients) /\ on \subseteq Clients
    BY <1>1 DEF TypeOK
  <2>2. ToSet(subs) \subseteq Clients
    BY <2>1 DEF ToSet
  <2>3. Distinct(subs)' /\ ToSet(subs)' = ToSet(subs)
    BY DEF IInv, Listed, Distinct, ToSet
  <2> QED BY <1>1, <2>1, <2>2, <2>3 DEF IInv, Listed
<1>6. Fresh'
  BY <1>1 DEF IInv, Fresh
<1>7. InLine'
  <2>1. on \subseteq Clients
    BY <1>1 DEF TypeOK
  <2> QED BY <1>1, <2>1 DEF IInv, InLine, UpTo, Behind, Wants
<1>8. Voided' /\ LateLasting' /\ Rows' /\ Complete'
  BY RowsKept
<1> QED
  BY <1>2, <1>3, <1>4, <1>5, <1>6, <1>7, <1>8 DEF IInv

\* A client asks for events: it gets the replay, and may have to wait for that.
LEMMA SubscribeInv ==
    ASSUME IInv, NEW c \in Clients, Subscribe(c)
    PROVE  IInv'
<1> DEFINE rows == Replayed(c)
<1>1. /\ TypeOK /\ stage[c] = "asked"
      /\ got' = [got EXCEPT ![c] = @ \o rows] /\ unread' = [unread EXCEPT ![c] = @ + Len(rows)]
      /\ UNCHANGED <<opened, closed, file, begun, todo, dead, busy, void, failed, tardy, on>>
      /\ \/ Join(c)
         \/ /\ stage' = [stage EXCEPT ![c] = "failed"] \/ stage' = [stage EXCEPT ![c] = "replaying"]
            /\ UNCHANGED <<subs, due>>
  BY DEF IInv, Subscribe, busVars, pubVars
<1>2. rows \in Seq(Event)
  BY <1>1, StreamAssumption DEF Replayed, TypeOK
<1> HIDE DEF rows
<1>3. /\ got' \in [Clients -> Seq(Event)] /\ unread' \in [Clients -> Nat]
      /\ \A d \in Clients \ {c} : got'[d] = got[d]
  BY <1>1, <1>2 DEF TypeOK
<1>4. CASE Join(c)
  BY <1>1, <1>3, <1>4, JoinInv
<1>5. CASE ~Join(c)
  BY <1>1, <1>3, <1>5, StageInv
<1> QED
  BY <1>4, <1>5

\* The replay is out.
LEMMA ReplayEndsInv ==
    ASSUME IInv, NEW c \in Clients, ReplayEnds(c)
    PROVE  IInv'
<1>1. /\ TypeOK /\ stage[c] = "replaying"
      /\ UNCHANGED <<opened, closed, file, begun, todo, dead, busy, void, failed, tardy, on,
                     got, unread>>
      /\ Join(c) \/ (stage' = [stage EXCEPT ![c] = "failed"] /\ UNCHANGED <<subs, due>>)
  BY DEF IInv, ReplayEnds, busVars, pubVars
<1>2. got' \in [Clients -> Seq(Event)] /\ unread' \in [Clients -> Nat]
  BY <1>1 DEF TypeOK
<1> QED
  BY <1>1, <1>2, JoinInv, StageInv

\* A client reads what it was sent.
LEMMA ReadInv ==
    ASSUME IInv, NEW c \in Clients, Read(c)
    PROVE  IInv'
<1>1. /\ unread' = [unread EXCEPT ![c] = 0]
      /\ UNCHANGED <<opened, closed, file, begun, todo, dead, busy, void, failed, tardy, on,
                     stage, subs,
                     got, due>>
  BY DEF Read, busVars, pubVars
<1>2. TypeOK'
  BY <1>1 DEF IInv, TypeOK
<1>3. Publishing' /\ Served' /\ Listed' /\ Fresh'
  BY <1>1 DEF IInv, Publishing, Running, Served, Listed, Distinct, ToSet, Wants, Fresh
<1>4. InLine'
  BY <1>1 DEF IInv, InLine, UpTo, Behind, Wants
<1>5. Voided' /\ LateLasting' /\ Rows' /\ Complete'
  BY <1>1, RowsKept
<1> QED
  BY <1>2, <1>3, <1>4, <1>5 DEF IInv

\* A connection ends and its subscription goes.
LEMMA DisconnectInv ==
    ASSUME IInv, NEW c \in Clients, Disconnect(c)
    PROVE  IInv'
<1>1. /\ TypeOK /\ on' = on \ {c} /\ subs' = Kept(subs, Clients \ {c})
      /\ UNCHANGED <<opened, closed, file, begun, todo, dead, busy, void, failed, tardy, stage,
                     got, unread, due>>
  BY DEF IInv, Disconnect, busVars, pubVars
<1>2. subs \in Seq(Clients) /\ Distinct(subs) /\ on \subseteq Clients
  BY <1>1 DEF TypeOK, IInv, Listed
<1>3. /\ subs' \in Seq(Clients)
      /\ Distinct(subs')
      /\ ToSet(subs') = ToSet(subs) \cap (Clients \ {c})
  BY <1>1, <1>2, KeptEntries
<1>4. TypeOK'
  BY <1>1, <1>3 DEF TypeOK
<1>5. Publishing' /\ Served' /\ Fresh'
  BY <1>1 DEF IInv, Publishing, Running, Served, Distinct, ToSet, Wants, Fresh
<1>6. Listed'
  <2>1. Distinct(subs)' /\ ToSet(subs)' = ToSet(subs')
    BY <1>3 DEF Distinct, ToSet
  <2> QED BY <1>1, <1>2, <1>3, <2>1 DEF IInv, Listed
<1>7. InLine'
  BY <1>1 DEF IInv, InLine, UpTo, Behind, Wants
<1>8. Voided' /\ LateLasting' /\ Rows' /\ Complete'
  BY <1>1, RowsKept
<1> QED
  BY <1>4, <1>5, <1>6, <1>7, <1>8 DEF IInv

\* Every step keeps the invariant.
LEMMA StepInv == IInv /\ [Next]_vars => IInv'
<1> SUFFICES ASSUME IInv, [Next]_vars PROVE IInv'
  OBVIOUS
<1>1. ASSUME NEW p \in Tasks, Publish(p) \/ Resume(p) \/ Cut(p) PROVE IInv'
  BY <1>1, PublishInv, ResumeInv, CutInv
<1>2. ASSUME NEW r \in Runs, StartRun(r) \/ EndRun(r) PROVE IInv'
  BY <1>2, RunInv
<1>3. ASSUME NEW c \in Clients, Subscribe(c) \/ ReplayEnds(c) \/ Read(c) \/ Disconnect(c)
      PROVE  IInv'
  BY <1>3, SubscribeInv, ReplayEndsInv, ReadInv, DisconnectInv
<1>4. CASE UNCHANGED vars
  <2>1. UNCHANGED <<opened, closed, file, begun, todo, dead, busy, void, failed, tardy, on,
                    stage, subs,
                    got, unread, due>>
    BY <1>4 DEF vars, busVars, pubVars, netVars
  <2>2. TypeOK' /\ Publishing'
    BY <2>1 DEF IInv, TypeOK, Publishing, Running
  <2>3. Served' /\ Listed' /\ Fresh'
    BY <2>1 DEF IInv, Served, Listed, Distinct, ToSet, Wants, Fresh
  <2>4. InLine'
    BY <2>1 DEF IInv, InLine, UpTo, Behind, Wants
  <2>5. Voided' /\ LateLasting' /\ Rows' /\ Complete'
    BY <2>1, RowsKept
  <2> QED BY <2>2, <2>3, <2>4, <2>5 DEF IInv
<1> QED
  BY <1>1, <1>2, <1>3, <1>4 DEF Next

\* The inductive invariant holds in every state.
THEOREM InductiveInvariant == Spec => []IInv
BY InitInv, StepInv, PTL DEF Spec

\* Every variable keeps its type, and a publication is under way exactly as long
\* as it waits for a client.
THEOREM TypeCorrect == Spec => []TypeOK
<1>1. IInv => TypeOK
  BY DEF IInv
<1> QED
  BY <1>1, InductiveInvariant, PTL

\* The file of a run holds every event of its tasks that was published whole, each
\* once and in order, but for those whose writing failed and those of background
\* tasks that came after the end of the run, for any number of subscribers
\* (EventBus.publish, IpcEventBroadcaster.handle, EventWriter.handle).
THEOREM FilesWhole == Spec => []FileWhole
<1>1. IInv => FileWhole
  <2> SUFFICES ASSUME IInv, NEW p \in Tasks
               PROVE  LET rows == file[RunOf[p]]
                      IN  /\ \A n \in 1..MaxEvents :
                                /\ <<p, n>> \in ToSet(rows) <=>
                                       /\ n <= begun[p]
                                       /\ n = begun[p] => p \notin busy
                                       /\ <<p, n>> \notin void \cup failed \cup tardy
                                /\ <<p, n>> \in tardy => p \in Lasting /\ RunOf[p] \in closed
                          /\ \A i, j \in DOMAIN rows :
                                i < j /\ rows[i][1] = p /\ rows[j][1] = p =>
                                    rows[i][2] < rows[j][2]
    BY DEF FileWhole
  <2>1. RunOf[p] \in Runs
    BY StreamAssumption
  <2>2. \A n \in 1..MaxEvents : Past(<<p, n>>) <=> n <= begun[p] /\ (n = begun[p] => p \notin busy)
    BY DEF Past
  <2>3. \A n \in 1..MaxEvents : <<p, n>> \in tardy => p \in Lasting /\ RunOf[p] \in closed
    BY DEF IInv, LateLasting
  <2> QED BY <2>1, <2>2, <2>3 DEF IInv, Complete, Missed, Rows
<1> QED
  BY <1>1, InductiveInvariant, PTL

-----------------------------------------------------------------------------
(* Refinement: EventFeed is what each client is sent                        *)

\* Nobody has been sent anything.
LEMMA FeedInit ==
    ASSUME NEW c \in Clients, Init
    PROVE  Feed(c)!Init
BY DEF Init, Feed!Init

\* What is next in the line of c is next in line in its feed.
LEMMA ToldIsPush ==
    ASSUME IInv, NEW c \in Clients, NEW p \in Tasks, NEW n \in 1..MaxEvents, Told(c, p, n),
           UNCHANGED <<stage, void>>, ~UNCHANGED <<got[c], due[c]>>
    PROVE  Feed(c)!Push(p, n)
<1>1. /\ stage[c] = "live" /\ Wants(c, p) /\ UpTo(c, p, n)
      /\ got'[c] = Append(got[c], <<p, n>>) /\ due'[c] = [due[c] EXCEPT ![p] = n + 1]
  BY DEF Told
<1>2. n >= due[c][p]
  BY <1>1 DEF UpTo, IInv, TypeOK
<1> QED
  BY <1>1, <1>2 DEF UpTo, Feed!Push, Feed!NextInLine

\* A replay shows events that were published, in the order of each task.
LEMMA FileIsReplay ==
    ASSUME IInv, NEW c \in Clients, NEW r \in Runs
    PROVE  Feed(c)!IsReplay(file[r])
<1>1. \A i \in DOMAIN file[r] : file[r][i] \in Event /\ Past(file[r][i])
  BY DEF IInv, TypeOK, Rows
<1>2. \A e \in Event : Past(e) => e[2] \in 1..begun[e[1]]
  BY DEF Event, Past, IInv, TypeOK
<1> QED
  BY <1>1, <1>2 DEF Feed!IsReplay, IInv, Rows

\* A subscription is a replay, a join or both in the feed of who subscribes.
LEMMA SubscribeFeed ==
    ASSUME IInv, NEW c \in Clients, NEW d \in Clients, Subscribe(d) \/ ReplayEnds(d)
    PROVE  Feed(c)!Subscribe \/ UNCHANGED Feed(c)!vars
<1>1. /\ TypeOK
      /\ stage[d] \in {"asked", "replaying"}
      /\ UNCHANGED <<begun, void>>
      /\ \/ Join(d)
         \/ (\E s \in {"failed", "replaying"} : stage' = [stage EXCEPT ![d] = s])
                /\ UNCHANGED <<subs, due>>
  BY DEF IInv, Subscribe, ReplayEnds, pubVars
<1>2. CASE c # d
  <2>1. got'[c] = got[c]
    BY <1>1, <1>2 DEF Subscribe, ReplayEnds, TypeOK
  <2>2. stage'[c] = stage[c] /\ due'[c] = due[c]
    BY <1>1, <1>2 DEF Join, TypeOK
  <2> QED BY <1>1, <2>1, <2>2 DEF Feed!vars
<1>3. CASE c = d
  <2>1. stage'[c] \in {"replaying", "live", "failed"}
    BY <1>1, <1>3 DEF Join, TypeOK
  <2>2. due'[c] = IF stage'[c] = "live" THEN [p \in Tasks |-> begun[p] + 1] ELSE due[c]
    BY <1>1, <1>3 DEF Join, TypeOK
  <2>3. \/ got'[c] = got[c]
        \/ stage[c] = "asked" /\ got[c] = <<>> /\ Feed(c)!IsReplay(got'[c])
    <3>1. CASE ReplayEnds(d)
      BY <3>1 DEF ReplayEnds
    <3>2. CASE Subscribe(d)
      <4>1. stage[c] = "asked" /\ got[c] = <<>> /\ got'[c] = got[c] \o Replayed(c)
        BY <1>1, <1>3, <3>2 DEF Subscribe, TypeOK, IInv, Fresh
      <4>2. Replayed(c) \in Seq(Event)
        BY <1>1, StreamAssumption DEF Replayed, TypeOK
      <4>3. got'[c] = Replayed(c)
        BY <4>1, <4>2, ConcatEmptySeq
      <4>4. CASE Replayed(c) = <<>>
        BY <4>1, <4>3, <4>4
      <4>5. CASE Replayed(c) # <<>>
        <5>1. PICK r \in Runs : got'[c] = file[r]
          BY <1>1, <4>3, <4>5, StreamAssumption DEF Replayed, TypeOK
        <5>2. Feed(c)!IsReplay(got'[c])
          BY <5>1, FileIsReplay
        <5> QED BY <4>1, <5>2
      <4> QED BY <4>4, <4>5
    <3> QED BY <3>1, <3>2
  <2> QED BY <1>1, <1>3, <2>1, <2>2, <2>3 DEF Feed!Subscribe
<1> QED
  BY <1>2, <1>3

\* Every step is a step of each client's feed or leaves it as it is.
LEMMA FeedStep ==
    ASSUME IInv, NEW c \in Clients, [Next]_vars
    PROVE  [Feed(c)!Next]_(Feed(c)!vars)
<1>1. ASSUME NEW p \in Tasks, Publish(p) PROVE Feed(c)!Next
  <2>1. /\ begun' = [begun EXCEPT ![p] = @ + 1] /\ UNCHANGED <<stage, void>>
        /\ begun[p] + 1 \in 1..MaxEvents
    BY <1>1, StreamAssumption DEF Publish, Serve, IInv, TypeOK
  <2>2. Told(c, p, begun[p] + 1)
    BY <1>1, PublishInv
  <2>3. CASE UNCHANGED <<got[c], due[c]>>
    BY <2>1, <2>3 DEF Feed!Next, Feed!Publish
  <2>4. CASE ~UNCHANGED <<got[c], due[c]>>
    <3>1. Feed(c)!Push(p, begun[p] + 1)
      BY <2>1, <2>2, <2>4, ToldIsPush
    <3> QED BY <2>1, <3>1 DEF Feed!Next
  <2> QED BY <2>3, <2>4
<1>2. ASSUME NEW p \in Tasks, Resume(p) PROVE Feed(c)!Next \/ UNCHANGED Feed(c)!vars
  <2>1. UNCHANGED <<begun, stage, void>> /\ begun[p] \in 1..MaxEvents
    BY <1>2, StreamAssumption DEF Resume, Serve, IInv, TypeOK, Publishing
  <2>2. Told(c, p, begun[p])
    BY <1>2, ResumeInv
  <2>3. CASE UNCHANGED <<got[c], due[c]>>
    BY <2>1, <2>3 DEF Feed!vars
  <2>4. CASE ~UNCHANGED <<got[c], due[c]>>
    <3>1. Feed(c)!Push(p, begun[p])
      BY <2>1, <2>2, <2>4, ToldIsPush
    <3> QED BY <2>1, <3>1 DEF Feed!Next
  <2> QED BY <2>3, <2>4
<1>3. ASSUME NEW p \in Tasks, Cut(p) PROVE Feed(c)!Next
  BY <1>3 DEF Cut, netVars, Feed!Next, Feed!Abandon
<1>4. ASSUME NEW d \in Clients, Subscribe(d) \/ ReplayEnds(d)
      PROVE  Feed(c)!Next \/ UNCHANGED Feed(c)!vars
  BY <1>4, SubscribeFeed DEF Feed!Next
<1>5. ASSUME NEW r \in Runs, StartRun(r) \/ EndRun(r) PROVE UNCHANGED Feed(c)!vars
  BY <1>5 DEF StartRun, EndRun, pubVars, netVars, Feed!vars
<1>6. ASSUME NEW d \in Clients, Read(d) \/ Disconnect(d) PROVE UNCHANGED Feed(c)!vars
  BY <1>6 DEF Read, Disconnect, pubVars, Feed!vars
<1>7. CASE UNCHANGED vars
  BY <1>7 DEF vars, pubVars, netVars, Feed!vars
<1> QED
  BY <1>1, <1>2, <1>3, <1>4, <1>5, <1>6, <1>7 DEF Next

\* Each client, whatever the others do, is sent the feed it is promised: from the
\* moment it joins every event of its scope, once and in the order of each task,
\* but for events whose publication was cancelled (IpcEventBroadcaster.handle,
\* event.subscribe).
THEOREM EachFeedKept ==
    ASSUME NEW c \in Clients
    PROVE  Spec => Feed(c)!Spec
<1>1. Init => Feed(c)!Init
  BY FeedInit
<1>2. IInv /\ [Next]_vars => [Feed(c)!Next]_(Feed(c)!vars)
  BY FeedStep
<1> QED
  BY <1>1, <1>2, InductiveInvariant, PTL DEF Spec, Feed!Spec

\* The same of all clients at once, as the run of the module checks it.
THEOREM AllFeedsKept == Spec => FeedKept
<1>1. Init => \A c \in Clients : Feed(c)!Init
  BY FeedInit
<1>2. IInv /\ [Next]_vars => [\A c \in Clients : [Feed(c)!Next]_(Feed(c)!vars)]_vars
  BY FeedStep
<1> QED
  BY <1>1, <1>2, InductiveInvariant, PTL DEF Spec, FeedKept

-----------------------------------------------------------------------------
(* The trace, and the call of the model that it records                    *)

\* Nobody is counted whom the queue does not hold: join waits for the queue.
Counted == unfinished = Len(queue)

\* What is queued are the latest records, and they are newer than any written.
Waiting ==
    /\ Len(queue) <= emitted
    /\ \A i \in DOMAIN queue : queue[i] = emitted - Len(queue) + i
    /\ \A r \in RecordsOf(files) : r <= emitted - Len(queue)

TraceInv == TraceTypeOK /\ Counted /\ Waiting /\ TraceInOrder

\* A try's first attempt streams to the interface: its tokens so far are the
\* latest there.
ShownLast ==
    IF sent = 0 THEN shown = <<>> \/ shown[Len(shown)][1] < try
    ELSE shown # <<>> /\ shown[Len(shown)] = <<try, sent>>

\* A stream has an attempt under way, whose tokens are the text; what the
\* interface got is of this try or of earlier ones. Without attempts there is
\* only the first.
Streamed ==
    /\ phase \in {"streams", "backoff", "answered"} =>
          attempt >= 1 /\ text = Stream1(attempt, sent)
    /\ phase = "backoff" => attempt < StreamAttempts
    /\ phase = "resting" => try < ChatTries
    /\ provider = "openai_compatible" => phase # "backoff" /\ attempt <= 1
    /\ provider = "openai_compatible" /\ phase = "streams" => sent = 0
    /\ phase # "idle" => try >= 1
    /\ \A i \in DOMAIN shown : shown[i][1] <= try
    /\ InTurn
    /\ phase \in {"streams", "answered"} /\ attempt = 1 => ShownLast

CallInv == CallTypeOK /\ Streamed

LEMMA StreamedTokens ==
    ASSUME ModelCallAssumption, NEW a \in 1 .. StreamAttempts, NEW n \in 0 .. MaxTokens + 1
    PROVE  /\ Stream1(a, n) \in Seq((1 .. StreamAttempts) \X (1 .. MaxTokens + 1))
           /\ Len(Stream1(a, n)) = n
           /\ n + 1 \in Nat
           /\ Append(Stream1(a, n), <<a, n + 1>>) = Stream1(a, n + 1)
           /\ Stream1(a, 0) = <<>>
<1> DEFINE T == (1 .. StreamAttempts) \X (1 .. MaxTokens + 1)
<1>1. n \in Nat /\ MaxTokens \in Nat /\ StreamAttempts \in Nat
  BY DEF ModelCallAssumption
<1>2. Stream1(a, n) \in Seq(T) /\ Len(Stream1(a, n)) = n
  BY <1>1 DEF Stream1
<1>3. Append(Stream1(a, n), <<a, n + 1>>) = Stream1(a, n + 1)
  <2>1. \A i \in 1 .. n + 1 :
           Append(Stream1(a, n), <<a, n + 1>>)[i] = <<a, i>>
    BY <1>1, <1>2 DEF Stream1
  <2>2. /\ Append(Stream1(a, n), <<a, n + 1>>) \in Seq(Nat \X Nat)
        /\ Len(Append(Stream1(a, n), <<a, n + 1>>)) = n + 1
    BY <1>1, <1>2 DEF Stream1
  <2>3. Stream1(a, n + 1) \in Seq(Nat \X Nat) /\ Len(Stream1(a, n + 1)) = n + 1
    BY <1>1 DEF Stream1
  <2>4. \A i \in 1 .. n + 1 : Stream1(a, n + 1)[i] = <<a, i>>
    BY <1>1 DEF Stream1
  <2> HIDE DEF T
  <2> QED BY <1>1, <2>1, <2>2, <2>3, <2>4, SeqEqual
<1>4. Stream1(a, 0) = <<>>
  BY <1>1 DEF Stream1
<1> QED BY <1>1, <1>2, <1>3, <1>4

\* The next token of a try keeps the turn.
LEMMA TokenInTurn ==
    ASSUME ModelCallAssumption, CallTypeOK, try \in 1 .. ChatTries, sent \in 0 .. MaxTokens,
           InTurn, ShownLast, \A i \in DOMAIN shown : shown[i][1] <= try,
           shown' = Append(shown, <<try, sent + 1>>), try' = try, sent' = sent + 1
    PROVE  /\ shown' \in Seq((1 .. ChatTries) \X (1 .. MaxTokens + 1))
           /\ \A i \in DOMAIN shown' : shown'[i][1] <= try'
           /\ InTurn'
           /\ ShownLast'
<1> DEFINE T == (1 .. ChatTries) \X (1 .. MaxTokens + 1)
           L == Len(shown)
<1>1. /\ MaxTokens \in Nat /\ ChatTries \in Nat /\ sent \in Nat /\ try \in Nat
      /\ shown \in Seq(T) /\ <<try, sent + 1>> \in T /\ L \in Nat
  BY DEF ModelCallAssumption, CallTypeOK
<1>2. shown \in Seq(Nat \X Nat) /\ <<try, sent + 1>> \in Nat \X Nat
  BY <1>1, SMTT(30)
<1>3. shown' \in Seq(T)
  BY <1>1
<1>4. /\ DOMAIN shown' = 1 .. L + 1 /\ DOMAIN shown = 1 .. L /\ Len(shown') = L + 1
      /\ \A i \in 1 .. L : shown'[i] = shown[i]
      /\ shown'[L + 1] = <<try, sent + 1>>
  BY <1>2
<1>5. \A i \in DOMAIN shown' : shown'[i][1] <= try'
  <2> SUFFICES ASSUME NEW i \in 1 .. L + 1 PROVE shown'[i][1] <= try
    BY <1>4
  <2>1. CASE i \in 1 .. L
    BY <1>4, <2>1
  <2>2. CASE i = L + 1
    BY <1>1, <1>4, <2>2
  <2> QED BY <1>1, <2>1, <2>2, SMTT(30)
<1>6. L = 0 <=> shown = <<>>
  BY <1>2
<1> HIDE DEF T, L
<1>7. InTurn'
  <2> SUFFICES ASSUME NEW i \in 1 .. L + 1
               PROVE  IF shown'[i][2] = 1 THEN i > 1 => shown'[i - 1][1] < shown'[i][1]
                      ELSE i > 1 /\ shown'[i - 1] = <<shown'[i][1], shown'[i][2] - 1>>
    BY <1>4 DEF InTurn
  <2>1. CASE i \in 1 .. L
    <3>1. IF shown[i][2] = 1 THEN i > 1 => shown[i - 1][1] < shown[i][1]
          ELSE i > 1 /\ shown[i - 1] = <<shown[i][1], shown[i][2] - 1>>
      BY <1>4, <2>1 DEF InTurn
    <3>2. i > 1 => i - 1 \in 1 .. L
      BY <1>1, <2>1
    <3> QED BY <1>4, <2>1, <3>1, <3>2
  <2>2. CASE i = L + 1 /\ sent = 0
    <3>1. shown'[i][2] = 1 /\ shown'[i][1] = try /\ (i > 1 => L \in 1 .. L /\ i - 1 = L)
      BY <1>1, <1>4, <2>2
    <3>2. L # 0 => shown[L][1] < try
      BY <1>6, <2>2 DEF ShownLast, L
    <3> QED BY <1>1, <1>4, <2>2, <3>1, <3>2
  <2>3. CASE i = L + 1 /\ sent # 0
    <3>1. L # 0 /\ shown[L] = <<try, sent>>
      BY <1>6, <2>3 DEF ShownLast, L
    <3>2. /\ i > 1 /\ i - 1 = L /\ L \in 1 .. L
          /\ shown'[i][2] # 1 /\ shown'[i][1] = try /\ shown'[i][2] - 1 = sent
      BY <1>1, <1>4, <2>3, <3>1
    <3>3. shown'[i - 1] = <<try, sent>>
      BY <1>4, <3>1, <3>2
    <3> QED BY <3>2, <3>3
  <2>4. i \in 1 .. L \/ i = L + 1
    BY <1>1
  <2> QED BY <2>1, <2>2, <2>3, <2>4, Zenon
<1>8. ShownLast'
  BY <1>1, <1>3, <1>4 DEF ShownLast
<1> QED BY <1>3, <1>5, <1>7, <1>8 DEF T

\* The call of the model begins with nothing said and nothing shown.
LEMMA CallInvInit == ASSUME ModelCallAssumption, CallInit PROVE CallInv
<1>2. CallTypeOK
  BY DEF CallInit, CallTypeOK, Phases, ModelCallAssumption
<1>3. Streamed
  BY DEF CallInit, Streamed, InTurn
<1> QED BY <1>2, <1>3 DEF CallInv

\* The loop or the provider begins an attempt: nothing of it is text yet.
LEMMA BeginInv ==
    ASSUME ModelCallAssumption, CallInv, Chat \/ ChatAgain \/ StreamAgain
    PROVE  CallInv'
<1>1. <<>> = Stream1(1, 0) /\ 0 \in 0 .. MaxTokens + 1 /\ 1 \in 1 .. StreamAttempts
  BY StreamedTokens DEF ModelCallAssumption
<1> USE DEF CallInv, CallTypeOK, Phases, ModelCallAssumption
<1>2. CASE Chat \/ ChatAgain
  <2>1. /\ phase' = "streams" /\ attempt' = 1 /\ sent' = 0 /\ provider' = provider
        /\ text' = <<>>
    BY <1>2 DEF Chat, ChatAgain, Stream, Selected
  <2>2. try' \in 1 .. ChatTries
    BY <1>2 DEF Chat, ChatAgain, Streamed
  <2>3. \/ shown' = <<>>
        \/ shown' = shown /\ try' = try + 1
    BY <1>2 DEF Chat, ChatAgain
  <2>4. CallTypeOK'
    <3>1. shown' \in Seq((1 .. ChatTries) \X (1 .. MaxTokens + 1))
      <4>1. CASE shown' = <<>>
        BY <4>1
      <4>2. CASE shown' = shown
        BY <4>2
      <4> QED BY <2>3, <4>1, <4>2
    <3>2. text' \in Seq((1 .. StreamAttempts) \X (1 .. MaxTokens + 1))
      BY <2>1
    <3> QED BY <1>1, <2>1, <2>2, <3>1, <3>2
  <2>5. /\ \A i \in DOMAIN shown' : shown'[i][1] <= try'
        /\ shown' = <<>> \/ shown'[Len(shown')][1] < try'
        /\ InTurn'
    <3>1. CASE shown' = <<>>
      BY <3>1 DEF InTurn
    <3>2. CASE shown' = shown /\ try' = try + 1 /\ shown # <<>>
      <4>1. shown \in Seq(Nat \X Nat) /\ try \in Nat
        OBVIOUS
      <4>2. Len(shown) \in DOMAIN shown /\ \A i \in DOMAIN shown : shown[i][1] \in Nat
        BY <3>2, <4>1, SMTT(30)
      <4>3. \A i \in DOMAIN shown : shown[i][1] < try + 1
        BY <4>1, <4>2 DEF Streamed
      <4>4. InTurn'
        BY <3>2 DEF InTurn, Streamed
      <4> QED BY <3>2, <4>1, <4>2, <4>3, <4>4
    <3> QED BY <2>3, <3>1, <3>2
  <2>6. Streamed'
    BY <1>1, <2>1, <2>2, <2>5 DEF Streamed, ShownLast
  <2> QED BY <2>4, <2>6
<1>3. CASE StreamAgain
  <2>1. attempt' \in 1 .. StreamAttempts /\ attempt' # 1
    BY <1>3 DEF StreamAgain, Streamed
  <2>2. text' = Stream1(attempt', sent')
    BY <1>3, <2>1, StreamedTokens DEF StreamAgain, TextReset
  <2>3. CallTypeOK'
    BY <1>1, <1>3, <2>1 DEF StreamAgain, TextReset
  <2>4. Streamed'
    <3>1. /\ phase' = "streams" /\ provider' = provider /\ try' = try /\ shown' = shown
          /\ provider # "openai_compatible" /\ try >= 1
      BY <1>3 DEF StreamAgain, Streamed
    <3>2. InTurn' /\ \A i \in DOMAIN shown' : shown'[i][1] <= try'
      BY <3>1 DEF Streamed, InTurn
    <3> QED BY <2>1, <2>2, <3>1, <3>2 DEF Streamed
  <2> QED BY <2>3, <2>4
<1> QED BY <1>2, <1>3

\* A token is one more of its attempt; of the first it is shown as well.
LEMMA TokenInv == ASSUME ModelCallAssumption, CallInv, Token PROVE CallInv'
<1> USE DEF CallInv, CallTypeOK, Phases, ModelCallAssumption
<1>1. /\ attempt \in 1 .. StreamAttempts /\ sent \in 0 .. MaxTokens
      /\ sent' = sent + 1 /\ sent' \in 0 .. MaxTokens + 1
      /\ text = Stream1(attempt, sent)
      /\ try' = try /\ try \in 1 .. ChatTries
  BY DEF Token, Streamed
<1>2. text' = Stream1(attempt, sent')
  BY <1>1, StreamedTokens DEF Token
<1>3. text' \in Seq((1 .. StreamAttempts) \X (1 .. MaxTokens + 1))
  BY <1>1, <1>2, StreamedTokens
<1>4. /\ shown' \in Seq((1 .. ChatTries) \X (1 .. MaxTokens + 1))
      /\ \A i \in DOMAIN shown' : shown'[i][1] <= try'
      /\ InTurn'
      /\ attempt = 1 => ShownLast'
  <2>1. CASE attempt = 1
    <3>1. shown' = Append(shown, <<try, sent + 1>>)
      BY <1>1, <2>1 DEF Token, Shown
    <3>2. InTurn /\ ShownLast /\ \A i \in DOMAIN shown : shown[i][1] <= try
      BY <2>1 DEF Token, Streamed
    <3> QED BY <1>1, <3>1, <3>2, TokenInTurn
  <2>2. CASE attempt # 1
    BY <1>1, <2>2 DEF Token, Streamed, InTurn
  <2> QED BY <2>1, <2>2
<1>5. CallTypeOK'
  BY <1>1, <1>2, <1>3, <1>4 DEF Token
<1>6. Streamed'
  BY <1>1, <1>2, <1>4 DEF Token, Streamed
<1> QED BY <1>5, <1>6

\* An answer of one piece is the first attempt.
LEMMA PostedInv == ASSUME ModelCallAssumption, CallInv, Posted PROVE CallInv'
<1> USE DEF CallInv, CallTypeOK, Phases, ModelCallAssumption
<1>1. PICK n \in {0, 1} : /\ sent' = n /\ text' = [i \in 1 .. n |-> <<1, i>>]
                          /\ shown' = IF n = 1 THEN Append(shown, <<try, 1>>) ELSE shown
  BY DEF Posted
<1>2. /\ n \in 0 .. MaxTokens + 1 /\ 1 \in 1 .. StreamAttempts /\ attempt' = 1 /\ attempt = 1
      /\ try' = try /\ try \in 1 .. ChatTries
  BY DEF Posted, Streamed
<1>3. text' = Stream1(1, n)
  BY <1>1 DEF Stream1
<1>4. text' \in Seq((1 .. StreamAttempts) \X (1 .. MaxTokens + 1))
  BY <1>2, <1>3, StreamedTokens
<1>5. /\ InTurn /\ ShownLast /\ \A i \in DOMAIN shown : shown[i][1] <= try
      /\ sent = 0
  BY <1>2 DEF Posted, Streamed
<1>6. /\ shown' \in Seq((1 .. ChatTries) \X (1 .. MaxTokens + 1))
      /\ \A i \in DOMAIN shown' : shown'[i][1] <= try'
      /\ InTurn'
      /\ ShownLast'
  <2>1. CASE n = 1
    <3>1. shown' = Append(shown, <<try, sent + 1>>) /\ sent' = sent + 1 /\ sent \in 0 .. MaxTokens
      BY <1>1, <1>5, <2>1
    <3> QED BY <1>2, <1>5, <3>1, TokenInTurn
  <2>2. CASE n = 0
    BY <1>1, <1>2, <1>5, <2>2, SMTT(30) DEF InTurn, ShownLast
  <2> QED BY <2>1, <2>2
<1>7. CallTypeOK'
  BY <1>1, <1>2, <1>4, <1>6 DEF Posted
<1>8. Streamed'
  BY <1>1, <1>2, <1>3, <1>6 DEF Posted, Streamed
<1> QED BY <1>7, <1>8

\* Whatever else ends an attempt, a call or the daemon leaves nothing behind
\* that would be taken for an answer.
LEMMA OtherInv ==
    ASSUME ModelCallAssumption, CallInv,
           Dropped \/ Refused \/ StreamEnds \/ CallOver \/ Killed \/ UNCHANGED callVars
    PROVE  CallInv'
<1> USE DEF CallInv, CallTypeOK, Phases, ModelCallAssumption
<1>2. CASE Dropped
  <2>1. /\ phase = "streams" /\ phase' \in {"backoff", "resting", "failed"}
        /\ phase' = "backoff" => attempt < StreamAttempts
        /\ phase' = "resting" => try < ChatTries
        /\ provider = "anthropic"
        /\ UNCHANGED <<provider, try, attempt, sent, text, shown>>
    BY <1>2 DEF Dropped, Raised, Streamed
  <2>2. InTurn' /\ \A i \in DOMAIN shown' : shown'[i][1] <= try'
    BY <2>1 DEF Streamed, InTurn
  <2>3. Streamed'
    BY <2>1, <2>2 DEF Streamed, Stream1
  <2> QED BY <2>1, <2>3
<1>3. CASE Refused
  BY <1>3 DEF Refused, Raised, Streamed, InTurn, ShownLast
<1>4. CASE StreamEnds
  BY <1>4 DEF StreamEnds, Streamed, InTurn, ShownLast
<1>5. CASE CallOver
  BY <1>5 DEF CallOver, Streamed, InTurn
<1>6. CASE Killed
  BY <1>6 DEF Killed, Streamed, InTurn
<1>7. CASE UNCHANGED callVars
  BY <1>7 DEF callVars, Streamed, InTurn, ShownLast
<1> QED BY <1>2, <1>3, <1>4, <1>5, <1>6, <1>7

LEMMA CallInvNext ==
    ASSUME ModelCallAssumption, CallInv, [CallNext]_modelCallVars
    PROVE  CallInv'
<1>1. CASE Chat \/ ChatAgain \/ StreamAgain  BY <1>1, BeginInv
<1>2. CASE Token  BY <1>2, TokenInv
<1>3. CASE Posted  BY <1>3, PostedInv
<1>4. CASE Dropped \/ Refused \/ StreamEnds \/ Cancelled \/ Killed
  BY <1>4, OtherInv DEF Cancelled
<1>5. CASE ShutDown \/ TraceStep \/ UNCHANGED modelCallVars
  <2>1. UNCHANGED callVars
    BY <1>5 DEF ShutDown, TraceStep, modelCallVars
  <2> QED BY <2>1, OtherInv
<1> QED BY <1>1, <1>2, <1>3, <1>4, <1>5 DEF CallNext

LEMMA CallInvariant == ASSUME ModelCallAssumption PROVE CallSpec => []CallInv
<1>1. CallInit => CallInv  BY CallInvInit
<1>2. CallInv /\ [CallNext]_modelCallVars => CallInv'  BY CallInvNext
<1> QED BY <1>1, <1>2, PTL DEF CallSpec

\* The call and what the interface gets of it keep their types, whatever breaks
\* (AgentLoop.run, the providers' chat).
THEOREM CallTyped == CallSpec => []CallTypeOK
<1>1. CallInv => CallTypeOK  BY DEF CallInv
<1> QED BY <1>1, ModelCallAssumption, CallInvariant, PTL

\* What the loop takes for the answer is one attempt, whole; the interface gets of
\* each try the first attempt, in its order and without gap or repetition, for
\* any number of attempts of the loop and of the provider
\* (AnthropicProvider.chat, OpenAICompatibleProvider.chat, AgentLoop.run).
THEOREM AnswerWholeHolds == CallSpec => []AnswerWhole
<1>1. CallInv => AnswerWhole  BY DEF CallInv, CallTypeOK, Streamed, AnswerWhole, ShownLast
<1> QED BY <1>1, ModelCallAssumption, CallInvariant, PTL

-----------------------------------------------------------------------------
LineFiles == [0 .. Backups -> Seq(1 .. MaxRecords)]

\* However many moves of a rotation were made, only the oldest records are gone.
LEMMA RotatedKeeps ==
    ASSUME TraceAssumption, NEW f \in LineFiles, Sorted(f), NEW m \in 0 .. Backups
    PROVE  /\ Rotated(f, m) \in LineFiles
           /\ Sorted(Rotated(f, m))
           /\ RecordsOf(Rotated(f, m)) \subseteq RecordsOf(f)
           /\ \A r \in RecordsOf(f) \ RecordsOf(Rotated(f, m)) :
                 \A q \in RecordsOf(Rotated(f, m)) : r < q
<1> DEFINE g == Rotated(f, m)
           From(i) == IF i > Backups - m THEN i - 1 ELSE i
           Here == {i \in 0 .. Backups : i # Backups - m}
<1>1. Backups \in Nat /\ m \in Nat /\ m <= Backups /\ MaxRecords \in Nat
  BY DEF TraceAssumption
<1>2. \A i \in Here : From(i) \in 0 .. Backups /\ From(i) < Backups + 1 /\ g[i] = f[From(i)]
  BY <1>1 DEF Rotated
<1>3. \A i \in 0 .. Backups : i \notin Here => g[i] = <<>> /\ Range(g[i]) = {}
  <2> SUFFICES ASSUME NEW i \in 0 .. Backups, i \notin Here
               PROVE  g[i] = <<>> /\ Range(g[i]) = {}
    OBVIOUS
  <2>1. g[i] = <<>>
    BY <1>1 DEF Rotated, Missing
  <2>2. DOMAIN <<>> = {}
    OBVIOUS
  <2> QED BY <2>1, <2>2 DEF Range
<1>4. \A i, j \in Here : i < j => From(i) < From(j)
  BY <1>1
<1>5. g \in LineFiles
  <2>1. \A i \in 0 .. Backups : f[i] \in Seq(1 .. MaxRecords) /\ <<>> \in Seq(1 .. MaxRecords)
    BY DEF LineFiles
  <2>2. \A i \in 0 .. Backups : g[i] \in Seq(1 .. MaxRecords)
    <3> HIDE DEF g, From, Here
    <3> QED BY <1>2, <1>3, <2>1
  <2>3. g = [i \in 0 .. Backups |-> g[i]]
    BY DEF Rotated
  <2> QED BY <2>2, <2>3 DEF LineFiles
<1>6. Sorted(g)
  <2>1. ASSUME NEW i \in 0 .. Backups, NEW k \in DOMAIN g[i], NEW n \in DOMAIN g[i], k < n
        PROVE  g[i][k] < g[i][n]
    <3>1. i \in Here
      BY <1>3
    <3> HIDE DEF g, From, Here
    <3> QED BY <1>2, <2>1, <3>1 DEF Sorted
  <2>2. ASSUME NEW new \in 0 .. Backups, NEW old \in 0 .. Backups, new < old,
               NEW r \in Range(g[new]), NEW q \in Range(g[old])
        PROVE  q < r
    <3>1. new \in Here /\ old \in Here
      BY <1>3
    <3>2. From(new) < From(old)
      BY <1>4, <2>2, <3>1
    <3> HIDE DEF g, From, Here
    <3> QED BY <1>2, <2>2, <3>1, <3>2 DEF Sorted
  <2> HIDE DEF g
  <2> QED BY <2>1, <2>2 DEF Sorted
<1>7. RecordsOf(g) \subseteq RecordsOf(f)
  <2> SUFFICES ASSUME NEW i \in 0 .. Backups, NEW r \in Range(g[i])
               PROVE  r \in RecordsOf(f)
    BY DEF RecordsOf
  <2>1. i \in Here
    BY <1>3
  <2> HIDE DEF g, From, Here
  <2> QED BY <1>2, <2>1 DEF RecordsOf
<1>8. ASSUME NEW r \in RecordsOf(f) \ RecordsOf(g), NEW q \in RecordsOf(g)
      PROVE  r < q
  <2>1. PICK i \in 0 .. Backups : r \in Range(f[i])
    BY DEF RecordsOf
  <2>2. \A j \in Here : From(j) # i
    BY <1>2, <2>1 DEF RecordsOf
  <2>3. i = Backups
    <3>1. CASE i < Backups - m
      BY <1>1, <2>2, <3>1
    <3>2. CASE ~(i < Backups - m) /\ i < Backups
      <4>1. i + 1 \in Here /\ From(i + 1) = i
        BY <1>1, <3>2
      <4> QED BY <2>2, <4>1
    <3> QED BY <1>1, <3>1, <3>2
  <2>4. PICK j \in 0 .. Backups : q \in Range(g[j])
    BY DEF RecordsOf
  <2>5. j \in Here
    BY <1>3, <2>4
  <2>6. From(j) < i /\ From(j) \in 0 .. Backups
    BY <1>1, <1>2, <2>2, <2>3, <2>5
  <2> HIDE DEF g, From, Here
  <2> QED BY <1>2, <2>1, <2>4, <2>5, <2>6 DEF Sorted
<1> QED BY <1>5, <1>6, <1>7, <1>8

LEMMA TraceInvInit == ASSUME TraceAssumption, TraceInit PROVE TraceInv
<1> USE DEF TraceInit, TraceAssumption
<1>1. TraceTypeOK
  <2>1. <<>> \in Seq(1 .. MaxRecords)
    OBVIOUS
  <2>2. files \in LineFiles
    BY <2>1 DEF LineFiles, Missing
  <2>3. emitted \in 0 .. MaxRecords /\ unfinished \in 0 .. MaxRecords /\ faults \in 0 .. MaxFaults
    OBVIOUS
  <2>4. /\ queue \in Seq(1 .. MaxRecords) /\ lost \subseteq 1 .. MaxRecords
        /\ writer = "runs" /\ stop = "no" /\ torn = FALSE /\ late = FALSE
    OBVIOUS
  <2> HIDE DEF TraceInit
  <2> QED BY <2>2, <2>3, <2>4 DEF LineFiles, TraceTypeOK
<1>2. RecordsOf(files) = {} /\ Sorted(files)
  <2>1. \A i \in 0 .. Backups : files[i] = <<>> /\ DOMAIN files[i] = {} /\ Range(files[i]) = {}
    BY DEF Missing, Range
  <2> QED BY <2>1 DEF RecordsOf, Sorted
<1>3. Counted /\ Waiting /\ TraceInOrder
  BY <1>2 DEF Counted, Waiting, TraceInOrder
<1> QED BY <1>1, <1>3 DEF TraceInv

\* A record that is emitted is the latest.
LEMMA EmitInv ==
    ASSUME TraceAssumption, TraceInv, NEW k \in 0 .. 3, Emit(k)
    PROVE  TraceInv'
<1> DEFINE more == [i \in 1 .. k |-> emitted + i]
<1>1. /\ emitted \in Nat /\ emitted' = emitted + k /\ emitted' \in 0 .. MaxRecords
      /\ queue \in Seq(1 .. MaxRecords) /\ unfinished = Len(queue) /\ Len(queue) <= emitted
      /\ \A i \in DOMAIN queue : queue[i] = emitted - Len(queue) + i
  BY DEF TraceInv, TraceTypeOK, TraceAssumption, Emit, Counted, Waiting
<1>2. more \in Seq(1 .. MaxRecords) /\ Len(more) = k
  BY <1>1 DEF TraceAssumption
<1>3. /\ queue' \in Seq(1 .. MaxRecords) /\ Len(queue') = Len(queue) + k
      /\ \A i \in 1 .. Len(queue) + k : queue'[i] = emitted - Len(queue) + i
  <2> HIDE DEF more
  <2>1. queue' = queue \o more
    BY DEF Emit, more
  <2>2. \A i \in 1 .. k : more[i] = emitted + i
    BY DEF more
  <2>3. queue' \in Seq(1 .. MaxRecords) /\ Len(queue') = Len(queue) + k
    BY <1>1, <1>2, <2>1
  <2>4. ASSUME NEW i \in 1 .. Len(queue) + k
        PROVE  queue'[i] = emitted - Len(queue) + i
    <3>1. CASE i <= Len(queue)
      <4>1. queue'[i] = queue[i] /\ i \in DOMAIN queue
        BY <1>1, <1>2, <2>1, <3>1
      <4> QED BY <1>1, <4>1
    <3>2. CASE i > Len(queue)
      <4>1. i - Len(queue) \in 1 .. k /\ Len(queue) + (i - Len(queue)) = i
        BY <1>1, <3>2
      <4>2. queue'[i] = more[i - Len(queue)]
        BY <1>1, <1>2, <2>1, <3>2, <4>1, ConcatProperties
      <4> QED BY <1>1, <2>2, <4>1, <4>2
    <3> QED BY <1>1, <3>1, <3>2
  <2> QED BY <2>3, <2>4
<1>4. unfinished' = Len(queue') /\ unfinished' \in 0 .. MaxRecords
  BY <1>1, <1>3 DEF Emit, TraceAssumption
<1>5. TraceTypeOK'
  BY <1>1, <1>3, <1>4 DEF Emit, TraceInv, TraceTypeOK
<1>6. Waiting'
  <2>1. emitted' - Len(queue') = emitted - Len(queue) /\ Len(queue') <= emitted'
    BY <1>1, <1>3
  <2>2. RecordsOf(files') = RecordsOf(files)
    BY DEF Emit, RecordsOf
  <2> QED BY <1>3, <2>1, <2>2 DEF TraceInv, Waiting, RecordsOf
<1>7. Range(queue) \cup (emitted + 1 .. emitted') \subseteq Range(queue')
  <2>1. \A i \in DOMAIN queue : queue[i] = queue'[i] /\ i \in DOMAIN queue'
    BY <1>1, <1>3, SMTT(30)
  <2>2. \A n \in emitted + 1 .. emitted' :
           /\ n - emitted + Len(queue) \in DOMAIN queue'
           /\ queue'[n - emitted + Len(queue)] = n
    BY <1>1, <1>3, SMTT(30)
  <2> QED BY <2>1, <2>2 DEF Range
<1>8. TraceInOrder'
  <2>1. UNCHANGED <<files, lost>>
    BY DEF Emit
  <2>2. ASSUME NEW r \in RecordsOf(files), NEW n \in r .. emitted', n > emitted
        PROVE  n \in Range(queue')
    BY <1>1, <1>7, <2>2
  <2> QED BY <1>1, <1>7, <2>1, <2>2 DEF TraceInv, TraceInOrder, RecordsOf, Sorted
<1> QED BY <1>4, <1>5, <1>6, <1>8 DEF TraceInv, Counted

\* The order is that of the oldest first, so that what a rotation deletes leaves
\* no gap, and a record lost leaves none that is not accounted for.
LEMMA DeletedLeavesNoGap ==
    ASSUME TraceAssumption, TraceInv, NEW f \in LineFiles, Sorted(f), NEW gone,
           RecordsOf(f) \subseteq RecordsOf(files),
           \A r \in RecordsOf(files) \ RecordsOf(f) : \A q \in RecordsOf(f) : r < q,
           emitted' = emitted, files' = f, lost' = lost \cup gone,
           Range(queue) \subseteq Range(queue') \cup gone
    PROVE  TraceInOrder'
<1>1. \A r \in RecordsOf(f) : r \in Nat
  BY DEF RecordsOf, Range, LineFiles, TraceAssumption
<1>2. ASSUME NEW r \in RecordsOf(f), NEW n \in r .. emitted
      PROVE  n \in RecordsOf(f) \cup Range(queue') \cup lost'
  <2>1. n \in RecordsOf(files) \cup Range(queue) \cup lost
    BY <1>2 DEF TraceInv, TraceInOrder
  <2>2. n \in RecordsOf(files) => n \in RecordsOf(f)
    <3>1. emitted \in Nat
      BY DEF TraceInv, TraceTypeOK, TraceAssumption
    <3>2. ~(n < r)
      BY <1>1, <1>2, <3>1
    <3> QED BY <1>2, <3>2
  <2> QED BY <2>1, <2>2
<1>3. Sorted(files') /\ RecordsOf(files') = RecordsOf(f)
  BY DEF Sorted, RecordsOf
<1> QED BY <1>2, <1>3 DEF TraceInOrder

\* The files that a kill or an error leaves are those before, or rotated.
LEMMA HalfWrittenKeeps ==
    ASSUME TraceAssumption, TraceInv, HalfWritten \/ UNCHANGED fileVars
    PROVE  /\ files' \in LineFiles /\ torn' \in BOOLEAN /\ Sorted(files')
           /\ RecordsOf(files') \subseteq RecordsOf(files)
           /\ \A r \in RecordsOf(files) \ RecordsOf(files') :
                 \A q \in RecordsOf(files') : r < q
<1>1. files \in LineFiles /\ torn \in BOOLEAN /\ Sorted(files)
  BY DEF TraceInv, TraceTypeOK, TraceInOrder, LineFiles
<1>2. CASE files' = files
  <2>1. torn' \in BOOLEAN
    BY <1>1, <1>2 DEF HalfWritten, fileVars
  <2> QED BY <1>1, <1>2, <2>1 DEF Sorted, RecordsOf
<1>3. CASE files' # files
  <2>1. PICK m \in 0 .. Backups :
           files' = Rotated(files, m) /\ torn' \in (IF m < Backups THEN {torn} ELSE BOOLEAN)
    BY <1>3 DEF HalfWritten, fileVars
  <2>2. /\ Rotated(files, m) \in LineFiles
        /\ Sorted(Rotated(files, m))
        /\ RecordsOf(Rotated(files, m)) \subseteq RecordsOf(files)
        /\ \A r \in RecordsOf(files) \ RecordsOf(Rotated(files, m)) :
              \A q \in RecordsOf(Rotated(files, m)) : r < q
    BY <1>1, RotatedKeeps
  <2>3. torn' \in BOOLEAN
    BY <1>1, <2>1
  <2> QED BY <2>1, <2>2, <2>3
<1> QED BY <1>2, <1>3

\* With the process or its task everything queued is lost.
LEMMA AllLostInv ==
    ASSUME TraceAssumption, TraceInv, HalfWritten \/ UNCHANGED fileVars,
           emitted' = emitted, queue' = <<>>, unfinished' = 0, faults' \in 0 .. MaxFaults,
           lost' = lost \cup Range(queue), late' = late,
           writer' \in {"dead", "none"}, stop' \in {"no", "joining", "over", "raised"}
    PROVE  TraceInv'
<1>1. /\ files' \in LineFiles /\ torn' \in BOOLEAN /\ Sorted(files')
      /\ RecordsOf(files') \subseteq RecordsOf(files)
      /\ \A r \in RecordsOf(files) \ RecordsOf(files') :
            \A q \in RecordsOf(files') : r < q
  BY HalfWrittenKeeps
<1>2. TraceInOrder'
  <2> HIDE DEF RecordsOf
  <2> QED BY <1>1, DeletedLeavesNoGap
<1>3. TraceTypeOK'
  <2>1. /\ emitted' \in 0 .. MaxRecords /\ unfinished' \in 0 .. MaxRecords
        /\ late' \in BOOLEAN /\ queue' \in Seq(1 .. MaxRecords)
    BY DEF TraceInv, TraceTypeOK, TraceAssumption
  <2>2. lost' \subseteq 1 .. MaxRecords
    <3>1. queue \in Seq(1 .. MaxRecords) /\ lost \subseteq 1 .. MaxRecords
      BY DEF TraceInv, TraceTypeOK
    <3>2. \A i \in DOMAIN queue : queue[i] \in 1 .. MaxRecords
      BY <3>1
    <3> QED BY <3>1, <3>2 DEF Range
  <2> QED BY <1>1, <2>1, <2>2 DEF TraceTypeOK, LineFiles
<1>4. Counted' /\ Waiting'
  <2>1. Len(queue') = 0 /\ DOMAIN queue' = {}
    OBVIOUS
  <2>2. emitted \in Nat /\ Len(queue) \in Nat
    BY DEF TraceInv, TraceTypeOK, TraceAssumption
  <2>3. \A r \in RecordsOf(files') : r \in Nat
    BY <1>1 DEF RecordsOf, Range, LineFiles, TraceAssumption
  <2>4. \A r \in RecordsOf(files') : r <= emitted
    BY <1>1, <2>2, <2>3 DEF TraceInv, Waiting
  <2>5. RecordsOf(files)' = RecordsOf(files')
    BY DEF RecordsOf
  <2> QED BY <2>1, <2>2, <2>4, <2>5 DEF Counted, Waiting
<1> QED BY <1>2, <1>3, <1>4 DEF TraceInv

LEMMA LossInv ==
    ASSUME TraceAssumption, TraceInv, WriteFails \/ Kill PROVE TraceInv'
<1>1. /\ HalfWritten \/ UNCHANGED fileVars
      /\ emitted' = emitted /\ queue' = <<>> /\ faults' \in 0 .. MaxFaults
      /\ lost' = lost \cup Range(queue) /\ late' = late
      /\ writer' \in {"dead", "none"} /\ stop' \in {"no", "joining", "over", "raised"}
  BY DEF WriteFails, Kill, TraceInv, TraceTypeOK, TraceAssumption
<1>2. unfinished' = 0
  BY DEF WriteFails, Kill, Abandoned, TraceInv, Counted, TraceTypeOK
<1> QED BY <1>1, <1>2, AllLostInv

LEMMA LifeInv ==
    ASSUME TraceAssumption, TraceInv, Stop \/ Stopped \/ Start \/ UNCHANGED traceVars
    PROVE  TraceInv'
<1>1. UNCHANGED <<emitted, queue, unfinished, files, torn, faults, lost>>
  BY DEF Stop, Stopped, Start, traceVars
<1>2. /\ writer' \in {"runs", "dead", "none"} /\ stop' \in {"no", "joining", "over", "raised"}
      /\ late' \in BOOLEAN
  BY DEF Stop, Stopped, Start, traceVars, TraceInv, TraceTypeOK
<1>3. TraceTypeOK'
  BY <1>1, <1>2 DEF TraceInv, TraceTypeOK
<1>4. RecordsOf(files)' = RecordsOf(files) /\ Sorted(files)' = Sorted(files)
  BY <1>1 DEF RecordsOf, Sorted
<1> QED BY <1>1, <1>3, <1>4 DEF TraceInv, Counted, Waiting, TraceInOrder

\* A record that is written is behind all others, or it is lost.
LEMMA WriteInv == ASSUME TraceAssumption, TraceInv, Write PROVE TraceInv'
<1>1. PICK full \in {FALSE, MayBeFull} :
         LET f == IF full THEN Rotated(files, Backups) ELSE files
             glued == torn /\ ~full
         IN /\ files' = IF glued THEN f ELSE [f EXCEPT ![0] = Append(@, Head(queue))]
            /\ lost' = IF glued THEN lost \cup {Head(queue)} ELSE lost
  BY DEF Write
<1> DEFINE f == IF full THEN Rotated(files, Backups) ELSE files
           glued == torn /\ ~full
           next == Head(queue)
<1>2. /\ files \in LineFiles /\ Sorted(files)
      /\ queue \in Seq(1 .. MaxRecords) /\ queue # <<>> /\ Len(queue) \in Nat \ {0}
      /\ emitted \in Nat /\ emitted' = emitted /\ queue' = Tail(queue)
      /\ Backups \in Nat /\ MaxRecords \in Nat
  BY DEF Write, TraceInv, TraceTypeOK, TraceInOrder, LineFiles, TraceAssumption
<1>3. /\ f \in LineFiles /\ Sorted(f)
      /\ RecordsOf(f) \subseteq RecordsOf(files)
      /\ \A r \in RecordsOf(files) \ RecordsOf(f) : \A q \in RecordsOf(f) : r < q
  <2>1. CASE full
    <3>1. Backups \in 0 .. Backups
      BY <1>2
    <3> QED BY <1>2, <2>1, <3>1, RotatedKeeps
  <2>2. CASE ~full
    BY <1>2, <2>2
  <2> QED BY <2>1, <2>2
<1>4. /\ next = emitted - Len(queue) + 1 /\ next \in 1 .. MaxRecords
      /\ Len(queue') = Len(queue) - 1 /\ queue' \in Seq(1 .. MaxRecords)
      /\ \A i \in DOMAIN queue' : queue'[i] = emitted - Len(queue') + i
  <2>1. 1 \in DOMAIN queue /\ next = queue[1]
    BY <1>2
  <2>2. next = emitted - Len(queue) + 1 /\ next \in 1 .. MaxRecords
    BY <1>2, <2>1 DEF TraceInv, Waiting
  <2>3. Len(queue') = Len(queue) - 1 /\ queue' \in Seq(1 .. MaxRecords)
    BY <1>2
  <2>4. ASSUME NEW i \in DOMAIN queue'
        PROVE  queue'[i] = emitted - Len(queue') + i
    <3>1. i \in 1 .. Len(queue) - 1
      BY <1>2, <2>3
    <3>2. queue'[i] = queue[i + 1] /\ i + 1 \in DOMAIN queue
      BY <1>2, <3>1
    <3> QED BY <1>2, <2>3, <3>1, <3>2 DEF TraceInv, Waiting
  <2> QED BY <2>2, <2>3, <2>4
<1>5. Range(queue) \subseteq Range(queue') \cup {next}
  <2> SUFFICES ASSUME NEW i \in DOMAIN queue, i # 1 PROVE queue[i] \in Range(queue')
    BY <1>2 DEF Range
  <2>1. i - 1 \in DOMAIN queue' /\ queue'[i - 1] = queue[i]
    BY <1>2
  <2> QED BY <2>1 DEF Range
<1>6. Counted' /\ unfinished' \in 0 .. MaxRecords
  <2>1. unfinished' = Len(queue) - 1
    BY DEF Write, TraceInv, Counted
  <2>2. Len(queue) <= MaxRecords
    BY DEF TraceInv, TraceTypeOK, Counted, TraceAssumption
  <2> QED BY <1>2, <1>4, <2>1, <2>2 DEF Counted
<1>7. \A r \in RecordsOf(f) : r \in Nat /\ r < next
  <2>1. \A r \in RecordsOf(files) : r \in Nat
    BY <1>2 DEF RecordsOf, Range, LineFiles
  <2>2. \A r \in RecordsOf(files) : r <= emitted - Len(queue)
    BY DEF TraceInv, Waiting
  <2> HIDE DEF f, next
  <2> QED BY <1>2, <1>3, <1>4, <2>1, <2>2
<1>8. CASE glued
  <2>1. files' = f /\ lost' = lost \cup {next}
    BY <1>1, <1>8
  <2>2. TraceInOrder'
    <3> HIDE DEF f, next
    <3> QED BY <1>2, <1>3, <1>5, <2>1, DeletedLeavesNoGap
  <2>3. TraceTypeOK'
    <3>1. lost' \subseteq 1 .. MaxRecords
      BY <1>4, <2>1 DEF TraceInv, TraceTypeOK
    <3> HIDE DEF f, next
    <3> QED BY <1>2, <1>3, <1>4, <1>6, <2>1, <3>1 DEF Write, TraceInv, TraceTypeOK, LineFiles
  <2>4. Waiting'
    <3>1. RecordsOf(files)' = RecordsOf(f)
      <4> HIDE DEF f
      <4> QED BY <2>1 DEF RecordsOf
    <3> HIDE DEF f, next
    <3> QED BY <1>2, <1>4, <1>7, <3>1 DEF Waiting
  <2> QED BY <1>6, <2>2, <2>3, <2>4 DEF TraceInv
<1>9. CASE ~glued
  <2>1. files' = [f EXCEPT ![0] = Append(f[0], next)] /\ lost' = lost
    BY <1>1, <1>9
  <2> HIDE DEF f, next, glued
  <2>2. /\ 0 \in 0 .. Backups /\ f[0] \in Seq(1 .. MaxRecords)
        /\ files' \in LineFiles /\ files'[0] = Append(f[0], next)
        /\ \A i \in 0 .. Backups : i # 0 => files'[i] = f[i]
    BY <1>2, <1>3, <1>4, <2>1, SMTT(30) DEF LineFiles
  <2>3. Range(files'[0]) = Range(f[0]) \cup {next}
    <3>1. /\ DOMAIN files'[0] = DOMAIN f[0] \cup {Len(f[0]) + 1}
          /\ files'[0][Len(f[0]) + 1] = next
          /\ \A i \in DOMAIN f[0] : files'[0][i] = f[0][i]
      BY <2>2
    <3> QED BY <3>1 DEF Range
  <2>4. RecordsOf(files') = RecordsOf(f) \cup {next}
    BY <2>2, <2>3 DEF RecordsOf
  <2>5. Sorted(files')
    <3>1. ASSUME NEW i \in 0 .. Backups, NEW m \in DOMAIN files'[i], NEW n \in DOMAIN files'[i],
                 m < n
          PROVE  files'[i][m] < files'[i][n]
      <4>1. CASE i # 0
        BY <1>3, <2>2, <3>1, <4>1 DEF Sorted
      <4>2. CASE i = 0 /\ n <= Len(f[0])
        <5>1. m \in DOMAIN f[0] /\ n \in DOMAIN f[0] /\ f[0][m] = files'[0][m]
              /\ f[0][n] = files'[0][n]
          BY <2>2, <3>1, <4>2
        <5> QED BY <1>3, <2>2, <3>1, <4>2, <5>1 DEF Sorted
      <4>3. CASE i = 0 /\ ~(n <= Len(f[0]))
        <5>1. m \in DOMAIN f[0] /\ f[0][m] = files'[0][m] /\ files'[0][n] = next
          BY <2>2, <3>1, <4>3
        <5>2. f[0][m] \in RecordsOf(f)
          BY <2>2, <5>1 DEF RecordsOf, Range
        <5> QED BY <1>7, <4>3, <5>1, <5>2
      <4> QED BY <4>1, <4>2, <4>3
    <3>2. ASSUME NEW new \in 0 .. Backups, NEW old \in 0 .. Backups, new < old,
                 NEW r \in Range(files'[new]), NEW q \in Range(files'[old])
          PROVE  q < r
      <4>1. old # 0 /\ q \in Range(f[old]) /\ q \in RecordsOf(f)
        BY <1>2, <2>2, <3>2 DEF RecordsOf
      <4>2. CASE r \in Range(f[new])
        BY <1>3, <3>2, <4>1, <4>2 DEF Sorted
      <4>3. CASE r \notin Range(f[new])
        <5>1. r = next
          BY <2>2, <2>3, <4>3
        <5> QED BY <1>7, <4>1, <5>1
      <4> QED BY <4>2, <4>3
    <3> QED BY <3>1, <3>2 DEF Sorted
  <2>6. \A r \in RecordsOf(files') :
           r .. emitted \subseteq RecordsOf(files') \cup Range(queue') \cup lost
    <3> SUFFICES ASSUME NEW r \in RecordsOf(files'), NEW n \in r .. emitted
                 PROVE  n \in RecordsOf(files') \cup Range(queue') \cup lost
      OBVIOUS
    <3>1. CASE r = next
      <4>1. CASE n = next
        BY <2>4, <4>1
      <4>2. CASE n # next
        <5>1. n \in next + 1 .. emitted
          BY <1>2, <1>4, <3>1, <4>2
        <5>2. n - next \in 1 .. Len(queue')
          BY <1>2, <1>4, <5>1
        <5>3. queue'[n - next] = emitted - Len(queue') + (n - next)
          BY <1>4, <5>2
        <5>4. emitted - Len(queue') + (n - next) = n /\ n - next \in DOMAIN queue'
          BY <1>2, <1>4, <5>1, <5>2
        <5> QED BY <5>3, <5>4 DEF Range
      <4> QED BY <4>1, <4>2
    <3>2. CASE r # next
      <4>1. r \in RecordsOf(f) /\ r \in Nat
        BY <1>7, <2>4, <3>2
      <4>2. n \in RecordsOf(files) \cup Range(queue) \cup lost
        BY <1>3, <4>1 DEF TraceInv, TraceInOrder
      <4>3. n \in RecordsOf(files) => n \in RecordsOf(f)
        <5>1. ~(n < r)
          BY <1>2, <4>1
        <5> QED BY <1>3, <4>1, <5>1
      <4> QED BY <1>5, <2>4, <4>2, <4>3
    <3> QED BY <3>1, <3>2
  <2>7. TraceInOrder'
    <3>1. RecordsOf(files)' = RecordsOf(files') /\ Sorted(files)' = Sorted(files')
      BY DEF RecordsOf, Sorted
    <3> QED BY <1>2, <2>1, <2>5, <2>6, <3>1 DEF TraceInOrder
  <2>8. TraceTypeOK'
    BY <1>2, <1>4, <1>6, <2>1, <2>2 DEF Write, TraceInv, TraceTypeOK, LineFiles
  <2>9. Waiting'
    <3>1. RecordsOf(files)' = RecordsOf(f) \cup {next}
      BY <2>4 DEF RecordsOf
    <3> QED BY <1>2, <1>4, <1>7, <3>1 DEF Waiting
  <2> QED BY <1>6, <2>7, <2>8, <2>9 DEF TraceInv
<1> QED BY <1>8, <1>9

LEMMA TraceInvNext ==
    ASSUME TraceAssumption, TraceInv, [CallNext]_modelCallVars
    PROVE  TraceInv'
<1>1. CASE \E k \in {1, 2, 3} : Emit(k)
  BY <1>1, EmitInv
<1>2. CASE Write  BY <1>2, WriteInv
<1>3. CASE WriteFails \/ Kill  BY <1>3, LossInv
<1>4. CASE Stop \/ Stopped \/ Start \/ UNCHANGED traceVars  BY <1>4, LifeInv
<1>5. ASSUME CallNext
      PROVE  \/ \E k \in {1, 2, 3} : Emit(k)
             \/ Write \/ WriteFails \/ Kill
             \/ Stop \/ Stopped \/ Start \/ UNCHANGED traceVars
  <2>1. CASE Chat \/ ChatAgain \/ StreamEnds
    BY <2>1 DEF Chat, ChatAgain, Stream, StreamEnds
  <2>2. CASE Token
    BY <2>2 DEF Token, Shown
  <2>3. CASE Posted
    BY <2>3 DEF Posted
  <2>4. CASE Dropped \/ Refused \/ StreamAgain \/ Cancelled
    BY <2>4 DEF Dropped, Refused, StreamAgain, Cancelled
  <2>5. CASE Killed \/ ShutDown \/ TraceStep
    BY <2>5 DEF Killed, ShutDown, TraceStep
  <2> QED BY <1>5, <2>1, <2>2, <2>3, <2>4, <2>5 DEF CallNext
<1>6. UNCHANGED modelCallVars => UNCHANGED traceVars
  BY DEF modelCallVars
<1> QED BY <1>1, <1>2, <1>3, <1>4, <1>5, <1>6

LEMMA TraceInvariant == ASSUME TraceAssumption PROVE CallSpec => []TraceInv
<1>1. CallInit => TraceInv  BY TraceInvInit DEF CallInit
<1>2. TraceInv /\ [CallNext]_modelCallVars => TraceInv'  BY TraceInvNext
<1> QED BY <1>1, <1>2, PTL DEF CallSpec

\* The queue, its count and the files keep their types (TraceWriter): the count
\* that stop waits for is never negative.
THEOREM TraceTyped == CallSpec => []TraceTypeOK
<1>1. TraceInv => TraceTypeOK  BY DEF TraceInv
<1> QED BY <1>1, TraceAssumption, TraceInvariant, PTL

\* The trace is in order and without an unexplained gap, for any number of
\* backups and records and wherever kills and errors interrupt the rotation
\* (TraceWriter._drain, _rotate).
THEOREM TraceInOrderHolds == CallSpec => []TraceInOrder
<1>1. TraceInv => TraceInOrder  BY DEF TraceInv
<1> QED BY <1>1, TraceAssumption, TraceInvariant, PTL
=============================================================================
