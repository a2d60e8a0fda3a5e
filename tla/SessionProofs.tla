--------------------------- MODULE SessionProofs ---------------------------
(***************************************************************************)
(* Theorems about Session: a prompt appended to a clean thread stays and   *)
(* reaches the model, and recovering any thread tidies it, for any number  *)
(* of sessions, runs, steps and kills.                                     *)
(***************************************************************************)
EXTENDS Session, FiniteSetTheorems, SequenceTheorems, WellFoundedInduction, TLAPS

\* Row i is a block or the result of a tool call of step k of run r.
InStep(t, i, r, k) ==
    t[i].whole /\ t[i].kind \in {"head", "call", "result"} /\ t[i].runs = {r} /\ t[i].step = k

\* The blocks of one message follow each other, and so do call and result.
Adjacent(t) ==
    \A i, j \in 1..Len(t) : SameStep(t[i], t[j]) =>
        /\ Has(t, i, "head") /\ Has(t, j, "call") => j = i + 1
        /\ Has(t, i, "call") /\ Has(t, j, "result") => j = i + 1

\* Up to row i every line parses, every message has both blocks and every call
\* its result.
Settled(t, i) ==
    \A j \in 1..i :
        /\ t[j].whole
        /\ t[j].kind = "head" => j < i /\ Has(t, j + 1, "call") /\ SameStep(t[j], t[j + 1])
        /\ t[j].kind = "call" =>
              /\ j > 1 /\ Has(t, j - 1, "head") /\ SameStep(t[j - 1], t[j])
              /\ j < i /\ Has(t, j + 1, "result") /\ SameStep(t[j], t[j + 1])

\* Row i tells of run r's prompt, and nothing before it can be cut off.
SecuredAt(t, r, i) ==
    Settled(t, i) /\ t[i].kind \in {"prompt", "summary"} /\ r \in t[i].runs /\ t[i].eol

Secured(t, r) == \E i \in 1..Len(t) : SecuredAt(t, r, i)

\* No row is about a run that is still to come.
NoneAfter(t, n) == \A i \in 1..Len(t) : t[i].runs \subseteq 1..n

\* Run r has come to step k, and its call of step k is the last row.
UpToStep(t, r, k) == \A i \in 1..Len(t), n \in Nat : InStep(t, i, r, n) => n <= k
CallLast(t, r, k) == \A i \in 1..Len(t) : InStep(t, i, r, k) /\ t[i].kind = "call" => i = Len(t)

\* What holds of the rows a session has on disk, or works on, or has read for a
\* compaction.
Kept(s, t) == Adjacent(t) /\ NoneAfter(t, runs) /\ \A r \in sound[s] : Secured(t, r)

RowsOf(s) ==
    /\ Kept(s, thread[s])
    /\ phase[s] = "running" => Kept(s, context[s])
    /\ compacting[s] => Kept(s, snapshot[s])

\* How far the run is shows in its rows.
StepsOf(s) ==
    /\ phase[s] \in {"accepted", "starting", "running"} =>
          run[s] \in 1..runs /\ UpToStep(thread[s], run[s], step[s])
    /\ phase[s] = "running" => UpToStep(context[s], run[s], step[s])
    /\ phase[s] \in {"idle", "accepted", "starting"} => ~open[s]
    /\ phase[s] = "running" /\ open[s] =>
          CallLast(thread[s], run[s], step[s]) /\ CallLast(context[s], run[s], step[s])

\* The lock is held by a message or a compaction, of a session that is there.
LockOf(s) ==
    /\ mem[s] # "absent" => meta[s] # "absent"
    /\ phase[s] # "idle" \/ compacting[s] => mem[s] # "absent"
    /\ compacting[s] => phase[s] = "idle"

SessionInv(s) == RowsOf(s) /\ StepsOf(s) /\ LockOf(s)

IInv == TypeOK /\ \A s \in Sessions : SessionInv(s)

-----------------------------------------------------------------------------
(* Least and greatest numbers.                                             *)

\* A nonempty set of numbers has a least one.
LEMMA LeastOf ==
    ASSUME NEW S \in SUBSET Nat, S # {}
    PROVE  Min(S) \in S /\ \A x \in S : Min(S) <= x
<1>1. PICK i \in S : \A j \in S : ~(<<j, i>> \in OpToRel(<, Nat))
  BY NatLessThanWellFounded, WFMin
<1>2. \A j \in S : j \in Nat /\ i \in Nat /\ ~(j < i)
  BY <1>1 DEF OpToRel
<1>3. \E x \in S : \A y \in S : x =< y
  BY <1>2
<1> QED
  BY <1>3 DEF Min

\* A nonempty set of numbers below a bound has a greatest one.
LEMMA GreatestOf ==
    ASSUME NEW S \in SUBSET Nat, S # {}, NEW b \in Nat, \A x \in S : x <= b
    PROVE  Max(S) \in S /\ \A x \in S : x <= Max(S)
<1> DEFINE T == {b - x : x \in S}
<1>1. T \in SUBSET Nat /\ T # {}
  <2>1. \A x \in S : b - x \in Nat
    OBVIOUS
  <2> QED BY <2>1
<1>2. Min(T) \in T /\ \A y \in T : Min(T) <= y
  <2> HIDE DEF T
  <2> QED BY <1>1, LeastOf
<1>3. PICK m \in S : Min(T) = b - m
  BY <1>2
<1>4. \A x \in S : b - m <= b - x
  BY <1>2, <1>3
<1>5. \A x \in S : m >= x
  BY <1>4
<1>6. \E x \in S : \A y \in S : x >= y
  BY <1>5
<1>7. Max(S) \in S /\ \A y \in S : Max(S) >= y
  <2> HIDE DEF T
  <2> QED BY <1>6 DEF Max
<1> QED
  BY <1>7

-----------------------------------------------------------------------------
(* What a write leaves.                                                    *)

\* The rows of w are those of t and at most one more, with the label of row;
\* only a last line without its line break is spoilt.
Grows(t, w, row) ==
    /\ Len(w) \in {Len(t), Len(t) + 1}
    /\ \A i \in 1..Len(t) :
          \/ w[i] = t[i]
          \/ i = Len(t) /\ ~t[i].eol /\ ~w[i].whole /\ w[i].runs = t[i].runs
    /\ Len(w) = Len(t) + 1 =>
          /\ w[Len(w)].runs = row.runs /\ w[Len(w)].step = row.step
          /\ w[Len(w)].kind = row.kind

\* A row of the same step as a whole row of t stands right behind it, as call
\* behind head or as result behind call.
Fits(t, row) ==
    \A i \in 1..Len(t) : (t[i].whole /\ SameStep(t[i], row)) =>
        /\ t[i].kind = "head" /\ row.kind = "call" => i = Len(t)
        /\ t[i].kind = "call" /\ row.kind = "result" => i = Len(t)
        /\ ~(t[i].kind = "call" /\ row.kind = "head")
        /\ ~(t[i].kind = "result" /\ row.kind = "call")

\* A row of the kinds a run appends is a row.
LEMMA RowOfType ==
    ASSUME NEW rs \in SUBSET (1..MaxRuns), NEW k \in 0..MaxSteps, NEW kind \in Kinds
    PROVE  /\ RowOf(rs, k, kind) \in Row
           /\ RowOf(rs, k, kind).runs = rs /\ RowOf(rs, k, kind).step = k
           /\ RowOf(rs, k, kind).kind = kind
           /\ RowOf(rs, k, kind).whole /\ RowOf(rs, k, kind).eol
BY DEF RowOf, Row

\* What becomes of a row whose line is cut, glued or given its line break.
LEMMA Reformed ==
    ASSUME NEW x \in Row, NEW a \in BOOLEAN, NEW b \in BOOLEAN
    PROVE  /\ [x EXCEPT !.whole = a, !.eol = b] \in Row
           /\ [x EXCEPT !.whole = a, !.eol = b].runs = x.runs
           /\ [x EXCEPT !.whole = a, !.eol = b].step = x.step
           /\ [x EXCEPT !.whole = a, !.eol = b].kind = x.kind
           /\ [x EXCEPT !.whole = a, !.eol = b].whole = a
           /\ [x EXCEPT !.whole = a, !.eol = b].eol = b
           /\ [x EXCEPT !.eol = b] \in Row
           /\ [x EXCEPT !.eol = b].runs = x.runs
           /\ [x EXCEPT !.eol = b].step = x.step
           /\ [x EXCEPT !.eol = b].kind = x.kind
           /\ [x EXCEPT !.eol = b].whole = x.whole
           /\ [x EXCEPT !.eol = b].eol = b
BY DEF Row

\* Appending, to a list or to the file.
LEMMA AppendGrows ==
    ASSUME NEW t \in Seq(Row), NEW row \in Row
    PROVE  /\ Append(t, row) \in Seq(Row) /\ Grows(t, Append(t, row), row)
           /\ Len(Append(t, row)) = Len(t) + 1
           /\ \A i \in 1..Len(t) : Append(t, row)[i] = t[i]
           /\ Append(t, row)[Len(t) + 1] = row
<1>1. /\ Append(t, row) \in Seq(Row) /\ Len(Append(t, row)) = Len(t) + 1
      /\ \A i \in 1..Len(t) : Append(t, row)[i] = t[i]
      /\ Append(t, row)[Len(t) + 1] = row
  BY AppendProperties
<1> QED
  BY <1>1 DEF Grows

\* A list with another last row.
LEMMA LastReplaced ==
    ASSUME NEW t \in Seq(Row), t # <<>>, NEW e \in Row
    PROVE  /\ Front(t) \o <<e>> \in Seq(Row)
           /\ Len(Front(t) \o <<e>>) = Len(t) /\ (Front(t) \o <<e>>)[Len(t)] = e
           /\ \A i \in 1..Len(t) : i # Len(t) => (Front(t) \o <<e>>)[i] = t[i]
<1> DEFINE n == Len(t)
           u == SubSeq(t, 1, n - 1)
           v == <<e>>
<1>1. n \in Nat \ {0} /\ \A i \in 1..n : t[i] \in Row
  BY EmptySeq, ElementOfSeq
<1>2. \A i \in 1..(n - 1) : t[i] \in Row
  BY <1>1
<1>3. /\ u \in Seq(Row) /\ Len(u) = n - 1
      /\ \A i \in 1..(n - 1) : u[i] = t[i]
  <2>1. 1 \in Int /\ n - 1 \in Int
    BY <1>1
  <2>2. Len(SubSeq(t, 1, n - 1)) = IF 1 <= n - 1 THEN n - 1 - 1 + 1 ELSE 0
    BY <1>2, <2>1, SubSeqProperties
  <2>3. SubSeq(t, 1, n - 1) \in Seq(Row)
        /\ \A i \in 1..(n - 1 - 1 + 1) : SubSeq(t, 1, n - 1)[i] = t[1 + i - 1]
    BY <1>2, <2>1, SubSeqProperties
  <2> HIDE DEF n
  <2> QED BY <1>1, <2>2, <2>3
<1>4. v \in Seq(Row) /\ Len(v) = 1 /\ v[1] = e
  OBVIOUS
<1>5. Front(t) \o <<e>> = u \o v
  BY DEF Front
<1> HIDE DEF u, v
<1>6. /\ u \o v \in Seq(Row) /\ Len(u \o v) = Len(u) + Len(v)
      /\ \A i \in 1..(Len(u) + Len(v)) :
            (u \o v)[i] = IF i <= Len(u) THEN u[i] ELSE v[i - Len(u)]
  BY <1>3, <1>4, ConcatProperties
<1> HIDE DEF n
<1>7. Len(u \o v) = n /\ (u \o v)[n] = e
      /\ \A i \in 1..n : i # n => (u \o v)[i] = t[i]
  BY <1>1, <1>3, <1>4, <1>6
<1> QED
  BY <1>5, <1>6, <1>7 DEF n

LEMMA WriteGrows ==
    ASSUME NEW t \in Seq(Row), NEW row \in Row
    PROVE  /\ Write(t, row) \in Seq(Row) /\ Grows(t, Write(t, row), row)
           /\ Len(Write(t, row)) = Len(t) + 1 => Write(t, row)[Len(t) + 1] = row
           /\ Len(t) = 0 \/ t[Len(t)].eol => Write(t, row) = Append(t, row)
<1>0. Len(t) \in Nat /\ (t = <<>> <=> Len(t) = 0)
  BY EmptySeq, LenProperties
<1>1. CASE t # <<>> /\ ~t[Len(t)].eol
  <2> DEFINE e == [t[Len(t)] EXCEPT !.whole = FALSE, !.eol = TRUE]
             w == Front(t) \o <<e>>
  <2>1. t[Len(t)] \in Row
    BY <1>0, <1>1, ElementOfSeq
  <2>2. e \in Row /\ ~e.whole /\ e.runs = t[Len(t)].runs
    BY <2>1, Reformed
  <2>3. Write(t, row) = w
    BY <1>1 DEF Write, Last
  <2> HIDE DEF e
  <2>4. /\ w \in Seq(Row) /\ Len(w) = Len(t) /\ w[Len(t)] = e
        /\ \A i \in 1..Len(t) : i # Len(t) => w[i] = t[i]
    BY <1>1, <2>2, LastReplaced
  <2> HIDE DEF w
  <2>5. Grows(t, w, row)
    BY <1>0, <1>1, <2>2, <2>4 DEF Grows
  <2> QED BY <1>0, <1>1, <2>3, <2>4, <2>5
<1>2. CASE ~(t # <<>> /\ ~t[Len(t)].eol)
  <2>1. Write(t, row) = Append(t, row)
    BY <1>2 DEF Write, Last
  <2> QED BY <2>1, AppendGrows
<1> QED
  BY <1>0, <1>1, <1>2


\* What a kill inside the write of one row leaves.
LEMMA TornGrows ==
    ASSUME NEW t \in Seq(Row), NEW row \in Row, NEW x \in BOOLEAN,
           Len(Write(t, row)) # Len(t)
    PROVE  LET torn == Write(t, row)
               w == Front(torn) \o <<[Last(torn) EXCEPT !.whole = x, !.eol = FALSE]>>
           IN  w \in Seq(Row) /\ Grows(t, w, row)
<1> DEFINE torn == Write(t, row)
           e == [torn[Len(torn)] EXCEPT !.whole = x, !.eol = FALSE]
           w == Front(torn) \o <<e>>
<1>1. /\ torn \in Seq(Row) /\ Grows(t, torn, row) /\ Len(torn) = Len(t) + 1
      /\ torn[Len(torn)] = row /\ Len(t) \in Nat /\ torn # <<>>
  <2>1. torn \in Seq(Row) /\ Grows(t, torn, row)
        /\ (Len(torn) = Len(t) + 1 => torn[Len(t) + 1] = row)
    BY WriteGrows
  <2>2. Len(t) \in Nat /\ Len(torn) = Len(t) + 1
    BY <2>1, LenProperties DEF Grows
  <2> HIDE DEF torn
  <2> QED BY <2>1, <2>2, EmptySeq
<1>2. e \in Row /\ e.runs = row.runs /\ e.step = row.step /\ e.kind = row.kind
  <2>1. e = [row EXCEPT !.whole = x, !.eol = FALSE]
    BY <1>1
  <2>2. /\ [row EXCEPT !.whole = x, !.eol = FALSE] \in Row
        /\ [row EXCEPT !.whole = x, !.eol = FALSE].runs = row.runs
        /\ [row EXCEPT !.whole = x, !.eol = FALSE].step = row.step
        /\ [row EXCEPT !.whole = x, !.eol = FALSE].kind = row.kind
    BY DEF Row
  <2> QED BY <2>1, <2>2
<1> HIDE DEF e, torn
<1>3. /\ w \in Seq(Row) /\ Len(w) = Len(torn) /\ w[Len(torn)] = e
      /\ \A i \in 1..Len(torn) : i # Len(torn) => w[i] = torn[i]
  BY <1>1, <1>2, LastReplaced
<1>4. \A i \in 1..Len(t) : i \in 1..Len(torn) /\ i # Len(torn)
  BY <1>1
<1> HIDE DEF w
<1>5. Grows(t, w, row)
  BY <1>1, <1>2, <1>3, <1>4 DEF Grows
<1> QED
  BY <1>3, <1>5 DEF w, e, torn, Last

\* A kill during the write of one row, or of the two of a message.
LEMMA CutShortOne ==
    ASSUME NEW t \in Seq(Row), NEW a \in Row, NEW w \in CutShort(t, <<a>>)
    PROVE  w \in Seq(Row) /\ Grows(t, w, a)
<1>0. Grows(t, t, a) /\ SubSeq(<<a>>, 1, 0) = <<>> /\ <<a>>[1] = a
  BY LenProperties, SubSeqEmpty DEF Grows
<1>1. WriteAll(t, <<>>) = t
  BY DEF WriteAll
<1>2. Len(<<a>>) = 1
  OBVIOUS
<1> DEFINE torn == Write(t, a)
<1>3. \/ w = t
      \/ /\ Len(torn) # Len(t)
         /\ \E x \in BOOLEAN :
               w = Front(torn) \o <<[Last(torn) EXCEPT !.whole = x, !.eol = FALSE]>>
  <2>1. PICK k \in 0..(1 - 1) :
             w \in LET done == WriteAll(t, SubSeq(<<a>>, 1, k))
                       tn == Write(done, <<a>>[k + 1])
                   IN  {done} \cup
                       IF Len(tn) = Len(done) THEN {}
                       ELSE {Front(tn) \o <<[Last(tn) EXCEPT !.whole = x, !.eol = FALSE]>>
                                : x \in BOOLEAN}
    BY <1>2, Zenon DEF CutShort
  <2>2. k = 0 /\ k + 1 = 1
    OBVIOUS
  <2>3. w \in {t} \cup
             IF Len(torn) = Len(t) THEN {}
             ELSE {Front(torn) \o <<[Last(torn) EXCEPT !.whole = x, !.eol = FALSE]>>
                      : x \in BOOLEAN}
    BY <1>0, <1>1, <2>1, <2>2, Zenon
  <2> HIDE DEF torn
  <2> QED BY <2>3
<1> QED
  BY <1>0, <1>3, TornGrows

LEMMA CutShortTwo ==
    ASSUME NEW t \in Seq(Row), NEW a \in Row, NEW b \in Row, NEW w \in CutShort(t, <<a, b>>)
    PROVE  w \in Seq(Row) /\ (Grows(t, w, a) \/ Grows(Write(t, a), w, b))
<1> DEFINE v == Write(t, a)
<1>0. v \in Seq(Row) /\ Grows(t, t, a) /\ Grows(v, v, b)
  <2>1. v \in Seq(Row)
    BY WriteGrows
  <2>2. Len(t) \in Nat /\ Len(v) \in Nat
    BY <2>1, LenProperties
  <2> HIDE DEF v
  <2> QED BY <2>1, <2>2 DEF Grows
<1>1. WriteAll(t, <<>>) = t
  BY DEF WriteAll
<1>2. WriteAll(t, <<a>>) = v
  <2>1. Head(<<a>>) = a /\ Tail(<<a>>) = <<>> /\ <<a>> # <<>>
    OBVIOUS
  <2>2. WriteAll(t, <<a>>) = v \o <<>>
    BY <2>1, Zenon DEF WriteAll
  <2> QED BY <1>0, <2>2, ConcatEmptySeq
<1>3. /\ Len(<<a, b>>) = 2 /\ <<a, b>>[1] = a /\ <<a, b>>[2] = b
      /\ SubSeq(<<a, b>>, 1, 0) = <<>> /\ SubSeq(<<a, b>>, 1, 1) = <<a>>
  <2>1. SubSeq(<<a, b>>, 1, 0) = <<>>
    BY SubSeqEmpty
  <2>2. SubSeq(<<a, b>>, 1, 1) = <<a>>
    <3>1. <<a, b>> \in Seq(Row) /\ Len(<<a, b>>) = 2 /\ <<a>> \in Seq(Row) /\ Len(<<a>>) = 1
      OBVIOUS
    <3>2. 1 \in Int /\ \A i \in 1..1 : <<a, b>>[i] \in Row
      OBVIOUS
    <3>3. SubSeq(<<a, b>>, 1, 1) \in Seq(Row)
          /\ Len(SubSeq(<<a, b>>, 1, 1)) = (IF 1 <= 1 THEN 1 - 1 + 1 ELSE 0)
          /\ \A i \in 1..(1 - 1 + 1) : SubSeq(<<a, b>>, 1, 1)[i] = <<a, b>>[1 + i - 1]
      BY <3>2, SubSeqProperties
    <3>4. Len(SubSeq(<<a, b>>, 1, 1)) = 1 /\ SubSeq(<<a, b>>, 1, 1)[1] = a /\ <<a>>[1] = a
      BY <3>3
    <3>5. \A i \in 1..Len(<<a>>) : <<a>>[i] = SubSeq(<<a, b>>, 1, 1)[i]
      BY <3>1, <3>4
    <3> DEFINE u == SubSeq(<<a, b>>, 1, 1)
               x == <<a>>
    <3> HIDE DEF u, x
    <3>6. x \in Seq(Row) /\ u \in Seq(Row) /\ Len(x) = Len(u) /\ \A i \in 1..Len(x) : x[i] = u[i]
      BY <3>1, <3>3, <3>4, <3>5 DEF u, x
    <3>7. x = u
      BY <3>6, SeqEqual
    <3> QED BY <3>7 DEF u, x
  <2> QED BY <2>1, <2>2
<1>4. PICK k \in 0..(2 - 1) :
           w \in LET done == WriteAll(t, SubSeq(<<a, b>>, 1, k))
                     tn == Write(done, <<a, b>>[k + 1])
                 IN  {done} \cup
                     IF Len(tn) = Len(done) THEN {}
                     ELSE {Front(tn) \o <<[Last(tn) EXCEPT !.whole = x, !.eol = FALSE]>>
                              : x \in BOOLEAN}
  BY <1>3, Zenon DEF CutShort
<1>5. CASE k = 0
  <2>1. k + 1 = 1
    BY <1>5
  <2>2. w \in {t} \cup
             IF Len(v) = Len(t) THEN {}
             ELSE {Front(v) \o <<[Last(v) EXCEPT !.whole = x, !.eol = FALSE]>>
                      : x \in BOOLEAN}
    BY <1>1, <1>3, <1>4, <1>5, <2>1, Zenon
  <2>3. \/ w = t
        \/ /\ Len(v) # Len(t)
           /\ \E x \in BOOLEAN : w = Front(v) \o <<[Last(v) EXCEPT !.whole = x, !.eol = FALSE]>>
    <3> HIDE DEF v
    <3> QED BY <2>2
  <2> QED BY <1>0, <2>3, TornGrows
<1>6. CASE k = 1
  <2> DEFINE torn == Write(v, b)
  <2>1. k + 1 = 2
    BY <1>6
  <2>2. w \in {v} \cup
             IF Len(torn) = Len(v) THEN {}
             ELSE {Front(torn) \o <<[Last(torn) EXCEPT !.whole = x, !.eol = FALSE]>>
                      : x \in BOOLEAN}
    BY <1>2, <1>3, <1>4, <1>6, <2>1, Zenon
  <2>3. \/ w = v
        \/ /\ Len(torn) # Len(v)
           /\ \E x \in BOOLEAN :
               w = Front(torn) \o <<[Last(torn) EXCEPT !.whole = x, !.eol = FALSE]>>
    <3> HIDE DEF torn, v
    <3> QED BY <2>2
  <2> HIDE DEF v
  <2> QED BY <1>0, <2>3, TornGrows DEF v
<1> QED
  BY <1>5, <1>6

-----------------------------------------------------------------------------
(* What more rows keep.                                                    *)

\* Which row tells of a prompt does not change with the line breaks of the
\* rows before it.
LEMMA SecuredAlike ==
    ASSUME NEW t \in Seq(Row), NEW w \in Seq(Row), NEW r, NEW i \in 1..Len(t),
           SecuredAt(t, r, i), i <= Len(w), w[i].eol,
           \A j \in 1..i : /\ w[j].runs = t[j].runs /\ w[j].step = t[j].step
                           /\ w[j].kind = t[j].kind /\ w[j].whole = t[j].whole
    PROVE  SecuredAt(w, r, i) /\ Secured(w, r)
<1>1. Len(t) \in Nat /\ Len(w) \in Nat /\ i \in 1..Len(w) /\ i \in 1..i
  BY LenProperties
<1>2. Settled(w, i)
  <2> SUFFICES ASSUME NEW j \in 1..i
               PROVE  /\ w[j].whole
                      /\ w[j].kind = "head" =>
                            j < i /\ Has(w, j + 1, "call") /\ SameStep(w[j], w[j + 1])
                      /\ w[j].kind = "call" =>
                            /\ j > 1 /\ Has(w, j - 1, "head") /\ SameStep(w[j - 1], w[j])
                            /\ j < i /\ Has(w, j + 1, "result") /\ SameStep(w[j], w[j + 1])
    BY DEF Settled
  <2>1. /\ t[j].whole
        /\ t[j].kind = "head" => j < i /\ Has(t, j + 1, "call") /\ SameStep(t[j], t[j + 1])
        /\ t[j].kind = "call" =>
              /\ j > 1 /\ Has(t, j - 1, "head") /\ SameStep(t[j - 1], t[j])
              /\ j < i /\ Has(t, j + 1, "result") /\ SameStep(t[j], t[j + 1])
    BY DEF SecuredAt, Settled
  <2>2. j \in Nat /\ (j < i => j + 1 \in 1..i) /\ (j > 1 => j - 1 \in 1..i)
    BY <1>1
  <2>3. CASE t[j].kind = "head"
    BY <2>1, <2>2, <2>3 DEF Has, SameStep
  <2>4. CASE t[j].kind = "call"
    BY <2>1, <2>2, <2>4 DEF Has, SameStep
  <2>5. CASE t[j].kind \notin {"head", "call"}
    BY <2>1, <2>5
  <2> QED BY <2>3, <2>4, <2>5
<1> QED
  BY <1>1, <1>2 DEF Secured, SecuredAt

LEMMA GrowsSecured ==
    ASSUME NEW t \in Seq(Row), NEW w \in Seq(Row), NEW row \in Row, Grows(t, w, row),
           NEW r, Secured(t, r)
    PROVE  Secured(w, r)
<1>1. PICK i \in 1..Len(t) : SecuredAt(t, r, i)
  BY DEF Secured
<1>2. \A j \in 1..i : j \in 1..Len(t) /\ (j = Len(t) => j = i)
  BY LenProperties
<1>3. \A j \in 1..i : w[j] = t[j]
  BY <1>1, <1>2 DEF Grows, SecuredAt
<1>4. i <= Len(w) /\ i \in 1..i
  BY LenProperties DEF Grows
<1> QED
  BY <1>1, <1>3, <1>4, SecuredAlike DEF SecuredAt

LEMMA GrowsNoneAfter ==
    ASSUME NEW t \in Seq(Row), NEW w \in Seq(Row), NEW row \in Row, Grows(t, w, row),
           NEW n \in Nat, NoneAfter(t, n), row.runs \subseteq 1..n
    PROVE  NoneAfter(w, n)
<1>1. \A i \in 1..Len(w) : i \in 1..Len(t) \/ (i = Len(w) /\ Len(w) = Len(t) + 1)
  BY LenProperties DEF Grows
<1> QED
  BY <1>1 DEF Grows, NoneAfter

LEMMA GrowsUpToStep ==
    ASSUME NEW t \in Seq(Row), NEW w \in Seq(Row), NEW row \in Row, Grows(t, w, row),
           NEW r, NEW k \in Nat, UpToStep(t, r, k), row.runs = {r} => row.step <= k
    PROVE  UpToStep(w, r, k)
<1>1. \A i \in 1..Len(w) : i \in 1..Len(t) \/ (i = Len(w) /\ Len(w) = Len(t) + 1)
  BY LenProperties DEF Grows
<1> SUFFICES ASSUME NEW i \in 1..Len(w), NEW n \in Nat, InStep(w, i, r, n) PROVE n <= k
  BY DEF UpToStep
<1>2. CASE i \in 1..Len(t)
  BY <1>2 DEF Grows, UpToStep, InStep
<1>3. CASE i = Len(w) /\ Len(w) = Len(t) + 1
  BY <1>3 DEF Grows, InStep
<1> QED
  BY <1>1, <1>2, <1>3

LEMMA GrowsAdjacent ==
    ASSUME NEW t \in Seq(Row), NEW w \in Seq(Row), NEW row \in Row, Grows(t, w, row),
           Adjacent(t), Fits(t, row)
    PROVE  Adjacent(w)
<1>0. Len(t) \in Nat
  BY LenProperties
<1>1. \A i \in 1..Len(w) : i \in 1..Len(t) \/ (i = Len(w) /\ Len(w) = Len(t) + 1)
  BY LenProperties DEF Grows
<1> SUFFICES ASSUME NEW i \in 1..Len(w), NEW j \in 1..Len(w), SameStep(w[i], w[j]),
                    \/ Has(w, i, "head") /\ Has(w, j, "call")
                    \/ Has(w, i, "call") /\ Has(w, j, "result")
             PROVE  j = i + 1
  BY DEF Adjacent
<1>2. CASE i \in 1..Len(t) /\ j \in 1..Len(t)
  <2>1. w[i] = t[i] /\ w[j] = t[j]
    BY <1>2 DEF Grows, Has
  <2> QED BY <1>2, <2>1 DEF Adjacent, Has
<1>3. CASE i \in 1..Len(t) /\ j = Len(t) + 1 /\ Len(w) = Len(t) + 1
  <2>1. w[i] = t[i]
    BY <1>3 DEF Grows, Has
  <2>2. SameStep(t[i], row) /\ t[i].whole /\ row.kind = w[j].kind
    BY <1>3, <2>1 DEF Grows, SameStep, Has
  <2>3. i = Len(t)
    BY <1>3, <2>1, <2>2 DEF Fits, Has
  <2> QED BY <1>3, <2>3
<1>4. CASE j \in 1..Len(t) /\ i = Len(t) + 1 /\ Len(w) = Len(t) + 1
  <2>1. w[j] = t[j]
    BY <1>4 DEF Grows, Has
  <2>2. SameStep(t[j], row) /\ t[j].whole /\ row.kind = w[i].kind
    BY <1>4, <2>1 DEF Grows, SameStep, Has
  <2> QED BY <1>4, <2>1, <2>2 DEF Fits, Has
<1>5. CASE i = Len(w) /\ j = Len(w)
  BY <1>5 DEF Has
<1> QED
  BY <1>1, <1>2, <1>3, <1>4, <1>5

-----------------------------------------------------------------------------
(* Recovery of a damaged thread.                                           *)

\* The rows that would have to go: what is half there or waits for a result.
Broken(t) == Pending(t, Len(t)) \cup HalfMessages(t)

\* A message begins at its row or the one before, and not behind another kind.
LEMMA StartOfMessage ==
    ASSUME NEW t \in Seq(Row), NEW i \in 1..Len(t)
    PROVE  /\ MessageStart(t, i) \in 1..i
           /\ \/ MessageStart(t, i) = i
              \/ MessageStart(t, i) = i - 1 /\ Has(t, i - 1, "head") /\ Has(t, i, "call")
BY LenProperties DEF MessageStart

\* Rows that are half there or wait are blocks of a message.
LEMMA BrokenRows ==
    ASSUME NEW t \in Seq(Row), NEW i \in Broken(t)
    PROVE  i \in 1..Len(t) /\ (Has(t, i, "head") \/ Has(t, i, "call"))
BY LenProperties DEF Broken, Pending, HalfMessages

\* The cut lies behind the last row up to which everything is balanced, or
\* before the first message that is broken, whichever comes first.
LEMMA CutPlace ==
    ASSUME NEW t \in Seq(Row)
    PROVE  \E n \in 0..Len(t) :
              /\ Balanced(t, n)
              /\ \A i \in 1..Len(t) : Balanced(t, i) => i <= n
              /\ KeptRows(t) \in 0..n
              /\ \A i \in Broken(t) : KeptRows(t) <= MessageStart(t, i) - 1
              /\ KeptRows(t) = n \/ \E i \in Broken(t) : KeptRows(t) = MessageStart(t, i) - 1
<1> DEFINE last == {0} \cup {i \in 1..Len(t) : Balanced(t, i)}
           starts == {MessageStart(t, i) - 1 : i \in Broken(t)}
           n == Max(last)
<1>0. Len(t) \in Nat
  BY LenProperties
<1>1. last \in SUBSET Nat /\ last # {} /\ \A x \in last : x <= Len(t)
  BY <1>0
<1>2. n \in last /\ \A x \in last : x <= n
  <2> HIDE DEF last
  <2> QED BY <1>0, <1>1, GreatestOf
<1>3. Balanced(t, 0)
  BY DEF Balanced, Pending
<1>4. n \in 0..Len(t) /\ Balanced(t, n) /\ \A i \in 1..Len(t) : Balanced(t, i) => i <= n
  <2>1. \A x \in last : x \in 0..Len(t) /\ Balanced(t, x)
    BY <1>0, <1>3
  <2>2. \A i \in 1..Len(t) : Balanced(t, i) => i \in last
    OBVIOUS
  <2> HIDE DEF last, n
  <2> QED BY <1>2, <2>1, <2>2
<1>5. starts \in SUBSET Nat
  <2>1. \A i \in Broken(t) : MessageStart(t, i) - 1 \in Nat
    BY BrokenRows, StartOfMessage
  <2> QED BY <2>1
<1>6. KeptRows(t) = IF starts = {} \/ Min(starts) > n THEN n ELSE Min(starts)
  BY DEF KeptRows, Broken
<1>7. starts # {} => Min(starts) \in starts /\ \A x \in starts : Min(starts) <= x
  <2> HIDE DEF starts
  <2> QED BY <1>5, LeastOf
<1>8. \A i \in Broken(t) : MessageStart(t, i) - 1 \in starts
  OBVIOUS
<1>9. \A x \in starts : \E i \in Broken(t) : x = MessageStart(t, i) - 1
  OBVIOUS
<1> HIDE DEF starts, n
<1>10. KeptRows(t) \in 0..n /\ \A x \in starts : KeptRows(t) <= x
  <2>1. CASE starts = {}
    BY <1>4, <1>6, <2>1
  <2>2. CASE starts # {}
    <3>1. Min(starts) \in Nat /\ \A x \in starts : x \in Nat /\ Min(starts) <= x
      BY <1>5, <1>7, <2>2
    <3> QED BY <1>4, <1>6, <2>2, <3>1
  <2> QED BY <2>1, <2>2
<1>11. KeptRows(t) = n \/ KeptRows(t) \in starts
  BY <1>6, <1>7
<1> QED
  BY <1>4, <1>8, <1>9, <1>10, <1>11

\* A recovered thread is the thread itself or what is before the cut.
LEMMA RecoveredRows ==
    ASSUME NEW t \in Seq(Row)
    PROVE  /\ Recovered(t) \in Seq(Row)
           /\ \/ Recovered(t) = t /\ ~Damaged(t) /\ Pending(t, Len(t)) = {}
              \/ /\ Len(Recovered(t)) = KeptRows(t) /\ KeptRows(t) <= Len(t)
                 /\ \A i \in 1..KeptRows(t) :
                       /\ Recovered(t)[i].runs = t[i].runs
                       /\ Recovered(t)[i].step = t[i].step
                       /\ Recovered(t)[i].kind = t[i].kind
                       /\ Recovered(t)[i].whole /\ t[i].whole
                       /\ Recovered(t)[i].eol
<1>1. CASE ~Damaged(t) /\ Pending(t, Len(t)) = {}
  BY <1>1 DEF Recovered
<1>2. CASE ~(~Damaged(t) /\ Pending(t, Len(t)) = {})
  <2> DEFINE m == KeptRows(t)
             w == [i \in 1..m |-> [t[i] EXCEPT !.eol = TRUE]]
  <2>1. PICK n \in 0..Len(t) : Balanced(t, n) /\ m \in 0..n
    BY CutPlace
  <2>2. m \in Nat /\ m <= Len(t) /\ \A i \in 1..m : i \in 1..n /\ i \in 1..Len(t)
    BY <2>1, LenProperties
  <2> HIDE DEF m
  <2>3. \A i \in 1..m : t[i] \in Row /\ t[i].whole
    BY <2>1, <2>2, ElementOfSeq DEF Balanced
  <2>4. \A i \in 1..m : w[i] = [t[i] EXCEPT !.eol = TRUE]
    OBVIOUS
  <2>5. \A i \in 1..m : /\ w[i] \in Row /\ w[i].runs = t[i].runs /\ w[i].step = t[i].step
                        /\ w[i].kind = t[i].kind /\ w[i].whole = t[i].whole /\ w[i].eol
    <3> HIDE DEF w
    <3> SUFFICES ASSUME NEW i \in 1..m
                 PROVE /\ w[i] \in Row /\ w[i].runs = t[i].runs /\ w[i].step = t[i].step
                        /\ w[i].kind = t[i].kind /\ w[i].whole = t[i].whole /\ w[i].eol
      OBVIOUS
    <3> DEFINE x == t[i]
    <3>1. x \in Row /\ w[i] = [x EXCEPT !.eol = TRUE]
      BY <2>3, <2>4
    <3> HIDE DEF x
    <3>2. /\ w[i] \in Row /\ w[i].runs = x.runs /\ w[i].step = x.step
          /\ w[i].kind = x.kind /\ w[i].whole = x.whole /\ w[i].eol
      BY <3>1 DEF Row
    <3> QED BY <3>2 DEF x
  <2>6. w \in Seq(Row) /\ Len(w) = m
    <3>1. w \in [1..m -> Row] /\ DOMAIN w = 1..m
      BY <2>5
    <3> HIDE DEF w
    <3> QED BY <2>2, <3>1
  <2>7. Recovered(t) = w
    BY <1>2 DEF Recovered, m
  <2> HIDE DEF w
  <2> QED BY <2>2, <2>3, <2>5, <2>6, <2>7 DEF m
<1> QED
  BY <1>1, <1>2

\* Nothing that is broken begins before a row that is secured.
LEMMA SecuredBeforeBroken ==
    ASSUME NEW t \in Seq(Row), NEW r, NEW i \in 1..Len(t), SecuredAt(t, r, i)
    PROVE  \A j \in Broken(t) : MessageStart(t, j) - 1 >= i
<1>0. Len(t) \in Nat /\ i \in 1..i
  BY LenProperties
<1>1. SecuredAt(t, r, i)
  OBVIOUS
<1>2. \A j \in Broken(t) : j > i
  <2> SUFFICES ASSUME NEW j \in Broken(t), j <= i PROVE FALSE
    BY <1>0, BrokenRows
  <2>0. j \in 1..i /\ j \in 1..Len(t)
    BY <1>0, BrokenRows
  <2>1. /\ t[j].whole
        /\ t[j].kind = "head" => j < i /\ Has(t, j + 1, "call") /\ SameStep(t[j], t[j + 1])
        /\ t[j].kind = "call" =>
              /\ j > 1 /\ Has(t, j - 1, "head") /\ SameStep(t[j - 1], t[j])
              /\ j < i /\ Has(t, j + 1, "result") /\ SameStep(t[j], t[j + 1])
    BY <1>1, <2>0 DEF SecuredAt, Settled
  <2>2. CASE j \in Pending(t, Len(t))
    <3>1. /\ t[j].kind = "call"
          /\ \A k \in (j + 1)..Len(t) : ~(Has(t, k, "result") /\ SameStep(t[j], t[k]))
      BY <2>2 DEF Pending, Has
    <3>2. j < i => j + 1 \in (j + 1)..Len(t)
      BY <1>0, <2>0
    <3> QED BY <2>1, <3>1, <3>2
  <2>3. CASE j \in HalfMessages(t)
    <3>1. (j < i => j + 1 \in 1..Len(t)) /\ (j > 1 => j - 1 \in 1..Len(t))
      BY <1>0, <2>0
    <3>2. \/ Has(t, j, "head")
             /\ \A k \in 1..Len(t) : ~(Has(t, k, "call") /\ SameStep(t[j], t[k]))
          \/ Has(t, j, "call")
             /\ \A k \in 1..Len(t) : ~(Has(t, k, "head") /\ SameStep(t[j], t[k]))
      BY <2>3 DEF HalfMessages
    <3> QED BY <2>1, <3>1, <3>2 DEF Has, SameStep
  <2> QED BY <2>2, <2>3 DEF Broken
<1>3. \A j \in Broken(t) : MessageStart(t, j) - 1 >= i
  <2> SUFFICES ASSUME NEW j \in Broken(t) PROVE MessageStart(t, j) - 1 >= i
    OBVIOUS
  <2>1. j > i /\ j \in 1..Len(t)
    BY <1>2, BrokenRows
  <2>2. CASE MessageStart(t, j) = j
    BY <1>0, <2>1, <2>2
  <2>3. CASE MessageStart(t, j) = j - 1 /\ Has(t, j - 1, "head")
    <3>1. j - 1 # i
      BY <1>1, <2>3 DEF SecuredAt, Has
    <3> QED BY <1>0, <2>1, <2>3, <3>1
  <2> QED BY <2>1, <2>2, <2>3, StartOfMessage
<1> QED
  BY <1>3

\* Recovery cuts nothing off that is settled.
LEMMA RecoveredSecured ==
    ASSUME NEW t \in Seq(Row), NEW r, Secured(t, r)
    PROVE  Secured(Recovered(t), r)
<1>1. PICK i \in 1..Len(t) : SecuredAt(t, r, i)
  BY DEF Secured
<1>0. Len(t) \in Nat /\ i \in 1..i
  BY LenProperties
<1>2. PICK n \in 0..Len(t) :
              /\ \A j \in 1..Len(t) : Balanced(t, j) => j <= n
              /\ KeptRows(t) \in 0..n
              /\ KeptRows(t) = n \/ \E j \in Broken(t) : KeptRows(t) = MessageStart(t, j) - 1
  BY CutPlace
<1>3. Pending(t, i) = {}
  <2> SUFFICES ASSUME NEW j \in Pending(t, i) PROVE FALSE
    OBVIOUS
  <2>1. j \in 1..i /\ Has(t, j, "call")
        /\ \A k \in (j + 1)..i : ~(Has(t, k, "result") /\ SameStep(t[j], t[k]))
    BY DEF Pending
  <2>2. j < i /\ Has(t, j + 1, "result") /\ SameStep(t[j], t[j + 1])
    BY <1>1, <2>1 DEF SecuredAt, Settled, Has
  <2>3. j + 1 \in (j + 1)..i
    BY <1>0, <2>1, <2>2
  <2> QED BY <2>1, <2>2, <2>3
<1>4. i <= n
  BY <1>1, <1>2, <1>3 DEF Balanced, SecuredAt, Settled
<1>6. \A j \in Broken(t) : MessageStart(t, j) - 1 >= i
  BY <1>1, SecuredBeforeBroken
<1>7. i <= KeptRows(t)
  <2>1. \A j \in Broken(t) : MessageStart(t, j) - 1 \in Int
    BY BrokenRows, StartOfMessage
  <2> QED BY <1>0, <1>2, <1>4, <1>6, <2>1
<1>8. CASE Recovered(t) = t
  BY <1>8
<1>9. CASE /\ Len(Recovered(t)) = KeptRows(t) /\ KeptRows(t) <= Len(t)
           /\ \A j \in 1..KeptRows(t) :
                       /\ Recovered(t)[j].runs = t[j].runs
                       /\ Recovered(t)[j].step = t[j].step
                       /\ Recovered(t)[j].kind = t[j].kind
                       /\ Recovered(t)[j].whole /\ t[j].whole
                       /\ Recovered(t)[j].eol
  <2>1. \A j \in 1..i : j \in 1..KeptRows(t)
    BY <1>0, <1>2, <1>7
  <2>2. \A j \in 1..KeptRows(t) : Recovered(t)[j].whole = t[j].whole
    <3>1. \A j \in 1..KeptRows(t) : Recovered(t)[j] \in Row /\ t[j] \in Row
      BY <1>2, <1>9, <1>0, RecoveredRows, ElementOfSeq
    <3> QED BY <1>9, <3>1 DEF Row
  <2>3. /\ Recovered(t) \in Seq(Row) /\ i <= Len(Recovered(t)) /\ Recovered(t)[i].eol
        /\ \A j \in 1..i : /\ Recovered(t)[j].runs = t[j].runs
                           /\ Recovered(t)[j].step = t[j].step
                           /\ Recovered(t)[j].kind = t[j].kind
                           /\ Recovered(t)[j].whole = t[j].whole
    BY <1>0, <1>7, <1>9, <2>1, <2>2, RecoveredRows
  <2> QED BY <1>1, <2>3, SecuredAlike
<1> QED
  BY <1>8, <1>9, RecoveredRows

\* Recovering a thread whose messages are adjacent leaves nothing half there
\* and no call without its result.
LEMMA RecoveredTidy ==
    ASSUME NEW t \in Seq(Row), Adjacent(t)
    PROVE  ~Damaged(Recovered(t)) /\ Pending(Recovered(t), Len(Recovered(t))) = {}
<1> DEFINE m == KeptRows(t)
           w == Recovered(t)
<1>0. Len(t) \in Nat
  BY LenProperties
<1>1. CASE w = t /\ ~Damaged(t) /\ Pending(t, Len(t)) = {}
  BY <1>1
<1>2. CASE /\ Len(w) = m /\ m <= Len(t)
           /\ \A i \in 1..m :
                 /\ w[i].runs = t[i].runs /\ w[i].step = t[i].step
                 /\ w[i].kind = t[i].kind /\ w[i].whole /\ t[i].whole /\ w[i].eol
  <2>1. PICK n \in 0..Len(t) :
                /\ Balanced(t, n)
                /\ \A i \in 1..Len(t) : Balanced(t, i) => i <= n
                /\ m \in 0..n
                /\ \A i \in Broken(t) : m <= MessageStart(t, i) - 1
                /\ m = n \/ \E i \in Broken(t) : m = MessageStart(t, i) - 1
    BY CutPlace
  <2>2. m \in Nat /\ n \in Nat /\ m <= n /\ n <= Len(t)
    BY <1>0, <2>1
  <2> HIDE DEF m, w
  <2>3. \A i \in Broken(t) : /\ i \in 1..Len(t) /\ MessageStart(t, i) \in 1..i
                             /\ m + 1 <= MessageStart(t, i)
    BY <2>1, <2>2, BrokenRows, StartOfMessage
  \* nothing that is kept is broken
  <2>4. \A i \in 1..m : i \notin Broken(t)
    BY <2>2, <2>3
  \* a message that begins right behind the cut begins with its first block
  <2>5. ASSUME m # n
        PROVE  /\ m + 1 \in 1..Len(t)
               /\ Has(t, m + 1, "head") \/ Has(t, m + 1, "call")
               /\ m > 0 /\ Has(t, m + 1, "call") /\ Has(t, m, "head") => ~SameStep(t[m], t[m + 1])
    <3>1. PICK i \in Broken(t) : m + 1 = MessageStart(t, i)
      BY <2>1, <2>2, <2>3, <2>5
    <3>2. i \in 1..Len(t) /\ (Has(t, i, "head") \/ Has(t, i, "call"))
      BY BrokenRows
    <3>3. CASE MessageStart(t, i) = i
      <4>1. m + 1 = i
        BY <3>1, <3>3
      <4>2. m > 0 /\ Has(t, m + 1, "call") /\ Has(t, m, "head") => ~SameStep(t[m], t[m + 1])
        <5> SUFFICES ASSUME m > 0, Has(t, i, "call"), Has(t, i - 1, "head"),
                            SameStep(t[i - 1], t[i])
                     PROVE  FALSE
          BY <2>2, <4>1
        <5>1. i > 1
          BY <2>2, <4>1
        <5>2. MessageStart(t, i) = i - 1
          BY <5>1 DEF MessageStart
        <5> QED BY <3>2, <3>3, <5>2
      <4> QED BY <3>2, <4>1, <4>2
    <3>4. CASE MessageStart(t, i) = i - 1 /\ Has(t, i - 1, "head")
      <4>1. m + 1 = i - 1 /\ m + 1 \in 1..Len(t)
        BY <2>2, <3>1, <3>2, <3>4
      <4>2. ~Has(t, m + 1, "call")
        BY <3>4, <4>1 DEF Has
      <4> QED BY <3>4, <4>1, <4>2
    <3> QED BY <3>2, <3>3, <3>4, StartOfMessage
  \* a kept call has its result and its text
  <2>6. ASSUME NEW i \in 1..m, Has(t, i, "call")
        PROVE  /\ i + 1 \in 1..m /\ Has(t, i + 1, "result") /\ SameStep(t[i], t[i + 1])
               /\ i - 1 \in 1..m /\ Has(t, i - 1, "head") /\ SameStep(t[i - 1], t[i])
    <3>0. i \in 1..n /\ i \in 1..Len(t)
      BY <2>2
    <3>1. PICK k \in (i + 1)..n : Has(t, k, "result") /\ SameStep(t[i], t[k])
      BY <2>1, <2>6, <3>0 DEF Balanced, Pending
    <3>2. k \in 1..Len(t) /\ k = i + 1
      BY <2>2, <2>6, <3>0, <3>1 DEF Adjacent
    <3>3. i + 1 <= m
      <4> SUFFICES ASSUME i + 1 > m PROVE FALSE
        BY <2>2
      <4>1. i = m /\ m # n
        BY <2>2, <3>1, <3>2
      <4>2. Has(t, m + 1, "head") \/ Has(t, m + 1, "call")
        BY <2>5, <4>1
      <4> QED BY <3>1, <3>2, <4>1, <4>2 DEF Has
    <3>4. PICK j \in 1..Len(t) : Has(t, j, "head") /\ SameStep(t[i], t[j])
      BY <2>4, <2>6, <3>0 DEF Broken, HalfMessages
    <3>5. SameStep(t[j], t[i])
      BY <3>4 DEF SameStep
    <3>6. i = j + 1
      BY <2>6, <3>0, <3>4, <3>5 DEF Adjacent
    <3>7. i - 1 = j /\ i - 1 \in 1..m
      BY <2>2, <3>6
    <3> QED BY <2>2, <3>1, <3>2, <3>3, <3>4, <3>5, <3>7
  \* a kept text of a message has its call
  <2>7. ASSUME NEW i \in 1..m, Has(t, i, "head")
        PROVE  i + 1 \in 1..m /\ Has(t, i + 1, "call") /\ SameStep(t[i], t[i + 1])
    <3>0. i \in 1..n /\ i \in 1..Len(t)
      BY <2>2
    <3>1. PICK k \in 1..Len(t) : Has(t, k, "call") /\ SameStep(t[i], t[k])
      BY <2>4, <2>7, <3>0 DEF Broken, HalfMessages
    <3>2. k = i + 1
      BY <2>7, <3>0, <3>1 DEF Adjacent
    <3>3. i + 1 <= m
      <4> SUFFICES ASSUME i + 1 > m PROVE FALSE
        BY <2>2
      <4>1. i = m /\ k = m + 1 /\ m > 0
        BY <2>2, <3>2
      <4>2. m = n
        BY <2>5, <2>7, <3>1, <4>1
      <4>3. MessageStart(t, k) = m
        <5>1. k > 1 /\ k - 1 = i
          BY <2>2, <4>1
        <5> QED BY <2>7, <3>1, <4>1, <5>1 DEF MessageStart
      <4>4. k \notin Broken(t)
        BY <2>2, <2>3, <4>3
      <4>5. PICK q \in (k + 1)..Len(t) : Has(t, q, "result") /\ SameStep(t[k], t[q])
        BY <3>1, <4>4, <1>0 DEF Broken, Pending
      <4>6. q \in 1..Len(t) /\ q = k + 1
        BY <3>1, <4>5 DEF Adjacent
      <4>7. Balanced(t, q)
        <5>1. \A x \in 1..q : x \in 1..n \/ x = k \/ x = q
          BY <2>2, <4>1, <4>2, <4>6
        <5>2. \A x \in 1..q : t[x].whole
          BY <2>1, <3>1, <4>5, <5>1 DEF Balanced, Has
        <5>3. ASSUME NEW x \in Pending(t, q) PROVE FALSE
          <6>1. /\ x \in 1..q /\ Has(t, x, "call")
                /\ \A y \in (x + 1)..q : ~(Has(t, y, "result") /\ SameStep(t[x], t[y]))
            BY <5>3 DEF Pending
          <6>2. CASE x \in 1..n
            <7>1. \A y \in (x + 1)..n : y \in (x + 1)..q
              BY <2>2, <4>1, <4>2, <4>6
            <7>2. x \in Pending(t, n)
              BY <6>1, <6>2, <7>1 DEF Pending
            <7> QED BY <2>1, <7>2 DEF Balanced
          <6>3. CASE x = k
            <7>1. q \in (x + 1)..q
              BY <4>5, <4>6, <6>3
            <7> QED BY <4>5, <6>1, <6>3, <7>1
          <6>4. CASE x = q
            BY <4>5, <6>1, <6>4 DEF Has
          <6> QED BY <5>1, <6>1, <6>2, <6>3, <6>4
        <5> QED BY <5>2, <5>3 DEF Balanced
      <4> QED BY <2>1, <2>2, <4>1, <4>2, <4>6, <4>7
    <3> QED BY <2>2, <3>1, <3>2, <3>3
  <2>8. \A i \in 1..m, kind \in Kinds : Has(w, i, kind) <=> Has(t, i, kind)
    BY <1>2 DEF Has
  <2>9. \A i, j \in 1..m : SameStep(w[i], w[j]) <=> SameStep(t[i], t[j])
    BY <1>2 DEF SameStep
  <2>10. {"head", "call", "result"} \subseteq Kinds
    BY DEF Kinds
  <2>11. Pending(w, Len(w)) = {}
    <3> SUFFICES ASSUME NEW i \in Pending(w, Len(w)) PROVE FALSE
      OBVIOUS
    <3>1. i \in 1..m /\ Has(w, i, "call")
          /\ \A k \in (i + 1)..m : ~(Has(w, k, "result") /\ SameStep(w[i], w[k]))
      BY <1>2 DEF Pending
    <3>2. i + 1 \in 1..m /\ Has(t, i + 1, "result") /\ SameStep(t[i], t[i + 1])
      BY <2>6, <2>8, <2>10, <3>1
    <3>3. i + 1 \in (i + 1)..m
      BY <2>2, <3>1, <3>2
    <3> QED BY <2>8, <2>9, <2>10, <3>1, <3>2, <3>3
  <2>12. HalfMessages(w) = {}
    <3> SUFFICES ASSUME NEW i \in HalfMessages(w) PROVE FALSE
      OBVIOUS
    <3>0. i \in 1..m
      BY <1>2 DEF HalfMessages
    <3>1. CASE Has(w, i, "head") /\ \A j \in 1..m : ~(Has(w, j, "call") /\ SameStep(w[i], w[j]))
      BY <2>7, <2>8, <2>9, <2>10, <3>0, <3>1
    <3>2. CASE Has(w, i, "call") /\ \A j \in 1..m : ~(Has(w, j, "head") /\ SameStep(w[i], w[j]))
      <4>1. i - 1 \in 1..m /\ Has(t, i - 1, "head") /\ SameStep(t[i - 1], t[i])
        BY <2>6, <2>8, <2>10, <3>0, <3>2
      <4>2. SameStep(t[i], t[i - 1])
        BY <4>1 DEF SameStep
      <4> QED BY <2>8, <2>9, <2>10, <3>0, <3>2, <4>1, <4>2
    <3> QED BY <1>2, <3>1, <3>2 DEF HalfMessages
  <2>13. ~Damaged(w)
    BY <1>2, <2>12 DEF Damaged
  <2> QED BY <2>11, <2>13 DEF w
<1> HIDE DEF w
<1>3. \/ w = t /\ ~Damaged(t) /\ Pending(t, Len(t)) = {}
      \/ /\ Len(w) = m /\ m <= Len(t)
         /\ \A i \in 1..m :
                 /\ w[i].runs = t[i].runs /\ w[i].step = t[i].step
                 /\ w[i].kind = t[i].kind /\ w[i].whole /\ t[i].whole /\ w[i].eol
  BY RecoveredRows DEF w
<1> QED
  BY <1>1, <1>2, <1>3 DEF w

-----------------------------------------------------------------------------
(* Rows drawn from others: what is read, what is kept of a damaged thread. *)

\* The rows of w are rows of t, in their order, but for line breaks.
Drawn(t, w) ==
    \E f \in [1..Len(w) -> 1..Len(t)] :
        /\ \A i, j \in 1..Len(w) : i < j => f[i] < f[j]
        /\ \A i \in 1..Len(w) :
              /\ w[i].runs = t[f[i]].runs /\ w[i].step = t[f[i]].step
              /\ w[i].kind = t[f[i]].kind /\ (w[i].whole => t[f[i]].whole)

LEMMA DrawnNoneAfter ==
    ASSUME NEW t \in Seq(Row), NEW w \in Seq(Row), Drawn(t, w), NEW n, NoneAfter(t, n)
    PROVE  NoneAfter(w, n)
BY DEF Drawn, NoneAfter

LEMMA DrawnUpToStep ==
    ASSUME NEW t \in Seq(Row), NEW w \in Seq(Row), Drawn(t, w), NEW r, NEW k,
           UpToStep(t, r, k)
    PROVE  UpToStep(w, r, k)
<1>1. PICK f \in [1..Len(w) -> 1..Len(t)] :
         \A i \in 1..Len(w) :
              /\ w[i].runs = t[f[i]].runs /\ w[i].step = t[f[i]].step
              /\ w[i].kind = t[f[i]].kind /\ (w[i].whole => t[f[i]].whole)
  BY DEF Drawn
<1> SUFFICES ASSUME NEW i \in 1..Len(w), NEW n \in Nat, InStep(w, i, r, n) PROVE n <= k
  BY DEF UpToStep
<1>2. f[i] \in 1..Len(t) /\ InStep(t, f[i], r, n)
  BY <1>1 DEF InStep
<1> QED
  BY <1>2 DEF UpToStep

LEMMA DrawnAdjacent ==
    ASSUME NEW t \in Seq(Row), NEW w \in Seq(Row), Drawn(t, w), Adjacent(t)
    PROVE  Adjacent(w)
<1>1. PICK f \in [1..Len(w) -> 1..Len(t)] :
        /\ \A i, j \in 1..Len(w) : i < j => f[i] < f[j]
        /\ \A i \in 1..Len(w) :
              /\ w[i].runs = t[f[i]].runs /\ w[i].step = t[f[i]].step
              /\ w[i].kind = t[f[i]].kind /\ (w[i].whole => t[f[i]].whole)
  BY DEF Drawn
<1>2. Len(w) \in Nat /\ Len(t) \in Nat
  BY LenProperties
<1> SUFFICES ASSUME NEW i \in 1..Len(w), NEW j \in 1..Len(w), SameStep(w[i], w[j]),
                    \/ Has(w, i, "head") /\ Has(w, j, "call")
                    \/ Has(w, i, "call") /\ Has(w, j, "result")
             PROVE  j = i + 1
  BY DEF Adjacent
<1>3. f[i] \in 1..Len(t) /\ f[j] \in 1..Len(t) /\ SameStep(t[f[i]], t[f[j]])
  BY <1>1 DEF SameStep
<1>4. \/ Has(t, f[i], "head") /\ Has(t, f[j], "call")
      \/ Has(t, f[i], "call") /\ Has(t, f[j], "result")
  BY <1>1 DEF Has
<1>5. f[j] = f[i] + 1
  BY <1>3, <1>4 DEF Adjacent
<1>6. i < j
  <2> SUFFICES ASSUME j <= i PROVE FALSE
    BY <1>2
  <2>1. j = i \/ f[j] < f[i]
    BY <1>1, <1>2
  <2> QED BY <1>3, <1>5, <2>1
<1>7. CASE i + 1 < j
  <2>1. i + 1 \in 1..Len(w)
    BY <1>2, <1>7
  <2>2. f[i] < f[i + 1] /\ f[i + 1] < f[j] /\ f[i + 1] \in Nat /\ f[i] \in Nat
    <3>1. i < i + 1
      BY <1>2
    <3> QED BY <1>1, <1>2, <1>7, <2>1, <3>1, SMTT(30)
  <2> QED BY <1>5, <2>2
<1> QED
  BY <1>2, <1>6, <1>7

\* The first rows of a list are drawn from it.
LEMMA DrawnPrefix ==
    ASSUME NEW t \in Seq(Row), NEW w \in Seq(Row), Len(w) <= Len(t),
           \A i \in 1..Len(w) :
              /\ w[i].runs = t[i].runs /\ w[i].step = t[i].step
              /\ w[i].kind = t[i].kind /\ (w[i].whole => t[i].whole)
    PROVE  Drawn(t, w)
<1> DEFINE f == [i \in 1..Len(w) |-> i]
<1>1. f \in [1..Len(w) -> 1..Len(t)]
  BY LenProperties
<1>2. \A i, j \in 1..Len(w) : i < j => f[i] < f[j]
  OBVIOUS
<1>3. \A i \in 1..Len(w) :
              /\ w[i].runs = t[f[i]].runs /\ w[i].step = t[f[i]].step
              /\ w[i].kind = t[f[i]].kind /\ (w[i].whole => t[f[i]].whole)
  OBVIOUS
<1> HIDE DEF f
<1> QED
  BY <1>1, <1>2, <1>3 DEF Drawn

\* What is recovered is the thread or drawn from it.
LEMMA RecoveredDrawn ==
    ASSUME NEW t \in Seq(Row)
    PROVE  Drawn(t, Recovered(t))
<1> DEFINE w == Recovered(t)
<1>1. w \in Seq(Row) /\ Len(w) <= Len(t) /\ \A i \in 1..Len(w) :
              /\ w[i].runs = t[i].runs /\ w[i].step = t[i].step
              /\ w[i].kind = t[i].kind /\ (w[i].whole => t[i].whole)
  BY RecoveredRows, LenProperties, SMTT(30)
<1> HIDE DEF w
<1>2. Drawn(t, w)
  BY <1>1, DrawnPrefix
<1> QED
  BY <1>2 DEF w

\* The members of a set of positions by their rank: in order, and where nothing
\* is left out each at its own place.
LEMMA Places ==
    ASSUME NEW len \in Nat, NEW at \in SUBSET (1..len)
    PROVE  LET Place(n) == CHOOSE i \in at : Cardinality({j \in at : j < i}) + 1 = n
               m == Cardinality(at)
           IN  /\ m \in Nat
               /\ \A n \in 1..m : Place(n) \in at
               /\ \A a, b \in 1..m : a < b => Place(a) < Place(b)
               /\ \A i \in 0..len : 1..i \subseteq at => \A j \in 1..i : j \in 1..m /\ Place(j) = j
<1> DEFINE Before(i) == {j \in at : j < i}
           m == Cardinality(at)
           rank == [i \in at |-> Cardinality(Before(i)) + 1]
           Place(n) == CHOOSE i \in at : Cardinality(Before(i)) + 1 = n
<1>1. \A i \in at : i \in Nat \ {0}
  OBVIOUS
<1>2. IsFiniteSet(at) /\ m \in Nat
  <2>1. IsFiniteSet(1..len)
    BY FS_Interval
  <2>2. IsFiniteSet(at)
    BY <2>1, FS_Subset
  <2> QED BY <2>2, FS_CardinalityType
<1>3. \A i \in at : IsFiniteSet(Before(i)) /\ Cardinality(Before(i)) \in Nat
  <2> SUFFICES ASSUME NEW i \in at
               PROVE  IsFiniteSet(Before(i)) /\ Cardinality(Before(i)) \in Nat
    OBVIOUS
  <2>1. Before(i) \in SUBSET at
    OBVIOUS
  <2> HIDE DEF Before
  <2> QED BY <1>2, <2>1, FS_Subset, FS_CardinalityType
<1>4. \A i \in at : rank[i] \in 1..m
  <2> SUFFICES ASSUME NEW i \in at PROVE rank[i] \in 1..m
    OBVIOUS
  <2>1. Before(i) \in SUBSET at /\ Before(i) # at
    BY <1>1
  <2>2. Cardinality(Before(i)) < m
    <3>1. Cardinality(Before(i)) \in Nat
      BY <1>3
    <3> HIDE DEF Before
    <3>2. Cardinality(Before(i)) <= m /\ Cardinality(Before(i)) # m
      BY <1>2, <2>1, FS_Subset
    <3> QED BY <1>2, <3>1, <3>2
  <2>3. Cardinality(Before(i)) \in Nat /\ rank[i] = Cardinality(Before(i)) + 1
    BY <1>3
  <2> HIDE DEF Before, rank
  <2> QED BY <1>2, <2>2, <2>3
<1>5. \A i, j \in at : i < j => rank[i] < rank[j]
  <2> SUFFICES ASSUME NEW i \in at, NEW j \in at, i < j PROVE rank[i] < rank[j]
    OBVIOUS
  <2>0. i \in Nat /\ j \in Nat /\ \A k \in at : k \in Nat
    BY <1>1
  <2>1. Before(i) \in SUBSET Before(j) /\ Before(i) # Before(j)
    <3>1. i \in Before(j) /\ i \notin Before(i)
      BY <2>0
    <3>2. \A k \in Before(i) : k \in Before(j)
      BY <2>0
    <3> QED BY <3>1, <3>2
  <2>2. Cardinality(Before(i)) < Cardinality(Before(j))
    <3>1. Cardinality(Before(i)) \in Nat /\ Cardinality(Before(j)) \in Nat
      BY <1>3
    <3> HIDE DEF Before
    <3>2. /\ Cardinality(Before(i)) <= Cardinality(Before(j))
          /\ Cardinality(Before(i)) # Cardinality(Before(j))
      BY <1>3, <2>1, FS_Subset
    <3> QED BY <3>1, <3>2
  <2>3. /\ Cardinality(Before(i)) \in Nat /\ rank[i] = Cardinality(Before(i)) + 1
        /\ Cardinality(Before(j)) \in Nat /\ rank[j] = Cardinality(Before(j)) + 1
    BY <1>3
  <2> HIDE DEF Before, rank
  <2> QED BY <2>2, <2>3
<1>6. \A i, j \in at : rank[i] = rank[j] => i = j
  <2> SUFFICES ASSUME NEW i \in at, NEW j \in at, rank[i] = rank[j] PROVE i = j
    OBVIOUS
  <2>1. i \in Nat /\ j \in Nat /\ rank[i] \in Nat /\ rank[j] \in Nat
    <3>1. i \in Nat /\ j \in Nat
      BY <1>1
    <3> HIDE DEF rank
    <3> QED BY <1>2, <1>4, <3>1
  <2>2. ~(i < j) /\ ~(j < i)
    <3> HIDE DEF rank
    <3> QED BY <1>5, <2>1
  <2> QED BY <2>1, <2>2
<1>7. \A n \in 1..m : \E i \in at : rank[i] = n
  <2>1. rank \in [at -> 1..m]
    BY <1>4
  <2>2. rank \in Injection(at, 1..m)
    <3> HIDE DEF rank
    <3> QED BY <1>6, <2>1 DEF Injection, IsInjective
  <2>3. IsFiniteSet(1..m) /\ Cardinality(1..m) = m
    BY <1>2, FS_Interval
  <2>4. rank \in Surjection(at, 1..m)
    <3> HIDE DEF rank
    <3> QED BY <1>2, <2>2, <2>3, FS_Injection
  <2> HIDE DEF rank
  <2> QED BY <2>4 DEF Surjection
<1>8. \A n \in 1..m : Place(n) \in at /\ rank[Place(n)] = n
  <2> SUFFICES ASSUME NEW n \in 1..m PROVE Place(n) \in at /\ rank[Place(n)] = n
    OBVIOUS
  <2>1. \E i \in at : Cardinality(Before(i)) + 1 = n
    BY <1>7
  <2>2. Place(n) \in at /\ Cardinality(Before(Place(n))) + 1 = n
    <3> HIDE DEF Before
    <3> QED BY <2>1
  <2> HIDE DEF Place
  <2> QED BY <2>2
<1>9. \A a, b \in 1..m : a < b => Place(a) < Place(b)
  <2> SUFFICES ASSUME NEW a \in 1..m, NEW b \in 1..m, a < b PROVE Place(a) < Place(b)
    OBVIOUS
  <2>1. /\ Place(a) \in at /\ rank[Place(a)] = a /\ Place(b) \in at /\ rank[Place(b)] = b
    BY <1>8
  <2> HIDE DEF Place, rank, m
  <2>2. Place(a) \in Nat /\ Place(b) \in Nat /\ a \in Nat /\ b \in Nat
    <3>1. a \in Nat /\ b \in Nat
      BY <1>2
    <3>2. Place(a) \in Nat /\ Place(b) \in Nat
      BY <1>1, <2>1, Zenon
    <3> QED BY <3>1, <3>2
  <2>3. ~(Place(b) < Place(a)) /\ Place(a) # Place(b)
    BY <1>5, <2>1, <2>2
  <2> QED BY <2>2, <2>3
<1>10. ASSUME NEW i \in 0..len, 1..i \subseteq at, NEW j \in 1..i
       PROVE  j \in 1..m /\ Place(j) = j
  <2>1. j \in at /\ j \in Nat /\ j - 1 \in Nat
    BY <1>10
  <2>2. Before(j) = 1..(j - 1)
    <3>1. \A k \in 1..(j - 1) : k \in at /\ k < j
      BY <1>10
    <3>2. \A k \in at : k < j => k \in 1..(j - 1)
      BY <1>1, <2>1
    <3> QED BY <2>1, <3>1, <3>2
  <2>3. Cardinality(1..(j - 1)) = j - 1
    <3>1. Cardinality(1..(j - 1)) = IF 1 > j - 1 THEN 0 ELSE j - 1 - 1 + 1
      BY <2>1, FS_Interval
    <3> QED BY <2>1, <3>1
  <2>4. rank[j] = j
    <3>1. rank[j] = Cardinality(Before(j)) + 1
      BY <2>1
    <3> HIDE DEF rank, Before
    <3> QED BY <2>1, <2>2, <2>3, <3>1
  <2>5. j \in 1..m
    <3> HIDE DEF rank
    <3> QED BY <1>4, <2>1, <2>4
  <2>6. Place(j) \in at /\ rank[Place(j)] = j
    BY <1>8, <2>5
  <2>7. Place(j) = j
    <3> HIDE DEF rank, Place
    <3> QED BY <1>6, <2>1, <2>4, <2>6
  <2> QED BY <2>5, <2>7
<1>11. \A n \in 1..m : Place(n) \in at
  BY <1>8
<1>12. \A i \in 0..len : 1..i \subseteq at => \A j \in 1..i : j \in 1..m /\ Place(j) = j
  <2> HIDE DEF Place, m
  <2> QED BY <1>10
<1> QED
  BY <1>2, <1>9, <1>11, <1>12, Zenon

\* The lines that parse are drawn from the thread, and begin with the rows
\* before the first that does not.
LEMMA LinesRows ==
    ASSUME NEW t \in Seq(Row)
    PROVE  /\ Lines(t) \in Seq(Row) /\ \A i \in 1..Len(Lines(t)) : Lines(t)[i].whole
           /\ Drawn(t, Lines(t))
           /\ \A i \in 0..Len(t) : (\A j \in 1..i : t[j].whole) =>
                 i <= Len(Lines(t)) /\ \A j \in 1..i : Lines(t)[j] = t[j]
<1> DEFINE at == {i \in 1..Len(t) : t[i].whole}
           Place(n) == CHOOSE i \in at : Cardinality({j \in at : j < i}) + 1 = n
           m == Cardinality(at)
           w == [n \in 1..m |-> t[Place(n)]]
           f == [n \in 1..m |-> Place(n)]
<1>0. Len(t) \in Nat /\ at \in SUBSET (1..Len(t)) /\ \A i \in at : t[i] \in Row /\ t[i].whole
  BY LenProperties, ElementOfSeq
<1>1. /\ m \in Nat
      /\ \A n \in 1..m : Place(n) \in at
      /\ \A a, b \in 1..m : a < b => Place(a) < Place(b)
      /\ \A i \in 0..Len(t) : 1..i \subseteq at => \A j \in 1..i : j \in 1..m /\ Place(j) = j
  <2> HIDE DEF at
  <2> QED BY <1>0, Places, Zenon
<1>2. Lines(t) = w
  BY DEF Lines
<1>3. \A i \in 0..Len(t) : (\A j \in 1..i : t[j].whole) => 1..i \subseteq at
  BY <1>0
<1> HIDE DEF at, Place, m
<1>4. w \in Seq(Row) /\ Len(w) = m /\ \A n \in 1..m : w[n] = t[Place(n)] /\ w[n].whole
  <2>1. w \in [1..m -> Row] /\ DOMAIN w = 1..m
    BY <1>0, <1>1
  <2>2. \A n \in 1..m : w[n] = t[Place(n)] /\ w[n].whole
    BY <1>0, <1>1
  <2> HIDE DEF w
  <2> QED BY <1>1, <2>1, <2>2
<1>5. f \in [1..m -> 1..Len(t)] /\ \A n \in 1..m : f[n] = Place(n)
  BY <1>0, <1>1
<1> HIDE DEF w, f
<1>6. Drawn(t, w)
  <2>1. \A i, j \in 1..m : i < j => f[i] < f[j]
    BY <1>1, <1>5
  <2>2. \A i \in 1..m :
              /\ w[i].runs = t[f[i]].runs /\ w[i].step = t[f[i]].step
              /\ w[i].kind = t[f[i]].kind /\ (w[i].whole => t[f[i]].whole)
    BY <1>4, <1>5
  <2> QED BY <1>4, <1>5, <2>1, <2>2 DEF Drawn
<1>7. \A i \in 0..Len(t) : (\A j \in 1..i : t[j].whole) =>
         i <= Len(w) /\ \A j \in 1..i : w[j] = t[j]
  <2> SUFFICES ASSUME NEW i \in 0..Len(t), \A j \in 1..i : t[j].whole
               PROVE  i <= Len(w) /\ \A j \in 1..i : w[j] = t[j]
    OBVIOUS
  <2>1. \A j \in 1..i : j \in 1..m /\ Place(j) = j
    BY <1>1, <1>3
  <2>2. i = 0 \/ i \in 1..i
    BY <1>0
  <2>3. i <= m
    BY <1>1, <2>1, <2>2
  <2> QED BY <1>4, <2>1, <2>3
<1> QED
  BY <1>2, <1>4, <1>6, <1>7

\* What is read is the lines that parse, or those before a message that waits.
LEMMA ReadRows ==
    ASSUME NEW t \in Seq(Row)
    PROVE  /\ Read(t) \in Seq(Row) /\ Len(Read(t)) <= Len(Lines(t))
           /\ \A i \in 1..Len(Read(t)) :
                 /\ Read(t)[i].runs = Lines(t)[i].runs /\ Read(t)[i].step = Lines(t)[i].step
                 /\ Read(t)[i].kind = Lines(t)[i].kind /\ Read(t)[i].whole = Lines(t)[i].whole
                 /\ Read(t)[i].eol
           /\ \/ Len(Read(t)) = Len(Lines(t))
              \/ \E i \in Broken(Lines(t)) : Len(Read(t)) = MessageStart(Lines(t), i) - 1
<1> DEFINE rows == Lines(t)
           open_ == Pending(rows, Len(rows))
           first == Min({MessageStart(rows, i) : i \in open_})
           all == [i \in 1..Len(rows) |-> [rows[i] EXCEPT !.eol = TRUE]]
<1>1. rows \in Seq(Row) /\ Len(rows) \in Nat
  BY LinesRows, LenProperties
<1>2. Read(t) = IF open_ = {} THEN all ELSE SubSeq(all, 1, first - 1)
  BY DEF Read
<1> HIDE DEF rows
<1>3. \A i \in 1..Len(rows) : all[i] = [rows[i] EXCEPT !.eol = TRUE] /\ rows[i] \in Row
  BY <1>1, ElementOfSeq
<1>4. /\ all \in Seq(Row) /\ Len(all) = Len(rows)
      /\ \A i \in 1..Len(rows) :
            /\ all[i] \in Row
            /\ all[i].runs = rows[i].runs /\ all[i].step = rows[i].step
            /\ all[i].kind = rows[i].kind /\ all[i].whole = rows[i].whole /\ all[i].eol
  <2>1. \A i \in 1..Len(rows) :
            /\ all[i] \in Row
            /\ all[i].runs = rows[i].runs /\ all[i].step = rows[i].step
            /\ all[i].kind = rows[i].kind /\ all[i].whole = rows[i].whole /\ all[i].eol
    <3> HIDE DEF all
    <3> SUFFICES ASSUME NEW i \in 1..Len(rows)
                 PROVE  /\ all[i] \in Row
                        /\ all[i].runs = rows[i].runs /\ all[i].step = rows[i].step
                        /\ all[i].kind = rows[i].kind /\ all[i].whole = rows[i].whole
                        /\ all[i].eol
      OBVIOUS
    <3> DEFINE x == rows[i]
    <3>1. x \in Row /\ all[i] = [x EXCEPT !.eol = TRUE]
      BY <1>3
    <3> HIDE DEF x
    <3>2. /\ all[i] \in Row /\ all[i].runs = x.runs /\ all[i].step = x.step
          /\ all[i].kind = x.kind /\ all[i].whole = x.whole /\ all[i].eol
      BY <3>1 DEF Row
    <3> QED BY <3>2 DEF x
  <2>2. all \in [1..Len(rows) -> Row] /\ DOMAIN all = 1..Len(rows)
    BY <2>1
  <2> HIDE DEF all
  <2> QED BY <1>1, <2>1, <2>2
<1> HIDE DEF all
<1>5. CASE open_ = {}
  BY <1>2, <1>4, <1>5 DEF rows
<1>6. CASE open_ # {}
  <2> DEFINE S == {MessageStart(rows, i) : i \in open_}
  <2>1. \A i \in open_ : i \in Broken(rows) /\ MessageStart(rows, i) \in 1..i /\ i \in 1..Len(rows)
    <3>1. \A i \in open_ : i \in Broken(rows)
      BY DEF Broken
    <3> HIDE DEF open_
    <3> QED BY <1>1, <3>1, BrokenRows, StartOfMessage
  <2>2. S \in SUBSET Nat /\ S # {}
    <3> HIDE DEF open_
    <3> QED BY <1>6, <2>1
  <2>3. first \in S
    <3> HIDE DEF S, open_
    <3>1. Min(S) \in S
      BY <2>2, LeastOf
    <3> QED BY <3>1 DEF S
  <2>4. PICK i \in open_ : first = MessageStart(rows, i)
    <3> HIDE DEF open_
    <3> QED BY <2>3
  <2>5. first \in 1..Len(rows)
    <3> HIDE DEF open_, first
    <3> QED BY <1>1, <2>1, <2>4
  <2> HIDE DEF open_, first
  <2>6. first - 1 \in Nat /\ first - 1 <= Len(rows)
        /\ \A j \in 1..(first - 1) : j \in 1..Len(rows)
    BY <1>1, <2>5
  <2>7. /\ SubSeq(all, 1, first - 1) \in Seq(Row)
        /\ Len(SubSeq(all, 1, first - 1)) = first - 1
        /\ \A j \in 1..(first - 1) : SubSeq(all, 1, first - 1)[j] = all[j]
    <3>1. \A j \in 1..(first - 1) : all[j] \in Row
      BY <1>4, <2>6
    <3>2. 1 \in Int /\ first - 1 \in Int
      BY <2>6
    <3>3. /\ SubSeq(all, 1, first - 1) \in Seq(Row)
          /\ Len(SubSeq(all, 1, first - 1)) = IF 1 <= first - 1 THEN first - 1 - 1 + 1 ELSE 0
          /\ \A j \in 1..(first - 1 - 1 + 1) : SubSeq(all, 1, first - 1)[j] = all[1 + j - 1]
      BY <3>1, <3>2, SubSeqProperties
    <3> QED BY <2>6, <3>3
  <2>8. Read(t) = SubSeq(all, 1, first - 1)
    BY <1>2, <1>6
  <2>9. /\ Read(t) \in Seq(Row) /\ Len(Read(t)) = first - 1
        /\ \A j \in 1..(first - 1) : Read(t)[j] = all[j]
    BY <2>7, <2>8
  <2>10. \E j \in Broken(rows) : Len(Read(t)) = MessageStart(rows, j) - 1
    BY <2>1, <2>4, <2>9
  <2> QED BY <1>4, <2>6, <2>9, <2>10 DEF rows
<1> QED
  BY <1>5, <1>6

LEMMA ReadKeeps ==
    ASSUME NEW t \in Seq(Row)
    PROVE  /\ Read(t) \in Seq(Row)
           /\ Adjacent(t) => Adjacent(Read(t))
           /\ \A n : NoneAfter(t, n) => NoneAfter(Read(t), n)
           /\ \A r, k : UpToStep(t, r, k) => UpToStep(Read(t), r, k)
           /\ \A r : Secured(t, r) => Secured(Read(t), r)
<1>1. /\ Lines(t) \in Seq(Row) /\ Drawn(t, Lines(t)) /\ Read(t) \in Seq(Row)
  BY LinesRows, ReadRows
<1>2. Drawn(Lines(t), Read(t))
  BY <1>1, ReadRows, DrawnPrefix
<1>3. ASSUME NEW r, Secured(t, r) PROVE Secured(Read(t), r)
  <2>1. PICK i \in 1..Len(t) : SecuredAt(t, r, i)
    BY <1>3 DEF Secured
  <2>2. i \in 0..Len(t) /\ i \in 1..i /\ Len(Lines(t)) \in Nat /\ Len(Read(t)) \in Nat
    BY <1>1, LenProperties
  <2>3. i <= Len(Lines(t)) /\ \A j \in 1..i : Lines(t)[j] = t[j]
    BY <2>1, <2>2, LinesRows DEF SecuredAt, Settled
  <2>4. SecuredAt(Lines(t), r, i)
    BY <1>1, <2>1, <2>2, <2>3, SecuredAlike DEF SecuredAt
  <2>5. i \in 1..Len(Lines(t))
    BY <2>2, <2>3
  <2>6. i <= Len(Read(t))
    <3>1. \A j \in Broken(Lines(t)) : MessageStart(Lines(t), j) - 1 >= i
      BY <1>1, <2>4, <2>5, SecuredBeforeBroken
    <3> QED BY <2>3, <3>1, ReadRows
  <2>7. \A j \in 1..i : j \in 1..Len(Read(t))
    BY <2>2, <2>6
  <2>8. /\ Read(t)[i].eol
        /\ \A j \in 1..i : /\ Read(t)[j].runs = Lines(t)[j].runs
                           /\ Read(t)[j].step = Lines(t)[j].step
                           /\ Read(t)[j].kind = Lines(t)[j].kind
                           /\ Read(t)[j].whole = Lines(t)[j].whole
    BY <2>2, <2>7, ReadRows
  <2> QED BY <1>1, <2>4, <2>5, <2>6, <2>8, SecuredAlike
<1> QED
  BY <1>1, <1>2, <1>3, DrawnAdjacent, DrawnNoneAfter, DrawnUpToStep

\* The same of a recovered thread.
LEMMA RecoveredKeeps ==
    ASSUME NEW t \in Seq(Row)
    PROVE  /\ Recovered(t) \in Seq(Row)
           /\ Adjacent(t) => Adjacent(Recovered(t))
           /\ \A n : NoneAfter(t, n) => NoneAfter(Recovered(t), n)
           /\ \A r : Secured(t, r) => Secured(Recovered(t), r)
BY RecoveredRows, RecoveredDrawn, RecoveredSecured, DrawnAdjacent, DrawnNoneAfter

\* And of a compacted one: the rows behind the cut keep their neighbours.
LEMMA CompactedKeeps ==
    ASSUME NEW t \in Seq(Row), NEW w \in Compactions(t)
    PROVE  /\ w \in Seq(Row)
           /\ Adjacent(t) => Adjacent(w)
           /\ \A n : NoneAfter(t, n) => NoneAfter(w, n)
           /\ \A r, k : UpToStep(t, r, k) => UpToStep(w, r, k)
           /\ \A r : Secured(t, r) => Secured(w, r)
<1>0. Len(t) \in Nat /\ \A i \in 1..Len(t) : t[i] \in Row
  BY LenProperties, ElementOfSeq
<1>1. PICK k \in 1..Len(t) :
         /\ k < Len(t) => t[k + 1].kind \notin {"call", "result"}
         /\ w = <<RowOf(UNION {t[i].runs : i \in 1..k}, 0, "summary")>> \o SubSeq(t, k + 1, Len(t))
  BY DEF Compactions
<1> DEFINE rs == UNION {t[i].runs : i \in 1..k}
           x == RowOf(rs, 0, "summary")
           v == SubSeq(t, k + 1, Len(t))
           m == Len(t) - k
<1>2. m \in Nat /\ k \in Nat \ {0}
  BY <1>0
<1>3. rs \in SUBSET (1..MaxRuns) /\ \A i \in 1..k : t[i].runs \subseteq rs
  <2>1. \A i \in 1..k : i \in 1..Len(t)
    BY <1>0
  <2> QED BY <1>0, <2>1 DEF Row
<1>4. x \in Row /\ x.runs = rs /\ x.kind = "summary" /\ x.whole /\ x.eol
  <2>1. 0 \in 0..MaxSteps /\ "summary" \in Kinds
    BY BoundsAssumption DEF Kinds
  <2> HIDE DEF rs
  <2> QED BY <1>3, <2>1, RowOfType
<1>5. /\ v \in Seq(Row) /\ Len(v) = m
      /\ \A i \in 1..m : v[i] = t[k + i]
  <2>1. \A i \in (k + 1)..Len(t) : t[i] \in Row
    BY <1>0
  <2>2. k + 1 \in Int /\ Len(t) \in Int
    BY <1>0
  <2>3. /\ v \in Seq(Row) /\ Len(v) = IF k + 1 <= Len(t) THEN Len(t) - (k + 1) + 1 ELSE 0
        /\ \A i \in 1..(Len(t) - (k + 1) + 1) : v[i] = t[k + 1 + i - 1]
    BY <2>1, <2>2, SubSeqProperties
  <2> HIDE DEF v
  <2> QED BY <1>0, <1>2, <2>3
<1>6. <<x>> \in Seq(Row) /\ Len(<<x>>) = 1 /\ <<x>>[1] = x
  <2> HIDE DEF x
  <2> QED BY <1>4
<1>7. /\ w \in Seq(Row) /\ Len(w) = m + 1 /\ w[1] = x
      /\ \A i \in 2..(m + 1) : w[i] = t[i + k - 1] /\ i + k - 1 \in (k + 1)..Len(t)
  <2> DEFINE u == <<x>>
  <2> HIDE DEF u, v
  <2>1. w = u \o v
    BY <1>1 DEF u, v
  <2>2. /\ u \o v \in Seq(Row) /\ Len(u \o v) = 1 + m
        /\ \A i \in 1..(1 + m) : (u \o v)[i] = IF i <= 1 THEN u[1] ELSE v[i - 1]
    <3>1. u \in Seq(Row) /\ v \in Seq(Row) /\ Len(u) = 1 /\ Len(v) = m
      BY <1>5, <1>6 DEF u
    <3>2. /\ u \o v \in Seq(Row) /\ Len(u \o v) = Len(u) + Len(v)
          /\ \A i \in 1..(Len(u) + Len(v)) :
                (u \o v)[i] = IF i <= Len(u) THEN u[i] ELSE v[i - Len(u)]
      BY <3>1, ConcatProperties
    <3> HIDE DEF m
    <3> QED BY <1>2, <3>1, <3>2
  <2>3. \A i \in 2..(m + 1) : i - 1 \in 1..m /\ k + (i - 1) = i + k - 1
                              /\ i + k - 1 \in (k + 1)..Len(t)
    BY <1>0, <1>2
  <2> HIDE DEF x, m
  <2>4. u[1] = x
    BY <1>6 DEF u
  <2>5. w \in Seq(Row) /\ Len(w) = m + 1 /\ w[1] = x
    <3>1. 1 \in 1..(1 + m)
      BY <1>2
    <3>2. (u \o v)[1] = u[1]
      BY <2>2, <3>1
    <3> QED BY <1>2, <2>1, <2>2, <2>4, <3>2
  <2>6. \A i \in 2..(m + 1) : w[i] = v[i - 1]
    BY <1>2, <2>1, <2>2
  <2>7. \A i \in 2..(m + 1) : v[i - 1] = t[i + k - 1]
    BY <1>5, <2>3
  <2> QED BY <2>3, <2>5, <2>6, <2>7
<1> HIDE DEF x, v, rs
<1>8. \A i \in 1..Len(w) : i = 1 \/ i \in 2..(m + 1)
  BY <1>2, <1>7
<1>9. \A i \in 2..(m + 1) : i + k - 1 \in 1..Len(t)
  BY <1>0, <1>2
<1> HIDE DEF m
<1>10. ASSUME Adjacent(t) PROVE Adjacent(w)
  <2> SUFFICES ASSUME NEW i \in 1..Len(w), NEW j \in 1..Len(w), SameStep(w[i], w[j]),
                      \/ Has(w, i, "head") /\ Has(w, j, "call")
                      \/ Has(w, i, "call") /\ Has(w, j, "result")
               PROVE  j = i + 1
    BY DEF Adjacent
  <2>1. i \in 2..(m + 1) /\ j \in 2..(m + 1)
    BY <1>4, <1>7, <1>8 DEF Has
  <2>2. w[i] = t[i + k - 1] /\ w[j] = t[j + k - 1]
        /\ i + k - 1 \in 1..Len(t) /\ j + k - 1 \in 1..Len(t)
    BY <1>7, <1>9, <2>1
  <2>3. j + k - 1 = i + k - 1 + 1
    BY <1>10, <2>2 DEF Adjacent, Has
  <2> QED BY <1>2, <2>1, <2>3
<1>11. ASSUME NEW n, NoneAfter(t, n) PROVE NoneAfter(w, n)
  <2>1. rs \subseteq 1..n
    <3>1. \A i \in 1..k : i \in 1..Len(t)
      BY <1>0
    <3> QED BY <1>11, <3>1 DEF rs, NoneAfter
  <2> QED BY <1>4, <1>7, <1>8, <1>9, <1>11, <2>1 DEF NoneAfter
<1>12. ASSUME NEW r, NEW q, UpToStep(t, r, q) PROVE UpToStep(w, r, q)
  <2> SUFFICES ASSUME NEW i \in 1..Len(w), NEW n \in Nat, InStep(w, i, r, n) PROVE n <= q
    BY DEF UpToStep
  <2>1. i \in 2..(m + 1)
    BY <1>4, <1>7, <1>8 DEF InStep
  <2>2. i + k - 1 \in 1..Len(t) /\ InStep(t, i + k - 1, r, n)
    BY <1>7, <1>9, <2>1 DEF InStep
  <2> QED BY <1>12, <2>2 DEF UpToStep
<1>13. ASSUME NEW r, Secured(t, r) PROVE Secured(w, r)
  <2>1. PICK i \in 1..Len(t) : SecuredAt(t, r, i)
    BY <1>13 DEF Secured
  <2>2. CASE i <= k
    <3>1. i \in 1..k
      BY <1>0, <2>2
    <3>2. r \in x.runs
      BY <1>3, <1>4, <2>1, <3>1 DEF SecuredAt
    <3>3. Settled(w, 1)
      <4>1. \A j \in 1..1 : j = 1
        OBVIOUS
      <4> QED BY <1>4, <1>7, <4>1 DEF Settled
    <3>4. 1 \in 1..Len(w)
      BY <1>2, <1>7
    <3> QED BY <1>4, <1>7, <3>2, <3>3, <3>4 DEF Secured, SecuredAt
  <2>3. CASE i > k
    <3> DEFINE q == i - k + 1
    <3>1. q \in 2..(m + 1) /\ q + k - 1 = i /\ q \in 1..Len(w)
      BY <1>0, <1>2, <1>7, <2>3 DEF m
    <3>2. w[q] = t[i]
      BY <1>7, <3>1
    <3>3. Settled(w, q)
      <4> SUFFICES ASSUME NEW j \in 1..q
                   PROVE  /\ w[j].whole
                          /\ w[j].kind = "head" =>
                                j < q /\ Has(w, j + 1, "call") /\ SameStep(w[j], w[j + 1])
                          /\ w[j].kind = "call" =>
                                /\ j > 1 /\ Has(w, j - 1, "head") /\ SameStep(w[j - 1], w[j])
                                /\ j < q /\ Has(w, j + 1, "result") /\ SameStep(w[j], w[j + 1])
        BY DEF Settled
      <4>1. CASE j = 1
        BY <1>4, <1>7, <4>1
      <4>2. CASE j # 1
        <5> DEFINE p == j + k - 1
        <5>1. /\ j \in 2..(m + 1) /\ p \in 1..i /\ p > k
              /\ j < q <=> p < i
              /\ j < q => j + 1 \in 2..(m + 1) /\ j + 1 + k - 1 = p + 1
              /\ p > k + 1 => j - 1 \in 2..(m + 1) /\ j - 1 + k - 1 = p - 1 /\ j > 1
          BY <1>0, <1>2, <3>1, <4>2
        <5>2. /\ w[j] = t[p]
              /\ j < q => w[j + 1] = t[p + 1]
              /\ p > k + 1 => w[j - 1] = t[p - 1]
          BY <1>7, <5>1
        <5>3. /\ t[p].whole
              /\ t[p].kind = "head" => p < i /\ Has(t, p + 1, "call") /\ SameStep(t[p], t[p + 1])
              /\ t[p].kind = "call" =>
                    /\ p > 1 /\ Has(t, p - 1, "head") /\ SameStep(t[p - 1], t[p])
                    /\ p < i /\ Has(t, p + 1, "result") /\ SameStep(t[p], t[p + 1])
          BY <2>1, <5>1 DEF SecuredAt, Settled
        <5>4. t[p].kind = "call" => p > k + 1
          <6>1. p = k + 1 => k < Len(t)
            BY <1>0, <5>1
          <6> QED BY <1>1, <1>2, <5>1, <6>1
        <5> HIDE DEF p, q
        <5>5. CASE t[p].kind = "head"
          BY <5>1, <5>2, <5>3, <5>5 DEF Has
        <5>6. CASE t[p].kind = "call"
          BY <5>1, <5>2, <5>3, <5>4, <5>6 DEF Has
        <5>7. CASE t[p].kind \notin {"head", "call"}
          BY <5>2, <5>3, <5>7
        <5> QED BY <5>5, <5>6, <5>7
      <4> QED BY <4>1, <4>2
    <3> QED BY <2>1, <3>1, <3>2, <3>3 DEF Secured, SecuredAt
  <2> QED BY <1>0, <1>2, <2>2, <2>3
<1> QED
  BY <1>7, <1>10, <1>11, <1>12, <1>13

\* A prompt written to a clean thread is secured.
LEMMA CleanSecured ==
    ASSUME NEW t \in Seq(Row), Adjacent(t), Clean(t), NEW r \in 1..MaxRuns
    PROVE  Secured(Write(t, Prompt(r)), r)
<1> DEFINE p == Prompt(r)
           w == Append(t, p)
           n == Len(t) + 1
<1>0. Len(t) \in Nat /\ (t = <<>> <=> Len(t) = 0) /\ \A i \in 1..Len(t) : t[i] \in Row
  BY LenProperties, EmptySeq, ElementOfSeq
<1>1. p \in Row /\ p.runs = {r} /\ p.kind = "prompt" /\ p.whole /\ p.eol
  <2>1. {r} \in SUBSET (1..MaxRuns) /\ 0 \in 0..MaxSteps /\ "prompt" \in Kinds
    BY BoundsAssumption DEF Kinds
  <2> QED BY <2>1, RowOfType DEF Prompt
<1> HIDE DEF p
<1>2. Write(t, p) = w
  BY <1>0, <1>1, WriteGrows DEF Clean, Last
<1>3. /\ w \in Seq(Row) /\ Len(w) = n /\ w[n] = p
      /\ \A i \in 1..Len(t) : w[i] = t[i]
  BY <1>1, AppendGrows
<1> HIDE DEF w
<1>4. Settled(w, n)
  <2> SUFFICES ASSUME NEW j \in 1..n
               PROVE  /\ w[j].whole
                      /\ w[j].kind = "head" =>
                            j < n /\ Has(w, j + 1, "call") /\ SameStep(w[j], w[j + 1])
                      /\ w[j].kind = "call" =>
                            /\ j > 1 /\ Has(w, j - 1, "head") /\ SameStep(w[j - 1], w[j])
                            /\ j < n /\ Has(w, j + 1, "result") /\ SameStep(w[j], w[j + 1])
    BY DEF Settled
  <2>1. CASE j = n
    BY <1>1, <1>3, <2>1
  <2>2. CASE j # n
    <3>1. j \in 1..Len(t) /\ w[j] = t[j] /\ t[j].whole
      BY <1>0, <1>3, <2>2 DEF Clean, Damaged
    <3>2. CASE t[j].kind = "head"
      <4>1. PICK k \in 1..Len(t) : Has(t, k, "call") /\ SameStep(t[j], t[k])
        BY <3>1, <3>2 DEF Clean, Damaged, HalfMessages, Has
      <4>2. k = j + 1
        BY <3>1, <3>2, <4>1 DEF Adjacent, Has
      <4>3. w[j + 1] = t[j + 1]
        BY <1>3, <4>1, <4>2
      <4> QED BY <1>0, <3>1, <3>2, <4>1, <4>2, <4>3 DEF Has
    <3>3. CASE t[j].kind = "call"
      <4>1. PICK k \in 1..Len(t) : Has(t, k, "head") /\ SameStep(t[j], t[k])
        BY <3>1, <3>3 DEF Clean, Damaged, HalfMessages, Has
      <4>2. SameStep(t[k], t[j])
        BY <4>1 DEF SameStep
      <4>3. j = k + 1
        BY <3>1, <3>3, <4>1, <4>2 DEF Adjacent, Has
      <4>4. w[j - 1] = t[k] /\ j - 1 = k /\ j > 1
        BY <1>0, <1>3, <4>1, <4>3
      <4>5. PICK q \in (j + 1)..Len(t) : Has(t, q, "result") /\ SameStep(t[j], t[q])
        BY <1>0, <3>1, <3>3 DEF Clean, Pending, Has
      <4>6. q \in 1..Len(t)
        BY <1>0, <3>1, <4>5
      <4>7. q = j + 1
        BY <3>1, <3>3, <4>5, <4>6 DEF Adjacent, Has
      <4>8. w[j + 1] = t[q] /\ j < n
        BY <1>0, <1>3, <4>6, <4>7
      <4> QED BY <3>1, <3>3, <4>1, <4>2, <4>4, <4>5, <4>7, <4>8 DEF Has
    <3>4. CASE t[j].kind \notin {"head", "call"}
      BY <3>1, <3>4
    <3> QED BY <3>2, <3>3, <3>4
  <2> QED BY <2>1, <2>2
<1>5. n \in 1..Len(w)
  BY <1>0, <1>3
<1>6. SecuredAt(w, r, n)
  BY <1>1, <1>3, <1>4 DEF SecuredAt
<1>7. Secured(w, r)
  BY <1>5, <1>6 DEF Secured
<1> QED
  BY <1>2, <1>7 DEF p

-----------------------------------------------------------------------------
(* The rows of a step.                                                     *)

\* Two rows at once are one after the other.
LEMMA TwoRows ==
    ASSUME NEW t \in Seq(Row), NEW a \in Row, NEW b \in Row
    PROVE  /\ WriteAll(t, <<a>>) = Write(t, a)
           /\ WriteAll(t, <<a, b>>) = Append(Write(t, a), b)
           /\ t \o <<a>> = Append(t, a)
           /\ t \o <<a, b>> = Append(Append(t, a), b)
<1>1. /\ <<a>> # <<>> /\ Head(<<a>>) = a /\ Tail(<<a>>) = <<>>
      /\ <<a, b>> # <<>> /\ Head(<<a, b>>) = a
  OBVIOUS
<1>2. <<a>> \in Seq(Row) /\ <<b>> \in Seq(Row) /\ <<a, b>> \in Seq(Row) /\ Write(t, a) \in Seq(Row)
  BY WriteGrows
<1>3. Tail(<<a, b>>) = <<b>>
  OBVIOUS
<1>4. WriteAll(t, <<a>>) = Write(t, a)
  <2>1. WriteAll(t, <<a>>) = Write(t, a) \o <<>>
    BY <1>1, Zenon DEF WriteAll
  <2> QED BY <1>2, <2>1, ConcatEmptySeq
<1>5. WriteAll(t, <<a, b>>) = Append(Write(t, a), b)
  <2>1. WriteAll(t, <<a, b>>) = Write(t, a) \o <<b>>
    BY <1>1, <1>3, Zenon DEF WriteAll
  <2> QED BY <1>2, <2>1, AppendIsConcat
<1>6. t \o <<a>> = Append(t, a)
  BY AppendIsConcat
<1>7. t \o <<a, b>> = Append(Append(t, a), b)
  <2>1. <<a, b>> = <<a>> \o <<b>>
    <3> DEFINE u == <<a>>
               v == <<a, b>>
    <3>1. u \in Seq(Row) /\ Len(u) = 1 /\ u[1] = a
          /\ v \in Seq(Row) /\ Len(v) = 2 /\ v[1] = a /\ v[2] = b
      OBVIOUS
    <3> HIDE DEF u, v
    <3>2. /\ Append(u, b) \in Seq(Row) /\ Len(Append(u, b)) = Len(u) + 1
          /\ \A i \in 1..Len(u) : Append(u, b)[i] = u[i]
          /\ Append(u, b)[Len(u) + 1] = b
      BY <3>1, AppendGrows, Zenon
    <3>3. Len(v) = Len(Append(u, b)) /\ \A i \in 1..Len(v) : v[i] = Append(u, b)[i]
      <4>1. \A i \in 1..2 : i = 1 \/ i = 2
        OBVIOUS
      <4> QED BY <3>1, <3>2, <4>1
    <3>4. v = Append(u, b)
      BY <3>1, <3>2, <3>3, SeqEqual
    <3>5. Append(u, b) = u \o <<b>>
      BY <3>1, AppendIsConcat
    <3> QED BY <3>4, <3>5 DEF u, v
  <2>2. Append(t, a) \in Seq(Row)
    BY AppendProperties
  <2>3. Append(Append(t, a), b) = (t \o <<a>>) \o <<b>>
    BY <1>6, <2>2, AppendIsConcat
  <2>4. (t \o <<a>>) \o <<b>> = t \o (<<a>> \o <<b>>)
    BY <1>2, ConcatAssociative
  <2> QED BY <2>1, <2>3, <2>4
<1> QED
  BY <1>4, <1>5, <1>6, <1>7

\* The two blocks of the next step go behind rows that know only earlier steps.
LEMMA CallKeeps ==
    ASSUME NEW t \in Seq(Row), NEW v \in Seq(Row), NEW w \in Seq(Row),
           NEW r \in 1..MaxRuns, NEW k \in Nat, k + 1 \in 0..MaxSteps,
           Adjacent(t), UpToStep(t, r, k),
           Grows(t, v, RowOf({r}, k + 1, "head")), Grows(v, w, RowOf({r}, k + 1, "call"))
    PROVE  /\ Fits(t, RowOf({r}, k + 1, "head")) /\ Fits(v, RowOf({r}, k + 1, "call"))
           /\ Adjacent(v) /\ Adjacent(w)
           /\ UpToStep(w, r, k + 1) /\ CallLast(w, r, k + 1)
<1> DEFINE a == RowOf({r}, k + 1, "head")
           b == RowOf({r}, k + 1, "call")
<1>1. /\ a \in Row /\ a.runs = {r} /\ a.step = k + 1 /\ a.kind = "head"
      /\ b \in Row /\ b.runs = {r} /\ b.step = k + 1 /\ b.kind = "call"
  <2>1. {r} \in SUBSET (1..MaxRuns) /\ "head" \in Kinds /\ "call" \in Kinds
    BY DEF Kinds
  <2> QED BY <2>1, RowOfType, SMTT(30)
<1>2. Grows(t, v, a) /\ Grows(v, w, b)
  OBVIOUS
<1> HIDE DEF a, b
<1>3. \A i \in 1..Len(t) : ~InStep(t, i, r, k + 1)
  BY DEF UpToStep
<1>4. \A i \in 1..Len(v) : i \in 1..Len(t) \/ (i = Len(v) /\ v[i].kind = "head")
  BY <1>1, <1>2, LenProperties DEF Grows
<1>5. \A i \in 1..Len(v) : v[i].whole /\ v[i].runs = {r} /\ v[i].step = k + 1
                           /\ v[i].kind \in {"head", "call", "result"} =>
                              i = Len(v) /\ v[i].kind = "head"
  <2> SUFFICES ASSUME NEW i \in 1..Len(v), v[i].whole, v[i].runs = {r}, v[i].step = k + 1,
                      v[i].kind \in {"head", "call", "result"}, i \in 1..Len(t)
               PROVE  FALSE
    BY <1>4
  <2>1. v[i] = t[i]
    BY <1>2 DEF Grows
  <2> QED BY <1>3, <2>1 DEF InStep
<1>6. Fits(t, a)
  BY <1>1, <1>3 DEF Fits, SameStep, InStep
<1>7. Fits(v, b)
  BY <1>1, <1>5 DEF Fits, SameStep
<1>8. Adjacent(v)
  BY <1>1, <1>2, <1>6, GrowsAdjacent
<1>9. Adjacent(w)
  BY <1>1, <1>2, <1>7, <1>8, GrowsAdjacent
<1>10. UpToStep(t, r, k + 1)
  BY DEF UpToStep
<1>11. UpToStep(w, r, k + 1)
  <2>1. k + 1 \in Nat /\ a.step <= k + 1 /\ b.step <= k + 1
    BY <1>1
  <2>2. UpToStep(v, r, k + 1)
    BY <1>1, <1>2, <1>10, <2>1, GrowsUpToStep
  <2> QED BY <1>1, <1>2, <2>1, <2>2, GrowsUpToStep
<1>12. CallLast(w, r, k + 1)
  <2> SUFFICES ASSUME NEW i \in 1..Len(w), InStep(w, i, r, k + 1), w[i].kind = "call"
               PROVE  i = Len(w)
    BY DEF CallLast
  <2>1. i \in 1..Len(v) \/ i = Len(w)
    BY <1>2, LenProperties DEF Grows
  <2>2. CASE i \in 1..Len(v)
    <3>1. w[i] = v[i]
      BY <1>2, <2>2 DEF Grows, InStep
    <3> QED BY <1>5, <2>2, <3>1 DEF InStep
  <2> QED BY <2>1, <2>2
<1> QED
  BY <1>6, <1>7, <1>8, <1>9, <1>11, <1>12 DEF a, b

\* The result goes right behind its call.
LEMMA ResultFits ==
    ASSUME NEW t \in Seq(Row), NEW r \in 1..MaxRuns, NEW k \in 0..MaxSteps, CallLast(t, r, k)
    PROVE  Fits(t, ResultRow(r, k))
<1>1. LET row == ResultRow(r, k) IN row.runs = {r} /\ row.step = k /\ row.kind = "result"
  BY DEF ResultRow, RowOf
<1> QED
  BY <1>1 DEF Fits, CallLast, InStep, SameStep

\* What is about no tool call fits anywhere.
LEMMA OtherFits ==
    ASSUME NEW t \in Seq(Row), NEW row \in Row, row.kind \in {"prompt", "text", "summary"}
    PROVE  Fits(t, row)
BY DEF Fits

\* Rows with a label no run has used, or of the session's own run.
LEMMA GrowsKept ==
    ASSUME NEW s \in Sessions, NEW t \in Seq(Row), NEW w \in Seq(Row), NEW row \in Row,
           runs \in Nat, Kept(s, t), Grows(t, w, row), Fits(t, row), row.runs \subseteq 1..runs
    PROVE  Kept(s, w)
BY GrowsAdjacent, GrowsNoneAfter, GrowsSecured DEF Kept

-----------------------------------------------------------------------------
(* The steps.                                                              *)

\* A session of which nothing changes stays as it is, whatever else happens.
LEMMA OtherSession ==
    ASSUME TypeOK, NEW x \in Sessions, SessionInv(x), runs' \in Nat, runs <= runs',
           thread'[x] = thread[x], context'[x] = context[x], snapshot'[x] = snapshot[x],
           sound'[x] = sound[x], phase'[x] = phase[x], compacting'[x] = compacting[x],
           run'[x] = run[x], step'[x] = step[x], open'[x] = open[x],
           mem'[x] = mem[x], meta'[x] = meta[x]
    PROVE  SessionInv(x)'
<1>1. \A t : NoneAfter(t, runs) => NoneAfter(t, runs')
  BY DEF NoneAfter, TypeOK
<1>2. \A t : Kept(x, t) => /\ Adjacent(t) /\ NoneAfter(t, runs')
                           /\ \A r \in sound'[x] : Secured(t, r)
  BY <1>1 DEF Kept
<1>3. RowsOf(x)'
  BY <1>2 DEF SessionInv, RowsOf, Kept
<1>4. StepsOf(x)'
  <2>1. \A r \in 1..runs : r \in 1..runs'
    BY DEF TypeOK
  <2> QED BY <2>1 DEF SessionInv, StepsOf
<1>5. LockOf(x)'
  BY DEF SessionInv, LockOf
<1> QED
  BY <1>3, <1>4, <1>5 DEF SessionInv

\* The first state.
THEOREM InitInv == Init => IInv
<1> SUFFICES ASSUME Init PROVE IInv
  OBVIOUS
<1>1. TypeOK
  BY BoundsAssumption, EmptySeq DEF Init, TypeOK, Statuses, Phases
<1>2. ASSUME NEW s \in Sessions PROVE SessionInv(s)
  <2>1. /\ thread[s] = <<>> /\ phase[s] = "idle" /\ ~compacting[s] /\ sound[s] = {}
        /\ mem[s] = "absent" /\ ~open[s]
    BY DEF Init
  <2>2. Adjacent(<<>>) /\ NoneAfter(<<>>, runs)
    BY EmptySeq DEF Adjacent, NoneAfter
  <2> QED BY <2>1, <2>2 DEF SessionInv, RowsOf, StepsOf, LockOf, Kept
<1> QED
  BY <1>1, <1>2 DEF IInv

\* A new session.
LEMMA CreateInv ==
    ASSUME IInv, NEW s \in Sessions, NEW m \in {"chat", "one_shot"}, Create(s, m)
    PROVE  IInv'
<1> USE DEF IInv
<1>1. TypeOK'
  BY DEF TypeOK, Create, SetStatus, Statuses, taskVars
<1>2. SessionInv(s)'
  <2>1. mem'[s] = "active" /\ meta'[s] = "active"
    BY DEF TypeOK, Create, SetStatus
  <2>2. LockOf(s)'
    BY <2>1 DEF SessionInv, LockOf, Create, taskVars
  <2> QED BY <2>2 DEF SessionInv, RowsOf, StepsOf, Kept, Create, taskVars
<1>3. ASSUME NEW x \in Sessions, x # s PROVE SessionInv(x)'
  BY <1>3, OtherSession, SMTT(30) DEF TypeOK, Create, SetStatus, taskVars
<1> QED
  BY <1>1, <1>2, <1>3

\* A message is taken: its prompt is written.
LEMMA AcceptInv ==
    ASSUME IInv, NEW s \in Sessions, Accept(s)
    PROVE  IInv'
<1> USE DEF IInv
<1> DEFINE t == thread[s]
           p == Prompt(runs + 1)
           w == Write(t, p)
<1>0. t \in Seq(Row) /\ runs \in Nat /\ runs + 1 \in 1..MaxRuns /\ step[s] \in 0..MaxSteps
  BY BoundsAssumption DEF TypeOK, Accept
<1>1. p \in Row /\ p.runs = {runs + 1} /\ p.step = 0 /\ p.kind = "prompt"
  <2>1. {runs + 1} \in SUBSET (1..MaxRuns) /\ 0 \in 0..MaxSteps /\ "prompt" \in Kinds
    BY <1>0, BoundsAssumption DEF Kinds
  <2> QED BY <2>1, RowOfType DEF Prompt
<1>2. w \in Seq(Row) /\ Grows(t, w, p) /\ Fits(t, p)
  BY <1>0, <1>1, WriteGrows, OtherFits
<1>3. /\ runs' = runs + 1 /\ thread' = [thread EXCEPT ![s] = w]
      /\ sound' = [sound EXCEPT ![s] = IF Clean(t) THEN @ \cup {runs + 1} ELSE @]
      /\ run' = [run EXCEPT ![s] = runs + 1] /\ phase' = [phase EXCEPT ![s] = "accepted"]
      /\ UNCHANGED <<up, mem, meta, mode, step, open, cancelled, context, compacting, snapshot,
                     crashes>>
  BY DEF Accept, compactVars
<1>4. phase[s] = "idle" /\ ~compacting[s] /\ mem[s] # "absent"
  BY DEF Accept, Free, Known
<1> HIDE DEF w
<1>5. TypeOK'
  <2>1. thread' \in [Sessions -> Seq(Row)]
    BY <1>2, <1>3 DEF TypeOK
  <2>2. sound' \in [Sessions -> SUBSET (1..MaxRuns)]
    BY <1>0, <1>3 DEF TypeOK
  <2>3. run' \in [Sessions -> 0..MaxRuns] /\ runs' \in 0..MaxRuns
    BY <1>0, <1>3 DEF TypeOK
  <2>4. phase' \in [Sessions -> Phases]
    BY <1>3 DEF TypeOK, Phases
  <2> QED BY <1>3, <2>1, <2>2, <2>3, <2>4 DEF TypeOK
<1>6. SessionInv(s)'
  <2>1. /\ thread'[s] = w /\ run'[s] = runs + 1 /\ phase'[s] = "accepted"
        /\ sound'[s] = IF Clean(t) THEN sound[s] \cup {runs + 1} ELSE sound[s]
        /\ step'[s] = step[s] /\ open'[s] = open[s] /\ compacting'[s] = compacting[s]
    BY <1>3 DEF TypeOK
  <2>2. Adjacent(t) /\ NoneAfter(t, runs) /\ \A r \in sound[s] : Secured(t, r)
    BY DEF SessionInv, RowsOf, Kept
  <2>3. NoneAfter(t, runs + 1)
    BY <1>0, <2>2 DEF NoneAfter
  <2>4. Adjacent(w) /\ NoneAfter(w, runs + 1)
    <3>1. p.runs \subseteq 1..(runs + 1) /\ runs + 1 \in Nat
      BY <1>0, <1>1
    <3> QED BY <1>0, <1>1, <1>2, <2>2, <2>3, <3>1, GrowsAdjacent, GrowsNoneAfter
  <2>5. \A r \in sound[s] : Secured(w, r)
    BY <1>0, <1>1, <1>2, <2>2, GrowsSecured
  <2>6. Clean(t) => Secured(w, runs + 1)
    BY <1>0, <2>2, CleanSecured DEF w
  <2>7. UpToStep(w, runs + 1, step[s])
    <3>1. UpToStep(t, runs + 1, step[s])
      <4>1. \A i \in 1..Len(t) : t[i].runs # {runs + 1}
        <5>1. runs + 1 \notin 1..runs
          BY <1>0
        <5> QED BY <2>2, <5>1 DEF NoneAfter
      <4> QED BY <4>1 DEF UpToStep, InStep
    <3> QED BY <1>0, <1>1, <1>2, <3>1, GrowsUpToStep
  <2>8. Kept(s, thread[s])'
    BY <1>3, <2>1, <2>4, <2>5, <2>6 DEF Kept
  <2>9. RowsOf(s)'
    BY <1>4, <2>1, <2>8 DEF RowsOf
  <2>10. StepsOf(s)'
    <3>1. runs + 1 \in 1..runs'
      BY <1>0, <1>3
    <3> QED BY <1>4, <2>1, <2>7, <3>1 DEF SessionInv, StepsOf
  <2>11. LockOf(s)'
    BY <1>3, <1>4, <2>1 DEF SessionInv, LockOf
  <2> QED BY <2>9, <2>10, <2>11 DEF SessionInv
<1>7. ASSUME NEW x \in Sessions, x # s PROVE SessionInv(x)'
  <2>1. runs' \in Nat /\ runs <= runs'
    BY <1>0, <1>3
  <2> QED BY <1>3, <1>7, <2>1, OtherSession DEF TypeOK
<1> QED
  BY <1>5, <1>6, <1>7

\* The status is written and the run's task created.
LEMMA ActivateInv ==
    ASSUME IInv, NEW s \in Sessions, Activate(s)
    PROVE  IInv'
<1> USE DEF IInv
<1>1. TypeOK'
  BY DEF TypeOK, Activate, SetStatus, Statuses, Phases, taskVars
<1>2. SessionInv(s)'
  <2>1. LockOf(s)'
    BY DEF TypeOK, SessionInv, LockOf, Activate, SetStatus, Statuses, Phases, taskVars
  <2>2. StepsOf(s)'
    BY DEF TypeOK, SessionInv, StepsOf, Activate, SetStatus, Statuses, Phases, taskVars
  <2>3. RowsOf(s)'
    BY DEF TypeOK, SessionInv, RowsOf, Kept, Activate, SetStatus, Statuses, Phases, taskVars
  <2> QED BY <2>1, <2>2, <2>3 DEF SessionInv
<1>3. ASSUME NEW x \in Sessions, x # s PROVE SessionInv(x)'
  BY <1>3, OtherSession, SMTT(30) DEF TypeOK, Activate, SetStatus, Statuses, Phases, taskVars
<1> QED
  BY <1>1, <1>2, <1>3

\* A hook blocks the run.
LEMMA BlockedInv ==
    ASSUME IInv, NEW s \in Sessions, Blocked(s)
    PROVE  IInv'
<1> USE DEF IInv
<1>1. TypeOK'
  BY DEF TypeOK, Blocked, Phases, taskVars
<1>2. SessionInv(s)'
  <2>1. LockOf(s)'
    BY DEF TypeOK, SessionInv, LockOf, Blocked, Phases, taskVars
  <2>2. StepsOf(s)'
    BY DEF TypeOK, SessionInv, StepsOf, Blocked, Phases, taskVars
  <2>3. RowsOf(s)'
    BY DEF TypeOK, SessionInv, RowsOf, Kept, Blocked, Phases, taskVars
  <2> QED BY <2>1, <2>2, <2>3 DEF SessionInv
<1>3. ASSUME NEW x \in Sessions, x # s PROVE SessionInv(x)'
  BY <1>3, OtherSession, SMTT(30) DEF TypeOK, Blocked, Phases, taskVars
<1> QED
  BY <1>1, <1>2, <1>3

\* The loop ends with an error.
LEMMA FailInv ==
    ASSUME IInv, NEW s \in Sessions, Fail(s)
    PROVE  IInv'
<1> USE DEF IInv
<1>1. TypeOK'
  BY DEF TypeOK, Fail, Phases, taskVars
<1>2. SessionInv(s)'
  <2>1. LockOf(s)'
    BY DEF TypeOK, SessionInv, LockOf, Fail, Phases, taskVars
  <2>2. StepsOf(s)'
    BY DEF TypeOK, SessionInv, StepsOf, Fail, Phases, taskVars
  <2>3. RowsOf(s)'
    BY DEF TypeOK, SessionInv, RowsOf, Kept, Fail, Phases, taskVars
  <2> QED BY <2>1, <2>2, <2>3 DEF SessionInv
<1>3. ASSUME NEW x \in Sessions, x # s PROVE SessionInv(x)'
  BY <1>3, OtherSession, SMTT(30) DEF TypeOK, Fail, Phases, taskVars
<1> QED
  BY <1>1, <1>2, <1>3

\* The run's task is cancelled.
LEMMA CancelInv ==
    ASSUME IInv, NEW s \in Sessions, Cancel(s)
    PROVE  IInv'
<1> USE DEF IInv
<1>1. TypeOK'
  BY DEF TypeOK, Cancel, Phases, compactVars
<1>2. SessionInv(s)'
  <2>1. LockOf(s)'
    BY DEF TypeOK, SessionInv, LockOf, Cancel, Phases, compactVars
  <2>2. StepsOf(s)'
    BY DEF TypeOK, SessionInv, StepsOf, Cancel, Phases, compactVars
  <2>3. RowsOf(s)'
    BY DEF TypeOK, SessionInv, RowsOf, Kept, Cancel, Phases, compactVars
  <2> QED BY <2>1, <2>2, <2>3 DEF SessionInv
<1>3. ASSUME NEW x \in Sessions, x # s PROVE SessionInv(x)'
  BY <1>3, OtherSession, SMTT(30) DEF TypeOK, Cancel, Phases, compactVars
<1> QED
  BY <1>1, <1>2, <1>3

\* The new status is published.
LEMMA SettleInv ==
    ASSUME IInv, NEW s \in Sessions, Settle(s)
    PROVE  IInv'
<1> USE DEF IInv
<1>1. TypeOK'
  BY DEF TypeOK, Settle, Statuses, Phases, taskVars
<1>2. SessionInv(s)'
  <2>1. LockOf(s)'
    BY DEF TypeOK, SessionInv, LockOf, Settle, Statuses, Phases, taskVars
  <2>2. StepsOf(s)'
    BY DEF TypeOK, SessionInv, StepsOf, Settle, Statuses, Phases, taskVars
  <2>3. RowsOf(s)'
    BY DEF TypeOK, SessionInv, RowsOf, Kept, Settle, Statuses, Phases, taskVars
  <2> QED BY <2>1, <2>2, <2>3 DEF SessionInv
<1>3. ASSUME NEW x \in Sessions, x # s PROVE SessionInv(x)'
  BY <1>3, OtherSession, SMTT(30) DEF TypeOK, Settle, Statuses, Phases, taskVars
<1> QED
  BY <1>1, <1>2, <1>3

\* A session is closed or resumed.
LEMMA CloseInv ==
    ASSUME IInv, NEW s \in Sessions, Close(s)
    PROVE  IInv'
<1> USE DEF IInv
<1>1. TypeOK'
  BY DEF TypeOK, Close, SetStatus, Statuses, Free, Known, taskVars
<1>2. SessionInv(s)'
  <2>1. LockOf(s)'
    BY DEF TypeOK, SessionInv, LockOf, Close, SetStatus, Statuses, Free, Known, taskVars
  <2>2. StepsOf(s)'
    BY DEF TypeOK, SessionInv, StepsOf, Close, SetStatus, Statuses, Free, Known, taskVars
  <2>3. RowsOf(s)'
    BY DEF TypeOK, SessionInv, RowsOf, Kept, Close, SetStatus, Statuses, Free, Known, taskVars
  <2> QED BY <2>1, <2>2, <2>3 DEF SessionInv
<1>3. ASSUME NEW x \in Sessions, x # s PROVE SessionInv(x)'
  BY <1>3, OtherSession, SMTT(30) DEF TypeOK, Close, SetStatus, Statuses, Free, Known, taskVars
<1> QED
  BY <1>1, <1>2, <1>3

LEMMA ResumeInv ==
    ASSUME IInv, NEW s \in Sessions, Resume(s)
    PROVE  IInv'
<1> USE DEF IInv
<1>1. TypeOK'
  BY DEF TypeOK, Resume, SetStatus, Statuses, Free, Known, taskVars
<1>2. SessionInv(s)'
  <2>1. LockOf(s)'
    BY DEF TypeOK, SessionInv, LockOf, Resume, SetStatus, Statuses, Free, Known, taskVars
  <2>2. StepsOf(s)'
    BY DEF TypeOK, SessionInv, StepsOf, Resume, SetStatus, Statuses, Free, Known, taskVars
  <2>3. RowsOf(s)'
    BY DEF TypeOK, SessionInv, RowsOf, Kept, Resume, SetStatus, Statuses, Free, Known, taskVars
  <2> QED BY <2>1, <2>2, <2>3 DEF SessionInv
<1>3. ASSUME NEW x \in Sessions, x # s PROVE SessionInv(x)'
  BY <1>3, OtherSession, SMTT(30) DEF TypeOK, Resume, SetStatus, Statuses, Free, Known, taskVars
<1> QED
  BY <1>1, <1>2, <1>3

\* An error outside the try, or the last write: the lock is released.
LEMMA RaiseInv ==
    ASSUME IInv, NEW s \in Sessions, Raise(s)
    PROVE  IInv'
<1> USE DEF IInv
<1>1. TypeOK'
  BY BoundsAssumption, EmptySeq DEF TypeOK, Raise, EndTask, LocalsGone, Phases, compactVars
<1>2. SessionInv(s)'
  <2>1. phase'[s] = "idle" /\ open'[s] = FALSE
    BY DEF TypeOK, Raise, EndTask, LocalsGone, Phases, compactVars
  <2>2. LockOf(s)'
    BY <2>1 DEF TypeOK, SessionInv, LockOf, Raise, EndTask, LocalsGone, Phases, compactVars
  <2>3. StepsOf(s)'
    BY <2>1 DEF StepsOf
  <2>4. RowsOf(s)'
    BY <2>1 DEF TypeOK, SessionInv, RowsOf, Kept, Raise, EndTask, LocalsGone, Phases, compactVars
  <2> QED BY <2>2, <2>3, <2>4 DEF SessionInv
<1>3. ASSUME NEW x \in Sessions, x # s PROVE SessionInv(x)'
  <2>1. /\ thread'[x] = thread[x] /\ context'[x] = context[x] /\ snapshot'[x] = snapshot[x]
        /\ sound'[x] = sound[x] /\ phase'[x] = phase[x] /\ compacting'[x] = compacting[x]
        /\ run'[x] = run[x] /\ step'[x] = step[x] /\ open'[x] = open[x]
        /\ mem'[x] = mem[x] /\ meta'[x] = meta[x]
        /\ runs' \in Nat /\ runs <= runs'
    BY <1>3 DEF TypeOK, Raise, EndTask, LocalsGone, Phases, compactVars
  <2> QED BY <2>1, OtherSession
<1> QED
  BY <1>1, <1>2, <1>3

LEMMA InterruptInv ==
    ASSUME IInv, NEW s \in Sessions, Interrupt(s)
    PROVE  IInv'
<1> USE DEF IInv
<1>1. TypeOK'
  BY BoundsAssumption, EmptySeq DEF TypeOK, Interrupt, EndTask, LocalsGone, Phases, SetStatus,
     Statuses, compactVars
<1>2. SessionInv(s)'
  <2>1. phase'[s] = "idle" /\ open'[s] = FALSE
    BY DEF TypeOK, Interrupt, EndTask, LocalsGone, Phases, SetStatus, Statuses, compactVars
  <2>2. LockOf(s)'
    BY <2>1 DEF TypeOK, SessionInv, LockOf, Interrupt, EndTask, LocalsGone, Phases, SetStatus,
       Statuses, compactVars
  <2>3. StepsOf(s)'
    BY <2>1 DEF StepsOf
  <2>4. RowsOf(s)'
    BY <2>1 DEF TypeOK, SessionInv, RowsOf, Kept, Interrupt, EndTask, LocalsGone, Phases,
       SetStatus, Statuses, compactVars
  <2> QED BY <2>2, <2>3, <2>4 DEF SessionInv
<1>3. ASSUME NEW x \in Sessions, x # s PROVE SessionInv(x)'
  <2>1. /\ thread'[x] = thread[x] /\ context'[x] = context[x] /\ snapshot'[x] = snapshot[x]
        /\ sound'[x] = sound[x] /\ phase'[x] = phase[x] /\ compacting'[x] = compacting[x]
        /\ run'[x] = run[x] /\ step'[x] = step[x] /\ open'[x] = open[x]
        /\ mem'[x] = mem[x] /\ meta'[x] = meta[x]
        /\ runs' \in Nat /\ runs <= runs'
    BY <1>3 DEF TypeOK, Interrupt, EndTask, LocalsGone, Phases, SetStatus, Statuses, compactVars
  <2> QED BY <2>1, OtherSession
<1> QED
  BY <1>1, <1>2, <1>3

LEMMA WriteStatusInv ==
    ASSUME IInv, NEW s \in Sessions, WriteStatus(s)
    PROVE  IInv'
<1> USE DEF IInv
<1>1. TypeOK'
  BY BoundsAssumption, EmptySeq DEF TypeOK, WriteStatus, EndTask, LocalsGone, Phases, Statuses,
     Written, compactVars
<1>2. SessionInv(s)'
  <2>1. phase'[s] = "idle" /\ open'[s] = FALSE
    BY DEF TypeOK, WriteStatus, EndTask, LocalsGone, Phases, Statuses, Written, compactVars
  <2>2. LockOf(s)'
    BY <2>1 DEF TypeOK, SessionInv, LockOf, WriteStatus, EndTask, LocalsGone, Phases, Statuses,
       Written, compactVars
  <2>3. StepsOf(s)'
    BY <2>1 DEF StepsOf
  <2>4. RowsOf(s)'
    BY <2>1 DEF TypeOK, SessionInv, RowsOf, Kept, WriteStatus, EndTask, LocalsGone, Phases,
       Statuses, Written, compactVars
  <2> QED BY <2>2, <2>3, <2>4 DEF SessionInv
<1>3. ASSUME NEW x \in Sessions, x # s PROVE SessionInv(x)'
  <2>1. /\ thread'[x] = thread[x] /\ context'[x] = context[x] /\ snapshot'[x] = snapshot[x]
        /\ sound'[x] = sound[x] /\ phase'[x] = phase[x] /\ compacting'[x] = compacting[x]
        /\ run'[x] = run[x] /\ step'[x] = step[x] /\ open'[x] = open[x]
        /\ mem'[x] = mem[x] /\ meta'[x] = meta[x]
        /\ runs' \in Nat /\ runs <= runs'
    BY <1>3 DEF TypeOK, WriteStatus, EndTask, LocalsGone, Phases, Statuses, Written, compactVars
  <2> QED BY <2>1, OtherSession
<1> QED
  BY <1>1, <1>2, <1>3

\* The run reads its history.
LEMMA BeginInv ==
    ASSUME IInv, NEW s \in Sessions, Begin(s)
    PROVE  IInv'
<1> USE DEF IInv
<1> DEFINE t == thread[s]
<1>0. t \in Seq(Row) /\ Read(t) \in Seq(Row)
  BY ReadKeeps DEF TypeOK
<1>1. TypeOK'
  BY <1>0 DEF TypeOK, Begin, Phases, compactVars
<1>2. SessionInv(s)'
  <2>1. /\ context'[s] = Read(t) /\ thread'[s] = t /\ phase[s] = "starting"
        /\ phase'[s] = "running" /\ open'[s] = open[s]
        /\ run'[s] = run[s] /\ step'[s] = step[s] /\ runs' = runs /\ sound'[s] = sound[s]
        /\ compacting'[s] = compacting[s] /\ mem'[s] = mem[s] /\ meta'[s] = meta[s]
    BY DEF TypeOK, Begin, compactVars
  <2>2. ~compacting[s] /\ ~open[s]
    BY <2>1 DEF SessionInv, LockOf, StepsOf
  <2>3. Adjacent(t) /\ NoneAfter(t, runs) /\ (\A r \in sound[s] : Secured(t, r))
        /\ run[s] \in 1..runs /\ UpToStep(t, run[s], step[s])
    BY <2>1 DEF SessionInv, RowsOf, StepsOf, Kept
  <2>4. /\ Adjacent(Read(t)) /\ NoneAfter(Read(t), runs)
        /\ \A r \in sound[s] : Secured(Read(t), r)
        /\ UpToStep(Read(t), run[s], step[s])
    BY <1>0, <2>3, ReadKeeps
  <2>5. RowsOf(s)'
    BY <2>1, <2>2, <2>3, <2>4 DEF RowsOf, Kept
  <2>6. StepsOf(s)'
    BY <2>1, <2>2, <2>3, <2>4 DEF StepsOf
  <2>7. LockOf(s)'
    BY <2>1, <2>2 DEF SessionInv, LockOf
  <2> QED BY <2>5, <2>6, <2>7 DEF SessionInv
<1>3. ASSUME NEW x \in Sessions, x # s PROVE SessionInv(x)'
  BY <1>3, OtherSession, SMTT(30) DEF TypeOK, Begin, compactVars
<1> QED
  BY <1>1, <1>2, <1>3

\* run.finished is published: the tail is recovered.
LEMMA FinishInv ==
    ASSUME IInv, NEW s \in Sessions, Finish(s)
    PROVE  IInv'
<1> USE DEF IInv
<1>0. thread[s] \in Seq(Row) /\ Recovered(thread[s]) \in Seq(Row)
  BY RecoveredKeeps DEF TypeOK
<1>1. TypeOK'
  BY <1>0 DEF TypeOK, Finish, Phases, taskVars
<1>2. SessionInv(s)'
  <2>1. /\ thread'[s] = Recovered(thread[s]) /\ phase[s] = "finishing"
        /\ phase'[s] \in {"interrupting", "settling"} /\ sound'[s] = sound[s] /\ runs' = runs
        /\ compacting'[s] = compacting[s] /\ mem'[s] = mem[s] /\ meta'[s] = meta[s]
    BY DEF TypeOK, Finish, taskVars
  <2>2. ~compacting[s] /\ Kept(s, thread[s])
    BY <2>1 DEF SessionInv, LockOf, RowsOf
  <2>3. Kept(s, thread[s])'
    BY <1>0, <2>1, <2>2, RecoveredKeeps DEF Kept
  <2>4. RowsOf(s)'
    BY <2>1, <2>2, <2>3 DEF RowsOf
  <2>5. StepsOf(s)'
    BY <2>1 DEF StepsOf
  <2>6. LockOf(s)'
    BY <2>1, <2>2 DEF SessionInv, LockOf
  <2> QED BY <2>4, <2>5, <2>6 DEF SessionInv
<1>9. ASSUME NEW x \in Sessions, x # s PROVE SessionInv(x)'
  <2>1. /\ thread'[x] = thread[x] /\ context'[x] = context[x] /\ snapshot'[x] = snapshot[x]
        /\ sound'[x] = sound[x] /\ phase'[x] = phase[x] /\ compacting'[x] = compacting[x]
        /\ run'[x] = run[x] /\ step'[x] = step[x] /\ open'[x] = open[x]
        /\ mem'[x] = mem[x] /\ meta'[x] = meta[x]
        /\ runs' \in Nat /\ runs <= runs'
    BY <1>9 DEF TypeOK, Finish, taskVars
  <2> QED BY <2>1, OtherSession
<1> QED
  BY <1>1, <1>2, <1>9

\* At a cold start the same is done for a session without a task.
LEMMA RecoverTailInv ==
    ASSUME IInv, NEW s \in Sessions, RecoverTail(s)
    PROVE  IInv'
<1> USE DEF IInv
<1>0. thread[s] \in Seq(Row) /\ Recovered(thread[s]) \in Seq(Row)
  BY RecoveredKeeps DEF TypeOK
<1>1. TypeOK'
  BY <1>0 DEF TypeOK, RecoverTail, taskVars
<1>2. SessionInv(s)'
  <2>1. /\ thread'[s] = Recovered(thread[s]) /\ mem[s] = "absent"
        /\ phase'[s] = phase[s] /\ sound'[s] = sound[s] /\ runs' = runs /\ open'[s] = open[s]
        /\ compacting'[s] = compacting[s] /\ mem'[s] = mem[s] /\ meta'[s] = meta[s]
    BY DEF TypeOK, RecoverTail, taskVars
  <2>2. ~compacting[s] /\ phase[s] = "idle" /\ Kept(s, thread[s]) /\ ~open[s]
    BY <2>1 DEF SessionInv, LockOf, RowsOf, StepsOf
  <2>3. Kept(s, thread[s])'
    BY <1>0, <2>1, <2>2, RecoveredKeeps DEF Kept
  <2>4. RowsOf(s)'
    BY <2>1, <2>2, <2>3 DEF RowsOf
  <2>5. StepsOf(s)'
    BY <2>1, <2>2 DEF StepsOf
  <2>6. LockOf(s)'
    BY <2>1, <2>2 DEF SessionInv, LockOf
  <2> QED BY <2>4, <2>5, <2>6 DEF SessionInv
<1>9. ASSUME NEW x \in Sessions, x # s PROVE SessionInv(x)'
  <2>1. /\ thread'[x] = thread[x] /\ context'[x] = context[x] /\ snapshot'[x] = snapshot[x]
        /\ sound'[x] = sound[x] /\ phase'[x] = phase[x] /\ compacting'[x] = compacting[x]
        /\ run'[x] = run[x] /\ step'[x] = step[x] /\ open'[x] = open[x]
        /\ mem'[x] = mem[x] /\ meta'[x] = meta[x]
        /\ runs' \in Nat /\ runs <= runs'
    BY <1>9 DEF TypeOK, RecoverTail, taskVars
  <2> QED BY <2>1, OtherSession
<1> QED
  BY <1>1, <1>2, <1>9

\* A session is loaded; its status is one of a session that is there.
LEMMA LoadInv ==
    ASSUME IInv, NEW s \in Sessions, Load(s)
    PROVE  IInv'
<1> USE DEF IInv
<1>1. TypeOK'
  BY DEF TypeOK, Load, SetStatus, Statuses, taskVars
<1>2. SessionInv(s)'
  <2>1. /\ thread'[s] = thread[s] /\ mem[s] = "absent" /\ meta'[s] = mem'[s]
        /\ phase'[s] = phase[s] /\ sound'[s] = sound[s] /\ runs' = runs /\ open'[s] = open[s]
        /\ compacting'[s] = compacting[s]
    BY DEF TypeOK, Load, SetStatus, taskVars
  <2>2. ~compacting[s] /\ phase[s] = "idle" /\ Kept(s, thread[s]) /\ ~open[s]
    BY <2>1 DEF SessionInv, LockOf, RowsOf, StepsOf
  <2>3. RowsOf(s)'
    BY <2>1, <2>2 DEF RowsOf, Kept
  <2>4. StepsOf(s)'
    BY <2>1, <2>2 DEF StepsOf
  <2>5. LockOf(s)'
    BY <2>1, <2>2 DEF LockOf
  <2> QED BY <2>3, <2>4, <2>5 DEF SessionInv
<1>9. ASSUME NEW x \in Sessions, x # s PROVE SessionInv(x)'
  <2>1. /\ thread'[x] = thread[x] /\ context'[x] = context[x] /\ snapshot'[x] = snapshot[x]
        /\ sound'[x] = sound[x] /\ phase'[x] = phase[x] /\ compacting'[x] = compacting[x]
        /\ run'[x] = run[x] /\ step'[x] = step[x] /\ open'[x] = open[x]
        /\ mem'[x] = mem[x] /\ meta'[x] = meta[x]
        /\ runs' \in Nat /\ runs <= runs'
    BY <1>9 DEF TypeOK, Load, SetStatus, taskVars
  <2> QED BY <2>1, OtherSession
<1> QED
  BY <1>1, <1>2, <1>9

\* A compaction reads the thread.
LEMMA BeginCompactInv ==
    ASSUME IInv, NEW s \in Sessions, BeginCompact(s)
    PROVE  IInv'
<1> USE DEF IInv
<1>0. thread[s] \in Seq(Row) /\ Read(thread[s]) \in Seq(Row)
  BY ReadKeeps DEF TypeOK
<1>1. TypeOK'
  BY <1>0 DEF TypeOK, BeginCompact
<1>2. SessionInv(s)'
  <2>1. /\ thread'[s] = thread[s] /\ snapshot'[s] = Read(thread[s]) /\ phase[s] = "idle"
        /\ phase'[s] = phase[s] /\ sound'[s] = sound[s] /\ runs' = runs /\ open'[s] = open[s]
        /\ compacting'[s] /\ mem'[s] = mem[s] /\ meta'[s] = meta[s] /\ mem[s] # "absent"
    BY DEF TypeOK, BeginCompact, Free, Known
  <2>2. Kept(s, thread[s]) /\ ~open[s]
    BY <2>1 DEF SessionInv, RowsOf, StepsOf
  <2>3. Kept(s, thread[s])' /\ Kept(s, snapshot[s])'
    BY <1>0, <2>1, <2>2, ReadKeeps DEF Kept
  <2>4. RowsOf(s)'
    BY <2>1, <2>3 DEF RowsOf
  <2>5. StepsOf(s)'
    BY <2>1, <2>2 DEF StepsOf
  <2>6. LockOf(s)'
    BY <2>1 DEF SessionInv, LockOf
  <2> QED BY <2>4, <2>5, <2>6 DEF SessionInv
<1>9. ASSUME NEW x \in Sessions, x # s PROVE SessionInv(x)'
  <2>1. /\ thread'[x] = thread[x] /\ context'[x] = context[x] /\ snapshot'[x] = snapshot[x]
        /\ sound'[x] = sound[x] /\ phase'[x] = phase[x] /\ compacting'[x] = compacting[x]
        /\ run'[x] = run[x] /\ step'[x] = step[x] /\ open'[x] = open[x]
        /\ mem'[x] = mem[x] /\ meta'[x] = meta[x]
        /\ runs' \in Nat /\ runs <= runs'
    BY <1>9 DEF TypeOK, BeginCompact, Free
  <2> QED BY <2>1, OtherSession
<1> QED
  BY <1>1, <1>2, <1>9

\* The summary replaces what was read, or is given up.
LEMMA EndCompactInv ==
    ASSUME IInv, NEW s \in Sessions, EndCompact(s)
    PROVE  IInv'
<1> USE DEF IInv
<1>0. PICK t \in Compactions(snapshot[s]) \cup {thread[s]} : thread' = [thread EXCEPT ![s] = t]
  BY DEF EndCompact
<1>3. snapshot[s] \in Seq(Row) /\ thread[s] \in Seq(Row) /\ t \in Seq(Row)
  BY <1>0, CompactedKeeps DEF TypeOK
<1>1. TypeOK'
  BY <1>0, <1>3, EmptySeq DEF TypeOK, EndCompact
<1>2. SessionInv(s)'
  <2>1. /\ thread'[s] = t /\ compacting[s] /\ ~compacting'[s]
        /\ phase'[s] = phase[s] /\ sound'[s] = sound[s] /\ runs' = runs /\ open'[s] = open[s]
        /\ mem'[s] = mem[s] /\ meta'[s] = meta[s]
    BY <1>0 DEF TypeOK, EndCompact
  <2>2. Kept(s, thread[s]) /\ Kept(s, snapshot[s]) /\ phase[s] = "idle" /\ ~open[s]
    BY <2>1 DEF SessionInv, RowsOf, StepsOf, LockOf
  <2>3. Kept(s, t)
    BY <1>0, <1>3, <2>2, CompactedKeeps DEF Kept
  <2>4. RowsOf(s)'
    BY <2>1, <2>2, <2>3 DEF RowsOf, Kept
  <2>5. StepsOf(s)'
    BY <2>1, <2>2 DEF StepsOf
  <2>6. LockOf(s)'
    BY <2>1, <2>2 DEF SessionInv, LockOf
  <2> QED BY <2>4, <2>5, <2>6 DEF SessionInv
<1>9. ASSUME NEW x \in Sessions, x # s PROVE SessionInv(x)'
  <2>1. /\ thread'[x] = thread[x] /\ context'[x] = context[x] /\ snapshot'[x] = snapshot[x]
        /\ sound'[x] = sound[x] /\ phase'[x] = phase[x] /\ compacting'[x] = compacting[x]
        /\ run'[x] = run[x] /\ step'[x] = step[x] /\ open'[x] = open[x]
        /\ mem'[x] = mem[x] /\ meta'[x] = meta[x]
        /\ runs' \in Nat /\ runs <= runs'
    BY <1>0, <1>9 DEF TypeOK, EndCompact, Free
  <2> QED BY <2>1, OtherSession
<1> QED
  BY <1>1, <1>2, <1>9

\* The run compacts what it works on, between two steps.
LEMMA CompactInRunInv ==
    ASSUME IInv, NEW s \in Sessions, CompactInRun(s)
    PROVE  IInv'
<1> USE DEF IInv
<1>0. PICK t \in Compactions(context[s]) : /\ thread' = [thread EXCEPT ![s] = t]
                                        /\ context' = [context EXCEPT ![s] = t]
  BY DEF CompactInRun
<1>3. context[s] \in Seq(Row) /\ t \in Seq(Row)
  BY <1>0, CompactedKeeps DEF TypeOK
<1>1. TypeOK'
  BY <1>0, <1>3 DEF TypeOK, CompactInRun, compactVars
<1>2. SessionInv(s)'
  <2>1. /\ thread'[s] = t /\ context'[s] = t /\ compacting'[s] = compacting[s]
        /\ phase[s] = "running" /\ ~open[s]
        /\ phase'[s] = phase[s] /\ sound'[s] = sound[s] /\ runs' = runs /\ open'[s] = open[s]
        /\ mem'[s] = mem[s] /\ meta'[s] = meta[s] /\ run'[s] = run[s] /\ step'[s] = step[s]
    BY <1>0 DEF TypeOK, CompactInRun, compactVars
  <2>2. /\ Kept(s, context[s]) /\ UpToStep(context[s], run[s], step[s]) /\ ~compacting[s]
        /\ run[s] \in 1..runs
    BY <2>1 DEF SessionInv, RowsOf, StepsOf, LockOf
  <2>3. Kept(s, t) /\ UpToStep(t, run[s], step[s])
    BY <1>3, <2>2, CompactedKeeps DEF Kept
  <2>4. RowsOf(s)'
    BY <2>1, <2>2, <2>3 DEF RowsOf, Kept
  <2>5. StepsOf(s)'
    BY <2>1, <2>2, <2>3 DEF StepsOf
  <2>6. LockOf(s)'
    BY <2>1, <2>2 DEF SessionInv, LockOf
  <2> QED BY <2>4, <2>5, <2>6 DEF SessionInv
<1>9. ASSUME NEW x \in Sessions, x # s PROVE SessionInv(x)'
  <2>1. /\ thread'[x] = thread[x] /\ context'[x] = context[x] /\ snapshot'[x] = snapshot[x]
        /\ sound'[x] = sound[x] /\ phase'[x] = phase[x] /\ compacting'[x] = compacting[x]
        /\ run'[x] = run[x] /\ step'[x] = step[x] /\ open'[x] = open[x]
        /\ mem'[x] = mem[x] /\ meta'[x] = meta[x]
        /\ runs' \in Nat /\ runs <= runs'
    BY <1>0, <1>9 DEF TypeOK, CompactInRun, compactVars
  <2> QED BY <2>1, OtherSession
<1> QED
  BY <1>1, <1>2, <1>9

\* A deleted session has no rows.
LEMMA DeleteInv ==
    ASSUME IInv, NEW s \in Sessions, Delete(s)
    PROVE  IInv'
<1> USE DEF IInv
<1>1. TypeOK'
  BY EmptySeq DEF TypeOK, Delete, SetStatus, Statuses, taskVars
<1>2. SessionInv(s)'
  <2>1. /\ thread'[s] = <<>> /\ sound'[s] = {} /\ phase[s] = "idle" /\ ~compacting[s]
        /\ phase'[s] = phase[s] /\ compacting'[s] = compacting[s] /\ open'[s] = open[s]
        /\ mem'[s] = meta'[s]
    BY DEF TypeOK, Delete, SetStatus, Free, taskVars
  <2>2. Adjacent(<<>>) /\ NoneAfter(<<>>, runs') /\ ~open[s]
    BY <2>1, EmptySeq DEF Adjacent, NoneAfter, SessionInv, StepsOf
  <2>3. RowsOf(s)'
    BY <2>1, <2>2 DEF RowsOf, Kept
  <2>4. StepsOf(s)'
    BY <2>1, <2>2 DEF StepsOf
  <2>5. LockOf(s)'
    BY <2>1 DEF LockOf
  <2> QED BY <2>3, <2>4, <2>5 DEF SessionInv
<1>9. ASSUME NEW x \in Sessions, x # s PROVE SessionInv(x)'
  <2>1. /\ thread'[x] = thread[x] /\ context'[x] = context[x] /\ snapshot'[x] = snapshot[x]
        /\ sound'[x] = sound[x] /\ phase'[x] = phase[x] /\ compacting'[x] = compacting[x]
        /\ run'[x] = run[x] /\ step'[x] = step[x] /\ open'[x] = open[x]
        /\ mem'[x] = mem[x] /\ meta'[x] = meta[x]
        /\ runs' \in Nat /\ runs <= runs'
    BY <1>9 DEF TypeOK, Delete, SetStatus, taskVars
  <2> QED BY <2>1, OtherSession
<1> QED
  BY <1>1, <1>2, <1>9

\* A fork has the rows of its original.
LEMMA ForkInv ==
    ASSUME IInv, NEW s \in Sessions, NEW f \in Sessions, Fork(s, f)
    PROVE  IInv'
<1> USE DEF IInv
<1>0. meta[f] = "absent"
  <2>1. \E x \in Sessions : meta[x] = "absent"
    BY DEF Fork, ForkMayCome, Made
  <2> QED BY <2>1 DEF Fork, Fresh
<1>1. TypeOK'
  BY SMTT(30) DEF TypeOK, Fork, Copied, SetStatus, Statuses, taskVars
<1>2. SessionInv(f)'
  <2>1. /\ thread'[f] = thread[s] /\ sound'[f] = sound[s] /\ runs' = runs
        /\ phase'[f] = phase[f] /\ compacting'[f] = compacting[f] /\ open'[f] = open[f]
        /\ mem'[f] = meta'[f]
    BY DEF TypeOK, Fork, Copied, SetStatus, taskVars
  <2>2. phase[f] = "idle" /\ ~compacting[f] /\ ~open[f]
    BY <1>0 DEF SessionInv, LockOf, StepsOf
  <2>3. Kept(s, thread[s])
    BY DEF SessionInv, RowsOf
  <2>4. RowsOf(f)'
    BY <2>1, <2>2, <2>3 DEF RowsOf, Kept
  <2>5. StepsOf(f)'
    BY <2>1, <2>2 DEF StepsOf
  <2>6. LockOf(f)'
    BY <2>1, <2>2 DEF LockOf
  <2> QED BY <2>4, <2>5, <2>6 DEF SessionInv
<1>9. ASSUME NEW x \in Sessions, x # f PROVE SessionInv(x)'
  <2>1. /\ thread'[x] = thread[x] /\ context'[x] = context[x] /\ snapshot'[x] = snapshot[x]
        /\ sound'[x] = sound[x] /\ phase'[x] = phase[x] /\ compacting'[x] = compacting[x]
        /\ run'[x] = run[x] /\ step'[x] = step[x] /\ open'[x] = open[x]
        /\ mem'[x] = mem[x] /\ meta'[x] = meta[x]
        /\ runs' \in Nat /\ runs <= runs'
    BY <1>9 DEF TypeOK, Fork, SetStatus, taskVars
  <2> QED BY <2>1, OtherSession
<1> QED
  BY <1>1, <1>2, <1>9

\* The run of a session whose message is handled has a number that was given.
LEMMA RunGiven ==
    ASSUME TypeOK, NEW s \in Sessions, SessionInv(s), phase[s] = "running", NEW k \in 0..MaxSteps,
           NEW kind \in Kinds, run[s] \in 1..runs
    PROVE  /\ RowOf({run[s]}, k, kind) \in Row /\ RowOf({run[s]}, k, kind).runs \subseteq 1..runs
           /\ RowOf({run[s]}, k, kind).kind = kind
<1>1. {run[s]} \in SUBSET (1..MaxRuns)
  BY BoundsAssumption DEF TypeOK
<1> QED
  BY <1>1, RowOfType

\* The model asks for a tool.
LEMMA CallInv ==
    ASSUME IInv, NEW s \in Sessions, Call(s)
    PROVE  IInv'
<1> USE DEF IInv
<1> DEFINE t == thread[s]
           c == context[s]
           r == run[s]
           k == step[s]
           a == RowOf({r}, k + 1, "head")
           b == RowOf({r}, k + 1, "call")
           v == Write(t, a)
           w == Append(v, b)
           d == Append(c, a)
           e == Append(d, b)
<1>0. /\ t \in Seq(Row) /\ c \in Seq(Row) /\ k \in Nat /\ k + 1 \in 0..MaxSteps /\ runs \in Nat
      /\ phase[s] = "running"
  BY BoundsAssumption DEF TypeOK, Call, StepsLeft
<1>3. r \in 1..runs /\ r \in 1..MaxRuns
  BY <1>0, BoundsAssumption DEF TypeOK, SessionInv, StepsOf
<1>4. /\ a \in Row /\ a.runs \subseteq 1..runs /\ b \in Row /\ b.runs \subseteq 1..runs
  BY <1>0, <1>3, RunGiven DEF Kinds
<1>5. /\ thread' = [thread EXCEPT ![s] = w] /\ context' = [context EXCEPT ![s] = e]
  <2>1. CallRows(r, k + 1) = <<a, b>>
    BY DEF CallRows
  <2>2. WriteAll(t, <<a, b>>) = w /\ c \o <<a, b>> = e
    <3> HIDE DEF a, b
    <3> QED BY <1>0, <1>4, TwoRows
  <2> HIDE DEF a, b, w, e
  <2> QED BY <2>1, <2>2 DEF Call, AppendRows
<1>6. /\ v \in Seq(Row) /\ w \in Seq(Row) /\ d \in Seq(Row) /\ e \in Seq(Row)
      /\ Grows(t, v, a) /\ Grows(v, w, b) /\ Grows(c, d, a) /\ Grows(d, e, b)
  <2> HIDE DEF a, b
  <2> QED BY <1>0, <1>4, WriteGrows, AppendGrows
<1> HIDE DEF v, w, d, e
<1>1. TypeOK'
  BY <1>0, <1>5, <1>6 DEF TypeOK, Call, compactVars
<1>2. SessionInv(s)'
  <2>1. /\ thread'[s] = w /\ context'[s] = e /\ step'[s] = k + 1 /\ run'[s] = r
        /\ phase'[s] = "running" /\ sound'[s] = sound[s] /\ runs' = runs
        /\ compacting'[s] = compacting[s] /\ mem'[s] = mem[s] /\ meta'[s] = meta[s]
    BY <1>0, <1>5 DEF TypeOK, Call, compactVars
  <2>2. /\ Kept(s, t) /\ Kept(s, c) /\ UpToStep(t, r, k) /\ UpToStep(c, r, k) /\ ~compacting[s]
    BY <1>0 DEF SessionInv, RowsOf, StepsOf, LockOf
  <2>3. /\ Fits(t, a) /\ Fits(v, b) /\ UpToStep(w, r, k + 1) /\ CallLast(w, r, k + 1)
        /\ Fits(c, a) /\ Fits(d, b) /\ UpToStep(e, r, k + 1) /\ CallLast(e, r, k + 1)
    BY <1>0, <1>3, <1>6, <2>2, CallKeeps DEF Kept
  <2> HIDE DEF a, b
  <2>4. Kept(s, v) /\ Kept(s, d)
    BY <1>0, <1>4, <1>6, <2>2, <2>3, GrowsKept
  <2>5. Kept(s, w) /\ Kept(s, e)
    BY <1>0, <1>4, <1>6, <2>3, <2>4, GrowsKept
  <2>6. RowsOf(s)'
    BY <2>1, <2>2, <2>5 DEF RowsOf, Kept
  <2>7. StepsOf(s)'
    BY <1>3, <2>1, <2>3 DEF StepsOf
  <2>8. LockOf(s)'
    BY <1>0, <2>1, <2>2 DEF SessionInv, LockOf
  <2> QED BY <2>6, <2>7, <2>8 DEF SessionInv
<1>9. ASSUME NEW x \in Sessions, x # s PROVE SessionInv(x)'
  <2>1. /\ thread'[x] = thread[x] /\ context'[x] = context[x] /\ snapshot'[x] = snapshot[x]
        /\ sound'[x] = sound[x] /\ phase'[x] = phase[x] /\ compacting'[x] = compacting[x]
        /\ run'[x] = run[x] /\ step'[x] = step[x] /\ open'[x] = open[x]
        /\ mem'[x] = mem[x] /\ meta'[x] = meta[x]
        /\ runs' \in Nat /\ runs <= runs'
    BY <1>9 DEF TypeOK, Call, AppendRows, compactVars
  <2> QED BY <2>1, OtherSession
<1> QED
  BY <1>1, <1>2, <1>9

\* The tool answers.
LEMMA ResultInv ==
    ASSUME IInv, NEW s \in Sessions, Result(s)
    PROVE  IInv'
<1> USE DEF IInv
<1> DEFINE t == thread[s]
           c == context[s]
           r == run[s]
           k == step[s]
           a == ResultRow(r, k)
           w == Write(t, a)
           d == Append(c, a)
<1>0. /\ t \in Seq(Row) /\ c \in Seq(Row) /\ k \in 0..MaxSteps /\ k \in Nat /\ runs \in Nat
      /\ phase[s] = "running" /\ 0 \in 0..MaxSteps
  BY BoundsAssumption DEF TypeOK, Result
<1>3. r \in 1..runs /\ r \in 1..MaxRuns
  BY <1>0, BoundsAssumption DEF TypeOK, SessionInv, StepsOf
<1>4. a \in Row /\ a.runs \subseteq 1..runs /\ a.kind = "result" /\ a.step <= k
  <2>1. a \in Row /\ a.runs \subseteq 1..runs /\ a.kind = "result"
    BY <1>0, <1>3, RunGiven DEF Kinds, ResultRow
  <2>2. a.step = k
    BY DEF ResultRow, RowOf
  <2> QED BY <1>0, <2>1, <2>2
<1>5. /\ thread' = [thread EXCEPT ![s] = w] /\ context' = [context EXCEPT ![s] = d]
  <2>1. WriteAll(t, <<a>>) = w /\ c \o <<a>> = d
    <3> HIDE DEF a
    <3> QED BY <1>0, <1>4, TwoRows
  <2> HIDE DEF w, d
  <2> QED BY <2>1 DEF Result, AppendRows
<1>6. w \in Seq(Row) /\ d \in Seq(Row) /\ Grows(t, w, a) /\ Grows(c, d, a)
  <2> HIDE DEF a
  <2> QED BY <1>0, <1>4, WriteGrows, AppendGrows
<1> HIDE DEF w, d
<1>1. TypeOK'
  BY <1>0, <1>5, <1>6 DEF TypeOK, Result, Phases, compactVars
<1>2. SessionInv(s)'
  <2>1. /\ thread'[s] = w /\ context'[s] = d /\ step'[s] = k /\ run'[s] = r
        /\ sound'[s] = sound[s] /\ runs' = runs
        /\ compacting'[s] = compacting[s] /\ mem'[s] = mem[s] /\ meta'[s] = meta[s]
        /\ phase'[s] = "running" /\ ~open'[s]
    BY <1>0, <1>5 DEF TypeOK, Result, compactVars
  <2>2. /\ Kept(s, t) /\ Kept(s, c) /\ UpToStep(t, r, k) /\ UpToStep(c, r, k) /\ ~compacting[s]
    BY <1>0 DEF SessionInv, RowsOf, StepsOf, LockOf
  <2>3. Fits(t, a) /\ Fits(c, a)
    <3>1. CallLast(t, r, k) /\ CallLast(c, r, k)
      BY <1>0 DEF SessionInv, StepsOf, Result
    <3> QED BY <1>0, <1>3, <3>1, ResultFits
  <2> HIDE DEF a
  <2>4. Kept(s, w) /\ Kept(s, d)
    BY <1>0, <1>4, <1>6, <2>2, <2>3, GrowsKept
  <2>5. UpToStep(w, r, k) /\ UpToStep(d, r, k)
    BY <1>0, <1>4, <1>6, <2>2, GrowsUpToStep
  <2>6. RowsOf(s)'
    BY <2>1, <2>2, <2>4 DEF RowsOf, Kept
  <2>7. StepsOf(s)'
    BY <1>3, <2>1, <2>5 DEF StepsOf
  <2>8. LockOf(s)'
    BY <1>0, <2>1, <2>2 DEF SessionInv, LockOf
  <2> QED BY <2>6, <2>7, <2>8 DEF SessionInv
<1>9. ASSUME NEW x \in Sessions, x # s PROVE SessionInv(x)'
  <2>1. /\ thread'[x] = thread[x] /\ context'[x] = context[x] /\ snapshot'[x] = snapshot[x]
        /\ sound'[x] = sound[x] /\ phase'[x] = phase[x] /\ compacting'[x] = compacting[x]
        /\ run'[x] = run[x] /\ step'[x] = step[x] /\ open'[x] = open[x]
        /\ mem'[x] = mem[x] /\ meta'[x] = meta[x]
        /\ runs' \in Nat /\ runs <= runs'
    BY <1>9 DEF TypeOK, Result, AppendRows, compactVars
  <2> QED BY <2>1, OtherSession
<1> QED
  BY <1>1, <1>2, <1>9

\* The model answers.
LEMMA AnswerInv ==
    ASSUME IInv, NEW s \in Sessions, Answer(s)
    PROVE  IInv'
<1> USE DEF IInv
<1> DEFINE t == thread[s]
           c == context[s]
           r == run[s]
           k == step[s]
           a == TextRow(r)
           w == Write(t, a)
           d == Append(c, a)
<1>0. /\ t \in Seq(Row) /\ c \in Seq(Row) /\ k \in 0..MaxSteps /\ k \in Nat /\ runs \in Nat
      /\ phase[s] = "running" /\ 0 \in 0..MaxSteps
  BY BoundsAssumption DEF TypeOK, Answer
<1>3. r \in 1..runs /\ r \in 1..MaxRuns
  BY <1>0, BoundsAssumption DEF TypeOK, SessionInv, StepsOf
<1>4. a \in Row /\ a.runs \subseteq 1..runs /\ a.kind = "text" /\ a.step <= k
  <2>1. a \in Row /\ a.runs \subseteq 1..runs /\ a.kind = "text"
    BY <1>0, <1>3, RunGiven DEF Kinds, TextRow
  <2>2. a.step = 0
    BY DEF TextRow, RowOf
  <2> QED BY <1>0, <2>1, <2>2
<1>5. /\ thread' = [thread EXCEPT ![s] = w] /\ context' = [context EXCEPT ![s] = d]
  <2>1. WriteAll(t, <<a>>) = w /\ c \o <<a>> = d
    <3> HIDE DEF a
    <3> QED BY <1>0, <1>4, TwoRows
  <2> HIDE DEF w, d
  <2> QED BY <2>1 DEF Answer, AppendRows
<1>6. w \in Seq(Row) /\ d \in Seq(Row) /\ Grows(t, w, a) /\ Grows(c, d, a)
  <2> HIDE DEF a
  <2> QED BY <1>0, <1>4, WriteGrows, AppendGrows
<1> HIDE DEF w, d
<1>1. TypeOK'
  BY <1>0, <1>5, <1>6 DEF TypeOK, Answer, Phases, compactVars
<1>2. SessionInv(s)'
  <2>1. /\ thread'[s] = w /\ context'[s] = d /\ step'[s] = k /\ run'[s] = r
        /\ sound'[s] = sound[s] /\ runs' = runs
        /\ compacting'[s] = compacting[s] /\ mem'[s] = mem[s] /\ meta'[s] = meta[s]
        /\ phase'[s] = "finishing"
    BY <1>0, <1>5 DEF TypeOK, Answer, compactVars
  <2>2. /\ Kept(s, t) /\ Kept(s, c) /\ UpToStep(t, r, k) /\ UpToStep(c, r, k) /\ ~compacting[s]
    BY <1>0 DEF SessionInv, RowsOf, StepsOf, LockOf
  <2>3. Fits(t, a) /\ Fits(c, a)
    BY <1>0, <1>4, OtherFits
  <2> HIDE DEF a
  <2>4. Kept(s, w) /\ Kept(s, d)
    BY <1>0, <1>4, <1>6, <2>2, <2>3, GrowsKept
  <2>5. UpToStep(w, r, k) /\ UpToStep(d, r, k)
    BY <1>0, <1>4, <1>6, <2>2, GrowsUpToStep
  <2>6. RowsOf(s)'
    BY <2>1, <2>2, <2>4 DEF RowsOf, Kept
  <2>7. StepsOf(s)'
    BY <1>3, <2>1, <2>5 DEF StepsOf
  <2>8. LockOf(s)'
    BY <1>0, <2>1, <2>2 DEF SessionInv, LockOf
  <2> QED BY <2>6, <2>7, <2>8 DEF SessionInv
<1>9. ASSUME NEW x \in Sessions, x # s PROVE SessionInv(x)'
  <2>1. /\ thread'[x] = thread[x] /\ context'[x] = context[x] /\ snapshot'[x] = snapshot[x]
        /\ sound'[x] = sound[x] /\ phase'[x] = phase[x] /\ compacting'[x] = compacting[x]
        /\ run'[x] = run[x] /\ step'[x] = step[x] /\ open'[x] = open[x]
        /\ mem'[x] = mem[x] /\ meta'[x] = meta[x]
        /\ runs' \in Nat /\ runs <= runs'
    BY <1>9 DEF TypeOK, Answer, AppendRows, compactVars
  <2> QED BY <2>1, OtherSession
<1> QED
  BY <1>1, <1>2, <1>9

\* What the next write of a session appends.
LEMMA NextRows ==
    ASSUME TypeOK, NEW s \in Sessions, SessionInv(s), NEW rows \in NextWrites(s)
    PROVE  \/ phase[s] = "idle" /\ runs < MaxRuns /\ rows = <<Prompt(runs + 1)>>
           \/ phase[s] = "running" /\ open[s] /\ rows = <<ResultRow(run[s], step[s])>>
           \/ phase[s] = "running" /\ rows = <<TextRow(run[s])>>
           \/ phase[s] = "running" /\ step[s] < MaxSteps /\ rows = CallRows(run[s], step[s] + 1)
<1> DEFINE mayAccept == Free(s) /\ TakesMessages(s) /\ runs < MaxRuns /\ MoreMayHappen
<1>1. CASE mayAccept
  <2>1. phase[s] = "idle" /\ runs < MaxRuns
    BY <1>1 DEF Free
  <2>2. NextWrites(s) = {<<Prompt(runs + 1)>>}
    BY <1>1, <2>1 DEF NextWrites
  <2> QED BY <2>1, <2>2
<1>2. CASE ~mayAccept /\ phase[s] = "running" /\ open[s]
  <2>1. NextWrites(s) = {<<ResultRow(run[s], step[s])>>}
    BY <1>2 DEF NextWrites
  <2> QED BY <1>2, <2>1
<1>3. CASE ~mayAccept /\ phase[s] = "running" /\ ~open[s]
  <2>1. NextWrites(s) = {<<TextRow(run[s])>>} \cup
                        IF StepsLeft(s) THEN {CallRows(run[s], step[s] + 1)} ELSE {}
    BY <1>3 DEF NextWrites
  <2> QED BY <1>3, <2>1 DEF StepsLeft
<1>4. CASE ~mayAccept /\ phase[s] # "running"
  <2>1. NextWrites(s) = {}
    BY <1>4 DEF NextWrites
  <2> QED BY <2>1
<1> QED
  BY <1>1, <1>2, <1>3, <1>4

\* A write the kill cuts short loses no prompt and mixes no steps.
LEMMA CutKeeps ==
    ASSUME TypeOK, NEW s \in Sessions, SessionInv(s),
           NEW rows \in NextWrites(s), NEW w \in CutShort(thread[s], rows)
    PROVE  LET n == IF phase[s] = "idle" THEN runs + 1 ELSE runs
           IN  /\ w \in Seq(Row) /\ n \in 0..MaxRuns /\ runs <= n
               /\ Adjacent(w) /\ NoneAfter(w, n) /\ \A r \in sound[s] : Secured(w, r)
<1> DEFINE t == thread[s]
           r == run[s]
           k == step[s]
<1>0. /\ t \in Seq(Row) /\ runs \in Nat /\ runs \in 0..MaxRuns /\ k \in 0..MaxSteps /\ k \in Nat
      /\ Kept(s, t)
  BY BoundsAssumption DEF TypeOK, SessionInv, RowsOf
<1>1. CASE phase[s] = "idle" /\ runs < MaxRuns /\ rows = <<Prompt(runs + 1)>>
  <2> DEFINE p == Prompt(runs + 1)
             n == runs + 1
  <2>1. n \in 1..MaxRuns /\ n \in Nat /\ runs <= n
    BY <1>0, <1>1, BoundsAssumption
  <2>2. p \in Row /\ p.runs = {n} /\ p.kind = "prompt"
    <3>1. {n} \in SUBSET (1..MaxRuns) /\ 0 \in 0..MaxSteps /\ "prompt" \in Kinds
      BY <2>1, BoundsAssumption DEF Kinds
    <3> QED BY <3>1, RowOfType DEF Prompt
  <2> HIDE DEF p
  <2>3. w \in Seq(Row) /\ Grows(t, w, p) /\ Fits(t, p)
    BY <1>0, <1>1, <2>2, CutShortOne, OtherFits DEF p
  <2>4. NoneAfter(t, n)
    BY <1>0, <2>1 DEF Kept, NoneAfter
  <2>5. p.runs \subseteq 1..n
    BY <2>1, <2>2
  <2>6. Adjacent(w) /\ NoneAfter(w, n) /\ \A x \in sound[s] : Secured(w, x)
    BY <1>0, <2>1, <2>2, <2>3, <2>4, <2>5, GrowsAdjacent, GrowsNoneAfter, GrowsSecured DEF Kept
  <2> QED BY <1>1, <2>1, <2>3, <2>6
<1>2. CASE phase[s] = "running"
  <2>0. r \in 1..runs /\ r \in 1..MaxRuns /\ UpToStep(t, r, k)
    BY <1>0, <1>2, BoundsAssumption DEF TypeOK, SessionInv, StepsOf
  <2>1. SUFFICES w \in Seq(Row) /\ Kept(s, w)
    BY <1>0, <1>2 DEF Kept
  <2>2. CASE open[s] /\ rows = <<ResultRow(r, k)>>
    <3> DEFINE a == ResultRow(r, k)
    <3>1. a \in Row /\ a.runs \subseteq 1..runs
      BY <1>0, <1>2, <2>0, RunGiven DEF Kinds, ResultRow
    <3>2. Fits(t, a)
      BY <1>0, <1>2, <2>0, <2>2, ResultFits DEF SessionInv, StepsOf
    <3> HIDE DEF a
    <3>3. w \in Seq(Row) /\ Grows(t, w, a)
      BY <1>0, <2>2, <3>1, CutShortOne DEF a
    <3> QED BY <1>0, <3>1, <3>2, <3>3, GrowsKept
  <2>3. CASE rows = <<TextRow(r)>>
    <3> DEFINE a == TextRow(r)
    <3>1. a \in Row /\ a.runs \subseteq 1..runs /\ a.kind = "text"
      <4>1. 0 \in 0..MaxSteps
        BY BoundsAssumption
      <4> QED BY <1>0, <1>2, <2>0, <4>1, RunGiven DEF Kinds, TextRow
    <3> HIDE DEF a
    <3>2. w \in Seq(Row) /\ Grows(t, w, a) /\ Fits(t, a)
      BY <1>0, <2>3, <3>1, CutShortOne, OtherFits DEF a
    <3> QED BY <1>0, <3>1, <3>2, GrowsKept
  <2>4. CASE k < MaxSteps /\ rows = CallRows(r, k + 1)
    <3> DEFINE a == RowOf({r}, k + 1, "head")
               b == RowOf({r}, k + 1, "call")
               v == Write(t, a)
               u == Write(v, b)
    <3>1. k + 1 \in 0..MaxSteps
      BY <1>0, <2>4, BoundsAssumption
    <3>2. /\ a \in Row /\ a.runs \subseteq 1..runs /\ b \in Row /\ b.runs \subseteq 1..runs
      BY <1>2, <2>0, <3>1, RunGiven DEF Kinds
    <3>3. rows = <<a, b>>
      BY <2>4 DEF CallRows
    <3>4. v \in Seq(Row) /\ Grows(t, v, a) /\ u \in Seq(Row) /\ Grows(v, u, b)
      <4> HIDE DEF a, b
      <4>1. v \in Seq(Row) /\ Grows(t, v, a)
        BY <1>0, <3>2, WriteGrows
      <4> HIDE DEF v
      <4> QED BY <3>2, <4>1, WriteGrows
    <3>5. Fits(t, a) /\ Fits(v, b)
      <4> HIDE DEF v, u
      <4> QED BY <1>0, <2>0, <3>1, <3>4, CallKeeps DEF Kept
    <3>6. w \in Seq(Row) /\ (Grows(t, w, a) \/ Grows(v, w, b))
      <4> HIDE DEF a, b
      <4> QED BY <1>0, <3>2, <3>3, CutShortTwo
    <3> HIDE DEF a, b, v, u
    <3>7. Kept(s, v)
      BY <1>0, <3>2, <3>4, <3>5, GrowsKept
    <3> QED BY <1>0, <3>2, <3>4, <3>5, <3>6, <3>7, GrowsKept
  <2> QED BY <1>2, <2>2, <2>3, <2>4, NextRows
<1> QED
  BY <1>1, <1>2, NextRows

\* The daemon is killed.
LEMMA CrashInv ==
    ASSUME IInv, Crash
    PROVE  IInv'
<1> USE DEF IInv
<1>1. \/ thread' = thread /\ runs' = runs
      \/ \E s \in Sessions : \E rows \in NextWrites(s) : \E t \in CutShort(thread[s], rows) :
            /\ thread' = [thread EXCEPT ![s] = t]
            /\ runs' = IF phase[s] = "idle" THEN runs + 1 ELSE runs
  BY DEF Crash
<1>2. /\ up' = FALSE /\ mem' = [s \in Sessions |-> "absent"]
      /\ phase' = [s \in Sessions |-> "idle"] /\ step' = [s \in Sessions |-> 0]
      /\ open' = [s \in Sessions |-> FALSE] /\ cancelled' = [s \in Sessions |-> FALSE]
      /\ context' = [s \in Sessions |-> <<>>] /\ compacting' = [s \in Sessions |-> FALSE]
      /\ snapshot' = [s \in Sessions |-> <<>>]
      /\ UNCHANGED <<meta, mode, run, sound>> /\ crashes' \in 0..MaxCrashes
  BY BoundsAssumption DEF Crash, TypeOK
<1>3. /\ thread' \in [Sessions -> Seq(Row)] /\ runs' \in 0..MaxRuns
      /\ \A x \in Sessions : /\ Adjacent(thread'[x]) /\ NoneAfter(thread'[x], runs')
                             /\ \A r \in sound[x] : Secured(thread'[x], r)
  <2>1. CASE thread' = thread /\ runs' = runs
    BY <2>1 DEF TypeOK, SessionInv, RowsOf, Kept
  <2>2. ASSUME NEW s \in Sessions, NEW rows \in NextWrites(s), NEW t \in CutShort(thread[s], rows),
               thread' = [thread EXCEPT ![s] = t],
               runs' = IF phase[s] = "idle" THEN runs + 1 ELSE runs
        PROVE  <1>3
    <3>1. /\ t \in Seq(Row) /\ runs' \in 0..MaxRuns /\ runs <= runs'
          /\ Adjacent(t) /\ NoneAfter(t, runs') /\ \A r \in sound[s] : Secured(t, r)
      BY <2>2, CutKeeps
    <3>2. thread' \in [Sessions -> Seq(Row)] /\ thread'[s] = t
          /\ \A x \in Sessions : x # s => thread'[x] = thread[x]
      BY <2>2, <3>1 DEF TypeOK
    <3>3. ASSUME NEW x \in Sessions
          PROVE  /\ Adjacent(thread[x]) /\ NoneAfter(thread[x], runs')
                 /\ \A r \in sound[x] : Secured(thread[x], r)
      <4>1. Kept(x, thread[x])
        BY DEF SessionInv, RowsOf
      <4>2. \A r \in 1..runs : r \in 1..runs'
        BY <3>1, BoundsAssumption DEF TypeOK
      <4> QED BY <4>1, <4>2 DEF Kept, NoneAfter
    <3> QED BY <3>1, <3>2, <3>3
  <2> QED BY <1>1, <2>1, <2>2
<1>4. TypeOK'
  <2>1. <<>> \in Seq(Row) /\ 0 \in 0..MaxSteps /\ "absent" \in Statuses /\ "idle" \in Phases
    BY BoundsAssumption, EmptySeq DEF Statuses, Phases
  <2>2. context' \in [Sessions -> Seq(Row)] /\ snapshot' \in [Sessions -> Seq(Row)]
    BY <1>2, <2>1
  <2>3. mem' \in [Sessions -> Statuses] /\ phase' \in [Sessions -> Phases]
        /\ step' \in [Sessions -> 0..MaxSteps]
    BY <1>2, <2>1
  <2> QED BY <1>2, <1>3, <2>2, <2>3 DEF TypeOK
<1>5. ASSUME NEW x \in Sessions PROVE SessionInv(x)'
  <2>1. /\ mem'[x] = "absent" /\ phase'[x] = "idle" /\ ~open'[x] /\ ~compacting'[x]
        /\ sound'[x] = sound[x]
    BY <1>2
  <2>2. RowsOf(x)'
    BY <1>3, <2>1 DEF RowsOf, Kept
  <2>3. StepsOf(x)' /\ LockOf(x)'
    BY <2>1 DEF StepsOf, LockOf
  <2> QED BY <2>2, <2>3 DEF SessionInv
<1> QED
  BY <1>4, <1>5

\* The daemon is up, or nothing happens.
LEMMA UpInv ==
    ASSUME IInv, Up
    PROVE  IInv'
<1>1. TypeOK'
  BY DEF IInv, TypeOK, Up, taskVars
<1>2. ASSUME NEW x \in Sessions PROVE SessionInv(x)'
  BY OtherSession DEF IInv, TypeOK, Up, taskVars
<1> QED
  BY <1>1, <1>2 DEF IInv

LEMMA StutterInv ==
    ASSUME IInv, UNCHANGED vars
    PROVE  IInv'
<1>1. TypeOK'
  BY DEF IInv, TypeOK, vars
<1>2. ASSUME NEW x \in Sessions PROVE SessionInv(x)'
  BY OtherSession DEF IInv, TypeOK, vars
<1> QED
  BY <1>1, <1>2 DEF IInv

\* Every step.
THEOREM NextInv == IInv /\ [Next]_vars => IInv'
<1> SUFFICES ASSUME IInv, [Next]_vars PROVE IInv'
  OBVIOUS
<1>1. ASSUME NEW s \in Sessions, NEW m \in {"chat", "one_shot"}, Create(s, m) PROVE IInv'
  BY <1>1, CreateInv
<1>2. ASSUME NEW s \in Sessions, Works(s) PROVE IInv'
  BY <1>2, ActivateInv, BeginInv, BlockedInv, CallInv, ResultInv, AnswerInv, FailInv, FinishInv,
     InterruptInv, SettleInv, WriteStatusInv DEF Works
<1>3. ASSUME NEW s \in Sessions,
             Accept(s) \/ CompactInRun(s) \/ Raise(s) \/ Cancel(s) \/ Close(s) \/ Resume(s)
             \/ BeginCompact(s) \/ EndCompact(s) \/ Delete(s) \/ RecoverTail(s) \/ Load(s)
      PROVE  IInv'
  BY <1>3, AcceptInv, CompactInRunInv, RaiseInv, CancelInv, CloseInv, ResumeInv, BeginCompactInv,
     EndCompactInv, DeleteInv, RecoverTailInv, LoadInv
<1>4. ASSUME NEW s \in Sessions, NEW f \in Sessions, Fork(s, f) PROVE IInv'
  BY <1>4, ForkInv
<1>5. CASE Crash
  BY <1>5, CrashInv
<1>6. CASE Up
  BY <1>6, UpInv
<1>7. CASE UNCHANGED vars
  BY <1>7, StutterInv
<1> QED
  BY <1>1, <1>2, <1>3, <1>4, <1>5, <1>6, <1>7 DEF Next

-----------------------------------------------------------------------------
(* The theorems.                                                           *)

\* Every state of the sessions, whatever their clients, runs and kills do, is of
\* the type stated and satisfies the inductive invariant.
THEOREM Invariant == Spec => []IInv
BY InitInv, NextInv, PTL DEF Spec

THEOREM TypeCorrect == Spec => []TypeOK
<1>1. IInv => TypeOK
  BY DEF IInv
<1> QED
  BY <1>1, Invariant, PTL

\* What is secured is told.
LEMMA SecuredTells ==
    ASSUME NEW t \in Seq(Row), NEW r, Secured(t, r)
    PROVE  Tells(t, r)
<1>1. PICK i \in 1..Len(t) : SecuredAt(t, r, i)
  BY DEF Secured
<1>2. t[i].whole
  BY <1>1, LenProperties DEF SecuredAt, Settled
<1> QED
  BY <1>1, <1>2 DEF SecuredAt, Tells

\* A prompt appended to a clean thread is never lost: later runs, kills,
\* half-written lines, recoveries, compactions and forks leave it, or a summary
\* made of it, in the thread, where no recovery cuts it off.
THEOREM SoundPromptKeptHolds == Spec => []SoundPromptKept
<1>1. IInv => SoundPromptKept
  <2> SUFFICES ASSUME IInv, NEW s \in Sessions, NEW r \in sound[s] PROVE Tells(thread[s], r)
    BY DEF SoundPromptKept
  <2>1. thread[s] \in Seq(Row) /\ Secured(thread[s], r)
    BY DEF IInv, TypeOK, SessionInv, RowsOf, Kept
  <2> QED BY <2>1, SecuredTells
<1> QED
  BY <1>1, Invariant, PTL

\* A run whose prompt went to a clean thread works on a history that holds it.
THEOREM PromptReachesModelHolds == Spec => []PromptReachesModel
<1>1. IInv => PromptReachesModel
  <2> SUFFICES ASSUME IInv, NEW s \in Sessions, phase[s] = "running", run[s] \in sound[s]
               PROVE  Tells(context[s], run[s])
    BY DEF PromptReachesModel
  <2>1. context[s] \in Seq(Row) /\ Secured(context[s], run[s])
    BY DEF IInv, TypeOK, SessionInv, RowsOf, Kept
  <2> QED BY <2>1, SecuredTells
<1> QED
  BY <1>1, Invariant, PTL

\* Recovering any thread the sessions can come to leaves no damaged line, half
\* message or open call.
THEOREM RecoveryTidiesHolds == Spec => []RecoveryTidies
<1>1. IInv => RecoveryTidies
  <2> SUFFICES ASSUME IInv, NEW s \in Sessions
               PROVE  LET t == Recovered(thread[s])
                      IN  ~Damaged(t) /\ Pending(t, Len(t)) = {}
    BY DEF RecoveryTidies
  <2>1. thread[s] \in Seq(Row) /\ Adjacent(thread[s])
    BY DEF IInv, TypeOK, SessionInv, RowsOf, Kept
  <2> QED BY <2>1, RecoveredTidy
<1> QED
  BY <1>1, Invariant, PTL
=============================================================================
