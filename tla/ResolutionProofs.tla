---------------------------- MODULE ResolutionProofs ----------------------------
(***************************************************************************)
(* Theorems of Resolution: its types, that markets.resolved follows the    *)
(* table, and what races of reports and of panel decisions may do at most, *)
(* for any users, appeals, concurrent requests, passes and faults.         *)
(*                                                                         *)
(* A resolution's log only grows (Grows).  Every actor carries outcomes    *)
(* that are in the log already (Listed): the one of a row is its last      *)
(* decision (RowsOK), so what a pass listed is an earlier decision when it *)
(* is told, and what an appeal tells is its own (Follows).  The last two   *)
(* sections count the sessions that have yet to commit: a report that did  *)
(* not reach the threshold (Uncounted), a payout (Upholding).              *)
(***************************************************************************)
EXTENDS Resolution, TLAPS, FiniteSetTheorems

Actors == Sessions \cup Passes

Decided(r) == log[r] # <<>>

Typed == /\ TypeOK
         /\ log \in [Rows -> Seq(Decision)]
         /\ reports \in [Rows -> Seq(Users)]
         /\ actor = [a \in Actors |-> actor[a]]

RowsOK == \A r \in Rows : Decided(r) => row[r].outcome = log[r][Len(log[r])].outcome

PeopleOK == \A a \in Appeals : appeal[a].status = "escalated" =>
                appeal[a].row \in Rows /\ Decided(appeal[a].row)

\* The outcome was decided for the row before.
Listed(r, outcome) ==
    r \in Rows /\ \E k \in 1..Len(log[r]) : log[r][k].outcome = outcome

\* The outcome is that of the n-th decision, or of one before a pass confirmed.
Follows(r, n, outcome) ==
    /\ r \in Rows /\ n \in 1..Len(log[r])
    /\ \E k \in 1..n : /\ log[r][k].outcome = outcome
                       /\ k = n \/ (log[r][n].by = "pass" /\ k < n)

ActorOK(x) ==
    /\ x.at \in {"confirm", "emit"} => \A y \in x.rest : Listed(y.row, y.outcome)
    /\ x.at = "emit" => Follows(x.row, x.n, x.told)
    /\ x.at \in {"report", "reported"} => x.row \in Rows /\ x.user \in Users /\ Decided(x.row)
    /\ x.at \in {"review", "panel", "uphold", "reject"} =>
           x.appeal \in Appeals /\ x.row \in Rows /\ Decided(x.row)
    /\ x.at \in {"review", "uphold"} => x.outcome \in Outcomes

ActorsOK == \A a \in Actors : ActorOK(actor[a])
TopicOK  == \A e \in topic : Follows(e.row, e.n, e.outcome)
ToldOK   == \A r \in Rows : \A n \in 2..Len(log[r]) : Told(r, n)

IndInv == Typed /\ RowsOK /\ PeopleOK /\ ActorsOK /\ TopicOK /\ ToldOK

-----------------------------------------------------------------------------
LEMMA IndInvTypes == IndInv => TypeOK
  BY DEF IndInv, Typed

LEMMA IndInvEvents == IndInv => EventsFollowTable
  BY DEF IndInv, TopicOK, Follows, ToldOK, EventsFollowTable

LEMMA InitOK == Init => IndInv
<1> SUFFICES ASSUME Init PROVE IndInv
  OBVIOUS
<1> USE DEF Init
<1>1. Typed
  BY BoundAssumption DEF Typed, TypeOK, Actors, NoRow
<1>2. RowsOK /\ PeopleOK /\ ActorsOK /\ TopicOK /\ ToldOK
  BY DEF RowsOK, Decided, PeopleOK, ActorsOK, ActorOK, Actors, Idle, TopicOK, ToldOK
<1> QED
  BY <1>1, <1>2 DEF IndInv

-----------------------------------------------------------------------------
(* What a step leaves true *)

\* Logs grow.
Grows == \A r \in Rows : /\ Len(log[r]) <= Len(log'[r])
                         /\ \A n \in 1..Len(log[r]) : log'[r][n] = log[r][n]

LEMMA LogLength ==
    ASSUME Typed, NEW r \in Rows
    PROVE  Len(log[r]) \in Nat /\ (Decided(r) <=> Len(log[r]) # 0)
  BY DEF Typed, Decided

LEMMA GrownFollows ==
    ASSUME Typed, Typed', Grows, NEW r, NEW n, NEW outcome, Follows(r, n, outcome)
    PROVE  Follows(r, n, outcome)'
<1>1. r \in Rows /\ Len(log[r]) \in Nat /\ Len(log'[r]) \in Nat /\ Len(log[r]) <= Len(log'[r])
  BY DEF Typed, Grows, Follows
<1>2. n \in 1..Len(log'[r]) /\ \A k \in 1..n : log'[r][k] = log[r][k]
  BY <1>1 DEF Follows, Grows
<1> QED
  BY <1>1, <1>2 DEF Follows

LEMMA GrownListed ==
    ASSUME Typed, Typed', Grows, NEW r, NEW outcome, Listed(r, outcome)
    PROVE  Listed(r, outcome)'
<1>1. r \in Rows /\ Len(log[r]) \in Nat /\ Len(log'[r]) \in Nat /\ Len(log[r]) <= Len(log'[r])
  BY DEF Typed, Grows, Listed
<1> QED
  BY <1>1 DEF Listed, Grows

LEMMA GrownDecided ==
    ASSUME Typed, Typed', Grows, NEW r \in Rows, Decided(r) PROVE Decided(r)'
<1>1. Len(log[r]) \in Nat /\ Len(log'[r]) \in Nat /\ Len(log[r]) <= Len(log'[r])
  BY DEF Typed, Grows
<1> QED
  BY <1>1 DEF Decided, Typed

LEMMA GrownActor ==
    ASSUME Typed, Typed', Grows, NEW x, ActorOK(x) PROVE ActorOK(x)'
  BY GrownFollows, GrownListed, GrownDecided DEF ActorOK, Grows

LEMMA BecomeOK ==
    ASSUME Typed, NEW a \in Actors, NEW x, Become(a, x)
    PROVE  actor' = [b \in Actors |-> actor'[b]]
  BY DEF Typed, Become

LEMMA ActorMoves ==
    ASSUME IndInv, Typed', Grows, NEW a \in Actors, NEW x, Become(a, x), ActorOK(x)'
    PROVE  ActorsOK'
<1>1. actor'[a] = x /\ \A b \in Actors : b # a => actor'[b] = actor[b]
  BY DEF Become, IndInv, Typed
<1>2. \A b \in Actors : b # a => ActorOK(actor[b])'
  <2> SUFFICES ASSUME NEW b \in Actors, b # a PROVE ActorOK(actor[b])'
    OBVIOUS
  <2>1. PICK y : y = actor[b]
    OBVIOUS
  <2>2. ActorOK(y)'
    BY <2>1, GrownActor DEF IndInv, ActorsOK
  <2>3. actor'[b] = y
    BY <1>1, <2>1
  <2> QED
    BY <2>2, <2>3
<1> QED
  BY <1>1, <1>2 DEF ActorsOK

LEMMA ActorsStay ==
    ASSUME IndInv, Typed', Grows, UNCHANGED actor PROVE ActorsOK'
<1> SUFFICES ASSUME NEW b \in Actors PROVE ActorOK(actor[b])'
  BY DEF ActorsOK
<1>1. PICK y : y = actor[b]
  OBVIOUS
<1>2. ActorOK(y)'
  BY <1>1, GrownActor DEF IndInv, ActorsOK
<1> QED
  BY <1>1, <1>2

LEMMA TopicKept ==
    ASSUME IndInv, Typed', Grows, UNCHANGED topic PROVE TopicOK'
  BY GrownFollows DEF IndInv, TopicOK

\* What was told, or is about to be, stays so: only telling it ends a telling.
LEMMA ToldKept ==
    ASSUME IndInv, topic \subseteq topic', silenced \subseteq silenced',
           UNCHANGED actor \/ \E a \in Actors : \E x : Become(a, x) /\ actor[a].at # "emit",
           NEW r, NEW n, Told(r, n)
    PROVE  Told(r, n)'
<1>1. actor = [a \in Actors |-> actor[a]]
  BY DEF IndInv, Typed
<1>2. ASSUME NEW b \in DOMAIN actor, actor[b].at = "emit"
      PROVE  b \in DOMAIN actor' /\ actor'[b] = actor[b]
  BY <1>1, <1>2 DEF Become
<1> QED
  BY <1>2 DEF Told

\* A step that decides nothing.
LEMMA QuietStep ==
    ASSUME IndInv, Typed', PeopleOK', UNCHANGED <<row, log, topic, silenced>>,
           \/ UNCHANGED actor
           \/ \E a \in Actors : \E x : Become(a, x) /\ ActorOK(x) /\ actor[a].at # "emit"
    PROVE  IndInv'
<1>1. Grows
  BY DEF Grows, IndInv, Typed
<1>2. RowsOK'
  BY DEF IndInv, RowsOK, Decided
<1>3. ActorsOK'
  <2>1. CASE \E a \in Actors : \E x : Become(a, x) /\ ActorOK(x) /\ actor[a].at # "emit"
    <3>1. PICK a \in Actors : \E x : Become(a, x) /\ ActorOK(x)
      BY <2>1
    <3>2. PICK x : Become(a, x) /\ ActorOK(x)
      BY <3>1
    <3>3. ActorOK(x)'
      BY <1>1, <3>2, GrownActor DEF IndInv
    <3> QED
      BY <1>1, <3>2, <3>3, ActorMoves
  <2> QED
    BY <1>1, <2>1, ActorsStay
<1>4. TopicOK'
  BY <1>1, TopicKept
<1>5. ToldOK'
  BY ToldKept DEF IndInv, ToldOK
<1> QED
  BY <1>2, <1>3, <1>4, <1>5 DEF IndInv

-----------------------------------------------------------------------------
(* Decisions *)

\* The log of the row has one decision more, and the row its outcome.
Appended(r, outcome, by) ==
    /\ log' \in [Rows -> Seq(Decision)]
    /\ row' \in [Rows -> {NoRow} \cup [status : Active \cup {"overturned"}, outcome : Outcomes]]
    /\ \A q \in Rows : log'[q] = <<>> <=> row'[q] = NoRow
    /\ Len(log'[r]) = Len(log[r]) + 1
    /\ log'[r][Len(log[r]) + 1] = [by |-> by, outcome |-> outcome]
    /\ \A q \in Rows : q # r => log'[q] = log[q] /\ row'[q] = row[q]

LEMMA DecideOK ==
    ASSUME IndInv, NEW r \in Rows, NEW status \in Active \cup {"overturned"},
           NEW outcome \in Outcomes, NEW by \in {"proposal", "pass", "appeal"},
           Decide(r, status, outcome, by)
    PROVE  Appended(r, outcome, by) /\ Grows /\ RowsOK'
<1> DEFINE d == [by |-> by, outcome |-> outcome]
           x == [status |-> status, outcome |-> outcome]
<1>1. /\ log' = [log EXCEPT ![r] = Append(log[r], d)] /\ row' = [row EXCEPT ![r] = x]
      /\ d \in Decision /\ d.outcome = outcome /\ d.by = by
  BY DEF Decide, Decision
<1>2. /\ x \in [status : Active \cup {"overturned"}, outcome : Outcomes]
      /\ x # NoRow /\ x.outcome = outcome
  BY DEF NoRow, Active
<1> HIDE DEF d, x
<1>3. log \in [Rows -> Seq(Decision)] /\ log[r] \in Seq(Decision)
  BY DEF IndInv, Typed
<1>4. row \in [Rows -> {NoRow} \cup [status : Active \cup {"overturned"}, outcome : Outcomes]]
      /\ \A q \in Rows : log[q] = <<>> <=> row[q] = NoRow
  BY DEF IndInv, Typed, TypeOK
<1>5. /\ log'[r] = Append(log[r], d) /\ row'[r] = x
      /\ \A q \in Rows : q # r => log'[q] = log[q] /\ row'[q] = row[q]
  BY <1>1, <1>3, <1>4
<1>6. /\ log'[r] \in Seq(Decision) /\ log'[r] # <<>>
      /\ Len(log'[r]) = Len(log[r]) + 1 /\ Len(log[r]) \in Nat
      /\ log'[r][Len(log[r]) + 1] = d
      /\ \A n \in 1..Len(log[r]) : log'[r][n] = log[r][n]
  BY <1>1, <1>3, <1>5
<1>7. log' \in [Rows -> Seq(Decision)]
  BY <1>1, <1>3, <1>6
<1>8. row' \in [Rows -> {NoRow} \cup [status : Active \cup {"overturned"}, outcome : Outcomes]]
      /\ \A q \in Rows : log'[q] = <<>> <=> row'[q] = NoRow
  BY <1>1, <1>2, <1>4, <1>5, <1>6
<1>9. Grows
  <2>1. ASSUME NEW q \in Rows
        PROVE  /\ Len(log[q]) <= Len(log'[q])
               /\ \A n \in 1..Len(log[q]) : log'[q][n] = log[q][n]
    <3>1. Len(log[q]) \in Nat
      BY LogLength DEF IndInv
    <3>2. CASE q = r
      BY <1>6, <3>2
    <3>3. CASE q # r
      BY <1>5, <3>1, <3>3
    <3> QED
      BY <3>2, <3>3
  <2> QED
    BY <2>1 DEF Grows
<1>10. RowsOK'
  BY <1>1, <1>2, <1>5, <1>6 DEF IndInv, RowsOK, Decided
<1> QED
  BY <1>5, <1>6, <1>7, <1>8, <1>9, <1>10 DEF d, Appended

\* An actor is about to tell the decision, or an earlier one it confirmed.
Tells(a, r, outcome, by) == \E told, rest :
    /\ Become(a, Telling(r, told, rest)) /\ actor[a].at # "emit"
    /\ told = outcome \/ (by = "pass" /\ Listed(r, told))
    /\ \A y \in rest : Listed(y.row, y.outcome)

\* What else a decision may change.
Besides ==
    /\ UNCHANGED <<ended, reports, topic, escalated, requests, faults>>
    /\ silenced \subseteq silenced' /\ silenced' \subseteq Rows \X Nat
    /\ proposing' \in 0..MaxRows /\ payouts' \in [Appeals -> Nat]
    /\ appeal' \in [Appeals -> [row : {0} \cup Rows,
                                status : {"none", "escalated", "upheld", "rejected"}]]
    /\ \A a \in Appeals : appeal'[a].status = "escalated" => appeal'[a] = appeal[a]

\* A decision on r is made by an actor that is about to tell it, or it is the
\* first one on r or one that has no event.
LEMMA DecisionStep ==
    ASSUME IndInv, NEW r \in Rows, NEW status \in Active \cup {"overturned"},
           NEW outcome \in Outcomes, NEW by \in {"proposal", "pass", "appeal"},
           Decide(r, status, outcome, by), Besides,
           \/ UNCHANGED actor /\ ~Decided(r)
           \/ \E a \in Actors : Tells(a, r, outcome, by)
           \/ \E a \in Actors : /\ Become(a, Idle) /\ actor[a].at # "emit"
                               /\ <<r, Len(log[r]) + 1>> \in silenced'
    PROVE  IndInv'
<1>0. Appended(r, outcome, by) /\ Grows /\ RowsOK'
  BY DecideOK
<1>1. /\ Len(log'[r]) = Len(log[r]) + 1
      /\ log'[r][Len(log[r]) + 1] = [by |-> by, outcome |-> outcome]
      /\ \A q \in Rows : q # r => log'[q] = log[q]
      /\ Grows /\ RowsOK'
      /\ log' \in [Rows -> Seq(Decision)]
      /\ row' \in [Rows -> {NoRow} \cup [status : Active \cup {"overturned"}, outcome : Outcomes]]
      /\ \A q \in Rows : log'[q] = <<>> <=> row'[q] = NoRow
  BY <1>0 DEF Appended
<1>2. Len(log[r]) \in Nat /\ \A k \in 1..Len(log[r]) : log'[r][k] = log[r][k]
  BY <1>1, LogLength DEF IndInv, Grows
<1>3. \A e \in topic : e.n \in DOMAIN log'[e.row]
  <2> SUFFICES ASSUME NEW e \in topic PROVE e.n \in DOMAIN log'[e.row]
    OBVIOUS
  <2>1. e.row \in Rows /\ e.n \in DOMAIN log[e.row]
    BY DEF IndInv, Typed, TypeOK
  <2>2. /\ log[e.row] \in Seq(Decision) /\ log'[e.row] \in Seq(Decision)
        /\ Len(log[e.row]) <= Len(log'[e.row])
    BY <1>1, <2>1 DEF IndInv, Typed, Grows
  <2> QED
    BY <2>1, <2>2
<1>4. actor' = [a \in Actors |-> actor'[a]]
  BY BecomeOK DEF IndInv, Typed, Tells
<1>5. Typed' /\ PeopleOK'
  <2>1. Typed'
    BY <1>1, <1>3, <1>4 DEF IndInv, Typed, TypeOK, Besides
  <2>2. PeopleOK'
    BY <1>1, <2>1, GrownDecided DEF IndInv, PeopleOK, Besides
  <2> QED
    BY <2>1, <2>2
<1>6. TopicOK'
  BY <1>1, <1>5, TopicKept DEF Besides
<1>7. CASE UNCHANGED actor /\ ~Decided(r)
  <2>1. Len(log'[r]) = 1
    BY <1>1, <1>7, LogLength DEF IndInv
  <2>2. ToldOK'
    <3> SUFFICES ASSUME NEW q \in Rows, NEW n \in 2..Len(log'[q]) PROVE Told(q, n)'
      BY DEF ToldOK
    <3>1. n \in 2..Len(log[q])
      <4>1. ASSUME q = r PROVE FALSE
        <5>1. n \in 2..1
          BY <2>1, <4>1, Zenon
        <5> QED
          BY <5>1
      <4> QED
        BY <1>1, <4>1
    <3>2. Told(q, n)
      BY <3>1 DEF IndInv, ToldOK
    <3> QED
      BY <1>7, <3>2, ToldKept DEF Besides
  <2> QED
    BY <1>1, <1>5, <1>6, <1>7, <2>2, ActorsStay DEF IndInv
<1>8. ASSUME NEW a \in Actors, NEW told, NEW rest,
             Become(a, Telling(r, told, rest)), actor[a].at # "emit",
             told = outcome \/ (by = "pass" /\ Listed(r, told)),
             \A y \in rest : Listed(y.row, y.outcome)
      PROVE  IndInv'
  <2>1. PICK x : x = Telling(r, told, rest)
    OBVIOUS
  <2>2. x.at = "emit" /\ x.row = r /\ x.n = Len(log[r]) + 1 /\ x.told = told /\ x.rest = rest
    BY <2>1 DEF Telling
  <2>3. Follows(r, x.n, told)'
    <3>1. x.n \in 1..Len(log'[r]) /\ x.n \in 1..x.n
          /\ log'[r][x.n].outcome = outcome /\ log'[r][x.n].by = by
      BY <1>1, <1>2, <2>2
    <3>2. CASE told = outcome
      BY <3>1, <3>2 DEF Follows
    <3>3. CASE by = "pass" /\ Listed(r, told)
      <4>1. PICK k \in 1..Len(log[r]) : log[r][k].outcome = told
        BY <3>3 DEF Listed
      <4>2. k \in 1..x.n /\ k < x.n /\ log'[r][k].outcome = told
        BY <1>2, <2>2, <4>1
      <4> QED
        BY <3>1, <3>3, <4>2 DEF Follows
    <3> QED
      BY <1>8, <3>2, <3>3
  <2>4. \A y \in rest : Listed(y.row, y.outcome)'
    BY <1>1, <1>5, <1>8, GrownListed DEF IndInv
  <2>5. ActorOK(x)'
    BY <2>2, <2>3, <2>4 DEF ActorOK
  <2>6. ActorsOK'
    BY <1>1, <1>5, <1>8, <2>1, <2>5, ActorMoves
  <2>7. ToldOK'
    <3> SUFFICES ASSUME NEW q \in Rows, NEW n \in 2..Len(log'[q]) PROVE Told(q, n)'
      BY DEF ToldOK
    <3>1. CASE q # r \/ n <= Len(log[r])
      <4>1. n \in 2..Len(log[q])
        BY <1>1, <1>2, <3>1
      <4> QED
        BY <1>8, <4>1, ToldKept DEF IndInv, ToldOK, Besides
    <3>2. CASE q = r /\ n = Len(log[r]) + 1
      <4>1. a \in DOMAIN actor' /\ actor'[a] = x
        BY <1>8, <2>1 DEF Become, IndInv, Typed
      <4> QED
        BY <2>2, <3>2, <4>1 DEF Told
    <3> QED
      BY <1>1, <1>2, <3>1, <3>2
  <2> QED
    BY <1>1, <1>5, <1>6, <2>6, <2>7 DEF IndInv
<1>9. ASSUME NEW a \in Actors, Become(a, Idle), actor[a].at # "emit",
             <<r, Len(log[r]) + 1>> \in silenced'
      PROVE  IndInv'
  <2>1. ActorOK(Idle)'
    BY DEF ActorOK, Idle
  <2>2. ActorsOK'
    BY <1>1, <1>5, <1>9, <2>1, ActorMoves
  <2>3. ToldOK'
    <3> SUFFICES ASSUME NEW q \in Rows, NEW n \in 2..Len(log'[q]) PROVE Told(q, n)'
      BY DEF ToldOK
    <3>1. CASE q # r \/ n <= Len(log[r])
      <4>1. n \in 2..Len(log[q])
        BY <1>1, <1>2, <3>1
      <4> QED
        BY <1>9, <4>1, ToldKept DEF IndInv, ToldOK, Besides
    <3>2. CASE q = r /\ n = Len(log[r]) + 1
      BY <1>9, <3>2 DEF Told
    <3> QED
      BY <1>1, <1>2, <3>1, <3>2
  <2> QED
    BY <1>1, <1>5, <1>6, <2>2, <2>3 DEF IndInv
<1> QED
  BY <1>7, <1>8, <1>9 DEF Tells

-----------------------------------------------------------------------------
(* The actions *)

LEMMA SessionsAct == Sessions \subseteq Actors /\ Passes \subseteq Actors
  BY DEF Actors

LEMMA CountersOK ==
    /\ IndInv => requests \in 0..MaxRequests /\ faults \in 0..MaxFaults
    /\ \A s : IndInv /\ Request(s) => requests' \in 0..MaxRequests /\ actor[s] = Idle
    /\ IndInv /\ Fault => faults' \in 0..MaxFaults
  BY BoundAssumption DEF IndInv, Typed, TypeOK, Request, Fault

LEMMA ProposeStep == ASSUME IndInv, CheckMarket \/ TriggerResolution PROVE IndInv'
<1> USE DEF CheckMarket, TriggerResolution, people, histories
<1> DEFINE S == {r \in Rows : ~Exists(r)}
<1>1. IsFiniteSet(Rows) /\ Cardinality(Rows) = MaxRows
  BY FS_Interval, BoundAssumption DEF Rows
<1>2. S \subseteq Rows
  OBVIOUS
<1>3. proposing < Cardinality(S) /\ proposing' = proposing + 1
  BY DEF MayPropose
<1> HIDE DEF S
<1>4. Cardinality(S) <= MaxRows /\ Cardinality(S) \in Nat
  BY <1>1, <1>2, FS_Subset, FS_CardinalityType
<1>5. proposing' \in 0..MaxRows
  BY <1>3, <1>4, BoundAssumption DEF IndInv, Typed, TypeOK
<1>6. Typed'
  BY <1>5 DEF IndInv, Typed, TypeOK
<1>7. PeopleOK'
  BY DEF IndInv, PeopleOK, Decided
<1> QED
  BY <1>6, <1>7, QuietStep

LEMMA InsertProposalStep ==
    ASSUME IndInv, NEW r \in Rows, NEW outcome \in Proposable, InsertProposal(r, outcome)
    PROVE  IndInv'
<1> USE DEF InsertProposal, people
<1>1. outcome \in Outcomes /\ "proposed" \in Active \cup {"overturned"}
  BY ProposalAssumption DEF Active
<1>2. Decide(r, "proposed", outcome, "proposal") /\ ~Decided(r)
  BY DEF Exists, Decided, IndInv, Typed, TypeOK, Active, NoRow
<1>3. Besides
  BY BoundAssumption DEF Besides, IndInv, Typed, TypeOK
<1>4. UNCHANGED actor
  OBVIOUS
<1> QED
  BY <1>1, <1>2, <1>3, <1>4, DecisionStep

LEMMA EndWindowStep == ASSUME IndInv, NEW r \in Rows, EndWindow(r) PROVE IndInv'
<1> USE DEF EndWindow, people, histories
<1>1. Typed'
  BY DEF IndInv, Typed, TypeOK
<1>2. PeopleOK'
  BY DEF IndInv, PeopleOK, Decided
<1> QED
  BY <1>1, <1>2, QuietStep

\* A row that has a status has an outcome, that of its last decision.
LEMMA RowOutcome ==
    ASSUME IndInv, NEW r \in Rows, row[r].status # "none"
    PROVE  Decided(r) /\ row[r].outcome \in Outcomes /\ Listed(r, row[r].outcome)
<1>1. Decided(r) /\ row[r] \in [status : Active \cup {"overturned"}, outcome : Outcomes]
  BY DEF Decided, IndInv, Typed, TypeOK, NoRow
<1>2. Len(log[r]) \in Nat \ {0}
  BY <1>1, LogLength DEF IndInv
<1>3. Len(log[r]) \in 1..Len(log[r]) /\ log[r][Len(log[r])].outcome = row[r].outcome
  BY <1>1, <1>2 DEF IndInv, RowsOK
<1> QED
  BY <1>1, <1>3 DEF Listed

LEMMA DecidedStatus ==
    ASSUME IndInv, NEW r \in Rows, Decided(r) PROVE row[r].status # "none"
<1>1. row[r] \in [status : Active \cup {"overturned"}, outcome : Outcomes]
  BY DEF Decided, IndInv, Typed, TypeOK
<1> QED
  BY <1>1 DEF Active

LEMMA ListProposedStep == ASSUME IndInv, NEW p \in Passes, ListProposed(p) PROVE IndInv'
<1> DEFINE found == {r \in ended : row[r].status = "proposed"}
           x == [at |-> "confirm", rest |-> {[row |-> r, outcome |-> row[r].outcome] : r \in found}]
<1>1. /\ Become(p, x) /\ actor[p] = Idle
      /\ UNCHANGED <<row, ended, proposing, people, topic, histories, requests, faults>>
  BY DEF ListProposed
<1>2. \A r \in found : Listed(r, row[r].outcome)
  BY RowOutcome DEF IndInv, Typed, TypeOK
<1>3. \A y \in x.rest : Listed(y.row, y.outcome)
  BY <1>2
<1>4. x.at = "confirm"
  OBVIOUS
<1> HIDE DEF x
<1>5. ActorOK(x)
  BY <1>3, <1>4 DEF ActorOK
<1>6. p \in Actors /\ actor[p].at # "emit"
  BY <1>1 DEF Actors, Idle
<1>7. Typed'
  BY <1>1, <1>6, BecomeOK DEF IndInv, Typed, TypeOK, people, histories
<1>8. PeopleOK'
  BY <1>1 DEF IndInv, PeopleOK, Decided, people, histories
<1> QED
  BY <1>1, <1>5, <1>6, <1>7, <1>8, QuietStep DEF people, histories

LEMMA ConfirmProposalStep ==
    ASSUME IndInv, NEW p \in Passes, NEW x \in [row : Rows, outcome : Outcomes],
           ConfirmProposal(p, x)
    PROVE  IndInv'
<1> USE DEF ConfirmProposal, people
<1>1. p \in Actors /\ actor[p].at = "confirm" /\ x \in actor[p].rest
  BY DEF Actors
<1>2. \A y \in actor[p].rest : Listed(y.row, y.outcome)
  BY <1>1 DEF IndInv, ActorsOK, ActorOK
<1>3. x.row \in Rows /\ Listed(x.row, x.outcome)
  BY <1>1, <1>2
<1>4. row[x.row].status # "none"
  <2>1. Len(log[x.row]) # 0 /\ Decided(x.row)
    BY <1>3, LogLength DEF Listed, IndInv
  <2> QED
    BY <1>3, <2>1, DecidedStatus
<1>5. row[x.row].outcome \in Outcomes /\ "confirmed" \in Active \cup {"overturned"}
  BY <1>3, <1>4, RowOutcome DEF Active
<1>6. Decide(x.row, "confirmed", row[x.row].outcome, "pass")
  OBVIOUS
<1>7. Tells(p, x.row, row[x.row].outcome, "pass")
  BY <1>1, <1>2, <1>3 DEF Tells
<1>8. Besides
  BY DEF Besides, IndInv, Typed, TypeOK
<1> HIDE DEF ConfirmProposal
<1> QED
  BY <1>1, <1>3, <1>5, <1>6, <1>7, <1>8, DecisionStep

-----------------------------------------------------------------------------
(* Reports *)

LEMMA BeginReportStep ==
    ASSUME IndInv, NEW s \in Sessions, NEW u \in Users, NEW r \in Rows, BeginReport(s, u, r)
    PROVE  IndInv'
<1> USE DEF BeginReport, people, histories
<1> DEFINE x == [at |-> "report", user |-> u, row |-> r]
<1>1. s \in Actors /\ actor[s].at # "emit" /\ requests' \in 0..MaxRequests
  BY CountersOK DEF Actors, Request, Idle
<1>2. Become(s, x) /\ ActorOK(x)
  BY RowOutcome DEF ActorOK
<1> HIDE DEF x
<1>3. Typed'
  BY <1>1, <1>2, BecomeOK DEF IndInv, Typed, TypeOK
<1>4. PeopleOK'
  BY DEF IndInv, PeopleOK, Decided
<1> QED
  BY <1>1, <1>2, <1>3, <1>4, QuietStep

LEMMA InsertReportStep == ASSUME IndInv, NEW s \in Sessions, InsertReport(s) PROVE IndInv'
<1> USE DEF InsertReport, people, histories
<1> DEFINE r == actor[s].row
           x == [at |-> "reported", user |-> actor[s].user, row |-> r,
                 escalate |-> CountReports(r) >= Threshold]
<1>1. s \in Actors /\ actor[s].at = "report"
  BY DEF Actors
<1>2. r \in Rows /\ actor[s].user \in Users /\ Decided(r)
  BY <1>1 DEF IndInv, ActorsOK, ActorOK
<1>3. Become(s, x) /\ ActorOK(x)
  BY <1>2 DEF ActorOK
<1> HIDE DEF x, r
<1>4. Typed'
  BY <1>1, <1>3, BecomeOK DEF IndInv, Typed, TypeOK
<1>5. PeopleOK'
  BY DEF IndInv, PeopleOK, Decided
<1> QED
  BY <1>1, <1>3, <1>4, <1>5, QuietStep

\* An escalation changes the status of the row, not its outcome.
LEMMA CommitReportStep == ASSUME IndInv, NEW s \in Sessions, CommitReport(s) PROVE IndInv'
<1> USE DEF CommitReport
<1> DEFINE r == actor[s].row
<1>1. s \in Actors /\ actor[s].at = "reported"
  BY DEF Actors
<1>2. r \in Rows /\ actor[s].user \in Users /\ Decided(r)
  BY <1>1 DEF IndInv, ActorsOK, ActorOK
<1>3. row[r] \in [status : Active \cup {"overturned"}, outcome : Outcomes]
  BY <1>2 DEF Decided, IndInv, Typed, TypeOK
<1>4. Become(s, Idle) /\ ActorOK(Idle)
  BY DEF ActorOK, Idle
<1>5. /\ reports' \in [Rows -> Seq(Users)] /\ escalated' \subseteq Rows
      /\ row' = row \/ row' = [row EXCEPT ![r].status = "disputed"]
  <2>1. reports' = [reports EXCEPT ![r] = Append(reports[r], actor[s].user)]
    OBVIOUS
  <2>2. reports \in [Rows -> Seq(Users)] /\ Append(reports[r], actor[s].user) \in Seq(Users)
    BY <1>2 DEF IndInv, Typed
  <2>3. reports' \in [Rows -> Seq(Users)]
    BY <2>1, <2>2
  <2> QED
    BY <1>2, <2>3 DEF IndInv, Typed, TypeOK
<1> HIDE DEF r
<1>6. /\ row' \in [Rows -> {NoRow} \cup [status : Active \cup {"overturned"}, outcome : Outcomes]]
      /\ \A q \in Rows : row'[q].outcome = row[q].outcome /\ (row'[q] = NoRow <=> row[q] = NoRow)
  <2>1. row \in [Rows -> {NoRow} \cup [status : Active \cup {"overturned"}, outcome : Outcomes]]
    BY DEF IndInv, Typed, TypeOK
  <2>2. CASE row' = [row EXCEPT ![r].status = "disputed"]
    <3>1. PICK y : y = [row[r] EXCEPT !.status = "disputed"]
      OBVIOUS
    <3>2. y \in [status : Active \cup {"overturned"}, outcome : Outcomes]
      BY <1>3, <3>1 DEF Active
    <3>3. y.outcome = row[r].outcome /\ y # NoRow /\ row[r] # NoRow
      BY <1>3, <3>1, <3>2 DEF NoRow, Active
    <3>4. row' = [row EXCEPT ![r] = y]
      BY <2>2, <3>1
    <3> QED
      BY <1>2, <2>1, <3>2, <3>3, <3>4
  <2> QED
    BY <1>5, <2>1, <2>2
<1>7. Typed'
  BY <1>1, <1>4, <1>5, <1>6, BecomeOK DEF IndInv, Typed, TypeOK
<1>8. PeopleOK'
  BY DEF IndInv, PeopleOK, Decided
<1>9. RowsOK'
  BY <1>6 DEF IndInv, RowsOK, Decided
<1>10. Grows
  BY DEF Grows, IndInv, Typed
<1>11. ActorsOK'
  <2>1. ActorOK(Idle)'
    BY DEF ActorOK, Idle
  <2> QED
    BY <1>1, <1>4, <1>7, <1>10, <2>1, ActorMoves
<1>12. TopicOK'
  BY <1>7, <1>10, TopicKept
<1>13. ToldOK'
  BY <1>1, <1>4, ToldKept DEF IndInv, ToldOK
<1> QED
  BY <1>7, <1>8, <1>9, <1>11, <1>12, <1>13 DEF IndInv

-----------------------------------------------------------------------------
(* Appeals *)

LEMMA AppealType ==
    ASSUME IndInv, NEW a \in Appeals
    PROVE  /\ appeal[a] \in [row : {0} \cup Rows,
                             status : {"none", "escalated", "upheld", "rejected"}]
           /\ appeal[a].status = "escalated" =>
                  appeal[a].row \in Rows /\ Decided(appeal[a].row)
  BY DEF IndInv, Typed, TypeOK, PeopleOK

LEMMA AppealsMove ==
    ASSUME IndInv, NEW a,
           NEW y \in [row : {0} \cup Rows, status : {"none", "escalated", "upheld", "rejected"}],
           appeal' = [appeal EXCEPT ![a] = y]
    PROVE  /\ appeal' \in [Appeals -> [row : {0} \cup Rows,
                                       status : {"none", "escalated", "upheld", "rejected"}]]
           /\ \A b \in Appeals : appeal'[b] = y \/ appeal'[b] = appeal[b]
<1> DEFINE T == [row : {0} \cup Rows, status : {"none", "escalated", "upheld", "rejected"}]
<1>1. appeal \in [Appeals -> T] /\ y \in T
  BY DEF IndInv, Typed, TypeOK
<1> HIDE DEF T
<1>2. appeal' \in [Appeals -> T] /\ \A b \in Appeals : appeal'[b] = y \/ appeal'[b] = appeal[b]
  BY <1>1
<1> QED
  BY <1>2 DEF T

LEMMA SubmitAppealStep ==
    ASSUME IndInv, NEW s \in Sessions, NEW a \in Appeals, NEW r \in Rows, SubmitAppeal(s, a, r)
    PROVE  IndInv'
<1> USE DEF SubmitAppeal, people, histories
<1> DEFINE x == [at |-> "review", appeal |-> a, row |-> r, outcome |-> row[r].outcome]
<1>1. s \in Actors /\ actor[s].at # "emit" /\ requests' \in 0..MaxRequests
  BY CountersOK DEF Actors, Idle
<1>2. row[r].status # "none"
  BY DEF Active
<1>3. Become(s, x) /\ ActorOK(x)
  BY <1>2, RowOutcome DEF ActorOK
<1> HIDE DEF x
<1>4. Typed'
  BY <1>1, <1>3, BecomeOK DEF IndInv, Typed, TypeOK
<1>5. PeopleOK'
  BY DEF IndInv, PeopleOK, Decided
<1> QED
  BY <1>1, <1>3, <1>4, <1>5, QuietStep

LEMMA EndReviewStep ==
    ASSUME IndInv, NEW s \in Sessions, NEW status, EndReview(s, status) PROVE IndInv'
<1> USE DEF EndReview, histories
<1>1. s \in Actors /\ actor[s].at = "review"
  BY DEF Actors
<1>2. PICK x : x = actor[s]
  OBVIOUS
<1>3. x.appeal \in Appeals /\ x.row \in Rows /\ Decided(x.row)
  BY <1>1, <1>2 DEF IndInv, ActorsOK, ActorOK
<1>4. PICK y : y = [row |-> x.row, status |-> status]
  OBVIOUS
<1>5. y \in [row : {0} \cup Rows, status : {"none", "escalated", "upheld", "rejected"}]
      /\ y.row = x.row
  BY <1>3, <1>4
<1>6. appeal' = [appeal EXCEPT ![x.appeal] = y]
  BY <1>2, <1>4
<1>7. Become(s, Idle) /\ ActorOK(Idle)
  BY DEF ActorOK, Idle
<1>8. Typed'
  <2>1. appeal' \in [Appeals -> [row : {0} \cup Rows,
                                 status : {"none", "escalated", "upheld", "rejected"}]]
    BY <1>5, <1>6, AppealsMove
  <2> HIDE DEF EndReview
  <2>2. UNCHANGED <<row, ended, proposing, reports, payouts, topic, log, silenced,
                    escalated, requests, faults>>
    BY DEF EndReview
  <2>3. actor' = [a \in Actors |-> actor'[a]]
    BY <1>1, <1>7, BecomeOK DEF IndInv
  <2> QED
    BY <2>1, <2>2, <2>3 DEF IndInv, Typed, TypeOK
<1>9. PeopleOK'
  <2>1. appeal'[x.appeal] = y /\ \A b \in Appeals : b # x.appeal => appeal'[b] = appeal[b]
    BY <1>3, <1>6 DEF IndInv, Typed, TypeOK
  <2> QED
    BY <1>3, <1>5, <2>1 DEF IndInv, PeopleOK, Decided
<1> QED
  BY <1>1, <1>7, <1>8, <1>9, QuietStep

LEMMA DecidePanelStep ==
    ASSUME IndInv, NEW s \in Sessions, NEW a \in Appeals, NEW decision,
           DecidePanel(s, a, decision)
    PROVE  IndInv'
<1> USE DEF DecidePanel, people, histories
<1>1. s \in Actors /\ actor[s].at # "emit" /\ requests' \in 0..MaxRequests
  BY CountersOK DEF Actors, Idle
<1>2. appeal[a].status = "escalated" /\ appeal[a].row \in Rows /\ Decided(appeal[a].row)
  BY AppealType
<1>3. PICK x : /\ x = [at |-> "panel", appeal |-> a, row |-> appeal[a].row,
                       decision |-> decision]
               /\ Become(s, x)
  OBVIOUS
<1>4. ActorOK(x)
  BY <1>2, <1>3 DEF ActorOK
<1>5. Typed'
  BY <1>1, <1>3, BecomeOK DEF IndInv, Typed, TypeOK
<1>6. PeopleOK'
  BY DEF IndInv, PeopleOK, Decided
<1> QED
  BY <1>1, <1>3, <1>4, <1>5, <1>6, QuietStep

LEMMA ReadResolutionStep == ASSUME IndInv, NEW s \in Sessions, ReadResolution(s) PROVE IndInv'
<1> USE DEF ReadResolution, people, histories
<1>1. s \in Actors /\ actor[s].at = "panel"
  BY DEF Actors
<1>2. PICK y : y = actor[s]
  OBVIOUS
<1>3. y.appeal \in Appeals /\ y.row \in Rows /\ Decided(y.row)
  BY <1>1, <1>2 DEF IndInv, ActorsOK, ActorOK
<1>4. row[y.row].outcome \in Outcomes
  BY <1>3, DecidedStatus, RowOutcome
<1>5. PICK x : /\ x = [at |-> IF y.decision = "UPHOLD" THEN "uphold" ELSE "reject",
                       appeal |-> y.appeal, row |-> y.row, outcome |-> row[y.row].outcome]
               /\ Become(s, x)
  BY <1>2
<1>6. ActorOK(x)
  <2>1. /\ x.at \in {"uphold", "reject"} /\ x.appeal = y.appeal /\ x.row = y.row
        /\ x.outcome = row[y.row].outcome
    BY <1>5
  <2> QED
    BY <1>3, <1>4, <2>1 DEF ActorOK
<1>7. Typed'
  BY <1>1, <1>5, BecomeOK DEF IndInv, Typed, TypeOK
<1>8. PeopleOK'
  BY DEF IndInv, PeopleOK, Decided
<1> QED
  BY <1>1, <1>5, <1>6, <1>7, <1>8, QuietStep

LEMMA RejectAppealStep == ASSUME IndInv, NEW s \in Sessions, RejectAppeal(s) PROVE IndInv'
<1> USE DEF RejectAppeal, histories
<1>1. s \in Actors /\ actor[s].at = "reject"
  BY DEF Actors
<1>2. PICK a : a = actor[s].appeal
  OBVIOUS
<1>3. a \in Appeals
  BY <1>1, <1>2 DEF IndInv, ActorsOK, ActorOK
<1>4. PICK y : y = [appeal[a] EXCEPT !.status = "rejected"]
  OBVIOUS
<1>5. y \in [row : {0} \cup Rows, status : {"none", "escalated", "upheld", "rejected"}]
      /\ y.status = "rejected"
  BY <1>3, <1>4, AppealType
<1>6. appeal' = [appeal EXCEPT ![a] = y]
  BY <1>2, <1>4
<1>7. Become(s, Idle) /\ ActorOK(Idle)
  BY DEF ActorOK, Idle
<1>8. UNCHANGED <<row, ended, proposing, reports, payouts, topic, log, silenced, escalated,
                  requests, faults>>
  OBVIOUS
<1> HIDE DEF RejectAppeal
<1>9. Typed'
  <2>1. appeal' \in [Appeals -> [row : {0} \cup Rows,
                                 status : {"none", "escalated", "upheld", "rejected"}]]
    BY <1>5, <1>6, AppealsMove
  <2>2. actor' = [b \in Actors |-> actor'[b]]
    BY <1>1, <1>7, BecomeOK DEF IndInv
  <2> QED
    BY <1>8, <2>1, <2>2 DEF IndInv, Typed, TypeOK
<1>10. PeopleOK'
  <2>1. appeal'[a] = y /\ \A b \in Appeals : b # a => appeal'[b] = appeal[b]
    BY <1>3, <1>6 DEF IndInv, Typed, TypeOK
  <2> QED
    BY <1>5, <1>8, <2>1 DEF IndInv, PeopleOK, Decided
<1> QED
  BY <1>1, <1>7, <1>8, <1>9, <1>10, QuietStep

\* The outcome told is the flipped one that is committed.
LEMMA UpholdAppealStep == ASSUME IndInv, NEW s \in Sessions, UpholdAppeal(s) PROVE IndInv'
<1> USE DEF UpholdAppeal
<1>1. s \in Actors /\ actor[s].at \in {"review", "uphold"}
  BY DEF Actors
<1>2. PICK x : x = actor[s]
  OBVIOUS
<1>3. x.appeal \in Appeals /\ x.row \in Rows /\ x.outcome \in Outcomes
  BY <1>1, <1>2 DEF IndInv, ActorsOK, ActorOK
<1>4. FlipOutcome(x.outcome) \in Outcomes
  BY <1>3 DEF FlipOutcome, Outcomes
<1>5. Decide(x.row, "overturned", FlipOutcome(x.outcome), "appeal")
      /\ "overturned" \in Active \cup {"overturned"}
  BY <1>2
<1>6. \/ Tells(s, x.row, FlipOutcome(x.outcome), "appeal") /\ UNCHANGED silenced
      \/ /\ Become(s, Idle) /\ actor[s].at # "emit"
         /\ silenced' = silenced \cup {<<x.row, Len(log[x.row]) + 1>>}
  BY <1>1, <1>2 DEF Tells
<1>7. PICK y : y = [row |-> x.row, status |-> "upheld"]
  OBVIOUS
<1>8. y \in [row : {0} \cup Rows, status : {"none", "escalated", "upheld", "rejected"}]
      /\ y.status # "escalated"
  BY <1>3, <1>7
<1>9. appeal' = [appeal EXCEPT ![x.appeal] = y]
  BY <1>2, <1>7
<1>10. payouts' = [payouts EXCEPT ![x.appeal] = payouts[x.appeal] + 1]
  BY <1>2
<1>11. payouts' \in [Appeals -> Nat]
  <2>1. payouts \in [Appeals -> Nat]
    BY DEF IndInv, Typed, TypeOK
  <2> HIDE DEF UpholdAppeal
  <2>2. payouts[x.appeal] + 1 \in Nat
    BY <1>3, <2>1
  <2> QED
    BY <1>10, <2>1, <2>2
<1>12. /\ appeal' \in [Appeals -> [row : {0} \cup Rows,
                                   status : {"none", "escalated", "upheld", "rejected"}]]
       /\ \A a \in Appeals : appeal'[a].status = "escalated" => appeal'[a] = appeal[a]
  <2> HIDE DEF UpholdAppeal
  <2>1. /\ appeal' \in [Appeals -> [row : {0} \cup Rows,
                                     status : {"none", "escalated", "upheld", "rejected"}]]
        /\ \A a \in Appeals : appeal'[a] = y \/ appeal'[a] = appeal[a]
    BY <1>8, <1>9, AppealsMove
  <2> QED
    BY <1>8, <2>1
<1>13. silenced \subseteq silenced' /\ silenced' \subseteq Rows \X Nat
  <2>1. silenced \subseteq Rows \X Nat /\ Len(log[x.row]) + 1 \in Nat
    BY <1>3, LogLength DEF IndInv, Typed, TypeOK
  <2> HIDE DEF UpholdAppeal
  <2> QED
    BY <1>3, <1>6, <2>1
<1>14. Besides
  BY <1>11, <1>12, <1>13 DEF Besides, IndInv, Typed, TypeOK
<1> HIDE DEF UpholdAppeal
<1> QED
  BY <1>1, <1>3, <1>4, <1>5, <1>6, <1>14, DecisionStep

-----------------------------------------------------------------------------
(* Events and failures *)

\* What is left to confirm was listed.
LEMMA AfterTellingOK ==
    ASSUME NEW x, ActorOK(x), x.at = "emit" PROVE ActorOK(AfterTelling(x))
<1>1. ActorOK(Idle)
  BY DEF ActorOK, Idle
<1>2. PICK y : y = [at |-> "confirm", rest |-> x.rest]
  OBVIOUS
<1>3. y.at = "confirm" /\ y.rest = x.rest
  BY <1>2
<1>4. ActorOK(y)
  BY <1>3 DEF ActorOK
<1> QED
  BY <1>1, <1>2, <1>4 DEF AfterTelling

LEMMA EmitResolvedStep == ASSUME IndInv, NEW a \in Actors, EmitResolved(a) PROVE IndInv'
<1> USE DEF EmitResolved, people
<1>1. PICK x : x = actor[a]
  OBVIOUS
<1>2. x.at = "emit" /\ ActorOK(x) /\ Become(a, AfterTelling(x)) /\ ActorOK(AfterTelling(x))
  BY <1>1, AfterTellingOK DEF IndInv, ActorsOK
<1>3. Follows(x.row, x.n, x.told)
  BY <1>2 DEF ActorOK
<1>4. x.row \in Rows /\ x.n \in 1..Len(log[x.row]) /\ log[x.row] \in Seq(Decision)
  BY <1>3 DEF Follows, IndInv, Typed
<1>5. PICK e : e = [row |-> x.row, n |-> x.n, outcome |-> x.told]
  OBVIOUS
<1>6. e.row = x.row /\ e.n = x.n /\ e.outcome = x.told
  BY <1>5
<1>7. x.told \in Outcomes /\ x.n \in DOMAIN log[x.row] /\ x.n \in Nat
  <2>1. PICK k \in 1..x.n : log[x.row][k].outcome = x.told
    BY <1>3 DEF Follows
  <2>2. k \in 1..Len(log[x.row])
    BY <1>4, <2>1
  <2>3. log[x.row][k] \in Decision
    BY <1>4, <2>2
  <2> QED
    BY <1>4, <2>1, <2>3 DEF Decision
<1>8. \/ topic' = topic \cup {e} /\ UNCHANGED <<silenced, faults>>
      \/ silenced' = silenced \cup {<<x.row, x.n>>} /\ Fault /\ UNCHANGED topic
  BY <1>1, <1>5
<1>9. actor' = [b \in Actors |-> actor'[b]]
  BY <1>2, BecomeOK DEF IndInv
<1>10. UNCHANGED <<row, ended, proposing, reports, appeal, payouts, log, escalated, requests>>
  OBVIOUS
<1> HIDE DEF EmitResolved
<1>11. faults' \in 0..MaxFaults
  BY <1>8, CountersOK
<1>12. silenced' \subseteq Rows \X Nat
  BY <1>4, <1>7, <1>8 DEF IndInv, Typed, TypeOK
<1>13. \A f \in topic' : f.row \in Rows /\ f.n \in DOMAIN log[f.row] /\ f.outcome \in Outcomes
  BY <1>4, <1>6, <1>7, <1>8 DEF IndInv, Typed, TypeOK
<1>14. Typed'
  BY <1>9, <1>10, <1>11, <1>12, <1>13 DEF IndInv, Typed, TypeOK
<1>15. RowsOK' /\ PeopleOK' /\ Grows
  BY <1>10 DEF IndInv, Typed, RowsOK, PeopleOK, Decided, Grows
<1>16. ActorsOK'
  <2>1. PICK y : y = AfterTelling(x)
    OBVIOUS
  <2>2. ActorOK(y)'
    BY <1>2, <1>14, <1>15, <2>1, GrownActor DEF IndInv
  <2> QED
    BY <1>2, <1>14, <1>15, <2>1, <2>2, ActorMoves
<1>17. TopicOK'
  <2> SUFFICES ASSUME NEW f \in topic' PROVE Follows(f.row, f.n, f.outcome)'
    BY DEF TopicOK
  <2>1. Follows(f.row, f.n, f.outcome)
    BY <1>3, <1>6, <1>8 DEF IndInv, TopicOK
  <2> QED
    BY <1>10, <2>1 DEF Follows
<1>18. ToldOK'
  <2> SUFFICES ASSUME NEW r \in Rows, NEW n \in 2..Len(log[r]) PROVE Told(r, n)'
    BY <1>10 DEF ToldOK
  <2>1. Told(r, n)
    BY DEF IndInv, ToldOK
  <2>2. topic \subseteq topic' /\ silenced \subseteq silenced'
    BY <1>8
  <2>3. CASE x.row = r /\ x.n = n
    BY <1>6, <1>8, <2>3 DEF Told
  <2>4. CASE \/ \E f \in topic : f.row = r /\ f.n = n
             \/ <<r, n>> \in silenced
    BY <2>2, <2>4 DEF Told
  <2>5. CASE \E b \in DOMAIN actor : b # a /\ actor[b].at = "emit" /\ actor[b].row = r
                                           /\ actor[b].n = n
    <3>1. PICK b \in DOMAIN actor : b # a /\ actor[b].at = "emit" /\ actor[b].row = r
                                          /\ actor[b].n = n
      BY <2>5
    <3>2. b \in DOMAIN actor' /\ actor'[b] = actor[b]
      BY <1>2, <3>1 DEF Become, IndInv, Typed
    <3> QED
      BY <3>1, <3>2 DEF Told
  <2> QED
    BY <1>1, <2>1, <2>3, <2>4, <2>5 DEF Told
<1> QED
  BY <1>14, <1>15, <1>16, <1>17, <1>18 DEF IndInv

LEMMA CrashStep == ASSUME IndInv, NEW S \in SUBSET Actors, Crash(S) PROVE IndInv'
<1> USE DEF Crash, people
<1>1. DOMAIN actor = Actors
  BY DEF IndInv, Typed
<1>2. /\ actor' = [a \in Actors |-> IF a \in S THEN Idle ELSE actor[a]]
      /\ silenced' = silenced \cup {<<actor[a].row, actor[a].n>> :
                                      a \in {b \in S : actor[b].at = "emit"}}
      /\ UNCHANGED <<row, ended, proposing, reports, appeal, payouts, topic, log, escalated, requests>>
  BY <1>1
<1>3. faults' \in 0..MaxFaults
  BY CountersOK
<1> HIDE DEF Crash
<1>4. silenced' \subseteq Rows \X Nat
  <2>1. ASSUME NEW a \in S, actor[a].at = "emit" PROVE <<actor[a].row, actor[a].n>> \in Rows \X Nat
    <3>1. Follows(actor[a].row, actor[a].n, actor[a].told)
      BY <2>1 DEF IndInv, ActorsOK, ActorOK
    <3>2. actor[a].row \in Rows /\ actor[a].n \in 1..Len(log[actor[a].row])
      BY <3>1 DEF Follows
    <3> QED
      BY <3>2, LogLength DEF IndInv
  <2>2. silenced \subseteq Rows \X Nat
    BY DEF IndInv, Typed, TypeOK
  <2> QED
    BY <1>2, <2>1, <2>2
<1>5. actor' = [a \in Actors |-> actor'[a]]
  BY <1>2
<1>6. Typed'
  BY <1>2, <1>3, <1>4, <1>5 DEF IndInv, Typed, TypeOK
<1>7. RowsOK' /\ PeopleOK' /\ Grows
  BY <1>2 DEF IndInv, Typed, RowsOK, PeopleOK, Decided, Grows
<1>8. ActorsOK'
  <2> SUFFICES ASSUME NEW a \in Actors PROVE ActorOK(actor[a])'
    BY DEF ActorsOK
  <2>1. PICK y : y = actor'[a]
    OBVIOUS
  <2>2. y = Idle \/ y = actor[a]
    BY <1>2, <2>1
  <2>3. ActorOK(y)
    BY <2>2 DEF IndInv, ActorsOK, ActorOK, Idle
  <2>4. ActorOK(y)'
    BY <1>6, <1>7, <2>3, GrownActor DEF IndInv
  <2> QED
    BY <2>1, <2>4
<1>9. TopicOK'
  BY <1>2, <1>6, <1>7, TopicKept
<1>10. ToldOK'
  <2> SUFFICES ASSUME NEW r \in Rows, NEW n \in 2..Len(log[r]) PROVE Told(r, n)'
    BY <1>2 DEF ToldOK
  <2>1. Told(r, n)
    BY DEF IndInv, ToldOK
  <2>2. CASE \E e \in topic : e.row = r /\ e.n = n
    BY <1>2, <2>2 DEF Told
  <2>3. CASE <<r, n>> \in silenced
    BY <1>2, <2>3 DEF Told
  <2>4. ASSUME NEW b \in Actors, actor[b].at = "emit", actor[b].row = r, actor[b].n = n
        PROVE  Told(r, n)'
    <3>1. CASE b \in S
      <4>1. <<r, n>> \in silenced'
        BY <1>2, <2>4, <3>1
      <4> QED
        BY <4>1 DEF Told
    <3>2. CASE b \notin S
      <4>1. b \in DOMAIN actor' /\ actor'[b] = actor[b]
        BY <1>2, <3>2
      <4> QED
        BY <2>4, <4>1 DEF Told
    <3> QED
      BY <3>1, <3>2
  <2> QED
    BY <1>1, <2>1, <2>2, <2>3, <2>4 DEF Told
<1> QED
  BY <1>6, <1>7, <1>8, <1>9, <1>10 DEF IndInv

-----------------------------------------------------------------------------
(* The invariant holds *)

LEMMA StutterStep == ASSUME IndInv, UNCHANGED vars PROVE IndInv'
<1> USE DEF vars, people, histories
<1>1. Typed'
  BY DEF IndInv, Typed, TypeOK
<1>2. PeopleOK'
  BY DEF IndInv, PeopleOK, Decided
<1> QED
  BY <1>1, <1>2, QuietStep

LEMMA SessionStep ==
    ASSUME IndInv, NEW s \in Sessions, Report(s) \/ Appealing(s) PROVE IndInv'
  BY BeginReportStep, InsertReportStep, CommitReportStep, SubmitAppealStep, EndReviewStep,
     DecidePanelStep, ReadResolutionStep, RejectAppealStep, UpholdAppealStep
  DEF Report, Appealing

LEMMA NextOK == IndInv /\ [Next]_vars => IndInv'
<1> SUFFICES ASSUME IndInv, [Next]_vars PROVE IndInv'
  OBVIOUS
<1>1. CASE CheckMarket \/ TriggerResolution
  BY <1>1, ProposeStep
<1>2. CASE \E r \in Rows : EndWindow(r) \/ \E o \in Proposable : InsertProposal(r, o)
  BY <1>2, EndWindowStep, InsertProposalStep
<1>3. CASE \E p \in Passes : Confirm(p)
  BY <1>3, ListProposedStep, ConfirmProposalStep DEF Confirm
<1>4. CASE \E s \in Sessions : Report(s) \/ Appealing(s)
  BY <1>4, SessionStep
<1>5. CASE \E a \in Sessions \cup Passes : EmitResolved(a)
  BY <1>5, EmitResolvedStep DEF Actors
<1>6. CASE Crash(Sessions) \/ \E p \in Passes : Crash({p})
  <2>1. \A S \in SUBSET Actors : Crash(S) => IndInv'
    BY CrashStep
  <2>2. Sessions \in SUBSET Actors /\ \A p \in Passes : {p} \in SUBSET Actors
    BY DEF Actors
  <2> QED
    BY <1>6, <2>1, <2>2
<1>7. CASE UNCHANGED vars
  BY <1>7, StutterStep
<1> QED
  BY <1>1, <1>2, <1>3, <1>4, <1>5, <1>6, <1>7 DEF Next

\* In every reachable state the invariant holds, whatever passes, requests and
\* faults have done.
LEMMA IndInvHolds == Spec => []IndInv
  BY InitOK, NextOK, PTL DEF Spec

\* Every variable keeps its type: every decision and event of the service
\* is of one of the three outcomes.
THEOREM TypeCorrect == Spec => []TypeOK
  BY IndInvHolds, IndInvTypes, PTL

\* markets.resolved follows the resolutions table: an event tells the outcome
\* its decision committed (a confirmation: perhaps that of the proposal it
\* listed), and every decision after the proposal is told, is about to be told,
\* or was silenced by a fault or by an appeal that names another market.
THEOREM EventsFollow == Spec => []EventsFollowTable
  BY IndInvHolds, IndInvEvents, PTL

-----------------------------------------------------------------------------
(* Reports that did not count each other *)

\* Sessions whose report is on r and has not reached the threshold.
Uncounted(r) == {s \in Sessions : actor[s].at = "reported" /\ actor[s].row = r
                                                           /\ ~actor[s].escalate}

\* When the last of them counted, the others were at most the other sessions.
Unnoticed(r) ==
    r \notin escalated =>
        Len(reports[r]) + Cardinality(Uncounted(r)) <= Threshold + Cardinality(Sessions) - 2

ReportsOK == \A r \in Rows : Unnoticed(r)

\* A set of sessions is finite; without one of them it has one less.
LEMMA SessionSets ==
    ASSUME NEW S \in SUBSET Sessions
    PROVE  /\ IsFiniteSet(S) /\ Cardinality(S) \in Nat
           /\ Cardinality(S) <= Cardinality(Sessions) /\ Cardinality(Sessions) \in Nat
           /\ \A T \in SUBSET S : Cardinality(T) <= Cardinality(S)
           /\ \A s \in S : Cardinality(S \ {s}) = Cardinality(S) - 1
<1>1. IsFiniteSet(Sessions)
  BY ActorAssumption
<1>2. IsFiniteSet(S) /\ Cardinality(S) <= Cardinality(Sessions)
  BY <1>1, FS_Subset
<1>3. Cardinality(S) \in Nat /\ Cardinality(Sessions) \in Nat
  BY <1>1, <1>2, FS_CardinalityType
<1>4. \A T \in SUBSET S : Cardinality(T) <= Cardinality(S)
  BY <1>2, FS_Subset
<1>5. \A s \in S : Cardinality(S \ {s}) = Cardinality(S) - 1
  BY <1>2, FS_RemoveElement
<1> QED
  BY <1>2, <1>3, <1>4, <1>5

LEMMA FewerUncounted ==
    ASSUME NEW r \in Rows, Typed, Unnoticed(r), escalated \subseteq escalated',
           UNCHANGED reports, Uncounted(r)' \subseteq Uncounted(r)
    PROVE  Unnoticed(r)'
<1>1. PICK S, T : S = Uncounted(r) /\ T = Uncounted(r)'
  OBVIOUS
<1>2. S \in SUBSET Sessions /\ T \in SUBSET S
  BY <1>1 DEF Uncounted
<1>3. Cardinality(T) <= Cardinality(S) /\ Cardinality(S) \in Nat /\ Cardinality(Sessions) \in Nat
  BY <1>2, SessionSets
<1>4. T \in SUBSET Sessions
  BY <1>2
<1>5. Cardinality(T) \in Nat
  BY <1>4, SessionSets
<1>6. Len(reports[r]) \in Nat
  BY DEF Typed
<1> QED
  BY <1>1, <1>3, <1>5, <1>6, BoundAssumption DEF Unnoticed

\* A step that reports nothing.
LEMMA ReportsKept ==
    ASSUME IndInv, ReportsOK, UNCHANGED <<reports, escalated>>,
           \A s \in Sessions : actor'[s].at = "reported" => actor'[s] = actor[s]
    PROVE  ReportsOK'
<1> SUFFICES ASSUME NEW r \in Rows PROVE Unnoticed(r)'
  BY DEF ReportsOK
<1>1. Uncounted(r)' \subseteq Uncounted(r)
  BY DEF Uncounted
<1> QED
  BY <1>1, FewerUncounted DEF IndInv, ReportsOK

LEMMA BecomesQuiet ==
    ASSUME IndInv, NEW a, NEW x, Become(a, x), x.at # "reported"
    PROVE  \A s \in Sessions : actor'[s].at = "reported" => actor'[s] = actor[s]
  BY SessionsAct DEF IndInv, Typed, Become

LEMMA InsertReportCounts ==
    ASSUME IndInv, ReportsOK, NEW s \in Sessions, InsertReport(s) PROVE ReportsOK'
<1>1. PICK q : q = actor[s].row
  OBVIOUS
<1>2. PICK x : /\ x = [at |-> "reported", user |-> actor[s].user, row |-> q,
                       escalate |-> CountReports(q) >= Threshold]
               /\ Become(s, x)
  BY <1>1 DEF InsertReport
<1>3. x.row = q /\ x.escalate = (CountReports(q) >= Threshold)
  BY <1>2
<1>4. actor'[s] = x /\ \A t \in Sessions : t # s => actor'[t] = actor[t]
  BY <1>2, SessionsAct DEF IndInv, Typed, Become
<1>5. UNCHANGED <<reports, escalated>>
  BY DEF InsertReport, people, histories
<1> SUFFICES ASSUME NEW r \in Rows PROVE Unnoticed(r)'
  BY DEF ReportsOK
<1>6. CASE r # q \/ x.escalate
  <2>1. Uncounted(r)' \subseteq Uncounted(r)
    BY <1>3, <1>4, <1>6 DEF Uncounted
  <2> QED
    BY <1>5, <2>1, FewerUncounted DEF IndInv, ReportsOK
<1>7. CASE r = q /\ ~x.escalate
  <2>1. PICK T : T = Uncounted(r)'
    OBVIOUS
  <2>2. T \in SUBSET Sessions
    BY <2>1 DEF Uncounted
  <2>3. /\ Cardinality(T) \in Nat /\ Cardinality(T) <= Cardinality(Sessions)
        /\ Cardinality(Sessions) \in Nat
    BY <2>2, SessionSets
  <2>4. Len(reports[r]) \in Nat
    BY DEF IndInv, Typed
  <2>5. Len(reports[r]) + 1 < Threshold
    <3>1. ~(CountReports(q) >= Threshold)
      BY <1>3, <1>7, Zenon
    <3> QED
      BY <1>7, <2>4, <3>1, BoundAssumption DEF CountReports
  <2> QED
    BY <1>5, <2>1, <2>3, <2>4, <2>5, BoundAssumption DEF Unnoticed
<1> QED
  BY <1>6, <1>7

LEMMA CommitReportCounts ==
    ASSUME IndInv, ReportsOK, NEW s \in Sessions, CommitReport(s) PROVE ReportsOK'
<1>1. PICK q, u : q = actor[s].row /\ u = actor[s].user
  OBVIOUS
<1>2. s \in Actors /\ actor[s].at = "reported" /\ q \in Rows /\ u \in Users
  BY <1>1, SessionsAct DEF CommitReport, IndInv, ActorsOK, ActorOK
<1>3. /\ reports' = [reports EXCEPT ![q] = Append(reports[q], u)] /\ Become(s, Idle)
      /\ escalated' = IF actor[s].escalate THEN escalated \cup {q} ELSE escalated
  BY <1>1 DEF CommitReport
<1>4. /\ reports'[q] = Append(reports[q], u) /\ reports[q] \in Seq(Users)
      /\ \A r \in Rows : r # q => reports'[r] = reports[r]
  BY <1>2, <1>3 DEF IndInv, Typed
<1>5. Len(reports'[q]) = Len(reports[q]) + 1 /\ Len(reports[q]) \in Nat
  BY <1>2, <1>4
<1>6. \A t \in Sessions : actor'[t].at = "reported" => t # s /\ actor'[t] = actor[t]
  BY <1>2, <1>3, SessionsAct DEF IndInv, Typed, Become, Idle
<1> SUFFICES ASSUME NEW r \in Rows PROVE Unnoticed(r)'
  BY DEF ReportsOK
<1>7. PICK S, T : S = Uncounted(r) /\ T = Uncounted(r)'
  OBVIOUS
<1>8. S \in SUBSET Sessions /\ T \in SUBSET (S \ {s}) /\ T \in SUBSET S
  BY <1>6, <1>7 DEF Uncounted
<1>9. /\ Cardinality(S) \in Nat /\ Cardinality(Sessions) \in Nat
      /\ Cardinality(T) <= Cardinality(S)
  BY <1>8, SessionSets
<1>10. Cardinality(T) \in Nat
  <2>1. T \in SUBSET Sessions
    BY <1>8
  <2> QED
    BY <2>1, SessionSets
<1>11. Unnoticed(r)
  BY DEF ReportsOK
<1>12. CASE r # q
  BY <1>3, <1>4, <1>7, <1>9, <1>10, <1>11, <1>12, BoundAssumption DEF Unnoticed, IndInv, Typed
<1>13. CASE r = q /\ actor[s].escalate
  BY <1>3, <1>13 DEF Unnoticed
<1>14. CASE r = q /\ ~actor[s].escalate
  <2>1. s \in S
    BY <1>1, <1>2, <1>7, <1>14 DEF Uncounted
  <2>2. S \ {s} \in SUBSET Sessions /\ T \in SUBSET (S \ {s})
    BY <1>8
  <2>3. Cardinality(T) <= Cardinality(S \ {s})
    BY <2>2, SessionSets
  <2>4. Cardinality(S \ {s}) = Cardinality(S) - 1
    BY <1>8, <2>1, SessionSets
  <2> QED
    BY <1>3, <1>5, <1>7, <1>9, <1>10, <1>11, <1>14, <2>3, <2>4, BoundAssumption DEF Unnoticed
<1> QED
  BY <1>12, <1>13, <1>14

-----------------------------------------------------------------------------
(* Payouts of an appeal *)

\* Sessions that may yet uphold the appeal.
Upholding(a) == {s \in Sessions : actor[s].at \in {"review", "panel", "uphold"}
                                  /\ actor[s].appeal = a}

Reviews(s, a) == actor[s].at = "review" /\ actor[s].appeal = a
Decides(s, a) == actor[s].at \in {"panel", "uphold", "reject"} /\ actor[s].appeal = a

PayoutOK(a) ==
    /\ appeal[a].status \in {"none", "escalated"} => payouts[a] = 0
    /\ \A s \in Sessions : Reviews(s, a) => /\ appeal[a].status = "none"
                                            /\ \A t \in Sessions : Reviews(t, a) => s = t
    /\ \A s \in Sessions : Decides(s, a) => appeal[a].status # "none"
    /\ payouts[a] + Cardinality(Upholding(a)) <= Cardinality(Sessions)

PayoutsOK == \A a \in Appeals : PayoutOK(a)

\* Fewer sessions on the appeal keep the bound.
LEMMA FewerUpholding ==
    ASSUME IndInv, NEW a \in Appeals, PayoutOK(a), UNCHANGED payouts[a],
           Upholding(a)' \subseteq Upholding(a)
    PROVE  payouts'[a] + Cardinality(Upholding(a)') <= Cardinality(Sessions)
<1>1. PICK S, T : S = Upholding(a) /\ T = Upholding(a)'
  OBVIOUS
<1>2. S \in SUBSET Sessions /\ T \in SUBSET S /\ T \in SUBSET Sessions
  BY <1>1 DEF Upholding
<1>3. Cardinality(T) <= Cardinality(S) /\ Cardinality(S) \in Nat /\ Cardinality(Sessions) \in Nat
  BY <1>2, SessionSets
<1>4. Cardinality(T) \in Nat
  BY <1>2, SessionSets
<1>5. payouts[a] \in Nat
  BY DEF IndInv, Typed, TypeOK
<1> QED
  BY <1>1, <1>3, <1>4, <1>5 DEF PayoutOK

\* A step that leaves the appeal alone, and in which nobody takes it up.
LEMMA PayoutKept ==
    ASSUME IndInv, NEW a \in Appeals, PayoutOK(a), UNCHANGED <<payouts[a], appeal[a]>>,
           \A s \in Sessions : /\ Reviews(s, a)' => Reviews(s, a)
                               /\ Decides(s, a)' => Decides(s, a)
                               /\ s \in Upholding(a)' => s \in Upholding(a)
    PROVE  PayoutOK(a)'
<1>1. Upholding(a)' \subseteq Upholding(a)
  BY DEF Upholding
<1>2. payouts'[a] + Cardinality(Upholding(a)') <= Cardinality(Sessions)
  BY <1>1, FewerUpholding
<1> QED
  BY <1>2 DEF PayoutOK

\* In particular one in which actors only leave appeals, or go on with theirs.
LEMMA PayoutsKept ==
    ASSUME IndInv, PayoutsOK, UNCHANGED <<appeal, payouts>>,
           \A s \in Sessions :
               actor'[s].at \in {"review", "panel", "uphold", "reject"} =>
                   \/ actor'[s] = actor[s]
                   \/ /\ actor[s].at = "panel" /\ actor'[s].at \in {"uphold", "reject"}
                      /\ actor'[s].appeal = actor[s].appeal
    PROVE  PayoutsOK'
<1> SUFFICES ASSUME NEW a \in Appeals PROVE PayoutOK(a)'
  BY DEF PayoutsOK
<1>1. \A s \in Sessions : /\ Reviews(s, a)' => Reviews(s, a)
                          /\ Decides(s, a)' => Decides(s, a)
                          /\ s \in Upholding(a)' => s \in Upholding(a)
  BY DEF Upholding, Reviews, Decides
<1>2. PayoutOK(a) /\ UNCHANGED <<payouts[a], appeal[a]>>
  BY DEF PayoutsOK
<1> QED
  BY <1>1, <1>2, PayoutKept

LEMMA BecomesIdler ==
    ASSUME IndInv, NEW b, NEW x, Become(b, x),
           x.at \notin {"review", "panel", "uphold", "reject"}
    PROVE  \A s \in Sessions :
               actor'[s].at \in {"review", "panel", "uphold", "reject"} => actor'[s] = actor[s]
  BY SessionsAct DEF IndInv, Typed, Become

\* A session takes the appeal up: it is not paid, so all sessions may.
LEMMA TakenUp ==
    ASSUME IndInv, PayoutsOK, UNCHANGED <<appeal, payouts>>,
           NEW s \in Sessions, NEW x, Become(s, x), NEW b \in Appeals, x.appeal = b,
           \/ /\ x.at = "review" /\ appeal[b].status = "none"
              /\ \A t \in Sessions : actor[t].at = "review" => actor[t].appeal # b
           \/ x.at = "panel" /\ appeal[b].status = "escalated"
    PROVE  PayoutsOK'
<1>1. actor'[s] = x /\ \A t \in Sessions : t # s => actor'[t] = actor[t]
  BY SessionsAct DEF IndInv, Typed, Become
<1> SUFFICES ASSUME NEW a \in Appeals PROVE PayoutOK(a)'
  BY DEF PayoutsOK
<1>2. PayoutOK(a)
  BY DEF PayoutsOK
<1>3. CASE a # b
  <2>1. \A t \in Sessions : /\ Reviews(t, a)' => Reviews(t, a)
                            /\ Decides(t, a)' => Decides(t, a)
                            /\ t \in Upholding(a)' => t \in Upholding(a)
    BY <1>1, <1>3 DEF Upholding, Reviews, Decides
  <2> QED
    BY <1>2, <2>1, PayoutKept
<1>4. CASE a = b
  <2>1. PICK T : T = Upholding(a)'
    OBVIOUS
  <2>2. T \in SUBSET Sessions
    BY <2>1 DEF Upholding
  <2>3. /\ Cardinality(T) \in Nat /\ Cardinality(Sessions) \in Nat
        /\ Cardinality(T) <= Cardinality(Sessions)
    BY <2>2, SessionSets
  <2>4. payouts[a] = 0
    BY <1>2, <1>4 DEF PayoutOK
  <2>5. payouts'[a] + Cardinality(Upholding(a)') <= Cardinality(Sessions)
    BY <2>1, <2>3, <2>4
  <2>6. \A t \in Sessions : t # s => /\ Reviews(t, a)' <=> Reviews(t, a)
                                     /\ Decides(t, a)' <=> Decides(t, a)
    BY <1>1 DEF Reviews, Decides
  <2>7. CASE /\ x.at = "review" /\ appeal[b].status = "none"
             /\ \A t \in Sessions : actor[t].at = "review" => actor[t].appeal # b
    <3>1. ~(Decides(s, a)') /\ \A t \in Sessions : Reviews(t, a)' => t = s
      BY <1>1, <1>4, <2>6, <2>7 DEF Reviews, Decides
    <3> QED
      BY <1>2, <1>4, <2>4, <2>5, <2>6, <2>7, <3>1 DEF PayoutOK
  <2>8. CASE x.at = "panel" /\ appeal[b].status = "escalated"
    <3>1. \A t \in Sessions : ~(Reviews(t, a)')
      BY <1>1, <1>2, <1>4, <2>6, <2>8 DEF Reviews, PayoutOK
    <3> QED
      BY <1>4, <2>4, <2>5, <2>8, <3>1 DEF PayoutOK
  <2> QED
    BY <2>7, <2>8
<1> QED
  BY <1>3, <1>4

\* A session that ends its part in an appeal has it to itself if it reviews it.
LEMMA AppealLeft ==
    ASSUME IndInv, PayoutsOK, NEW s \in Sessions, NEW b \in Appeals,
           Reviews(s, b) \/ Decides(s, b), actor'[s].at \in {"idle", "emit"},
           \A t \in Sessions : t # s => actor'[t] = actor[t]
    PROVE  /\ \A t \in Sessions : ~(Reviews(t, b)')
           /\ \A a \in Appeals, t \in Sessions :
                  /\ Reviews(t, a)' => Reviews(t, a)
                  /\ Decides(t, a)' => Decides(t, a)
                  /\ t \in Upholding(a)' => t \in Upholding(a) /\ t # s
<1>1. \A a \in Appeals, t \in Sessions :
          /\ Reviews(t, a)' => Reviews(t, a) /\ t # s
          /\ Decides(t, a)' => Decides(t, a)
          /\ t \in Upholding(a)' => t \in Upholding(a) /\ t # s
  BY DEF Reviews, Decides, Upholding
<1>2. PayoutOK(b)
  BY DEF PayoutsOK
<1>3. \A t \in Sessions : ~(Reviews(t, b)')
  BY <1>1, <1>2 DEF PayoutOK
<1> QED
  BY <1>1, <1>3

\* The appeal is rejected, or escalated by its review.
LEMMA AppealEnds ==
    ASSUME IndInv, PayoutsOK, NEW s \in Sessions, NEW b \in Appeals, NEW y,
           Reviews(s, b) \/ Decides(s, b), appeal' = [appeal EXCEPT ![b] = y],
           y.status = "rejected" \/ (y.status = "escalated" /\ Reviews(s, b)),
           Become(s, Idle), UNCHANGED payouts
    PROVE  PayoutsOK'
<1>1. actor'[s] = Idle /\ \A t \in Sessions : t # s => actor'[t] = actor[t]
  BY SessionsAct DEF IndInv, Typed, Become
<1>2. appeal'[b] = y /\ \A c \in Appeals : c # b => appeal'[c] = appeal[c]
  BY DEF IndInv, Typed, TypeOK
<1>3. /\ \A t \in Sessions : ~(Reviews(t, b)')
      /\ \A a \in Appeals, t \in Sessions :
             /\ Reviews(t, a)' => Reviews(t, a)
             /\ Decides(t, a)' => Decides(t, a)
             /\ t \in Upholding(a)' => t \in Upholding(a)
  BY <1>1, AppealLeft DEF Idle
<1> SUFFICES ASSUME NEW a \in Appeals PROVE PayoutOK(a)'
  BY DEF PayoutsOK
<1>4. PayoutOK(a)
  BY DEF PayoutsOK
<1>5. CASE a # b
  BY <1>2, <1>3, <1>4, <1>5, PayoutKept
<1>6. CASE a = b
  <2>1. Upholding(a)' \subseteq Upholding(a)
    BY <1>3 DEF Upholding
  <2>2. payouts'[a] + Cardinality(Upholding(a)') <= Cardinality(Sessions)
    BY <1>4, <2>1, FewerUpholding
  <2>3. y.status = "escalated" => payouts'[a] = 0
    BY <1>4, <1>6 DEF PayoutOK
  <2> QED
    BY <1>2, <1>3, <1>6, <2>2, <2>3 DEF PayoutOK
<1> QED
  BY <1>5, <1>6

\* The payout is the session's own, which it leaves.
LEMMA UpholdPays ==
    ASSUME IndInv, PayoutsOK, NEW s \in Sessions, UpholdAppeal(s) PROVE PayoutsOK'
<1>1. PICK b, y : b = actor[s].appeal /\ y = [row |-> actor[s].row, status |-> "upheld"]
  OBVIOUS
<1>2. s \in Actors /\ actor[s].at \in {"review", "uphold"} /\ b \in Appeals
  BY <1>1, SessionsAct DEF UpholdAppeal, IndInv, ActorsOK, ActorOK
<1>3. /\ appeal' = [appeal EXCEPT ![b] = y] /\ payouts' = [payouts EXCEPT ![b] = payouts[b] + 1]
      /\ \E x : x.at \in {"idle", "emit"} /\ Become(s, x)
  BY <1>1 DEF UpholdAppeal, Telling, Idle
<1>4. actor'[s].at \in {"idle", "emit"} /\ \A t \in Sessions : t # s => actor'[t] = actor[t]
  BY <1>2, <1>3, SessionsAct DEF IndInv, Typed, Become
<1>5. payouts \in [Appeals -> Nat]
  BY DEF IndInv, Typed, TypeOK
<1>6. /\ appeal'[b] = y /\ payouts'[b] = payouts[b] + 1
      /\ \A c \in Appeals : c # b => appeal'[c] = appeal[c] /\ payouts'[c] = payouts[c]
  BY <1>2, <1>3, <1>5 DEF IndInv, Typed, TypeOK
<1>7. (Reviews(s, b) \/ Decides(s, b)) /\ s \in Upholding(b)
  BY <1>1, <1>2 DEF Reviews, Decides, Upholding
<1>8. /\ \A t \in Sessions : ~(Reviews(t, b)')
      /\ \A a \in Appeals, t \in Sessions :
             /\ Reviews(t, a)' => Reviews(t, a)
             /\ Decides(t, a)' => Decides(t, a)
             /\ t \in Upholding(a)' => t \in Upholding(a) /\ t # s
  BY <1>2, <1>4, <1>7, AppealLeft
<1> SUFFICES ASSUME NEW a \in Appeals PROVE PayoutOK(a)'
  BY DEF PayoutsOK
<1>9. PayoutOK(a)
  BY DEF PayoutsOK
<1>10. CASE a # b
  BY <1>6, <1>8, <1>9, <1>10, PayoutKept
<1>11. CASE a = b
  <2>1. PICK S, T : S = Upholding(a) /\ T = Upholding(a)'
    OBVIOUS
  <2>2. S \in SUBSET Sessions /\ s \in S
    BY <1>7, <1>11, <2>1 DEF Upholding
  <2>3. T \subseteq Sessions /\ \A t \in T : t \in S /\ t # s
    BY <1>8, <2>1 DEF Upholding
  <2>4. T \in SUBSET (S \ {s}) /\ S \ {s} \in SUBSET Sessions /\ T \in SUBSET Sessions
    BY <2>2, <2>3
  <2>5. /\ Cardinality(S \ {s}) = Cardinality(S) - 1 /\ Cardinality(S) \in Nat
        /\ Cardinality(Sessions) \in Nat
    BY <2>2, SessionSets
  <2>6. Cardinality(T) <= Cardinality(S \ {s})
    BY <2>4, SessionSets
  <2>7. Cardinality(T) \in Nat /\ payouts[a] \in Nat
    BY <1>5, <2>4, SessionSets
  <2>8. payouts'[a] + Cardinality(Upholding(a)') <= Cardinality(Sessions)
    BY <1>6, <1>9, <1>11, <2>1, <2>5, <2>6, <2>7 DEF PayoutOK
  <2>9. appeal'[a].status = "upheld"
    BY <1>1, <1>6, <1>11
  <2> QED
    BY <1>8, <1>11, <2>8, <2>9 DEF PayoutOK
<1> QED
  BY <1>10, <1>11

-----------------------------------------------------------------------------
(* What races may do at most *)

RacesOK == ReportsOK /\ PayoutsOK

\* A step of an actor that neither reports nor takes up an appeal.
LEMMA RacesKept ==
    ASSUME IndInv, RacesOK, UNCHANGED <<reports, escalated, appeal, payouts>>,
           UNCHANGED actor \/ \E b, x : Become(b, x) /\ x.at \in {"idle", "confirm", "emit", "report"}
    PROVE  RacesOK'
<1>1. CASE UNCHANGED actor
  BY <1>1, ReportsKept, PayoutsKept DEF RacesOK
<1>2. ASSUME NEW b, NEW x, Become(b, x), x.at \in {"idle", "confirm", "emit", "report"}
      PROVE  RacesOK'
  BY <1>2, BecomesQuiet, BecomesIdler, ReportsKept, PayoutsKept DEF RacesOK
<1> QED
  BY <1>1, <1>2

LEMMA ReportRaces ==
    ASSUME IndInv, RacesOK, NEW s \in Sessions, Report(s) PROVE RacesOK'
<1>1. ASSUME NEW u \in Users, NEW r \in Rows, BeginReport(s, u, r) PROVE RacesOK'
  <2>1. PICK x : x.at = "report" /\ Become(s, x)
    BY <1>1 DEF BeginReport
  <2> QED
    BY <1>1, <2>1, RacesKept DEF BeginReport, people, histories
<1>2. CASE InsertReport(s)
  <2>1. PICK x : x.at = "reported" /\ Become(s, x)
    BY <1>2 DEF InsertReport
  <2> QED
    BY <1>2, <2>1, InsertReportCounts, BecomesIdler, PayoutsKept
    DEF RacesOK, InsertReport, people
<1>3. CASE CommitReport(s)
  <2>1. PICK x : x.at = "idle" /\ Become(s, x)
    BY <1>3 DEF CommitReport, Idle
  <2> QED
    BY <1>3, <2>1, CommitReportCounts, BecomesIdler, PayoutsKept DEF RacesOK, CommitReport
<1> QED
  BY <1>1, <1>2, <1>3 DEF Report

LEMMA AppealRaces ==
    ASSUME IndInv, RacesOK, NEW s \in Sessions, Appealing(s) PROVE RacesOK'
<1>0. s \in Actors /\ ActorOK(actor[s])
  BY SessionsAct DEF IndInv, ActorsOK
<1>1. ASSUME NEW a \in Appeals, NEW r \in Rows, SubmitAppeal(s, a, r) PROVE RacesOK'
  <2>1. PICK x : x.at = "review" /\ x.appeal = a /\ Become(s, x)
    BY <1>1 DEF SubmitAppeal
  <2> QED
    BY <1>1, <2>1, TakenUp, BecomesQuiet, ReportsKept DEF RacesOK, SubmitAppeal, people, histories
<1>2. ASSUME NEW a \in Appeals, NEW d, DecidePanel(s, a, d) PROVE RacesOK'
  <2>1. PICK x : x.at = "panel" /\ x.appeal = a /\ Become(s, x)
    BY <1>2 DEF DecidePanel
  <2> QED
    BY <1>2, <2>1, TakenUp, BecomesQuiet, ReportsKept DEF RacesOK, DecidePanel, people, histories
<1>3. CASE ReadResolution(s)
  <2>1. PICK x : x.at \in {"uphold", "reject"} /\ x.appeal = actor[s].appeal /\ Become(s, x)
    BY <1>3 DEF ReadResolution
  <2>2. ReportsOK'
    BY <1>3, <2>1, BecomesQuiet, ReportsKept DEF RacesOK, ReadResolution, people, histories
  <2>3. actor'[s] = x /\ \A t \in Sessions : t # s => actor'[t] = actor[t]
    BY <2>1, SessionsAct DEF IndInv, Typed, Become
  <2>4. \A t \in Sessions :
            actor'[t].at \in {"review", "panel", "uphold", "reject"} =>
                \/ actor'[t] = actor[t]
                \/ /\ actor[t].at = "panel" /\ actor'[t].at \in {"uphold", "reject"}
                   /\ actor'[t].appeal = actor[t].appeal
    BY <1>3, <2>1, <2>3 DEF ReadResolution
  <2> QED
    BY <1>3, <2>2, <2>4, PayoutsKept DEF RacesOK, ReadResolution, people
<1>4. CASE RejectAppeal(s)
  <2>1. PICK b, y : b = actor[s].appeal /\ y = [appeal[b] EXCEPT !.status = "rejected"]
    OBVIOUS
  <2>2. Decides(s, b) /\ b \in Appeals
    BY <1>0, <1>4, <2>1 DEF RejectAppeal, Decides, ActorOK
  <2>3. y.status = "rejected" /\ appeal' = [appeal EXCEPT ![b] = y]
    BY <1>4, <2>1, <2>2, AppealType DEF RejectAppeal
  <2>4. PayoutsOK'
    BY <1>4, <2>2, <2>3, AppealEnds DEF RacesOK, RejectAppeal
  <2> QED
    BY <1>4, <2>4, BecomesQuiet, ReportsKept DEF RacesOK, RejectAppeal, histories, Idle
<1>5. CASE UpholdAppeal(s)
  <2>1. PICK x : x.at \in {"idle", "emit"} /\ Become(s, x)
    BY <1>5 DEF UpholdAppeal, Telling, Idle
  <2> QED
    BY <1>5, <2>1, UpholdPays, BecomesQuiet, ReportsKept DEF RacesOK, UpholdAppeal
<1>6. ASSUME NEW status \in {"rejected", "escalated"}, EndReview(s, status) PROVE RacesOK'
  <2>1. PICK b, y : b = actor[s].appeal /\ y = [row |-> actor[s].row, status |-> status]
    OBVIOUS
  <2>2. Reviews(s, b) /\ b \in Appeals /\ y.status = status
    BY <1>0, <1>6, <2>1 DEF EndReview, Reviews, ActorOK
  <2>3. appeal' = [appeal EXCEPT ![b] = y]
    BY <1>6, <2>1 DEF EndReview
  <2>4. PayoutsOK'
    BY <1>6, <2>2, <2>3, AppealEnds DEF RacesOK, EndReview
  <2> QED
    BY <1>6, <2>4, BecomesQuiet, ReportsKept DEF RacesOK, EndReview, histories, Idle
<1> QED
  BY <1>1, <1>2, <1>3, <1>4, <1>5, <1>6 DEF Appealing

LEMMA RacesStep == IndInv /\ RacesOK /\ [Next]_vars => RacesOK'
<1> SUFFICES ASSUME IndInv, RacesOK, [Next]_vars PROVE RacesOK'
  OBVIOUS
<1>1. CASE CheckMarket \/ TriggerResolution
  BY <1>1, RacesKept DEF CheckMarket, TriggerResolution, people, histories
<1>2. ASSUME NEW r \in Rows, EndWindow(r) \/ \E o \in Proposable : InsertProposal(r, o)
      PROVE  RacesOK'
  BY <1>2, RacesKept DEF EndWindow, InsertProposal, people, histories
<1>3. ASSUME NEW p \in Passes, Confirm(p) PROVE RacesOK'
  <2>1. CASE ListProposed(p)
    <3>1. PICK x : x.at = "confirm" /\ Become(p, x)
      BY <2>1 DEF ListProposed
    <3> QED
      BY <2>1, <3>1, RacesKept DEF ListProposed, people, histories
  <2>2. ASSUME NEW y, ConfirmProposal(p, y) PROVE RacesOK'
    <3>1. PICK x : x.at = "emit" /\ Become(p, x)
      BY <2>2 DEF ConfirmProposal, Telling
    <3> QED
      BY <2>2, <3>1, RacesKept DEF ConfirmProposal, people
  <2> QED
    BY <1>3, <2>1, <2>2 DEF Confirm
<1>4. CASE \E s \in Sessions : Report(s) \/ Appealing(s)
  BY <1>4, ReportRaces, AppealRaces
<1>5. ASSUME NEW a, EmitResolved(a) PROVE RacesOK'
  <2>1. PICK x : x.at \in {"idle", "confirm"} /\ Become(a, x)
    BY <1>5 DEF EmitResolved, AfterTelling, Idle
  <2> QED
    BY <1>5, <2>1, RacesKept DEF EmitResolved, people
<1>6. ASSUME NEW S, Crash(S) PROVE RacesOK'
  <2>1. \A s \in Sessions : actor'[s].at # "idle" => actor'[s] = actor[s]
    BY <1>6, SessionsAct DEF Crash, Idle, IndInv, Typed
  <2> QED
    BY <1>6, <2>1, ReportsKept, PayoutsKept DEF RacesOK, Crash, people
<1>7. CASE UNCHANGED vars
  BY <1>7, RacesKept DEF vars, people, histories
<1> QED
  BY <1>1, <1>2, <1>3, <1>4, <1>5, <1>6, <1>7 DEF Next

LEMMA RacesInit == Init => RacesOK
<1> SUFFICES ASSUME Init PROVE RacesOK
  OBVIOUS
<1>1. Cardinality({}) = 0 /\ Cardinality(Sessions) \in Nat \ {0}
  BY ActorAssumption, FS_EmptySet, FS_CardinalityType
<1>2. ASSUME NEW r \in Rows PROVE Unnoticed(r)
  <2>1. Uncounted(r) = {} /\ Len(reports[r]) = 0
    BY <1>2 DEF Init, Uncounted, Idle
  <2> QED
    BY <1>1, <2>1, BoundAssumption DEF Unnoticed
<1>3. ASSUME NEW a \in Appeals PROVE PayoutOK(a)
  <2>1. Upholding(a) = {} /\ payouts[a] = 0
    BY <1>3 DEF Init, Upholding, Idle
  <2> QED
    BY <1>1, <1>3, <2>1 DEF Init, Idle, PayoutOK, Reviews, Decides
<1> QED
  BY <1>2, <1>3 DEF RacesOK, ReportsOK, PayoutsOK

LEMMA RacesHold == Spec => [](IndInv /\ RacesOK)
  BY RacesInit, InitOK, NextOK, RacesStep, PTL DEF Spec

\* Enough reports dispute a resolution, overlapping or not: concurrent reports
\* pass the threshold unnoticed by no more reports than there are other requests
\* at a time (submit_report).
THEOREM ReportsDispute == Spec => []EnoughReportsDispute
<1>1. IndInv /\ RacesOK => EnoughReportsDispute
  <2> SUFFICES ASSUME IndInv, RacesOK, NEW r \in Rows, r \notin escalated
               PROVE  ~(Len(reports[r]) >= Threshold + Cardinality(Sessions) - 1)
    BY DEF EnoughReportsDispute
  <2>1. PICK S : S = Uncounted(r)
    OBVIOUS
  <2>2. S \in SUBSET Sessions
    BY <2>1 DEF Uncounted
  <2>3. Cardinality(S) \in Nat /\ Cardinality(Sessions) \in Nat
    BY <2>2, SessionSets
  <2>4. Len(reports[r]) \in Nat
    BY DEF IndInv, Typed
  <2> QED
    BY <2>1, <2>3, <2>4, BoundAssumption DEF RacesOK, ReportsOK, Unnoticed
<1> QED
  BY <1>1, RacesHold, PTL

\* An appeal is compensated once for each request that decides it at a time:
\* who reads it escalated may uphold it, and nobody does once one decision is
\* committed (submit_panel_decision, credit_insurance_payout).
THEOREM PayoutsOnce == Spec => []PayoutPerDecision
<1>1. IndInv /\ RacesOK => PayoutPerDecision
  <2> SUFFICES ASSUME IndInv, RacesOK, NEW a \in Appeals
               PROVE  payouts[a] <= Cardinality(Sessions)
    BY DEF PayoutPerDecision
  <2>1. PICK S : S = Upholding(a)
    OBVIOUS
  <2>2. S \in SUBSET Sessions
    BY <2>1 DEF Upholding
  <2>3. Cardinality(S) \in Nat /\ Cardinality(Sessions) \in Nat
    BY <2>2, SessionSets
  <2>4. payouts[a] \in Nat
    BY DEF IndInv, Typed, TypeOK
  <2> QED
    BY <2>1, <2>3, <2>4 DEF RacesOK, PayoutsOK, PayoutOK
<1> QED
  BY <1>1, RacesHold, PTL
=============================================================================
