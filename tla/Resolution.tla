----------------------------- MODULE Resolution ------------------------------
(***************************************************************************)
(* resolution-service: the resolutions of one market.  Celery passes       *)
(* propose and confirm them; the API triggers proposals and takes community *)
(* reports and appeals.  A step is a transaction or what runs between two  *)
(* of them, so that requests and passes interleave wherever the code       *)
(* awaits the database, the reviewing model or Kafka.  Only a panel's      *)
(* decision locks a row before its commit, that of the appeal.             *)
(*                                                                         *)
(* Judges decide nothing: submit_judge_decision compares utcnow(), which   *)
(* has no time zone, with a column that has one, and raises on every vote, *)
(* so assignments are left out.                                            *)
(***************************************************************************)
EXTENDS Integers, Sequences, FiniteSets, Functions

CONSTANTS Users, Appeals,         \* reporters and appellants; appeals
          Appellant,              \* of each appeal: the user who submits it
          Misnamed,               \* appeals submitted under another market's id
          Sessions, Passes,       \* concurrent requests and confirmation passes
          Threshold,              \* REPORT_THRESHOLD
          Proposable,             \* bound: what proposals may say
          MaxRows, MaxRequests, MaxFaults   \* bounds

ASSUME BoundAssumption ==
    /\ Threshold \in Nat \ {0} /\ MaxRows \in Nat /\ MaxRequests \in Nat /\ MaxFaults \in Nat
ASSUME ActorAssumption ==
    /\ Sessions \cap Passes = {} /\ IsFiniteSet(Sessions) /\ Sessions # {}
    /\ Appellant \in [Appeals -> Users] /\ Misnamed \subseteq Appeals

Rows     == 1..MaxRows
Outcomes == {"YES", "NO", "VOID"}

ASSUME ProposalAssumption == Proposable \subseteq Outcomes

VARIABLES
    row,        \* of each resolution: [status, outcome], "none" before its insert
    ended,      \* resolutions whose dispute window is over
    proposing,  \* proposals being resolved and validated, before their insert
    reports,    \* of each resolution: the users of its committed reports
    appeal,     \* of each appeal: [row, status]
    payouts,    \* of each appeal: rows in insurance_fund_txns
    actor,      \* what each session or pass is at
    topic,      \* events of the market on markets.resolved
    log,        \* history: the committed decisions on each resolution
    silenced,   \* history: decisions with no event, for a fault or a wrong market
    escalated,  \* history: resolutions whose reports have disputed them
    requests, faults   \* counters of the bounds

people    == <<reports, appeal, payouts>>
histories == <<log, silenced, escalated>>
vars == <<row, ended, proposing, people, actor, topic, histories, requests, faults>>

-----------------------------------------------------------------------------
NoRow  == [status |-> "none", outcome |-> "none"]
Idle   == [at |-> "idle"]
Active == {"proposed", "confirmed", "disputed"}

Init ==
    /\ row = [r \in Rows |-> NoRow] /\ ended = {} /\ proposing = 0
    /\ reports = [r \in Rows |-> <<>>]
    /\ appeal = [a \in Appeals |-> [row |-> 0, status |-> "none"]]
    /\ payouts = [a \in Appeals |-> 0]
    /\ actor = [a \in Sessions \cup Passes |-> Idle]
    /\ topic = {} /\ log = [r \in Rows |-> <<>>] /\ silenced = {} /\ escalated = {}
    /\ requests = 0 /\ faults = 0

Exists(r)    == row[r].status # "none"
Become(a, x) == actor' = [actor EXCEPT ![a] = x]
Request(s)   == actor[s] = Idle /\ requests < MaxRequests /\ requests' = requests + 1
Fault        == faults < MaxFaults /\ faults' = faults + 1

\* The row is updated by its id alone, whatever has become of it.
Decide(r, status, outcome, by) ==
    /\ row' = [row EXCEPT ![r] = [status |-> status, outcome |-> outcome]]
    /\ log' = [log EXCEPT ![r] = Append(@, [by |-> by, outcome |-> outcome])]

\* What is left to do is to publish the outcome told of the decision just made.
Telling(r, told, rest) ==
    [at |-> "emit", row |-> r, n |-> Len(log[r]) + 1, told |-> told, rest |-> rest]

-----------------------------------------------------------------------------
(* Proposals *)

MayPropose == proposing < Cardinality({r \in Rows : ~Exists(r)})   \* bound

Unresolved == \A r \in Rows : row[r].status \in {"none", "overturned"}

\* A pass proposes an outcome for a market that has no resolution but
\* overturned ones; for two or more the query raises and the pass ends.
CheckMarket ==
    /\ Unresolved /\ MayPropose
    /\ proposing' = proposing + 1
    /\ UNCHANGED <<row, ended, people, actor, topic, histories, requests, faults>>

\* The trigger does not look for resolutions.
TriggerResolution ==
    /\ MayPropose
    /\ proposing' = proposing + 1
    /\ UNCHANGED <<row, ended, people, actor, topic, histories, requests, faults>>

\* The resolver and the validating model have answered.  (A proposal they have
\* no outcome for ends like one that was never begun.)
InsertProposal(r, outcome) ==
    /\ proposing > 0 /\ proposing' = proposing - 1
    /\ ~Exists(r) /\ \A q \in 1..(r - 1) : Exists(q)
    /\ Decide(r, "proposed", outcome, "proposal")
    /\ UNCHANGED <<ended, people, actor, topic, silenced, escalated, requests, faults>>

EndWindow(r) ==
    /\ Exists(r) /\ r \notin ended
    /\ ended' = ended \cup {r}
    /\ UNCHANGED <<row, proposing, people, actor, topic, histories, requests, faults>>

\* A pass lists the proposals whose window is over, with their outcomes.
ListProposed(p) ==
    LET found == {r \in ended : row[r].status = "proposed"} IN
    /\ actor[p] = Idle /\ found # {}
    /\ Become(p, [at |-> "confirm", rest |-> {[row |-> r, outcome |-> row[r].outcome] : r \in found}])
    /\ UNCHANGED <<row, ended, proposing, people, topic, histories, requests, faults>>

\* It confirms them one by one, and tells the outcome it listed.
ConfirmProposal(p, x) ==
    /\ actor[p].at = "confirm" /\ x \in actor[p].rest
    /\ Decide(x.row, "confirmed", row[x.row].outcome, "pass")
    /\ Become(p, Telling(x.row, x.outcome, actor[p].rest \ {x}))
    /\ UNCHANGED <<ended, proposing, people, topic, silenced, escalated,
                   requests, faults>>

-----------------------------------------------------------------------------
(* Community reports *)

\* Mutant: the reports are counted without the one being made.
CountOthers(r) == Len(reports[r])

\* A transaction counts the committed reports and its own.
CountReports(r) == Len(reports[r]) + 1

\* The user has no committed report on the resolution, and it can be reported.
\* (No constraint of the table says so: one user may report twice at a time.)
BeginReport(s, u, r) ==
    /\ Request(s)
    /\ u \notin Range(reports[r]) /\ row[r].status \in {"proposed", "confirmed"}
    /\ Become(s, [at |-> "report", user |-> u, row |-> r])
    /\ UNCHANGED <<row, ended, proposing, people, topic, histories, faults>>

InsertReport(s) ==
    /\ actor[s].at = "report"
    /\ LET r == actor[s].row IN
       Become(s, [at |-> "reported", user |-> actor[s].user, row |-> r,
                  escalate |-> CountReports(r) >= Threshold])
    /\ UNCHANGED <<row, ended, proposing, people, topic, histories, requests, faults>>

\* Enough reports dispute the resolution, whatever it has become since.
CommitReport(s) ==
    /\ actor[s].at = "reported"
    /\ LET r == actor[s].row IN
       /\ reports' = [reports EXCEPT ![r] = Append(@, actor[s].user)]
       /\ IF actor[s].escalate
          THEN row' = [row EXCEPT ![r].status = "disputed"] /\ escalated' = escalated \cup {r}
          ELSE UNCHANGED <<row, escalated>>
    /\ Become(s, Idle)
    /\ UNCHANGED <<ended, proposing, appeal, payouts, topic, log, silenced, requests, faults>>

-----------------------------------------------------------------------------
(* Appeals *)

\* The user has no other committed appeal that is not rejected.  The resolution
\* is read once, before the review: the session's identity map gives the
\* decision the same object again.
SubmitAppeal(s, a, r) ==
    /\ Request(s) /\ appeal[a].status = "none" /\ row[r].status \in Active
    /\ \A t \in Sessions : actor[t].at = "review" => actor[t].appeal # a
    /\ \A b \in Appeals : (Appellant[b] = Appellant[a] /\ appeal[b].row = r) =>
                            appeal[b].status = "rejected"
    /\ Become(s, [at |-> "review", appeal |-> a, row |-> r, outcome |-> row[r].outcome])
    /\ UNCHANGED <<row, ended, proposing, people, topic, histories, faults>>

\* The review rejects the appeal or, not confident, escalates it to the panel.
EndReview(s, status) ==
    /\ actor[s].at = "review" /\ status \in {"rejected", "escalated"}
    /\ appeal' = [appeal EXCEPT ![actor[s].appeal] = [row |-> actor[s].row, status |-> status]]
    /\ Become(s, Idle)
    /\ UNCHANGED <<row, ended, proposing, reports, payouts, topic, histories, requests, faults>>

\* Mutant: an appeal that was decided is decided again.
DecideAgain(s, a, decision) ==
    /\ Request(s) /\ appeal[a].status # "none"
    /\ Become(s, [at |-> "panel", appeal |-> a, row |-> appeal[a].row, decision |-> decision])
    /\ UNCHANGED <<row, ended, proposing, people, topic, histories, faults>>

\* A panel member decides on an escalated appeal.
DecidePanel(s, a, decision) ==
    /\ Request(s) /\ appeal[a].status = "escalated"
    /\ Become(s, [at |-> "panel", appeal |-> a, row |-> appeal[a].row, decision |-> decision])
    /\ UNCHANGED <<row, ended, proposing, people, topic, histories, faults>>

\* Reading the resolution writes the decision to the appeal's row first, by its
\* id alone, and the row stays locked until the commit.
ReadResolution(s) ==
    /\ actor[s].at = "panel"
    /\ LET x == actor[s] IN
       /\ \A t \in Sessions : actor[t].at \in {"uphold", "reject"} => actor[t].appeal # x.appeal
       /\ Become(s, [at |-> IF x.decision = "UPHOLD" THEN "uphold" ELSE "reject",
                     appeal |-> x.appeal, row |-> x.row, outcome |-> row[x.row].outcome])
    /\ UNCHANGED <<row, ended, proposing, people, topic, histories, requests, faults>>

RejectAppeal(s) ==
    /\ actor[s].at = "reject"
    /\ appeal' = [appeal EXCEPT ![actor[s].appeal].status = "rejected"]
    /\ Become(s, Idle)
    /\ UNCHANGED <<row, ended, proposing, reports, payouts, topic, histories, requests, faults>>

\* Mutant: the outcome of a market that was void is not mapped.
FlipPartly(outcome) ==
    CASE outcome = "YES" -> "NO" [] outcome = "NO" -> "YES" [] OTHER -> "none"

FlipOutcome(outcome) ==
    CASE outcome = "YES" -> "NO" [] outcome = "NO" -> "YES" [] outcome = "VOID" -> "VOID"

\* Mutant: the outcome told is the one of the object that was read.
UpholdUnflipped(s) ==
    /\ actor[s].at \in {"review", "uphold"}
    /\ LET x == actor[s] IN
       /\ Decide(x.row, "overturned", FlipOutcome(x.outcome), "appeal")
       /\ appeal' = [appeal EXCEPT ![x.appeal] = [row |-> x.row, status |-> "upheld"]]
       /\ payouts' = [payouts EXCEPT ![x.appeal] = @ + 1]
       /\ Become(s, Telling(x.row, x.outcome, {})) /\ UNCHANGED silenced
    /\ UNCHANGED <<ended, proposing, reports, topic, escalated, requests, faults>>

\* The review or the panel upholds: the outcome that was read is flipped, and
\* the payout commits all of it.  The event names the market of the appeal,
\* which nothing compares with the resolution's.
UpholdAppeal(s) ==
    /\ actor[s].at \in {"review", "uphold"}
    /\ LET x == actor[s] IN
       /\ Decide(x.row, "overturned", FlipOutcome(x.outcome), "appeal")
       /\ appeal' = [appeal EXCEPT ![x.appeal] = [row |-> x.row, status |-> "upheld"]]
       /\ payouts' = [payouts EXCEPT ![x.appeal] = @ + 1]
       /\ IF x.appeal \in Misnamed
          THEN Become(s, Idle) /\ silenced' = silenced \cup {<<x.row, Len(log[x.row]) + 1>>}
          ELSE Become(s, Telling(x.row, FlipOutcome(x.outcome), {})) /\ UNCHANGED silenced
    /\ UNCHANGED <<ended, proposing, reports, topic, escalated, requests, faults>>

-----------------------------------------------------------------------------
(* Events and failures *)

AfterTelling(x) == IF x.rest = {} THEN Idle ELSE [at |-> "confirm", rest |-> x.rest]

\* A publication that fails is logged, and the caller goes on.
EmitResolved(a) ==
    /\ actor[a].at = "emit"
    /\ LET x == actor[a] IN
       /\ \/ /\ topic' = topic \cup {[row |-> x.row, n |-> x.n, outcome |-> x.told]}
             /\ UNCHANGED <<silenced, faults>>
          \/ /\ silenced' = silenced \cup {<<x.row, x.n>>} /\ Fault
             /\ UNCHANGED topic
       /\ Become(a, AfterTelling(x))
    /\ UNCHANGED <<row, ended, proposing, people, log, escalated, requests>>

\* A worker or the API process stops: open transactions are rolled back.
Crash(actors) ==
    /\ Fault
    /\ silenced' = silenced \cup {<<actor[a].row, actor[a].n>> :
                                  a \in {b \in actors : actor[b].at = "emit"}}
    /\ actor' = [a \in DOMAIN actor |-> IF a \in actors THEN Idle ELSE actor[a]]
    /\ UNCHANGED <<row, ended, proposing, people, topic, log, escalated, requests>>

-----------------------------------------------------------------------------
Report(s) == \/ \E u \in Users, r \in Rows : BeginReport(s, u, r)
             \/ InsertReport(s) \/ CommitReport(s)
Appealing(s) ==
    \/ \E a \in Appeals : \/ \E r \in Rows : SubmitAppeal(s, a, r)
                          \/ \E d \in {"UPHOLD", "REJECT"} : DecidePanel(s, a, d)
    \/ ReadResolution(s) \/ RejectAppeal(s) \/ UpholdAppeal(s)
    \/ \E x \in {"rejected", "escalated"} : EndReview(s, x)
Confirm(p) == ListProposed(p) \/ \E x \in {y \in [row : Rows, outcome : Outcomes] :
                                           actor[p].at = "confirm"} : ConfirmProposal(p, x)

Next ==
    \/ CheckMarket \/ TriggerResolution
    \/ \E r \in Rows : EndWindow(r) \/ \E o \in Proposable : InsertProposal(r, o)
    \/ \E p \in Passes : Confirm(p)
    \/ \E s \in Sessions : Report(s) \/ Appealing(s)
    \/ \E a \in Sessions \cup Passes : EmitResolved(a)
    \/ Crash(Sessions) \/ \E p \in Passes : Crash({p})

Spec == Init /\ [][Next]_vars

-----------------------------------------------------------------------------
Decision == [by : {"proposal", "pass", "appeal"}, outcome : Outcomes]

\* Every variable keeps its type: only real outcomes are decided and told.
TypeOK ==
    /\ row \in [Rows -> {NoRow} \cup [status : Active \cup {"overturned"}, outcome : Outcomes]]
    /\ ended \subseteq Rows /\ proposing \in 0..MaxRows
    /\ \A r \in Rows : reports[r] \in Seq(Users)
    /\ appeal \in [Appeals -> [row : {0} \cup Rows,
                               status : {"none", "escalated", "upheld", "rejected"}]]
    /\ payouts \in [Appeals -> Nat]
    /\ \A r \in Rows : log[r] \in Seq(Decision) /\ (log[r] = <<>> <=> row[r] = NoRow)
    /\ \A e \in topic : e.row \in Rows /\ e.n \in DOMAIN log[e.row] /\ e.outcome \in Outcomes
    /\ silenced \subseteq Rows \X Nat /\ escalated \subseteq Rows
    /\ requests \in 0..MaxRequests /\ faults \in 0..MaxFaults

Told(r, n) == \/ \E e \in topic : e.row = r /\ e.n = n
              \/ \E a \in DOMAIN actor : actor[a].at = "emit" /\ actor[a].row = r /\ actor[a].n = n
              \/ <<r, n>> \in silenced

\* markets.resolved follows the table: an event tells the outcome its decision
\* committed (a confirmation: perhaps an older one, that of the proposal it
\* listed), and every decision after the proposal is told, is about to be told,
\* or was silenced by a fault or by an appeal that names another market.
EventsFollowTable ==
    /\ \A e \in topic : \E k \in 1..e.n :
          /\ log[e.row][k].outcome = e.outcome
          /\ k = e.n \/ (log[e.row][e.n].by = "pass" /\ k < e.n)
    /\ \A r \in Rows : \A n \in 2..Len(log[r]) : Told(r, n)

\* Enough reports dispute a resolution, overlapping or not.  Concurrent reports
\* do not count each other, so the threshold may be passed unnoticed, but by
\* no more reports than there are other requests at a time (submit_report).
EnoughReportsDispute ==
    \A r \in Rows :
        Len(reports[r]) >= Threshold + Cardinality(Sessions) - 1 => r \in escalated

\* An appeal is compensated once for each request that decides it at a time,
\* however they interleave: who reads it escalated may uphold it, and nobody
\* does once one decision is committed (submit_panel_decision).
PayoutPerDecision == \A a \in Appeals : payouts[a] <= Cardinality(Sessions)
=============================================================================
