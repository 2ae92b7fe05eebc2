------------------------ MODULE ResponsibleGambling ------------------------
(***************************************************************************)
(* wallet-service: responsible gambling.  A user's exclusion settings (a   *)
(* cool-off, a self-exclusion) are one row that every change reads, alters *)
(* in memory and writes back whole; no lock and no version joins the two   *)
(* statements.  A deposit passes three reads before it is credited, an     *)
(* order one.  Requests run concurrently, each statement is a step, and    *)
(* time passes between any two.  Wallet has the credit itself.             *)
(***************************************************************************)
EXTENDS Integers

CONSTANTS Users,
          Sessions,      \* request handlers that may run at once
          Durations,     \* lengths of a cool-off, in units of the clock
          Amounts,       \* amounts deposited, and limits users set
          DefaultLimit,  \* daily_deposit_limit_minor of a new row
          LastTime,      \* bound: how far the clock goes
          MaxRequests,   \* bound: requests that are sent
          MaxFaults      \* bound: statements that fail

ASSUME BoundsAssumption ==
    /\ Durations \subseteq Nat \ {0} /\ Amounts \subseteq Nat \ {0}
    /\ DefaultLimit \in Nat /\ LastTime \in Nat
    /\ MaxRequests \in Nat /\ MaxFaults \in Nat
    /\ "nobody" \notin Users

VARIABLES
    row,     \* user_exclusion_settings of each user
    limit,   \* user_deposit_settings of each user
    pc, who, \* where a handler is, and the user it works for
    es,      \* the exclusion settings a handler is about to write
    amount,  \* what a deposit is to credit, 0 for an order
    now,
    read,    \* history: the row a change started from
    free,    \* history: whether, since a check began, the user was unprotected
    allowed, \* history: the highest limit in force since a check began
    sent, faults   \* counters of the bounds

handler == <<pc, who, es, amount, read>>
vars == <<row, limit, handler, now, free, allowed, sent, faults>>

-----------------------------------------------------------------------------
Nobody    == "nobody"
Countries == {"unset", "strict", "lenient"}

\* A handler that has read a row and will write it back for one of these.
Changes == {"startCoolOff", "cancelCoolOff", "selfExclude", "cancelSelfExclusion"}
Checks  == {"deposit", "order", "limits", "granted"}

\* The settings a row is created with.  A cool-off never set, or
\* cancelled, ends at -1 (its duration is set and cleared with it); days is 0
\* where self_exclusion_duration_days is NULL.
NoExclusion ==
    [exists |-> FALSE, country |-> "unset", until |-> -1, cancellable |-> FALSE,
     excluded |-> FALSE, days |-> 0]

ExclusionSettings ==
    [exists : BOOLEAN, country : Countries, until : Int, cancellable : BOOLEAN,
     excluded : BOOLEAN, days : {0, 30}]

\* A monthly limit of 0 stands for NULL; no code ever disables a row.
NoLimits == [exists |-> FALSE, daily |-> DefaultLimit, monthly |-> 0]

DepositSettings == [exists : BOOLEAN, daily : Nat, monthly : Nat]

IsInCoolOff(s) == now < s.until

IsPermanentlySelfExcluded(s) == s.excluded /\ s.days = 0

\* Mutant: a self-exclusion counts only while it is permanent.
EligibleUnlessPermanent(s) == ~IsInCoolOff(s) /\ ~IsPermanentlySelfExcluded(s)

\* CheckOrderEligibility, and the first half of checkDepositEligibility.
Eligible(s) == ~IsInCoolOff(s) /\ ~s.excluded

\* What GetExclusionSettings returns: the row, which it creates if need be.
Settings(u) == [row[u] EXCEPT !.exists = TRUE]

\* isCoolOffCancellableForCountry: a policy that cannot be read counts as strict.
CoolOffCancellable(country) == IF country = "lenient" THEN BOOLEAN ELSE {FALSE}

\* What daily_deposit_tracking holds: no code calls RecordDailyDeposit.
GetDailyDepositTotal(u) == 0

\* DepositSettings.Validate
ValidLimits(daily, monthly) == daily > 0 /\ (monthly = 0 \/ monthly >= daily)

Init ==
    /\ row = [u \in Users |-> NoExclusion] /\ limit = [u \in Users |-> NoLimits]
    /\ pc = [p \in Sessions |-> "idle"] /\ who = [p \in Sessions |-> Nobody]
    /\ es = [p \in Sessions |-> NoExclusion] /\ read = [p \in Sessions |-> NoExclusion]
    /\ amount = [p \in Sessions |-> 0] /\ allowed = [p \in Sessions |-> 0]
    /\ free = [p \in Sessions |-> FALSE]
    /\ now = 0 /\ sent = 0 /\ faults = 0

Goto(p, l) == pc' = [pc EXCEPT ![p] = l]

Protected(u) == now < row[u].until \/ row[u].excluded

MaxOf(m, n) == IF m < n THEN n ELSE m

\* The histories after a step: a check remembers what held at some moment of it.
Remember ==
    /\ free' = [p \in Sessions |->
           pc'[p] \in Checks /\ (free[p] \/ ~Protected(who[p])')]
    /\ allowed' = [p \in Sessions |->
           IF pc'[p] \in Checks THEN MaxOf(allowed[p], limit'[who'[p]].daily) ELSE 0]

\* The handler answers and its locals go out of scope.
Return(p) ==
    /\ Goto(p, "idle")
    /\ who' = [who EXCEPT ![p] = Nobody]
    /\ es' = [es EXCEPT ![p] = NoExclusion] /\ read' = [read EXCEPT ![p] = NoExclusion]
    /\ amount' = [amount EXCEPT ![p] = 0]

Request == sent < MaxRequests /\ sent' = sent + 1

-----------------------------------------------------------------------------
(* Changes of the exclusion settings *)

\* The first statement of a change, and what it makes of the row in memory.  A
\* change that is then refused does no more than GetExclusionSettings.
ReadToChange(p, u, change, s) ==
    /\ pc[p] = "idle" /\ Request
    /\ Goto(p, change)
    /\ who' = [who EXCEPT ![p] = u]
    /\ row' = [row EXCEPT ![u] = Settings(u)]
    /\ read' = [read EXCEPT ![p] = Settings(u)] /\ es' = [es EXCEPT ![p] = s]
    /\ UNCHANGED <<limit, amount, now, faults>>
    /\ Remember

\* StartCoolOff; a duration that is not offered is refused at once.
StartCoolOff(p, u) ==
    \E d \in Durations : \E c \in CoolOffCancellable(row[u].country) :
        ReadToChange(p, u, "startCoolOff",
            [Settings(u) EXCEPT !.until = now + d, !.cancellable = c])

\* Mutant: the region's rule is not asked.
CancelAnyCoolOff(p, u) ==
    ReadToChange(p, u, "cancelCoolOff",
        [Settings(u) EXCEPT !.until = -1, !.cancellable = FALSE])

CancelCoolOff(p, u) ==
    /\ row[u].cancellable
    /\ ReadToChange(p, u, "cancelCoolOff",
           [Settings(u) EXCEPT !.until = -1, !.cancellable = FALSE])

\* SelfExclude: for good, or for a number of days.
SelfExclude(p, u) ==
    \E days \in {0, 30} :
        ReadToChange(p, u, "selfExclude",
            [Settings(u) EXCEPT !.excluded = TRUE, !.days = days])

\* Mutant: the number of days is left in the row.
CancelKeepingDays(p, u) ==
    /\ ~IsPermanentlySelfExcluded(row[u])
    /\ ReadToChange(p, u, "cancelSelfExclusion", [Settings(u) EXCEPT !.excluded = FALSE])

\* CancelSelfExclusion: nothing else ends a self-exclusion, not even its days.
CancelSelfExclusion(p, u) ==
    /\ ~IsPermanentlySelfExcluded(row[u])
    /\ ReadToChange(p, u, "cancelSelfExclusion",
           [Settings(u) EXCEPT !.excluded = FALSE, !.days = 0])

\* UpdateExclusionSettings: every column is written, changed or not.
UpdateExclusionSettings(p) ==
    /\ pc[p] \in Changes
    /\ row' = [row EXCEPT ![who[p]] = es[p]]
    /\ Return(p)
    /\ UNCHANGED <<limit, now, sent, faults>>
    /\ Remember

GetExclusionSettings(u) ==
    /\ Request
    /\ row' = [row EXCEPT ![u] = Settings(u)]
    /\ UNCHANGED <<limit, handler, now, faults>>
    /\ Remember

\* Outside the service: support enters the country of a user.
AssignCountry(u, c) ==
    /\ row[u].exists /\ row[u].country = "unset" /\ c # "unset"
    /\ row' = [row EXCEPT ![u].country = c]
    /\ UNCHANGED <<limit, handler, now, sent, faults>>
    /\ Remember

-----------------------------------------------------------------------------
(* Deposits, orders and deposit limits *)

\* A deposit of a, or the question whether u may order (a = 0), arrives.
BeginCheck(p, u, a) ==
    /\ pc[p] = "idle" /\ Request
    /\ Goto(p, IF a = 0 THEN "order" ELSE "deposit")
    /\ who' = [who EXCEPT ![p] = u] /\ amount' = [amount EXCEPT ![p] = a]
    /\ UNCHANGED <<row, limit, es, read, now, faults>>
    /\ Remember

\* GetExclusionSettings, and the two refusals.
CheckExclusion(p) ==
    /\ pc[p] \in {"order", "deposit"}
    /\ \/ /\ Eligible(row[who[p]])
          /\ Goto(p, IF pc[p] = "order" THEN "granted" ELSE "limits")
          /\ UNCHANGED <<who, es, amount, read>>
       \/ ~Eligible(row[who[p]]) /\ Return(p)
    /\ row' = [row EXCEPT ![who[p]] = Settings(who[p])]
    /\ UNCHANGED <<limit, now, sent, faults>>
    /\ Remember

\* GetDepositSettings, which creates the row, the day's total and the limit.
CheckLimit(p) ==
    LET u == who[p] IN
    /\ pc[p] = "limits"
    /\ limit' = [limit EXCEPT ![u].exists = TRUE]
    /\ \/ /\ GetDailyDepositTotal(u) + amount[p] <= limit[u].daily
          /\ Goto(p, "granted")
          /\ UNCHANGED <<who, es, amount, read>>
       \/ GetDailyDepositTotal(u) + amount[p] > limit[u].daily /\ Return(p)
    /\ UNCHANGED <<row, now, sent, faults>>
    /\ Remember

\* The deposit is credited, the order service is told yes.
Grant(p) ==
    /\ pc[p] = "granted"
    /\ Return(p)
    /\ UNCHANGED <<row, limit, now, sent, faults>>
    /\ Remember

GetDepositSettings(u) ==
    /\ Request
    /\ limit' = [limit EXCEPT ![u].exists = TRUE]
    /\ UNCHANGED <<row, handler, now, faults>>
    /\ Remember

\* UpdateDepositSettings: an UPDATE, so a user without a row gets an error.
UpdateDepositSettings(u, daily, monthly) ==
    /\ Request
    /\ ValidLimits(daily, monthly)
    /\ limit[u].exists
    /\ limit' = [limit EXCEPT ![u].daily = daily, ![u].monthly = monthly]
    /\ UNCHANGED <<row, handler, now, faults>>
    /\ Remember

-----------------------------------------------------------------------------
\* A statement fails and the error is returned.
StatementFails(p) ==
    /\ pc[p] \notin {"idle", "granted"}
    /\ faults < MaxFaults /\ faults' = faults + 1
    /\ Return(p)
    /\ UNCHANGED <<row, limit, now, sent>>
    /\ Remember

Tick ==
    /\ now < LastTime /\ now' = now + 1
    /\ UNCHANGED <<row, limit, handler, sent, faults>>
    /\ Remember

Change(p) ==
    \/ \E u \in Users : \/ StartCoolOff(p, u) \/ CancelCoolOff(p, u)
                        \/ SelfExclude(p, u) \/ CancelSelfExclusion(p, u)
    \/ UpdateExclusionSettings(p)

Check(p) ==
    \/ \E u \in Users, a \in Amounts \cup {0} : BeginCheck(p, u, a)
    \/ CheckExclusion(p) \/ CheckLimit(p) \/ Grant(p)

SettingsOf(u) ==
    \/ GetExclusionSettings(u) \/ GetDepositSettings(u)
    \/ \E d \in Amounts, m \in Amounts \cup {0} : UpdateDepositSettings(u, d, m)

Next ==
    \/ \E p \in Sessions : Change(p) \/ Check(p) \/ StatementFails(p)
    \/ \E u \in Users : SettingsOf(u) \/ \E c \in Countries : AssignCountry(u, c)
    \/ Tick

Spec == Init /\ [][Next]_vars

-----------------------------------------------------------------------------
(* Properties *)

\* A row, as stored or as about to be written, is one the domain's Validate
\* accepts, though no code calls it: days are kept only of a self-exclusion, a
\* cool-off can be cancellable only while it is set, a monthly limit is no
\* lower than the daily one.
TypeOK ==
    /\ row \in [Users -> ExclusionSettings] /\ limit \in [Users -> DepositSettings]
    /\ pc \in [Sessions -> {"idle"} \cup Changes \cup Checks]
    /\ es \in [Sessions -> ExclusionSettings] /\ read \in [Sessions -> ExclusionSettings]
    /\ amount \in [Sessions -> Amounts \cup {0}] /\ now \in 0..LastTime
    /\ free \in [Sessions -> BOOLEAN] /\ allowed \in [Sessions -> Nat]
    /\ sent \in 0..MaxRequests /\ faults \in 0..MaxFaults
    /\ \A p \in Sessions : who[p] \in IF pc[p] = "idle" THEN {Nobody} ELSE Users
    /\ \A s \in {row[u] : u \in Users} \cup {es[p] : p \in Sessions} :
           (~s.excluded => s.days = 0) /\ (s.until = -1 => ~s.cancellable)
    /\ \A u \in Users : limit[u].monthly # 0 => limit[u].monthly >= limit[u].daily

\* Nobody is let deposit or order who was in a cool-off or self-excluded from
\* before the request came until it was granted, nor deposits at once more than
\* every limit in force in that time, whatever changes the checks overlap
\* (checkDepositEligibility, CheckOrderEligibility).
GrantsRespectProtection ==
    \A p \in Sessions : pc[p] = "granted" => free[p] /\ amount[p] <= allowed[p]

\* Handler p writes the row of user u.
Wrote(p, u) == pc[p] \in Changes /\ who[p] = u /\ pc'[p] = "idle"

LosesPermanence(u) ==
    IsPermanentlySelfExcluded(row[u]) /\ ~IsPermanentlySelfExcluded(row'[u])

LosesCoolOff(u) == now < row[u].until /\ row'[u].until < row[u].until

\* RG_IMPLEMENTATION_SUMMARY.md says of a self-exclusion "Cannot be reversed
\* during exclusion period", and a permanent one has no other period.  The code
\* breaks it: every change writes the whole row back, so a cool-off, or a
\* cancellation, that read the row before ends an exclusion stored meanwhile.
ExclusionNotReversed == [][\A u \in Users :
    IsPermanentlySelfExcluded(row[u]) => row'[u].excluded]_vars

\* ExclusionNotReversed fails, and this says by whose hand alone: a change whose
\* read saw the protection in the row never ends it, unless it is entitled to.
\* A permanent self-exclusion is lost only to a new self-exclusion, or to a
\* change that read the row before it was permanent; a running cool-off is cut
\* short only by a new cool-off, by a cancellation its region allows, or by a
\* change that read the row before that cool-off (CancelCoolOff,
\* CancelSelfExclusion, UpdateExclusionSettings).
ProtectionLostOnlyUnseen == [][\A u \in Users :
    /\ LosesPermanence(u) => \E p \in Sessions :
           /\ Wrote(p, u)
           /\ pc[p] = "selfExclude" \/ ~IsPermanentlySelfExcluded(read[p])
    /\ LosesCoolOff(u) => \E p \in Sessions :
           /\ Wrote(p, u)
           /\ \/ pc[p] = "startCoolOff" \/ read[p].until # row[u].until
              \/ pc[p] = "cancelCoolOff" /\ read[p].cancellable]_vars
=============================================================================
