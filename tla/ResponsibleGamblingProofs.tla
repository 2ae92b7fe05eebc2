---------------------- MODULE ResponsibleGamblingProofs ----------------------
(***************************************************************************)
(* Theorems of ResponsibleGambling: its rows stay valid, a grant respects  *)
(* the protection of its user, and protection is lost only as announced,   *)
(* for any users, handlers, durations and limits.                          *)
(*                                                                         *)
(* What a handler is about to write differs from the row it has read only  *)
(* in the columns of its own change (ChangesOK); what a check has passed   *)
(* held at some moment of it (ChecksOK).  With the types, that is          *)
(* inductive.                                                              *)
(***************************************************************************)
EXTENDS ResponsibleGambling, TLAPS

Valid(s) == (~s.excluded => s.days = 0) /\ (s.until = -1 => ~s.cancellable)

RowsOK ==
    /\ row \in [Users -> ExclusionSettings] /\ \A u \in Users : Valid(row[u])
    /\ limit \in [Users -> DepositSettings]
    /\ \A u \in Users : limit[u].monthly # 0 => limit[u].monthly >= limit[u].daily
    /\ now \in 0..LastTime /\ sent \in 0..MaxRequests /\ faults \in 0..MaxFaults

HandlersOK ==
    /\ pc \in [Sessions -> {"idle"} \cup Changes \cup Checks]
    /\ who \in [Sessions -> Users \cup {Nobody}]
    /\ es \in [Sessions -> ExclusionSettings] /\ \A p \in Sessions : Valid(es[p])
    /\ read \in [Sessions -> ExclusionSettings]
    /\ amount \in [Sessions -> Amounts \cup {0}]
    /\ \A p \in Sessions : who[p] \in IF pc[p] = "idle" THEN {Nobody} ELSE Users

\* What p is about to write, given what it has read.
Alters(change, s, r) ==
    /\ change = "startCoolOff" => s.excluded = r.excluded /\ s.days = r.days
    /\ change = "cancelCoolOff" =>
           s.excluded = r.excluded /\ s.days = r.days /\ r.cancellable
    /\ change = "selfExclude" => s.until = r.until
    /\ change = "cancelSelfExclusion" =>
           s.until = r.until /\ ~IsPermanentlySelfExcluded(r)

ChangesOK == \A p \in Sessions : Alters(pc[p], es[p], read[p])

HistoryOK == free \in [Sessions -> BOOLEAN] /\ allowed \in [Sessions -> Nat]

ChecksOK == \A p \in Sessions :
    /\ pc[p] \in {"limits", "granted"} => free[p]
    /\ pc[p] = "order" => amount[p] = 0
    /\ pc[p] = "granted" => amount[p] <= allowed[p]

IndInv == RowsOK /\ HandlersOK /\ ChangesOK /\ HistoryOK /\ ChecksOK

LEMMA IndInvTypes == IndInv => TypeOK
  BY DEF IndInv, RowsOK, HandlersOK, HistoryOK, TypeOK, Valid

LEMMA IndInvGrants == IndInv => GrantsRespectProtection
  BY DEF IndInv, ChecksOK, GrantsRespectProtection

-----------------------------------------------------------------------------
LEMMA AmountsAreNat == \A a \in Amounts \cup {0} : a \in Nat
<1>1. \A a \in Amounts : a \in Nat
  BY BoundsAssumption
<1> QED
  BY <1>1

LEMMA InitOK == Init => IndInv
<1> SUFFICES ASSUME Init PROVE IndInv
  OBVIOUS
<1> USE BoundsAssumption DEF Init
<1>1. NoExclusion \in ExclusionSettings /\ Valid(NoExclusion) /\ NoLimits \in DepositSettings
  BY DEF NoExclusion, ExclusionSettings, Countries, Valid, NoLimits, DepositSettings
<1>2. RowsOK
  BY <1>1 DEF RowsOK, NoLimits
<1>3. HandlersOK
  BY <1>1 DEF HandlersOK, Nobody
<1>4. ChangesOK /\ HistoryOK /\ ChecksOK
  BY DEF ChangesOK, Alters, HistoryOK, ChecksOK
<1> QED
  BY <1>2, <1>3, <1>4 DEF IndInv

\* The histories after a step keep what they remember, and take in the present.
LEMMA RememberStep ==
    ASSUME RowsOK, RowsOK', HandlersOK', HistoryOK, Remember
    PROVE  /\ HistoryOK'
           /\ \A p \in Sessions : pc'[p] \in Checks =>
                 /\ free[p] => free'[p]
                 /\ ~Protected(who[p])' => free'[p]
                 /\ allowed[p] <= allowed'[p]
                 /\ limit'[who'[p]].daily <= allowed'[p]
<1> USE DEF Remember, HistoryOK
<1>1. \A p \in Sessions : pc'[p] \in Checks => limit'[who'[p]].daily \in Nat
  BY DEF RowsOK, HandlersOK, DepositSettings, Checks
<1>2. free' \in [Sessions -> BOOLEAN]
  OBVIOUS
<1>3. allowed' \in [Sessions -> Nat]
  BY <1>1 DEF MaxOf
<1>4. ASSUME NEW p \in Sessions, pc'[p] \in Checks
      PROVE  /\ free[p] => free'[p]
             /\ ~Protected(who[p])' => free'[p]
  BY <1>4, Zenon
<1>5. ASSUME NEW p \in Sessions, pc'[p] \in Checks
      PROVE  allowed[p] <= allowed'[p] /\ limit'[who'[p]].daily <= allowed'[p]
  <2>1. allowed'[p] = MaxOf(allowed[p], limit'[who'[p]].daily)
    BY <1>5, Zenon
  <2> QED
    BY <1>1, <1>5, <2>1 DEF MaxOf
<1> QED
  BY <1>2, <1>3, <1>4, <1>5

\* A step that moves no check forward keeps what the checks have passed.
LEMMA StillPassed ==
    ASSUME IndInv, RowsOK', HandlersOK', Remember,
           \A p \in Sessions : pc'[p] \in Checks =>
               \/ pc'[p] = pc[p] /\ amount'[p] = amount[p]
               \/ pc'[p] = "deposit"
               \/ pc'[p] = "order" /\ amount'[p] = 0
    PROVE  HistoryOK' /\ ChecksOK'
<1>1. HistoryOK' /\ \A p \in Sessions : pc'[p] \in Checks =>
          (free[p] => free'[p]) /\ allowed[p] <= allowed'[p]
  BY RememberStep DEF IndInv
<1>2. ASSUME NEW p \in Sessions
      PROVE  /\ pc'[p] \in {"limits", "granted"} => free'[p]
             /\ pc'[p] = "order" => amount'[p] = 0
  BY <1>1 DEF IndInv, ChecksOK, Checks
<1>3. ASSUME NEW p \in Sessions, pc'[p] = "granted"
      PROVE  amount'[p] <= allowed'[p]
  <2>1. pc[p] = "granted" /\ amount'[p] = amount[p] /\ allowed[p] <= allowed'[p]
    BY <1>1, <1>3 DEF Checks
  <2>2. amount[p] \in Nat
    BY AmountsAreNat DEF IndInv, HandlersOK
  <2>3. allowed[p] \in Nat /\ allowed'[p] \in Nat
    BY <1>1 DEF IndInv, HistoryOK
  <2> QED
    BY <2>1, <2>2, <2>3 DEF IndInv, ChecksOK
<1> QED
  BY <1>1, <1>2, <1>3 DEF ChecksOK

-----------------------------------------------------------------------------
(* Rows and handlers that one step touches *)

LEMMA SettingsOK ==
    ASSUME RowsOK, NEW u \in Users
    PROVE  /\ Settings(u) \in ExclusionSettings /\ Valid(Settings(u))
           /\ Settings(u).excluded = row[u].excluded /\ Settings(u).days = row[u].days
           /\ Settings(u).until = row[u].until
           /\ Settings(u).cancellable = row[u].cancellable
<1>1. row[u] \in ExclusionSettings /\ Valid(row[u])
  BY DEF RowsOK
<1> QED
  BY <1>1 DEF Settings, ExclusionSettings, Valid

\* The table after one of its rows is written.
LEMMA WriteOK ==
    ASSUME RowsOK, NEW u \in Users, NEW s \in ExclusionSettings, Valid(s),
           row' = [row EXCEPT ![u] = s]
    PROVE  row' \in [Users -> ExclusionSettings] /\ \A v \in Users : Valid(row'[v])
<1>1. row \in [Users -> ExclusionSettings] /\ \A v \in Users : Valid(row[v])
  BY DEF RowsOK
<1>2. row' \in [Users -> ExclusionSettings]
  BY <1>1
<1>3. ASSUME NEW v \in Users PROVE Valid(row'[v])
  <2>1. row'[v] = s \/ row'[v] = row[v]
    BY <1>1
  <2> QED
    BY <2>1, <1>1
<1> QED
  BY <1>2, <1>3

LEMMA NoExclusionOK == NoExclusion \in ExclusionSettings /\ Valid(NoExclusion)
  BY DEF NoExclusion, ExclusionSettings, Countries, Valid

\* A handler that returns.
LEMMA ReturnOK ==
    ASSUME IndInv, NEW p \in Sessions, Return(p)
    PROVE  /\ HandlersOK' /\ ChangesOK'
           /\ pc'[p] = "idle"
           /\ \A q \in Sessions \ {p} : pc'[q] = pc[q] /\ amount'[q] = amount[q]
<1> USE DEF IndInv, HandlersOK, Return, Goto
<1>1. /\ pc'[p] = "idle" /\ who'[p] = Nobody /\ es'[p] = NoExclusion
      /\ read'[p] = NoExclusion /\ amount'[p] = 0
  OBVIOUS
<1>2. ASSUME NEW q \in Sessions \ {p}
      PROVE  /\ pc'[q] = pc[q] /\ who'[q] = who[q] /\ es'[q] = es[q]
             /\ read'[q] = read[q] /\ amount'[q] = amount[q]
  OBVIOUS
<1>3. HandlersOK'
  <2>1. pc' \in [Sessions -> {"idle"} \cup Changes \cup Checks]
    OBVIOUS
  <2>2. who' \in [Sessions -> Users \cup {Nobody}] /\ amount' \in [Sessions -> Amounts \cup {0}]
    OBVIOUS
  <2>3. es' \in [Sessions -> ExclusionSettings] /\ read' \in [Sessions -> ExclusionSettings]
    BY NoExclusionOK
  <2>4. \A q \in Sessions : Valid(es'[q])
    BY <1>1, <1>2, NoExclusionOK
  <2>5. \A q \in Sessions : who'[q] \in IF pc'[q] = "idle" THEN {Nobody} ELSE Users
    BY <1>1, <1>2
  <2> QED
    BY <2>1, <2>2, <2>3, <2>4, <2>5
<1>4. ChangesOK'
  BY <1>1, <1>2 DEF ChangesOK, Alters, IsPermanentlySelfExcluded
<1> QED
  BY <1>1, <1>2, <1>3, <1>4

-----------------------------------------------------------------------------
(* The actions *)

\* A handler reads a row and prepares change.
LEMMA ReadToChangeStep ==
    ASSUME IndInv, NEW p \in Sessions, NEW u \in Users, NEW change \in Changes,
           NEW s \in ExclusionSettings, Valid(s), Alters(change, s, Settings(u)),
           ReadToChange(p, u, change, s)
    PROVE  IndInv'
<1> USE DEF IndInv, ReadToChange, Request, Goto
<1>1. RowsOK'
  BY SettingsOK, WriteOK, BoundsAssumption DEF RowsOK
<1>2. /\ pc'[p] = change /\ who'[p] = u /\ es'[p] = s /\ read'[p] = Settings(u)
      /\ pc' \in [Sessions -> {"idle"} \cup Changes \cup Checks]
      /\ who' \in [Sessions -> Users \cup {Nobody}]
      /\ es' \in [Sessions -> ExclusionSettings] /\ read' \in [Sessions -> ExclusionSettings]
      /\ amount' \in [Sessions -> Amounts \cup {0}]
  BY SettingsOK DEF HandlersOK
<1>3. ASSUME NEW q \in Sessions \ {p}
      PROVE  /\ pc'[q] = pc[q] /\ who'[q] = who[q] /\ es'[q] = es[q]
             /\ read'[q] = read[q] /\ amount'[q] = amount[q]
  BY DEF HandlersOK
<1>4. HandlersOK'
  <2>1. \A q \in Sessions : Valid(es'[q])
    BY <1>2, <1>3 DEF HandlersOK
  <2>2. \A q \in Sessions : who'[q] \in IF pc'[q] = "idle" THEN {Nobody} ELSE Users
    BY <1>2, <1>3 DEF HandlersOK, Changes
  <2> QED
    BY <1>2, <2>1, <2>2 DEF HandlersOK
<1>5. ChangesOK'
  BY <1>2, <1>3 DEF ChangesOK, Alters, IsPermanentlySelfExcluded
<1>6. HistoryOK' /\ ChecksOK'
  BY <1>1, <1>2, <1>3, <1>4, StillPassed DEF Changes, Checks
<1> QED
  BY <1>1, <1>4, <1>5, <1>6

LEMMA StartCoolOffStep ==
    ASSUME IndInv, NEW p \in Sessions, NEW u \in Users, StartCoolOff(p, u)
    PROVE  IndInv'
<1>1. PICK d \in Durations : \E c \in CoolOffCancellable(row[u].country) :
          ReadToChange(p, u, "startCoolOff",
              [Settings(u) EXCEPT !.until = now + d, !.cancellable = c])
  BY DEF StartCoolOff
<1>2. PICK c \in BOOLEAN :
          ReadToChange(p, u, "startCoolOff",
              [Settings(u) EXCEPT !.until = now + d, !.cancellable = c])
  BY <1>1 DEF CoolOffCancellable
<1> DEFINE s == [Settings(u) EXCEPT !.until = now + d, !.cancellable = c]
<1>3. now \in Nat /\ d \in Nat
  BY BoundsAssumption DEF IndInv, RowsOK
<1>4. Settings(u) \in ExclusionSettings /\ Valid(Settings(u))
  BY SettingsOK DEF IndInv
<1>5. s \in ExclusionSettings
  <2>1. now + d \in Int
    BY <1>3
  <2> QED
    BY <2>1, <1>4 DEF ExclusionSettings
<1>6. Valid(s) /\ Alters("startCoolOff", s, Settings(u))
  BY <1>3, <1>4 DEF ExclusionSettings, Valid, Alters
<1> QED
  BY <1>2, <1>5, <1>6, ReadToChangeStep DEF Changes

LEMMA CancelCoolOffStep ==
    ASSUME IndInv, NEW p \in Sessions, NEW u \in Users, CancelCoolOff(p, u)
    PROVE  IndInv'
<1> DEFINE s == [Settings(u) EXCEPT !.until = -1, !.cancellable = FALSE]
<1>1. /\ Settings(u) \in ExclusionSettings /\ Valid(Settings(u))
      /\ Settings(u).cancellable
  BY SettingsOK DEF IndInv, CancelCoolOff
<1>2. s \in ExclusionSettings
  <2>1. -1 \in Int
    OBVIOUS
  <2> QED
    BY <1>1, <2>1 DEF ExclusionSettings
<1>3. Valid(s) /\ Alters("cancelCoolOff", s, Settings(u))
  BY <1>1 DEF ExclusionSettings, Valid, Alters
<1>4. ReadToChange(p, u, "cancelCoolOff", s)
  BY DEF CancelCoolOff
<1> QED
  BY <1>2, <1>3, <1>4, ReadToChangeStep DEF Changes

LEMMA SelfExcludeStep ==
    ASSUME IndInv, NEW p \in Sessions, NEW u \in Users, SelfExclude(p, u)
    PROVE  IndInv'
<1>1. PICK days \in {0, 30} :
          ReadToChange(p, u, "selfExclude",
              [Settings(u) EXCEPT !.excluded = TRUE, !.days = days])
  BY DEF SelfExclude
<1> DEFINE s == [Settings(u) EXCEPT !.excluded = TRUE, !.days = days]
<1>2. Settings(u) \in ExclusionSettings /\ Valid(Settings(u))
  BY SettingsOK DEF IndInv
<1>3. s \in ExclusionSettings
  BY <1>2 DEF ExclusionSettings
<1>4. Valid(s) /\ Alters("selfExclude", s, Settings(u))
  BY <1>2 DEF ExclusionSettings, Valid, Alters
<1> QED
  BY <1>1, <1>3, <1>4, ReadToChangeStep DEF Changes

LEMMA CancelSelfExclusionStep ==
    ASSUME IndInv, NEW p \in Sessions, NEW u \in Users, CancelSelfExclusion(p, u)
    PROVE  IndInv'
<1> DEFINE s == [Settings(u) EXCEPT !.excluded = FALSE, !.days = 0]
<1>1. /\ Settings(u) \in ExclusionSettings /\ Valid(Settings(u))
      /\ ~IsPermanentlySelfExcluded(Settings(u))
  BY SettingsOK DEF IndInv, CancelSelfExclusion, IsPermanentlySelfExcluded
<1>2. s \in ExclusionSettings /\ Valid(s) /\ Alters("cancelSelfExclusion", s, Settings(u))
  BY <1>1 DEF ExclusionSettings, Valid, Alters
<1>3. ReadToChange(p, u, "cancelSelfExclusion", s)
  BY DEF CancelSelfExclusion
<1> QED
  BY <1>2, <1>3, ReadToChangeStep DEF Changes

\* A handler writes what it has prepared.
LEMMA UpdateExclusionSettingsStep ==
    ASSUME IndInv, NEW p \in Sessions, UpdateExclusionSettings(p)
    PROVE  IndInv'
<1> USE DEF IndInv, UpdateExclusionSettings
<1>1. who[p] \in Users /\ es[p] \in ExclusionSettings /\ Valid(es[p])
  BY DEF HandlersOK, Changes
<1>2. RowsOK'
  BY <1>1, WriteOK DEF RowsOK
<1>3. /\ HandlersOK' /\ ChangesOK' /\ pc'[p] = "idle"
      /\ \A q \in Sessions \ {p} : pc'[q] = pc[q] /\ amount'[q] = amount[q]
  BY ReturnOK
<1>4. HistoryOK' /\ ChecksOK'
  BY <1>2, <1>3, StillPassed DEF Checks
<1> QED
  BY <1>2, <1>3, <1>4

\* A step of no handler that keeps the rows.
LEMMA OutsideStep ==
    ASSUME IndInv, RowsOK', UNCHANGED handler, Remember
    PROVE  IndInv'
<1> USE DEF IndInv, handler
<1>1. HandlersOK'
  BY DEF HandlersOK
<1>2. ChangesOK'
  BY DEF ChangesOK, Alters, IsPermanentlySelfExcluded
<1>3. HistoryOK' /\ ChecksOK'
  BY <1>1, StillPassed
<1> QED
  BY <1>1, <1>2, <1>3

LEMMA GetExclusionSettingsStep ==
    ASSUME IndInv, NEW u \in Users, GetExclusionSettings(u)
    PROVE  IndInv'
<1>1. RowsOK'
  BY SettingsOK, WriteOK, BoundsAssumption DEF IndInv, RowsOK, GetExclusionSettings, Request
<1> QED
  BY <1>1, OutsideStep DEF GetExclusionSettings

LEMMA AssignCountryStep ==
    ASSUME IndInv, NEW u \in Users, NEW c \in Countries, AssignCountry(u, c)
    PROVE  IndInv'
<1> DEFINE s == [row[u] EXCEPT !.country = c]
<1>1. s \in ExclusionSettings /\ Valid(s)
  BY DEF IndInv, RowsOK, ExclusionSettings, Valid
<1>2. row' = [row EXCEPT ![u] = s]
  BY DEF AssignCountry
<1>3. RowsOK'
  BY <1>1, <1>2, WriteOK DEF IndInv, RowsOK, AssignCountry
<1> QED
  BY <1>3, OutsideStep DEF AssignCountry

\* The deposit limits after the row of u is created, or was there before.
LEMMA CreateLimitsOK ==
    ASSUME RowsOK, NEW u \in Users, limit' = [limit EXCEPT ![u].exists = TRUE]
    PROVE  /\ limit' \in [Users -> DepositSettings]
           /\ \A v \in Users : limit'[v].daily = limit[v].daily
                               /\ limit'[v].monthly = limit[v].monthly
           /\ \A v \in Users : limit'[v].monthly # 0 => limit'[v].monthly >= limit'[v].daily
<1>1. limit \in [Users -> DepositSettings]
  BY DEF RowsOK
<1> DEFINE s == [limit[u] EXCEPT !.exists = TRUE]
<1>2. s \in DepositSettings /\ s.daily = limit[u].daily /\ s.monthly = limit[u].monthly
  BY <1>1 DEF DepositSettings
<1>3. limit' = [limit EXCEPT ![u] = s]
  OBVIOUS
<1> HIDE DEF s
<1>4. limit' \in [Users -> DepositSettings]
  BY <1>1, <1>2, <1>3
<1>5. ASSUME NEW v \in Users
      PROVE  limit'[v].daily = limit[v].daily /\ limit'[v].monthly = limit[v].monthly
  <2>1. CASE v = u
    BY <1>1, <1>2, <1>3, <2>1
  <2>2. CASE v # u
    BY <1>1, <1>3, <2>2
  <2> QED
    BY <2>1, <2>2
<1>6. \A v \in Users : limit[v].monthly # 0 => limit[v].monthly >= limit[v].daily
  BY DEF RowsOK
<1> QED
  BY <1>4, <1>5, <1>6

LEMMA GetDepositSettingsStep ==
    ASSUME IndInv, NEW u \in Users, GetDepositSettings(u)
    PROVE  IndInv'
<1>1. /\ limit' \in [Users -> DepositSettings]
      /\ \A v \in Users : limit'[v].monthly # 0 => limit'[v].monthly >= limit'[v].daily
  BY CreateLimitsOK DEF IndInv, GetDepositSettings
<1>2. sent' \in 0..MaxRequests
  BY BoundsAssumption DEF IndInv, RowsOK, GetDepositSettings, Request
<1>3. RowsOK'
  BY <1>1, <1>2 DEF IndInv, RowsOK, GetDepositSettings
<1> QED
  BY <1>3, OutsideStep DEF GetDepositSettings

LEMMA UpdateDepositSettingsStep ==
    ASSUME IndInv, NEW u \in Users, NEW d \in Amounts, NEW m \in Amounts \cup {0},
           UpdateDepositSettings(u, d, m)
    PROVE  IndInv'
<1>1. d \in Nat /\ m \in Nat /\ (m # 0 => m >= d)
  BY AmountsAreNat DEF UpdateDepositSettings, ValidLimits
<1>2. /\ limit \in [Users -> DepositSettings]
      /\ \A v \in Users : limit[v].monthly # 0 => limit[v].monthly >= limit[v].daily
  BY DEF IndInv, RowsOK
<1> DEFINE s == [limit[u] EXCEPT !.daily = d, !.monthly = m]
<1>3. s \in DepositSettings /\ s.daily = d /\ s.monthly = m
  BY <1>1, <1>2 DEF DepositSettings
<1>4. limit' = [limit EXCEPT ![u] = s]
  BY <1>2 DEF UpdateDepositSettings
<1> HIDE DEF s
<1>5. limit' \in [Users -> DepositSettings]
  BY <1>2, <1>3, <1>4
<1>6. ASSUME NEW v \in Users, limit'[v].monthly # 0
      PROVE  limit'[v].monthly >= limit'[v].daily
  <2>1. CASE v = u
    <3>1. limit'[v] = s
      BY <1>2, <1>4, <2>1
    <3> QED
      BY <1>1, <1>3, <1>6, <3>1
  <2>2. CASE v # u
    <3>1. limit'[v] = limit[v]
      BY <1>2, <1>4, <2>2
    <3> QED
      BY <1>2, <1>6, <3>1
  <2> QED
    BY <2>1, <2>2
<1>7. sent' \in 0..MaxRequests
  BY BoundsAssumption DEF IndInv, RowsOK, UpdateDepositSettings, Request
<1>8. RowsOK'
  BY <1>5, <1>6, <1>7 DEF IndInv, RowsOK, UpdateDepositSettings
<1> QED
  BY <1>8, OutsideStep DEF UpdateDepositSettings

LEMMA TickStep == IndInv /\ Tick => IndInv'
<1> SUFFICES ASSUME IndInv, Tick PROVE IndInv'
  OBVIOUS
<1>1. RowsOK'
  BY BoundsAssumption DEF IndInv, RowsOK, Tick
<1> QED
  BY <1>1, OutsideStep DEF Tick

LEMMA BeginCheckStep ==
    ASSUME IndInv, NEW p \in Sessions, NEW u \in Users, NEW a \in Amounts \cup {0},
           BeginCheck(p, u, a)
    PROVE  IndInv'
<1> USE DEF IndInv, BeginCheck, Request, Goto
<1>1. RowsOK'
  BY BoundsAssumption DEF RowsOK
<1>2. pc'[p] \in {"order", "deposit"} /\ (pc'[p] = "order" => amount'[p] = 0) /\ who'[p] = u
  BY DEF HandlersOK
<1>3. \A q \in Sessions \ {p} : pc'[q] = pc[q] /\ who'[q] = who[q] /\ amount'[q] = amount[q]
  BY DEF HandlersOK
<1>4. HandlersOK'
  <2>1. \A q \in Sessions : who'[q] \in IF pc'[q] = "idle" THEN {Nobody} ELSE Users
    BY <1>2, <1>3 DEF HandlersOK
  <2> QED
    BY <2>1 DEF HandlersOK, Checks
<1>5. ChangesOK'
  BY <1>2, <1>3 DEF ChangesOK, Alters, IsPermanentlySelfExcluded
<1>6. HistoryOK' /\ ChecksOK'
  BY <1>1, <1>2, <1>3, <1>4, StillPassed
<1> QED
  BY <1>1, <1>4, <1>5, <1>6

\* A request is refused, or granted and answered.
LEMMA AnswerStep ==
    ASSUME IndInv, RowsOK', NEW p \in Sessions, Return(p), Remember
    PROVE  IndInv'
<1>1. /\ HandlersOK' /\ ChangesOK' /\ pc'[p] = "idle"
      /\ \A q \in Sessions \ {p} : pc'[q] = pc[q] /\ amount'[q] = amount[q]
  BY ReturnOK
<1>2. HistoryOK' /\ ChecksOK'
  BY <1>1, StillPassed DEF Checks
<1> QED
  BY <1>1, <1>2 DEF IndInv

LEMMA GrantStep ==
    ASSUME IndInv, NEW p \in Sessions, Grant(p) \/ StatementFails(p)
    PROVE  IndInv'
<1>1. RowsOK'
  BY BoundsAssumption DEF IndInv, RowsOK, Grant, StatementFails
<1> QED
  BY <1>1, AnswerStep DEF Grant, StatementFails

\* A check moves on to its next statement, or to being granted.
LEMMA PassStep ==
    ASSUME IndInv, RowsOK', NEW p \in Sessions, NEW l \in {"limits", "granted"},
           pc[p] \in Checks, Goto(p, l), UNCHANGED <<who, es, amount, read>>, Remember,
           free'[p], l = "granted" => amount[p] <= allowed'[p]
    PROVE  IndInv'
<1> USE DEF IndInv, Goto
<1>1. pc'[p] = l /\ \A q \in Sessions \ {p} : pc'[q] = pc[q]
  BY DEF HandlersOK
<1>2. HandlersOK'
  <2>1. \A q \in Sessions : who'[q] \in IF pc'[q] = "idle" THEN {Nobody} ELSE Users
    BY <1>1 DEF HandlersOK, Checks
  <2> QED
    BY <2>1 DEF HandlersOK, Checks
<1>3. ChangesOK'
  BY <1>1 DEF ChangesOK, Alters, IsPermanentlySelfExcluded
<1>4. HistoryOK' /\ \A q \in Sessions : pc'[q] \in Checks =>
          (free[q] => free'[q]) /\ allowed[q] <= allowed'[q]
  BY <1>2, RememberStep
<1>5. ASSUME NEW q \in Sessions, q # p
      PROVE  /\ pc'[q] \in {"limits", "granted"} => free'[q]
             /\ pc'[q] = "order" => amount'[q] = 0
             /\ pc'[q] = "granted" => amount'[q] <= allowed'[q]
  <2>1. pc'[q] = pc[q] /\ amount'[q] = amount[q]
    BY <1>1, <1>5
  <2>2. amount[q] \in Nat /\ allowed[q] \in Nat /\ allowed'[q] \in Nat
    BY <1>4, AmountsAreNat DEF HandlersOK, HistoryOK
  <2> QED
    BY <1>4, <2>1, <2>2 DEF ChecksOK, Checks
<1>6. ChecksOK'
  BY <1>1, <1>5 DEF ChecksOK
<1> QED
  BY <1>2, <1>3, <1>4, <1>6

LEMMA CheckExclusionStep ==
    ASSUME IndInv, NEW p \in Sessions, CheckExclusion(p)
    PROVE  IndInv'
<1> DEFINE u == who[p]
<1>1. pc[p] \in Checks /\ u \in Users
  BY DEF IndInv, HandlersOK, CheckExclusion, Checks
<1>2. RowsOK'
  BY <1>1, SettingsOK, WriteOK DEF IndInv, RowsOK, CheckExclusion
<1>3. CASE Return(p)
  BY <1>2, <1>3, AnswerStep DEF CheckExclusion
<1>4. CASE /\ Eligible(row[u])
           /\ Goto(p, IF pc[p] = "order" THEN "granted" ELSE "limits")
           /\ UNCHANGED <<who, es, amount, read>>
  <2> DEFINE l == IF pc[p] = "order" THEN "granted" ELSE "limits"
  <2>1. row'[u].until = row[u].until /\ row'[u].excluded = row[u].excluded
    <3>1. row'[u] = Settings(u)
      BY <1>1 DEF CheckExclusion, IndInv, RowsOK
    <3> QED
      BY <1>1, <3>1, SettingsOK DEF IndInv
  <2>2. ~Protected(who[p])'
    BY <1>4, <2>1 DEF Eligible, IsInCoolOff, Protected, CheckExclusion
  <2>3. pc'[p] \in Checks
    BY <1>4 DEF Goto, Checks, IndInv, HandlersOK
  <2>4. HandlersOK'
    <3>1. \A q \in Sessions : who'[q] \in IF pc'[q] = "idle" THEN {Nobody} ELSE Users
      BY <1>1, <1>4 DEF Goto, IndInv, HandlersOK, Checks
    <3> QED
      BY <1>4, <3>1 DEF Goto, IndInv, HandlersOK, Checks
  <2>5. free'[p] /\ HistoryOK'
    BY <1>2, <2>2, <2>3, <2>4, RememberStep DEF IndInv, CheckExclusion
  <2>6. l = "granted" => amount[p] <= allowed'[p]
    <3> SUFFICES ASSUME pc[p] = "order" PROVE amount[p] <= allowed'[p]
      OBVIOUS
    <3>1. amount[p] = 0
      BY DEF IndInv, ChecksOK
    <3>2. allowed'[p] \in Nat
      BY <2>5 DEF HistoryOK
    <3> QED
      BY <3>1, <3>2
  <2>7. l \in {"limits", "granted"} /\ Goto(p, l)
    BY <1>4
  <2> HIDE DEF l
  <2> QED
    BY <1>1, <1>2, <1>4, <2>5, <2>6, <2>7, PassStep DEF CheckExclusion
<1> QED
  BY <1>3, <1>4 DEF CheckExclusion

LEMMA CheckLimitStep ==
    ASSUME IndInv, NEW p \in Sessions, CheckLimit(p)
    PROVE  IndInv'
<1> DEFINE u == who[p]
<1>1. pc[p] \in Checks /\ u \in Users /\ free[p]
  BY DEF IndInv, HandlersOK, ChecksOK, CheckLimit, Checks
<1>2. /\ limit' \in [Users -> DepositSettings]
      /\ limit'[u].daily = limit[u].daily
      /\ \A v \in Users : limit'[v].monthly # 0 => limit'[v].monthly >= limit'[v].daily
  BY <1>1, CreateLimitsOK DEF IndInv, CheckLimit
<1>3. RowsOK'
  BY <1>2 DEF IndInv, RowsOK, CheckLimit
<1>4. CASE Return(p)
  BY <1>3, <1>4, AnswerStep DEF CheckLimit
<1>5. CASE /\ GetDailyDepositTotal(u) + amount[p] <= limit[u].daily
           /\ Goto(p, "granted")
           /\ UNCHANGED <<who, es, amount, read>>
  <2>1. pc'[p] \in Checks
    BY <1>5 DEF Goto, Checks, IndInv, HandlersOK
  <2>2. HandlersOK'
    <3>1. \A q \in Sessions : who'[q] \in IF pc'[q] = "idle" THEN {Nobody} ELSE Users
      BY <1>1, <1>5 DEF Goto, IndInv, HandlersOK, Checks
    <3> QED
      BY <1>5, <3>1 DEF Goto, IndInv, HandlersOK, Checks
  <2>3. free'[p] /\ HistoryOK' /\ limit'[who'[p]].daily <= allowed'[p]
    BY <1>1, <1>3, <2>1, <2>2, RememberStep DEF IndInv, CheckLimit
  <2>4. amount[p] <= allowed'[p]
    <3>1. amount[p] \in Nat /\ allowed'[p] \in Nat /\ limit'[u].daily \in Nat
      BY <1>1, <1>2, <2>3, AmountsAreNat DEF IndInv, HandlersOK, HistoryOK, DepositSettings
    <3>2. amount[p] <= limit'[u].daily
      BY <1>2, <1>5, <3>1 DEF GetDailyDepositTotal
    <3>3. limit'[u].daily <= allowed'[p]
      BY <1>5, <2>3
    <3> QED
      BY <3>1, <3>2, <3>3
  <2> QED
    BY <1>1, <1>3, <1>5, <2>3, <2>4, PassStep DEF CheckLimit
<1> QED
  BY <1>4, <1>5 DEF CheckLimit

-----------------------------------------------------------------------------
LEMMA NextOK == IndInv /\ [Next]_vars => IndInv'
<1> SUFFICES ASSUME IndInv, [Next]_vars PROVE IndInv'
  OBVIOUS
<1>1. CASE UNCHANGED vars
  BY <1>1 DEF vars, handler, IndInv, RowsOK, HandlersOK, ChangesOK, Alters,
              IsPermanentlySelfExcluded, HistoryOK, ChecksOK
<1>2. ASSUME NEW p \in Sessions, Change(p) PROVE IndInv'
  BY <1>2, StartCoolOffStep, CancelCoolOffStep, SelfExcludeStep,
     CancelSelfExclusionStep, UpdateExclusionSettingsStep DEF Change
<1>3. ASSUME NEW p \in Sessions, Check(p) PROVE IndInv'
  BY <1>3, BeginCheckStep, CheckExclusionStep, CheckLimitStep, GrantStep DEF Check
<1>4. ASSUME NEW u \in Users, SettingsOf(u) PROVE IndInv'
  BY <1>4, GetExclusionSettingsStep, GetDepositSettingsStep, UpdateDepositSettingsStep
     DEF SettingsOf
<1> QED
  BY <1>1, <1>2, <1>3, <1>4, GrantStep, AssignCountryStep, TickStep DEF Next

LEMMA IndInvHolds == Spec => []IndInv
  BY InitOK, NextOK, PTL DEF Spec

\* The stored rows, and those a handler is about to write, are always ones that
\* Validate accepts, though no code calls it.
THEOREM TypeCorrect == Spec => []TypeOK
  BY IndInvHolds, IndInvTypes, PTL

\* A deposit or an order is granted only to a user who was unprotected at some
\* moment since it was asked, and within a limit that was in force in that time,
\* however the checks and the changes of settings overlap.
THEOREM GrantsProtected == Spec => []GrantsRespectProtection
  BY IndInvHolds, IndInvGrants, PTL

-----------------------------------------------------------------------------
(* Protection is lost only as announced *)

\* What a step changes of a user's row beside its country.
LEMMA OnlyWritesAlter ==
    ASSUME IndInv, Next, NEW u \in Users
    PROVE  \/ row'[u].until = row[u].until /\ row'[u].excluded = row[u].excluded
              /\ row'[u].days = row[u].days
           \/ \E p \in Sessions : Wrote(p, u) /\ row'[u] = es[p]
<1> DEFINE Kept == row'[u].until = row[u].until /\ row'[u].excluded = row[u].excluded
                   /\ row'[u].days = row[u].days
<1>1. row \in [Users -> ExclusionSettings]
  BY DEF IndInv, RowsOK
<1>2. ASSUME NEW v \in Users, row' = [row EXCEPT ![v] = Settings(v)] PROVE Kept
  <2>1. row'[u] = row[u] \/ row'[u] = Settings(u)
    BY <1>1, <1>2
  <2> QED
    BY <2>1, SettingsOK DEF IndInv
<1>3. ASSUME row' = row PROVE Kept
  BY <1>3
<1>4. ASSUME NEW v \in Users, NEW c \in Countries, AssignCountry(v, c) PROVE Kept
  <2>1. row' = [row EXCEPT ![v].country = c]
    BY <1>4 DEF AssignCountry
  <2> QED
    BY <1>1, <2>1 DEF ExclusionSettings
<1>5. ASSUME NEW p \in Sessions, UpdateExclusionSettings(p)
      PROVE  Kept \/ (Wrote(p, u) /\ row'[u] = es[p])
  <2>1. row' = [row EXCEPT ![who[p]] = es[p]] /\ pc[p] \in Changes
    BY <1>5 DEF UpdateExclusionSettings
  <2>2. pc'[p] = "idle"
    BY <1>5 DEF UpdateExclusionSettings, Return, Goto, IndInv, HandlersOK
  <2>3. CASE who[p] = u
    BY <1>1, <2>1, <2>2, <2>3 DEF Wrote
  <2>4. CASE who[p] # u
    BY <1>1, <2>1, <2>4
  <2> QED
    BY <2>3, <2>4
<1> HIDE DEF Kept
<1>6. ASSUME NEW p \in Sessions, Change(p)
      PROVE  Kept \/ \E q \in Sessions : Wrote(q, u) /\ row'[u] = es[q]
  <2>1. CASE UpdateExclusionSettings(p)
    BY <1>5, <2>1
  <2>2. ASSUME NEW v \in Users, NEW change, NEW s, ReadToChange(p, v, change, s) PROVE Kept
    BY <1>2, <2>2 DEF ReadToChange
  <2> QED
    BY <1>6, <2>1, <2>2
       DEF Change, StartCoolOff, CancelCoolOff, SelfExclude, CancelSelfExclusion
<1>7. ASSUME NEW p \in Sessions, Check(p) PROVE Kept
  <2>1. CASE CheckExclusion(p)
    <3>1. who[p] \in Users
      BY <2>1 DEF CheckExclusion, IndInv, HandlersOK
    <3> QED
      BY <1>2, <2>1, <3>1 DEF CheckExclusion
  <2> QED
    BY <1>3, <1>7, <2>1 DEF Check, BeginCheck, CheckLimit, Grant
<1>8. ASSUME NEW v \in Users, SettingsOf(v) PROVE Kept
  BY <1>2, <1>3, <1>8
     DEF SettingsOf, GetExclusionSettings, GetDepositSettings, UpdateDepositSettings
<1>9. ASSUME Tick \/ \E p \in Sessions : StatementFails(p) PROVE Kept
  BY <1>3, <1>9 DEF Tick, StatementFails
<1> QED
  BY <1>4, <1>6, <1>7, <1>8, <1>9 DEF Next, Kept

LEMMA PermanenceKept ==
    ASSUME IndInv, Next, NEW u \in Users, LosesPermanence(u)
    PROVE  \E p \in Sessions :
               /\ Wrote(p, u)
               /\ pc[p] = "selfExclude" \/ ~IsPermanentlySelfExcluded(read[p])
<1> USE DEF LosesPermanence, IsPermanentlySelfExcluded
<1>1. PICK p \in Sessions : Wrote(p, u) /\ row'[u] = es[p]
  BY OnlyWritesAlter
<1>2. Alters(pc[p], es[p], read[p]) /\ pc[p] \in Changes
  BY <1>1 DEF IndInv, ChangesOK, Wrote
<1>3. pc[p] = "selfExclude" \/ ~IsPermanentlySelfExcluded(read[p])
  BY <1>1, <1>2 DEF Alters, Changes
<1> QED
  BY <1>1, <1>3

LEMMA CoolOffKept ==
    ASSUME IndInv, Next, NEW u \in Users, LosesCoolOff(u)
    PROVE  \E p \in Sessions :
               /\ Wrote(p, u)
               /\ \/ pc[p] = "startCoolOff" \/ read[p].until # row[u].until
                  \/ pc[p] = "cancelCoolOff" /\ read[p].cancellable
<1>1. row[u].until \in Int
  BY DEF IndInv, RowsOK, ExclusionSettings
<1>2. row'[u].until # row[u].until
  BY <1>1 DEF LosesCoolOff
<1>3. PICK p \in Sessions : Wrote(p, u) /\ row'[u] = es[p]
  BY <1>2, OnlyWritesAlter
<1>4. Alters(pc[p], es[p], read[p]) /\ pc[p] \in Changes
  BY <1>3 DEF IndInv, ChangesOK, Wrote
<1>5. \/ pc[p] = "startCoolOff" \/ read[p].until # row[u].until
      \/ pc[p] = "cancelCoolOff" /\ read[p].cancellable
  BY <1>2, <1>3, <1>4 DEF Alters, Changes
<1> QED
  BY <1>3, <1>5

\* A permanent self-exclusion and a running cool-off end early only by a request
\* entitled to end them, or by one that read the row before they began; for any
\* number of overlapping requests.
THEOREM ProtectionKept == Spec => ProtectionLostOnlyUnseen
<1> DEFINE Kept == \A u \in Users :
        /\ LosesPermanence(u) => \E p \in Sessions :
               /\ Wrote(p, u)
               /\ pc[p] = "selfExclude" \/ ~IsPermanentlySelfExcluded(read[p])
        /\ LosesCoolOff(u) => \E p \in Sessions :
               /\ Wrote(p, u)
               /\ \/ pc[p] = "startCoolOff" \/ read[p].until # row[u].until
                  \/ pc[p] = "cancelCoolOff" /\ read[p].cancellable
<1>1. IndInv /\ Next => Kept
  BY PermanenceKept, CoolOffKept
<1>2. IndInv /\ [Next]_vars => [Kept]_vars
  BY <1>1
<1> QED
  BY <1>2, IndInvHolds, PTL DEF Spec, ProtectionLostOnlyUnseen
=============================================================================
