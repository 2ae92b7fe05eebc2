------------------------- MODULE MarketLifecycleProofs -------------------------
(***************************************************************************)
(* Theorems of MarketLifecycle: its types, that rows move and are          *)
(* announced along the valid transitions, and that a result which finds    *)
(* its market pending takes effect unless a fault or a PATCH prevents it,  *)
(* for any markets, requests, results and faults.                          *)
(*                                                                         *)
(* A row only grows (Grows), so what an actor or an event says of a past   *)
(* status stays true (ActorsOK, EventsOK); an update appends only to the   *)
(* status it has compared, which makes each step of a row valid (Walked).  *)
(***************************************************************************)
EXTENDS MarketLifecycle, TLAPS

Typed == /\ TypeOK
         /\ history \in [Markets -> Seq(Statuses)]
         /\ \A m \in closed : Exists(m)
         /\ \A n \in 1..Len(results) : results[n].market \in closed
         /\ actor["consumer"] # Idle => offset # 0

Walked == \A m \in Markets : \A n \in 1..(Version(m) - 1) :
              IsValidTransition(history[m][n], history[m][n + 1])

ActorOK(x) ==
    /\ x.at = "update" => Exists(x.market) /\ IsValidTransition(x.old, x.new)
    /\ x.at \in {"invalidate", "announce"} =>
           x.version \in 1..Version(x.market) /\ history[x.market][x.version] = x.new
    /\ x.at = "announce" => x.new = "active"
    /\ x.at \in {"get", "read"} => Exists(x.market)
    /\ x.at = "fill" => x.version <= Version(x.market)

\* The consumer works on events, the requests of the API on updates.
OpOf(a) == IF a = "consumer" THEN "event" ELSE "update"

ActorsOK == \A a \in Actors :
    /\ ActorOK(actor[a])
    /\ actor[a].at \in {"update", "invalidate", "announce"} => actor[a].op = OpOf(a)

EventOK(e) == e.version <= Version(e.market) /\ history[e.market][e.version] \in {"active", "voided"}
EventsOK   == \A e \in announcing \cup published : EventOK(e)

\* The n-th result has taken its market, or a PATCH has ended it.
Taken(n) ==
    \/ Wanted(results[n].outcome) \in ToSet(history[results[n].market])
    \/ results[n].market \in preempted

\* The consumer is about to apply the n-th result to a market still pending.
Applying(n) ==
    /\ n = offset /\ actor["consumer"].at = "update"
    /\ actor["consumer"].market = results[n].market
    /\ actor["consumer"].new = Wanted(results[n].outcome)
    /\ actor["consumer"].old = "pending_resolution"
    /\ Status(results[n].market) = "pending_resolution"

ResultsOK == \A n \in ready \ lost : Taken(n) \/ Applying(n)

IndInv == Typed /\ Walked /\ ActorsOK /\ EventsOK /\ ResultsOK

-----------------------------------------------------------------------------
(* The domain *)

LEMMA Transitions ==
    ASSUME NEW s, NEW t
    PROVE  IsValidTransition(s, t) <=>
             \/ s = "draft" /\ t \in {"active", "voided"}
             \/ s = "active" /\ t \in {"suspended", "pending_resolution", "voided"}
             \/ s = "suspended" /\ t \in {"active", "voided"}
             \/ s = "pending_resolution" /\ t \in {"resolved", "voided"}
             \/ s \in {"resolved", "voided"} /\ t = "archived"
  BY DEF IsValidTransition, ValidTransitions

LEMMA TransitionTypes ==
    ASSUME NEW s, NEW t, IsValidTransition(s, t) PROVE s \in Statuses /\ t \in Statuses
  BY Transitions DEF Statuses

\* A walk along valid transitions is voided at most once.
LEMMA VoidedOnce ==
    ASSUME Typed, Walked, NEW m \in Markets, NEW k \in 1..Version(m), NEW n \in 1..Version(m),
           history[m][k] = "voided", history[m][n] = "voided"
    PROVE  k = n
<1>1. ASSUME NEW i \in 1..Version(m), NEW j \in 1..Version(m), i < j,
             history[m][i] = "voided", history[m][j] = "voided"
      PROVE  FALSE
  <2>1. Version(m) \in Nat
    BY DEF Typed, Version
  <2>2. i \in 1..(Version(m) - 1) /\ i + 1 \in 1..Version(m) /\ i + 1 <= j
    BY <1>1, <2>1
  <2>3. history[m][i + 1] = "archived"
    BY <1>1, <2>2, Transitions DEF Walked
  <2>4. i + 1 \in 1..(Version(m) - 1)
    BY <1>1, <2>1, <2>2, <2>3
  <2>5. IsValidTransition(history[m][i + 1], history[m][(i + 1) + 1])
    BY <2>4 DEF Walked
  <2> QED
    BY <2>3, <2>5, Transitions
<1>2. k < n \/ n < k \/ k = n
  BY DEF Typed, Version
<1> QED
  BY <1>1, <1>2

-----------------------------------------------------------------------------
(* What the invariant implies *)

LEMMA IndInvTypes == IndInv => TypeOK
  BY DEF IndInv, Typed

LEMMA IndInvChanges == IndInv => ChangesAsAnnounced
<1> SUFFICES ASSUME IndInv,
                    NEW d \in announcing \cup published, NEW e \in announcing \cup published,
                    d.market = e.market, history[d.market][d.version] = "voided",
                    history[e.market][e.version] = "voided"
             PROVE  d = e
  BY DEF IndInv, Walked, EventsOK, EventOK, ChangesAsAnnounced
<1>1. d \in Events /\ e \in Events
  BY DEF IndInv, Typed, TypeOK
<1>2. d.version \in 1..Version(d.market) /\ e.version \in 1..Version(e.market)
  <2>1. Version(d.market) \in Nat /\ Version(e.market) \in Nat
    BY <1>1 DEF IndInv, Typed, Version, Events
  <2> QED
    BY <1>1, <2>1 DEF IndInv, EventsOK, EventOK, Events
<1>3. d.version = e.version
  BY <1>1, <1>2, VoidedOnce DEF IndInv, Events
<1> QED
  BY <1>1, <1>3 DEF Events

LEMMA IndInvResults == IndInv => PendingResultsApply
<1> SUFFICES ASSUME IndInv, NEW n \in ready \ lost PROVE Processing(n) \/ Taken(n)
  BY DEF PendingResultsApply, Taken
<1>1. Applying(n) => Processing(n)
  BY DEF Applying, Processing, Idle
<1> QED
  BY <1>1 DEF IndInv, ResultsOK

LEMMA InitOK == Init => IndInv
<1> SUFFICES ASSUME Init PROVE IndInv
  OBVIOUS
<1>1. Typed
  BY BoundAssumption DEF Init, Typed, TypeOK, NoEntry, Idle, Requested, Actors
<1>2. Walked /\ ActorsOK
  BY DEF Init, Walked, ActorsOK, ActorOK, Version, Idle, Actors
<1>3. EventsOK /\ ResultsOK
  BY DEF Init, EventsOK, ResultsOK
<1> QED
  BY <1>1, <1>2, <1>3 DEF IndInv

-----------------------------------------------------------------------------
(* What a step leaves true *)

LEMMA StatusOK ==
    ASSUME Typed, NEW m \in Markets, Exists(m)
    PROVE  Version(m) \in Nat \ {0} /\ Status(m) = history[m][Version(m)] /\ Status(m) \in Statuses
  BY DEF Typed, Exists, Version, Status, Last

LEMMA ResultMarkets ==
    ASSUME Typed, NEW n \in 1..Len(results)
    PROVE  /\ results[n].market \in Markets /\ results[n].outcome \in Outcomes
           /\ results[n].market \in closed /\ Exists(results[n].market)
<1> DEFINE R == [market : Markets, outcome : Outcomes]
<1>1. results \in Seq(R)
  BY DEF Typed, TypeOK
<1> HIDE DEF R
<1>2. results[n] \in R
  BY <1>1
<1> QED
  BY <1>2 DEF Typed, R

LEMMA ReadyResults == ASSUME Typed, NEW n \in ready PROVE n \in 1..Len(results)
  BY DEF Typed, TypeOK

LEMMA ActorShape ==
    ASSUME Typed, NEW a \in Actors
    PROVE  /\ actor[a].at \in {"idle", "update", "invalidate", "announce", "get", "read", "fill"}
           /\ actor[a].at = "idle" <=> actor[a] = Idle
           /\ actor[a].at = "update" => actor[a] \in
                [at : {"update"}, op : {"update", "event"}, market : Markets, old : Statuses, new : Statuses]
           /\ actor[a].at \in {"invalidate", "announce"} => actor[a] \in
                [at : {"invalidate", "announce"}, op : {"update", "event"}, market : Markets,
                 new : Statuses, version : Nat]
           /\ actor[a].at \in {"get", "read"} => actor[a] \in [at : {"get", "read"}, market : Markets]
           /\ actor[a].at = "fill" => actor[a] \in [at : {"fill"}, market : Markets, version : Nat]
<1>1. actor[a] \in {Idle} \cup Requested \cup Reads
  BY DEF Typed, TypeOK
<1>2. Idle.at = "idle"
  BY DEF Idle
<1> QED
  BY <1>1, <1>2 DEF Requested, Reads

LEMMA IdleOK == ActorOK(Idle) /\ Idle \in {Idle} \cup Requested \cup Reads
  BY DEF ActorOK, Idle

\* The rows stay, and one actor goes on to x.
LEMMA ActorStep ==
    ASSUME IndInv, Typed', NEW a \in Actors, NEW x, Become(a, x), ActorOK(x),
           x.at \in {"update", "invalidate", "announce"} => x.op = OpOf(a),
           UNCHANGED history
    PROVE  Walked' /\ ActorsOK'
<1>1. Walked'
  BY DEF IndInv, Walked, Version
<1>2. actor'[a] = x /\ \A b \in Actors : b # a => actor'[b] = actor[b]
  BY DEF Become, IndInv, Typed, TypeOK
<1>3. \A b \in Actors : ActorOK(actor[b])'
  BY <1>2 DEF IndInv, ActorsOK, ActorOK, Exists, Version
<1>4. \A b \in Actors :
         actor'[b].at \in {"update", "invalidate", "announce"} => actor'[b].op = OpOf(b)
  BY <1>2 DEF IndInv, ActorsOK
<1> QED
  BY <1>1, <1>3, <1>4 DEF ActorsOK, OpOf

LEMMA RowsKept ==
    ASSUME IndInv, UNCHANGED <<history, actor>>
    PROVE  Walked' /\ ActorsOK'
  BY DEF IndInv, Walked, Version, ActorsOK, ActorOK, Exists

LEMMA EventsKept ==
    ASSUME IndInv, UNCHANGED history, announcing' \cup published' \subseteq announcing \cup published
    PROVE  EventsOK'
  BY DEF IndInv, EventsOK, EventOK, Version

\* What was taken stays so: a row's past is kept, and so are the results.
LEMMA TakenStays ==
    ASSUME Typed, NEW n \in 1..Len(results), Taken(n), results'[n] = results[n],
           preempted \subseteq preempted',
           ToSet(history[results[n].market]) \subseteq ToSet(history'[results[n].market])
    PROVE  Taken(n)'
  BY DEF Taken, Wanted

\* The consumer stays where it is, or the result it is at is lost.
LEMMA ResultsKept ==
    ASSUME IndInv, ready' \ lost' \subseteq ready \ lost,
           preempted \subseteq preempted',
           \A n \in ready : results'[n] = results[n],
           \A m \in closed : history'[m] = history[m],
           \/ UNCHANGED offset /\ actor'["consumer"] = actor["consumer"]
           \/ offset \in lost'
           \/ actor["consumer"].at # "update"
    PROVE  ResultsOK'
<1> SUFFICES ASSUME NEW n \in ready \ lost, n \notin lost'
             PROVE  Taken(n)' \/ Applying(n)'
  BY DEF ResultsOK
<1>1. n \in 1..Len(results) /\ results[n].market \in closed
  BY ReadyResults, ResultMarkets DEF IndInv
<1>2. results'[n] = results[n] /\ history'[results[n].market] = history[results[n].market]
  BY <1>1
<1>3. Taken(n) \/ Applying(n)
  BY DEF IndInv, ResultsOK
<1>4. Taken(n) => Taken(n)'
  BY <1>1, <1>2, TakenStays DEF IndInv
<1>5. Applying(n) => Applying(n)'
  BY <1>2 DEF Applying, Status, Wanted
<1> QED
  BY <1>3, <1>4, <1>5

-----------------------------------------------------------------------------
(* The actions *)

\* A request of the API arrives, or a read goes on: one handler moves to x.
LEMMA SessionStep ==
    ASSUME IndInv, NEW s \in Sessions, NEW x \in {Idle} \cup Requested \cup Reads,
           Become(s, x), ActorOK(x), x \in Requested => x.op = "update",
           UNCHANGED <<rows, events, topic, watched>>, cache' \in [Markets -> Nat],
           requests' \in 0..MaxRequests, faults' \in 0..MaxFaults
    PROVE  IndInv'
<1> USE DEF rows, events, topic, watched
<1>1. s \in Actors /\ s # "consumer" /\ "consumer" \in Actors
  BY ActorAssumption DEF Actors
<1>2. /\ actor' \in [Actors -> {Idle} \cup Requested \cup Reads]
      /\ actor'["consumer"] = actor["consumer"]
  BY <1>1 DEF Become, IndInv, Typed, TypeOK
<1>3. Typed'
  BY <1>2 DEF IndInv, Typed, TypeOK, Exists
<1>4. x.at \in {"update", "invalidate", "announce"} => x.op = OpOf(s)
  <2>1. CASE x = Idle
    BY <2>1 DEF Idle
  <2>2. CASE x \in Requested
    BY <1>1, <2>2 DEF OpOf
  <2>3. CASE x \in Reads
    BY <2>3 DEF Reads
  <2> QED
    BY <2>1, <2>2, <2>3
<1>5. Walked' /\ ActorsOK'
  BY <1>1, <1>3, <1>4, ActorStep
<1>6. EventsOK'
  BY EventsKept
<1>7. ResultsOK'
  BY <1>2, ResultsKept
<1> QED
  BY <1>3, <1>5, <1>6, <1>7 DEF IndInv

LEMMA CountersOK ==
    /\ IndInv /\ Request => requests' \in 0..MaxRequests
    /\ IndInv /\ Fault => faults' \in 0..MaxFaults
  BY BoundAssumption DEF IndInv, Typed, TypeOK, Request, Fault

LEMMA BeginUpdateStep ==
    ASSUME IndInv, NEW s \in Sessions, NEW m \in Markets, NEW new, BeginUpdate(s, m, new)
    PROVE  IndInv'
<1> DEFINE x == [at |-> "update", op |-> "update", market |-> m, old |-> Status(m), new |-> new]
<1>1. Become(s, x) /\ Exists(m) /\ IsValidTransition(Status(m), new)
  BY DEF BeginUpdate
<1>2. Status(m) \in Statuses /\ new \in Statuses
  BY <1>1, TransitionTypes
<1>3. x \in Requested /\ ActorOK(x) /\ x.op = "update"
  BY <1>1, <1>2 DEF Requested, ActorOK
<1> HIDE DEF x
<1> QED
  BY <1>1, <1>3, CountersOK, SessionStep DEF BeginUpdate, IndInv, Typed, TypeOK

\* A read is no request for a change.
LEMMA ReadsAreReads == \A x \in {Idle} \cup Reads : x \notin Requested
  BY DEF Idle, Reads, Requested

LEMMA BeginGetStep ==
    ASSUME IndInv, NEW s \in Sessions, NEW m \in Markets, BeginGet(s, m)
    PROVE  IndInv'
<1> DEFINE x == [at |-> "get", market |-> m]
<1>1. Become(s, x) /\ x \in Reads /\ ActorOK(x)
  BY DEF BeginGet, Reads, ActorOK
<1> HIDE DEF x
<1> QED
  BY <1>1, ReadsAreReads, CountersOK, SessionStep DEF BeginGet, IndInv, Typed, TypeOK

LEMMA CachedMarketStep ==
    ASSUME IndInv, NEW s \in Sessions, CachedMarket(s) PROVE IndInv'
<1> DEFINE m == actor[s].market
           x == [at |-> "read", market |-> m]
<1>1. m \in Markets /\ Exists(m)
  BY ActorShape DEF IndInv, CachedMarket, ActorsOK, ActorOK, Actors
<1>2. x \in Reads /\ ActorOK(x)
  BY <1>1 DEF Reads, ActorOK
<1>3. (Become(s, x) \/ Become(s, Idle)) /\ faults' \in 0..MaxFaults
  BY CountersOK DEF CachedMarket, Finish, IndInv, Typed, TypeOK
<1> HIDE DEF x, m
<1>4. CASE Become(s, x)
  BY <1>2, <1>3, <1>4, ReadsAreReads, SessionStep DEF CachedMarket, IndInv, Typed, TypeOK
<1>5. CASE Become(s, Idle)
  BY <1>3, <1>5, ReadsAreReads, IdleOK, SessionStep DEF CachedMarket, IndInv, Typed, TypeOK
<1> QED
  BY <1>3, <1>4, <1>5

LEMMA ReadMarketStep ==
    ASSUME IndInv, NEW s \in Sessions, ReadMarket(s) PROVE IndInv'
<1> DEFINE m == actor[s].market
           x == [at |-> "fill", market |-> m, version |-> Version(m)]
<1>1. m \in Markets /\ Exists(m)
  BY ActorShape DEF IndInv, ReadMarket, ActorsOK, ActorOK, Actors
<1>2. Become(s, x) /\ x \in Reads /\ ActorOK(x)
  BY <1>1, StatusOK DEF ReadMarket, IndInv, Reads, ActorOK
<1> HIDE DEF x, m
<1> QED
  BY <1>2, ReadsAreReads, SessionStep DEF ReadMarket, IndInv, Typed, TypeOK

LEMMA FillCacheStep ==
    ASSUME IndInv, NEW s \in Sessions, FillCache(s) PROVE IndInv'
<1>1. actor[s].market \in Markets /\ actor[s].version \in Nat
  BY ActorShape DEF IndInv, FillCache, Actors
<1>2. cache' \in [Markets -> Nat] /\ faults' \in 0..MaxFaults
  BY <1>1, CountersOK DEF FillCache, IndInv, Typed, TypeOK
<1> QED
  BY <1>2, ReadsAreReads, IdleOK, SessionStep DEF FillCache, Finish, IndInv, Typed, TypeOK

LEMMA ExpireStep ==
    ASSUME IndInv, NEW m \in Markets, Expire(m) PROVE IndInv'
<1> USE DEF Expire, rows, events, topic, watched
<1>1. Typed'
  BY DEF IndInv, Typed, TypeOK, Exists, NoEntry
<1>2. EventsOK' /\ ResultsOK'
  BY EventsKept, ResultsKept
<1> QED
  BY <1>1, <1>2, RowsKept DEF IndInv

LEMMA PublishStep ==
    ASSUME IndInv, NEW e \in announcing, Publish(e) PROVE IndInv'
<1> USE DEF Publish, rows, topic, watched
<1>1. Typed'
  BY DEF IndInv, Typed, TypeOK, Exists
<1>2. EventsOK' /\ ResultsOK'
  BY EventsKept, ResultsKept
<1> QED
  BY <1>1, <1>2, RowsKept DEF IndInv

LEMMA CloseStep ==
    ASSUME IndInv, NEW m \in Markets, Close(m) PROVE IndInv'
<1> USE DEF Close, events, topic, watched
<1>1. Typed'
  BY DEF IndInv, Typed, TypeOK, Exists
<1>2. EventsOK' /\ ResultsOK'
  BY EventsKept, ResultsKept
<1> QED
  BY <1>1, <1>2, RowsKept DEF IndInv

LEMMA ListResolvableStep == IndInv /\ ListResolvable => IndInv'
<1> SUFFICES ASSUME IndInv, ListResolvable PROVE IndInv'
  OBVIOUS
<1> USE DEF ListResolvable, rows, events, watched
<1>1. Resolvable \subseteq closed
  BY DEF Resolvable
<1>2. Typed'
  BY <1>1 DEF IndInv, Typed, TypeOK, Exists
<1>3. EventsOK' /\ ResultsOK'
  BY EventsKept, ResultsKept
<1> QED
  BY <1>2, <1>3, RowsKept DEF IndInv

LEMMA PublishResultStep ==
    ASSUME IndInv, NEW m \in Markets, NEW outcome \in Outcomes, PublishResult(m, outcome)
    PROVE  IndInv'
<1> USE DEF PublishResult, rows, events, watched
<1> DEFINE x == [market |-> m, outcome |-> outcome]
<1>1. x \in [market : Markets, outcome : Outcomes] /\ m \in closed
  BY DEF IndInv, Typed, TypeOK
<1>2. results \in Seq([market : Markets, outcome : Outcomes]) /\ results' = Append(results, x)
  BY DEF IndInv, Typed, TypeOK
<1> HIDE DEF x
<1>3. /\ results' \in Seq([market : Markets, outcome : Outcomes])
      /\ Len(results') = Len(results) + 1 /\ Len(results) \in Nat
      /\ \A n \in 1..Len(results) : results'[n] = results[n]
      /\ results'[Len(results) + 1] = x
  BY <1>1, <1>2
<1>4. \A n \in 1..Len(results') : results'[n].market \in closed
  BY <1>1, <1>3 DEF IndInv, Typed, x
<1>5. offset \in 0..Len(results')
  BY <1>3 DEF IndInv, Typed, TypeOK
<1>6. TypeOK'
  BY <1>3, <1>5 DEF IndInv, Typed, TypeOK
<1>7. Typed'
  BY <1>4, <1>6 DEF IndInv, Typed, Exists
<1>8. \A n \in ready : results'[n] = results[n]
  BY <1>3, ReadyResults DEF IndInv
<1>9. EventsOK' /\ ResultsOK'
  BY <1>8, EventsKept, ResultsKept
<1> QED
  BY <1>7, <1>9, RowsKept DEF IndInv

LEMMA CrashStep == ASSUME IndInv, Crash PROVE IndInv'
<1> USE DEF Crash, rows, topic
<1>1. faults' \in 0..MaxFaults
  BY CountersOK
<1>2. \A a \in Actors : actor'[a] = Idle
  OBVIOUS
<1>3. "consumer" \in Actors
  BY DEF Actors
<1>4. lost' \subseteq 1..offset
  BY DEF IndInv, Typed, TypeOK
<1>5. Typed'
  BY <1>1, <1>2, <1>3, <1>4 DEF IndInv, Typed, TypeOK, Exists
<1>6. Walked'
  BY DEF IndInv, Walked, Version
<1>7. ActorsOK'
  BY <1>2, <1>3 DEF ActorsOK, ActorOK, Idle
<1>8. EventsOK'
  BY EventsKept
<1>9. ResultsOK'
  <2>1. actor["consumer"] # Idle => offset \in lost'
    OBVIOUS
  <2>2. actor["consumer"] = Idle => actor["consumer"].at # "update"
    BY DEF Idle
  <2> QED
    BY <2>1, <2>2, ResultsKept
<1> QED
  BY <1>5, <1>6, <1>7, <1>8, <1>9 DEF IndInv

\* A result that is read while its market is pending is about to be applied.
LEMMA ReadMessageStep == ASSUME IndInv, ReadMessage PROVE IndInv'
<1> USE DEF ReadMessage, rows, events
<1> DEFINE m == results[offset + 1].market
           out == results[offset + 1].outcome
           x == [at |-> "update", op |-> "event", market |-> m, old |-> Status(m),
                 new |-> Wanted(out)]
<1>1. offset + 1 \in 1..Len(results) /\ offset' = offset + 1
  BY DEF IndInv, Typed, TypeOK
<1>2. m \in Markets /\ out \in Outcomes /\ Exists(m)
  BY <1>1, ResultMarkets DEF IndInv
<1>3. Status(m) \in Statuses
  BY <1>2, StatusOK DEF IndInv
<1>4. "consumer" \in Actors
  BY DEF Actors
<1>5. ready \subseteq 1..offset' /\ lost \subseteq 1..offset' /\ offset' \in 0..Len(results)
       /\ offset' # 0
  BY <1>1 DEF IndInv, Typed, TypeOK
<1>6. UNCHANGED <<history, closed, cache, announcing, published, listed, results, preempted,
                   lost, requests>>
  OBVIOUS
<1>7. ASSUME UNCHANGED <<ready, actor>>, faults' \in 0..MaxFaults PROVE Typed'
  <2> HIDE DEF ReadMessage, m, out
  <2> QED
    BY <1>5, <1>6, <1>7 DEF IndInv, Typed, TypeOK, Exists
<1>8. CASE UNCHANGED <<ready, actor>> /\ Fault
  <2>1. faults' \in 0..MaxFaults
    BY <1>8, CountersOK
  <2>2. Typed'
    BY <1>7, <1>8, <2>1
  <2>3. EventsOK' /\ Walked' /\ ActorsOK'
    BY <1>8, EventsKept, RowsKept
  <2>4. ResultsOK'
    BY <1>8, ResultsKept DEF Idle
  <2> QED
    BY <2>2, <2>3, <2>4 DEF IndInv
<1>9. CASE UNCHANGED <<ready, actor, faults>> /\ Status(m) # "pending_resolution"
  <2>1. Typed'
    <3>1. faults' \in 0..MaxFaults
      BY <1>9 DEF IndInv, Typed, TypeOK
    <3> QED
      BY <1>7, <1>9, <3>1
  <2>2. EventsOK' /\ Walked' /\ ActorsOK'
    BY <1>9, EventsKept, RowsKept
  <2>3. ResultsOK'
    BY <1>9, ResultsKept DEF Idle
  <2> QED
    BY <2>1, <2>2, <2>3 DEF IndInv
<1>10. CASE /\ ready' = IF Status(m) = "pending_resolution" THEN ready \cup {offset'} ELSE ready
           /\ IsValidTransition(Status(m), Wanted(out)) /\ Become("consumer", x)
           /\ UNCHANGED faults
  <2>1. x \in Requested /\ ActorOK(x) /\ x.op = "event" /\ x.market = m
        /\ x.at = "update" /\ x.old = Status(m) /\ x.new = Wanted(out)
    BY <1>2, <1>3, <1>10, TransitionTypes DEF Requested, ActorOK
  <2>2. ready' \subseteq 1..offset' /\ lost \subseteq 1..offset' /\ offset' \in 0..Len(results)
    BY <1>1, <1>10 DEF IndInv, Typed, TypeOK
  <2> HIDE DEF x
  <2>3. /\ actor' \in [Actors -> {Idle} \cup Requested \cup Reads]
        /\ actor'["consumer"] = x
    BY <1>4, <1>10, <2>1 DEF Become, IndInv, Typed, TypeOK
  <2>4. offset' # 0
    BY <1>1 DEF IndInv, Typed, TypeOK
  <2>5. Typed'
    BY <1>10, <2>1, <2>2, <2>3, <2>4 DEF IndInv, Typed, TypeOK, Exists
  <2>6. Walked' /\ ActorsOK'
    BY <1>4, <1>10, <2>1, <2>5, ActorStep DEF OpOf
  <2>7. EventsOK'
    BY <1>10, EventsKept
  <2>8. ResultsOK'
    <3> SUFFICES ASSUME NEW n \in ready', n \notin lost
                 PROVE  Taken(n)' \/ Applying(n)'
      BY DEF ResultsOK
    <3>1. CASE n \in ready
      <4>1. Taken(n)
        BY <3>1 DEF IndInv, ResultsOK, Applying, Idle
      <4> QED
        BY <4>1 DEF Taken, Wanted
    <3>2. CASE n = offset' /\ Status(m) = "pending_resolution"
      <4> DEFINE r == results[n]
      <4>1. r.market = m /\ r.outcome = out /\ results' = results /\ history' = history
        BY <1>1, <3>2 DEF rows, topic
      <4>2. x.market = r.market /\ x.new = Wanted(r.outcome) /\ x.old = Status(r.market)
        BY <2>1, <4>1
      <4>3. actor'["consumer"].at = "update" /\ actor'["consumer"].market = r.market
            /\ actor'["consumer"].new = Wanted(r.outcome) /\ actor'["consumer"].old = Status(r.market)
        BY <2>1, <2>3, <4>2
      <4> QED
        BY <2>1, <2>3, <3>2, <4>1, <4>3 DEF Applying, Wanted, Status
    <3> QED
      BY <1>10, <3>1, <3>2
  <2> QED
    BY <2>5, <2>6, <2>7, <2>8 DEF IndInv
<1>11. Status(m) = "pending_resolution" =>
          Status(m) \notin Settled(out) /\ IsValidTransition(Status(m), Wanted(out))
  BY <1>2, Transitions DEF Settled, Wanted, Outcomes
<1> QED
  BY <1>8, <1>9, <1>10, <1>11

-----------------------------------------------------------------------------
(* Steps that write a row *)

Grows == \A m \in Markets : /\ Len(history[m]) <= Len(history'[m])
                            /\ \A n \in 1..Len(history[m]) : history'[m][n] = history[m][n]

\* What was said of a row's past stays true when it grows.
LEMMA GrownActor ==
    ASSUME IndInv, Typed', Grows, NEW a \in Actors, actor'[a] = actor[a]
    PROVE  ActorOK(actor[a])'
<1> DEFINE m == actor[a].market
<1>1. CASE actor[a].at = "idle"
  BY <1>1 DEF ActorOK
<1>2. CASE actor[a].at # "idle"
  <2>1. m \in Markets
    BY <1>2, ActorShape DEF IndInv
  <2>2. Len(history[m]) \in Nat /\ Len(history'[m]) \in Nat
    BY <2>1 DEF IndInv, Typed
  <2>3. Len(history[m]) <= Len(history'[m])
        /\ \A n \in 1..Len(history[m]) : history'[m][n] = history[m][n]
    BY <2>1 DEF Grows
  <2>4. history[m] # <<>> => history'[m] # <<>>
    BY <2>1, <2>2, <2>3 DEF IndInv, Typed
  <2>5. ActorOK(actor[a])
    BY DEF IndInv, ActorsOK
  <2>6. actor[a].at = "fill" => actor[a].version \in Nat
    BY ActorShape DEF IndInv
  <2> QED
    BY <2>2, <2>3, <2>4, <2>5, <2>6 DEF ActorOK, Exists, Version
<1> QED
  BY <1>1, <1>2

LEMMA GrownEvent ==
    ASSUME IndInv, Typed', Grows, NEW e \in announcing \cup published
    PROVE  /\ e.version <= Len(history'[e.market])
           /\ history'[e.market][e.version] \in {"active", "voided"}
<1>1. e.market \in Markets /\ e.version \in Nat \ {0}
  BY DEF IndInv, Typed, TypeOK, Events
<1>2. Len(history[e.market]) \in Nat /\ Len(history'[e.market]) \in Nat
  BY <1>1 DEF IndInv, Typed
<1> QED
  BY <1>1, <1>2 DEF IndInv, EventsOK, EventOK, Version, Grows

LEMMA CreateMarketStep ==
    ASSUME IndInv, NEW m \in Markets, NEW creator \in {"admin", "user"}, CreateMarket(m, creator)
    PROVE  IndInv'
<1> USE DEF CreateMarket, topic, watched
<1>1. PICK status \in {"active", "draft"} :
          /\ ~Exists(m) /\ history' = [history EXCEPT ![m] = <<status>>]
          /\ \/ UNCHANGED announcing
             \/ status = "active" /\ announcing' = announcing \cup {Event(m, 1)}
  BY DEF InsertMarket
<1>2. history'[m] = <<status>> /\ \A k \in Markets : k # m => history'[k] = history[k]
  BY <1>1 DEF IndInv, Typed
<1>3. <<status>> \in Seq(Statuses) /\ Len(<<status>>) = 1 /\ <<status>>[1] = status
  BY DEF Statuses
<1>4. m \notin closed
  BY <1>1 DEF IndInv, Typed
<1>5. history' \in [Markets -> Seq(Statuses)]
  BY <1>1, <1>3 DEF IndInv, Typed
<1>6. announcing' \subseteq Events
  BY <1>1 DEF Event, Events, IndInv, Typed, TypeOK
<1>7. \A k \in closed : k \in Markets /\ history'[k] = history[k]
  BY <1>2, <1>4 DEF IndInv, Typed, TypeOK
<1>8. requests' \in 0..MaxRequests
  BY CountersOK
<1>9. Typed'
  BY <1>5, <1>6, <1>7, <1>8 DEF IndInv, Typed, TypeOK, Exists
<1>10. Grows
  BY <1>1, <1>2 DEF Grows, Exists, IndInv, Typed
<1>11. Walked'
  BY <1>2, <1>3 DEF IndInv, Walked, Version
<1>12. ActorsOK'
  BY <1>9, <1>10, GrownActor DEF IndInv, ActorsOK
<1>13. EventsOK'
  <2>1. EventOK(Event(m, 1))' \/ UNCHANGED announcing
    BY <1>1, <1>2, <1>3 DEF EventOK, Event, Version
  <2> QED
    BY <1>1, <1>9, <1>10, <2>1, GrownEvent DEF EventsOK, EventOK, Version
<1>14. ResultsOK'
  BY <1>7, ResultsKept
<1> QED
  BY <1>9, <1>11, <1>12, <1>13, <1>14 DEF IndInv

\* Nothing but the cache, the events and the bounds moves beside the row and
\* the actor a; what the row's taker leaves behind is in the invariant.
TakesRow(a, x) ==
    /\ actor[a].at = "update" /\ Status(actor[a].market) = actor[a].old
    /\ TakeStatus(actor[a]) /\ Become(a, x)
    /\ UNCHANGED <<closed, cache, events, topic, ready, requests>>

\* An update appends the status it wants to the one it has compared, along a
\* valid transition.
LEMMA TakenRow ==
    ASSUME IndInv, NEW a \in Actors, NEW x, TakesRow(a, x)
    PROVE  LET m == actor[a].market IN
           /\ m \in Markets /\ Version(m) \in Nat \ {0}
           /\ history' \in [Markets -> Seq(Statuses)] /\ Grows /\ Walked'
           /\ Len(history'[m]) = Version(m) + 1 /\ history'[m][Version(m) + 1] = actor[a].new
           /\ \A k \in Markets : Exists(k) => history'[k] # <<>>
           /\ \A k \in Markets : k # m => history'[k] = history[k]
           /\ preempted' \subseteq Markets /\ preempted \subseteq preempted'
<1> USE DEF TakesRow
<1> DEFINE r == actor[a]
           m == r.market
<1>1. /\ r \in [at : {"update"}, op : {"update", "event"}, market : Markets, old : Statuses,
                 new : Statuses]
      /\ m \in Markets /\ r.new \in Statuses
  BY ActorShape DEF IndInv
<1>2. Exists(m) /\ IsValidTransition(r.old, r.new)
  BY DEF IndInv, ActorsOK, ActorOK
<1>3. history' = [history EXCEPT ![m] = Append(@, r.new)]
  BY DEF TakeStatus
<1>4. Version(m) \in Nat \ {0} /\ history[m] \in Seq(Statuses)
  BY <1>1, <1>2, StatusOK DEF IndInv, Typed
<1>5. history[m][Version(m)] = r.old
  BY <1>1, <1>2, StatusOK DEF IndInv
<1>6. preempted' \subseteq Markets /\ preempted \subseteq preempted'
  BY <1>1 DEF TakeStatus, IndInv, Typed, TypeOK
<1> HIDE DEF r, m
<1>7. history'[m] = Append(history[m], r.new)
      /\ \A k \in Markets : k # m => history'[k] = history[k]
  BY <1>1, <1>3 DEF IndInv, Typed
<1>8. /\ history'[m] \in Seq(Statuses) /\ history'[m] # <<>>
      /\ Len(history'[m]) = Version(m) + 1 /\ history'[m][Version(m) + 1] = r.new
      /\ \A n \in 1..Version(m) : history'[m][n] = history[m][n]
  BY <1>1, <1>4, <1>7 DEF Version
<1>9. history' \in [Markets -> Seq(Statuses)]
  BY <1>3, <1>7, <1>8 DEF IndInv, Typed
<1>10. \A k \in Markets : Exists(k) => history'[k] # <<>>
  BY <1>7, <1>8 DEF Exists
<1>11. Grows
  <2> SUFFICES ASSUME NEW k \in Markets
               PROVE  /\ Len(history[k]) <= Len(history'[k])
                      /\ \A n \in 1..Len(history[k]) : history'[k][n] = history[k][n]
    BY DEF Grows
  <2>1. Len(history[k]) \in Nat
    BY DEF IndInv, Typed
  <2> QED
    BY <1>4, <1>7, <1>8, <2>1 DEF Version
<1>12. Walked'
  <2> SUFFICES ASSUME NEW k \in Markets, NEW n \in 1..(Len(history'[k]) - 1)
               PROVE  IsValidTransition(history'[k][n], history'[k][n + 1])
    BY DEF Walked, Version
  <2>1. CASE k # m
    BY <1>7, <2>1 DEF IndInv, Walked, Version
  <2>2. CASE k = m /\ n = Version(m)
    BY <1>2, <1>4, <1>5, <1>8, <2>2 DEF m, r
  <2>3. CASE k = m /\ n # Version(m)
    <3>1. n \in 1..(Version(m) - 1) /\ n \in 1..Version(m) /\ n + 1 \in 1..Version(m)
      BY <1>4, <1>8, <2>3
    <3>2. IsValidTransition(history[m][n], history[m][n + 1])
      BY <1>1, <3>1 DEF IndInv, Walked
    <3> QED
      BY <1>8, <2>3, <3>1, <3>2
  <2> QED
    BY <2>1, <2>2, <2>3
<1> QED
  BY <1>1, <1>4, <1>6, <1>7, <1>8, <1>9, <1>10, <1>11, <1>12 DEF m, r

\* The result that took the row has taken its market; so has a PATCH that ended
\* the market before the result could.
LEMMA TakenResults ==
    ASSUME IndInv, NEW a \in Actors, NEW x, TakesRow(a, x), UNCHANGED <<lost>> \/ a = "consumer"
    PROVE  \A n \in ready \ lost : Taken(n)' \/ (a # "consumer" /\ Applying(n)')
<1> USE DEF TakesRow
<1> DEFINE m == actor[a].market
           new == actor[a].new
<1> SUFFICES ASSUME NEW n \in ready \ lost
             PROVE  Taken(n)' \/ (a # "consumer" /\ Applying(n)')
  OBVIOUS
<1>1. n \in 1..Len(results) /\ results[n].market \in Markets
      /\ results[n].outcome \in Outcomes
  BY ReadyResults, ResultMarkets DEF IndInv
<1>2. UNCHANGED <<results, offset>>
  BY DEF topic
<1>3. /\ m \in Markets /\ Version(m) \in Nat \ {0} /\ Grows
      /\ Len(history'[m]) = Version(m) + 1 /\ history'[m][Version(m) + 1] = new
      /\ history' \in [Markets -> Seq(Statuses)]
      /\ \A k \in Markets : k # m => history'[k] = history[k]
      /\ preempted \subseteq preempted'
  BY TakenRow
<1>4. Taken(n) => Taken(n)'
  <2>1. \A k \in Markets : ToSet(history[k]) \subseteq ToSet(history'[k])
    <3> SUFFICES ASSUME NEW k \in Markets, NEW i \in 1..Len(history[k])
                 PROVE  history[k][i] \in ToSet(history'[k])
      BY DEF ToSet, IndInv, Typed
    <3>1. Len(history[k]) \in Nat /\ Len(history'[k]) \in Nat /\ Len(history[k]) <= Len(history'[k])
          /\ history'[k][i] = history[k][i]
      BY <1>3 DEF Grows, IndInv, Typed
    <3>2. i \in DOMAIN history'[k]
      BY <1>3, <3>1
    <3> QED
      BY <3>1, <3>2 DEF ToSet
  <2> QED
    BY <1>1, <1>2, <1>3, <2>1, TakenStays DEF IndInv
<1>5. new \in ToSet(history'[m])
  <2>1. Version(m) + 1 \in DOMAIN history'[m]
    BY <1>3
  <2> QED
    BY <1>3, <2>1 DEF ToSet
<1>6. Taken(n) \/ Applying(n)
  BY DEF IndInv, ResultsOK
<1>7. CASE Applying(n) /\ a = "consumer"
  BY <1>2, <1>5, <1>7 DEF Applying, Taken, Wanted
<1>8. CASE Applying(n) /\ a # "consumer" /\ results[n].market = m
  <2>1. actor[a].old = "pending_resolution" /\ actor[a].op = "update"
    BY <1>8 DEF Applying, IndInv, ActorsOK, OpOf
  <2>2. new \in {"resolved", "voided"}
    BY <2>1, Transitions DEF IndInv, ActorsOK, ActorOK
  <2>3. m \in preempted'
    BY <2>1, <2>2 DEF TakeStatus
  <2> QED
    BY <1>2, <1>8, <2>3 DEF Taken
<1>9. CASE Applying(n) /\ a # "consumer" /\ results[n].market # m
  <2>1. actor'["consumer"] = actor["consumer"]
    BY <1>9 DEF Become, IndInv, Typed, TypeOK
  <2>2. history'[results[n].market] = history[results[n].market]
    BY <1>1, <1>3, <1>9
  <2> QED
    BY <1>2, <1>9, <2>1, <2>2 DEF Applying, Status, Wanted
<1> QED
  BY <1>4, <1>6, <1>7, <1>8, <1>9

\* The row is taken and a goes on to x.
LEMMA TakesRowStep ==
    ASSUME IndInv, NEW a \in Actors, NEW x \in {Idle} \cup Requested, TakesRow(a, x),
           x = Idle \/ x = Invalidating(actor[a]),
           lost' = lost \/ (a = "consumer" /\ lost' = lost \cup {offset}),
           faults' \in 0..MaxFaults
    PROVE  IndInv'
<1> USE DEF TakesRow
<1> DEFINE m == actor[a].market
<1>1. UNCHANGED <<announcing, published, listed, results, offset>>
  BY DEF events, topic
<1>2. /\ m \in Markets /\ Version(m) \in Nat \ {0}
      /\ history' \in [Markets -> Seq(Statuses)] /\ Grows /\ Walked'
      /\ Len(history'[m]) = Version(m) + 1 /\ history'[m][Version(m) + 1] = actor[a].new
      /\ \A k \in Markets : Exists(k) => history'[k] # <<>>
      /\ preempted' \subseteq Markets
  BY TakenRow
<1>3. /\ actor' \in [Actors -> {Idle} \cup Requested \cup Reads]
      /\ actor'[a] = x /\ \A b \in Actors : b # a => actor'[b] = actor[b]
  BY DEF Become, IndInv, Typed, TypeOK
<1>4. "consumer" \in Actors
  BY DEF Actors
<1>5. a = "consumer" => offset # 0
  BY DEF IndInv, Typed, Idle
<1>6. lost' \subseteq 1..offset
  <2>1. offset \in Nat /\ lost \subseteq 1..offset
    BY DEF IndInv, Typed, TypeOK
  <2>2. CASE lost' = lost
    BY <2>1, <2>2
  <2>3. CASE a = "consumer" /\ lost' = lost \cup {offset}
    <3>1. offset \in 1..offset
      BY <1>5, <2>1, <2>3
    <3> QED
      BY <2>1, <2>3, <3>1
  <2> QED
    BY <2>2, <2>3
<1>7. TypeOK'
  BY <1>1, <1>2, <1>3, <1>4, <1>6 DEF IndInv, Typed, TypeOK
<1>8. Typed'
  BY <1>1, <1>2, <1>3, <1>4, <1>5, <1>7 DEF IndInv, Typed, TypeOK, Exists
<1>9. actor[a].op = OpOf(a)
  BY DEF IndInv, ActorsOK
<1>10. ActorsOK'
  <2> SUFFICES ASSUME NEW b \in Actors
               PROVE  /\ ActorOK(actor[b])'
                      /\ actor'[b].at \in {"update", "invalidate", "announce"} =>
                            actor'[b].op = OpOf(b)
    BY DEF ActorsOK, OpOf
  <2>1. CASE b # a
    BY <1>2, <1>3, <1>8, <2>1, GrownActor DEF IndInv, ActorsOK
  <2>2. CASE b = a /\ x = Idle
    BY <1>3, <2>2 DEF ActorOK, Idle
  <2>3. CASE b = a /\ x = Invalidating(actor[a])
    <3>1. x.at = "invalidate" /\ x.op = actor[a].op /\ x.market = m /\ x.new = actor[a].new
          /\ x.version = Version(m) + 1
      BY <2>3 DEF Invalidating
    <3> HIDE DEF m
    <3> QED
      BY <1>2, <1>3, <1>9, <2>3, <3>1 DEF ActorOK, Version
  <2> QED
    BY <2>1, <2>2, <2>3
<1>11. EventsOK'
  BY <1>1, <1>2, <1>8, GrownEvent DEF EventsOK, EventOK, Version
<1>12. ResultsOK'
  <2>1. \A n \in ready \ lost : Taken(n)' \/ (a # "consumer" /\ Applying(n)')
    BY TakenResults
  <2> QED
    BY <2>1 DEF ResultsOK
<1> QED
  BY <1>2, <1>8, <1>10, <1>11, <1>12 DEF IndInv

\* The row stays, and a is done: what the consumer was at is lost, or was taken
\* by a PATCH.
LEMMA EndsStep ==
    ASSUME IndInv, NEW a \in Actors, Finish(a), actor[a] # Idle,
           UNCHANGED <<rows, cache, events, topic, ready, preempted, requests>>,
           \/ lost' = IF a = "consumer" THEN lost \cup {offset} ELSE lost
           \/ lost' = lost /\ actor[a].at = "update" /\ Status(actor[a].market) # actor[a].old,
           faults' \in 0..MaxFaults
    PROVE  IndInv'
<1> USE DEF rows, events, topic
<1>1. actor'[a] = Idle /\ \A b \in Actors : b # a => actor'[b] = actor[b]
  BY DEF Finish, Become, IndInv, Typed, TypeOK
<1>2. "consumer" \in Actors
  BY DEF Actors
<1>3. lost' \subseteq 1..offset
  <2>1. offset \in Nat /\ lost \subseteq 1..offset
    BY DEF IndInv, Typed, TypeOK
  <2>2. CASE lost' = lost
    BY <2>1, <2>2
  <2>3. CASE a = "consumer" /\ lost' = lost \cup {offset}
    <3>1. offset # 0
      BY <2>3 DEF IndInv, Typed
    <3>2. offset \in 1..offset
      BY <2>1, <3>1
    <3> QED
      BY <2>1, <2>3, <3>2
  <2> QED
    BY <2>2, <2>3
<1>4. actor' \in [Actors -> {Idle} \cup Requested \cup Reads]
  BY IdleOK DEF Finish, Become, IndInv, Typed, TypeOK
<1>5. Typed'
  BY <1>1, <1>2, <1>3, <1>4 DEF IndInv, Typed, TypeOK, Exists
<1>6. Walked' /\ ActorsOK'
  BY <1>5, IdleOK, ActorStep DEF Finish, Idle
<1>7. EventsOK'
  BY EventsKept
<1>8. ResultsOK'
  <2>1. CASE lost' = IF a = "consumer" THEN lost \cup {offset} ELSE lost
    BY <1>1, <1>2, <2>1, ResultsKept
  <2>2. CASE lost' = lost /\ actor[a].at = "update" /\ Status(actor[a].market) # actor[a].old
    <3> SUFFICES ASSUME NEW n \in ready \ lost PROVE Taken(n)' \/ Applying(n)'
      BY <2>2 DEF ResultsOK
    <3>1. n \in 1..Len(results)
      BY ReadyResults DEF IndInv
    <3>2. Taken(n) => Taken(n)'
      BY <3>1, TakenStays DEF IndInv
    <3>3. a = "consumer" => ~Applying(n)
      BY <2>2 DEF Applying
    <3>4. a # "consumer" /\ Applying(n) => Applying(n)'
      BY <1>1, <1>2 DEF Applying, Status, Wanted
    <3> QED
      BY <3>2, <3>3, <3>4 DEF IndInv, ResultsOK
  <2> QED
    BY <2>1, <2>2
<1> QED
  BY <1>5, <1>6, <1>7, <1>8 DEF IndInv

LEMMA UpdateStatusStep ==
    ASSUME IndInv, NEW a \in Actors, UpdateStatus(a) PROVE IndInv'
<1> USE DEF UpdateStatus
<1>1. faults' \in 0..MaxFaults /\ actor[a] # Idle
  BY DEF IndInv, Typed, TypeOK, Idle
<1>2. CASE Status(actor[a].market) # actor[a].old /\ Finish(a) /\ UNCHANGED <<history, preempted>>
  BY <1>1, <1>2, EndsStep DEF rows
<1>3. CASE /\ Status(actor[a].market) = actor[a].old /\ TakeStatus(actor[a])
           /\ Become(a, Invalidating(actor[a]))
  <2>1. actor[a].market \in Markets /\ actor[a].new \in Statuses
        /\ actor[a].op \in {"update", "event"}
    BY ActorShape DEF IndInv
  <2>2. Version(actor[a].market) \in Nat
    BY <2>1 DEF Version, IndInv, Typed
  <2>3. Invalidating(actor[a]) \in Requested
    BY <2>1, <2>2 DEF Invalidating, Requested
  <2> QED
    BY <1>1, <1>3, <2>3, TakesRowStep DEF TakesRow
<1> QED
  BY <1>2, <1>3

LEMMA StatementFailsStep ==
    ASSUME IndInv, NEW a \in Actors, StatementFails(a) PROVE IndInv'
<1> USE DEF StatementFails
<1>1. faults' \in 0..MaxFaults /\ actor[a] # Idle
  BY CountersOK DEF Idle
<1>2. CASE UNCHANGED <<history, preempted>>
  BY <1>1, <1>2, EndsStep DEF rows
<1>3. CASE /\ actor[a].at = "update" /\ Status(actor[a].market) = actor[a].old
           /\ TakeStatus(actor[a])
  BY <1>1, <1>3, TakesRowStep DEF TakesRow, Finish
<1> QED
  BY <1>2, <1>3

\* An actor whose change is made goes on to x, and may announce the change.
LEMMA AnnouncingStep ==
    ASSUME IndInv, NEW a \in Actors, NEW x, Become(a, x),
           actor[a].at \in {"invalidate", "announce"},
           \/ x = AfterChange(actor[a])
           \/ actor[a].new = "active" /\ x = [actor[a] EXCEPT !.at = "announce"],
           \/ UNCHANGED announcing
           \/ /\ actor[a].new \in {"active", "voided"}
              /\ announcing' = announcing \cup {Event(actor[a].market, actor[a].version)},
           cache' \in [Markets -> Nat], faults' \in 0..MaxFaults,
           UNCHANGED <<rows, published, topic, watched, requests>>
    PROVE  IndInv'
<1> USE DEF rows, topic, watched
<1> DEFINE r == actor[a]
           m == r.market
<1>1. r \in [at : {"invalidate", "announce"}, op : {"update", "event"}, market : Markets,
             new : Statuses, version : Nat]
  BY ActorShape DEF IndInv
<1>2. m \in Markets /\ r.version \in 1..Version(m) /\ history[m][r.version] = r.new
      /\ r.op = OpOf(a)
  BY <1>1 DEF IndInv, ActorsOK, ActorOK
<1>3. Version(m) \in Nat
  BY <1>2 DEF IndInv, Typed, Version
<1>4. Exists(m) /\ r.version \in Nat \ {0} /\ r.version <= Version(m)
  BY <1>2, <1>3 DEF IndInv, Typed, Exists, Version
<1>5. "consumer" \in Actors /\ a \in Actors
  BY DEF Actors
<1>6. /\ x \in {Idle} \cup Requested \cup Reads /\ ActorOK(x)
      /\ x.at \in {"update", "invalidate", "announce"} => x.op = OpOf(a)
      /\ a = "consumer" => x \in {Idle} \cup Requested
  <2>1. CASE x = AfterChange(r)
    BY <1>2, <1>4, <2>1 DEF AfterChange, Reads, ActorOK, Idle, OpOf
  <2>2. CASE r.new = "active" /\ x = [r EXCEPT !.at = "announce"]
    <3>1. /\ x \in [at : {"invalidate", "announce"}, op : {"update", "event"},
                    market : Markets, new : Statuses, version : Nat]
          /\ x.at = "announce" /\ x.op = r.op /\ x.market = m /\ x.new = r.new
          /\ x.version = r.version
      BY <1>1, <2>2
    <3> HIDE DEF r, m
    <3> QED
      BY <1>2, <2>2, <3>1 DEF Requested, ActorOK
  <2> QED
    BY <2>1, <2>2
<1>7. \/ UNCHANGED announcing
      \/ /\ announcing' = announcing \cup {Event(m, r.version)}
         /\ Event(m, r.version) \in Events /\ EventOK(Event(m, r.version))
  BY <1>2, <1>4 DEF Event, Events, EventOK
<1>8. a = "consumer" => actor["consumer"].at # "update"
  OBVIOUS
<1> HIDE DEF r, m
<1>9. /\ actor' \in [Actors -> {Idle} \cup Requested \cup Reads]
      /\ actor'[a] = x /\ \A b \in Actors : b # a => actor'[b] = actor[b]
  BY <1>6 DEF Become, IndInv, Typed, TypeOK
<1>10. TypeOK'
  BY <1>5, <1>6, <1>7, <1>9 DEF IndInv, Typed, TypeOK
<1>11. a = "consumer" => offset # 0
  BY DEF IndInv, Typed, Idle
<1>12. Typed'
  BY <1>5, <1>9, <1>10, <1>11 DEF IndInv, Typed, Exists
<1>13. Walked' /\ ActorsOK'
  BY <1>6, <1>12, ActorStep
<1>14. EventsOK'
  BY <1>7 DEF IndInv, EventsOK, EventOK, Version
<1>15. ResultsOK'
  BY <1>5, <1>8, <1>9, ResultsKept
<1> QED
  BY <1>12, <1>13, <1>14, <1>15 DEF IndInv

LEMMA InvalidateStep ==
    ASSUME IndInv, NEW a \in Actors, Invalidate(a) PROVE IndInv'
<1> USE DEF Invalidate
<1> DEFINE x == IF actor[a].new = "active" THEN [actor[a] EXCEPT !.at = "announce"]
                ELSE AfterChange(actor[a])
<1>1. faults' \in 0..MaxFaults /\ cache' \in [Markets -> Nat]
  BY CountersOK DEF IndInv, Typed, TypeOK, NoEntry
<1>2. Become(a, x) /\ (\/ x = AfterChange(actor[a])
                       \/ actor[a].new = "active" /\ x = [actor[a] EXCEPT !.at = "announce"])
  OBVIOUS
<1>3. \/ UNCHANGED announcing
      \/ /\ actor[a].new \in {"active", "voided"}
         /\ announcing' = announcing \cup {Event(actor[a].market, actor[a].version)}
  BY DEF Invalidate
<1> HIDE DEF x
<1> QED
  BY <1>1, <1>2, <1>3, AnnouncingStep

LEMMA AnnounceActiveStep ==
    ASSUME IndInv, NEW a \in Actors, AnnounceActive(a) PROVE IndInv'
<1> USE DEF AnnounceActive
<1>1. faults' \in 0..MaxFaults /\ cache' \in [Markets -> Nat]
  BY CountersOK DEF IndInv, Typed, TypeOK
<1>2. Become(a, AfterChange(actor[a]))
  OBVIOUS
<1>3. actor[a].new = "active"
  BY DEF IndInv, ActorsOK, ActorOK
<1> QED
  BY <1>1, <1>2, <1>3, AnnouncingStep

LEMMA StutterStep == ASSUME IndInv, UNCHANGED vars PROVE IndInv'
<1> USE DEF vars, rows, events, topic, watched
<1>1. Typed'
  BY DEF IndInv, Typed, TypeOK, Exists
<1>2. EventsOK' /\ ResultsOK'
  BY EventsKept, ResultsKept
<1> QED
  BY <1>1, <1>2, RowsKept DEF IndInv

LEMMA NextOK == IndInv /\ [Next]_vars => IndInv'
<1> SUFFICES ASSUME IndInv, [Next]_vars PROVE IndInv'
  OBVIOUS
<1>1. CASE Create
  BY <1>1, CreateMarketStep DEF Create
<1>2. CASE \E s \in Sessions : Update(s) \/ Get(s)
  BY <1>2, BeginUpdateStep, BeginGetStep, CachedMarketStep, ReadMarketStep, FillCacheStep
  DEF Update, Get
<1>3. CASE \E a \in Actors : \/ UpdateStatus(a) \/ Invalidate(a)
                            \/ AnnounceActive(a) \/ StatementFails(a)
  BY <1>3, UpdateStatusStep, InvalidateStep, AnnounceActiveStep, StatementFailsStep
<1>4. CASE ReadMessage \/ ListResolvable \/ Crash
  BY <1>4, ReadMessageStep, ListResolvableStep, CrashStep
<1>5. CASE \E e \in announcing : Publish(e)
  BY <1>5, PublishStep
<1>6. CASE \E m \in Markets : \/ Expire(m) \/ Close(m)
                              \/ \E outcome \in Outcomes : PublishResult(m, outcome)
  BY <1>6, ExpireStep, CloseStep, PublishResultStep
<1> QED
  BY <1>1, <1>2, <1>3, <1>4, <1>5, <1>6, StutterStep DEF Next

LEMMA IndInvHolds == Spec => []IndInv
  BY InitOK, NextOK, PTL DEF Spec

-----------------------------------------------------------------------------
(* The theorems *)

\* Rows hold known statuses only, and the consumer's state, the topic and the
\* cache keep their types.
THEOREM TypeCorrect == Spec => []TypeOK
  BY IndInvHolds, IndInvTypes, PTL

\* Whatever requests and events race, a row moves along the valid transitions
\* and is announced as it moved, at most once as voided.
THEOREM ChangesAnnounced == Spec => []ChangesAsAnnounced
  BY IndInvHolds, IndInvChanges, PTL

\* A result read while its market is pending takes it to resolved or voided, as
\* its outcome says, unless a fault hits it or a PATCH has ended the market.
THEOREM ResultsApplied == Spec => []PendingResultsApply
  BY IndInvHolds, IndInvResults, PTL
=============================================================================
