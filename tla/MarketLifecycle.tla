--------------------------- MODULE MarketLifecycle ---------------------------
(***************************************************************************)
(* market-service: the markets table and its lifecycle, the Redis cache of *)
(* single markets, the consumer of markets.resolved and the announcements  *)
(* on market.created and market.voided, which detached goroutines publish. *)
(* Requests are interleaved at every statement and Redis call.             *)
(***************************************************************************)
EXTENDS Integers, Sequences, FiniteSets, SequencesExt

CONSTANTS Markets, Sessions,
          MaxRequests, MaxResults, MaxFaults   \* bounds

ASSUME BoundAssumption == MaxRequests \in Nat /\ MaxResults \in Nat /\ MaxFaults \in Nat
ASSUME ActorAssumption == "consumer" \notin Sessions

Actors   == Sessions \cup {"consumer"}
Statuses == {"draft", "active", "suspended", "pending_resolution", "resolved", "voided",
             "archived"}
Outcomes == {"YES", "NO", "VOID"}

VARIABLES
    history,    \* of each market: the statuses its row went through, <<>> for no row
    closed,     \* markets whose closes_at has passed
    cache,      \* of each market: what Redis holds
    actor,      \* the request or message each actor is at
    announcing, published,   \* events of goroutines that run; events on the topics
    listed,     \* markets the resolution service has been told to resolve
    results,    \* messages on markets.resolved
    offset,     \* how many of them were read
    ready, lost,     \* history: results that found their market pending; that a fault hit
    preempted,       \* history: pending markets that a PATCH ended
    requests, faults \* counters of the bounds

rows    == <<history, closed>>
events  == <<announcing, published>>
topic   == <<listed, results, offset>>
watched == <<ready, lost, preempted>>
vars    == <<rows, cache, actor, events, topic, watched, requests, faults>>

-----------------------------------------------------------------------------
(* The domain *)

\* A status missing here has no successor.
ValidTransitions ==
    [draft              |-> {"active", "voided"},
     active             |-> {"suspended", "pending_resolution", "voided"},
     suspended          |-> {"active", "voided"},
     pending_resolution |-> {"resolved", "voided"},
     resolved           |-> {"archived"},
     voided             |-> {"archived"}]

\* Mutant: a market may be opened again while its resolution is pending.
IsReopenable(current, next) ==
    \/ current \in DOMAIN ValidTransitions /\ next \in ValidTransitions[current]
    \/ current = "pending_resolution" /\ next = "active"

IsValidTransition(current, next) ==
    current \in DOMAIN ValidTransitions /\ next \in ValidTransitions[current]

Exists(m)  == history[m] # <<>>
Status(m)  == Last(history[m])
Version(m) == Len(history[m])

Idle    == [at |-> "idle"]
NoEntry == 0    \* no version of a row

Init ==
    /\ history = [m \in Markets |-> <<>>] /\ closed = {}
    /\ cache = [m \in Markets |-> NoEntry]
    /\ actor = [a \in Actors |-> Idle]
    /\ announcing = {} /\ published = {}
    /\ listed = {} /\ results = <<>> /\ offset = 0
    /\ ready = {} /\ lost = {} /\ preempted = {}
    /\ requests = 0 /\ faults = 0

Become(a, r) == actor' = [actor EXCEPT ![a] = r]
Finish(a)    == Become(a, Idle)
Request      == requests < MaxRequests /\ requests' = requests + 1
Fault        == faults < MaxFaults /\ faults' = faults + 1

\* The market.created or market.voided event of the row's n-th status.
Event(m, n) == [market |-> m, version |-> n]

-----------------------------------------------------------------------------
(* Requests *)

InsertMarket(m, status) == ~Exists(m) /\ history' = [history EXCEPT ![m] = <<status>>]

\* A market of an administrator is active, and announced, at once.
CreateMarket(m, creator) ==
    /\ Request
    /\ InsertMarket(m, IF creator = "admin" THEN "active" ELSE "draft")
    /\ announcing' = IF creator = "admin" THEN announcing \cup {Event(m, 1)} ELSE announcing
    /\ UNCHANGED <<closed, cache, actor, published, topic, watched, faults>>

\* Mutant: the requested status is not checked.
BeginUpdateUnchecked(s, m, new) ==
    /\ actor[s] = Idle /\ Exists(m) /\ Request
    /\ Become(s, [at |-> "update", op |-> "update", market |-> m, old |-> Status(m), new |-> new])
    /\ UNCHANGED <<rows, cache, events, topic, watched, faults>>

\* PATCH status: the row is read and the transition checked; any string may be
\* asked for, and what the lifecycle does not know is refused.
BeginUpdate(s, m, new) ==
    /\ actor[s] = Idle /\ Exists(m) /\ Request
    /\ IsValidTransition(Status(m), new)
    /\ Become(s, [at |-> "update", op |-> "update", market |-> m, old |-> Status(m), new |-> new])
    /\ UNCHANGED <<rows, cache, events, topic, watched, faults>>

\* The row takes the status that the request r asked for.
TakeStatus(r) ==
    /\ history' = [history EXCEPT ![r.market] = Append(@, r.new)]
    /\ preempted' = IF /\ r.op = "update" /\ r.old = "pending_resolution"
                       /\ r.new \in {"resolved", "voided"}
                    THEN preempted \cup {r.market} ELSE preempted

\* The request has made the row's next status.
Invalidating(r) == [at |-> "invalidate", op |-> r.op, market |-> r.market, new |-> r.new,
                    version |-> Version(r.market) + 1]

\* Mutant: the update does not compare the status with the one that was read.
UpdateUnconditionally(a) ==
    /\ actor[a].at = "update"
    /\ TakeStatus(actor[a])
    /\ Become(a, Invalidating(actor[a]))
    /\ UNCHANGED <<closed, cache, events, topic, ready, lost, requests, faults>>

\* UPDATE ... WHERE status = the status that was read.  No row: the request fails.
UpdateStatus(a) ==
    /\ actor[a].at = "update"
    /\ \/ /\ Status(actor[a].market) = actor[a].old
          /\ TakeStatus(actor[a])
          /\ Become(a, Invalidating(actor[a]))
       \/ /\ Status(actor[a].market) # actor[a].old
          /\ Finish(a) /\ UNCHANGED <<history, preempted>>
    /\ UNCHANGED <<closed, cache, events, topic, ready, lost, requests, faults>>

\* A PATCH answers with GetMarket; a message of markets.resolved is done.
AfterChange(r) == IF r.op = "update" THEN [at |-> "get", market |-> r.market] ELSE Idle

\* The entry is deleted, an error of Redis ignored.  The goroutine that announces
\* a void is started; an activation is announced after one more read.
Invalidate(a) ==
    /\ actor[a].at = "invalidate"
    /\ \/ /\ cache' = [cache EXCEPT ![actor[a].market] = NoEntry]
          /\ UNCHANGED faults
       \/ Fault /\ UNCHANGED cache
    /\ LET r == actor[a] IN
          /\ announcing' = announcing \cup
                 IF r.new = "voided" THEN {Event(r.market, r.version)} ELSE {}
          /\ Become(a, IF r.new = "active" THEN [r EXCEPT !.at = "announce"]
                       ELSE AfterChange(r))
    /\ UNCHANGED <<rows, published, topic, watched, requests>>

\* The row is read again for its category; without it there is no event.
AnnounceActive(a) ==
    /\ actor[a].at = "announce"
    /\ LET r == actor[a] IN
          /\ \/ /\ announcing' = announcing \cup {Event(r.market, r.version)}
                /\ UNCHANGED faults
             \/ Fault /\ UNCHANGED announcing
          /\ Become(a, AfterChange(r))
    /\ UNCHANGED <<rows, cache, published, topic, watched, requests>>

-----------------------------------------------------------------------------
(* GetMarket *)

BeginGet(s, m) ==
    /\ actor[s] = Idle /\ Exists(m) /\ Request
    /\ Become(s, [at |-> "get", market |-> m])
    /\ UNCHANGED <<rows, cache, events, topic, watched, faults>>

\* The cache is read: a hit is the answer, a miss, which an error of Redis is
\* too, means that the row will be read.
CachedMarket(s) ==
    /\ actor[s].at = "get"
    /\ LET m == actor[s].market IN
       \/ cache[m] # NoEntry /\ Finish(s) /\ UNCHANGED faults
       \/ /\ \/ cache[m] = NoEntry /\ UNCHANGED faults
             \/ Fault
          /\ Become(s, [at |-> "read", market |-> m])
    /\ UNCHANGED <<rows, cache, events, topic, watched, requests>>

ReadMarket(s) ==
    /\ actor[s].at = "read"
    /\ LET m == actor[s].market IN
       Become(s, [at |-> "fill", market |-> m, version |-> Version(m)])
    /\ UNCHANGED <<rows, cache, events, topic, watched, requests, faults>>

\* The row that was read is stored, however old it is by now.
FillCache(s) ==
    /\ actor[s].at = "fill"
    /\ \/ /\ cache' = [cache EXCEPT ![actor[s].market] = actor[s].version]
          /\ UNCHANGED faults
       \/ Fault /\ UNCHANGED cache
    /\ Finish(s)
    /\ UNCHANGED <<rows, events, topic, watched, requests>>

\* The entry's time to live ends.
Expire(m) ==
    /\ cache[m] # NoEntry
    /\ cache' = [cache EXCEPT ![m] = NoEntry]
    /\ UNCHANGED <<rows, actor, events, topic, watched, requests, faults>>

-----------------------------------------------------------------------------
(* Events *)

\* The goroutine writes with the context of a request that may have ended.
Publish(e) ==
    /\ e \in announcing
    /\ announcing' = announcing \ {e}
    /\ \/ published' = published \cup {e}
       \/ UNCHANGED published
    /\ UNCHANGED <<rows, cache, actor, topic, watched, requests, faults>>

\* What the next message asks for: a void from any status that may be voided,
\* or resolved; nothing if the market got there before.
Wanted(outcome) == IF outcome = "VOID" THEN "voided" ELSE "resolved"
Settled(outcome) == IF outcome = "VOID" THEN {"voided"} ELSE {"resolved", "voided"}

\* ReadMessage commits the offset before the message is handled: an error of
\* the handler is logged and the message not seen again.
ReadMessage ==
    /\ actor["consumer"] = Idle /\ offset < Len(results)
    /\ offset' = offset + 1
    /\ LET m   == results[offset + 1].market
           out == results[offset + 1].outcome
       IN  \/ /\ ready' = IF Status(m) = "pending_resolution" THEN ready \cup {offset'}
                         ELSE ready
              /\ IF Status(m) \notin Settled(out) /\ IsValidTransition(Status(m), Wanted(out))
                 THEN Become("consumer", [at |-> "update", op |-> "event", market |-> m,
                                          old |-> Status(m), new |-> Wanted(out)])
                 ELSE UNCHANGED actor
              /\ UNCHANGED faults
           \/ Fault /\ UNCHANGED <<ready, actor>>   \* the row could not be read
    /\ UNCHANGED <<rows, cache, events, listed, results, lost, preempted, requests>>

\* A statement fails, or its answer is lost though it took effect, and the
\* request or the handling of the message ends there: an update of which the
\* error is all that is known is neither invalidated nor announced.
StatementFails(a) ==
    /\ actor[a].at \in {"update", "read"} /\ Fault
    /\ \/ UNCHANGED <<history, preempted>>
       \/ /\ actor[a].at = "update" /\ Status(actor[a].market) = actor[a].old
          /\ TakeStatus(actor[a])
    /\ Finish(a)
    /\ lost' = IF a = "consumer" THEN lost \cup {offset} ELSE lost
    /\ UNCHANGED <<closed, cache, events, topic, ready, requests>>

\* The process stops: requests, the message being handled and goroutines end.
Crash ==
    /\ Fault
    /\ actor' = [a \in Actors |-> Idle]
    /\ announcing' = {}
    /\ lost' = IF actor["consumer"] # Idle THEN lost \cup {offset} ELSE lost
    /\ UNCHANGED <<rows, cache, published, topic, ready, preempted, requests>>

-----------------------------------------------------------------------------
(* Outside *)

\* The close time of a market passes.
Close(m) ==
    /\ Exists(m) /\ m \notin closed
    /\ closed' = closed \cup {m}
    /\ UNCHANGED <<history, cache, actor, events, topic, watched, requests, faults>>

Resolvable == {m \in closed : Status(m) = "active"}

\* The resolution service is told of the active markets past their close time.
ListResolvable ==
    /\ ~(Resolvable \subseteq listed)
    /\ listed' = listed \cup Resolvable
    /\ UNCHANGED <<rows, cache, actor, events, results, offset, watched, requests, faults>>

\* It publishes an outcome, any time later and perhaps more than once.
PublishResult(m, outcome) ==
    /\ m \in listed /\ Len(results) < MaxResults
    /\ results' = Append(results, [market |-> m, outcome |-> outcome])
    /\ UNCHANGED <<rows, cache, actor, events, listed, offset, watched, requests, faults>>

-----------------------------------------------------------------------------
\* The routes of the API.
Create    == \E m \in Markets, creator \in {"admin", "user"} : CreateMarket(m, creator)
Update(s) == \E m \in Markets, new \in Statuses \cup {"unknown"} : BeginUpdate(s, m, new)
Get(s)    == \/ \E m \in Markets : BeginGet(s, m)
             \/ CachedMarket(s) \/ ReadMarket(s) \/ FillCache(s)

Next ==
    \/ Create
    \/ \E s \in Sessions : Update(s) \/ Get(s)
    \/ \E a \in Actors : \/ UpdateStatus(a) \/ Invalidate(a)
                          \/ AnnounceActive(a) \/ StatementFails(a)
    \/ ReadMessage \/ ListResolvable \/ Crash
    \/ \E e \in announcing : Publish(e)
    \/ \E m \in Markets : \/ Expire(m) \/ Close(m)
                          \/ \E outcome \in Outcomes : PublishResult(m, outcome)

Spec == Init /\ [][Next]_vars

-----------------------------------------------------------------------------
Requested == [at : {"update"}, op : {"update", "event"}, market : Markets,
              old : Statuses, new : Statuses]
             \cup [at : {"invalidate", "announce"}, op : {"update", "event"}, market : Markets,
                   new : Statuses, version : Nat]
Reads     == [at : {"get", "read"}, market : Markets]
             \cup [at : {"fill"}, market : Markets, version : Nat]
Events    == [market : Markets, version : Nat \ {0}]

\* Every variable keeps its type: a row holds statuses only, whatever string a
\* PATCH asks for, and the consumer never reads for an answer.
TypeOK ==
    /\ \A m \in Markets : history[m] \in Seq(Statuses)
    /\ closed \subseteq Markets /\ listed \subseteq closed
    /\ cache \in [Markets -> Nat]
    /\ actor \in [Actors -> {Idle} \cup Requested \cup Reads]
    /\ actor["consumer"] \in {Idle} \cup Requested
    /\ announcing \subseteq Events /\ published \subseteq Events
    /\ results \in Seq([market : Markets, outcome : Outcomes])
    /\ offset \in 0..Len(results)
    /\ ready \subseteq 1..offset /\ lost \subseteq 1..offset
    /\ preempted \subseteq Markets
    /\ requests \in 0..MaxRequests /\ faults \in 0..MaxFaults

\* Whatever concurrent requests and events read, a row moves along the valid
\* transitions only; each announcement is of a status the row really took, and
\* a market is announced as voided at most once.
ChangesAsAnnounced ==
    /\ \A m \in Markets : \A n \in 1..(Version(m) - 1) :
          IsValidTransition(history[m][n], history[m][n + 1])
    /\ \A e \in announcing \cup published :
          /\ e.version <= Version(e.market)
          /\ history[e.market][e.version] \in {"active", "voided"}
    /\ \A d, e \in announcing \cup published :
          (d.market = e.market /\ history[d.market][d.version] = "voided"
             /\ history[e.market][e.version] = "voided") => d = e

Processing(n) == n = offset /\ actor["consumer"] # Idle

\* A result that finds its market pending takes it to the status it stands for,
\* voided for VOID and resolved otherwise, whatever concurrent reads, writes and
\* other results do.  It is lost for good, with no announcement, in two cases
\* only: a fault hit it, or a PATCH ended the market between its read and its
\* update (MarkResolved, VoidMarket, UpdateStatus; a result that finds the market
\* in another status is outside this property).
PendingResultsApply ==
    \A n \in ready \ lost : Processing(n) \/
        LET result == results[n]
        IN  \/ Wanted(result.outcome) \in ToSet(history[result.market])
            \/ result.market \in preempted
=============================================================================
