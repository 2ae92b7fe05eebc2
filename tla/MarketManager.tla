---------------------------- MODULE MarketManager ----------------------------
(***************************************************************************)
(* matching-engine around the order book: the two Kafka consumers, the     *)
(* manager's map of command channels, the task of a market with its        *)
(* lifecycle, the write-ahead log, and the detached inserts and publishes  *)
(* of its trades.  One market is modelled, with the tasks that serve it in *)
(* succession: markets share the consumers, and the locks of the map's     *)
(* shards, but no state.  What process_order does is in module Matching;   *)
(* an order here is one share: it meets an order at rest, is filled by the *)
(* AMM, or rests itself.                                                   *)
(***************************************************************************)
EXTENDS Integers, Sequences, FiniteSets, SequencesExt

CONSTANTS Orders,      \* orders on orders.placed
          OrderLog,    \* the messages of orders.placed, by offset
          Voids,       \* how many messages market.voided holds
          Malformed,   \* orders whose event does not become an Order
          BadOutcome,  \* orders on an outcome the AMM does not have
          Capacity,    \* CHANNEL_CAPACITY
          MaxTasks,    \* bound: tasks that are spawned
          MaxRestarts, MaxSnapshots   \* bounds

ASSUME LogAssumption ==
    /\ OrderLog \in Seq(Orders) /\ Malformed \subseteq Orders /\ BadOutcome \subseteq Orders
    /\ "void" \notin Orders /\ "snapshot" \notin Orders

ASSUME BoundAssumption ==
    /\ Voids \in Nat /\ Capacity \in Nat \ {0} /\ MaxTasks \in Nat \ {0}
    /\ MaxRestarts \in Nat /\ MaxSnapshots \in Nat

Tasks    == 1..MaxTasks
Commands == Orders \cup {"void", "snapshot"}

\* A trade: the task that made it, its seq_no, and who filled it.
Trade == [task : Tasks, seq : Nat \ {0}, type : {"clob", "amm"}]

VARIABLES
    map,      \* the task whose sender `markets` holds, 0 if none
    state,    \* of each task: unborn, running, stopping, gone, panicked
    queue,    \* its channel
    book, seq,    \* the orders at rest in its book, the book's sequence number
    out,      \* trades process_order returned, not logged yet
    order,    \* the orders consumer: [read, done, committed, tx]
    void,     \* the voids consumer: the same
    client,   \* a get_snapshot call: idle, sending or waiting, and its task
    wal,      \* the log: the trade under each number in use
    inserting, publishing,   \* detached tasks of the trades
    trades,   \* rows of the trades table
    topic,    \* messages on trades.matched
    handled,  \* history: how often each order was taken by a task
    unlogged, \* history: trades whose append to the log failed
    spawned, restarts, snapshots   \* counters of the bounds

taskVars  == <<map, state, queue, book, seq, out, spawned>>
consumers == <<order, void, client, snapshots>>
stores    == <<wal, inserting, publishing, trades, topic>>
vars == <<taskVars, consumers, stores, handled, unlogged, restarts>>

-----------------------------------------------------------------------------
\* tx is the task a consumer is sending to, 0 while it sends nothing.
FromOffset(n) == [read |-> n, done |-> n, committed |-> n, tx |-> 0]

\* An offset is committed asynchronously, after its message was handled: what
\* is committed by now is any offset from the last known one to the last done.
MayBeCommitted(consumer) == consumer.committed .. consumer.done

NoBook == [t \in Tasks |-> {}]
Fresh  == /\ map = 0 /\ state = [t \in Tasks |-> "unborn"]
          /\ queue = [t \in Tasks |-> <<>>] /\ book = NoBook
          /\ seq = [t \in Tasks |-> 0] /\ out = [t \in Tasks |-> <<>>]

Init ==
    /\ Fresh /\ spawned = 0
    /\ order = FromOffset(0) /\ void = FromOffset(0)
    /\ client = [at |-> "idle", tx |-> 0] /\ snapshots = 0
    /\ wal = <<>>
    /\ inserting = {} /\ publishing = {} /\ trades = {} /\ topic = {}
    /\ handled = [o \in Orders |-> 0] /\ unlogged = {} /\ restarts = 0

\* The receiver is dropped: a send to the task fails.
Closed(t) == state[t] \in {"gone", "panicked"}

\* Mutant: the orders consumer, too, sends from a reference into the map.
MapBorrowedByBoth == void.tx # 0 \/ order.tx # 0

\* void_market keeps its reference into the map while it sends.  The reference
\* locks a shard of the DashMap: other markets of the shard, which are not
\* modelled, wait like this one.
MapBorrowed == void.tx # 0

Put(t, c) == queue' = [queue EXCEPT ![t] = Append(@, c)]

-----------------------------------------------------------------------------
(* orders.placed *)

\* An event that is no valid order is skipped.
SkipOrder ==
    /\ order.tx = 0 /\ order.read < Len(OrderLog)
    /\ OrderLog[order.read + 1] \in Malformed
    /\ order' = [order EXCEPT !.read = @ + 1, !.done = @ + 1]
    /\ UNCHANGED <<taskVars, void, client, snapshots, stores, handled, unlogged, restarts>>

\* ensure_market finds the sender of the market's task or spawns one.
EnsureMarket(t) ==
    \/ /\ map # 0 /\ t = map
       /\ UNCHANGED taskVars
    \/ /\ map = 0 /\ t = spawned + 1
       /\ spawned' = t /\ map' = t
       /\ state' = [state EXCEPT ![t] = "running"]
       /\ UNCHANGED <<queue, book, seq, out>>

SubmitOrder(t) ==
    /\ order.tx = 0 /\ order.read < Len(OrderLog)
    /\ OrderLog[order.read + 1] \notin Malformed
    /\ EnsureMarket(t)
    /\ order' = [order EXCEPT !.read = @ + 1, !.tx = t]
    /\ UNCHANGED <<void, client, snapshots, stores, handled, unlogged, restarts>>

\* Mutant: an order that finds the channel full is dropped.
TrySendOrder ==
    /\ order.tx # 0
    /\ IF Closed(order.tx) \/ Len(queue[order.tx]) >= Capacity THEN UNCHANGED queue
       ELSE Put(order.tx, OrderLog[order.read])
    /\ order' = [order EXCEPT !.done = @ + 1, !.tx = 0]
    /\ UNCHANGED <<map, state, book, seq, out, spawned, void, client, snapshots,
                   stores, handled, unlogged, restarts>>

\* The send waits for room, and fails, which is logged, once the task is gone.
SendOrder ==
    /\ order.tx # 0
    /\ \/ Closed(order.tx) /\ UNCHANGED queue
       \/ /\ ~Closed(order.tx) /\ Len(queue[order.tx]) < Capacity
          /\ Put(order.tx, OrderLog[order.read])
    /\ order' = [order EXCEPT !.done = @ + 1, !.tx = 0]
    /\ UNCHANGED <<map, state, book, seq, out, spawned, void, client, snapshots,
                   stores, handled, unlogged, restarts>>

-----------------------------------------------------------------------------
(* market.voided *)

\* Mutant: the entry is taken out of the map before its task has stopped.
ReceiveVoidEagerly ==
    /\ void.tx = 0 /\ void.read < Voids
    /\ void' = [void EXCEPT !.read = @ + 1, !.tx = map,
                            !.done = IF map = 0 THEN @ + 1 ELSE @]
    /\ map' = 0
    /\ UNCHANGED <<state, queue, book, seq, out, spawned, order, client, snapshots,
                   stores, handled, unlogged, restarts>>

\* void_market does nothing for a market that has no task.
ReceiveVoid ==
    /\ void.tx = 0 /\ void.read < Voids
    /\ void' = [void EXCEPT !.read = @ + 1, !.tx = map,
                            !.done = IF map = 0 THEN @ + 1 ELSE @]
    /\ UNCHANGED <<taskVars, order, client, snapshots, stores, handled, unlogged, restarts>>

\* Mutant: the void does not wait for room in the channel.
SendVoidAtOnce ==
    /\ void.tx # 0
    /\ IF Closed(void.tx) THEN UNCHANGED queue ELSE Put(void.tx, "void")
    /\ void' = [void EXCEPT !.done = @ + 1, !.tx = 0]
    /\ UNCHANGED <<map, state, book, seq, out, spawned, order, client, snapshots,
                   stores, handled, unlogged, restarts>>

SendVoid ==
    /\ void.tx # 0
    /\ \/ Closed(void.tx) /\ UNCHANGED queue
       \/ ~Closed(void.tx) /\ Len(queue[void.tx]) < Capacity /\ Put(void.tx, "void")
    /\ void' = [void EXCEPT !.done = @ + 1, !.tx = 0]
    /\ UNCHANGED <<map, state, book, seq, out, spawned, order, client, snapshots,
                   stores, handled, unlogged, restarts>>

-----------------------------------------------------------------------------
(* GetOrderBook *)

NoClient == client' = [at |-> "idle", tx |-> 0]

GetSnapshot ==
    /\ client.at = "idle" /\ map # 0
    /\ snapshots < MaxSnapshots /\ snapshots' = snapshots + 1
    /\ client' = [at |-> "sending", tx |-> map]
    /\ UNCHANGED <<taskVars, order, void, stores, handled, unlogged, restarts>>

SendSnapshot ==
    /\ client.at = "sending"
    /\ \/ Closed(client.tx) /\ NoClient /\ UNCHANGED queue
       \/ /\ ~Closed(client.tx) /\ Len(queue[client.tx]) < Capacity
          /\ Put(client.tx, "snapshot")
          /\ client' = [client EXCEPT !.at = "waiting"]
    /\ UNCHANGED <<map, state, book, seq, out, spawned, order, void, snapshots,
                   stores, handled, unlogged, restarts>>

\* The answer's sender was dropped with the channel: "market not active".
SnapshotDropped ==
    /\ client.at = "waiting" /\ Closed(client.tx)
    /\ NoClient
    /\ UNCHANGED <<taskVars, order, void, snapshots, stores, handled, unlogged, restarts>>

-----------------------------------------------------------------------------
(* The task *)

MayTake(t) == state[t] = "running" /\ out[t] = <<>> /\ queue[t] # <<>>
Take(t)    == MayTake(t) /\ queue' = [queue EXCEPT ![t] = Tail(@)]

TakeOrder(t, o) == /\ Take(t) /\ o = Head(queue[t]) /\ o \in Orders
                   /\ handled' = [handled EXCEPT ![o] = @ + 1]

\* The order is numbered and rests.
Rest(t, o) ==
    /\ TakeOrder(t, o) /\ o \notin BadOutcome
    /\ book' = [book EXCEPT ![t] = @ \cup {o}]
    /\ seq' = [seq EXCEPT ![t] = @ + 1]
    /\ UNCHANGED <<map, state, out, spawned, consumers, stores, unlogged, restarts>>

\* It meets an order at rest; the trade takes its number, and then advances it.
MatchClob(t, o) ==
    /\ TakeOrder(t, o)
    /\ \E r \in book[t] : book' = [book EXCEPT ![t] = @ \ {r}]
    /\ seq' = [seq EXCEPT ![t] = @ + 2]
    /\ out' = [out EXCEPT ![t] = <<[task |-> t, seq |-> seq[t] + 1, type |-> "clob"]>>]
    /\ UNCHANGED <<map, state, spawned, consumers, stores, unlogged, restarts>>

\* The AMM fills it; its trade takes the next number and does not advance it.
FillAmm(t, o) ==
    /\ TakeOrder(t, o) /\ o \notin BadOutcome
    /\ seq' = [seq EXCEPT ![t] = @ + 1]
    /\ out' = [out EXCEPT ![t] = <<[task |-> t, seq |-> seq'[t] + 1, type |-> "amm"]>>]
    /\ UNCHANGED <<map, state, book, spawned, consumers, stores, unlogged, restarts>>

\* The AMM is asked for the price of an outcome it does not have: the task
\* unwinds without leaving the map, and drops its channel.
Panic(t, o) ==
    /\ MayTake(t) /\ o = Head(queue[t]) /\ o \in BadOutcome
    /\ handled' = [handled EXCEPT ![o] = @ + 1]
    /\ state' = [state EXCEPT ![t] = "panicked"]
    /\ book' = [book EXCEPT ![t] = {}] /\ queue' = [queue EXCEPT ![t] = <<>>]
    /\ UNCHANGED <<map, seq, out, spawned, consumers, stores, unlogged, restarts>>

Logged(trade) == [n \in DOMAIN wal \cup {trade.seq} |->
                     IF n = trade.seq THEN trade ELSE wal[n]]

\* Mutant: the detached tasks are spawned and the append forgotten.
SpawnWithoutLog(t) ==
    /\ state[t] = "running" /\ out[t] # <<>>
    /\ LET trade == Head(out[t])
       IN  /\ inserting' = inserting \cup {trade} /\ publishing' = publishing \cup {trade}
           /\ UNCHANGED wal
    /\ out' = [out EXCEPT ![t] = Tail(@)]
    /\ UNCHANGED <<map, state, queue, book, seq, spawned, consumers, trades, topic,
                   handled, unlogged, restarts>>

\* The trade is appended to the log, which overwrites what its number holds (a
\* failure is only reported), and its insert and its publication are spawned.
LogTrade(t) ==
    /\ state[t] = "running" /\ out[t] # <<>>
    /\ LET trade == Head(out[t])
       IN  /\ \/ wal' = Logged(trade) /\ UNCHANGED unlogged
              \/ unlogged' = unlogged \cup {trade} /\ UNCHANGED wal
           /\ inserting' = inserting \cup {trade} /\ publishing' = publishing \cup {trade}
    /\ out' = [out EXCEPT ![t] = Tail(@)]
    /\ UNCHANGED <<map, state, queue, book, seq, spawned, consumers, trades, topic,
                   handled, restarts>>

TakeSnapshot(t) ==
    /\ Take(t) /\ Head(queue[t]) = "snapshot"
    /\ NoClient
    /\ UNCHANGED <<map, state, book, seq, out, spawned, order, void, snapshots,
                   stores, handled, unlogged, restarts>>

\* Everything at rest is cancelled and the loop is left.
TakeVoid(t) ==
    /\ Take(t) /\ Head(queue[t]) = "void"
    /\ book' = [book EXCEPT ![t] = {}]
    /\ state' = [state EXCEPT ![t] = "stopping"]
    /\ UNCHANGED <<map, seq, out, spawned, consumers, stores, handled, unlogged, restarts>>

\* The task leaves the map, for which nobody may hold a reference into it, and
\* only then drops its channel with the commands still in it.
Exit(t) ==
    /\ state[t] = "stopping" /\ ~MapBorrowed
    /\ map' = 0
    /\ state' = [state EXCEPT ![t] = "gone"]
    /\ queue' = [queue EXCEPT ![t] = <<>>]
    /\ UNCHANGED <<book, seq, out, spawned, consumers, stores, handled, unlogged, restarts>>

-----------------------------------------------------------------------------
(* Detached tasks, and the process *)

\* A row whose number is taken violates the unique index.  That error, and any
\* other, is reported and the row is lost.
InsertTrade(trade) ==
    /\ trade \in inserting
    /\ inserting' = inserting \ {trade}
    /\ \/ /\ \A row \in trades : row.seq # trade.seq
          /\ trades' = trades \cup {trade}
       \/ UNCHANGED trades
    /\ UNCHANGED <<taskVars, consumers, wal, publishing, topic, handled, unlogged, restarts>>

PublishTrade(trade) ==
    /\ trade \in publishing
    /\ publishing' = publishing \ {trade}
    /\ \/ topic' = topic \cup {trade}
       \/ UNCHANGED topic
    /\ UNCHANGED <<taskVars, consumers, wal, inserting, trades, handled, unlogged, restarts>>

\* The process stops, of itself or not, and starts again: nothing replays the
\* log, and the consumers go on from the offsets that were committed.
Restart ==
    /\ restarts < MaxRestarts /\ restarts' = restarts + 1
    /\ map' = 0 /\ book' = NoBook
    /\ state' = [t \in Tasks |-> IF state[t] = "unborn" THEN "unborn" ELSE "gone"]
    /\ queue' = [t \in Tasks |-> <<>>] /\ out' = [t \in Tasks |-> <<>>]
    /\ \E n \in MayBeCommitted(order) : order' = FromOffset(n)
    /\ \E n \in MayBeCommitted(void) : void' = FromOffset(n)
    /\ NoClient
    /\ inserting' = {} /\ publishing' = {}
    /\ UNCHANGED <<seq, spawned, snapshots, wal, trades, topic, handled, unlogged>>

-----------------------------------------------------------------------------
Process(t) == \/ \E o \in Orders : \/ Rest(t, o) \/ MatchClob(t, o)
                                   \/ FillAmm(t, o) \/ Panic(t, o)
              \/ LogTrade(t) \/ TakeSnapshot(t) \/ TakeVoid(t) \/ Exit(t)

ConsumeOrders == SkipOrder \/ SendOrder \/ \E t \in Tasks : SubmitOrder(t)
ConsumeVoids  == ReceiveVoid \/ SendVoid
Client        == SendSnapshot \/ SnapshotDropped

Next ==
    \/ ConsumeOrders \/ ConsumeVoids
    \/ GetSnapshot \/ Client
    \/ \E t \in Tasks : Process(t)
    \/ \E trade \in inserting : InsertTrade(trade)
    \/ \E trade \in publishing : PublishTrade(trade)
    \/ Restart

\* The runtime polls every task that can go on.
Fairness == /\ WF_vars(ConsumeOrders) /\ WF_vars(ConsumeVoids) /\ WF_vars(Client)
            /\ \A t \in Tasks : WF_vars(Process(t))

Spec == Init /\ [][Next]_vars /\ Fairness

-----------------------------------------------------------------------------
Consumer(n) == [read : 0..n, done : 0..n, committed : 0..n, tx : 0..MaxTasks]

\* Every variable keeps its type; a channel never holds more than its capacity.
TypeOK ==
    /\ map \in 0..MaxTasks
    /\ state \in [Tasks -> {"unborn", "running", "stopping", "gone", "panicked"}]
    /\ \A t \in Tasks : queue[t] \in Seq(Commands) /\ Len(queue[t]) <= Capacity
    /\ book \in [Tasks -> SUBSET Orders] /\ seq \in [Tasks -> Nat]
    /\ \A t \in Tasks : out[t] \in Seq(Trade)
    /\ order \in Consumer(Len(OrderLog)) /\ void \in Consumer(Voids)
    /\ client \in [at : {"idle", "sending", "waiting"}, tx : 0..MaxTasks]
    /\ \A n \in DOMAIN wal : wal[n] \in Trade /\ wal[n].seq = n
    /\ inserting \subseteq Trade /\ publishing \subseteq Trade
    /\ trades \subseteq Trade /\ topic \subseteq Trade
    /\ handled \in [Orders -> Nat] /\ unlogged \subseteq Trade
    /\ spawned \in 0..MaxTasks /\ restarts \in 0..MaxRestarts
    /\ snapshots \in 0..MaxSnapshots

\* Single writer: while one task of the market takes orders no other does, also
\* when orders arrive during a void, and no order waits for a task that has
\* left the map while it could still be served.
SingleWriter ==
    /\ Cardinality({t \in Tasks : state[t] \in {"running", "stopping"}}) <= 1
    /\ \A t \in Tasks : state[t] \in {"running", "stopping"} => map = t

InChannel(o) == \/ \E t \in Tasks : o \in ToSet(queue[t])
                \/ order.tx # 0 /\ OrderLog[order.read] = o
Delivered(o) == \E n \in 1..order.read : OrderLog[n] = o
Copies(o, s) == Cardinality({n \in DOMAIN s : s[n] = o})

\* A message is taken by no more than one task unless a restart delivered it
\* again, and a delivered order gets lost only around a void, a panic or a restart.
OrdersAccounted == \A o \in Orders :
    /\ handled[o] <= (1 + restarts) * Copies(o, OrderLog)
    /\ (Delivered(o) /\ o \notin Malformed /\ handled[o] = 0 /\ ~InChannel(o)) =>
           \/ restarts > 0 \/ void.read > 0
           \/ \E t \in Tasks : state[t] = "panicked"

Supersedes(new, old) == \/ new = old \/ new.task > old.task
                        \/ new.task = old.task /\ old.type = "amm" /\ new.type = "clob"

\* Write ahead: a trade anybody can see, in the table or on the topic, was
\* logged before, unless that failed, and is still in the log unless its number
\* was given out again, by a later task (its book counts from 0) or to a CLOB
\* trade after an AMM one.
VisibleIsLogged ==
    \A trade \in (trades \cup topic) \ unlogged :
        trade.seq \in DOMAIN wal /\ Supersedes(wal[trade.seq], trade)

\* A second void waits for room in the channel of a task the first one stopped;
\* the task waits to leave the map the sender borrows, and neither goes on.
VoidedTwice == void.tx # 0 /\ state[void.tx] = "stopping"

\* Every send and every snapshot comes to an end, also when the channel is full
\* or its task stops or panics, except behind a second void.
EveryCallReturns ==
    /\ order.tx # 0 ~> (order.tx = 0 \/ VoidedTwice)
    /\ void.tx # 0 ~> (void.tx = 0 \/ VoidedTwice)
    /\ client.at # "idle" ~> (client.at = "idle" \/ VoidedTwice)
=============================================================================
