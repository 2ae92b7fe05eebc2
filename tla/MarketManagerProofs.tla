-------------------------- MODULE MarketManagerProofs --------------------------
(***************************************************************************)
(* Theorems of MarketManager: its types, that a market has one writer,     *)
(* that a visible trade was logged before, and that no order is taken too  *)
(* often or lost without a cause, for any orders, voids, tasks and         *)
(* restarts.                                                               *)
(*                                                                         *)
(* Only the task in the map, the last one spawned, lives (TasksOK).  Its   *)
(* book's sequence number bounds the numbers of its trades, so a trade it  *)
(* is about to log can take the number of no other of its trades but an    *)
(* AMM one (TradesOK); all other trades are of tasks before it.            *)
(*                                                                         *)
(* Of each order, the messages read so far, and for each restart all there *)
(* are, pay for what tasks have taken and what waits in a channel or in    *)
(* the consumer's hand (Taken).  What waits is counted in the channel of   *)
(* the task in the map only, the others being empty (Channels).  Until     *)
(* something stops a task, each delivered order is taken or waits (Kept).  *)
(***************************************************************************)
EXTENDS MarketManager, TLAPS, FiniteSetTheorems

Typed == TypeOK /\ queue \in [Tasks -> Seq(Commands)] /\ out \in [Tasks -> Seq(Trade)]

\* A consumer that sends has read one message it is not done with.
ConsumersOK == /\ order.tx = 0 => order.done = order.read
               /\ order.tx # 0 => order.done = order.read - 1
               /\ void.tx = 0 => void.done = void.read
               /\ void.tx # 0 => void.done = void.read - 1
               /\ client.at # "idle" => client.tx # 0

Live(t) == state[t] \in {"running", "stopping"}
TasksOK == /\ \A t \in Tasks : Live(t) => map = t
           /\ map # 0 => map = spawned

Made == inserting \cup publishing \cup trades \cup topic

\* The trade has a number its task has given out.
Numbered(x) == /\ x.task <= spawned
               /\ x.type = "clob" => x.seq <= seq[x.task]
               /\ x.type = "amm" => x.seq <= seq[x.task] + 1

Later(x, y) == y.seq < x.seq \/ (y.seq = x.seq /\ y.type = "amm" /\ x.type = "clob")

\* The task is about to log x, later than all it has made.
Pending(t, x) == /\ state[t] = "running" /\ out[t] = <<x>>
                 /\ x.task = t /\ Numbered(x)
                 /\ \A y \in Made : y.task = t => Later(x, y)

TradesOK == /\ \A y \in Made : Numbered(y)
            /\ \A t \in Tasks : out[t] = <<>> \/ \E x \in Trade : Pending(t, x)

LogOK == \A y \in Made \ unlogged : y.seq \in DOMAIN wal /\ Supersedes(wal[y.seq], y)

IndInv == Typed /\ ConsumersOK /\ TasksOK /\ TradesOK /\ LogOK

-----------------------------------------------------------------------------
(* What the invariant implies *)

\* The invariant contains the types.
LEMMA IndInvTypes == IndInv => TypeOK
  BY DEF IndInv, Typed

\* Only the task in the map lives.
LEMMA IndInvWriter == IndInv => SingleWriter
<1> SUFFICES ASSUME IndInv PROVE SingleWriter
  OBVIOUS
<1> DEFINE S == {t \in Tasks : state[t] \in {"running", "stopping"}}
<1>1. \A t \in Tasks : state[t] \in {"running", "stopping"} => map = t
  BY DEF IndInv, TasksOK, Live
<1>2. S \subseteq {map}
  BY <1>1
<1>3. IsFiniteSet({map}) /\ Cardinality({map}) = 1
  BY FS_Singleton
<1> HIDE DEF S
<1>4. IsFiniteSet(S) /\ Cardinality(S) <= 1
  BY <1>2, <1>3, FS_Subset
<1> QED
  BY <1>1, <1>4 DEF SingleWriter, S

\* What is visible is among what was made.
LEMMA IndInvLogged == IndInv => VisibleIsLogged
  BY DEF IndInv, LogOK, Made, VisibleIsLogged

\* The invariant holds when the process starts.
LEMMA InitOK == Init => IndInv
<1> SUFFICES ASSUME Init PROVE IndInv
  OBVIOUS
<1> USE DEF Init, Fresh, FromOffset, NoBook
<1>1. Len(OrderLog) \in Nat
  BY LogAssumption
<1>2. Typed
  BY <1>1, BoundAssumption DEF Typed, TypeOK, Consumer, Tasks
<1>3. ConsumersOK /\ TasksOK /\ TradesOK /\ LogOK
  BY DEF ConsumersOK, TasksOK, Live, TradesOK, LogOK, Made
<1> QED
  BY <1>2, <1>3 DEF IndInv

-----------------------------------------------------------------------------
(* What a step leaves true *)

\* A step that gives out no number and makes no trade.
LEMMA TradesKept ==
    ASSUME IndInv, UNCHANGED <<state, seq, out, spawned>>, Made' \subseteq Made
    PROVE  TradesOK'
  BY DEF IndInv, TradesOK, Pending, Numbered, Later

\* A step that writes no log and makes no trade.
LEMMA LogKept ==
    ASSUME IndInv, UNCHANGED <<wal, unlogged>>, Made' \subseteq Made
    PROVE  LogOK'
  BY DEF IndInv, LogOK, Supersedes

\* A command enters a channel that has room.
LEMMA PutOK ==
    ASSUME Typed, NEW t \in Tasks, NEW c \in Commands, Len(queue[t]) < Capacity, Put(t, c)
    PROVE  /\ queue' \in [Tasks -> Seq(Commands)]
           /\ \A u \in Tasks : queue'[u] \in Seq(Commands) /\ Len(queue'[u]) <= Capacity
<1>1. queue \in [Tasks -> Seq(Commands)] /\ \A u \in Tasks : Len(queue[u]) <= Capacity
  BY DEF Typed, TypeOK
<1>2. queue[t] \in Seq(Commands) /\ Len(queue[t]) + 1 <= Capacity
  BY <1>1, BoundAssumption
<1>3. Append(queue[t], c) \in Seq(Commands) /\ Len(Append(queue[t], c)) <= Capacity
  BY <1>2
<1> QED
  BY <1>1, <1>3 DEF Put

\* The end of a consumer's sending.
LEMMA ConsumerSent ==
    ASSUME NEW n \in Nat, NEW c \in Consumer(n), c.tx # 0, c.done = c.read - 1
    PROVE  /\ c.read \in 1..n /\ c.tx \in Tasks
           /\ [c EXCEPT !.done = @ + 1, !.tx = 0] \in Consumer(n)
           /\ [c EXCEPT !.done = @ + 1, !.tx = 0].done = c.read
           /\ [c EXCEPT !.done = @ + 1, !.tx = 0].read = c.read
           /\ [c EXCEPT !.done = @ + 1, !.tx = 0].tx = 0
<1>1. c.read \in 1..n /\ c.done + 1 \in 0..n /\ 0 \in 0..MaxTasks /\ c.tx \in Tasks
  BY BoundAssumption DEF Consumer, Tasks
<1>2. [c EXCEPT !.done = @ + 1, !.tx = 0] \in Consumer(n)
  BY <1>1 DEF Consumer
<1>3. /\ [c EXCEPT !.done = @ + 1, !.tx = 0].done = c.read
      /\ [c EXCEPT !.done = @ + 1, !.tx = 0].read = c.read
      /\ [c EXCEPT !.done = @ + 1, !.tx = 0].tx = 0
  BY DEF Consumer
<1> QED
  BY <1>1, <1>2, <1>3

\* The consumers by their types.
LEMMA ConsumerTypes ==
    ASSUME IndInv
    PROVE  /\ Len(OrderLog) \in Nat /\ order \in Consumer(Len(OrderLog))
           /\ Voids \in Nat /\ void \in Consumer(Voids)
  BY LogAssumption, BoundAssumption DEF IndInv, Typed, TypeOK

\* The order enters the channel, or the channel has closed.
LEMMA SendOrderStep == ASSUME IndInv, SendOrder PROVE IndInv'
<1> USE DEF SendOrder, stores
<1>1. order.read \in 1..Len(OrderLog) /\ order.tx \in Tasks
  BY ConsumerTypes, ConsumerSent DEF IndInv, ConsumersOK
<1>2. OrderLog[order.read] \in Commands
  BY <1>1, LogAssumption DEF Commands
<1>3. /\ order' \in Consumer(Len(OrderLog))
      /\ order'.done = order'.read /\ order'.tx = 0
  BY ConsumerTypes, ConsumerSent DEF IndInv, ConsumersOK
<1>4. /\ queue' \in [Tasks -> Seq(Commands)]
      /\ \A t \in Tasks : queue'[t] \in Seq(Commands) /\ Len(queue'[t]) <= Capacity
  BY <1>1, <1>2, PutOK DEF IndInv, Typed, TypeOK
<1>5. Typed'
  BY <1>3, <1>4 DEF IndInv, Typed, TypeOK
<1>6. ConsumersOK' /\ TasksOK'
  BY <1>3 DEF IndInv, ConsumersOK, TasksOK, Live
<1>7. TradesOK' /\ LogOK'
  BY TradesKept, LogKept DEF Made
<1> QED
  BY <1>5, <1>6, <1>7 DEF IndInv

\* So does the void.
LEMMA SendVoidStep == ASSUME IndInv, SendVoid PROVE IndInv'
<1> USE DEF SendVoid, stores
<1>1. void.tx \in Tasks /\ "void" \in Commands
  BY ConsumerTypes, ConsumerSent DEF IndInv, ConsumersOK, Commands
<1>2. /\ void' \in Consumer(Voids)
      /\ void'.done = void'.read /\ void'.tx = 0
  BY ConsumerTypes, ConsumerSent DEF IndInv, ConsumersOK
<1>3. /\ queue' \in [Tasks -> Seq(Commands)]
      /\ \A t \in Tasks : queue'[t] \in Seq(Commands) /\ Len(queue'[t]) <= Capacity
  BY <1>1, PutOK DEF IndInv, Typed, TypeOK
<1>4. Typed'
  BY <1>2, <1>3 DEF IndInv, Typed, TypeOK
<1>5. ConsumersOK' /\ TasksOK'
  BY <1>2 DEF IndInv, ConsumersOK, TasksOK, Live
<1>6. TradesOK' /\ LogOK'
  BY TradesKept, LogKept DEF Made
<1> QED
  BY <1>4, <1>5, <1>6 DEF IndInv

\* A malformed message is passed over.
LEMMA SkipOrderStep == ASSUME IndInv, SkipOrder PROVE IndInv'
<1> USE DEF SkipOrder, stores, taskVars
<1>1. /\ order' \in Consumer(Len(OrderLog))
      /\ order'.done = order'.read /\ order'.tx = 0
  <2>1. order.read + 1 \in 0..Len(OrderLog) /\ order.done = order.read
    BY ConsumerTypes DEF IndInv, ConsumersOK, Consumer
  <2>2. order' \in Consumer(Len(OrderLog))
    BY <2>1, ConsumerTypes DEF Consumer
  <2>3. order'.done = order'.read /\ order'.tx = 0
    BY <2>1, ConsumerTypes DEF Consumer
  <2> QED
    BY <2>2, <2>3
<1>2. Typed'
  BY <1>1 DEF IndInv, Typed, TypeOK
<1>3. ConsumersOK' /\ TasksOK'
  BY <1>1 DEF IndInv, ConsumersOK, TasksOK, Live
<1>4. TradesOK' /\ LogOK'
  BY TradesKept, LogKept DEF Made
<1> QED
  BY <1>2, <1>3, <1>4 DEF IndInv

\* A void finds its task in the map, or none.
LEMMA ReceiveVoidStep == ASSUME IndInv, ReceiveVoid PROVE IndInv'
<1> USE DEF ReceiveVoid, stores, taskVars
<1>1. /\ void' \in Consumer(Voids)
      /\ void'.tx = 0 => void'.done = void'.read
      /\ void'.tx # 0 => void'.done = void'.read - 1
  <2>1. /\ void.read + 1 \in 0..Voids /\ void.done = void.read /\ map \in 0..MaxTasks
        /\ (IF map = 0 THEN void.done + 1 ELSE void.done) \in 0..Voids
    <3>1. void.done = void.read /\ map \in 0..MaxTasks
      BY DEF IndInv, ConsumersOK, Typed, TypeOK
    <3>2. void.read \in 0..Voids /\ void.read < Voids
      BY ConsumerTypes DEF Consumer
    <3> HIDE DEF ReceiveVoid
    <3>3. void.read + 1 \in 0..Voids
      BY <3>2, BoundAssumption
    <3> QED
      BY <3>1, <3>2, <3>3
  <2>2. void' \in Consumer(Voids)
    BY <2>1, ConsumerTypes DEF Consumer
  <2>3. /\ void'.read = void.read + 1 /\ void'.tx = map
        /\ void'.done = IF map = 0 THEN void.done + 1 ELSE void.done
    BY ConsumerTypes DEF Consumer
  <2> QED
    BY <2>1, <2>2, <2>3
<1>2. Typed'
  BY <1>1 DEF IndInv, Typed, TypeOK
<1>3. ConsumersOK' /\ TasksOK'
  BY <1>1 DEF IndInv, ConsumersOK, TasksOK, Live
<1>4. TradesOK' /\ LogOK'
  BY TradesKept, LogKept DEF Made
<1> QED
  BY <1>2, <1>3, <1>4 DEF IndInv

\* A task is spawned only for an empty map: no other lives.
LEMMA SubmitOrderStep == ASSUME IndInv, NEW t \in Tasks, SubmitOrder(t) PROVE IndInv'
<1> USE DEF SubmitOrder, stores
<1>1. t # 0 /\ t \in 0..MaxTasks
  BY BoundAssumption DEF Tasks
<1>2. /\ order' \in Consumer(Len(OrderLog))
      /\ order'.done = order'.read - 1 /\ order'.tx # 0
  <2>1. order.read + 1 \in 0..Len(OrderLog) /\ order.done = order.read /\ order.read \in Nat
    BY ConsumerTypes DEF IndInv, ConsumersOK, Consumer
  <2>2. order' \in Consumer(Len(OrderLog))
    BY <1>1, <2>1, ConsumerTypes DEF Consumer
  <2>3. order'.done = order.done /\ order'.read = order.read + 1 /\ order'.tx = t
    BY ConsumerTypes DEF Consumer
  <2> QED
    BY <1>1, <2>1, <2>2, <2>3
<1>3. CASE map # 0 /\ UNCHANGED taskVars
  <2> USE DEF taskVars
  <2>1. Typed'
    BY <1>2, <1>3 DEF IndInv, Typed, TypeOK
  <2>2. ConsumersOK' /\ TasksOK'
    BY <1>2, <1>3 DEF IndInv, ConsumersOK, TasksOK, Live
  <2>3. TradesOK' /\ LogOK'
    BY <1>3, TradesKept, LogKept DEF Made
  <2> QED
    BY <2>1, <2>2, <2>3 DEF IndInv
<1>4. CASE /\ map = 0 /\ t = spawned + 1 /\ spawned' = t /\ map' = t
           /\ state' = [state EXCEPT ![t] = "running"] /\ UNCHANGED <<queue, book, seq, out>>
  <2>1. Typed'
    BY <1>1, <1>2, <1>4 DEF IndInv, Typed, TypeOK
  <2>2. ~Live(t) /\ \A u \in Tasks : ~Live(u)
    BY <1>4 DEF IndInv, TasksOK, Tasks
  <2>3. \A u \in Tasks : u # t => state'[u] = state[u]
    BY <1>4 DEF IndInv, Typed, TypeOK
  <2>4. ConsumersOK' /\ TasksOK'
    BY <1>2, <1>4, <2>2, <2>3 DEF IndInv, ConsumersOK, TasksOK, Live
  <2>5. Made' = Made /\ \A y \in Made : y \in Trade
    BY DEF IndInv, Typed, TypeOK, Made
  <2>6. spawned \in Nat /\ spawned' = spawned + 1
    BY <1>4 DEF IndInv, Typed, TypeOK
  <2>7. \A y \in Made : Numbered(y)'
    BY <1>4, <2>5, <2>6 DEF IndInv, TradesOK, Numbered, Trade, Tasks
  <2>8. \A u \in Tasks : out[u] = <<>>
    BY <2>2 DEF IndInv, TradesOK, Pending, Live
  <2>9. TradesOK'
    BY <1>4, <2>5, <2>7, <2>8 DEF TradesOK
  <2> QED
    BY <2>1, <2>4, <2>5, <2>9, LogKept DEF IndInv
<1> QED
  BY <1>3, <1>4 DEF EnsureMarket

-----------------------------------------------------------------------------
(* GetOrderBook *)

\* A caller that was answered is a caller again.
LEMMA NoClientOK == NoClient => client' \in [at : {"idle", "sending", "waiting"}, tx : 0..MaxTasks]
  BY BoundAssumption DEF NoClient

\* A caller asks for a snapshot.
LEMMA GetSnapshotStep == ASSUME IndInv, GetSnapshot PROVE IndInv'
<1> USE DEF GetSnapshot, stores, taskVars
<1>1. snapshots' \in 0..MaxSnapshots
  BY BoundAssumption DEF IndInv, Typed, TypeOK
<1>2. client' \in [at : {"idle", "sending", "waiting"}, tx : 0..MaxTasks]
  BY DEF IndInv, Typed, TypeOK
<1>3. Typed'
  BY <1>1, <1>2 DEF IndInv, Typed, TypeOK
<1>4. ConsumersOK' /\ TasksOK'
  BY DEF IndInv, ConsumersOK, TasksOK, Live
<1>5. TradesOK' /\ LogOK'
  BY TradesKept, LogKept DEF Made
<1> QED
  BY <1>3, <1>4, <1>5 DEF IndInv

\* Its command enters the channel.
LEMMA SendSnapshotStep == ASSUME IndInv, SendSnapshot PROVE IndInv'
<1> USE DEF SendSnapshot, stores
<1>1. client.tx \in Tasks
  BY BoundAssumption DEF IndInv, ConsumersOK, Typed, TypeOK, Tasks
<1>2. client' \in [at : {"idle", "sending", "waiting"}, tx : 0..MaxTasks]
  BY NoClientOK DEF IndInv, Typed, TypeOK
<1>3. /\ queue' \in [Tasks -> Seq(Commands)]
      /\ \A t \in Tasks : queue'[t] \in Seq(Commands) /\ Len(queue'[t]) <= Capacity
  BY <1>1, PutOK DEF Commands, IndInv, Typed, TypeOK
<1>4. Typed'
  BY <1>2, <1>3 DEF IndInv, Typed, TypeOK
<1>5. ConsumersOK' /\ TasksOK'
  BY DEF IndInv, ConsumersOK, TasksOK, Live, NoClient, Typed, TypeOK
<1>6. TradesOK' /\ LogOK'
  BY TradesKept, LogKept DEF Made
<1> QED
  BY <1>4, <1>5, <1>6 DEF IndInv

\* The channel closed under it.
LEMMA SnapshotDroppedStep == ASSUME IndInv, SnapshotDropped PROVE IndInv'
<1> USE DEF SnapshotDropped, stores, taskVars
<1>1. Typed'
  BY NoClientOK DEF IndInv, Typed, TypeOK
<1>2. ConsumersOK' /\ TasksOK'
  BY DEF IndInv, ConsumersOK, TasksOK, Live, NoClient
<1>3. TradesOK' /\ LogOK'
  BY TradesKept, LogKept DEF Made
<1> QED
  BY <1>1, <1>2, <1>3 DEF IndInv

-----------------------------------------------------------------------------
(* The task *)

\* A command leaves a channel.
LEMMA TakeOK ==
    ASSUME Typed, NEW t \in Tasks, Take(t)
    PROVE  /\ queue' \in [Tasks -> Seq(Commands)]
           /\ \A u \in Tasks : queue'[u] \in Seq(Commands) /\ Len(queue'[u]) <= Capacity
<1>1. queue \in [Tasks -> Seq(Commands)] /\ \A u \in Tasks : Len(queue[u]) <= Capacity
  BY DEF Typed, TypeOK
<1>2. queue[t] \in Seq(Commands) /\ queue[t] # <<>> /\ Len(queue[t]) <= Capacity
  BY <1>1 DEF Take, MayTake
<1>3. Tail(queue[t]) \in Seq(Commands) /\ Len(Tail(queue[t])) <= Capacity
  BY <1>2, BoundAssumption
<1> QED
  BY <1>1, <1>3 DEF Take

\* A number that was given out stays given out.
LEMMA NumberedStays ==
    ASSUME IndInv, seq' \in [Tasks -> Nat], \A u \in Tasks : seq[u] <= seq'[u],
           UNCHANGED spawned, NEW y \in Trade, Numbered(y)
    PROVE  Numbered(y)'
<1>1. y.task \in Tasks /\ y.seq \in Nat /\ seq \in [Tasks -> Nat]
  BY DEF Trade, IndInv, Typed, TypeOK
<1>2. seq[y.task] \in Nat /\ seq'[y.task] \in Nat /\ seq[y.task] <= seq'[y.task]
  BY <1>1
<1> QED
  BY <1>1, <1>2 DEF Numbered

\* Task t gives out numbers and may have a trade x to log; no trade is added to
\* those that were made.
LEMMA TradesStep ==
    ASSUME IndInv, NEW t \in Tasks, UNCHANGED spawned, Made' \subseteq Made,
           seq' \in [Tasks -> Nat], \A u \in Tasks : seq[u] <= seq'[u],
           \A u \in Tasks : u # t => out'[u] = out[u] /\ state'[u] = state[u],
           out'[t] = <<>> \/ \E x \in Trade : Pending(t, x)'
    PROVE  TradesOK'
<1>1. Made \subseteq Trade
  BY DEF Made, IndInv, Typed, TypeOK
<1>2. \A y \in Made' : Numbered(y)'
  BY <1>1, NumberedStays DEF IndInv, TradesOK
<1>3. ASSUME NEW u \in Tasks, u # t, out'[u] # <<>> PROVE \E x \in Trade : Pending(u, x)'
  <2>1. PICK x \in Trade : Pending(u, x)
    BY <1>3 DEF IndInv, TradesOK
  <2>2. Numbered(x)'
    BY <2>1, NumberedStays DEF Pending
  <2> QED
    BY <1>3, <2>1, <2>2 DEF Pending, Later
<1> QED
  BY <1>2, <1>3 DEF TradesOK

\* An order is taken: the numbers of its task grow.
LEMMA OrderTaken ==
    ASSUME IndInv, NEW t \in Tasks, NEW o \in Orders, TakeOrder(t, o), NEW n \in Nat,
           seq' = [seq EXCEPT ![t] = @ + n], book' \in [Tasks -> SUBSET Orders],
           out' \in [Tasks -> Seq(Trade)], \A u \in Tasks : u # t => out'[u] = out[u],
           out'[t] = <<>> \/ \E x \in Trade : Pending(t, x)',
           UNCHANGED <<map, state, spawned, consumers, stores, unlogged, restarts>>
    PROVE  IndInv'
<1> USE DEF consumers, stores
<1>1. seq' \in [Tasks -> Nat] /\ \A u \in Tasks : seq[u] <= seq'[u]
  BY DEF IndInv, Typed, TypeOK
<1>2. handled' \in [Orders -> Nat]
  BY DEF TakeOrder, IndInv, Typed, TypeOK
<1>3. /\ queue' \in [Tasks -> Seq(Commands)]
      /\ \A u \in Tasks : queue'[u] \in Seq(Commands) /\ Len(queue'[u]) <= Capacity
  BY TakeOK DEF TakeOrder, IndInv
<1>4. Typed'
  BY <1>1, <1>2, <1>3 DEF IndInv, Typed, TypeOK
<1>5. ConsumersOK' /\ TasksOK'
  BY DEF IndInv, ConsumersOK, TasksOK, Live
<1>6. TradesOK' /\ LogOK'
  BY <1>1, TradesStep, LogKept DEF Made
<1> QED
  BY <1>4, <1>5, <1>6 DEF IndInv

\* A task that takes an order has no trade to log, and its numbers bound its trades.
LEMMA TakenOut ==
    ASSUME IndInv, NEW t \in Tasks, NEW o \in Orders, TakeOrder(t, o)
    PROVE  /\ out[t] = <<>> /\ state[t] = "running" /\ t <= spawned
           /\ seq[t] \in Nat /\ t \in Nat
           /\ \A y \in Made : y.task = t =>
                 /\ y.type \in {"clob", "amm"} /\ y.seq \in Nat
                 /\ y.type = "clob" => y.seq <= seq[t]
                 /\ y.type = "amm" => y.seq <= seq[t] + 1
<1>1. out[t] = <<>> /\ state[t] = "running"
  BY DEF TakeOrder, Take, MayTake
<1>2. t <= spawned /\ t \in Nat
  BY <1>1, BoundAssumption DEF IndInv, TasksOK, Live, Tasks
<1>3. seq[t] \in Nat /\ Made \subseteq Trade
  BY DEF Made, IndInv, Typed, TypeOK
<1> QED
  BY <1>1, <1>2, <1>3 DEF IndInv, TradesOK, Numbered, Trade

\* An order that rests makes no trade.
LEMMA RestStep ==
    ASSUME IndInv, NEW t \in Tasks, NEW o \in Orders, Rest(t, o) PROVE IndInv'
<1>1. book' \in [Tasks -> SUBSET Orders] /\ out' \in [Tasks -> Seq(Trade)]
  BY DEF Rest, IndInv, Typed, TypeOK
<1> QED
  BY <1>1, TakenOut, OrderTaken DEF Rest

\* Its trade's number is above all the CLOB trades of the task.
LEMMA MatchClobStep ==
    ASSUME IndInv, NEW t \in Tasks, NEW o \in Orders, MatchClob(t, o) PROVE IndInv'
<1> DEFINE x == [task |-> t, seq |-> seq[t] + 1, type |-> "clob"]
<1>1. TakeOrder(t, o) /\ seq' = [seq EXCEPT ![t] = @ + 2] /\ out' = [out EXCEPT ![t] = <<x>>]
      /\ UNCHANGED <<map, state, spawned, consumers, stores, unlogged, restarts>>
  BY DEF MatchClob
<1>2. book' \in [Tasks -> SUBSET Orders]
  BY DEF MatchClob, IndInv, Typed, TypeOK
<1>3. PICK y : y = x
  OBVIOUS
<1>4. y \in Trade /\ y.task = t /\ y.type = "clob" /\ y.seq = seq[t] + 1
  BY <1>1, <1>3, TakenOut DEF Trade
<1>5. out' \in [Tasks -> Seq(Trade)] /\ out'[t] = <<y>> /\ \A u \in Tasks : u # t => out'[u] = out[u]
  BY <1>1, <1>3, <1>4 DEF IndInv, Typed
<1>6. seq'[t] = seq[t] + 2
  BY <1>1 DEF IndInv, Typed, TypeOK
<1>7. Pending(t, y)'
  <2>1. Numbered(y)'
    BY <1>1, <1>4, <1>6, TakenOut DEF Numbered
  <2>2. \A z \in Made' : z.task = t => Later(y, z)
    BY <1>1, <1>4, TakenOut DEF Later, Made, stores
  <2> QED
    BY <1>1, <1>4, <1>5, <2>1, <2>2, TakenOut DEF Pending, Later
<1> QED
  BY <1>1, <1>2, <1>4, <1>5, <1>7, OrderTaken

\* The number of an AMM trade is above all the numbers of the task.
LEMMA FillAmmStep ==
    ASSUME IndInv, NEW t \in Tasks, NEW o \in Orders, FillAmm(t, o) PROVE IndInv'
<1> DEFINE x == [task |-> t, seq |-> seq'[t] + 1, type |-> "amm"]
<1>1. TakeOrder(t, o) /\ seq' = [seq EXCEPT ![t] = @ + 1] /\ out' = [out EXCEPT ![t] = <<x>>]
      /\ UNCHANGED <<map, state, spawned, consumers, stores, unlogged, restarts>>
  BY DEF FillAmm
<1>2. book' \in [Tasks -> SUBSET Orders] /\ seq'[t] = seq[t] + 1
  BY <1>1 DEF FillAmm, IndInv, Typed, TypeOK
<1>3. PICK y : y = x
  OBVIOUS
<1>4. y \in Trade /\ y.task = t /\ y.type = "amm" /\ y.seq = seq[t] + 2
  BY <1>1, <1>2, <1>3, TakenOut DEF Trade
<1>5. out' \in [Tasks -> Seq(Trade)] /\ out'[t] = <<y>> /\ \A u \in Tasks : u # t => out'[u] = out[u]
  BY <1>1, <1>3, <1>4 DEF IndInv, Typed
<1>6. Pending(t, y)'
  <2>1. Numbered(y)'
    BY <1>1, <1>2, <1>4, TakenOut DEF Numbered
  <2>2. \A z \in Made' : z.task = t => Later(y, z)
    BY <1>1, <1>4, TakenOut DEF Later, Made, stores
  <2> QED
    BY <1>1, <1>4, <1>5, <2>1, <2>2, TakenOut DEF Pending, Later
<1> QED
  BY <1>1, <1>2, <1>4, <1>5, <1>6, OrderTaken

\* The task's channel and its book are gone, it leaves the map or not.
LEMMA TaskEnds ==
    ASSUME IndInv, NEW t \in Tasks, Live(t), out[t] = <<>>,
           map' \in {0, map}, state'[t] \in {"stopping", "panicked", "gone"},
           map' = 0 => state'[t] = "gone",
           state' \in [Tasks -> {"unborn", "running", "stopping", "gone", "panicked"}],
           \A u \in Tasks : u # t => state'[u] = state[u],
           queue' \in [Tasks -> Seq(Commands)],
           \A u \in Tasks : queue'[u] \in Seq(Commands) /\ Len(queue'[u]) <= Capacity,
           book' \in [Tasks -> SUBSET Orders], handled' \in [Orders -> Nat],
           UNCHANGED <<seq, out, spawned, consumers, stores, unlogged, restarts>>
    PROVE  IndInv'
<1> USE DEF consumers, stores
<1>1. Typed'
  <2>1. map' \in 0..MaxTasks
    BY BoundAssumption DEF IndInv, Typed, TypeOK
  <2>2. UNCHANGED <<seq, out, spawned, order, void, client, snapshots, wal, inserting,
                    publishing, trades, topic, unlogged, restarts>>
    OBVIOUS
  <2> QED
    BY <2>1, <2>2 DEF IndInv, Typed, TypeOK
<1>2. map = t /\ t # 0
  BY BoundAssumption DEF IndInv, TasksOK, Tasks
<1>3. ConsumersOK' /\ TasksOK'
  BY <1>2 DEF IndInv, ConsumersOK, TasksOK, Live
<1>4. \A u \in Tasks : seq[u] <= seq'[u]
  BY DEF IndInv, Typed, TypeOK
<1>5. TradesOK' /\ LogOK'
  BY <1>1, <1>4, TradesStep, LogKept DEF Typed, TypeOK, Made
<1> QED
  BY <1>1, <1>3, <1>5 DEF IndInv

\* A panic drops the channel with the task.
LEMMA PanicStep ==
    ASSUME IndInv, NEW t \in Tasks, NEW o \in Orders, Panic(t, o) PROVE IndInv'
<1> USE DEF Panic
<1>1. Live(t) /\ out[t] = <<>>
  BY DEF MayTake, Live
<1>2. /\ state' \in [Tasks -> {"unborn", "running", "stopping", "gone", "panicked"}]
      /\ state'[t] = "panicked" /\ \A u \in Tasks : u # t => state'[u] = state[u]
  BY DEF IndInv, Typed, TypeOK
<1>3. /\ queue' \in [Tasks -> Seq(Commands)]
      /\ \A u \in Tasks : queue'[u] \in Seq(Commands) /\ Len(queue'[u]) <= Capacity
  BY BoundAssumption DEF IndInv, Typed, TypeOK
<1>4. book' \in [Tasks -> SUBSET Orders] /\ handled' \in [Orders -> Nat]
  BY DEF IndInv, Typed, TypeOK
<1>5. map' = map /\ map # 0
  BY <1>1, BoundAssumption DEF IndInv, TasksOK, Tasks
<1> QED
  BY <1>1, <1>2, <1>3, <1>4, <1>5, TaskEnds

\* A void stops the task.
LEMMA TakeVoidStep ==
    ASSUME IndInv, NEW t \in Tasks, TakeVoid(t) PROVE IndInv'
<1> USE DEF TakeVoid
<1>1. Live(t) /\ out[t] = <<>>
  BY DEF Take, MayTake, Live
<1>2. /\ state' \in [Tasks -> {"unborn", "running", "stopping", "gone", "panicked"}]
      /\ state'[t] = "stopping" /\ \A u \in Tasks : u # t => state'[u] = state[u]
  BY DEF IndInv, Typed, TypeOK
<1>3. /\ queue' \in [Tasks -> Seq(Commands)]
      /\ \A u \in Tasks : queue'[u] \in Seq(Commands) /\ Len(queue'[u]) <= Capacity
  BY TakeOK DEF IndInv
<1>4. book' \in [Tasks -> SUBSET Orders] /\ handled' \in [Orders -> Nat]
  BY DEF IndInv, Typed, TypeOK
<1>5. map' = map /\ map # 0
  BY <1>1, BoundAssumption DEF IndInv, TasksOK, Tasks
<1> QED
  BY <1>1, <1>2, <1>3, <1>4, <1>5, TaskEnds

\* A stopped task leaves the map.
LEMMA ExitStep ==
    ASSUME IndInv, NEW t \in Tasks, Exit(t) PROVE IndInv'
<1> USE DEF Exit
<1>1. Live(t) /\ out[t] = <<>>
  BY DEF Live, IndInv, TradesOK, Pending
<1>2. /\ state' \in [Tasks -> {"unborn", "running", "stopping", "gone", "panicked"}]
      /\ state'[t] = "gone" /\ \A u \in Tasks : u # t => state'[u] = state[u]
  BY DEF IndInv, Typed, TypeOK
<1>3. /\ queue' \in [Tasks -> Seq(Commands)]
      /\ \A u \in Tasks : queue'[u] \in Seq(Commands) /\ Len(queue'[u]) <= Capacity
  BY BoundAssumption DEF IndInv, Typed, TypeOK
<1>4. book' \in [Tasks -> SUBSET Orders] /\ handled' \in [Orders -> Nat]
  BY DEF IndInv, Typed, TypeOK
<1> QED
  BY <1>1, <1>2, <1>3, <1>4, TaskEnds

\* A snapshot is answered.
LEMMA TakeSnapshotStep ==
    ASSUME IndInv, NEW t \in Tasks, TakeSnapshot(t) PROVE IndInv'
<1> USE DEF TakeSnapshot, stores
<1>1. /\ queue' \in [Tasks -> Seq(Commands)]
      /\ \A u \in Tasks : queue'[u] \in Seq(Commands) /\ Len(queue'[u]) <= Capacity
  BY TakeOK DEF IndInv
<1>2. Typed'
  BY <1>1, NoClientOK DEF IndInv, Typed, TypeOK
<1>3. ConsumersOK' /\ TasksOK'
  BY DEF IndInv, ConsumersOK, TasksOK, Live, NoClient
<1>4. TradesOK' /\ LogOK'
  BY TradesKept, LogKept DEF Made
<1> QED
  BY <1>2, <1>3, <1>4 DEF IndInv

\* The number the trade overwrites is that of a task before, or of an AMM trade.
LEMMA LogTradeStep ==
    ASSUME IndInv, NEW t \in Tasks, LogTrade(t) PROVE IndInv'
<1> USE DEF LogTrade, consumers
<1>1. PICK x \in Trade : Pending(t, x)
  BY DEF IndInv, TradesOK
<1>2. Head(out[t]) = x /\ Tail(out[t]) = <<>>
  BY <1>1 DEF Pending
<1>3. /\ inserting' = inserting \cup {x} /\ publishing' = publishing \cup {x}
      /\ \/ wal' = Logged(x) /\ unlogged' = unlogged
         \/ unlogged' = unlogged \cup {x} /\ wal' = wal
  BY <1>2
<1>4. /\ out' \in [Tasks -> Seq(Trade)] /\ out'[t] = <<>>
      /\ \A u \in Tasks : u # t => out'[u] = out[u]
  <2>1. out \in [Tasks -> Seq(Trade)] /\ out' = [out EXCEPT ![t] = Tail(out[t])]
    BY DEF IndInv, Typed
  <2>2. <<>> \in Seq(Trade)
    OBVIOUS
  <2> QED
    BY <1>2, <2>1, <2>2
<1>5. \A n \in DOMAIN wal' : wal'[n] \in Trade /\ wal'[n].seq = n
  <2>1. \A n \in DOMAIN wal : wal[n] \in Trade /\ wal[n].seq = n
    BY DEF IndInv, Typed, TypeOK
  <2>2. CASE wal' = Logged(x)
    BY <2>1, <2>2 DEF Logged
  <2> QED
    BY <1>3, <2>1, <2>2
<1>6. Typed'
  BY <1>3, <1>4, <1>5 DEF IndInv, Typed, TypeOK
<1>7. ConsumersOK' /\ TasksOK'
  BY DEF IndInv, ConsumersOK, TasksOK, Live
<1>8. Made' = Made \cup {x} /\ Made \subseteq Trade
  BY <1>3 DEF Made, IndInv, Typed, TypeOK
<1>9. state[t] = "running" /\ map = t /\ t = spawned /\ t # 0
  BY <1>1, BoundAssumption DEF Pending, IndInv, TasksOK, Live, Tasks
<1>10. TradesOK'
  <2>1. \A y \in Made' : Numbered(y)'
    BY <1>1, <1>8 DEF IndInv, TradesOK, Numbered, Pending
  <2>2. ASSUME NEW u \in Tasks PROVE out'[u] = <<>>
    <3>1. u # t => out[u] = <<>>
      BY <1>9 DEF IndInv, TradesOK, TasksOK, Pending, Live
    <3> QED
      BY <1>4, <3>1
  <2> QED
    BY <2>1, <2>2 DEF TradesOK
<1>11. LogOK'
  <2> SUFFICES ASSUME NEW y \in Made', y \notin unlogged'
               PROVE  y.seq \in DOMAIN wal' /\ Supersedes(wal'[y.seq], y)
    BY DEF LogOK
  <2>1. y \in Trade /\ y.task \in Nat /\ y.seq \in Nat /\ x.task = t /\ x.seq \in Nat
    BY <1>1, <1>8, BoundAssumption DEF Trade, Tasks, Pending
  <2>2. CASE y \in Made /\ (wal' = wal \/ y.seq # x.seq)
    BY <1>3, <2>2 DEF IndInv, LogOK, Logged
  <2>3. CASE wal' = Logged(x) /\ y.seq = x.seq
    <3>1. y.seq \in DOMAIN wal' /\ wal'[y.seq] = x
      BY <2>3 DEF Logged
    <3>2. CASE y = x
      BY <3>1, <3>2 DEF Supersedes
    <3>3. CASE y \in Made /\ y.task = t
      BY <1>1, <2>1, <2>3, <3>1, <3>3 DEF Pending, Later, Supersedes
    <3>4. CASE y \in Made /\ y.task # t
      <4>1. y.task <= t
        BY <1>9, <3>4 DEF IndInv, TradesOK, Numbered
      <4>2. t \in Nat /\ x.task > y.task
        BY <2>1, <3>4, <4>1, BoundAssumption DEF Tasks
      <4> QED
        BY <3>1, <4>2 DEF Supersedes
    <3> QED
      BY <1>8, <3>2, <3>3, <3>4
  <2> QED
    BY <1>3, <1>8, <2>2, <2>3
<1> QED
  BY <1>6, <1>7, <1>10, <1>11 DEF IndInv

-----------------------------------------------------------------------------
(* Detached tasks, and the process *)

\* The detached inserts and publications, which only move trades on.
LEMMA DetachedStep ==
    ASSUME IndInv, NEW x \in Made, InsertTrade(x) \/ PublishTrade(x) PROVE IndInv'
<1> USE DEF InsertTrade, PublishTrade, taskVars, consumers
<1>1. Made' \subseteq Made
  BY DEF Made
<1>2. Typed'
  BY DEF IndInv, Typed, TypeOK
<1>3. ConsumersOK' /\ TasksOK'
  BY DEF IndInv, ConsumersOK, TasksOK, Live
<1>4. TradesOK' /\ LogOK'
  BY <1>1, TradesKept, LogKept
<1> QED
  BY <1>2, <1>3, <1>4 DEF IndInv

\* No task lives on; the log and the numbers that were given out are kept.
LEMMA RestartStep == ASSUME IndInv, Restart PROVE IndInv'
<1> USE DEF Restart
<1>1. /\ order' \in Consumer(Len(OrderLog)) /\ order'.done = order'.read /\ order'.tx = 0
      /\ void' \in Consumer(Voids) /\ void'.done = void'.read /\ void'.tx = 0
  <2>1. ASSUME NEW n \in Nat, NEW c \in Consumer(n), NEW k \in MayBeCommitted(c)
        PROVE  FromOffset(k) \in Consumer(n)
    BY BoundAssumption DEF MayBeCommitted, Consumer, FromOffset
  <2>2. /\ \E k \in MayBeCommitted(order) : order' = FromOffset(k)
        /\ \E k \in MayBeCommitted(void) : void' = FromOffset(k)
    OBVIOUS
  <2>3. order' \in Consumer(Len(OrderLog)) /\ void' \in Consumer(Voids)
    BY <2>1, <2>2, ConsumerTypes
  <2>4. /\ order'.done = order'.read /\ order'.tx = 0
        /\ void'.done = void'.read /\ void'.tx = 0
    BY <2>2 DEF FromOffset
  <2> QED
    BY <2>3, <2>4
<1>2. client' \in [at : {"idle", "sending", "waiting"}, tx : 0..MaxTasks] /\ client'.at = "idle"
  BY NoClientOK DEF NoClient
<1>3. restarts' \in 0..MaxRestarts
  BY BoundAssumption DEF IndInv, Typed, TypeOK
<1>4. /\ state' \in [Tasks -> {"unborn", "running", "stopping", "gone", "panicked"}]
      /\ \A t \in Tasks : state'[t] \in {"unborn", "gone"}
  OBVIOUS
<1>5. /\ queue' \in [Tasks -> Seq(Commands)] /\ out' \in [Tasks -> Seq(Trade)]
      /\ \A t \in Tasks : /\ queue'[t] \in Seq(Commands) /\ Len(queue'[t]) <= Capacity
                            /\ out'[t] \in Seq(Trade)
  BY BoundAssumption
<1>6. map' \in 0..MaxTasks /\ book' \in [Tasks -> SUBSET Orders] /\ inserting' \subseteq Trade
      /\ publishing' \subseteq Trade
  BY BoundAssumption DEF NoBook
<1>7. /\ map' = 0 /\ \A t \in Tasks : out'[t] = <<>>
      /\ UNCHANGED <<seq, spawned, snapshots, wal, trades, topic, handled, unlogged>>
      /\ Made' \subseteq Made
  BY DEF Made
<1> HIDE DEF Restart
<1>8. Typed'
  BY <1>1, <1>2, <1>3, <1>4, <1>5, <1>6, <1>7 DEF IndInv, Typed, TypeOK
<1>9. ConsumersOK' /\ TasksOK'
  BY <1>1, <1>2, <1>4, <1>7 DEF ConsumersOK, TasksOK, Live
<1>10. TradesOK'
  BY <1>7 DEF IndInv, TradesOK, Numbered
<1>11. LogOK'
  BY <1>7, LogKept
<1> QED
  BY <1>8, <1>9, <1>10, <1>11 DEF IndInv

\* Nothing happens.
LEMMA StutterStep == ASSUME IndInv, UNCHANGED vars PROVE IndInv'
<1> USE DEF vars, taskVars, consumers, stores
<1>1. Typed'
  BY DEF IndInv, Typed, TypeOK
<1>2. ConsumersOK' /\ TasksOK'
  BY DEF IndInv, ConsumersOK, TasksOK, Live
<1>3. TradesOK' /\ LogOK'
  BY TradesKept, LogKept DEF Made
<1> QED
  BY <1>1, <1>2, <1>3 DEF IndInv

\* Every step keeps the invariant.
LEMMA NextOK == IndInv /\ [Next]_vars => IndInv'
<1> SUFFICES ASSUME IndInv, [Next]_vars PROVE IndInv'
  OBVIOUS
<1>1. CASE ConsumeOrders
  BY <1>1, SkipOrderStep, SendOrderStep, SubmitOrderStep DEF ConsumeOrders
<1>2. CASE ConsumeVoids
  BY <1>2, ReceiveVoidStep, SendVoidStep DEF ConsumeVoids
<1>3. CASE GetSnapshot \/ Client
  BY <1>3, GetSnapshotStep, SendSnapshotStep, SnapshotDroppedStep DEF Client
<1>4. CASE \E t \in Tasks : Process(t)
  BY <1>4, RestStep, MatchClobStep, FillAmmStep, PanicStep, LogTradeStep, TakeSnapshotStep,
     TakeVoidStep, ExitStep DEF Process
<1>5. CASE \/ \E x \in inserting : InsertTrade(x)
           \/ \E x \in publishing : PublishTrade(x)
  BY <1>5, DetachedStep DEF Made
<1>6. CASE Restart
  BY <1>6, RestartStep
<1> QED
  BY <1>1, <1>2, <1>3, <1>4, <1>5, <1>6, StutterStep DEF Next

\* The invariant holds of every behaviour.
LEMMA IndInvHolds == Spec => []IndInv
  BY InitOK, NextOK, PTL DEF Spec

-----------------------------------------------------------------------------
(* The theorems on types, tasks and trades *)

\* Channels never hold more than their capacity, consumers send only what they
\* have read, and the tables hold trades of tasks that exist.
THEOREM TypeCorrect == Spec => []TypeOK
  BY IndInvHolds, IndInvTypes, PTL

\* One task of the market takes orders at a time, whatever voids, panics and
\* restarts happen, and it is the one in the map.
THEOREM OneWriter == Spec => []SingleWriter
  BY IndInvHolds, IndInvWriter, PTL

\* A trade in the table or on the topic was logged before, unless that failed,
\* and only a later trade has taken its place in the log.
THEOREM LoggedBeforeVisible == Spec => []VisibleIsLogged
  BY IndInvHolds, IndInvLogged, PTL

-----------------------------------------------------------------------------
(* The account of the orders *)

\* Consumers and calls send to tasks that were spawned; a channel that holds
\* anything is that of a live task.
Channels ==
    /\ \A t \in Tasks : state[t] = "unborn" <=> ~(t <= spawned)
    /\ order.tx <= spawned /\ void.tx <= spawned /\ client.tx <= spawned
    /\ \A t \in Tasks : ~Live(t) => queue[t] = <<>>

InHand(o)  == IF order.tx # 0 /\ OrderLog[order.read] = o THEN 1 ELSE 0
Waiting(o) == (IF map = 0 THEN 0 ELSE Copies(o, queue[map])) + InHand(o)
Read(o)    == Cardinality({n \in 1..order.read : OrderLog[n] = o})

\* A delivery of an order makes it wait or be taken once.
Taken == \A o \in Orders :
    handled[o] + Waiting(o) <= restarts * Copies(o, OrderLog) + Read(o)

Untroubled == /\ restarts = 0 /\ void.read = 0
              /\ \A t \in Tasks : state[t] # "panicked"

\* Until a void, a panic or a restart no task stops, and no order gets lost.
Kept == Untroubled =>
    /\ \A t \in Tasks : state[t] \in {"unborn", "running"} /\ "void" \notin ToSet(queue[t])
    /\ \A o \in Orders : Delivered(o) /\ o \notin Malformed => handled[o] > 0 \/ InChannel(o)

OrdInv == Channels /\ Taken /\ Kept

-----------------------------------------------------------------------------
(* Counting *)

\* The places of an order in a sequence are finitely many.
LEMMA PlacesFinite ==
    ASSUME NEW S, NEW s \in Seq(S), NEW o
    PROVE  /\ {n \in DOMAIN s : s[n] = o} \subseteq 1..Len(s)
           /\ IsFiniteSet({n \in DOMAIN s : s[n] = o})
           /\ Copies(o, s) \in Nat
<1>1. Len(s) \in Nat /\ DOMAIN s = 1..Len(s)
  OBVIOUS
<1>2. IsFiniteSet(1..Len(s))
  BY <1>1, FS_Interval
<1>3. PICK P : P = {n \in DOMAIN s : s[n] = o}
  OBVIOUS
<1>4. P \subseteq 1..Len(s)
  BY <1>1, <1>3
<1>5. IsFiniteSet(P)
  BY <1>2, <1>4, FS_Subset
<1>6. Cardinality(P) \in Nat
  BY <1>5, FS_CardinalityType
<1> QED
  BY <1>3, <1>4, <1>5, <1>6 DEF Copies

\* An empty sequence holds none.
LEMMA CopiesNone == ASSUME NEW o PROVE Copies(o, <<>>) = 0
<1>1. {n \in DOMAIN <<>> : <<>>[n] = o} = {}
  OBVIOUS
<1> QED
  BY <1>1, FS_EmptySet DEF Copies

\* A command at the end of a channel is one more of itself, and of no other.
LEMMA CopiesAppend ==
    ASSUME NEW S, NEW s \in Seq(S), NEW c \in S, NEW o
    PROVE  /\ o # c => Copies(o, Append(s, c)) <= Copies(o, s)
           /\ Copies(o, Append(s, c)) <= Copies(o, s) + 1
<1>1. PICK r, P, Q, n : /\ r = Append(s, c) /\ P = {i \in DOMAIN s : s[i] = o}
                        /\ Q = {i \in DOMAIN r : r[i] = o} /\ n = Len(s) + 1
  OBVIOUS
<1>2. /\ r \in Seq(S) /\ Len(s) \in Nat /\ DOMAIN r = 1..n /\ DOMAIN s = 1..Len(s)
      /\ r[n] = c /\ \A i \in 1..Len(s) : r[i] = s[i]
  BY <1>1
<1>3. Q \subseteq P \cup {n} /\ (o # c => Q \subseteq P)
  BY <1>1, <1>2
<1>4. IsFiniteSet(P) /\ Copies(o, s) = Cardinality(P) /\ Copies(o, r) = Cardinality(Q)
      /\ Cardinality(P) \in Nat
  BY <1>1, PlacesFinite DEF Copies
<1>5. PICK R : R = P \cup {n}
  OBVIOUS
<1>6. IsFiniteSet(R) /\ (n \in P \/ Cardinality(R) = Cardinality(P) + 1) /\ (n \in P => R = P)
  BY <1>4, <1>5, FS_AddElement
<1>7. Cardinality(Q) <= Cardinality(R) /\ (o # c => Cardinality(Q) <= Cardinality(P))
  BY <1>3, <1>4, <1>5, <1>6, FS_Subset
<1>8. IsFiniteSet(Q)
  BY <1>3, <1>5, <1>6, FS_Subset
<1>9. Cardinality(Q) \in Nat /\ Cardinality(R) \in Nat
  BY <1>6, <1>8, FS_CardinalityType
<1>10. PICK p, q, k : p = Cardinality(P) /\ q = Cardinality(Q) /\ k = Cardinality(R)
  OBVIOUS
<1>11. /\ p \in Nat /\ q \in Nat /\ k \in Nat /\ q <= k /\ (o # c => q <= p)
       /\ k = p + 1 \/ k = p
  BY <1>4, <1>6, <1>7, <1>9, <1>10
<1>12. (o # c => q <= p) /\ q <= p + 1
  BY <1>11
<1> QED
  BY <1>1, <1>4, <1>10, <1>12

\* The command that is taken from a channel leaves one less of itself in it.
LEMMA CopiesTail ==
    ASSUME NEW S, NEW s \in Seq(S), s # <<>>, NEW o
    PROVE  /\ Copies(o, Tail(s)) <= Copies(o, s)
           /\ o = Head(s) => Copies(o, Tail(s)) <= Copies(o, s) - 1
<1>1. PICK r, P, Q, R : /\ r = Tail(s) /\ P = {i \in DOMAIN s : s[i] = o}
                        /\ Q = {i \in DOMAIN r : r[i] = o} /\ R = P \ {1}
  OBVIOUS
<1>2. /\ r \in Seq(S) /\ Len(s) \in Nat /\ Len(s) >= 1 /\ DOMAIN s = 1..Len(s)
      /\ Len(r) = Len(s) - 1 /\ DOMAIN r = 1..Len(r)
      /\ \A i \in 1..Len(r) : r[i] = s[i + 1]
  BY <1>1
<1> DEFINE f == [i \in Q |-> i + 1]
<1>3. \A i \in Q : i \in 1..Len(r) /\ i + 1 \in DOMAIN s /\ s[i + 1] = o /\ i + 1 # 1
  BY <1>1, <1>2
<1>4. \A i \in Q : f[i] \in R
  BY <1>1, <1>3
<1>5. f \in Injection(Q, R)
  BY <1>3, <1>4 DEF Injection, IsInjective
<1> HIDE DEF f
<1>6. IsFiniteSet(P) /\ Cardinality(P) \in Nat /\ Copies(o, s) = Cardinality(P)
      /\ Copies(o, r) = Cardinality(Q)
  BY <1>1, PlacesFinite DEF Copies
<1>7. IsFiniteSet(R) /\ Cardinality(R) = IF 1 \in P THEN Cardinality(P) - 1 ELSE Cardinality(P)
  BY <1>1, <1>6, FS_RemoveElement
<1>8. Cardinality(Q) <= Cardinality(R)
  BY <1>5, <1>7, FS_Injection
<1>9. o = Head(s) => 1 \in P
  BY <1>1, <1>2
<1>10. IsFiniteSet(Q)
  BY <1>5, <1>7, FS_Injection
<1>11. Cardinality(Q) \in Nat /\ Cardinality(R) \in Nat
  BY <1>7, <1>10, FS_CardinalityType
<1>12. PICK p, q, k : p = Cardinality(P) /\ q = Cardinality(Q) /\ k = Cardinality(R)
  OBVIOUS
<1>13. /\ p \in Nat /\ q \in Nat /\ k \in Nat /\ q <= k
       /\ k = p \/ k = p - 1
       /\ o = Head(s) => k = p - 1
  BY <1>6, <1>7, <1>8, <1>9, <1>11, <1>12
<1>14. q <= p /\ (o = Head(s) => q <= p - 1)
  BY <1>13
<1> QED
  BY <1>1, <1>6, <1>12, <1>14

\* Some of the messages of an order are among those read.
LEMMA ReadWithin ==
    ASSUME IndInv, NEW o \in Orders
    PROVE  Read(o) \in Nat /\ Read(o) <= Copies(o, OrderLog) /\ Copies(o, OrderLog) \in Nat
<1>1. order.read \in 0..Len(OrderLog) /\ Len(OrderLog) \in Nat
  BY ConsumerTypes DEF Consumer
<1>2. PICK P, Q : /\ P = {n \in 1..order.read : OrderLog[n] = o}
                  /\ Q = {n \in DOMAIN OrderLog : OrderLog[n] = o}
  OBVIOUS
<1>3. P \subseteq Q
  BY <1>1, <1>2, LogAssumption
<1>4. IsFiniteSet(Q) /\ Cardinality(Q) \in Nat
  BY <1>2, LogAssumption, PlacesFinite DEF Copies
<1>5. IsFiniteSet(P) /\ Cardinality(P) <= Cardinality(Q)
  BY <1>3, <1>4, FS_Subset
<1>6. Cardinality(P) \in Nat
  BY <1>5, FS_CardinalityType
<1> QED
  BY <1>2, <1>4, <1>5, <1>6 DEF Read, Copies

\* One more message is read.
LEMMA ReadNext ==
    ASSUME IndInv, order.read < Len(OrderLog), order'.read = order.read + 1,
           NEW o \in Orders
    PROVE  /\ Read(o)' \in Nat /\ Read(o) <= Read(o)'
           /\ OrderLog[order.read + 1] = o => Read(o)' = Read(o) + 1
<1>1. PICK n, P, Q : /\ n = order.read + 1 /\ P = {m \in 1..order.read : OrderLog[m] = o}
                     /\ Q = {m \in 1..order'.read : OrderLog[m] = o}
  OBVIOUS
<1>2. order.read \in Nat
  BY ConsumerTypes DEF Consumer
<1>3. n \notin P /\ IF OrderLog[n] = o THEN Q = P \cup {n} ELSE Q = P
  BY <1>1, <1>2
<1>4. IsFiniteSet(P)
  <2>1. IsFiniteSet(1..order.read)
    BY <1>2, FS_Interval
  <2>2. P \subseteq 1..order.read
    BY <1>1
  <2> QED
    BY <2>1, <2>2, FS_Subset
<1>5. Cardinality(P) \in Nat
  BY <1>4, FS_CardinalityType
<1>6. IF OrderLog[n] = o THEN Cardinality(Q) = Cardinality(P) + 1 ELSE Cardinality(Q) = Cardinality(P)
  BY <1>3, <1>4, FS_AddElement
<1>7. Read(o) = Cardinality(P) /\ Read(o)' = Cardinality(Q)
  BY <1>1 DEF Read
<1> QED
  BY <1>1, <1>5, <1>6, <1>7

\* What waits, is taken and may be taken is counted in natural numbers.
LEMMA CountTypes ==
    ASSUME IndInv, NEW o \in Orders
    PROVE  /\ handled[o] \in Nat /\ InHand(o) \in {0, 1} /\ Waiting(o) \in Nat
           /\ \A t \in Tasks : Copies(o, queue[t]) \in Nat
           /\ restarts * Copies(o, OrderLog) \in Nat
<1>1. handled[o] \in Nat /\ restarts \in Nat /\ map \in 0..MaxTasks
  BY BoundAssumption DEF IndInv, Typed, TypeOK
<1>2. \A t \in Tasks : Copies(o, queue[t]) \in Nat
  BY PlacesFinite DEF IndInv, Typed, TypeOK
<1>3. InHand(o) \in {0, 1}
  BY DEF InHand
<1>4. PICK k : k = Copies(o, OrderLog)
  OBVIOUS
<1>5. k \in Nat
  BY <1>4, ReadWithin
<1>6. map # 0 => map \in Tasks
  BY <1>1, BoundAssumption DEF Tasks
<1>7. Waiting(o) \in Nat
  BY <1>2, <1>3, <1>6 DEF Waiting
<1> QED
  BY <1>1, <1>2, <1>3, <1>4, <1>5, <1>7

\* So they are after a step.
LEMMA CountTypesNext ==
    ASSUME IndInv', NEW o \in Orders
    PROVE  handled'[o] \in Nat /\ Waiting(o)' \in Nat /\ Read(o)' \in Nat
<1>1. handled'[o] \in Nat /\ map' \in 0..MaxTasks
  BY DEF IndInv, Typed, TypeOK
<1>2. \A t \in Tasks : Copies(o, queue'[t]) \in Nat
  BY PlacesFinite DEF IndInv, Typed, TypeOK
<1>3. InHand(o)' \in {0, 1}
  BY DEF InHand
<1>4. map' # 0 => map' \in Tasks
  BY <1>1, BoundAssumption DEF Tasks
<1>5. Waiting(o)' \in Nat
  BY <1>2, <1>3, <1>4 DEF Waiting, Copies
<1>6. order'.read \in Nat
  BY LogAssumption DEF IndInv, Typed, TypeOK, Consumer
<1>7. PICK P : P = {n \in 1..order'.read : OrderLog[n] = o}
  OBVIOUS
<1>8. IsFiniteSet(1..order'.read)
  BY <1>6, FS_Interval
<1>9. P \subseteq 1..order'.read
  BY <1>7
<1>10. IsFiniteSet(P)
  BY <1>8, <1>9, FS_Subset
<1>11. Cardinality(P) \in Nat
  BY <1>10, FS_CardinalityType
<1> QED
  BY <1>1, <1>5, <1>7, <1>11 DEF Read

\* What a channel holds after a command entered it, and before one was taken.
LEMMA AppendedSet ==
    ASSUME NEW S, NEW s \in Seq(S), NEW c \in S
    PROVE  ToSet(Append(s, c)) = ToSet(s) \cup {c}
<1>1. PICK r, n : r = Append(s, c) /\ n = Len(s) + 1
  OBVIOUS
<1>2. /\ Len(s) \in Nat /\ DOMAIN r = 1..n /\ DOMAIN s = 1..Len(s)
      /\ r[n] = c /\ \A i \in 1..Len(s) : r[i] = s[i]
  BY <1>1
<1>3. \A i \in 1..n : i = n \/ i \in 1..Len(s)
  BY <1>1, <1>2
<1>4. n \in 1..n /\ \A i \in 1..Len(s) : i \in 1..n
  BY <1>1, <1>2
<1>5. \A x : x \in ToSet(r) <=> x \in ToSet(s) \cup {c}
  BY <1>2, <1>3, <1>4 DEF ToSet
<1> QED
  BY <1>1, <1>5

\* What a channel held is what it holds still, and the command taken.
LEMMA TakenSet ==
    ASSUME NEW S, NEW s \in Seq(S), s # <<>>
    PROVE  ToSet(s) = ToSet(Tail(s)) \cup {Head(s)}
<1>1. PICK r, c, n : r = Tail(s) /\ c = Head(s) /\ n = Len(s)
  OBVIOUS
<1>2. /\ n \in Nat /\ n >= 1 /\ DOMAIN s = 1..n /\ DOMAIN r = 1..(n - 1)
      /\ s[1] = c /\ \A i \in 1..(n - 1) : r[i] = s[i + 1]
  BY <1>1
<1>3. \A i \in 1..n : i = 1 \/ (i - 1 \in 1..(n - 1) /\ s[i] = r[i - 1])
  BY <1>2
<1>4. 1 \in 1..n /\ \A i \in 1..(n - 1) : i + 1 \in 1..n
  BY <1>2
<1>5. ToSet(s) = {s[i] : i \in 1..n} /\ ToSet(r) = {r[i] : i \in 1..(n - 1)}
  BY <1>2 DEF ToSet
<1>6. \A x \in ToSet(s) : x \in ToSet(r) \cup {c}
  BY <1>2, <1>3, <1>5
<1>7. \A x \in ToSet(r) \cup {c} : x \in ToSet(s)
  BY <1>2, <1>4, <1>5
<1> QED
  BY <1>1, <1>6, <1>7

-----------------------------------------------------------------------------
(* What a step leaves of the account *)

\* Only the task in the map can be sent to.
LEMMA SentToLive ==
    ASSUME IndInv, Channels, NEW t \in Tasks, ~Closed(t), t <= spawned
    PROVE  Live(t) /\ map = t /\ t # 0
<1>1. Live(t)
  BY DEF Channels, Closed, Live, IndInv, Typed, TypeOK
<1> QED
  BY <1>1, BoundAssumption DEF IndInv, TasksOK, Tasks

\* Orders that wait move on to a task, and messages that are read come to wait.
LEMMA TakenStep ==
    ASSUME IndInv, IndInv', Taken, UNCHANGED restarts,
           \A o \in Orders : handled'[o] + Waiting(o)' + Read(o)
                                <= handled[o] + Waiting(o) + Read(o)'
    PROVE  Taken'
<1> SUFFICES ASSUME NEW o \in Orders
             PROVE  handled'[o] + Waiting(o)' <= restarts * Copies(o, OrderLog) + Read(o)'
  BY DEF Taken, Copies
<1>1. PICK h, w, r, k : /\ h = handled[o] /\ w = Waiting(o) /\ r = Read(o)
                        /\ k = restarts * Copies(o, OrderLog)
  OBVIOUS
<1>2. h \in Nat /\ w \in Nat /\ r \in Nat /\ k \in Nat /\ h + w <= k + r
  BY <1>1, CountTypes, ReadWithin DEF Taken
<1>3. handled'[o] + Waiting(o)' + r <= h + w + Read(o)'
  BY <1>1
<1>4. handled'[o] \in Nat /\ Waiting(o)' \in Nat /\ Read(o)' \in Nat
  BY CountTypesNext
<1> QED
  BY <1>1, <1>2, <1>3, <1>4

\* A step that takes no order and touches no channel.
LEMMA ChannelsKept ==
    ASSUME IndInv, OrdInv,
           UNCHANGED <<map, state, queue, spawned, order, handled, restarts>>,
           void'.read = 0 => void.read = 0, void'.tx <= spawned, client'.tx <= spawned
    PROVE  OrdInv'
<1>1. Channels'
  BY DEF OrdInv, Channels, Live
<1>2. Taken'
  BY DEF OrdInv, Taken, Waiting, InHand, Read, Copies
<1>3. Kept'
  BY DEF OrdInv, Kept, Untroubled, Delivered, InChannel
<1> QED
  BY <1>1, <1>2, <1>3 DEF OrdInv

\* A command that is no order enters the channel of the task in the map.
LEMMA CommandSent ==
    ASSUME IndInv, IndInv', OrdInv, NEW t \in Tasks, Live(t),
           NEW c \in {"void", "snapshot"}, Put(t, c), c = "void" => void.read # 0,
           UNCHANGED <<map, state, spawned, order, handled, restarts>>,
           void'.read = void.read, void'.tx <= spawned, client'.tx <= spawned
    PROVE  OrdInv'
<1>1. /\ queue \in [Tasks -> Seq(Commands)] /\ c \in Commands
      /\ queue'[t] = Append(queue[t], c) /\ \A u \in Tasks : u # t => queue'[u] = queue[u]
  BY DEF Put, IndInv, Typed, Commands
<1>2. Channels'
  BY <1>1 DEF OrdInv, Channels, Live
<1>3. Taken'
  <2> SUFFICES ASSUME NEW o \in Orders
               PROVE  handled'[o] + Waiting(o)' + Read(o) <= handled[o] + Waiting(o) + Read(o)'
    BY TakenStep DEF OrdInv
  <2>1. map = t /\ t # 0 /\ o # c
    BY LogAssumption, BoundAssumption DEF IndInv, TasksOK, Tasks
  <2>2. Copies(o, queue'[t]) <= Copies(o, queue[t])
    BY <1>1, <2>1, CopiesAppend
  <2>3. Waiting(o)' = Copies(o, queue'[t]) + InHand(o) /\ Waiting(o) = Copies(o, queue[t]) + InHand(o)
    BY <2>1 DEF Waiting, InHand, Copies
  <2>4. PICK a, b, h : a = Copies(o, queue'[t]) /\ b = Copies(o, queue[t]) /\ h = InHand(o)
    OBVIOUS
  <2>5. a \in Nat /\ b \in Nat /\ h \in Nat /\ a <= b
    <3>1. queue[t] \in Seq(Commands) /\ queue'[t] \in Seq(Commands)
      BY DEF IndInv, Typed, TypeOK
    <3>2. a \in Nat /\ b \in Nat
      BY <2>4, <3>1, PlacesFinite
    <3>3. h \in Nat
      BY <2>4, CountTypes
    <3> QED
      BY <2>2, <2>4, <3>2, <3>3
  <2>6. handled[o] \in Nat /\ Read(o) \in Nat /\ handled'[o] = handled[o] /\ Read(o)' = Read(o)
    BY CountTypes, ReadWithin DEF Read
  <2> QED
    BY <2>3, <2>4, <2>5, <2>6
<1>4. Kept'
  <2> SUFFICES ASSUME Untroubled'
               PROVE  /\ \A u \in Tasks : state'[u] \in {"unborn", "running"} /\ "void" \notin ToSet(queue'[u])
                      /\ \A o \in Orders : Delivered(o)' /\ o \notin Malformed => handled'[o] > 0 \/ InChannel(o)'
    BY DEF Kept
  <2>1. Untroubled /\ c # "void"
    BY DEF Untroubled
  <2>2. \A u \in Tasks : queue[u] \in Seq(Commands)
    BY <1>1
  <2>3. ToSet(queue'[t]) = ToSet(queue[t]) \cup {c}
    BY <1>1, <2>2, AppendedSet
  <2> QED
    BY <1>1, <2>1, <2>3 DEF OrdInv, Kept, Delivered, InChannel
<1> QED
  BY <1>2, <1>3, <1>4 DEF OrdInv

\* The task in the map takes command c from its channel.
LEMMA CommandTaken ==
    ASSUME IndInv, IndInv', OrdInv, NEW t \in Tasks, Take(t), NEW c, c = Head(queue[t]),
           handled' = IF c \in Orders THEN [handled EXCEPT ![c] = @ + 1] ELSE handled,
           UNCHANGED <<map, spawned, order, restarts, void>>, client'.tx <= spawned,
           \/ UNCHANGED state
           \/ c = "void" /\ state' = [state EXCEPT ![t] = "stopping"]
    PROVE  OrdInv'
<1>1. /\ queue \in [Tasks -> Seq(Commands)] /\ queue[t] # <<>> /\ state[t] = "running"
      /\ queue'[t] = Tail(queue[t]) /\ \A u \in Tasks : u # t => queue'[u] = queue[u]
  BY DEF Take, MayTake, IndInv, Typed
<1>2. Live(t) /\ map = t /\ t # 0
  BY <1>1, BoundAssumption DEF IndInv, TasksOK, Tasks, Live
<1>3. state \in [Tasks -> {"unborn", "running", "stopping", "gone", "panicked"}]
  BY DEF IndInv, Typed, TypeOK
<1>4. Channels'
  BY <1>1, <1>2, <1>3 DEF OrdInv, Channels, Live
<1>5. Taken'
  <2> SUFFICES ASSUME NEW o \in Orders
               PROVE  handled'[o] + Waiting(o)' + Read(o) <= handled[o] + Waiting(o) + Read(o)'
    BY TakenStep DEF OrdInv
  <2>1. /\ Copies(o, queue'[t]) <= Copies(o, queue[t])
        /\ o = c => Copies(o, queue'[t]) <= Copies(o, queue[t]) - 1
    BY <1>1, CopiesTail
  <2>2. Waiting(o)' = Copies(o, queue'[t]) + InHand(o) /\ Waiting(o) = Copies(o, queue[t]) + InHand(o)
    BY <1>2 DEF Waiting, InHand, Copies
  <2>3. PICK a, b, h : a = Copies(o, queue'[t]) /\ b = Copies(o, queue[t]) /\ h = InHand(o)
    OBVIOUS
  <2>4. a \in Nat /\ b \in Nat /\ h \in Nat /\ a <= b /\ (o = c => a <= b - 1)
    <3>1. queue[t] \in Seq(Commands) /\ queue'[t] \in Seq(Commands)
      BY DEF IndInv, Typed, TypeOK
    <3>2. a \in Nat /\ b \in Nat
      BY <2>3, <3>1, PlacesFinite
    <3>3. h \in Nat
      BY <2>3, CountTypes
    <3> QED
      BY <2>1, <2>3, <3>2, <3>3
  <2>5. /\ handled[o] \in Nat /\ Read(o) \in Nat /\ Read(o)' = Read(o)
        /\ handled'[o] = IF o = c THEN handled[o] + 1 ELSE handled[o]
    BY CountTypes, ReadWithin DEF Read, IndInv, Typed, TypeOK
  <2> QED
    BY <2>2, <2>3, <2>4, <2>5
<1>6. Kept'
  <2> SUFFICES ASSUME Untroubled'
               PROVE  /\ \A u \in Tasks : state'[u] \in {"unborn", "running"} /\ "void" \notin ToSet(queue'[u])
                      /\ \A o \in Orders : Delivered(o)' /\ o \notin Malformed => handled'[o] > 0 \/ InChannel(o)'
    BY DEF Kept
  <2>1. Untroubled
    BY <1>1, <1>3 DEF Untroubled
  <2>2. ToSet(queue[t]) = ToSet(queue'[t]) \cup {c}
    BY <1>1, TakenSet
  <2>3. c # "void" /\ state' = state
    BY <2>1, <2>2 DEF OrdInv, Kept
  <2>4. \A o \in Orders : handled[o] \in Nat /\ handled'[o] \in Nat /\ (handled[o] > 0 => handled'[o] > 0)
    BY DEF IndInv, Typed, TypeOK
  <2>5. c \in Orders => handled'[c] > 0
    BY DEF IndInv, Typed, TypeOK
  <2>6. \A o \in Orders : InChannel(o) => InChannel(o)' \/ o = c
    BY <1>1, <2>2 DEF InChannel
  <2> QED
    BY <1>1, <2>1, <2>2, <2>3, <2>4, <2>5, <2>6 DEF OrdInv, Kept, Delivered
<1> QED
  BY <1>4, <1>5, <1>6 DEF OrdInv

-----------------------------------------------------------------------------
(* The steps *)

\* A message that becomes no order is read and leaves nothing.
LEMMA SkipOrderOrd == ASSUME IndInv, IndInv', OrdInv, SkipOrder PROVE OrdInv'
<1> USE DEF SkipOrder, taskVars
<1>1. /\ order.tx = 0 /\ order'.tx = 0 /\ order'.read = order.read + 1 /\ order.read \in Nat
      /\ order.read < Len(OrderLog) /\ OrderLog[order.read + 1] \in Malformed
  BY ConsumerTypes DEF Consumer
<1>2. Channels'
  BY <1>1 DEF OrdInv, Channels, Live, IndInv, Typed, TypeOK
<1>3. Taken'
  <2> SUFFICES ASSUME NEW o \in Orders
               PROVE  handled'[o] + Waiting(o)' + Read(o) <= handled[o] + Waiting(o) + Read(o)'
    BY TakenStep DEF OrdInv
  <2>1. Waiting(o)' = Waiting(o)
    BY <1>1 DEF Waiting, InHand, Copies
  <2>2. Read(o) \in Nat /\ Read(o)' \in Nat /\ Read(o) <= Read(o)'
    BY <1>1, ReadNext, ReadWithin
  <2> QED
    BY <2>1, <2>2, CountTypes
<1>4. \A o \in Orders : InChannel(o) => InChannel(o)'
  BY <1>1 DEF InChannel
<1>5. \A o \in Orders \ Malformed : Delivered(o)' => Delivered(o)
  <2>1. \A n \in 1..order'.read : n \in 1..order.read \/ n = order.read + 1
    BY <1>1
  <2> QED
    BY <1>1, <2>1 DEF Delivered
<1>6. Kept'
  BY <1>4, <1>5 DEF OrdInv, Kept, Untroubled
<1> QED
  BY <1>2, <1>3, <1>6 DEF OrdInv

\* An order is read, and in the hand of the consumer.
LEMMA SubmitOrderOrd ==
    ASSUME IndInv, IndInv', OrdInv, NEW t \in Tasks, SubmitOrder(t) PROVE OrdInv'
<1> USE DEF SubmitOrder
<1>1. /\ order.tx = 0 /\ order'.tx = t /\ order'.read = order.read + 1 /\ order.read \in Nat
      /\ order.read < Len(OrderLog) /\ t # 0
  BY ConsumerTypes, BoundAssumption DEF Consumer, Tasks
<1>2. /\ \/ map = t /\ UNCHANGED <<map, state, spawned>>
         \/ /\ map = 0 /\ map' = t /\ spawned' = t /\ t = spawned + 1
            /\ state' = [state EXCEPT ![t] = "running"]
      /\ UNCHANGED <<queue, void, client, handled, restarts>>
  BY DEF EnsureMarket, taskVars, stores
<1>3. /\ spawned \in Nat /\ spawned' \in Nat /\ spawned <= spawned' /\ t <= spawned'
      /\ map' = t
  BY <1>1, <1>2 DEF IndInv, Typed, TypeOK, TasksOK
<1>4. Channels'
  <2>1. ASSUME NEW u \in Tasks PROVE state'[u] = "unborn" <=> ~(u <= spawned')
    <3> HIDE DEF SubmitOrder
    <3>1. u \in Nat /\ spawned \in Nat
      BY <1>3, BoundAssumption DEF Tasks
    <3>2. state[u] = "unborn" <=> ~(u <= spawned)
      BY DEF OrdInv, Channels
    <3>3. u \in DOMAIN state /\ t \in DOMAIN state
      BY DEF IndInv, Typed, TypeOK
    <3>4. CASE UNCHANGED <<state, spawned>>
      BY <3>2, <3>4
    <3>5. CASE /\ spawned' = t /\ t = spawned + 1
               /\ state' = [state EXCEPT ![t] = "running"]
      <4>1. CASE u = t
        BY <3>1, <3>3, <3>5, <4>1
      <4>2. CASE u # t
        <5>1. state'[u] = state[u]
          BY <3>3, <3>5, <4>2
        <5>2. u <= spawned' <=> u <= spawned
          BY <3>1, <3>5, <4>2
        <5> QED
          BY <3>2, <5>1, <5>2
      <4> QED
        BY <4>1, <4>2
    <3> QED
      BY <1>2, <3>4, <3>5
  <2>2. \A u \in Tasks : ~(Live(u)') => ~Live(u)
    BY <1>2 DEF Live, IndInv, Typed, TypeOK
  <2>3. void.tx \in Nat /\ client.tx \in Nat
    BY ConsumerTypes DEF Consumer, IndInv, Typed, TypeOK
  <2>4. void'.tx <= spawned' /\ client'.tx <= spawned'
    BY <1>2, <1>3, <2>3 DEF OrdInv, Channels
  <2> QED
    BY <1>1, <1>2, <1>3, <2>1, <2>2, <2>4 DEF OrdInv, Channels
<1>5. map = 0 => queue[t] = <<>>
  BY <1>1 DEF IndInv, TasksOK, OrdInv, Channels
<1>6. Taken'
  <2> SUFFICES ASSUME NEW o \in Orders
               PROVE  handled'[o] + Waiting(o)' + Read(o) <= handled[o] + Waiting(o) + Read(o)'
    BY <1>2, TakenStep DEF OrdInv
  <2>1. Copies(o, queue[t]) \in Nat /\ Waiting(o) = Copies(o, queue[t])
    <3>1. InHand(o) = 0
      BY <1>1 DEF InHand
    <3>2. CASE map = 0
      BY <1>5, <3>1, <3>2, CopiesNone DEF Waiting
    <3>3. CASE map = t
      BY <1>1, <3>1, <3>3, CountTypes DEF Waiting
    <3> QED
      BY <1>2, <3>2, <3>3
  <2>2. Waiting(o)' = Copies(o, queue[t]) + InHand(o)'
    BY <1>1, <1>2, <1>3 DEF Waiting, Copies
  <2>3. InHand(o)' = IF OrderLog[order.read + 1] = o THEN 1 ELSE 0
    BY <1>1 DEF InHand
  <2>4. /\ Read(o) \in Nat /\ Read(o)' \in Nat /\ Read(o) <= Read(o)'
        /\ OrderLog[order.read + 1] = o => Read(o)' = Read(o) + 1
    BY <1>1, ReadNext, ReadWithin
  <2>5. handled[o] \in Nat /\ handled'[o] = handled[o]
    BY <1>2, CountTypes
  <2> QED
    BY <2>1, <2>2, <2>3, <2>4, <2>5
<1>7. Kept'
  <2> SUFFICES ASSUME Untroubled'
               PROVE  /\ \A u \in Tasks : state'[u] \in {"unborn", "running"} /\ "void" \notin ToSet(queue'[u])
                      /\ \A o \in Orders : Delivered(o)' /\ o \notin Malformed => handled'[o] > 0 \/ InChannel(o)'
    BY DEF Kept
  <2>1. \A u \in Tasks : state'[u] \in {state[u], "running"} /\ (u # t => state'[u] = state[u])
    BY <1>2 DEF IndInv, Typed, TypeOK
  <2>2. map = 0 => ~Live(t) /\ state'[t] = "running"
    BY <1>1, <1>2 DEF IndInv, TasksOK, Typed, TypeOK
  <2>3. Untroubled
    <3>1. CASE map = t /\ UNCHANGED state
      BY <1>2, <3>1 DEF Untroubled
    <3>2. CASE map = 0
      <4>1. state[t] # "panicked"
        BY <1>1, <1>2, <1>3, <3>2 DEF OrdInv, Channels
      <4> QED
        BY <1>2, <2>1, <4>1 DEF Untroubled
    <3> QED
      BY <1>1, <1>2, <3>1, <3>2
  <2>4. \A o \in Orders : InChannel(o) => InChannel(o)'
    BY <1>1, <1>2 DEF InChannel
  <2>5. ASSUME NEW o \in Orders, Delivered(o)' PROVE Delivered(o) \/ InChannel(o)'
    <3>1. PICK n \in 1..order'.read : OrderLog[n] = o
      BY <2>5 DEF Delivered
    <3>2. n \in 1..order.read \/ n = order'.read
      BY <1>1, <3>1
    <3> QED
      BY <1>1, <3>1, <3>2 DEF Delivered, InChannel
  <2> QED
    BY <1>2, <2>1, <2>3, <2>4, <2>5 DEF OrdInv, Kept
<1> QED
  BY <1>4, <1>6, <1>7 DEF OrdInv

\* The send: the order enters the channel, or its task is no more.
LEMMA SendOrderOrd == ASSUME IndInv, IndInv', OrdInv, SendOrder PROVE OrdInv'
<1> USE DEF SendOrder
<1>1. PICK t, c : t = order.tx /\ c = OrderLog[order.read]
  OBVIOUS
<1>2. /\ order.read \in 1..Len(OrderLog) /\ t \in Tasks /\ t # 0 /\ t <= spawned
      /\ order'.tx = 0 /\ order'.read = order.read
  BY <1>1, ConsumerTypes, ConsumerSent DEF IndInv, ConsumersOK, OrdInv, Channels
<1>3. c \in Orders /\ c \in Commands /\ c # "void"
  BY <1>1, <1>2, LogAssumption DEF Commands
<1>4. /\ queue \in [Tasks -> Seq(Commands)] /\ queue[t] \in Seq(Commands)
      /\ queue'[t] \in Seq(Commands)
  BY <1>2 DEF IndInv, Typed, TypeOK
<1>5. /\ \/ Closed(t) /\ UNCHANGED queue
         \/ ~Closed(t) /\ Put(t, c)
      /\ UNCHANGED <<map, state, spawned, void, client, handled, restarts>>
  BY <1>1
<1> HIDE DEF SendOrder
<1>6. ~Closed(t) => Live(t) /\ map = t
  BY <1>2, SentToLive DEF OrdInv
<1>7. \A u \in Tasks : u # t => queue'[u] = queue[u]
  BY <1>4, <1>5 DEF Put
<1>8. ~Closed(t) => queue'[t] = Append(queue[t], c)
  BY <1>2, <1>4, <1>5 DEF Put
<1>9. Channels'
  <2>1. spawned \in Nat
    BY DEF IndInv, Typed, TypeOK
  <2> QED
    BY <1>2, <1>5, <1>6, <1>7, <2>1 DEF OrdInv, Channels, Live
<1>10. Taken'
  <2> SUFFICES ASSUME NEW o \in Orders
               PROVE  handled'[o] + Waiting(o)' + Read(o) <= handled[o] + Waiting(o) + Read(o)'
    BY <1>5, TakenStep DEF OrdInv
  <2>1. InHand(o)' = 0 /\ InHand(o) = IF o = c THEN 1 ELSE 0
    BY <1>1, <1>2 DEF InHand
  <2>2. /\ handled[o] \in Nat /\ Read(o) \in Nat /\ handled'[o] = handled[o]
        /\ Read(o)' = Read(o) /\ Waiting(o) \in Nat
    BY <1>2, <1>5, CountTypes, ReadWithin DEF Read
  <2>3. CASE Closed(t)
    <3>1. Waiting(o)' + InHand(o) = Waiting(o)
      <4>1. map # 0 => Copies(o, queue[map]) \in Nat
        <5>1. map # 0 => map \in Tasks
          BY BoundAssumption DEF IndInv, Typed, TypeOK, Tasks
        <5> QED
          BY <5>1, CountTypes
      <4>2. PICK b : b = IF map = 0 THEN 0 ELSE Copies(o, queue[map])
        OBVIOUS
      <4>3. b \in Nat /\ Waiting(o) = b + InHand(o) /\ Waiting(o)' = b + 0
        BY <1>5, <2>1, <2>3, <4>1, <4>2 DEF Waiting, Copies
      <4> QED
        BY <2>1, <4>3
    <3> QED
      BY <2>1, <2>2, <3>1, CountTypesNext
  <2>4. CASE ~Closed(t)
    <3>1. PICK a, b : a = Copies(o, queue'[t]) /\ b = Copies(o, queue[t])
      OBVIOUS
    <3>2. a \in Nat /\ b \in Nat
      BY <1>4, <3>1, PlacesFinite
    <3>3. a <= b + 1 /\ (o # c => a <= b)
      BY <1>3, <1>4, <1>8, <2>4, <3>1, CopiesAppend
    <3>4. Waiting(o)' = a + 0 /\ Waiting(o) = b + InHand(o)
      BY <1>2, <1>5, <1>6, <2>1, <2>4, <3>1 DEF Waiting, Copies
    <3> QED
      BY <2>1, <2>2, <3>2, <3>3, <3>4
  <2> QED
    BY <2>3, <2>4
<1>11. Kept'
  <2> SUFFICES ASSUME Untroubled'
               PROVE  /\ \A u \in Tasks : state'[u] \in {"unborn", "running"} /\ "void" \notin ToSet(queue'[u])
                      /\ \A o \in Orders : Delivered(o)' /\ o \notin Malformed => handled'[o] > 0 \/ InChannel(o)'
    BY DEF Kept
  <2>1. Untroubled
    BY <1>5 DEF Untroubled
  <2>2. ~Closed(t)
    BY <1>2, <2>1 DEF OrdInv, Kept, Closed
  <2>3. ToSet(queue'[t]) = ToSet(queue[t]) \cup {c}
    <3>1. queue'[t] = Append(queue[t], c)
      BY <1>8, <2>2
    <3>2. ToSet(Append(queue[t], c)) = ToSet(queue[t]) \cup {c}
      BY <1>3, <1>4, AppendedSet
    <3> QED
      BY <3>1, <3>2
  <2>4. \A o \in Orders : InChannel(o) => InChannel(o)'
    BY <1>1, <1>2, <1>7, <2>3 DEF InChannel
  <2>5. \A u \in Tasks : "void" \notin ToSet(queue'[u])
    BY <1>3, <1>7, <2>1, <2>3 DEF OrdInv, Kept
  <2> QED
    BY <1>2, <1>5, <2>1, <2>4, <2>5 DEF OrdInv, Kept, Delivered
<1> QED
  BY <1>9, <1>10, <1>11 DEF OrdInv

\* The void is read, and on its way to the task in the map.
LEMMA ReceiveVoidOrd == ASSUME IndInv, IndInv', OrdInv, ReceiveVoid PROVE OrdInv'
<1>1. void'.read = void.read + 1 /\ void'.tx = map /\ void.read \in Nat
  BY ConsumerTypes DEF ReceiveVoid, Consumer
<1>2. map <= spawned
  BY DEF IndInv, TasksOK, Typed, TypeOK
<1>3. /\ UNCHANGED <<map, state, queue, spawned, order, handled, restarts>>
      /\ client' = client
  BY DEF ReceiveVoid, taskVars
<1> QED
  BY <1>1, <1>2, <1>3, ChannelsKept DEF OrdInv, Channels

\* It enters the task's channel.
LEMMA SendVoidOrd == ASSUME IndInv, IndInv', OrdInv, SendVoid PROVE OrdInv'
<1>1. /\ void.tx \in Tasks /\ void.read # 0 /\ void'.read = void.read /\ void'.tx = 0
      /\ void.tx <= spawned /\ spawned \in Nat
  <2>1. /\ void.tx \in Tasks /\ void.read \in 1..Voids /\ void'.read = void.read /\ void'.tx = 0
    BY ConsumerTypes, ConsumerSent DEF SendVoid, IndInv, ConsumersOK
  <2>2. void.tx <= spawned /\ spawned \in Nat
    BY DEF OrdInv, Channels, IndInv, Typed, TypeOK
  <2>3. void.read # 0
    BY <2>1
  <2> QED
    BY <2>1, <2>2, <2>3
<1>2. UNCHANGED <<map, state, spawned, order, handled, restarts, client>>
  BY DEF SendVoid
<1>3. CASE UNCHANGED queue
  BY <1>1, <1>2, <1>3, ChannelsKept DEF OrdInv, Channels
<1>4. CASE ~Closed(void.tx) /\ Put(void.tx, "void")
  <2>1. Live(void.tx)
    BY <1>1, <1>4, SentToLive DEF OrdInv
  <2> QED
    BY <1>1, <1>2, <1>4, <2>1, CommandSent DEF OrdInv, Channels
<1> QED
  BY <1>3, <1>4 DEF SendVoid

\* A call for a snapshot begins, and ends without one.
LEMMA SnapshotOrd ==
    ASSUME IndInv, IndInv', OrdInv, GetSnapshot \/ SnapshotDropped PROVE OrdInv'
<1>1. UNCHANGED <<map, state, queue, spawned, order, handled, restarts, void>>
  BY DEF GetSnapshot, SnapshotDropped, taskVars
<1>2. client'.tx \in {map, 0} /\ map <= spawned /\ spawned \in Nat
  BY DEF GetSnapshot, SnapshotDropped, NoClient, IndInv, TasksOK, Typed, TypeOK
<1>3. client'.tx <= spawned
  BY <1>2
<1> QED
  BY <1>1, <1>3, ChannelsKept DEF OrdInv, Channels

\* The call's command enters the task's channel.
LEMMA SendSnapshotOrd == ASSUME IndInv, IndInv', OrdInv, SendSnapshot PROVE OrdInv'
<1>1. /\ client.tx \in Tasks /\ client.tx <= spawned /\ spawned \in Nat
  BY BoundAssumption DEF SendSnapshot, IndInv, ConsumersOK, OrdInv, Channels, Typed, TypeOK, Tasks
<1>2. UNCHANGED <<map, state, spawned, order, handled, restarts, void>>
  BY DEF SendSnapshot
<1>3. client'.tx \in {client.tx, 0}
  BY DEF SendSnapshot, NoClient, IndInv, Typed, TypeOK
<1>4. client'.tx <= spawned
  BY <1>1, <1>3
<1>5. CASE UNCHANGED queue
  BY <1>2, <1>4, <1>5, ChannelsKept DEF OrdInv, Channels
<1>6. CASE ~Closed(client.tx) /\ Put(client.tx, "snapshot")
  <2>1. Live(client.tx)
    BY <1>1, <1>6, SentToLive DEF OrdInv
  <2> QED
    BY <1>1, <1>2, <1>4, <1>6, <2>1, CommandSent DEF OrdInv, Channels
<1> QED
  BY <1>5, <1>6 DEF SendSnapshot

\* The task takes an order, a snapshot's command, or the void it stops on.
LEMMA TakeOrd ==
    ASSUME IndInv, IndInv', OrdInv, NEW t \in Tasks,
           \/ \E o \in Orders : Rest(t, o) \/ MatchClob(t, o) \/ FillAmm(t, o)
           \/ TakeSnapshot(t) \/ TakeVoid(t)
    PROVE  OrdInv'
<1> USE DEF consumers
<1>1. PICK c : c = Head(queue[t])
  OBVIOUS
<1>2. client.tx <= spawned /\ 0 <= spawned
  BY DEF OrdInv, Channels, IndInv, Typed, TypeOK
<1>3. ASSUME NEW o \in Orders, Rest(t, o) \/ MatchClob(t, o) \/ FillAmm(t, o) PROVE OrdInv'
  <2>1. /\ Take(t) /\ c = o /\ handled' = [handled EXCEPT ![c] = @ + 1]
        /\ UNCHANGED <<map, state, spawned, order, restarts, void, client>>
    BY <1>1, <1>3 DEF Rest, MatchClob, FillAmm, TakeOrder
  <2> QED
    BY <1>1, <1>2, <2>1, CommandTaken
<1>4. CASE TakeSnapshot(t)
  <2>1. /\ Take(t) /\ c \notin Orders /\ handled' = handled /\ client'.tx = 0
        /\ UNCHANGED <<map, state, spawned, order, restarts, void>>
    BY <1>1, <1>4, LogAssumption DEF TakeSnapshot, NoClient
  <2> QED
    BY <1>1, <1>2, <2>1, CommandTaken
<1>5. CASE TakeVoid(t)
  <2>1. /\ Take(t) /\ c = "void" /\ c \notin Orders /\ handled' = handled
        /\ state' = [state EXCEPT ![t] = "stopping"]
        /\ UNCHANGED <<map, spawned, order, restarts, void, client>>
    BY <1>1, <1>5, LogAssumption DEF TakeVoid
  <2> QED
    BY <1>1, <1>2, <2>1, CommandTaken
<1> QED
  BY <1>3, <1>4, <1>5

\* The task panics: the order it took is counted, those behind it are lost.
LEMMA PanicOrd ==
    ASSUME IndInv, IndInv', OrdInv, NEW t \in Tasks, NEW o \in Orders, Panic(t, o)
    PROVE  OrdInv'
<1>1. /\ state[t] = "running" /\ queue[t] # <<>> /\ o = Head(queue[t])
      /\ queue[t] \in Seq(Commands) /\ queue'[t] = <<>>
      /\ \A u \in Tasks : u # t => queue'[u] = queue[u]
      /\ state'[t] = "panicked" /\ \A u \in Tasks : u # t => state'[u] = state[u]
  BY DEF Panic, MayTake, IndInv, Typed, TypeOK
<1>2. /\ UNCHANGED <<map, spawned, order, void, client, restarts>>
      /\ handled' = [handled EXCEPT ![o] = @ + 1]
  BY DEF Panic, consumers
<1>3. map = t /\ t # 0
  BY <1>1, BoundAssumption DEF IndInv, TasksOK, Tasks, Live
<1>4. Channels'
  BY <1>1, <1>2 DEF OrdInv, Channels, Live
<1>5. Taken'
  <2> SUFFICES ASSUME NEW j \in Orders
               PROVE  handled'[j] + Waiting(j)' + Read(j) <= handled[j] + Waiting(j) + Read(j)'
    BY <1>2, TakenStep DEF OrdInv
  <2>1. Waiting(j)' = 0 + InHand(j)
    <3>1. Copies(j, queue'[t]) = 0
      BY <1>1, CopiesNone
    <3> QED
      BY <1>2, <1>3, <3>1 DEF Waiting, InHand, Copies
  <2>2. Waiting(j) = Copies(j, queue[t]) + InHand(j)
    BY <1>3 DEF Waiting
  <2>3. PICK a, b : a = Copies(j, Tail(queue[t])) /\ b = Copies(j, queue[t])
    OBVIOUS
  <2>4. Tail(queue[t]) \in Seq(Commands)
    BY <1>1
  <2>5. a \in Nat /\ b \in Nat
    BY <1>1, <2>3, <2>4, PlacesFinite
  <2>6. j = o => a <= b - 1
    BY <1>1, <2>3, CopiesTail
  <2>7. /\ handled[j] \in Nat /\ InHand(j) \in Nat /\ Read(j) \in Nat /\ Read(j)' = Read(j)
        /\ handled'[j] = IF j = o THEN handled[j] + 1 ELSE handled[j]
    <3>1. handled[j] \in Nat /\ InHand(j) \in Nat /\ Read(j) \in Nat
      BY CountTypes, ReadWithin
    <3>2. Read(j)' = Read(j)
      BY <1>2 DEF Read
    <3>3. handled'[j] = IF j = o THEN handled[j] + 1 ELSE handled[j]
      BY <1>2 DEF IndInv, Typed, TypeOK
    <3> QED
      BY <3>1, <3>2, <3>3
  <2> QED
    BY <2>1, <2>2, <2>3, <2>5, <2>6, <2>7
<1>6. Kept'
  BY <1>1 DEF Kept, Untroubled
<1> QED
  BY <1>4, <1>5, <1>6 DEF OrdInv

\* The task leaves: a void stopped it.
LEMMA ExitOrd ==
    ASSUME IndInv, IndInv', OrdInv, NEW t \in Tasks, Exit(t) PROVE OrdInv'
<1>1. /\ state[t] = "stopping" /\ map' = 0 /\ queue'[t] = <<>>
      /\ \A u \in Tasks : u # t => queue'[u] = queue[u]
      /\ state'[t] = "gone" /\ \A u \in Tasks : u # t => state'[u] = state[u]
  BY DEF Exit, IndInv, Typed, TypeOK
<1>2. UNCHANGED <<spawned, order, void, client, handled, restarts>>
  BY DEF Exit, consumers
<1>3. map = t /\ t # 0
  BY <1>1, BoundAssumption DEF IndInv, TasksOK, Tasks, Live
<1>4. Channels'
  BY <1>1, <1>2 DEF OrdInv, Channels, Live
<1>5. Taken'
  <2> SUFFICES ASSUME NEW o \in Orders
               PROVE  handled'[o] + Waiting(o)' + Read(o) <= handled[o] + Waiting(o) + Read(o)'
    BY <1>2, TakenStep DEF OrdInv
  <2>1. Waiting(o)' = 0 + InHand(o) /\ Waiting(o) = Copies(o, queue[t]) + InHand(o)
    BY <1>1, <1>2, <1>3 DEF Waiting, InHand
  <2>2. /\ handled[o] \in Nat /\ handled'[o] = handled[o] /\ Copies(o, queue[t]) \in Nat
        /\ InHand(o) \in Nat /\ Read(o) \in Nat /\ Read(o)' = Read(o)
    BY <1>2, CountTypes, ReadWithin DEF Read
  <2> QED
    BY <2>1, <2>2
<1>6. Kept'
  <2>1. ~Untroubled
    BY <1>1 DEF OrdInv, Kept
  <2>2. ~Untroubled'
    BY <1>1, <1>2, <2>1 DEF Untroubled
  <2> QED
    BY <2>2 DEF Kept
<1> QED
  BY <1>4, <1>5, <1>6 DEF OrdInv

\* The messages are read once more, in part.
LEMMA RestartOrd == ASSUME IndInv, IndInv', OrdInv, Restart PROVE OrdInv'
<1>1. /\ map' = 0 /\ restarts' = restarts + 1 /\ restarts \in Nat
      /\ \A t \in Tasks : queue'[t] = <<>>
      /\ \A t \in Tasks : state'[t] = IF state[t] = "unborn" THEN "unborn" ELSE "gone"
      /\ UNCHANGED <<handled, spawned>>
  BY DEF Restart, IndInv, Typed, TypeOK
<1>2. order'.tx = 0 /\ void'.tx = 0 /\ client'.tx = 0
  BY DEF Restart, FromOffset, NoClient
<1>3. Channels'
  <2>1. 0 <= spawned
    BY DEF IndInv, Typed, TypeOK
  <2> QED
    BY <1>1, <1>2, <2>1 DEF OrdInv, Channels
<1>4. Taken'
  <2> SUFFICES ASSUME NEW o \in Orders
               PROVE  handled'[o] + Waiting(o)' <= restarts' * Copies(o, OrderLog) + Read(o)'
    BY DEF Taken, Copies
  <2>1. Waiting(o)' = 0
    BY <1>1, <1>2 DEF Waiting, InHand
  <2>2. PICK h, w, r, k, n : /\ h = handled[o] /\ w = Waiting(o) /\ r = Read(o)
                             /\ k = Copies(o, OrderLog) /\ n = restarts
    OBVIOUS
  <2>3. /\ h \in Nat /\ w \in Nat /\ r \in Nat /\ k \in Nat /\ n \in Nat /\ r <= k
    BY <1>1, <2>2, CountTypes, ReadWithin
  <2>4. h + w <= n * k + r
    BY <2>2 DEF OrdInv, Taken
  <2>5. n * k \in Nat /\ (n + 1) * k = n * k + k
    BY <2>3
  <2>6. h <= (n + 1) * k
    BY <2>3, <2>4, <2>5
  <2>7. Read(o)' \in Nat /\ (n + 1) * k \in Nat
    BY <2>3, <2>5, CountTypesNext
  <2>8. h + 0 <= (n + 1) * k + Read(o)'
    BY <2>3, <2>6, <2>7
  <2> QED
    BY <1>1, <2>1, <2>2, <2>8
<1>5. Kept'
  BY <1>1 DEF Kept, Untroubled
<1> QED
  BY <1>3, <1>4, <1>5 DEF OrdInv

-----------------------------------------------------------------------------
(* Orders are accounted for *)

\* Nothing is read or spawned at first.
LEMMA InitOrd == Init => OrdInv
<1> SUFFICES ASSUME Init PROVE OrdInv
  OBVIOUS
<1> USE DEF Init, Fresh, FromOffset
<1>1. Channels
  BY BoundAssumption DEF Channels, Tasks
<1>2. Taken
  <2> SUFFICES ASSUME NEW o \in Orders
               PROVE  handled[o] + Waiting(o) <= restarts * Copies(o, OrderLog) + Read(o)
    BY DEF Taken
  <2>1. handled[o] = 0 /\ Waiting(o) = 0 /\ restarts = 0
    BY DEF Waiting, InHand
  <2>2. Read(o) \in Nat /\ Copies(o, OrderLog) \in Nat
    BY InitOK, ReadWithin
  <2> QED
    BY <2>1, <2>2
<1>3. Kept
  BY DEF Kept, Delivered, ToSet
<1> QED
  BY <1>1, <1>2, <1>3 DEF OrdInv

\* Every step keeps the account.
LEMMA NextOrd == IndInv /\ OrdInv /\ [Next]_vars => (IndInv /\ OrdInv)'
<1> SUFFICES ASSUME IndInv, OrdInv, [Next]_vars PROVE OrdInv'
  BY NextOK
<1>1. IndInv'
  BY NextOK
<1>2. CASE ConsumeOrders
  BY <1>1, <1>2, SkipOrderOrd, SendOrderOrd, SubmitOrderOrd DEF ConsumeOrders
<1>3. CASE ConsumeVoids
  BY <1>1, <1>3, ReceiveVoidOrd, SendVoidOrd DEF ConsumeVoids
<1>4. CASE GetSnapshot \/ Client
  BY <1>1, <1>4, SnapshotOrd, SendSnapshotOrd DEF Client
<1>5. CASE \/ \E t \in Tasks : LogTrade(t)
           \/ \E x \in inserting : InsertTrade(x)
           \/ \E x \in publishing : PublishTrade(x)
           \/ UNCHANGED vars
  <2>1. UNCHANGED <<map, state, queue, spawned, order, void, client, handled, restarts>>
    BY <1>5 DEF LogTrade, InsertTrade, PublishTrade, vars, taskVars, consumers
  <2> QED
    BY <2>1, ChannelsKept DEF OrdInv, Channels
<1>6. ASSUME NEW t \in Tasks, Process(t) PROVE OrdInv'
  BY <1>1, <1>5, <1>6, TakeOrd, PanicOrd, ExitOrd DEF Process
<1>7. CASE Restart
  BY <1>1, <1>7, RestartOrd
<1> QED
  BY <1>2, <1>3, <1>4, <1>5, <1>6, <1>7 DEF Next

\* The account says how often an order was taken, and what may have lost it.
LEMMA OrdInvAccounts == IndInv /\ OrdInv => OrdersAccounted
<1> SUFFICES ASSUME IndInv, OrdInv, NEW o \in Orders
             PROVE  /\ handled[o] <= (1 + restarts) * Copies(o, OrderLog)
                    /\ (Delivered(o) /\ o \notin Malformed /\ handled[o] = 0 /\ ~InChannel(o)) =>
                          \/ restarts > 0 \/ void.read > 0
                          \/ \E t \in Tasks : state[t] = "panicked"
  BY DEF OrdersAccounted
<1>1. handled[o] <= (1 + restarts) * Copies(o, OrderLog)
  <2>1. PICK h, w, r, k, n : /\ h = handled[o] /\ w = Waiting(o) /\ r = Read(o)
                             /\ k = Copies(o, OrderLog) /\ n = restarts
    OBVIOUS
  <2>2. h \in Nat /\ w \in Nat /\ r \in Nat /\ k \in Nat /\ n \in Nat /\ r <= k
    BY <2>1, CountTypes, ReadWithin DEF IndInv, Typed, TypeOK
  <2>3. h + w <= n * k + r
    BY <2>1 DEF OrdInv, Taken
  <2>4. n * k \in Nat /\ (1 + n) * k = n * k + k
    BY <2>2
  <2> QED
    BY <2>1, <2>2, <2>3, <2>4
<1>2. (restarts > 0 <=> restarts # 0) /\ (void.read > 0 <=> void.read # 0)
  <2>1. restarts \in Nat /\ void.read \in Nat
    BY ConsumerTypes DEF IndInv, Typed, TypeOK, Consumer
  <2> QED
    BY <2>1
<1> QED
  BY <1>1, <1>2 DEF OrdInv, Kept, Untroubled

\* The account holds of every behaviour.
LEMMA OrdInvHolds == Spec => [](IndInv /\ OrdInv)
<1>1. Init => IndInv /\ OrdInv
  BY InitOK, InitOrd
<1> QED
  BY <1>1, NextOrd, PTL DEF Spec

\* A message of an order is taken by no more than one task for each time the
\* process started, and an order is lost only to a void, a panic or a restart.
THEOREM OrdersKept == Spec => []OrdersAccounted
  BY OrdInvHolds, OrdInvAccounts, PTL
=============================================================================
