------------------------------- MODULE Wallet -------------------------------
(***************************************************************************)
(* wallet-service: balances, transactions and the ledger in PostgreSQL,    *)
(* and the balance cache in Redis.                                         *)
(*                                                                         *)
(* Every request is served by a goroutine of its own (a worker).  A write  *)
(* (Deposit, Spend, Refund, Payout, DailyReward) is a database session of  *)
(* several statements: the insert of the transaction row holds its         *)
(* idempotency key, and apply_double_entry holds the wallet row (FOR       *)
(* UPDATE), until the session commits or rolls back.  A worker may be cut  *)
(* short between any two statements (an error, a timeout, a crash), before *)
(* or after its commit, and a caller may send a request again.             *)
(*                                                                         *)
(* Eligibility for a deposit (limits, cool-off, self-exclusion) and the    *)
(* detached fraud check and payments.completed event are not here.         *)
(***************************************************************************)
EXTENDS Integers, Sequences, FiniteSets

CONSTANTS Workers,    \* goroutines serving requests
          Wallets,    \* one per user and currency
          Keys,       \* idempotency keys callers use
          Requests,   \* the writes callers may send, any number of times
          None,       \* no request, or no cached balance
          MaxSends,   \* bound: requests begun
          MaxAborts   \* bound: requests cut short

Types == {"deposit", "spend", "refund", "payout", "daily_reward"}

ASSUME WalletAssumption ==
    /\ Requests \subseteq [key : Keys, wallet : Wallets, type : Types, amount : Nat]
    /\ None \notin Requests \cup Nat
    /\ MaxSends \in Nat /\ MaxAborts \in Nat

VARIABLES
    exists,    \* table wallets: the rows there are
    frozen,    \* ... those with is_active = false
    balance,   \* ... balance_minor
    txns,      \* table transactions: the request committed under each key
    ledger,    \* table ledger_entries of each wallet, in the order committed
    cache,     \* Redis: wallet:balance:<user>:<currency>
    pc,        \* where each worker stands
    req,       \* the request it serves
    got,       \* balance it has computed or read
    sends, aborts   \* counters of the bounds

tables == <<exists, frozen, balance, txns, ledger>>
locals == <<req, got>>
bounds == <<sends, aborts>>
vars   == <<tables, cache, pc, locals, bounds>>

GetBalance(w) == [key |-> None, wallet |-> w, type |-> "balance", amount |-> 0]
Check(w)      == [key |-> None, wallet |-> w, type |-> "check", amount |-> 0]
Reads         == {GetBalance(w) : w \in Wallets} \cup {Check(w) : w \in Wallets}

W(p)       == req[p].wallet
K(p)       == req[p].key
Goto(p, l) == pc' = [pc EXCEPT ![p] = l]

-----------------------------------------------------------------------------
Init ==
    /\ exists  = {} /\ frozen = {}
    /\ balance = [w \in Wallets |-> 0]
    /\ txns    = [k \in Keys |-> None]
    /\ ledger  = [w \in Wallets |-> <<>>]
    /\ cache   = [w \in Wallets |-> None]
    /\ pc      = [p \in Workers |-> "idle"]
    /\ req     = [p \in Workers |-> None]
    /\ got     = [p \in Workers |-> 0]
    /\ sends   = 0 /\ aborts = 0

\* The request is answered (or given up) and its locals go out of scope.
Done(p) ==
    /\ Goto(p, "idle")
    /\ req' = [req EXCEPT ![p] = None]
    /\ got' = [got EXCEPT ![p] = 0]

\* A request of type t arrives and goes on at l.
BeginWrite(p, r, t, l) ==
    /\ pc[p] = "idle" /\ r.type = t
    /\ sends < MaxSends /\ sends' = sends + 1
    /\ req' = [req EXCEPT ![p] = r]
    /\ Goto(p, l)
    /\ UNCHANGED <<tables, cache, got, aborts>>

\* Spend needs a wallet; the other writes create the row.
Deposit(p, r)     == BeginWrite(p, r, "deposit", "ensure")
Spend(p, r)       == BeginWrite(p, r, "spend", "read")
Refund(p, r)      == BeginWrite(p, r, "refund", "ensure")
Payout(p, r)      == BeginWrite(p, r, "payout", "ensure")
DailyReward(p, r) == BeginWrite(p, r, "daily_reward", "ensure")

Write(p, r) ==
    Deposit(p, r) \/ Spend(p, r) \/ Refund(p, r) \/ Payout(p, r) \/ DailyReward(p, r)

\* GetOrCreateWallet
EnsureWallet(p) ==
    /\ pc[p] = "ensure"
    /\ exists' = exists \cup {W(p)}
    /\ Goto(p, "read")
    /\ UNCHANGED <<frozen, balance, txns, ledger, cache, locals, bounds>>

\* The checks of ApplyTransaction, made before its transaction begins: it
\* refuses an amount that is not positive.
ReadWallet(p) ==
    /\ pc[p] = "read"
    /\ \/ /\ req[p].amount = 0 \/ W(p) \notin exists \/ W(p) \in frozen
          /\ Done(p)
       \/ /\ req[p].amount > 0 /\ W(p) \in exists /\ W(p) \notin frozen
          /\ Goto(p, "insert")
          /\ UNCHANGED locals
    /\ UNCHANGED <<tables, cache, bounds>>

\* Another session holds the key from its insert, the row from its update.
KeyHeld(p) == \E q \in Workers \ {p} : pc[q] \in {"apply", "commit"} /\ K(q) = K(p)
RowHeld(p) == \E q \in Workers \ {p} : pc[q] = "commit" /\ W(q) = W(p)

\* Mutant: a key already there is waited for.
InsertWaits(p) ==
    /\ pc[p] = "insert"
    /\ ~KeyHeld(p) /\ txns[K(p)] = None
    /\ Goto(p, "apply")
    /\ UNCHANGED <<tables, cache, locals, bounds>>

\* Mutant: the key is looked up, and nothing stops two sessions inserting it.
InsertUnchecked(p) ==
    /\ pc[p] = "insert"
    /\ Goto(p, IF txns[K(p)] = None THEN "apply" ELSE "invalidate")
    /\ UNCHANGED <<tables, cache, locals, bounds>>

\* What getTransactionByIdempotencyKey will find.
AlreadyApplied(k) == txns[k] # None

\* INSERT ... ON CONFLICT (idempotency_key) DO NOTHING waits for a session that
\* holds the key.  If the key is there the session rolls back and the caller
\* gets the existing transaction.
InsertTxn(p) ==
    /\ pc[p] = "insert"
    /\ ~KeyHeld(p)
    /\ Goto(p, IF AlreadyApplied(K(p)) THEN "invalidate" ELSE "apply")
    /\ UNCHANGED <<tables, cache, locals, bounds>>

Signed(r)  == IF r.type = "spend" THEN -r.amount ELSE r.amount
Covered(p) == balance[W(p)] + Signed(req[p]) >= 0

\* Mutant: the balance is read without FOR UPDATE.
ApplyUnlocked(p) ==
    /\ pc[p] = "apply"
    /\ Covered(p)
    /\ got' = [got EXCEPT ![p] = balance[W(p)] + Signed(req[p])]
    /\ Goto(p, "commit")
    /\ UNCHANGED <<tables, cache, req, bounds>>

\* Mutant: a debit that is not covered goes through.
ApplyUncovered(p) ==
    /\ pc[p] = "apply"
    /\ ~RowHeld(p)
    /\ got' = [got EXCEPT ![p] = balance[W(p)] + Signed(req[p])]
    /\ Goto(p, "commit")
    /\ UNCHANGED <<tables, cache, req, bounds>>

\* apply_double_entry.  A debit that is not covered rolls the session back.
ApplyDoubleEntry(p) ==
    /\ pc[p] = "apply"
    /\ ~RowHeld(p)
    /\ \/ /\ ~Covered(p)
          /\ Done(p)
       \/ /\ Covered(p)
          /\ got' = [got EXCEPT ![p] = balance[W(p)] + Signed(req[p])]
          /\ Goto(p, "commit")
          /\ UNCHANGED req
    /\ UNCHANGED <<tables, cache, bounds>>

EntryOf(p) == [key |-> K(p), move |-> Signed(req[p]), after |-> got[p]]

\* Mutant: the balance and the ledger commit without the transaction row.
CommitWithoutTxn(p) ==
    /\ pc[p] = "commit"
    /\ balance' = [balance EXCEPT ![W(p)] = got[p]]
    /\ ledger'  = [ledger EXCEPT ![W(p)] = Append(@, EntryOf(p))]
    /\ Goto(p, "invalidate")
    /\ UNCHANGED <<exists, frozen, txns, cache, locals, bounds>>

Commit(p) ==
    /\ pc[p] = "commit"
    /\ txns'    = [txns EXCEPT ![K(p)] = req[p]]
    /\ balance' = [balance EXCEPT ![W(p)] = got[p]]
    /\ ledger'  = [ledger EXCEPT ![W(p)] = Append(@, EntryOf(p))]
    /\ Goto(p, "invalidate")
    /\ UNCHANGED <<exists, frozen, cache, locals, bounds>>

\* The Redis error is ignored.  The HTTP handlers answer with the transaction,
\* the gRPC handlers go on to fetch the balance.
Invalidate(p) ==
    /\ pc[p] = "invalidate"
    /\ cache' \in {cache, [cache EXCEPT ![W(p)] = None]}
    /\ \/ Done(p)
       \/ Goto(p, "get") /\ UNCHANGED locals
    /\ UNCHANGED <<tables, bounds>>

-----------------------------------------------------------------------------
(* GetBalance, of its own or at the end of a gRPC write.                   *)

BeginGetBalance(p, w) ==
    /\ pc[p] = "idle"
    /\ sends < MaxSends /\ sends' = sends + 1
    /\ req' = [req EXCEPT ![p] = GetBalance(w)]
    /\ Goto(p, "get")
    /\ UNCHANGED <<tables, cache, got, aborts>>

\* CheckBalance, whether a wallet covers an amount, never asks the cache.
CheckBalance(p, w) ==
    /\ pc[p] = "idle"
    /\ sends < MaxSends /\ sends' = sends + 1
    /\ req' = [req EXCEPT ![p] = Check(w)]
    /\ Goto(p, "load")
    /\ UNCHANGED <<tables, cache, got, aborts>>

\* A Redis error is a miss.
ReadCache(p) ==
    /\ pc[p] = "get"
    /\ \/ /\ cache[W(p)] # None
          /\ got' = [got EXCEPT ![p] = cache[W(p)]]
          /\ Goto(p, "reply")
       \/ Goto(p, "load") /\ UNCHANGED got
    /\ UNCHANGED <<tables, cache, req, bounds>>

LoadBalance(p) ==
    /\ pc[p] = "load"
    /\ \/ W(p) \notin exists /\ Done(p)
       \/ /\ W(p) \in exists
          /\ got' = [got EXCEPT ![p] = balance[W(p)]]
          /\ Goto(p, IF req[p].type = "check" THEN "reply" ELSE "fill")
          /\ UNCHANGED req
    /\ UNCHANGED <<tables, cache, bounds>>

\* The Redis error is ignored.
FillCache(p) ==
    /\ pc[p] = "fill"
    /\ cache' \in {cache, [cache EXCEPT ![W(p)] = got[p]]}
    /\ Goto(p, "reply")
    /\ UNCHANGED <<tables, locals, bounds>>

Reply(p) ==
    /\ pc[p] = "reply"
    /\ Done(p)
    /\ UNCHANGED <<tables, cache, bounds>>

-----------------------------------------------------------------------------
\* A worker is cut short; a session it had open is rolled back.
Abort(p) ==
    /\ pc[p] # "idle"
    /\ aborts < MaxAborts /\ aborts' = aborts + 1
    /\ Done(p)
    /\ UNCHANGED <<tables, cache, sends>>

\* Mutant: a cached balance has no TTL.
NeverExpire(w) == FALSE /\ UNCHANGED vars

\* The TTL of the cached balance passes.
Expire(w) ==
    /\ cache[w] # None
    /\ cache' = [cache EXCEPT ![w] = None]
    /\ UNCHANGED <<tables, pc, locals, bounds>>

\* An operator clears is_active; nothing in the service does.
Freeze(w) ==
    /\ w \in exists \ frozen
    /\ frozen' = frozen \cup {w}
    /\ UNCHANGED <<exists, balance, txns, ledger, cache, pc, locals, bounds>>

Serve(p) ==
    \/ EnsureWallet(p) \/ ReadWallet(p) \/ InsertTxn(p) \/ ApplyDoubleEntry(p)
    \/ Commit(p) \/ Invalidate(p) \/ ReadCache(p) \/ LoadBalance(p) \/ FillCache(p)
    \/ Reply(p)

Next ==
    \/ \E p \in Workers, r \in Requests : Write(p, r)
    \/ \E p \in Workers, w \in Wallets : BeginGetBalance(p, w) \/ CheckBalance(p, w)
    \/ \E p \in Workers : Serve(p) \/ Abort(p)
    \/ \E w \in Wallets : Expire(w) \/ Freeze(w)

Spec == Init /\ [][Next]_vars

\* Each statement returns once the locks it waits for are free, and TTLs pass.
FairSpec ==
    /\ Spec
    /\ \A p \in Workers : WF_vars(Serve(p))
    /\ \A w \in Wallets : WF_vars(Expire(w))

-----------------------------------------------------------------------------
Writing == {"ensure", "read", "insert", "apply", "commit"}
PC      == Writing \cup {"idle", "invalidate", "get", "load", "fill", "reply"}

TablesOK ==
    /\ exists \subseteq Wallets /\ frozen \subseteq Wallets
    /\ balance \in [Wallets -> Nat]
    /\ txns \in [Keys -> Requests \cup {None}]
    /\ ledger \in [Wallets -> Seq([key : Keys, move : Int, after : Nat])]
    /\ cache \in [Wallets -> Nat \cup {None}]

\* What a worker serves fits the point it has reached.
Serves(p) ==
    /\ pc[p] \in Writing \cup {"invalidate"} => req[p] \in Requests
    /\ pc[p] \in {"get", "load", "fill", "reply"} => req[p] \in Requests \cup Reads

WorkersOK ==
    /\ pc \in [Workers -> PC]
    /\ req \in [Workers -> Requests \cup Reads \cup {None}]
    /\ \A p \in Workers : Serves(p)
    /\ got \in [Workers -> Nat]
    /\ sends \in Nat /\ aborts \in Nat

\* Every variable has its type; no balance, committed or computed, is negative.
TypeOK == TablesOK /\ WorkersOK

\* The ledger explains the balance: each entry starts from the balance the one
\* before it left, and the last one leaves the balance of the wallet.  A lost
\* update between concurrent sessions would break it (apply_double_entry).
Before(w, i) == IF i = 1 THEN 0 ELSE ledger[w][i - 1].after
LedgerChained ==
    \A w \in Wallets :
        /\ \A i \in 1..Len(ledger[w]) :
              ledger[w][i].after = Before(w, i) + ledger[w][i].move
        /\ balance[w] = Before(w, Len(ledger[w]) + 1)

\* However often a key is sent, at once or again after a lost answer, the money
\* moves once, and exactly when the transaction row is there (ApplyTransaction).
AppliedOnce ==
    /\ \A k \in Keys :
          txns[k] # None <=>
              \E w \in Wallets : \E i \in DOMAIN ledger[w] : ledger[w][i].key = k
    /\ \A v, w \in Wallets : \A i \in DOMAIN ledger[v], j \in DOMAIN ledger[w] :
          ledger[v][i].key = ledger[w][j].key => v = w /\ i = j

\* A caller is told of success only when its key is applied, for good.
AcknowledgedIsApplied ==
    \A p \in Workers :
        req[p] \in Requests /\ pc[p] \notin Writing => txns[K(p)] # None

\* No request waits for ever: sessions lock the key, then the row, and never
\* wait with the row held.
EveryRequestReturns == \A p \in Workers : pc[p] # "idle" ~> pc[p] = "idle"

\* When requests stop coming, the cache ends up empty or right, although fills
\* and invalidations race.
CacheConverges == \A w \in Wallets : <>[](cache[w] \in {None, balance[w]})

\* The wallet keeps the promise of LedgerPromise.
Promise == INSTANCE LedgerPromise WITH applied <- txns
KeepsPromise == Promise!Spec

\* Violated.  "Fetch updated balance" (api/grpc/wallet_server.go:82): the balance a
\* gRPC write answers with is the one it left, or a later one.
AnswersUpdatedBalance ==
    \A p \in Workers :
        req[p] \in Requests /\ pc[p] = "reply" /\ txns[K(p)] = req[p] =>
            \E i \in 1..Len(ledger[W(p)]) :
                /\ ledger[W(p)][i].after = got[p]
                /\ \E j \in 1..i : ledger[W(p)][j].key = K(p)
=============================================================================
