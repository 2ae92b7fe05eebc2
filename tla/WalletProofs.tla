---------------------------- MODULE WalletProofs ----------------------------
(***************************************************************************)
(* Proofs about Wallet, for any workers, wallets, keys and requests.       *)
(***************************************************************************)
EXTENDS Wallet, TLAPS

(***************************************************************************)
(* The inductive invariant.  Sessions says what the locks protect: a key   *)
(* and a wallet row have one holder each, the key of an open session is    *)
(* not committed, and the balance computed under the row lock is still the *)
(* right one at commit.                                                    *)
(***************************************************************************)
Open(p) == pc[p] \in {"apply", "commit"}

Sessions ==
    /\ \A p, q \in Workers : p # q /\ Open(p) /\ Open(q) => K(p) # K(q)
    /\ \A p, q \in Workers : p # q /\ pc[p] = "commit" /\ pc[q] = "commit" => W(p) # W(q)
    /\ \A p \in Workers : Open(p) => txns[K(p)] = None
    /\ \A p \in Workers : pc[p] = "commit" => got[p] = balance[W(p)] + Signed(req[p])

IndInv == TypeOK /\ Sessions /\ LedgerChained /\ AppliedOnce /\ AcknowledgedIsApplied

-----------------------------------------------------------------------------
\* What a request is made of.
LEMMA RequestFields ==
    ASSUME NEW r \in Requests
    PROVE  /\ r.key \in Keys /\ r.wallet \in Wallets /\ r.type \in Types /\ r.amount \in Nat
           /\ Signed(r) \in Int /\ r # None
           /\ r \notin Reads
BY WalletAssumption DEF Signed, Reads, GetBalance, Check, Types

\* A read asks for one of the wallets.
LEMMA ReadFields ==
    ASSUME NEW r \in Reads
    PROVE  r.wallet \in Wallets
BY DEF Reads, GetBalance, Check

\* What a sequence over a set is.
LEMMA SequenceFields ==
    ASSUME NEW S, NEW s \in Seq(S)
    PROVE  /\ DOMAIN s = 1..Len(s) /\ Len(s) \in Nat
           /\ \A i \in 1..Len(s) : s[i] \in S
  OBVIOUS

\* Steps that leave the tables alone, and open or commit no session, keep the
\* invariant when the workers stay well typed and none claims a new success.
LEMMA QuietStep ==
    ASSUME IndInv, NEW p \in Workers,
           WorkersOK', cache' \in [Wallets -> Nat \cup {None}],
           exists' \subseteq Wallets, frozen' \subseteq Wallets,
           UNCHANGED <<balance, txns, ledger>>,
           pc'[p] \notin {"apply", "commit"},
           req'[p] \in Requests /\ pc'[p] \notin Writing => txns[req'[p].key] # None,
           \A q \in Workers \ {p} : pc'[q] = pc[q] /\ req'[q] = req[q] /\ got'[q] = got[q]
    PROVE  IndInv'
<1>1. TypeOK'
  BY DEF IndInv, TypeOK, TablesOK
<1>2. Sessions'
  BY DEF IndInv, Sessions, Open, K, W
<1>3. LedgerChained' /\ AppliedOnce'
  BY DEF IndInv, LedgerChained, Before, AppliedOnce
<1>4. AcknowledgedIsApplied'
  BY DEF IndInv, AcknowledgedIsApplied, K
<1> QED
  BY <1>1, <1>2, <1>3, <1>4 DEF IndInv

\* A worker that finishes, at any point and for any reason, keeps the invariant:
\* a session it had open leaves nothing behind.
LEMMA DoneStep ==
    ASSUME IndInv, NEW p \in Workers, Done(p), sends' \in Nat, aborts' \in Nat,
           UNCHANGED <<exists, frozen, balance, txns, ledger, cache>>
    PROVE  IndInv'
<1>1. WorkersOK'
  BY DEF IndInv, TypeOK, WorkersOK, Serves, Done, Goto, PC, Writing
<1>2. \A q \in Workers \ {p} : pc'[q] = pc[q] /\ req'[q] = req[q] /\ got'[q] = got[q]
  BY DEF Done, Goto, IndInv, TypeOK, WorkersOK
<1>3. pc'[p] = "idle" /\ req'[p] = None
  BY DEF Done, Goto, IndInv, TypeOK, WorkersOK
<1>4. req'[p] \notin Requests
  BY <1>3, WalletAssumption
<1> QED
  BY <1>1, <1>2, <1>3, <1>4, QuietStep DEF IndInv, TypeOK, TablesOK

-----------------------------------------------------------------------------
(* The actions.                                                            *)

\* Starting a write.
LEMMA WriteStep ==
    ASSUME IndInv, NEW p \in Workers, NEW r \in Requests, Write(p, r)
    PROVE  IndInv'
<1> USE DEF Write, Deposit, Spend, Refund, Payout, DailyReward, BeginWrite, Goto, tables,
        IndInv, TypeOK
<1>1. pc'[p] \in {"ensure", "read"} /\ req'[p] = r
  BY DEF WorkersOK
<1>2. WorkersOK'
  BY <1>1 DEF WorkersOK, Serves, PC, Writing
<1>3. \A q \in Workers \ {p} : pc'[q] = pc[q] /\ req'[q] = req[q] /\ got'[q] = got[q]
  BY DEF WorkersOK
<1> QED
  BY <1>1, <1>2, <1>3, QuietStep DEF TablesOK, Writing

\* Starting to read a balance.
LEMMA BeginReadStep ==
    ASSUME IndInv, NEW p \in Workers, NEW w \in Wallets,
           BeginGetBalance(p, w) \/ CheckBalance(p, w)
    PROVE  IndInv'
<1> USE DEF BeginGetBalance, CheckBalance, Goto, tables, IndInv, TypeOK
<1>1. pc'[p] \in {"get", "load"} /\ req'[p] \in Reads /\ req' = [req EXCEPT ![p] = req'[p]]
  BY DEF WorkersOK, Reads
<1>2. WorkersOK'
  BY <1>1 DEF WorkersOK, Serves, PC, Writing
<1>3. \A q \in Workers \ {p} : pc'[q] = pc[q] /\ req'[q] = req[q] /\ got'[q] = got[q]
  BY DEF WorkersOK
<1>4. req'[p] \notin Requests
  BY <1>1, RequestFields
<1> QED
  BY <1>1, <1>2, <1>3, <1>4, QuietStep DEF TablesOK

\* Creating the wallet row, and the checks before the transaction.
LEMMA CheckStep ==
    ASSUME IndInv, NEW p \in Workers, EnsureWallet(p) \/ ReadWallet(p)
    PROVE  IndInv'
<1>1. CASE EnsureWallet(p)
  <2> USE <1>1 DEF EnsureWallet, Goto, IndInv, TypeOK, locals, bounds
  <2>1. req[p] \in Requests /\ W(p) \in Wallets
    BY RequestFields DEF WorkersOK, Serves, Writing, W
  <2>2. pc'[p] = "read" /\ req'[p] = req[p]
    BY DEF WorkersOK
  <2>3. WorkersOK'
    BY <2>1, <2>2 DEF WorkersOK, Serves, PC, Writing
  <2>4. \A q \in Workers \ {p} : pc'[q] = pc[q] /\ req'[q] = req[q] /\ got'[q] = got[q]
    BY DEF WorkersOK
  <2> QED
    BY <2>1, <2>2, <2>3, <2>4, QuietStep DEF TablesOK, Writing
<1>2. CASE ReadWallet(p) /\ Done(p)
  BY <1>2, DoneStep DEF ReadWallet, tables, bounds, IndInv, TypeOK, WorkersOK
<1>3. CASE ReadWallet(p) /\ Goto(p, "insert") /\ UNCHANGED locals
  <2> USE <1>3 DEF ReadWallet, Goto, IndInv, TypeOK, locals, bounds, tables
  <2>1. pc'[p] = "insert" /\ req'[p] = req[p] /\ req[p] \in Requests
    BY DEF WorkersOK, Serves, Writing
  <2>2. WorkersOK'
    BY <2>1 DEF WorkersOK, Serves, PC, Writing
  <2>3. \A q \in Workers \ {p} : pc'[q] = pc[q] /\ req'[q] = req[q] /\ got'[q] = got[q]
    BY DEF WorkersOK
  <2> QED
    BY <2>1, <2>2, <2>3, QuietStep DEF TablesOK, Writing
<1> QED
  BY <1>1, <1>2, <1>3 DEF ReadWallet

\* The insert: the key is there, or this session now holds it alone.
LEMMA InsertStep ==
    ASSUME IndInv, NEW p \in Workers, InsertTxn(p)
    PROVE  IndInv'
<1> USE DEF InsertTxn, AlreadyApplied, Goto, IndInv, TypeOK, locals, bounds, tables
<1>1. /\ UNCHANGED <<req, got>> /\ req[p] \in Requests /\ K(p) \in Keys
      /\ \A q \in Workers \ {p} : pc'[q] = pc[q]
  BY RequestFields DEF WorkersOK, Serves, Writing, K
<1>2. CASE txns[K(p)] = None
  <2>1. pc'[p] = "apply"
    BY <1>2 DEF WorkersOK
  <2>2. TypeOK'
    BY <1>1, <2>1 DEF TablesOK, WorkersOK, Serves, PC, Writing
  <2>3. Sessions'
    BY <1>1, <1>2, <2>1 DEF Sessions, Open, KeyHeld, K, W
  <2>4. LedgerChained' /\ AppliedOnce'
    BY DEF LedgerChained, Before, AppliedOnce
  <2>5. AcknowledgedIsApplied'
    BY <1>1, <2>1 DEF AcknowledgedIsApplied, Writing, K
  <2> QED
    BY <2>2, <2>3, <2>4, <2>5
<1>3. CASE txns[K(p)] # None
  <2>1. pc'[p] = "invalidate"
    BY <1>3 DEF WorkersOK
  <2>2. WorkersOK'
    BY <1>1, <2>1 DEF WorkersOK, Serves, PC, Writing
  <2> QED
    BY <1>1, <1>3, <2>1, <2>2, QuietStep DEF TablesOK, K
<1> QED
  BY <1>2, <1>3

\* apply_double_entry: refused, or the balance is computed under the row lock.
LEMMA ApplyStep ==
    ASSUME IndInv, NEW p \in Workers, ApplyDoubleEntry(p)
    PROVE  IndInv'
<1>1. CASE Done(p)
  BY <1>1, DoneStep DEF ApplyDoubleEntry, tables, bounds, IndInv, TypeOK, WorkersOK
<1>2. CASE /\ Covered(p) /\ Goto(p, "commit") /\ UNCHANGED req
           /\ got' = [got EXCEPT ![p] = balance[W(p)] + Signed(req[p])]
  <2> USE <1>2 DEF ApplyDoubleEntry, Goto, IndInv, TypeOK, bounds, tables
  <2>1. req[p] \in Requests /\ W(p) \in Wallets /\ Signed(req[p]) \in Int
    BY RequestFields DEF WorkersOK, Serves, Writing, W
  <2>2. /\ pc'[p] = "commit" /\ got'[p] = balance[W(p)] + Signed(req[p])
        /\ \A q \in Workers \ {p} : pc'[q] = pc[q] /\ got'[q] = got[q]
    BY DEF WorkersOK
  <2>3. got'[p] \in Nat
    BY <2>1, <2>2 DEF Covered, TablesOK
  <2>4. TypeOK'
    BY <2>1, <2>2, <2>3 DEF TablesOK, WorkersOK, Serves, PC, Writing
  <2>5. Sessions'
    BY <2>2 DEF Sessions, Open, RowHeld, K, W
  <2>6. LedgerChained' /\ AppliedOnce'
    BY DEF LedgerChained, Before, AppliedOnce
  <2>7. AcknowledgedIsApplied'
    BY <2>2 DEF AcknowledgedIsApplied, Writing, K
  <2> QED
    BY <2>4, <2>5, <2>6, <2>7
<1> QED
  BY <1>1, <1>2 DEF ApplyDoubleEntry

\* What a commit does to the ledgers: one entry more, at the end of one of them.
LEMMA CommitLedger ==
    ASSUME IndInv, NEW p \in Workers, Commit(p)
    PROVE  /\ W(p) \in Wallets /\ K(p) \in Keys /\ req[p] \in Requests /\ req[p] # None
           /\ Len(ledger[W(p)]) \in Nat
           /\ DOMAIN ledger'[W(p)] = 1..(Len(ledger[W(p)]) + 1)
           /\ Len(ledger'[W(p)]) = Len(ledger[W(p)]) + 1
           /\ \A i \in 1..Len(ledger[W(p)]) : ledger'[W(p)][i] = ledger[W(p)][i]
           /\ ledger'[W(p)][Len(ledger[W(p)]) + 1] = EntryOf(p)
           /\ \A w \in Wallets \ {W(p)} : ledger'[w] = ledger[w] /\ balance'[w] = balance[w]
           /\ balance'[W(p)] = got[p]
           /\ \A k \in Keys \ {K(p)} : txns'[k] = txns[k]
           /\ txns'[K(p)] = req[p]
           /\ ledger' \in [Wallets -> Seq([key : Keys, move : Int, after : Nat])]
<1> USE DEF IndInv, TypeOK, Commit
<1>1. req[p] \in Requests /\ W(p) \in Wallets /\ K(p) \in Keys /\ Signed(req[p]) \in Int
      /\ req[p] # None
  BY RequestFields DEF WorkersOK, Serves, Writing, W, K
<1>2. EntryOf(p) \in [key : Keys, move : Int, after : Nat]
  BY <1>1 DEF EntryOf, WorkersOK
<1>3. /\ ledger[W(p)] \in Seq([key : Keys, move : Int, after : Nat])
      /\ ledger'[W(p)] = Append(ledger[W(p)], EntryOf(p))
  BY <1>1 DEF TablesOK
<1>4. ledger' \in [Wallets -> Seq([key : Keys, move : Int, after : Nat])]
  BY <1>1, <1>2, <1>3 DEF TablesOK
<1> QED
  BY <1>1, <1>2, <1>3, <1>4 DEF TablesOK

\* The commit: the money moves, once, from the balance the lock protected.
LEMMA CommitStep ==
    ASSUME IndInv, NEW p \in Workers, Commit(p)
    PROVE  IndInv'
<1> DEFINE n == Len(ledger[W(p)])
<1>c. /\ W(p) \in Wallets /\ K(p) \in Keys /\ req[p] \in Requests /\ req[p] # None
      /\ Len(ledger[W(p)]) \in Nat
      /\ DOMAIN ledger'[W(p)] = 1..(Len(ledger[W(p)]) + 1)
      /\ Len(ledger'[W(p)]) = Len(ledger[W(p)]) + 1
      /\ \A i \in 1..Len(ledger[W(p)]) : ledger'[W(p)][i] = ledger[W(p)][i]
      /\ ledger'[W(p)][Len(ledger[W(p)]) + 1] = EntryOf(p)
      /\ \A w \in Wallets \ {W(p)} : ledger'[w] = ledger[w] /\ balance'[w] = balance[w]
      /\ balance'[W(p)] = got[p]
      /\ \A k \in Keys \ {K(p)} : txns'[k] = txns[k]
      /\ txns'[K(p)] = req[p]
      /\ ledger' \in [Wallets -> Seq([key : Keys, move : Int, after : Nat])]
  BY CommitLedger
<1>0. /\ txns[K(p)] = None /\ got[p] = balance[W(p)] + Signed(req[p]) /\ got[p] \in Nat
      /\ pc[p] = "commit" /\ pc'[p] = "invalidate" /\ UNCHANGED <<req, got>>
      /\ \A q \in Workers \ {p} : pc'[q] = pc[q]
  BY DEF IndInv, TypeOK, WorkersOK, Sessions, Open, Commit, Goto, locals
<1>1. TypeOK'
  <2>1. TablesOK'
    BY <1>0, <1>c DEF IndInv, TypeOK, TablesOK, Commit
  <2>2. WorkersOK'
    BY <1>0, <1>c DEF IndInv, TypeOK, WorkersOK, Serves, PC, Writing, Commit, Goto,
       locals, bounds
  <2> QED
    BY <2>1, <2>2 DEF TypeOK
<1>2. Sessions'
  <2>1. \A q \in Workers : Open(q)' => q # p /\ Open(q) /\ K(q) # K(p) /\ K(q)' = K(q)
    BY <1>0 DEF IndInv, Sessions, Open, K
  <2>2. \A q \in Workers : Open(q) => K(q) \in Keys
    BY RequestFields DEF IndInv, TypeOK, WorkersOK, Serves, Writing, Open, K
  <2>3. \A q \in Workers : Open(q)' => txns'[K(q)'] = None
    BY <2>1, <2>2, <1>c DEF IndInv, Sessions
  <2>4. \A q \in Workers : pc'[q] = "commit" => q # p /\ pc[q] = "commit" /\ W(q) # W(p)
    BY <1>0 DEF IndInv, Sessions
  <2>5. \A q \in Workers : pc[q] = "commit" => W(q) \in Wallets
    BY RequestFields DEF IndInv, TypeOK, WorkersOK, Serves, Writing, W
  <2>6. \A q \in Workers : pc'[q] = "commit" => got'[q] = balance'[W(q)'] + Signed(req'[q])
    BY <1>0, <2>4, <2>5, <1>c DEF IndInv, Sessions, W, Signed
  <2> QED
    BY <1>0, <2>1, <2>3, <2>4, <2>6 DEF IndInv, Sessions, Open, K, W
<1>d. \A w \in Wallets : /\ DOMAIN ledger[w] = 1..Len(ledger[w])
                          /\ Len(ledger[w]) \in Nat
                          /\ \A i \in 1..Len(ledger[w]) : ledger[w][i].key \in Keys
  <2> SUFFICES ASSUME NEW w \in Wallets
               PROVE  /\ DOMAIN ledger[w] = 1..Len(ledger[w]) /\ Len(ledger[w]) \in Nat
                      /\ \A i \in 1..Len(ledger[w]) : ledger[w][i].key \in Keys
    OBVIOUS
  <2>1. ledger[w] \in Seq([key : Keys, move : Int, after : Nat])
    BY DEF IndInv, TypeOK, TablesOK
  <2>2. /\ DOMAIN ledger[w] = 1..Len(ledger[w]) /\ Len(ledger[w]) \in Nat
        /\ \A i \in 1..Len(ledger[w]) : ledger[w][i] \in [key : Keys, move : Int, after : Nat]
    BY <2>1, SequenceFields
  <2> QED
    BY <2>2
<1>3. LedgerChained'
  <2> DEFINE Left(w, i) == IF i = 1 THEN 0 ELSE ledger'[w][i - 1].after
  <2> SUFFICES ASSUME NEW w \in Wallets
               PROVE  /\ \A i \in 1..Len(ledger'[w]) :
                            ledger'[w][i].after = Left(w, i) + ledger'[w][i].move
                      /\ balance'[w] = Left(w, Len(ledger'[w]) + 1)
    BY DEF LedgerChained, Before
  <2>0. /\ \A i \in 1..Len(ledger[w]) :
              ledger[w][i].after = Before(w, i) + ledger[w][i].move
        /\ balance[w] = Before(w, Len(ledger[w]) + 1)
    BY DEF IndInv, LedgerChained
  <2>1. CASE w # W(p)
    <3>1. ledger'[w] = ledger[w] /\ balance'[w] = balance[w]
      BY <1>c, <2>1
    <3>2. \A i : Left(w, i) = Before(w, i)
      BY <3>1 DEF Before
    <3> QED
      BY <2>0, <3>1, <3>2
  <2>2. CASE w = W(p)
    <3>1. n \in Nat /\ Len(ledger'[w]) = n + 1 /\ Len(ledger[w]) = n
      BY <1>c, <2>2
    <3>2. \A i \in 1..n : ledger'[w][i] = ledger[w][i]
      BY <1>c, <2>2
    <3>3. \A i \in 1..(n + 1) : Left(w, i) = Before(w, i)
      BY <3>1, <3>2 DEF Before
    <3>4. ledger'[w][n + 1].after = got[p] /\ ledger'[w][n + 1].move = Signed(req[p])
      BY <1>c, <2>2 DEF EntryOf
    <3>5. got[p] = Before(w, n + 1) + Signed(req[p])
      BY <1>0, <2>0, <2>2, <3>1
    <3>6. ASSUME NEW i \in 1..(n + 1)
          PROVE  ledger'[w][i].after = Left(w, i) + ledger'[w][i].move
      <4>1. CASE i = n + 1
        BY <3>1, <3>3, <3>4, <3>5, <4>1
      <4>2. CASE i \in 1..n
        BY <2>0, <3>1, <3>2, <3>3, <4>2
      <4> QED
        BY <3>1, <4>1, <4>2
    <3>7. balance'[w] = Left(w, n + 2)
      BY <1>c, <2>2, <3>1, <3>4
    <3> QED
      BY <3>1, <3>6, <3>7
  <2> QED
    BY <2>1, <2>2
<1>4. AppliedOnce'
  <2>1. \A w \in Wallets : \A i \in DOMAIN ledger[w] :
            ledger[w][i].key \in Keys /\ ledger[w][i].key # K(p)
    <3> SUFFICES ASSUME NEW w \in Wallets, NEW i \in DOMAIN ledger[w]
                 PROVE  ledger[w][i].key \in Keys /\ ledger[w][i].key # K(p)
      OBVIOUS
    <3>1. ledger[w][i].key \in Keys
      BY <1>d
    <3>2. K(p) \in Keys /\ txns[K(p)] = None
      BY <1>0, <1>c
    <3>3. \A k \in Keys :
            (\E v \in Wallets : \E j \in DOMAIN ledger[v] : ledger[v][j].key = k)
              => txns[k] # None
      BY DEF IndInv, AppliedOnce
    <3>4. ledger[w][i].key # K(p)
      BY <3>2, <3>3
    <3> QED
      BY <3>1, <3>4
  <2>3. \A w \in Wallets : \A i \in DOMAIN ledger'[w] :
            \/ i \in DOMAIN ledger[w] /\ ledger'[w][i] = ledger[w][i]
            \/ w = W(p) /\ i = n + 1 /\ ledger'[w][i].key = K(p)
    <3> SUFFICES ASSUME NEW w \in Wallets, NEW i \in DOMAIN ledger'[w]
                 PROVE  \/ i \in DOMAIN ledger[w] /\ ledger'[w][i] = ledger[w][i]
                        \/ w = W(p) /\ i = n + 1 /\ ledger'[w][i].key = K(p)
      OBVIOUS
    <3>1. CASE w # W(p)
      BY <1>c, <3>1
    <3>2. CASE w = W(p)
      <4>1. i \in 1..(n + 1) /\ DOMAIN ledger[w] = 1..n /\ n \in Nat
        BY <1>c, <1>d, <3>2
      <4>2. CASE i = n + 1
        BY <1>c, <3>2, <4>2 DEF EntryOf
      <4>3. CASE i \in 1..n
        BY <1>c, <3>2, <4>1, <4>3
      <4> QED
        BY <4>1, <4>2, <4>3
    <3> QED
      BY <3>1, <3>2
  <2>4. \A w \in Wallets : \A i \in DOMAIN ledger[w] :
            i \in DOMAIN ledger'[w] /\ ledger'[w][i] = ledger[w][i]
    <3> SUFFICES ASSUME NEW w \in Wallets, NEW i \in DOMAIN ledger[w]
                 PROVE  i \in DOMAIN ledger'[w] /\ ledger'[w][i] = ledger[w][i]
      OBVIOUS
    <3>1. CASE w # W(p)
      BY <1>c, <3>1
    <3>2. CASE w = W(p)
      <4>1. i \in 1..n /\ n \in Nat
        BY <1>c, <1>d, <3>2
      <4> QED
        BY <1>c, <3>2, <4>1
    <3> QED
      BY <3>1, <3>2
  <2>5. n + 1 \in DOMAIN ledger'[W(p)] /\ ledger'[W(p)][n + 1].key = K(p)
    BY <1>c DEF EntryOf
  <2>6. ASSUME NEW k \in Keys
        PROVE  txns'[k] # None <=>
                 \E w \in Wallets : \E i \in DOMAIN ledger'[w] : ledger'[w][i].key = k
    <3>1. CASE k = K(p)
      BY <2>5, <3>1, <1>c
    <3>2. CASE k # K(p)
      <4>1. txns[k] # None <=>
              \E w \in Wallets : \E i \in DOMAIN ledger[w] : ledger[w][i].key = k
        BY DEF IndInv, AppliedOnce
      <4>2. txns'[k] = txns[k]
        BY <1>c, <3>2
      <4> QED
        BY <2>3, <2>4, <3>2, <4>1, <4>2
    <3> QED
      BY <3>1, <3>2
  <2>7. ASSUME NEW v \in Wallets, NEW w \in Wallets,
               NEW i \in DOMAIN ledger'[v], NEW j \in DOMAIN ledger'[w],
               ledger'[v][i].key = ledger'[w][j].key
        PROVE  v = w /\ i = j
    BY <2>1, <2>3, <2>7 DEF IndInv, AppliedOnce
  <2> QED
    BY <2>6, <2>7 DEF AppliedOnce
<1>5. AcknowledgedIsApplied'
  <2> SUFFICES ASSUME NEW q \in Workers, req'[q] \in Requests, pc'[q] \notin Writing
               PROVE  txns'[K(q)'] # None
    BY DEF AcknowledgedIsApplied
  <2>1. CASE q = p
    BY <1>0, <2>1, <1>c DEF K
  <2>2. CASE q # p
    BY <1>0, <2>2, <1>c, RequestFields DEF IndInv, AcknowledgedIsApplied, K
  <2> QED
    BY <2>1, <2>2
<1> QED
  BY <1>1, <1>2, <1>3, <1>4, <1>5 DEF IndInv

\* After the commit, and GetBalance: the cache and the locals move, no table does.
LEMMA ReadStep ==
    ASSUME IndInv, NEW p \in Workers,
           Invalidate(p) \/ ReadCache(p) \/ LoadBalance(p) \/ FillCache(p)
    PROVE  IndInv'
<1> USE DEF IndInv, TypeOK
<1>1. CASE Invalidate(p)
  <2>1. req[p] \in Requests /\ txns[K(p)] # None /\ W(p) \in Wallets
    BY <1>1, RequestFields DEF Invalidate, WorkersOK, Serves, Writing, AcknowledgedIsApplied, W
  <2>2. cache' \in [Wallets -> Nat \cup {None}]
    BY <1>1, <2>1 DEF Invalidate, TablesOK
  <2>3. pc'[p] \in {"idle", "get"} /\ req'[p] \in {req[p], None}
        /\ \A q \in Workers \ {p} : pc'[q] = pc[q] /\ req'[q] = req[q] /\ got'[q] = got[q]
    BY <1>1 DEF Invalidate, Done, Goto, locals, WorkersOK
  <2>4. WorkersOK'
    BY <1>1, <2>1 DEF Invalidate, Done, Goto, locals, bounds, WorkersOK, Serves, PC, Writing
  <2> QED
    BY <1>1, <2>1, <2>2, <2>3, <2>4, QuietStep, WalletAssumption
       DEF Invalidate, tables, TablesOK, K
<1>2. CASE ReadCache(p)
  <2>1. W(p) \in Wallets /\ req[p] \in Requests \cup Reads
    BY <1>2, RequestFields, ReadFields DEF ReadCache, WorkersOK, Serves, W
  <2>2. pc'[p] \in {"reply", "load"} /\ req' = req /\ got' \in [Workers -> Nat]
        /\ \A q \in Workers \ {p} : pc'[q] = pc[q] /\ got'[q] = got[q]
    BY <1>2, <2>1 DEF ReadCache, Goto, WorkersOK, TablesOK
  <2>3. WorkersOK'
    BY <1>2, <2>1, <2>2 DEF ReadCache, Goto, bounds, WorkersOK, Serves, PC, Writing
  <2>4. req[p] \in Requests => txns[K(p)] # None
    BY <1>2 DEF ReadCache, AcknowledgedIsApplied, Writing
  <2> QED
    BY <1>2, <2>2, <2>3, <2>4, QuietStep DEF ReadCache, tables, TablesOK, K
<1>3. CASE LoadBalance(p) /\ Done(p)
  BY <1>3, DoneStep DEF LoadBalance, tables, bounds, WorkersOK
<1>4. CASE LoadBalance(p) /\ (Goto(p, "fill") \/ Goto(p, "reply")) /\ UNCHANGED req
           /\ got' = [got EXCEPT ![p] = balance[W(p)]]
  <2>1. W(p) \in Wallets /\ req[p] \in Requests \cup Reads
    BY <1>4, RequestFields, ReadFields DEF LoadBalance, WorkersOK, Serves, W
  <2>2. pc'[p] \in {"fill", "reply"} /\ got' \in [Workers -> Nat]
        /\ \A q \in Workers \ {p} : pc'[q] = pc[q] /\ got'[q] = got[q]
    BY <1>4, <2>1 DEF Goto, WorkersOK, TablesOK
  <2>3. WorkersOK'
    BY <1>4, <2>1, <2>2 DEF LoadBalance, Goto, bounds, WorkersOK, Serves, PC, Writing
  <2>4. req[p] \in Requests => txns[K(p)] # None
    BY <1>4 DEF LoadBalance, AcknowledgedIsApplied, Writing
  <2> QED
    BY <1>4, <2>2, <2>3, <2>4, QuietStep DEF LoadBalance, tables, TablesOK, K
<1>5. CASE FillCache(p)
  <2>1. W(p) \in Wallets /\ req[p] \in Requests \cup Reads
    BY <1>5, RequestFields, ReadFields DEF FillCache, WorkersOK, Serves, W
  <2>2. pc'[p] = "reply" /\ UNCHANGED <<req, got>>
        /\ \A q \in Workers \ {p} : pc'[q] = pc[q]
    BY <1>5 DEF FillCache, Goto, locals, WorkersOK
  <2>3. cache' \in [Wallets -> Nat \cup {None}]
    BY <1>5, <2>1 DEF FillCache, TablesOK, WorkersOK
  <2>4. WorkersOK'
    BY <1>5, <2>1, <2>2 DEF FillCache, Goto, bounds, WorkersOK, Serves, PC, Writing
  <2>5. req[p] \in Requests => txns[K(p)] # None
    BY <1>5 DEF FillCache, AcknowledgedIsApplied, Writing
  <2> QED
    BY <1>5, <2>2, <2>3, <2>4, <2>5, QuietStep DEF FillCache, tables, TablesOK, K
<1> QED
  BY <1>1, <1>2, <1>3, <1>4, <1>5 DEF LoadBalance

\* The reply, and a worker cut short.
LEMMA EndStep ==
    ASSUME IndInv, NEW p \in Workers, Reply(p) \/ Abort(p)
    PROVE  IndInv'
BY DoneStep DEF Reply, Abort, tables, bounds, IndInv, TypeOK, WorkersOK

\* A TTL passes, or an operator freezes a wallet.
LEMMA OutsideStep ==
    ASSUME IndInv, NEW w \in Wallets, Expire(w) \/ Freeze(w)
    PROVE  IndInv'
<1>1. UNCHANGED <<balance, txns, ledger, pc, req, got, sends, aborts>>
  BY DEF Expire, Freeze, tables, locals, bounds
<1>2. TypeOK'
  BY <1>1 DEF Expire, Freeze, tables, IndInv, TypeOK, TablesOK, WorkersOK, Serves
<1>3. Sessions' /\ LedgerChained' /\ AppliedOnce' /\ AcknowledgedIsApplied'
  BY <1>1 DEF IndInv, Sessions, Open, K, W, LedgerChained, Before, AppliedOnce,
     AcknowledgedIsApplied
<1> QED
  BY <1>2, <1>3 DEF IndInv

-----------------------------------------------------------------------------
(* The theorems.                                                           *)

\* The invariant holds initially.
LEMMA InitOK == Init => IndInv
<1> SUFFICES ASSUME Init PROVE IndInv
  OBVIOUS
<1>1. TypeOK
  BY WalletAssumption DEF Init, TypeOK, TablesOK, WorkersOK, Serves, PC, Writing
<1>2. Sessions /\ AcknowledgedIsApplied
  BY WalletAssumption DEF Init, Sessions, Open, AcknowledgedIsApplied
<1>3. LedgerChained /\ AppliedOnce
  BY DEF Init, LedgerChained, Before, AppliedOnce
<1> QED
  BY <1>1, <1>2, <1>3 DEF IndInv

\* Every step keeps the invariant.
LEMMA NextOK == IndInv /\ [Next]_vars => IndInv'
<1> SUFFICES ASSUME IndInv, [Next]_vars PROVE IndInv'
  OBVIOUS
<1>1. CASE \E p \in Workers, r \in Requests : Write(p, r)
  BY <1>1, WriteStep
<1>2. CASE \E p \in Workers, w \in Wallets : BeginGetBalance(p, w) \/ CheckBalance(p, w)
  BY <1>2, BeginReadStep
<1>3. CASE \E p \in Workers : Serve(p) \/ Abort(p)
  BY <1>3, CheckStep, InsertStep, ApplyStep, CommitStep, ReadStep, EndStep DEF Serve
<1>4. CASE \E w \in Wallets : Expire(w) \/ Freeze(w)
  BY <1>4, OutsideStep
<1>5. CASE UNCHANGED vars
  <2>1. UNCHANGED <<exists, frozen, balance, txns, ledger, cache, pc, req, got, sends, aborts>>
    BY <1>5 DEF vars, tables, locals, bounds
  <2>2. TypeOK'
    BY <2>1 DEF IndInv, TypeOK, TablesOK, WorkersOK, Serves
  <2>3. Sessions' /\ LedgerChained' /\ AppliedOnce' /\ AcknowledgedIsApplied'
    BY <2>1 DEF IndInv, Sessions, Open, K, W, LedgerChained, Before, AppliedOnce,
       AcknowledgedIsApplied
  <2> QED
    BY <2>2, <2>3 DEF IndInv
<1> QED
  BY <1>1, <1>2, <1>3, <1>4, <1>5 DEF Next

\* The invariant holds in every reachable state.
THEOREM Invariance == Spec => []IndInv
  BY InitOK, NextOK, PTL DEF Spec

\* Every variable keeps its type; in particular no balance is ever negative.
THEOREM TypeCorrect == Spec => []TypeOK
<1>1. IndInv => TypeOK
  BY DEF IndInv
<1> QED
  BY <1>1, Invariance, PTL

\* The ledger explains every balance: no concurrent update is lost.
THEOREM LedgerExplainsBalance == Spec => []LedgerChained
<1>1. IndInv => LedgerChained
  BY DEF IndInv
<1> QED
  BY <1>1, Invariance, PTL

\* A key moves money at most once, and exactly when its transaction is there.
THEOREM KeyMovesOnce == Spec => []AppliedOnce
<1>1. IndInv => AppliedOnce
  BY DEF IndInv
<1> QED
  BY <1>1, Invariance, PTL

\* A caller told of success has its key applied.
THEOREM SuccessIsApplied == Spec => []AcknowledgedIsApplied
<1>1. IndInv => AcknowledgedIsApplied
  BY DEF IndInv
<1> QED
  BY <1>1, Invariance, PTL

\* A commit is the promised application of its request; every other step of the
\* service leaves the balances and the transactions alone.
LEMMA PromiseStep == IndInv /\ [Next]_vars => [Promise!Next]_(Promise!vars)
<1> SUFFICES ASSUME IndInv, [Next]_vars
             PROVE  Promise!Next \/ UNCHANGED <<balance, txns>>
  BY DEF Promise!vars
<1>1. ASSUME NEW p \in Workers, Commit(p)
      PROVE  Promise!Next
  <2>1. /\ req[p] \in Requests /\ K(p) \in Keys /\ W(p) \in Wallets
        /\ Signed(req[p]) \in Int /\ got[p] \in Nat
    BY <1>1, RequestFields DEF Commit, IndInv, TypeOK, WorkersOK, Serves, Writing, K, W
  <2>2. txns[K(p)] = None /\ got[p] = balance[W(p)] + Signed(req[p])
    BY <1>1 DEF Commit, IndInv, Sessions, Open
  <2>3. balance[W(p)] + Signed(req[p]) >= 0
    BY <2>1, <2>2
  <2>4. Promise!Move(req[p]) = Signed(req[p])
    BY DEF Promise!Move, Signed
  <2>5. balance' = [balance EXCEPT ![W(p)] = @ + Signed(req[p])]
    BY <1>1, <2>2 DEF Commit
  <2>6. Promise!Apply(req[p])
    BY <1>1, <2>2, <2>3, <2>4, <2>5 DEF Promise!Apply, Commit, K, W
  <2> QED
    BY <2>1, <2>6 DEF Promise!Next
<1>2. ASSUME NEW p \in Workers, Serve(p), ~Commit(p)
      PROVE  UNCHANGED <<balance, txns>>
  BY <1>2 DEF Serve, EnsureWallet, ReadWallet, InsertTxn, ApplyDoubleEntry, Invalidate,
     ReadCache, LoadBalance, FillCache, Reply, tables
<1>3. CASE \/ \E p \in Workers, r \in Requests : Write(p, r)
           \/ \E p \in Workers, w \in Wallets : BeginGetBalance(p, w) \/ CheckBalance(p, w)
           \/ \E p \in Workers : Abort(p)
           \/ \E w \in Wallets : Expire(w) \/ Freeze(w)
  BY <1>3 DEF Write, Deposit, Spend, Refund, Payout, DailyReward, BeginWrite, BeginGetBalance, CheckBalance, Abort, Expire, Freeze, tables
<1>4. CASE UNCHANGED vars
  BY <1>4 DEF vars, tables
<1> QED
  BY <1>1, <1>2, <1>3, <1>4 DEF Next

\* The wallet implements LedgerPromise, whatever sessions interleave or abort.
THEOREM PromiseKept == Spec => KeepsPromise
<1>1. Init => Promise!Init
  BY DEF Init, Promise!Init
<1> QED
  BY <1>1, PromiseStep, Invariance, PTL DEF Spec, KeepsPromise, Promise!Spec
=============================================================================
