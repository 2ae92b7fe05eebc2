--------------------------- MODULE LedgerPromise ---------------------------
(***************************************************************************)
(* What the wallet promises its callers, without sessions, locks or        *)
(* retries: an idempotency key is applied at most once, in one step, for   *)
(* one request, and a balance moves only with a key and never below zero.  *)
(***************************************************************************)
EXTENDS Integers

CONSTANTS Wallets,
          Keys,      \* idempotency keys
          Requests,  \* records with a key, a wallet, a type and an amount
          None       \* no request

VARIABLES balance,   \* what each wallet holds
          applied    \* the request each key was spent on

vars == <<balance, applied>>

Init ==
    /\ balance = [w \in Wallets |-> 0]
    /\ applied = [k \in Keys |-> None]

Move(r) == IF r.type = "spend" THEN -r.amount ELSE r.amount

Apply(r) ==
    /\ applied[r.key] = None
    /\ balance[r.wallet] + Move(r) >= 0
    /\ applied' = [applied EXCEPT ![r.key] = r]
    /\ balance' = [balance EXCEPT ![r.wallet] = @ + Move(r)]

Next == \E r \in Requests : Apply(r)

Spec == Init /\ [][Next]_vars
=============================================================================
