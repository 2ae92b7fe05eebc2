------------------------------ MODULE MCWallet ------------------------------
(***************************************************************************)
(* Wallet on two workers and two wallets: a deposit, two debits that the   *)
(* deposit covers one at a time, and credits of each other kind to the     *)
(* other wallet, each sent under a key another request uses.               *)
(***************************************************************************)
EXTENDS Wallet

CONSTANTS p1, p2, ann, bob, k1, k2, k3

MCWorkers == {p1, p2}
MCWallets == {ann, bob}
MCKeys    == {k1, k2, k3}

Send(k, w, t, n) == [key |-> k, wallet |-> w, type |-> t, amount |-> n]

MCRequests == {Send(k1, ann, "deposit", 3), Send(k2, ann, "spend", 2),
               Send(k3, ann, "spend", 3), Send(k1, bob, "payout", 1),
               Send(k2, bob, "refund", 1), Send(k3, bob, "daily_reward", 1)}
=============================================================================
