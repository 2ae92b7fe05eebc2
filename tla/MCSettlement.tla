---------------------------- MODULE MCSettlement ----------------------------
(***************************************************************************)
(* Settlement on two users and two outcomes: enough for a winner beside a  *)
(* loser, two winners sharing a pool that does not divide, and one user on *)
(* both outcomes.  Two messages are enough for a settlement and its        *)
(* resumption, and for a settlement racing a refund.                       *)
(***************************************************************************)
EXTENDS Settlement

CONSTANTS ann, bob, yes, no

MCUsers    == {ann, bob}
MCOutcomes == {yes, no}
MCStakes   == {100, 201}
=============================================================================
