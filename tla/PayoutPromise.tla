--------------------------- MODULE PayoutPromise ----------------------------
(***************************************************************************)
(* What the settlement of one market promises, without saying how: one     *)
(* winning outcome is decided once, what each user is owed is fixed once,  *)
(* a user is given exactly what is owed and at most once, and after the    *)
(* market is closed nothing more is given.                                 *)
(***************************************************************************)
EXTENDS Naturals

CONSTANTS Users, Outcomes

VARIABLES winner,   \* the decided outcome, or "none"
          owed,     \* what each user is owed
          given,    \* what each user has been given
          closed    \* the settlement has been reported complete

vars == <<winner, owed, given, closed>>

Zero == [u \in Users |-> 0]

Init == winner = "none" /\ owed = Zero /\ given = Zero /\ closed = FALSE

Decide(o) ==
    /\ winner = "none"
    /\ winner' = o
    /\ UNCHANGED <<owed, given, closed>>

Owe ==
    /\ winner # "none" /\ ~closed
    /\ owed = Zero
    /\ owed' \in [Users -> Nat]
    /\ UNCHANGED <<winner, given, closed>>

Give(u) ==
    /\ ~closed
    /\ given[u] = 0
    /\ given' = [given EXCEPT ![u] = owed[u]]
    /\ UNCHANGED <<winner, owed, closed>>

Close ==
    /\ winner # "none"
    /\ closed' = TRUE
    /\ UNCHANGED <<winner, owed, given>>

Next ==
    \/ \E o \in Outcomes : Decide(o)
    \/ Owe
    \/ \E u \in Users : Give(u)
    \/ Close

Spec == Init /\ [][Next]_vars
=============================================================================
