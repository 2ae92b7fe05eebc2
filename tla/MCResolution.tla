---------------------------- MODULE MCResolution -----------------------------
(***************************************************************************)
(* Resolution with two reporters, two appeals of one user, the second of   *)
(* which names another market, two concurrent requests and one             *)
(* confirmation pass.                                                      *)
(***************************************************************************)
EXTENDS Resolution, TLC

CONSTANTS u1, u2, a1, a2, s1, s2, p1

MCAppellant == [a \in {a1, a2} |-> u1]

Symmetry == Permutations({s1, s2})
=============================================================================
