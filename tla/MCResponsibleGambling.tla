----------------------- MODULE MCResponsibleGambling -----------------------
(***************************************************************************)
(* One user, whose rows are all there is to race for, and two handlers.    *)
(***************************************************************************)
EXTENDS ResponsibleGambling, TLC

CONSTANTS ann, s1, s2

MCDurations == {1, 3}
MCAmounts   == {1, 2}

SessionSymmetry == Permutations({s1, s2})
=============================================================================
