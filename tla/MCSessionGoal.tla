--------------------------- MODULE MCSessionGoal ---------------------------
(***************************************************************************)
(* Small instances of SessionGoal for TLC.                                 *)
(***************************************************************************)
EXTENDS SessionGoal, TLC

CONSTANTS g1, g2, o1, o2, u1, u2, u3

\* Identities, objectives and reports are interchangeable.
Interchangeable ==
    Permutations({g1, g2}) \cup Permutations({o1, o2}) \cup Permutations({u1, u2, u3})
=============================================================================
