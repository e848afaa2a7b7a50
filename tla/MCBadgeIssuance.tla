-------------------------- MODULE MCBadgeIssuance --------------------------
(* Small instances of BadgeIssuance for TLC.                               *)
EXTENDS BadgeIssuance, TLC

\* Runs, keys and recipients are interchangeable.
Symmetry == Permutations(Requests) \cup Permutations(Keys) \cup Permutations(Learners)
=============================================================================
