--------------------------- MODULE MCTokenGrants ---------------------------
(* Small instances of TokenGrants for TLC.                                 *)
EXTENDS TokenGrants, TLC

\* A code and an access token live shorter than a refresh token.
Lifetimes == [code |-> 1, access |-> 1, refresh |-> 2, preauth |-> 1, wallet |-> 1]

Symmetry == Permutations(Requests)
=============================================================================
