---------------------------- MODULE OneTimeGrant ----------------------------
(***************************************************************************)
(* What every exchange of a secret promises: a secret that was handed out  *)
(* is spent at most once, and what is given for it is given after that and *)
(* at most once of each kind.                                              *)
(***************************************************************************)
CONSTANTS Secrets, Kinds

VARIABLES
    issued,   \* secrets handed out
    spent,    \* secrets consumed or revoked
    given     \* triples: a secret, the one it was given for, and its kind

vars == <<issued, spent, given>>

Init ==
    /\ issued = {}
    /\ spent = {}
    /\ given = {}

Issue(s) ==
    /\ s \notin issued
    /\ issued' = issued \cup {s}
    /\ UNCHANGED <<spent, given>>

\* Consumed by an exchange, or revoked.
Spend(s) ==
    /\ s \in issued \ spent
    /\ spent' = spent \cup {s}
    /\ UNCHANGED <<issued, given>>

\* A secret of kind k is handed out for p.
Give(s, p, k) ==
    /\ s \notin issued
    /\ p \in spent
    /\ \A g \in given : g[2] = p => g[3] # k
    /\ issued' = issued \cup {s}
    /\ given' = given \cup {<<s, p, k>>}
    /\ UNCHANGED spent

Next ==
    \/ \E s \in Secrets : Issue(s) \/ Spend(s)
    \/ \E s, p \in Secrets, k \in Kinds : Give(s, p, k)

Spec == Init /\ [][Next]_vars
=============================================================================
