------------------------------ MODULE MCSignIn ------------------------------
(* Small instances of TenantSignIn and of LtiLaunch in one run: a behaviour *)
(* is one of the one or of the other.                                       *)
EXTENDS TenantSignIn, LtiLaunch

CONSTANTS e1, e2, s1, s2, x1, t1, t2

VARIABLE focus

\* Local only; institution sign-in with and without an emergency way in.
SomePolicies ==
    [mode: {"local"}, breakGlass: {FALSE}, mfa: {FALSE}, default: {NoProvider}]
    \cup [mode: {"sso_required"}, breakGlass: {TRUE}, mfa: BOOLEAN, default: Providers \cup {NoProvider}]

\* A learner and an instructor who are one person, another one, and the other one's
\* account with the first one's address.
SomeClaims ==
    {[subject |-> s1, claims |-> <<e1>>, email |-> e1, instructor |-> FALSE, template |-> None],
     [subject |-> s1, claims |-> <<e1>>, email |-> e1, instructor |-> TRUE, template |-> t2],
     [subject |-> s2, claims |-> <<e2, x1>>, email |-> e2, instructor |-> TRUE, template |-> t1],
     [subject |-> s2, claims |-> <<e1>>, email |-> e1, instructor |-> TRUE, template |-> None]}

\* The part that is not in focus stays in one initial state.
Init ==
    /\ SignInInit /\ LaunchInit
    /\ \/ focus = "launch"
       \/ focus = "signIn" /\ counted /\ toolKey = None

Next ==
    \/ focus = "signIn" /\ SignInNext /\ UNCHANGED <<focus, launchAll>>
    \/ focus = "launch" /\ LaunchNext /\ UNCHANGED <<focus, signInVars>>

Spec == Init /\ [][Next]_<<focus, signInVars, launchAll>>

Symmetry == Permutations(Admins) \cup Permutations(Browsers) \cup Permutations(Providers)
            \cup Permutations(Calls)
=============================================================================
