------------------------------- MODULE MCSetup -------------------------------
(* The records of two tenants, one tenant's connection to its LMS, and its  *)
(* units and grants, for TLC. A behaviour is about one kind of record,      *)
(* about the connection, or about the grants.                               *)
EXTENDS Administration, LmsConnection, Governance, TLC

CONSTANTS lms1, lms2, work, inst, college, dept, d1, tpl1, tpl2, tpl3

VARIABLE area

Areas == {Tenants, Members \cup {Signing}, Patterns, Issuers, Provisionings, ApiKeys, Platforms, Grants}

Kinds == lms1 :> "canvas" @@ lms2 :> "sakai"

\* A learner who is graded and ends the course, or is not graded yet.
Enrolled(state, graded, current, final) ==
    [learner |-> Learner, state |-> state, graded |-> graded, current |-> current, final |-> final]
Handed(state, score) ==
    [learner |-> Learner, assignment |-> work, state |-> state, score |-> score]
CanvasBooks ==
    {[enrollments |-> {Enrolled("active", TRUE, 40, Null)}, submissions |-> {}],
     [enrollments |-> {Enrolled("completed", TRUE, 40, 50)}, submissions |-> {Handed("graded", 50)}]}
Graded(earned, score, hidden) ==
    [learner |-> Learner,
     course |-> [earned |-> earned, possible |-> 10, calculated |-> Null],
     grades |-> work :> [grade |-> score, hidden |-> hidden, excused |-> FALSE]]
SakaiBooks ==
    {[site |-> Course, students |-> {Graded(Null, Null, FALSE)}],
     [site |-> Course, students |-> {Graded(5, 50, TRUE)}]}
LmsBooks == "canvas" :> CanvasBooks @@ "sakai" :> SakaiBooks

\* An institution, a college and a department yet to be made.
Unit(type, parent) == [type |-> type, parent |-> parent]
TenantUnits == inst :> Unit("institution", NoUnit) @@ college :> Unit("college", inst)
                 @@ dept :> Absent
TenantRoles == d1 :> "viewer"
TenantOwners == tpl1 :> college @@ tpl2 :> college @@ tpl3 :> NoUnit

\* One template in the college, every template of it for longer.
SomeGrants == {
    [delegate |-> d1, unit |-> college, actions |-> {"issue_badge"},
     templates |-> {tpl1}, from |-> 0, to |-> 1],
    [delegate |-> d1, unit |-> college, actions |-> {"issue_badge", "revoke_badge"},
     templates |-> {}, from |-> 0, to |-> 2]}

mcVars == <<adminVars, connVars, govVars, area>>
\* The state in which the exchange of a code has left a platform, to spare its steps.
ConnectedTo(p) ==
    LET token(use, ends, live) == [platform |-> p, use |-> use, ends |-> ends, live |-> live]
    IN  /\ conn = [platform |-> p, access |-> 2, refresh |-> 3,
                   ends |-> IF p \in Silent THEN 0 ELSE Life]
        /\ issued = [t \in Tokens |-> CASE t = 1 -> token("code", 0, FALSE)
                                        [] t = 2 -> token("access", Life, TRUE)
                                        [] t = 3 -> token("refresh", 0, TRUE)
                                        [] OTHER -> NoToken]
        /\ states = {0}

Quiet == /\ book = [p \in Platforms |-> CHOOSE b \in LmsBooks[KindOf[p]] : TRUE]
         /\ minute = 0 /\ tallied = counted /\ adrift = FALSE /\ asked = 0 /\ gone = 0
         /\ at = [c \in Calls |-> "idle"] /\ call = [c \in Calls |-> NoCall]

MCInit ==
    /\ AdminInit /\ GovInit
    /\ \/ /\ area \in Areas /\ tallied = counted /\ ConnInit
          /\ book = [p \in Platforms |-> CHOOSE b \in LmsBooks[KindOf[p]] : TRUE]
          /\ area = Grants => ~counted
       \/ /\ area = Platforms /\ Quiet
          /\ \E p \in Platforms : ConnectedTo(p) /\ (tallied <=> p = lms1)

RecordsNext ==
    /\ area \notin {Platforms, Grants}
    /\ AdminNext /\ UNCHANGED <<connVars, govVars, area>>
    /\ day' # day => area = ApiKeys
    /\ \A r \in Requests : req'[r].target \in area \cup {NoRow}
\* Grades change under the first request only.
LmsNext ==
    /\ area = Platforms
    /\ ConnNext /\ UNCHANGED <<adminVars, govVars, area>>
    /\ book' # book => asked = 1
GrantsNext ==
    /\ area = Grants
    /\ GovNext /\ UNCHANGED <<adminVars, connVars, area>>
MCNext == RecordsNext \/ LmsNext \/ GrantsNext

Symmetry == Permutations(Requests) \cup Permutations(Calls) \cup Permutations(Callers)
MCSpec == MCInit /\ [][MCNext]_mcVars
=============================================================================
