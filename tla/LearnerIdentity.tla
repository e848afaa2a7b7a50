--------------------------- MODULE LearnerIdentity ---------------------------
(***************************************************************************)
(* The identities of a tenant's learners and of its users, and the         *)
(* requests that write them, each a sequence of statements with no         *)
(* transaction around them: the DID settings and the e-mail links of the   *)
(* learner routes, the linking of an LTI launch                            *)
(* (lti/launch-account-linking.ts), and the two ways of Better Auth to a   *)
(* user (auth/better-auth-runtime.ts, auth/better-auth-adapter.ts).        *)
(*                                                                         *)
(* A user is known by the e-mail address, of which users holds one each.   *)
(***************************************************************************)
EXTENDS Integers, FiniteSets, Sequences, TLC

CONSTANTS
    Profiles,    \* ids of learner profiles
    Emails, Subjects, SourcedIds, Dids, \* values of identities, by type
    AuthUsers,   \* ids of Better Auth users
    Proofs,      \* ids of identity link proofs
    Members,     \* users who are members from the start
    Calls,       \* requests, which may overlap
    None,        \* no profile, value, user or proof
    MaxBegun,    \* bound on the requests
    MaxLost      \* bound on the requests lost halfway

ASSUME IdentityAssumption ==
    /\ None \notin Profiles \cup Emails \cup AuthUsers \cup Proofs
    /\ Dids \cap (Emails \cup Subjects \cup SourcedIds) = {} \* an identity is a type and a value
    /\ Members \subseteq Emails
    /\ MaxBegun \in Nat /\ MaxLost \in Nat

VARIABLES
    profiles,    \* learner_profiles
    identities,  \* learner_identities, by value: UNIQUE (tenant_id, identity_type, identity_value)
    proofs,      \* learner_identity_link_proofs
    users,       \* users
    roles,       \* memberships
    authUsers,   \* auth.user: the address of each
    links,       \* auth_identity_links: the user of each Better Auth user
    calls,       \* the requests and what they hold
    begun, lost, \* counters of the bounds
    overlapped,  \* history: two requests have overlapped
    opened,      \* history: what the launches answered
    refused      \* history: users whose magic link was refused

learnerVars == <<profiles, identities, proofs>>
accountVars == <<users, roles, authUsers, links>>
historyVars == <<overlapped, opened, refused>>
identityVars == <<learnerVars, accountVars, calls, begun, lost, historyVars>>

Values == Emails \cup Subjects \cup SourcedIds \cup Dids
Roles == {"none", "viewer", "issuer"}
CallStages == {"idle", "registry", "deploy", "key", "newKey", "storeNonce", "config", "nonce",
           "session", "template", "select", "find", "create", "primary", "claim",
           "alias", "user", "member", "enrol", "promote", "link", "match", "matched",
           "newAuth", "newLink", "open", "place", "linked", "conflict", "bind",
           "did", "owner", "removeDid", "addDid", "target", "prove",
           "proof", "proofOwner", "clear", "addEmail", "mark"}

NoIdentity == [profile |-> None, primary |-> FALSE]
NoProof == [profile |-> None, email |-> None, by |-> None, status |-> "absent"]
NoCall == [op |-> "none", stage |-> "idle"]

IdentityInit ==
    /\ profiles = {}
    /\ identities = [v \in Values |-> NoIdentity]
    /\ proofs = [f \in Proofs |-> NoProof]
    /\ users = Members
    /\ roles = [e \in Emails |-> IF e \in Members THEN "viewer" ELSE "none"]
    /\ authUsers = [a \in AuthUsers |-> None]
    /\ links = [a \in AuthUsers |-> None]
    /\ calls = [r \in Calls |-> NoCall]
    /\ begun = 0 /\ lost = 0
    /\ overlapped = FALSE
    /\ opened = {} /\ refused = {}

At(r, s) == calls[r].stage = s
Hold(r, c) == calls' = [calls EXCEPT ![r] = c]
MoveTo(r, s) == Hold(r, [calls[r] EXCEPT !.stage = s])
Answer(r) == Hold(r, NoCall)

\* A request is received. It overlaps every other one that has not answered.
Receive(r, c) ==
    /\ At(r, "idle")
    /\ begun < MaxBegun
    /\ begun' = begun + 1
    /\ overlapped' = (overlapped \/ \E q \in Calls : ~At(q, "idle"))
    /\ Hold(r, c)
    /\ UNCHANGED <<learnerVars, accountVars, lost, opened, refused>>

-----------------------------------------------------------------------------
(* The tables.                                                             *)

\* findLearnerProfileByIdentity
Owner(v) == identities[v].profile

PrimaryOf(p) == {v \in Values : identities[v].profile = p /\ identities[v].primary}

\* Mutant: the value may be another profile's.
ValueAlwaysFree(v) == TRUE
\* UNIQUE (tenant_id, identity_type, identity_value)
ValueFree(v) == Owner(v) = None

\* addLearnerIdentityAlias: the INSERT, which fails where a unique index says so, also
\* the one of the primary identity of a profile.
Insertable(v, p, primary) == ValueFree(v) /\ (primary => PrimaryOf(p) = {})

Alias(p, primary) == [profile |-> p, primary |-> primary]

\* The request goes on at `next` or, its INSERT refused, answers 500.
InsertAlias(r, v, p, primary, next) ==
    /\ IF Insertable(v, p, primary)
       THEN identities' = [identities EXCEPT ![v] = Alias(p, primary)] /\ next
       ELSE Answer(r) /\ UNCHANGED identities
    /\ UNCHANGED <<profiles, proofs, accountVars, begun, lost, historyVars>>

Unchanged == UNCHANGED <<learnerVars, accountVars, begun, lost, historyVars>>

-----------------------------------------------------------------------------
(* resolveLearnerProfileForIdentity, with which a launch and a learner's   *)
(* requests begin.                                                         *)

\* Where a request goes once it has its profile.
AfterProfile(c) ==
    CASE c.op = "launch" -> "claim"
      [] c.op = "did"    -> "did"
      [] c.op = "prove"  -> "target"

WithProfile(c, p) == [c EXCEPT !.profile = p, !.stage = AfterProfile(c)]

FindProfile(r) ==
    /\ At(r, "find")
    /\ IF Owner(calls[r].key) = None
       THEN MoveTo(r, "create")
       ELSE Hold(r, WithProfile(calls[r], Owner(calls[r].key)))
    /\ Unchanged

\* createLearnerProfile: the row, then its primary identity.
CreateProfile(r) ==
    /\ At(r, "create")
    /\ Profiles \ profiles # {}
    /\ LET p == CHOOSE p \in Profiles \ profiles : TRUE IN
        /\ profiles' = profiles \cup {p}
        /\ Hold(r, [calls[r] EXCEPT !.profile = p, !.stage = "primary"])
    /\ UNCHANGED <<identities, proofs, accountVars, begun, lost, historyVars>>

AddPrimary(r) ==
    /\ At(r, "primary")
    /\ LET c == calls[r] IN InsertAlias(r, c.key, c.profile, TRUE, Hold(r, WithProfile(c, c.profile)))

-----------------------------------------------------------------------------
(* linkLtiLaunchAccount.                                                   *)

\* Mutant: an identity of another profile is taken for the launching learner's.
ForeignIgnored(v, p) == FALSE
Foreign(v, p) == Owner(v) \notin {None, p}

\* The claims, first the e-mail address, then the sourced id, each looked up and, if it
\* is nobody's, made an alias. One of another profile's ends the launch with 500.
CheckClaim(r) ==
    /\ At(r, "claim")
    /\ LET c == calls[r] IN
        IF c.claims = <<>> THEN MoveTo(r, "user")
        ELSE IF Foreign(Head(c.claims), c.profile) THEN Answer(r)
        ELSE IF Owner(Head(c.claims)) = None THEN MoveTo(r, "alias")
        ELSE Hold(r, [c EXCEPT !.claims = Tail(@)])
    /\ Unchanged

AddClaimed(r) ==
    /\ At(r, "alias")
    /\ LET c == calls[r] IN
        InsertAlias(r, Head(c.claims), c.profile, FALSE,
                    Hold(r, [c EXCEPT !.claims = Tail(@), !.stage = "claim"]))

\* upsertUserByEmail
UsersWith(e) == users \cup {e}

\* Of the claimed address or one made up of the subject.
UpsertUser(r) ==
    /\ At(r, "user")
    /\ users' = UsersWith(calls[r].email)
    /\ MoveTo(r, "member")
    /\ UNCHANGED <<learnerVars, roles, authUsers, links, begun, lost, historyVars>>

\* findTenantMembership
Membership(e) == roles[e]

\* ensureTenantMembership reads, and a member who is an instructor becomes an issuer.
AfterMember(c, role) ==
    IF role = "none" THEN "enrol"
    ELSE IF c.instructor /\ role = "viewer" THEN "promote" ELSE "link"

FindMembership(r) ==
    /\ At(r, "member")
    /\ MoveTo(r, AfterMember(calls[r], Membership(calls[r].email)))
    /\ Unchanged

\* upsertTenantMembershipRole, whose ON CONFLICT writes the role over the one there is.
UpsertRole(r) ==
    /\ calls[r].stage \in {"enrol", "promote"}
    /\ LET c == calls[r] IN
        /\ roles' = [roles EXCEPT ![c.email] = IF c.stage = "enrol" THEN "viewer" ELSE "issuer"]
        /\ MoveTo(r, IF c.stage = "enrol" /\ c.instructor THEN "promote" ELSE "link")
    /\ UNCHANGED <<learnerVars, users, authUsers, links, begun, lost, historyVars>>

-----------------------------------------------------------------------------
(* createBetterAuthSessionForCredtrailUser: the Better Auth user of a user.*)

LinkedTo(e) == {a \in AuthUsers : links[a] = e}
Addressed(e) == {a \in AuthUsers : authUsers[a] = e}
\* Ids are random: which of the unused ones is taken does not matter.
NewAuthUser == CHOOSE a \in Addressed(None) : TRUE

FindLinkOfUser(r) ==
    /\ At(r, "link")
    /\ LET e == calls[r].email IN
        IF LinkedTo(e) = {} THEN MoveTo(r, "match")
        ELSE \E a \in LinkedTo(e) : Hold(r, [calls[r] EXCEPT !.auth = a, !.stage = "open"])
    /\ Unchanged

\* Mutant: a Better Auth user of that address is not looked for.
NobodyMatches(e) == {}
\* findBetterAuthUserByEmail: any of them, LIMIT 1.
Matches(e) == Addressed(e)

MatchAuthUser(r) ==
    /\ At(r, "match")
    /\ LET e == calls[r].email IN
        IF Matches(e) = {} THEN MoveTo(r, "newAuth")
        ELSE \E a \in Matches(e) : Hold(r, [calls[r] EXCEPT !.auth = a, !.stage = "matched"])
    /\ Unchanged

\* One that is linked to another user is left alone.
CheckMatched(r) ==
    /\ At(r, "matched")
    /\ MoveTo(r, IF links[calls[r].auth] \in {None, calls[r].email} THEN "newLink" ELSE "newAuth")
    /\ Unchanged

CreateAuthUser(r) ==
    /\ At(r, "newAuth")
    /\ Addressed(None) # {}
    /\ LET a == NewAuthUser IN
        /\ authUsers' = [authUsers EXCEPT ![a] = calls[r].email]
        /\ Hold(r, [calls[r] EXCEPT !.auth = a, !.stage = "newLink"])
    /\ UNCHANGED <<learnerVars, users, roles, links, begun, lost, historyVars>>

\* UNIQUE (auth_system, auth_user_id) and UNIQUE (auth_system, credtrail_user_id)
LinkFree(a, e) == links[a] = None /\ LinkedTo(e) = {}

\* createAuthIdentityLink
InsertLink(r, a, e, next) ==
    /\ IF LinkFree(a, e)
       THEN links' = [links EXCEPT ![a] = e] /\ MoveTo(r, next)
       ELSE Answer(r) /\ UNCHANGED links
    /\ UNCHANGED <<learnerVars, users, roles, authUsers, begun, lost, historyVars>>

LinkAuthUser(r) ==
    /\ At(r, "newLink")
    /\ InsertLink(r, calls[r].auth, calls[r].email, "open")

-----------------------------------------------------------------------------
(* A magic link: Better Auth finds the user of the address, or makes one,  *)
(* and resolveCredtrailUserId looks for the CredTrail user.                *)

FollowMagicLink(r, e) ==
    /\ At(r, "idle")
    /\ begun < MaxBegun
    /\ begun' = begun + 1
    /\ overlapped' = (overlapped \/ \E q \in Calls : ~At(q, "idle"))
    /\ \E a \in IF Addressed(e) # {} THEN Addressed(e)
                ELSE IF Addressed(None) # {} THEN {NewAuthUser} ELSE {} :
        /\ authUsers' = [authUsers EXCEPT ![a] = e]
        /\ Hold(r, [op |-> "magic", stage |-> "linked", email |-> e, auth |-> a])
    /\ UNCHANGED <<learnerVars, users, roles, links, lost, opened, refused>>

FindLinkOfAuthUser(r) ==
    /\ At(r, "linked")
    /\ IF links[calls[r].auth] # None THEN Answer(r) /\ UNCHANGED users
       ELSE users' = UsersWith(calls[r].email) /\ MoveTo(r, "conflict")
    /\ UNCHANGED <<learnerVars, roles, authUsers, links, begun, lost, historyVars>>

\* A user who is linked to another Better Auth user is not signed in.
CheckConflict(r) ==
    /\ At(r, "conflict")
    /\ LET e == calls[r].email IN
        IF LinkedTo(e) \subseteq {calls[r].auth}
        THEN MoveTo(r, "bind") /\ UNCHANGED refused
        ELSE Answer(r) /\ refused' = refused \cup {e}
    /\ UNCHANGED <<learnerVars, accountVars, begun, lost, overlapped, opened>>

BindAuthUser(r) ==
    /\ At(r, "bind")
    /\ IF LinkFree(calls[r].auth, calls[r].email)
       THEN links' = [links EXCEPT ![calls[r].auth] = calls[r].email]
       ELSE UNCHANGED links
    /\ Answer(r)
    /\ UNCHANGED <<learnerVars, users, roles, authUsers, begun, lost, historyVars>>

-----------------------------------------------------------------------------
(* POST …/learner/settings/did.                                            *)

\* An empty DID (None) clears the one there is. Only members have a dashboard.
AskDid(r, e, d) ==
    /\ roles[e] # "none"
    /\ Receive(r, [op |-> "did", stage |-> "find", key |-> e, did |-> d, profile |-> None])

CheckDid(r) ==
    /\ At(r, "did")
    /\ LET c == calls[r] IN
        IF c.did # None /\ Foreign(c.did, c.profile) THEN Answer(r) ELSE MoveTo(r, "removeDid")
    /\ Unchanged

\* removeLearnerIdentityAliasesByType
DidsOf(p) == {d \in Dids : Owner(d) = p}

RemoveDids(r) ==
    /\ At(r, "removeDid")
    /\ LET c == calls[r] IN
        /\ identities' = [v \in Values |->
               IF v \in DidsOf(c.profile) THEN NoIdentity ELSE identities[v]]
        /\ IF c.did = None THEN Answer(r) ELSE MoveTo(r, "addDid")
    /\ UNCHANGED <<profiles, proofs, accountVars, begun, lost, historyVars>>

AddDid(r) ==
    /\ At(r, "addDid")
    /\ InsertAlias(r, calls[r].did, calls[r].profile, FALSE, Answer(r))

-----------------------------------------------------------------------------
(* …/identity-links/email/request and /verify.                             *)

AskProof(r, e, target) ==
    /\ roles[e] # "none"
    /\ Receive(r, [op |-> "prove", stage |-> "find", key |-> e, target |-> target, profile |-> None])

\* An address that is another's is refused, one's own is linked already.
CheckTarget(r) ==
    /\ At(r, "target")
    /\ IF Owner(calls[r].target) = None THEN MoveTo(r, "prove") ELSE Answer(r)
    /\ Unchanged

\* createLearnerIdentityLinkProof
CreateProof(r) ==
    /\ At(r, "prove")
    /\ \E f \in Proofs :
        /\ proofs[f].status = "absent"
        /\ proofs' = [proofs EXCEPT ![f] =
               [profile |-> calls[r].profile, email |-> calls[r].target,
                by |-> calls[r].key, status |-> "valid"]]
    /\ Answer(r)
    /\ UNCHANGED <<profiles, identities, accountVars, begun, lost, historyVars>>

ExpireProof(f) ==
    /\ proofs[f].status = "valid"
    /\ proofs' = [proofs EXCEPT ![f].status = "expired"]
    /\ UNCHANGED <<profiles, identities, accountVars, calls, begun, lost, historyVars>>

\* The token is of a proof that exists and, if it is valid, is the caller's own.
AskVerification(r, f) ==
    /\ proofs[f].status # "absent"
    /\ Receive(r, [op |-> "verify", stage |-> "proof", proof |-> f])

CheckProof(r) ==
    /\ At(r, "proof")
    /\ IF proofs[calls[r].proof].status = "valid" THEN MoveTo(r, "proofOwner") ELSE Answer(r)
    /\ Unchanged

AfterProofOwner(v, p) == IF Owner(v) = p THEN "mark" ELSE "clear"

CheckProofOwner(r) ==
    /\ At(r, "proofOwner")
    /\ LET f == proofs[calls[r].proof] IN
        IF Foreign(f.email, f.profile) THEN Answer(r)
        ELSE MoveTo(r, AfterProofOwner(f.email, f.profile))
    /\ Unchanged

\* addLearnerIdentityAlias (isPrimary): the other identities are primary no more.
ClearPrimary(r) ==
    /\ At(r, "clear")
    /\ identities' = [v \in Values |->
           IF Owner(v) = proofs[calls[r].proof].profile
           THEN [identities[v] EXCEPT !.primary = FALSE] ELSE identities[v]]
    /\ MoveTo(r, "addEmail")
    /\ UNCHANGED <<profiles, proofs, accountVars, begun, lost, historyVars>>

ProvenIsPrimary == TRUE

AddProven(r) ==
    /\ At(r, "addEmail")
    /\ LET f == proofs[calls[r].proof] IN
        InsertAlias(r, f.email, f.profile, ProvenIsPrimary, MoveTo(r, "mark"))

\* markLearnerIdentityLinkProofUsed: where used_at IS NULL, whatever the count.
MarkUsed(r) ==
    /\ At(r, "mark")
    /\ proofs' = [proofs EXCEPT ![calls[r].proof].status = "used"]
    /\ Answer(r)
    /\ UNCHANGED <<profiles, identities, accountVars, begun, lost, historyVars>>

-----------------------------------------------------------------------------
\* A request ends where it stands: a statement fails, or the process is killed.
LoseCall(r) ==
    /\ ~At(r, "idle")
    /\ lost < MaxLost
    /\ lost' = lost + 1
    /\ Answer(r)
    /\ UNCHANGED <<learnerVars, accountVars, begun, historyVars>>

LearnerStep(r) ==
    \/ FindProfile(r) \/ CreateProfile(r) \/ AddPrimary(r)
    \/ CheckDid(r) \/ RemoveDids(r) \/ AddDid(r)
    \/ CheckTarget(r) \/ CreateProof(r)
    \/ CheckProof(r) \/ CheckProofOwner(r) \/ ClearPrimary(r) \/ AddProven(r) \/ MarkUsed(r)

AccountStep(r) ==
    \/ CheckClaim(r) \/ AddClaimed(r) \/ UpsertUser(r) \/ FindMembership(r) \/ UpsertRole(r)
    \/ FindLinkOfUser(r) \/ MatchAuthUser(r) \/ CheckMatched(r) \/ CreateAuthUser(r)
    \/ LinkAuthUser(r)
    \/ FindLinkOfAuthUser(r) \/ CheckConflict(r) \/ BindAuthUser(r)
=============================================================================
