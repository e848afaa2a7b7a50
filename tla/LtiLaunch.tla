------------------------------ MODULE LtiLaunch ------------------------------
(***************************************************************************)
(* LTI 1.3 launches into one tenant (routes/lti-routes.ts,                 *)
(* lti/launch-verification.ts, lti/credtrail-lti-storage.ts): the          *)
(* platform's login leaves a nonce, which the launch consumes; the launch  *)
(* is then linked to a learner and a user (LearnerIdentity) and may leave  *)
(* a placement of a badge on a course's resource link.                     *)
(*                                                                         *)
(* The id_token, the state and the nonce's comparison are the LTI          *)
(* library's, which is modelled from how it is called: a launch it accepts *)
(* is the platform's own.                                                  *)
(***************************************************************************)
EXTENDS LearnerIdentity, SqlAdapter

CONSTANTS
    Nonces,      \* nonces, one for each login
    Keys,        \* key pairs that the tool generates
    Templates,   \* badge templates
    LoggedIn,    \* nonces of logins that may have been made already
    LaunchClaims \* a bound: the claims of the launches that are made

ASSUME LaunchAssumption ==
    /\ None \notin Keys \cup Templates
    /\ LoggedIn \subseteq Nonces /\ (LoggedIn # {} => Keys # {})
    /\ LaunchClaims \subseteq
        [subject : Subjects, claims : Seq(Emails \cup SourcedIds), email : Emails,
         instructor : BOOLEAN, template : Templates \cup {None}]

VARIABLES
    counted,     \* does the database count the rows that an UPDATE changed
    registered,  \* lti_issuer_registrations: the platform's row
    deployed,    \* lti_deployments: its deployment
    toolKey,     \* lti_tool_keys
    nonces,      \* lti_launch_nonces
    ltiSessions, \* lti_launch_sessions: the launches that have one
    available,   \* badge templates that are not archived
    placement,   \* lti_resource_link_placements: the row of one resource link
    signed       \* history: the keys that were published or signed with

launchVars == <<counted, registered, deployed, toolKey, nonces, ltiSessions, available,
                placement, signed>>

NoPlacement == [template |-> None, by |-> None]

LaunchInit ==
    /\ IdentityInit
    /\ counted \in BOOLEAN
    /\ registered = TRUE
    /\ \E before \in {{}, LoggedIn} :
        /\ deployed = (before # {})
        /\ toolKey = IF before = {} THEN None ELSE CHOOSE k \in Keys : TRUE
        /\ nonces = [n \in Nonces |-> IF n \in before THEN "stored" ELSE "none"]
    /\ ltiSessions = {}
    /\ available = Templates
    /\ placement = NoPlacement
    /\ signed = {}

\* The rows that run() reports of a statement without RETURNING.
Reported(changed) == IF counted THEN RowsChanged(changed, FALSE) ELSE RowsWritten(changed, FALSE)

KeepsLaunch == UNCHANGED launchVars
KeepsTables == UNCHANGED <<learnerVars, accountVars, begun, lost, historyVars>>

-----------------------------------------------------------------------------
(* The platform's registration, which a bootstrap administrator writes.    *)

AskAdmin == begun < MaxBegun /\ begun' = begun + 1

Register ==
    /\ ~registered /\ AskAdmin
    /\ registered' = TRUE
    /\ UNCHANGED <<learnerVars, accountVars, calls, lost, historyVars>>
    /\ UNCHANGED <<counted, deployed, toolKey, nonces, ltiSessions, available, placement, signed>>

\* The deployments go with the registration (ON DELETE CASCADE).
Unregister ==
    /\ registered /\ AskAdmin
    /\ registered' = FALSE /\ deployed' = FALSE
    /\ UNCHANGED <<learnerVars, accountVars, calls, lost, historyVars>>
    /\ UNCHANGED <<counted, toolKey, nonces, ltiSessions, available, placement, signed>>

Archive(t) ==
    /\ t \in available /\ AskAdmin
    /\ available' = available \ {t}
    /\ UNCHANGED <<learnerVars, accountVars, calls, lost, historyVars>>
    /\ UNCHANGED <<counted, registered, deployed, toolKey, nonces, ltiSessions, placement, signed>>

-----------------------------------------------------------------------------
(* The tool's key: createCredTrailLtiTool, which every handler calls.      *)

\* findActiveLtiToolKey
KeyFound == toolKey

\* Where a request goes once the tool has a key.
AfterKey(c) ==
    CASE c.op = "login"  -> "storeNonce"
      [] c.op = "launch" -> "config"
      [] c.op = "select" -> "select"

\* Publishing (GET /v1/lti/jwks) is all that the request does, and to sign the last thing.
KeyInHand(r, k) ==
    /\ IF calls[r].op = "jwks"
       THEN Answer(r) /\ signed' = signed \cup {k}
       ELSE Hold(r, [calls[r] EXCEPT !.key = k, !.stage = AfterKey(calls[r])]) /\ UNCHANGED signed

FindKey(r) ==
    /\ At(r, "key")
    /\ IF KeyFound = None
       THEN MoveTo(r, "newKey") /\ UNCHANGED signed
       ELSE KeyInHand(r, KeyFound)
    /\ KeepsTables
    /\ UNCHANGED <<counted, registered, deployed, toolKey, nonces, ltiSessions, available, placement>>

InHand == {calls[r].key : r \in {q \in Calls : calls[q].op \in {"login", "launch", "select"}}}
UnusedKeys == Keys \ (InHand \cup signed \cup {toolKey})

\* createLtiToolKey writes over the row of the same key id; the request goes on with the
\* pair it generated.
CreateKey(r) ==
    /\ At(r, "newKey")
    /\ UnusedKeys # {}
    /\ LET k == CHOOSE k \in UnusedKeys : TRUE IN
        /\ toolKey' = k
        /\ KeyInHand(r, k)
    /\ KeepsTables
    /\ UNCHANGED <<counted, registered, deployed, nonces, ltiSessions, available, placement>>

AskKeys(r) == Receive(r, [op |-> "jwks", stage |-> "key"]) /\ KeepsLaunch

-----------------------------------------------------------------------------
(* /v1/lti/oidc/login.                                                     *)

AskLogin(r, n) ==
    /\ nonces[n] = "none"
    /\ \A q \in Calls : calls[q].op = "login" => calls[q].nonce # n
    /\ registered
    /\ Receive(r, [op |-> "login", stage |-> "deploy", nonce |-> n, key |-> None])
    /\ KeepsLaunch

\* upsertLtiDeployment, whose foreign key needs the registration.
UpsertDeployment(r) ==
    /\ At(r, "deploy")
    /\ IF registered THEN deployed' = TRUE /\ MoveTo(r, "key") ELSE Answer(r) /\ UNCHANGED deployed
    /\ KeepsTables
    /\ UNCHANGED <<counted, registered, toolKey, nonces, ltiSessions, available, placement, signed>>

\* handleLogin: the platform's configuration, and the nonce.
StoreNonce(r) ==
    /\ At(r, "storeNonce")
    /\ nonces' = IF registered /\ deployed
                 THEN [nonces EXCEPT ![calls[r].nonce] = "stored"] ELSE nonces
    /\ Answer(r)
    /\ KeepsTables
    /\ UNCHANGED <<counted, registered, deployed, toolKey, ltiSessions, available, placement, signed>>

ExpireNonce(n) ==
    /\ nonces[n] = "stored"
    /\ nonces' = [nonces EXCEPT ![n] = "expired"]
    /\ KeepsTables
    /\ UNCHANGED <<counted, registered, deployed, toolKey, calls, ltiSessions, available, placement,
                   signed>>

-----------------------------------------------------------------------------
(* POST /v1/lti/launch, as often as the browser sends it.                  *)

AskLaunch(r, n, claims) ==
    /\ nonces[n] # "none"
    /\ registered
    /\ Receive(r, [op |-> "launch", stage |-> "key", nonce |-> n, key |-> None,
                   subject |-> claims.subject, claims |-> claims.claims,
                   email |-> claims.email, instructor |-> claims.instructor,
                   claimed |-> {claims.claims[i] : i \in DOMAIN claims.claims},
                   template |-> claims.template, profile |-> None, auth |-> None])
    /\ KeepsLaunch

\* verifyLaunch: the platform's configuration, then the signature.
FindConfig(r) ==
    /\ At(r, "config")
    /\ IF registered /\ deployed THEN MoveTo(r, "nonce") ELSE Answer(r)
    /\ KeepsTables /\ KeepsLaunch

\* consumeLtiLaunchNonce: the WHERE of the UPDATE.
Consumable(n) == nonces[n] = "stored"

\* Mutant: the row count is not looked at.
AcceptedAnyway(changed) == TRUE

\* Did the UPDATE consume it?
Accepted(changed) == Reported(changed) > 0

ConsumeNonce(r) ==
    /\ At(r, "nonce")
    /\ LET n == calls[r].nonce
           changed == IF Consumable(n) THEN 1 ELSE 0 IN
        /\ nonces' = IF Consumable(n) THEN [nonces EXCEPT ![n] = "consumed"] ELSE nonces
        /\ IF Accepted(changed) THEN MoveTo(r, "session") ELSE Answer(r)
    /\ KeepsTables
    /\ UNCHANGED <<counted, registered, deployed, toolKey, ltiSessions, available, placement, signed>>

\* createSession of the library, through upsertLtiLaunchSession.
StoreSession(r) ==
    /\ At(r, "session")
    /\ ltiSessions' = ltiSessions \cup {calls[r].nonce}
    /\ MoveTo(r, "template")
    /\ KeepsTables
    /\ UNCHANGED <<counted, registered, deployed, toolKey, nonces, available, placement, signed>>

\* A launch of a badge needs a template that is not archived. What follows is
\* linkLtiLaunchAccount, for the subject of the launch.
CheckTemplate(r) ==
    /\ At(r, "template")
    /\ LET c == calls[r] IN
        IF c.template \in available \cup {None}
        THEN Hold(r, [c EXCEPT !.key = c.subject, !.stage = "find"])
        ELSE Answer(r)
    /\ KeepsTables /\ KeepsLaunch

Opened(c) == [nonce |-> c.nonce, subject |-> c.subject, email |-> c.email,
              claimed |-> c.claimed, profile |-> c.profile, auth |-> c.auth, template |-> c.template]

\* The Better Auth session is there; a launch without a badge is answered.
OpenLaunch(r) ==
    /\ At(r, "open")
    /\ opened' = opened \cup {Opened(calls[r])}
    /\ IF calls[r].template = None THEN Answer(r) ELSE MoveTo(r, "place")
    /\ UNCHANGED <<learnerVars, accountVars, begun, lost, overlapped, refused>>
    /\ KeepsLaunch

\* upsertLtiResourceLinkPlacement: COALESCE (excluded, present), of a launch that has a user.
Placed(t, e) == [template |-> t, by |-> e]

\* A failure here is reported and the launch answered as if nothing had happened.
PlaceLink(r) ==
    /\ At(r, "place")
    /\ placement' = Placed(calls[r].template, calls[r].email)
    /\ Answer(r)
    /\ KeepsTables
    /\ UNCHANGED <<counted, registered, deployed, toolKey, nonces, ltiSessions, available, signed>>

-----------------------------------------------------------------------------
\* POST /v1/lti/deep-linking/select: a session whose hour is not over, of a registered platform and an
\* available template are answered with a signed content item.
AskSelect(r, n) ==
    /\ n \in ltiSessions
    /\ Receive(r, [op |-> "select", stage |-> "key", nonce |-> n, key |-> None])
    /\ KeepsLaunch

Select(r) ==
    /\ At(r, "select")
    /\ \E unexpired \in BOOLEAN :
           signed' = IF unexpired /\ registered /\ available # {}
                     THEN signed \cup {calls[r].key} ELSE signed
    /\ Answer(r)
    /\ KeepsTables
    /\ UNCHANGED <<counted, registered, deployed, toolKey, nonces, ltiSessions, available, placement>>

-----------------------------------------------------------------------------
LaunchStep(r) ==
    \/ FindKey(r) \/ CreateKey(r) \/ AskKeys(r)
    \/ UpsertDeployment(r) \/ StoreNonce(r)
    \/ FindConfig(r) \/ ConsumeNonce(r) \/ StoreSession(r) \/ CheckTemplate(r)
    \/ OpenLaunch(r) \/ PlaceLink(r) \/ Select(r)
    \/ \E n \in Nonces : AskLogin(r, n) \/ AskSelect(r, n)
    \/ \E n \in Nonces, c \in LaunchClaims : AskLaunch(r, n, c)

LearnerRequest(r) ==
    /\ \/ \E e \in Emails : FollowMagicLink(r, e)
       \/ \E e \in Emails, d \in Dids \cup {None} : AskDid(r, e, d)
       \/ \E e \in Emails, t \in Emails : AskProof(r, e, t)
       \/ \E f \in Proofs : AskVerification(r, f)
       \/ LearnerStep(r) \/ AccountStep(r) \/ LoseCall(r)
    /\ KeepsLaunch

ProofsAge == (\E f \in Proofs : ExpireProof(f)) /\ KeepsLaunch

launchAll == <<identityVars, launchVars>>

\* The dashboards and records that requests only show.
Show == UNCHANGED launchAll

LaunchNext ==
    \/ \E r \in Calls : LaunchStep(r) \/ LearnerRequest(r)
    \/ Register \/ Unregister
    \/ \E t \in Templates : Archive(t)
    \/ \E n \in Nonces : ExpireNonce(n)
    \/ ProofsAge
    \/ Show

LaunchSpec == LaunchInit /\ [][LaunchNext]_launchAll

-----------------------------------------------------------------------------
(* Properties.                                                             *)

\* Every variable keeps its type. A request that holds a profile holds one that exists.
LaunchTypeOK ==
    /\ profiles \subseteq Profiles
    /\ identities \in [Values -> [profile : profiles \cup {None}, primary : BOOLEAN]]
    /\ proofs \in [Proofs -> [profile : profiles \cup {None}, email : Emails \cup {None},
                              by : Emails \cup {None},
                              status : {"absent", "valid", "expired", "used"}]]
    /\ users \subseteq Emails /\ roles \in [Emails -> Roles]
    /\ authUsers \in [AuthUsers -> Emails \cup {None}]
    /\ links \in [AuthUsers -> users \cup {None}]
    /\ \A r \in Calls :
        /\ calls[r].stage \in CallStages
        /\ "profile" \in DOMAIN calls[r] => calls[r].profile \in profiles \cup {None}
    /\ toolKey \in Keys \cup {None}
    /\ nonces \in [Nonces -> {"none", "stored", "consumed", "expired"}]
    /\ ltiSessions \subseteq Nonces
    /\ placement \in [template : Templates \cup {None}, by : users \cup {None}]

\* An identity other than a DID, once somebody's, stays that learner's, whatever launches,
\* settings and links overlap (addLearnerIdentityAlias): credentials hang on it. And unless
\* requests overlapped, a launch takes no role away: ensureTenantMembership writes viewer
\* only where there is no membership.
IdentityStays ==
    [][/\ \A v \in Values \ Dids : Owner(v) # None => identities'[v].profile = Owner(v)
       /\ ~overlapped => \A e \in Emails : roles[e] = "issuer" => roles'[e] = "issuer"
      ]_<<identities, roles, overlapped>>

\* What an opened launch showed is so and remains so: the launching subject and everything
\* it claimed are identities of the one learner (linkLtiLaunchAccount).
ClaimsAgree ==
    \A o \in opened : \A v \in o.claimed \cup {o.subject} : Owner(v) = o.profile

\* An opened launch is signed in as its own user: the Better Auth user it got has that
\* address and is that user's only one (createBetterAuthSessionForCredtrailUser).
SignedInAsLinked ==
    \A o \in opened : authUsers[o.auth] = o.email /\ LinkedTo(o.email) = {o.auth}

\* A link proof that is used has done its work: the proven address is the learner's who
\* asked, though two requests may have brought the token (…/identity-links/email/verify).
UsedProofLinked ==
    \A f \in Proofs : proofs[f].status = "used" => Owner(proofs[f].email) = proofs[f].profile

\* A launch that opened and a link that was used mean what they said.
LaunchesAgree == LaunchTypeOK /\ ClaimsAgree /\ SignedInAsLinked /\ UsedProofLinked

\* A learner never has two primary identities and, when no request overlapped or was
\* lost, has one from the moment no request is about the profile: the statement that
\* clears the primary one is followed by the one that sets the next.
OnePrimary ==
    \A p \in profiles :
        /\ Cardinality(PrimaryOf(p)) <= 1
        /\ (~overlapped /\ lost = 0 /\ \A r \in Calls : At(r, "idle")) => PrimaryOf(p) # {}

\* Unless requests overlapped, a learner has one DID at most, also after a request that
\* was lost between removing the old and adding the new (…/learner/settings/did).
OneDid == ~overlapped => \A p \in profiles : Cardinality({d \in Dids : Owner(d) = p}) <= 1

\* Unless requests overlapped, one Better Auth user per address, also after a launch that
\* was lost before it linked the one it made; so nobody's magic link is ever refused.
NoTwins ==
    ~overlapped => /\ \A e \in Emails : Cardinality(Addressed(e)) <= 1
                   /\ refused = {}

\* Unless requests overlapped, what was published or signed with is the key that is
\* stored: the first use generates it and the next ones find it (loadOrCreateLtiToolKeyPair).
OneToolKey == ~overlapped => signed \subseteq {toolKey}

\* One of each, of whatever a statement looks for before another writes it.
UnlessOverlapped == OnePrimary /\ OneDid /\ NoTwins /\ OneToolKey

\* A login is good for one launch, however often the form is posted; and on a database
\* that does not count the rows of an UPDATE, as the Postgres adapter does not, for none:
\* the nonce is consumed and the launch refused.
NonceOpensOne ==
    \A n \in Nonces :
        /\ Cardinality({o \in opened : o.nonce = n}) <= 1
        /\ (~counted => n \notin ltiSessions /\ \A o \in opened : o.nonce # n)

\* A placement is of one opened launch, its badge and the user who launched it, whichever
\* of two launches of the link wrote last.
PlacedByItsLauncher ==
    placement # NoPlacement =>
        \E o \in opened : o.template = placement.template /\ o.email = placement.by

\* What a login opens is one launch, and what a launch places is its own.
OpensOnce == NonceOpensOne /\ PlacedByItsLauncher

\* A launch whose nonce it consumes goes on to its session: it can "return to CredTrail
\* launch UI" (docs/SAKAI_REAL_INSTANCE_E2E.md:13). A database that does not count the
\* rows of an UPDATE refuses it.
ConsumedGoesOn ==
    [][\A r \in Calls :
         /\ At(r, "nonce") /\ calls'[r] # calls[r]
         /\ nonces[calls[r].nonce] # nonces'[calls[r].nonce]
         => calls'[r].stage = "session"]_<<nonces, calls>>
=============================================================================
