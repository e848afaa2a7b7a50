----------------------------- MODULE TokenGrants -----------------------------
(***************************************************************************)
(* The secrets CredTrail exchanges: authorization codes, access and        *)
(* refresh tokens of OB3 clients (routes/ob3-routes.ts), pre-authorized    *)
(* codes and wallet tokens of OID4VCI (routes/oid4vci-routes.ts).          *)
(*                                                                         *)
(* A secret is consumed by one UPDATE … RETURNING; what is given for it    *)
(* is inserted by later statements, and the request may be lost between.   *)
(***************************************************************************)
EXTENDS Integers, FiniteSets

CONSTANTS
    Clients,      \* registered OB3 clients
    Scopes,       \* scopes a client may ask for: those of the two writing endpoints
    Users,        \* resource owners, each in its tenant
    Assertions,   \* badges a wallet may be offered
    Secrets,      \* supply of opaque tokens
    Requests,     \* requests that may overlap
    NoClient,     \* the client of a wallet's secrets
    NoSecret,     \* the parent of a secret given for no other
    Life,         \* seconds a secret of each kind lives, scaled down
    MaxGrants,    \* bound on the codes and offers handed out
    MaxTime, MaxFaults

Kinds == {"code", "access", "refresh", "preauth", "wallet"}
Consumed == {"code", "refresh", "preauth"}

ASSUME SecretsAssumption == NoSecret \notin Secrets /\ IsFiniteSet(Secrets)
ASSUME ScopesAssumption == Scopes \subseteq {"credential.upsert", "profile.update"}
ASSUME ClientsAssumption == NoClient \notin Clients
ASSUME LifeAssumption == Life \in [Kinds -> Nat \ {0}]
ASSUME BoundsAssumption == MaxGrants \in Nat /\ MaxTime \in Nat \ {0} /\ MaxFaults \in Nat

VARIABLES
    clientScope,  \* scope of each registered client, {} before it registers
    token,        \* the rows of the five tables
    clock,
    pc, call,     \* where each request is, and its local variables
    events,       \* wallet_accept events of each assertion
    written,      \* owners whose credentials or profile a client wrote
    answered,     \* history: assertions whose credential a wallet was given
    wasted,       \* history: secrets revoked, or consumed by a request that then failed
    faults        \* history: requests lost

tokenVars == <<clientScope, token>>
histories == <<written, answered, wasted>>
vars == <<tokenVars, clock, pc, call, events, histories, faults>>

NoRow == [kind |-> "none"]

\* ended is 0 for NULL in used_at or revoked_at; the clock starts at 1.
Row == [kind: Kinds, client: Clients \cup {NoClient}, subject: Users \cup Assertions,
        scope: SUBSET Scopes, expires: Nat, ended: Nat, parent: Secrets \cup {NoSecret}]

Places == {"idle", "insertAccess", "insertRefresh", "insertWallet",
           "upsertCredential", "upsertProfile", "findEvent", "insertEvent"}

\* The locals of a request: the secret it presented, the scope it asked for
\* and the time it read.
Call == [secret: Secrets, scope: SUBSET Scopes, now: Nat]
NoCall == [secret |-> NoSecret, scope |-> {}, now |-> 0]

Init ==
    /\ clientScope = [c \in Clients |-> {}]
    /\ token = [s \in Secrets |-> NoRow]
    /\ clock = 1
    /\ pc = [r \in Requests |-> "idle"]
    /\ call = [r \in Requests |-> NoCall]
    /\ events = [a \in Assertions |-> 0]
    /\ written = {}
    /\ answered = {}
    /\ wasted = {}
    /\ faults = 0

Issued == {s \in Secrets : token[s] # NoRow}

Goto(r, place, c) ==
    /\ pc' = [pc EXCEPT ![r] = place]
    /\ call' = [call EXCEPT ![r] = c]

End(r) == Goto(r, "idle", NoCall)

NewRow(kind, client, subject, scope, now, parent) ==
    [kind |-> kind, client |-> client, subject |-> subject, scope |-> scope,
     expires |-> now + Life[kind], ended |-> 0, parent |-> parent]

\* generateOpaqueToken: a value nobody has yet, and which one does not matter.
Fresh == CHOOSE s \in Secrets : s \notin Issued

\* Bound: the supply has one left.
Hand(row) ==
    /\ Issued # Secrets
    /\ token' = [token EXCEPT ![Fresh] = row]

\* Bound: an exchange begins while the supply lasts for all that are under way.
At(place) == Cardinality({r \in Requests : pc[r] = place})
Room(n) == Cardinality(Issued) + 2 * At("insertAccess") + At("insertRefresh")
             + At("insertWallet") + n <= Cardinality(Secrets)
MoreGrants == Cardinality({s \in Issued : token[s].parent = NoSecret}) < MaxGrants /\ Room(1)

\* What was given for the secret the request consumed.
Child(r, kind) ==
    LET p == call[r].secret
    IN  NewRow(kind, token[p].client, token[p].subject, call[r].scope, call[r].now, p)

-----------------------------------------------------------------------------
(* Registration, authorization and offers: one INSERT each, after checks     *)
(* that change nothing.                                                      *)

\* createOAuthClient
Registered(c, scope) == [clientScope EXCEPT ![c] = scope]

RegisterClient(c, scope) ==
    /\ clientScope[c] = {}
    /\ scope # {}
    /\ clientScope' = Registered(c, scope)
    /\ UNCHANGED <<token, clock, pc, call, events, histories, faults>>

\* createOAuthAuthorizationCode
InsertCode(c, user, scope) == Hand(NewRow("code", c, user, scope, clock, NoSecret))

Authorize(c, user, scope) ==
    /\ scope # {}
    /\ scope \subseteq clientScope[c]
    /\ MoreGrants
    /\ InsertCode(c, user, scope)
    /\ UNCHANGED <<clientScope, clock, pc, call, events, histories, faults>>

\* createOid4vciPreAuthorizedCode
InsertOffer(a) == Hand(NewRow("preauth", NoClient, a, {}, clock, NoSecret))

CreateOffer(a) ==
    /\ MoreGrants
    /\ InsertOffer(a)
    /\ UNCHANGED <<clientScope, clock, pc, call, events, histories, faults>>

-----------------------------------------------------------------------------
(* The token endpoints                                                     *)

\* Mutant: expiry is all that is looked at.
UsableUntilExpired(s, kind, now) == token[s].kind = kind /\ token[s].expires > now

\* The WHERE of the consuming UPDATEs and of the SELECTs of bearer tokens.
Usable(s, kind, now) ==
    /\ token[s].kind = kind
    /\ token[s].ended = 0
    /\ token[s].expires > now

Ended(s, now) == [token EXCEPT ![s].ended = now]

\* Mutant: what the client may have at all is granted.
GrantableToClient(s, want) == want # {} /\ want \subseteq clientScope[token[s].client]

Grantable(s, want) == want # {} /\ want \subseteq token[s].scope

\* consumeOAuthAuthorizationCode or consumeOAuthRefreshToken for the client that
\* authenticated, and then the checks: PKCE for a code, and the scope. A secret
\* that fails them is spent.
ConsumeForTokens(r, s, kind, want, proved) ==
    /\ pc[r] = "idle"
    /\ Usable(s, kind, clock)
    /\ Room(2)
    /\ token' = Ended(s, clock)
    /\ IF proved /\ Grantable(s, want)
       THEN /\ Goto(r, "insertAccess", [secret |-> s, scope |-> want, now |-> clock])
            /\ UNCHANGED wasted
       ELSE /\ wasted' = wasted \cup {s}
            /\ UNCHANGED <<pc, call>>
    /\ UNCHANGED <<clientScope, clock, events, written, answered, faults>>

ExchangeCode(r, s, want, proved) == ConsumeForTokens(r, s, "code", want, proved)

Refresh(r, s, want) == ConsumeForTokens(r, s, "refresh", want, TRUE)

\* Mutant: the client is answered without a refresh token.
AfterAccessAtOnce == "idle"

AfterAccess == "insertRefresh"

InsertAccess(r) ==
    /\ pc[r] = "insertAccess"
    /\ Hand(Child(r, "access"))
    /\ Goto(r, AfterAccess, IF AfterAccess = "idle" THEN NoCall ELSE call[r])
    /\ UNCHANGED <<clientScope, clock, events, histories, faults>>

InsertRefresh(r) ==
    /\ pc[r] = "insertRefresh"
    /\ Hand(Child(r, "refresh"))
    /\ End(r)
    /\ UNCHANGED <<clientScope, clock, events, histories, faults>>

RedeemOffer(r, s) ==
    /\ pc[r] = "idle"
    /\ Usable(s, "preauth", clock)
    /\ Room(1)
    /\ token' = Ended(s, clock)
    /\ Goto(r, "insertWallet", [secret |-> s, scope |-> {}, now |-> clock])
    /\ UNCHANGED <<clientScope, clock, events, histories, faults>>

InsertWallet(r) ==
    /\ pc[r] = "insertWallet"
    /\ Hand(Child(r, "wallet"))
    /\ End(r)
    /\ UNCHANGED <<clientScope, clock, events, histories, faults>>

\* COALESCE(revoked_at, now)
RevokedAt(s) == IF token[s].ended = 0 THEN clock ELSE token[s].ended

\* The client of the token names it, and its kind.
Revoke(s) ==
    /\ token[s].kind \in {"access", "refresh"}
    /\ token' = Ended(s, RevokedAt(s))
    /\ wasted' = IF token[s].ended = 0 THEN wasted \cup {s} ELSE wasted
    /\ UNCHANGED <<clientScope, clock, pc, call, events, written, answered, faults>>

-----------------------------------------------------------------------------
(* Bearer tokens at the OB3 API                                            *)

\* authenticateOb3AccessToken
UseAccess(r, s, need, place) ==
    /\ pc[r] = "idle"
    /\ Usable(s, "access", clock)
    /\ need \in token[s].scope
    /\ Goto(r, place, [secret |-> s, scope |-> {need}, now |-> clock])
    /\ UNCHANGED <<tokenVars, clock, events, histories, faults>>

PostCredential(r, s) == UseAccess(r, s, "credential.upsert", "upsertCredential")

PutProfile(r, s) == UseAccess(r, s, "profile.update", "upsertProfile")

WriteFor(r) ==
    /\ written' = written \cup {token[call[r].secret].subject}
    /\ End(r)
    /\ UNCHANGED <<tokenVars, clock, events, answered, wasted, faults>>

\* upsertOb3SubjectCredential
UpsertCredential(r) == pc[r] = "upsertCredential" /\ WriteFor(r)

\* upsertOb3SubjectProfile
UpsertProfile(r) == pc[r] = "upsertProfile" /\ WriteFor(r)

-----------------------------------------------------------------------------
(* Wallet tokens: the credential is given once wallet_accept is recorded     *)

UseWallet(r, s) ==
    /\ pc[r] = "idle"
    /\ Usable(s, "wallet", clock)
    /\ Goto(r, "findEvent", [secret |-> s, scope |-> {}, now |-> clock])
    /\ UNCHANGED <<tokenVars, clock, events, written, answered, wasted, faults>>

Answer(r) ==
    /\ answered' = answered \cup {token[call[r].secret].subject}
    /\ End(r)

\* findAssertionEngagementEventByType
FindEvent(r) ==
    /\ pc[r] = "findEvent"
    /\ IF events[token[call[r].secret].subject] > 0
       THEN Answer(r)
       ELSE Goto(r, "insertEvent", call[r]) /\ UNCHANGED answered
    /\ UNCHANGED <<tokenVars, clock, events, written, wasted, faults>>

\* idx_assertion_engagement_events_one_shot: of two wallets that found no event the
\* second gets an error instead of the credential.
OneShotFree(a) == events[a] = 0

InsertEvent(r) ==
    /\ pc[r] = "insertEvent"
    /\ LET a == token[call[r].secret].subject
       IN  IF OneShotFree(a)
           THEN events' = [events EXCEPT ![a] = @ + 1] /\ Answer(r)
           ELSE End(r) /\ UNCHANGED <<events, answered>>
    /\ UNCHANGED <<tokenVars, clock, written, wasted, faults>>

-----------------------------------------------------------------------------
Fault(r) ==
    /\ pc[r] # "idle"
    /\ faults < MaxFaults
    /\ faults' = faults + 1
    /\ End(r)
    /\ UNCHANGED <<tokenVars, clock, events, histories>>

Tick ==
    /\ clock < MaxTime
    /\ clock' = clock + 1
    /\ UNCHANGED <<tokenVars, pc, call, events, histories, faults>>

\* A secret presented at the wrong endpoint, by another client, with another
\* redirect URI or too late: the UPDATE matches no row.
Refuse(r, s) ==
    /\ pc[r] = "idle"
    /\ s \in Issued
    /\ UNCHANGED vars

Present(r, s) ==
    \/ Refuse(r, s)
    \/ \E want \in SUBSET Scopes :
        \/ \E proved \in BOOLEAN : ExchangeCode(r, s, want, proved)
        \/ Refresh(r, s, want)
    \/ RedeemOffer(r, s)
    \/ PostCredential(r, s) \/ PutProfile(r, s)
    \/ UseWallet(r, s)

Step(r) ==
    \/ InsertAccess(r) \/ InsertRefresh(r) \/ InsertWallet(r)
    \/ UpsertCredential(r) \/ UpsertProfile(r) \/ FindEvent(r) \/ InsertEvent(r)

Start ==
    \/ \E c \in Clients, scope \in SUBSET Scopes :
        \/ RegisterClient(c, scope)
        \/ \E user \in Users : Authorize(c, user, scope)
    \/ \E a \in Assertions : CreateOffer(a)
    \/ \E s \in Secrets : Revoke(s) \/ \E r \in Requests : Present(r, s)

Next ==
    \/ Tick
    \/ Start
    \/ \E r \in Requests : Step(r) \/ Fault(r)

Spec == Init /\ [][Next]_vars

-----------------------------------------------------------------------------
(* Properties                                                              *)

\* Every variable has its type; a request holds a secret that was handed out; and
\* a code, which nobody can revoke, ends before it expires or not at all.
TypeOK ==
    /\ clientScope \in [Clients -> SUBSET Scopes]
    /\ token \in [Secrets -> Row \cup {NoRow}]
    /\ \A s \in Issued : token[s].kind \in {"code", "preauth"} => token[s].ended < token[s].expires
    /\ clock \in 1..MaxTime
    /\ pc \in [Requests -> Places]
    /\ call \in [Requests -> Call \cup {NoCall}]
    /\ \A r \in Requests : IF pc[r] = "idle" THEN call[r] = NoCall
                           ELSE call[r] \in Call /\ call[r].secret \in Issued
    /\ events \in [Assertions -> Nat]
    /\ written \subseteq Users
    /\ answered \subseteq Assertions
    /\ wasted \subseteq Issued
    /\ faults \in 0..MaxFaults

GivenFor(p, kind) == {s \in Issued : token[s].parent = p /\ token[s].kind = kind}

\* However many requests present a code or a refresh token at a time, it gives at
\* most one access and one refresh token, or one wallet token, and only when it
\* is consumed (oauth_authorization_codes.used_at, oauth_refresh_tokens.revoked_at).
SpentOnce ==
    \A p \in Issued, kind \in Kinds :
        /\ Cardinality(GivenFor(p, kind)) <= 1
        /\ GivenFor(p, kind) # {} => token[p].kind \in Consumed /\ token[p].ended # 0

\* The code a token goes back to, through the refresh tokens between.
Root[s \in Issued] ==
    IF token[s].parent = NoSecret THEN s ELSE Root[token[s].parent]

\* Refreshing rotates: of all tokens that go back to one code, one refresh token at
\* most can still be used.
OneLiveRefresh ==
    \A s, t \in Issued :
        /\ Usable(s, "refresh", clock) /\ Usable(t, "refresh", clock)
        /\ Root[s] = Root[t]
        => s = t

\* A token never carries more than what it was given for did, nor for another
\* client or subject, and a code no more than its client registered for.
NeverWidened ==
    \A s \in Issued :
        LET p == token[s].parent
        IN  IF p = NoSecret
            THEN token[s].client # NoClient => token[s].scope \subseteq clientScope[token[s].client]
            ELSE /\ token[s].scope \subseteq token[p].scope
                 /\ token[s].client = token[p].client
                 /\ token[s].subject = token[p].subject

\* A client writes for an owner only with a token that goes back to a code of that
\* owner with this scope, though other tokens and requests came in between.
WritesAuthorized ==
    /\ \A r \in Requests :
        pc[r] \in {"upsertCredential", "upsertProfile"} =>
            LET root == Root[call[r].secret]
            IN  /\ token[root].kind = "code"
                /\ token[root].subject = token[call[r].secret].subject
                /\ call[r].scope \subseteq token[root].scope
    /\ \A user \in written : \E s \in Issued : token[s].kind = "code" /\ token[s].subject = user

InFlight(s) == \E r \in Requests : pc[r] # "idle" /\ call[r].secret = s

\* A secret that was consumed, by a request that met its checks and was not lost, has
\* given its client all that an exchange gives.
SpentForTokens ==
    \A s \in Issued :
        /\ token[s].kind \in Consumed /\ token[s].ended # 0
        /\ faults = 0 /\ s \notin wasted /\ ~ InFlight(s)
        => \A kind \in IF token[s].kind = "preauth" THEN {"wallet"} ELSE {"access", "refresh"} :
               GivenFor(s, kind) # {}

\* A wallet holds a credential only if its acceptance is recorded, and that is
\* recorded once, however many wallets ask at a time.
AcceptanceRecorded ==
    \A a \in Assertions : events[a] <= 1 /\ (a \in answered => events[a] = 1)

\* The time of the first consumption or revocation is kept.
EndIsKept ==
    [][\A s \in Secrets : s \in Issued /\ token[s].ended # 0 => token'[s] = token[s]]_vars

\* Whatever requests overlap and are lost, secrets are what was given for others.
TokensAreSound == TypeOK /\ SpentOnce /\ NeverWidened /\ SpentForTokens /\ AcceptanceRecorded

\* What a secret carries, and the chain it belongs to, go back to one code.
TokensGoBack == OneLiveRefresh /\ WritesAuthorized

\* Every secret keeps the promise of OneTimeGrant.
Promise == INSTANCE OneTimeGrant WITH
    issued <- Issued,
    spent <- {s \in Issued : token[s].ended # 0},
    given <- {<<s, token[s].parent, token[s].kind>> :
                 s \in {t \in Issued : token[t].parent # NoSecret}}

\* The exchange of secrets implements OneTimeGrant, and what a secret was is kept once
\* it is spent: no later consumption or revocation writes its row again.
KeepsPromise == Promise!Spec /\ EndIsKept
=============================================================================
