----------------------------- MODULE TenantSignIn -----------------------------
(***************************************************************************)
(* How people sign in to one enterprise tenant: its authentication policy  *)
(* and its identity providers, which administrators change in several      *)
(* statements (routes/tenant-governance-routes.ts), and the emergency      *)
(* ("break glass") accounts, whose local sign-in with a second factor      *)
(* (auth/break-glass-policy.ts) is open only while the policy says so.     *)
(*                                                                         *)
(* Providers are OIDC ones; SAML rows are legacy that no request writes.   *)
(* Passwords, codes and sessions are kept by the Better Auth library,      *)
(* which is modelled from how it is called.                                *)
(***************************************************************************)
EXTENDS SqlAdapter, FiniteSets, TLC

CONSTANTS
    Providers,   \* ids of providers
    Emergency,   \* users that may have an emergency account
    Admins,      \* administrators' requests, which may overlap
    Browsers,    \* people's browsers, each with one request at a time
    NoProvider, NoUser,
    Asked,       \* the policies that administrators put (a bound: some of Policies)
    MaxChanges,  \* bound on the administrators' requests
    MaxCut       \* bound on the requests lost halfway

ASSUME SignInAssumption ==
    /\ Admins \cap Browsers = {} /\ NoProvider \notin Providers /\ NoUser \notin Emergency
    /\ MaxChanges \in Nat /\ MaxCut \in Nat

VARIABLES
    policy,      \* tenant_auth_policies
    providers,   \* tenant_auth_providers
    accounts,    \* tenant_break_glass_accounts
    credentials, \* Better Auth: each user's password and second factor
    mailed,      \* users who hold a link to set their password
    browsers,    \* cookies: session, setup pending, awaiting a code, trusted device;
                 \* history: the session's code was verified while its user was not listed;
                 \* the browser was closed while the session's set-up was pending
    stage, held, \* where each request is, and what it holds
    changes, cut,\* counters of the bounds
    put,         \* history: the policy that was put last
    stale,       \* history: a provider request held a policy when one was put
    flagged,     \* history: a provider has been the default, and nothing undid that
    chosen       \* history: the default provider created last, while nothing else was asked

adminVars == <<policy, providers, changes, put, stale, flagged, chosen>>
localVars == <<credentials, mailed, browsers>>
signInVars == <<adminVars, accounts, localVars, stage, held, cut>>

Actors == Admins \cup Browsers
LoginModes == {"local", "hybrid", "sso_required"}
Policies == [mode: LoginModes, breakGlass: BOOLEAN, mfa: BOOLEAN,
             default: Providers \cup {NoProvider}]

ASSUME AskedAssumption == Asked \subseteq Policies

\* buildDefaultTenantAuthPolicy: what a tenant without a row has.
DefaultPolicy == [mode |-> "local", breakGlass |-> FALSE, mfa |-> FALSE, default |-> NoProvider]

NoProviderRow == [status |-> "absent", enabled |-> FALSE, isDefault |-> FALSE]
NoCookies == [session |-> NoUser, pending |-> FALSE, awaiting |-> NoUser, trusted |-> {},
              unlisted |-> FALSE, lapsed |-> FALSE]
NothingHeld == [op |-> "none"]
Stages == {"idle", "check", "upsert", "clear", "write", "reread", "readPolicy", "lookup",
           "mail", "markMailed", "account", "setPassword", "credentials", "markUsed",
           "enable", "verify", "listed"}

SignInInit ==
    /\ policy = DefaultPolicy
    /\ providers = [p \in Providers |-> NoProviderRow]
    /\ accounts = [u \in Emergency |-> "none"]
    /\ credentials = [u \in Emergency |-> [password |-> FALSE, factor |-> "off"]]
    /\ mailed = {}
    /\ browsers = [b \in Browsers |-> NoCookies]
    /\ stage = [x \in Actors |-> "idle"]
    /\ held = [x \in Actors |-> NothingHeld]
    /\ changes = 0 /\ cut = 0
    /\ put = DefaultPolicy
    /\ stale = FALSE /\ flagged = FALSE
    /\ chosen = NoProvider

Go(x, s, h) == stage' = [stage EXCEPT ![x] = s] /\ held' = [held EXCEPT ![x] = h]

Stay(x, s) == Go(x, s, held[x])

Done(x) == Go(x, "idle", NothingHeld)

Present(p) == providers[p].status = "present"
Flagged == {p \in Providers : providers[p].isDefault}

-----------------------------------------------------------------------------
(* Administrators: the policy.                                             *)

\* A request is received. Whatever an administrator asks, the default created last is
\* not the last word any more.
Ask(a, s, h) ==
    /\ stage[a] = "idle"
    /\ changes < MaxChanges
    /\ changes' = changes + 1
    /\ chosen' = NoProvider
    /\ Go(a, s, h)

\* PUT …/auth-policy. What the request leaves out is off, or no provider.
AskPolicy(a, new) ==
    /\ Ask(a, IF new.default = NoProvider THEN "upsert" ELSE "check",
           [op |-> "policy", policy |-> new])
    /\ UNCHANGED <<policy, providers, put, stale, flagged, accounts, localVars, cut>>

CheckDefault(a) ==
    /\ stage[a] = "check"
    /\ IF Present(held[a].policy.default) THEN Stay(a, "upsert") ELSE Done(a)
    /\ UNCHANGED <<adminVars, accounts, localVars, cut>>

\* Requests that create a provider and hold the policy they read.
PolicyHeld == \E b \in Admins : stage[b] = "upsert" /\ held[b].op = "create"

\* upsertTenantAuthPolicy: the whole row is written.
UpsertPolicy(a) ==
    /\ stage[a] = "upsert"
    /\ policy' = held[a].policy
    /\ IF held[a].op = "policy"
       THEN put' = held[a].policy /\ stale' = PolicyHeld /\ UNCHANGED chosen
       ELSE /\ chosen' = IF held[a].alone /\ held[a].asked = changes THEN held[a].provider ELSE chosen
            /\ UNCHANGED <<put, stale>>
    /\ Done(a)
    /\ UNCHANGED <<providers, flagged, changes, accounts, localVars, cut>>

-----------------------------------------------------------------------------
(* Administrators: providers.                                              *)

\* POST …/auth-providers. Ids are random: none is used twice.
AskCreate(a, p, enabled, default) ==
    /\ providers[p].status = "absent"
    /\ \A b \in Admins : held[b].op = "create" => held[b].provider # p
    /\ Ask(a, IF default THEN "clear" ELSE "write",
           [op |-> "create", provider |-> p, enabled |-> enabled, default |-> default,
            alone |-> \A b \in Admins : stage[b] = "idle", asked |-> changes + 1])
    /\ UNCHANGED <<policy, providers, put, stale, flagged, accounts, localVars, cut>>

\* PUT …/auth-providers/:providerId
AskUpdate(a, p, enabled, default) ==
    /\ Present(p)
    /\ Ask(a, IF default THEN "clear" ELSE "write",
           [op |-> "update", provider |-> p, enabled |-> enabled, default |-> default])
    /\ UNCHANGED <<policy, providers, put, stale, flagged, accounts, localVars, cut>>

\* UPDATE … SET is_default = 0 WHERE is_default = 1; an update spares its own row.
ClearedBy(x, p) ==
    IF held[x].op = "update" /\ held[x].provider = p THEN providers[p]
    ELSE [providers[p] EXCEPT !.isDefault = FALSE]

ClearDefault(a) ==
    /\ stage[a] = "clear"
    /\ providers' = [p \in Providers |-> ClearedBy(a, p)]
    /\ Stay(a, "write")
    /\ UNCHANGED <<policy, changes, put, stale, flagged, chosen, accounts, localVars, cut>>

\* idx_tenant_auth_providers_default_per_tenant
DefaultFree(p) == Flagged \subseteq {p}

Written(a) == [status |-> "present", enabled |-> held[a].enabled, isDefault |-> held[a].default]

\* The INSERT or the UPDATE; the index lets no second default in. An UPDATE finds no
\* row if the provider was deleted meanwhile, and says that it wrote none in any case,
\* so that the request ends with "not found".
WriteProvider(a) ==
    LET p == held[a].provider
        exists == held[a].op = "create" \/ Present(p)
        conflict == held[a].default /\ ~DefaultFree(p)
        found == held[a].op = "create" \/ RowsWritten(1, FALSE) > 0
    IN  /\ stage[a] = "write"
        /\ providers' = IF exists /\ ~conflict THEN [providers EXCEPT ![p] = Written(a)]
                        ELSE providers
        /\ flagged' = IF conflict THEN flagged
                      ELSE IF held[a].default THEN exists
                      ELSE flagged /\ ~providers[p].isDefault
        /\ IF conflict \/ ~found THEN Done(a) ELSE Stay(a, "reread")
        /\ UNCHANGED <<policy, changes, put, stale, chosen, accounts, localVars, cut>>

\* findTenantAuthProviderById: the row that was just written, or what became of it.
RereadProvider(a) ==
    /\ stage[a] = "reread"
    /\ IF Present(held[a].provider) /\ providers[held[a].provider].isDefault
       THEN Stay(a, "readPolicy") ELSE Done(a)
    /\ UNCHANGED <<adminVars, accounts, localVars, cut>>

\* Mutant: a new default provider makes a tenant that signs in locally a hybrid one.
HybridPolicy(p) == [policy EXCEPT !.mode = IF @ = "local" THEN "hybrid" ELSE @, !.default = p]

\* The route passes on the mode and both flags of the policy it has read, and its provider.
PolicyFor(p) == [policy EXCEPT !.default = p]

ReadPolicy(a) ==
    /\ stage[a] = "readPolicy"
    /\ Go(a, "upsert", [op |-> "create", provider |-> held[a].provider, alone |-> held[a].alone,
                        asked |-> held[a].asked, policy |-> PolicyFor(held[a].provider)])
    /\ UNCHANGED <<adminVars, accounts, localVars, cut>>

\* DELETE …/auth-providers/:providerId. The DELETE says that it removed nothing, and the
\* function returns before it takes the provider out of the policy.
DeleteProvider(a, p) ==
    /\ Present(p)
    /\ stage[a] = "idle" /\ changes < MaxChanges
    /\ changes' = changes + 1
    /\ providers' = [providers EXCEPT ![p] = [NoProviderRow EXCEPT !.status = "deleted"]]
    /\ policy' = IF RowsWritten(1, FALSE) > 0 /\ policy.default = p
                 THEN [policy EXCEPT !.default = NoProvider] ELSE policy
    /\ flagged' = (flagged /\ ~providers[p].isDefault)
    /\ chosen' = NoProvider
    /\ UNCHANGED <<put, stale, accounts, localVars, stage, held, cut>>

-----------------------------------------------------------------------------
(* Emergency accounts.                                                     *)

\* resolveBreakGlassState
Available == policy.breakGlass /\ policy.mfa

Listed(u) == accounts[u] = "active"

\* POST …/break-glass-accounts: the account is active (again), whatever it was, and a
\* link to set a password is asked for.
AskAccount(a, u) ==
    /\ Ask(a, "account", [op |-> "reset", user |-> u])
    /\ UNCHANGED <<policy, providers, put, stale, flagged, accounts, localVars, cut>>

ActivateAccount(a) ==
    /\ stage[a] = "account"
    /\ accounts' = [accounts EXCEPT ![held[a].user] = "active"]
    /\ stage' = [stage EXCEPT ![a] = "lookup"]
    /\ held' = [x \in Actors |-> IF held[x].op = "verify" /\ held[x].user = held[a].user
                                 THEN [held[x] EXCEPT !.unlisted = FALSE] ELSE held[x]]
    /\ UNCHANGED <<adminVars, localVars, cut>>

\* DELETE …/break-glass-accounts/:userId
RevokeAccount(u) ==
    /\ Listed(u)
    /\ changes < MaxChanges
    /\ changes' = changes + 1
    /\ accounts' = [accounts EXCEPT ![u] = "revoked"]
    /\ chosen' = NoProvider
    /\ UNCHANGED <<policy, providers, put, stale, flagged, localVars, stage, held, cut>>

-----------------------------------------------------------------------------
(* Local sign-in. Each request first asks whether it is open; what a       *)
(* response sets or clears in the browser comes with its last step.        *)

Request(b, s, op, u) ==
    /\ stage[b] = "idle"
    /\ Available
    /\ Go(b, s, [op |-> op, user |-> u])
    /\ UNCHANGED <<adminVars, accounts, localVars, cut>>

\* POST /auth/local/request-reset, /reset-password, /sign-in, /two-factor/enable
\* and /two-factor/verify
AskReset(b, u) == Request(b, "lookup", "reset", u)
AskSetPassword(b, u) == u \in mailed /\ Request(b, "setPassword", "setPassword", u)
AskSignIn(b, u) == Request(b, "lookup", "signIn", u)
AskEnroll(b) == browsers[b].session # NoUser /\ Request(b, "lookup", "enroll", browsers[b].session)

\* The user whose code the browser is to enter.
Challenged(b) ==
    IF browsers[b].awaiting # NoUser THEN browsers[b].awaiting ELSE browsers[b].session

AskVerify(b, trust) ==
    /\ Challenged(b) # NoUser
    /\ stage[b] = "idle"
    /\ Available
    /\ Go(b, "verify", [op |-> "verify", user |-> Challenged(b), trust |-> trust,
                        unlisted |-> FALSE])
    /\ UNCHANGED <<adminVars, accounts, localVars, cut>>

AfterLookup(op) ==
    CASE op = "reset" -> "mail"
      [] op = "signIn" -> "credentials"
      [] op = "enroll" -> "enable"

\* An administrator's request looks the policy up here, for the link it sends.
LookUpAccount(x) ==
    /\ stage[x] = "lookup"
    /\ IF Listed(held[x].user) /\ (x \in Admins => Available)
       THEN Stay(x, AfterLookup(held[x].op)) ELSE Done(x)
    /\ UNCHANGED <<adminVars, accounts, localVars, cut>>

\* Better Auth sends the link; markTenantBreakGlassEnrollmentEmailSent follows.
SendLink(x) ==
    /\ stage[x] = "mail"
    /\ mailed' = mailed \cup {held[x].user}
    /\ Done(x)
    /\ UNCHANGED <<adminVars, accounts, credentials, browsers, cut>>

\* resetPassword asks only whether local sign-in is open, not for the account.
SetPassword(b) ==
    /\ stage[b] = "setPassword"
    /\ mailed' = mailed \ {held[b].user}
    /\ credentials' = IF held[b].user \in mailed
                      THEN [credentials EXCEPT ![held[b].user].password = TRUE] ELSE credentials
    /\ Done(b)
    /\ UNCHANGED <<adminVars, accounts, browsers, cut>>

\* Mutant: whoever has begun to enrol counts as having a second factor.
NeedsSetupUntilBegun(u) == credentials[u].factor = "off"

NeedsSetup(u) == credentials[u].factor # "on"

\* Better Auth checks the password. Without a second factor the session is there, and
\* the cookie with it that says that the set-up is pending.
SignIn(b) ==
    LET u == held[b].user IN
    /\ stage[b] = "credentials"
    /\ IF ~credentials[u].password THEN Done(b) /\ UNCHANGED browsers
       ELSE IF credentials[u].factor = "on" /\ u \in browsers[b].trusted
       THEN Stay(b, "markUsed") /\ UNCHANGED browsers
       ELSE /\ browsers' = [browsers EXCEPT ![b] =
                IF credentials[u].factor = "on" THEN [@ EXCEPT !.awaiting = u]
                ELSE [@ EXCEPT !.session = u, !.pending = NeedsSetup(u), !.awaiting = NoUser,
                               !.lapsed = FALSE]]
            /\ Done(b)
    /\ UNCHANGED <<adminVars, accounts, credentials, mailed, cut>>

Enroll(b) ==
    LET u == held[b].user IN
    /\ stage[b] = "enable"
    /\ credentials' = [credentials EXCEPT ![u].factor = IF @ = "off" THEN "begun" ELSE @]
    /\ Done(b)
    /\ UNCHANGED <<adminVars, accounts, mailed, browsers, cut>>

AfterCode(b) == "listed"

\* Better Auth verifies the code, which completes an enrolment.
VerifyCode(b) ==
    LET u == held[b].user IN
    /\ stage[b] = "verify"
    /\ IF credentials[u].factor = "off" THEN Done(b) /\ UNCHANGED credentials
       ELSE /\ credentials' = [credentials EXCEPT ![u].factor = "on"]
            /\ Go(b, AfterCode(b), [held[b] EXCEPT !.unlisted = ~Listed(u)])
    /\ UNCHANGED <<adminVars, accounts, mailed, browsers, cut>>

\* Whoever is not listed (any more) is signed out again.
LookUpVerified(b) ==
    /\ stage[b] = "listed"
    /\ IF Listed(held[b].user)
       THEN Stay(b, "markUsed") /\ UNCHANGED browsers
       ELSE /\ browsers' = [browsers EXCEPT ![b].session = NoUser, ![b].awaiting = NoUser,
                                              ![b].lapsed = FALSE]
            /\ Done(b)
    /\ UNCHANGED <<adminVars, accounts, credentials, mailed, cut>>

\* markTenantBreakGlassAccountUsed and the reply.
Authenticated(b) ==
    LET u == held[b].user
        verified == held[b].op = "verify" IN
    /\ stage[b] = "markUsed"
    /\ browsers' = [browsers EXCEPT
            ![b].session = u, ![b].awaiting = NoUser,
            ![b].pending = IF verified THEN FALSE ELSE @,
            ![b].trusted = IF verified /\ held[b].trust THEN @ \cup {u} ELSE @,
            ![b].unlisted = verified /\ held[b].unlisted,
            ![b].lapsed = FALSE]
    /\ Done(b)
    /\ UNCHANGED <<adminVars, accounts, credentials, mailed, cut>>

\* POST /v1/auth/logout
LogOut(b) ==
    /\ stage[b] = "idle" /\ browsers[b].session # NoUser
    /\ browsers' = [browsers EXCEPT ![b] = [NoCookies EXCEPT !.trusted = browsers[b].trusted]]
    /\ UNCHANGED <<adminVars, accounts, credentials, mailed, stage, held, cut>>

\* The browser is closed and opened again. The mark of a pending set-up is a cookie without
\* an age, which goes; session, challenge and trusted device have one and stay.
CloseBrowser(b) ==
    /\ stage[b] = "idle" /\ browsers[b].pending
    /\ browsers' = [browsers EXCEPT ![b].pending = FALSE,
                                   ![b].lapsed = (browsers[b].session # NoUser)]
    /\ UNCHANGED <<adminVars, accounts, credentials, mailed, stage, held, cut>>

\* requireTenantRole answers 423 while the browser sends the mark of a pending set-up.
Admitted(b) == browsers[b].session # NoUser /\ ~browsers[b].pending

-----------------------------------------------------------------------------
(* What a sign-in page offers (auth/enterprise-sso-adapter.ts).            *)

Enabled == {p \in Providers : providers[p].enabled}

\* resolveDefaultProvider: the policy's, else the one with the flag, else the only one.
DefaultProvider ==
    IF policy.default \in Enabled THEN policy.default
    ELSE IF Flagged \cap Enabled # {} THEN CHOOSE p \in Flagged \cap Enabled : TRUE
    ELSE IF Cardinality(Enabled) = 1 THEN CHOOSE p \in Enabled : TRUE
    ELSE NoProvider

\* GET /login, GET …/auth-policy, GET …/auth-providers: they write nothing.
Pages == UNCHANGED signInVars

\* A statement or a call fails, or the process is killed: nothing is undone, and the
\* browser keeps the cookies it has.
LoseRequest(x) ==
    /\ stage[x] # "idle"
    /\ cut < MaxCut
    /\ cut' = cut + 1
    /\ flagged' = (flagged /\ ~(stage[x] = "write" /\ held[x].default))
    /\ Done(x)
    /\ UNCHANGED <<policy, providers, changes, put, stale, chosen, accounts, localVars>>

AdminStep(a) ==
    \/ \E new \in Asked : AskPolicy(a, new)
    \/ \E p \in Providers, enabled, default \in BOOLEAN :
        AskCreate(a, p, enabled, default) \/ AskUpdate(a, p, enabled, default)
    \/ \E p \in Providers : DeleteProvider(a, p)
    \/ \E u \in Emergency : AskAccount(a, u)
    \/ CheckDefault(a) \/ UpsertPolicy(a) \/ ClearDefault(a) \/ WriteProvider(a)
    \/ RereadProvider(a) \/ ReadPolicy(a) \/ ActivateAccount(a)

BrowserStep(b) ==
    \/ \E u \in Emergency : AskReset(b, u) \/ AskSetPassword(b, u) \/ AskSignIn(b, u)
    \/ AskEnroll(b) \/ \E trust \in BOOLEAN : AskVerify(b, trust)
    \/ SetPassword(b) \/ SignIn(b) \/ Enroll(b) \/ VerifyCode(b) \/ LookUpVerified(b)
    \/ Authenticated(b) \/ LogOut(b) \/ CloseBrowser(b)

SignInNext ==
    \/ \E a \in Admins : AdminStep(a)
    \/ \E b \in Browsers : BrowserStep(b)
    \/ \E x \in Actors : LookUpAccount(x) \/ SendLink(x) \/ LoseRequest(x)
    \/ \E u \in Emergency : RevokeAccount(u)
    \/ Pages

SignInSpec == SignInInit /\ [][SignInNext]_signInVars

-----------------------------------------------------------------------------
(* Properties.                                                             *)

\* Rows, cookies and the data of requests keep their types.
SignInTypeOK ==
    /\ policy \in Policies /\ put \in Policies
    /\ providers \in [Providers -> [status: {"absent", "present", "deleted"},
                                    enabled: BOOLEAN, isDefault: BOOLEAN]]
    /\ accounts \in [Emergency -> {"none", "active", "revoked"}]
    /\ credentials \in [Emergency -> [password: BOOLEAN, factor: {"off", "begun", "on"}]]
    /\ mailed \subseteq Emergency
    /\ browsers \in [Browsers -> [session: Emergency \cup {NoUser}, pending: BOOLEAN,
            awaiting: Emergency \cup {NoUser}, trusted: SUBSET Emergency, unlisted: BOOLEAN,
            lapsed: BOOLEAN]]
    /\ stage \in [Actors -> Stages]
    /\ \A x \in Actors : stage[x] = "idle" <=> held[x] = NothingHeld
    /\ \A p \in Providers : ~Present(p) => ~providers[p].enabled /\ p \notin Flagged
    /\ changes \in 0..MaxChanges /\ cut \in 0..MaxCut
    /\ stale \in BOOLEAN /\ flagged \in BOOLEAN /\ chosen \in Providers \cup {NoProvider}

\* However creations and updates overlap, a tenant has no two default providers.
OneDefault == Cardinality(Flagged) <= 1

\* ... and it has one, once it had one and nobody deleted or demoted it or was lost
\* between taking the old default's flag and setting the new one's.
DefaultIsKept ==
    flagged /\ (\A a \in Admins : stage[a] = "write" => ~held[a].default) => Flagged # {}

\* The login mode, break glass and MFA are what an administrator put last, though new
\* default providers rewrite the whole policy; unless one of those held the policy it had
\* read while another was put.
PolicyAsPut ==
    ~stale => /\ policy.mode = put.mode
              /\ policy.breakGlass = put.breakGlass
              /\ policy.mfa = put.mfa

\* A default provider that was created while nothing else was asked is the one that
\* sign-in starts with, whatever default there was before in either table.
NewDefaultIsUsed ==
    chosen # NoProvider /\ chosen \in Enabled => DefaultProvider = chosen

\* Whatever administrators do at a time, the tenant's policy and providers are theirs.
ProvidersHold ==
    SignInTypeOK /\ OneDefault /\ DefaultIsKept /\ PolicyAsPut /\ NewDefaultIsUsed

\* Nobody is admitted to the tenant by the local sign-in without a second factor, in
\* whatever order sign-ins, enrolments and verifications of several browsers come,
\* nor by a code that was verified after the account was revoked; unless the browser
\* was closed while the set-up was pending, which keeps the session and drops the mark.
SecondFactorFirst ==
    \A b \in Browsers : Admitted(b) /\ ~browsers[b].lapsed =>
        credentials[browsers[b].session].factor = "on" /\ ~browsers[b].unlisted
=============================================================================
