--------------------------- MODULE LtiLaunch_proofs ---------------------------
(* Proofs that a login opens one launch and that what it opened is true of   *)
(* the learner and the user it signed in, that identities stay with their    *)
(* learners, and that only requests which overlap can leave two of what a    *)
(* statement looks for before another writes it: for any number of           *)
(* learners, users, requests, nonces and claims.                             *)
EXTENDS LtiLaunch, FiniteSetTheorems, TLAPS

(* The requests by kind, and their stages.                                   *)

Unverified == {"key", "newKey", "config", "nonce"}
Finding == {"find", "create", "primary"}
Joined == {"member", "enrol", "promote", "link", "match", "matched", "newAuth", "newLink",
           "open", "place"}
Joining == Joined \cup {"user"}
Known == Joining \cup {"claim", "alias"}

Claimable == Emails \cup SourcedIds

KeysCalls == [op : {"jwks"}, stage : {"key", "newKey"}]
LoginCalls == [op : {"login"}, stage : {"deploy", "key", "newKey", "storeNonce"}, nonce : Nonces,
               key : Keys \cup {None}]
LaunchCalls ==
    [op : {"launch"}, stage : Unverified \cup {"session", "template"} \cup Finding \cup Known,
     nonce : Nonces, key : Keys \cup {None} \cup Subjects, subject : Subjects,
     claims : Seq(Claimable), email : Emails, instructor : BOOLEAN,
     claimed : SUBSET Claimable, template : Templates \cup {None},
     profile : Profiles \cup {None}, auth : AuthUsers \cup {None}]
SelectCalls == [op : {"select"}, stage : {"key", "newKey"}, nonce : Nonces, key : {None}]
               \cup [op : {"select"}, stage : {"select"}, nonce : Nonces, key : Keys]
MagicCalls == [op : {"magic"}, stage : {"linked", "conflict", "bind"}, email : Emails,
               auth : AuthUsers]
DidCalls == [op : {"did"}, stage : Finding \cup {"did", "removeDid"}, key : Emails,
             did : Dids \cup {None}, profile : Profiles \cup {None}]
            \cup [op : {"did"}, stage : {"addDid"}, key : Emails, did : Dids,
                  profile : Profiles \cup {None}]
ProveCalls == [op : {"prove"}, stage : Finding \cup {"target", "prove"}, key : Emails,
               target : Emails, profile : Profiles \cup {None}]
VerifyCalls == [op : {"verify"}, stage : {"proof", "proofOwner", "clear", "addEmail", "mark"},
                proof : Proofs]

Requests == {NoCall} \cup KeysCalls \cup LoginCalls \cup LaunchCalls \cup SelectCalls
            \cup MagicCalls \cup DidCalls \cup ProveCalls \cup VerifyCalls

Answers == [nonce : Nonces, subject : Subjects, email : Emails, claimed : SUBSET Claimable,
            profile : Profiles, auth : AuthUsers, template : Templates \cup {None}]

\* The rows, the requests and the histories, each of its type.
Typed ==
    /\ profiles \subseteq Profiles
    /\ identities \in [Values -> [profile : profiles \cup {None}, primary : BOOLEAN]]
    /\ proofs \in [Proofs -> [profile : profiles \cup {None}, email : Emails \cup {None},
                              by : Emails \cup {None},
                              status : {"absent", "valid", "expired", "used"}]]
    /\ users \subseteq Emails /\ roles \in [Emails -> Roles]
    /\ authUsers \in [AuthUsers -> Emails \cup {None}]
    /\ links \in [AuthUsers -> users \cup {None}]
    /\ calls \in [Calls -> Requests]
    /\ lost \in Nat /\ overlapped \in BOOLEAN
    /\ opened \subseteq Answers
    /\ counted \in BOOLEAN
    /\ toolKey \in Keys \cup {None} /\ signed \subseteq Keys
    /\ nonces \in [Nonces -> {"none", "stored", "consumed", "expired"}]
    /\ ltiSessions \subseteq Nonces
    /\ placement \in [template : Templates \cup {None}, by : users \cup {None}]

-----------------------------------------------------------------------------
(* What a request may rely on, whatever the others do: each part is of rows  *)
(* that no request takes back.                                               *)

\* A launch past its nonce consumed it, on a database that counts.
NonceFits(c) ==
    c.op = "launch" =>
        /\ nonces[c.nonce] # "none"
        /\ c.stage \notin Unverified => counted /\ nonces[c.nonce] = "consumed"

ProfileFits(c) ==
    c.op \in {"launch", "did", "prove"} =>
        /\ c.profile \in profiles \cup {None}
        /\ c.stage \in {"primary", "did", "removeDid", "addDid", "target", "prove"} \cup Known
             => c.profile \in profiles

ProofFits(c) ==
    c.op = "verify" =>
        /\ proofs[c.proof].status # "absent"
        /\ c.stage = "mark" => Owner(proofs[c.proof].email) = proofs[c.proof].profile

\* The launching subject is the learner's, and so is every claim that is off the list.
SubjectFits(c) ==
    c.op = "launch" =>
        /\ c.stage \in Finding => c.key = c.subject
        /\ c.stage \in Known => Owner(c.subject) = c.profile

ClaimsFit(c) ==
    c.op = "launch" =>
        /\ \A v \in c.claimed : \/ \E i \in DOMAIN c.claims : c.claims[i] = v
                                \/ c.stage \in Known /\ Owner(v) = c.profile
        /\ c.stage = "alias" => c.claims # <<>>
        /\ c.stage \in Joining => c.claims = <<>>

\* The user and the Better Auth user in hand are rows, and belong together.
UserFits(c) ==
    \/ c.op = "launch" /\ c.stage \in Joined
    \/ c.op = "magic" /\ c.stage # "linked"
    => c.email \in users

AuthFits(c) ==
    /\ \/ c.op = "launch" /\ c.stage \in {"matched", "newLink", "open", "place"}
       \/ c.op = "magic"
       => c.auth \in AuthUsers /\ authUsers[c.auth] = c.email
    /\ c.op = "launch" /\ c.stage \in {"open", "place"} => links[c.auth] = c.email

PlaceFits(c) == c.op = "launch" /\ c.stage = "place" => c.template # None /\ Opened(c) \in opened

Fits(c) ==
    /\ NonceFits(c) /\ ProfileFits(c) /\ ProofFits(c) /\ SubjectFits(c) /\ ClaimsFit(c)
    /\ UserFits(c) /\ AuthFits(c) /\ PlaceFits(c)

CallsFit == \A r \in Calls : Fits(calls[r])

-----------------------------------------------------------------------------
(* The rows.                                                                 *)

\* A Better Auth user is linked to the user of its address, and to no other one.
LinksFit ==
    /\ \A a \in AuthUsers : links[a] # None => authUsers[a] = links[a]
    /\ \A a, b \in AuthUsers : links[a] # None /\ links[a] = links[b] => a = b

\* A proof names a learner and an address, which are one another's when it is used.
ProofsFit ==
    \A f \in Proofs : proofs[f].status # "absent" =>
        /\ proofs[f].profile \in profiles /\ proofs[f].email \in Emails
        /\ proofs[f].status = "used" => Owner(proofs[f].email) = proofs[f].profile

\* No DID is a primary identity, and no learner has two of those.
PrimariesFit ==
    /\ \A d \in Dids : ~identities[d].primary
    /\ \A v, w \in Values :
        /\ identities[v].primary /\ identities[w].primary
        /\ Owner(v) = Owner(w) /\ Owner(v) # None
        => v = w

OpenedFits ==
    \A o \in opened :
        /\ counted /\ nonces[o.nonce] = "consumed"
        /\ links[o.auth] = o.email
        /\ \A v \in o.claimed \cup {o.subject} : Owner(v) = o.profile

RowsFit ==
    /\ LinksFit /\ ProofsFit /\ PrimariesFit /\ OpenedFits
    /\ ~counted => ltiSessions = {}
    /\ PlacedByItsLauncher

-----------------------------------------------------------------------------
(* A nonce is stored by one login and consumed by one launch.                *)

Consumed(c) == c.op = "launch" /\ c.stage \notin Unverified

LoginsDiffer ==
    \A r \in Calls : calls[r].op = "login" =>
        /\ nonces[calls[r].nonce] = "none"
        /\ \A q \in Calls : calls[q].op = "login" /\ calls[q].nonce = calls[r].nonce => q = r

LaunchesDiffer ==
    \A r \in Calls : Consumed(calls[r]) =>
        /\ \A q \in Calls : Consumed(calls[q]) /\ calls[q].nonce = calls[r].nonce => q = r
        /\ \A o \in opened : o.nonce = calls[r].nonce =>
               calls[r].stage = "place" /\ o = Opened(calls[r])

OpenedDiffer == \A o, p \in opened : o.nonce = p.nonce => o = p

NoncesFit == LoginsDiffer /\ LaunchesDiffer /\ OpenedDiffer

IInv == Typed /\ CallsFit /\ RowsFit /\ NoncesFit

-----------------------------------------------------------------------------
(* What holds as long as no two requests have overlapped: the one that is at *)
(* work finds what it saw to be still so.                                    *)

OneAtWork == \A r, q \in Calls : ~At(r, "idle") /\ ~At(q, "idle") => r = q

\* The proof that a request verifies.
ItsProof(c) == proofs[c.proof]

AloneFits(c) ==
    /\ c.stage \in {"create", "primary"} => ValueFree(c.key)
    /\ c.stage = "primary" => PrimaryOf(c.profile) = {}
    /\ c.stage \in {"clear", "addEmail"} => ValueFree(ItsProof(c).email)
    /\ c.stage = "addEmail" => PrimaryOf(ItsProof(c).profile) = {}
    /\ c.stage = "enrol" => roles[c.email] = "none"
    /\ c.stage = "addDid" => DidsOf(c.profile) = {}
    /\ c.stage = "newAuth" => Addressed(c.email) = {}
    /\ c.stage = "newKey" => toolKey = None
    /\ c.op = "select" /\ c.stage = "select" => c.key = toolKey

\* Is the request about to give the learner a primary identity?
Promises(c, p) ==
    \/ c.stage = "primary" /\ c.profile = p
    \/ c.stage = "addEmail" /\ ItsProof(c).profile = p

PrimaryKept == \A p \in profiles : PrimaryOf(p) # {} \/ \E r \in Calls : Promises(calls[r], p)

DidsDiffer == \A d, e \in Dids : Owner(d) = Owner(e) /\ Owner(d) # None => d = e
AuthUsersDiffer ==
    \A a, b \in AuthUsers : authUsers[a] = authUsers[b] /\ authUsers[a] # None => a = b

Alone ==
    /\ OneAtWork
    /\ \A r \in Calls : AloneFits(calls[r])
    /\ lost = 0 => PrimaryKept
    /\ DidsDiffer /\ AuthUsersDiffer
    /\ refused = {}
    /\ signed \subseteq {toolKey}

AloneInv == ~overlapped => Alone

-----------------------------------------------------------------------------
(* What a request is, from its stage and from its kind.                      *)

LEMMA KindAt ==
    ASSUME NEW c \in Requests
    PROVE  /\ c.op = "none" => c = NoCall
           /\ c.op = "jwks" => c \in KeysCalls
           /\ c.op = "login" => c \in LoginCalls
           /\ c.op = "launch" => c \in LaunchCalls
           /\ c.op = "select" => c \in SelectCalls
           /\ c.op = "magic" => c \in MagicCalls
           /\ c.op = "did" => c \in DidCalls
           /\ c.op = "prove" => c \in ProveCalls
           /\ c.op = "verify" => c \in VerifyCalls
           /\ c.op \in {"none", "jwks", "login", "launch", "select", "magic", "did", "prove", "verify"}
  BY DEF Requests, NoCall, KeysCalls, LoginCalls, LaunchCalls, SelectCalls, MagicCalls, DidCalls,
         ProveCalls, VerifyCalls

LEMMA StageAt ==
    ASSUME NEW c \in Requests
    PROVE  /\ c.stage = "idle" <=> c = NoCall
           /\ c.stage \in {"key", "newKey"} => c.op \in {"jwks", "login", "launch", "select"}
           /\ c.stage \in {"deploy", "storeNonce"} => c.op = "login"
           /\ c.stage \in {"config", "nonce", "session", "template"} \cup Known => c.op = "launch"
           /\ c.stage \in Finding => c.op \in {"launch", "did", "prove"}
           /\ c.stage = "select" => c.op = "select"
           /\ c.stage \in {"linked", "conflict", "bind"} => c.op = "magic"
           /\ c.stage \in {"did", "removeDid", "addDid"} => c.op = "did"
           /\ c.stage \in {"target", "prove"} => c.op = "prove"
           /\ c.stage \in {"proof", "proofOwner", "clear", "addEmail", "mark"} => c.op = "verify"
<1>1. c \in {NoCall} \cup KeysCalls \cup LoginCalls \cup SelectCalls \cup MagicCalls \cup LaunchCalls
        \/ c \in DidCalls \cup ProveCalls \cup VerifyCalls
  BY DEF Requests
<1>2. CASE c \in LaunchCalls
  BY <1>2 DEF LaunchCalls, NoCall, Unverified, Finding, Known, Joining, Joined
<1>3. CASE c \in {NoCall} \cup KeysCalls \cup LoginCalls \cup SelectCalls
  BY <1>3 DEF NoCall, KeysCalls, LoginCalls, SelectCalls, Finding, Known, Joining, Joined
<1>4. CASE c \in MagicCalls \cup DidCalls \cup ProveCalls \cup VerifyCalls
  BY <1>4 DEF NoCall, MagicCalls, DidCalls, ProveCalls, VerifyCalls, Finding, Known, Joining, Joined
<1> QED
  BY <1>1, <1>2, <1>3, <1>4

LEMMA NobodyAsks == NoCall \in Requests /\ NoCall.op = "none" /\ NoCall.stage = "idle"
  BY DEF Requests, NoCall

LEMMA LaunchKeeps ==
    ASSUME NEW c \in LaunchCalls
    PROVE  /\ c \in Requests /\ c.op = "launch"
           /\ c.nonce \in Nonces /\ c.key \in Keys \cup {None} \cup Subjects
           /\ c.subject \in Subjects /\ c.claims \in Seq(Claimable) /\ c.email \in Emails
           /\ c.claimed \subseteq Claimable /\ c.template \in Templates \cup {None}
           /\ c.profile \in Profiles \cup {None} /\ c.auth \in AuthUsers \cup {None}
           /\ c.instructor \in BOOLEAN
  BY DEF LaunchCalls, Requests

-----------------------------------------------------------------------------
(* What a step may do to the rows.                                           *)

Inserts(v, p, primary) ==
    /\ v \in Values /\ p \in profiles /\ primary \in BOOLEAN /\ (v \in Dids => ~primary)
    /\ Insertable(v, p, primary)
    /\ identities' = [identities EXCEPT ![v] = Alias(p, primary)]

Removes(p) ==
    identities' = [v \in Values |-> IF v \in DidsOf(p) THEN NoIdentity ELSE identities[v]]

Clears(p) ==
    identities' = [v \in Values |-> IF Owner(v) = p THEN [identities[v] EXCEPT !.primary = FALSE]
                                    ELSE identities[v]]

IdentitiesMove ==
    \/ identities' = identities
    \/ \E v, p, primary : Inserts(v, p, primary)
    \/ \E p : Removes(p)
    \/ \E p : Clears(p)

Proves(f, p, e, u) ==
    /\ f \in Proofs /\ p \in profiles /\ e \in Emails /\ u \in Emails
    /\ proofs[f].status = "absent"
    /\ proofs' = [proofs EXCEPT ![f] = [profile |-> p, email |-> e, by |-> u, status |-> "valid"]]

Marks(f, s) ==
    /\ f \in Proofs /\ s \in {"expired", "used"}
    /\ proofs[f].status # "absent"
    /\ s = "used" => identities' = identities /\ Owner(proofs[f].email) = proofs[f].profile
    /\ proofs' = [proofs EXCEPT ![f].status = s]

ProofsMove ==
    \/ proofs' = proofs
    \/ \E f, p, e, u : Proves(f, p, e, u)
    \/ \E f, s : Marks(f, s)

Names(a, e) ==
    /\ a \in AuthUsers /\ e \in Emails
    /\ authUsers[a] \in {None, e}
    /\ authUsers' = [authUsers EXCEPT ![a] = e]

AuthUsersMove == authUsers' = authUsers \/ \E a, e : Names(a, e)

Links(a, e) ==
    /\ a \in AuthUsers /\ e \in users /\ LinkFree(a, e) /\ authUsers[a] = e
    /\ links' = [links EXCEPT ![a] = e]

LinksMove == links' = links \/ (authUsers' = authUsers /\ \E a, e : Links(a, e))

Turns(n, from, to) ==
    /\ n \in Nonces /\ nonces[n] = from
    /\ nonces' = [nonces EXCEPT ![n] = to]

NoncesMove ==
    \/ nonces' = nonces
    \/ \E n : Turns(n, "none", "stored") \/ Turns(n, "stored", "expired")
              \/ Turns(n, "stored", "consumed")

Opens(c) ==
    /\ c \in LaunchCalls /\ c.stage = "open" /\ Fits(c)
    /\ opened' = opened \cup {Opened(c)}
    /\ UNCHANGED <<identities, links, nonces, counted>>

OpenedMove == opened' = opened \/ \E c : Opens(c)

Places(c) ==
    /\ c \in LaunchCalls /\ c.stage = "place" /\ Fits(c)
    /\ placement' = Placed(c.template, c.email)

PlacementMove == placement' = placement \/ \E c : Places(c)

RowsMove ==
    /\ profiles \subseteq profiles' /\ profiles' \subseteq Profiles
    /\ users \subseteq users' /\ users' \subseteq Emails
    /\ roles' \in [Emails -> Roles]
    /\ IdentitiesMove /\ ProofsMove /\ AuthUsersMove /\ LinksMove /\ NoncesMove
    /\ OpenedMove /\ PlacementMove
    /\ lost' \in Nat /\ overlapped' \in BOOLEAN
    /\ counted' = counted
    /\ toolKey' \in Keys \cup {None} /\ signed' \subseteq Keys
    /\ ltiSessions' \subseteq Nonces /\ (~counted /\ ltiSessions = {} => ltiSessions' = {})

\* What no step takes back.
RowsStay ==
    /\ profiles \subseteq profiles' /\ users \subseteq users' /\ opened \subseteq opened'
    /\ counted' = counted
    /\ \A v \in Values \ Dids : Owner(v) # None => identities'[v].profile = Owner(v)
    /\ \A f \in Proofs : proofs[f].status # "absent" =>
           /\ proofs'[f].status # "absent"
           /\ proofs'[f].profile = proofs[f].profile /\ proofs'[f].email = proofs[f].email
    /\ \A a \in AuthUsers : authUsers[a] # None => authUsers'[a] = authUsers[a]
    /\ \A a \in AuthUsers : links[a] # None => links'[a] = links[a]
    /\ \A n \in Nonces : nonces[n] = "consumed" => nonces'[n] = "consumed"
    /\ \A n \in Nonces : nonces[n] # "none" => nonces'[n] # "none"

LEMMA ValuesTyped ==
    /\ Emails \subseteq Values /\ Subjects \subseteq Values /\ Claimable \subseteq Values
    /\ Dids \subseteq Values
    /\ Emails \cap Dids = {} /\ Subjects \cap Dids = {} /\ Claimable \cap Dids = {}
    /\ None \notin Emails /\ None \notin Profiles /\ None \notin AuthUsers
  BY IdentityAssumption DEF Values, Claimable

LEMMA OwnersStay ==
    ASSUME Typed, IdentitiesMove
    PROVE  \A v \in Values \ Dids : Owner(v) # None => identities'[v].profile = Owner(v)
<1>1. CASE identities' = identities
  BY <1>1 DEF Owner
<1>2. CASE \E v, p, primary : Inserts(v, p, primary)
  BY <1>2 DEF Inserts, Insertable, ValueFree, Owner, Typed
<1>3. CASE \E p : Removes(p)
  BY <1>3 DEF Removes, DidsOf, Owner
<1>4. CASE \E p : Clears(p)
  BY <1>4 DEF Clears, Owner, Typed
<1> QED
  BY <1>1, <1>2, <1>3, <1>4 DEF IdentitiesMove

LEMMA ProofsStay ==
    ASSUME Typed, ProofsMove
    PROVE  \A f \in Proofs : proofs[f].status # "absent" =>
               /\ proofs'[f].status # "absent"
               /\ proofs'[f].profile = proofs[f].profile /\ proofs'[f].email = proofs[f].email
<1>1. CASE proofs' = proofs
  BY <1>1
<1>2. CASE \E f, p, e, u : Proves(f, p, e, u)
  BY <1>2 DEF Proves, Typed
<1>3. CASE \E f, s : Marks(f, s)
  BY <1>3 DEF Marks, Typed
<1> QED
  BY <1>1, <1>2, <1>3 DEF ProofsMove

LEMMA NoncesStay ==
    ASSUME Typed, NoncesMove
    PROVE  \A n \in Nonces : /\ nonces[n] = "consumed" => nonces'[n] = "consumed"
                             /\ nonces[n] # "none" => nonces'[n] # "none"
  BY DEF Typed, NoncesMove, Turns

LEMMA AccountsStay ==
    ASSUME Typed, AuthUsersMove, LinksMove
    PROVE  \A a \in AuthUsers : /\ authUsers[a] # None => authUsers'[a] = authUsers[a]
                                /\ links[a] # None => links'[a] = links[a]
<1>1. \A a \in AuthUsers : authUsers[a] # None => authUsers'[a] = authUsers[a]
  BY DEF Typed, AuthUsersMove, Names
<1>2. \A a \in AuthUsers : links[a] # None => links'[a] = links[a]
  BY DEF Typed, LinksMove, Links, LinkFree
<1> QED
  BY <1>1, <1>2

LEMMA StayWhenMoved ==
    ASSUME Typed, RowsMove
    PROVE  RowsStay
<1>1. opened \subseteq opened'
  BY DEF RowsMove, OpenedMove, Opens
<1> QED
  BY <1>1, OwnersStay, ProofsStay, NoncesStay, AccountsStay DEF RowsMove, RowsStay

-----------------------------------------------------------------------------
(* The rows stay typed and fit.                                              *)

LEMMA IdentitiesTyped ==
    ASSUME Typed, IdentitiesMove, profiles \subseteq profiles'
    PROVE  identities' \in [Values -> [profile : profiles' \cup {None}, primary : BOOLEAN]]
<1>1. identities \in [Values -> [profile : profiles' \cup {None}, primary : BOOLEAN]]
  BY DEF Typed
<1>2. CASE identities' = identities
  BY <1>1, <1>2
<1>3. CASE \E v, p, primary : Inserts(v, p, primary)
  BY <1>1, <1>3 DEF Inserts, Alias
<1>4. CASE \E p : Removes(p)
  BY <1>1, <1>4 DEF Removes, NoIdentity
<1>5. CASE \E p : Clears(p)
  BY <1>1, <1>5 DEF Clears
<1> QED
  BY <1>2, <1>3, <1>4, <1>5 DEF IdentitiesMove

LEMMA ProofsTyped ==
    ASSUME Typed, ProofsMove, profiles \subseteq profiles'
    PROVE  proofs' \in [Proofs -> [profile : profiles' \cup {None}, email : Emails \cup {None},
                                   by : Emails \cup {None},
                                   status : {"absent", "valid", "expired", "used"}]]
<1>1. proofs \in [Proofs -> [profile : profiles' \cup {None}, email : Emails \cup {None},
                             by : Emails \cup {None},
                             status : {"absent", "valid", "expired", "used"}]]
  BY DEF Typed
<1>2. CASE proofs' = proofs
  BY <1>1, <1>2
<1>3. CASE \E f, p, e, u : Proves(f, p, e, u)
  BY <1>1, <1>3 DEF Proves
<1>4. CASE \E f, s : Marks(f, s)
  BY <1>1, <1>4 DEF Marks
<1> QED
  BY <1>2, <1>3, <1>4 DEF ProofsMove

LEMMA OpenedTyped ==
    ASSUME NEW c \in LaunchCalls, c.stage \in Known, Fits(c), profiles \subseteq Profiles,
           c.stage \in {"open", "place"}
    PROVE  Opened(c) \in Answers
<1>1. c.op = "launch" /\ c.nonce \in Nonces /\ c.subject \in Subjects /\ c.email \in Emails
      /\ c.claimed \in SUBSET Claimable /\ c.template \in Templates \cup {None}
  BY DEF LaunchCalls
<1>2. c.profile \in Profiles
  BY <1>1 DEF Fits, ProfileFits
<1>3. c.auth \in AuthUsers
  BY <1>1 DEF Fits, AuthFits
<1> QED
  BY <1>1, <1>2, <1>3 DEF Opened, Answers

LEMMA PlacementTyped ==
    ASSUME Typed, PlacementMove, users \subseteq users'
    PROVE  placement' \in [template : Templates \cup {None}, by : users' \cup {None}]
<1>1. placement \in [template : Templates \cup {None}, by : users' \cup {None}]
  BY DEF Typed
<1>2. CASE \E c : Places(c)
  <2>1. PICK c : Places(c)
    BY <1>2
  <2>2. c \in LaunchCalls /\ c.stage = "place" /\ Fits(c)
    BY <2>1 DEF Places
  <2>3. c.op = "launch" /\ c.template \in Templates \cup {None} /\ c.email \in users
    BY <2>2 DEF LaunchCalls, Fits, UserFits, Joined
  <2> QED
    BY <2>1, <2>3 DEF Places, Placed
<1> QED
  BY <1>1, <1>2 DEF PlacementMove

LEMMA TypedStays ==
    ASSUME Typed, RowsMove, calls' \in [Calls -> Requests]
    PROVE  Typed'
<1>1. opened' \subseteq Answers
  <2>1. CASE \E c : Opens(c)
    <3>1. PICK c : Opens(c)
      BY <2>1
    <3>2. c \in LaunchCalls /\ c.stage = "open" /\ Fits(c)
      BY <3>1 DEF Opens
    <3>3. c.stage \in Known
      BY <3>2 DEF Known, Joining, Joined
    <3>4. Opened(c) \in Answers
      BY <3>2, <3>3, OpenedTyped DEF Typed
    <3> QED
      BY <3>1, <3>4 DEF Opens, Typed
  <2> QED
    BY <2>1 DEF RowsMove, OpenedMove, Typed
<1>2. authUsers' \in [AuthUsers -> Emails \cup {None}]
  BY DEF RowsMove, AuthUsersMove, Names, Typed
<1>3. links' \in [AuthUsers -> users' \cup {None}]
  <2>1. links \in [AuthUsers -> users' \cup {None}]
    BY DEF RowsMove, Typed
  <2> QED
    BY <2>1 DEF RowsMove, LinksMove, Links
<1>4. nonces' \in [Nonces -> {"none", "stored", "consumed", "expired"}]
  BY DEF RowsMove, NoncesMove, Turns, Typed
<1>5. /\ identities' \in [Values -> [profile : profiles' \cup {None}, primary : BOOLEAN]]
      /\ proofs' \in [Proofs -> [profile : profiles' \cup {None}, email : Emails \cup {None},
                                 by : Emails \cup {None},
                                 status : {"absent", "valid", "expired", "used"}]]
  BY IdentitiesTyped, ProofsTyped DEF RowsMove
<1>6. placement' \in [template : Templates \cup {None}, by : users' \cup {None}]
  BY PlacementTyped DEF RowsMove
<1> QED
  BY <1>1, <1>2, <1>3, <1>4, <1>5, <1>6 DEF RowsMove, Typed

LEMMA LinksFitStays ==
    ASSUME Typed, LinksFit, RowsMove
    PROVE  LinksFit'
<1>1. CASE links' = links
  <2>1. \A a \in AuthUsers : authUsers[a] # None => authUsers'[a] = authUsers[a]
    BY AccountsStay DEF RowsMove
  <2>2. \A a \in AuthUsers : links[a] # None => authUsers[a] # None
    BY ValuesTyped DEF LinksFit, Typed
  <2> QED
    BY <1>1, <2>1, <2>2 DEF LinksFit
<1>2. CASE authUsers' = authUsers /\ \E a, e : Links(a, e)
  BY <1>2 DEF Links, LinkFree, LinkedTo, LinksFit, Typed
<1> QED
  BY <1>1, <1>2 DEF RowsMove, LinksMove

LEMMA ProofsFitStays ==
    ASSUME Typed, ProofsFit, RowsMove
    PROVE  ProofsFit'
<1>1. RowsStay
  BY StayWhenMoved
<1>2. \A f \in Proofs : proofs[f].status # "absent" =>
         /\ proofs'[f].profile \in profiles' /\ proofs'[f].email \in Emails
         /\ proofs[f].status = "used" => identities'[proofs'[f].email].profile = proofs'[f].profile
  <2> SUFFICES ASSUME NEW f \in Proofs, proofs[f].status # "absent"
               PROVE  /\ proofs'[f].profile \in profiles' /\ proofs'[f].email \in Emails
                      /\ proofs[f].status = "used"
                           => identities'[proofs'[f].email].profile = proofs'[f].profile
    OBVIOUS
  <2>1. proofs[f].profile \in profiles /\ proofs[f].email \in Emails
    BY DEF ProofsFit
  <2>2. proofs[f].profile # None
    BY <2>1, ValuesTyped DEF Typed
  <2>3. proofs[f].email \in Values \ Dids
    BY <2>1, ValuesTyped
  <2>4. proofs[f].status = "used" => Owner(proofs[f].email) = proofs[f].profile
    BY DEF ProofsFit
  <2>5. proofs'[f].profile = proofs[f].profile /\ proofs'[f].email = proofs[f].email
    BY <1>1 DEF RowsStay
  <2> QED
    BY <1>1, <2>1, <2>2, <2>3, <2>4, <2>5 DEF RowsStay
<1>3. CASE proofs' = proofs
  BY <1>2, <1>3 DEF ProofsFit, Owner
<1>4. CASE \E f, p, e, u : Proves(f, p, e, u)
  <2>1. PICK f, p, e, u : Proves(f, p, e, u)
    BY <1>4
  <2>2. /\ f \in Proofs /\ proofs[f].status = "absent"
        /\ \A g \in Proofs : g # f => proofs'[g] = proofs[g]
        /\ proofs'[f].profile = p /\ proofs'[f].email = e /\ proofs'[f].status = "valid"
        /\ p \in profiles' /\ e \in Emails
    BY <2>1 DEF Proves, Typed, RowsMove
  <2> QED
    BY <1>2, <2>2 DEF ProofsFit, Owner
<1>5. CASE \E f, s : Marks(f, s)
  <2>1. PICK f, s : Marks(f, s)
    BY <1>5
  <2>2. /\ f \in Proofs /\ proofs[f].status # "absent"
        /\ \A g \in Proofs : g # f => proofs'[g] = proofs[g]
        /\ proofs'[f].status = s
        /\ proofs'[f].profile = proofs[f].profile /\ proofs'[f].email = proofs[f].email
        /\ s = "used" => identities' = identities /\ Owner(proofs[f].email) = proofs[f].profile
    BY <2>1 DEF Marks, Typed
  <2> QED
    BY <1>2, <2>2 DEF ProofsFit, Owner
<1> QED
  BY <1>3, <1>4, <1>5 DEF RowsMove, ProofsMove

LEMMA PrimariesFitStays ==
    ASSUME Typed, PrimariesFit, RowsMove
    PROVE  PrimariesFit'
<1>1. CASE identities' = identities
  BY <1>1 DEF PrimariesFit, Owner
<1>2. CASE \E v, p, primary : Inserts(v, p, primary)
  <2>1. PICK v, p, primary : Inserts(v, p, primary)
    BY <1>2
  <2>2. /\ v \in Values /\ (v \in Dids => ~primary) /\ primary \in BOOLEAN
        /\ \A w \in Values : w # v => identities'[w] = identities[w]
        /\ identities'[v].profile = p /\ identities'[v].primary = primary
    BY <2>1 DEF Inserts, Alias, Typed
  <2>3. primary => \A w \in Values : ~(identities[w].profile = p /\ identities[w].primary)
    BY <2>1 DEF Inserts, Insertable, PrimaryOf
  <2>4. Dids \subseteq Values
    BY ValuesTyped
  <2> QED
    BY <2>2, <2>3, <2>4 DEF PrimariesFit, Owner
<1>3. CASE \E p : Removes(p)
  <2>1. \A w \in Values : identities'[w] = identities[w] \/ identities'[w] = NoIdentity
    BY <1>3 DEF Removes
  <2> QED
    BY <2>1, ValuesTyped DEF PrimariesFit, Owner, NoIdentity
<1>4. CASE \E p : Clears(p)
  <2>1. \A w \in Values : /\ identities'[w].profile = identities[w].profile
                          /\ identities'[w].primary => identities[w].primary
    BY <1>4 DEF Clears, Typed
  <2> QED
    BY <2>1, ValuesTyped DEF PrimariesFit, Owner
<1> QED
  BY <1>1, <1>2, <1>3, <1>4 DEF RowsMove, IdentitiesMove

\* What was opened stays true, and what is opened now is.
LEMMA OpenedFitsStays ==
    ASSUME Typed, CallsFit, OpenedFits, RowsMove
    PROVE  OpenedFits'
<1>1. RowsStay
  BY StayWhenMoved
<1>2. ASSUME NEW o \in opened
      PROVE  /\ counted' /\ nonces'[o.nonce] = "consumed" /\ links'[o.auth] = o.email
             /\ \A v \in o.claimed \cup {o.subject} : identities'[v].profile = o.profile
  <2>1. /\ o.nonce \in Nonces /\ o.auth \in AuthUsers /\ o.email \in Emails /\ o.profile \in Profiles
        /\ o.claimed \subseteq Claimable /\ o.subject \in Subjects
    BY DEF Typed, Answers
  <2>2. /\ counted /\ nonces[o.nonce] = "consumed" /\ links[o.auth] = o.email
        /\ \A v \in o.claimed \cup {o.subject} : Owner(v) = o.profile
    BY DEF OpenedFits
  <2>3. \A v \in o.claimed \cup {o.subject} : v \in Values \ Dids
    BY <2>1, ValuesTyped
  <2> QED
    BY <1>1, <2>1, <2>2, <2>3, ValuesTyped DEF RowsStay
<1>3. CASE opened' = opened
  BY <1>2, <1>3 DEF OpenedFits, Owner
<1>4. CASE \E c : Opens(c)
  <2>1. PICK c : Opens(c)
    BY <1>4
  <2>2. /\ c \in LaunchCalls /\ c.stage = "open" /\ Fits(c)
        /\ opened' = opened \cup {Opened(c)}
        /\ UNCHANGED <<identities, links, nonces, counted>>
    BY <2>1 DEF Opens
  <2>3. c.op = "launch" /\ c.claims \in Seq(Claimable)
    BY <2>2 DEF LaunchCalls
  <2>4. counted /\ nonces[c.nonce] = "consumed" /\ links[c.auth] = c.email
    BY <2>2, <2>3 DEF Fits, NonceFits, AuthFits, Unverified
  <2>5. \A v \in c.claimed \cup {c.subject} : Owner(v) = c.profile
    BY <2>2, <2>3 DEF Fits, SubjectFits, ClaimsFit, Known, Joining, Joined
  <2>6. \A v \in Opened(c).claimed \cup {Opened(c).subject} : identities'[v].profile = Opened(c).profile
    BY <2>2, <2>5 DEF Opened, Owner
  <2>7. counted' /\ nonces'[Opened(c).nonce] = "consumed" /\ links'[Opened(c).auth] = Opened(c).email
    BY <2>2, <2>4 DEF Opened
  <2> QED
    BY <1>2, <2>2, <2>6, <2>7 DEF OpenedFits, Owner
<1> QED
  BY <1>3, <1>4 DEF RowsMove, OpenedMove

LEMMA PlacementFitsStays ==
    ASSUME Typed, PlacedByItsLauncher, RowsMove
    PROVE  PlacedByItsLauncher'
<1>1. opened \subseteq opened'
  BY StayWhenMoved DEF RowsStay
<1>2. CASE placement' = placement
  BY <1>1, <1>2 DEF PlacedByItsLauncher
<1>3. CASE \E c : Places(c)
  <2>1. PICK c : Places(c)
    BY <1>3
  <2>2. c \in LaunchCalls /\ c.stage = "place" /\ Fits(c) /\ placement' = Placed(c.template, c.email)
    BY <2>1 DEF Places
  <2>3. Opened(c) \in opened
    BY <2>2 DEF Fits, PlaceFits, LaunchCalls
  <2>4. Opened(c).template = placement'.template /\ Opened(c).email = placement'.by
    BY <2>2 DEF Opened, Placed
  <2> QED
    BY <1>1, <2>3, <2>4 DEF PlacedByItsLauncher
<1> QED
  BY <1>2, <1>3 DEF RowsMove, PlacementMove

LEMMA RowsFitStays ==
    ASSUME Typed, CallsFit, RowsFit, RowsMove
    PROVE  RowsFit'
<1>1. LinksFit' /\ ProofsFit' /\ PrimariesFit' /\ OpenedFits' /\ PlacedByItsLauncher'
  BY LinksFitStays, ProofsFitStays, PrimariesFitStays, OpenedFitsStays, PlacementFitsStays DEF RowsFit
<1> QED
  BY <1>1 DEF RowsFit, RowsMove

-----------------------------------------------------------------------------
(* A request that takes no step relies on what it did before.                *)

LEMMA FitsStay ==
    ASSUME Typed, ProofsFit, RowsStay, NEW c \in Requests, Fits(c)
    PROVE  Fits(c)'
<1>1. \A p \in profiles : p # None
  BY ValuesTyped DEF Typed
<1>2. NonceFits(c)'
  BY KindAt, LaunchKeeps DEF Fits, NonceFits, RowsStay
<1>3. ProfileFits(c)'
  BY DEF Fits, ProfileFits, RowsStay
<1>4. ProofFits(c)'
  <2> SUFFICES ASSUME c.op = "verify"
               PROVE  /\ proofs'[c.proof].status # "absent"
                      /\ c.stage = "mark"
                           => identities'[proofs'[c.proof].email].profile = proofs'[c.proof].profile
    BY DEF ProofFits, Owner
  <2>1. c.proof \in Proofs
    BY KindAt DEF VerifyCalls
  <2>2. proofs[c.proof].status # "absent"
    BY DEF Fits, ProofFits
  <2>3. proofs[c.proof].email \in Values \ Dids /\ proofs[c.proof].profile # None
    BY <1>1, <2>1, <2>2, ValuesTyped DEF ProofsFit
  <2>4. c.stage = "mark" => Owner(proofs[c.proof].email) = proofs[c.proof].profile
    BY DEF Fits, ProofFits
  <2> QED
    BY <2>1, <2>2, <2>3, <2>4 DEF RowsStay
<1>5. SubjectFits(c)'
  <2> SUFFICES ASSUME c.op = "launch", c.stage \in Known
               PROVE  identities'[c.subject].profile = c.profile
    BY DEF SubjectFits, Owner, Fits
  <2>1. Owner(c.subject) = c.profile /\ c.profile \in profiles
    BY DEF Fits, SubjectFits, ProfileFits
  <2>2. c.subject \in Values \ Dids
    BY KindAt, LaunchKeeps, ValuesTyped
  <2> QED
    BY <1>1, <2>1, <2>2 DEF RowsStay
<1>6. ClaimsFit(c)'
  <2> SUFFICES ASSUME c.op = "launch"
               PROVE  \A v \in c.claimed : c.stage \in Known /\ Owner(v) = c.profile
                          => identities'[v].profile = c.profile
    BY DEF ClaimsFit, Owner, Fits
  <2>1. c.stage \in Known => c.profile \in profiles
    BY DEF Fits, ProfileFits
  <2>2. \A v \in c.claimed : v \in Values \ Dids
    BY KindAt, LaunchKeeps, ValuesTyped
  <2> QED
    BY <1>1, <2>1, <2>2 DEF RowsStay
<1>7. UserFits(c)'
  BY DEF Fits, UserFits, RowsStay
<1>8. AuthFits(c)'
  <2>1. c.op \in {"launch", "magic"} => c.email \in Emails
    BY KindAt DEF LaunchCalls, MagicCalls
  <2>2. c.op = "launch" /\ c.stage \in {"open", "place"} =>
          c.auth \in AuthUsers /\ links[c.auth] = c.email
    BY DEF Fits, AuthFits
  <2> QED
    BY <2>1, <2>2, ValuesTyped DEF Fits, AuthFits, RowsStay
<1>9. PlaceFits(c)'
  BY DEF Fits, PlaceFits, RowsStay, Opened
<1> QED
  BY <1>2, <1>3, <1>4, <1>5, <1>6, <1>7, <1>8, <1>9 DEF Fits

\* The kinds of which little is asked.
LEMMA QuietFits ==
    ASSUME NEW c, c.op \in {"none", "jwks", "login", "select"}
    PROVE  Fits(c) /\ Fits(c)'
  BY DEF Fits, NonceFits, ProfileFits, ProofFits, SubjectFits, ClaimsFit, UserFits, AuthFits, PlaceFits

LEMMA SettingsFit ==
    ASSUME NEW c, c.op \in {"did", "prove"}
    PROVE  /\ ProfileFits(c) => Fits(c)
           /\ ProfileFits(c)' => Fits(c)'
  BY DEF Fits, NonceFits, ProfileFits, ProofFits, SubjectFits, ClaimsFit, UserFits, AuthFits, PlaceFits

LEMMA VerificationFits ==
    ASSUME NEW c, c.op = "verify"
    PROVE  /\ ProofFits(c) => Fits(c)
           /\ ProofFits(c)' => Fits(c)'
  BY DEF Fits, NonceFits, ProfileFits, ProofFits, SubjectFits, ClaimsFit, UserFits, AuthFits, PlaceFits

LEMMA MagicFits ==
    ASSUME NEW c, c.op = "magic"
    PROVE  /\ UserFits(c) /\ AuthFits(c) => Fits(c)
           /\ UserFits(c)' /\ AuthFits(c)' => Fits(c)'
  BY DEF Fits, NonceFits, ProfileFits, ProofFits, SubjectFits, ClaimsFit, UserFits, AuthFits, PlaceFits

\* A launch that goes on and holds what it held has to fit where its new stage asks more.
LEMMA LaunchMovesOn ==
    ASSUME NEW c \in LaunchCalls, Fits(c)',
           NEW s \in Unverified \cup {"session", "template"} \cup Finding \cup Known,
           NEW d, d = [c EXCEPT !.stage = s],
           s \notin Unverified => c.stage \notin Unverified,
           s \in Finding => c.stage \in Finding,
           s = "primary" => c.stage = "primary",
           s \in Known <=> c.stage \in Known,
           s = "alias" => c.claims # <<>>,
           s \in Joining => c.claims = <<>>,
           s \in Joined => c.email \in users',
           s \in {"matched", "newLink", "open", "place"} =>
               c.auth \in AuthUsers /\ authUsers'[c.auth] = c.email,
           s \in {"open", "place"} => links'[c.auth] = c.email,
           s = "place" => c.template # None /\ Opened(c) \in opened'
    PROVE  d \in LaunchCalls /\ Fits(d)'
<1>1. /\ d \in LaunchCalls /\ d.op = "launch" /\ d.stage = s
      /\ d.nonce = c.nonce /\ d.key = c.key /\ d.subject = c.subject /\ d.claims = c.claims
      /\ d.email = c.email /\ d.claimed = c.claimed
      /\ d.template = c.template /\ d.profile = c.profile /\ d.auth = c.auth
  BY DEF LaunchCalls
<1>2. c.op = "launch"
  BY LaunchKeeps
<1>3. NonceFits(d)'
  BY <1>1, <1>2 DEF Fits, NonceFits
<1>4. ProfileFits(d)'
  BY <1>1, <1>2 DEF Fits, ProfileFits, Unverified, Finding, Known, Joining, Joined
<1>5. ProofFits(d)'
  BY <1>1 DEF ProofFits
<1>6. SubjectFits(d)'
  BY <1>1, <1>2 DEF Fits, SubjectFits, Owner
<1>7. ClaimsFit(d)'
  BY <1>1, <1>2 DEF Fits, ClaimsFit, Owner
<1>8. UserFits(d)'
  BY <1>1 DEF UserFits
<1>9. AuthFits(d)'
  BY <1>1 DEF AuthFits
<1>10. PlaceFits(d)'
  BY <1>1 DEF PlaceFits, Opened
<1> QED
  BY <1>1, <1>3, <1>4, <1>5, <1>6, <1>7, <1>8, <1>9, <1>10 DEF Fits

-----------------------------------------------------------------------------
(* The steps of a request: what each does to the rows, and that the request  *)
(* can rely on what it then holds.                                           *)

ActorMoves(r) == \E d \in Requests : calls' = [calls EXCEPT ![r] = d] /\ Fits(d)'

LEMMA ActorAnswers ==
    ASSUME NEW r \in Calls, Answer(r)
    PROVE  ActorMoves(r)
<1>1. PICK d : d = NoCall
  OBVIOUS
<1>2. d \in Requests /\ Fits(d)'
  BY <1>1, NobodyAsks, QuietFits
<1> QED
  BY <1>1, <1>2 DEF Answer, Hold, ActorMoves

LEMMA ActorHolds ==
    ASSUME NEW r \in Calls, NEW d \in Requests, Hold(r, d), Fits(d)'
    PROVE  ActorMoves(r)
  BY DEF Hold, ActorMoves

\* A step that writes no row.
Reads ==
    UNCHANGED <<profiles, identities, proofs, users, roles, authUsers, links, lost, overlapped, opened,
                counted, toolKey, nonces, ltiSessions, placement, signed>>

LEMMA ReadsMoves ==
    ASSUME Typed, Reads
    PROVE  RowsMove
  BY DEF Typed, Reads, RowsMove, IdentitiesMove, ProofsMove, AuthUsersMove, LinksMove, NoncesMove,
         OpenedMove, PlacementMove

LEMMA KeepsRead ==
    ASSUME KeepsTables \/ Unchanged, KeepsLaunch
    PROVE  Reads
  BY DEF KeepsTables, Unchanged, KeepsLaunch, launchVars, learnerVars, accountVars, historyVars, Reads

LEMMA FitsWhenMoved ==
    ASSUME Typed, RowsFit, RowsMove, NEW c \in Requests, Fits(c)
    PROVE  Fits(c)'
  BY StayWhenMoved, FitsStay DEF RowsFit

LEMMA ItsRequest ==
    ASSUME Typed, CallsFit, RowsFit, RowsMove, NEW r \in Calls
    PROVE  \E c \in Requests : c = calls[r] /\ Fits(c) /\ Fits(c)'
<1>1. PICK c : c = calls[r]
  OBVIOUS
<1>2. c \in Requests /\ Fits(c)
  BY <1>1 DEF Typed, CallsFit
<1> QED
  BY <1>1, <1>2, FitsWhenMoved

LEMMA ItsLaunch ==
    ASSUME Typed, CallsFit, RowsFit, RowsMove, NEW r \in Calls,
           calls[r].stage \in {"config", "nonce", "session", "template"} \cup Known
    PROVE  \E c \in LaunchCalls : c = calls[r] /\ Fits(c) /\ Fits(c)'
  BY ItsRequest, StageAt, KindAt

LEMMA LaunchGoesOn ==
    ASSUME NEW r \in Calls, NEW c \in LaunchCalls, c = calls[r], Fits(c)',
           NEW s \in Unverified \cup {"session", "template"} \cup Finding \cup Known,
           MoveTo(r, s),
           s \notin Unverified => c.stage \notin Unverified,
           s \in Finding => c.stage \in Finding,
           s = "primary" => c.stage = "primary",
           s \in Known <=> c.stage \in Known,
           s = "alias" => c.claims # <<>>,
           s \in Joining => c.claims = <<>>,
           s \in Joined => c.email \in users',
           s \in {"matched", "newLink", "open", "place"} =>
               c.auth \in AuthUsers /\ authUsers'[c.auth] = c.email,
           s \in {"open", "place"} => links'[c.auth] = c.email,
           s = "place" => c.template # None /\ Opened(c) \in opened'
    PROVE  ActorMoves(r)
<1>1. PICK d : d = [c EXCEPT !.stage = s]
  OBVIOUS
<1>2. d \in LaunchCalls /\ Fits(d)'
  BY <1>1, LaunchMovesOn
<1> QED
  BY <1>1, <1>2, ActorHolds, LaunchKeeps DEF MoveTo

LEMMA FindConfigMoves ==
    ASSUME Typed, CallsFit, RowsFit, NEW r \in Calls, FindConfig(r)
    PROVE  RowsMove /\ ActorMoves(r)
<1>1. RowsMove
  BY ReadsMoves, KeepsRead DEF FindConfig
<1>2. calls[r].stage = "config"
  BY DEF FindConfig, At
<1>3. PICK c \in LaunchCalls : c = calls[r] /\ Fits(c)'
  BY <1>1, <1>2, ItsLaunch
<1>4. ASSUME MoveTo(r, "nonce")
      PROVE  ActorMoves(r)
  BY <1>2, <1>3, <1>4, LaunchGoesOn DEF Unverified, Finding, Known, Joining, Joined
<1> QED
  BY <1>1, <1>4, ActorAnswers DEF FindConfig

\* The tool's key.
LEMMA KeyInHandMoves ==
    ASSUME Typed, CallsFit, RowsFit, RowsMove, NEW r \in Calls, NEW k \in Keys, KeyInHand(r, k),
           calls[r].stage \in {"key", "newKey"}
    PROVE  ActorMoves(r)
<1>1. PICK c \in Requests : c = calls[r] /\ Fits(c) /\ Fits(c)'
  BY ItsRequest
<1>2. c.op \in {"jwks", "login", "launch", "select"}
  BY <1>1, StageAt
<1>3. CASE c.op = "jwks"
  BY <1>1, <1>3, ActorAnswers DEF KeyInHand
<1>4. CASE c.op = "login"
  <2>1. PICK d : d = [c EXCEPT !.key = k, !.stage = "storeNonce"]
    OBVIOUS
  <2>2. d \in LoginCalls /\ d.op = "login"
    BY <1>4, <2>1, KindAt DEF LoginCalls
  <2>3. d \in Requests /\ Fits(d)'
    BY <2>2, QuietFits DEF Requests
  <2> QED
    BY <1>1, <1>4, <2>1, <2>3, ActorHolds DEF KeyInHand, AfterKey
<1>5. CASE c.op = "select"
  <2>1. PICK d : d = [c EXCEPT !.key = k, !.stage = "select"]
    OBVIOUS
  <2>2. d \in SelectCalls /\ d.op = "select"
    BY <1>5, <2>1, KindAt DEF SelectCalls
  <2>3. d \in Requests /\ Fits(d)'
    BY <2>2, QuietFits DEF Requests
  <2> QED
    BY <1>1, <1>5, <2>1, <2>3, ActorHolds DEF KeyInHand, AfterKey
<1>6. CASE c.op = "launch"
  <2>1. PICK d : d = [c EXCEPT !.key = k, !.stage = "config"]
    OBVIOUS
  <2>2. c \in LaunchCalls
    BY <1>6, KindAt
  <2>3. /\ d \in LaunchCalls /\ d.op = "launch" /\ d.stage = "config"
        /\ d.nonce = c.nonce /\ d.claimed = c.claimed /\ d.claims = c.claims /\ d.profile = c.profile
    BY <2>1, <2>2 DEF LaunchCalls, Unverified
  <2>4. c.stage \notin Known
    BY <1>1 DEF Known, Joining, Joined
  <2>5. NonceFits(d)' /\ ProofFits(d)' /\ UserFits(d)' /\ AuthFits(d)' /\ PlaceFits(d)'
    BY <1>1, <1>6, <2>3 DEF Fits, NonceFits, ProofFits, UserFits, AuthFits, PlaceFits, Unverified, Joined
  <2>6. ProfileFits(d)' /\ SubjectFits(d)'
    BY <1>1, <1>6, <2>3 DEF Fits, ProfileFits, SubjectFits, Finding, Known, Joining, Joined
  <2>7. ClaimsFit(d)'
    BY <1>1, <1>6, <2>3, <2>4 DEF Fits, ClaimsFit, Known, Joining, Joined
  <2>8. d \in Requests /\ Fits(d)'
    BY <2>3, <2>5, <2>6, <2>7, LaunchKeeps DEF Fits
  <2> QED
    BY <1>1, <1>6, <2>1, <2>8, ActorHolds DEF KeyInHand, AfterKey
<1> QED
  BY <1>2, <1>3, <1>4, <1>5, <1>6

\* A request that waits for a key is moved to make one.
LEMMA NewKeyMoves ==
    ASSUME Typed, CallsFit, RowsFit, RowsMove, NEW r \in Calls, MoveTo(r, "newKey"),
           calls[r].stage = "key"
    PROVE  ActorMoves(r)
<1>1. PICK c \in Requests : c = calls[r] /\ Fits(c) /\ Fits(c)'
  BY ItsRequest
<1>2. c.op \in {"jwks", "login", "launch", "select"}
  BY <1>1, StageAt
<1>3. CASE c.op = "launch"
  BY <1>1, <1>3, KindAt, LaunchGoesOn DEF Unverified, Finding, Known, Joining, Joined
<1>4. CASE c.op # "launch"
  <2>1. PICK d : d = [c EXCEPT !.stage = "newKey"]
    OBVIOUS
  <2>2. d \in Requests /\ d.op \in {"jwks", "login", "select"}
    BY <1>1, <1>2, <1>4, <2>1, KindAt DEF KeysCalls, LoginCalls, SelectCalls, Requests
  <2>3. Fits(d)'
    BY <2>2, QuietFits
  <2>4. Hold(r, d)
    BY <1>1, <2>1 DEF MoveTo
  <2> QED
    BY <2>2, <2>3, <2>4, ActorHolds
<1> QED
  BY <1>3, <1>4

LEMMA FindKeyMoves ==
    ASSUME Typed, CallsFit, RowsFit, NEW r \in Calls, FindKey(r)
    PROVE  RowsMove /\ ActorMoves(r)
<1>1. signed' = signed \/ (toolKey # None /\ signed' = signed \cup {toolKey})
  BY DEF FindKey, KeyFound, KeyInHand
<1>2. RowsMove
  BY <1>1 DEF FindKey, KeepsTables, learnerVars, accountVars, historyVars, Typed, RowsMove,
              IdentitiesMove, ProofsMove, AuthUsersMove, LinksMove, NoncesMove, OpenedMove, PlacementMove
<1>3. calls[r].stage = "key"
  BY DEF FindKey, At
<1>4. CASE toolKey = None
  BY <1>2, <1>3, <1>4, NewKeyMoves DEF FindKey, KeyFound
<1>5. CASE toolKey # None
  <2>1. toolKey \in Keys
    BY <1>5 DEF Typed
  <2> QED
    BY <1>2, <1>3, <1>5, <2>1, KeyInHandMoves DEF FindKey, KeyFound
<1> QED
  BY <1>2, <1>4, <1>5

LEMMA CreateKeyMoves ==
    ASSUME Typed, CallsFit, RowsFit, NEW r \in Calls, CreateKey(r)
    PROVE  RowsMove /\ ActorMoves(r) /\ toolKey' \in Keys
<1>1. PICK k \in Keys : toolKey' = k /\ KeyInHand(r, k)
  BY DEF CreateKey, UnusedKeys
<1>2. signed' = signed \/ signed' = signed \cup {k}
  BY <1>1 DEF KeyInHand
<1>3. RowsMove
  BY <1>1, <1>2
     DEF CreateKey, KeepsTables, learnerVars, accountVars, historyVars, Typed, RowsMove,
         IdentitiesMove, ProofsMove, AuthUsersMove, LinksMove, NoncesMove, OpenedMove, PlacementMove
<1>4. calls[r].stage = "newKey"
  BY DEF CreateKey, At
<1> QED
  BY <1>1, <1>3, <1>4, KeyInHandMoves

\* A request comes in.
LEMMA ReceiveMoves ==
    ASSUME Typed, NEW r \in Calls, NEW d, Receive(r, d), KeepsLaunch
    PROVE  RowsMove
  BY DEF Receive, KeepsLaunch, launchVars, learnerVars, accountVars, Typed, RowsMove,
         IdentitiesMove, ProofsMove, AuthUsersMove, LinksMove, NoncesMove, OpenedMove, PlacementMove

LEMMA AskKeysMoves ==
    ASSUME Typed, NEW r \in Calls, AskKeys(r)
    PROVE  RowsMove /\ ActorMoves(r)
<1>1. PICK d : d = [op |-> "jwks", stage |-> "key"]
  OBVIOUS
<1>2. d \in Requests /\ d.op = "jwks"
  BY <1>1 DEF KeysCalls, Requests
<1> QED
  BY <1>1, <1>2, QuietFits, ActorHolds, ReceiveMoves DEF AskKeys, Receive

LEMMA AskLoginMoves ==
    ASSUME Typed, NEW r \in Calls, NEW n \in Nonces, AskLogin(r, n)
    PROVE  RowsMove /\ ActorMoves(r)
<1>1. PICK d : d = [op |-> "login", stage |-> "deploy", nonce |-> n, key |-> None]
  OBVIOUS
<1>2. d \in Requests /\ d.op = "login"
  BY <1>1 DEF LoginCalls, Requests
<1> QED
  BY <1>1, <1>2, QuietFits, ActorHolds, ReceiveMoves DEF AskLogin, Receive

LEMMA AskSelectMoves ==
    ASSUME Typed, NEW r \in Calls, NEW n \in Nonces, AskSelect(r, n)
    PROVE  RowsMove /\ ActorMoves(r)
<1>1. PICK d : d = [op |-> "select", stage |-> "key", nonce |-> n, key |-> None]
  OBVIOUS
<1>2. d \in Requests /\ d.op = "select"
  BY <1>1 DEF SelectCalls, Requests
<1> QED
  BY <1>1, <1>2, QuietFits, ActorHolds, ReceiveMoves DEF AskSelect, Receive

LEMMA AskLaunchMoves ==
    ASSUME Typed, NEW r \in Calls, NEW n \in Nonces, NEW c \in LaunchClaims, AskLaunch(r, n, c)
    PROVE  RowsMove /\ ActorMoves(r)
<1>1. PICK d : d = [op |-> "launch", stage |-> "key", nonce |-> n, key |-> None,
                    subject |-> c.subject, claims |-> c.claims,
                    email |-> c.email, instructor |-> c.instructor,
                    claimed |-> {c.claims[i] : i \in DOMAIN c.claims},
                    template |-> c.template, profile |-> None, auth |-> None]
  OBVIOUS
<1>2. /\ c.subject \in Subjects /\ c.claims \in Seq(Claimable) /\ c.email \in Emails
      /\ c.instructor \in BOOLEAN /\ c.template \in Templates \cup {None}
  BY LaunchAssumption DEF Claimable
<1>3. {c.claims[i] : i \in DOMAIN c.claims} \subseteq Claimable
  BY <1>2
<1>4. d \in LaunchCalls
  BY <1>1, <1>2, <1>3 DEF LaunchCalls, Unverified
<1>5. RowsMove
  BY <1>1, ReceiveMoves DEF AskLaunch
<1>6. nonces'[n] # "none"
  BY DEF AskLaunch, KeepsLaunch, launchVars
<1>7. Fits(d)'
  <2>1. /\ d.op = "launch" /\ d.stage = "key" /\ d.nonce = n /\ d.profile = None
        /\ d.claimed = {d.claims[i] : i \in DOMAIN d.claims}
    BY <1>1
  <2>2. NonceFits(d)' /\ ProofFits(d)' /\ UserFits(d)' /\ AuthFits(d)' /\ PlaceFits(d)'
    BY <1>6, <2>1 DEF NonceFits, ProofFits, UserFits, AuthFits, PlaceFits, Unverified, Joined
  <2>3. ProfileFits(d)' /\ SubjectFits(d)' /\ ClaimsFit(d)'
    BY <2>1 DEF ProfileFits, SubjectFits, ClaimsFit, Finding, Known, Joining, Joined
  <2> QED
    BY <2>2, <2>3 DEF Fits
<1> QED
  BY <1>1, <1>4, <1>5, <1>7, ActorHolds, LaunchKeeps DEF AskLaunch, Receive

\* The login.
LEMMA LoginGoesOn ==
    ASSUME Typed, NEW r \in Calls, calls[r].op = "login", NEW s \in {"key", "newKey", "storeNonce"},
           MoveTo(r, s)
    PROVE  ActorMoves(r)
<1>1. PICK d : d = [calls[r] EXCEPT !.stage = s]
  OBVIOUS
<1>2. d \in Requests /\ d.op = "login"
  BY <1>1, KindAt DEF Typed, LoginCalls, Requests
<1>3. Fits(d)'
  BY <1>2, QuietFits
<1>4. Hold(r, d)
  BY <1>1 DEF MoveTo
<1> QED
  BY <1>2, <1>3, <1>4, ActorHolds

LEMMA UpsertDeploymentMoves ==
    ASSUME Typed, NEW r \in Calls, UpsertDeployment(r)
    PROVE  RowsMove /\ ActorMoves(r)
<1>1. RowsMove
  BY ReadsMoves DEF UpsertDeployment, KeepsTables, learnerVars, accountVars, historyVars, Reads
<1>2. calls[r].op = "login"
  BY StageAt DEF UpsertDeployment, At, Typed
<1> QED
  BY <1>1, <1>2, LoginGoesOn, ActorAnswers DEF UpsertDeployment

LEMMA StoreNonceMoves ==
    ASSUME Typed, LoginsDiffer, NEW r \in Calls, StoreNonce(r)
    PROVE  RowsMove /\ ActorMoves(r)
<1>1. calls[r].op = "login" /\ calls[r] \in LoginCalls
  BY StageAt, KindAt DEF StoreNonce, At, Typed
<1>2. nonces[calls[r].nonce] = "none" /\ calls[r].nonce \in Nonces
  BY <1>1 DEF LoginsDiffer, LoginCalls
<1>3. NoncesMove
  BY <1>2 DEF StoreNonce, NoncesMove, Turns
<1>4. RowsMove
  BY <1>3 DEF StoreNonce, KeepsTables, learnerVars, accountVars, historyVars, Typed, RowsMove,
              IdentitiesMove, ProofsMove, AuthUsersMove, LinksMove, OpenedMove, PlacementMove
<1> QED
  BY <1>4, ActorAnswers DEF StoreNonce

\* The launch, up to the linking of its account.
LEMMA ExpireNonceMoves ==
    ASSUME Typed, NEW n \in Nonces, ExpireNonce(n)
    PROVE  RowsMove /\ calls' = calls
<1>1. NoncesMove
  BY DEF ExpireNonce, NoncesMove, Turns
<1> QED
  BY <1>1 DEF ExpireNonce, KeepsTables, learnerVars, accountVars, historyVars, Typed, RowsMove,
              IdentitiesMove, ProofsMove, AuthUsersMove, LinksMove, OpenedMove, PlacementMove

\* Only a database that counts tells a launch that it consumed the nonce, and only the
\* launch that did.
LEMMA AcceptedCounts ==
    ASSUME Typed, NEW n \in Nonces, Accepted(IF Consumable(n) THEN 1 ELSE 0)
    PROVE  counted /\ nonces[n] = "stored"
  BY DEF Accepted, Reported, RowsChanged, RowsWritten, Consumable, Typed

LEMMA ConsumeNonceMoves ==
    ASSUME Typed, CallsFit, RowsFit, NEW r \in Calls, ConsumeNonce(r)
    PROVE  RowsMove /\ ActorMoves(r)
<1>1. calls[r].stage = "nonce" /\ calls[r] \in LaunchCalls /\ calls[r].nonce \in Nonces
  BY StageAt, KindAt DEF ConsumeNonce, At, Typed, LaunchCalls
<1>2. NoncesMove
  BY <1>1 DEF ConsumeNonce, Consumable, NoncesMove, Turns
<1>3. RowsMove
  BY <1>2 DEF ConsumeNonce, KeepsTables, learnerVars, accountVars, historyVars, Typed, RowsMove,
              IdentitiesMove, ProofsMove, AuthUsersMove, LinksMove, OpenedMove, PlacementMove
<1>4. PICK c \in LaunchCalls : c = calls[r] /\ Fits(c)'
  BY <1>1, <1>3, ItsLaunch
<1>5. CASE Accepted(IF Consumable(c.nonce) THEN 1 ELSE 0)
  <2>1. counted' /\ nonces'[c.nonce] = "consumed"
    BY <1>1, <1>4, <1>5, AcceptedCounts DEF ConsumeNonce, Consumable, Typed
  <2>2. PICK d : d = [c EXCEPT !.stage = "session"]
    OBVIOUS
  <2>3. /\ d \in LaunchCalls /\ d.op = "launch" /\ d.stage = "session" /\ c.op = "launch"
        /\ d.nonce = c.nonce /\ d.claimed = c.claimed /\ d.claims = c.claims /\ d.profile = c.profile
    BY <2>2 DEF LaunchCalls
  <2>4. c.stage \notin Known
    BY <1>1, <1>4 DEF Known, Joining, Joined
  <2>5. NonceFits(d)' /\ ProofFits(d)' /\ UserFits(d)' /\ AuthFits(d)' /\ PlaceFits(d)'
    BY <2>1, <2>3 DEF NonceFits, ProofFits, UserFits, AuthFits, PlaceFits, Joined
  <2>6. ProfileFits(d)' /\ SubjectFits(d)'
    BY <1>4, <2>3 DEF Fits, ProfileFits, SubjectFits, Finding, Known, Joining, Joined
  <2>7. ClaimsFit(d)'
    BY <1>4, <2>3, <2>4 DEF Fits, ClaimsFit, Known, Joining, Joined
  <2>8. Fits(d)'
    BY <2>5, <2>6, <2>7 DEF Fits
  <2>9. Hold(r, d)
    BY <1>4, <1>5, <2>2 DEF ConsumeNonce, MoveTo
  <2> QED
    BY <1>3, <2>3, <2>8, <2>9, ActorHolds, LaunchKeeps
<1>6. CASE ~Accepted(IF Consumable(c.nonce) THEN 1 ELSE 0)
  BY <1>3, <1>4, <1>6, ActorAnswers DEF ConsumeNonce
<1> QED
  BY <1>3, <1>5, <1>6

LEMMA StoreSessionMoves ==
    ASSUME Typed, CallsFit, RowsFit, NEW r \in Calls, StoreSession(r)
    PROVE  RowsMove /\ ActorMoves(r)
<1>1. calls[r].stage = "session" /\ calls[r] \in LaunchCalls /\ Fits(calls[r])
  BY StageAt, KindAt DEF StoreSession, At, Typed, CallsFit
<1>2. calls[r].nonce \in Nonces /\ counted
  BY <1>1, LaunchKeeps DEF Fits, NonceFits, Unverified
<1>3. RowsMove
  BY <1>2 DEF StoreSession, KeepsTables, learnerVars, accountVars, historyVars, Typed, RowsMove,
         IdentitiesMove, ProofsMove, AuthUsersMove, LinksMove, NoncesMove, OpenedMove, PlacementMove
<1>4. PICK c \in LaunchCalls : c = calls[r] /\ Fits(c)'
  BY <1>1, <1>3, ItsLaunch
<1>5. MoveTo(r, "template")
  BY DEF StoreSession
<1>6. ActorMoves(r)
  BY <1>1, <1>4, <1>5, LaunchGoesOn DEF Unverified, Finding, Known, Joining, Joined
<1> QED
  BY <1>3, <1>6

LEMMA CheckTemplateMoves ==
    ASSUME Typed, CallsFit, RowsFit, NEW r \in Calls, CheckTemplate(r)
    PROVE  RowsMove /\ ActorMoves(r)
<1>1. calls[r].stage = "template"
  BY DEF CheckTemplate, At
<1>2. RowsMove
  BY ReadsMoves, KeepsRead DEF CheckTemplate
<1>3. PICK c \in LaunchCalls : c = calls[r] /\ Fits(c)'
  BY <1>1, <1>2, ItsLaunch
<1>4. CASE c.template \in available \cup {None}
  <2>1. PICK d : d = [c EXCEPT !.key = c.subject, !.stage = "find"]
    OBVIOUS
  <2>2. /\ d \in LaunchCalls /\ d.op = "launch" /\ d.stage = "find" /\ c.op = "launch"
        /\ d.nonce = c.nonce /\ d.claimed = c.claimed /\ d.claims = c.claims
        /\ d.profile = c.profile /\ d.key = d.subject
    BY <2>1 DEF LaunchCalls, Finding
  <2>3. c.stage \notin Known /\ c.stage \notin Unverified
    BY <1>1, <1>3 DEF Known, Joining, Joined, Unverified
  <2>4. NonceFits(d)' /\ ProofFits(d)' /\ UserFits(d)' /\ AuthFits(d)' /\ PlaceFits(d)'
    BY <1>3, <2>2, <2>3 DEF Fits, NonceFits, ProofFits, UserFits, AuthFits, PlaceFits, Joined
  <2>5. ProfileFits(d)' /\ SubjectFits(d)'
    BY <1>3, <2>2 DEF Fits, ProfileFits, SubjectFits, Known, Joining, Joined
  <2>6. ClaimsFit(d)'
    BY <1>3, <2>2, <2>3 DEF Fits, ClaimsFit, Known, Joining, Joined
  <2>7. Fits(d)'
    BY <2>4, <2>5, <2>6 DEF Fits
  <2>8. Hold(r, d)
    BY <1>3, <1>4, <2>1 DEF CheckTemplate
  <2> QED
    BY <1>2, <2>2, <2>7, <2>8, ActorHolds, LaunchKeeps
<1>5. CASE c.template \notin available \cup {None}
  BY <1>2, <1>3, <1>5, ActorAnswers DEF CheckTemplate
<1> QED
  BY <1>2, <1>4, <1>5

LEMMA OpenLaunchMoves ==
    ASSUME Typed, CallsFit, RowsFit, NEW r \in Calls, OpenLaunch(r)
    PROVE  RowsMove /\ ActorMoves(r)
<1>1. calls[r].stage = "open" /\ calls[r] \in LaunchCalls /\ Fits(calls[r])
  BY StageAt, KindAt DEF OpenLaunch, At, Typed, CallsFit, Known, Joining, Joined
<1>2. OpenedMove
  BY <1>1 DEF OpenLaunch, KeepsLaunch, launchVars, learnerVars, accountVars, OpenedMove, Opens
<1>3. RowsMove
  BY <1>2 DEF OpenLaunch, KeepsLaunch, launchVars, learnerVars, accountVars, Typed, RowsMove,
              IdentitiesMove, ProofsMove, AuthUsersMove, LinksMove, NoncesMove, PlacementMove
<1>4. PICK c \in LaunchCalls : c = calls[r] /\ Fits(c)'
  BY <1>1, <1>3, ItsLaunch DEF Known, Joining, Joined
<1>5. CASE c.template = None
  BY <1>3, <1>4, <1>5, ActorAnswers DEF OpenLaunch
<1>6. CASE c.template # None
  <2>1. MoveTo(r, "place") /\ Opened(c) \in opened'
    BY <1>4, <1>6 DEF OpenLaunch
  <2>2. /\ c.claims = <<>> /\ c.email \in users' /\ c.auth \in AuthUsers
        /\ authUsers'[c.auth] = c.email /\ links'[c.auth] = c.email
    BY <1>1, <1>4, LaunchKeeps DEF Fits, ClaimsFit, UserFits, AuthFits, Joining, Joined
  <2>3. ActorMoves(r)
    BY <1>1, <1>4, <1>6, <2>1, <2>2, LaunchGoesOn DEF Unverified, Finding, Known, Joining, Joined
  <2> QED
    BY <1>3, <2>3
<1> QED
  BY <1>3, <1>5, <1>6

LEMMA PlaceLinkMoves ==
    ASSUME Typed, CallsFit, RowsFit, NEW r \in Calls, PlaceLink(r)
    PROVE  RowsMove /\ ActorMoves(r)
<1>1. calls[r].stage = "place" /\ calls[r] \in LaunchCalls /\ Fits(calls[r])
  BY StageAt, KindAt DEF PlaceLink, At, Typed, CallsFit, Known, Joining, Joined
<1>2. PlacementMove
  BY <1>1 DEF PlaceLink, PlacementMove, Places
<1>3. RowsMove
  BY <1>2 DEF PlaceLink, KeepsTables, learnerVars, accountVars, historyVars, Typed, RowsMove,
              IdentitiesMove, ProofsMove, AuthUsersMove, LinksMove, NoncesMove, OpenedMove
<1> QED
  BY <1>3, ActorAnswers DEF PlaceLink

LEMMA SelectMoves ==
    ASSUME Typed, NEW r \in Calls, Select(r)
    PROVE  RowsMove /\ ActorMoves(r)
<1>1. calls[r].stage = "select" /\ calls[r] \in SelectCalls
  BY StageAt, KindAt DEF Select, At, Typed
<1>2. calls[r].key \in Keys
  BY <1>1 DEF SelectCalls
<1>3. signed' \subseteq Keys
  BY <1>2 DEF Select, Typed
<1>4. RowsMove
  BY <1>3 DEF Select, KeepsTables, learnerVars, accountVars, historyVars, Typed, RowsMove,
              IdentitiesMove, ProofsMove, AuthUsersMove, LinksMove, NoncesMove, OpenedMove, PlacementMove
<1> QED
  BY <1>4, ActorAnswers DEF Select

\* The registration, the templates and the time.
LEMMA OutsideMoves ==
    ASSUME Typed, Register \/ Unregister \/ Show \/ \E t \in Templates : Archive(t)
    PROVE  RowsMove /\ calls' = calls
  BY ReadsMoves DEF Register, Unregister, Show, Archive, launchAll, identityVars, launchVars,
                    learnerVars, accountVars, historyVars, Reads

-----------------------------------------------------------------------------
(* The steps of a learner's requests, and of a launch that finds its learner.*)

\* What a request that looks for its learner's profile looks for.
LEMMA KeyOfFinding ==
    ASSUME NEW c \in Requests, Fits(c), c.stage \in Finding
    PROVE  /\ c.key \in Values \ Dids /\ c.profile \in Profiles \cup {None}
           /\ c.op = "launch" => c.key = c.subject /\ c \in LaunchCalls
           /\ c.op = "did" => c.key \in Emails /\ c \in DidCalls
           /\ c.op = "prove" => c.key \in Emails /\ c \in ProveCalls
           /\ c.op \in {"launch", "did", "prove"}
<1>1. c.op \in {"launch", "did", "prove"}
  BY StageAt
<1>2. CASE c.op = "launch"
  <2>1. c \in LaunchCalls /\ c.subject \in Subjects /\ c.profile \in Profiles \cup {None}
    BY <1>2, KindAt, LaunchKeeps
  <2>2. c.key = c.subject
    BY <1>2 DEF Fits, SubjectFits
  <2> QED
    BY <1>2, <2>1, <2>2, ValuesTyped
<1>3. CASE c.op = "did"
  <2>1. c \in DidCalls /\ c.key \in Emails /\ c.profile \in Profiles \cup {None}
    BY <1>3, KindAt DEF DidCalls
  <2> QED
    BY <1>3, <2>1, ValuesTyped
<1>4. CASE c.op = "prove"
  <2>1. c \in ProveCalls /\ c.key \in Emails /\ c.profile \in Profiles \cup {None}
    BY <1>4, KindAt DEF ProveCalls
  <2> QED
    BY <1>4, <2>1, ValuesTyped
<1> QED
  BY <1>1, <1>2, <1>3, <1>4

\* A request that finds its profile takes it, and goes on as its kind does.
LEMMA WithProfileMoves ==
    ASSUME NEW r \in Calls, NEW c \in Requests, c.stage \in Finding, Fits(c), Fits(c)',
           NEW p \in Profiles, p \in profiles', Hold(r, WithProfile(c, p)),
           c.op = "launch" => identities'[c.key].profile = p
    PROVE  ActorMoves(r)
<1>1. PICK d : d = WithProfile(c, p)
  OBVIOUS
<1>2. CASE c.op = "launch"
  <2>1. c \in LaunchCalls /\ c.key = c.subject
    BY <1>2, KeyOfFinding
  <2>2. /\ d \in LaunchCalls /\ d.op = "launch" /\ d.stage = "claim" /\ d.nonce = c.nonce
        /\ d.claimed = c.claimed /\ d.claims = c.claims /\ d.profile = p /\ d.subject = c.subject
    BY <1>1, <1>2, <2>1 DEF LaunchCalls, WithProfile, AfterProfile, Known
  <2>3. c.stage \notin Known /\ c.stage \notin Unverified
    BY DEF Finding, Known, Joining, Joined, Unverified
  <2>4. NonceFits(d)' /\ ProofFits(d)' /\ UserFits(d)' /\ AuthFits(d)' /\ PlaceFits(d)'
    BY <1>2, <2>2, <2>3 DEF Fits, NonceFits, ProofFits, UserFits, AuthFits, PlaceFits, Joined
  <2>5. ProfileFits(d)' /\ SubjectFits(d)'
    BY <1>2, <2>1, <2>2 DEF ProfileFits, SubjectFits, Finding, Owner
  <2>6. ClaimsFit(d)'
    BY <1>2, <2>2, <2>3 DEF Fits, ClaimsFit, Joining, Joined
  <2>7. d \in Requests /\ Fits(d)'
    BY <2>2, <2>4, <2>5, <2>6, LaunchKeeps DEF Fits
  <2> QED
    BY <1>1, <2>7, ActorHolds
<1>3. CASE c.op = "did"
  <2>1. d \in DidCalls /\ d.op = "did" /\ d.profile = p
    BY <1>1, <1>3, KeyOfFinding DEF DidCalls, Finding, WithProfile, AfterProfile
  <2>2. d \in Requests /\ Fits(d)'
    BY <2>1, SettingsFit DEF Requests, ProfileFits
  <2> QED
    BY <1>1, <2>2, ActorHolds
<1>4. CASE c.op = "prove"
  <2>1. d \in ProveCalls /\ d.op = "prove" /\ d.profile = p
    BY <1>1, <1>4, KeyOfFinding DEF ProveCalls, WithProfile, AfterProfile
  <2>2. d \in Requests /\ Fits(d)'
    BY <2>1, SettingsFit DEF Requests, ProfileFits
  <2> QED
    BY <1>1, <2>2, ActorHolds
<1> QED
  BY <1>2, <1>3, <1>4, KeyOfFinding

GoesToMake(c, d) ==
    \/ d = [c EXCEPT !.stage = "create"]
    \/ \E p \in Profiles : p \in profiles' /\ d = [c EXCEPT !.profile = p, !.stage = "primary"]

\* Or makes one, of which it is to add the first identity.
LEMMA FindingGoesOn ==
    ASSUME NEW r \in Calls, NEW c \in Requests, c.stage \in Finding, Fits(c), Fits(c)',
           NEW d, GoesToMake(c, d), Hold(r, d)
    PROVE  ActorMoves(r)
<1>1. CASE c.op = "launch"
  <2>1. c \in LaunchCalls /\ c.key = c.subject
    BY <1>1, KeyOfFinding
  <2>2. /\ d \in LaunchCalls /\ d.op = "launch" /\ d.stage \in {"create", "primary"}
        /\ d.nonce = c.nonce /\ d.claimed = c.claimed /\ d.claims = c.claims
        /\ d.subject = c.subject /\ d.key = c.key
        /\ (d.profile = c.profile /\ d.stage = "create") \/ d.profile \in profiles'
    <3>1. CASE d = [c EXCEPT !.stage = "create"]
      BY <2>1, <3>1 DEF LaunchCalls, Finding
    <3>2. ASSUME NEW p \in Profiles, p \in profiles', d = [c EXCEPT !.profile = p, !.stage = "primary"]
          PROVE  /\ d \in LaunchCalls /\ d.op = "launch" /\ d.stage = "primary"
                 /\ d.nonce = c.nonce /\ d.claimed = c.claimed /\ d.claims = c.claims
                 /\ d.subject = c.subject /\ d.key = c.key /\ d.profile \in profiles'
      BY <2>1, <3>2 DEF LaunchCalls, Finding
    <3> QED
      BY <3>1, <3>2 DEF GoesToMake
  <2>3. c.stage \notin Known /\ c.stage \notin Unverified
    BY DEF Finding, Known, Joining, Joined, Unverified
  <2>4. NonceFits(d)' /\ ProofFits(d)' /\ UserFits(d)' /\ AuthFits(d)' /\ PlaceFits(d)'
    BY <1>1, <2>2, <2>3 DEF Fits, NonceFits, ProofFits, UserFits, AuthFits, PlaceFits, Joined
  <2>5. ProfileFits(d)' /\ SubjectFits(d)'
    BY <1>1, <2>1, <2>2 DEF Fits, ProfileFits, SubjectFits, Finding, Known, Joining, Joined
  <2>6. ClaimsFit(d)'
    <3>1. d.stage \notin Joining /\ d.stage # "alias"
      BY <2>2 DEF Joining, Joined
    <3>2. ClaimsFit(c)'
      BY DEF Fits
    <3>3. \A v \in c.claimed : \E i \in DOMAIN c.claims : c.claims[i] = v
      BY <1>1, <2>3, <3>2 DEF ClaimsFit
    <3> QED
      BY <2>2, <3>1, <3>3 DEF ClaimsFit
  <2>7. d \in Requests /\ Fits(d)'
    BY <2>2, <2>4, <2>5, <2>6, LaunchKeeps DEF Fits
  <2> QED
    BY <2>7, ActorHolds
<1>2. CASE c.op = "did"
  <2>1. /\ d \in DidCalls /\ d.op = "did" /\ d.stage \in {"create", "primary"}
        /\ (d.profile = c.profile /\ d.stage = "create") \/ d.profile \in profiles'
    BY <1>2, KeyOfFinding DEF DidCalls, Finding, GoesToMake
  <2>2. ProfileFits(d)'
    BY <1>2, <2>1 DEF Fits, ProfileFits, Known, Joining, Joined
  <2>3. d \in Requests /\ Fits(d)'
    BY <2>1, <2>2, SettingsFit DEF Requests
  <2> QED
    BY <2>3, ActorHolds
<1>3. CASE c.op = "prove"
  <2>1. /\ d \in ProveCalls /\ d.op = "prove" /\ d.stage \in {"create", "primary"}
        /\ (d.profile = c.profile /\ d.stage = "create") \/ d.profile \in profiles'
    BY <1>3, KeyOfFinding DEF ProveCalls, Finding, GoesToMake
  <2>2. ProfileFits(d)'
    BY <1>3, <2>1 DEF Fits, ProfileFits, Known, Joining, Joined
  <2>3. d \in Requests /\ Fits(d)'
    BY <2>1, <2>2, SettingsFit DEF Requests
  <2> QED
    BY <2>3, ActorHolds
<1> QED
  BY <1>1, <1>2, <1>3, KeyOfFinding

LEMMA FindProfileMoves ==
    ASSUME Typed, CallsFit, RowsFit, NEW r \in Calls, FindProfile(r), KeepsLaunch
    PROVE  RowsMove /\ ActorMoves(r)
<1>1. RowsMove /\ Reads
  BY ReadsMoves, KeepsRead DEF FindProfile
<1>2. PICK c \in Requests : c = calls[r] /\ Fits(c) /\ Fits(c)'
  BY <1>1, ItsRequest
<1>3. c.stage \in Finding /\ c.key \in Values
  BY <1>2, KeyOfFinding DEF FindProfile, At, Finding
<1>4. CASE Owner(c.key) = None
  <2>1. PICK d : d = [c EXCEPT !.stage = "create"]
    OBVIOUS
  <2>2. Hold(r, d)
    BY <1>2, <1>4, <2>1 DEF FindProfile, MoveTo
  <2> QED
    BY <1>1, <1>2, <1>3, <2>1, <2>2, FindingGoesOn DEF GoesToMake
<1>5. CASE Owner(c.key) # None
  <2>1. PICK p : p = Owner(c.key)
    OBVIOUS
  <2>2. p \in profiles /\ profiles \subseteq Profiles
    BY <1>3, <1>5, <2>1 DEF Owner, Typed
  <2>3. p \in profiles' /\ identities'[c.key].profile = p
    BY <1>1, <2>1, <2>2 DEF Reads, Owner
  <2>4. Hold(r, WithProfile(c, p))
    BY <1>2, <1>5, <2>1 DEF FindProfile
  <2> QED
    BY <1>1, <1>2, <1>3, <2>2, <2>3, <2>4, WithProfileMoves
<1> QED
  BY <1>4, <1>5

LEMMA CreateProfileMoves ==
    ASSUME Typed, CallsFit, RowsFit, NEW r \in Calls, CreateProfile(r), KeepsLaunch
    PROVE  RowsMove /\ ActorMoves(r)
<1>1. PICK p \in Profiles : /\ profiles' = profiles \cup {p}
                            /\ Hold(r, [calls[r] EXCEPT !.profile = p, !.stage = "primary"])
  BY DEF CreateProfile
<1>2. RowsMove
  BY <1>1 DEF CreateProfile, KeepsLaunch, launchVars, accountVars, historyVars, Typed, RowsMove,
     IdentitiesMove, ProofsMove, AuthUsersMove, LinksMove, NoncesMove, OpenedMove, PlacementMove
<1>3. PICK c \in Requests : c = calls[r] /\ Fits(c) /\ Fits(c)'
  BY <1>2, ItsRequest
<1>4. c.stage \in Finding
  BY <1>3 DEF CreateProfile, At, Finding
<1>5. PICK d : d = [c EXCEPT !.profile = p, !.stage = "primary"]
  OBVIOUS
<1>6. GoesToMake(c, d) /\ Hold(r, d)
  BY <1>1, <1>3, <1>5 DEF GoesToMake
<1> QED
  BY <1>2, <1>3, <1>4, <1>6, FindingGoesOn

\* A step that inserts an identity, if it may, and writes nothing else.
LEMMA InsertMoves ==
    ASSUME Typed, KeepsLaunch, NEW v \in Values, NEW p \in profiles, NEW primary \in BOOLEAN,
           v \in Dids => ~primary,
           UNCHANGED <<profiles, proofs, accountVars, begun, lost, historyVars>>,
           \/ UNCHANGED identities
           \/ Insertable(v, p, primary) /\ identities' = [identities EXCEPT ![v] = Alias(p, primary)]
    PROVE  RowsMove
<1>1. IdentitiesMove
  BY DEF IdentitiesMove, Inserts
<1> QED
  BY <1>1 DEF KeepsLaunch, launchVars, accountVars, historyVars, Typed, RowsMove,
              ProofsMove, AuthUsersMove, LinksMove, NoncesMove, OpenedMove, PlacementMove

LEMMA AddPrimaryMoves ==
    ASSUME Typed, CallsFit, RowsFit, NEW r \in Calls, AddPrimary(r), KeepsLaunch
    PROVE  RowsMove /\ ActorMoves(r)
<1>1. PICK c : c = calls[r]
  OBVIOUS
<1>2. c \in Requests /\ Fits(c) /\ c.stage = "primary" /\ c.stage \in Finding
  BY <1>1 DEF AddPrimary, At, Typed, CallsFit, Finding
<1>3. c.key \in Values \ Dids /\ c.profile \in profiles /\ profiles \subseteq Profiles
  BY <1>2, KeyOfFinding DEF Fits, ProfileFits, Typed
<1>4. RowsMove
  BY <1>1, <1>3, InsertMoves DEF AddPrimary, InsertAlias
<1>5. Fits(c)'
  BY <1>2, <1>4, FitsWhenMoved
<1>6. CASE Insertable(c.key, c.profile, TRUE)
  <2>1. /\ identities' = [identities EXCEPT ![c.key] = Alias(c.profile, TRUE)]
        /\ Hold(r, WithProfile(c, c.profile))
    BY <1>1, <1>6 DEF AddPrimary, InsertAlias
  <2>2. identities'[c.key].profile = c.profile /\ c.profile \in profiles'
    BY <1>3, <1>4, <2>1 DEF Typed, Alias, RowsMove
  <2> QED
    BY <1>2, <1>3, <1>4, <1>5, <2>1, <2>2, WithProfileMoves
<1>7. CASE ~Insertable(c.key, c.profile, TRUE)
  BY <1>1, <1>4, <1>7, ActorAnswers DEF AddPrimary, InsertAlias
<1> QED
  BY <1>6, <1>7

LEMMA SettingsMove ==
    ASSUME NEW r \in Calls, NEW c \in Requests, c = calls[r], Fits(c)',
           NEW s \in {"did", "removeDid", "target", "prove"},
           \/ c.op = "did" /\ c.stage # "addDid" /\ s \in {"did", "removeDid"}
           \/ c.op = "prove" /\ s \in {"target", "prove"},
           c.profile \in profiles', MoveTo(r, s)
    PROVE  ActorMoves(r)
<1>1. PICK d : d = [c EXCEPT !.stage = s]
  OBVIOUS
<1>2. d \in DidCalls \cup ProveCalls /\ d.op \in {"did", "prove"} /\ d.profile = c.profile
  BY <1>1, KindAt DEF DidCalls, ProveCalls
<1>3. ProfileFits(d)'
  BY <1>2 DEF ProfileFits
<1>4. d \in Requests /\ Fits(d)'
  BY <1>2, <1>3, SettingsFit DEF Requests
<1>5. Hold(r, d)
  BY <1>1 DEF MoveTo
<1> QED
  BY <1>4, <1>5, ActorHolds

LEMMA ItsSettings ==
    ASSUME NEW c \in Requests, Fits(c)
    PROVE  /\ c.stage \in {"did", "removeDid", "addDid"} =>
                  c.op = "did" /\ c \in DidCalls /\ c.profile \in profiles
           /\ c.stage \in {"target", "prove"} =>
                  c.op = "prove" /\ c \in ProveCalls /\ c.profile \in profiles
  BY StageAt, KindAt DEF Fits, ProfileFits

LEMMA CheckDidMoves ==
    ASSUME Typed, CallsFit, RowsFit, NEW r \in Calls, CheckDid(r), KeepsLaunch
    PROVE  RowsMove /\ ActorMoves(r)
<1>1. RowsMove /\ Reads
  BY ReadsMoves, KeepsRead DEF CheckDid
<1>2. PICK c \in Requests : c = calls[r] /\ Fits(c) /\ Fits(c)'
  BY <1>1, ItsRequest
<1>3. c.stage = "did" /\ c.op = "did" /\ c.profile \in profiles'
  BY <1>1, <1>2, ItsSettings DEF CheckDid, At, Reads
<1>4. MoveTo(r, "removeDid") => ActorMoves(r)
  BY <1>2, <1>3, SettingsMove
<1> QED
  BY <1>1, <1>4, ActorAnswers DEF CheckDid

LEMMA RemoveDidsMoves ==
    ASSUME Typed, CallsFit, RowsFit, NEW r \in Calls, RemoveDids(r), KeepsLaunch
    PROVE  RowsMove /\ ActorMoves(r)
<1>1. IdentitiesMove
  BY DEF RemoveDids, IdentitiesMove, Removes
<1>2. RowsMove
  BY <1>1 DEF RemoveDids, KeepsLaunch, launchVars, accountVars, historyVars, Typed, RowsMove,
              ProofsMove, AuthUsersMove, LinksMove, NoncesMove, OpenedMove, PlacementMove
<1>3. PICK c \in Requests : c = calls[r] /\ Fits(c) /\ Fits(c)'
  BY <1>2, ItsRequest
<1>4. c.stage = "removeDid" /\ c \in DidCalls /\ c.profile \in profiles'
  BY <1>2, <1>3, ItsSettings DEF RemoveDids, At, RowsMove
<1>5. CASE c.did = None
  BY <1>2, <1>3, <1>5, ActorAnswers DEF RemoveDids
<1>6. CASE c.did # None
  <2>1. PICK d : d = [c EXCEPT !.stage = "addDid"]
    OBVIOUS
  <2>2. d \in DidCalls /\ d.op = "did" /\ d.profile = c.profile
    BY <1>4, <1>6, <2>1 DEF DidCalls
  <2>3. ProfileFits(d)'
    BY <1>4, <2>2 DEF ProfileFits
  <2>4. d \in Requests /\ Fits(d)'
    BY <2>2, <2>3, SettingsFit DEF Requests
  <2>5. Hold(r, d)
    BY <1>3, <1>6, <2>1 DEF RemoveDids, MoveTo
  <2> QED
    BY <1>2, <2>4, <2>5, ActorHolds
<1> QED
  BY <1>5, <1>6

LEMMA AddDidMoves ==
    ASSUME Typed, CallsFit, RowsFit, NEW r \in Calls, AddDid(r), KeepsLaunch
    PROVE  RowsMove /\ ActorMoves(r)
<1>1. PICK c : c = calls[r]
  OBVIOUS
<1>2. c \in DidCalls /\ c.profile \in profiles /\ c.stage = "addDid"
  BY <1>1, ItsSettings DEF AddDid, At, Typed, CallsFit
<1>3. c.did \in Dids
  BY <1>2 DEF DidCalls, Finding
<1>4. RowsMove
  BY <1>1, <1>2, <1>3, InsertMoves, ValuesTyped DEF AddDid, InsertAlias
<1> QED
  BY <1>4, ActorAnswers DEF AddDid, InsertAlias

LEMMA CheckTargetMoves ==
    ASSUME Typed, CallsFit, RowsFit, NEW r \in Calls, CheckTarget(r), KeepsLaunch
    PROVE  RowsMove /\ ActorMoves(r)
<1>1. RowsMove /\ Reads
  BY ReadsMoves, KeepsRead DEF CheckTarget
<1>2. PICK c \in Requests : c = calls[r] /\ Fits(c) /\ Fits(c)'
  BY <1>1, ItsRequest
<1>3. c.stage = "target" /\ c.op = "prove" /\ c.profile \in profiles'
  BY <1>1, <1>2, ItsSettings DEF CheckTarget, At, Reads
<1>4. MoveTo(r, "prove") => ActorMoves(r)
  BY <1>2, <1>3, SettingsMove
<1> QED
  BY <1>1, <1>4, ActorAnswers DEF CheckTarget

LEMMA CreateProofMoves ==
    ASSUME Typed, CallsFit, RowsFit, NEW r \in Calls, CreateProof(r), KeepsLaunch
    PROVE  RowsMove /\ ActorMoves(r)
<1>1. PICK c : c = calls[r]
  OBVIOUS
<1>2. c \in ProveCalls /\ c.profile \in profiles
  BY <1>1, ItsSettings DEF CreateProof, At, Typed, CallsFit
<1>3. c.target \in Emails /\ c.key \in Emails
  BY <1>2 DEF ProveCalls
<1>4. ProofsMove
  <2>1. PICK f \in Proofs :
            /\ proofs[f].status = "absent"
            /\ proofs' = [proofs EXCEPT ![f] =
                   [profile |-> c.profile, email |-> c.target, by |-> c.key, status |-> "valid"]]
    BY <1>1 DEF CreateProof
  <2>2. Proves(f, c.profile, c.target, c.key)
    BY <1>2, <1>3, <2>1 DEF Proves
  <2> QED
    BY <2>2 DEF ProofsMove
<1>5. RowsMove
  BY <1>4 DEF CreateProof, KeepsLaunch, launchVars, accountVars, historyVars, Typed, RowsMove,
              IdentitiesMove, AuthUsersMove, LinksMove, NoncesMove, OpenedMove, PlacementMove
<1> QED
  BY <1>5, ActorAnswers DEF CreateProof

LEMMA ExpireProofMoves ==
    ASSUME Typed, NEW f \in Proofs, ExpireProof(f), KeepsLaunch
    PROVE  RowsMove /\ calls' = calls
<1>1. ProofsMove
  BY DEF ExpireProof, ProofsMove, Marks
<1> QED
  BY <1>1 DEF ExpireProof, KeepsLaunch, launchVars, accountVars, historyVars, Typed, RowsMove,
              IdentitiesMove, AuthUsersMove, LinksMove, NoncesMove, OpenedMove, PlacementMove

\* The verification of a proof.
LEMMA ItsVerification ==
    ASSUME Typed, RowsFit, NEW c \in Requests, Fits(c),
           c.stage \in {"proof", "proofOwner", "clear", "addEmail", "mark"}
    PROVE  /\ c.op = "verify" /\ c \in VerifyCalls /\ c.proof \in Proofs
           /\ proofs[c.proof].status # "absent"
           /\ proofs[c.proof].profile \in profiles /\ proofs[c.proof].email \in Emails
           /\ c.stage = "mark" => Owner(proofs[c.proof].email) = proofs[c.proof].profile
<1>1. c.op = "verify" /\ c \in VerifyCalls /\ c.proof \in Proofs
  BY StageAt, KindAt DEF VerifyCalls
<1>2. /\ proofs[c.proof].status # "absent"
      /\ c.stage = "mark" => Owner(proofs[c.proof].email) = proofs[c.proof].profile
  BY <1>1 DEF Fits, ProofFits
<1> QED
  BY <1>1, <1>2 DEF RowsFit, ProofsFit

LEMMA VerificationMoves ==
    ASSUME NEW r \in Calls, NEW c \in VerifyCalls, c = calls[r], Fits(c)',
           NEW s \in {"proofOwner", "clear", "addEmail", "mark"}, MoveTo(r, s),
           s = "mark" => identities'[proofs'[c.proof].email].profile = proofs'[c.proof].profile
    PROVE  ActorMoves(r)
<1>1. PICK d : d = [c EXCEPT !.stage = s]
  OBVIOUS
<1>2. d \in VerifyCalls /\ d.op = "verify" /\ d.proof = c.proof /\ d.stage = s /\ c.op = "verify"
  BY <1>1 DEF VerifyCalls
<1>3. ProofFits(d)'
  BY <1>2 DEF Fits, ProofFits, Owner
<1>4. d \in Requests /\ Fits(d)'
  BY <1>2, <1>3, VerificationFits DEF Requests
<1>5. Hold(r, d)
  BY <1>1 DEF MoveTo
<1> QED
  BY <1>4, <1>5, ActorHolds

LEMMA CheckProofMoves ==
    ASSUME Typed, CallsFit, RowsFit, NEW r \in Calls, CheckProof(r), KeepsLaunch
    PROVE  RowsMove /\ ActorMoves(r)
<1>1. RowsMove
  BY ReadsMoves, KeepsRead DEF CheckProof
<1>2. PICK c \in Requests : c = calls[r] /\ Fits(c) /\ Fits(c)'
  BY <1>1, ItsRequest
<1>3. c \in VerifyCalls
  BY <1>2, ItsVerification DEF CheckProof, At
<1>4. MoveTo(r, "proofOwner") => ActorMoves(r)
  BY <1>2, <1>3, VerificationMoves
<1> QED
  BY <1>1, <1>4, ActorAnswers DEF CheckProof

LEMMA CheckProofOwnerMoves ==
    ASSUME Typed, CallsFit, RowsFit, NEW r \in Calls, CheckProofOwner(r), KeepsLaunch
    PROVE  RowsMove /\ ActorMoves(r)
<1>1. RowsMove /\ Reads
  BY ReadsMoves, KeepsRead DEF CheckProofOwner
<1>2. PICK c \in Requests : c = calls[r] /\ Fits(c) /\ Fits(c)'
  BY <1>1, ItsRequest
<1>3. c \in VerifyCalls
  BY <1>2, ItsVerification DEF CheckProofOwner, At
<1>4. PICK f : f = proofs[c.proof]
  OBVIOUS
<1>5. CASE Foreign(f.email, f.profile)
  BY <1>1, <1>2, <1>4, <1>5, ActorAnswers DEF CheckProofOwner
<1>6. CASE ~Foreign(f.email, f.profile)
  <2>1. MoveTo(r, AfterProofOwner(f.email, f.profile))
    BY <1>2, <1>4, <1>6 DEF CheckProofOwner
  <2>2. CASE Owner(f.email) = f.profile
    <3>1. MoveTo(r, "mark") /\ identities'[proofs'[c.proof].email].profile = proofs'[c.proof].profile
      BY <1>1, <1>4, <2>1, <2>2 DEF AfterProofOwner, Owner, Reads
    <3> QED
      BY <1>1, <1>2, <1>3, <3>1, VerificationMoves
  <2>3. CASE Owner(f.email) # f.profile
    <3>1. MoveTo(r, "clear")
      BY <2>1, <2>3 DEF AfterProofOwner
    <3> QED
      BY <1>1, <1>2, <1>3, <3>1, VerificationMoves
  <2> QED
    BY <2>2, <2>3
<1> QED
  BY <1>5, <1>6

LEMMA ClearPrimaryMoves ==
    ASSUME Typed, CallsFit, RowsFit, NEW r \in Calls, ClearPrimary(r), KeepsLaunch
    PROVE  RowsMove /\ ActorMoves(r)
<1>1. IdentitiesMove
  BY DEF ClearPrimary, IdentitiesMove, Clears
<1>2. RowsMove
  BY <1>1 DEF ClearPrimary, KeepsLaunch, launchVars, accountVars, historyVars, Typed, RowsMove,
              ProofsMove, AuthUsersMove, LinksMove, NoncesMove, OpenedMove, PlacementMove
<1>3. PICK c \in Requests : c = calls[r] /\ Fits(c) /\ Fits(c)'
  BY <1>2, ItsRequest
<1>4. c \in VerifyCalls
  BY <1>3, ItsVerification DEF ClearPrimary, At
<1> QED
  BY <1>2, <1>3, <1>4, VerificationMoves DEF ClearPrimary

LEMMA AddProvenMoves ==
    ASSUME Typed, CallsFit, RowsFit, NEW r \in Calls, AddProven(r), KeepsLaunch
    PROVE  RowsMove /\ ActorMoves(r)
<1>1. PICK c : c = calls[r]
  OBVIOUS
<1>2. c \in Requests /\ Fits(c) /\ c.stage = "addEmail"
  BY <1>1 DEF AddProven, At, Typed, CallsFit
<1>3. PICK f : f = proofs[c.proof]
  OBVIOUS
<1>4. c \in VerifyCalls /\ f.profile \in profiles /\ f.email \in Emails
  BY <1>2, <1>3, ItsVerification
<1>5. f.email \in Values \ Dids
  BY <1>4, ValuesTyped
<1>6. InsertAlias(r, f.email, f.profile, TRUE, MoveTo(r, "mark"))
  BY <1>1, <1>3 DEF AddProven, ProvenIsPrimary
<1>7. RowsMove
  BY <1>4, <1>5, <1>6, InsertMoves DEF InsertAlias
<1>8. Fits(c)'
  BY <1>2, <1>7, FitsWhenMoved
<1>9. CASE Insertable(f.email, f.profile, TRUE)
  <2>1. identities' = [identities EXCEPT ![f.email] = Alias(f.profile, TRUE)] /\ MoveTo(r, "mark")
        /\ proofs' = proofs
    BY <1>6, <1>9 DEF InsertAlias
  <2>2. identities'[proofs'[c.proof].email].profile = proofs'[c.proof].profile
    BY <1>3, <1>5, <2>1 DEF Typed, Alias
  <2> QED
    BY <1>1, <1>4, <1>7, <1>8, <2>1, <2>2, VerificationMoves
<1>10. CASE ~Insertable(f.email, f.profile, TRUE)
  BY <1>6, <1>7, <1>10, ActorAnswers DEF InsertAlias
<1> QED
  BY <1>9, <1>10

LEMMA MarkUsedMoves ==
    ASSUME Typed, CallsFit, RowsFit, NEW r \in Calls, MarkUsed(r), KeepsLaunch
    PROVE  RowsMove /\ ActorMoves(r)
<1>1. PICK c : c = calls[r]
  OBVIOUS
<1>2. c \in Requests /\ Fits(c) /\ c.stage = "mark"
  BY <1>1 DEF MarkUsed, At, Typed, CallsFit
<1>3. /\ c.proof \in Proofs /\ proofs[c.proof].status # "absent"
      /\ Owner(proofs[c.proof].email) = proofs[c.proof].profile
  BY <1>2, ItsVerification
<1>4. ProofsMove
  BY <1>1, <1>3 DEF MarkUsed, ProofsMove, Marks
<1>5. RowsMove
  BY <1>4 DEF MarkUsed, KeepsLaunch, launchVars, accountVars, historyVars, Typed, RowsMove,
              IdentitiesMove, AuthUsersMove, LinksMove, NoncesMove, OpenedMove, PlacementMove
<1> QED
  BY <1>5, ActorAnswers DEF MarkUsed

\* The requests that a learner sends.
LEMMA AskDidMoves ==
    ASSUME Typed, NEW r \in Calls, NEW e \in Emails, NEW v \in Dids \cup {None}, AskDid(r, e, v),
           KeepsLaunch
    PROVE  RowsMove /\ ActorMoves(r)
<1>1. PICK d : d = [op |-> "did", stage |-> "find", key |-> e, did |-> v, profile |-> None]
  OBVIOUS
<1>2. d \in DidCalls /\ d.op = "did" /\ d.stage = "find" /\ d.profile = None
  BY <1>1 DEF DidCalls, Finding
<1>3. ProfileFits(d)'
  BY <1>2 DEF ProfileFits, Known, Joining, Joined
<1>4. d \in Requests /\ Fits(d)'
  BY <1>2, <1>3, SettingsFit DEF Requests
<1> QED
  BY <1>1, <1>4, ActorHolds, ReceiveMoves DEF AskDid, Receive

LEMMA AskProofMoves ==
    ASSUME Typed, NEW r \in Calls, NEW e \in Emails, NEW t \in Emails, AskProof(r, e, t), KeepsLaunch
    PROVE  RowsMove /\ ActorMoves(r)
<1>1. PICK d : d = [op |-> "prove", stage |-> "find", key |-> e, target |-> t, profile |-> None]
  OBVIOUS
<1>2. d \in ProveCalls /\ d.op = "prove" /\ d.stage = "find" /\ d.profile = None
  BY <1>1 DEF ProveCalls, Finding
<1>3. ProfileFits(d)'
  BY <1>2 DEF ProfileFits, Known, Joining, Joined
<1>4. d \in Requests /\ Fits(d)'
  BY <1>2, <1>3, SettingsFit DEF Requests
<1> QED
  BY <1>1, <1>4, ActorHolds, ReceiveMoves DEF AskProof, Receive

LEMMA AskVerificationMoves ==
    ASSUME Typed, NEW r \in Calls, NEW f \in Proofs, AskVerification(r, f), KeepsLaunch
    PROVE  RowsMove /\ ActorMoves(r)
<1>1. PICK d : d = [op |-> "verify", stage |-> "proof", proof |-> f]
  OBVIOUS
<1>2. d \in VerifyCalls /\ d.op = "verify" /\ d.stage = "proof" /\ d.proof = f
  BY <1>1 DEF VerifyCalls
<1>3. proofs'[f].status # "absent"
  BY DEF AskVerification, Receive, learnerVars
<1>4. ProofFits(d)'
  BY <1>2, <1>3 DEF ProofFits
<1>5. d \in Requests /\ Fits(d)'
  BY <1>2, <1>4, VerificationFits DEF Requests
<1> QED
  BY <1>1, <1>5, ActorHolds, ReceiveMoves DEF AskVerification, Receive

LEMMA LoseCallMoves ==
    ASSUME Typed, NEW r \in Calls, LoseCall(r), KeepsLaunch
    PROVE  RowsMove /\ ActorMoves(r)
<1>1. RowsMove
  BY DEF LoseCall, KeepsLaunch, launchVars, learnerVars, accountVars, historyVars, Typed, RowsMove,
         IdentitiesMove, ProofsMove, AuthUsersMove, LinksMove, NoncesMove, OpenedMove, PlacementMove
<1> QED
  BY <1>1, ActorAnswers DEF LoseCall

-----------------------------------------------------------------------------
(* The steps that link the account of a launch, and those of a magic link.   *)

\* The first claim comes off the list when it is the learner's.
LEMMA ClaimTaken ==
    ASSUME NEW c \in LaunchCalls, Fits(c)', c.stage \in {"claim", "alias"}, c.claims # <<>>,
           identities'[Head(c.claims)].profile = c.profile,
           NEW d, d = [c EXCEPT !.claims = Tail(c.claims), !.stage = "claim"]
    PROVE  d \in LaunchCalls /\ Fits(d)'
<1>1. c.claims \in Seq(Claimable) /\ c.op = "launch"
  BY LaunchKeeps
<1>2. Tail(c.claims) \in Seq(Claimable)
  BY <1>1
<1>3. /\ d \in LaunchCalls /\ d.op = "launch" /\ d.stage = "claim"
      /\ d.nonce = c.nonce /\ d.claimed = c.claimed /\ d.claims = Tail(c.claims)
      /\ d.profile = c.profile /\ d.subject = c.subject
  BY <1>2 DEF LaunchCalls, Known
<1>4. "claim" \in Known /\ c.stage \in Known /\ c.stage \notin Unverified
  BY DEF Known, Unverified
<1>5. "claim" \notin Joining /\ "claim" \notin Joined /\ "claim" \notin Finding
  BY DEF Joining, Joined, Finding
<1>6. NonceFits(d)' /\ ProofFits(d)' /\ UserFits(d)' /\ AuthFits(d)' /\ PlaceFits(d)'
  BY <1>1, <1>3, <1>4, <1>5 DEF Fits, NonceFits, ProofFits, UserFits, AuthFits, PlaceFits
<1>7. ProfileFits(d)' /\ SubjectFits(d)'
  BY <1>1, <1>3, <1>4, <1>5 DEF Fits, ProfileFits, SubjectFits, Owner
<1>8. ASSUME NEW v \in c.claimed
      PROVE  \/ \E i \in DOMAIN Tail(c.claims) : Tail(c.claims)[i] = v
             \/ identities'[v].profile = c.profile
  <2>1. CASE \E i \in DOMAIN c.claims : c.claims[i] = v
    <3>1. PICK i \in DOMAIN c.claims : c.claims[i] = v
      BY <2>1
    <3>2. CASE i = 1
      BY <1>1, <3>1, <3>2
    <3>3. CASE i # 1
      <4>1. i \in 1 .. Len(c.claims)
        BY <1>1
      <4>2. i - 1 \in 1 .. Len(Tail(c.claims)) /\ Tail(c.claims)[i - 1] = c.claims[i]
        BY <1>1, <3>3, <4>1
      <4> QED
        BY <1>2, <3>1, <4>2
    <3> QED
      BY <3>2, <3>3
  <2>2. CASE ~\E i \in DOMAIN c.claims : c.claims[i] = v
    BY <1>1, <2>2 DEF Fits, ClaimsFit, Owner
  <2> QED
    BY <2>1, <2>2
<1>9. ClaimsFit(d)'
  BY <1>3, <1>4, <1>5, <1>8 DEF ClaimsFit, Owner
<1> QED
  BY <1>3, <1>6, <1>7, <1>9 DEF Fits

LEMMA CheckClaimMoves ==
    ASSUME Typed, CallsFit, RowsFit, NEW r \in Calls, CheckClaim(r), KeepsLaunch
    PROVE  RowsMove /\ ActorMoves(r)
<1>1. RowsMove /\ Reads
  BY ReadsMoves, KeepsRead DEF CheckClaim
<1>2. calls[r].stage = "claim"
  BY DEF CheckClaim, At
<1>3. PICK c \in LaunchCalls : c = calls[r] /\ Fits(c) /\ Fits(c)'
  BY <1>1, <1>2, ItsLaunch DEF Known
<1>4. c.op = "launch" /\ c.claims \in Seq(Claimable) /\ c.stage = "claim"
  BY <1>2, <1>3, LaunchKeeps
<1>5. CASE c.claims = <<>>
  <2>1. MoveTo(r, "user")
    BY <1>3, <1>5 DEF CheckClaim
  <2> QED
    BY <1>1, <1>3, <1>4, <1>5, <2>1, LaunchGoesOn DEF Unverified, Finding, Known, Joining, Joined
<1>6. CASE c.claims # <<>> /\ Foreign(Head(c.claims), c.profile)
  BY <1>1, <1>3, <1>6, ActorAnswers DEF CheckClaim
<1>7. CASE c.claims # <<>> /\ ~Foreign(Head(c.claims), c.profile) /\ Owner(Head(c.claims)) = None
  <2>1. MoveTo(r, "alias")
    BY <1>3, <1>7 DEF CheckClaim
  <2> QED
    BY <1>1, <1>3, <1>4, <1>7, <2>1, LaunchGoesOn DEF Unverified, Finding, Known, Joining, Joined
<1>8. CASE c.claims # <<>> /\ ~Foreign(Head(c.claims), c.profile) /\ Owner(Head(c.claims)) # None
  <2>1. Owner(Head(c.claims)) = c.profile
    BY <1>8 DEF Foreign
  <2>2. identities'[Head(c.claims)].profile = c.profile
    BY <1>1, <2>1 DEF Owner, Reads
  <2>3. PICK d : d = [c EXCEPT !.claims = Tail(c.claims)]
    OBVIOUS
  <2>4. Hold(r, d)
    BY <1>3, <1>8, <2>3 DEF CheckClaim
  <2>5. d \in LaunchCalls /\ Fits(d)'
    BY <1>3, <1>4, <1>8, <2>2, <2>3, ClaimTaken
  <2> QED
    BY <1>1, <2>4, <2>5, ActorHolds, LaunchKeeps
<1> QED
  BY <1>5, <1>6, <1>7, <1>8

LEMMA AddClaimedMoves ==
    ASSUME Typed, CallsFit, RowsFit, NEW r \in Calls, AddClaimed(r), KeepsLaunch
    PROVE  RowsMove /\ ActorMoves(r)
<1>1. PICK c : c = calls[r]
  OBVIOUS
<1>2. c \in LaunchCalls /\ c.op = "launch" /\ c.stage = "alias" /\ Fits(c)
  BY <1>1, StageAt, KindAt DEF AddClaimed, At, Typed, CallsFit, Known
<1>3. c.claims \in Seq(Claimable) /\ c.claims # <<>> /\ c.profile \in profiles
  BY <1>2, LaunchKeeps DEF Fits, ClaimsFit, ProfileFits, Known
<1>4. Head(c.claims) \in Values
  BY <1>3, ValuesTyped
<1>5. PICK v : v = Head(c.claims)
  OBVIOUS
<1>6. InsertAlias(r, v, c.profile, FALSE,
                  Hold(r, [c EXCEPT !.claims = Tail(c.claims), !.stage = "claim"]))
  BY <1>1, <1>5 DEF AddClaimed
<1>7. RowsMove
  BY <1>3, <1>4, <1>5, <1>6, InsertMoves DEF InsertAlias
<1>8. Fits(c)'
  BY <1>2, <1>7, FitsWhenMoved, LaunchKeeps
<1>9. CASE Insertable(v, c.profile, FALSE)
  <2>1. PICK d : d = [c EXCEPT !.claims = Tail(c.claims), !.stage = "claim"]
    OBVIOUS
  <2>2. identities' = [identities EXCEPT ![v] = Alias(c.profile, FALSE)] /\ Hold(r, d)
    BY <1>6, <1>9, <2>1 DEF InsertAlias
  <2>3. identities'[Head(c.claims)].profile = c.profile
    BY <1>4, <1>5, <2>2 DEF Typed, Alias
  <2>4. d \in LaunchCalls /\ Fits(d)'
    BY <1>2, <1>3, <1>8, <2>1, <2>3, ClaimTaken
  <2> QED
    BY <1>7, <2>2, <2>4, ActorHolds, LaunchKeeps
<1>10. CASE ~Insertable(v, c.profile, FALSE)
  BY <1>6, <1>7, <1>10, ActorAnswers DEF InsertAlias
<1> QED
  BY <1>9, <1>10

LEMMA UpsertUserMoves ==
    ASSUME Typed, CallsFit, RowsFit, NEW r \in Calls, UpsertUser(r), KeepsLaunch
    PROVE  RowsMove /\ ActorMoves(r)
<1>1. calls[r].stage = "user" /\ calls[r] \in LaunchCalls /\ calls[r].email \in Emails
  BY StageAt, KindAt, LaunchKeeps DEF UpsertUser, At, Typed, Known, Joining
<1>2. users' = users \cup {calls[r].email}
  BY DEF UpsertUser, UsersWith
<1>3. RowsMove
  BY <1>1, <1>2 DEF UpsertUser, KeepsLaunch, launchVars, learnerVars, historyVars, Typed, RowsMove,
     IdentitiesMove, ProofsMove, AuthUsersMove, LinksMove, NoncesMove, OpenedMove, PlacementMove
<1>4. PICK c \in LaunchCalls : c = calls[r] /\ Fits(c) /\ Fits(c)'
  BY <1>1, <1>3, ItsLaunch DEF Known, Joining
<1>5. c.claims = <<>> /\ c.email \in users' /\ MoveTo(r, "member")
  BY <1>1, <1>2, <1>4, LaunchKeeps DEF Fits, ClaimsFit, Joining, UpsertUser
<1>6. ActorMoves(r)
  BY <1>1, <1>4, <1>5, LaunchGoesOn DEF Unverified, Finding, Known, Joining, Joined
<1> QED
  BY <1>3, <1>6

\* A launch whose user is there goes on among the stages that know it.
LEMMA JoinedGoesOn ==
    ASSUME NEW r \in Calls, NEW c \in LaunchCalls, c = calls[r], Fits(c)', c.stage \in Joined,
           NEW s \in {"enrol", "promote", "link", "match", "newAuth", "newLink", "open"}, MoveTo(r, s),
           s \in {"newLink", "open"} => c.auth \in AuthUsers /\ authUsers'[c.auth] = c.email,
           s = "open" => links'[c.auth] = c.email
    PROVE  ActorMoves(r)
<1>1. c.claims = <<>> /\ c.email \in users'
  BY LaunchKeeps DEF Fits, ClaimsFit, UserFits, Joining
<1> QED
  BY <1>1, LaunchGoesOn DEF Unverified, Finding, Known, Joining, Joined

LEMMA ItsJoined ==
    ASSUME Typed, CallsFit, RowsFit, RowsMove, NEW r \in Calls, calls[r].stage \in Joined
    PROVE  \E c \in LaunchCalls : c = calls[r] /\ Fits(c) /\ Fits(c)' /\ c.stage \in Joined
  BY ItsLaunch DEF Known, Joining

LEMMA FindMembershipMoves ==
    ASSUME Typed, CallsFit, RowsFit, NEW r \in Calls, FindMembership(r), KeepsLaunch
    PROVE  RowsMove /\ ActorMoves(r)
<1>1. RowsMove
  BY ReadsMoves, KeepsRead DEF FindMembership
<1>2. PICK c \in LaunchCalls : c = calls[r] /\ Fits(c)' /\ c.stage \in Joined
  BY <1>1, ItsJoined DEF FindMembership, At, Joined
<1>3. PICK s \in {"enrol", "promote", "link"} : MoveTo(r, s)
  BY DEF FindMembership, AfterMember
<1> QED
  BY <1>1, <1>2, <1>3, JoinedGoesOn

LEMMA UpsertRoleMoves ==
    ASSUME Typed, CallsFit, RowsFit, NEW r \in Calls, UpsertRole(r), KeepsLaunch
    PROVE  RowsMove /\ ActorMoves(r)
<1>1. roles' \in [Emails -> Roles]
  BY DEF UpsertRole, Typed, Roles
<1>2. RowsMove
  BY <1>1 DEF UpsertRole, KeepsLaunch, launchVars, learnerVars, historyVars, Typed, RowsMove,
     IdentitiesMove, ProofsMove, AuthUsersMove, LinksMove, NoncesMove, OpenedMove, PlacementMove
<1>3. PICK c \in LaunchCalls : c = calls[r] /\ Fits(c)' /\ c.stage \in Joined
  BY <1>2, ItsJoined DEF UpsertRole, Joined
<1>4. PICK s \in {"promote", "link"} : MoveTo(r, s)
  BY DEF UpsertRole
<1> QED
  BY <1>2, <1>3, <1>4, JoinedGoesOn

\* One that takes a Better Auth user in hand takes one of its user's address.
LEMMA TakesAuthUser ==
    ASSUME NEW r \in Calls, NEW c \in LaunchCalls, Fits(c)', c.stage \in Joined,
           NEW a \in AuthUsers, authUsers'[a] = c.email,
           NEW s \in {"matched", "newLink", "open"}, s = "open" => links'[a] = c.email,
           Hold(r, [c EXCEPT !.auth = a, !.stage = s])
    PROVE  ActorMoves(r)
<1>1. PICK d : d = [c EXCEPT !.auth = a, !.stage = s]
  OBVIOUS
<1>2. /\ d \in LaunchCalls /\ d.op = "launch" /\ d.stage = s /\ c.op = "launch"
      /\ d.nonce = c.nonce /\ d.claimed = c.claimed /\ d.claims = c.claims
      /\ d.profile = c.profile /\ d.subject = c.subject /\ d.email = c.email /\ d.auth = a
  BY <1>1 DEF LaunchCalls, Known, Joining, Joined
<1>3. c.stage \in Joining /\ c.stage \in Known /\ c.stage \notin Unverified
  BY DEF Known, Joining, Joined, Unverified
<1>4. s \in Known /\ s \in Joined /\ s \notin Unverified /\ s \notin Finding
  BY DEF Known, Joining, Joined, Unverified, Finding
<1>5. NonceFits(d)' /\ ProofFits(d)' /\ UserFits(d)' /\ AuthFits(d)' /\ PlaceFits(d)'
  BY <1>2, <1>3, <1>4 DEF Fits, NonceFits, ProofFits, UserFits, AuthFits, PlaceFits
<1>6. ProfileFits(d)' /\ SubjectFits(d)'
  BY <1>2, <1>3, <1>4 DEF Fits, ProfileFits, SubjectFits, Owner
<1>7. ClaimsFit(d)'
  BY <1>2, <1>3, <1>4 DEF Fits, ClaimsFit, Owner
<1>8. d \in Requests /\ Fits(d)'
  BY <1>2, <1>5, <1>6, <1>7, LaunchKeeps DEF Fits
<1> QED
  BY <1>1, <1>8, ActorHolds

LEMMA FindLinkOfUserMoves ==
    ASSUME Typed, CallsFit, RowsFit, NEW r \in Calls, FindLinkOfUser(r), KeepsLaunch
    PROVE  RowsMove /\ ActorMoves(r)
<1>1. RowsMove /\ Reads
  BY ReadsMoves, KeepsRead DEF FindLinkOfUser
<1>2. PICK c \in LaunchCalls : c = calls[r] /\ Fits(c)' /\ c.stage \in Joined
  BY <1>1, ItsJoined DEF FindLinkOfUser, At, Joined
<1>3. CASE LinkedTo(c.email) = {}
  BY <1>1, <1>2, <1>3, JoinedGoesOn DEF FindLinkOfUser
<1>4. CASE LinkedTo(c.email) # {}
  <2>1. PICK a \in LinkedTo(c.email) : Hold(r, [c EXCEPT !.auth = a, !.stage = "open"])
    BY <1>2, <1>4 DEF FindLinkOfUser
  <2>2. a \in AuthUsers /\ links[a] = c.email /\ c.email # None
    BY <2>1, LaunchKeeps, ValuesTyped DEF LinkedTo
  <2>3. authUsers'[a] = c.email /\ links'[a] = c.email
    BY <1>1, <2>2 DEF Reads, RowsFit, LinksFit
  <2> QED
    BY <1>1, <1>2, <2>1, <2>2, <2>3, TakesAuthUser
<1> QED
  BY <1>3, <1>4

LEMMA MatchAuthUserMoves ==
    ASSUME Typed, CallsFit, RowsFit, NEW r \in Calls, MatchAuthUser(r), KeepsLaunch
    PROVE  RowsMove /\ ActorMoves(r)
<1>1. RowsMove /\ Reads
  BY ReadsMoves, KeepsRead DEF MatchAuthUser
<1>2. PICK c \in LaunchCalls : c = calls[r] /\ Fits(c)' /\ c.stage \in Joined
  BY <1>1, ItsJoined DEF MatchAuthUser, At, Joined
<1>3. CASE Matches(c.email) = {}
  BY <1>1, <1>2, <1>3, JoinedGoesOn DEF MatchAuthUser
<1>4. CASE Matches(c.email) # {}
  <2>1. PICK a \in Matches(c.email) : Hold(r, [c EXCEPT !.auth = a, !.stage = "matched"])
    BY <1>2, <1>4 DEF MatchAuthUser
  <2>2. a \in AuthUsers /\ authUsers'[a] = c.email
    BY <1>1, <2>1 DEF Matches, Addressed, Reads
  <2> QED
    BY <1>1, <1>2, <2>1, <2>2, TakesAuthUser
<1> QED
  BY <1>3, <1>4

LEMMA CheckMatchedMoves ==
    ASSUME Typed, CallsFit, RowsFit, NEW r \in Calls, CheckMatched(r), KeepsLaunch
    PROVE  RowsMove /\ ActorMoves(r)
<1>1. RowsMove
  BY ReadsMoves, KeepsRead DEF CheckMatched
<1>2. PICK c \in LaunchCalls : c = calls[r] /\ Fits(c)' /\ c.stage \in Joined
  BY <1>1, ItsJoined DEF CheckMatched, At, Joined
<1>3. c.auth \in AuthUsers /\ authUsers'[c.auth] = c.email
  BY <1>2, LaunchKeeps DEF Fits, AuthFits, CheckMatched, At
<1>4. PICK s \in {"newLink", "newAuth"} : MoveTo(r, s)
  BY DEF CheckMatched
<1> QED
  BY <1>1, <1>2, <1>3, <1>4, JoinedGoesOn

\* A Better Auth user is given the address that it gets, or has.
LEMMA NamesMoves ==
    ASSUME Typed, NEW a, NEW e, Names(a, e),
           UNCHANGED <<learnerVars, users, roles, links, lost, opened>>, KeepsLaunch,
           overlapped' \in BOOLEAN
    PROVE  RowsMove
  BY DEF KeepsLaunch, launchVars, learnerVars, Typed, RowsMove,
     IdentitiesMove, ProofsMove, AuthUsersMove, LinksMove, NoncesMove, OpenedMove, PlacementMove

LEMMA CreateAuthUserMoves ==
    ASSUME Typed, CallsFit, RowsFit, NEW r \in Calls, CreateAuthUser(r), KeepsLaunch
    PROVE  RowsMove /\ ActorMoves(r)
<1>1. PICK a \in Addressed(None) :
          /\ authUsers' = [authUsers EXCEPT ![a] = calls[r].email]
          /\ Hold(r, [calls[r] EXCEPT !.auth = a, !.stage = "newLink"])
  BY DEF CreateAuthUser, NewAuthUser
<1>2. calls[r].stage = "newAuth" /\ calls[r] \in LaunchCalls /\ calls[r].email \in Emails
  BY StageAt, KindAt, LaunchKeeps DEF CreateAuthUser, At, Typed, Known, Joining, Joined
<1>3. Names(a, calls[r].email)
  BY <1>1, <1>2 DEF Names, Addressed
<1>4. RowsMove
  BY <1>3, NamesMoves DEF CreateAuthUser, historyVars, Typed
<1>5. PICK c \in LaunchCalls : c = calls[r] /\ Fits(c)' /\ c.stage \in Joined
  BY <1>2, <1>4, ItsJoined DEF Joined
<1>6. a \in AuthUsers /\ authUsers'[a] = c.email
  BY <1>1, <1>5 DEF Addressed, Typed
<1> QED
  BY <1>1, <1>4, <1>5, <1>6, TakesAuthUser

\* A Better Auth user is linked, if it may be.
LEMMA LinkMoves ==
    ASSUME Typed, NEW a \in AuthUsers, NEW e \in users, authUsers[a] = e, KeepsLaunch,
           UNCHANGED <<learnerVars, users, roles, authUsers, begun, lost, historyVars>>,
           links' = links \/ (LinkFree(a, e) /\ links' = [links EXCEPT ![a] = e])
    PROVE  RowsMove
<1>1. LinksMove
  BY DEF LinksMove, Links
<1> QED
  BY <1>1 DEF KeepsLaunch, launchVars, learnerVars, historyVars, Typed, RowsMove,
     IdentitiesMove, ProofsMove, AuthUsersMove, NoncesMove, OpenedMove, PlacementMove

LEMMA LinkAuthUserMoves ==
    ASSUME Typed, CallsFit, RowsFit, NEW r \in Calls, LinkAuthUser(r), KeepsLaunch
    PROVE  RowsMove /\ ActorMoves(r)
<1>1. calls[r].stage = "newLink" /\ calls[r] \in LaunchCalls /\ Fits(calls[r])
  BY StageAt, KindAt DEF LinkAuthUser, At, Typed, CallsFit, Known, Joining, Joined
<1>2. /\ calls[r].email \in users /\ calls[r].auth \in AuthUsers
      /\ authUsers[calls[r].auth] = calls[r].email
  BY <1>1, LaunchKeeps DEF Fits, UserFits, AuthFits, Joined
<1>3. RowsMove
  BY <1>2, LinkMoves DEF LinkAuthUser, InsertLink
<1>4. PICK c \in LaunchCalls : c = calls[r] /\ Fits(c)' /\ c.stage \in Joined
  BY <1>1, <1>3, ItsJoined DEF Joined
<1>5. CASE LinkFree(c.auth, c.email)
  <2>1. MoveTo(r, "open") /\ links' = [links EXCEPT ![c.auth] = c.email] /\ authUsers' = authUsers
    BY <1>4, <1>5 DEF LinkAuthUser, InsertLink
  <2>2. authUsers'[c.auth] = c.email /\ links'[c.auth] = c.email
    BY <1>2, <1>4, <2>1 DEF Typed
  <2> QED
    BY <1>2, <1>3, <1>4, <2>1, <2>2, JoinedGoesOn
<1>6. CASE ~LinkFree(c.auth, c.email)
  BY <1>3, <1>4, <1>6, ActorAnswers DEF LinkAuthUser, InsertLink
<1> QED
  BY <1>5, <1>6

LEMMA FollowMagicLinkMoves ==
    ASSUME Typed, NEW r \in Calls, NEW e \in Emails, FollowMagicLink(r, e), KeepsLaunch
    PROVE  RowsMove /\ ActorMoves(r)
<1>1. PICK a \in Addressed(e) \cup Addressed(None) :
          /\ authUsers' = [authUsers EXCEPT ![a] = e]
          /\ Hold(r, [op |-> "magic", stage |-> "linked", email |-> e, auth |-> a])
  BY DEF FollowMagicLink, NewAuthUser
<1>2. Names(a, e)
  BY <1>1 DEF Names, Addressed
<1>3. RowsMove
  BY <1>2, NamesMoves DEF FollowMagicLink, Typed
<1>4. PICK d : d = [op |-> "magic", stage |-> "linked", email |-> e, auth |-> a]
  OBVIOUS
<1>5. a \in AuthUsers /\ authUsers'[a] = e
  BY <1>1 DEF Addressed, Typed
<1>6. /\ d \in MagicCalls /\ d.op = "magic" /\ d.stage = "linked" /\ d.email = e /\ d.auth = a
  BY <1>4, <1>5 DEF MagicCalls
<1>7. UserFits(d)' /\ AuthFits(d)'
  BY <1>5, <1>6 DEF UserFits, AuthFits
<1>8. d \in Requests /\ Fits(d)'
  BY <1>6, <1>7, MagicFits DEF Requests
<1> QED
  BY <1>1, <1>3, <1>4, <1>8, ActorHolds

LEMMA ItsMagic ==
    ASSUME Typed, CallsFit, NEW r \in Calls, calls[r].stage \in {"linked", "conflict", "bind"}
    PROVE  \E c \in MagicCalls : /\ c = calls[r] /\ c \in Requests /\ Fits(c) /\ c.op = "magic"
                                 /\ c.email \in Emails /\ c.auth \in AuthUsers
                                 /\ authUsers[c.auth] = c.email
                                 /\ c.stage # "linked" => c.email \in users
<1>1. calls[r] \in MagicCalls /\ calls[r] \in Requests /\ Fits(calls[r]) /\ calls[r].op = "magic"
  BY StageAt, KindAt DEF Typed, CallsFit
<1> QED
  BY <1>1 DEF MagicCalls, Fits, UserFits, AuthFits

LEMMA MagicGoesOn ==
    ASSUME NEW r \in Calls, NEW c \in MagicCalls, c = calls[r], Fits(c)',
           NEW s \in {"conflict", "bind"}, c.email \in users', MoveTo(r, s)
    PROVE  ActorMoves(r)
<1>1. PICK d : d = [c EXCEPT !.stage = s]
  OBVIOUS
<1>2. d \in MagicCalls /\ d.op = "magic" /\ d.email = c.email /\ d.auth = c.auth /\ c.op = "magic"
  BY <1>1 DEF MagicCalls
<1>3. UserFits(d)' /\ AuthFits(d)'
  BY <1>2 DEF Fits, UserFits, AuthFits
<1>4. d \in Requests /\ Fits(d)'
  BY <1>2, <1>3, MagicFits DEF Requests
<1>5. Hold(r, d)
  BY <1>1 DEF MoveTo
<1> QED
  BY <1>4, <1>5, ActorHolds

LEMMA FindLinkOfAuthUserMoves ==
    ASSUME Typed, CallsFit, RowsFit, NEW r \in Calls, FindLinkOfAuthUser(r), KeepsLaunch
    PROVE  RowsMove /\ ActorMoves(r)
<1>1. PICK c \in MagicCalls : c = calls[r] /\ c \in Requests /\ Fits(c) /\ c.email \in Emails
  BY ItsMagic DEF FindLinkOfAuthUser, At
<1>2. users' = users \/ users' = users \cup {c.email}
  BY <1>1 DEF FindLinkOfAuthUser, UsersWith
<1>3. RowsMove
  BY <1>1, <1>2 DEF FindLinkOfAuthUser, KeepsLaunch, launchVars, learnerVars, historyVars, Typed,
     RowsMove, IdentitiesMove, ProofsMove, AuthUsersMove, LinksMove, NoncesMove, OpenedMove,
     PlacementMove
<1>4. Fits(c)'
  BY <1>1, <1>3, FitsWhenMoved
<1>5. CASE links[c.auth] # None
  BY <1>1, <1>3, <1>5, ActorAnswers DEF FindLinkOfAuthUser
<1>6. CASE links[c.auth] = None
  <2>1. c.email \in users' /\ MoveTo(r, "conflict")
    BY <1>1, <1>6 DEF FindLinkOfAuthUser, UsersWith
  <2> QED
    BY <1>1, <1>3, <1>4, <2>1, MagicGoesOn
<1> QED
  BY <1>5, <1>6

LEMMA CheckConflictMoves ==
    ASSUME Typed, CallsFit, RowsFit, NEW r \in Calls, CheckConflict(r), KeepsLaunch
    PROVE  RowsMove /\ ActorMoves(r)
<1>1. PICK c \in MagicCalls : c = calls[r] /\ c \in Requests /\ Fits(c) /\ c.email \in users
  BY ItsMagic DEF CheckConflict, At
<1>2. RowsMove
  BY ReadsMoves DEF CheckConflict, KeepsLaunch, launchVars, learnerVars, accountVars, Reads
<1>3. Fits(c)' /\ c.email \in users'
  BY <1>1, <1>2, FitsWhenMoved DEF RowsMove
<1>4. MoveTo(r, "bind") => ActorMoves(r)
  BY <1>1, <1>3, MagicGoesOn
<1> QED
  BY <1>2, <1>4, ActorAnswers DEF CheckConflict

LEMMA BindAuthUserMoves ==
    ASSUME Typed, CallsFit, RowsFit, NEW r \in Calls, BindAuthUser(r), KeepsLaunch
    PROVE  RowsMove /\ ActorMoves(r)
<1>1. PICK c \in MagicCalls : /\ c = calls[r] /\ c.email \in users /\ c.auth \in AuthUsers
                              /\ authUsers[c.auth] = c.email
  BY ItsMagic DEF BindAuthUser, At
<1>2. RowsMove
  BY <1>1, LinkMoves DEF BindAuthUser
<1> QED
  BY <1>2, ActorAnswers DEF BindAuthUser

-----------------------------------------------------------------------------
(* What becomes of the nonces.                                               *)

\* A request that goes on stays of its kind, and with its nonce.
GoesOn(c, d) ==
    /\ d.op = c.op
    /\ c.op \in {"login", "launch"} => d.nonce = c.nonce

LEMMA KindStays ==
    ASSUME NEW c \in Requests, NEW s, NEW x
    PROVE  /\ GoesOn(c, [c EXCEPT !.stage = s])
           /\ GoesOn(c, [c EXCEPT !.profile = x, !.stage = s])
           /\ GoesOn(c, [c EXCEPT !.auth = x, !.stage = s])
           /\ GoesOn(c, [c EXCEPT !.key = x, !.stage = s])
           /\ GoesOn(c, [c EXCEPT !.claims = x, !.stage = s])
           /\ GoesOn(c, [c EXCEPT !.claims = x])
<1>1. CASE c \in LaunchCalls
  BY <1>1 DEF LaunchCalls, GoesOn
<1>2. CASE c \in LoginCalls
  BY <1>2 DEF LoginCalls, GoesOn
<1>3. CASE c \in {NoCall} \cup KeysCalls \cup SelectCalls
  BY <1>3 DEF NoCall, KeysCalls, SelectCalls, GoesOn
<1>4. CASE c \in MagicCalls \cup DidCalls \cup ProveCalls \cup VerifyCalls
  BY <1>4 DEF MagicCalls, DidCalls, ProveCalls, VerifyCalls, GoesOn
<1> QED
  BY <1>1, <1>2, <1>3, <1>4 DEF Requests

Continues(r) ==
    \E d : /\ calls' = [calls EXCEPT ![r] = d]
           /\ d = NoCall \/ GoesOn(calls[r], d)

LEMMA MovesContinue ==
    ASSUME Typed, NEW r \in Calls, NEW s
    PROVE  /\ Answer(r) => Continues(r)
           /\ MoveTo(r, s) => Continues(r)
           /\ \A x : Hold(r, [calls[r] EXCEPT !.profile = x, !.stage = s]) => Continues(r)
           /\ \A x : Hold(r, [calls[r] EXCEPT !.auth = x, !.stage = s]) => Continues(r)
           /\ \A x : Hold(r, [calls[r] EXCEPT !.key = x, !.stage = s]) => Continues(r)
           /\ \A x : Hold(r, [calls[r] EXCEPT !.claims = x, !.stage = s]) => Continues(r)
           /\ \A x : Hold(r, [calls[r] EXCEPT !.claims = x]) => Continues(r)
<1>1. calls[r] \in Requests
  BY DEF Typed
<1>2. \A d : Hold(r, d) /\ (d = NoCall \/ GoesOn(calls[r], d)) => Continues(r)
  BY DEF Hold, Continues
<1>3. Answer(r) => Continues(r)
  BY <1>2 DEF Answer
<1>4. MoveTo(r, s) => Continues(r)
  BY <1>1, <1>2, KindStays DEF MoveTo
<1>5. \A x : Hold(r, [calls[r] EXCEPT !.profile = x, !.stage = s]) => Continues(r)
  BY <1>1, <1>2, KindStays
<1>6. \A x : Hold(r, [calls[r] EXCEPT !.auth = x, !.stage = s]) => Continues(r)
  BY <1>1, <1>2, KindStays
<1>7. \A x : Hold(r, [calls[r] EXCEPT !.key = x, !.stage = s]) => Continues(r)
  BY <1>1, <1>2, KindStays
<1>8. \A x : Hold(r, [calls[r] EXCEPT !.claims = x, !.stage = s]) => Continues(r)
  BY <1>1, <1>2, KindStays
<1>9. \A x : Hold(r, [calls[r] EXCEPT !.claims = x]) => Continues(r)
  BY <1>1, <1>2, KindStays
<1> QED
  BY <1>3, <1>4, <1>5, <1>6, <1>7, <1>8, <1>9

LEMMA LearnerContinues ==
    ASSUME Typed, NEW r \in Calls, LearnerStep(r)
    PROVE  /\ Continues(r) /\ opened' = opened
           /\ calls[r].stage \notin Unverified \cup {"place"}
<1>1. CASE FindProfile(r)
  BY <1>1, MovesContinue DEF FindProfile, WithProfile, At, Unverified, Unchanged, historyVars
<1>2. CASE CreateProfile(r)
  BY <1>2, MovesContinue DEF CreateProfile, At, Unverified, historyVars
<1>3. CASE AddPrimary(r)
  BY <1>3, MovesContinue DEF AddPrimary, InsertAlias, WithProfile, At, Unverified, historyVars
<1>4. CASE CheckDid(r)
  BY <1>4, MovesContinue DEF CheckDid, At, Unverified, Unchanged, historyVars
<1>5. CASE RemoveDids(r)
  BY <1>5, MovesContinue DEF RemoveDids, At, Unverified, historyVars
<1>6. CASE AddDid(r)
  BY <1>6, MovesContinue DEF AddDid, InsertAlias, At, Unverified, historyVars
<1>7. CASE CheckTarget(r)
  BY <1>7, MovesContinue DEF CheckTarget, At, Unverified, Unchanged, historyVars
<1>8. CASE CreateProof(r)
  BY <1>8, MovesContinue DEF CreateProof, At, Unverified, historyVars
<1>9. CASE CheckProof(r)
  BY <1>9, MovesContinue DEF CheckProof, At, Unverified, Unchanged, historyVars
<1>10. CASE CheckProofOwner(r)
  BY <1>10, MovesContinue DEF CheckProofOwner, At, Unverified, Unchanged, historyVars
<1>11. CASE ClearPrimary(r)
  BY <1>11, MovesContinue DEF ClearPrimary, At, Unverified, historyVars
<1>12. CASE AddProven(r)
  BY <1>12, MovesContinue DEF AddProven, InsertAlias, At, Unverified, historyVars
<1>13. CASE MarkUsed(r)
  BY <1>13, MovesContinue DEF MarkUsed, At, Unverified, historyVars
<1> QED
  BY <1>1, <1>2, <1>3, <1>4, <1>5, <1>6, <1>7, <1>8, <1>9, <1>10, <1>11, <1>12, <1>13
     DEF LearnerStep

LEMMA AccountContinues ==
    ASSUME Typed, NEW r \in Calls, AccountStep(r)
    PROVE  /\ Continues(r) /\ opened' = opened
           /\ calls[r].stage \notin Unverified \cup {"place"}
<1>1. CASE CheckClaim(r)
  BY <1>1, MovesContinue DEF CheckClaim, At, Unverified, Unchanged, historyVars
<1>2. CASE AddClaimed(r)
  BY <1>2, MovesContinue DEF AddClaimed, InsertAlias, At, Unverified, historyVars
<1>3. CASE UpsertUser(r)
  BY <1>3, MovesContinue DEF UpsertUser, At, Unverified, historyVars
<1>4. CASE FindMembership(r)
  BY <1>4, MovesContinue DEF FindMembership, At, Unverified, Unchanged, historyVars
<1>5. CASE UpsertRole(r)
  BY <1>5, MovesContinue DEF UpsertRole, Unverified, historyVars
<1>6. CASE FindLinkOfUser(r)
  BY <1>6, MovesContinue DEF FindLinkOfUser, At, Unverified, Unchanged, historyVars
<1>7. CASE MatchAuthUser(r)
  BY <1>7, MovesContinue DEF MatchAuthUser, At, Unverified, Unchanged, historyVars
<1>8. CASE CheckMatched(r)
  BY <1>8, MovesContinue DEF CheckMatched, At, Unverified, Unchanged, historyVars
<1>9. CASE CreateAuthUser(r)
  BY <1>9, MovesContinue DEF CreateAuthUser, At, Unverified, historyVars
<1>10. CASE LinkAuthUser(r)
  BY <1>10, MovesContinue DEF LinkAuthUser, InsertLink, At, Unverified, historyVars
<1>11. CASE FindLinkOfAuthUser(r)
  BY <1>11, MovesContinue DEF FindLinkOfAuthUser, At, Unverified, historyVars
<1>12. CASE CheckConflict(r)
  BY <1>12, MovesContinue DEF CheckConflict, At, Unverified
<1>13. CASE BindAuthUser(r)
  BY <1>13, MovesContinue DEF BindAuthUser, At, Unverified, historyVars
<1> QED
  BY <1>1, <1>2, <1>3, <1>4, <1>5, <1>6, <1>7, <1>8, <1>9, <1>10, <1>11, <1>12, <1>13
     DEF AccountStep

\* Of the steps that leave the nonces and the opened launches alone, what a request takes
\* over from what it was.
Keeps(c, d) ==
    /\ d.op = "login" => c.op = "login" /\ d.nonce = c.nonce
    /\ Consumed(d) => Consumed(c) /\ d.nonce = c.nonce /\ c.stage # "place"

NoncesKept(r) ==
    /\ UNCHANGED <<nonces, opened>>
    /\ \E d : calls' = [calls EXCEPT ![r] = d] /\ Keeps(calls[r], d)

LEMMA ContinuesKept ==
    ASSUME Typed, NEW r \in Calls, Continues(r), UNCHANGED <<nonces, opened>>,
           \/ calls[r].stage \notin Unverified \cup {"place"}
           \/ calls[r].op # "launch"
           \/ calls'[r].stage \in Unverified
           \/ calls'[r] = NoCall
    PROVE  NoncesKept(r)
<1>1. PICK d : calls' = [calls EXCEPT ![r] = d] /\ (d = NoCall \/ GoesOn(calls[r], d))
  BY DEF Continues
<1>2. calls'[r] = d
  BY <1>1 DEF Typed
<1>3. CASE d = NoCall
  <2>1. Keeps(calls[r], d)
    BY <1>3, NobodyAsks DEF Keeps, Consumed
  <2> QED
    BY <1>1, <2>1 DEF NoncesKept
<1>4. CASE GoesOn(calls[r], d) /\ d # NoCall
  <2>1. Keeps(calls[r], d)
    BY <1>2, <1>4 DEF Keeps, Consumed, GoesOn
  <2> QED
    BY <1>1, <2>1 DEF NoncesKept
<1> QED
  BY <1>1, <1>3, <1>4

\* A request that comes in, other than a login.
LEMMA ComesInKept ==
    ASSUME NEW r \in Calls, NEW d, d.op # "login", d.op = "launch" => d.stage \in Unverified,
           Receive(r, d), KeepsLaunch
    PROVE  NoncesKept(r)
  BY DEF Receive, Hold, KeepsLaunch, launchVars, NoncesKept, Keeps, Consumed

LEMMA NoncesFitKept ==
    ASSUME Typed, NoncesFit, NEW r \in Calls, NoncesKept(r)
    PROVE  NoncesFit'
<1>1. PICK d : calls' = [calls EXCEPT ![r] = d] /\ Keeps(calls[r], d)
  BY DEF NoncesKept
<1>2. nonces' = nonces /\ opened' = opened
  BY DEF NoncesKept
<1>3. ASSUME NEW q \in Calls
      PROVE  /\ calls'[q].op = "login" => calls[q].op = "login" /\ calls'[q].nonce = calls[q].nonce
             /\ Consumed(calls'[q]) =>
                    /\ Consumed(calls[q]) /\ calls'[q].nonce = calls[q].nonce
                    /\ calls[q].stage = "place" => calls'[q] = calls[q]
  BY <1>1 DEF Keeps, Typed
<1>4. LoginsDiffer'
  BY <1>2, <1>3 DEF LoginsDiffer, NoncesFit
<1>5. LaunchesDiffer'
  <2> SUFFICES ASSUME NEW q \in Calls, Consumed(calls'[q])
               PROVE  /\ \A p \in Calls : Consumed(calls'[p]) /\ calls'[p].nonce = calls'[q].nonce => p = q
                      /\ \A o \in opened : o.nonce = calls'[q].nonce =>
                             calls'[q].stage = "place" /\ o = Opened(calls'[q])
    BY <1>2 DEF LaunchesDiffer, Consumed, Opened
  <2>1. Consumed(calls[q]) /\ calls'[q].nonce = calls[q].nonce
        /\ (calls[q].stage = "place" => calls'[q] = calls[q])
    BY <1>3
  <2>2. \A p \in Calls : Consumed(calls'[p]) /\ calls'[p].nonce = calls'[q].nonce => p = q
    BY <1>3, <2>1 DEF LaunchesDiffer, NoncesFit
  <2>3. \A o \in opened : o.nonce = calls'[q].nonce =>
            calls'[q].stage = "place" /\ o = Opened(calls'[q])
    BY <2>1 DEF LaunchesDiffer, NoncesFit
  <2> QED
    BY <2>2, <2>3
<1>6. OpenedDiffer'
  BY <1>2 DEF OpenedDiffer, NoncesFit
<1> QED
  BY <1>4, <1>5, <1>6 DEF NoncesFit

LEMMA AskLoginNonces ==
    ASSUME Typed, NoncesFit, NEW r \in Calls, NEW n \in Nonces, AskLogin(r, n)
    PROVE  NoncesFit'
<1>1. PICK d : d = [op |-> "login", stage |-> "deploy", nonce |-> n, key |-> None]
  OBVIOUS
<1>2. d.op = "login" /\ d.nonce = n
  BY <1>1
<1>3. /\ calls' = [calls EXCEPT ![r] = d] /\ nonces' = nonces /\ opened' = opened
      /\ nonces[n] = "none" /\ \A q \in Calls : calls[q].op = "login" => calls[q].nonce # n
  BY <1>1 DEF AskLogin, Receive, Hold, KeepsLaunch, launchVars
<1>4. \A q \in Calls : calls'[q] = IF q = r THEN d ELSE calls[q]
  BY <1>3 DEF Typed
<1>5. LoginsDiffer'
  BY <1>2, <1>3, <1>4 DEF LoginsDiffer, NoncesFit
<1>6. LaunchesDiffer'
  BY <1>2, <1>3, <1>4 DEF LaunchesDiffer, NoncesFit, Consumed, Opened
<1>7. OpenedDiffer'
  BY <1>3 DEF OpenedDiffer, NoncesFit
<1> QED
  BY <1>5, <1>6, <1>7 DEF NoncesFit

LEMMA StoreNonceNonces ==
    ASSUME Typed, NoncesFit, NEW r \in Calls, StoreNonce(r)
    PROVE  NoncesFit'
<1>1. calls[r].op = "login" /\ calls[r].nonce \in Nonces
  BY StageAt, KindAt DEF StoreNonce, At, Typed, LoginCalls
<1>2. \A q \in Calls : calls'[q] = IF q = r THEN NoCall ELSE calls[q]
  BY DEF StoreNonce, Answer, Hold, Typed
<1>3. opened' = opened /\ \A n \in Nonces : n # calls[r].nonce => nonces'[n] = nonces[n]
  BY DEF StoreNonce, KeepsTables, historyVars, Typed
<1>4. \A q \in Calls : calls[q].op = "login" => calls[q].nonce \in Nonces
  BY KindAt DEF Typed, LoginCalls
<1>5. LoginsDiffer'
  BY <1>1, <1>2, <1>3, <1>4, NobodyAsks DEF LoginsDiffer, NoncesFit
<1>6. LaunchesDiffer'
  BY <1>2, <1>3, NobodyAsks DEF LaunchesDiffer, NoncesFit, Consumed, Opened
<1>7. OpenedDiffer'
  BY <1>3 DEF OpenedDiffer, NoncesFit
<1> QED
  BY <1>5, <1>6, <1>7 DEF NoncesFit

LEMMA ConsumeNonceNonces ==
    ASSUME Typed, CallsFit, RowsFit, NoncesFit, NEW r \in Calls, ConsumeNonce(r)
    PROVE  NoncesFit'
<1>1. PICK n : n = calls[r].nonce
  OBVIOUS
<1>2. calls[r].op = "launch" /\ calls[r] \in Requests /\ n \in Nonces /\ calls[r].stage = "nonce"
      /\ calls[r] \in LaunchCalls
  BY <1>1, StageAt, KindAt DEF ConsumeNonce, At, Typed, LaunchCalls
<1>3. nonces[n] # "none"
  BY <1>1, <1>2 DEF CallsFit, Fits, NonceFits
<1>4. PICK d : /\ calls' = [calls EXCEPT ![r] = d]
               /\ \/ d = NoCall
                  \/ /\ d = [calls[r] EXCEPT !.stage = "session"]
                     /\ Accepted(IF Consumable(n) THEN 1 ELSE 0)
  BY <1>1 DEF ConsumeNonce, Answer, MoveTo, Hold
<1>5. d = NoCall \/ (d.op = "launch" /\ d.nonce = n /\ nonces[n] = "stored")
  <2>1. CASE d = NoCall
    BY <2>1
  <2>2. CASE d # NoCall
    <3>1. d = [calls[r] EXCEPT !.stage = "session"] /\ Accepted(IF Consumable(n) THEN 1 ELSE 0)
      BY <1>4, <2>2
    <3>2. nonces[n] = "stored"
      BY <1>2, <3>1, AcceptedCounts
    <3>3. d.op = "launch" /\ d.nonce = n
      BY <1>1, <1>2, <3>1 DEF LaunchCalls
    <3> QED
      BY <3>2, <3>3
  <2> QED
    BY <2>1, <2>2
<1>6. \A q \in Calls : calls'[q] = IF q = r THEN d ELSE calls[q]
  BY <1>4 DEF Typed
<1>7. opened' = opened /\ \A m \in Nonces : m # n => nonces'[m] = nonces[m]
  BY <1>1 DEF ConsumeNonce, KeepsTables, historyVars, Typed
<1>8. \A q \in Calls : calls[q].op = "login" =>
          calls[q].nonce \in Nonces /\ nonces[calls[q].nonce] = "none"
  BY KindAt DEF Typed, LoginCalls, LoginsDiffer, NoncesFit
<1>9. \A q \in Calls : Consumed(calls[q]) => nonces[calls[q].nonce] = "consumed"
  BY DEF CallsFit, Fits, NonceFits, Consumed
<1>10. \A o \in opened : nonces[o.nonce] = "consumed"
  BY DEF RowsFit, OpenedFits
<1>11. LoginsDiffer'
  BY <1>3, <1>5, <1>6, <1>7, <1>8, NobodyAsks DEF LoginsDiffer, NoncesFit
<1>12. LaunchesDiffer'
  <2> SUFFICES ASSUME NEW q \in Calls, Consumed(calls'[q])
               PROVE  /\ \A p \in Calls : Consumed(calls'[p]) /\ calls'[p].nonce = calls'[q].nonce => p = q
                      /\ \A o \in opened : o.nonce = calls'[q].nonce =>
                             calls'[q].stage = "place" /\ o = Opened(calls'[q])
    BY <1>7 DEF LaunchesDiffer, Consumed, Opened
  <2>1. CASE q = r
    BY <1>5, <1>6, <1>9, <1>10, <2>1, NobodyAsks DEF Consumed
  <2>2. CASE q # r
    <3>1. calls'[q] = calls[q] /\ Consumed(calls[q])
      BY <1>6, <2>2
    <3>2. nonces[calls[q].nonce] = "consumed"
      BY <1>9, <3>1
    <3>3. \A p \in Calls : Consumed(calls'[p]) /\ calls'[p].nonce = calls'[q].nonce => p = q
      BY <1>5, <1>6, <3>1, <3>2, NobodyAsks DEF Consumed, LaunchesDiffer, NoncesFit
    <3> QED
      BY <3>1, <3>3 DEF LaunchesDiffer, NoncesFit
  <2> QED
    BY <2>1, <2>2
<1>13. OpenedDiffer'
  BY <1>7 DEF OpenedDiffer, NoncesFit
<1> QED
  BY <1>11, <1>12, <1>13 DEF NoncesFit

LEMMA OpenLaunchNonces ==
    ASSUME Typed, NoncesFit, NEW r \in Calls, OpenLaunch(r)
    PROVE  NoncesFit'
<1>1. PICK c : c = calls[r]
  OBVIOUS
<1>2. c \in LaunchCalls /\ c.op = "launch" /\ c.stage = "open" /\ Consumed(c)
  BY <1>1, StageAt, KindAt
     DEF OpenLaunch, At, Typed, Known, Joining, Joined, Consumed, Unverified
<1>3. PICK d : /\ calls' = [calls EXCEPT ![r] = d]
               /\ d = NoCall \/ d = [c EXCEPT !.stage = "place"]
  BY <1>1 DEF OpenLaunch, Answer, MoveTo, Hold
<1>4. opened' = opened \cup {Opened(c)} /\ nonces' = nonces
  BY <1>1 DEF OpenLaunch, KeepsLaunch, launchVars
<1>5. \/ d = NoCall
      \/ d.op = "launch" /\ d.nonce = c.nonce /\ d.stage = "place" /\ Opened(d) = Opened(c)
  <2>1. CASE d = [c EXCEPT !.stage = "place"]
    <3>1. /\ d.op = "launch" /\ d.nonce = c.nonce /\ d.stage = "place" /\ d.subject = c.subject
          /\ d.email = c.email /\ d.claimed = c.claimed /\ d.profile = c.profile
          /\ d.auth = c.auth /\ d.template = c.template
      BY <1>2, <2>1 DEF LaunchCalls
    <3> QED
      BY <3>1 DEF Opened
  <2> QED
    BY <1>3, <2>1
<1>6. \A q \in Calls : calls'[q] = IF q = r THEN d ELSE calls[q]
  BY <1>3 DEF Typed
<1>7. Opened(c).nonce = c.nonce
  BY DEF Opened
<1>8. \A o \in opened : o.nonce # c.nonce
  BY <1>1, <1>2 DEF LaunchesDiffer, NoncesFit
<1>9. LoginsDiffer'
  BY <1>4, <1>5, <1>6, NobodyAsks DEF LoginsDiffer, NoncesFit
<1>10. LaunchesDiffer'
  <2> SUFFICES ASSUME NEW q \in Calls, Consumed(calls'[q])
               PROVE  /\ \A p \in Calls : Consumed(calls'[p]) /\ calls'[p].nonce = calls'[q].nonce => p = q
                      /\ \A o \in opened' : o.nonce = calls'[q].nonce =>
                             calls'[q].stage = "place" /\ o = Opened(calls'[q])
    BY DEF LaunchesDiffer, Consumed, Opened
  <2>1. CASE q = r
    <3>1. /\ d.op = "launch" /\ d.nonce = c.nonce /\ d.stage = "place" /\ Opened(d) = Opened(c)
          /\ calls'[q] = d
      BY <1>5, <1>6, <2>1, NobodyAsks DEF Consumed
    <3>2. \A p \in Calls : Consumed(calls'[p]) /\ calls'[p].nonce = calls'[q].nonce => p = q
      BY <1>1, <1>2, <1>6, <2>1, <3>1 DEF LaunchesDiffer, NoncesFit
    <3> QED
      BY <1>4, <1>8, <3>1, <3>2
  <2>2. CASE q # r
    <3>1. calls'[q] = calls[q] /\ Consumed(calls[q]) /\ calls[q].nonce # c.nonce
      BY <1>1, <1>2, <1>6, <2>2 DEF LaunchesDiffer, NoncesFit
    <3>2. \A p \in Calls : Consumed(calls'[p]) /\ calls'[p].nonce = calls'[q].nonce => p = q
      BY <1>5, <1>6, <3>1, NobodyAsks DEF Consumed, LaunchesDiffer, NoncesFit
    <3>3. \A o \in opened : o.nonce = calls[q].nonce => calls[q].stage = "place" /\ o = Opened(calls[q])
      BY <3>1 DEF LaunchesDiffer, NoncesFit
    <3> QED
      BY <1>4, <1>7, <3>1, <3>2, <3>3
  <2> QED
    BY <2>1, <2>2
<1>11. OpenedDiffer'
  BY <1>4, <1>7, <1>8 DEF OpenedDiffer, NoncesFit
<1> QED
  BY <1>9, <1>10, <1>11 DEF NoncesFit

LEMMA ExpireNonceNonces ==
    ASSUME Typed, NoncesFit, NEW n \in Nonces, ExpireNonce(n)
    PROVE  NoncesFit'
<1>1. calls' = calls /\ opened' = opened
  BY DEF ExpireNonce, KeepsTables, historyVars
<1>2. \A m \in Nonces : nonces[m] = "none" => nonces'[m] = "none"
  BY DEF ExpireNonce, Typed
<1>3. \A q \in Calls : calls[q].op = "login" => calls[q].nonce \in Nonces
  BY KindAt DEF Typed, LoginCalls
<1>4. LoginsDiffer'
  BY <1>1, <1>2, <1>3 DEF LoginsDiffer, NoncesFit
<1>5. LaunchesDiffer' /\ OpenedDiffer'
  BY <1>1 DEF LaunchesDiffer, OpenedDiffer, NoncesFit, Consumed, Opened
<1> QED
  BY <1>4, <1>5 DEF NoncesFit

-----------------------------------------------------------------------------
(* Every step keeps the invariant.                                           *)

CallsMove == calls' = calls \/ \E r \in Calls : ActorMoves(r)

LEMMA CallsFitStay ==
    ASSUME Typed, CallsFit, RowsFit, RowsMove, CallsMove
    PROVE  CallsFit' /\ calls' \in [Calls -> Requests]
<1>1. ASSUME NEW q \in Calls, calls'[q] = calls[q]
      PROVE  Fits(calls[q])'
  <2>1. PICK c \in Requests : c = calls[q] /\ Fits(c)'
    BY ItsRequest
  <2> QED
    BY <1>1, <2>1 DEF Fits, NonceFits, ProfileFits, ProofFits, SubjectFits, ClaimsFit, UserFits,
                      AuthFits, PlaceFits, Opened
<1>2. CASE calls' = calls
  BY <1>1, <1>2 DEF CallsFit, Typed
<1>3. CASE \E r \in Calls : ActorMoves(r)
  <2>1. PICK r \in Calls, d \in Requests : calls' = [calls EXCEPT ![r] = d] /\ Fits(d)'
    BY <1>3 DEF ActorMoves
  <2>2. calls'[r] = d
    BY <2>1 DEF Typed
  <2>3. Fits(calls[r])'
    BY <2>1, <2>2 DEF Fits, NonceFits, ProfileFits, ProofFits, SubjectFits, ClaimsFit, UserFits,
                      AuthFits, PlaceFits, Opened
  <2>4. \A q \in Calls : q # r => calls'[q] = calls[q]
    BY <2>1 DEF Typed
  <2> QED
    BY <1>1, <2>1, <2>3, <2>4 DEF CallsFit, Typed
<1> QED
  BY <1>2, <1>3 DEF CallsMove

LEMMA LaunchStepMoves ==
    ASSUME IInv, NEW r \in Calls, LaunchStep(r)
    PROVE  RowsMove /\ ActorMoves(r)
  BY FindKeyMoves, CreateKeyMoves, AskKeysMoves, UpsertDeploymentMoves, StoreNonceMoves,
     FindConfigMoves, ConsumeNonceMoves, StoreSessionMoves, CheckTemplateMoves, OpenLaunchMoves,
     PlaceLinkMoves, SelectMoves, AskLoginMoves, AskSelectMoves, AskLaunchMoves
     DEF LaunchStep, IInv, NoncesFit

LEMMA LearnerStepMoves ==
    ASSUME Typed, CallsFit, RowsFit, NEW r \in Calls, LearnerStep(r), KeepsLaunch
    PROVE  RowsMove /\ ActorMoves(r)
  BY FindProfileMoves, CreateProfileMoves, AddPrimaryMoves, CheckDidMoves, RemoveDidsMoves,
     AddDidMoves, CheckTargetMoves, CreateProofMoves, CheckProofMoves, CheckProofOwnerMoves,
     ClearPrimaryMoves, AddProvenMoves, MarkUsedMoves DEF LearnerStep

LEMMA AccountStepMoves ==
    ASSUME Typed, CallsFit, RowsFit, NEW r \in Calls, AccountStep(r), KeepsLaunch
    PROVE  RowsMove /\ ActorMoves(r)
  BY CheckClaimMoves, AddClaimedMoves, UpsertUserMoves, FindMembershipMoves, UpsertRoleMoves,
     FindLinkOfUserMoves, MatchAuthUserMoves, CheckMatchedMoves, CreateAuthUserMoves,
     LinkAuthUserMoves, FindLinkOfAuthUserMoves, CheckConflictMoves, BindAuthUserMoves
     DEF AccountStep

LEMMA LearnerRequestMoves ==
    ASSUME Typed, CallsFit, RowsFit, NEW r \in Calls, LearnerRequest(r)
    PROVE  RowsMove /\ ActorMoves(r)
<1>1. KeepsLaunch
  BY DEF LearnerRequest
<1>2. CASE LearnerStep(r) \/ AccountStep(r) \/ LoseCall(r)
  BY <1>1, <1>2, LearnerStepMoves, AccountStepMoves, LoseCallMoves
<1>3. CASE \E e \in Emails : FollowMagicLink(r, e)
  BY <1>1, <1>3, FollowMagicLinkMoves
<1>4. CASE \E e \in Emails, d \in Dids \cup {None} : AskDid(r, e, d)
  BY <1>1, <1>4, AskDidMoves
<1>5. CASE \E e \in Emails, t \in Emails : AskProof(r, e, t)
  BY <1>1, <1>5, AskProofMoves
<1>6. CASE \E f \in Proofs : AskVerification(r, f)
  BY <1>1, <1>6, AskVerificationMoves
<1> QED
  BY <1>2, <1>3, <1>4, <1>5, <1>6 DEF LearnerRequest

LEMMA StepMoves ==
    ASSUME IInv, [LaunchNext]_launchAll
    PROVE  RowsMove /\ CallsMove
<1>1. CASE \E r \in Calls : LaunchStep(r) \/ LearnerRequest(r)
  BY <1>1, LaunchStepMoves, LearnerRequestMoves DEF IInv, CallsMove
<1>2. CASE Register \/ Unregister \/ (\E t \in Templates : Archive(t)) \/ Show
  BY <1>2, OutsideMoves DEF IInv, CallsMove
<1>3. CASE \E n \in Nonces : ExpireNonce(n)
  BY <1>3, ExpireNonceMoves DEF IInv, CallsMove
<1>4. CASE ProofsAge
  BY <1>4, ExpireProofMoves DEF ProofsAge, IInv, CallsMove
<1>5. CASE UNCHANGED launchAll
  BY <1>5, OutsideMoves DEF Show, IInv, CallsMove
<1> QED
  BY <1>1, <1>2, <1>3, <1>4, <1>5 DEF LaunchNext

LEMMA KeyHeld ==
    ASSUME Typed, NEW r \in Calls, NEW k, KeyInHand(r, k), calls[r].stage \in {"key", "newKey"}
    PROVE  \/ Answer(r)
           \/ \E s : /\ Hold(r, [calls[r] EXCEPT !.key = k, !.stage = s])
                     /\ calls[r].op = "launch" => s = "config"
<1>1. calls[r].op \in {"jwks", "login", "launch", "select"}
  BY StageAt DEF Typed
<1>2. CASE calls[r].op = "jwks"
  BY <1>2 DEF KeyInHand
<1>3. CASE calls[r].op # "jwks"
  <2>1. Hold(r, [calls[r] EXCEPT !.key = k, !.stage = AfterKey(calls[r])])
    BY <1>3 DEF KeyInHand
  <2>2. calls[r].op = "launch" => AfterKey(calls[r]) = "config"
    BY DEF AfterKey
  <2> QED
    BY <2>1, <2>2
<1> QED
  BY <1>2, <1>3

LEMMA StageAfter ==
    ASSUME Typed, NEW r \in Calls, NEW s
    PROVE  /\ Answer(r) => calls'[r] = NoCall
           /\ MoveTo(r, s) /\ calls[r].op = "launch" => calls'[r].stage = s
           /\ \A k : Hold(r, [calls[r] EXCEPT !.key = k, !.stage = s]) /\ calls[r].op = "launch"
                  => calls'[r].stage = s
<1>1. Answer(r) => calls'[r] = NoCall
  BY DEF Answer, Hold, Typed
<1>2. calls[r].op = "launch" => calls[r] \in LaunchCalls
  BY KindAt DEF Typed
<1>3. MoveTo(r, s) /\ calls[r].op = "launch" => calls'[r].stage = s
  BY <1>2 DEF MoveTo, Hold, Typed, LaunchCalls
<1>4. ASSUME NEW k, Hold(r, [calls[r] EXCEPT !.key = k, !.stage = s]), calls[r].op = "launch"
      PROVE  calls'[r].stage = s
  BY <1>2, <1>4 DEF Hold, Typed, LaunchCalls
<1> QED
  BY <1>1, <1>3, <1>4

LEMMA LaunchStepNonces ==
    ASSUME IInv, NEW r \in Calls, LaunchStep(r)
    PROVE  NoncesFit'
<1>1. Typed /\ CallsFit /\ RowsFit /\ NoncesFit
  BY DEF IInv
<1>2. CASE StoreNonce(r) \/ ConsumeNonce(r) \/ OpenLaunch(r) \/ \E n \in Nonces : AskLogin(r, n)
  BY <1>1, <1>2, StoreNonceNonces, ConsumeNonceNonces, OpenLaunchNonces, AskLoginNonces
<1>3. CASE FindKey(r) \/ CreateKey(r)
  <2>1. calls[r].stage \in Unverified /\ UNCHANGED <<nonces, opened>>
    BY <1>3 DEF FindKey, CreateKey, At, Unverified, KeepsTables, historyVars
  <2>2. MoveTo(r, "newKey") \/ \E k : KeyInHand(r, k)
    BY <1>3 DEF FindKey, CreateKey
  <2>3. calls[r].stage \in {"key", "newKey"}
    BY <1>3 DEF FindKey, CreateKey, At
  <2>4. \/ Answer(r)
        \/ MoveTo(r, "newKey")
        \/ \E k, s : /\ Hold(r, [calls[r] EXCEPT !.key = k, !.stage = s])
                     /\ calls[r].op = "launch" => s = "config"
    BY <1>1, <2>2, <2>3, KeyHeld
  <2>5. Continues(r)
    BY <1>1, <2>4, MovesContinue
  <2>6. calls[r].op # "launch" \/ calls'[r].stage \in Unverified \/ calls'[r] = NoCall
    BY <1>1, <2>4, StageAfter DEF Unverified
  <2> QED
    BY <1>1, <2>1, <2>5, <2>6, ContinuesKept, NoncesFitKept
<1>4. CASE UpsertDeployment(r) \/ Select(r)
  <2>1. Continues(r) /\ UNCHANGED <<nonces, opened>>
    BY <1>1, <1>4, MovesContinue DEF UpsertDeployment, Select, KeepsTables, historyVars
  <2>2. calls[r].op # "launch"
    BY <1>1, <1>4, StageAt DEF UpsertDeployment, Select, At, Typed
  <2> QED
    BY <1>1, <2>1, <2>2, ContinuesKept, NoncesFitKept
<1>5. CASE StoreSession(r) \/ CheckTemplate(r)
  <2>1. Continues(r) /\ UNCHANGED <<nonces, opened>>
    BY <1>1, <1>5, MovesContinue
       DEF StoreSession, CheckTemplate, KeepsTables, KeepsLaunch, launchVars, historyVars
  <2>2. calls[r].stage \notin Unverified \cup {"place"}
    BY <1>5 DEF StoreSession, CheckTemplate, At, Unverified
  <2> QED
    BY <1>1, <2>1, <2>2, ContinuesKept, NoncesFitKept
<1>6. CASE FindConfig(r) \/ PlaceLink(r)
  <2>1. Continues(r) /\ UNCHANGED <<nonces, opened>>
    BY <1>1, <1>6, MovesContinue
       DEF FindConfig, PlaceLink, KeepsTables, KeepsLaunch, launchVars, historyVars
  <2>2. MoveTo(r, "nonce") \/ Answer(r)
    BY <1>6 DEF FindConfig, PlaceLink
  <2>3. calls[r].op # "launch" \/ calls'[r].stage \in Unverified \/ calls'[r] = NoCall
    BY <1>1, <2>2, StageAfter DEF Unverified
  <2> QED
    BY <1>1, <2>1, <2>3, ContinuesKept, NoncesFitKept
<1>7. CASE AskKeys(r) \/ \E n \in Nonces : AskSelect(r, n)
  <2>1. PICK d : d.op \in {"jwks", "select"} /\ Receive(r, d) /\ KeepsLaunch
    BY <1>7 DEF AskKeys, AskSelect
  <2> QED
    BY <1>1, <2>1, ComesInKept, NoncesFitKept
<1>8. CASE \E n \in Nonces, c \in LaunchClaims : AskLaunch(r, n, c)
  <2>1. PICK d : d.op = "launch" /\ d.stage = "key" /\ Receive(r, d) /\ KeepsLaunch
    BY <1>8 DEF AskLaunch
  <2> QED
    BY <1>1, <2>1, ComesInKept, NoncesFitKept DEF Unverified
<1> QED
  BY <1>2, <1>3, <1>4, <1>5, <1>6, <1>7, <1>8 DEF LaunchStep

LEMMA LearnerRequestNonces ==
    ASSUME IInv, NEW r \in Calls, LearnerRequest(r)
    PROVE  NoncesFit'
<1>1. Typed /\ NoncesFit /\ KeepsLaunch /\ nonces' = nonces
  BY DEF IInv, LearnerRequest, KeepsLaunch, launchVars
<1>2. CASE LearnerStep(r) \/ AccountStep(r)
  BY <1>1, <1>2, LearnerContinues, AccountContinues, ContinuesKept, NoncesFitKept
<1>3. CASE LoseCall(r)
  <2>1. Continues(r) /\ opened' = opened /\ calls'[r] = NoCall
    BY <1>1, <1>3, MovesContinue DEF LoseCall, historyVars, Answer, Hold, Typed
  <2> QED
    BY <1>1, <2>1, ContinuesKept, NoncesFitKept
<1>4. CASE \E e \in Emails : FollowMagicLink(r, e)
  <2>1. PICK d : d.op = "magic" /\ calls' = [calls EXCEPT ![r] = d]
    BY <1>4 DEF FollowMagicLink, Hold
  <2>2. NoncesKept(r)
    BY <1>1, <1>4, <2>1 DEF FollowMagicLink, NoncesKept, Keeps, Consumed
  <2> QED
    BY <1>1, <2>2, NoncesFitKept
<1>5. ASSUME NEW d, d.op \in {"did", "prove", "verify"}, Receive(r, d)
      PROVE  NoncesFit'
  BY <1>1, <1>5, ComesInKept, NoncesFitKept
<1>6. CASE \E e \in Emails, d \in Dids \cup {None} : AskDid(r, e, d)
  <2>1. PICK e, a : AskDid(r, e, a)
    BY <1>6
  <2>2. PICK d : d = [op |-> "did", stage |-> "find", key |-> e, did |-> a, profile |-> None]
    OBVIOUS
  <2>3. d.op = "did"
    BY <2>2
  <2>4. Receive(r, d)
    BY <2>1, <2>2 DEF AskDid
  <2> QED
    BY <1>5, <2>3, <2>4
<1>7. CASE \E e \in Emails, t \in Emails : AskProof(r, e, t)
  <2>1. PICK e, t : AskProof(r, e, t)
    BY <1>7
  <2>2. PICK d : d = [op |-> "prove", stage |-> "find", key |-> e, target |-> t, profile |-> None]
    OBVIOUS
  <2>3. d.op = "prove"
    BY <2>2
  <2>4. Receive(r, d)
    BY <2>1, <2>2 DEF AskProof
  <2> QED
    BY <1>5, <2>3, <2>4
<1>8. CASE \E f \in Proofs : AskVerification(r, f)
  <2>1. PICK f : AskVerification(r, f)
    BY <1>8
  <2>2. PICK d : d = [op |-> "verify", stage |-> "proof", proof |-> f]
    OBVIOUS
  <2>3. d.op = "verify"
    BY <2>2
  <2>4. Receive(r, d)
    BY <2>1, <2>2 DEF AskVerification
  <2> QED
    BY <1>5, <2>3, <2>4
<1> QED
  BY <1>2, <1>3, <1>4, <1>6, <1>7, <1>8 DEF LearnerRequest

LEMMA OutsideNonces ==
    ASSUME NoncesFit, UNCHANGED <<calls, nonces, opened>>
    PROVE  NoncesFit'
  BY DEF NoncesFit, LoginsDiffer, LaunchesDiffer, OpenedDiffer, Consumed, Opened

LEMMA StepNonces ==
    ASSUME IInv, [LaunchNext]_launchAll
    PROVE  NoncesFit'
<1>1. CASE \E r \in Calls : LaunchStep(r) \/ LearnerRequest(r)
  BY <1>1, LaunchStepNonces, LearnerRequestNonces
<1>2. CASE \/ Register \/ Unregister \/ (\E t \in Templates : Archive(t)) \/ Show \/ UNCHANGED launchAll
           \/ ProofsAge
  <2>1. UNCHANGED <<calls, nonces, opened>>
    BY <1>2 DEF Register, Unregister, Archive, Show, ProofsAge, ExpireProof, KeepsLaunch, launchAll,
                identityVars, launchVars, historyVars
  <2> QED
    BY <2>1, OutsideNonces DEF IInv
<1>3. CASE \E n \in Nonces : ExpireNonce(n)
  BY <1>3, ExpireNonceNonces DEF IInv
<1> QED
  BY <1>1, <1>2, <1>3 DEF LaunchNext

LEMMA IInvStep ==
    ASSUME IInv, [LaunchNext]_launchAll
    PROVE  IInv'
<1>1. RowsMove /\ CallsMove /\ NoncesFit'
  BY StepMoves, StepNonces
<1>2. Typed /\ CallsFit /\ RowsFit
  BY DEF IInv
<1>3. CallsFit' /\ calls' \in [Calls -> Requests]
  BY <1>1, <1>2, CallsFitStay
<1>4. Typed' /\ RowsFit'
  BY <1>1, <1>2, <1>3, TypedStays, RowsFitStays
<1> QED
  BY <1>1, <1>3, <1>4 DEF IInv

LEMMA KeysThere ==
    ASSUME LaunchInit
    PROVE  toolKey \in Keys \cup {None}
  BY LaunchAssumption DEF LaunchInit

LEMMA IInvInit ==
    ASSUME LaunchInit
    PROVE  IInv
<1>1. Typed
  <2>1. /\ profiles = {} /\ users \subseteq Emails /\ opened = {} /\ signed = {} /\ ltiSessions = {}
        /\ identities \in [Values -> [profile : {None}, primary : BOOLEAN]]
    BY IdentityAssumption DEF LaunchInit, IdentityInit, NoIdentity
  <2>2. proofs \in [Proofs -> [profile : {None}, email : {None}, by : {None}, status : {"absent"}]]
    BY DEF LaunchInit, IdentityInit, NoProof
  <2>3. roles \in [Emails -> Roles] /\ authUsers \in [AuthUsers -> {None}]
        /\ links \in [AuthUsers -> {None}]
    BY DEF LaunchInit, IdentityInit, Roles
  <2>4. calls \in [Calls -> Requests] /\ lost = 0 /\ overlapped = FALSE
    BY NobodyAsks DEF LaunchInit, IdentityInit
  <2>5. /\ counted \in BOOLEAN /\ toolKey \in Keys \cup {None}
        /\ nonces \in [Nonces -> {"none", "stored"}]
        /\ placement \in [template : {None}, by : {None}]
    BY KeysThere DEF LaunchInit, NoPlacement
  <2> QED
    BY <2>1, <2>2, <2>3, <2>4, <2>5 DEF Typed
<1>2. \A r \in Calls : calls[r] = NoCall
  BY DEF LaunchInit, IdentityInit
<1>3. CallsFit
  BY <1>2, QuietFits, NobodyAsks DEF CallsFit
<1>4. RowsFit
  BY ValuesTyped DEF LaunchInit, IdentityInit, RowsFit, LinksFit, ProofsFit, PrimariesFit, OpenedFits,
         PlacedByItsLauncher, NoProof, NoIdentity, Owner
<1>5. NoncesFit
  BY <1>2, NobodyAsks
     DEF LaunchInit, IdentityInit, NoncesFit, LoginsDiffer, LaunchesDiffer, OpenedDiffer, Consumed
<1> QED
  BY <1>1, <1>3, <1>4, <1>5 DEF IInv

-----------------------------------------------------------------------------
(* Theorems.                                                                 *)

\* What each request holds, what the rows are to one another, and whose each nonce is, hold
\* in every reachable state (lti-routes.ts, learner-routes.ts).
THEOREM Invariance == LaunchSpec => []IInv
<1>1. LaunchInit => IInv
  BY IInvInit
<1>2. IInv /\ [LaunchNext]_launchAll => IInv'
  BY IInvStep
<1> QED
  BY <1>1, <1>2, PTL DEF LaunchSpec

LEMMA StagesListed ==
    ASSUME NEW c \in Requests
    PROVE  c.stage \in CallStages
<1>1. CASE c \in LaunchCalls
  BY <1>1 DEF LaunchCalls, Unverified, Finding, Known, Joining, Joined, CallStages
<1>2. CASE c \in {NoCall} \cup KeysCalls \cup LoginCalls \cup SelectCalls
  BY <1>2 DEF NoCall, KeysCalls, LoginCalls, SelectCalls, CallStages
<1>3. CASE c \in MagicCalls \cup DidCalls \cup ProveCalls \cup VerifyCalls
  BY <1>3 DEF MagicCalls, DidCalls, ProveCalls, VerifyCalls, Finding, CallStages
<1> QED
  BY <1>1, <1>2, <1>3 DEF Requests

\* Only launches and the learner's settings hold a profile.
LEMMA ProfileHeld ==
    ASSUME NEW c \in Requests, "profile" \in DOMAIN c
    PROVE  c.op \in {"launch", "did", "prove"}
<1>1. CASE c \in {NoCall} \cup KeysCalls \cup LoginCalls \cup SelectCalls
  BY <1>1 DEF NoCall, KeysCalls, LoginCalls, SelectCalls
<1>2. CASE c \in MagicCalls \cup VerifyCalls
  BY <1>2 DEF MagicCalls, VerifyCalls
<1>3. CASE c \in LaunchCalls \cup DidCalls \cup ProveCalls
  BY <1>3 DEF LaunchCalls, DidCalls, ProveCalls
<1> QED
  BY <1>1, <1>2, <1>3 DEF Requests

LEMMA TypesHold ==
    ASSUME Typed, CallsFit
    PROVE  LaunchTypeOK
<1>1. ASSUME NEW r \in Calls
      PROVE  /\ calls[r].stage \in CallStages
             /\ "profile" \in DOMAIN calls[r] => calls[r].profile \in profiles \cup {None}
  <2>1. calls[r] \in Requests /\ Fits(calls[r])
    BY DEF Typed, CallsFit
  <2>2. PICK c : c = calls[r]
    OBVIOUS
  <2>3. c.stage \in CallStages
    BY <2>1, <2>2, StagesListed
  <2>4. "profile" \in DOMAIN c => c.op \in {"launch", "did", "prove"}
    BY <2>1, <2>2, ProfileHeld
  <2>5. ProfileFits(c)
    BY <2>1, <2>2 DEF Fits
  <2> QED
    BY <2>2, <2>3, <2>4, <2>5 DEF ProfileFits
<1> QED
  BY <1>1 DEF Typed, LaunchTypeOK

LEMMA Agreed ==
    ASSUME Typed, CallsFit, RowsFit
    PROVE  LaunchesAgree
<1>1. LaunchTypeOK
  BY TypesHold
<1>2. ClaimsAgree
  BY DEF RowsFit, OpenedFits, ClaimsAgree
<1>3. SignedInAsLinked
  <2> SUFFICES ASSUME NEW o \in opened
               PROVE  authUsers[o.auth] = o.email /\ LinkedTo(o.email) = {o.auth}
    BY DEF SignedInAsLinked
  <2>1. o.auth \in AuthUsers /\ o.email \in Emails
    BY DEF Typed, Answers
  <2>2. links[o.auth] = o.email /\ o.email # None
    BY <2>1, ValuesTyped DEF RowsFit, OpenedFits
  <2>3. authUsers[o.auth] = o.email /\ \A a \in AuthUsers : links[a] = o.email => a = o.auth
    BY <2>1, <2>2 DEF RowsFit, LinksFit
  <2> QED
    BY <2>1, <2>2, <2>3 DEF LinkedTo
<1>4. UsedProofLinked
  BY DEF RowsFit, ProofsFit, UsedProofLinked
<1> QED
  BY <1>1, <1>2, <1>3, <1>4 DEF LaunchesAgree

\* A set of which no two members differ has one at most.
LEMMA OneAtMost ==
    ASSUME NEW S, \A x, y \in S : x = y
    PROVE  Cardinality(S) <= 1
<1>1. CASE S = {}
  BY <1>1, FS_EmptySet
<1>2. CASE S # {}
  <2>1. PICK x : S = {x}
    BY <1>2
  <2> QED
    BY <2>1, FS_Singleton
<1> QED
  BY <1>1, <1>2

LEMMA OpenedOnce ==
    ASSUME Typed, RowsFit, NoncesFit
    PROVE  OpensOnce
<1>1. ASSUME NEW n \in Nonces
      PROVE  /\ Cardinality({o \in opened : o.nonce = n}) <= 1
             /\ (~counted => n \notin ltiSessions /\ \A o \in opened : o.nonce # n)
  <2>1. Cardinality({o \in opened : o.nonce = n}) <= 1
    BY OneAtMost DEF NoncesFit, OpenedDiffer
  <2> QED
    BY <2>1 DEF RowsFit, OpenedFits
<1> QED
  BY <1>1 DEF RowsFit, OpensOnce, NonceOpensOne

\* What an opened launch showed, and what a used link proof did, is so and remains so
\* (linkLtiLaunchAccount, createBetterAuthSessionForCredtrailUser, the learner's e-mail link).
THEOREM LaunchesHold == LaunchSpec => []LaunchesAgree
<1>1. IInv => LaunchesAgree
  BY Agreed DEF IInv
<1> QED
  BY <1>1, Invariance, PTL

\* A login opens one launch at most, none on a database that does not count the rows of an
\* UPDATE, and a placement is of a launch that was opened (consumeLtiLaunchNonce).
THEOREM LoginsOpenOnce == LaunchSpec => []OpensOnce
<1>1. IInv => OpensOnce
  BY OpenedOnce DEF IInv
<1> QED
  BY <1>1, Invariance, PTL

-----------------------------------------------------------------------------
(* While no two requests have overlapped, every request but the one that     *)
(* steps is idle.                                                            *)

\* The stages of which AloneFits asks something.
Watched == {"create", "primary", "clear", "addEmail", "enrol", "addDid", "newAuth", "newKey", "select"}
Promising == {"primary", "addEmail"}

Acts(r) == \A q \in Calls : q # r => calls'[q] = calls[q] /\ At(q, "idle")

LEMMA NothingWatched ==
    ASSUME NEW r \in Calls, calls'[r].stage \notin Watched
    PROVE  AloneFits(calls[r])'
  BY DEF AloneFits, Watched

LEMMA HeldNow ==
    ASSUME Typed, NEW r \in Calls, NEW d, Hold(r, d)
    PROVE  calls'[r] = d /\ \A q \in Calls : q # r => calls'[q] = calls[q]
  BY DEF Typed, Hold

LEMMA ItActs ==
    ASSUME Typed, OneAtWork, NEW r \in Calls, NEW d, Hold(r, d),
           ~At(r, "idle") \/ \A q \in Calls : At(q, "idle")
    PROVE  Acts(r)
  BY HeldNow DEF Acts, OneAtWork

LEMMA StageMoved ==
    ASSUME NEW c \in Requests, NEW s, NEW d, d = [c EXCEPT !.stage = s]
    PROVE  d.stage = s /\ d.op = c.op
<1>1. CASE c \in LaunchCalls
  BY <1>1 DEF LaunchCalls
<1>2. CASE c \in {NoCall} \cup KeysCalls \cup LoginCalls \cup SelectCalls
  BY <1>2 DEF NoCall, KeysCalls, LoginCalls, SelectCalls
<1>3. CASE c \in MagicCalls \cup DidCalls \cup ProveCalls \cup VerifyCalls
  BY <1>3 DEF MagicCalls, DidCalls, ProveCalls, VerifyCalls
<1> QED
  BY <1>1, <1>2, <1>3 DEF Requests

LEMMA MovedTo ==
    ASSUME Typed, NEW r \in Calls, NEW s, MoveTo(r, s)
    PROVE  calls'[r].stage = s /\ calls'[r].op = calls[r].op
<1>1. calls'[r] = [calls[r] EXCEPT !.stage = s] /\ calls[r] \in Requests
  BY HeldNow DEF MoveTo, Typed
<1> QED
  BY <1>1, StageMoved

LEMMA AnsweredNow ==
    ASSUME Typed, NEW r \in Calls, Answer(r)
    PROVE  calls'[r] = NoCall /\ calls'[r].stage = "idle" /\ calls'[r].stage \notin Watched
  BY HeldNow, NobodyAsks DEF Answer, Watched

LEMMA AloneStays ==
    ASSUME NEW r \in Calls, Acts(r), AloneFits(calls[r])',
           lost' = 0 => \A p \in profiles' : PrimaryOf(p)' # {} \/ Promises(calls[r], p)',
           DidsDiffer', AuthUsersDiffer', refused' = {}, signed' \subseteq {toolKey'}
    PROVE  Alone'
<1>1. ASSUME NEW q \in Calls, q # r
      PROVE  At(q, "idle")' /\ AloneFits(calls[q])'
  <2>1. calls'[q].stage = "idle"
    BY <1>1 DEF Acts, At
  <2> QED
    BY <2>1, NothingWatched DEF At, Watched
<1>2. OneAtWork'
  BY <1>1 DEF OneAtWork
<1>3. (lost = 0 => PrimaryKept)'
  BY DEF PrimaryKept
<1> QED
  BY <1>1, <1>2, <1>3 DEF Alone

\* Without a promise, every learner has a primary identity.
LEMMA EachHasPrimary ==
    ASSUME Alone, NEW r \in Calls, Acts(r), calls[r].stage \notin Promising, lost = 0,
           NEW p \in profiles
    PROVE  PrimaryOf(p) # {}
<1>1. \A q \in Calls : ~Promises(calls[q], p)
  BY DEF Promises, Acts, At, Promising
<1> QED
  BY <1>1 DEF Alone, PrimaryKept

\* A step that writes neither identities nor Better Auth users.
Spares == UNCHANGED <<profiles, identities, authUsers, refused, lost>>

LEMMA SparedAlone ==
    ASSUME Alone, NEW r \in Calls, Acts(r), calls[r].stage \notin Promising, Spares,
           AloneFits(calls[r])', signed' \subseteq {toolKey'}
    PROVE  Alone'
<1>1. DidsDiffer' /\ AuthUsersDiffer' /\ refused' = {}
  BY DEF Alone, DidsDiffer, AuthUsersDiffer, Spares, Owner
<1>2. \A p \in profiles : PrimaryOf(p)' = PrimaryOf(p)
  BY DEF PrimaryOf, Spares
<1>3. lost' = 0 => \A p \in profiles' : PrimaryOf(p)' # {}
  BY <1>2, EachHasPrimary DEF Spares
<1> QED
  BY <1>1, <1>3, AloneStays

\* The same, and what the request goes on with is not watched.
LEMMA PlainAlone ==
    ASSUME Typed, Alone, NEW r \in Calls, calls[r].stage \notin Promising, Spares,
           signed' \subseteq {toolKey'},
           ~At(r, "idle") \/ \A q \in Calls : At(q, "idle"),
           \/ Answer(r)
           \/ \E s : s \notin Watched /\ MoveTo(r, s)
           \/ \E d : d.stage \notin Watched /\ Hold(r, d)
    PROVE  Alone'
<1>1. calls'[r].stage \notin Watched
  BY AnsweredNow, MovedTo, HeldNow
<1>2. Acts(r)
  BY ItActs DEF Alone, Answer, MoveTo
<1> QED
  BY <1>1, <1>2, NothingWatched, SparedAlone

\* Nobody steps: at most a proof's time is over.
LEMMA NobodyAlone ==
    ASSUME Typed, Alone, Spares, UNCHANGED <<calls, roles, toolKey, signed>>,
           \A f \in Proofs : /\ proofs'[f].email = proofs[f].email
                             /\ proofs'[f].profile = proofs[f].profile
    PROVE  Alone'
<1>1. DidsDiffer' /\ AuthUsersDiffer' /\ refused' = {} /\ OneAtWork' /\ signed' \subseteq {toolKey'}
  BY DEF Alone, DidsDiffer, AuthUsersDiffer, OneAtWork, Spares, Owner, At
<1>2. ASSUME NEW r \in Calls
      PROVE  /\ AloneFits(calls[r])'
             /\ \A p : Promises(calls[r], p)' <=> Promises(calls[r], p)
  <2>1. calls[r].stage \in {"clear", "addEmail"} =>
          /\ proofs'[calls[r].proof].email = proofs[calls[r].proof].email
          /\ proofs'[calls[r].proof].profile = proofs[calls[r].proof].profile
    BY StageAt, KindAt DEF Typed, VerifyCalls
  <2>2. AloneFits(calls[r])
    BY DEF Alone
  <2> QED
    BY <2>1, <2>2 DEF AloneFits, Promises, ItsProof, ValueFree, Owner, PrimaryOf, DidsOf, Addressed,
                      Spares
<1>3. lost' = 0 => \A p \in profiles' : PrimaryOf(p)' # {} \/ \E r \in Calls : Promises(calls[r], p)'
  <2>1. \A p : PrimaryOf(p)' = PrimaryOf(p)
    BY DEF PrimaryOf, Spares
  <2>2. lost' = lost /\ profiles' = profiles
    BY DEF Spares
  <2> QED
    BY <1>2, <2>1, <2>2 DEF Alone, PrimaryKept
<1>4. \A r \in Calls : AloneFits(calls[r])'
  BY <1>2
<1>5. (lost = 0 => PrimaryKept)'
  BY <1>3 DEF PrimaryKept
<1> QED
  BY <1>1, <1>4, <1>5 DEF Alone

LEMMA OutsideAlone ==
    ASSUME Typed, Alone,
           \/ Register \/ Unregister \/ Show \/ ProofsAge
           \/ \E t \in Templates : Archive(t)
           \/ \E n \in Nonces : ExpireNonce(n)
    PROVE  Alone'
<1>1. Spares /\ UNCHANGED <<calls, roles, toolKey, signed>>
  BY DEF Register, Unregister, Show, ProofsAge, Archive, ExpireNonce, ExpireProof, Spares, KeepsLaunch,
         KeepsTables, launchAll, identityVars, launchVars, learnerVars, accountVars, historyVars
<1>2. \A f \in Proofs : proofs'[f].email = proofs[f].email /\ proofs'[f].profile = proofs[f].profile
  BY DEF Register, Unregister, Show, ProofsAge, Archive, ExpireNonce, ExpireProof, KeepsTables,
         launchAll, identityVars, learnerVars, Typed
<1> QED
  BY <1>1, <1>2, NobodyAlone

-----------------------------------------------------------------------------
(* A request that is the only one: what it receives, and what it loses.      *)

LEMMA ReceiveAlone ==
    ASSUME Typed, Alone, NEW r \in Calls, NEW d, d.stage \notin Watched, Receive(r, d), KeepsLaunch,
           ~overlapped'
    PROVE  Alone'
<1>1. Spares /\ Hold(r, d) /\ At(r, "idle") /\ \A q \in Calls : At(q, "idle")
  BY DEF Receive, Spares, learnerVars, accountVars
<1>2. signed' \subseteq {toolKey'}
  BY DEF KeepsLaunch, launchVars, Alone
<1> QED
  BY <1>1, <1>2, PlainAlone DEF At, Promising

LEMMA LoseCallAlone ==
    ASSUME Typed, Alone, NEW r \in Calls, LoseCall(r), KeepsLaunch
    PROVE  Alone'
<1>1. lost' # 0
  BY DEF LoseCall, Typed
<1>2. Acts(r) /\ AloneFits(calls[r])'
  BY AnsweredNow, ItActs, NothingWatched DEF LoseCall, Alone, Answer
<1>3. DidsDiffer' /\ AuthUsersDiffer' /\ refused' = {} /\ signed' \subseteq {toolKey'}
  BY DEF LoseCall, Alone, DidsDiffer, AuthUsersDiffer, Owner, learnerVars, accountVars, historyVars,
         KeepsLaunch, launchVars
<1> QED
  BY <1>1, <1>2, <1>3, AloneStays

-----------------------------------------------------------------------------
(* The launches and the tool's key.                                          *)

\* The steps whose requests hold nothing that is watched.
LEMMA LaunchPlainAlone ==
    ASSUME Typed, Alone, NEW r \in Calls,
           \/ UpsertDeployment(r) \/ StoreNonce(r)
           \/ FindConfig(r) \/ ConsumeNonce(r) \/ StoreSession(r)
           \/ OpenLaunch(r) \/ PlaceLink(r)
    PROVE  Alone'
<1>1. Spares /\ signed' \subseteq {toolKey'}
  BY DEF UpsertDeployment, StoreNonce, FindConfig, ConsumeNonce, StoreSession, OpenLaunch, PlaceLink,
         KeepsTables, KeepsLaunch, launchVars, learnerVars, accountVars, historyVars, Spares, Alone
<1>2. ~At(r, "idle") /\ calls[r].stage \notin Promising
  BY DEF UpsertDeployment, StoreNonce, FindConfig, ConsumeNonce, StoreSession, OpenLaunch, PlaceLink,
         At, Promising
<1>3. Answer(r) \/ \E s : s \notin Watched /\ MoveTo(r, s)
  BY DEF UpsertDeployment, StoreNonce, FindConfig, ConsumeNonce, StoreSession, OpenLaunch, PlaceLink,
         Watched
<1> QED
  BY <1>1, <1>2, <1>3, PlainAlone

LEMMA CheckTemplateAlone ==
    ASSUME Typed, Alone, NEW r \in Calls, CheckTemplate(r)
    PROVE  Alone'
<1>1. Spares /\ signed' \subseteq {toolKey'} /\ ~At(r, "idle") /\ calls[r].stage \notin Promising
  BY DEF CheckTemplate, KeepsTables, KeepsLaunch, launchVars, learnerVars, accountVars, historyVars,
         Spares, Alone, At, Promising
<1>2. CASE Answer(r)
  BY <1>1, <1>2, PlainAlone
<1>3. CASE Hold(r, [calls[r] EXCEPT !.key = calls[r].subject, !.stage = "find"])
  <2>1. PICK d : d = [calls[r] EXCEPT !.key = calls[r].subject, !.stage = "find"]
    OBVIOUS
  <2>2. calls[r] \in LaunchCalls
    BY StageAt, KindAt DEF CheckTemplate, At, Typed
  <2>3. d.stage \notin Watched
    BY <2>1, <2>2 DEF LaunchCalls, Watched
  <2> QED
    BY <1>1, <1>3, <2>1, <2>3, PlainAlone
<1> QED
  BY <1>2, <1>3 DEF CheckTemplate

\* A request that has the stored key in its hand publishes that one, or goes on with it.
LEMMA KeyInHandAlone ==
    ASSUME Typed, Alone, NEW r \in Calls, calls[r].stage \in {"key", "newKey"}, Spares,
           KeyInHand(r, toolKey'), signed \subseteq {toolKey'}
    PROVE  Alone'
<1>1. signed' \subseteq {toolKey'}
  BY DEF KeyInHand
<1>2. ~At(r, "idle") /\ calls[r].stage \notin Promising
  BY DEF At, Promising
<1>3. CASE calls[r].op = "jwks"
  BY <1>1, <1>2, <1>3, PlainAlone DEF KeyInHand
<1>4. CASE calls[r].op # "jwks"
  <2>1. PICK d : d = [calls[r] EXCEPT !.key = toolKey', !.stage = AfterKey(calls[r])]
    OBVIOUS
  <2>2. Hold(r, d)
    BY <1>4, <2>1 DEF KeyInHand
  <2>3. calls[r] \in LoginCalls \cup LaunchCalls \cup SelectCalls
    BY <1>4, StageAt, KindAt DEF Typed
  <2>4. d.stage \in {"storeNonce", "config"} \/ (d.stage = "select" /\ d.key = toolKey')
    BY <2>1, <2>3 DEF AfterKey, LoginCalls, LaunchCalls, SelectCalls
  <2>5. Acts(r) /\ calls'[r] = d
    BY <1>2, <2>2, ItActs, HeldNow DEF Alone
  <2>6. AloneFits(calls[r])'
    BY <2>4, <2>5 DEF AloneFits
  <2> QED
    BY <1>1, <1>2, <2>5, <2>6, SparedAlone
<1> QED
  BY <1>3, <1>4

LEMMA FindKeyAlone ==
    ASSUME Typed, Alone, NEW r \in Calls, FindKey(r)
    PROVE  Alone'
<1>1. Spares /\ toolKey' = toolKey /\ calls[r].stage = "key"
  BY DEF FindKey, KeepsTables, learnerVars, accountVars, historyVars, Spares, At
<1>2. CASE toolKey = None
  <2>1. MoveTo(r, "newKey") /\ signed' = signed
    BY <1>2 DEF FindKey, KeyFound
  <2>2. calls'[r].stage = "newKey" /\ Acts(r)
    BY <1>1, <2>1, MovedTo, ItActs DEF Alone, MoveTo, At
  <2>3. AloneFits(calls[r])'
    BY <1>1, <1>2, <2>2 DEF AloneFits
  <2> QED
    BY <1>1, <2>1, <2>2, <2>3, SparedAlone DEF Alone, Promising
<1>3. CASE toolKey # None
  BY <1>1, <1>3, KeyInHandAlone DEF FindKey, KeyFound, Alone
<1> QED
  BY <1>2, <1>3

\* The key is made where there was none, so nothing was signed.
LEMMA CreateKeyAlone ==
    ASSUME Typed, Alone, NEW r \in Calls, CreateKey(r)
    PROVE  Alone'
<1>1. Spares /\ calls[r].stage = "newKey"
  BY DEF CreateKey, KeepsTables, learnerVars, accountVars, historyVars, Spares, At
<1>2. signed = {}
  BY <1>1, LaunchAssumption DEF Alone, AloneFits, Typed
<1>3. KeyInHand(r, toolKey')
  BY DEF CreateKey
<1> QED
  BY <1>1, <1>2, <1>3, KeyInHandAlone

LEMMA SelectAlone ==
    ASSUME Typed, Alone, NEW r \in Calls, Select(r)
    PROVE  Alone'
<1>1. Spares /\ calls[r].stage = "select" /\ toolKey' = toolKey
  BY DEF Select, KeepsTables, learnerVars, accountVars, historyVars, Spares, At
<1>2. calls[r].key = toolKey
  BY <1>1, StageAt DEF Alone, AloneFits, Typed
<1>3. signed' \subseteq {toolKey'}
  BY <1>1, <1>2 DEF Select, Alone
<1> QED
  BY <1>1, <1>3, PlainAlone DEF Select, At, Promising

LEMMA AsksAlone ==
    ASSUME Typed, Alone, NEW r \in Calls, ~overlapped',
           \/ AskKeys(r)
           \/ \E n \in Nonces : AskLogin(r, n) \/ AskSelect(r, n)
           \/ \E n \in Nonces, c \in LaunchClaims : AskLaunch(r, n, c)
    PROVE  Alone'
<1>1. CASE AskKeys(r)
  <2>1. PICK d : d = [op |-> "jwks", stage |-> "key"]
    OBVIOUS
  <2>2. d.stage \notin Watched
    BY <2>1 DEF Watched
  <2> QED
    BY <1>1, <2>1, <2>2, ReceiveAlone DEF AskKeys
<1>2. ASSUME NEW n \in Nonces, AskLogin(r, n)
      PROVE  Alone'
  <2>1. PICK d : d = [op |-> "login", stage |-> "deploy", nonce |-> n, key |-> None]
    OBVIOUS
  <2>2. d.stage \notin Watched
    BY <2>1 DEF Watched
  <2> QED
    BY <1>2, <2>1, <2>2, ReceiveAlone DEF AskLogin
<1>3. ASSUME NEW n \in Nonces, AskSelect(r, n)
      PROVE  Alone'
  <2>1. PICK d : d = [op |-> "select", stage |-> "key", nonce |-> n, key |-> None]
    OBVIOUS
  <2>2. d.stage \notin Watched
    BY <2>1 DEF Watched
  <2> QED
    BY <1>3, <2>1, <2>2, ReceiveAlone DEF AskSelect
<1>4. ASSUME NEW n \in Nonces, NEW c \in LaunchClaims, AskLaunch(r, n, c)
      PROVE  Alone'
  <2>1. PICK d : d = [op |-> "launch", stage |-> "key", nonce |-> n, key |-> None,
                      subject |-> c.subject, claims |-> c.claims,
                      email |-> c.email, instructor |-> c.instructor,
                      claimed |-> {c.claims[i] : i \in DOMAIN c.claims},
                      template |-> c.template, profile |-> None, auth |-> None]
    OBVIOUS
  <2>2. d.stage \notin Watched
    BY <2>1 DEF Watched
  <2> QED
    BY <1>4, <2>1, <2>2, ReceiveAlone DEF AskLaunch
<1> QED
  BY <1>1, <1>2, <1>3, <1>4

LEMMA LaunchStepAlone ==
    ASSUME Typed, Alone, NEW r \in Calls, LaunchStep(r), ~overlapped'
    PROVE  Alone'
  BY LaunchPlainAlone, CheckTemplateAlone, FindKeyAlone, CreateKeyAlone, SelectAlone, AsksAlone
     DEF LaunchStep

-----------------------------------------------------------------------------
(* The learner's identities. An insertion gives a value that was nobody's to *)
(* a learner and takes none away.                                            *)

LEMMA NobodysValue ==
    ASSUME Typed, NEW p \in profiles
    PROVE  p # None
  BY ValuesTyped DEF Typed

\* What an insertion leaves: the other values, and so every learner's primary one.
LEMMA Inserted ==
    ASSUME Typed, NEW v \in Values, NEW p \in profiles, NEW primary \in BOOLEAN, ValueFree(v),
           identities' = [identities EXCEPT ![v] = Alias(p, primary)]
    PROVE  /\ \A w \in Values : w # v => identities'[w] = identities[w]
           /\ identities'[v].profile = p /\ identities'[v].primary = primary
           /\ \A q \in profiles : PrimaryOf(q) # {} => PrimaryOf(q)' # {}
           /\ primary => PrimaryOf(p)' # {}
           /\ v \notin Dids /\ DidsDiffer => DidsDiffer'
<1>1. /\ \A w \in Values : w # v => identities'[w] = identities[w]
      /\ identities'[v].profile = p /\ identities'[v].primary = primary
  BY DEF Typed, Alias
<1>2. ASSUME NEW q \in profiles, PrimaryOf(q) # {}
      PROVE  PrimaryOf(q)' # {}
  <2>1. PICK w \in Values : identities[w].profile = q /\ identities[w].primary
    BY <1>2 DEF PrimaryOf
  <2>2. w # v
    BY <2>1, NobodysValue DEF ValueFree, Owner
  <2> QED
    BY <1>1, <2>1, <2>2 DEF PrimaryOf
<1>3. primary => PrimaryOf(p)' # {}
  BY <1>1 DEF PrimaryOf
<1>4. v \notin Dids /\ DidsDiffer => DidsDiffer'
  BY <1>1, ValuesTyped DEF DidsDiffer, Owner
<1> QED
  BY <1>1, <1>2, <1>3, <1>4

\* A step that writes no account, no key and no signature.
SparesAccounts == UNCHANGED <<profiles, authUsers, refused, lost, toolKey, signed>>

LEMMA LearnerSpares ==
    ASSUME Unchanged \/ UNCHANGED <<profiles, proofs, accountVars, begun, lost, historyVars>>,
           KeepsLaunch
    PROVE  SparesAccounts
  BY DEF Unchanged, KeepsLaunch, launchVars, learnerVars, accountVars, historyVars, SparesAccounts

\* A request that only reads, and goes on with nothing watched.
LEMMA ReadAlone ==
    ASSUME Typed, Alone, NEW r \in Calls, calls[r].stage \notin Promising, ~At(r, "idle"),
           Unchanged, KeepsLaunch,
           \/ Answer(r)
           \/ \E s : s \notin Watched /\ MoveTo(r, s)
           \/ \E d : d.stage \notin Watched /\ Hold(r, d)
    PROVE  Alone'
<1>1. Spares /\ signed' \subseteq {toolKey'}
  BY DEF Unchanged, KeepsLaunch, launchVars, learnerVars, accountVars, historyVars, Spares, Alone
<1> QED
  BY <1>1, PlainAlone

\* An insertion after which the request goes on with nothing watched, or its failure.
TriesInsertion(r, v, p, primary) ==
    /\ IF Insertable(v, p, primary)
       THEN /\ identities' = [identities EXCEPT ![v] = Alias(p, primary)]
            /\ calls'[r].stage \notin Watched /\ \E d : Hold(r, d)
       ELSE Answer(r) /\ UNCHANGED identities
    /\ UNCHANGED <<profiles, proofs, accountVars, begun, lost, historyVars>>

\* The value is no DID; and where a primary identity was promised it is inserted.
LEMMA InsertAlone ==
    ASSUME Typed, Alone, NEW r \in Calls, ~At(r, "idle"), KeepsLaunch,
           NEW v \in Values \ Dids, NEW p \in profiles, NEW primary \in BOOLEAN,
           TriesInsertion(r, v, p, primary),
           calls[r].stage \in Promising => primary /\ Insertable(v, p, primary),
           \A q : Promises(calls[r], q) => q = p
    PROVE  Alone'
<1>1. SparesAccounts
  BY LearnerSpares DEF TriesInsertion
<1>2. AuthUsersDiffer' /\ refused' = {} /\ signed' \subseteq {toolKey'}
  BY <1>1 DEF SparesAccounts, Alone, AuthUsersDiffer
<1>3. CASE ~Insertable(v, p, primary)
  <2>1. Answer(r) /\ identities' = identities
    BY <1>3 DEF TriesInsertion
  <2> QED
    BY <1>1, <1>2, <1>3, <2>1, PlainAlone DEF SparesAccounts, Spares
<1>4. CASE Insertable(v, p, primary)
  <2>1. /\ identities' = [identities EXCEPT ![v] = Alias(p, primary)] /\ ValueFree(v)
        /\ calls'[r].stage \notin Watched /\ Acts(r)
    BY <1>4, ItActs DEF TriesInsertion, Insertable, Alone
  <2>2. /\ \A q \in profiles : PrimaryOf(q) # {} => PrimaryOf(q)' # {}
        /\ primary => PrimaryOf(p)' # {}
        /\ DidsDiffer'
    BY <2>1, Inserted DEF Alone
  <2>3. ASSUME lost = 0, NEW q \in profiles
        PROVE  PrimaryOf(q)' # {}
    <3>1. CASE q = p /\ primary
      BY <2>2, <3>1
    <3>2. CASE ~(q = p /\ primary)
      <4>1. \A c \in Calls : ~Promises(calls[c], q)
        BY <2>1, <3>2 DEF Promises, Acts, At, Promising
      <4> QED
        BY <2>2, <2>3, <4>1 DEF Alone, PrimaryKept
    <3> QED
      BY <3>1, <3>2
  <2>4. lost' = 0 => \A q \in profiles' : PrimaryOf(q)' # {}
    BY <1>1, <2>3 DEF SparesAccounts
  <2> QED
    BY <1>2, <2>1, <2>2, <2>4, NothingWatched, AloneStays
<1> QED
  BY <1>3, <1>4

LEMMA FindingMoved ==
    ASSUME NEW c \in Requests, c.stage \in Finding, NEW p, NEW s
    PROVE  /\ [c EXCEPT !.stage = s].key = c.key /\ [c EXCEPT !.stage = s].profile = c.profile
           /\ [c EXCEPT !.stage = s].stage = s
           /\ [c EXCEPT !.profile = p, !.stage = s].key = c.key
           /\ [c EXCEPT !.profile = p, !.stage = s].profile = p
           /\ [c EXCEPT !.profile = p, !.stage = s].stage = s
           /\ WithProfile(c, p).stage \in {"claim", "did", "target"}
<1>1. c.op \in {"launch", "did", "prove"}
  BY StageAt
<1>2. CASE c.op = "launch"
  BY <1>2, KindAt DEF LaunchCalls, WithProfile, AfterProfile
<1>3. CASE c.op = "did"
  BY <1>3, KindAt DEF DidCalls, WithProfile, AfterProfile
<1>4. CASE c.op = "prove"
  BY <1>4, KindAt DEF ProveCalls, WithProfile, AfterProfile
<1> QED
  BY <1>1, <1>2, <1>3, <1>4

LEMMA FindProfileAlone ==
    ASSUME Typed, CallsFit, Alone, NEW r \in Calls, FindProfile(r), KeepsLaunch
    PROVE  Alone'
<1>1. PICK c : c = calls[r]
  OBVIOUS
<1>2. c \in Requests /\ Fits(c) /\ c.stage = "find" /\ c.stage \in Finding
  BY <1>1 DEF FindProfile, At, Typed, CallsFit, Finding
<1>3. calls[r].stage \notin Promising /\ ~At(r, "idle") /\ Unchanged
  BY <1>1, <1>2 DEF FindProfile, At, Promising
<1>4. CASE Owner(c.key) = None
  <2>1. MoveTo(r, "create")
    BY <1>1, <1>4 DEF FindProfile
  <2>2. Acts(r) /\ calls'[r] = [c EXCEPT !.stage = "create"]
    BY <1>1, <1>3, <2>1, ItActs, HeldNow DEF Alone, MoveTo
  <2>3. calls'[r].stage = "create" /\ calls'[r].key = c.key
    BY <1>2, <2>2, FindingMoved
  <2>4. Spares /\ signed' \subseteq {toolKey'}
    BY <1>3 DEF Unchanged, KeepsLaunch, launchVars, learnerVars, accountVars, historyVars, Spares, Alone
  <2>5. AloneFits(calls[r])'
    BY <1>4, <2>3, <2>4 DEF AloneFits, ValueFree, Owner, Spares
  <2> QED
    BY <1>3, <2>2, <2>4, <2>5, SparedAlone
<1>5. CASE Owner(c.key) # None
  <2>1. PICK d : d = WithProfile(c, Owner(c.key))
    OBVIOUS
  <2>2. Hold(r, d)
    BY <1>1, <1>5, <2>1 DEF FindProfile
  <2>3. d.stage \notin Watched
    BY <1>2, <2>1, FindingMoved DEF Watched
  <2> QED
    BY <1>3, <2>2, <2>3, ReadAlone
<1> QED
  BY <1>4, <1>5

\* The profile is a new one, so it has no identity yet.
LEMMA CreateProfileAlone ==
    ASSUME Typed, CallsFit, Alone, NEW r \in Calls, CreateProfile(r), KeepsLaunch
    PROVE  Alone'
<1>1. PICK c : c = calls[r]
  OBVIOUS
<1>2. c \in Requests /\ c.stage = "create" /\ c.stage \in Finding
  BY <1>1 DEF CreateProfile, At, Typed, Finding
<1>3. PICK p \in Profiles \ profiles : /\ profiles' = profiles \cup {p}
                                       /\ Hold(r, [c EXCEPT !.profile = p, !.stage = "primary"])
  BY <1>1 DEF CreateProfile
<1>4. UNCHANGED <<identities, authUsers, refused, lost, toolKey, signed>>
  BY DEF CreateProfile, KeepsLaunch, launchVars, accountVars, historyVars
<1>5. Acts(r) /\ calls'[r] = [c EXCEPT !.profile = p, !.stage = "primary"]
  BY <1>1, <1>2, <1>3, ItActs, HeldNow DEF Alone, At
<1>6. calls'[r].stage = "primary" /\ calls'[r].key = c.key /\ calls'[r].profile = p
  BY <1>2, <1>5, FindingMoved
<1>7. ValueFree(c.key)
  BY <1>1, <1>2 DEF Alone, AloneFits
<1>8. PrimaryOf(p) = {}
  BY <1>3, ValuesTyped DEF PrimaryOf, Typed
<1>9. AloneFits(calls[r])'
  BY <1>4, <1>6, <1>7, <1>8 DEF AloneFits, ValueFree, Owner, PrimaryOf
<1>10. DidsDiffer' /\ AuthUsersDiffer' /\ refused' = {} /\ signed' \subseteq {toolKey'}
  BY <1>4 DEF Alone, DidsDiffer, AuthUsersDiffer, Owner
<1>11. ASSUME lost' = 0, NEW q \in profiles'
       PROVE  PrimaryOf(q)' # {} \/ Promises(calls[r], q)'
  <2>1. CASE q = p
    BY <1>6, <2>1 DEF Promises
  <2>2. CASE q \in profiles
    <3>1. PrimaryOf(q) # {}
      BY <1>1, <1>2, <1>4, <1>5, <1>11, <2>2, EachHasPrimary DEF Promising
    <3> QED
      BY <1>4, <3>1 DEF PrimaryOf
  <2> QED
    BY <1>3, <1>11, <2>1, <2>2
<1> QED
  BY <1>5, <1>9, <1>10, <1>11, AloneStays

LEMMA AddPrimaryAlone ==
    ASSUME Typed, CallsFit, Alone, NEW r \in Calls, AddPrimary(r), KeepsLaunch
    PROVE  Alone'
<1>1. PICK c : c = calls[r]
  OBVIOUS
<1>2. c \in Requests /\ Fits(c) /\ c.stage = "primary" /\ c.stage \in Finding
  BY <1>1 DEF AddPrimary, At, Typed, CallsFit, Finding
<1>3. c.key \in Values \ Dids /\ c.profile \in profiles
  BY <1>2, KeyOfFinding DEF Fits, ProfileFits
<1>4. Insertable(c.key, c.profile, TRUE)
  BY <1>1, <1>2 DEF Alone, AloneFits, Insertable
<1>5. PICK d : d = WithProfile(c, c.profile)
  OBVIOUS
<1>6. Hold(r, d) /\ identities' = [identities EXCEPT ![c.key] = Alias(c.profile, TRUE)]
      /\ UNCHANGED <<profiles, proofs, accountVars, begun, lost, historyVars>>
  BY <1>1, <1>4, <1>5 DEF AddPrimary, InsertAlias
<1>7. calls'[r].stage \notin Watched
  BY <1>2, <1>5, <1>6, FindingMoved, HeldNow DEF Watched
<1>8. TriesInsertion(r, c.key, c.profile, TRUE)
  BY <1>4, <1>6, <1>7 DEF TriesInsertion
<1>9. \A q : Promises(calls[r], q) => q = c.profile
  BY <1>1, <1>2 DEF Promises
<1>10. ~At(r, "idle")
  BY <1>1, <1>2 DEF At
<1> QED
  BY <1>3, <1>4, <1>8, <1>9, <1>10, InsertAlone

LEMMA SettingsReadAlone ==
    ASSUME Typed, Alone, NEW r \in Calls, CheckDid(r) \/ CheckTarget(r) \/ CheckProof(r), KeepsLaunch
    PROVE  Alone'
<1>1. calls[r].stage \notin Promising /\ ~At(r, "idle") /\ Unchanged
  BY DEF CheckDid, CheckTarget, CheckProof, At, Promising
<1>2. Answer(r) \/ \E s : s \notin Watched /\ MoveTo(r, s)
  BY DEF CheckDid, CheckTarget, CheckProof, Watched
<1> QED
  BY <1>1, <1>2, ReadAlone

\* No DID is primary, so removing a learner's leaves every primary identity.
LEMMA RemoveDidsAlone ==
    ASSUME Typed, CallsFit, RowsFit, Alone, NEW r \in Calls, RemoveDids(r), KeepsLaunch
    PROVE  Alone'
<1>1. PICK c : c = calls[r]
  OBVIOUS
<1>2. c \in DidCalls /\ c.profile \in profiles /\ c.stage = "removeDid"
  BY <1>1, ItsSettings DEF RemoveDids, At, Typed, CallsFit
<1>3. UNCHANGED <<profiles, authUsers, refused, lost, toolKey, signed>>
  BY DEF RemoveDids, KeepsLaunch, launchVars, accountVars, historyVars
<1>4. identities' = [v \in Values |-> IF v \in DidsOf(c.profile) THEN NoIdentity ELSE identities[v]]
  BY <1>1 DEF RemoveDids
<1>5. /\ \A v \in Values : v \notin DidsOf(c.profile) => identities'[v] = identities[v]
      /\ \A v \in Values : v \in DidsOf(c.profile) => identities'[v].profile = None
  BY <1>4 DEF NoIdentity
<1>6. DidsOf(c.profile)' = {}
  BY <1>2, <1>5, NobodysValue, ValuesTyped DEF DidsOf, Owner
<1>7. DidsDiffer'
  BY <1>5, ValuesTyped DEF Alone, DidsDiffer, DidsOf, Owner
<1>8. ASSUME NEW q \in profiles, PrimaryOf(q) # {}
      PROVE  PrimaryOf(q)' # {}
  <2>1. PICK v \in Values : identities[v].profile = q /\ identities[v].primary
    BY <1>8 DEF PrimaryOf
  <2>2. v \notin DidsOf(c.profile)
    BY <2>1 DEF DidsOf, RowsFit, PrimariesFit
  <2> QED
    BY <1>5, <2>1, <2>2 DEF PrimaryOf
<1>9. /\ calls'[r] = NoCall \/ (calls'[r].stage = "addDid" /\ calls'[r].profile = c.profile)
      /\ Acts(r)
  <2>1. CASE Answer(r)
    BY <1>1, <1>2, <2>1, AnsweredNow, ItActs DEF Alone, Answer, At
  <2>2. CASE MoveTo(r, "addDid")
    <3>1. calls'[r] = [c EXCEPT !.stage = "addDid"] /\ Acts(r)
      BY <1>1, <1>2, <2>2, HeldNow, ItActs DEF Alone, MoveTo, At
    <3> QED
      BY <1>2, <3>1 DEF DidCalls
  <2> QED
    BY <2>1, <2>2 DEF RemoveDids
<1>10. AloneFits(calls[r])'
  BY <1>6, <1>9 DEF AloneFits, NoCall
<1>11. ASSUME lost' = 0, NEW q \in profiles'
       PROVE  PrimaryOf(q)' # {}
  BY <1>1, <1>2, <1>3, <1>8, <1>9, <1>11, EachHasPrimary DEF Promising
<1>12. AuthUsersDiffer' /\ refused' = {} /\ signed' \subseteq {toolKey'}
  BY <1>3 DEF Alone, AuthUsersDiffer
<1> QED
  BY <1>7, <1>9, <1>10, <1>11, <1>12, AloneStays

LEMMA AddDidAlone ==
    ASSUME Typed, CallsFit, Alone, NEW r \in Calls, AddDid(r), KeepsLaunch
    PROVE  Alone'
<1>1. PICK c : c = calls[r]
  OBVIOUS
<1>2. c \in DidCalls /\ c.profile \in profiles /\ c.stage = "addDid" /\ c.did \in Dids
  BY <1>1, ItsSettings DEF AddDid, At, Typed, CallsFit, DidCalls, Finding
<1>3. UNCHANGED <<profiles, authUsers, refused, lost, toolKey, signed>> /\ Answer(r)
  BY DEF AddDid, InsertAlias, KeepsLaunch, launchVars, accountVars, historyVars
<1>4. Acts(r) /\ AloneFits(calls[r])'
  BY <1>1, <1>2, <1>3, AnsweredNow, ItActs, NothingWatched DEF Alone, Answer, At
<1>5. AuthUsersDiffer' /\ refused' = {} /\ signed' \subseteq {toolKey'}
  BY <1>3 DEF Alone, AuthUsersDiffer
<1>6. CASE Insertable(c.did, c.profile, FALSE)
  <2>1. identities' = [identities EXCEPT ![c.did] = Alias(c.profile, FALSE)] /\ ValueFree(c.did)
    BY <1>1, <1>6 DEF AddDid, InsertAlias, Insertable
  <2>2. DidsOf(c.profile) = {}
    BY <1>1, <1>2 DEF Alone, AloneFits
  <2>3. /\ \A w \in Values : w # c.did => identities'[w] = identities[w]
        /\ identities'[c.did].profile = c.profile
        /\ \A q \in profiles : PrimaryOf(q) # {} => PrimaryOf(q)' # {}
    BY <1>2, <2>1, Inserted, ValuesTyped
  <2>4. DidsDiffer'
    BY <1>2, <2>2, <2>3, ValuesTyped DEF Alone, DidsDiffer, DidsOf, Owner
  <2>5. ASSUME lost' = 0, NEW q \in profiles'
        PROVE  PrimaryOf(q)' # {}
    BY <1>1, <1>2, <1>3, <1>4, <2>3, <2>5, EachHasPrimary DEF Promising
  <2> QED
    BY <1>4, <1>5, <2>4, <2>5, AloneStays
<1>7. CASE ~Insertable(c.did, c.profile, FALSE)
  <2>1. identities' = identities
    BY <1>1, <1>7 DEF AddDid, InsertAlias
  <2> QED
    BY <1>1, <1>2, <1>3, <1>4, <1>5, <2>1, SparedAlone DEF Spares, Promising
<1> QED
  BY <1>6, <1>7

LEMMA ProofStepAlone ==
    ASSUME Typed, Alone, NEW r \in Calls, CreateProof(r) \/ MarkUsed(r), KeepsLaunch
    PROVE  Alone'
<1>1. Spares /\ signed' \subseteq {toolKey'} /\ Answer(r)
  BY DEF CreateProof, MarkUsed, KeepsLaunch, launchVars, accountVars, historyVars, Spares, Alone
<1>2. ~At(r, "idle") /\ calls[r].stage \notin Promising
  BY DEF CreateProof, MarkUsed, At, Promising
<1> QED
  BY <1>1, <1>2, PlainAlone

LEMMA VerificationMoved ==
    ASSUME NEW c \in VerifyCalls, NEW s
    PROVE  [c EXCEPT !.stage = s].stage = s /\ [c EXCEPT !.stage = s].proof = c.proof
  BY DEF VerifyCalls

LEMMA CheckProofOwnerAlone ==
    ASSUME Typed, CallsFit, RowsFit, Alone, NEW r \in Calls, CheckProofOwner(r), KeepsLaunch
    PROVE  Alone'
<1>1. PICK c : c = calls[r]
  OBVIOUS
<1>2. c \in VerifyCalls /\ c.stage = "proofOwner"
  BY <1>1, StageAt, KindAt DEF CheckProofOwner, At, Typed
<1>3. calls[r].stage \notin Promising /\ ~At(r, "idle") /\ Unchanged
  BY <1>1, <1>2 DEF CheckProofOwner, At, Promising
<1>4. PICK f : f = proofs[c.proof]
  OBVIOUS
<1>5. CASE Answer(r) \/ MoveTo(r, "mark")
  BY <1>3, <1>5, ReadAlone DEF Watched
<1>6. CASE MoveTo(r, "clear") /\ Owner(f.email) = None
  <2>1. Acts(r) /\ calls'[r] = [c EXCEPT !.stage = "clear"]
    BY <1>1, <1>3, <1>6, ItActs, HeldNow DEF Alone, MoveTo
  <2>2. calls'[r].stage = "clear" /\ calls'[r].proof = c.proof
    BY <1>2, <2>1, VerificationMoved
  <2>3. Spares /\ proofs' = proofs /\ signed' \subseteq {toolKey'}
    BY <1>3 DEF Unchanged, KeepsLaunch, launchVars, learnerVars, accountVars, historyVars, Spares, Alone
  <2>4. AloneFits(calls[r])'
    BY <1>4, <1>6, <2>2, <2>3 DEF AloneFits, ValueFree, Owner, Spares, ItsProof
  <2> QED
    BY <1>3, <2>1, <2>3, <2>4, SparedAlone
<1> QED
  BY <1>1, <1>4, <1>5, <1>6 DEF CheckProofOwner, Foreign, AfterProofOwner

\* The learner whose primary identity is cleared is promised the proven one.
LEMMA ClearPrimaryAlone ==
    ASSUME Typed, CallsFit, RowsFit, Alone, NEW r \in Calls, ClearPrimary(r), KeepsLaunch
    PROVE  Alone'
<1>1. PICK c : c = calls[r]
  OBVIOUS
<1>2. c \in VerifyCalls /\ c.stage = "clear"
  BY <1>1, StageAt, KindAt DEF ClearPrimary, At, Typed
<1>3. PICK f : f = proofs[c.proof]
  OBVIOUS
<1>4. c \in Requests /\ Fits(c)
  BY <1>1 DEF Typed, CallsFit
<1>5. f.profile \in profiles /\ f.email \in Emails
  BY <1>2, <1>3, <1>4, ItsVerification
<1>6. UNCHANGED <<profiles, proofs, authUsers, refused, lost, toolKey, signed>>
  BY DEF ClearPrimary, KeepsLaunch, launchVars, accountVars, historyVars
<1>7. /\ \A v \in Values : identities'[v].profile = identities[v].profile
      /\ \A v \in Values : Owner(v) = f.profile => ~identities'[v].primary
      /\ \A v \in Values : Owner(v) # f.profile => identities'[v] = identities[v]
  BY <1>1, <1>3 DEF ClearPrimary, Typed
<1>8. /\ Acts(r) /\ calls'[r] = [c EXCEPT !.stage = "addEmail"]
  BY <1>1, <1>2, ItActs, HeldNow DEF ClearPrimary, Alone, MoveTo, At
<1>9. calls'[r].stage = "addEmail" /\ calls'[r].proof = c.proof
  BY <1>2, <1>8, VerificationMoved
<1>10. ValueFree(f.email)
  BY <1>1, <1>2, <1>3 DEF Alone, AloneFits, ItsProof
<1>11. PrimaryOf(f.profile)' = {} /\ ValueFree(f.email)'
  BY <1>5, <1>7, <1>10, ValuesTyped DEF PrimaryOf, ValueFree, Owner
<1>12. AloneFits(calls[r])'
  BY <1>3, <1>6, <1>9, <1>11 DEF AloneFits, ItsProof
<1>13. ASSUME lost' = 0, NEW q \in profiles'
       PROVE  PrimaryOf(q)' # {} \/ Promises(calls[r], q)'
  <2>1. CASE q = f.profile
    BY <1>3, <1>6, <1>9, <2>1 DEF Promises, ItsProof
  <2>2. CASE q # f.profile
    <3>1. PrimaryOf(q) # {}
      BY <1>1, <1>2, <1>6, <1>8, <1>13, EachHasPrimary DEF Promising
    <3> QED
      BY <1>7, <2>2, <3>1 DEF PrimaryOf, Owner
  <2> QED
    BY <2>1, <2>2
<1>14. DidsDiffer' /\ AuthUsersDiffer' /\ refused' = {} /\ signed' \subseteq {toolKey'}
  BY <1>6, <1>7, ValuesTyped DEF Alone, DidsDiffer, AuthUsersDiffer, Owner
<1> QED
  BY <1>8, <1>12, <1>13, <1>14, AloneStays

LEMMA AddProvenAlone ==
    ASSUME Typed, CallsFit, RowsFit, Alone, NEW r \in Calls, AddProven(r), KeepsLaunch
    PROVE  Alone'
<1>1. PICK c : c = calls[r]
  OBVIOUS
<1>2. c \in Requests /\ Fits(c) /\ c.stage = "addEmail"
  BY <1>1 DEF AddProven, At, Typed, CallsFit
<1>3. PICK f : f = proofs[c.proof]
  OBVIOUS
<1>4. c \in VerifyCalls /\ f.profile \in profiles /\ f.email \in Values \ Dids
  BY <1>2, <1>3, ItsVerification, ValuesTyped
<1>5. Insertable(f.email, f.profile, TRUE)
  BY <1>1, <1>2, <1>3 DEF Alone, AloneFits, Insertable, ItsProof
<1>6. MoveTo(r, "mark") /\ identities' = [identities EXCEPT ![f.email] = Alias(f.profile, TRUE)]
      /\ UNCHANGED <<profiles, proofs, accountVars, begun, lost, historyVars>>
  BY <1>1, <1>3, <1>5 DEF AddProven, InsertAlias, ProvenIsPrimary
<1>7. calls'[r].stage \notin Watched /\ \E d : Hold(r, d)
  BY <1>6, MovedTo DEF Watched, MoveTo
<1>8. TriesInsertion(r, f.email, f.profile, TRUE)
  BY <1>5, <1>6, <1>7 DEF TriesInsertion
<1>9. \A q : Promises(calls[r], q) => q = f.profile
  BY <1>1, <1>2, <1>3 DEF Promises, ItsProof
<1>10. ~At(r, "idle")
  BY <1>1, <1>2 DEF At
<1> QED
  BY <1>4, <1>5, <1>8, <1>9, <1>10, InsertAlone

LEMMA LearnerStepAlone ==
    ASSUME Typed, CallsFit, RowsFit, Alone, NEW r \in Calls, LearnerStep(r), KeepsLaunch
    PROVE  Alone'
  BY FindProfileAlone, CreateProfileAlone, AddPrimaryAlone, SettingsReadAlone, RemoveDidsAlone,
     AddDidAlone, ProofStepAlone, CheckProofOwnerAlone, ClearPrimaryAlone, AddProvenAlone
     DEF LearnerStep

-----------------------------------------------------------------------------
(* The accounts.                                                             *)

LEMMA AccountPlainAlone ==
    ASSUME Typed, Alone, NEW r \in Calls, KeepsLaunch,
           \/ UpsertUser(r) \/ UpsertRole(r) \/ LinkAuthUser(r)
           \/ FindLinkOfAuthUser(r) \/ BindAuthUser(r)
    PROVE  Alone'
<1>1. Spares /\ signed' \subseteq {toolKey'}
  BY DEF UpsertUser, UpsertRole, LinkAuthUser, FindLinkOfAuthUser, BindAuthUser, InsertLink,
         KeepsLaunch, launchVars, learnerVars, historyVars, Spares, Alone
<1>2. ~At(r, "idle") /\ calls[r].stage \notin Promising
  BY DEF UpsertUser, UpsertRole, LinkAuthUser, FindLinkOfAuthUser, BindAuthUser, At, Promising
<1>3. Answer(r) \/ \E s : s \notin Watched /\ MoveTo(r, s)
  BY DEF UpsertUser, UpsertRole, LinkAuthUser, FindLinkOfAuthUser, BindAuthUser, InsertLink, Watched
<1> QED
  BY <1>1, <1>2, <1>3, PlainAlone

\* What a launch holds when only its stage, or its Better Auth user, changes.
LEMMA LaunchMoved ==
    ASSUME NEW c \in LaunchCalls, NEW a, NEW s
    PROVE  /\ [c EXCEPT !.stage = s].stage = s /\ [c EXCEPT !.stage = s].email = c.email
           /\ [c EXCEPT !.auth = a, !.stage = s].stage = s
           /\ [c EXCEPT !.claims = Tail(c.claims)].stage = c.stage
           /\ [c EXCEPT !.claims = Tail(c.claims), !.stage = s].stage = s
  BY DEF LaunchCalls

LEMMA CheckClaimAlone ==
    ASSUME Typed, Alone, NEW r \in Calls, CheckClaim(r), KeepsLaunch
    PROVE  Alone'
<1>1. PICK c : c = calls[r]
  OBVIOUS
<1>2. c \in LaunchCalls /\ c.stage = "claim"
  BY <1>1, StageAt, KindAt DEF CheckClaim, At, Typed, Known
<1>3. calls[r].stage \notin Promising /\ ~At(r, "idle") /\ Unchanged
  BY <1>1, <1>2 DEF CheckClaim, At, Promising
<1>4. CASE Answer(r) \/ MoveTo(r, "user") \/ MoveTo(r, "alias")
  BY <1>3, <1>4, ReadAlone DEF Watched
<1>5. CASE Hold(r, [c EXCEPT !.claims = Tail(c.claims)])
  <2>1. PICK d : d = [c EXCEPT !.claims = Tail(c.claims)]
    OBVIOUS
  <2>2. d.stage \notin Watched
    BY <1>2, <2>1, LaunchMoved DEF Watched
  <2> QED
    BY <1>3, <1>5, <2>1, <2>2, ReadAlone
<1> QED
  BY <1>1, <1>4, <1>5 DEF CheckClaim

LEMMA AddClaimedAlone ==
    ASSUME Typed, CallsFit, Alone, NEW r \in Calls, AddClaimed(r), KeepsLaunch
    PROVE  Alone'
<1>1. PICK c : c = calls[r]
  OBVIOUS
<1>2. c \in LaunchCalls /\ c.op = "launch" /\ c.stage = "alias" /\ Fits(c)
  BY <1>1, StageAt, KindAt DEF AddClaimed, At, Typed, CallsFit, Known
<1>3. c.claims \in Seq(Claimable) /\ c.claims # <<>> /\ c.profile \in profiles
  BY <1>2, LaunchKeeps DEF Fits, ClaimsFit, ProfileFits, Known
<1>4. PICK v : v = Head(c.claims)
  OBVIOUS
<1>5. v \in Values \ Dids
  BY <1>3, <1>4, ValuesTyped
<1>6. PICK d : d = [c EXCEPT !.claims = Tail(c.claims), !.stage = "claim"]
  OBVIOUS
<1>7. d.stage \notin Watched
  BY <1>2, <1>6, LaunchMoved DEF Watched
<1>8. InsertAlias(r, v, c.profile, FALSE, Hold(r, d))
  BY <1>1, <1>4, <1>6 DEF AddClaimed
<1>9. TriesInsertion(r, v, c.profile, FALSE)
  <2>1. Hold(r, d) => calls'[r].stage \notin Watched
    BY <1>7, HeldNow
  <2> QED
    BY <1>8, <2>1 DEF InsertAlias, TriesInsertion
<1>10. calls[r].stage \notin Promising /\ ~At(r, "idle") /\ \A q : ~Promises(calls[r], q)
  BY <1>1, <1>2 DEF At, Promising, Promises
<1> QED
  BY <1>3, <1>5, <1>9, <1>10, InsertAlone

LEMMA FindMembershipAlone ==
    ASSUME Typed, Alone, NEW r \in Calls, FindMembership(r), KeepsLaunch
    PROVE  Alone'
<1>1. PICK c : c = calls[r]
  OBVIOUS
<1>2. c \in LaunchCalls /\ c.stage = "member"
  BY <1>1, StageAt, KindAt DEF FindMembership, At, Typed, Known, Joining, Joined
<1>3. PICK s : s = AfterMember(c, Membership(c.email))
  OBVIOUS
<1>4. MoveTo(r, s) /\ Spares /\ roles' = roles /\ signed' \subseteq {toolKey'}
  BY <1>1, <1>3 DEF FindMembership, Unchanged, KeepsLaunch, launchVars, learnerVars, accountVars,
                    historyVars, Spares, Alone
<1>5. Acts(r) /\ calls'[r] = [c EXCEPT !.stage = s]
  BY <1>1, <1>2, <1>4, ItActs, HeldNow DEF Alone, MoveTo, At
<1>6. calls'[r].stage = s /\ calls'[r].email = c.email
  BY <1>2, <1>5, LaunchMoved
<1>7. s \in {"enrol", "promote", "link"} /\ (s = "enrol" => roles[c.email] = "none")
  BY <1>3 DEF AfterMember, Membership
<1>8. AloneFits(calls[r])'
  BY <1>4, <1>6, <1>7 DEF AloneFits
<1> QED
  BY <1>1, <1>2, <1>4, <1>5, <1>8, SparedAlone DEF Promising

LEMMA FindLinkOfUserAlone ==
    ASSUME Typed, Alone, NEW r \in Calls, FindLinkOfUser(r), KeepsLaunch
    PROVE  Alone'
<1>1. PICK c : c = calls[r]
  OBVIOUS
<1>2. c \in LaunchCalls /\ c.stage = "link"
  BY <1>1, StageAt, KindAt DEF FindLinkOfUser, At, Typed, Known, Joining, Joined
<1>3. calls[r].stage \notin Promising /\ ~At(r, "idle") /\ Unchanged
  BY <1>1, <1>2 DEF FindLinkOfUser, At, Promising
<1>4. CASE MoveTo(r, "match")
  BY <1>3, <1>4, ReadAlone DEF Watched
<1>5. CASE \E a : Hold(r, [c EXCEPT !.auth = a, !.stage = "open"])
  <2>1. PICK a : Hold(r, [c EXCEPT !.auth = a, !.stage = "open"])
    BY <1>5
  <2>2. PICK d : d = [c EXCEPT !.auth = a, !.stage = "open"]
    OBVIOUS
  <2>3. d.stage \notin Watched
    BY <1>2, <2>2, LaunchMoved DEF Watched
  <2> QED
    BY <1>3, <2>1, <2>2, <2>3, ReadAlone
<1> QED
  BY <1>1, <1>4, <1>5 DEF FindLinkOfUser

LEMMA MatchAuthUserAlone ==
    ASSUME Typed, Alone, NEW r \in Calls, MatchAuthUser(r), KeepsLaunch
    PROVE  Alone'
<1>1. PICK c : c = calls[r]
  OBVIOUS
<1>2. c \in LaunchCalls /\ c.stage = "match"
  BY <1>1, StageAt, KindAt DEF MatchAuthUser, At, Typed, Known, Joining, Joined
<1>3. calls[r].stage \notin Promising /\ ~At(r, "idle") /\ Unchanged
  BY <1>1, <1>2 DEF MatchAuthUser, At, Promising
<1>4. CASE MoveTo(r, "newAuth") /\ Addressed(c.email) = {}
  <2>1. Acts(r) /\ calls'[r] = [c EXCEPT !.stage = "newAuth"]
    BY <1>1, <1>3, <1>4, ItActs, HeldNow DEF Alone, MoveTo
  <2>2. calls'[r].stage = "newAuth" /\ calls'[r].email = c.email
    BY <1>2, <2>1, LaunchMoved
  <2>3. Spares /\ signed' \subseteq {toolKey'}
    BY <1>3 DEF Unchanged, KeepsLaunch, launchVars, learnerVars, accountVars, historyVars, Spares, Alone
  <2>4. AloneFits(calls[r])'
    BY <1>4, <2>2, <2>3 DEF AloneFits, Addressed, Spares
  <2> QED
    BY <1>3, <2>1, <2>3, <2>4, SparedAlone
<1>5. CASE \E a : Hold(r, [c EXCEPT !.auth = a, !.stage = "matched"])
  <2>1. PICK a : Hold(r, [c EXCEPT !.auth = a, !.stage = "matched"])
    BY <1>5
  <2>2. PICK d : d = [c EXCEPT !.auth = a, !.stage = "matched"]
    OBVIOUS
  <2>3. d.stage \notin Watched
    BY <1>2, <2>2, LaunchMoved DEF Watched
  <2> QED
    BY <1>3, <2>1, <2>2, <2>3, ReadAlone
<1> QED
  BY <1>1, <1>4, <1>5 DEF MatchAuthUser, Matches

\* One that matches is not another user's: a linked one has the address of its user.
LEMMA CheckMatchedAlone ==
    ASSUME Typed, CallsFit, RowsFit, Alone, NEW r \in Calls, CheckMatched(r), KeepsLaunch
    PROVE  Alone'
<1>1. PICK c : c = calls[r]
  OBVIOUS
<1>2. c \in LaunchCalls /\ c.stage = "matched" /\ Fits(c) /\ c.op = "launch"
  BY <1>1, StageAt, KindAt DEF CheckMatched, At, Typed, CallsFit, Known, Joining, Joined
<1>3. c.auth \in AuthUsers /\ authUsers[c.auth] = c.email
  BY <1>2 DEF Fits, AuthFits
<1>4. links[c.auth] \in {None, c.email}
  BY <1>3 DEF RowsFit, LinksFit
<1>5. MoveTo(r, "newLink")
  BY <1>1, <1>4 DEF CheckMatched
<1> QED
  BY <1>1, <1>2, <1>5, ReadAlone DEF CheckMatched, At, Promising, Watched

\* An address that nobody had is given to one.
LEMMA NamesAlone ==
    ASSUME Typed, AuthUsersDiffer, NEW a \in AuthUsers, NEW e \in Emails,
           a \in Addressed(e) \/ Addressed(e) = {},
           authUsers' = [authUsers EXCEPT ![a] = e]
    PROVE  AuthUsersDiffer'
  BY DEF AuthUsersDiffer, Addressed, Typed

\* A step that writes no identity, no role and no key.
LEMMA AccountAlone ==
    ASSUME Alone, NEW r \in Calls, Acts(r), calls[r].stage \notin Promising,
           UNCHANGED <<profiles, identities, refused, lost, toolKey, signed>>,
           AloneFits(calls[r])', AuthUsersDiffer'
    PROVE  Alone'
<1>1. DidsDiffer' /\ refused' = {} /\ signed' \subseteq {toolKey'}
  BY DEF Alone, DidsDiffer, Owner
<1>2. \A p \in profiles : PrimaryOf(p)' = PrimaryOf(p)
  BY DEF PrimaryOf
<1>3. lost' = 0 => \A p \in profiles' : PrimaryOf(p)' # {}
  BY <1>2, EachHasPrimary
<1> QED
  BY <1>1, <1>3, AloneStays

LEMMA CreateAuthUserAlone ==
    ASSUME Typed, Alone, NEW r \in Calls, CreateAuthUser(r), KeepsLaunch
    PROVE  Alone'
<1>1. PICK c : c = calls[r]
  OBVIOUS
<1>2. c \in LaunchCalls /\ c.stage = "newAuth" /\ c.email \in Emails
  BY <1>1, StageAt, KindAt, LaunchKeeps DEF CreateAuthUser, At, Typed, Known, Joining, Joined
<1>3. PICK a \in AuthUsers : /\ authUsers' = [authUsers EXCEPT ![a] = c.email]
                             /\ Hold(r, [c EXCEPT !.auth = a, !.stage = "newLink"])
  BY <1>1 DEF CreateAuthUser, NewAuthUser, Addressed
<1>4. Addressed(c.email) = {}
  BY <1>1, <1>2 DEF Alone, AloneFits
<1>5. AuthUsersDiffer'
  BY <1>2, <1>3, <1>4, NamesAlone DEF Alone
<1>6. Acts(r) /\ calls'[r].stage = "newLink"
  <2>1. PICK d : d = [c EXCEPT !.auth = a, !.stage = "newLink"]
    OBVIOUS
  <2>2. Hold(r, d) /\ ~At(r, "idle")
    BY <1>1, <1>2, <1>3, <2>1 DEF At
  <2>3. d.stage = "newLink"
    BY <1>2, <2>1, LaunchMoved
  <2> QED
    BY <2>2, <2>3, ItActs, HeldNow DEF Alone
<1>7. UNCHANGED <<profiles, identities, refused, lost, toolKey, signed>>
  BY DEF CreateAuthUser, KeepsLaunch, launchVars, learnerVars, historyVars
<1> QED
  BY <1>1, <1>2, <1>5, <1>6, <1>7, NothingWatched, AccountAlone DEF Promising, Watched

LEMMA FollowMagicLinkAlone ==
    ASSUME Typed, Alone, NEW r \in Calls, NEW e \in Emails, FollowMagicLink(r, e), KeepsLaunch,
           ~overlapped'
    PROVE  Alone'
<1>1. PICK a : /\ a \in IF Addressed(e) # {} THEN Addressed(e)
                        ELSE IF Addressed(None) # {} THEN {NewAuthUser} ELSE {}
               /\ authUsers' = [authUsers EXCEPT ![a] = e]
               /\ Hold(r, [op |-> "magic", stage |-> "linked", email |-> e, auth |-> a])
  BY DEF FollowMagicLink
<1>2. a \in AuthUsers /\ (a \in Addressed(e) \/ Addressed(e) = {})
  BY <1>1 DEF NewAuthUser, Addressed
<1>3. AuthUsersDiffer'
  BY <1>1, <1>2, NamesAlone DEF Alone
<1>4. At(r, "idle") /\ \A q \in Calls : At(q, "idle")
  BY DEF FollowMagicLink
<1>5. Acts(r) /\ calls'[r].stage = "linked"
  BY <1>1, <1>4, ItActs, HeldNow DEF Alone
<1>6. UNCHANGED <<profiles, identities, refused, lost, toolKey, signed>>
  BY DEF FollowMagicLink, KeepsLaunch, launchVars, learnerVars
<1> QED
  BY <1>3, <1>4, <1>5, <1>6, NothingWatched, AccountAlone DEF Promising, Watched, At

\* The user of an address is linked to no Better Auth user but the one of that address.
LEMMA CheckConflictAlone ==
    ASSUME Typed, CallsFit, RowsFit, Alone, NEW r \in Calls, CheckConflict(r), KeepsLaunch
    PROVE  Alone'
<1>1. PICK c : c = calls[r]
  OBVIOUS
<1>2. c \in MagicCalls /\ c.op = "magic" /\ c.stage = "conflict" /\ Fits(c) /\ c.email \in Emails
  BY <1>1, StageAt, KindAt DEF CheckConflict, At, Typed, CallsFit, MagicCalls
<1>3. c.auth \in AuthUsers /\ authUsers[c.auth] = c.email
  BY <1>2 DEF Fits, AuthFits
<1>4. LinkedTo(c.email) \subseteq {c.auth}
  BY <1>2, <1>3, ValuesTyped DEF LinkedTo, RowsFit, LinksFit, Alone, AuthUsersDiffer
<1>5. MoveTo(r, "bind") /\ refused' = refused
  BY <1>1, <1>4 DEF CheckConflict
<1>6. Spares /\ signed' \subseteq {toolKey'}
  BY <1>5 DEF CheckConflict, KeepsLaunch, launchVars, learnerVars, accountVars, Spares, Alone
<1> QED
  BY <1>1, <1>2, <1>5, <1>6, PlainAlone DEF At, Promising, Watched

LEMMA AccountStepAlone ==
    ASSUME Typed, CallsFit, RowsFit, Alone, NEW r \in Calls, AccountStep(r), KeepsLaunch
    PROVE  Alone'
  BY AccountPlainAlone, CheckClaimAlone, AddClaimedAlone, FindMembershipAlone, FindLinkOfUserAlone,
     MatchAuthUserAlone, CheckMatchedAlone, CreateAuthUserAlone, CheckConflictAlone DEF AccountStep

LEMMA LearnerAsksAlone ==
    ASSUME Typed, Alone, NEW r \in Calls, ~overlapped', KeepsLaunch,
           \/ \E e \in Emails, d \in Dids \cup {None} : AskDid(r, e, d)
           \/ \E e \in Emails, t \in Emails : AskProof(r, e, t)
           \/ \E f \in Proofs : AskVerification(r, f)
    PROVE  Alone'
<1>1. ASSUME NEW e, NEW a, AskDid(r, e, a)
      PROVE  Alone'
  <2>1. PICK d : d = [op |-> "did", stage |-> "find", key |-> e, did |-> a, profile |-> None]
    OBVIOUS
  <2>2. d.stage \notin Watched
    BY <2>1 DEF Watched
  <2> QED
    BY <1>1, <2>1, <2>2, ReceiveAlone DEF AskDid
<1>2. ASSUME NEW e, NEW t, AskProof(r, e, t)
      PROVE  Alone'
  <2>1. PICK d : d = [op |-> "prove", stage |-> "find", key |-> e, target |-> t, profile |-> None]
    OBVIOUS
  <2>2. d.stage \notin Watched
    BY <2>1 DEF Watched
  <2> QED
    BY <1>2, <2>1, <2>2, ReceiveAlone DEF AskProof
<1>3. ASSUME NEW f, AskVerification(r, f)
      PROVE  Alone'
  <2>1. PICK d : d = [op |-> "verify", stage |-> "proof", proof |-> f]
    OBVIOUS
  <2>2. d.stage \notin Watched
    BY <2>1 DEF Watched
  <2> QED
    BY <1>3, <2>1, <2>2, ReceiveAlone DEF AskVerification
<1> QED
  BY <1>1, <1>2, <1>3

LEMMA LearnerRequestAlone ==
    ASSUME Typed, CallsFit, RowsFit, Alone, NEW r \in Calls, LearnerRequest(r), ~overlapped'
    PROVE  Alone'
<1>1. KeepsLaunch
  BY DEF LearnerRequest
<1> QED
  BY <1>1, LearnerStepAlone, AccountStepAlone, LoseCallAlone, FollowMagicLinkAlone, LearnerAsksAlone
     DEF LearnerRequest

-----------------------------------------------------------------------------
(* Requests that do not overlap.                                             *)

LEMMA AloneInvInit ==
    ASSUME LaunchInit
    PROVE  AloneInv
<1>1. \A r \in Calls : calls[r] = NoCall
  BY DEF LaunchInit, IdentityInit
<1>2. OneAtWork /\ \A r \in Calls : AloneFits(calls[r])
  BY <1>1 DEF OneAtWork, At, NoCall, AloneFits
<1>3. DidsDiffer /\ AuthUsersDiffer /\ refused = {} /\ signed = {} /\ profiles = {}
  BY ValuesTyped DEF LaunchInit, IdentityInit, NoIdentity, DidsDiffer, AuthUsersDiffer, Owner
<1> QED
  BY <1>2, <1>3 DEF AloneInv, Alone, PrimaryKept

\* That two requests overlapped is never forgotten.
LEMMA OverlapKept ==
    ASSUME [LaunchNext]_launchAll, overlapped
    PROVE  overlapped'
<1>1. CASE UNCHANGED launchAll \/ Show
  BY <1>1 DEF Show, launchAll, identityVars, historyVars
<1>2. CASE Register \/ Unregister \/ (\E t \in Templates : Archive(t)) \/ ProofsAge
           \/ (\E n \in Nonces : ExpireNonce(n))
  BY <1>2 DEF Register, Unregister, Archive, ExpireNonce, ProofsAge, ExpireProof, KeepsTables, historyVars
<1>3. ASSUME NEW r \in Calls, LaunchStep(r)
      PROVE  overlapped'
  BY <1>3 DEF LaunchStep, FindKey, CreateKey, AskKeys, UpsertDeployment, StoreNonce, FindConfig,
              ConsumeNonce, StoreSession, CheckTemplate, OpenLaunch, PlaceLink, Select, AskLogin,
              AskSelect, AskLaunch, Receive, KeepsTables, historyVars
<1>4. ASSUME NEW r \in Calls, LearnerStep(r)
      PROVE  overlapped'
  BY <1>4 DEF LearnerStep, FindProfile, CreateProfile, AddPrimary, CheckDid, RemoveDids, AddDid,
              CheckTarget, CreateProof, CheckProof, CheckProofOwner, ClearPrimary, AddProven, MarkUsed,
              InsertAlias, Unchanged, historyVars
<1>5. ASSUME NEW r \in Calls, AccountStep(r)
      PROVE  overlapped'
  BY <1>5 DEF AccountStep, CheckClaim, AddClaimed, UpsertUser, FindMembership, UpsertRole,
              FindLinkOfUser, MatchAuthUser, CheckMatched, CreateAuthUser, LinkAuthUser,
              FindLinkOfAuthUser, CheckConflict, BindAuthUser, InsertAlias, InsertLink, Unchanged,
              historyVars
<1>6. ASSUME NEW r \in Calls, LearnerRequest(r)
      PROVE  overlapped'
  BY <1>4, <1>5, <1>6 DEF LearnerRequest, FollowMagicLink, AskDid, AskProof, AskVerification, Receive,
                          LoseCall, historyVars
<1> QED
  BY <1>1, <1>2, <1>3, <1>6 DEF LaunchNext

LEMMA AloneInvStep ==
    ASSUME IInv, AloneInv, [LaunchNext]_launchAll
    PROVE  AloneInv'
<1> SUFFICES ASSUME ~overlapped'
             PROVE  Alone'
  BY DEF AloneInv
<1>1. Typed /\ CallsFit /\ RowsFit /\ Alone
  BY OverlapKept DEF IInv, AloneInv
<1>2. CASE \E r \in Calls : LaunchStep(r) \/ LearnerRequest(r)
  BY <1>1, <1>2, LaunchStepAlone, LearnerRequestAlone
<1>3. CASE \/ Register \/ Unregister \/ Show \/ ProofsAge
           \/ \E t \in Templates : Archive(t)
           \/ \E n \in Nonces : ExpireNonce(n)
  BY <1>1, <1>3, OutsideAlone
<1>4. CASE UNCHANGED launchAll
  BY <1>1, <1>4, OutsideAlone DEF Show
<1> QED
  BY <1>2, <1>3, <1>4 DEF LaunchNext

LEMMA AlwaysAlone == LaunchSpec => [](IInv /\ AloneInv)
<1>1. LaunchInit => IInv /\ AloneInv
  BY IInvInit, AloneInvInit
<1>2. IInv /\ AloneInv /\ [LaunchNext]_launchAll => (IInv /\ AloneInv)'
  BY IInvStep, AloneInvStep
<1> QED
  BY <1>1, <1>2, PTL DEF LaunchSpec

LEMMA OneOfEach ==
    ASSUME Typed, RowsFit, AloneInv
    PROVE  UnlessOverlapped
<1>1. ASSUME NEW p \in profiles
      PROVE  /\ Cardinality(PrimaryOf(p)) <= 1
             /\ (~overlapped /\ lost = 0 /\ \A r \in Calls : At(r, "idle")) => PrimaryOf(p) # {}
             /\ ~overlapped => Cardinality({d \in Dids : Owner(d) = p}) <= 1
  <2>1. \A v, w \in PrimaryOf(p) : v = w
    BY NobodysValue DEF PrimaryOf, RowsFit, PrimariesFit, Owner
  <2>2. (\A r \in Calls : At(r, "idle")) => \A r \in Calls : ~Promises(calls[r], p)
    BY DEF At, Promises
  <2>3. ~overlapped => \A d, e \in {d \in Dids : Owner(d) = p} : d = e
    BY NobodysValue DEF AloneInv, Alone, DidsDiffer
  <2> QED
    BY <2>1, <2>2, <2>3, OneAtMost DEF AloneInv, Alone, PrimaryKept
<1>2. NoTwins
  <2>1. ASSUME ~overlapped, NEW e \in Emails
        PROVE  Cardinality(Addressed(e)) <= 1
    <3>1. \A a, b \in Addressed(e) : a = b
      BY <2>1, ValuesTyped DEF Addressed, AloneInv, Alone, AuthUsersDiffer
    <3> QED
      BY <3>1, OneAtMost
  <2> QED
    BY <2>1 DEF NoTwins, AloneInv, Alone
<1>3. OneToolKey
  BY DEF OneToolKey, AloneInv, Alone
<1> QED
  BY <1>1, <1>2, <1>3 DEF UnlessOverlapped, OnePrimary, OneDid

\* Only the step that enrols writes viewer, and it finds no membership.
LEMMA RolesKept ==
    ASSUME IInv, AloneInv, ~overlapped, [LaunchNext]_launchAll,
           NEW e \in Emails, roles[e] = "issuer"
    PROVE  roles'[e] = "issuer"
<1>1. ASSUME NEW r \in Calls, UpsertRole(r)
      PROVE  roles'[e] = "issuer"
  <2>1. calls[r].stage = "enrol" => roles[calls[r].email] = "none"
    BY DEF AloneInv, Alone, AloneFits
  <2>2. calls[r].stage # "enrol" => calls[r].stage = "promote"
    BY <1>1 DEF UpsertRole
  <2> QED
    BY <1>1, <2>1, <2>2 DEF UpsertRole, IInv, Typed
<1>2. CASE UNCHANGED launchAll \/ Show
  BY <1>2 DEF Show, launchAll, identityVars, accountVars
<1>3. CASE Register \/ Unregister \/ (\E t \in Templates : Archive(t)) \/ ProofsAge
           \/ (\E n \in Nonces : ExpireNonce(n))
  BY <1>3 DEF Register, Unregister, Archive, ExpireNonce, ProofsAge, ExpireProof, KeepsTables, accountVars
<1>4. ASSUME NEW r \in Calls, LaunchStep(r)
      PROVE  roles' = roles
  BY <1>4 DEF LaunchStep, FindKey, CreateKey, AskKeys, UpsertDeployment, StoreNonce, FindConfig,
              ConsumeNonce, StoreSession, CheckTemplate, OpenLaunch, PlaceLink, Select, AskLogin,
              AskSelect, AskLaunch, Receive, KeepsTables, accountVars
<1>5. ASSUME NEW r \in Calls, LearnerStep(r)
      PROVE  roles' = roles
  BY <1>5 DEF LearnerStep, FindProfile, CreateProfile, AddPrimary, CheckDid, RemoveDids, AddDid,
              CheckTarget, CreateProof, CheckProof, CheckProofOwner, ClearPrimary, AddProven, MarkUsed,
              InsertAlias, Unchanged, accountVars
<1>6. ASSUME NEW r \in Calls, AccountStep(r), ~UpsertRole(r)
      PROVE  roles' = roles
  BY <1>6 DEF AccountStep, CheckClaim, AddClaimed, UpsertUser, FindMembership,
              FindLinkOfUser, MatchAuthUser, CheckMatched, CreateAuthUser, LinkAuthUser,
              FindLinkOfAuthUser, CheckConflict, BindAuthUser, InsertAlias, InsertLink, Unchanged,
              accountVars
<1>7. ASSUME NEW r \in Calls, LearnerRequest(r)
      PROVE  roles'[e] = "issuer"
  <2>1. UpsertRole(r) \/ roles' = roles
    BY <1>5, <1>6, <1>7 DEF LearnerRequest, FollowMagicLink, AskDid, AskProof, AskVerification, Receive,
                            LoseCall, accountVars
  <2> QED
    BY <1>1, <2>1
<1> QED
  BY <1>2, <1>3, <1>4, <1>7 DEF LaunchNext

\* As long as no two requests overlapped, a learner has one primary identity and one DID,
\* an address one Better Auth user, and what was signed is the stored key; whatever
\* requests were lost halfway, but for the primary identity.
THEOREM OneOfEachUnlessOverlapped == LaunchSpec => []UnlessOverlapped
<1>1. IInv /\ AloneInv => UnlessOverlapped
  BY OneOfEach DEF IInv
<1> QED
  BY <1>1, AlwaysAlone, PTL

\* An identity other than a DID stays its learner's, whatever requests overlap, and unless
\* some did no launch takes a role away (addLearnerIdentityAlias, ensureTenantMembership).
THEOREM IdentitiesStay == LaunchSpec => IdentityStays
<1>1. IInv /\ AloneInv /\ [LaunchNext]_launchAll =>
        /\ \A v \in Values \ Dids : Owner(v) # None => identities'[v].profile = Owner(v)
        /\ ~overlapped => \A e \in Emails : roles[e] = "issuer" => roles'[e] = "issuer"
  <2> SUFFICES ASSUME IInv, AloneInv, [LaunchNext]_launchAll
               PROVE  /\ \A v \in Values \ Dids : Owner(v) # None => identities'[v].profile = Owner(v)
                      /\ ~overlapped => \A e \in Emails : roles[e] = "issuer" => roles'[e] = "issuer"
    OBVIOUS
  <2>1. RowsStay
    BY StepMoves, StayWhenMoved DEF IInv
  <2> QED
    BY <2>1, RolesKept DEF RowsStay
<1> QED
  BY <1>1, AlwaysAlone, PTL DEF LaunchSpec, IdentityStays
=============================================================================
