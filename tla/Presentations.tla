---------------------------- MODULE Presentations ----------------------------
(***************************************************************************)
(* A badge is issued to a learner's DID, another document is signed at the *)
(* signing endpoint, copies of both go about and may be altered, and they  *)
(* are presented by whoever holds them (routes/signing-routes.ts,          *)
(* routes/presentation-routes.ts, routes/credential-routes.ts), while the  *)
(* tenant's key is replaced and the badge revoked.                         *)
(*                                                                         *)
(* A request is one step here; Verification looks at what happens between  *)
(* the reads of one.                                                       *)
(***************************************************************************)
EXTENDS CredentialChecks

CONSTANTS
    FirstKey,      \* the key of the tenant's registration at first
    Learner,       \* the holder whose badge it is
    ApiOrigin,     \* scheme and host of the requests that reach the API
    WorkerOrigin,  \* and of those the queue worker makes to itself (https, PLATFORM_DOMAIN)
    MaxDays,       \* bound on the clock
    MaxLiberties   \* bound on departures from a well-formed, unaltered document

ASSUME PresentationsAssumption ==
    /\ FirstKey \in SigningKeys \ EcKeys
    /\ Learner \in Holders /\ "created" \notin Holders
    /\ MaxDays \in Nat /\ MaxLiberties \in Nat

VARIABLES
    day,           \* the clock
    activeKey, keptKeys,   \* the registration's key, TENANT_SIGNING_KEY_HISTORY_JSON
    signer,        \* "local" | "remote": how the active key signs
    readable,      \* origins whose lists can be retrieved
    badge,         \* the stored credential, when it is issued
    badgeRevoked,  \* its revoked_at is set
    copies,        \* documents that go about
    presented,     \* the presentation that is sent, if there is one
    liberties,     \* how many departures there were
    answer,        \* what the last request was told
    made           \* history: what the program, and each holder, put a signature to

presentVars == <<day, activeKey, keptKeys, signer, readable, badge, badgeRevoked, copies,
                 presented, liberties, answer, made>>

BadgeIndex == 3
NoReply == [to |-> "none", status |-> "none", check |-> "none", proof |-> "none"]

\* revocationStatusListUrlForTenant
ListUrl(origin) == <<origin, "revocation">>

\* credentialStatusForAssertion
StatusFor(origin) ==
    [form |-> "object", type |-> "entry", purpose |-> "revocation",
     index |-> BadgeIndex, list |-> ListUrl(origin)]

\* The document that direct-issue.ts has signed.
BadgeDocument(subject, from, origin) ==
    [context |-> "vc", terms |-> "known", schema |-> NoSchemas, badge |-> TRUE,
     subject |-> subject, identified |-> TRUE, achievement |-> "typed", from |-> from,
     until |-> Missing, status |-> StatusFor(origin), issuer |-> TenantDid, proofs |-> <<>>]

\* A credential of the signing endpoint: any JSON object, here one without status.
PlainDocument(subject) ==
    [BadgeDocument(subject, 0, ApiOrigin) EXCEPT !.status = NoStatus]

Schemas == {[given |-> TRUE, entries |-> e] :
    e \in {<<>>, <<"met">>, <<"other type">>, <<"met", "unmet">>, <<"not loaded">>,
           <<"malformed">>}}

\* The documents one departure away from a document.
Departures(doc) ==
    {[doc EXCEPT !.context = x] : x \in {Nothing, "other"}}
    \cup {[doc EXCEPT !.terms = x] : x \in {"unknown", "known"}}
    \cup {[doc EXCEPT !.badge = FALSE], [doc EXCEPT !.identified = FALSE]}
    \cup {[doc EXCEPT !.schema = x] : x \in Schemas}
    \cup {[doc EXCEPT !.subject = x] : x \in Holders \cup {Nothing}}
    \cup {[doc EXCEPT !.achievement = x] : x \in {Nothing, "untyped"}}
    \cup {[doc EXCEPT !.from = x] : x \in {Missing, Garbled, MaxDays}}
    \cup {[doc EXCEPT !.until = x] : x \in {Garbled, 0, 1}}
    \cup {[doc EXCEPT !.status = x] : x \in
            {NoStatus, [NoStatus EXCEPT !.form = "text"],
             [StatusFor(ApiOrigin) EXCEPT !.purpose = "suspension"],
             [StatusFor(ApiOrigin) EXCEPT !.index = BadgeIndex + 1],
             [StatusFor(ApiOrigin) EXCEPT !.index = Garbled]}}
    \cup {[doc EXCEPT !.issuer = x] : x \in {OtherDid, NotADid}}

ProofDepartures(doc) ==
    IF doc.proofs = <<>> THEN {} ELSE
    {[doc EXCEPT !.proofs = <<>>]}
    \cup {[doc EXCEPT !.proofs = <<[@[1] EXCEPT !.purpose = "authentication"]>> \o @]}
    \cup {[doc EXCEPT !.proofs[1] = p] : p \in
            {[doc.proofs[1] EXCEPT !.purpose = "authentication"],
             [doc.proofs[1] EXCEPT !.type = "JsonWebSignature2020"],
             [doc.proofs[1] EXCEPT !.did = Nothing],
             [doc.proofs[1] EXCEPT !.did = OtherDid],
             [doc.proofs[1] EXCEPT !.key = Nothing]}
            \cup {[doc.proofs[1] EXCEPT !.key = k] : k \in SigningKeys}}

\* The lists that can be retrieved. The program answers requests for its own origin
\* itself, which may fail for want of a key or of the remote signer; of its address as
\* seen by the worker it is not certain that it can be reached from here.
Lists ==
    [u \in {ListUrl(o) : o \in readable} |->
        IF badgeRevoked THEN {BadgeIndex} ELSE {}]

PresentInit ==
    /\ day = 0
    /\ activeKey = FirstKey /\ keptKeys = {}
    /\ signer \in {"local", "remote"}
    /\ readable \in SUBSET {ApiOrigin, WorkerOrigin}
    /\ badge = <<>> /\ badgeRevoked = FALSE
    /\ copies = <<>> /\ presented = <<>>
    /\ liberties = 0
    /\ answer = NoReply
    /\ made = {}

-----------------------------------------------------------------------------
(* Signing.                                                                *)

\* Direct issuance, or the worker on an issue_badge job. The subject is the learner's
\* DID if there is one, and the profile's own subject id otherwise.
IssueTo(subject, origin) ==
    /\ badge = <<>>
    /\ \E doc \in SignedBy(signer, activeKey, BadgeDocument(subject, day, origin),
                           "Ed25519Signature2020", Nothing) :
            /\ badge' = <<doc>>
            /\ copies' = Append(copies, doc)
            /\ made' = made \cup {<<TenantDid, Unsigned(doc)>>}
    /\ answer' = NoReply
    /\ UNCHANGED <<day, activeKey, keptKeys, signer, readable, badgeRevoked, presented, liberties>>

\* POST /v1/signing/credentials
SignDocument(doc, type, suite) ==
    LET results == SignedBy(signer, activeKey, doc, type, suite)
    IN  /\ IF results = {}
           THEN /\ answer' = [NoReply EXCEPT !.to = "sign", !.status = "refused"]
                /\ UNCHANGED <<copies, made>>
           ELSE /\ \E r \in results : copies' = Append(copies, r)
                /\ made' = made \cup {<<TenantDid, Unsigned(doc)>>}
                /\ answer' = [NoReply EXCEPT !.to = "sign", !.status = "signed"]
        /\ UNCHANGED <<day, activeKey, keptKeys, signer, readable, badge, badgeRevoked, presented>>

-----------------------------------------------------------------------------
(* Presentations.                                                          *)

Presentation(holder, issuer, docs) ==
    [context |-> "vc", terms |-> "known", holder |-> holder, issuer |-> issuer,
     wrapped |-> docs, proofs |-> <<>>]

\* POST /v1/presentations/create: the stored credential, of the learner who is signed
\* in, its subject the holder whose private key was sent.
CreatePresentation(holder, privateKey, owner) ==
    LET ok == /\ privateKey = holder
              /\ owner /\ badge # <<>>
              /\ badge[1].subject = holder
        p == Presentation(holder, Nothing, badge)
    IN  /\ presented = <<>>
        /\ IF ok
           THEN /\ presented' = <<Sealed(p, "Ed25519Signature2020", Nothing, holder, holder,
                                         privateKey)>>
                /\ made' = made \cup {<<holder, p>>, <<"created", p>>}
                /\ answer' = [NoReply EXCEPT !.to = "create", !.status = "created"]
           ELSE /\ answer' = [NoReply EXCEPT !.to = "create", !.status = "refused"]
                /\ UNCHANGED <<presented, made>>
        /\ UNCHANGED <<day, activeKey, keptKeys, signer, readable, badge, badgeRevoked, copies,
                       liberties>>

\* A wallet puts copies into a presentation and signs it with a key of its own; the
\* tenant may be a holder, too.
Wrap(holder, issuer, by, docs, type, suite) ==
    LET p == Presentation(holder, issuer, docs)
        did == IF by \in SigningKeys THEN TenantDid ELSE by
    IN  /\ presented = <<>>
        /\ presented' = <<Sealed(p, type, suite, did, by, by)>>
        /\ made' = made \cup {<<did, p>>}
        /\ answer' = NoReply
        /\ UNCHANGED <<day, activeKey, keptKeys, signer, readable, badge, badgeRevoked, copies>>

HolderProves == HolderProof(presented[1], activeKey, keptKeys)
ProofIn(i) == CredentialProof(presented[1].wrapped[i], activeKey, keptKeys)

\* POST /v1/presentations/verify. Canonicalizing retrieves contexts, which may fail.
Verdict ==
    LET p == presented[1]
    IN  IF p.context # "vc" \/ p.wrapped = <<>> THEN "malformed"
        ELSE IF HolderProves = "error" \/ (\E i \in DOMAIN p.wrapped : ProofIn(i) = "error")
        THEN "error"
        ELSE IF /\ HolderProves = "valid"
                /\ \A i \in DOMAIN p.wrapped :
                      PassesPresented(p.wrapped[i], p.holder, day, Lists, ProofIn(i))
        THEN "valid" ELSE "invalid"

VerifyPresentation ==
    /\ presented # <<>>
    /\ \E status \in {Verdict, "error"} :
            answer' = [NoReply EXCEPT !.to = "present", !.status = status]
    /\ UNCHANGED <<day, activeKey, keptKeys, signer, readable, badge, badgeRevoked, copies,
                   presented, liberties, made>>

\* The revocation the verification response goes by: the list's bit where it was read,
\* the row's revoked_at where it was not.
RevokedFor(doc, expected) ==
    IF StatusCheck(doc, expected, Lists) = "valid" THEN BitSet(doc, expected, Lists)
    ELSE badgeRevoked

\* GET /credentials/v1/:credentialId, without the institution's lifecycle record.
LookUp ==
    LET doc == badge[1]
        expected == StatusFor(ApiOrigin)
    IN  /\ badge # <<>>
        /\ answer' = [to |-> "lookup",
                      status |-> LifecycleOf(doc, RevokedFor(doc, expected), day),
                      check |-> StatusCheck(doc, expected, Lists),
                      proof |-> CredentialProof(doc, activeKey, keptKeys)]
        /\ UNCHANGED <<day, activeKey, keptKeys, signer, readable, badge, badgeRevoked, copies,
                       presented, liberties, made>>

-----------------------------------------------------------------------------
(* What else goes on.                                                      *)

\* Once something is presented, what becomes of the copies does not matter any more.
AlterCopy(i) ==
    /\ presented = <<>>
    /\ liberties < MaxLiberties
    /\ liberties' = liberties + 1
    /\ \E doc \in Departures(copies[i]) \cup ProofDepartures(copies[i]) :
            copies' = [copies EXCEPT ![i] = doc]
    /\ answer' = NoReply
    /\ UNCHANGED <<day, activeKey, keptKeys, signer, readable, badge, badgeRevoked, presented, made>>

\* Somebody changes a presentation that somebody else signed.
AlterPresentation ==
    /\ presented # <<>>
    /\ liberties < MaxLiberties
    /\ liberties' = liberties + 1
    /\ LET p == presented[1]
       IN  presented' \in {<<q>> : q \in
                {[p EXCEPT !.holder = h] : h \in Holders}
                \cup {[p EXCEPT !.wrapped = <<>>], [p EXCEPT !.context = "other"],
                      [p EXCEPT !.wrapped = @ \o @]}
                \cup ProofDepartures(p)}
    /\ answer' = NoReply
    /\ UNCHANGED <<day, activeKey, keptKeys, signer, readable, badge, badgeRevoked, copies, made>>

RevokeBadge ==
    /\ badge # <<>> /\ ~ badgeRevoked
    /\ badgeRevoked' = TRUE
    /\ answer' = NoReply
    /\ UNCHANGED <<day, activeKey, keptKeys, signer, readable, badge, copies, presented,
                   liberties, made>>

\* A key is kept in the history before it is replaced, as operators are told to.
ReplaceKey(k) ==
    /\ k \notin keptKeys \cup {activeKey}
    /\ keptKeys' = keptKeys \cup {activeKey}
    /\ activeKey' = k
    /\ answer' = NoReply
    /\ UNCHANGED <<day, signer, readable, badge, badgeRevoked, copies, presented, liberties, made>>

NextDay ==
    /\ day < MaxDays
    /\ day' = day + 1
    /\ answer' = NoReply
    /\ UNCHANGED <<activeKey, keptKeys, signer, readable, badge, badgeRevoked, copies, presented,
                   liberties, made>>

\* The signing endpoint is asked for a document as it should be in any suite, or for
\* one that departs from it.
SignSomething ==
    /\ copies = <<>> /\ presented = <<>>
    /\ \/ /\ \E suite \in Suites \cup {<<"DataIntegrityProof", Nothing>>} :
                SignDocument(PlainDocument(Learner), suite[1], suite[2])
          /\ UNCHANGED liberties
       \/ /\ liberties < MaxLiberties
          /\ liberties' = liberties + 1
          /\ \E doc \in Departures(PlainDocument(Learner)) :
                SignDocument(doc, "Ed25519Signature2020", Nothing)

\* A holder presents its copies; with a liberty, as somebody else or for the
\* tenant, or in another suite.
WrapSomething ==
    /\ copies # <<>>
    /\ \/ /\ \E h \in Holders : Wrap(h, Nothing, h, copies, "Ed25519Signature2020", Nothing)
          /\ UNCHANGED liberties
       \/ /\ liberties < MaxLiberties
          /\ liberties' = liberties + 1
          /\ \/ \E h, by \in Holders :
                    Wrap(h, Nothing, by, copies, "DataIntegrityProof", "eddsa-rdfc-2022")
             \/ \E issuer \in {TenantDid, Nothing} :
                    Wrap(TenantDid, issuer, FirstKey, copies, "Ed25519Signature2020", Nothing)

PresentNext ==
    \/ \E subject \in {Learner, "urn of the profile"}, origin \in {ApiOrigin, WorkerOrigin} :
            IssueTo(subject, origin)
    \/ SignSomething
    \/ \E holder, key \in Holders, owner \in BOOLEAN : CreatePresentation(holder, key, owner)
    \/ WrapSomething
    \/ VerifyPresentation \/ LookUp
    \/ \E i \in DOMAIN copies : AlterCopy(i)
    \/ AlterPresentation
    \/ RevokeBadge
    \/ \E k \in SigningKeys : ReplaceKey(k)
    \/ NextDay

PresentSpec == PresentInit /\ [][PresentNext]_presentVars

-----------------------------------------------------------------------------
(* Properties.                                                             *)

\* The parts of the state keep their types; the key in use is not one of the history's.
PresentTypeOK ==
    /\ day \in 0 .. MaxDays
    /\ activeKey \in SigningKeys /\ keptKeys \subseteq SigningKeys \ {activeKey}
    /\ signer \in {"local", "remote"}
    /\ Len(badge) <= 1 /\ badgeRevoked \in BOOLEAN
    /\ Len(copies) <= 2 /\ Len(presented) <= 1
    /\ liberties \in 0 .. MaxLiberties
    /\ answer.to \in {"none", "sign", "create", "present", "lookup"}

Accepted == answer.to = "present" /\ answer.status = "valid"

\* An accepted presentation was signed as it is by its holder, and each credential in
\* it, which has no term that no context defines, by the tenant as it is but for such
\* terms, and for that holder; the badge in it is not revoked.
AcceptedIsAsSigned ==
    Accepted =>
        LET p == presented[1]
        IN  /\ \E m \in made : m[1] = p.holder /\ LinkedData(m[2]) = LinkedData(p)
            /\ \A i \in DOMAIN p.wrapped :
                    LET doc == p.wrapped[i]
                    IN  /\ \E m \in made : m[1] = TenantDid /\ LinkedData(m[2]) = Unsigned(doc)
                        /\ doc.subject = p.holder
                        /\ doc.status.index = BadgeIndex => ~ badgeRevoked

\* What the program itself presents is accepted for as long as the badge is not
\* revoked, before and after the key is replaced, if its status list can be retrieved.
CreatedIsAccepted ==
    /\ answer.to = "present"
    /\ <<"created", Unsigned(presented[1])>> \in made
    /\ presented[1].proofs # <<>> /\ liberties = 0
    /\ ~ badgeRevoked /\ badge[1].status.list \in DOMAIN Lists
    => answer.status \in {"valid", "error"}

\* The verification response reports a revocation, and nothing else, as revoked, even
\* when the status check fails.
LookUpIsRight ==
    answer.to = "lookup" =>
        /\ answer.status = IF badgeRevoked THEN "revoked" ELSE "active"
        /\ answer.proof = "valid"

\* What is handed out verifies, with a remote signer and after the key is replaced as
\* well, here and with the keys that jwks.json publishes.
SignedIsVerifiable ==
    \A i \in DOMAIN copies :
        liberties = 0 =>
            /\ CredentialProof(copies[i], activeKey, keptKeys) = "valid"
            /\ SelectedProof(copies[i]).key \in Jwks(activeKey, keptKeys)

\* What the program makes it accepts: credentials and presentations verify and badges are
\* looked up as they are, while keys are replaced, contexts and lists come and go.
MadeIsAccepted ==
    /\ PresentTypeOK
    /\ CreatedIsAccepted
    /\ LookUpIsRight
    /\ SignedIsVerifiable

\* A document is accepted as long as it is as the program made it, and only then.
AcceptedAsMade == AcceptedIsAsSigned /\ MadeIsAccepted
=============================================================================
