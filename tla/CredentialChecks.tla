--------------------------- MODULE CredentialChecks ---------------------------
(***************************************************************************)
(* How credentials and presentations are signed, and what verifying them   *)
(* asks (signing/, credentials/, presentation/, packages/core-domain).     *)
(* A document is a record of what the checks tell apart; a proof carries   *)
(* who signed, over what, and what it says of itself.                      *)
(***************************************************************************)
EXTENDS Integers, Sequences, FiniteSets

CONSTANTS
    Holders,     \* did:key identifiers; each stands for its Ed25519 key as well
    SigningKeys, \* the tenant's signing keys over time, each with an id of its own
    EcKeys       \* those of them that are P-256 keys; the others are Ed25519 keys

ASSUME CurvesAssumption == EcKeys \subseteq SigningKeys

Missing == -1    \* a date or an index that is not there
Garbled == -2    \* one that does not parse
Nothing == "nothing"
TenantDid == "did:web of the tenant"
OtherDid == "did:web without a signing configuration"
NotADid == "https://issuer"
NobodysKey == "an Ed25519 key that is not the tenant's"

NoStatus == [form |-> "absent", type |-> Nothing, purpose |-> Nothing,
             index |-> Missing, list |-> <<>>]
NoSchemas == [given |-> FALSE, entries |-> <<>>]

\* A did:key is neither another kind of DID nor the id of one of the tenant's keys.
ASSUME HoldersAssumption ==
    /\ Holders \cap SigningKeys = {}
    /\ Holders \cap {TenantDid, OtherDid, NotADid, Nothing} = {}
    /\ Nothing \notin SigningKeys

IsDid(x) == x \in {TenantDid, OtherDid} \cup Holders

-----------------------------------------------------------------------------
(* Signing.                                                                *)

\* unsignedCredential
Unsigned(doc) == [doc EXCEPT !.proofs = <<>>]

Known(doc) == [doc EXCEPT !.terms = "known"]

\* linkedDataProofSigningPayload: canonicalization ("safe: false") drops the terms
\* that no context defines, so that the signature says nothing of them.
LinkedData(doc) ==
    IF "wrapped" \in DOMAIN doc
    THEN [Unsigned(Known(doc)) EXCEPT !.wrapped = [i \in DOMAIN @ |-> Known(@[i])]]
    ELSE Unsigned(Known(doc))

\* proofEnvelope and dataIntegrityProofEnvelope: what is signed along with the document.
Envelope(proof) ==
    <<proof.type, IF proof.type = "DataIntegrityProof" THEN proof.suite ELSE Nothing,
      proof.did, proof.key>>

\* The curve of a key fits the proof's type and suite.
Fits(key, type, suite) ==
    \/ type = "Ed25519Signature2020" /\ key \notin EcKeys
    \/ type = "DataIntegrityProof" /\ suite = "eddsa-rdfc-2022" /\ key \notin EcKeys
    \/ type = "DataIntegrityProof" /\ suite = "ecdsa-sd-2023" /\ key \in EcKeys

\* signCredentialWithEd25519Signature2020, signCredentialWithDataIntegrityProof
Sealed(doc, type, suite, did, keyId, by) ==
    LET over == IF type = "Ed25519Signature2020"
                THEN <<"linked data", LinkedData(doc)>> ELSE <<"json", Unsigned(doc)>>
        bare == [type |-> type, suite |-> suite, purpose |-> "assertionMethod",
                 did |-> did, key |-> keyId, by |-> by, over |-> over, about |-> <<>>]
    IN  [doc EXCEPT !.proofs = <<[bare EXCEPT !.about = Envelope(bare)]>>]

\* selectCredentialProofObject
SelectedProof(doc) ==
    LET asserting == {i \in DOMAIN doc.proofs : doc.proofs[i].purpose = "assertionMethod"}
    IN  doc.proofs[IF asserting = {} THEN 1
                   ELSE CHOOSE i \in asserting : \A j \in asserting : i <= j]

Suites == {<<"Ed25519Signature2020", Nothing>>, <<"DataIntegrityProof", "eddsa-rdfc-2022">>,
           <<"DataIntegrityProof", "ecdsa-sd-2023">>}

\* What a remote signer may answer: it signs with a key it has, under a type that
\* fits and the id of that key, or leaves the document as it is.
RemoteReplies(doc) ==
    {Unsigned(doc)} \cup
    {Sealed(doc, t[1][1], t[1][2], TenantDid, t[2], t[2]) :
        t \in {x \in Suites \X (SigningKeys \cup {NobodysKey}) : Fits(x[2], x[1][1], x[1][2])}}

\* signCredentialWithRemoteSigner: the proof must be the one that was asked for.
AcceptedOfRemote(reply, key, type, suite) ==
    /\ reply.proofs # <<>>
    /\ LET p == SelectedProof(reply)
       IN  /\ p.type = type
           /\ p.did = TenantDid /\ p.key = key
           /\ type = "DataIntegrityProof" => p.suite = suite

\* signCredentialForDid: the documents it may hand out with a key (none: an error).
\* signer: the entry has its private key ("local"), a remote signer is configured.
SignedBy(signer, key, doc, type, suite) ==
    IF type = "DataIntegrityProof" /\ suite = Nothing THEN {}
    ELSE CASE signer = "local"  -> IF Fits(key, type, suite)
                                   THEN {Sealed(doc, type, suite, TenantDid, key, key)} ELSE {}
           [] signer = "remote" ->
                 {r \in RemoteReplies(doc) : AcceptedOfRemote(r, key, type, suite)}
           [] OTHER             -> {}

-----------------------------------------------------------------------------
(* Proofs.                                                                 *)

\* The signature is the key's, over this document, and over what the proof says.
\* A document without context cannot be canonicalized: an exception.
Signature(doc, proof, key) ==
    LET json == <<"json", Unsigned(doc)>>
        mine == proof.by = key /\ proof.about = Envelope(proof)
    IN  IF proof.type = "Ed25519Signature2020" /\ doc.context = Nothing THEN "error"
        ELSE IF /\ mine
                /\ \/ proof.over = json
                   \/ /\ proof.type = "Ed25519Signature2020"
                      /\ proof.over = <<"linked data", LinkedData(doc)>>
        THEN "valid" ELSE "invalid"

\* verifyCredentialProofWithPublicJwk
CheckedWith(doc, proof, key) ==
    IF proof.type \notin {"Ed25519Signature2020", "DataIntegrityProof"} THEN "unchecked"
    ELSE IF Fits(key, proof.type, proof.suite) THEN Signature(doc, proof, key)
    ELSE "invalid"

Incomplete(proof) == Nothing \in {proof.type, proof.purpose} \/ proof.over = <<>>

\* resolveVerificationPublicJwkForDidKeyId: the key ids that are looked up.
KeyIds(active, history) == {active} \cup history

\* verifyCredentialProofSummary. Without a DID in the verification method the
\* issuer's counts; only the tenant's DID has a signing configuration.
CredentialProof(doc, active, history) ==
    LET p == SelectedProof(doc)
        did == IF p.did # Nothing THEN p.did ELSE doc.issuer
    IN  IF doc.proofs = <<>> THEN "unchecked"
        ELSE IF \/ Incomplete(p) \/ p.purpose # "assertionMethod" \/ p.key = Nothing
                \/ p.did # Nothing /\ IsDid(doc.issuer) /\ p.did # doc.issuer THEN "invalid"
        ELSE IF did # TenantDid THEN "unchecked"
        ELSE IF p.key \notin KeyIds(active, history) THEN "invalid"
        ELSE CheckedWith(doc, p, p.key)

\* verifyPresentationHolderProofSummary. A did:key proves itself; the presentation of
\* another holder is checked like a credential of which the holder is the issuer.
HolderProof(doc, active, history) ==
    LET p == SelectedProof(doc)
    IN  IF doc.holder \notin Holders
        THEN CredentialProof([doc EXCEPT !.issuer = doc.holder], active, history)
        ELSE IF doc.proofs = <<>> THEN "unchecked"
        ELSE IF \/ Incomplete(p) \/ p.did # doc.holder \/ p.key # doc.holder
                \/ p.purpose # "assertionMethod" THEN "invalid"
        ELSE CheckedWith(doc, p, doc.holder)

-----------------------------------------------------------------------------
(* The other checks of a credential.                                       *)

Validity(ok) == IF ok THEN "valid" ELSE "invalid"

\* verifyCredentialJsonLdSafeModeSummary
SafeMode(doc) == Validity(doc.context = "vc" /\ doc.terms = "known")

\* verifyCredentialSchemaSummary: entries are well formed, those of the supported type
\* are met, and there is one.
SchemaCheck(doc) ==
    LET entries == {doc.schema.entries[i] : i \in DOMAIN doc.schema.entries}
    IN  IF ~ doc.schema.given THEN "unchecked"
        ELSE Validity(entries \subseteq {"other type", "met"} /\ "met" \in entries)

\* verifyCredentialSubjectSummary
SubjectCheck(doc) ==
    Validity(/\ doc.subject # Nothing \/ doc.identified
             /\ doc.badge => doc.achievement = "typed")

\* verifyCredentialDatesSummary
DatesCheck(doc, at) ==
    Validity(/\ doc.from \in Nat
             /\ doc.until # Garbled
             /\ doc.until \in Nat => doc.until >= doc.from
             /\ doc.from <= at)

\* verifyCredentialStatusSummary, as far as the bit was read. lists: the revoked
\* indexes of each list that can be retrieved.
StatusRead(doc, expected, lists) ==
    /\ doc.status.form = "object"
    /\ expected # NoStatus
    /\ doc.status.type = "entry"
    /\ doc.status.purpose \in {Nothing, "revocation"}
    /\ doc.status.index = expected.index
    /\ doc.status.list = expected.list
    /\ doc.status.index \in Nat
    /\ doc.status.list \in DOMAIN lists

StatusCheck(doc, expected, lists) ==
    IF doc.status.form = "absent" /\ expected = NoStatus THEN "unchecked"
    ELSE Validity(StatusRead(doc, expected, lists))

\* The revoked bit; "revoked" is false where it is null.
BitSet(doc, expected, lists) ==
    StatusRead(doc, expected, lists) /\ doc.status.index \in lists[doc.status.list]

\* statusListReferenceFromCredentialForPresentation: a presented credential is held
\* against its own reference.
OwnReference(doc) ==
    IF /\ doc.status.form = "object"
       /\ doc.status.type # Nothing /\ doc.status.index # Missing /\ doc.status.list # <<>>
       /\ doc.status.purpose \in {Nothing, "revocation"}
    THEN doc.status ELSE NoStatus

\* summarizeCredentialLifecycleVerification
LifecycleOf(doc, isRevoked, at) ==
    CASE isRevoked -> "revoked"
      [] ~ isRevoked /\ doc.until \in Nat /\ doc.until <= at -> "expired"
      [] OTHER -> "active"

\* Mutant: terms that no context defines are let pass.
PresentedWithUnknownTerms(doc, holder, at, lists, proof) ==
    /\ doc.subject = holder
    /\ proof = "valid"
    /\ SchemaCheck(doc) # "invalid" /\ SubjectCheck(doc) = "valid"
    /\ DatesCheck(doc, at) = "valid"
    /\ StatusCheck(doc, OwnReference(doc), lists) # "invalid"
    /\ LifecycleOf(doc, BitSet(doc, OwnReference(doc), lists), at) = "active"

\* verifyCredentialInPresentation and credentialChecksPassPresentationPolicy
PassesPresented(doc, holder, at, lists, proof) ==
    /\ doc.subject = holder
    /\ proof = "valid"
    /\ SafeMode(doc) = "valid" /\ SchemaCheck(doc) # "invalid" /\ SubjectCheck(doc) = "valid"
    /\ DatesCheck(doc, at) = "valid"
    /\ StatusCheck(doc, OwnReference(doc), lists) # "invalid"
    /\ LifecycleOf(doc, BitSet(doc, OwnReference(doc), lists), at) = "active"

\* jwksDocumentForSigningEntry
Jwks(active, history) == {active} \cup {k \in history : k # active}
=============================================================================
