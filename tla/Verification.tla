----------------------------- MODULE Verification -----------------------------
(***************************************************************************)
(* What a verifier is told of an assertion while others change it          *)
(* (AssertionLifecycle): the verification response, the documents (JSON-LD *)
(* and PDF) and the verification of a presentation, each a sequence of     *)
(* reads (routes/credential-routes.ts, badges/public-badge-model.ts,       *)
(* presentation/verification-helpers.ts), and the keys that proofs are     *)
(* verified with (signing/registry.ts).                                    *)
(*                                                                         *)
(* Credentials the program issues have no validUntil, so none expires by   *)
(* its date. That no two assertions share an index is assumed here:        *)
(* BadgeIssuance shows when they do.                                       *)
(***************************************************************************)
EXTENDS AssertionLifecycle, StatusList

CONSTANTS
    Verifiers,    \* requests to verify that may overlap
    Index,        \* the assertion's status_list_index
    Others,       \* the indexes of the tenant's other assertions
    Keys,         \* signing keys, each with a key id of its own
    EnvKey        \* the key of TENANT_SIGNING_REGISTRY_JSON

ASSUME IndexesAssumption == Index \in Nat /\ Others \subseteq Nat \ {Index}
ASSUME KeysAssumption == EnvKey \in Keys

VARIABLES
    revokedOthers,  \* those of Others whose revoked_at is set
    registration,   \* tenant_signing_registrations: its key, if there is a row
    history,        \* TENANT_SIGNING_KEY_HISTORY_JSON
    vpc, view,      \* where each verifier is, and what it has read
    views,          \* assertion_engagement_events: verification_view
    shown,          \* history: what each verifier was last told
    seen            \* history: the states the assertion was in since it asked

keyVars == <<registration, history>>
verifyVars == <<revokedOthers, registration, history, vpc, view, views, shown>>
allVars == <<vars, verifyVars, seen>>

NoKey == "no key"
Kinds == {"verify", "document", "present"}
VerifySteps == {"idle", "loadRow", "loadAssertion", "loadEvent", "record", "list", "proof"}
Listings == {"revoked", "clear", "unknown"}
NoView == [kind |-> "verify", clean |-> FALSE, wasRevoked |-> FALSE, row |-> NoTime,
           read |-> NoTime, lifecycle |-> "active", at |-> 0, listed |-> "unknown"]
View == [kind: Kinds, clean: BOOLEAN, wasRevoked: BOOLEAN, row: Times \cup {NoTime},
         read: Times \cup {NoTime}, lifecycle: States, at: Times, listed: Listings]
NoAnswer == [status |-> "none", lifecycle |-> "active", listed |-> "unknown",
             revokedAt |-> NoTime, proof |-> "none"]
Shown == [status: States \cup {"none", "valid", "invalid"}, lifecycle: States,
          listed: Listings, revokedAt: Times \cup {NoTime}, proof: {"none", "valid", "invalid"}]

VerifyInit ==
    /\ Init
    /\ revokedOthers \in SUBSET Others
    /\ registration = NoKey /\ history = {}
    /\ vpc = [v \in Verifiers |-> "idle"]
    /\ view = [v \in Verifiers |-> NoView]
    /\ views = 0
    /\ shown = [v \in Verifiers |-> NoAnswer]
    /\ seen = [v \in Verifiers |-> {}]

\* The credential was signed with the key of the environment.
SignedWith == EnvKey

\* resolveSigningEntryForDid: a row of the database hides the environment's key.
ActiveKey == IF registration # NoKey THEN registration ELSE EnvKey

\* verifyCredentialProofSummary, of a credential nobody altered.
Proof == IF SignedWith \in {ActiveKey} \cup history THEN "valid" ELSE "invalid"

\* listAssertionStatusListEntries
Entries ==
    {[index |-> Index, revoked |-> revokedAt # NoTime]}
    \cup {[index |-> o, revoked |-> o \in revokedOthers] : o \in Others}

\* The time of revocation that the response goes by: of the moment of the check if
\* the list could be read, and of the row otherwise.
RevokedAtFor(m) ==
    CASE m.listed = "revoked" -> m.at
      [] m.listed = "clear"   -> NoTime
      [] m.listed = "unknown" -> m.row

\* Mutant: the lifecycle record alone decides.
MergedFromRecord(base, m) == m.lifecycle

\* mergedCredentialLifecycle
Merged(base, m) == IF m.lifecycle = "revoked" \/ base # NoTime THEN "revoked" ELSE m.lifecycle

\* Its revokedAt, which is the lifecycle record's if that has one.
MergedAt(base, m) ==
    IF m.lifecycle = "revoked" /\ m.read # NoTime THEN m.read ELSE base

\* Mutant: a list that cannot be read is not held against the credential.
PassesLeniently(m) == m.clean /\ Proof = "valid" /\ m.listed # "revoked"

\* verifyCredentialInPresentation: credentialChecksPassPresentationPolicy and the rest.
Passes(m) == m.clean /\ Proof = "valid" /\ m.listed = "clear"

Advance(v, from, to, m) ==
    /\ vpc[v] = from
    /\ vpc' = [vpc EXCEPT ![v] = to]
    /\ view' = [view EXCEPT ![v] = m]

Tell(v, from, answer) ==
    /\ Advance(v, from, "idle", NoView)
    /\ shown' = [shown EXCEPT ![v] = answer]

-----------------------------------------------------------------------------
(* A request. Whatever it reads, it changes nothing but the count of views. *)

\* clean: the credential's context, schema, subject and dates, and the holder's
\* binding and proof, are in order. The document routes and the verification
\* response show the assertion's record; a presentation is judged from itself.
Ask(v, kind, clean) ==
    /\ now < MaxBegins
    /\ now' = now + 1
    /\ Advance(v, "idle", IF kind = "present" THEN "list" ELSE "loadRow",
             [NoView EXCEPT !.kind = kind, !.clean = clean, !.at = now + 1,
                            !.wasRevoked = (State = "revoked")])
    /\ shown' = [shown EXCEPT ![v] = NoAnswer]
    /\ UNCHANGED <<revokedAt, revocation, events, audited, pc, mem, answers, faults,
                   revokedOthers, keyVars, views>>

\* findAssertionById; the credential object does not change.
LoadRow(v) ==
    /\ Advance(v, "loadRow", "loadAssertion", [view[v] EXCEPT !.row = revokedAt])
    /\ UNCHANGED <<vars, revokedOthers, keyVars, views, shown>>

\* resolveAssertionLifecycleState reads the row again and then the latest event.
LoadAssertion(v) ==
    /\ Advance(v, "loadAssertion", "loadEvent", [view[v] EXCEPT !.read = revokedAt])
    /\ UNCHANGED <<vars, revokedOthers, keyVars, views, shown>>

\* The documents go by the record and by the row that was read first.
LoadEvent(v) ==
    LET m == [view[v] EXCEPT !.lifecycle = StateFrom(view[v].read, LatestState)]
    IN  /\ vpc[v] = "loadEvent"
        /\ IF m.kind = "document"
           THEN Tell(v, "loadEvent", [NoAnswer EXCEPT !.status = Merged(m.row, m),
                        !.lifecycle = m.lifecycle, !.revokedAt = MergedAt(m.row, m)])
           ELSE Advance(v, "loadEvent", "record", m) /\ UNCHANGED shown
        /\ UNCHANGED <<vars, revokedOthers, keyVars, views>>

\* recordAssertionEngagementEvent: a row per view.
RecordView(v) ==
    /\ Advance(v, "record", "list", view[v])
    /\ views' = views + 1
    /\ UNCHANGED <<vars, revokedOthers, keyVars, shown>>

\* The program requests its own status list, which is built from the rows; the
\* request, the remote signer or the decoding may fail.
ReadList(v) ==
    /\ \E listed \in {Decode(Encode(Entries), Index), "unknown"} :
            Advance(v, "list", "proof", [view[v] EXCEPT !.listed = listed])
    /\ UNCHANGED <<vars, revokedOthers, keyVars, views, shown>>

CheckProof(v) ==
    LET m == view[v]
        base == RevokedAtFor(m)
    IN  /\ vpc[v] = "proof"
        /\ Tell(v, "proof",
                IF m.kind = "present"
                THEN [NoAnswer EXCEPT !.status = IF Passes(m) THEN "valid" ELSE "invalid",
                                      !.listed = m.listed, !.proof = Proof]
                ELSE [status |-> Merged(base, m), lifecycle |-> m.lifecycle,
                      listed |-> m.listed, revokedAt |-> MergedAt(base, m), proof |-> Proof])
        /\ UNCHANGED <<vars, revokedOthers, keyVars, views>>

-----------------------------------------------------------------------------
(* What else goes on.                                                      *)

RevokeOther(o) ==
    /\ o \notin revokedOthers
    /\ revokedOthers' = revokedOthers \cup {o}
    /\ UNCHANGED <<vars, keyVars, vpc, view, views, shown>>

\* A new deployment keeps the key in use in the history, "for rotation continuity".
KeepKey ==
    /\ ActiveKey \notin history
    /\ history' = history \cup {ActiveKey}
    /\ UNCHANGED <<vars, revokedOthers, registration, vpc, view, views, shown>>

\* PUT .../signing-registration; operators keep a key before they replace it.
Rotate(k) ==
    /\ ActiveKey \in history
    /\ k \notin history
    /\ registration' = k
    /\ UNCHANGED <<vars, revokedOthers, history, vpc, view, views, shown>>

Observe ==
    seen' = [v \in Verifiers |-> IF vpc'[v] = "idle" THEN {} ELSE seen[v] \cup {State, State'}]

Answering(v) ==
    \/ \E kind \in Kinds, clean \in BOOLEAN : (kind # "present" => clean) /\ Ask(v, kind, clean)
    \/ LoadRow(v) \/ LoadAssertion(v) \/ LoadEvent(v) \/ RecordView(v)
    \/ ReadList(v) \/ CheckProof(v)

\* The assertion lives on, or a verifier takes a step.
LifeNext == ((Next /\ UNCHANGED verifyVars) \/ \E v \in Verifiers : Answering(v)) /\ Observe

\* The rest of the tenant changes.
AroundNext ==
    /\ (\E o \in Others : RevokeOther(o)) \/ KeepKey \/ (\E k \in Keys : Rotate(k))
    /\ Observe

VerifyNext == LifeNext \/ AroundNext

VerifySpec == VerifyInit /\ [][VerifyNext]_allVars

-----------------------------------------------------------------------------
(* Properties.                                                             *)

\* Columns, memories and answers keep their types.
VerifyTypeOK ==
    /\ TypeOK
    /\ revokedOthers \subseteq Others
    /\ registration \in Keys \cup {NoKey}
    /\ history \subseteq Keys
    /\ vpc \in [Verifiers -> VerifySteps]
    /\ view \in [Verifiers -> View]
    /\ views \in Nat
    /\ shown \in [Verifiers -> Shown]
    /\ seen \in [Verifiers -> SUBSET States]

Told(v) == vpc[v] # "idle" /\ vpc'[v] = "idle"

\* Whoever asks after the revocation is told of it, even if the status list cannot
\* be read: the response falls back on the rows, and a presentation is refused.
RevokedIsShown(v) == view[v].wasRevoked => shown'[v].status \in {"revoked", "invalid"}

\* Nobody is told that an assertion is revoked because another one is, or too early.
ShownIsRevoked(v) ==
    shown'[v].status = "revoked" \/ shown'[v].listed = "revoked" => State = "revoked"

\* An assertion that stayed in one state while it was looked at is shown in it.
StableIsShown(v) ==
    \A s \in States : seen[v] = {s} /\ view[v].kind # "present" => shown'[v].status = s

\* What a verifier is told is true, although its request read the row, the record and the
\* list in statements of their own while the assertion went on changing.
AnswersTell ==
    \A v \in Verifiers :
        Told(v) => RevokedIsShown(v) /\ ShownIsRevoked(v) /\ StableIsShown(v)

\* The parts of an answer were read at different times; the summary is never
\* better than any of them, and a time of revocation comes with a revocation.
SummaryIsWorst ==
    \A v \in Verifiers :
        LET a == shown[v]
        IN  /\ a.listed = "revoked" => a.status \in {"revoked", "invalid"}
            /\ a.lifecycle # "active" => a.status \in {a.lifecycle, "revoked"}
            /\ a.revokedAt # NoTime => a.status = "revoked"

\* A credential's proof verifies before, while and after its key is replaced.
ProofSurvives == \A v \in Verifiers : shown[v].proof # "invalid"

\* An answer is consistent in itself, and its proof check passes, whatever changed meanwhile.
PartsAgree == VerifyTypeOK /\ SummaryIsWorst /\ ProofSurvives
=============================================================================
