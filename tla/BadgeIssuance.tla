---------------------------- MODULE BadgeIssuance ----------------------------
(***************************************************************************)
(* Issuing a badge (apps/api-worker/src/badges/direct-issue.ts) over the   *)
(* Postgres tables and the object store it writes one after another.       *)
(*                                                                         *)
(* A slot of Requests is one run of issueBadgeForTenant: a manual issue, a *)
(* rule's issue, or an issue_badge job, which JobQueue may deliver again.  *)
(* Nothing spans two statements, so every step below is one statement or   *)
(* one object-store call, and a run may end by an error after any of them. *)
(* One tenant is modelled: every query is bound to the tenant of the run.  *)
(***************************************************************************)
EXTENDS Integers, FiniteSets

CONSTANTS
    Requests,   \* runs of issueBadgeForTenant that may overlap
    Keys,       \* idempotency keys
    Learners,   \* recipient identities (type and normalised value)
    Ids,        \* supply of assertion ids
    Profiles,   \* supply of learner profile ids
    NoValue,    \* NULL, an absent row or object
    MaxFaults   \* bound on the runs lost between two of their steps

ASSUME NoValueAssumption == NoValue \notin Ids \cup Profiles \cup Keys \cup Learners
ASSUME MaxFaultsAssumption == MaxFaults \in Nat

VARIABLES
    assertions,  \* the assertions table: Ids -> Assertion or NoValue
    objects,     \* the object store: Ids -> the signed credential or NoValue
    profiles,    \* ids in learner_profiles
    identities,  \* learner_identities: Learners -> profile or NoValue
    written,     \* Ids -> the rows that follow the assertion's own
    pc,          \* what each run does next
    call,        \* what each run has read and decided
    answers,     \* history: responses returned
    faults       \* history: runs lost

vars == <<assertions, objects, profiles, identities, written, pc, call, answers, faults>>

Steps == {"idle", "find", "replay", "profile", "newProfile", "newIdentity", "index",
          "store", "insert", "recipients", "attribution", "audit", "answer"}
FollowUps == {"recipients", "attribution", "audit"}
Assertion == [key: Keys, profile: Profiles, index: Nat,
              state: {"active", "suspended", "revoked"}]
Credential == [subject: Profiles, index: Nat]
Call == [key: Keys \cup {NoValue}, learner: Learners \cup {NoValue},
         id: Ids \cup {NoValue}, profile: Profiles \cup {NoValue}, index: Nat]
Answer == [key: Keys, id: Ids, status: {"issued", "already_issued"}]

ASSUME NoRowAssumption == NoValue \notin Assertion /\ NoValue \notin Credential

NoCall == [key |-> NoValue, learner |-> NoValue, id |-> NoValue,
           profile |-> NoValue, index |-> 0]

Rows == {a \in Ids : assertions[a] # NoValue}
RowsOfKey(k) == {a \in Rows : assertions[a].key = k}

UsedIds == Rows \cup {a \in Ids : objects[a] # NoValue} \cup {call[r].id : r \in Requests}
UsedProfiles == profiles \cup {call[r].profile : r \in Requests}
FreshId == CHOOSE a \in Ids : a \notin UsedIds
FreshProfile == CHOOSE p \in Profiles : p \notin UsedProfiles

Init ==
    /\ assertions = [a \in Ids |-> NoValue]
    /\ objects = [a \in Ids |-> NoValue]
    /\ profiles = {}
    /\ identities = [l \in Learners |-> NoValue]
    /\ written = [a \in Ids |-> {}]
    /\ pc = [r \in Requests |-> "idle"]
    /\ call = [r \in Requests |-> NoCall]
    /\ answers = {}
    /\ faults = 0

Goto(r, s) == pc' = [pc EXCEPT ![r] = s]

\* The run is over; what it had in memory is gone.
End(r) == Goto(r, "idle") /\ call' = [call EXCEPT ![r] = NoCall]

-----------------------------------------------------------------------------
(* One run, step by step. Begin stands for the checks of the badge         *)
(* template too: a run that fails them has changed nothing. Ids and        *)
(* Profiles bound the model: a run that finds none left ends.              *)

Begin(r, k, l) ==
    /\ pc[r] = "idle"
    /\ Goto(r, "find")
    /\ call' = [call EXCEPT ![r] = [NoCall EXCEPT !.key = k, !.learner = l]]
    /\ UNCHANGED <<assertions, objects, profiles, identities, written, answers, faults>>

\* findAssertionByIdempotencyKey
FindExisting(r) ==
    /\ pc[r] = "find"
    /\ IF RowsOfKey(call[r].key) = {}
       THEN Goto(r, "profile") /\ UNCHANGED call
       ELSE \E a \in RowsOfKey(call[r].key) :
              Goto(r, "replay") /\ call' = [call EXCEPT ![r].id = a]
    /\ UNCHANGED <<assertions, objects, profiles, identities, written, answers, faults>>

\* The key was used: answer with its assertion if that is active and its
\* credential is there, and fail otherwise.
Replay(r) ==
    /\ pc[r] = "replay"
    /\ IF assertions[call[r].id].state = "active" /\ objects[call[r].id] # NoValue
       THEN answers' = answers \cup {[key |-> call[r].key, id |-> call[r].id,
                                      status |-> "already_issued"]}
       ELSE UNCHANGED answers
    /\ End(r)
    /\ UNCHANGED <<assertions, objects, profiles, identities, written, faults>>

\* Mutant: the lookup normalises the identity in another way than the INSERT.
ProfileNotFound(l) == NoValue

ProfileOf(l) == identities[l]

\* findLearnerProfileByIdentity
FindProfile(r) ==
    /\ pc[r] = "profile"
    /\ IF ProfileOf(call[r].learner) = NoValue
       THEN Goto(r, "newProfile") /\ UNCHANGED call
       ELSE /\ Goto(r, "index")
            /\ call' = [call EXCEPT ![r].profile = ProfileOf(call[r].learner)]
    /\ UNCHANGED <<assertions, objects, profiles, identities, written, answers, faults>>

\* createLearnerProfile inserts the profile first ...
CreateProfile(r) ==
    /\ pc[r] = "newProfile"
    /\ IF Profiles \ UsedProfiles # {}
       THEN /\ profiles' = profiles \cup {FreshProfile}
            /\ call' = [call EXCEPT ![r].profile = FreshProfile]
            /\ Goto(r, "newIdentity")
       ELSE End(r) /\ UNCHANGED profiles
    /\ UNCHANGED <<assertions, objects, identities, written, answers, faults>>

\* UNIQUE (tenant_id, identity_type, identity_value)
IdentityIsFree(l) == identities[l] = NoValue

\* ... and then its identity, which is unique: the loser of two concurrent runs
\* fails here and leaves a profile that no identity points to.
AddIdentity(r) ==
    /\ pc[r] = "newIdentity"
    /\ IF IdentityIsFree(call[r].learner)
       THEN /\ identities' = [identities EXCEPT ![call[r].learner] = call[r].profile]
            /\ Goto(r, "index")
            /\ UNCHANGED call
       ELSE End(r) /\ UNCHANGED identities
    /\ UNCHANGED <<assertions, objects, profiles, written, answers, faults>>

\* nextAssertionStatusListIndex: COALESCE(MAX(status_list_index), -1) + 1
NextIndex ==
    CHOOSE i \in 0..Cardinality(Rows) :
        /\ \A a \in Rows : assertions[a].index < i
        /\ i = 0 \/ \E a \in Rows : assertions[a].index = i - 1

AllocateIndex(r) ==
    /\ pc[r] = "index"
    /\ IF Ids \ UsedIds # {}
       THEN /\ call' = [call EXCEPT ![r].id = FreshId, ![r].index = NextIndex]
            /\ Goto(r, "store")
       ELSE End(r)
    /\ UNCHANGED <<assertions, objects, profiles, identities, written, answers, faults>>

\* Signing fixes the index and the subject in the credential; it is then put
\* under the key of the new id.
StoreCredential(r) ==
    /\ pc[r] = "store"
    /\ objects' = [objects EXCEPT ![call[r].id] = [subject |-> call[r].profile,
                                                   index |-> call[r].index]]
    /\ Goto(r, "insert")
    /\ UNCHANGED <<assertions, profiles, identities, written, call, answers, faults>>

\* Mutant: no constraint on the key.
KeyAlwaysFree(k) == TRUE

\* UNIQUE (tenant_id, idempotency_key)
KeyIsFree(k) == RowsOfKey(k) = {}

\* Mutant: the row takes an index of its own.
NewRowReindexed(r) == [key |-> call[r].key, profile |-> call[r].profile,
                       index |-> NextIndex, state |-> "active"]

NewRow(r) == [key |-> call[r].key, profile |-> call[r].profile,
              index |-> call[r].index, state |-> "active"]

\* createAssertion: a second row of the key is refused and fails the run.
InsertAssertion(r) ==
    /\ pc[r] = "insert"
    /\ IF KeyIsFree(call[r].key)
       THEN /\ assertions' = [assertions EXCEPT ![call[r].id] = NewRow(r)]
            /\ Goto(r, "recipients")
            /\ UNCHANGED call
       ELSE End(r) /\ UNCHANGED assertions
    /\ UNCHANGED <<objects, profiles, identities, written, answers, faults>>

After(s) == CASE s = "recipients" -> "attribution"
              [] s = "attribution" -> "audit"
              [] s = "audit" -> "answer"

\* insertAssertionRecipientIdentifiers, upsertAssertionReportingAttribution and
\* createAuditLog follow in this order.
WriteFollowUp(r) ==
    /\ pc[r] \in FollowUps
    /\ written' = [written EXCEPT ![call[r].id] = @ \cup {pc[r]}]
    /\ Goto(r, After(pc[r]))
    /\ UNCHANGED <<assertions, objects, profiles, identities, call, answers, faults>>

\* A failed e-mail is logged and changes nothing.
AnswerIssued(r) ==
    /\ pc[r] = "answer"
    /\ answers' = answers \cup {[key |-> call[r].key, id |-> call[r].id,
                                 status |-> "issued"]}
    /\ End(r)
    /\ UNCHANGED <<assertions, objects, profiles, identities, written, faults>>

\* A statement, the signer or the object store fails, or the run is killed.
Fault(r) ==
    /\ pc[r] # "idle"
    /\ faults < MaxFaults
    /\ faults' = faults + 1
    /\ End(r)
    /\ UNCHANGED <<assertions, objects, profiles, identities, written, answers>>

-----------------------------------------------------------------------------
(* Lifecycle transitions of issued assertions, as AssertionLifecycle has   *)
(* them, seen from here: "suspended" stands for "expired" too.             *)

ChangeState(a, s) ==
    /\ a \in Rows
    /\ assertions[a].state # "revoked"
    /\ assertions[a].state # s
    /\ assertions' = [assertions EXCEPT ![a].state = s]
    /\ UNCHANGED <<objects, profiles, identities, written, pc, call, answers, faults>>

Step(r) ==
    \/ FindExisting(r) \/ Replay(r)
    \/ FindProfile(r) \/ CreateProfile(r) \/ AddIdentity(r)
    \/ AllocateIndex(r) \/ StoreCredential(r) \/ InsertAssertion(r)
    \/ WriteFollowUp(r) \/ AnswerIssued(r)

Next ==
    \/ \E r \in Requests :
        \/ \E k \in Keys, l \in Learners : Begin(r, k, l)
        \/ Step(r)
        \/ Fault(r)
    \/ \E a \in Ids : \E s \in {"active", "suspended", "revoked"} : ChangeState(a, s)

Spec == Init /\ [][Next]_vars

-----------------------------------------------------------------------------
(* The status list a verifier fetches (routes/credential-routes.ts): the   *)
(* bit of an index is set when some row of that index is revoked.          *)

RevokedBits == {assertions[a].index : a \in {b \in Rows : assertions[b].state = "revoked"}}

-----------------------------------------------------------------------------
(* Properties.                                                             *)

\* Every table, the object store and every run's memory keep their types; an
\* identity points to a profile that is in its table (a foreign key).
TypeOK ==
    /\ assertions \in [Ids -> Assertion \cup {NoValue}]
    /\ objects \in [Ids -> Credential \cup {NoValue}]
    /\ profiles \subseteq Profiles
    /\ identities \in [Learners -> profiles \cup {NoValue}]
    /\ written \in [Ids -> SUBSET FollowUps]
    /\ pc \in [Requests -> Steps]
    /\ call \in [Requests -> Call]
    /\ answers \subseteq Answer
    /\ faults \in Nat

\* An idempotency key has one assertion, however many runs of it overlap between
\* the lookup and the INSERT of direct-issue.ts.
OneAssertionPerKey == \A k \in Keys : Cardinality(RowsOfKey(k)) <= 1

\* A row never waits for its credential: what is stored under the assertion's id
\* carries the row's own status index and learner profile, also after a fault
\* (the message "is missing its immutable credential object" cannot occur).
RowMatchesCredential ==
    \A a \in Rows :
        objects[a] = [subject |-> assertions[a].profile, index |-> assertions[a].index]

\* All callers of a key are told of the same assertion, which is the key's row.
AnswersAgree == \A x \in answers : RowsOfKey(x.key) = {x.id}

\* A credential is issued to the one profile the recipient's identity points to,
\* never to a profile a lost race left behind.
SubjectHasIdentity ==
    \A a \in Rows : \E l \in Learners : identities[l] = assertions[a].profile

\* Who is answered "issued" was told so after the rows that follow the assertion
\* were written, the audit log among them.
IssuedIsRecorded ==
    \A x \in answers : x.status = "issued" => written[x.id] = FollowUps

\* What was issued under a key is one assertion, its credential, its recipient's identity
\* and all the rows that follow, whatever runs overlapped or were lost.
IssuedIsWhole ==
    /\ TypeOK /\ OneAssertionPerKey /\ RowMatchesCredential
    /\ AnswersAgree /\ SubjectHasIdentity /\ IssuedIsRecorded

\* The bit of a credential's index is set in the tenant's status list exactly
\* when its assertion is revoked.
BitMeansRevoked ==
    \A a \in Rows : objects[a].index \in RevokedBits <=> assertions[a].state = "revoked"

-----------------------------------------------------------------------------
(* Issuance implements its promise.                                        *)

IssuedId(k) == IF RowsOfKey(k) = {} THEN NoValue ELSE CHOOSE a \in RowsOfKey(k) : TRUE

Promise ==
    INSTANCE IdempotentIssuance
    WITH NoId <- NoValue,
         issued <- [k \in Keys |-> IssuedId(k)],
         stored <- {a \in Ids : objects[a] # NoValue},
         answered <- [k \in Keys |-> {x.id : x \in {y \in answers : y.key = k}}]

\* Seen through its tables, a run of issueBadgeForTenant does what
\* IdempotentIssuance allows and no more.
ImplementsPromise == Promise!Spec

\* The queue delivers a failed message again and clients repeat a failed request.
FairSpec ==
    /\ Spec
    /\ \A r \in Requests : WF_vars(Step(r))
    /\ \A k \in Keys : SF_vars(\E r \in Requests, l \in Learners : Begin(r, k, l))

\* A request that is repeated is answered in the end, whatever an earlier run of
\* it left behind when it failed, unless its assertion is no longer active.
RetriesAreAnswered ==
    \A k \in Keys :
        <>(\/ \E x \in answers : x.key = k
           \/ \E a \in RowsOfKey(k) : assertions[a].state # "active")
=============================================================================
