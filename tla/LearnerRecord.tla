---------------------------- MODULE LearnerRecord ----------------------------
(***************************************************************************)
(* The learner record: entries that administrators write next to a         *)
(* learner's badges (packages/db/src/index.ts, routes/learner-record-      *)
(* routes.ts) and the record page built from them                          *)
(* (learner-record/learner-record-presentation.ts).                        *)
(*                                                                         *)
(* An entry is read, merged with a patch and written back whole by another *)
(* statement: any request, and an import, may come between the two.        *)
(***************************************************************************)
EXTENDS Naturals, FiniteSets, TLC

CONSTANTS
    Entries,       \* supply of entry ids (createPrefixedId "lre")
    Editors,       \* requests of administrators
    NewRecords,    \* what a create request may ask for
    Patches,       \* what a patch request may ask for: a function on some fields
    MaxEdits       \* bound on the requests begun

NoEntry == "none"
ASSUME EntriesAssumption == NoEntry \notin Entries /\ IsFiniteSet(Entries)

VARIABLES
    entry,         \* the table: Entries -> LearnerEntry, or NoRecord
    edit,          \* each request: its step, its entry, its patch and what it read
    edits          \* bound: requests begun

recordVars == <<entry, edit, edits>>

TrustLevels == {"issuer_verified", "learner_supplemental"}
RecordTypes == {"supplemental_artifact", "other"}
RecordStatuses == {"active", "revoked", "expired"}
SourceSystems == {"credtrail_admin", "csv_import", "learner_self_reported"}

\* revokedAt says whether the column holds a time.
LearnerEntry ==
    [trustLevel: TrustLevels, recordType: RecordTypes, status: RecordStatuses,
     sourceSystem: SourceSystems, revokedAt: BOOLEAN]
NoRecord == [status |-> "absent"]

\* A request sets columns to values that an entry may have.
ASSUME RequestsAssumption ==
    /\ NewRecords \subseteq LearnerEntry
    /\ \A p \in Patches : \E r \in LearnerEntry :
           \A k \in DOMAIN p : k \in DOMAIN r /\ p[k] = r[k]

NoPatch == <<>>
IdleEdit == [step |-> "idle", entry |-> NoEntry, patch |-> NoPatch, read |-> NoRecord]

Stored == {e \in Entries : entry[e] # NoRecord}

\* Only the three clauses the database layer enforces.
MakesSense(r) ==
    /\ r.trustLevel = "issuer_verified" => r.sourceSystem # "learner_self_reported"
    /\ r.recordType = "supplemental_artifact" => r.trustLevel = "learner_supplemental"
    /\ r.status = "revoked" => r.revokedAt

\* The schema of a patch knows only what the patch itself says. A provenance always
\* names its source; to revoke takes a provenance with a time.
ValidPatch(p) ==
    /\ DOMAIN p # {}
    /\ {"trustLevel", "sourceSystem"} \subseteq DOMAIN p =>
            ~ (p.trustLevel = "issuer_verified" /\ p.sourceSystem = "learner_self_reported")
    /\ {"trustLevel", "recordType"} \subseteq DOMAIN p =>
            ~ (p.trustLevel = "issuer_verified" /\ p.recordType = "supplemental_artifact")
    /\ "revokedAt" \in DOMAIN p => "sourceSystem" \in DOMAIN p
    /\ "status" \in DOMAIN p /\ p.status = "revoked" => "revokedAt" \in DOMAIN p /\ p.revokedAt

RecordInit ==
    /\ entry = [e \in Entries |-> NoRecord]
    /\ edit = [c \in Editors |-> IdleEdit]
    /\ edits = 0

-----------------------------------------------------------------------------

\* createPrefixedId: an id no entry has.
FreshEntry == CHOOSE e \in Entries : e \notin Stored

\* createLearnerRecordEntry: the checks, then one INSERT.
Insert(e, r) ==
    /\ e \notin Stored
    /\ MakesSense(r)
    /\ entry' = [entry EXCEPT ![e] = r]

CreateEntry ==
    /\ edits < MaxEdits
    /\ Entries # Stored
    /\ \E r \in NewRecords : Insert(FreshEntry, r)
    /\ edits' = edits + 1
    /\ UNCHANGED edit

AskPatch(c, e, p) ==
    /\ edit[c].step = "idle"
    /\ edits < MaxEdits
    /\ ValidPatch(p)
    /\ edit' = [edit EXCEPT ![c] = [step |-> "read", entry |-> e, patch |-> p, read |-> NoRecord]]
    /\ edits' = edits + 1
    /\ UNCHANGED entry

\* Mutant: a status that is not given becomes the default one of a new entry.
MergedWithDefault(r, p) == p @@ [r EXCEPT !.status = "active"]

\* Every field the patch leaves out keeps the value that was read.
Merged(r, p) == [k \in DOMAIN r |-> IF k \in DOMAIN p THEN p[k] ELSE r[k]]

\* An entry that is not there is answered 404, a record that makes no sense is an
\* error; either ends the request.
ReadEntry(c) ==
    /\ edit[c].step = "read"
    /\ LET r == entry[edit[c].entry] IN
       edit' = [edit EXCEPT ![c] =
                 IF r # NoRecord /\ MakesSense(Merged(r, edit[c].patch))
                 THEN [@ EXCEPT !.step = "write", !.read = r]
                 ELSE IdleEdit]
    /\ UNCHANGED <<entry, edits>>

\* The UPDATE sets every column from the merged record.
Written(c) == Merged(edit[c].read, edit[c].patch)

WriteEntry(c) ==
    /\ edit[c].step = "write"
    /\ entry' = [entry EXCEPT ![edit[c].entry] = Written(c)]
    /\ edit' = [edit EXCEPT ![c] = IdleEdit]
    /\ UNCHANGED edits

\* A statement fails or the request is killed: nothing more is written.
LoseEdit(c) ==
    /\ edit[c].step # "idle"
    /\ edit' = [edit EXCEPT ![c] = IdleEdit]
    /\ UNCHANGED <<entry, edits>>

RecordNext ==
    \/ CreateEntry
    \/ \E c \in Editors :
        \/ \E e \in Stored, p \in Patches : AskPatch(c, e, p)
        \/ ReadEntry(c) \/ WriteEntry(c) \/ LoseEdit(c)

-----------------------------------------------------------------------------
(* The record page. Entries and badges are listed by two queries; a badge  *)
(* is always issuer_verified, from "badge_assertion" and active until it   *)
(* is revoked.                                                             *)

IsHistorical(r) == r.status # "active"

Section(e) ==
    IF IsHistorical(entry[e]) THEN "historical"
    ELSE IF entry[e].trustLevel = "issuer_verified" THEN "issuerVerifiedActive"
    ELSE "supplementalActive"

-----------------------------------------------------------------------------
(* Properties.                                                             *)

RecordTypeOK ==
    /\ entry \in [Entries -> LearnerEntry \cup {NoRecord}]
    /\ \A c \in Editors :
        /\ edit[c].step \in {"idle", "read", "write"}
        /\ edit[c].entry \in Entries \cup {NoEntry}
        /\ edit[c].read \in LearnerEntry \cup {NoRecord}
        /\ edit[c].step = "write" => edit[c].read # NoRecord

\* However requests overlap, every stored entry is one the rules of
\* assertLearnerRecordEntrySemantics allow: two patches, each of which is fine with
\* what it read, never add up to a record that neither of them asked for.
RecordsMakeSense == \A e \in Stored : MakesSense(entry[e])

\* Under "Institution-verified record" a learner sees nothing that is
\* self-reported, supplemental, revoked or out of date.
VerifiedSectionIsSound ==
    \A e \in Stored :
        Section(e) = "issuerVerifiedActive" =>
            /\ entry[e].sourceSystem # "learner_self_reported"
            /\ entry[e].recordType # "supplemental_artifact"
            /\ entry[e].status = "active"

\* A revoked entry becomes anything else only by a request that said so, or that had
\* read it before it was revoked: a patch of another field does not undo it.
RevokedIsKept ==
    [][\A e \in Stored :
        entry[e].status = "revoked" /\ entry'[e].status # "revoked" =>
            \E c \in Editors :
                /\ edit[c].step = "write" /\ edit[c].entry = e
                /\ "status" \in DOMAIN edit[c].patch \/ edit[c].read.status # "revoked"]_recordVars
=============================================================================
