--------------------------- MODULE MCLearnerImport ---------------------------
(* Small instances of LearnerImport, LearnerRecord and MigrationUpload in   *)
(* one run: a behaviour is one of the imports of learner records, one of    *)
(* administrators' requests, or one of the uploads of badges.               *)
EXTENDS LearnerImport, MigrationUpload

CONSTANTS b1, b2, u1, u2, t1,
          class1, class2, issuer1, web1, title1, title2, name1

VARIABLE focus

SomeJobs == {b1} \X {1, 2}
SomeOwner == [t \in {t1} |-> u1]

Plain == [parses |-> TRUE, trust |-> Nothing, recordType |-> "other", units |-> {},
          namesUnit |-> FALSE, templates |-> {}, namesTemplate |-> FALSE]

\* One row; two rows, one of which takes its unit from its template; and a file with a
\* supplemental artifact and with two units in one row.
SomeFiles ==
    {[n \in {1} |-> [Plain EXCEPT !.recordType = "supplemental_artifact"]],
     [n \in {1, 2} |-> IF n = 1 THEN Plain
                       ELSE [Plain EXCEPT !.templates = {t1}, !.namesTemplate = TRUE]],
     [n \in {1, 2} |-> IF n = 1 THEN [Plain EXCEPT !.trust = "learner_supplemental",
                                                   !.recordType = "supplemental_artifact"]
                       ELSE [Plain EXCEPT !.units = {u1, u2}, !.namesUnit = TRUE]]}

Verified == [trustLevel |-> "issuer_verified", recordType |-> "other", status |-> "active",
             sourceSystem |-> "credtrail_admin", revokedAt |-> FALSE]
Supplemental == [Verified EXCEPT !.trustLevel = "learner_supplemental",
                                 !.recordType = "supplemental_artifact"]
SelfReported == [Verified EXCEPT !.trustLevel = "learner_supplemental",
                                 !.sourceSystem = "learner_self_reported"]
SomeRecords == {Verified, Supplemental, SelfReported}

Source(s, at) == [sourceSystem |-> s, revokedAt |-> at]
SomePatches ==
    {[trustLevel |-> t] : t \in TrustLevels}
    \cup {[recordType |-> t] : t \in RecordTypes}
    \cup {[status |-> s] : s \in {"active", "expired"}}
    \cup {[status |-> "revoked"] @@ Source(s, TRUE) : s \in SourceSystems}
    \cup {Source(s, FALSE) : s \in SourceSystems}

-----------------------------------------------------------------------------
\* Exports of one row: every recipient, with one badge; and one recipient, with every
\* choice of what is said of the badge and its issuer.

PlainRow == [identity |-> "address", type |-> Undefined, hashed |-> FALSE, badgeId |-> class1,
             badgeName |-> title1, issuerId |-> Undefined, issuerUrl |-> Undefined,
             issuerName |-> Undefined]
RecipientRows ==
    {[PlainRow EXCEPT !.identity = i, !.type = t, !.hashed = h] :
        i \in {Undefined, "address", "mailto", "sha256", "otherhash", "did"},
        t \in {Undefined, "email", "Email", "url"}, h \in BOOLEAN}
BadgeRows ==
    {[PlainRow EXCEPT !.badgeId = c, !.badgeName = n, !.issuerId = i, !.issuerUrl = u,
                      !.issuerName = x] :
        c \in {Undefined, class1}, n \in {Undefined, title1}, i \in {Undefined, issuer1},
        u \in {Undefined, web1}, x \in {Undefined, name1}}

Line(r) == [is |-> "row", row |-> r, ownClass |-> FALSE]
Blank == [is |-> "blank"]
File(lines) == [parses |-> TRUE, format |-> "csv", lines |-> lines]
AsJson(lines) == [File(lines) EXCEPT !.format = "json"]
Nested == [badgeId |-> class2, badgeName |-> Undefined, issuerId |-> Undefined,
           issuerName |-> name1, issuerUrl |-> Undefined]
JsonRow == [flat |-> PlainRow, nested |-> Nested]
Broken == [File(<<>>) EXCEPT !.parses = FALSE]

TwoRows == File(<<Line(PlainRow), Line([PlainRow EXCEPT !.identity = "did", !.type = "url"])>>)

ExportFiles ==
    {File(<<Line(r)>>) : r \in RecipientRows \cup BadgeRows}
    \cup {TwoRows, File(<<Blank, Line(PlainRow)>>), File(<<Blank>>), Broken,
          File(<<Line(PlainRow), Line(PlainRow), Line(PlainRow)>>),
          AsJson(<<[is |-> "scalar"], Line(JsonRow)>>)}

ClassFile ==
    [parses |-> TRUE, format |-> "classes", lines |-> <<>>, classes |->
        <<[id |-> class1, name |-> title1, awards |-> <<[is |-> "scalar"], Line(JsonRow)>>],
          [id |-> class2, name |-> title2, awards |-> <<[Line(JsonRow) EXCEPT !.ownClass = TRUE]>>]>>]

\* Requests in our own layout: every badge class for every award; and baked images.
Class(id, n) == [id |-> id, name |-> n, issuer |-> Undefined]
SomeRecipient == [identity |-> "address", type |-> "email", hashed |-> FALSE]
Award(badge) == [recipient |-> SomeRecipient, badge |-> badge]
Classes == {Undefined, PlainText, Class(class1, title1), Class(class2, title2),
            Class(Undefined, title2), Class(class1, Undefined)}
Awards == {Undefined, PlainText, Award(Undefined), Award(class1), Award(Class(class2, title1)),
           [recipient |-> Undefined, badge |-> class1]}

Payload(is) == [is |-> is, isAssertion |-> TRUE, self |-> Award(class1), assertion |-> Undefined,
                badgeClass |-> Class(class1, title2), issuer |-> Undefined]
Chunk(kind, keyword, p) == [kind |-> kind, openBadges |-> keyword, packing |-> "deflate", payload |-> p]
Comment == Chunk("text", FALSE, Payload("text"))
Baked(is) == <<Comment, Chunk("packed", TRUE, Payload(is))>>
Images ==
    {Baked(is) : is \in {"json", "url", "text", "empty"}}
    \cup {<<[Chunk("packed", FALSE, Payload("text")) EXCEPT !.packing = p]>> \o Baked("json") :
            p \in {"unknown", "corrupt"}}
    \cup {<<Comment, Chunk("overlong", TRUE, Payload("json"))>>,
          <<Chunk("IEND", FALSE, Payload("text"))>> \o Baked("json")}

Requests ==
    {[NoRequest EXCEPT !.assertion = a, !.badgeClass = c] : a \in Awards, c \in Classes}
    \cup {[NoRequest EXCEPT !.assertion = a, !.badgeClass = c, !.baked = i] :
            a \in {Undefined, Award(class2)}, c \in {Undefined, Class(class2, title2)}, i \in Images}

OwnFiles ==
    {File(<<Line(q)>>) : q \in Requests}
    \cup {AsJson(<<[is |-> "null"], Line([NoRequest EXCEPT !.baked = Baked("json")])>>)}

SomeTemplates == {[slug |-> "s1", title |-> title2, archived |-> FALSE],
                  [slug |-> "s2", title |-> title2, archived |-> TRUE]}
SomeRecipients == {<<"email", "address">>}
SomeSlugs == (title1 :> "s1") @@ (title2 :> "s2") @@ (class1 :> "s3") @@ (class2 :> "s4")
             @@ (<<"imported", 1>> :> "s5") @@ (<<"imported", 2>> :> "s6")

\* Two batches are of one file, and the second is a dry run: no message is one of its. The
\* queue runs for one second once a file of two rows has been queued.
QueueMayRun ==
    /\ migration[b1].rows = ParsedRows("credly_export", TwoRows)
    /\ migration[b1].step = "answered"
    /\ migration[b2].step = "none"
Plans == {<<"file_upload", f>> : f \in OwnFiles}
         \cup ({"credly_export", "parchment_export"} \X ExportFiles)
         \cup {<<"parchment_export", ClassFile>>}
OtherPlans == {<<"import", Broken>>, <<"edit", Broken>>}

ASSUME PlansAssumption == ExportsAreRead(Plans)

-----------------------------------------------------------------------------
queueAll == <<vars, importVars>>

\* A file of one row is worked on by two processors, a longer one by one at a time.
OneAtATime ==
    \A b \in Batches : Cardinality(DOMAIN upload'[b].file) > 1 =>
        \A v, w \in Workers : phase'[v] # "idle" /\ phase'[w] # "idle" => v = w

everything == <<focus, recordVars, queueAll, migration>>

\* The default trust level is varied where it decides whether a row is valid.
TrustOfLongFiles ==
    \A b \in Batches : Cardinality(DOMAIN upload'[b].file) > 1 =>
        upload'[b].trust = "issuer_verified"

MCInit == ImportInit /\ MigrationInit /\ focus \in Plans \cup OtherPlans

MCNext ==
    \/ focus[1] = "import" /\ ImportNext /\ OneAtATime /\ TrustOfLongFiles
       /\ UNCHANGED <<focus, migration>>
    \/ focus[1] = "edit" /\ RecordNext /\ UNCHANGED <<focus, queueAll, migration>>
    \/ focus \in Plans /\ MigrationNext({focus})
       /\ UNCHANGED <<focus, recordVars, importVars>>
    \/ /\ QueueMayRun /\ QueueStep /\ now' = 0
       /\ \A v, w \in Workers : phase'[v] # "idle" /\ phase'[w] # "idle" => v = w
       /\ UNCHANGED <<focus, recordVars, importVars, migration>>
    \* a request that only reads
    \/ UNCHANGED everything

MCSpec == MCInit /\ [][MCNext]_everything

Symmetry == Permutations(Workers) \cup Permutations(Editors)
=============================================================================
