----------------------------- MODULE Ob2Import -----------------------------
(***************************************************************************)
(* Conversion of Open Badges 2.0 awards (migrations/ob2-import.ts): what a *)
(* request gives and what its baked PNG holds are put together and become  *)
(* the badge template and the recipient that an import would issue to.     *)
(* Credly and Parchment exports (credly-export.ts, parchment-export.ts)    *)
(* are first written as such requests, one per row.                        *)
(***************************************************************************)
EXTENDS Integers, Sequences, FiniteSets, SequencesExt

CONSTANTS
    Ids,           \* ids and URLs of badge classes and issuers
    WebUrls,       \* those that are http or https URLs
    Undefined,     \* a field that is not there
    PlainText      \* a text where a JSON object should be

\* a ?? b
OrElse(a, b) == IF a = Undefined THEN b ELSE a

IsObject(v) == v \notin Ids \cup {Undefined}

IfWeb(url) == IF url \in WebUrls THEN url ELSE Undefined

-----------------------------------------------------------------------------
(* The recipient. An identity is known by its form: an address, an address *)
(* after "mailto:", a digest after "sha256$" or after another algorithm's  *)
(* name, a bare digest, a DID or another URL. Only the type "email"        *)
(* itself, in that spelling, loses its "mailto:".                          *)

NormalizedIdentity(identity, type, hashed) ==
    LET bare == IF type = "email" /\ identity = "mailto" THEN "address" ELSE identity
    IN  IF hashed /\ bare = "sha256" THEN "digest" ELSE bare

IdentityType(identity, type, hashed) ==
    CASE hashed                      -> "email_sha256"
      [] ~ hashed /\ type \in {"email", "Email"} -> "email"
      [] ~ hashed /\ type = "url"    -> IF identity = "did" THEN "did" ELSE "url"
      [] OTHER -> CASE identity = "did"                     -> "did"
                    [] identity \in {"address", "mailto"}   -> "email"
                    [] OTHER                                -> "url"

-----------------------------------------------------------------------------
(* The badge class and the issuer, given inline, by reference or aside.    *)
(* Each is none or one.                                                    *)

BadgeClassFor(a, given) ==
    IF IsObject(a.badge) THEN {a.badge}
    ELSE IF a.badge = Undefined \/ given = Undefined THEN {}
    ELSE IF given.id \in {Undefined, a.badge} THEN {given} ELSE {}

\* A reference that does not match the issuer given aside is only warned of.
IssuerFor(class, given) == IF IsObject(class.issuer) THEN class.issuer ELSE given

IssuerField(issuer, f) == IF issuer = Undefined THEN Undefined ELSE issuer[f]

\* convertOb2AssertionToImportCandidate: no conversion stands for an Ob2ImportError.
Conversions(a, badgeClass, issuer) ==
    IF a.recipient = Undefined \/ a.recipient.identity = Undefined THEN {} ELSE
    LET r == a.recipient
        identity == NormalizedIdentity(r.identity, r.type, r.hashed)
    IN  {LET by == IssuerFor(c, issuer)
         IN  [recipientIdentity |-> identity,
              recipientIdentityType |-> IdentityType(identity, r.type, r.hashed),
              title |-> c.name, badgeClassId |-> c.id,
              issuerName |-> IssuerField(by, "name"),
              issuerUrl |-> IfWeb(OrElse(IssuerField(by, "url"), IssuerField(by, "id")))]
         : c \in {k \in BadgeClassFor(a, badgeClass) : k.name # Undefined}}

-----------------------------------------------------------------------------
(* Baked images, as sequences of chunks. A chunk that does not fit into    *)
(* the data, and a text packed by an unknown method, are an                *)
(* Ob2ImportError; a packed text that cannot be inflated throws another    *)
(* error. A text is looked at only under the keyword of Open Badges.       *)

Decides(chunk) ==
    \/ chunk.kind = "overlong"
    \/ chunk.kind = "packed" /\ chunk.packing # "deflate"
    \/ chunk.kind \in {"text", "packed"} /\ chunk.openBadges

Verdict(chunk) ==
    CASE chunk.kind = "overlong" -> "error"
      [] chunk.kind = "packed" /\ chunk.packing = "unknown" -> "error"
      [] chunk.kind = "packed" /\ chunk.packing = "corrupt" -> "throws"
      [] OTHER -> IF chunk.payload.is = "empty" THEN "error" ELSE chunk.payload.is

\* extractOpenBadgesPayloadFromPng: the first chunk that decides, up to the end chunk.
ExtractedFrom(png) ==
    LET reached == {i \in DOMAIN png : \A k \in 1..(i - 1) : png[k].kind # "IEND" /\ ~ Decides(png[k])}
        deciding == {i \in reached : Decides(png[i])}
    IN  IF deciding = {} THEN [verdict |-> "error", payload |-> Undefined]
        ELSE LET i == CHOOSE k \in deciding : TRUE
             IN  [verdict |-> Verdict(png[i]), payload |-> png[i].payload]

\* extractOb2EntitiesFromExtractedJson: the payload is an assertion or holds one.
BakedAssertion(p) == IF p.isAssertion THEN p.self ELSE p.assertion
BakedBadgeClass(p) ==
    OrElse(p.badgeClass, IF IsObject(p.self.badge) THEN p.self.badge ELSE Undefined)

PutTogether(q, p) ==
    [assertion |-> OrElse(q.assertion, BakedAssertion(p)),
     badgeClass |-> OrElse(q.badgeClass, BakedBadgeClass(p)),
     issuer |-> OrElse(q.issuer, p.issuer)]

Outcome(is, conversion) == [is |-> is, conversion |-> conversion]

Converted(e) ==
    LET found == IF e.assertion = Undefined THEN {}
                 ELSE Conversions(e.assertion, e.badgeClass, e.issuer)
    IN  IF found = {} THEN Outcome("error", Undefined)
        ELSE Outcome("converted", CHOOSE c \in found : TRUE)

\* prepareOb2ImportConversion. A baked URL alone gives no conversion and no error.
Prepared(q) ==
    IF q.baked = Undefined THEN Converted(q) ELSE
    LET x == ExtractedFrom(q.baked)
    IN  CASE x.verdict \in {"error", "throws"} -> Outcome(x.verdict, Undefined)
          [] x.verdict = "json" -> Converted(PutTogether(q, x.payload))
          [] x.verdict = "url" /\ q.assertion = Undefined -> Outcome("none", Undefined)
          [] OTHER -> Converted(q)

\* ob2ImportConversionRequestSchema. A cell that holds no JSON object stays a text.
ValidRequest(q) ==
    /\ PlainText \notin {q.assertion, q.badgeClass, q.issuer}
    /\ q.assertion # Undefined \/ q.baked # Undefined

\* POST .../migrations/ob2/convert: its status.
ConvertStatus(q) ==
    IF ~ ValidRequest(q) THEN 400
    ELSE CASE Prepared(q).is = "error" -> 422
           [] Prepared(q).is = "throws" -> 500
           [] OTHER -> 200

-----------------------------------------------------------------------------
(* Rows of an export. In a JSON row the fields of its nested objects come  *)
(* before the flat ones; Credly's rows tell nothing of types and hashes.   *)

NoRequest == [assertion |-> Undefined, badgeClass |-> Undefined, issuer |-> Undefined,
              baked |-> Undefined]

FromJson(r) ==
    [r.flat EXCEPT !.badgeId = OrElse(r.nested.badgeId, @),
                   !.badgeName = OrElse(r.nested.badgeName, @),
                   !.issuerId = OrElse(r.nested.issuerId, @),
                   !.issuerName = OrElse(r.nested.issuerName, @),
                   !.issuerUrl = OrElse(r.nested.issuerUrl, @)]

Recipient(source, row) ==
    [identity |-> row.identity,
     type |-> IF source = "credly_export" THEN "email" ELSE OrElse(row.type, "email"),
     hashed |-> source = "parchment_export" /\ row.hashed]

IssuerReference(row) == OrElse(row.issuerId, row.issuerUrl)

RowIssuer(row) ==
    IF row.issuerName = Undefined /\ IssuerReference(row) = Undefined THEN Undefined
    ELSE [id |-> IssuerReference(row), name |-> row.issuerName, url |-> row.issuerUrl]

\* A badge without a name is named by its id, one without an id by its row.
RowBadgeClass(row, n) ==
    [id |-> row.badgeId, name |-> OrElse(row.badgeName, OrElse(row.badgeId, <<"imported", n>>)),
     issuer |-> OrElse(IssuerReference(row), RowIssuer(row))]

\* rowToOb2Candidate
RowRequest(source, row, n) ==
    [NoRequest EXCEPT
        !.assertion = [recipient |-> Recipient(source, row),
                       badge |-> OrElse(row.badgeId, RowBadgeClass(row, n))],
        !.badgeClass = RowBadgeClass(row, n),
        !.issuer = IF IssuerReference(row) = Undefined THEN Undefined ELSE RowIssuer(row)]

\* flattenJsonRows: Parchment's awards may be listed under their badge classes. Each takes
\* its class's id and name unless it has a class of its own; what is no object is dropped.
Flattened(classes) ==
    FlattenSeq([c \in DOMAIN classes |->
        LET awards == SelectSeq(classes[c].awards, LAMBDA l : l.is = "row")
        IN  [i \in DOMAIN awards |->
                IF awards[i].ownClass THEN awards[i]
                ELSE [awards[i] EXCEPT !.row.nested.badgeId = classes[c].id,
                                       !.row.nested.badgeName = classes[c].name]]])
=============================================================================
