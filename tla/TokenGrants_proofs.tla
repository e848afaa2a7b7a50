--------------------------- MODULE TokenGrants_proofs ---------------------------
(* Proofs that the exchange of secrets is sound and implements OneTimeGrant, *)
(* for every number of clients, users, badges, secrets and overlapping       *)
(* requests, every lifetime and every number of lost requests.               *)
EXTENDS TokenGrants, FiniteSetTheorems, TLAPS

(* The inductive invariant, in named parts.                                  *)

Given(p, kind) == \E s \in Issued : token[s].parent = p /\ token[s].kind = kind

\* Whose a secret is follows from its kind, and a secret given for another was given
\* for one that was consumed, and carries no more than that did.
SecretsFit ==
    \A s \in Issued :
        /\ token[s].kind \in {"code", "access", "refresh"} =>
               token[s].client \in Clients /\ token[s].subject \in Users
        /\ token[s].kind \in {"preauth", "wallet"} => token[s].subject \in Assertions
        /\ token[s].parent # NoSecret =>
               /\ token[s].parent \in Issued
               /\ token[token[s].parent].kind \in Consumed
               /\ token[token[s].parent].ended # 0

GivenOnce ==
    \A s, t \in Issued :
        /\ token[s].parent # NoSecret /\ token[s].parent = token[t].parent
        /\ token[s].kind = token[t].kind
        => s = t

\* What a request holds between two of its statements.
Holds(r) ==
    LET s == call[r].secret
    IN  /\ pc[r] \in {"insertAccess", "insertRefresh"} =>
               /\ token[s].kind \in {"code", "refresh"} /\ token[s].ended # 0
               /\ call[r].scope \subseteq token[s].scope
               /\ Given(s, "access") <=> pc[r] = "insertRefresh"
               /\ ~ Given(s, "refresh")
        /\ pc[r] = "insertWallet" =>
               /\ token[s].kind = "preauth" /\ token[s].ended # 0
               /\ call[r].scope = {}
               /\ ~ Given(s, "wallet")
        /\ pc[r] \in {"upsertCredential", "upsertProfile"} => token[s].kind = "access"
        /\ pc[r] \in {"findEvent", "insertEvent"} => token[s].kind = "wallet"

RequestsHold == \A r \in Requests : Holds(r)

Exchanging == {"insertAccess", "insertRefresh", "insertWallet"}

\* A secret was consumed by one request.
OneConsumer ==
    \A q, r \in Requests :
        /\ pc[q] \in Exchanging /\ pc[r] \in Exchanging
        /\ call[q].secret = call[r].secret
        => q = r

IInv ==
    /\ TypeOK
    /\ SecretsFit
    /\ GivenOnce
    /\ NeverWidened
    /\ RequestsHold
    /\ OneConsumer
    /\ SpentForTokens
    /\ AcceptanceRecorded

(* How a statement leaves the rows.                                          *)

\* Every row keeps what it says, and an end it has.
RowsStay ==
    \A s \in Issued :
        /\ s \in Issued'
        /\ token'[s].kind = token[s].kind /\ token'[s].client = token[s].client
        /\ token'[s].subject = token[s].subject /\ token'[s].scope = token[s].scope
        /\ token'[s].parent = token[s].parent /\ token'[s].expires = token[s].expires
        /\ token[s].ended # 0 => token'[s] = token[s]

\* One row is inserted.
Inserted(f, new) ==
    /\ f \in Secrets \ Issued
    /\ Issued' = Issued \cup {f}
    /\ token' \in [Secrets -> Row \cup {NoRow}]
    /\ token'[f] = new
    /\ \A s \in Secrets \ {f} : token'[s] = token[s]

\* One row is given an end.
EndsAt(x, n) ==
    /\ Issued' = Issued
    /\ token' \in [Secrets -> Row \cup {NoRow}]
    /\ token'[x].ended = n
    /\ \A s \in Secrets \ {x} : token'[s] = token[s]

-----------------------------------------------------------------------------

LEMMA IssuedRows ==
    ASSUME TypeOK, NEW s \in Issued
    PROVE  s \in Secrets /\ token[s] \in Row /\ s # NoSecret
<1>1. s \in Secrets /\ token[s] \in Row
  BY DEF TypeOK, Issued
<1> QED
  BY <1>1, SecretsAssumption

LEMMA NoRowIsNone == NoRow \notin Row
<1>1. \A x \in Row : x.kind \in Kinds
  BY DEF Row
<1>2. NoRow.kind = "none"
  BY DEF NoRow
<1> QED
  BY <1>1, <1>2 DEF Kinds

LEMMA HandInserts ==
    ASSUME TypeOK, NEW new \in Row, Hand(new)
    PROVE  \E f : Inserted(f, new) /\ RowsStay
<1>1. Fresh \in Secrets /\ Fresh \notin Issued
  <2>1. \E s \in Secrets : s \notin Issued
    BY DEF Hand, Issued
  <2> QED
    BY <2>1 DEF Fresh
<1> DEFINE f == Fresh
<1>2. PICK g : g = f
  OBVIOUS
<1>3. /\ token' = [token EXCEPT ![g] = new]
      /\ token \in [Secrets -> Row \cup {NoRow}]
      /\ g \in Secrets /\ g \notin Issued
  BY <1>1, <1>2 DEF Hand, TypeOK
<1>4. token' \in [Secrets -> Row \cup {NoRow}] /\ token'[g] = new
  BY <1>3
<1>5. \A s \in Secrets \ {g} : token'[s] = token[s]
  BY <1>3
<1>6. Issued' = Issued \cup {g}
  BY <1>3, <1>4, <1>5, NoRowIsNone DEF Issued
<1>7. Inserted(g, new)
  BY <1>3, <1>4, <1>5, <1>6 DEF Inserted
<1>8. RowsStay
  BY <1>3, <1>5, <1>6 DEF RowsStay, Issued
<1> QED
  BY <1>7, <1>8

LEMMA EndedEnds ==
    ASSUME TypeOK, NEW x \in Issued, NEW n \in Nat, token' = Ended(x, n),
           token[x].ended # 0 => n = token[x].ended
    PROVE  EndsAt(x, n) /\ RowsStay
<1>1. token[x] \in Row /\ x \in Secrets /\ token \in [Secrets -> Row \cup {NoRow}]
  BY IssuedRows DEF TypeOK
<1>2. token' = [token EXCEPT ![x] = [token[x] EXCEPT !.ended = n]]
  BY DEF Ended
<1>3. [token[x] EXCEPT !.ended = n] \in Row
  BY <1>1 DEF Row
<1>4. token'[x] = [token[x] EXCEPT !.ended = n] /\ \A s \in Secrets \ {x} : token'[s] = token[s]
  BY <1>1, <1>2
<1>5. token' \in [Secrets -> Row \cup {NoRow}]
  BY <1>1, <1>2, <1>3
<1>6. Issued' = Issued
  BY <1>1, <1>3, <1>4, <1>5, NoRowIsNone DEF Issued
<1>7. /\ token'[x].kind = token[x].kind /\ token'[x].client = token[x].client
      /\ token'[x].subject = token[x].subject /\ token'[x].scope = token[x].scope
      /\ token'[x].parent = token[x].parent /\ token'[x].expires = token[x].expires
      /\ token'[x].ended = n
  BY <1>1, <1>4 DEF Row
<1>8. token[x].ended # 0 => token'[x] = token[x]
  BY <1>1, <1>4 DEF Row
<1>9. EndsAt(x, n)
  BY <1>4, <1>5, <1>6, <1>7 DEF EndsAt
<1>10. RowsStay
  BY <1>4, <1>6, <1>7, <1>8 DEF RowsStay, Issued
<1> QED
  BY <1>9, <1>10

\* What is given is given for good, and no other than what is inserted.
LEMMA GivenAfterEnd ==
    ASSUME RowsStay, Issued' = Issued, NEW p, NEW kind
    PROVE  Given(p, kind)' <=> Given(p, kind)
  BY DEF RowsStay, Given

LEMMA GivenAfterInsert ==
    ASSUME TypeOK, RowsStay, NEW f, NEW new, Inserted(f, new), NEW p, NEW kind
    PROVE  Given(p, kind)' <=> Given(p, kind) \/ (new.parent = p /\ new.kind = kind)
<1>1. Given(p, kind) => Given(p, kind)'
  BY DEF RowsStay, Given
<1>2. new.parent = p /\ new.kind = kind => Given(p, kind)'
  BY DEF Given, Inserted
<1>3. Given(p, kind)' => Given(p, kind) \/ (new.parent = p /\ new.kind = kind)
  BY DEF Given, Inserted, Issued
<1> QED
  BY <1>1, <1>2, <1>3

\* The rows fit together after a statement that only ends one, or none.
LEMMA RowsFitAfterEnd ==
    ASSUME IInv, RowsStay, Issued' = Issued, clientScope' = clientScope
    PROVE  SecretsFit' /\ GivenOnce' /\ NeverWidened'
<1>1. SecretsFit'
  BY DEF IInv, SecretsFit, RowsStay
<1>2. GivenOnce'
  BY DEF IInv, GivenOnce, RowsStay
<1>3. NeverWidened'
  BY DEF IInv, NeverWidened, SecretsFit, RowsStay
<1> QED
  BY <1>1, <1>2, <1>3

\* What the exchange of a secret of a kind gives.
GivesKind(of, kind) ==
    \/ of \in {"code", "refresh"} /\ kind \in {"access", "refresh"}
    \/ of = "preauth" /\ kind = "wallet"

\* What has to hold of a row that is inserted.
NewFits(new) ==
    /\ new \in Row
    /\ new.ended = 0 /\ 0 < new.expires
    /\ new.kind \in {"code", "access", "refresh"} =>
           new.client \in Clients /\ new.subject \in Users
    /\ new.kind \in {"preauth", "wallet"} => new.subject \in Assertions
    /\ new.parent = NoSecret =>
           /\ new.kind \in {"code", "preauth"}
           /\ new.client # NoClient => new.scope \subseteq clientScope[new.client]
    /\ new.parent # NoSecret =>
           /\ new.parent \in Issued
           /\ GivesKind(token[new.parent].kind, new.kind)
           /\ token[new.parent].kind \in Consumed /\ token[new.parent].ended # 0
           /\ new.scope \subseteq token[new.parent].scope
           /\ new.client = token[new.parent].client
           /\ new.subject = token[new.parent].subject
           /\ ~ Given(new.parent, new.kind)

LEMMA RowsFitAfterInsert ==
    ASSUME IInv, RowsStay, NEW f, NEW new, Inserted(f, new), NewFits(new),
           clientScope' = clientScope
    PROVE  SecretsFit' /\ GivenOnce' /\ NeverWidened'
<1>1. /\ Issued' = Issued \cup {f} /\ f \notin Issued /\ token'[f] = new
      /\ \A s \in Issued : token'[s] = token[s]
  BY DEF Inserted, Issued
<1>2. \A s \in Issued : token[s].parent # NoSecret => token[s].parent \in Issued
  BY DEF IInv, SecretsFit
<1>3. SecretsFit'
  <2> SUFFICES ASSUME NEW s \in Issued'
               PROVE  /\ token'[s].kind \in {"code", "access", "refresh"} =>
                             token'[s].client \in Clients /\ token'[s].subject \in Users
                      /\ token'[s].kind \in {"preauth", "wallet"} => token'[s].subject \in Assertions
                      /\ token'[s].parent # NoSecret =>
                             /\ token'[s].parent \in Issued'
                             /\ token'[token'[s].parent].kind \in Consumed
                             /\ token'[token'[s].parent].ended # 0
    BY DEF SecretsFit
  <2>1. CASE s = f
    BY <1>1, <2>1 DEF NewFits
  <2>2. CASE s \in Issued
    BY <1>1, <1>2, <2>2 DEF IInv, SecretsFit
  <2> QED
    BY <1>1, <2>1, <2>2
<1>4. GivenOnce'
  <2> SUFFICES ASSUME NEW s \in Issued', NEW u \in Issued',
                      token'[s].parent # NoSecret, token'[s].parent = token'[u].parent,
                      token'[s].kind = token'[u].kind
               PROVE  s = u
    BY DEF GivenOnce
  <2>1. CASE s = f /\ u \in Issued
    BY <1>1, <2>1 DEF NewFits, Given
  <2>2. CASE u = f /\ s \in Issued
    BY <1>1, <2>2 DEF NewFits, Given
  <2>3. CASE s \in Issued /\ u \in Issued
    BY <1>1, <2>3 DEF IInv, GivenOnce
  <2> QED
    BY <1>1, <2>1, <2>2, <2>3
<1>5. NeverWidened'
  <2> SUFFICES ASSUME NEW s \in Issued'
               PROVE  LET p == token'[s].parent
                      IN  IF p = NoSecret
                          THEN token'[s].client # NoClient =>
                                   token'[s].scope \subseteq clientScope[token'[s].client]
                          ELSE /\ token'[s].scope \subseteq token'[p].scope
                               /\ token'[s].client = token'[p].client
                               /\ token'[s].subject = token'[p].subject
    BY DEF NeverWidened
  <2>1. CASE s = f
    BY <1>1, <2>1 DEF NewFits
  <2>2. CASE s \in Issued
    BY <1>1, <1>2, <2>2 DEF IInv, NeverWidened
  <2> QED
    BY <1>1, <2>1, <2>2
<1> QED
  BY <1>3, <1>4, <1>5

-----------------------------------------------------------------------------
(* How a request moves.                                                      *)

CallsFit ==
    /\ pc \in [Requests -> Places]
    /\ call \in [Requests -> Call \cup {NoCall}]
    /\ \A r \in Requests : IF pc[r] = "idle" THEN call[r] = NoCall
                           ELSE call[r] \in Call /\ call[r].secret \in Issued

LEMMA GotoFits ==
    ASSUME TypeOK, RowsStay, NEW r \in Requests, NEW place \in Places, NEW c, Goto(r, place, c),
           IF place = "idle" THEN c = NoCall ELSE c \in Call /\ c.secret \in Issued'
    PROVE  CallsFit'
<1>1. /\ pc \in [Requests -> Places] /\ call \in [Requests -> Call \cup {NoCall}]
      /\ \A q \in Requests : IF pc[q] = "idle" THEN call[q] = NoCall
                             ELSE call[q] \in Call /\ call[q].secret \in Issued
  BY DEF TypeOK
<1>2. pc' = [pc EXCEPT ![r] = place] /\ call' = [call EXCEPT ![r] = c]
  BY DEF Goto
<1>3. Issued \subseteq Issued'
  BY DEF RowsStay
<1> QED
  BY <1>1, <1>2, <1>3 DEF CallsFit

LEMMA StayFits ==
    ASSUME TypeOK, RowsStay, UNCHANGED <<pc, call>>
    PROVE  CallsFit'
  BY DEF TypeOK, RowsStay, CallsFit

\* The type invariant of the next state, put together.
LEMMA TypesFit ==
    ASSUME TypeOK, RowsStay, CallsFit',
           token' \in [Secrets -> Row \cup {NoRow}],
           \A s \in Issued' :
               token'[s].kind \in {"code", "preauth"} => token'[s].ended < token'[s].expires,
           clientScope' \in [Clients -> SUBSET Scopes], clock' \in 1..MaxTime,
           events' \in [Assertions -> Nat], written' \subseteq Users,
           answered' \subseteq Assertions, wasted' \subseteq Issued', faults' \in 0..MaxFaults
    PROVE  TypeOK'
  BY DEF TypeOK, CallsFit

\* A request that does not move holds what it held, unless what its secret gives has changed.
LEMMA HoldsStays ==
    ASSUME IInv, RowsStay, NEW q \in Requests, pc'[q] = pc[q], call'[q] = call[q],
           \A s \in Issued : pc[q] \in Exchanging /\ call[q].secret = s =>
               \A kind \in Kinds : Given(s, kind)' <=> Given(s, kind)
    PROVE  Holds(q)'
<1>1. PICK s : s = call[q].secret
  OBVIOUS
<1>2. pc[q] # "idle" => s \in Issued
  BY <1>1 DEF IInv, TypeOK
<1>3. Holds(q)
  BY DEF IInv, RequestsHold
<1>4. pc[q] # "idle" =>
        /\ token'[s].kind = token[s].kind /\ token'[s].scope = token[s].scope
        /\ token[s].ended # 0 => token'[s].ended = token[s].ended
  BY <1>2 DEF RowsStay
<1>5. pc[q] \in Exchanging =>
        /\ Given(s, "access")' <=> Given(s, "access")
        /\ Given(s, "refresh")' <=> Given(s, "refresh")
        /\ Given(s, "wallet")' <=> Given(s, "wallet")
  BY <1>1, <1>2 DEF Kinds, Exchanging
<1>6. call'[q].secret = s
  BY <1>1
<1>7. CASE pc[q] \in {"insertAccess", "insertRefresh"}
  <2>1. /\ token[s].kind \in {"code", "refresh"} /\ token[s].ended # 0
        /\ call[q].scope \subseteq token[s].scope
        /\ Given(s, "access") <=> pc[q] = "insertRefresh"
        /\ ~ Given(s, "refresh")
    BY <1>1, <1>3, <1>7 DEF Holds
  <2>2. /\ Given(call[q].secret, "access")' <=> Given(s, "access")
        /\ Given(call[q].secret, "refresh")' <=> Given(s, "refresh")
    BY <1>5, <1>6, <1>7 DEF Exchanging, Given
  <2> QED
    BY <1>4, <1>6, <1>7, <2>1, <2>2 DEF Holds
<1>8. CASE pc[q] = "insertWallet"
  <2>1. /\ token[s].kind = "preauth" /\ token[s].ended # 0 /\ call[q].scope = {}
        /\ ~ Given(s, "wallet")
    BY <1>1, <1>3, <1>8 DEF Holds
  <2>2. Given(call[q].secret, "wallet")' <=> Given(s, "wallet")
    BY <1>5, <1>6, <1>8 DEF Exchanging, Given
  <2> QED
    BY <1>4, <1>6, <1>8, <2>1, <2>2 DEF Holds
<1>9. CASE pc[q] \notin Exchanging
  BY <1>1, <1>3, <1>4, <1>6, <1>9 DEF Holds, Exchanging
<1> QED
  BY <1>7, <1>8, <1>9 DEF Exchanging

\* When what is given stays as it is, one request that moves is all there is to look at.
LEMMA OthersHold ==
    ASSUME IInv, RowsStay, NEW r \in Requests, NEW place, NEW c, Goto(r, place, c), Holds(r)',
           \A q \in Requests \ {r}, s \in Issued : pc[q] \in Exchanging /\ call[q].secret = s =>
               \A kind \in Kinds : Given(s, kind)' <=> Given(s, kind)
    PROVE  RequestsHold'
<1>1. ASSUME NEW q \in Requests, q # r
      PROVE  Holds(q)'
  <2>1. pc'[q] = pc[q] /\ call'[q] = call[q]
    BY <1>1 DEF IInv, TypeOK, Goto
  <2> QED
    BY <1>1, <2>1, HoldsStays
<1> QED
  BY <1>1 DEF RequestsHold

LEMMA OneConsumerStays ==
    ASSUME IInv, NEW r \in Requests, NEW place, NEW c, Goto(r, place, c),
           place \in Exchanging =>
               \/ pc[r] \in Exchanging /\ c.secret = call[r].secret
               \/ \A q \in Requests : pc[q] \in Exchanging => call[q].secret # c.secret
    PROVE  OneConsumer'
<1>1. /\ pc'[r] = place /\ call'[r] = c
      /\ \A q \in Requests \ {r} : pc'[q] = pc[q] /\ call'[q] = call[q]
  BY DEF IInv, TypeOK, Goto
<1> QED
  BY <1>1 DEF IInv, OneConsumer

\* What an exchange of a secret gives.
Gives(s) == IF token[s].kind = "preauth" THEN {"wallet"} ELSE {"access", "refresh"}

\* A secret is spent for its tokens as before if the statement spends none but in a request
\* that goes on or has it wasted, and no request lets go of one that has not given all.
LEMMA SpentStays ==
    ASSUME IInv, RowsStay, wasted \subseteq wasted', faults' = faults,
           \A s \in Issued' : s \notin Issued => token'[s].ended = 0,
           \A s \in Issued : token[s].ended = 0 /\ token'[s].ended # 0 /\ token[s].kind \in Consumed
               => s \in wasted' \/ InFlight(s)',
           \A s \in Issued : InFlight(s) /\ token[s].kind \in Consumed
               => InFlight(s)' \/ \A kind \in Gives(s) : Given(s, kind)'
    PROVE  SpentForTokens'
<1> SUFFICES ASSUME NEW s, s \in Issued',
                    token'[s].kind \in Consumed, token'[s].ended # 0, faults' = 0,
                    s \notin wasted', ~ InFlight(s)', NEW kind,
                    kind \in IF token'[s].kind = "preauth" THEN {"wallet"}
                             ELSE {"access", "refresh"}
             PROVE  GivenFor(s, kind)' # {}
  BY DEF SpentForTokens
<1>1. s \in Issued
  OBVIOUS
<1>2. token'[s].kind = token[s].kind /\ kind \in Gives(s)
  BY <1>1 DEF RowsStay, Gives
<1>3. CASE InFlight(s)
  <2>1. Given(s, kind)'
    BY <1>1, <1>2, <1>3
  <2> QED
    BY <2>1 DEF Given, GivenFor
<1>4. CASE ~ InFlight(s)
  <2>1. token[s].ended # 0
    BY <1>1, <1>2
  <2>2. GivenFor(s, kind) # {}
    BY <1>1, <1>2, <1>4, <2>1 DEF IInv, SpentForTokens, Gives
  <2>3. PICK u \in Issued : token[u].parent = s /\ token[u].kind = kind
    BY <2>2 DEF GivenFor
  <2> QED
    BY <2>3 DEF RowsStay, GivenFor
<1> QED
  BY <1>3, <1>4

-----------------------------------------------------------------------------
(* The steps, by what they do to the rows.                                   *)

LEMMA InitInv == Init => IInv
<1> SUFFICES ASSUME Init
             PROVE  IInv
  OBVIOUS
<1>1. Issued = {}
  BY DEF Init, Issued
<1>2. TypeOK
  BY <1>1, BoundsAssumption DEF Init, TypeOK, Places
<1>3. SecretsFit /\ GivenOnce /\ NeverWidened
  BY <1>1 DEF SecretsFit, GivenOnce, NeverWidened
<1>4. RequestsHold /\ OneConsumer
  BY DEF Init, RequestsHold, Holds, OneConsumer, Exchanging
<1>5. SpentForTokens /\ AcceptanceRecorded
  BY <1>1 DEF Init, SpentForTokens, AcceptanceRecorded
<1> QED
  BY <1>2, <1>3, <1>4, <1>5 DEF IInv

LEMMA NothingWritten ==
    ASSUME TypeOK, UNCHANGED token
    PROVE  /\ RowsStay /\ Issued' = Issued
           /\ token' \in [Secrets -> Row \cup {NoRow}]
           /\ \A s \in Issued' :
                  token'[s].kind \in {"code", "preauth"} => token'[s].ended < token'[s].expires
  BY DEF TypeOK, RowsStay, Issued

\* No request moves.
LEMMA AllHold ==
    ASSUME IInv, RowsStay, UNCHANGED <<pc, call>>,
           \A s \in Issued : \A kind \in Kinds : Given(s, kind)' <=> Given(s, kind)
    PROVE  CallsFit' /\ RequestsHold' /\ OneConsumer' /\ \A s \in Issued : InFlight(s)' <=> InFlight(s)
<1>1. CallsFit'
  BY StayFits DEF IInv
<1>2. RequestsHold'
  <2>1. ASSUME NEW q \in Requests
        PROVE  Holds(q)'
    BY HoldsStays
  <2> QED
    BY <2>1 DEF RequestsHold
<1>3. OneConsumer'
  BY DEF IInv, OneConsumer
<1>4. \A s \in Issued : InFlight(s)' <=> InFlight(s)
  BY DEF InFlight
<1> QED
  BY <1>1, <1>2, <1>3, <1>4

LEMMA NothingHappens ==
    ASSUME IInv, UNCHANGED vars
    PROVE  IInv'
<1> USE DEF vars, tokenVars, histories
<1>1. /\ RowsStay /\ Issued' = Issued
      /\ token' \in [Secrets -> Row \cup {NoRow}]
      /\ \A s \in Issued' :
             token'[s].kind \in {"code", "preauth"} => token'[s].ended < token'[s].expires
  BY NothingWritten DEF IInv
<1>2. \A s \in Issued : \A kind \in Kinds : Given(s, kind)' <=> Given(s, kind)
  BY <1>1, GivenAfterEnd
<1>3. CallsFit' /\ RequestsHold' /\ OneConsumer' /\ \A s \in Issued : InFlight(s)' <=> InFlight(s)
  BY <1>1, <1>2, AllHold
<1>4. SecretsFit' /\ GivenOnce' /\ NeverWidened'
  BY <1>1, RowsFitAfterEnd
<1>5. SpentForTokens'
  BY <1>1, <1>3, SpentStays
<1>6. TypeOK' /\ AcceptanceRecorded'
  BY <1>1, <1>3, TypesFit DEF IInv, TypeOK, AcceptanceRecorded
<1> QED
  BY <1>3, <1>4, <1>5, <1>6 DEF IInv

LEMMA RegisterClientInv ==
    ASSUME IInv, NEW c \in Clients, NEW scope \in SUBSET Scopes, RegisterClient(c, scope)
    PROVE  IInv'
<1>1. /\ RowsStay /\ Issued' = Issued
      /\ token' \in [Secrets -> Row \cup {NoRow}]
      /\ \A s \in Issued' :
             token'[s].kind \in {"code", "preauth"} => token'[s].ended < token'[s].expires
  BY NothingWritten DEF IInv, RegisterClient
<1>2. \A s \in Issued : \A kind \in Kinds : Given(s, kind)' <=> Given(s, kind)
  BY <1>1, GivenAfterEnd
<1>3. CallsFit' /\ RequestsHold' /\ OneConsumer' /\ \A s \in Issued : InFlight(s)' <=> InFlight(s)
  BY <1>1, <1>2, AllHold DEF RegisterClient
<1>4. /\ clientScope' \in [Clients -> SUBSET Scopes]
      /\ \A x \in Clients : clientScope[x] \subseteq clientScope'[x]
  BY DEF RegisterClient, Registered, IInv, TypeOK
<1>5. SecretsFit' /\ GivenOnce'
  BY DEF IInv, SecretsFit, GivenOnce, RegisterClient, Issued
<1>6. NeverWidened'
  <2>1. UNCHANGED <<token, Issued>>
    BY <1>1 DEF RegisterClient
  <2>2. \A s \in Issued : token[s].client # NoClient => token[s].client \in Clients
    BY IssuedRows DEF IInv, Row
  <2> QED
    BY <1>4, <2>1, <2>2 DEF IInv, NeverWidened
<1>7. SpentForTokens'
  BY <1>1, <1>3, SpentStays DEF RegisterClient, histories
<1>8. TypeOK' /\ AcceptanceRecorded'
  BY <1>1, <1>3, <1>4, TypesFit DEF IInv, TypeOK, AcceptanceRecorded, RegisterClient, histories
<1> QED
  BY <1>3, <1>5, <1>6, <1>7, <1>8 DEF IInv

\* A secret that is given for no other is handed out.
LEMMA HandOutInv ==
    ASSUME IInv, NEW new, NewFits(new), new.parent = NoSecret, Hand(new),
           UNCHANGED <<clientScope, clock, pc, call, events, histories, faults>>
    PROVE  IInv'
<1>1. PICK f : Inserted(f, new) /\ RowsStay
  BY HandInserts DEF IInv, NewFits
<1>2. \A s \in Issued : \A kind \in Kinds : Given(s, kind)' <=> Given(s, kind)
  BY <1>1, GivenAfterInsert, SecretsAssumption DEF IInv, Issued
<1>3. CallsFit' /\ RequestsHold' /\ OneConsumer' /\ \A s \in Issued : InFlight(s)' <=> InFlight(s)
  BY <1>1, <1>2, AllHold
<1>4. SecretsFit' /\ GivenOnce' /\ NeverWidened'
  BY <1>1, RowsFitAfterInsert
<1>5. \A s \in Issued' : s \notin Issued => token'[s] = new
  BY <1>1 DEF Inserted
<1>6. SpentForTokens'
  <2>1. \A s \in Issued' : s \notin Issued => token'[s].ended = 0
    BY <1>5 DEF NewFits
  <2>2. \A s \in Issued : token'[s] = token[s]
    BY <1>1 DEF Inserted, Issued
  <2> QED
    BY <1>1, <1>3, <2>1, <2>2, SpentStays DEF histories
<1>7. TypeOK'
  <2>1. \A s \in Issued' :
            token'[s].kind \in {"code", "preauth"} => token'[s].ended < token'[s].expires
    BY <1>1, <1>5 DEF IInv, TypeOK, Inserted, NewFits, Issued
  <2>2. token' \in [Secrets -> Row \cup {NoRow}] /\ Issued \subseteq Issued'
    BY <1>1 DEF Inserted
  <2> QED
    BY <1>1, <1>3, <2>1, <2>2, TypesFit DEF IInv, TypeOK, histories
<1>8. AcceptanceRecorded'
  BY DEF IInv, AcceptanceRecorded, histories
<1> QED
  BY <1>3, <1>4, <1>6, <1>7, <1>8 DEF IInv

LEMMA AuthorizeInv ==
    ASSUME IInv, NEW c \in Clients, NEW user \in Users, NEW scope \in SUBSET Scopes,
           Authorize(c, user, scope)
    PROVE  IInv'
<1>1. PICK new : new = NewRow("code", c, user, scope, clock, NoSecret)
  OBVIOUS
<1>2. NewFits(new) /\ new.parent = NoSecret
  BY <1>1, LifeAssumption DEF NewFits, NewRow, Row, Kinds, Authorize, IInv, TypeOK
<1>3. Hand(new) /\ UNCHANGED <<clientScope, clock, pc, call, events, histories, faults>>
  BY <1>1 DEF Authorize, InsertCode
<1> QED
  BY <1>2, <1>3, HandOutInv

LEMMA CreateOfferInv ==
    ASSUME IInv, NEW a \in Assertions, CreateOffer(a)
    PROVE  IInv'
<1>1. PICK new : new = NewRow("preauth", NoClient, a, {}, clock, NoSecret)
  OBVIOUS
<1>2. NewFits(new) /\ new.parent = NoSecret
  BY <1>1, LifeAssumption DEF NewFits, NewRow, Row, Kinds, CreateOffer, IInv, TypeOK
<1>3. Hand(new) /\ UNCHANGED <<clientScope, clock, pc, call, events, histories, faults>>
  BY <1>1 DEF CreateOffer, InsertOffer
<1> QED
  BY <1>2, <1>3, HandOutInv

\* A secret that was not consumed has given nothing.
LEMMA UnspentGaveNothing ==
    ASSUME IInv, NEW s \in Issued, token[s].ended = 0, NEW kind
    PROVE  ~ Given(s, kind)
<1>1. s # NoSecret
  BY IssuedRows DEF IInv
<1> QED
  BY <1>1 DEF IInv, SecretsFit, Given

\* A secret is consumed by a request that goes on to give something for it.
LEMMA ConsumedInv ==
    ASSUME IInv, NEW r \in Requests, NEW s, NEW kind, NEW want \in SUBSET Scopes,
           NEW place, NEW n, n = clock, pc[r] = "idle", Usable(s, kind, n),
           \/ place = "insertAccess" /\ kind \in {"code", "refresh"} /\ want \subseteq token[s].scope
           \/ place = "insertWallet" /\ kind = "preauth" /\ want = {},
           s \in Secrets, token' = Ended(s, n), Goto(r, place, [secret |-> s, scope |-> want, now |-> n]),
           UNCHANGED <<clientScope, clock, events, histories, faults>>
    PROVE  IInv'
<1>1. s \in Issued /\ token[s].ended = 0 /\ token[s].kind = kind /\ n < token[s].expires
  <2>1. token[s] # NoRow
    BY DEF Usable, NoRow
  <2>2. token[s] \in Row /\ n \in Nat
    BY <2>1 DEF IInv, TypeOK
  <2> QED
    BY <2>1, <2>2 DEF Usable, Issued, Row
<1>2. n \in Nat \ {0}
  BY DEF IInv, TypeOK
<1>3. EndsAt(s, n) /\ RowsStay
  BY <1>1, <1>2, EndedEnds DEF IInv
<1>4. Issued' = Issued /\ token'[s].ended = n /\ \A u \in Secrets \ {s} : token'[u] = token[u]
  BY <1>3 DEF EndsAt
<1>5. SecretsFit' /\ GivenOnce' /\ NeverWidened'
  BY <1>3, <1>4, RowsFitAfterEnd
<1>6. \A u \in Issued : \A k \in Kinds : Given(u, k)' <=> Given(u, k)
  BY <1>3, <1>4, GivenAfterEnd
<1>7. PICK c : c = [secret |-> s, scope |-> want, now |-> n]
  OBVIOUS
<1>8. c \in Call /\ c.secret = s /\ c.scope = want /\ Goto(r, place, c)
  BY <1>1, <1>2, <1>7 DEF Call, Issued
<1>9. CallsFit'
  BY <1>1, <1>3, <1>4, <1>8, GotoFits DEF IInv, Places
<1>10. pc'[r] = place /\ call'[r] = c
  BY <1>8 DEF IInv, TypeOK, Goto
<1>11. Holds(r)'
  <2>1. ~ Given(s, "access")' /\ ~ Given(s, "refresh")' /\ ~ Given(s, "wallet")'
    BY <1>1, <1>6, UnspentGaveNothing DEF Kinds
  <2>2. /\ ~ Given(call[r].secret, "access")' /\ ~ Given(call[r].secret, "refresh")'
        /\ ~ Given(call[r].secret, "wallet")'
    BY <1>8, <1>10, <2>1 DEF Given
  <2>3. token'[s].kind = kind /\ token'[s].scope = token[s].scope /\ token'[s].ended # 0
    BY <1>1, <1>2, <1>3, <1>4 DEF RowsStay
  <2> QED
    BY <1>8, <1>10, <2>2, <2>3 DEF Holds
<1>12. RequestsHold'
  BY <1>3, <1>6, <1>8, <1>11, OthersHold
<1>13. OneConsumer'
  <2>1. \A q \in Requests : pc[q] \in Exchanging => call[q].secret # c.secret
    BY <1>1, <1>8 DEF IInv, RequestsHold, Holds, Exchanging
  <2> QED
    BY <1>8, <2>1, OneConsumerStays
<1>14. SpentForTokens'
  <2>1. InFlight(s)'
    BY <1>8, <1>10 DEF InFlight
  <2>2. \A u \in Issued : InFlight(u) => InFlight(u)'
    BY <1>8 DEF InFlight, Goto, IInv, TypeOK
  <2>3. \A u \in Issued : u # s => token'[u] = token[u]
    BY <1>4 DEF Issued
  <2>4. wasted' = wasted /\ faults' = faults
    BY DEF histories
  <2> QED
    BY <1>3, <1>4, <2>1, <2>2, <2>3, <2>4, SpentStays
<1>15. TypeOK'
  <2>1. \A u \in Issued' :
            token'[u].kind \in {"code", "preauth"} => token'[u].ended < token'[u].expires
    BY <1>1, <1>3, <1>4 DEF IInv, TypeOK, RowsStay, Issued
  <2>2. token' \in [Secrets -> Row \cup {NoRow}]
    BY <1>3 DEF EndsAt
  <2> QED
    BY <1>3, <1>4, <1>9, <2>1, <2>2, TypesFit DEF IInv, TypeOK, histories
<1>16. AcceptanceRecorded'
  BY DEF IInv, AcceptanceRecorded, histories
<1> QED
  BY <1>5, <1>12, <1>13, <1>14, <1>15, <1>16 DEF IInv

\* A secret is ended and gives nothing: revoked, or consumed by a request that then fails.
LEMMA WastedInv ==
    ASSUME IInv, NEW s \in Issued, NEW n \in Nat \ {0}, token' = Ended(s, n),
           token[s].ended # 0 => n = token[s].ended,
           token[s].kind \in {"code", "preauth"} => n < token[s].expires,
           wasted' = IF token[s].ended = 0 THEN wasted \cup {s} ELSE wasted,
           UNCHANGED <<clientScope, clock, pc, call, events, written, answered, faults>>
    PROVE  IInv'
<1>3. EndsAt(s, n) /\ RowsStay
  BY EndedEnds DEF IInv
<1>4. Issued' = Issued /\ token'[s].ended = n /\ \A u \in Secrets \ {s} : token'[u] = token[u]
  BY <1>3 DEF EndsAt
<1>5. SecretsFit' /\ GivenOnce' /\ NeverWidened'
  BY <1>3, <1>4, RowsFitAfterEnd
<1>6. \A u \in Issued : \A k \in Kinds : Given(u, k)' <=> Given(u, k)
  BY <1>3, <1>4, GivenAfterEnd
<1>7. CallsFit' /\ RequestsHold' /\ OneConsumer' /\ \A u \in Issued : InFlight(u)' <=> InFlight(u)
  BY <1>3, <1>6, AllHold
<1>8. SpentForTokens'
  <2>1. \A u \in Issued : u # s => token'[u] = token[u]
    BY <1>4 DEF Issued
  <2> QED
    BY <1>3, <1>4, <1>7, <2>1, SpentStays
<1>9. TypeOK'
  <2>1. \A u \in Issued' :
            token'[u].kind \in {"code", "preauth"} => token'[u].ended < token'[u].expires
    BY <1>3, <1>4 DEF IInv, TypeOK, RowsStay, Issued
  <2>2. token' \in [Secrets -> Row \cup {NoRow}]
    BY <1>3 DEF EndsAt
  <2>3. wasted' \subseteq Issued'
    BY <1>4 DEF IInv, TypeOK
  <2> QED
    BY <1>3, <1>7, <2>1, <2>2, <2>3, TypesFit DEF IInv, TypeOK
<1>10. AcceptanceRecorded'
  BY DEF IInv, AcceptanceRecorded
<1> QED
  BY <1>5, <1>7, <1>8, <1>9, <1>10 DEF IInv

LEMMA ConsumeForTokensInv ==
    ASSUME IInv, NEW r \in Requests, NEW s \in Secrets, NEW kind \in {"code", "refresh"},
           NEW want \in SUBSET Scopes, NEW proved \in BOOLEAN,
           ConsumeForTokens(r, s, kind, want, proved)
    PROVE  IInv'
<1>1. PICK n : n = clock
  OBVIOUS
<1>2. pc[r] = "idle" /\ Usable(s, kind, n) /\ token' = Ended(s, n)
  BY <1>1 DEF ConsumeForTokens
<1>3. CASE proved /\ Grantable(s, want)
  <2>1. Goto(r, "insertAccess", [secret |-> s, scope |-> want, now |-> n])
    BY <1>1, <1>3 DEF ConsumeForTokens
  <2>2. UNCHANGED <<clientScope, clock, events, histories, faults>>
    BY <1>3 DEF ConsumeForTokens, histories
  <2>3. want \subseteq token[s].scope
    BY <1>3 DEF Grantable
  <2> QED
    BY <1>1, <1>2, <2>1, <2>2, <2>3, ConsumedInv
<1>4. CASE ~ (proved /\ Grantable(s, want))
  <2>1. s \in Issued /\ token[s].ended = 0 /\ n < token[s].expires /\ n \in Nat \ {0}
    <3>1. token[s] # NoRow
      BY <1>2 DEF Usable, NoRow
    <3>2. token[s] \in Row /\ n \in Nat \ {0}
      BY <1>1, <3>1 DEF IInv, TypeOK
    <3> QED
      BY <1>2, <3>1, <3>2 DEF Usable, Issued, Row
  <2>2. /\ wasted' = wasted \cup {s}
        /\ UNCHANGED <<clientScope, clock, pc, call, events, written, answered, faults>>
    BY <1>4 DEF ConsumeForTokens
  <2> QED
    BY <1>2, <2>1, <2>2, WastedInv
<1> QED
  BY <1>3, <1>4

LEMMA RedeemOfferInv ==
    ASSUME IInv, NEW r \in Requests, NEW s \in Secrets, RedeemOffer(r, s)
    PROVE  IInv'
<1>1. PICK n : n = clock
  OBVIOUS
<1>2. /\ pc[r] = "idle" /\ Usable(s, "preauth", n) /\ token' = Ended(s, n)
      /\ Goto(r, "insertWallet", [secret |-> s, scope |-> {}, now |-> n])
      /\ UNCHANGED <<clientScope, clock, events, histories, faults>>
  BY <1>1 DEF RedeemOffer
<1> QED
  BY <1>1, <1>2, ConsumedInv

LEMMA RevokeInv ==
    ASSUME IInv, NEW s \in Secrets, Revoke(s)
    PROVE  IInv'
<1>1. s \in Issued /\ token[s] \in Row
  BY DEF Revoke, IInv, TypeOK, Issued, NoRow
<1>2. PICK n : n = RevokedAt(s)
  OBVIOUS
<1>3. n \in Nat \ {0} /\ (token[s].ended # 0 => n = token[s].ended)
  BY <1>1, <1>2 DEF RevokedAt, IInv, TypeOK, Row
<1> QED
  BY <1>1, <1>2, <1>3, WastedInv DEF Revoke

-----------------------------------------------------------------------------
(* What is given for a consumed secret.                                      *)

\* What a request may insert next, and where that leaves it.
NextGift(place, kind, after) ==
    \/ place = "insertAccess" /\ kind = "access" /\ after = "insertRefresh"
    \/ place = "insertRefresh" /\ kind = "refresh" /\ after = "idle"
    \/ place = "insertWallet" /\ kind = "wallet" /\ after = "idle"

LEMMA ChildFits ==
    ASSUME IInv, NEW r \in Requests, NEW kind, NEW after, NextGift(pc[r], kind, after)
    PROVE  /\ NewFits(Child(r, kind)) /\ Child(r, kind).parent = call[r].secret
           /\ Child(r, kind).kind = kind
<1>1. PICK p, c : p = call[r].secret /\ c = call[r]
  OBVIOUS
<1>2. c \in Call /\ p \in Issued /\ p = c.secret
  BY <1>1 DEF IInv, TypeOK, NextGift
<1>3. token[p] \in Row /\ p \in Secrets /\ p # NoSecret
  BY <1>2, IssuedRows DEF IInv
<1>4. PICK row : row = token[p]
  OBVIOUS
<1>5. PICK new : new = NewRow(kind, row.client, row.subject, c.scope, c.now, p)
  OBVIOUS
<1>6. Child(r, kind) = new
  BY <1>1, <1>4, <1>5 DEF Child
<1>7. /\ new.kind = kind /\ new.client = row.client /\ new.subject = row.subject
      /\ new.scope = c.scope /\ new.expires = c.now + Life[kind] /\ new.ended = 0 /\ new.parent = p
  BY <1>5 DEF NewRow
<1>8. kind \in Kinds /\ Life[kind] \in Nat \ {0} /\ c.now \in Nat /\ c.scope \in SUBSET Scopes
  BY <1>2, LifeAssumption DEF NextGift, Kinds, Call
<1>9. new \in Row
  BY <1>2, <1>3, <1>4, <1>5, <1>8, <1>7 DEF NewRow, Row
<1>10. /\ c.scope \subseteq row.scope /\ row.ended # 0 /\ row.kind \in Consumed
       /\ GivesKind(row.kind, kind)
       /\ ~ Given(p, kind)
  BY <1>1, <1>4 DEF IInv, RequestsHold, Holds, NextGift, Consumed, GivesKind
<1>11. /\ kind \in {"access", "refresh"} => row.client \in Clients /\ row.subject \in Users
       /\ kind = "wallet" => row.subject \in Assertions
  BY <1>2, <1>4, <1>10 DEF IInv, SecretsFit, Consumed, GivesKind
<1>12. NewFits(new)
  BY <1>2, <1>3, <1>4, <1>7, <1>8, <1>9, <1>10, <1>11 DEF NewFits, NextGift
<1> QED
  BY <1>1, <1>6, <1>7, <1>12

LEMMA GiftInv ==
    ASSUME IInv, NEW r \in Requests, NEW kind, NEW after, NextGift(pc[r], kind, after),
           Hand(Child(r, kind)), Goto(r, after, IF after = "idle" THEN NoCall ELSE call[r]),
           UNCHANGED <<clientScope, clock, events, histories, faults>>
    PROVE  IInv'
<1>1. PICK new, p, c : new = Child(r, kind) /\ p = call[r].secret
                       /\ c = IF after = "idle" THEN NoCall ELSE call[r]
  OBVIOUS
<1>2. NewFits(new) /\ new.parent = p /\ new.kind = kind /\ new.ended = 0 /\ 0 < new.expires
  <2>1. NewFits(new) /\ new.parent = p /\ new.kind = kind
    BY <1>1, ChildFits
  <2> QED
    BY <2>1 DEF NewFits, Row
<1>3. p \in Issued /\ p \in Secrets /\ call[r] \in Call
  BY <1>1, IssuedRows DEF IInv, TypeOK, NextGift
<1>4. Hand(new) /\ new \in Row
  BY <1>1, <1>2 DEF NewFits
<1>5. PICK f : Inserted(f, new) /\ RowsStay
  BY <1>4, HandInserts DEF IInv
<1>6. /\ f \in Secrets \ Issued /\ Issued' = Issued \cup {f}
      /\ token' \in [Secrets -> Row \cup {NoRow}] /\ token'[f] = new
      /\ \A s \in Secrets \ {f} : token'[s] = token[s]
  BY <1>5 DEF Inserted
<1>7. \A s, k : Given(s, k)' <=> Given(s, k) \/ (p = s /\ kind = k)
  BY <1>2, <1>5, GivenAfterInsert DEF IInv
<1>8. SecretsFit' /\ GivenOnce' /\ NeverWidened'
  BY <1>2, <1>5, RowsFitAfterInsert
<1>9. Goto(r, after, c)
  BY <1>1
<1>10. pc'[r] = after /\ call'[r] = c
       /\ \A q \in Requests \ {r} : pc'[q] = pc[q] /\ call'[q] = call[q]
  BY <1>9 DEF IInv, TypeOK, Goto
<1>11. CallsFit'
  <2>1. after \in Places /\ (IF after = "idle" THEN c = NoCall ELSE c \in Call /\ c.secret \in Issued')
    BY <1>1, <1>3, <1>6 DEF NextGift, Places
  <2> QED
    BY <1>5, <1>9, <2>1, GotoFits DEF IInv
<1>12. Holds(r)'
  <2>1. CASE after = "idle"
    BY <1>10, <2>1 DEF Holds
  <2>2. CASE after = "insertRefresh"
    <3>1. /\ token[p].kind \in {"code", "refresh"} /\ token[p].ended # 0
          /\ call[r].scope \subseteq token[p].scope
          /\ ~ Given(p, "refresh") /\ kind = "access"
      BY <1>1, <2>2 DEF IInv, RequestsHold, Holds, NextGift
    <3>2. c = call[r] /\ token'[p] = token[p]
      BY <1>1, <1>3, <1>6, <2>2
    <3>3. Given(p, "access")' /\ ~ Given(p, "refresh")'
      BY <1>7, <3>1
    <3>4. Given(call[r].secret, "access")' /\ ~ Given(call[r].secret, "refresh")'
      BY <1>1, <1>10, <3>2, <3>3 DEF Given
    <3> QED
      BY <1>1, <1>10, <2>2, <3>1, <3>2, <3>4 DEF Holds
  <2> QED
    BY <2>1, <2>2 DEF NextGift
<1>13. RequestsHold'
  <2>1. \A q \in Requests \ {r}, s \in Issued : pc[q] \in Exchanging /\ call[q].secret = s => s # p
    BY <1>1 DEF IInv, OneConsumer, Exchanging, NextGift
  <2>2. \A q \in Requests \ {r}, s \in Issued : pc[q] \in Exchanging /\ call[q].secret = s =>
            \A k \in Kinds : Given(s, k)' <=> Given(s, k)
    BY <1>7, <2>1
  <2> QED
    BY <1>5, <1>9, <1>12, <2>2, OthersHold
<1>14. OneConsumer'
  <2>1. after \in Exchanging => pc[r] \in Exchanging /\ c.secret = call[r].secret
    BY <1>1 DEF NextGift, Exchanging
  <2> QED
    BY <1>9, <2>1, OneConsumerStays
<1>15. SpentForTokens'
  <2>1. \A s \in Issued : InFlight(s) /\ s # p => InFlight(s)'
    BY <1>1, <1>10 DEF InFlight
  <2>2. CASE after = "insertRefresh"
    <3>1. InFlight(p)'
      BY <1>1, <1>10, <2>2 DEF InFlight
    <3> QED
      BY <1>2, <1>5, <1>6, <2>1, <3>1, SpentStays DEF histories, Issued
  <2>3. CASE after = "idle"
    <3>1. \A k \in Gives(p) : Given(p, k)'
      BY <1>1, <1>7, <2>3 DEF NextGift, Gives, IInv, RequestsHold, Holds
    <3> QED
      BY <1>2, <1>5, <1>6, <2>1, <3>1, SpentStays DEF histories, Issued
  <2> QED
    BY <2>2, <2>3 DEF NextGift
<1>16. TypeOK'
  <2>1. \A s \in Issued' :
            token'[s].kind \in {"code", "preauth"} => token'[s].ended < token'[s].expires
    BY <1>2, <1>6 DEF IInv, TypeOK, Issued
  <2> QED
    BY <1>5, <1>6, <1>11, <2>1, TypesFit DEF IInv, TypeOK, histories
<1>17. AcceptanceRecorded'
  BY DEF IInv, AcceptanceRecorded, histories
<1> QED
  BY <1>8, <1>13, <1>14, <1>15, <1>16, <1>17 DEF IInv

LEMMA InsertInv ==
    ASSUME IInv, NEW r \in Requests, InsertAccess(r) \/ InsertRefresh(r) \/ InsertWallet(r)
    PROVE  IInv'
<1>1. CASE InsertAccess(r)
  BY <1>1, GiftInv DEF InsertAccess, NextGift, AfterAccess
<1>2. CASE InsertRefresh(r)
  BY <1>2, GiftInv DEF InsertRefresh, NextGift, End
<1>3. CASE InsertWallet(r)
  BY <1>3, GiftInv DEF InsertWallet, NextGift, End
<1> QED
  BY <1>1, <1>2, <1>3

-----------------------------------------------------------------------------
(* Bearer tokens, losses and time.                                           *)

\* A request that consumes nothing moves.
LEMMA MoveInv ==
    ASSUME IInv, NEW r \in Requests, NEW place \in Places, NEW c, Goto(r, place, c), pc[r] \notin Exchanging,
           \/ place = "idle" /\ c = NoCall
           \/ /\ c \in Call /\ c.secret \in Issued
              /\ \/ place \in {"upsertCredential", "upsertProfile"} /\ token[c.secret].kind = "access"
                 \/ place \in {"findEvent", "insertEvent"} /\ token[c.secret].kind = "wallet",
           UNCHANGED <<clientScope, token, clock, wasted, faults>>,
           events' \in [Assertions -> Nat], written' \subseteq Users, answered' \subseteq Assertions,
           AcceptanceRecorded'
    PROVE  IInv'
<1>1. /\ RowsStay /\ Issued' = Issued
      /\ token' \in [Secrets -> Row \cup {NoRow}]
      /\ \A s \in Issued' :
             token'[s].kind \in {"code", "preauth"} => token'[s].ended < token'[s].expires
  BY NothingWritten DEF IInv
<1>2. \A s \in Issued : \A kind \in Kinds : Given(s, kind)' <=> Given(s, kind)
  BY <1>1, GivenAfterEnd
<1>3. SecretsFit' /\ GivenOnce' /\ NeverWidened'
  BY <1>1, RowsFitAfterEnd
<1>4. pc'[r] = place /\ call'[r] = c
  BY DEF IInv, TypeOK, Goto
<1>5. CallsFit'
  <2>1. IF place = "idle" THEN c = NoCall ELSE c \in Call /\ c.secret \in Issued'
    BY <1>1
  <2> QED
    BY <1>1, <2>1, GotoFits DEF IInv
<1>6. Holds(r)'
  BY <1>4 DEF Holds
<1>7. RequestsHold'
  BY <1>1, <1>2, <1>6, OthersHold
<1>8. OneConsumer'
  BY OneConsumerStays DEF Exchanging
<1>9. SpentForTokens'
  <2>1. \A s \in Issued : InFlight(s) /\ token[s].kind \in Consumed => InFlight(s)'
    <3> SUFFICES ASSUME NEW s \in Issued, InFlight(s), token[s].kind \in Consumed
                 PROVE  InFlight(s)'
      OBVIOUS
    <3>1. PICK q \in Requests : pc[q] # "idle" /\ call[q].secret = s
      BY DEF InFlight
    <3>2. q # r
      BY <3>1 DEF IInv, TypeOK, Places, RequestsHold, Holds, Exchanging, Consumed
    <3>3. pc'[q] = pc[q] /\ call'[q] = call[q]
      BY <3>2 DEF IInv, TypeOK, Goto
    <3> QED
      BY <3>1, <3>3 DEF InFlight
  <2> QED
    BY <1>1, <2>1, SpentStays
<1>10. TypeOK'
  BY <1>1, <1>5, TypesFit DEF IInv, TypeOK
<1> QED
  BY <1>3, <1>7, <1>8, <1>9, <1>10 DEF IInv

LEMMA UsableIsIssued ==
    ASSUME IInv, NEW s \in Secrets, NEW kind \in Kinds, Usable(s, kind, clock)
    PROVE  s \in Issued /\ token[s].kind = kind
  BY DEF Usable, Issued, NoRow, Kinds

LEMMA UseInv ==
    ASSUME IInv, NEW r \in Requests, NEW s \in Secrets,
           PostCredential(r, s) \/ PutProfile(r, s) \/ UseWallet(r, s)
    PROVE  IInv'
<1>1. clock \in Nat
  BY DEF IInv, TypeOK
<1>2. AcceptanceRecorded'
  BY DEF IInv, AcceptanceRecorded, PostCredential, PutProfile, UseAccess, UseWallet, histories
<1>3. /\ pc[r] = "idle"
      /\ UNCHANGED <<clientScope, token, clock, wasted, faults, events, written, answered>>
  BY DEF PostCredential, PutProfile, UseAccess, UseWallet, histories, tokenVars
<1>4. ASSUME NEW need, NEW place, UseAccess(r, s, need, place),
             place \in {"upsertCredential", "upsertProfile"}
      PROVE  IInv'
  <2>1. PICK c : c = [secret |-> s, scope |-> {need}, now |-> clock]
    OBVIOUS
  <2>2. s \in Issued /\ token[s].kind = "access" /\ need \in Scopes
    BY <1>4, UsableIsIssued, IssuedRows DEF UseAccess, Kinds, IInv, Row
  <2>3. c \in Call /\ c.secret = s
    BY <1>1, <2>1, <2>2 DEF Call
  <2>4. Goto(r, place, c)
    BY <1>4, <2>1 DEF UseAccess
  <2> QED
    BY <1>2, <1>3, <1>4, <2>2, <2>3, <2>4, MoveInv DEF IInv, TypeOK, Places, Exchanging
<1>5. CASE UseWallet(r, s)
  <2>1. PICK c : c = [secret |-> s, scope |-> {}, now |-> clock]
    OBVIOUS
  <2>2. s \in Issued /\ token[s].kind = "wallet"
    BY <1>5, UsableIsIssued DEF UseWallet, Kinds
  <2>3. c \in Call /\ c.secret = s
    BY <1>1, <2>1, <2>2 DEF Call
  <2>4. Goto(r, "findEvent", c)
    BY <1>5, <2>1 DEF UseWallet
  <2> QED
    BY <1>2, <1>3, <2>2, <2>3, <2>4, MoveInv DEF IInv, TypeOK, Places, Exchanging
<1> QED
  BY <1>4, <1>5 DEF PostCredential, PutProfile

\* The owner of the token a request holds.
LEMMA HeldSubject ==
    ASSUME IInv, NEW r \in Requests, pc[r] # "idle"
    PROVE  /\ call[r] \in Call /\ call[r].secret \in Issued
           /\ pc[r] \in {"upsertCredential", "upsertProfile"} => token[call[r].secret].subject \in Users
           /\ pc[r] \in {"findEvent", "insertEvent"} =>
                  /\ token[call[r].secret].subject \in Assertions
                  /\ token[call[r].secret].kind = "wallet"
<1>1. call[r] \in Call /\ call[r].secret \in Issued
  BY DEF IInv, TypeOK
<1> QED
  BY <1>1 DEF IInv, RequestsHold, Holds, SecretsFit

LEMMA WriteInv ==
    ASSUME IInv, NEW r \in Requests, UpsertCredential(r) \/ UpsertProfile(r)
    PROVE  IInv'
<1>1. pc[r] \in {"upsertCredential", "upsertProfile"} /\ WriteFor(r)
  BY DEF UpsertCredential, UpsertProfile
<1>2. AcceptanceRecorded'
  BY <1>1 DEF IInv, AcceptanceRecorded, WriteFor
<1>3. written' \subseteq Users
  BY <1>1, HeldSubject DEF WriteFor, IInv, TypeOK
<1>4. Goto(r, "idle", NoCall) /\ UNCHANGED <<clientScope, token, clock, wasted, faults, events, answered>>
  BY <1>1 DEF WriteFor, End, tokenVars
<1> QED
  BY <1>1, <1>2, <1>3, <1>4, MoveInv DEF IInv, TypeOK, Places, Exchanging

LEMMA EventInv ==
    ASSUME IInv, NEW r \in Requests, FindEvent(r) \/ InsertEvent(r)
    PROVE  IInv'
<1>1. PICK a, c : a = token[call[r].secret].subject /\ c = call[r]
  OBVIOUS
<1>2. /\ pc[r] \in {"findEvent", "insertEvent"}
      /\ UNCHANGED <<clientScope, token, clock, written, wasted, faults>>
  BY DEF FindEvent, InsertEvent, tokenVars
<1>3. a \in Assertions /\ c \in Call /\ c.secret \in Issued /\ token[c.secret].kind = "wallet"
  BY <1>1, <1>2, HeldSubject
<1>4. events[a] \in {0, 1} /\ events \in [Assertions -> Nat]
  BY <1>3 DEF IInv, AcceptanceRecorded, TypeOK
<1>5. \/ Goto(r, "idle", NoCall) /\ events' = events /\ answered' = answered
      \/ Goto(r, "idle", NoCall) /\ events' = events /\ answered' = answered \cup {a} /\ events[a] = 1
      \/ Goto(r, "idle", NoCall) /\ events' = [events EXCEPT ![a] = events[a] + 1]
         /\ answered' = answered \cup {a} /\ events[a] = 0
      \/ Goto(r, "insertEvent", c) /\ events' = events /\ answered' = answered
  <2>1. CASE FindEvent(r)
    <3>1. \/ events[a] > 0 /\ answered' = answered \cup {a} /\ Goto(r, "idle", NoCall)
          \/ Goto(r, "insertEvent", c) /\ answered' = answered
      BY <1>1, <2>1 DEF FindEvent, Answer, End
    <3>2. events' = events
      BY <2>1 DEF FindEvent
    <3> QED
      BY <1>4, <3>1, <3>2
  <2>2. CASE InsertEvent(r)
    <3>1. \/ /\ events[a] = 0 /\ events' = [events EXCEPT ![a] = events[a] + 1]
             /\ answered' = answered \cup {a} /\ Goto(r, "idle", NoCall)
          \/ Goto(r, "idle", NoCall) /\ events' = events /\ answered' = answered
      BY <1>1, <2>2 DEF InsertEvent, Answer, End, OneShotFree
    <3> QED
      BY <3>1
  <2> QED
    BY <2>1, <2>2
<1>6. events' \in [Assertions -> Nat] /\ answered' \subseteq Assertions
  BY <1>3, <1>4, <1>5 DEF IInv, TypeOK
<1>7. AcceptanceRecorded'
  <2>1. \A b \in Assertions : events[b] <= 1 /\ (b \in answered => events[b] = 1)
    BY DEF IInv, AcceptanceRecorded
  <2>2. \A b \in Assertions \ {a} : events'[b] = events[b] /\ (b \in answered' <=> b \in answered)
    BY <1>4, <1>5
  <2>3. events'[a] <= 1 /\ (a \in answered' => events'[a] = 1)
    BY <1>3, <1>4, <1>5, <2>1
  <2> QED
    BY <2>1, <2>2, <2>3 DEF AcceptanceRecorded
<1>8. written' \subseteq Users
  BY <1>2 DEF IInv, TypeOK
<1> QED
  BY <1>2, <1>3, <1>5, <1>6, <1>7, <1>8, MoveInv DEF Places, Exchanging

LEMMA FaultInv ==
    ASSUME IInv, NEW r \in Requests, Fault(r)
    PROVE  IInv'
<1>1. /\ RowsStay /\ Issued' = Issued
      /\ token' \in [Secrets -> Row \cup {NoRow}]
      /\ \A s \in Issued' :
             token'[s].kind \in {"code", "preauth"} => token'[s].ended < token'[s].expires
  BY NothingWritten DEF IInv, Fault, tokenVars
<1>2. \A s \in Issued : \A kind \in Kinds : Given(s, kind)' <=> Given(s, kind)
  BY <1>1, GivenAfterEnd
<1>3. SecretsFit' /\ GivenOnce' /\ NeverWidened'
  BY <1>1, RowsFitAfterEnd DEF Fault, tokenVars
<1>4. Goto(r, "idle", NoCall) /\ pc'[r] = "idle"
  BY DEF IInv, TypeOK, Goto, Fault, End
<1>5. CallsFit'
  BY <1>1, <1>4, GotoFits DEF IInv, Places
<1>6. Holds(r)'
  BY <1>4 DEF Holds
<1>7. RequestsHold'
  BY <1>1, <1>2, <1>4, <1>6, OthersHold
<1>8. OneConsumer'
  BY <1>4, OneConsumerStays DEF Exchanging
<1>9. faults' \in 0..MaxFaults /\ faults' # 0
  BY BoundsAssumption DEF IInv, TypeOK, Fault
<1>10. SpentForTokens'
  BY <1>9 DEF SpentForTokens
<1>11. TypeOK'
  BY <1>1, <1>5, <1>9, TypesFit DEF IInv, TypeOK, Fault, tokenVars, histories
<1>12. AcceptanceRecorded'
  BY DEF IInv, AcceptanceRecorded, Fault, histories
<1> QED
  BY <1>3, <1>7, <1>8, <1>10, <1>11, <1>12 DEF IInv

LEMMA TickInv ==
    ASSUME IInv, Tick
    PROVE  IInv'
<1>1. /\ RowsStay /\ Issued' = Issued
      /\ token' \in [Secrets -> Row \cup {NoRow}]
      /\ \A s \in Issued' :
             token'[s].kind \in {"code", "preauth"} => token'[s].ended < token'[s].expires
  BY NothingWritten DEF IInv, Tick, tokenVars
<1>2. \A s \in Issued : \A kind \in Kinds : Given(s, kind)' <=> Given(s, kind)
  BY <1>1, GivenAfterEnd
<1>3. CallsFit' /\ RequestsHold' /\ OneConsumer' /\ \A s \in Issued : InFlight(s)' <=> InFlight(s)
  BY <1>1, <1>2, AllHold DEF Tick
<1>4. SecretsFit' /\ GivenOnce' /\ NeverWidened'
  BY <1>1, RowsFitAfterEnd DEF Tick, tokenVars
<1>5. SpentForTokens'
  <2>1. token' = token /\ wasted' = wasted /\ faults' = faults
    BY DEF Tick, tokenVars, histories
  <2> QED
    BY <1>1, <1>3, <2>1, SpentStays
<1>6. clock' \in 1..MaxTime
  BY BoundsAssumption DEF IInv, TypeOK, Tick
<1>7. TypeOK' /\ AcceptanceRecorded'
  BY <1>1, <1>3, <1>6, TypesFit DEF IInv, TypeOK, AcceptanceRecorded, Tick, tokenVars, histories
<1> QED
  BY <1>3, <1>4, <1>5, <1>7 DEF IInv

LEMMA PresentInv ==
    ASSUME IInv, NEW r \in Requests, NEW s \in Secrets, Present(r, s)
    PROVE  IInv'
<1>1. CASE Refuse(r, s)
  BY <1>1, NothingHappens DEF Refuse
<1>2. CASE \E want \in SUBSET Scopes :
               (\E proved \in BOOLEAN : ExchangeCode(r, s, want, proved)) \/ Refresh(r, s, want)
  BY <1>2, ConsumeForTokensInv DEF ExchangeCode, Refresh
<1>3. CASE RedeemOffer(r, s)
  BY <1>3, RedeemOfferInv
<1>4. CASE PostCredential(r, s) \/ PutProfile(r, s) \/ UseWallet(r, s)
  BY <1>4, UseInv
<1> QED
  BY <1>1, <1>2, <1>3, <1>4 DEF Present

LEMMA NextInv == IInv /\ [Next]_vars => IInv'
<1> SUFFICES ASSUME IInv, [Next]_vars
             PROVE  IInv'
  OBVIOUS
<1>1. CASE UNCHANGED vars
  BY <1>1, NothingHappens
<1>2. CASE Tick
  BY <1>2, TickInv
<1>3. CASE Start
  <2>1. CASE \E c \in Clients, scope \in SUBSET Scopes :
                 RegisterClient(c, scope) \/ \E user \in Users : Authorize(c, user, scope)
    BY <2>1, RegisterClientInv, AuthorizeInv
  <2>2. CASE \E a \in Assertions : CreateOffer(a)
    BY <2>2, CreateOfferInv
  <2>3. CASE \E s \in Secrets : Revoke(s) \/ \E r \in Requests : Present(r, s)
    BY <2>3, RevokeInv, PresentInv
  <2> QED
    BY <1>3, <2>1, <2>2, <2>3 DEF Start
<1>4. CASE \E r \in Requests : Step(r) \/ Fault(r)
  <2> PICK r \in Requests : Step(r) \/ Fault(r)
    BY <1>4
  <2>1. CASE InsertAccess(r) \/ InsertRefresh(r) \/ InsertWallet(r)
    BY <2>1, InsertInv
  <2>2. CASE UpsertCredential(r) \/ UpsertProfile(r)
    BY <2>2, WriteInv
  <2>3. CASE FindEvent(r) \/ InsertEvent(r)
    BY <2>3, EventInv
  <2>4. CASE Fault(r)
    BY <2>4, FaultInv
  <2> QED
    BY <2>1, <2>2, <2>3, <2>4 DEF Step
<1> QED
  BY <1>1, <1>2, <1>3, <1>4 DEF Next

\* The invariant holds in every reachable state.
THEOREM Invariance == Spec => []IInv
  BY InitInv, NextInv, PTL DEF Spec

-----------------------------------------------------------------------------
(* The properties.                                                           *)

LEMMA AtMostOne ==
    ASSUME NEW S, \A x, y \in S : x = y
    PROVE  Cardinality(S) <= 1
<1>1. CASE S = {}
  BY <1>1, FS_EmptySet
<1>2. CASE S # {}
  <2>1. PICK x : x \in S
    BY <1>2
  <2>2. S = {x}
    BY <2>1
  <2> QED
    BY <2>2, FS_Singleton
<1> QED
  BY <1>1, <1>2

LEMMA GivenIsSpentOnce == IInv => SpentOnce
<1> SUFFICES ASSUME IInv, NEW p \in Issued, NEW kind \in Kinds
             PROVE  /\ Cardinality(GivenFor(p, kind)) <= 1
                    /\ GivenFor(p, kind) # {} => token[p].kind \in Consumed /\ token[p].ended # 0
  BY DEF SpentOnce
<1>1. p # NoSecret
  BY IssuedRows DEF IInv
<1>2. \A s, t \in GivenFor(p, kind) : s = t
  BY <1>1 DEF GivenFor, IInv, GivenOnce
<1>3. GivenFor(p, kind) # {} => token[p].kind \in Consumed /\ token[p].ended # 0
  BY <1>1 DEF GivenFor, IInv, SecretsFit
<1> QED
  BY <1>2, <1>3, AtMostOne

\* Whatever requests overlap and are lost: a code or refresh token gives one access
\* and one refresh token at most, a pre-authorized code one wallet token, none carries
\* more than what it was given for, and an exchange that was not lost gave all of them.
THEOREM SecretsAreSound == Spec => []TokensAreSound
<1>1. IInv => TokensAreSound
  BY GivenIsSpentOnce DEF IInv, TokensAreSound
<1> QED
  BY <1>1, Invariance, PTL

(* How a step leaves the rows: they stay, and one is inserted or ended, or   *)
(* none.                                                                     *)

SameRows == token' = token /\ Issued' = Issued

OneInserted == \E f, new : Inserted(f, new) /\ NewFits(new)

OneEnded == \E x \in Issued, n \in Nat \ {0} : EndsAt(x, n)

RowsMove == RowsStay /\ (SameRows \/ OneInserted \/ OneEnded)

LEMMA HandMoves ==
    ASSUME IInv, NEW new, NewFits(new), Hand(new)
    PROVE  RowsMove
<1>1. new \in Row
  BY DEF NewFits
<1> QED
  BY <1>1, HandInserts DEF IInv, RowsMove, OneInserted

LEMMA EndMoves ==
    ASSUME IInv, NEW s \in Issued, NEW n \in Nat \ {0}, token' = Ended(s, n),
           token[s].ended # 0 => n = token[s].ended
    PROVE  RowsMove
  BY EndedEnds DEF IInv, RowsMove, OneEnded

LEMMA ConsumptionMoves ==
    ASSUME IInv, NEW s \in Secrets, NEW kind \in Kinds, Usable(s, kind, clock),
           token' = Ended(s, clock)
    PROVE  RowsMove
<1>1. s \in Issued /\ token[s].ended = 0 /\ clock \in Nat \ {0}
  BY UsableIsIssued, BoundsAssumption DEF Usable, IInv, TypeOK
<1> QED
  BY <1>1, EndMoves

LEMMA UnwrittenMoves ==
    ASSUME IInv, UNCHANGED token
    PROVE  RowsMove
  BY NothingWritten DEF IInv, RowsMove, SameRows

LEMMA StartMoves ==
    ASSUME IInv, Start
    PROVE  RowsMove
<1>1. ASSUME NEW c \in Clients, NEW scope \in SUBSET Scopes, RegisterClient(c, scope)
      PROVE  RowsMove
  BY <1>1, UnwrittenMoves DEF RegisterClient
<1>2. ASSUME NEW c \in Clients, NEW scope \in SUBSET Scopes, NEW user \in Users,
             Authorize(c, user, scope)
      PROVE  RowsMove
  <2>1. PICK new : new = NewRow("code", c, user, scope, clock, NoSecret)
    OBVIOUS
  <2>2. NewFits(new)
    BY <1>2, <2>1, LifeAssumption DEF NewFits, NewRow, Row, Kinds, Authorize, IInv, TypeOK
  <2> QED
    BY <1>2, <2>1, <2>2, HandMoves DEF Authorize, InsertCode
<1>3. ASSUME NEW a \in Assertions, CreateOffer(a)
      PROVE  RowsMove
  <2>1. PICK new : new = NewRow("preauth", NoClient, a, {}, clock, NoSecret)
    OBVIOUS
  <2>2. NewFits(new)
    BY <1>3, <2>1, LifeAssumption DEF NewFits, NewRow, Row, Kinds, CreateOffer, IInv, TypeOK
  <2> QED
    BY <1>3, <2>1, <2>2, HandMoves DEF CreateOffer, InsertOffer
<1>4. ASSUME NEW s \in Secrets, Revoke(s)
      PROVE  RowsMove
  <2>1. s \in Issued /\ token[s] \in Row
    BY <1>4 DEF Revoke, IInv, TypeOK, Issued, NoRow
  <2>2. PICK n : n = RevokedAt(s)
    OBVIOUS
  <2>3. n \in Nat \ {0} /\ (token[s].ended # 0 => n = token[s].ended)
    BY <2>1, <2>2 DEF RevokedAt, IInv, TypeOK, Row
  <2> QED
    BY <1>4, <2>1, <2>2, <2>3, EndMoves DEF Revoke
<1>5. ASSUME NEW s \in Secrets, NEW r \in Requests, Present(r, s)
      PROVE  RowsMove
  <2>1. CASE Refuse(r, s)
    BY <2>1, UnwrittenMoves DEF Refuse, vars, tokenVars
  <2>2. CASE \E want \in SUBSET Scopes :
                 (\E proved \in BOOLEAN : ExchangeCode(r, s, want, proved)) \/ Refresh(r, s, want)
    <3>1. \E kind \in {"code", "refresh"} : Usable(s, kind, clock) /\ token' = Ended(s, clock)
      BY <2>2 DEF ExchangeCode, Refresh, ConsumeForTokens
    <3> QED
      BY <3>1, ConsumptionMoves DEF Kinds
  <2>3. CASE RedeemOffer(r, s)
    BY <2>3, ConsumptionMoves DEF RedeemOffer, Kinds
  <2>4. CASE PostCredential(r, s) \/ PutProfile(r, s) \/ UseWallet(r, s)
    BY <2>4, UnwrittenMoves DEF PostCredential, PutProfile, UseAccess, UseWallet, tokenVars
  <2> QED
    BY <1>5, <2>1, <2>2, <2>3, <2>4 DEF Present
<1> QED
  BY <1>1, <1>2, <1>3, <1>4, <1>5 DEF Start

LEMMA StepMoves ==
    ASSUME IInv, NEW r \in Requests, Step(r) \/ Fault(r)
    PROVE  RowsMove
<1>1. ASSUME NEW kind, NEW after, NextGift(pc[r], kind, after), Hand(Child(r, kind))
      PROVE  RowsMove
  <2>1. NewFits(Child(r, kind))
    BY <1>1, ChildFits
  <2> QED
    BY <1>1, <2>1, HandMoves
<1>2. CASE InsertAccess(r) \/ InsertRefresh(r) \/ InsertWallet(r)
  BY <1>1, <1>2 DEF InsertAccess, InsertRefresh, InsertWallet, NextGift
<1>3. CASE UpsertCredential(r) \/ UpsertProfile(r) \/ FindEvent(r) \/ InsertEvent(r) \/ Fault(r)
  <2>1. UNCHANGED token
    BY <1>3 DEF UpsertCredential, UpsertProfile, WriteFor, FindEvent, InsertEvent, Fault, tokenVars
  <2> QED
    BY <2>1, UnwrittenMoves
<1> QED
  BY <1>2, <1>3 DEF Step

LEMMA NextMoves ==
    ASSUME IInv, [Next]_vars
    PROVE  RowsMove
<1>1. CASE UNCHANGED vars \/ Tick
  BY <1>1, UnwrittenMoves DEF vars, tokenVars, Tick
<1> QED
  BY <1>1, StartMoves, StepMoves DEF Next

\* The time of the first consumption or revocation of a secret is kept by every step.
THEOREM EndsAreKept == Spec => EndIsKept
<1>1. IInv /\ [Next]_vars =>
          [\A s \in Secrets : s \in Issued /\ token[s].ended # 0 => token'[s] = token[s]]_vars
  BY NextMoves DEF RowsMove, RowsStay
<1> QED
  BY <1>1, Invariance, PTL DEF Spec, EndIsKept

-----------------------------------------------------------------------------
(* The refinement of OneTimeGrant.                                           *)

SpentSecrets == {s \in Issued : token[s].ended # 0}

Gifts == {<<s, token[s].parent, token[s].kind>> : s \in {t \in Issued : token[t].parent # NoSecret}}

LEMMA GiftsAreGiven ==
    ASSUME NEW p, NEW kind, p # NoSecret, ~ Given(p, kind)
    PROVE  \A g \in Gifts : g[2] = p => g[3] # kind
  BY DEF Gifts, Given

\* An insertion is an Issue, or a Give when the secret was given for another.
LEMMA InsertionKeepsPromise ==
    ASSUME IInv, NEW f, NEW new, Inserted(f, new), NewFits(new)
    PROVE  Promise!Next
<1>1. /\ f \in Secrets /\ f \notin Issued /\ Issued' = Issued \cup {f} /\ token'[f] = new
      /\ \A s \in Issued : token'[s] = token[s]
  BY DEF Inserted, Issued
<1>2. SpentSecrets' = SpentSecrets
  BY <1>1 DEF SpentSecrets, NewFits
<1>3. CASE new.parent = NoSecret
  <2>1. Gifts' = Gifts
    BY <1>1, <1>3 DEF Gifts
  <2>2. Promise!Issue(f)
    BY <1>1, <1>2, <2>1 DEF Promise!Issue, SpentSecrets, Gifts
  <2> QED
    BY <1>1, <2>2 DEF Promise!Next
<1>4. CASE new.parent # NoSecret
  <2>1. PICK p, kind : p = new.parent /\ kind = new.kind
    OBVIOUS
  <2>2. p \in Issued /\ p \in Secrets /\ token[p].ended # 0 /\ kind \in Kinds /\ ~ Given(p, kind)
    BY <1>4, <2>1, IssuedRows DEF IInv, NewFits, Row
  <2>3. Gifts' = Gifts \cup {<<f, p, kind>>}
    BY <1>1, <1>4, <2>1 DEF Gifts
  <2>4. p \in SpentSecrets
    BY <2>2 DEF SpentSecrets
  <2>5. \A g \in Gifts : g[2] = p => g[3] # kind
    BY <1>4, <2>1, <2>2, GiftsAreGiven
  <2>6. Promise!Give(f, p, kind)
    BY <1>1, <1>2, <2>3, <2>4, <2>5 DEF Promise!Give, SpentSecrets, Gifts
  <2> QED
    BY <1>1, <2>2, <2>6 DEF Promise!Next
<1> QED
  BY <1>3, <1>4

\* An end is a Spend, or nothing when the secret had one.
LEMMA EndKeepsPromise ==
    ASSUME IInv, RowsStay, NEW x \in Issued, NEW n \in Nat \ {0}, EndsAt(x, n)
    PROVE  [Promise!Next]_Promise!vars
<1>1. /\ x \in Secrets /\ Issued' = Issued /\ token'[x].ended = n
      /\ token'[x].parent = token[x].parent /\ token'[x].kind = token[x].kind
      /\ \A s \in Issued : s # x => token'[s] = token[s]
  BY DEF EndsAt, Issued, RowsStay
<1>2. Gifts' = Gifts
  BY <1>1 DEF Gifts
<1>3. CASE token[x].ended = 0
  <2>1. SpentSecrets' = SpentSecrets \cup {x} /\ x \notin SpentSecrets
    BY <1>1, <1>3 DEF SpentSecrets
  <2>2. Promise!Spend(x)
    BY <1>1, <1>2, <2>1 DEF Promise!Spend, SpentSecrets, Gifts
  <2> QED
    BY <1>1, <2>2 DEF Promise!Next
<1>4. CASE token[x].ended # 0
  <2>1. SpentSecrets' = SpentSecrets
    BY <1>1, <1>4 DEF SpentSecrets
  <2> QED
    BY <1>1, <1>2, <2>1 DEF Promise!vars, SpentSecrets, Gifts
<1> QED
  BY <1>3, <1>4

LEMMA StepKeepsPromise ==
    ASSUME IInv, [Next]_vars
    PROVE  [Promise!Next]_Promise!vars
<1>1. RowsMove
  BY NextMoves
<1>2. CASE SameRows
  <2>1. SpentSecrets' = SpentSecrets /\ Gifts' = Gifts
    BY <1>2 DEF SameRows, SpentSecrets, Gifts
  <2> QED
    BY <1>2, <2>1 DEF SameRows, Promise!vars, SpentSecrets, Gifts
<1>3. CASE OneInserted
  BY <1>3, InsertionKeepsPromise DEF OneInserted
<1>4. CASE OneEnded
  BY <1>1, <1>4, EndKeepsPromise DEF OneEnded, RowsMove
<1> QED
  BY <1>1, <1>2, <1>3, <1>4 DEF RowsMove

\* The five tables and their endpoints, with requests that overlap and are lost,
\* implement OneTimeGrant: what is given for a secret is given once it is spent and
\* once of each kind; and a spent row is never written again.
THEOREM PromiseKept == Spec => KeepsPromise
<1>1. Init => Promise!Init
  BY DEF Init, Issued, NoRow, Promise!Init
<1>2. IInv /\ [Next]_vars => [Promise!Next]_Promise!vars
  BY StepKeepsPromise
<1>3. Spec => Promise!Spec
  BY <1>1, <1>2, Invariance, PTL DEF Spec, Promise!Spec
<1> QED
  BY <1>3, EndsAreKept DEF KeepsPromise

-----------------------------------------------------------------------------
(* The line a secret belongs to. Root is defined by recursion through the    *)
(* parents. What says of it that it is well defined, that there is one       *)
(* function that obeys its equation, is kept as a part of the invariant: the *)
(* rows grow by one, so no induction over them is needed.                    *)

Rooting(f) ==
    f = [s \in Issued |-> IF token[s].parent = NoSecret THEN s ELSE f[token[s].parent]]

Rooted ==
    /\ \E f : Rooting(f)
    /\ \A f, g : Rooting(f) /\ Rooting(g) => f = g

\* The root of a token is a code of the same owner that allowed no less.
LinesFit ==
    \A s \in Issued :
        /\ Root[s] \in Issued
        /\ token[s].kind \in {"code", "access", "refresh"} =>
               /\ token[Root[s]].kind = "code"
               /\ token[Root[s]].subject = token[s].subject
               /\ token[s].scope \subseteq token[Root[s]].scope

\* What a line can go on from: a secret that is not consumed, or a request that
\* consumed one and has not yet given the refresh token for it.
Renewable(s) == token[s].kind \in {"code", "refresh"} /\ token[s].ended = 0

Renewing(r) == pc[r] \in {"insertAccess", "insertRefresh"}

OneHolder ==
    /\ \A s, t \in Issued : Renewable(s) /\ Renewable(t) /\ Root[s] = Root[t] => s = t
    /\ \A s \in Issued, r \in Requests :
           Renewable(s) /\ Renewing(r) => Root[s] # Root[call[r].secret]
    /\ \A q, r \in Requests :
           Renewing(q) /\ Renewing(r) /\ Root[call[q].secret] = Root[call[r].secret] => q = r

Writing(r) == pc[r] \in {"upsertCredential", "upsertProfile"}

WritersHold ==
    \A r \in Requests : Writing(r) => call[r].scope \subseteq token[call[r].secret].scope

WrittenHold ==
    \A user \in written : \E s \in Issued : token[s].kind = "code" /\ token[s].subject = user

LineInv == IInv /\ Rooted /\ LinesFit /\ OneHolder /\ WritersHold /\ WrittenHold

LEMMA RootIsRooting ==
    ASSUME Rooted
    PROVE  Rooting(Root)
<1>1. PICK f : Rooting(f)
  BY DEF Rooted
<1> QED
  BY <1>1, Zenon DEF Rooting, Root

LEMMA RootIsRootingNext ==
    ASSUME Rooted'
    PROVE  Rooting(Root)'
<1>1. PICK f : Rooting(f)'
  BY DEF Rooted
<1> QED
  BY <1>1, Zenon DEF Rooting, Root

LEMMA RootFollows ==
    ASSUME Rooting(Root), NEW s \in Issued
    PROVE  Root[s] = IF token[s].parent = NoSecret THEN s ELSE Root[token[s].parent]
  BY DEF Rooting

LEMMA RootFollowsNext ==
    ASSUME Rooting(Root)', NEW s \in Issued'
    PROVE  Root[s]' = IF token'[s].parent = NoSecret THEN s ELSE Root[token[s].parent]'
  BY DEF Rooting

\* What obeys the equation of Root after a step obeyed it before, on the rows there were.
LEMMA RootingBefore ==
    ASSUME IInv, RowsStay, NEW g, Rooting(g)'
    PROVE  Rooting([s \in Issued |-> g[s]])
<1>1. PICK h : h = [s \in Issued |-> g[s]]
  OBVIOUS
<1>2. \A s \in Issued : token[s].parent # NoSecret => token[s].parent \in Issued
  BY DEF IInv, SecretsFit
<1>3. \A s \in Issued : s \in Issued' /\ token'[s].parent = token[s].parent
  BY DEF RowsStay
<1>4. \A s \in Issued' : g[s] = IF token'[s].parent = NoSecret THEN s ELSE g[token'[s].parent]
  BY DEF Rooting
<1>5. \A s \in Issued : h[s] = IF token[s].parent = NoSecret THEN s ELSE h[token[s].parent]
  BY <1>1, <1>2, <1>3, <1>4
<1>6. h = [s \in Issued |-> IF token[s].parent = NoSecret THEN s ELSE h[token[s].parent]]
  BY <1>1, <1>5
<1> QED
  BY <1>1, <1>6 DEF Rooting

\* Some function obeys it after a step too.
LEMMA RootingAfter ==
    ASSUME IInv, RowsMove, NEW h, Rooting(h)
    PROVE  \E g : Rooting(g)'
<1>1. \A s \in Issued : h[s] = IF token[s].parent = NoSecret THEN s ELSE h[token[s].parent]
  BY DEF Rooting
<1>2. \A s \in Issued : token[s].parent # NoSecret => token[s].parent \in Issued
  BY DEF IInv, SecretsFit
<1>3. \A s \in Issued : s \in Issued' /\ token'[s].parent = token[s].parent
  BY DEF RowsMove, RowsStay
<1>4. PICK g : g = [s \in Issued' |-> IF s \in Issued THEN h[s]
                                      ELSE IF token'[s].parent = NoSecret THEN s
                                      ELSE h[token'[s].parent]]
  OBVIOUS
<1>5. \A s \in Issued' : s \notin Issued /\ token'[s].parent # NoSecret => token'[s].parent \in Issued
  BY DEF RowsMove, SameRows, OneInserted, OneEnded, Inserted, EndsAt, NewFits
<1>6. \A s \in Issued' : g[s] = IF token'[s].parent = NoSecret THEN s ELSE g[token'[s].parent]
  BY <1>1, <1>2, <1>3, <1>4, <1>5
<1>7. g = [s \in Issued' |-> IF token'[s].parent = NoSecret THEN s ELSE g[token'[s].parent]]
  BY <1>4, <1>6
<1> QED
  BY <1>7 DEF Rooting

\* So every secret has a root after a step, and those there were keep theirs.
LEMMA RootsStay ==
    ASSUME IInv, Rooted, RowsMove
    PROVE  Rooted' /\ \A s \in Issued : Root[s]' = Root[s]
<1>1. RowsStay
  BY DEF RowsMove
<1>2. \E g : Rooting(g)'
  BY RootingAfter DEF Rooted
<1>3. ASSUME NEW f, NEW g, Rooting(f)', Rooting(g)'
      PROVE  f = g
  <2>1. [s \in Issued |-> f[s]] = [s \in Issued |-> g[s]]
    BY <1>1, <1>3, RootingBefore DEF Rooted
  <2>2. \A s \in Issued : f[s] = g[s]
    BY <2>1
  <2>3. \A s \in Issued' : s \notin Issued /\ token'[s].parent # NoSecret => token'[s].parent \in Issued
    BY DEF RowsMove, SameRows, OneInserted, OneEnded, Inserted, EndsAt, NewFits
  <2>4. /\ f = [s \in Issued' |-> IF token'[s].parent = NoSecret THEN s ELSE f[token'[s].parent]]
        /\ g = [s \in Issued' |-> IF token'[s].parent = NoSecret THEN s ELSE g[token'[s].parent]]
    BY <1>3 DEF Rooting
  <2>5. ASSUME NEW s \in Issued'
        PROVE  f[s] = g[s]
    <3>1. CASE s \in Issued
      BY <2>2, <3>1
    <3>2. CASE s \notin Issued /\ token'[s].parent = NoSecret
      <4>1. f[s] = s
        BY <2>4, <3>2
      <4>2. g[s] = s
        BY <2>4, <3>2
      <4> QED
        BY <4>1, <4>2
    <3>3. CASE s \notin Issued /\ token'[s].parent # NoSecret
      <4>1. f[s] = f[token'[s].parent]
        BY <2>4, <3>3
      <4>2. g[s] = g[token'[s].parent]
        BY <2>4, <3>3
      <4> QED
        BY <2>2, <2>3, <3>3, <4>1, <4>2
    <3> QED
      BY <3>1, <3>2, <3>3
  <2> QED
    BY <2>4, <2>5
<1>4. Rooted'
  BY <1>2, <1>3 DEF Rooted
<1>5. PICK g : g = Root'
  OBVIOUS
<1>6. [s \in Issued |-> g[s]] = Root
  <2>1. Rooting(Root)'
    BY <1>4, RootIsRootingNext
  <2>2. Rooting(g)'
    BY <1>5, <2>1 DEF Rooting
  <2>3. Rooting([s \in Issued |-> g[s]])
    BY <1>1, <2>2, RootingBefore
  <2> QED
    BY <2>3, RootIsRooting DEF Rooted
<1>7. \A s \in Issued : g[s] = Root[s]
  BY <1>6
<1> QED
  BY <1>4, <1>5, <1>7

LEMMA LinesFitStay ==
    ASSUME LineInv, RowsMove
    PROVE  Rooted' /\ LinesFit' /\ \A s \in Issued : Root[s]' = Root[s]
<1>1. Rooted' /\ \A s \in Issued : Root[s]' = Root[s]
  BY RootsStay DEF LineInv
<1>2. \A s \in Issued :
        /\ s \in Issued' /\ token'[s].kind = token[s].kind
        /\ token'[s].subject = token[s].subject /\ token'[s].scope = token[s].scope
  BY DEF RowsMove, RowsStay
<1>3. ASSUME NEW s \in Issued'
      PROVE  /\ Root[s]' \in Issued'
             /\ token'[s].kind \in {"code", "access", "refresh"} =>
                    /\ token'[Root[s]'].kind = "code"
                    /\ token'[Root[s]'].subject = token'[s].subject
                    /\ token'[s].scope \subseteq token'[Root[s]'].scope
  <2>1. CASE s \in Issued
    <3>1. PICK root : root = Root[s] /\ root = Root[s]'
      BY <1>1, <2>1
    <3>2. /\ root \in Issued
          /\ token[s].kind \in {"code", "access", "refresh"} =>
                 /\ token[root].kind = "code" /\ token[root].subject = token[s].subject
                 /\ token[s].scope \subseteq token[root].scope
      BY <2>1, <3>1 DEF LineInv, LinesFit
    <3> QED
      BY <1>2, <2>1, <3>1, <3>2
  <2>2. CASE s \notin Issued
    <3>1. PICK new : Inserted(s, new) /\ NewFits(new)
      BY <1>3, <2>2 DEF RowsMove, SameRows, OneInserted, OneEnded, Inserted, EndsAt
    <3>2. token'[s] = new
      BY <3>1 DEF Inserted
    <3>3. PICK root, p : root = Root[s]' /\ p = new.parent
      OBVIOUS
    <3>4. root = IF p = NoSecret THEN s ELSE Root[p]'
      BY <1>1, <1>3, <3>2, <3>3, RootIsRootingNext, RootFollowsNext
    <3>5. CASE p = NoSecret
      BY <1>3, <3>1, <3>2, <3>3, <3>4, <3>5 DEF NewFits
    <3>6. CASE p # NoSecret
      <4>1. /\ p \in Issued /\ GivesKind(token[p].kind, new.kind)
            /\ new.scope \subseteq token[p].scope /\ new.subject = token[p].subject
        BY <3>1, <3>3, <3>6 DEF NewFits
      <4>2. root = Root[p]
        BY <1>1, <3>4, <3>6, <4>1
      <4>3. /\ root \in Issued
            /\ token[p].kind \in {"code", "access", "refresh"} =>
                   /\ token[root].kind = "code" /\ token[root].subject = token[p].subject
                   /\ token[p].scope \subseteq token[root].scope
        BY <4>1, <4>2 DEF LineInv, LinesFit
      <4> QED
        BY <1>2, <3>2, <3>3, <4>1, <4>3 DEF GivesKind
    <3> QED
      BY <3>5, <3>6
  <2> QED
    BY <2>1, <2>2
<1> QED
  BY <1>1, <1>3 DEF LinesFit

LEMMA RenewingHolds ==
    ASSUME IInv, NEW r \in Requests, Renewing(r)
    PROVE  /\ call[r].secret \in Issued
           /\ token[call[r].secret].kind \in {"code", "refresh"}
           /\ token[call[r].secret].ended # 0
  BY DEF IInv, TypeOK, RequestsHold, Holds, Renewing

LEMMA RenewableBefore ==
    ASSUME RowsStay, NEW s \in Issued, Renewable(s)'
    PROVE  Renewable(s)
  BY DEF RowsStay, Renewable

\* No line gains a holder.
Quiet ==
    /\ \A s \in Issued' : s \notin Issued => token'[s].kind \notin {"code", "refresh"}
    /\ \A r \in Requests : Renewing(r)' => Renewing(r) /\ call'[r].secret = call[r].secret

LEMMA QuietKeepsHolders ==
    ASSUME LineInv, RowsMove, Quiet
    PROVE  OneHolder'
<1>1. \A s \in Issued : Root[s]' = Root[s]
  BY LinesFitStay
<1>2. \A s \in Issued' : Renewable(s)' => s \in Issued /\ Renewable(s)
  BY RenewableBefore DEF RowsMove, Quiet, Renewable
<1>3. \A r \in Requests : Renewing(r)' =>
          Renewing(r) /\ call'[r].secret = call[r].secret /\ call[r].secret \in Issued
  BY RenewingHolds DEF Quiet, LineInv
<1>4. \A r \in Requests : Renewing(r)' => Root[call[r].secret]' = Root[call[r].secret]
  <2> SUFFICES ASSUME NEW r \in Requests, Renewing(r)'
               PROVE  Root[call[r].secret]' = Root[call[r].secret]
    OBVIOUS
  <2>1. PICK s : s = call[r].secret /\ s = call'[r].secret /\ s \in Issued
    BY <1>3
  <2>2. Root[call[r].secret]' = Root[s]'
    BY <2>1
  <2> QED
    BY <1>1, <2>1, <2>2
<1>5. \A s, t \in Issued' : Renewable(s)' /\ Renewable(t)' /\ Root[s]' = Root[t]' => s = t
  BY <1>1, <1>2 DEF LineInv, OneHolder
<1>6. \A s \in Issued', r \in Requests :
          Renewable(s)' /\ Renewing(r)' => Root[s]' # Root[call[r].secret]'
  BY <1>1, <1>2, <1>3, <1>4 DEF LineInv, OneHolder
<1>7. \A q, r \in Requests :
          Renewing(q)' /\ Renewing(r)' /\ Root[call[q].secret]' = Root[call[r].secret]' => q = r
  BY <1>3, <1>4 DEF LineInv, OneHolder
<1> QED
  BY <1>5, <1>6, <1>7 DEF OneHolder

\* A code begins a line of its own.
LEMMA AuthorizeKeepsHolders ==
    ASSUME LineInv, RowsMove, NEW f, NEW new, Inserted(f, new), new.parent = NoSecret,
           UNCHANGED <<pc, call>>
    PROVE  OneHolder'
<1>1. Rooted' /\ \A s \in Issued : Root[s]' = Root[s]
  BY LinesFitStay
<1>2. f \notin Issued /\ Issued' = Issued \cup {f} /\ token'[f] = new
  BY DEF Inserted
<1>3. Root[f]' = f
  BY <1>1, <1>2, RootIsRootingNext, RootFollowsNext
<1>4. \A s \in Issued : Root[s] # f
  BY <1>2 DEF LineInv, LinesFit
<1>5. \A s \in Issued : Renewable(s)' => Renewable(s)
  BY RenewableBefore DEF RowsMove
<1>6. \A r \in Requests : Renewing(r)' =>
          /\ Renewing(r) /\ call'[r].secret = call[r].secret /\ call[r].secret \in Issued
          /\ Root[call[r].secret]' = Root[call[r].secret]
  <2> SUFFICES ASSUME NEW r \in Requests, Renewing(r)'
               PROVE  /\ Renewing(r) /\ call'[r].secret = call[r].secret /\ call[r].secret \in Issued
                      /\ Root[call[r].secret]' = Root[call[r].secret]
    OBVIOUS
  <2>1. PICK s : s = call[r].secret
    OBVIOUS
  <2>2. Renewing(r) /\ s = call'[r].secret
    BY <2>1 DEF Renewing
  <2>3. s \in Issued
    BY <2>1, <2>2, RenewingHolds DEF LineInv
  <2>4. Root[call[r].secret]' = Root[s]'
    BY <2>2
  <2> QED
    BY <1>1, <2>1, <2>2, <2>3, <2>4
<1>7. \A s, t \in Issued' : Renewable(s)' /\ Renewable(t)' /\ Root[s]' = Root[t]' => s = t
  BY <1>1, <1>2, <1>3, <1>4, <1>5 DEF LineInv, OneHolder
<1>8. \A s \in Issued', r \in Requests :
          Renewable(s)' /\ Renewing(r)' => Root[s]' # Root[call[r].secret]'
  BY <1>1, <1>2, <1>3, <1>4, <1>5, <1>6 DEF LineInv, OneHolder
<1>9. \A q, r \in Requests :
          Renewing(q)' /\ Renewing(r)' /\ Root[call[q].secret]' = Root[call[r].secret]' => q = r
  BY <1>6 DEF LineInv, OneHolder
<1> QED
  BY <1>7, <1>8, <1>9 DEF OneHolder

\* A consumed secret hands its line over to the request.
LEMMA ConsumptionKeepsHolders ==
    ASSUME LineInv, RowsMove, NEW r \in Requests, NEW s \in Issued, Renewable(s),
           token'[s].ended # 0, Issued' = Issued,
           call'[r].secret = s, \A q \in Requests \ {r} : pc'[q] = pc[q] /\ call'[q] = call[q]
    PROVE  OneHolder'
<1>1. \A u \in Issued : Root[u]' = Root[u]
  BY LinesFitStay
<1>2. \A u \in Issued : Renewable(u)' => Renewable(u) /\ u # s
  BY RenewableBefore DEF RowsMove, Renewable
<1>3. \A q \in Requests : Renewing(q)' =>
          \/ q = r /\ Root[call[q].secret]' = Root[s]
          \/ q # r /\ Renewing(q) /\ Root[call[q].secret]' = Root[call[q].secret]
  <2> SUFFICES ASSUME NEW q \in Requests, Renewing(q)'
               PROVE  \/ q = r /\ Root[call[q].secret]' = Root[s]
                      \/ q # r /\ Renewing(q) /\ Root[call[q].secret]' = Root[call[q].secret]
    OBVIOUS
  <2>1. PICK u : u = call'[q].secret
    OBVIOUS
  <2>2. Root[call[q].secret]' = Root[u]'
    BY <2>1
  <2>3. CASE q = r
    BY <1>1, <2>1, <2>2, <2>3
  <2>4. CASE q # r
    <3>1. Renewing(q) /\ u = call[q].secret
      BY <2>1, <2>4 DEF Renewing
    <3>2. u \in Issued
      BY <3>1, RenewingHolds DEF LineInv
    <3> QED
      BY <1>1, <2>2, <2>4, <3>1, <3>2
  <2> QED
    BY <2>3, <2>4
<1>4. \A u \in Issued : Renewable(u) /\ u # s => Root[u] # Root[s]
  BY DEF LineInv, OneHolder
<1>5. \A q \in Requests : Renewing(q) => Root[call[q].secret] # Root[s]
  BY DEF LineInv, OneHolder
<1>6. \A t, u \in Issued' : Renewable(t)' /\ Renewable(u)' /\ Root[t]' = Root[u]' => t = u
  BY <1>1, <1>2 DEF LineInv, OneHolder
<1>7. \A u \in Issued', q \in Requests :
          Renewable(u)' /\ Renewing(q)' => Root[u]' # Root[call[q].secret]'
  BY <1>1, <1>2, <1>3, <1>4 DEF LineInv, OneHolder
<1>8. \A p, q \in Requests :
          Renewing(p)' /\ Renewing(q)' /\ Root[call[p].secret]' = Root[call[q].secret]' => p = q
  BY <1>3, <1>5 DEF LineInv, OneHolder
<1> QED
  BY <1>6, <1>7, <1>8 DEF OneHolder

\* The request hands it over to the refresh token it gives.
LEMMA RefreshTokenKeepsHolders ==
    ASSUME LineInv, RowsMove, NEW r \in Requests, Renewing(r), ~ Renewing(r)',
           NEW f, NEW new, Inserted(f, new), new.parent = call[r].secret,
           \A q \in Requests \ {r} : pc'[q] = pc[q] /\ call'[q] = call[q]
    PROVE  OneHolder'
<1>1. Rooted' /\ \A s \in Issued : Root[s]' = Root[s]
  BY LinesFitStay
<1>2. f \notin Issued /\ Issued' = Issued \cup {f} /\ token'[f] = new
  BY DEF Inserted
<1>3. PICK p : p = call[r].secret
  OBVIOUS
<1>4. p \in Issued /\ p # NoSecret
  BY <1>3, RenewingHolds, IssuedRows DEF LineInv, IInv
<1>5. Root[f]' = Root[p]
  <2>1. Root[f]' = Root[p]'
    BY <1>1, <1>2, <1>3, <1>4, RootIsRootingNext, RootFollowsNext
  <2> QED
    BY <1>1, <1>4, <2>1
<1>6. \A s \in Issued : Renewable(s)' => Renewable(s)
  BY RenewableBefore DEF RowsMove
<1>7. \A q \in Requests : Renewing(q)' =>
          q # r /\ Renewing(q) /\ Root[call[q].secret]' = Root[call[q].secret]
  <2> SUFFICES ASSUME NEW q \in Requests, Renewing(q)'
               PROVE  q # r /\ Renewing(q) /\ Root[call[q].secret]' = Root[call[q].secret]
    OBVIOUS
  <2>1. q # r
    OBVIOUS
  <2>2. PICK u : u = call[q].secret /\ u = call'[q].secret
    BY <2>1
  <2>3. Renewing(q)
    BY <2>1 DEF Renewing
  <2>4. u \in Issued
    BY <2>2, <2>3, RenewingHolds DEF LineInv
  <2>5. Root[call[q].secret]' = Root[u]'
    BY <2>2
  <2> QED
    BY <1>1, <2>1, <2>2, <2>3, <2>4, <2>5
<1>8. \A s \in Issued : Renewable(s) => Root[s] # Root[p]
  BY <1>3 DEF LineInv, OneHolder
<1>9. \A q \in Requests : q # r /\ Renewing(q) => Root[call[q].secret] # Root[p]
  BY <1>3 DEF LineInv, OneHolder
<1>10. \A s, t \in Issued' : Renewable(s)' /\ Renewable(t)' /\ Root[s]' = Root[t]' => s = t
  BY <1>1, <1>2, <1>5, <1>6, <1>8 DEF LineInv, OneHolder
<1>11. \A s \in Issued', q \in Requests :
           Renewable(s)' /\ Renewing(q)' => Root[s]' # Root[call[q].secret]'
  BY <1>1, <1>2, <1>5, <1>6, <1>7, <1>9 DEF LineInv, OneHolder
<1>12. \A q, u \in Requests :
           Renewing(q)' /\ Renewing(u)' /\ Root[call[q].secret]' = Root[call[u].secret]' => q = u
  BY <1>7 DEF LineInv, OneHolder
<1> QED
  BY <1>10, <1>11, <1>12 DEF OneHolder

(* The steps, by what they do to the requests.                               *)

LEMMA IssuedAfterEnd ==
    ASSUME IInv, NEW s \in Secrets, NEW kind \in Kinds, Usable(s, kind, clock),
           token' = Ended(s, clock)
    PROVE  s \in Issued /\ Issued' = Issued /\ token'[s].ended # 0
<1>1. s \in Issued /\ token[s].ended = 0 /\ clock \in Nat \ {0}
  BY UsableIsIssued, BoundsAssumption DEF Usable, IInv, TypeOK
<1> QED
  BY <1>1, EndedEnds DEF IInv, EndsAt

LEMMA StartKeepsHolders ==
    ASSUME LineInv, RowsMove, Start
    PROVE  OneHolder'
<1>1. ASSUME UNCHANGED <<pc, call>>, Issued' = Issued
      PROVE  OneHolder'
  BY <1>1, QuietKeepsHolders DEF Quiet, Renewing
<1>2. ASSUME NEW c \in Clients, NEW scope \in SUBSET Scopes, RegisterClient(c, scope)
      PROVE  OneHolder'
  BY <1>1, <1>2 DEF RegisterClient, Issued
<1>3. ASSUME NEW c \in Clients, NEW scope \in SUBSET Scopes, NEW user \in Users,
             Authorize(c, user, scope)
      PROVE  OneHolder'
  <2>1. PICK new : new = NewRow("code", c, user, scope, clock, NoSecret)
    OBVIOUS
  <2>2. new \in Row /\ new.parent = NoSecret
    BY <1>3, <2>1, LifeAssumption DEF NewRow, Row, Kinds, Authorize, LineInv, IInv, TypeOK
  <2>3. PICK f : Inserted(f, new)
    BY <1>3, <2>1, <2>2, HandInserts DEF Authorize, InsertCode, LineInv, IInv
  <2> QED
    BY <1>3, <2>2, <2>3, AuthorizeKeepsHolders DEF Authorize
<1>4. ASSUME NEW a \in Assertions, CreateOffer(a)
      PROVE  OneHolder'
  <2>1. PICK new : new = NewRow("preauth", NoClient, a, {}, clock, NoSecret)
    OBVIOUS
  <2>2. new \in Row /\ new.kind = "preauth"
    BY <1>4, <2>1, LifeAssumption DEF NewRow, Row, Kinds, CreateOffer, LineInv, IInv, TypeOK
  <2>3. PICK f : Inserted(f, new)
    BY <1>4, <2>1, <2>2, HandInserts DEF CreateOffer, InsertOffer, LineInv, IInv
  <2>4. \A s \in Issued' : s \notin Issued => token'[s].kind = "preauth"
    BY <2>2, <2>3 DEF Inserted
  <2> QED
    BY <1>4, <2>4, QuietKeepsHolders DEF Quiet, Renewing, CreateOffer
<1>5. ASSUME NEW s \in Secrets, Revoke(s)
      PROVE  OneHolder'
  <2>1. s \in Issued /\ token[s] \in Row
    BY <1>5 DEF Revoke, LineInv, IInv, TypeOK, Issued, NoRow
  <2>2. PICK n : n = RevokedAt(s)
    OBVIOUS
  <2>3. n \in Nat /\ (token[s].ended # 0 => n = token[s].ended)
    BY <2>1, <2>2 DEF RevokedAt, LineInv, IInv, TypeOK, Row
  <2>4. Issued' = Issued
    BY <1>5, <2>1, <2>2, <2>3, EndedEnds DEF Revoke, LineInv, IInv, EndsAt
  <2> QED
    BY <1>1, <1>5, <2>4 DEF Revoke
<1>6. ASSUME NEW s \in Secrets, NEW r \in Requests, Present(r, s)
      PROVE  OneHolder'
  <2>1. CASE Refuse(r, s)
    BY <1>1, <2>1 DEF Refuse, vars, tokenVars, Issued
  <2>2. ASSUME NEW kind \in {"code", "refresh"}, NEW want \in SUBSET Scopes, NEW proved \in BOOLEAN,
               ConsumeForTokens(r, s, kind, want, proved)
        PROVE  OneHolder'
    <3>1. Usable(s, kind, clock) /\ token' = Ended(s, clock)
      BY <2>2 DEF ConsumeForTokens
    <3>2. s \in Issued /\ Issued' = Issued /\ token'[s].ended # 0
      BY <3>1, IssuedAfterEnd DEF LineInv, Kinds
    <3>3. CASE UNCHANGED <<pc, call>>
      BY <1>1, <3>2, <3>3
    <3>4. CASE Goto(r, "insertAccess", [secret |-> s, scope |-> want, now |-> clock])
      <4>1. /\ call'[r].secret = s
            /\ \A q \in Requests \ {r} : pc'[q] = pc[q] /\ call'[q] = call[q]
        BY <3>4 DEF Goto, LineInv, IInv, TypeOK
      <4>2. Renewable(s)
        BY <3>1 DEF Renewable, Usable
      <4> QED
        BY <3>2, <4>1, <4>2, ConsumptionKeepsHolders
    <3> QED
      BY <2>2, <3>3, <3>4 DEF ConsumeForTokens
  <2>3. ASSUME NEW place, NEW c, place \notin {"insertAccess", "insertRefresh"}, Goto(r, place, c),
               Issued' = Issued
        PROVE  OneHolder'
    <3>1. pc'[r] = place /\ \A q \in Requests \ {r} : pc'[q] = pc[q] /\ call'[q] = call[q]
      BY <2>3 DEF Goto, LineInv, IInv, TypeOK
    <3>2. \A q \in Requests : Renewing(q)' => Renewing(q) /\ call'[q].secret = call[q].secret
      BY <2>3, <3>1 DEF Renewing
    <3> QED
      BY <2>3, <3>2, QuietKeepsHolders DEF Quiet
  <2>4. CASE RedeemOffer(r, s)
    <3>1. Issued' = Issued
      BY <2>4, IssuedAfterEnd DEF LineInv, Kinds, RedeemOffer
    <3> QED
      BY <2>3, <2>4, <3>1 DEF RedeemOffer
  <2>5. CASE PostCredential(r, s) \/ PutProfile(r, s) \/ UseWallet(r, s)
    <3>1. Issued' = Issued
      BY <2>5 DEF PostCredential, PutProfile, UseAccess, UseWallet, tokenVars, Issued
    <3> QED
      BY <2>3, <2>5, <3>1 DEF PostCredential, PutProfile, UseAccess, UseWallet
  <2> QED
    BY <1>6, <2>1, <2>2, <2>4, <2>5 DEF Present, ExchangeCode, Refresh
<1> QED
  BY <1>2, <1>3, <1>4, <1>5, <1>6 DEF Start

LEMMA StepKeepsHolders ==
    ASSUME LineInv, RowsMove, NEW r \in Requests, Step(r) \/ Fault(r)
    PROVE  OneHolder'
<1>1. ASSUME NEW place, NEW c, Goto(r, place, c),
             place \in {"insertAccess", "insertRefresh"} => Renewing(r) /\ c.secret = call[r].secret,
             \A s \in Issued' : s \notin Issued => token'[s].kind \notin {"code", "refresh"}
      PROVE  OneHolder'
  <2>1. /\ pc'[r] = place /\ call'[r] = c
        /\ \A q \in Requests \ {r} : pc'[q] = pc[q] /\ call'[q] = call[q]
    BY <1>1 DEF Goto, LineInv, IInv, TypeOK
  <2>2. \A q \in Requests : Renewing(q)' => Renewing(q) /\ call'[q].secret = call[q].secret
    BY <1>1, <2>1 DEF Renewing
  <2> QED
    BY <1>1, <2>2, QuietKeepsHolders DEF Quiet
<1>2. ASSUME NEW kind, NEW after, NextGift(pc[r], kind, after), Hand(Child(r, kind))
      PROVE  \E f, new : /\ Inserted(f, new) /\ new.kind = kind /\ new.parent = call[r].secret
                         /\ \A s \in Issued' : s \notin Issued => token'[s].kind = kind
  <2>1. PICK new : new = Child(r, kind)
    OBVIOUS
  <2>2. NewFits(new) /\ new.parent = call[r].secret /\ new.kind = kind
    BY <1>2, <2>1, ChildFits DEF LineInv
  <2>3. PICK f : Inserted(f, new)
    BY <1>2, <2>1, <2>2, HandInserts DEF LineInv, IInv, NewFits
  <2> QED
    BY <2>2, <2>3 DEF Inserted
<1>3. CASE InsertAccess(r)
  <2>1. \A s \in Issued' : s \notin Issued => token'[s].kind = "access"
    BY <1>2, <1>3 DEF InsertAccess, NextGift
  <2>2. Renewing(r) /\ Goto(r, "insertRefresh", call[r])
    BY <1>3 DEF InsertAccess, AfterAccess, Renewing
  <2> QED
    BY <1>1, <2>1, <2>2
<1>4. CASE InsertWallet(r)
  <2>1. \A s \in Issued' : s \notin Issued => token'[s].kind = "wallet"
    BY <1>2, <1>4 DEF InsertWallet, NextGift
  <2> QED
    BY <1>1, <1>4, <2>1 DEF InsertWallet, End
<1>5. CASE InsertRefresh(r)
  <2>1. PICK f, new : Inserted(f, new) /\ new.parent = call[r].secret
    BY <1>2, <1>5 DEF InsertRefresh, NextGift
  <2>2. /\ pc[r] = "insertRefresh" /\ pc'[r] = "idle"
        /\ \A q \in Requests \ {r} : pc'[q] = pc[q] /\ call'[q] = call[q]
    BY <1>5 DEF InsertRefresh, End, Goto, LineInv, IInv, TypeOK
  <2> QED
    BY <2>1, <2>2, RefreshTokenKeepsHolders DEF Renewing
<1>6. CASE UpsertCredential(r) \/ UpsertProfile(r) \/ FindEvent(r) \/ InsertEvent(r) \/ Fault(r)
  <2>1. Issued' = Issued
    BY <1>6 DEF UpsertCredential, UpsertProfile, WriteFor, FindEvent, InsertEvent, Fault, tokenVars, Issued
  <2>2. Goto(r, "idle", NoCall) \/ Goto(r, "insertEvent", call[r])
    BY <1>6 DEF UpsertCredential, UpsertProfile, WriteFor, FindEvent, InsertEvent, Fault, End, Answer
  <2> QED
    BY <1>1, <2>1, <2>2
<1> QED
  BY <1>3, <1>4, <1>5, <1>6 DEF Step

LEMMA NextKeepsHolders ==
    ASSUME LineInv, [Next]_vars
    PROVE  OneHolder'
<1>1. RowsMove
  BY NextMoves DEF LineInv
<1>2. CASE UNCHANGED vars \/ Tick
  BY <1>1, <1>2, QuietKeepsHolders DEF Quiet, Renewing, vars, tokenVars, Tick, Issued
<1> QED
  BY <1>1, <1>2, StartKeepsHolders, StepKeepsHolders DEF Next

\* What is written is written for the owner of the token the request holds.
WritesFollow ==
    /\ \A r \in Requests : Writing(r)' =>
           \/ Writing(r) /\ call'[r] = call[r]
           \/ /\ call'[r].secret \in Issued
              /\ call'[r].scope \subseteq token[call'[r].secret].scope
    /\ \A user \in written' :
           user \in written \/ \E r \in Requests : Writing(r) /\ user = token[call[r].secret].subject

LEMMA NextWrites ==
    ASSUME LineInv, [Next]_vars
    PROVE  WritesFollow
<1>1. ASSUME UNCHANGED <<pc, call, written>>
      PROVE  WritesFollow
  BY <1>1 DEF WritesFollow, Writing
<1>2. ASSUME NEW r \in Requests, NEW place, NEW c, Goto(r, place, c), written' = written,
             place \in {"upsertCredential", "upsertProfile"} =>
                 c.secret \in Issued /\ c.scope \subseteq token[c.secret].scope
      PROVE  WritesFollow
  <2>1. /\ pc'[r] = place /\ call'[r] = c
        /\ \A q \in Requests \ {r} : pc'[q] = pc[q] /\ call'[q] = call[q]
    BY <1>2 DEF Goto, LineInv, IInv, TypeOK
  <2> QED
    BY <1>2, <2>1 DEF WritesFollow, Writing
<1>3. CASE UNCHANGED vars \/ Tick
  BY <1>1, <1>3 DEF vars, histories, Tick
<1>4. CASE Start
  <2>1. ASSUME NEW c \in Clients, NEW scope \in SUBSET Scopes, RegisterClient(c, scope)
        PROVE  WritesFollow
    BY <1>1, <2>1 DEF RegisterClient, histories
  <2>2. ASSUME NEW c \in Clients, NEW scope \in SUBSET Scopes, NEW user \in Users,
               Authorize(c, user, scope)
        PROVE  WritesFollow
    BY <1>1, <2>2 DEF Authorize, histories
  <2>3. ASSUME NEW a \in Assertions, CreateOffer(a)
        PROVE  WritesFollow
    BY <1>1, <2>3 DEF CreateOffer, histories
  <2>4. ASSUME NEW s \in Secrets, Revoke(s)
        PROVE  WritesFollow
    BY <1>1, <2>4 DEF Revoke
  <2>5. ASSUME NEW s \in Secrets, NEW r \in Requests, Present(r, s)
        PROVE  WritesFollow
    <3>1. CASE Refuse(r, s)
      BY <1>1, <3>1 DEF Refuse, vars, histories
    <3>2. CASE \E want \in SUBSET Scopes :
                   (\E proved \in BOOLEAN : ExchangeCode(r, s, want, proved)) \/ Refresh(r, s, want)
      BY <1>1, <1>2, <3>2 DEF ExchangeCode, Refresh, ConsumeForTokens
    <3>3. CASE RedeemOffer(r, s) \/ UseWallet(r, s)
      BY <1>2, <3>3 DEF RedeemOffer, UseWallet, histories
    <3>4. ASSUME NEW need, NEW place, UseAccess(r, s, need, place)
          PROVE  WritesFollow
      <4>1. PICK c : c = [secret |-> s, scope |-> {need}, now |-> clock]
        OBVIOUS
      <4>2. c.secret = s /\ c.scope = {need}
        BY <4>1
      <4>3. s \in Issued /\ need \in token[s].scope
        BY <2>5, <3>4, UsableIsIssued DEF UseAccess, LineInv, Kinds
      <4> QED
        BY <1>2, <3>4, <4>1, <4>2, <4>3 DEF UseAccess, histories
    <3> QED
      BY <2>5, <3>1, <3>2, <3>3, <3>4 DEF Present, PostCredential, PutProfile
  <2> QED
    BY <1>4, <2>1, <2>2, <2>3, <2>4, <2>5 DEF Start
<1>5. ASSUME NEW r \in Requests, Step(r) \/ Fault(r)
      PROVE  WritesFollow
  <2>1. CASE InsertAccess(r) \/ InsertRefresh(r) \/ InsertWallet(r)
    BY <1>2, <2>1 DEF InsertAccess, InsertRefresh, InsertWallet, AfterAccess, End, histories
  <2>2. CASE UpsertCredential(r) \/ UpsertProfile(r)
    <3>1. Writing(r) /\ written' = written \cup {token[call[r].secret].subject}
      BY <2>2 DEF UpsertCredential, UpsertProfile, WriteFor, Writing
    <3>2. pc'[r] = "idle" /\ \A q \in Requests \ {r} : pc'[q] = pc[q] /\ call'[q] = call[q]
      BY <2>2 DEF UpsertCredential, UpsertProfile, WriteFor, End, Goto, LineInv, IInv, TypeOK
    <3> QED
      BY <3>1, <3>2 DEF WritesFollow, Writing
  <2>3. CASE FindEvent(r) \/ InsertEvent(r) \/ Fault(r)
    BY <1>2, <2>3 DEF FindEvent, InsertEvent, Fault, End, Answer, histories
  <2> QED
    BY <1>5, <2>1, <2>2, <2>3 DEF Step
<1> QED
  BY <1>3, <1>4, <1>5 DEF Next

LEMMA HeldWrites ==
    ASSUME IInv, NEW r \in Requests, Writing(r)
    PROVE  call[r].secret \in Issued /\ token[call[r].secret].kind = "access"
  BY DEF IInv, TypeOK, RequestsHold, Holds, Writing

LEMMA LineInvStays ==
    ASSUME LineInv, [Next]_vars
    PROVE  LineInv'
<1>1. RowsMove /\ RowsStay
  BY NextMoves DEF LineInv, RowsMove
<1>2. IInv' /\ Rooted' /\ LinesFit' /\ OneHolder'
  BY <1>1, NextInv, LinesFitStay, NextKeepsHolders DEF LineInv
<1>3. WritesFollow
  BY NextWrites
<1>4. WritersHold'
  <2> SUFFICES ASSUME NEW r \in Requests, Writing(r)'
               PROVE  call'[r].scope \subseteq token'[call'[r].secret].scope
    BY DEF WritersHold
  <2>1. PICK s : s = call'[r].secret
    OBVIOUS
  <2>2. s \in Issued /\ call'[r].scope \subseteq token[s].scope
    BY <1>3, <2>1, HeldWrites DEF WritesFollow, LineInv, WritersHold
  <2> QED
    BY <1>1, <2>1, <2>2 DEF RowsStay
<1>5. WrittenHold'
  <2> SUFFICES ASSUME NEW user \in written'
               PROVE  \E s \in Issued' : token'[s].kind = "code" /\ token'[s].subject = user
    BY DEF WrittenHold
  <2>1. PICK s \in Issued : token[s].kind = "code" /\ token[s].subject = user
    <3>1. CASE user \in written
      BY <3>1 DEF LineInv, WrittenHold
    <3>2. ASSUME NEW r \in Requests, Writing(r), user = token[call[r].secret].subject
          PROVE  \E s \in Issued : token[s].kind = "code" /\ token[s].subject = user
      BY <3>2, HeldWrites DEF LineInv, LinesFit
    <3> QED
      BY <1>3, <3>1, <3>2 DEF WritesFollow
  <2> QED
    BY <1>1, <2>1 DEF RowsStay
<1> QED
  BY <1>2, <1>4, <1>5 DEF LineInv

LEMMA InitLine == Init => LineInv
<1> SUFFICES ASSUME Init
             PROVE  LineInv
  OBVIOUS
<1>1. Issued = {}
  BY DEF Init, Issued
<1>2. Rooted
  <2>1. PICK f : f = [s \in {} |-> s]
    OBVIOUS
  <2>2. \A g : Rooting(g) <=> g = [s \in {} |-> IF token[s].parent = NoSecret THEN s ELSE g[token[s].parent]]
    BY <1>1 DEF Rooting
  <2>3. Rooting(f)
    BY <2>1, <2>2
  <2>4. \A g : Rooting(g) => g = f
    BY <2>1, <2>2
  <2> QED
    BY <2>3, <2>4 DEF Rooted
<1>3. LinesFit /\ WrittenHold
  BY <1>1 DEF Init, LinesFit, WrittenHold
<1>4. OneHolder /\ WritersHold
  BY <1>1 DEF Init, OneHolder, WritersHold, Renewing, Writing
<1> QED
  BY <1>2, <1>3, <1>4, InitInv DEF LineInv

\* Whatever requests overlap and are lost: of the tokens that go back to one code one
\* refresh token at most can be used, and a client writes for an owner only with a
\* token that goes back to a code of that owner which allowed it.
THEOREM TokensFollowCodes == Spec => []TokensGoBack
<1>1. ASSUME LineInv
      PROVE  OneLiveRefresh
  BY <1>1 DEF LineInv, OneHolder, OneLiveRefresh, Usable, Renewable
<1>2. ASSUME LineInv
      PROVE  WritesAuthorized
  <2>1. ASSUME NEW r \in Requests, Writing(r)
        PROVE  LET root == Root[call[r].secret]
               IN  /\ token[root].kind = "code"
                   /\ token[root].subject = token[call[r].secret].subject
                   /\ call[r].scope \subseteq token[root].scope
    BY <1>2, <2>1, HeldWrites DEF LineInv, LinesFit, WritersHold
  <2> QED
    BY <1>2, <2>1 DEF LineInv, WrittenHold, WritesAuthorized, Writing
<1>3. LineInv => TokensGoBack
  BY <1>1, <1>2 DEF TokensGoBack
<1> QED
  BY <1>3, InitLine, LineInvStays, PTL DEF Spec
=============================================================================
