------------------------------ MODULE Setup_proofs ------------------------------
(* Proofs that what administrators' records refer to is there when it is     *)
(* used, that what was resolved or revoked stays so, and that the audit log  *)
(* and the ownership history tell what the tables hold; then that the grants *)
(* of a tenant are what was given, that who is permitted was given it, and   *)
(* that owners are explained; and that what is stored of an LMS holds there, *)
(* and what is read over it belongs together: for any number of records and  *)
(* of requests that overlap and are lost.                                    *)
EXTENDS Administration, Governance, LmsConnection, FiniteSetTheorems, SequenceTheorems, TLAPS

(* The inductive invariant, in named parts.                                  *)

Created == Provisionings \cup ApiKeys

\* What a request that puts a record was given.
InputsOf(t) ==
    CASE t \in Tenants -> [slug: Slugs, active: YesNo \cup {"unset"}]
      [] t = Signing -> RowsOf(t)
      [] t \in Patterns -> [owner: Units \cup {Unset}]
      [] t \in Members -> RowsOf(t)
      [] t \in Issuers -> RowsOf(t)
      [] t \in Provisionings -> [status: {"pending"}]
      [] t \in ApiKeys -> [tenant: Tenants, scopes: SUBSET Scopes, by: Members, expires: 0..MaxDay]

AnyRow == (UNION {RowsOf(t) : t \in Targets}) \cup {NoRow}

Entries == [target: Targets, op: Ops, before: AnyRow, row: AnyRow]

EntriesFit ==
    /\ audit \in Seq(Entries)
    /\ \A i \in DOMAIN audit : audit[i].row \in RowsOf(audit[i].target) \cup {NoRow}

\* A request's locals: a record of these fields, with rows of its target.
Shaped(q) ==
    /\ q = [target |-> q.target, op |-> q.op, input |-> q.input, seen |-> q.seen,
            row |-> q.row, dead |-> q.dead]
    /\ q.target \in Targets /\ q.op \in Ops /\ q.seen \in RowsOf(q.target) \cup {NoRow}
    /\ q.row \in RowsOf(q.target) \cup {NoRow}

WrittenBack == {"back", "initial", "audit"}

\* What each operation is given, and where it may be.
OpFits(s, q) ==
    \/ /\ q.op = "put" /\ q.input \in InputsOf(q.target)
       /\ s \in {"previous", "write"} \cup WrittenBack
       /\ s = "previous" => q.target \in Patterns \cup Members
       /\ s = "initial" => q.target \in Patterns /\ q.row # NoRow
       /\ s = "write" /\ q.target \in Created => rows[q.target] = NoRow
    \/ q.op = "delete" /\ q.target \in Issuers /\ s \in {"previous", "write", "audit"}
    \/ /\ q.op = "resolve" /\ q.target \in Provisionings /\ s \in {"write", "back", "audit"}
       /\ q.input \in [status: {"provisioned", "failed", "canceled"}] /\ rows[q.target] # NoRow
    \/ /\ q.op = "revoke" /\ q.target \in ApiKeys /\ s \in {"write", "audit"}
       /\ q.input \in [revoked: 1..MaxDay + 1] /\ rows[q.target] # NoRow
    \/ q.op \in {"archive", "unarchive"} /\ q.target \in Patterns /\ s \in {"write", "back", "audit"}
    \/ /\ q.op = "upload" /\ q.target \in Patterns
       /\ s \in {"previous", "store", "write", "back", "audit"}
       /\ s = "write" => q.input \in stored
    \/ /\ q.op = "use" /\ q.target \in ApiKeys /\ s \in {"find", "touch", "enqueue"}
       /\ q.input \in [tenant: Tenants, scope: Scopes] /\ rows[q.target] # NoRow
       /\ q.dead => s = "find" /\ Dead(q.target)
       /\ s \in {"touch", "enqueue"} =>
              /\ q.row # NoRow /\ q.row.by = rows[q.target].by
              /\ q.input.tenant = rows[q.target].tenant
              /\ HasScope(rows[q.target], q.input.scope)

RequestFits(s, q) ==
    IF s = "idle" THEN q = Idle ELSE s \in Stages /\ Shaped(q) /\ OpFits(s, q)

RequestsFit ==
    /\ stage = [r \in Requests |-> stage[r]] /\ req = [r \in Requests |-> req[r]]
    /\ \A r \in Requests : RequestFits(stage[r], req[r])

\* A provisioning request or a key is put by one request only.
Putting(r) == stage[r] = "write" /\ req[r].op = "put" /\ req[r].target \in Created

OnePut == \A q, r \in Requests :
    Putting(q) /\ Putting(r) /\ req[q].target = req[r].target => q = r

QueuedAsGranted ==
    \A j \in queued : /\ rows[j.key] # NoRow /\ j.by = rows[j.key].by
                      /\ j.tenant = rows[j.key].tenant /\ HasScope(rows[j.key], j.scope)

RowsTyped ==
    /\ rows = [t \in Targets |-> rows[t]]
    /\ \A t \in Targets : rows[t] \in RowsOf(t) \cup {NoRow}
    /\ initials \in [Patterns -> Seq(Units)] /\ stored \subseteq Assets
    /\ queued \subseteq [key: ApiKeys, tenant: Tenants, scope: Scopes, by: Members]
    /\ day \in 0..MaxDay /\ counted \in BOOLEAN
    /\ mixed \subseteq Targets /\ begun \in 0..MaxRequests /\ lost \in 0..MaxLost

IInv ==
    /\ RowsTyped
    /\ EntriesFit
    /\ RequestsFit
    /\ OnePut
    /\ ImageIsStored
    /\ QueuedAsGranted

-----------------------------------------------------------------------------
(* The tables' ids and rows.                                                 *)

LEMMA Disjoint ==
    ASSUME NEW i \in 1..7, NEW j \in 1..7, i # j
    PROVE  Tables[i] \cap Tables[j] = {}
  BY AdministrationAssumption

LEMMA Apart ==
    /\ \A t \in Tenants : t \notin Members \cup Patterns \cup Issuers \cup Created \cup {Signing}
    /\ \A t \in Members : t \notin Patterns \cup Issuers \cup Created \cup {Signing}
    /\ \A t \in Patterns : t \notin Issuers \cup Created \cup {Signing}
    /\ \A t \in Issuers : t \notin Created \cup {Signing}
    /\ \A t \in Provisionings : t \notin ApiKeys \cup {Signing}
    /\ \A t \in ApiKeys : t # Signing
<1>1. /\ Tables[1] = Tenants /\ Tables[2] = Members /\ Tables[3] = Patterns
      /\ Tables[4] = Issuers /\ Tables[5] = Provisionings /\ Tables[6] = ApiKeys
      /\ Tables[7] = {Signing}
  BY DEF Tables
<1>2. /\ Tenants \cap Members = {} /\ Tenants \cap Patterns = {} /\ Tenants \cap Issuers = {}
      /\ Tenants \cap Provisionings = {} /\ Tenants \cap ApiKeys = {} /\ Tenants \cap {Signing} = {}
  BY <1>1, Disjoint
<1>3. /\ Members \cap Patterns = {} /\ Members \cap Issuers = {} /\ Members \cap Provisionings = {}
      /\ Members \cap ApiKeys = {} /\ Members \cap {Signing} = {}
  BY <1>1, Disjoint
<1>4. /\ Patterns \cap Issuers = {} /\ Patterns \cap Provisionings = {} /\ Patterns \cap ApiKeys = {}
      /\ Patterns \cap {Signing} = {}
  BY <1>1, Disjoint
<1>5. /\ Issuers \cap Provisionings = {} /\ Issuers \cap ApiKeys = {} /\ Issuers \cap {Signing} = {}
      /\ Provisionings \cap ApiKeys = {} /\ Provisionings \cap {Signing} = {}
      /\ ApiKeys \cap {Signing} = {}
  BY <1>1, Disjoint
<1> QED
  BY <1>2, <1>3, <1>4, <1>5 DEF Created

TemplateRows == [owner: Units, archived: YesNo, image: Assets \cup {Unset}]
KeyRows == [tenant: Tenants, scopes: SUBSET Scopes, by: Members,
            expires: 0..MaxDay, revoked: 0..MaxDay + 1]

LEMMA RowsAre ==
    /\ \A t \in Tenants :
           /\ RowsOf(t) = [slug: Slugs, active: YesNo]
           /\ InputsOf(t) = [slug: Slugs, active: YesNo \cup {"unset"}]
    /\ InputsOf(Signing) = RowsOf(Signing)
    /\ \A t \in Members : InputsOf(t) = RowsOf(t) /\ RowsOf(t) = [role: MemberRoles]
    /\ \A t \in Patterns : RowsOf(t) = TemplateRows /\ InputsOf(t) = [owner: Units \cup {Unset}]
    /\ \A t \in Issuers :
           /\ RowsOf(t) = [tenant: Tenants, client: LtiClients, endpoint: Endpoints \cup {Unset}]
           /\ InputsOf(t) = RowsOf(t)
    /\ \A t \in Provisionings :
           /\ RowsOf(t) = [status: {"pending", "provisioned", "failed", "canceled"}]
           /\ InputsOf(t) = [status: {"pending"}]
    /\ \A t \in ApiKeys :
           /\ RowsOf(t) = KeyRows
           /\ InputsOf(t) = [tenant: Tenants, scopes: SUBSET Scopes, by: Members, expires: 0..MaxDay]
<1>1. ASSUME NEW t \in Tenants
      PROVE  /\ RowsOf(t) = [slug: Slugs, active: YesNo]
             /\ InputsOf(t) = [slug: Slugs, active: YesNo \cup {"unset"}]
  <2>1. /\ t \notin Members /\ t \notin Patterns /\ t \notin Issuers /\ t \notin Provisionings
        /\ t \notin ApiKeys /\ t # Signing
    BY Apart DEF Created
  <2>2. RowsOf(t) = [slug: Slugs, active: YesNo]
    BY <2>1 DEF RowsOf
  <2>3. InputsOf(t) = [slug: Slugs, active: YesNo \cup {"unset"}]
    BY <2>1 DEF InputsOf
  <2> QED
    BY <2>2, <2>3
<1>2. InputsOf(Signing) = RowsOf(Signing)
  <2>1. /\ Signing \notin Tenants /\ Signing \notin Members /\ Signing \notin Patterns /\ Signing \notin Issuers
        /\ Signing \notin Provisionings /\ Signing \notin ApiKeys
    BY Apart DEF Created
  <2> QED
    BY <2>1 DEF InputsOf
<1>3. ASSUME NEW t \in Members PROVE InputsOf(t) = RowsOf(t) /\ RowsOf(t) = [role: MemberRoles]
  <2>1. /\ t \notin Tenants /\ t \notin Patterns /\ t \notin Issuers /\ t \notin Provisionings
        /\ t \notin ApiKeys /\ t # Signing
    BY Apart DEF Created
  <2>2. RowsOf(t) = [role: MemberRoles]
    BY <2>1 DEF RowsOf
  <2>3. InputsOf(t) = RowsOf(t)
    BY <2>1 DEF InputsOf
  <2> QED
    BY <2>2, <2>3
<1>4. ASSUME NEW t \in Patterns
      PROVE  RowsOf(t) = TemplateRows /\ InputsOf(t) = [owner: Units \cup {Unset}]
  <2>1. /\ t \notin Tenants /\ t \notin Members /\ t \notin Issuers /\ t \notin Provisionings
        /\ t \notin ApiKeys /\ t # Signing
    BY Apart DEF Created
  <2>2. RowsOf(t) = TemplateRows
    BY <2>1 DEF RowsOf, TemplateRows
  <2>3. InputsOf(t) = [owner: Units \cup {Unset}]
    BY <2>1 DEF InputsOf
  <2> QED
    BY <2>2, <2>3
<1>5. ASSUME NEW t \in Issuers
      PROVE  /\ RowsOf(t) = [tenant: Tenants, client: LtiClients, endpoint: Endpoints \cup {Unset}]
             /\ InputsOf(t) = RowsOf(t)
  <2>1. /\ t \notin Tenants /\ t \notin Members /\ t \notin Patterns /\ t \notin Provisionings
        /\ t \notin ApiKeys /\ t # Signing
    BY Apart DEF Created
  <2>2. RowsOf(t) = [tenant: Tenants, client: LtiClients, endpoint: Endpoints \cup {Unset}]
    BY <2>1 DEF RowsOf
  <2>3. InputsOf(t) = RowsOf(t)
    BY <2>1 DEF InputsOf
  <2> QED
    BY <2>2, <2>3
<1>6. ASSUME NEW t \in Provisionings
      PROVE  /\ RowsOf(t) = [status: {"pending", "provisioned", "failed", "canceled"}]
             /\ InputsOf(t) = [status: {"pending"}]
  <2>1. /\ t \notin Tenants /\ t \notin Members /\ t \notin Patterns /\ t \notin Issuers
        /\ t \notin ApiKeys /\ t # Signing
    BY Apart DEF Created
  <2>2. RowsOf(t) = [status: {"pending", "provisioned", "failed", "canceled"}]
    BY <2>1 DEF RowsOf
  <2>3. InputsOf(t) = [status: {"pending"}]
    BY <2>1 DEF InputsOf
  <2> QED
    BY <2>2, <2>3
<1>7. ASSUME NEW t \in ApiKeys
      PROVE  /\ RowsOf(t) = KeyRows
             /\ InputsOf(t) = [tenant: Tenants, scopes: SUBSET Scopes, by: Members, expires: 0..MaxDay]
  <2>1. /\ t \notin Tenants /\ t \notin Members /\ t \notin Patterns /\ t \notin Issuers
        /\ t \notin Provisionings /\ t # Signing
    BY Apart DEF Created
  <2>2. RowsOf(t) = KeyRows
    BY <2>1 DEF RowsOf, KeyRows
  <2>3. InputsOf(t) = [tenant: Tenants, scopes: SUBSET Scopes, by: Members, expires: 0..MaxDay]
    BY <2>1 DEF InputsOf
  <2> QED
    BY <2>2, <2>3
<1> QED
  BY <1>1, <1>2, <1>3, <1>4, <1>5, <1>6, <1>7

LEMMA KeyRow ==
    ASSUME RowsTyped, NEW k \in ApiKeys, rows[k] # NoRow
    PROVE  rows[k] \in KeyRows
  BY RowsAre DEF RowsTyped, Targets

-----------------------------------------------------------------------------
(* What no step undoes, and what a step leaves to the other requests.        *)

KeysStay ==
    \A k \in ApiKeys : rows[k] # NoRow =>
        /\ rows'[k].by = rows[k].by /\ rows'[k].tenant = rows[k].tenant
        /\ rows'[k].scopes = rows[k].scopes /\ rows'[k].expires = rows[k].expires
        /\ rows[k].revoked # 0 => rows'[k].revoked # 0

RowsStay ==
    /\ \A t \in Created : rows[t] # NoRow => rows'[t] # NoRow
    /\ KeysStay
    /\ stored \subseteq stored' /\ day \in Nat /\ day' \in Nat /\ day <= day'

LEMMA DeadStays ==
    ASSUME RowsTyped, RowsStay, NEW k \in ApiKeys, rows[k] # NoRow, Dead(k)
    PROVE  Dead(k)'
<1>1. rows[k] \in KeyRows /\ rows[k].expires \in 0..MaxDay /\ MaxDay \in Nat
  BY KeyRow, AdministrationAssumption DEF KeyRows
<1>2. rows'[k].expires = rows[k].expires /\ (rows[k].revoked # 0 => rows'[k].revoked # 0)
  BY DEF RowsStay, KeysStay
<1>3. CASE rows[k].revoked # 0
  BY <1>2, <1>3 DEF Dead
<1>4. CASE Expired(rows[k])
  BY <1>1, <1>2, <1>4 DEF Dead, Expired, RowsStay
<1> QED
  BY <1>3, <1>4 DEF Dead

LEMMA RequestStays ==
    ASSUME RowsTyped, RowsStay, NEW s, NEW q, RequestFits(s, q),
           s = "write" /\ q.op = "put" /\ q.target \in Created => rows'[q.target] = NoRow
    PROVE  RequestFits(s, q)'
<1>1. CASE s = "idle"
  BY <1>1 DEF RequestFits
<1>2. CASE s # "idle"
  <2>1. Shaped(q) /\ Shaped(q)' /\ s \in Stages /\ OpFits(s, q)
    BY <1>2 DEF RequestFits, Shaped, RowsOf
  <2>2. CASE q.op = "use"
    <3>1. q.target \in ApiKeys /\ rows[q.target] # NoRow
      BY <2>1, <2>2 DEF OpFits
    <3>2. rows'[q.target] # NoRow /\ (Dead(q.target) => Dead(q.target)')
      BY <3>1, DeadStays DEF RowsStay, Created
    <3>3. /\ rows'[q.target].by = rows[q.target].by /\ rows'[q.target].tenant = rows[q.target].tenant
          /\ rows'[q.target].scopes = rows[q.target].scopes
      BY <3>1 DEF RowsStay, KeysStay
    <3>4. HasScope(rows[q.target], q.input.scope) => HasScope(rows'[q.target], q.input.scope)
      BY <3>3 DEF HasScope
    <3>5. OpFits(s, q)'
      BY <2>1, <2>2, <3>1, <3>2, <3>3, <3>4 DEF OpFits
    <3> QED
      BY <1>2, <2>1, <3>5 DEF RequestFits
  <2>3. CASE q.op # "use"
    <3>1. OpFits(s, q)'
      BY <2>1, <2>3 DEF OpFits, RowsStay, Created, InputsOf, RowsOf
    <3> QED
      BY <1>2, <2>1, <3>1 DEF RequestFits
  <2> QED
    BY <2>2, <2>3
<1> QED
  BY <1>1, <1>2

\* No other request's row is put under an id that a request is about to put.
OthersKept(r) ==
    \A p \in Requests \ {r} : Putting(p) => rows'[req[p].target] = NoRow

DataHold ==
    RowsTyped /\ EntriesFit /\ ImageIsStored /\ QueuedAsGranted

LEMMA MoveInv ==
    ASSUME IInv, NEW r \in Requests, NEW s, NEW q, To(r, s, q), DataHold', RowsStay,
           OthersKept(r), RequestFits(s, q)',
           s = "write" /\ q.op = "put" /\ q.target \in Created =>
               \A p \in Requests \ {r} : Putting(p) => req[p].target # q.target
    PROVE  IInv'
<1>1. /\ stage'[r] = s /\ req'[r] = q
      /\ \A p \in Requests \ {r} : stage'[p] = stage[p] /\ req'[p] = req[p]
      /\ stage' = [p \in Requests |-> stage'[p]] /\ req' = [p \in Requests |-> req'[p]]
  BY DEF IInv, RequestsFit, To
<1>2. ASSUME NEW p \in Requests PROVE RequestFits(stage[p], req[p])'
  <2>1. PICK t, o : t = stage[p] /\ o = req[p]
    OBVIOUS
  <2>2. CASE p = r
    <3>1. stage'[p] = s /\ req'[p] = q
      BY <1>1, <2>2
    <3> QED
      BY <3>1, ZenonT(60) DEF RequestFits, Shaped, OpFits, RowsOf, InputsOf
  <2>3. CASE p # r
    <3>1. RequestFits(t, o)
      BY <2>1 DEF IInv, RequestsFit
    <3>2. t = "write" /\ o.op = "put" /\ o.target \in Created => rows'[o.target] = NoRow
      BY <2>1, <2>3 DEF OthersKept, Putting
    <3>3. RequestFits(t, o)'
      BY <3>1, <3>2, RequestStays DEF IInv
    <3>4. stage'[p] = t /\ req'[p] = o
      BY <1>1, <2>1, <2>3
    <3> QED
      BY <3>3, <3>4, ZenonT(60) DEF RequestFits, Shaped, OpFits, RowsOf, InputsOf
  <2> QED
    BY <2>2, <2>3
<1>3. OnePut'
  <2>1. \A p \in Requests \ {r} : Putting(p)' = Putting(p)
    BY <1>1 DEF Putting
  <2>2. Putting(r)' = (s = "write" /\ q.op = "put" /\ q.target \in Created)
    BY <1>1 DEF Putting
  <2> QED
    BY <1>1, <2>1, <2>2 DEF OnePut, IInv
<1> QED
  BY <1>1, <1>2, <1>3 DEF IInv, RequestsFit, DataHold

-----------------------------------------------------------------------------
(* Steps that leave the records alone.                                       *)

LEMMA RequestFit ==
    ASSUME IInv, NEW r \in Requests, stage[r] # "idle"
    PROVE  stage[r] \in Stages /\ Shaped(req[r]) /\ OpFits(stage[r], req[r])
  BY DEF IInv, RequestsFit, RequestFits

LEMMA PutsFresh ==
    ASSUME IInv, NEW r \in Requests, Putting(r)
    PROVE  rows[req[r].target] = NoRow
<1>1. OpFits(stage[r], req[r])
  BY RequestFit DEF Putting
<1> QED
  BY <1>1 DEF OpFits, Putting

SameData == UNCHANGED <<rows, initials, stored, audit, queued, day, counted>>

Counters ==
    mixed' \subseteq Targets /\ begun' \in 0..MaxRequests /\ lost' \in 0..MaxLost

LEMMA DataKept ==
    ASSUME IInv, SameData, Counters
    PROVE  DataHold' /\ RowsStay /\ \A r \in Requests : OthersKept(r)
<1>1. RowsTyped'
  BY DEF IInv, RowsTyped, SameData, Counters, RowsOf
<1>2. EntriesFit' /\ ImageIsStored' /\ QueuedAsGranted'
  BY DEF IInv, EntriesFit, ImageIsStored, QueuedAsGranted, SameData, HasScope, Entries, AnyRow, RowsOf
<1>3. day \in Nat
  BY AdministrationAssumption DEF IInv, RowsTyped
<1>4. RowsStay
  BY <1>3 DEF SameData, RowsStay, KeysStay
<1>5. \A r \in Requests : OthersKept(r)
  BY PutsFresh DEF OthersKept, SameData
<1> QED
  BY <1>1, <1>2, <1>4, <1>5 DEF DataHold

LEMMA StillFits ==
    ASSUME rows' = rows, stored \subseteq stored', day' = day, NEW s, NEW q, RequestFits(s, q)
    PROVE  RequestFits(s, q)'
<1>1. Shaped(q) => Shaped(q)'
  BY DEF Shaped, RowsOf
<1>2. OpFits(s, q) => OpFits(s, q)'
  BY DEF OpFits, Dead, Expired, InputsOf, RowsOf
<1> QED
  BY <1>1, <1>2 DEF RequestFits

LEMMA MoveOnly ==
    ASSUME IInv, NEW r \in Requests, NEW s, NEW q, To(r, s, q), SameData, Counters,
           RequestFits(s, q),
           s = "write" /\ q.op = "put" /\ q.target \in Created =>
               \A p \in Requests \ {r} : Putting(p) => req[p].target # q.target
    PROVE  IInv'
<1>1. DataHold' /\ RowsStay /\ OthersKept(r)
  BY DataKept
<1>2. RequestFits(s, q)'
  BY StillFits DEF SameData
<1> QED
  BY <1>1, <1>2, MoveInv

LEMMA DoneInv ==
    ASSUME IInv, NEW r \in Requests, Done(r), SameData, Counters
    PROVE  IInv'
<1>1. To(r, "idle", Idle) /\ RequestFits("idle", Idle)
  BY DEF Done, RequestFits
<1> QED
  BY <1>1, MoveOnly

LEMMA CountersStay ==
    ASSUME IInv, UNCHANGED <<mixed, begun, lost>>
    PROVE  Counters
  BY DEF IInv, RowsTyped, Counters

-----------------------------------------------------------------------------
(* The beginning of a request.                                               *)

Begin(t, op, input) ==
    [target |-> t, op |-> op, input |-> input, seen |-> NoRow, row |-> NoRow,
     dead |-> t \in ApiKeys /\ Dead(t)]

\* What a request that begins has.
LEMMA BeginHas ==
    ASSUME NEW t, NEW op, NEW input, NEW q, q = Begin(t, op, input)
    PROVE  /\ q.target = t /\ q.op = op /\ q.input = input /\ q.seen = NoRow /\ q.row = NoRow
           /\ q.dead = (t \in ApiKeys /\ Dead(t))
           /\ q = [target |-> q.target, op |-> q.op, input |-> q.input, seen |-> q.seen,
                   row |-> q.row, dead |-> q.dead]
  BY DEF Begin

LEMMA StartInv ==
    ASSUME IInv, NEW r \in Requests, NEW t \in Targets, NEW op \in Ops, NEW first \in Stages,
           NEW input, Start(r, t, op, first, input), first # "idle",
           OpFits(first, Begin(t, op, input)),
           first = "write" /\ op = "put" /\ t \in Created => Fresh(t)
    PROVE  IInv'
<1>1. PICK q : q = Begin(t, op, input)
  OBVIOUS
<1>2. /\ To(r, first, q) /\ begun < MaxRequests /\ begun' = begun + 1
      /\ mixed' = mixed \/ mixed' = mixed \cup {t}
      /\ UNCHANGED <<rows, initials, stored, adminLog, day, counted, lost>>
  BY <1>1 DEF Start, Begin
<1>3. SameData
  BY <1>2 DEF SameData, adminLog
<1>4. Counters
  <2>1. begun' \in 0..MaxRequests
    BY <1>2, AdministrationAssumption DEF IInv, RowsTyped
  <2> QED
    BY <1>2, <2>1 DEF IInv, RowsTyped, Counters
<1>5. /\ q.target = t /\ q.op = op /\ q.input = input /\ q.seen = NoRow /\ q.row = NoRow
      /\ q = [target |-> q.target, op |-> q.op, input |-> q.input, seen |-> q.seen,
              row |-> q.row, dead |-> q.dead]
  BY <1>1, BeginHas
<1>6. Shaped(q)
  BY <1>5 DEF Shaped
<1>7. RequestFits(first, q)
  BY <1>1, <1>6 DEF RequestFits
<1>8. ASSUME first = "write", q.op = "put", q.target \in Created
      PROVE  \A p \in Requests \ {r} : Putting(p) => req[p].target # q.target
  <2>1. OnTarget(t) = {}
    BY <1>5, <1>8 DEF Fresh
  <2> QED
    BY <1>5, <2>1 DEF OnTarget, Putting
<1> QED
  BY <1>2, <1>3, <1>4, <1>7, <1>8, MoveOnly

LEMMA PutsInv ==
    ASSUME IInv, NEW r \in Requests,
           \/ PutTenant(r) \/ PutSigningRegistration(r) \/ PutTemplate(r) \/ PutRole(r)
           \/ PutIssuer(r) \/ PutIssuerByForm(r) \/ RequestDedicatedDb(r) \/ CreateApiKey(r)
    PROVE  IInv'
<1>1. PICK t, input, first :
          /\ t \in Targets /\ first \in {"previous", "write"}
          /\ Start(r, t, "put", first, input) /\ input \in InputsOf(t)
          /\ first = "previous" => t \in Patterns \cup Members
          /\ t \in Created => Fresh(t)
  <2>1. CASE PutTenant(r)
    <3>1. PICK t \in Tenants, input \in [slug: Slugs, active: YesNo \cup {"unset"}] :
              Start(r, t, "put", "write", input)
      BY <2>1 DEF PutTenant
    <3>2. input \in InputsOf(t) /\ t \in Targets /\ t \notin Created
      BY RowsAre, Apart DEF Targets
    <3> QED
      BY <3>1, <3>2
  <2>2. CASE PutSigningRegistration(r)
    <3>1. PICK input \in RowsOf(Signing) : Start(r, Signing, "put", "write", input)
      BY <2>2 DEF PutSigningRegistration
    <3>2. input \in InputsOf(Signing) /\ Signing \in Targets /\ Signing \notin Created
      BY RowsAre, Apart DEF Targets, Created
    <3> QED
      BY <3>1, <3>2
  <2>3. CASE PutTemplate(r)
    <3>1. PICK t \in Patterns, input \in [owner: Units \cup {Unset}] :
              Start(r, t, "put", "previous", input)
      BY <2>3 DEF PutTemplate
    <3>2. input \in InputsOf(t) /\ t \in Targets /\ t \notin Created
      BY RowsAre, Apart DEF Targets
    <3> QED
      BY <3>1, <3>2
  <2>4. CASE PutRole(r)
    <3>1. PICK u \in Members, input \in [role: MemberRoles] : Start(r, u, "put", "previous", input)
      BY <2>4 DEF PutRole
    <3>2. input \in InputsOf(u) /\ u \in Targets /\ u \notin Created
      BY RowsAre, Apart DEF Targets
    <3> QED
      BY <3>1, <3>2
  <2>5. CASE PutIssuer(r) \/ PutIssuerByForm(r)
    <3>1. PICK i \in Issuers : \E input \in RowsOf(i) : Start(r, i, "put", "write", input)
      BY <2>5 DEF PutIssuer, PutIssuerByForm
    <3>2. PICK input \in RowsOf(i) : Start(r, i, "put", "write", input)
      BY <3>1
    <3>3. input \in InputsOf(i) /\ i \in Targets /\ i \notin Created
      BY RowsAre, Apart DEF Targets
    <3> QED
      BY <3>2, <3>3
  <2>6. CASE RequestDedicatedDb(r)
    <3>1. PICK p \in Provisionings : Fresh(p) /\ Start(r, p, "put", "write", [status |-> "pending"])
      BY <2>6 DEF RequestDedicatedDb
    <3>2. PICK input : input = [status |-> "pending"]
      OBVIOUS
    <3>3. input \in [status: {"pending"}]
      BY <3>2
    <3>4. input \in InputsOf(p) /\ p \in Targets
      BY <3>3, RowsAre DEF Targets
    <3> QED
      BY <3>1, <3>2, <3>4
  <2>7. CASE CreateApiKey(r)
    <3>1. PICK k \in ApiKeys, input \in [tenant: Tenants, scopes: SUBSET Scopes \ {{}}, by: Members,
                                         expires: 0..MaxDay] :
              Fresh(k) /\ Start(r, k, "put", "write", input)
      BY <2>7 DEF CreateApiKey
    <3>2. input \in [tenant: Tenants, scopes: SUBSET Scopes, by: Members, expires: 0..MaxDay]
      OBVIOUS
    <3>3. input \in InputsOf(k) /\ k \in Targets
      BY <3>2, RowsAre DEF Targets
    <3> QED
      BY <3>1, <3>3
  <2> QED
    BY <2>1, <2>2, <2>3, <2>4, <2>5, <2>6, <2>7
<1>2. rows[t] = NoRow \/ t \notin Created
  BY <1>1 DEF Fresh
<1>3. OpFits(first, Begin(t, "put", input))
  BY <1>1, <1>2, BeginHas DEF OpFits, WrittenBack
<1> QED
  BY <1>1, <1>3, StartInv DEF Ops, Stages

LEMMA BeginsInv ==
    ASSUME IInv, NEW r \in Requests,
           \/ DeleteIssuer(r) \/ DeleteIssuerByForm(r) \/ ResolveDedicatedDb(r) \/ RevokeApiKey(r)
           \/ Archive(r) \/ Unarchive(r) \/ UploadImage(r) \/ QueueWithKey(r)
    PROVE  IInv'
<1>1. PICK t, op, first, input :
          /\ t \in Targets /\ op \in Ops \ {"put"} /\ first \in Stages \ {"idle"}
          /\ Start(r, t, op, first, input)
          /\ \/ op = "delete" /\ t \in Issuers /\ first = "previous"
             \/ /\ op = "resolve" /\ t \in Provisionings /\ first = "write" /\ rows[t] # NoRow
                /\ input \in [status: {"provisioned", "failed", "canceled"}]
             \/ /\ op = "revoke" /\ t \in ApiKeys /\ first = "write" /\ rows[t] # NoRow
                /\ input \in [revoked: 1..MaxDay + 1]
             \/ op \in {"archive", "unarchive"} /\ t \in Patterns /\ first = "write"
             \/ op = "upload" /\ t \in Patterns /\ first = "previous"
             \/ /\ op = "use" /\ t \in ApiKeys /\ first = "find" /\ rows[t] # NoRow
                /\ input \in [tenant: Tenants, scope: Scopes]
  <2>1. CASE DeleteIssuer(r) \/ DeleteIssuerByForm(r)
    <3>1. PICK i \in Issuers : Start(r, i, "delete", "previous", NoRow)
      BY <2>1 DEF DeleteIssuer, DeleteIssuerByForm
    <3> QED
      BY <3>1 DEF Ops, Stages, Targets
  <2>2. CASE ResolveDedicatedDb(r)
    <3>1. PICK p \in Provisionings, status \in {"provisioned", "failed", "canceled"} :
              rows[p] # NoRow /\ Start(r, p, "resolve", "write", [status |-> status])
      BY <2>2 DEF ResolveDedicatedDb
    <3>2. PICK input : input = [status |-> status]
      OBVIOUS
    <3>3. input \in [status: {"provisioned", "failed", "canceled"}]
      BY <3>2
    <3> QED
      BY <3>1, <3>2, <3>3 DEF Ops, Stages, Targets
  <2>3. CASE RevokeApiKey(r)
    <3>1. PICK k \in ApiKeys, when \in 1..MaxDay + 1 :
              rows[k] # NoRow /\ Start(r, k, "revoke", "write", [revoked |-> when])
      BY <2>3 DEF RevokeApiKey
    <3>2. PICK input : input = [revoked |-> when]
      OBVIOUS
    <3>3. input \in [revoked: 1..MaxDay + 1]
      BY <3>2
    <3> QED
      BY <3>1, <3>2, <3>3 DEF Ops, Stages, Targets
  <2>4. CASE Archive(r)
    <3>1. PICK t \in Patterns : Start(r, t, "archive", "write", NoRow)
      BY <2>4 DEF Archive
    <3> QED
      BY <3>1 DEF Ops, Stages, Targets
  <2>5. CASE Unarchive(r)
    <3>1. PICK t \in Patterns : Start(r, t, "unarchive", "write", NoRow)
      BY <2>5 DEF Unarchive
    <3> QED
      BY <3>1 DEF Ops, Stages, Targets
  <2>6. CASE UploadImage(r)
    <3>1. PICK t \in Patterns : Start(r, t, "upload", "previous", NoRow)
      BY <2>6 DEF UploadImage
    <3> QED
      BY <3>1 DEF Ops, Stages, Targets
  <2>7. CASE QueueWithKey(r)
    <3>1. PICK k \in ApiKeys, input \in [tenant: Tenants, scope: Scopes \ {"*"}] :
              rows[k] # NoRow /\ Start(r, k, "use", "find", input)
      BY <2>7 DEF QueueWithKey
    <3>2. input \in [tenant: Tenants, scope: Scopes]
      OBVIOUS
    <3> QED
      BY <3>1, <3>2 DEF Ops, Stages, Targets
  <2> QED
    BY <2>1, <2>2, <2>3, <2>4, <2>5, <2>6, <2>7
<1>2. OpFits(first, Begin(t, op, input))
  <2>1. PICK q : q = Begin(t, op, input)
    OBVIOUS
  <2>2. q.target = t /\ q.op = op /\ q.input = input /\ q.dead = (t \in ApiKeys /\ Dead(t))
    BY <2>1, BeginHas
  <2>3. OpFits(first, q)
    BY <1>1, <2>2 DEF OpFits
  <2> QED
    BY <2>1, <2>3
<1> QED
  BY <1>1, <1>2, StartInv

-----------------------------------------------------------------------------
(* Steps that change a request's locals only.                                *)

LEMMA WithRow ==
    ASSUME NEW q, Shaped(q), NEW x \in RowsOf(q.target) \cup {NoRow},
           NEW o, o = [q EXCEPT !.row = x]
    PROVE  /\ o.target = q.target /\ o.op = q.op /\ o.input = q.input /\ o.seen = q.seen
           /\ o.row = x /\ o.dead = q.dead /\ Shaped(o)
<1>1. o = [target |-> q.target, op |-> q.op, input |-> q.input, seen |-> q.seen,
           row |-> x, dead |-> q.dead]
  BY DEF Shaped
<1>2. /\ o.target = q.target /\ o.op = q.op /\ o.input = q.input /\ o.seen = q.seen
      /\ o.row = x /\ o.dead = q.dead
  BY <1>1
<1> QED
  BY <1>1, <1>2 DEF Shaped

LEMMA WithSeen ==
    ASSUME NEW q, Shaped(q), NEW x \in RowsOf(q.target) \cup {NoRow},
           NEW o, o = [q EXCEPT !.seen = x]
    PROVE  /\ o.target = q.target /\ o.op = q.op /\ o.input = q.input /\ o.row = q.row
           /\ o.seen = x /\ o.dead = q.dead /\ Shaped(o)
<1>1. o = [target |-> q.target, op |-> q.op, input |-> q.input, seen |-> x,
           row |-> q.row, dead |-> q.dead]
  BY DEF Shaped
<1>2. /\ o.target = q.target /\ o.op = q.op /\ o.input = q.input /\ o.row = q.row
      /\ o.seen = x /\ o.dead = q.dead
  BY <1>1
<1> QED
  BY <1>1, <1>2 DEF Shaped

LEMMA WithInput ==
    ASSUME NEW q, Shaped(q), NEW x, NEW o, o = [q EXCEPT !.input = x]
    PROVE  /\ o.target = q.target /\ o.op = q.op /\ o.seen = q.seen /\ o.row = q.row
           /\ o.input = x /\ o.dead = q.dead /\ Shaped(o)
<1>1. o = [target |-> q.target, op |-> q.op, input |-> x, seen |-> q.seen,
           row |-> q.row, dead |-> q.dead]
  BY DEF Shaped
<1>2. /\ o.target = q.target /\ o.op = q.op /\ o.seen = q.seen /\ o.row = q.row
      /\ o.input = x /\ o.dead = q.dead
  BY <1>1
<1> QED
  BY <1>1, <1>2 DEF Shaped

LEMMA ReadPreviousInv ==
    ASSUME IInv, NEW r \in Requests, ReadPrevious(r)
    PROVE  IInv'
<1>1. PICK q : q = req[r]
  OBVIOUS
<1>2. PICK row : row = rows[q.target]
  OBVIOUS
<1>3. PICK on : on = [q EXCEPT !.seen = row]
  OBVIOUS
<1>4. /\ stage[r] = "previous"
      /\ UNCHANGED <<rows, initials, stored, adminLog, day, counted, mixed, begun, lost>>
      /\ \/ Done(r)
         \/ q.op = "upload" /\ To(r, "store", on)
         \/ q.op = "put" /\ q.target \in Patterns /\ To(r, "write", on)
         \/ (q.op = "delete" \/ q.target \in Members) /\ To(r, "write", on)
  BY <1>1, <1>2, <1>3 DEF ReadPrevious
<1>5. SameData /\ Counters
  BY <1>4, CountersStay DEF SameData, adminLog
<1>6. Shaped(q) /\ OpFits("previous", q)
  BY <1>1, <1>4, RequestFit
<1>7. row \in RowsOf(q.target) \cup {NoRow}
  BY <1>2, <1>6 DEF IInv, RowsTyped, Shaped
<1>8. /\ on.target = q.target /\ on.op = q.op /\ on.input = q.input /\ on.row = q.row
      /\ on.dead = q.dead /\ Shaped(on)
  BY <1>3, <1>6, <1>7, WithSeen
<1>9. CASE Done(r)
  BY <1>5, <1>9, DoneInv
<1>10. CASE q.op = "upload" /\ To(r, "store", on)
  <2>1. OpFits("store", on)
    BY <1>6, <1>8, <1>10 DEF OpFits
  <2> QED
    BY <1>5, <1>8, <1>10, <2>1, MoveOnly DEF RequestFits, Stages
<1>11. CASE q.op \in {"put", "delete"} /\ q.target \notin Created /\ To(r, "write", on)
  <2>1. OpFits("write", on)
    BY <1>6, <1>8, <1>11 DEF OpFits
  <2> QED
    BY <1>5, <1>8, <1>11, <2>1, MoveOnly DEF RequestFits, Stages
<1>12. q.op \in {"put", "delete", "upload"} /\ (q.op = "upload" => q.target \in Patterns)
       /\ (q.op = "delete" => q.target \in Issuers)
  BY <1>6 DEF OpFits
<1> QED
  BY <1>4, <1>9, <1>10, <1>11, <1>12, Apart

LEMMA ReadBackInv ==
    ASSUME IInv, NEW r \in Requests, ReadBack(r)
    PROVE  IInv'
<1>1. PICK q : q = req[r]
  OBVIOUS
<1>2. PICK row : row = rows[q.target]
  OBVIOUS
<1>3. PICK on : on = [q EXCEPT !.row = row]
  OBVIOUS
<1>4. /\ stage[r] = "back"
      /\ UNCHANGED <<rows, initials, stored, adminLog, day, counted, mixed, begun, lost>>
      /\ \/ Done(r)
         \/ row # NoRow /\ To(r, "audit", on)
         \/ row # NoRow /\ q.op = "put" /\ q.target \in Patterns /\ To(r, "initial", on)
  BY <1>1, <1>2, <1>3 DEF ReadBack
<1>5. SameData /\ Counters
  BY <1>4, CountersStay DEF SameData, adminLog
<1>6. Shaped(q) /\ OpFits("back", q)
  BY <1>1, <1>4, RequestFit
<1>7. row \in RowsOf(q.target) \cup {NoRow}
  BY <1>2, <1>6 DEF IInv, RowsTyped, Shaped
<1>8. /\ on.target = q.target /\ on.op = q.op /\ on.input = q.input /\ on.row = row
      /\ on.dead = q.dead /\ Shaped(on)
  BY <1>3, <1>6, <1>7, WithRow
<1>9. CASE Done(r)
  BY <1>5, <1>9, DoneInv
<1>10. CASE row # NoRow /\ To(r, "audit", on)
  <2>1. OpFits("audit", on)
    BY <1>6, <1>8 DEF OpFits, WrittenBack
  <2> QED
    BY <1>5, <1>8, <1>10, <2>1, MoveOnly DEF RequestFits, Stages
<1>11. CASE row # NoRow /\ q.op = "put" /\ q.target \in Patterns /\ To(r, "initial", on)
  <2>1. OpFits("initial", on)
    BY <1>6, <1>8, <1>11 DEF OpFits, WrittenBack
  <2> QED
    BY <1>5, <1>8, <1>11, <2>1, MoveOnly DEF RequestFits, Stages
<1> QED
  BY <1>4, <1>9, <1>10, <1>11

LEMMA FindKeyInv ==
    ASSUME IInv, NEW r \in Requests, FindKey(r)
    PROVE  IInv'
<1>1. PICK q : q = req[r]
  OBVIOUS
<1>2. PICK row : row = rows[q.target]
  OBVIOUS
<1>3. PICK on : on = [q EXCEPT !.row = row]
  OBVIOUS
<1>4. /\ stage[r] = "find"
      /\ UNCHANGED <<rows, initials, stored, adminLog, day, counted, mixed, begun, lost>>
      /\ \/ Done(r)
         \/ /\ LiveKey(q.target) /\ row.tenant = q.input.tenant /\ HasScope(row, q.input.scope)
            /\ To(r, "touch", on)
  BY <1>1, <1>2, <1>3 DEF FindKey
<1>5. SameData /\ Counters
  BY <1>4, CountersStay DEF SameData, adminLog
<1>6. Shaped(q) /\ OpFits("find", q)
  BY <1>1, <1>4, RequestFit
<1>7. row \in RowsOf(q.target) \cup {NoRow}
  BY <1>2, <1>6 DEF IInv, RowsTyped, Shaped
<1>8. /\ on.target = q.target /\ on.op = q.op /\ on.input = q.input /\ on.row = row
      /\ on.dead = q.dead /\ Shaped(on)
  BY <1>3, <1>6, <1>7, WithRow
<1>9. CASE Done(r)
  BY <1>5, <1>9, DoneInv
<1>10. CASE ~Done(r)
  <2>1. /\ LiveKey(q.target) /\ row.tenant = q.input.tenant /\ HasScope(row, q.input.scope)
        /\ To(r, "touch", on)
    BY <1>4, <1>10
  <2>2. ~Dead(q.target) /\ row # NoRow
    BY <1>2, <2>1 DEF LiveKey, Dead
  <2>3. OpFits("touch", on)
    BY <1>2, <1>6, <1>8, <2>1, <2>2 DEF OpFits, WrittenBack
  <2>4. on.op = "use"
    BY <1>6, <1>8 DEF OpFits, WrittenBack
  <2> QED
    BY <1>5, <1>8, <2>1, <2>3, <2>4, MoveOnly DEF RequestFits, Stages
<1> QED
  BY <1>9, <1>10

LEMMA TouchKeyInv ==
    ASSUME IInv, NEW r \in Requests, TouchKey(r)
    PROVE  IInv'
<1>1. PICK q : q = req[r]
  OBVIOUS
<1>2. /\ stage[r] = "touch" /\ To(r, "enqueue", q)
      /\ UNCHANGED <<rows, initials, stored, adminLog, day, counted, mixed, begun, lost>>
  BY <1>1 DEF TouchKey
<1>3. SameData /\ Counters
  BY <1>2, CountersStay DEF SameData, adminLog
<1>4. Shaped(q) /\ OpFits("touch", q)
  BY <1>1, <1>2, RequestFit
<1>5. OpFits("enqueue", q) /\ q.op = "use"
  BY <1>4 DEF OpFits, WrittenBack
<1> QED
  BY <1>2, <1>3, <1>4, <1>5, MoveOnly DEF RequestFits, Stages

LEMMA LoseInv ==
    ASSUME IInv, NEW r \in Requests, LoseRequest(r)
    PROVE  IInv'
<1>1. /\ stage[r] # "idle" /\ lost < MaxLost /\ Done(r) /\ lost' = lost + 1
      /\ mixed' = mixed \/ mixed' = mixed \cup {req[r].target}
      /\ UNCHANGED <<rows, initials, stored, adminLog, day, counted, begun>>
  BY DEF LoseRequest
<1>2. SameData
  BY <1>1 DEF SameData, adminLog
<1>3. lost' \in 0..MaxLost
  BY <1>1, AdministrationAssumption DEF IInv, RowsTyped
<1>4. req[r].target \in Targets
  BY <1>1, RequestFit DEF Shaped
<1>5. Counters
  BY <1>1, <1>3, <1>4 DEF IInv, RowsTyped, Counters
<1> QED
  BY <1>1, <1>2, <1>5, DoneInv

-----------------------------------------------------------------------------
(* Steps that write a record.                                                *)

\* What a write may leave in place of a record.
MayLeave(t, row) ==
    /\ row \in RowsOf(t) \cup {NoRow}
    /\ t \in Created /\ rows[t] # NoRow => row # NoRow
    /\ t \in ApiKeys /\ rows[t] # NoRow =>
          /\ row.by = rows[t].by /\ row.tenant = rows[t].tenant
          /\ row.scopes = rows[t].scopes /\ row.expires = rows[t].expires
          /\ rows[t].revoked # 0 => row.revoked # 0
    /\ t \in Patterns /\ row # NoRow /\ row.image # Unset => row.image \in stored

LEMMA RowWritten ==
    ASSUME IInv, NEW t \in Targets, NEW row, MayLeave(t, row), rows' = [rows EXCEPT ![t] = row],
           UNCHANGED <<initials, stored, audit, queued, day, counted>>, Counters
    PROVE  DataHold' /\ RowsStay
<1>1. /\ rows'[t] = row /\ \A u \in Targets \ {t} : rows'[u] = rows[u]
      /\ rows' = [u \in Targets |-> rows'[u]]
  BY DEF IInv, RowsTyped
<1>2. RowsTyped'
  <2>1. \A u \in Targets : rows'[u] \in RowsOf(u) \cup {NoRow}
    BY <1>1 DEF IInv, RowsTyped, MayLeave
  <2> QED
    BY <1>1, <2>1 DEF IInv, RowsTyped, Counters, RowsOf
<1>3. RowsStay
  <2>1. day \in Nat
    BY AdministrationAssumption DEF IInv, RowsTyped
  <2>2. \A u \in Created : rows[u] # NoRow => rows'[u] # NoRow
    BY <1>1 DEF MayLeave, Created, Targets
  <2>3. KeysStay
    BY <1>1 DEF KeysStay, MayLeave, Targets
  <2> QED
    BY <2>1, <2>2, <2>3 DEF RowsStay
<1>4. EntriesFit'
  BY DEF IInv, EntriesFit, Entries, AnyRow, RowsOf
<1>5. ImageIsStored'
  BY <1>1 DEF IInv, ImageIsStored, MayLeave, Targets
<1>6. QueuedAsGranted'
  <2>1. ASSUME NEW j \in queued
        PROVE  /\ rows'[j.key] # NoRow /\ j.by = rows'[j.key].by
               /\ j.tenant = rows'[j.key].tenant /\ HasScope(rows'[j.key], j.scope)
    <3>1. j.key \in ApiKeys
      BY DEF IInv, RowsTyped
    <3>2. /\ rows[j.key] # NoRow /\ j.by = rows[j.key].by
          /\ j.tenant = rows[j.key].tenant /\ HasScope(rows[j.key], j.scope)
      BY DEF IInv, QueuedAsGranted
    <3>3. /\ rows'[j.key].by = rows[j.key].by /\ rows'[j.key].tenant = rows[j.key].tenant
          /\ rows'[j.key].scopes = rows[j.key].scopes /\ rows'[j.key] # NoRow
      BY <1>3, <3>1, <3>2 DEF RowsStay, KeysStay, Created
    <3> QED
      BY <3>2, <3>3 DEF HasScope
  <2> QED
    BY <2>1 DEF QueuedAsGranted, HasScope
<1> QED
  BY <1>2, <1>3, <1>4, <1>5, <1>6 DEF DataHold

LEMMA WriteInv ==
    ASSUME IInv, NEW r \in Requests, stage[r] = "write",
           NEW s \in {"idle", "back", "audit"}, NEW q, To(r, s, q),
           NEW t, t = req[r].target, NEW row, MayLeave(t, row),
           rows' = [rows EXCEPT ![t] = row],
           UNCHANGED <<initials, stored, audit, queued, day, counted>>, Counters,
           t \notin Created \/ rows[t] # NoRow \/ req[r].op = "put",
           RequestFits(s, q)'
    PROVE  IInv'
<1>1. t \in Targets
  BY RequestFit DEF Shaped
<1>2. DataHold' /\ RowsStay
  BY <1>1, RowWritten
<1>3. OthersKept(r)
  <2>1. ASSUME NEW p \in Requests \ {r}, Putting(p)
        PROVE  rows'[req[p].target] = NoRow
    <3>1. rows[req[p].target] = NoRow
      BY <2>1, PutsFresh
    <3>2. req[p].target \in Targets /\ req[p].target \in Created
      BY <2>1, RequestFit DEF Putting, Shaped
    <3>3. req[p].target # t
      <4>1. SUFFICES ASSUME req[p].target = t PROVE FALSE
        OBVIOUS
      <4>2. req[r].op = "put"
        BY <3>1, <3>2, <4>1
      <4>3. Putting(r)
        BY <3>2, <4>1, <4>2 DEF Putting
      <4> QED
        BY <2>1, <4>1, <4>3 DEF IInv, OnePut
    <3> QED
      BY <3>1, <3>2, <3>3 DEF IInv, RowsTyped
  <2> QED
    BY <2>1 DEF OthersKept
<1> QED
  BY <1>2, <1>3, MoveInv

\* What each table's row becomes when it is put.
LEMMA PutRowIs ==
    ASSUME NEW t, NEW input
    PROVE  /\ t \in Tenants => PutRow(t, input) = TenantRow(input)
           /\ t = Signing => PutRow(t, input) = input
           /\ t \in Patterns => PutRow(t, input) = TemplateRow(t, input)
           /\ t \in Members => PutRow(t, input) = input
           /\ t \in Issuers => PutRow(t, input) = IssuerRow(t, input)
           /\ t \in Provisionings => PutRow(t, input) = input
           /\ t \in ApiKeys => PutRow(t, input) = ApiKeyRow(input)
<1>1. ASSUME t \in Tenants PROVE PutRow(t, input) = TenantRow(input)
  <2>1. /\ t \notin Members /\ t \notin Patterns /\ t \notin Issuers /\ t \notin Provisionings
        /\ t \notin ApiKeys /\ t # Signing
    BY <1>1, Apart DEF Created
  <2> QED
    BY <1>1, <2>1 DEF PutRow
<1>2. ASSUME t = Signing PROVE PutRow(t, input) = input
  <2>1. /\ t \notin Tenants /\ t \notin Members /\ t \notin Patterns /\ t \notin Issuers
        /\ t \notin Provisionings /\ t \notin ApiKeys
    BY <1>2, Apart DEF Created
  <2> QED
    BY <1>2, <2>1 DEF PutRow, SigningRow
<1>3. ASSUME t \in Patterns PROVE PutRow(t, input) = TemplateRow(t, input)
  <2>1. /\ t \notin Tenants /\ t \notin Members /\ t \notin Issuers /\ t \notin Provisionings
        /\ t \notin ApiKeys /\ t # Signing
    BY <1>3, Apart DEF Created
  <2> QED
    BY <1>3, <2>1 DEF PutRow
<1>4. ASSUME t \in Members PROVE PutRow(t, input) = input
  <2>1. /\ t \notin Tenants /\ t \notin Patterns /\ t \notin Issuers /\ t \notin Provisionings
        /\ t \notin ApiKeys /\ t # Signing
    BY <1>4, Apart DEF Created
  <2> QED
    BY <1>4, <2>1 DEF PutRow, RoleRow
<1>5. ASSUME t \in Issuers PROVE PutRow(t, input) = IssuerRow(t, input)
  <2>1. /\ t \notin Tenants /\ t \notin Members /\ t \notin Patterns /\ t \notin Provisionings
        /\ t \notin ApiKeys /\ t # Signing
    BY <1>5, Apart DEF Created
  <2> QED
    BY <1>5, <2>1 DEF PutRow
<1>6. ASSUME t \in Provisionings PROVE PutRow(t, input) = input
  <2>1. /\ t \notin Tenants /\ t \notin Members /\ t \notin Patterns /\ t \notin Issuers
        /\ t \notin ApiKeys /\ t # Signing
    BY <1>6, Apart DEF Created
  <2> QED
    BY <1>6, <2>1 DEF PutRow, ProvisioningRow
<1>7. ASSUME t \in ApiKeys PROVE PutRow(t, input) = ApiKeyRow(input)
  <2>1. /\ t \notin Tenants /\ t \notin Members /\ t \notin Patterns /\ t \notin Issuers
        /\ t \notin Provisionings /\ t # Signing
    BY <1>7, Apart DEF Created
  <2> QED
    BY <1>7, <2>1 DEF PutRow
<1> QED
  BY <1>1, <1>2, <1>3, <1>4, <1>5, <1>6, <1>7

LEMMA PutRowFits ==
    ASSUME IInv, NEW t \in Targets, NEW input \in InputsOf(t), NEW row, row = PutRow(t, input),
           t \in Created => rows[t] = NoRow
    PROVE  MayLeave(t, row) /\ row \in RowsOf(t)
<1>1. CASE t \in Tenants
  <2>1. row = [slug |-> input.slug,
               active |-> IF input.active = "unset" THEN "yes" ELSE input.active]
    BY <1>1, PutRowIs DEF TenantRow
  <2>2. input \in [slug: Slugs, active: YesNo \cup {"unset"}]
    BY <1>1, RowsAre
  <2>3. row \in [slug: Slugs, active: YesNo]
    BY <2>1, <2>2 DEF YesNo
  <2> QED
    BY <1>1, <2>3, RowsAre, Apart DEF MayLeave, Created
<1>2. CASE t = Signing
  <2>1. row = input /\ input \in RowsOf(t)
    BY <1>2, PutRowIs, RowsAre
  <2> QED
    BY <1>2, <2>1, Apart DEF MayLeave, Created
<1>3. CASE t \in Patterns
  <2>1. input \in [owner: Units \cup {Unset}] /\ rows[t] \in TemplateRows \cup {NoRow}
    BY <1>3, RowsAre DEF IInv, RowsTyped
  <2>2. InstitutionUnit \in Units
    BY AdministrationAssumption DEF InstitutionUnit
  <2>3. PICK o : o = IF rows[t] # NoRow THEN rows[t].owner
                     ELSE IF input.owner = Unset THEN InstitutionUnit ELSE input.owner
    OBVIOUS
  <2>4. o \in Units
    BY <2>1, <2>2, <2>3 DEF TemplateRows
  <2>5. row = [owner |-> o, archived |-> "no", image |-> Unset]
    BY <1>3, <2>3, PutRowIs DEF TemplateRow
  <2>6. row \in TemplateRows /\ row.image = Unset
    BY <2>4, <2>5 DEF TemplateRows, YesNo
  <2> QED
    BY <1>3, <2>6, RowsAre, Apart DEF MayLeave, Created
<1>4. CASE t \in Members
  <2>1. row = input /\ input \in RowsOf(t)
    BY <1>4, PutRowIs, RowsAre
  <2> QED
    BY <1>4, <2>1, Apart DEF MayLeave, Created
<1>5. CASE t \in Issuers
  <2>1. /\ input \in [tenant: Tenants, client: LtiClients, endpoint: Endpoints \cup {Unset}]
        /\ rows[t] \in [tenant: Tenants, client: LtiClients, endpoint: Endpoints \cup {Unset}]
                          \cup {NoRow}
    BY <1>5, RowsAre DEF IInv, RowsTyped
  <2>2. PICK e : e = IF input.endpoint = Unset /\ rows[t] # NoRow THEN rows[t].endpoint
                     ELSE input.endpoint
    OBVIOUS
  <2>3. e \in Endpoints \cup {Unset}
    BY <2>1, <2>2
  <2>4. row = [input EXCEPT !.endpoint = e]
    BY <1>5, <2>2, PutRowIs DEF IssuerRow
  <2>5. row \in [tenant: Tenants, client: LtiClients, endpoint: Endpoints \cup {Unset}]
    BY <2>1, <2>3, <2>4
  <2> QED
    BY <1>5, <2>5, RowsAre, Apart DEF MayLeave, Created
<1>6. CASE t \in Provisionings
  <2>1. row = input /\ input \in [status: {"pending"}] /\ rows[t] = NoRow
    BY <1>6, PutRowIs, RowsAre DEF Created
  <2>2. row \in RowsOf(t)
    <3>1. row \in [status: {"pending", "provisioned", "failed", "canceled"}]
      BY <2>1
    <3> QED
      BY <1>6, <3>1, RowsAre
  <2>3. t \notin Patterns /\ t \notin ApiKeys
    BY <1>6, Apart DEF Created
  <2> QED
    BY <2>1, <2>2, <2>3 DEF MayLeave
<1>7. CASE t \in ApiKeys
  <2>1. /\ row = [tenant |-> input.tenant, scopes |-> input.scopes, by |-> input.by,
                  expires |-> input.expires, revoked |-> 0]
        /\ input \in [tenant: Tenants, scopes: SUBSET Scopes, by: Members, expires: 0..MaxDay]
        /\ rows[t] = NoRow
    BY <1>7, PutRowIs, RowsAre DEF ApiKeyRow, Created
  <2>2. 0 \in 0..MaxDay + 1
    BY AdministrationAssumption
  <2>3. row \in KeyRows
    BY <2>1, <2>2 DEF KeyRows
  <2>4. row \in RowsOf(t)
    BY <1>7, <2>3, RowsAre
  <2> QED
    BY <1>7, <2>1, <2>4, Apart DEF MayLeave, Created
<1> QED
  BY <1>1, <1>2, <1>3, <1>4, <1>5, <1>6, <1>7 DEF Targets

LEMMA ShapedStays ==
    ASSUME NEW q, Shaped(q)
    PROVE  Shaped(q)'
  BY DEF Shaped, RowsOf

LEMMA WritePutInv ==
    ASSUME IInv, NEW r \in Requests, WritePut(r)
    PROVE  IInv'
<1>1. PICK q : q = req[r]
  OBVIOUS
<1>2. PICK t : t = q.target
  OBVIOUS
<1>3. PICK row : row = PutRow(t, q.input)
  OBVIOUS
<1>4. /\ stage[r] = "write" /\ q.op = "put"
      /\ UNCHANGED <<initials, stored, adminLog, day, counted, mixed, begun, lost>>
      /\ \/ Done(r) /\ UNCHANGED rows
         \/ rows' = [rows EXCEPT ![t] = row] /\ To(r, "back", q)
  BY <1>1, <1>2, <1>3 DEF WritePut
<1>5. Counters
  BY <1>4, CountersStay
<1>6. CASE Done(r) /\ UNCHANGED rows
  <2>1. SameData
    BY <1>4, <1>6 DEF SameData, adminLog
  <2> QED
    BY <1>5, <1>6, <2>1, DoneInv
<1>7. CASE rows' = [rows EXCEPT ![t] = row] /\ To(r, "back", q)
  <2>1. Shaped(q) /\ OpFits("write", q)
    BY <1>1, <1>4, RequestFit
  <2>2. t \in Targets /\ q.input \in InputsOf(t) /\ (t \in Created => rows[t] = NoRow)
    BY <1>2, <1>4, <2>1 DEF OpFits, Shaped
  <2>3. MayLeave(t, row)
    BY <1>3, <2>2, PutRowFits
  <2>4. OpFits("back", q)'
    BY <1>2, <1>4, <2>2 DEF OpFits, WrittenBack, InputsOf, RowsOf
  <2>5. RequestFits("back", q)'
    BY <2>1, <2>4, ShapedStays DEF RequestFits, Stages
  <2>6. UNCHANGED <<initials, stored, audit, queued, day, counted>>
    BY <1>4 DEF adminLog
  <2> QED
    BY <1>1, <1>2, <1>4, <1>5, <1>7, <2>3, <2>5, <2>6, WriteInv
<1> QED
  BY <1>4, <1>6, <1>7

LEMMA WriteTemplateInv ==
    ASSUME IInv, NEW r \in Requests, WriteTemplate(r)
    PROVE  IInv'
<1>1. PICK q : q = req[r]
  OBVIOUS
<1>2. PICK t : t = q.target
  OBVIOUS
<1>3. PICK shown, hidden : /\ shown = [rows[t] EXCEPT !.image = q.input]
                           /\ hidden = [rows[t] EXCEPT !.archived = IF q.op = "archive" THEN "yes"
                                                                    ELSE "no"]
  OBVIOUS
<1>4. PICK row : row = IF rows[t] = NoRow THEN NoRow ELSE IF q.op = "upload" THEN shown ELSE hidden
  OBVIOUS
<1>5. /\ stage[r] = "write" /\ q.op \in {"archive", "unarchive", "upload"} /\ To(r, "back", q)
      /\ UNCHANGED <<initials, stored, adminLog, day, counted, mixed, begun, lost>>
      /\ IF rows[t] = NoRow THEN rows' = rows ELSE rows' = [rows EXCEPT ![t] = row]
  BY <1>1, <1>2, <1>3, <1>4 DEF WriteTemplate
<1>6. Shaped(q) /\ OpFits("write", q)
  BY <1>1, <1>5, RequestFit
<1>7. t \in Patterns /\ t \in Targets /\ (q.op = "upload" => q.input \in stored) /\ t \notin Created
  BY <1>2, <1>5, <1>6, Apart DEF OpFits, Targets
<1>8. rows' = [rows EXCEPT ![t] = row]
  <2>1. CASE rows[t] = NoRow
    <3>1. rows' = rows /\ row = rows[t]
      BY <1>4, <1>5, <2>1
    <3> QED
      BY <1>7, <3>1 DEF IInv, RowsTyped
  <2> QED
    BY <1>5, <2>1
<1>9. MayLeave(t, row)
  <2>1. CASE rows[t] = NoRow
    BY <1>4, <1>7, <2>1, Apart DEF MayLeave, Created
  <2>2. CASE rows[t] # NoRow
    <3>1. rows[t] \in TemplateRows
      BY <1>7, <2>2, RowsAre DEF IInv, RowsTyped
    <3>2. stored \subseteq Assets
      BY DEF IInv, RowsTyped
    <3>3. CASE q.op = "upload"
      <4>1. row = shown /\ q.input \in stored
        BY <1>4, <1>7, <2>2, <3>3
      <4>2. row \in TemplateRows /\ row.image = q.input
        BY <1>3, <3>1, <3>2, <4>1 DEF TemplateRows
      <4> QED
        BY <1>7, <2>2, <4>1, <4>2, RowsAre, Apart DEF MayLeave, Created
    <3>4. CASE q.op # "upload"
      <4>1. row = hidden
        BY <1>4, <2>2, <3>4
      <4>2. row \in TemplateRows /\ row.image = rows[t].image
        BY <1>3, <3>1, <4>1 DEF TemplateRows, YesNo
      <4>3. rows[t].image # Unset => rows[t].image \in stored
        BY <1>7, <2>2 DEF IInv, ImageIsStored
      <4> QED
        BY <1>7, <2>2, <4>2, <4>3, RowsAre, Apart DEF MayLeave, Created
    <3> QED
      BY <3>3, <3>4
  <2> QED
    BY <2>1, <2>2
<1>10. RequestFits("back", q)'
  <2>1. OpFits("back", q)'
    BY <1>2, <1>5, <1>7 DEF OpFits
  <2> QED
    BY <1>6, <2>1, ShapedStays DEF RequestFits, Stages
<1>11. UNCHANGED <<initials, stored, audit, queued, day, counted>> /\ Counters
  BY <1>5, CountersStay DEF adminLog
<1> QED
  BY <1>1, <1>2, <1>5, <1>7, <1>8, <1>9, <1>10, <1>11, WriteInv

\* What the UPDATE or DELETE of each operation leaves, when it finds its row.
LEMMA LeftIs ==
    ASSUME IInv, NEW r \in Requests, stage[r] = "write",
           req[r].op \in {"resolve", "revoke", "delete"},
           NEW t, t = req[r].target, NEW row \in Left(t, req[r].op, req[r].input)
    PROVE  /\ t \in Targets /\ rows[t] # NoRow /\ MayLeave(t, row)
           /\ t \in Provisionings => rows[t].status = "pending"
           /\ t \in ApiKeys => rows[t].revoked = 0
<1>1. PICK q : q = req[r]
  OBVIOUS
<1>2. Shaped(q) /\ OpFits("write", q) /\ q.op \in {"resolve", "revoke", "delete"}
  BY <1>1, RequestFit
<1>3. rows[t] # NoRow /\ t \in Targets
  BY <1>1, <1>2 DEF Left, Shaped
<1>4. CASE q.op = "resolve"
  <2>1. t \in Provisionings /\ q.input \in [status: {"provisioned", "failed", "canceled"}]
    BY <1>1, <1>2, <1>4 DEF OpFits
  <2>2. row \in Resolved(rows[t], q.input)
    BY <1>1, <1>3, <1>4 DEF Left
  <2>3. rows[t].status = "pending" /\ row = [status |-> q.input.status]
    BY <2>2 DEF Resolved
  <2>4. row \in RowsOf(t)
    BY <2>1, <2>3, RowsAre
  <2>5. t \notin ApiKeys /\ t \notin Patterns /\ row # NoRow
    BY <1>3, <2>1, <2>4, Apart, NoRowAssumption DEF Created
  <2> QED
    BY <1>3, <2>3, <2>4, <2>5 DEF MayLeave
<1>5. CASE q.op = "revoke"
  <2>1. t \in ApiKeys /\ q.input \in [revoked: 1..MaxDay + 1]
    BY <1>1, <1>2, <1>5 DEF OpFits
  <2>2. row \in Revoked(rows[t], q.input)
    BY <1>1, <1>3, <1>5 DEF Left
  <2>3. rows[t].revoked = 0 /\ row = [rows[t] EXCEPT !.revoked = q.input.revoked]
    BY <2>2 DEF Revoked
  <2>4. rows[t] \in KeyRows
    BY <1>3, <2>1, KeyRow DEF IInv
  <2>5. q.input.revoked \in 0..MaxDay + 1
    BY <2>1, AdministrationAssumption
  <2>6. /\ row \in KeyRows /\ row.by = rows[t].by /\ row.tenant = rows[t].tenant
        /\ row.scopes = rows[t].scopes /\ row.expires = rows[t].expires
    BY <2>3, <2>4, <2>5 DEF KeyRows
  <2>7. row \in RowsOf(t)
    BY <2>1, <2>6, RowsAre
  <2>8. t \notin Provisionings /\ t \notin Patterns /\ row # NoRow
    BY <1>3, <2>1, <2>7, Apart, NoRowAssumption DEF Created
  <2> QED
    BY <1>3, <2>3, <2>6, <2>7, <2>8 DEF MayLeave
<1>6. CASE q.op = "delete"
  <2>1. t \in Issuers
    BY <1>1, <1>2, <1>6 DEF OpFits
  <2>2. row = NoRow
    BY <1>1, <1>3, <1>6 DEF Left, Deleted
  <2>3. t \notin Created /\ t \notin Patterns
    BY <2>1, Apart
  <2> QED
    BY <1>3, <2>2, <2>3 DEF MayLeave, Created
<1> QED
  BY <1>2, <1>4, <1>5, <1>6

LEMMA WriteEndInv ==
    ASSUME IInv, NEW r \in Requests, WriteEnd(r)
    PROVE  IInv'
<1>1. PICK q : q = req[r]
  OBVIOUS
<1>2. PICK t : t = q.target
  OBVIOUS
<1>3. PICK left : left = Left(t, q.op, q.input)
  OBVIOUS
<1>4. PICK row : row = rows'[t]
  OBVIOUS
<1>5. PICK on : on = [q EXCEPT !.row = row]
  OBVIOUS
<1>6. PICK next : next = IF ~(Reported(Cardinality(left)) > 0) \/ (q.op = "delete" /\ q.seen = NoRow)
                         THEN "idle" ELSE IF q.op = "resolve" THEN "back" ELSE "audit"
  OBVIOUS
<1>7. /\ stage[r] = "write" /\ q.op \in {"resolve", "revoke", "delete"}
      /\ rows' \in IF left = {} THEN {rows} ELSE {[rows EXCEPT ![t] = x] : x \in left}
      /\ To(r, next, IF next = "idle" THEN Idle ELSE on)
      /\ mixed' = mixed \/ mixed' = mixed \cup {t}
      /\ UNCHANGED <<initials, stored, adminLog, day, counted, begun, lost>>
  BY <1>1, <1>2, <1>3, <1>4, <1>5, <1>6 DEF WriteEnd
<1>8. Shaped(q) /\ OpFits("write", q) /\ t \in Targets
  BY <1>1, <1>2, <1>7, RequestFit DEF Shaped
<1>9. Counters
  BY <1>7, <1>8 DEF Counters, IInv, RowsTyped
<1>10. rows' = [rows EXCEPT ![t] = row] /\ MayLeave(t, row)
  <2>1. CASE left = {}
    <3>1. rows' = rows /\ row = rows[t]
      BY <1>4, <1>7, <2>1
    <3>2. rows' = [rows EXCEPT ![t] = row]
      BY <1>8, <3>1 DEF IInv, RowsTyped
    <3>3. t \in Patterns /\ rows[t] # NoRow /\ rows[t].image # Unset => rows[t].image \in stored
      BY DEF IInv, ImageIsStored
    <3> QED
      BY <1>8, <3>1, <3>2, <3>3 DEF MayLeave, IInv, RowsTyped
  <2>2. CASE left # {}
    <3>1. PICK x \in left : rows' = [rows EXCEPT ![t] = x]
      BY <1>7, <2>2
    <3>2. x = row
      BY <1>4, <1>8, <3>1 DEF IInv, RowsTyped
    <3> QED
      BY <1>1, <1>2, <1>3, <1>7, <3>1, <3>2, LeftIs
  <2> QED
    BY <2>1, <2>2
<1>11. row \in RowsOf(t) \cup {NoRow} /\ rows'[t] = row
  BY <1>4, <1>10 DEF MayLeave
<1>12. /\ on.target = q.target /\ on.op = q.op /\ on.input = q.input /\ Shaped(on)
       /\ on.dead = q.dead
  BY <1>2, <1>5, <1>8, <1>11, WithRow
<1>13. UNCHANGED <<initials, stored, audit, queued, day, counted>>
  BY <1>7 DEF adminLog
<1>14. t \notin Created \/ rows[t] # NoRow
  BY <1>2, <1>7, <1>8, Apart DEF OpFits
<1>15. CASE next = "idle"
  <2>1. RequestFits(next, Idle)' /\ To(r, next, Idle)
    BY <1>7, <1>15 DEF RequestFits
  <2> QED
    BY <1>1, <1>2, <1>7, <1>9, <1>10, <1>13, <1>14, <1>15, <2>1, WriteInv
<1>16. CASE next \in {"back", "audit"} /\ (next = "back" => q.op = "resolve")
  <2>1. rows[t] # NoRow /\ t \in Created => rows'[t] # NoRow
    BY <1>10, <1>11 DEF MayLeave
  <2>2. OpFits(next, on)'
    <3>1. CASE q.op = "resolve"
      <4>1. t \in Provisionings /\ t \in Created /\ rows[t] # NoRow
            /\ q.input \in [status: {"provisioned", "failed", "canceled"}]
        BY <1>2, <1>8, <3>1 DEF OpFits, Created
      <4> QED
        BY <1>2, <1>12, <1>16, <2>1, <3>1, <4>1 DEF OpFits
    <3>2. CASE q.op = "revoke"
      <4>1. t \in ApiKeys /\ t \in Created /\ rows[t] # NoRow /\ q.input \in [revoked: 1..MaxDay + 1]
        BY <1>2, <1>8, <3>2 DEF OpFits, Created
      <4> QED
        BY <1>2, <1>12, <1>16, <2>1, <3>2, <4>1 DEF OpFits
    <3>3. CASE q.op = "delete"
      <4>1. t \in Issuers
        BY <1>2, <1>8, <3>3 DEF OpFits
      <4> QED
        BY <1>2, <1>12, <1>16, <3>3, <4>1 DEF OpFits
    <3> QED
      BY <1>7, <3>1, <3>2, <3>3
  <2>3. RequestFits(next, on)'
    BY <1>12, <1>16, <2>2, ShapedStays DEF RequestFits, Stages
  <2>4. To(r, next, on)
    BY <1>7, <1>16
  <2> QED
    BY <1>1, <1>2, <1>7, <1>9, <1>10, <1>13, <1>14, <1>16, <2>3, <2>4, WriteInv
<1> QED
  BY <1>6, <1>15, <1>16

-----------------------------------------------------------------------------
(* Steps that add to the logs, the object store and the queue.               *)

LEMMA StoreImageInv ==
    ASSUME IInv, NEW r \in Requests, StoreImage(r)
    PROVE  IInv'
<1>1. PICK q : q = req[r]
  OBVIOUS
<1>2. PICK a \in Assets : /\ stored' = stored \cup {a}
                          /\ To(r, "write", [q EXCEPT !.input = a])
  BY <1>1 DEF StoreImage
<1>3. PICK o : o = [q EXCEPT !.input = a]
  OBVIOUS
<1>4. /\ stage[r] = "store" /\ To(r, "write", o)
      /\ UNCHANGED <<rows, initials, adminLog, day, counted, mixed, begun, lost>>
  BY <1>1, <1>2, <1>3 DEF StoreImage
<1>5. Shaped(q) /\ OpFits("store", q)
  BY <1>1, <1>4, RequestFit
<1>6. /\ o.target = q.target /\ o.op = q.op /\ o.input = a /\ o.dead = q.dead /\ Shaped(o)
  BY <1>3, <1>5, WithInput
<1>7. q.op = "upload" /\ q.target \in Patterns
  BY <1>5 DEF OpFits, WrittenBack
<1>8. DataHold'
  <2>1. RowsTyped'
    BY <1>2, <1>4, CountersStay DEF IInv, RowsTyped, Counters, RowsOf, adminLog
  <2>2. EntriesFit' /\ ImageIsStored' /\ QueuedAsGranted'
    BY <1>2, <1>4 DEF IInv, EntriesFit, ImageIsStored, QueuedAsGranted, HasScope, Entries, AnyRow,
                      RowsOf, adminLog
  <2> QED
    BY <2>1, <2>2 DEF DataHold
<1>9. RowsStay
  <2>1. day \in Nat
    BY AdministrationAssumption DEF IInv, RowsTyped
  <2> QED
    BY <1>2, <1>4, <2>1 DEF RowsStay, KeysStay
<1>10. OthersKept(r)
  BY <1>4, PutsFresh DEF OthersKept
<1>11. OpFits("write", o)'
  BY <1>2, <1>6, <1>7 DEF OpFits
<1>12. RequestFits("write", o)'
  BY <1>6, <1>11, ShapedStays DEF RequestFits, Stages
<1> QED
  BY <1>4, <1>6, <1>7, <1>8, <1>9, <1>10, <1>12, MoveInv

LEMMA RecordInitialOwnerInv ==
    ASSUME IInv, NEW r \in Requests, RecordInitialOwner(r)
    PROVE  IInv'
<1>1. PICK q : q = req[r]
  OBVIOUS
<1>2. /\ stage[r] = "initial" /\ To(r, "audit", q)
      /\ initials' = [initials EXCEPT ![q.target] = Append(initials[q.target], q.row.owner)]
      /\ UNCHANGED <<rows, stored, adminLog, day, counted, mixed, begun, lost>>
  BY <1>1 DEF RecordInitialOwner
<1>3. Shaped(q) /\ OpFits("initial", q)
  BY <1>1, <1>2, RequestFit
<1>4. q.op = "put" /\ q.input \in InputsOf(q.target) /\ q.target \in Patterns /\ q.row # NoRow
  BY <1>3 DEF OpFits, WrittenBack
<1>5. q.row.owner \in Units
  <2>1. q.row \in TemplateRows
    BY <1>3, <1>4, RowsAre DEF Shaped
  <2> QED
    BY <2>1 DEF TemplateRows
<1>6. initials' \in [Patterns -> Seq(Units)]
  <2>1. initials \in [Patterns -> Seq(Units)]
    BY DEF IInv, RowsTyped
  <2>2. Append(initials[q.target], q.row.owner) \in Seq(Units)
    BY <1>4, <1>5, <2>1
  <2> QED
    BY <1>2, <2>1, <2>2
<1>7. DataHold'
  <2>1. RowsTyped'
    BY <1>2, <1>6, CountersStay DEF IInv, RowsTyped, Counters, RowsOf, adminLog
  <2>2. EntriesFit' /\ ImageIsStored' /\ QueuedAsGranted'
    BY <1>2 DEF IInv, EntriesFit, ImageIsStored, QueuedAsGranted, HasScope, Entries, AnyRow,
                RowsOf, adminLog
  <2> QED
    BY <2>1, <2>2 DEF DataHold
<1>8. RowsStay
  <2>1. day \in Nat
    BY AdministrationAssumption DEF IInv, RowsTyped
  <2> QED
    BY <1>2, <2>1 DEF RowsStay, KeysStay
<1>9. OthersKept(r)
  BY <1>2, PutsFresh DEF OthersKept
<1>10. OpFits("audit", q)'
  BY <1>4 DEF OpFits, WrittenBack, InputsOf, RowsOf
<1>11. RequestFits("audit", q)'
  BY <1>3, <1>10, ShapedStays DEF RequestFits, Stages
<1> QED
  BY <1>2, <1>7, <1>8, <1>9, <1>11, MoveInv

LEMMA AnyRowIs ==
    ASSUME NEW t \in Targets, NEW x \in RowsOf(t) \cup {NoRow}
    PROVE  x \in AnyRow
<1>1. RowsOf(t) \in {RowsOf(u) : u \in Targets}
  OBVIOUS
<1> QED
  BY <1>1 DEF AnyRow

LEMMA WriteAuditInv ==
    ASSUME IInv, NEW r \in Requests, WriteAudit(r)
    PROVE  IInv'
<1>1. PICK q : q = req[r]
  OBVIOUS
<1>2. PICK e : e = [target |-> q.target, op |-> q.op, before |-> q.seen, row |-> q.row]
  OBVIOUS
<1>3. /\ stage[r] = "audit" /\ Done(r) /\ audit' = Append(audit, e)
      /\ UNCHANGED <<rows, initials, stored, queued, day, counted, mixed, begun, lost>>
  BY <1>1, <1>2 DEF WriteAudit, EntryOf
<1>4. Shaped(q)
  BY <1>1, <1>3, RequestFit
<1>5. e \in Entries /\ e.target = q.target /\ e.row = q.row
  <2>1. q.seen \in AnyRow /\ q.row \in AnyRow
    BY <1>4, AnyRowIs DEF Shaped
  <2> QED
    BY <1>2, <1>4, <2>1 DEF Entries, Shaped
<1>6. EntriesFit'
  <2>1. audit \in Seq(Entries) /\ \A i \in DOMAIN audit : audit[i].row \in RowsOf(audit[i].target) \cup {NoRow}
    BY DEF IInv, EntriesFit
  <2>2. audit' \in Seq(Entries)
    BY <1>3, <1>5, <2>1
  <2>3. ASSUME NEW i \in DOMAIN audit'
        PROVE  audit'[i].row \in RowsOf(audit'[i].target) \cup {NoRow}
    <3>1. CASE i \in DOMAIN audit
      <4>1. audit'[i] = audit[i]
        BY <1>3, <1>5, <2>1, <3>1
      <4> QED
        BY <2>1, <3>1, <4>1
    <3>2. CASE i \notin DOMAIN audit
      <4>1. audit'[i] = e
        BY <1>3, <1>5, <2>1, <3>2
      <4> QED
        BY <1>4, <1>5, <4>1 DEF Shaped
    <3> QED
      BY <3>1, <3>2
  <2> QED
    BY <2>2, <2>3 DEF EntriesFit, Entries, AnyRow, RowsOf
<1>7. DataHold'
  <2>1. RowsTyped'
    BY <1>3, CountersStay DEF IInv, RowsTyped, Counters, RowsOf
  <2>2. ImageIsStored' /\ QueuedAsGranted'
    BY <1>3 DEF IInv, ImageIsStored, QueuedAsGranted, HasScope
  <2> QED
    BY <1>6, <2>1, <2>2 DEF DataHold
<1>8. RowsStay
  <2>1. day \in Nat
    BY AdministrationAssumption DEF IInv, RowsTyped
  <2> QED
    BY <1>3, <2>1 DEF RowsStay, KeysStay
<1>9. OthersKept(r)
  BY <1>3, PutsFresh DEF OthersKept
<1>10. To(r, "idle", Idle) /\ RequestFits("idle", Idle)'
  BY <1>3 DEF Done, RequestFits
<1> QED
  BY <1>7, <1>8, <1>9, <1>10, MoveInv

LEMMA EnqueueInv ==
    ASSUME IInv, NEW r \in Requests, EnqueueWithKey(r)
    PROVE  IInv'
<1>1. PICK q : q = req[r]
  OBVIOUS
<1>2. PICK j : j = [key |-> q.target, tenant |-> q.input.tenant, scope |-> q.input.scope,
                    by |-> q.row.by]
  OBVIOUS
<1>3. /\ stage[r] = "enqueue" /\ Done(r) /\ queued' = queued \cup {j}
      /\ UNCHANGED <<rows, initials, stored, audit, day, counted, mixed, begun, lost>>
  BY <1>1, <1>2 DEF EnqueueWithKey
<1>4. Shaped(q) /\ OpFits("enqueue", q)
  BY <1>1, <1>3, RequestFit
<1>5. /\ q.target \in ApiKeys /\ q.input \in [tenant: Tenants, scope: Scopes]
      /\ rows[q.target] # NoRow /\ q.row # NoRow /\ q.row.by = rows[q.target].by
      /\ q.input.tenant = rows[q.target].tenant /\ HasScope(rows[q.target], q.input.scope)
  BY <1>4 DEF OpFits, WrittenBack
<1>6. q.row.by \in Members
  <2>1. q.row \in KeyRows
    BY <1>4, <1>5, RowsAre DEF Shaped
  <2> QED
    BY <2>1 DEF KeyRows
<1>7. /\ j \in [key: ApiKeys, tenant: Tenants, scope: Scopes, by: Members]
      /\ j.key = q.target /\ j.tenant = q.input.tenant /\ j.scope = q.input.scope /\ j.by = q.row.by
  BY <1>2, <1>5, <1>6
<1>8. DataHold'
  <2>1. RowsTyped'
    BY <1>3, <1>7, CountersStay DEF IInv, RowsTyped, Counters, RowsOf
  <2>2. EntriesFit' /\ ImageIsStored'
    BY <1>3 DEF IInv, EntriesFit, ImageIsStored, Entries, AnyRow, RowsOf
  <2>3. QueuedAsGranted'
    BY <1>3, <1>5, <1>7 DEF IInv, QueuedAsGranted, HasScope
  <2> QED
    BY <2>1, <2>2, <2>3 DEF DataHold
<1>9. RowsStay
  <2>1. day \in Nat
    BY AdministrationAssumption DEF IInv, RowsTyped
  <2> QED
    BY <1>3, <2>1 DEF RowsStay, KeysStay
<1>10. OthersKept(r)
  BY <1>3, PutsFresh DEF OthersKept
<1>11. To(r, "idle", Idle) /\ RequestFits("idle", Idle)'
  BY <1>3 DEF Done, RequestFits
<1> QED
  BY <1>8, <1>9, <1>10, <1>11, MoveInv

LEMMA NextDayInv ==
    ASSUME IInv, NextDay
    PROVE  IInv'
<1>1. /\ day < MaxDay /\ day' = day + 1
      /\ UNCHANGED <<rows, initials, stored, audit, queued, stage, req, counted, mixed, begun, lost>>
  BY DEF NextDay, adminLog
<1>2. day \in 0..MaxDay /\ MaxDay \in Nat
  BY AdministrationAssumption DEF IInv, RowsTyped
<1>3. day' \in 0..MaxDay /\ day \in Nat /\ day' \in Nat /\ day <= day'
  BY <1>1, <1>2
<1>4. RowsTyped'
  BY <1>1, <1>3 DEF IInv, RowsTyped, RowsOf
<1>5. EntriesFit' /\ ImageIsStored' /\ QueuedAsGranted' /\ OnePut'
  BY <1>1 DEF IInv, EntriesFit, ImageIsStored, QueuedAsGranted, HasScope, Entries, AnyRow, RowsOf,
              OnePut, Putting
<1>6. RowsStay
  BY <1>1, <1>3 DEF RowsStay, KeysStay
<1>7. ASSUME NEW p \in Requests PROVE RequestFits(stage[p], req[p])'
  <2>1. PICK s, q : s = stage[p] /\ q = req[p]
    OBVIOUS
  <2>2. RequestFits(s, q)
    BY <2>1 DEF IInv, RequestsFit
  <2>3. s = "write" /\ q.op = "put" /\ q.target \in Created => rows'[q.target] = NoRow
    BY <1>1, <2>1, PutsFresh DEF Putting
  <2>4. RequestFits(s, q)'
    BY <1>6, <2>2, <2>3, RequestStays DEF IInv
  <2>5. stage'[p] = s /\ req'[p] = q
    BY <1>1, <2>1
  <2> QED
    BY <2>4, <2>5, ZenonT(60) DEF RequestFits, Shaped, OpFits, RowsOf, InputsOf
<1>8. RequestsFit'
  BY <1>1, <1>7 DEF IInv, RequestsFit
<1> QED
  BY <1>4, <1>5, <1>8 DEF IInv

-----------------------------------------------------------------------------
(* The invariant holds, and what follows from it.                            *)

LEMMA InitInv ==
    ASSUME AdminInit
    PROVE  IInv
<1>1. RowsTyped
  BY AdministrationAssumption DEF AdminInit, RowsTyped
<1>2. EntriesFit
  BY DEF AdminInit, EntriesFit
<1>3. RequestsFit
  BY DEF AdminInit, RequestsFit, RequestFits
<1>4. OnePut
  BY DEF AdminInit, OnePut, Putting
<1>5. ImageIsStored
  BY DEF AdminInit, ImageIsStored, Targets
<1>6. QueuedAsGranted
  BY DEF AdminInit, QueuedAsGranted
<1> QED
  BY <1>1, <1>2, <1>3, <1>4, <1>5, <1>6 DEF IInv

LEMMA StutterInv ==
    ASSUME IInv, UNCHANGED adminVars
    PROVE  IInv'
<1>1. UNCHANGED <<rows, initials, stored, audit, queued, day, stage, req, counted, mixed, begun, lost>>
  BY DEF adminVars, adminLog
<1>2. RowsTyped' /\ EntriesFit' /\ ImageIsStored' /\ QueuedAsGranted' /\ OnePut'
  BY <1>1 DEF IInv, RowsTyped, EntriesFit, ImageIsStored, QueuedAsGranted, HasScope, Entries, AnyRow,
              RowsOf, OnePut, Putting
<1>3. RequestsFit'
  <2>1. ASSUME NEW p \in Requests PROVE RequestFits(stage[p], req[p])'
    <3>1. PICK s, q : s = stage[p] /\ q = req[p]
      OBVIOUS
    <3>2. RequestFits(s, q)'
      BY <1>1, <3>1, StillFits DEF IInv, RequestsFit
    <3>3. stage'[p] = s /\ req'[p] = q
      BY <1>1, <3>1
    <3> QED
      BY <3>2, <3>3, ZenonT(60) DEF RequestFits, Shaped, OpFits, RowsOf, InputsOf
  <2> QED
    BY <1>1, <2>1 DEF IInv, RequestsFit
<1> QED
  BY <1>2, <1>3 DEF IInv

LEMMA NextInv ==
    ASSUME IInv, AdminNext
    PROVE  IInv'
<1>1. CASE NextDay
  BY <1>1, NextDayInv
<1>2. CASE ListRecords
  BY <1>2, StutterInv DEF ListRecords
<1>3. ASSUME NEW r \in Requests, RequestStep(r)
      PROVE  IInv'
  <2>1. CASE \/ PutTenant(r) \/ PutSigningRegistration(r) \/ PutTemplate(r) \/ PutRole(r)
             \/ PutIssuer(r) \/ PutIssuerByForm(r) \/ RequestDedicatedDb(r) \/ CreateApiKey(r)
    BY <2>1, PutsInv
  <2>2. CASE \/ DeleteIssuer(r) \/ DeleteIssuerByForm(r) \/ ResolveDedicatedDb(r) \/ RevokeApiKey(r)
             \/ Archive(r) \/ Unarchive(r) \/ UploadImage(r) \/ QueueWithKey(r)
    BY <2>2, BeginsInv
  <2>3. CASE ReadPrevious(r) \/ ReadBack(r) \/ FindKey(r) \/ TouchKey(r) \/ LoseRequest(r)
    BY <2>3, ReadPreviousInv, ReadBackInv, FindKeyInv, TouchKeyInv, LoseInv
  <2>4. CASE WritePut(r) \/ WriteTemplate(r) \/ WriteEnd(r)
    BY <2>4, WritePutInv, WriteTemplateInv, WriteEndInv
  <2>5. CASE StoreImage(r) \/ RecordInitialOwner(r) \/ WriteAudit(r) \/ EnqueueWithKey(r)
    BY <2>5, StoreImageInv, RecordInitialOwnerInv, WriteAuditInv, EnqueueInv
  <2> QED
    BY <1>3, <2>1, <2>2, <2>3, <2>4, <2>5 DEF RequestStep
<1> QED
  BY <1>1, <1>2, <1>3 DEF AdminNext

\* Every record, log entry and queued job is of its table, each request holds what its next
\* step needs, and an id that is being put for the first time is put by one request.
THEOREM Invariance == AdminSpec => []IInv
<1>1. AdminInit => IInv
  BY InitInv
<1>2. IInv /\ [AdminNext]_adminVars => IInv'
  BY NextInv, StutterInv
<1> QED
  BY <1>1, <1>2, PTL DEF AdminSpec

\* A template that shows an image shows one that was stored; a call with a key that was
\* revoked or had expired queues nothing, and a queued job is of the key's tenant, scopes and
\* owner (badge-template-routes.ts's upload, findActiveTenantApiKeyByHash, queue-routes.ts).
THEOREM ReferredIsThere == AdminSpec => []UsedWhileThere
<1>1. IInv => UsedWhileThere
  <2> SUFFICES ASSUME IInv PROVE UsedWhileThere
    OBVIOUS
  <2>1. ASSUME NEW i \in DOMAIN audit
        PROVE  /\ audit[i].target \in Targets /\ audit[i].op \in Ops
               /\ audit[i].row \in RowsOf(audit[i].target) \cup {NoRow}
    <3>1. audit[i] \in Entries
      BY DEF IInv, EntriesFit
    <3> QED
      BY <3>1 DEF IInv, EntriesFit, Entries
  <2>2. stage \in [Requests -> Stages]
    BY DEF IInv, RequestsFit, RequestFits, Stages
  <2>3. AdminTypeOK
    BY <2>1, <2>2 DEF AdminTypeOK, IInv, RowsTyped
  <2>4. ASSUME NEW r \in Requests, req[r].op = "use", req[r].dead
        PROVE  stage[r] = "find"
    <3>1. CASE stage[r] = "idle"
      BY <2>4, <3>1 DEF IInv, RequestsFit, RequestFits, Idle
    <3>2. CASE stage[r] # "idle"
      BY <2>4, <3>2, RequestFit DEF OpFits, WrittenBack
    <3> QED
      BY <3>1, <3>2
  <2>5. OnlyLiveKeysQueue
    BY <2>4 DEF OnlyLiveKeysQueue, IInv, QueuedAsGranted
  <2> QED
    BY <2>3, <2>5 DEF UsedWhileThere, IInv
<1> QED
  BY <1>1, Invariance, PTL

-----------------------------------------------------------------------------
(* What has ended does not change.                                           *)

EndedKept ==
    /\ \A p \in Provisionings : rows[p] # NoRow /\ rows[p].status # "pending"
                                  => rows'[p] = rows[p]
    /\ \A k \in ApiKeys : rows[k] # NoRow /\ rows[k].revoked # 0 => rows'[k] = rows[k]

LEMMA WritePutKeeps ==
    ASSUME IInv, NEW r \in Requests, WritePut(r)
    PROVE  EndedKept
<1>1. PICK t : t = req[r].target
  OBVIOUS
<1>2. PICK row : row = PutRow(t, req[r].input)
  OBVIOUS
<1>3. /\ stage[r] = "write" /\ req[r].op = "put"
      /\ rows' = rows \/ rows' = [rows EXCEPT ![t] = row]
  BY <1>1, <1>2 DEF WritePut
<1>4. t \in Created => rows[t] = NoRow
  BY <1>1, <1>3, PutsFresh DEF Putting
<1>5. \A u \in Created : rows[u] # NoRow => rows'[u] = rows[u]
  BY <1>3, <1>4 DEF IInv, RowsTyped, Created, Targets
<1> QED
  BY <1>5 DEF EndedKept, Created

LEMMA WriteTemplateKeeps ==
    ASSUME IInv, NEW r \in Requests, WriteTemplate(r)
    PROVE  EndedKept
<1>1. PICK t : t = req[r].target
  OBVIOUS
<1>2. /\ stage[r] = "write" /\ req[r].op \in {"archive", "unarchive", "upload"}
      /\ rows' = rows \/ \E row : rows' = [rows EXCEPT ![t] = row]
  BY <1>1 DEF WriteTemplate
<1>3. t \in Patterns
  BY <1>1, <1>2, RequestFit DEF OpFits
<1>4. \A u \in Created : u # t
  BY <1>3, Apart
<1>5. \A u \in Created : rows'[u] = rows[u]
  BY <1>2, <1>4 DEF IInv, RowsTyped, Created, Targets
<1> QED
  BY <1>5 DEF EndedKept, Created

LEMMA WriteEndKeeps ==
    ASSUME IInv, NEW r \in Requests, WriteEnd(r)
    PROVE  EndedKept
<1>1. PICK t : t = req[r].target
  OBVIOUS
<1>2. PICK left : left = Left(t, req[r].op, req[r].input)
  OBVIOUS
<1>3. /\ stage[r] = "write" /\ req[r].op \in {"resolve", "revoke", "delete"}
      /\ rows' \in IF left = {} THEN {rows} ELSE {[rows EXCEPT ![t] = x] : x \in left}
  BY <1>1, <1>2 DEF WriteEnd
<1>4. CASE left = {}
  BY <1>3, <1>4 DEF EndedKept
<1>5. CASE left # {}
  <2>1. PICK x \in left : rows' = [rows EXCEPT ![t] = x]
    BY <1>3, <1>5
  <2>2. /\ t \in Provisionings => rows[t].status = "pending"
        /\ t \in ApiKeys => rows[t].revoked = 0
    BY <1>1, <1>2, <1>3, <2>1, LeftIs
  <2>3. \A u \in Created : u # t => rows'[u] = rows[u]
    BY <2>1 DEF IInv, RowsTyped, Created, Targets
  <2> QED
    BY <2>2, <2>3 DEF EndedKept, Created
<1> QED
  BY <1>4, <1>5

LEMMA OthersKeep ==
    ASSUME AdminNext,
           \A r \in Requests : ~WritePut(r) /\ ~WriteTemplate(r) /\ ~WriteEnd(r)
    PROVE  EndedKept
<1>1. rows' = rows
  <2>1. CASE NextDay \/ ListRecords
    BY <2>1 DEF NextDay, ListRecords, adminVars
  <2>2. ASSUME NEW r \in Requests, RequestStep(r)
        PROVE  rows' = rows
    <3>1. CASE \/ PutTenant(r) \/ PutSigningRegistration(r) \/ PutTemplate(r) \/ PutRole(r)
               \/ PutIssuer(r) \/ PutIssuerByForm(r) \/ RequestDedicatedDb(r) \/ CreateApiKey(r)
      BY <3>1 DEF PutTenant, PutSigningRegistration, PutTemplate, PutRole, PutIssuer,
                  PutIssuerByForm, RequestDedicatedDb, CreateApiKey, Start
    <3>2. CASE \/ DeleteIssuer(r) \/ DeleteIssuerByForm(r) \/ ResolveDedicatedDb(r)
               \/ RevokeApiKey(r) \/ Archive(r) \/ Unarchive(r) \/ UploadImage(r) \/ QueueWithKey(r)
      BY <3>2 DEF DeleteIssuer, DeleteIssuerByForm, ResolveDedicatedDb, RevokeApiKey, Archive,
                  Unarchive, UploadImage, QueueWithKey, Start
    <3>3. CASE ReadPrevious(r) \/ ReadBack(r) \/ FindKey(r) \/ TouchKey(r) \/ LoseRequest(r)
      BY <3>3 DEF ReadPrevious, ReadBack, FindKey, TouchKey, LoseRequest
    <3>4. CASE StoreImage(r) \/ RecordInitialOwner(r) \/ WriteAudit(r) \/ EnqueueWithKey(r)
      BY <3>4 DEF StoreImage, RecordInitialOwner, WriteAudit, EnqueueWithKey
    <3> QED
      BY <2>2, <3>1, <3>2, <3>3, <3>4 DEF RequestStep
  <2> QED
    BY <2>1, <2>2 DEF AdminNext
<1> QED
  BY <1>1 DEF EndedKept

LEMMA NextKeeps ==
    ASSUME IInv, AdminNext
    PROVE  EndedKept
<1>1. CASE \E r \in Requests : WritePut(r) \/ WriteTemplate(r) \/ WriteEnd(r)
  BY <1>1, WritePutKeeps, WriteTemplateKeeps, WriteEndKeeps
<1> QED
  BY <1>1, OthersKeep

\* A dedicated database request that was resolved and an API key that was revoked never
\* change again, whatever requests overlap (DB: WHERE status = 'pending', WHERE revoked_at IS NULL).
THEOREM WhatEndedStays == AdminSpec => EndedIsKept
<1>1. IInv /\ [AdminNext]_adminVars => [EndedKept]_adminVars
  BY NextKeeps
<1>2. IInv /\ [AdminNext]_adminVars =>
        [/\ \A p \in Provisionings : rows[p] # NoRow /\ rows[p].status # "pending"
                                        => rows'[p] = rows[p]
         /\ \A k \in ApiKeys : rows[k] # NoRow /\ rows[k].revoked # 0
                                  => rows'[k] = rows[k]]_adminVars
  BY <1>1 DEF EndedKept
<1> QED
  BY <1>2, Invariance, PTL DEF AdminSpec, EndedIsKept

-----------------------------------------------------------------------------
(* What the audit log and the ownership history tell.                        *)

Telling(t) == Tells(EntriesOf(t), rows[t])

\* Requests on a record that may write it.
Writers(t) == {r \in OnTarget(t) : req[r].op # "use"}

AloneOn(t) == \A q, r \in Writers(t) : q = r

\* A template is put for the first time, and its initial owner is not yet on record.
Unrecorded(r) ==
    req[r].op = "put" /\ req[r].seen = NoRow /\ stage[r] \in {"back", "initial"}

\* What the one request on a record knows of it between its statements.
Knows(t, r) ==
    /\ stage[r] \in {"initial", "audit"} => req[r].row = rows[t]
    /\ stage[r] = "initial" => req[r].seen = NoRow
    /\ stage[r] = "back" /\ rows[t] = NoRow => Telling(t)
    /\ t \in Members /\ stage[r] \in {"write", "back", "audit"} => Tells(EntriesOf(t), req[r].seen)
    /\ t \in Patterns /\ req[r].op = "put" /\ stage[r] = "write" => req[r].seen = rows[t]

Chained(t) == \A i \in EntriesOf(t) : Tells({j \in EntriesOf(t) : j < i}, audit[i].before)

OwnerRecorded(t) ==
    rows[t] # NoRow => Len(initials[t]) = IF \E r \in Writers(t) : Unrecorded(r) THEN 0 ELSE 1

RecordTold(t) ==
    /\ AloneOn(t)
    /\ Underway(t) \/ Telling(t)
    /\ \A r \in Writers(t) : Knows(t, r)
    /\ t \in Members => Chained(t)
    /\ t \in Patterns => OwnerRecorded(t)

RecordsTold == \A t \in Targets \ mixed : RecordTold(t)

\* The owner a template had first is the owner it has.
OwnersTold ==
    /\ \A t \in Patterns : \A i \in DOMAIN initials[t] :
           rows[t] # NoRow /\ initials[t][i] = rows[t].owner
    /\ \A r \in Requests : stage[r] = "initial" =>
           /\ rows[req[r].target] # NoRow
           /\ req[r].row.owner = rows[req[r].target].owner

\* A resolution that was written: about to be told, or told.
Resolving(r) == stage[r] \in {"back", "audit"} /\ req[r].op = "resolve"

ResolutionsOf(p) == {i \in EntriesOf(p) : audit[i].op = "resolve"}

Settled(p) == p \in Provisionings /\ rows[p] # NoRow /\ rows[p].status # "pending"

ResolvingTold(r) ==
    /\ Settled(req[r].target) /\ ResolutionsOf(req[r].target) = {}
    /\ stage[r] = "audit" => req[r].row = rows[req[r].target]

ResolutionTold(i) == Settled(audit[i].target) /\ audit[i].row = rows[audit[i].target]

OneResolves ==
    \A q, r \in Requests :
        Resolving(q) /\ Resolving(r) /\ req[q].target = req[r].target => q = r

OneResolution ==
    \A i, j \in DOMAIN audit :
        audit[i].op = "resolve" /\ audit[j].op = "resolve" /\ audit[i].target = audit[j].target
        => i = j

ResolutionsTold ==
    /\ \A r \in Requests : Resolving(r) => ResolvingTold(r)
    /\ \A i \in DOMAIN audit : audit[i].op = "resolve" => ResolutionTold(i)
    /\ OneResolves
    /\ OneResolution

ToldInv == IInv /\ RecordsTold /\ OwnersTold /\ ResolutionsTold

-----------------------------------------------------------------------------
(* What a step leaves of the entries.                                        *)

LEMMA EntriesStay ==
    ASSUME audit' = audit, NEW t
    PROVE  /\ EntriesOf(t)' = EntriesOf(t)
           /\ \A S, row : Tells(S, row)' <=> Tells(S, row)
  BY DEF EntriesOf, Tells

\* An entry is written at the end of the log.
Written(e) ==
    /\ audit' \in Seq(Entries) /\ Len(audit') = Len(audit) + 1
    /\ audit'[Len(audit) + 1] = e
    /\ \A i \in DOMAIN audit : i \in DOMAIN audit' /\ audit'[i] = audit[i]
    /\ \A i \in DOMAIN audit' : i \in DOMAIN audit \/ i = Len(audit) + 1

LEMMA AppendWrites ==
    ASSUME IInv, NEW e \in Entries, audit' = Append(audit, e)
    PROVE  Written(e) /\ Len(audit) \in Nat /\ DOMAIN audit = 1..Len(audit)
<1>1. audit \in Seq(Entries)
  BY DEF IInv, EntriesFit
<1> QED
  BY <1>1 DEF Written

LEMMA EntriesElsewhere ==
    ASSUME IInv, NEW e, Written(e), NEW u, e.target # u
    PROVE  /\ EntriesOf(u)' = EntriesOf(u)
           /\ \A i \in EntriesOf(u) : audit'[i] = audit[i]
<1>1. Len(audit) \in Nat /\ DOMAIN audit = 1..Len(audit)
  BY DEF IInv, EntriesFit
<1> QED
  BY <1>1 DEF Written, EntriesOf

LEMMA EntriesHere ==
    ASSUME IInv, NEW e, Written(e), NEW n, n = Len(audit) + 1
    PROVE  /\ EntriesOf(e.target)' = EntriesOf(e.target) \cup {n}
           /\ audit'[n] = e
           /\ \A i \in EntriesOf(e.target) : audit'[i] = audit[i] /\ i < n
           /\ n \in Nat /\ \A i \in EntriesOf(e.target) : i \in Nat
<1>1. Len(audit) \in Nat /\ DOMAIN audit = 1..Len(audit)
  BY DEF IInv, EntriesFit
<1>2. n \in DOMAIN audit'
  BY <1>1 DEF Written
<1> QED
  BY <1>1, <1>2 DEF Written, EntriesOf

LEMMA TellsAlike ==
    ASSUME NEW S, NEW row, \A i \in S : audit'[i] = audit[i]
    PROVE  Tells(S, row)' <=> Tells(S, row)
  BY DEF Tells

-----------------------------------------------------------------------------
(* A record that no writer of it touches is told as before.                  *)

LEMMA WriterFits ==
    ASSUME IInv, NEW t, NEW r \in Writers(t)
    PROVE  /\ r \in Requests /\ stage[r] # "idle" /\ req[r].target = t /\ req[r].op # "use"
           /\ Shaped(req[r]) /\ OpFits(stage[r], req[r])
  BY RequestFit DEF Writers, OnTarget

LEMMA UnderwayWrites ==
    ASSUME IInv, NEW t
    PROVE  Underway(t) <=> \E r \in Writers(t) : stage[r] \in WrittenBack
<1>1. ASSUME NEW r \in OnTarget(t), stage[r] \in WrittenBack
      PROVE  r \in Writers(t)
  BY <1>1, RequestFit DEF OnTarget, Writers, OpFits, WrittenBack
<1> QED
  BY <1>1 DEF Underway, Writers, WrittenBack

LEMMA UnderwayWritesNext ==
    ASSUME IInv', NEW t
    PROVE  Underway(t)' <=> \E r \in Writers(t)' : stage'[r] \in WrittenBack
<1>1. ASSUME NEW r \in Requests, stage'[r] \in WrittenBack
      PROVE  req'[r].op # "use"
  <2>1. RequestFits(stage[r], req[r])'
    BY DEF IInv, RequestsFit
  <2>2. stage'[r] # "idle"
    BY <1>1 DEF WrittenBack
  <2>3. OpFits(stage[r], req[r])'
    BY <2>1, <2>2 DEF RequestFits
  <2> QED
    BY <1>1, <2>3 DEF OpFits, WrittenBack
<1> QED
  BY <1>1 DEF Underway, Writers, OnTarget, WrittenBack

LEMMA SameTold ==
    ASSUME IInv, IInv', NEW t \in Targets, RecordTold(t), rows'[t] = rows[t],
           t \in Patterns => initials'[t] = initials[t],
           EntriesOf(t)' = EntriesOf(t), \A i \in EntriesOf(t) : audit'[i] = audit[i],
           Writers(t)' = Writers(t),
           \A r \in Writers(t) : stage'[r] = stage[r] /\ req'[r] = req[r]
    PROVE  RecordTold(t)'
<1>1. AloneOn(t)'
  BY DEF RecordTold, AloneOn
<1>2. \A S, row : S \subseteq EntriesOf(t) => (Tells(S, row)' <=> Tells(S, row))
  BY TellsAlike
<1>3. \A row : Tells(EntriesOf(t), row)' <=> Tells(EntriesOf(t), row)
  BY <1>2 DEF Tells
<1>4. Telling(t)' <=> Telling(t)
  BY <1>3 DEF Telling, Tells
<1>5. Underway(t)' <=> Underway(t)
  <2>1. Underway(t) <=> \E r \in Writers(t) : stage[r] \in WrittenBack
    BY UnderwayWrites
  <2>2. Underway(t)' <=> \E r \in Writers(t)' : stage'[r] \in WrittenBack
    BY UnderwayWritesNext
  <2> QED
    BY <2>1, <2>2
<1>6. ASSUME NEW r \in Writers(t)
      PROVE  Knows(t, r)'
  <2>1. Knows(t, r)
    BY DEF RecordTold
  <2>2. Tells(EntriesOf(t), req[r].seen)' <=> Tells(EntriesOf(t), req[r].seen)
    BY <1>3 DEF Tells
  <2> QED
    BY <1>4, <2>1, <2>2 DEF Knows
<1>7. t \in Members => Chained(t)'
  BY <1>2 DEF RecordTold, Chained, Tells
<1>8. t \in Patterns => OwnerRecorded(t)'
  BY DEF RecordTold, OwnerRecorded, Unrecorded
<1> QED
  BY <1>1, <1>4, <1>5, <1>6, <1>7, <1>8 DEF RecordTold

-----------------------------------------------------------------------------
(* A step of a request on one record.                                        *)

\* Request r, and no other, moves, on record t.
Moves(r, t) ==
    /\ \A p \in Requests \ {r} : stage'[p] = stage[p] /\ req'[p] = req[p]
    /\ stage[r] = "idle" \/ req[r].target = t
    /\ stage'[r] = "idle" \/ req'[r].target = t

LEMMA ToMoves ==
    ASSUME IInv, NEW r \in Requests, NEW s, NEW q, To(r, s, q)
    PROVE  /\ stage'[r] = s /\ req'[r] = q
           /\ \A p \in Requests \ {r} : stage'[p] = stage[p] /\ req'[p] = req[p]
  BY DEF IInv, RequestsFit, To

LEMMA OthersTold ==
    ASSUME IInv, IInv', RecordsTold, NEW r \in Requests, NEW t, Moves(r, t), mixed \subseteq mixed',
           NEW u \in Targets \ mixed', u # t, rows'[u] = rows[u],
           u \in Patterns => initials'[u] = initials[u],
           EntriesOf(u)' = EntriesOf(u), \A i \in EntriesOf(u) : audit'[i] = audit[i]
    PROVE  RecordTold(u)'
<1>1. RecordTold(u)
  BY DEF RecordsTold
<1>2. Writers(u)' = Writers(u)
  BY DEF Writers, OnTarget, Moves
<1>3. \A p \in Writers(u) : stage'[p] = stage[p] /\ req'[p] = req[p]
  BY DEF Writers, OnTarget, Moves
<1> QED
  BY <1>1, <1>2, <1>3, SameTold

\* A request that queues a job writes no record.
LEMMA UseTold ==
    ASSUME IInv, IInv', RecordsTold, NEW r \in Requests,
           \A p \in Requests \ {r} : stage'[p] = stage[p] /\ req'[p] = req[p],
           stage[r] = "idle" \/ req[r].op = "use", stage'[r] = "idle" \/ req'[r].op = "use",
           UNCHANGED <<rows, initials, audit, mixed>>
    PROVE  RecordsTold'
<1>1. ASSUME NEW u \in Targets \ mixed'
      PROVE  RecordTold(u)'
  <2>1. RecordTold(u)
    BY <1>1 DEF RecordsTold
  <2>2. Writers(u)' = Writers(u)
    BY DEF Writers, OnTarget
  <2>3. \A p \in Writers(u) : stage'[p] = stage[p] /\ req'[p] = req[p]
    BY DEF Writers, OnTarget
  <2>4. EntriesOf(u)' = EntriesOf(u)
    BY EntriesStay
  <2> QED
    BY <2>1, <2>2, <2>3, <2>4, SameTold
<1> QED
  BY <1>1 DEF RecordsTold

\* What the request that moves leaves of its record.
ActorTold(t, r) ==
    /\ (r \in Writers(t) /\ stage[r] \in WrittenBack) \/ Telling(t)
    /\ r \in Writers(t) => Knows(t, r)
    /\ t \in Members => Chained(t)
    /\ t \in Patterns /\ rows[t] # NoRow =>
          Len(initials[t]) = IF r \in Writers(t) /\ Unrecorded(r) THEN 0 ELSE 1

LEMMA ActorThenTold ==
    ASSUME IInv, IInv', NEW r \in Requests, NEW t, Moves(r, t), \A p \in Writers(t) : p = r,
           ActorTold(t, r)'
    PROVE  RecordTold(t)'
<1>1. \A p \in Writers(t)' : p = r
  BY DEF Writers, OnTarget, Moves
<1>2. AloneOn(t)'
  BY <1>1 DEF AloneOn
<1>3. Underway(t)' \/ Telling(t)'
  BY UnderwayWritesNext DEF ActorTold
<1>4. \A p \in Writers(t)' : Knows(t, p)'
  BY <1>1 DEF ActorTold
<1>5. t \in Patterns => OwnerRecorded(t)'
  BY <1>1 DEF OwnerRecorded, ActorTold
<1> QED
  BY <1>2, <1>3, <1>4, <1>5 DEF RecordTold, ActorTold

\* A record on which no request has written yet is told as it stands.
LEMMA BeforeWrite ==
    ASSUME IInv, NEW t, RecordTold(t), NEW r, \A p \in Writers(t) : p = r,
           r \in Writers(t) => stage[r] \notin WrittenBack
    PROVE  /\ Telling(t)
           /\ t \in Members => Chained(t)
           /\ t \in Patterns /\ rows[t] # NoRow => Len(initials[t]) = 1
<1>1. ~Underway(t)
  BY UnderwayWrites
<1>2. \A p \in Writers(t) : ~Unrecorded(p)
  BY DEF Unrecorded, WrittenBack
<1> QED
  BY <1>1, <1>2 DEF RecordTold, OwnerRecorded

\* A step that writes neither the record nor the log.
LEMMA KeptTold ==
    ASSUME NEW t, rows'[t] = rows[t], audit' = audit
    PROVE  /\ Telling(t)' <=> Telling(t)
           /\ Chained(t)' <=> Chained(t)
  BY DEF Telling, Chained, EntriesOf, Tells

LEMMA ChainKept ==
    ASSUME NEW t, audit' = audit
    PROVE  Chained(t)' <=> Chained(t)
  BY DEF Chained, EntriesOf, Tells

\* The records told after a step of request r on record t.
LEMMA StepTold ==
    ASSUME IInv, IInv', RecordsTold, NEW r \in Requests, NEW t \in Targets, Moves(r, t),
           mixed \subseteq mixed', t \notin mixed' => RecordTold(t)',
           \A u \in Targets \ {t} : rows'[u] = rows[u],
           \A u \in Patterns \ {t} : initials'[u] = initials[u],
           \A u \in Targets \ {t} :
               EntriesOf(u)' = EntriesOf(u) /\ \A i \in EntriesOf(u) : audit'[i] = audit[i]
    PROVE  RecordsTold'
<1>1. ASSUME NEW u \in Targets \ mixed', u # t
      PROVE  RecordTold(u)'
  BY <1>1, OthersTold
<1> QED
  BY <1>1 DEF RecordsTold

\* The request that moves is its record's only one.
LEMMA ActorAlone ==
    ASSUME IInv, RecordsTold, NEW r \in Requests, stage[r] # "idle", req[r].op # "use",
           req[r].target \notin mixed
    PROVE  /\ req[r].target \in Targets /\ RecordTold(req[r].target) /\ r \in Writers(req[r].target)
           /\ Knows(req[r].target, r)
           /\ \A p \in Writers(req[r].target) : p = r
<1>1. req[r].target \in Targets
  BY RequestFit DEF Shaped
<1>2. RecordTold(req[r].target)
  BY <1>1 DEF RecordsTold
<1>3. r \in Writers(req[r].target)
  BY DEF Writers, OnTarget
<1> QED
  BY <1>1, <1>2, <1>3 DEF RecordTold, AloneOn

-----------------------------------------------------------------------------
(* The records told after each operation.                                    *)

LEMMA StartTold ==
    ASSUME IInv, IInv', RecordsTold, NEW r \in Requests, NEW t \in Targets, NEW op, NEW input,
           NEW first, Start(r, t, op, first, input), op # "use", first \in {"previous", "write"},
           t \in Members \cup Patterns => first = "previous" \/ op \in {"archive", "unarchive"},
           op \in {"archive", "unarchive"} => t \in Patterns
    PROVE  RecordsTold'
<1>1. PICK q : q = Begin(t, op, input)
  OBVIOUS
<1>2. /\ stage[r] = "idle" /\ To(r, first, q)
      /\ mixed' = IF OnTarget(t) = {} THEN mixed ELSE mixed \cup {t}
      /\ UNCHANGED <<rows, initials, audit>>
  BY <1>1 DEF Start, Begin, adminLog
<1>3. q.target = t /\ q.op = op /\ q.seen = NoRow /\ q.row = NoRow
  BY <1>1, BeginHas
<1>4. stage'[r] = first /\ req'[r] = q
      /\ \A p \in Requests \ {r} : stage'[p] = stage[p] /\ req'[p] = req[p]
  BY <1>2, ToMoves
<1>5. Moves(r, t)
  BY <1>2, <1>3, <1>4 DEF Moves
<1>6. ASSUME t \notin mixed' PROVE RecordTold(t)'
  <2>1. OnTarget(t) = {} /\ t \notin mixed
    BY <1>2, <1>6
  <2>2. Writers(t) = {}
    BY <2>1 DEF Writers
  <2>3. RecordTold(t)
    BY <2>1 DEF RecordsTold
  <2>4. /\ Telling(t)
        /\ t \in Members => Chained(t)
        /\ t \in Patterns /\ rows[t] # NoRow => Len(initials[t]) = 1
    BY <2>2, <2>3, BeforeWrite
  <2>5. Knows(t, r)'
    BY <1>3, <1>4, Apart DEF Knows
  <2>6. ~Unrecorded(r)'
    BY <1>4 DEF Unrecorded
  <2>7. ActorTold(t, r)'
    BY <1>2, <2>4, <2>5, <2>6, KeptTold DEF ActorTold
  <2> QED
    BY <1>5, <2>2, <2>7, ActorThenTold
<1>7. \A u \in Targets \ {t} :
          EntriesOf(u)' = EntriesOf(u) /\ \A i \in EntriesOf(u) : audit'[i] = audit[i]
  BY <1>2, EntriesStay
<1> QED
  BY <1>2, <1>5, <1>6, <1>7, StepTold DEF Targets

LEMMA PutsTold ==
    ASSUME IInv, IInv', RecordsTold, NEW r \in Requests,
           \/ PutTenant(r) \/ PutSigningRegistration(r) \/ PutTemplate(r) \/ PutRole(r)
           \/ PutIssuer(r) \/ PutIssuerByForm(r) \/ RequestDedicatedDb(r) \/ CreateApiKey(r)
    PROVE  RecordsTold'
<1>1. PICK t, input, first :
          /\ t \in Targets /\ first \in {"previous", "write"} /\ Start(r, t, "put", first, input)
          /\ t \in Members \cup Patterns => first = "previous"
  <2>1. CASE PutTenant(r)
    <3>1. PICK t \in Tenants, input \in [slug: Slugs, active: YesNo \cup {"unset"}] :
              Start(r, t, "put", "write", input)
      BY <2>1 DEF PutTenant
    <3> QED
      BY <3>1, Apart DEF Targets
  <2>2. CASE PutSigningRegistration(r)
    <3>1. PICK input \in RowsOf(Signing) : Start(r, Signing, "put", "write", input)
      BY <2>2 DEF PutSigningRegistration
    <3> QED
      BY <3>1, Apart DEF Targets
  <2>3. CASE PutTemplate(r)
    <3>1. PICK t \in Patterns, input \in [owner: Units \cup {Unset}] :
              Start(r, t, "put", "previous", input)
      BY <2>3 DEF PutTemplate
    <3> QED
      BY <3>1 DEF Targets
  <2>4. CASE PutRole(r)
    <3>1. PICK u \in Members, input \in [role: MemberRoles] : Start(r, u, "put", "previous", input)
      BY <2>4 DEF PutRole
    <3> QED
      BY <3>1 DEF Targets
  <2>5. CASE PutIssuer(r) \/ PutIssuerByForm(r)
    <3>1. PICK i \in Issuers : \E input \in RowsOf(i) : Start(r, i, "put", "write", input)
      BY <2>5 DEF PutIssuer, PutIssuerByForm
    <3> QED
      BY <3>1, Apart DEF Targets
  <2>6. CASE RequestDedicatedDb(r)
    <3>1. PICK p \in Provisionings : Start(r, p, "put", "write", [status |-> "pending"])
      BY <2>6 DEF RequestDedicatedDb
    <3> QED
      BY <3>1, Apart DEF Targets, Created
  <2>7. CASE CreateApiKey(r)
    <3>1. PICK k \in ApiKeys, input \in [tenant: Tenants, scopes: SUBSET Scopes \ {{}}, by: Members,
                                         expires: 0..MaxDay] : Start(r, k, "put", "write", input)
      BY <2>7 DEF CreateApiKey
    <3> QED
      BY <3>1, Apart DEF Targets, Created
  <2> QED
    BY <2>1, <2>2, <2>3, <2>4, <2>5, <2>6, <2>7
<1> QED
  BY <1>1, StartTold

LEMMA BeginsTold ==
    ASSUME IInv, IInv', RecordsTold, NEW r \in Requests,
           \/ DeleteIssuer(r) \/ DeleteIssuerByForm(r) \/ ResolveDedicatedDb(r) \/ RevokeApiKey(r)
           \/ Archive(r) \/ Unarchive(r) \/ UploadImage(r) \/ QueueWithKey(r)
    PROVE  RecordsTold'
<1>1. CASE QueueWithKey(r)
  <2>1. PICK t, input : Start(r, t, "use", "find", input)
    BY <1>1 DEF QueueWithKey
  <2>2. PICK q : q = Begin(t, "use", input)
    OBVIOUS
  <2>3. /\ stage[r] = "idle" /\ To(r, "find", q) /\ q.op = "use"
        /\ UNCHANGED <<rows, initials, audit, mixed>>
    BY <2>1, <2>2, BeginHas DEF Start, Begin, adminLog
  <2> QED
    BY <2>3, ToMoves, UseTold
<1>2. CASE ~QueueWithKey(r)
  <2>1. PICK t, input, op, first :
          /\ t \in Targets /\ op # "use" /\ first \in {"previous", "write"}
          /\ Start(r, t, op, first, input)
          /\ t \in Members \cup Patterns => first = "previous" \/ op \in {"archive", "unarchive"}
          /\ op \in {"archive", "unarchive"} => t \in Patterns
    <3>1. CASE DeleteIssuer(r) \/ DeleteIssuerByForm(r)
      <4>1. PICK t \in Issuers : Start(r, t, "delete", "previous", NoRow)
        BY <3>1 DEF DeleteIssuer, DeleteIssuerByForm
      <4> QED
        BY <4>1, Apart DEF Targets
    <3>2. CASE ResolveDedicatedDb(r) \/ RevokeApiKey(r)
      <4>1. PICK t, input, op :
              t \in Created /\ op \in {"resolve", "revoke"} /\ Start(r, t, op, "write", input)
        BY <3>2 DEF ResolveDedicatedDb, RevokeApiKey, Created
      <4> QED
        BY <4>1, Apart DEF Targets, Created
    <3>3. CASE Archive(r) \/ Unarchive(r)
      <4>1. PICK t \in Patterns, op \in {"archive", "unarchive"} : Start(r, t, op, "write", NoRow)
        BY <3>3 DEF Archive, Unarchive
      <4> QED
        BY <4>1 DEF Targets
    <3>4. CASE UploadImage(r)
      <4>1. PICK t \in Patterns : Start(r, t, "upload", "previous", NoRow)
        BY <3>4 DEF UploadImage
      <4> QED
        BY <4>1 DEF Targets
    <3> QED
      BY <1>2, <3>1, <3>2, <3>3, <3>4
  <2> QED
    BY <2>1, StartTold
<1> QED
  BY <1>1, <1>2

LEMMA ReadPreviousTold ==
    ASSUME IInv, IInv', RecordsTold, NEW r \in Requests, ReadPrevious(r)
    PROVE  RecordsTold'
<1>1. PICK q, t : q = req[r] /\ t = q.target
  OBVIOUS
<1>2. PICK on : on = [q EXCEPT !.seen = rows[t]]
  OBVIOUS
<1>3. /\ stage[r] = "previous"
      /\ UNCHANGED <<rows, initials, audit, mixed>>
      /\ Done(r) \/ (q.op = "upload" /\ To(r, "store", on)) \/ To(r, "write", on)
  BY <1>1, <1>2 DEF ReadPrevious, adminLog
<1>4. Shaped(q) /\ OpFits("previous", q)
  BY <1>1, <1>3, RequestFit
<1>5. t \in Targets /\ rows[t] \in RowsOf(t) \cup {NoRow} /\ q.op # "use"
  BY <1>1, <1>4 DEF IInv, RowsTyped, Shaped, OpFits
<1>6. on.target = t /\ on.op = q.op /\ on.row = q.row /\ on.seen = rows[t]
  BY <1>1, <1>2, <1>4, <1>5, WithSeen
<1>7. PICK s, o : To(r, s, o) /\ ((s = "idle" /\ o = Idle) \/ (s \in {"store", "write"} /\ o = on))
  BY <1>3 DEF Done
<1>8. stage'[r] = s /\ req'[r] = o
      /\ \A p \in Requests \ {r} : stage'[p] = stage[p] /\ req'[p] = req[p]
  BY <1>7, ToMoves
<1>9. Moves(r, t)
  BY <1>1, <1>6, <1>7, <1>8 DEF Moves
<1>10. ASSUME t \notin mixed' PROVE RecordTold(t)'
  <2>1. RecordTold(t) /\ r \in Writers(t) /\ \A p \in Writers(t) : p = r
    BY <1>1, <1>3, <1>5, <1>10, ActorAlone
  <2>2. /\ Telling(t)
        /\ t \in Members => Chained(t)
        /\ t \in Patterns /\ rows[t] # NoRow => Len(initials[t]) = 1
    BY <1>3, <2>1, BeforeWrite DEF WrittenBack
  <2>3. r \in Writers(t)' => Knows(t, r)'
    <3>1. SUFFICES ASSUME s \in {"store", "write"}, o = on PROVE Knows(t, r)'
      BY <1>7, <1>8 DEF Writers, OnTarget
    <3>2. Tells(EntriesOf(t), rows[t])'
      BY <1>3, <2>2, KeptTold DEF Telling
    <3> QED
      BY <1>3, <1>6, <1>8, <3>1, <3>2 DEF Knows, Tells
  <2>4. ~Unrecorded(r)'
    BY <1>7, <1>8 DEF Unrecorded
  <2>5. ActorTold(t, r)'
    BY <1>3, <2>2, <2>3, <2>4, KeptTold DEF ActorTold
  <2> QED
    BY <1>9, <2>1, <2>5, ActorThenTold
<1>11. \A u \in Targets \ {t} :
          EntriesOf(u)' = EntriesOf(u) /\ \A i \in EntriesOf(u) : audit'[i] = audit[i]
  BY <1>3, EntriesStay
<1> QED
  BY <1>3, <1>5, <1>9, <1>10, <1>11, StepTold DEF Targets

LEMMA StoreImageTold ==
    ASSUME IInv, IInv', RecordsTold, NEW r \in Requests, StoreImage(r)
    PROVE  RecordsTold'
<1>1. PICK q, t : q = req[r] /\ t = q.target
  OBVIOUS
<1>2. PICK a : To(r, "write", [q EXCEPT !.input = a])
  BY <1>1 DEF StoreImage
<1>3. PICK o : o = [q EXCEPT !.input = a]
  OBVIOUS
<1>4. stage[r] = "store" /\ To(r, "write", o) /\ UNCHANGED <<rows, initials, audit, mixed>>
  BY <1>2, <1>3 DEF StoreImage, adminLog
<1>5. Shaped(q) /\ OpFits("store", q)
  BY <1>1, <1>4, RequestFit
<1>6. q.op = "upload" /\ t \in Patterns /\ t \in Targets
  BY <1>1, <1>5 DEF OpFits, WrittenBack, Targets
<1>7. o.target = t /\ o.op = q.op
  BY <1>1, <1>3, <1>5, WithInput
<1>8. stage'[r] = "write" /\ req'[r] = o
      /\ \A p \in Requests \ {r} : stage'[p] = stage[p] /\ req'[p] = req[p]
  BY <1>4, ToMoves
<1>9. Moves(r, t)
  BY <1>1, <1>7, <1>8 DEF Moves
<1>10. ASSUME t \notin mixed' PROVE RecordTold(t)'
  <2>1. RecordTold(t) /\ r \in Writers(t) /\ \A p \in Writers(t) : p = r
    BY <1>1, <1>4, <1>6, <1>10, ActorAlone
  <2>2. Telling(t) /\ (t \in Patterns /\ rows[t] # NoRow => Len(initials[t]) = 1)
    BY <1>4, <2>1, BeforeWrite DEF WrittenBack
  <2>3. Knows(t, r)'
    BY <1>6, <1>7, <1>8, Apart DEF Knows
  <2>4. ~Unrecorded(r)' /\ t \notin Members
    BY <1>6, <1>8, Apart DEF Unrecorded
  <2>5. ActorTold(t, r)'
    BY <1>4, <2>2, <2>3, <2>4, KeptTold DEF ActorTold
  <2> QED
    BY <1>9, <2>1, <2>5, ActorThenTold
<1>11. \A u \in Targets \ {t} :
          EntriesOf(u)' = EntriesOf(u) /\ \A i \in EntriesOf(u) : audit'[i] = audit[i]
  BY <1>4, EntriesStay
<1> QED
  BY <1>4, <1>6, <1>9, <1>10, <1>11, StepTold DEF Targets

LEMMA LoseTold ==
    ASSUME IInv, IInv', RecordsTold, NEW r \in Requests, LoseRequest(r)
    PROVE  RecordsTold'
<1>1. PICK q, t : q = req[r] /\ t = q.target
  OBVIOUS
<1>2. /\ stage[r] # "idle" /\ To(r, "idle", Idle) /\ UNCHANGED <<rows, initials, audit>>
      /\ mixed' = IF stage[r] \in WrittenBack THEN mixed \cup {t} ELSE mixed
  BY <1>1 DEF LoseRequest, Done, adminLog, WrittenBack
<1>3. /\ stage'[r] = "idle"
      /\ \A p \in Requests \ {r} : stage'[p] = stage[p] /\ req'[p] = req[p]
  BY <1>2, ToMoves
<1>4. t \in Targets /\ OpFits(stage[r], q)
  BY <1>1, <1>2, RequestFit DEF Shaped
<1>5. CASE q.op = "use"
  <2>1. stage[r] \notin WrittenBack
    BY <1>4, <1>5 DEF OpFits, WrittenBack
  <2> QED
    BY <1>1, <1>2, <1>3, <1>5, <2>1, UseTold
<1>6. CASE q.op # "use"
  <2>1. Moves(r, t)
    BY <1>1, <1>3 DEF Moves
  <2>2. ASSUME t \notin mixed' PROVE RecordTold(t)'
    <3>1. stage[r] \notin WrittenBack /\ t \notin mixed
      BY <1>2, <2>2
    <3>2. RecordTold(t) /\ \A p \in Writers(t) : p = r
      BY <1>1, <1>2, <1>6, <3>1, ActorAlone
    <3>3. /\ Telling(t)
          /\ t \in Members => Chained(t)
          /\ t \in Patterns /\ rows[t] # NoRow => Len(initials[t]) = 1
      BY <3>1, <3>2, BeforeWrite
    <3>4. r \notin Writers(t)'
      BY <1>3 DEF Writers, OnTarget
    <3>5. ActorTold(t, r)'
      BY <1>2, <3>3, <3>4, KeptTold DEF ActorTold
    <3> QED
      BY <2>1, <3>2, <3>5, ActorThenTold
  <2>3. \A u \in Targets \ {t} :
            EntriesOf(u)' = EntriesOf(u) /\ \A i \in EntriesOf(u) : audit'[i] = audit[i]
    BY <1>2, EntriesStay
  <2> QED
    BY <1>2, <1>4, <2>1, <2>2, <2>3, StepTold DEF Targets
<1> QED
  BY <1>5, <1>6

LEMMA EmptyThen ==
    ASSUME NEW S, NEW s \in Seq(S), DOMAIN s = {}
    PROVE  Len(s) = 0
<1>1. Len(s) \in Nat /\ \A i \in 1..Len(s) : i \in DOMAIN s
  OBVIOUS
<1>2. 1 \notin 1..Len(s)
  BY <1>1
<1> QED
  BY <1>1, <1>2

LEMMA WritePutTold ==
    ASSUME IInv, IInv', RecordsTold, OwnersTold, NEW r \in Requests, WritePut(r)
    PROVE  RecordsTold'
<1>1. PICK q, t : q = req[r] /\ t = q.target
  OBVIOUS
<1>2. PICK row : row = PutRow(t, q.input)
  OBVIOUS
<1>3. /\ stage[r] = "write" /\ q.op = "put" /\ UNCHANGED <<initials, audit, mixed>>
      /\ \/ Done(r) /\ UNCHANGED rows
         \/ rows' = [rows EXCEPT ![t] = row] /\ To(r, "back", q)
  BY <1>1, <1>2 DEF WritePut, adminLog
<1>4. Shaped(q) /\ OpFits("write", q)
  BY <1>1, <1>3, RequestFit
<1>5. t \in Targets /\ q.input \in InputsOf(t) /\ (t \in Created => rows[t] = NoRow)
  BY <1>1, <1>3, <1>4 DEF OpFits, Shaped
<1>6. row # NoRow
  BY <1>2, <1>5, PutRowFits, NoRowAssumption
<1>7. \A u \in Targets \ {t} : rows'[u] = rows[u]
  BY <1>3 DEF IInv, RowsTyped
<1>8. \A u \in Targets \ {t} :
          EntriesOf(u)' = EntriesOf(u) /\ \A i \in EntriesOf(u) : audit'[i] = audit[i]
  BY <1>3, EntriesStay
<1>9. \A p \in Requests \ {r} : stage'[p] = stage[p] /\ req'[p] = req[p]
  BY <1>3, ToMoves DEF Done
<1>10. (stage'[r] = "idle" /\ rows' = rows) \/ (stage'[r] = "back" /\ req'[r] = q /\ rows'[t] = row)
  BY <1>3, <1>5, ToMoves DEF Done, IInv, RowsTyped
<1>11. Moves(r, t)
  BY <1>1, <1>9, <1>10 DEF Moves
<1>12. ASSUME t \notin mixed' PROVE RecordTold(t)'
  <2>1. RecordTold(t) /\ r \in Writers(t) /\ Knows(t, r) /\ \A p \in Writers(t) : p = r
    BY <1>1, <1>3, <1>12, ActorAlone
  <2>2. /\ Telling(t)
        /\ t \in Members => Chained(t)
        /\ t \in Patterns /\ rows[t] # NoRow => Len(initials[t]) = 1
    BY <1>3, <2>1, BeforeWrite DEF WrittenBack
  <2>3. CASE stage'[r] = "idle" /\ rows' = rows
    <3>1. r \notin Writers(t)'
      BY <2>3 DEF Writers, OnTarget
    <3>2. ActorTold(t, r)'
      BY <1>3, <2>2, <2>3, <3>1, KeptTold DEF ActorTold
    <3> QED
      BY <1>11, <2>1, <3>2, ActorThenTold
  <2>4. CASE stage'[r] = "back" /\ req'[r] = q /\ rows'[t] = row
    <3>1. r \in Writers(t)'
      BY <1>1, <1>3, <2>4 DEF Writers, OnTarget
    <3>2. t \in Members => Tells(EntriesOf(t), q.seen)'
      BY <1>1, <1>3, <2>1, EntriesStay DEF Knows
    <3>3. Knows(t, r)'
      BY <1>6, <2>4, <3>2 DEF Knows, Tells
    <3>4. ASSUME t \in Patterns PROVE Len(initials[t]) = IF Unrecorded(r)' THEN 0 ELSE 1
      <4>1. q.seen = rows[t]
        BY <1>1, <1>3, <2>1, <3>4 DEF Knows
      <4>2. CASE rows[t] = NoRow
        <5>1. DOMAIN initials[t] = {} /\ initials[t] \in Seq(Units)
          BY <3>4, <4>2 DEF OwnersTold, IInv, RowsTyped
        <5>2. Len(initials[t]) = 0
          BY <5>1, EmptyThen
        <5> QED
          BY <1>3, <2>4, <4>1, <4>2, <5>2 DEF Unrecorded
      <4>3. CASE rows[t] # NoRow
        BY <2>2, <2>4, <3>4, <4>1, <4>3 DEF Unrecorded
      <4> QED
        BY <4>2, <4>3
    <3>5. ActorTold(t, r)'
      BY <1>3, <2>2, <2>4, <3>1, <3>3, <3>4, ChainKept DEF ActorTold, WrittenBack
    <3> QED
      BY <1>11, <2>1, <3>5, ActorThenTold
  <2> QED
    BY <1>10, <2>3, <2>4
<1> QED
  BY <1>3, <1>5, <1>7, <1>8, <1>11, <1>12, StepTold DEF Targets

LEMMA WriteTemplateIs ==
    ASSUME IInv, NEW r \in Requests, WriteTemplate(r), NEW t, t = req[r].target
    PROVE  /\ t \in Patterns /\ t \in Targets
           /\ rows[t] = NoRow <=> rows'[t] = NoRow
           /\ rows[t] # NoRow => rows'[t].owner = rows[t].owner
           /\ \A u \in Targets \ {t} : rows'[u] = rows[u]
<1>1. PICK q : q = req[r]
  OBVIOUS
<1>2. PICK shown, hidden : /\ shown = [rows[t] EXCEPT !.image = q.input]
                           /\ hidden = [rows[t] EXCEPT !.archived = IF q.op = "archive" THEN "yes"
                                                                    ELSE "no"]
  OBVIOUS
<1>3. PICK row : row = IF q.op = "upload" THEN shown ELSE hidden
  OBVIOUS
<1>4. /\ stage[r] = "write" /\ q.op \in {"archive", "unarchive", "upload"}
      /\ rows' = IF rows[t] = NoRow THEN rows ELSE [rows EXCEPT ![t] = row]
  BY <1>1, <1>2, <1>3 DEF WriteTemplate
<1>5. OpFits("write", q)
  BY <1>1, <1>4, RequestFit
<1>6. t \in Patterns /\ t \in Targets /\ (q.op = "upload" => q.input \in stored)
  BY <1>1, <1>4, <1>5 DEF OpFits, Targets
<1>7. CASE rows[t] = NoRow
  BY <1>4, <1>6, <1>7
<1>8. CASE rows[t] # NoRow
  <2>1. rows[t] \in TemplateRows /\ stored \subseteq Assets
    BY <1>6, <1>8, RowsAre DEF IInv, RowsTyped
  <2>2. row \in TemplateRows /\ row.owner = rows[t].owner
    BY <1>2, <1>3, <1>6, <2>1 DEF TemplateRows, YesNo
  <2>3. row # NoRow
    BY <1>6, <2>2, RowsAre, NoRowAssumption
  <2>4. rows' = [rows EXCEPT ![t] = row]
    BY <1>4, <1>8
  <2> QED
    BY <1>6, <1>8, <2>2, <2>3, <2>4 DEF IInv, RowsTyped
<1> QED
  BY <1>7, <1>8

LEMMA WriteTemplateTold ==
    ASSUME IInv, IInv', RecordsTold, NEW r \in Requests, WriteTemplate(r)
    PROVE  RecordsTold'
<1>1. PICK q, t : q = req[r] /\ t = q.target
  OBVIOUS
<1>2. /\ stage[r] = "write" /\ q.op \in {"archive", "unarchive", "upload"} /\ To(r, "back", q)
      /\ UNCHANGED <<initials, audit, mixed>>
      /\ rows[t] = NoRow => rows' = rows
  BY <1>1 DEF WriteTemplate, adminLog
<1>3. /\ t \in Patterns /\ t \in Targets
      /\ rows[t] = NoRow <=> rows'[t] = NoRow
      /\ \A u \in Targets \ {t} : rows'[u] = rows[u]
  BY <1>1, WriteTemplateIs
<1>4. \A u \in Targets \ {t} :
          EntriesOf(u)' = EntriesOf(u) /\ \A i \in EntriesOf(u) : audit'[i] = audit[i]
  BY <1>2, EntriesStay
<1>5. /\ stage'[r] = "back" /\ req'[r] = q
      /\ \A p \in Requests \ {r} : stage'[p] = stage[p] /\ req'[p] = req[p]
  BY <1>2, ToMoves
<1>6. Moves(r, t)
  BY <1>1, <1>5 DEF Moves
<1>7. ASSUME t \notin mixed' PROVE RecordTold(t)'
  <2>1. RecordTold(t) /\ r \in Writers(t) /\ \A p \in Writers(t) : p = r
    BY <1>1, <1>2, <1>7, ActorAlone
  <2>2. /\ Telling(t)
        /\ t \in Patterns /\ rows[t] # NoRow => Len(initials[t]) = 1
    BY <1>2, <2>1, BeforeWrite DEF WrittenBack
  <2>3. r \in Writers(t)' /\ t \notin Members /\ ~Unrecorded(r)'
    BY <1>1, <1>2, <1>3, <1>5, Apart DEF Writers, OnTarget, Unrecorded
  <2>4. Knows(t, r)'
    BY <1>2, <1>3, <1>5, <2>2, <2>3, KeptTold DEF Knows
  <2>5. ActorTold(t, r)'
    BY <1>2, <1>3, <1>5, <2>2, <2>3, <2>4 DEF ActorTold, WrittenBack
  <2> QED
    BY <1>6, <2>1, <2>5, ActorThenTold
<1> QED
  BY <1>2, <1>3, <1>4, <1>6, <1>7, StepTold DEF Targets

\* An UPDATE or DELETE that finds nothing is reported as such by either driver.
LEMMA NoneReported == Reported(Cardinality({})) = 0
<1>1. Cardinality({}) = 0
  BY FS_EmptySet
<1> QED
  BY <1>1 DEF Reported, RowsChanged, RowsWritten

LEMMA WriteEndIs ==
    ASSUME IInv, NEW r \in Requests, WriteEnd(r), NEW q, q = req[r], NEW t, t = q.target
    PROVE  /\ t \in Targets /\ t \notin Members \cup Patterns /\ q.op # "use" /\ q.op # "put"
           /\ stage[r] = "write" /\ UNCHANGED <<initials, audit>> /\ mixed \subseteq mixed'
           /\ \A u \in Targets \ {t} : rows'[u] = rows[u]
           /\ \A p \in Requests \ {r} : stage'[p] = stage[p] /\ req'[p] = req[p]
           /\ t \in Provisionings => rows'[t] = rows[t] \/ (rows[t].status = "pending" /\ Settled(t)')
           /\ \/ stage'[r] = "idle" /\ (t \notin mixed' => rows'[t] = rows[t])
              \/ /\ stage'[r] \in {"back", "audit"} /\ req'[r].target = t /\ req'[r].op = q.op
                 /\ req'[r].row = rows'[t] /\ (stage'[r] = "back" <=> q.op = "resolve")
                 /\ q.op = "resolve" => rows[t].status = "pending" /\ Settled(t)'
<1>1. PICK left : left = Left(t, q.op, q.input)
  OBVIOUS
<1>2. PICK row : row = rows'[t]
  OBVIOUS
<1>3. PICK on : on = [q EXCEPT !.row = row]
  OBVIOUS
<1>4. PICK next : next = IF ~(Reported(Cardinality(left)) > 0) \/ (q.op = "delete" /\ q.seen = NoRow)
                         THEN "idle" ELSE IF q.op = "resolve" THEN "back" ELSE "audit"
  OBVIOUS
<1>5. /\ stage[r] = "write" /\ q.op \in {"resolve", "revoke", "delete"}
      /\ rows' \in IF left = {} THEN {rows} ELSE {[rows EXCEPT ![t] = x] : x \in left}
      /\ To(r, next, IF next = "idle" THEN Idle ELSE on)
      /\ mixed' = IF left # {} /\ next = "idle" THEN mixed \cup {t} ELSE mixed
      /\ UNCHANGED <<initials, audit>>
  BY <1>1, <1>2, <1>3, <1>4 DEF WriteEnd, adminLog
<1>6. Shaped(q) /\ OpFits("write", q)
  BY <1>5, RequestFit
<1>7. t \in Targets /\ t \notin Members \cup Patterns
  BY <1>5, <1>6, Apart DEF OpFits, Shaped, Created
<1>8. /\ \A p \in Requests \ {r} : stage'[p] = stage[p] /\ req'[p] = req[p]
      /\ stage'[r] = next /\ req'[r] = IF next = "idle" THEN Idle ELSE on
  BY <1>5, ToMoves
<1>9. CASE left = {}
  <2>1. rows' = rows
    BY <1>5, <1>9
  <2>2. next = "idle"
    BY <1>4, <1>9, NoneReported
  <2> QED
    BY <1>5, <1>7, <1>8, <2>1, <2>2
<1>10. CASE left # {}
  <2>1. PICK x \in left : rows' = [rows EXCEPT ![t] = x]
    BY <1>5, <1>10
  <2>2. row = x /\ \A u \in Targets \ {t} : rows'[u] = rows[u]
    BY <1>2, <1>7, <2>1 DEF IInv, RowsTyped
  <2>3. MayLeave(t, row) /\ rows[t] # NoRow /\ (t \in Provisionings => rows[t].status = "pending")
    BY <1>1, <1>5, <2>1, <2>2, LeftIs
  <2>4. t \in Provisionings => q.op = "resolve"
    BY <1>5, <1>6, Apart DEF OpFits, Created
  <2>5. ASSUME q.op = "resolve" PROVE t \in Provisionings /\ Settled(t)'
    <3>1. t \in Provisionings /\ q.input \in [status: {"provisioned", "failed", "canceled"}]
      BY <1>6, <2>5 DEF OpFits
    <3>2. row = [status |-> q.input.status]
      BY <1>1, <2>1, <2>2, <2>5 DEF Left, Resolved
    <3>3. row.status # "pending"
      BY <3>1, <3>2
    <3>4. row # NoRow
      BY <2>3, <3>1 DEF MayLeave, Created
    <3> QED
      BY <1>2, <3>1, <3>3, <3>4 DEF Settled
  <2>6. row \in RowsOf(t) \cup {NoRow}
    BY <2>3 DEF MayLeave
  <2>7. on.target = t /\ on.op = q.op /\ on.row = row
    BY <1>3, <1>6, <2>6, WithRow
  <2>8. next = "idle" => t \in mixed'
    BY <1>5, <1>10
  <2>9. next = "idle" \/ (next \in {"back", "audit"} /\ (next = "back" <=> q.op = "resolve"))
    BY <1>4
  <2> QED
    BY <1>2, <1>5, <1>7, <1>8, <2>2, <2>3, <2>4, <2>5, <2>7, <2>8, <2>9
<1> QED
  BY <1>9, <1>10

LEMMA WriteEndTold ==
    ASSUME IInv, IInv', RecordsTold, NEW r \in Requests, WriteEnd(r)
    PROVE  RecordsTold'
<1>1. PICK q, t : q = req[r] /\ t = q.target
  OBVIOUS
<1>2. /\ t \in Targets /\ t \notin Members \cup Patterns /\ q.op # "use" /\ q.op # "put"
      /\ stage[r] = "write" /\ UNCHANGED <<initials, audit>> /\ mixed \subseteq mixed'
      /\ \A u \in Targets \ {t} : rows'[u] = rows[u]
      /\ \A p \in Requests \ {r} : stage'[p] = stage[p] /\ req'[p] = req[p]
      /\ \/ stage'[r] = "idle" /\ (t \notin mixed' => rows'[t] = rows[t])
         \/ /\ stage'[r] \in {"back", "audit"} /\ req'[r].target = t /\ req'[r].op = q.op
            /\ req'[r].row = rows'[t] /\ (stage'[r] = "back" <=> q.op = "resolve")
            /\ q.op = "resolve" => Settled(t)'
  BY <1>1, WriteEndIs
<1>3. Moves(r, t)
  BY <1>1, <1>2 DEF Moves
<1>4. \A u \in Targets \ {t} :
          EntriesOf(u)' = EntriesOf(u) /\ \A i \in EntriesOf(u) : audit'[i] = audit[i]
  BY <1>2, EntriesStay
<1>5. ASSUME t \notin mixed' PROVE RecordTold(t)'
  <2>1. RecordTold(t) /\ r \in Writers(t) /\ \A p \in Writers(t) : p = r
    BY <1>1, <1>2, <1>5, ActorAlone
  <2>2. Telling(t)
    BY <1>2, <2>1, BeforeWrite DEF WrittenBack
  <2>3. CASE stage'[r] = "idle"
    <3>1. r \notin Writers(t)' /\ rows'[t] = rows[t]
      BY <1>2, <1>5, <2>3 DEF Writers, OnTarget
    <3>2. ActorTold(t, r)'
      BY <1>2, <2>2, <3>1, KeptTold DEF ActorTold
    <3> QED
      BY <1>3, <2>1, <3>2, ActorThenTold
  <2>4. CASE stage'[r] # "idle"
    <3>1. r \in Writers(t)'
      BY <1>2, <2>4 DEF Writers, OnTarget
    <3>2. Knows(t, r)'
      BY <1>2, <2>4 DEF Knows, Settled
    <3>3. ActorTold(t, r)'
      BY <1>2, <2>4, <3>1, <3>2 DEF ActorTold, WrittenBack
    <3> QED
      BY <1>3, <2>1, <3>3, ActorThenTold
  <2> QED
    BY <2>3, <2>4
<1> QED
  BY <1>2, <1>3, <1>4, <1>5, StepTold DEF Targets

LEMMA ReadBackIs ==
    ASSUME IInv, NEW r \in Requests, ReadBack(r), NEW q, q = req[r], NEW t, t = q.target
    PROVE  /\ t \in Targets /\ stage[r] = "back" /\ Shaped(q) /\ OpFits("back", q)
           /\ UNCHANGED <<rows, initials, audit, mixed>>
           /\ \A p \in Requests \ {r} : stage'[p] = stage[p] /\ req'[p] = req[p]
           /\ \/ rows[t] = NoRow /\ stage'[r] = "idle"
              \/ /\ rows[t] # NoRow /\ stage'[r] \in {"initial", "audit"}
                 /\ req'[r].target = t /\ req'[r].op = q.op /\ req'[r].seen = q.seen
                 /\ req'[r].row = rows[t]
                 /\ stage'[r] = "initial" <=> (q.op = "put" /\ t \in Patterns /\ q.seen = NoRow)
<1>1. PICK on : on = [q EXCEPT !.row = rows[t]]
  OBVIOUS
<1>2. PICK first : first = (q.op = "put" /\ t \in Patterns /\ q.seen = NoRow)
  OBVIOUS
<1>3. /\ stage[r] = "back" /\ UNCHANGED <<rows, initials, audit, mixed>>
      /\ IF rows[t] = NoRow THEN Done(r) ELSE To(r, IF first THEN "initial" ELSE "audit", on)
  BY <1>1, <1>2 DEF ReadBack, adminLog
<1>4. Shaped(q) /\ OpFits("back", q)
  BY <1>3, RequestFit
<1>5. t \in Targets /\ rows[t] \in RowsOf(t) \cup {NoRow}
  BY <1>4 DEF IInv, RowsTyped, Shaped
<1>6. on.target = t /\ on.op = q.op /\ on.row = rows[t] /\ on.seen = q.seen
  BY <1>1, <1>4, <1>5, WithRow
<1>7. CASE rows[t] = NoRow
  BY <1>3, <1>4, <1>5, <1>7, ToMoves DEF Done
<1>8. CASE rows[t] # NoRow
  <2>1. PICK s : s = IF first THEN "initial" ELSE "audit"
    OBVIOUS
  <2>2. To(r, s, on)
    BY <1>3, <1>8, <2>1
  <2>3. stage'[r] = s /\ req'[r] = on /\ \A p \in Requests \ {r} : stage'[p] = stage[p] /\ req'[p] = req[p]
    BY <2>2, ToMoves
  <2> QED
    BY <1>2, <1>3, <1>4, <1>5, <1>6, <1>8, <2>1, <2>3
<1> QED
  BY <1>7, <1>8

LEMMA ReadBackTold ==
    ASSUME IInv, IInv', RecordsTold, NEW r \in Requests, ReadBack(r)
    PROVE  RecordsTold'
<1>1. PICK q, t : q = req[r] /\ t = q.target
  OBVIOUS
<1>2. /\ t \in Targets /\ stage[r] = "back" /\ OpFits("back", q)
      /\ UNCHANGED <<rows, initials, audit, mixed>>
      /\ \A p \in Requests \ {r} : stage'[p] = stage[p] /\ req'[p] = req[p]
      /\ \/ rows[t] = NoRow /\ stage'[r] = "idle"
         \/ /\ rows[t] # NoRow /\ stage'[r] \in {"initial", "audit"}
            /\ req'[r].target = t /\ req'[r].op = q.op /\ req'[r].seen = q.seen
            /\ req'[r].row = rows[t]
            /\ stage'[r] = "initial" <=> (q.op = "put" /\ t \in Patterns /\ q.seen = NoRow)
  BY <1>1, ReadBackIs
<1>3. Moves(r, t) /\ q.op # "use"
  BY <1>1, <1>2 DEF Moves, OpFits, WrittenBack
<1>4. \A u \in Targets \ {t} :
          EntriesOf(u)' = EntriesOf(u) /\ \A i \in EntriesOf(u) : audit'[i] = audit[i]
  BY <1>2, EntriesStay
<1>5. ASSUME t \notin mixed' PROVE RecordTold(t)'
  <2>1. RecordTold(t) /\ r \in Writers(t) /\ Knows(t, r) /\ \A p \in Writers(t) : p = r
    BY <1>1, <1>2, <1>3, <1>5, ActorAlone
  <2>2. t \in Members => Chained(t)'
    BY <1>2, <2>1, ChainKept DEF RecordTold
  <2>3. CASE rows[t] = NoRow
    <3>1. stage'[r] = "idle" /\ r \notin Writers(t)'
      BY <1>2, <2>3 DEF Writers, OnTarget
    <3>2. Telling(t)'
      BY <1>2, <2>1, <2>3, KeptTold DEF Knows
    <3>3. ActorTold(t, r)'
      BY <1>2, <2>2, <2>3, <3>1, <3>2 DEF ActorTold
    <3> QED
      BY <1>3, <2>1, <3>3, ActorThenTold
  <2>4. CASE rows[t] # NoRow
    <3>1. r \in Writers(t)'
      BY <1>2, <1>3, <2>4 DEF Writers, OnTarget
    <3>2. t \in Members => Tells(EntriesOf(t), q.seen)'
      BY <1>1, <1>2, <2>1, EntriesStay DEF Knows
    <3>3. Knows(t, r)'
      BY <1>2, <2>4, <3>2 DEF Knows, Tells
    <3>4. ASSUME t \in Patterns PROVE Len(initials[t]) = IF Unrecorded(r)' THEN 0 ELSE 1
      <4>1. Len(initials[t]) = IF Unrecorded(r) THEN 0 ELSE 1
        BY <2>1, <2>4, <3>4 DEF RecordTold, OwnerRecorded
      <4>2. Unrecorded(r) <=> Unrecorded(r)'
        BY <1>1, <1>2, <2>4, <3>4 DEF Unrecorded
      <4> QED
        BY <4>1, <4>2
    <3>5. ActorTold(t, r)'
      BY <1>2, <2>2, <2>4, <3>1, <3>3, <3>4 DEF ActorTold, WrittenBack
    <3> QED
      BY <1>3, <2>1, <3>5, ActorThenTold
  <2> QED
    BY <2>3, <2>4
<1> QED
  BY <1>2, <1>3, <1>4, <1>5, StepTold DEF Targets

LEMMA RecordInitialOwnerTold ==
    ASSUME IInv, IInv', RecordsTold, NEW r \in Requests, RecordInitialOwner(r)
    PROVE  RecordsTold'
<1>1. PICK q, t : q = req[r] /\ t = q.target
  OBVIOUS
<1>2. /\ stage[r] = "initial" /\ To(r, "audit", q) /\ UNCHANGED <<rows, audit, mixed>>
      /\ initials' = [initials EXCEPT ![t] = Append(initials[t], q.row.owner)]
  BY <1>1 DEF RecordInitialOwner, adminLog
<1>3. Shaped(q) /\ OpFits("initial", q)
  BY <1>1, <1>2, RequestFit
<1>4. t \in Patterns /\ t \in Targets /\ q.op = "put"
  BY <1>1, <1>3 DEF OpFits, WrittenBack, Targets
<1>5. /\ stage'[r] = "audit" /\ req'[r] = q
      /\ \A p \in Requests \ {r} : stage'[p] = stage[p] /\ req'[p] = req[p]
  BY <1>2, ToMoves
<1>6. Moves(r, t)
  BY <1>1, <1>5 DEF Moves
<1>7. /\ initials'[t] = Append(initials[t], q.row.owner) /\ initials[t] \in Seq(Units)
      /\ \A u \in Patterns \ {t} : initials'[u] = initials[u]
  BY <1>2, <1>4 DEF IInv, RowsTyped
<1>8. \A u \in Targets \ {t} :
          EntriesOf(u)' = EntriesOf(u) /\ \A i \in EntriesOf(u) : audit'[i] = audit[i]
  BY <1>2, EntriesStay
<1>9. ASSUME t \notin mixed' PROVE RecordTold(t)'
  <2>1. RecordTold(t) /\ r \in Writers(t) /\ Knows(t, r) /\ \A p \in Writers(t) : p = r
    BY <1>1, <1>2, <1>4, <1>9, ActorAlone
  <2>2. r \in Writers(t)' /\ t \notin Members /\ ~Unrecorded(r)'
    BY <1>1, <1>4, <1>5, Apart DEF Writers, OnTarget, Unrecorded
  <2>3. Knows(t, r)'
    BY <1>1, <1>2, <1>5, <2>1, <2>2 DEF Knows
  <2>4. rows[t] # NoRow => Len(initials'[t]) = 1
    <3>1. Unrecorded(r)
      BY <1>1, <1>2, <1>4, <2>1 DEF Unrecorded, Knows
    <3>2. rows[t] # NoRow => Len(initials[t]) = 0
      BY <1>4, <2>1, <3>1 DEF RecordTold, OwnerRecorded
    <3>3. Len(initials'[t]) = Len(initials[t]) + 1
      BY <1>7
    <3> QED
      BY <3>2, <3>3
  <2>5. ActorTold(t, r)'
    BY <1>2, <1>5, <2>2, <2>3, <2>4 DEF ActorTold, WrittenBack
  <2> QED
    BY <1>6, <2>1, <2>5, ActorThenTold
<1> QED
  BY <1>2, <1>4, <1>6, <1>7, <1>8, <1>9, StepTold

LEMMA WriteAuditMoves ==
    ASSUME IInv, NEW r \in Requests, WriteAudit(r), NEW q, q = req[r]
    PROVE  /\ q.target \in Targets /\ stage[r] = "audit" /\ Shaped(q) /\ OpFits("audit", q)
           /\ stage'[r] = "idle" /\ UNCHANGED <<rows, initials, mixed>>
           /\ \A p \in Requests \ {r} : stage'[p] = stage[p] /\ req'[p] = req[p]
<1>1. stage[r] = "audit" /\ Done(r) /\ UNCHANGED <<rows, initials, mixed>>
  BY DEF WriteAudit
<1>2. Shaped(q) /\ OpFits("audit", q)
  BY <1>1, RequestFit
<1>3. stage'[r] = "idle" /\ \A p \in Requests \ {r} : stage'[p] = stage[p] /\ req'[p] = req[p]
  BY <1>1, ToMoves DEF Done
<1> QED
  BY <1>1, <1>2, <1>3 DEF Shaped

\* The entry that a request writes, and its place.
Entered(t, n) ==
    /\ n \in Nat /\ n = Len(audit) + 1
    /\ EntriesOf(t)' = EntriesOf(t) \cup {n}
    /\ \A i \in EntriesOf(t) : audit'[i] = audit[i] /\ i < n /\ i \in Nat
    /\ \A u : u # t => EntriesOf(u)' = EntriesOf(u) /\ \A i \in EntriesOf(u) : audit'[i] = audit[i]
    /\ DOMAIN audit' = DOMAIN audit \cup {n} /\ \A i \in DOMAIN audit : audit'[i] = audit[i]

LEMMA WriteAuditEnters ==
    ASSUME IInv, NEW r \in Requests, WriteAudit(r), NEW q, q = req[r]
    PROVE  \E n : /\ Entered(q.target, n)
                  /\ audit'[n].target = q.target /\ audit'[n].op = q.op
                  /\ audit'[n].before = q.seen /\ audit'[n].row = q.row
<1>1. PICK e, n : /\ e = [target |-> q.target, op |-> q.op, before |-> q.seen, row |-> q.row]
                  /\ n = Len(audit) + 1
  OBVIOUS
<1>2. audit' = Append(audit, e)
  BY <1>1 DEF WriteAudit, EntryOf
<1>3. Shaped(q)
  BY RequestFit DEF WriteAudit
<1>4. /\ e \in Entries /\ e.target = q.target /\ e.op = q.op /\ e.before = q.seen
      /\ e.row = q.row
  <2>1. q.seen \in AnyRow /\ q.row \in AnyRow
    BY <1>3, AnyRowIs DEF Shaped
  <2> QED
    BY <1>1, <1>3, <2>1 DEF Entries, Shaped
<1>5. Written(e) /\ Len(audit) \in Nat /\ DOMAIN audit = 1..Len(audit)
  BY <1>2, <1>4, AppendWrites
<1>6. /\ EntriesOf(e.target)' = EntriesOf(e.target) \cup {n} /\ audit'[n] = e /\ n \in Nat
      /\ \A i \in EntriesOf(e.target) : audit'[i] = audit[i] /\ i < n /\ i \in Nat
  BY <1>1, <1>5, EntriesHere
<1>7. \A u : u # e.target => EntriesOf(u)' = EntriesOf(u) /\ \A i \in EntriesOf(u) : audit'[i] = audit[i]
  BY <1>5, EntriesElsewhere
<1>8. n \in DOMAIN audit'
  BY <1>6 DEF EntriesOf
<1>9. DOMAIN audit' = DOMAIN audit \cup {n} /\ \A i \in DOMAIN audit : audit'[i] = audit[i]
  BY <1>1, <1>5, <1>8 DEF Written
<1>10. Entered(e.target, n)
  BY <1>1, <1>6, <1>7, <1>9 DEF Entered
<1>11. Entered(q.target, n)
  BY <1>4, <1>10
<1> QED
  BY <1>4, <1>6, <1>11

LEMMA WriteAuditTold ==
    ASSUME IInv, IInv', RecordsTold, NEW r \in Requests, WriteAudit(r)
    PROVE  RecordsTold'
<1>1. PICK q, t : q = req[r] /\ t = q.target
  OBVIOUS
<1>2. /\ t \in Targets /\ stage[r] = "audit" /\ OpFits("audit", q)
      /\ stage'[r] = "idle" /\ UNCHANGED <<rows, initials, mixed>>
      /\ \A p \in Requests \ {r} : stage'[p] = stage[p] /\ req'[p] = req[p]
  BY <1>1, WriteAuditMoves
<1>3. PICK n : Entered(t, n) /\ audit'[n].before = q.seen /\ audit'[n].row = q.row
  BY <1>1, WriteAuditEnters
<1>4. /\ n \in Nat /\ EntriesOf(t)' = EntriesOf(t) \cup {n}
      /\ \A i \in EntriesOf(t) : audit'[i] = audit[i] /\ i < n /\ i \in Nat
      /\ \A u : u # t => EntriesOf(u)' = EntriesOf(u) /\ \A i \in EntriesOf(u) : audit'[i] = audit[i]
  BY <1>3 DEF Entered
<1>5. Moves(r, t) /\ q.op # "use"
  BY <1>1, <1>2 DEF Moves, OpFits, WrittenBack
<1>6. ASSUME t \notin mixed' PROVE RecordTold(t)'
  <2>1. RecordTold(t) /\ r \in Writers(t) /\ Knows(t, r) /\ \A p \in Writers(t) : p = r
    BY <1>1, <1>2, <1>5, <1>6, ActorAlone
  <2>2. q.row = rows[t] /\ r \notin Writers(t)'
    BY <1>1, <1>2, <2>1 DEF Knows, Writers, OnTarget
  <2>3. Telling(t)'
    <3>1. ASSUME NEW i \in EntriesOf(t) \cup {n}, \A j \in EntriesOf(t) \cup {n} : j <= i
          PROVE  i = n
      BY <1>4, <3>1
    <3> QED
      BY <1>3, <1>2, <1>4, <2>2, <3>1 DEF Telling, Tells
  <2>4. ASSUME t \in Members PROVE Chained(t)'
    <3>1. ASSUME NEW i \in EntriesOf(t) \cup {n}
          PROVE  Tells({j \in EntriesOf(t) \cup {n} : j < i}, audit[i].before)'
      <4>1. CASE i = n
        <5>1. {j \in EntriesOf(t) \cup {n} : j < i} = EntriesOf(t)
          <6>1. \A j \in EntriesOf(t) : j < i
            BY <1>4, <4>1
          <6>2. ~(i < i)
            BY <1>4, <4>1
          <6>3. i = n
            BY <4>1
          <6> QED
            BY <6>1, <6>2, <6>3
        <5>2. Tells(EntriesOf(t), q.seen)
          BY <1>1, <1>2, <2>1, <2>4 DEF Knows
        <5>3. /\ EntriesOf(t) = {} => q.seen = NoRow
              /\ \A k \in EntriesOf(t) : (\A j \in EntriesOf(t) : j <= k) => audit'[k].row = q.seen
          BY <1>4, <5>2 DEF Tells
        <5> QED
          BY <1>3, <1>4, <4>1, <5>1, <5>3 DEF Tells
      <4>2. CASE i \in EntriesOf(t)
        <5>1. {j \in EntriesOf(t) \cup {n} : j < i} = {j \in EntriesOf(t) : j < i}
          BY <1>4, <4>2
        <5>2. Tells({j \in EntriesOf(t) : j < i}, audit[i].before)
          BY <2>1, <2>4, <4>2 DEF RecordTold, Chained
        <5> QED
          BY <1>4, <4>2, <5>1, <5>2 DEF Tells
      <4> QED
        BY <4>1, <4>2
    <3> QED
      BY <1>4, <3>1 DEF Chained, Tells
  <2>5. t \in Patterns /\ rows[t] # NoRow => Len(initials[t]) = 1
    BY <1>2, <2>1 DEF RecordTold, OwnerRecorded, Unrecorded
  <2>6. ActorTold(t, r)'
    BY <1>2, <2>2, <2>3, <2>4, <2>5 DEF ActorTold
  <2> QED
    BY <1>5, <2>1, <2>6, ActorThenTold
<1> QED
  BY <1>2, <1>4, <1>5, <1>6, StepTold DEF Targets

LEMMA UsesTold ==
    ASSUME IInv, IInv', RecordsTold, NEW r \in Requests, FindKey(r) \/ TouchKey(r) \/ EnqueueWithKey(r)
    PROVE  RecordsTold'
<1>1. PICK q : q = req[r]
  OBVIOUS
<1>2. PICK on : on = [q EXCEPT !.row = rows[q.target]]
  OBVIOUS
<1>3. /\ stage[r] \in {"find", "touch", "enqueue"}
      /\ UNCHANGED <<rows, initials, audit, mixed>>
      /\ Done(r) \/ To(r, "touch", on) \/ To(r, "enqueue", q)
  BY <1>1, <1>2 DEF FindKey, TouchKey, EnqueueWithKey, adminLog
<1>4. Shaped(q) /\ OpFits(stage[r], q)
  BY <1>1, <1>3, RequestFit
<1>5. q.op = "use"
  BY <1>3, <1>4 DEF OpFits, WrittenBack
<1>6. rows[q.target] \in RowsOf(q.target) \cup {NoRow}
  BY <1>4 DEF IInv, RowsTyped, Shaped
<1>7. on.op = "use"
  BY <1>2, <1>4, <1>5, <1>6, WithRow
<1>8. PICK s, o : To(r, s, o) /\ (s = "idle" \/ o.op = "use")
  BY <1>3, <1>5, <1>7 DEF Done
<1>9. /\ stage'[r] = s /\ req'[r] = o
      /\ \A p \in Requests \ {r} : stage'[p] = stage[p] /\ req'[p] = req[p]
  BY <1>8, ToMoves
<1> QED
  BY <1>1, <1>3, <1>5, <1>8, <1>9, UseTold

LEMMA StayTold ==
    ASSUME IInv, IInv', RecordsTold, UNCHANGED <<rows, initials, audit, stage, req, mixed>>
    PROVE  RecordsTold'
<1>1. ASSUME NEW u \in Targets \ mixed'
      PROVE  RecordTold(u)'
  <2>1. RecordTold(u) /\ Writers(u)' = Writers(u)
    BY DEF RecordsTold, Writers, OnTarget
  <2>2. EntriesOf(u)' = EntriesOf(u)
    BY EntriesStay
  <2> QED
    BY <2>1, <2>2, SameTold
<1> QED
  BY <1>1 DEF RecordsTold

-----------------------------------------------------------------------------
(* Owners and resolutions told after each operation.                         *)

OwnersStay ==
    \A t \in Patterns : rows[t] # NoRow => rows'[t] # NoRow /\ rows'[t].owner = rows[t].owner

LEMMA WritePutOwners ==
    ASSUME IInv, NEW r \in Requests, WritePut(r)
    PROVE  OwnersStay
<1>1. PICK q, t : q = req[r] /\ t = q.target
  OBVIOUS
<1>2. PICK row : row = PutRow(t, q.input)
  OBVIOUS
<1>3. /\ stage[r] = "write" /\ q.op = "put"
      /\ rows' = rows \/ rows' = [rows EXCEPT ![t] = row]
  BY <1>1, <1>2 DEF WritePut
<1>4. Shaped(q) /\ OpFits("write", q)
  BY <1>1, <1>3, RequestFit
<1>5. t \in Targets /\ q.input \in InputsOf(t) /\ (t \in Created => rows[t] = NoRow)
  BY <1>1, <1>3, <1>4 DEF OpFits, Shaped
<1>6. row # NoRow
  BY <1>2, <1>5, PutRowFits, NoRowAssumption
<1>7. t \in Patterns /\ rows[t] # NoRow => row.owner = rows[t].owner
  BY <1>2, PutRowIs DEF TemplateRow
<1> QED
  BY <1>3, <1>5, <1>6, <1>7 DEF OwnersStay, IInv, RowsTyped, Targets

\* A step that writes no record and no log, and brings no request past its write.
Plain ==
    /\ UNCHANGED <<rows, initials, audit>>
    /\ \A p \in Requests : stage'[p] \in WrittenBack => stage'[p] = stage[p] /\ req'[p] = req[p]

LEMMA ToPlain ==
    ASSUME IInv, NEW r \in Requests, NEW s, NEW q, To(r, s, q), s \notin WrittenBack,
           UNCHANGED <<rows, initials, audit>>
    PROVE  Plain
  BY ToMoves DEF Plain

LEMMA StartPlain ==
    ASSUME IInv, NEW r \in Requests, NEW t, NEW op, NEW first, NEW input,
           Start(r, t, op, first, input), first \notin WrittenBack
    PROVE  Plain
<1>1. PICK q : q = Begin(t, op, input)
  OBVIOUS
<1>2. To(r, first, q) /\ UNCHANGED <<rows, initials, audit>>
  BY <1>1 DEF Start, Begin, adminLog
<1> QED
  BY <1>2, ToPlain

Writing(r) == \/ WritePut(r) \/ WriteTemplate(r) \/ WriteEnd(r) \/ ReadBack(r)
              \/ RecordInitialOwner(r) \/ WriteAudit(r)

LEMMA OthersPlain ==
    ASSUME IInv, AdminNext, \A r \in Requests : ~Writing(r)
    PROVE  Plain
<1>1. CASE NextDay \/ ListRecords
  BY <1>1 DEF NextDay, ListRecords, adminVars, adminLog, Plain
<1>2. ASSUME NEW r \in Requests, RequestStep(r)
      PROVE  Plain
  <2>1. CASE \/ PutTenant(r) \/ PutSigningRegistration(r) \/ PutTemplate(r) \/ PutRole(r)
             \/ PutIssuer(r) \/ PutIssuerByForm(r) \/ RequestDedicatedDb(r) \/ CreateApiKey(r)
    <3>1. PICK t, first, input : Start(r, t, "put", first, input) /\ first \in {"previous", "write"}
      BY <2>1 DEF PutTenant, PutSigningRegistration, PutTemplate, PutRole, PutIssuer,
                  PutIssuerByForm, RequestDedicatedDb, CreateApiKey
    <3> QED
      BY <3>1, StartPlain DEF WrittenBack
  <2>2. CASE \/ DeleteIssuer(r) \/ DeleteIssuerByForm(r) \/ ResolveDedicatedDb(r)
             \/ RevokeApiKey(r) \/ Archive(r) \/ Unarchive(r) \/ UploadImage(r) \/ QueueWithKey(r)
    <3>1. PICK t, op, first, input :
              Start(r, t, op, first, input) /\ first \in {"previous", "write", "find"}
      BY <2>2 DEF DeleteIssuer, DeleteIssuerByForm, ResolveDedicatedDb, RevokeApiKey, Archive,
                  Unarchive, UploadImage, QueueWithKey
    <3> QED
      BY <3>1, StartPlain DEF WrittenBack
  <2>3. CASE ReadPrevious(r) \/ FindKey(r) \/ TouchKey(r) \/ LoseRequest(r) \/ StoreImage(r)
             \/ EnqueueWithKey(r)
    <3>1. PICK s, q : /\ To(r, s, q) /\ s \in {"idle", "store", "write", "touch", "enqueue"}
                      /\ UNCHANGED <<rows, initials, audit>>
      BY <2>3 DEF ReadPrevious, FindKey, TouchKey, LoseRequest, StoreImage, EnqueueWithKey, Done, adminLog
    <3> QED
      BY <3>1, ToPlain DEF WrittenBack
  <2>4. ~Writing(r)
    OBVIOUS
  <2> QED
    BY <1>2, <2>1, <2>2, <2>3, <2>4 DEF RequestStep, Writing
<1> QED
  BY <1>1, <1>2 DEF AdminNext

LEMMA OwnersKept ==
    ASSUME IInv, OwnersTold, OwnersStay, initials' = initials,
           \A p \in Requests : stage'[p] = "initial" => stage[p] = "initial" /\ req'[p] = req[p]
    PROVE  OwnersTold'
<1>1. \A p \in Requests : stage[p] = "initial" => req[p].target \in Patterns
  BY RequestFit DEF OpFits
<1> QED
  BY <1>1 DEF OwnersTold, OwnersStay

LEMMA OwnersNext ==
    ASSUME IInv, OwnersTold, AdminNext
    PROVE  OwnersTold'
<1>1. ASSUME NEW r \in Requests, WritePut(r)
      PROVE  OwnersTold'
  <2>1. OwnersStay
    BY <1>1, WritePutOwners
  <2>2. PICK s, q : To(r, s, q) /\ s \in {"idle", "back"} /\ initials' = initials
    BY <1>1 DEF WritePut, Done
  <2> QED
    BY <2>1, <2>2, ToMoves, OwnersKept
<1>2. ASSUME NEW r \in Requests, WriteTemplate(r)
      PROVE  OwnersTold'
  <2>1. OwnersStay
    BY <1>2, WriteTemplateIs DEF OwnersStay, Targets
  <2>2. PICK q : To(r, "back", q) /\ initials' = initials
    BY <1>2 DEF WriteTemplate
  <2> QED
    BY <2>1, <2>2, ToMoves, OwnersKept
<1>3. ASSUME NEW r \in Requests, WriteEnd(r)
      PROVE  OwnersTold'
  <2>1. OwnersStay
    BY <1>3, WriteEndIs DEF OwnersStay, Targets
  <2>2. /\ initials' = initials /\ stage'[r] # "initial"
        /\ \A p \in Requests \ {r} : stage'[p] = stage[p] /\ req'[p] = req[p]
    BY <1>3, WriteEndIs
  <2> QED
    BY <2>1, <2>2, OwnersKept
<1>4. ASSUME NEW r \in Requests, ReadBack(r)
      PROVE  OwnersTold'
  <2>1. PICK q, t : q = req[r] /\ t = q.target
    OBVIOUS
  <2>2. /\ UNCHANGED <<rows, initials>>
        /\ \A p \in Requests \ {r} : stage'[p] = stage[p] /\ req'[p] = req[p]
        /\ stage'[r] = "initial" => rows[t] # NoRow /\ req'[r].target = t /\ req'[r].row = rows[t]
    BY <1>4, <2>1, ReadBackIs
  <2> QED
    BY <2>2 DEF OwnersTold
<1>5. ASSUME NEW r \in Requests, RecordInitialOwner(r)
      PROVE  OwnersTold'
  <2>1. PICK q, t : q = req[r] /\ t = q.target
    OBVIOUS
  <2>2. /\ stage[r] = "initial" /\ To(r, "audit", q) /\ rows' = rows
        /\ initials' = [initials EXCEPT ![t] = Append(initials[t], q.row.owner)]
    BY <1>5, <2>1 DEF RecordInitialOwner
  <2>3. Shaped(q) /\ OpFits("initial", q) /\ t \in Patterns
    BY <2>1, <2>2, RequestFit DEF OpFits
  <2>4. q.row.owner \in Units
    <3>1. q.row \in TemplateRows
      BY <2>1, <2>3, RowsAre DEF Shaped, OpFits
    <3> QED
      BY <3>1 DEF TemplateRows
  <2>5. rows[t] # NoRow /\ q.row.owner = rows[t].owner
    BY <2>1, <2>2 DEF OwnersTold
  <2>6. ASSUME NEW u \in Patterns, NEW i \in DOMAIN initials'[u]
        PROVE  rows[u] # NoRow /\ initials'[u][i] = rows[u].owner
    <3>1. initials[u] \in Seq(Units)
      BY DEF IInv, RowsTyped
    <3>2. CASE u = t
      <4>1. initials'[u] = Append(initials[u], q.row.owner)
        BY <2>2, <2>3, <3>2 DEF IInv, RowsTyped
      <4>2. CASE i \in DOMAIN initials[u]
        BY <2>4, <3>1, <4>1, <4>2 DEF OwnersTold
      <4>3. CASE i \notin DOMAIN initials[u]
        <5>1. initials'[u][i] = q.row.owner
          BY <2>4, <2>6, <3>1, <4>1, <4>3
        <5> QED
          BY <2>5, <3>2, <5>1
      <4> QED
        BY <4>2, <4>3
    <3>3. CASE u # t
      <4>1. initials'[u] = initials[u]
        BY <2>2, <2>3, <3>3 DEF IInv, RowsTyped
      <4> QED
        BY <2>6, <4>1 DEF OwnersTold
    <3> QED
      BY <3>2, <3>3
  <2>7. /\ stage'[r] = "audit"
        /\ \A p \in Requests \ {r} : stage'[p] = stage[p] /\ req'[p] = req[p]
    BY <2>2, ToMoves
  <2> QED
    BY <2>2, <2>6, <2>7 DEF OwnersTold
<1>6. ASSUME NEW r \in Requests, WriteAudit(r)
      PROVE  OwnersTold'
  <2>1. To(r, "idle", Idle) /\ UNCHANGED <<rows, initials>>
    BY <1>6 DEF WriteAudit, Done
  <2> QED
    BY <2>1, ToMoves, OwnersKept DEF OwnersStay
<1>7. CASE Plain
  BY <1>7, OwnersKept DEF Plain, OwnersStay, WrittenBack
<1> QED
  BY <1>1, <1>2, <1>3, <1>4, <1>5, <1>6, <1>7, OthersPlain DEF Writing

LEMMA ResolutionsKept ==
    ASSUME IInv, ResolutionsTold, EndedKept, audit' = audit,
           \A p \in Requests : Resolving(p)' =>
               /\ Resolving(p) /\ req'[p].target = req[p].target
               /\ stage'[p] = "audit" => req'[p].row = rows[req[p].target]
    PROVE  ResolutionsTold'
<1>1. \A t : Settled(t) => Settled(t)' /\ rows'[t] = rows[t]
  BY DEF Settled, EndedKept
<1>2. \A t : ResolutionsOf(t)' = ResolutionsOf(t)
  BY DEF ResolutionsOf, EntriesOf
<1>3. ASSUME NEW p \in Requests, Resolving(p)'
      PROVE  ResolvingTold(p)'
  <2>1. PICK t : t = req[p].target
    OBVIOUS
  <2>2. /\ Resolving(p) /\ req'[p].target = t
        /\ stage'[p] = "audit" => req'[p].row = rows[t]
    BY <1>3, <2>1
  <2>3. Settled(t) /\ ResolutionsOf(t) = {}
    BY <2>1, <2>2 DEF ResolutionsTold, ResolvingTold
  <2>4. Settled(t)' /\ ResolutionsOf(t)' = {} /\ rows'[t] = rows[t]
    BY <1>1, <1>2, <2>3
  <2> QED
    BY <2>2, <2>4 DEF ResolvingTold, Settled, ResolutionsOf, EntriesOf
<1>4. OneResolves'
  BY DEF ResolutionsTold, OneResolves
<1>5. ASSUME NEW i \in DOMAIN audit, audit[i].op = "resolve"
      PROVE  ResolutionTold(i)'
  BY <1>1, <1>5 DEF ResolutionsTold, ResolutionTold, Settled
<1>6. OneResolution'
  BY DEF ResolutionsTold, OneResolution
<1> QED
  BY <1>3, <1>4, <1>5, <1>6 DEF ResolutionsTold

LEMMA WriteEndResolutions ==
    ASSUME IInv, ResolutionsTold, NEW r \in Requests, WriteEnd(r)
    PROVE  ResolutionsTold'
<1>1. PICK q, t : q = req[r] /\ t = q.target
  OBVIOUS
<1>2. /\ stage[r] = "write" /\ audit' = audit
      /\ \A p \in Requests \ {r} : stage'[p] = stage[p] /\ req'[p] = req[p]
      /\ \/ stage'[r] = "idle"
         \/ /\ stage'[r] \in {"back", "audit"} /\ req'[r].target = t /\ req'[r].op = q.op
            /\ stage'[r] = "back" <=> q.op = "resolve"
            /\ q.op = "resolve" => rows[t].status = "pending" /\ Settled(t)'
  BY <1>1, WriteEndIs
<1>3. EndedKept
  BY WriteEndKeeps
<1>4. CASE ~Resolving(r)'
  <2>1. ASSUME NEW p \in Requests, Resolving(p)'
        PROVE  /\ Resolving(p) /\ req'[p].target = req[p].target
               /\ stage'[p] = "audit" => req'[p].row = rows[req[p].target]
    <3>1. p # r
      BY <1>4, <2>1
    <3> QED
      BY <1>2, <2>1, <3>1 DEF Resolving, ResolutionsTold, ResolvingTold
  <2> QED
    BY <1>2, <1>3, <2>1, ResolutionsKept
<1>5. CASE Resolving(r)'
  <2>1. q.op = "resolve" /\ req'[r].target = t /\ stage'[r] = "back"
    BY <1>2, <1>5 DEF Resolving
  <2>2. ~Settled(t) /\ Settled(t)'
    BY <1>2, <2>1 DEF Settled
  <2>3. \A u : Settled(u) => Settled(u)' /\ rows'[u] = rows[u]
    BY <1>3 DEF Settled, EndedKept
  <2>4. \A u : ResolutionsOf(u)' = ResolutionsOf(u)
    BY <1>2 DEF ResolutionsOf, EntriesOf
  <2>5. \A p \in Requests \ {r} : Resolving(p)' => Resolving(p) /\ req'[p].target # t
    BY <1>2, <2>2 DEF Resolving, ResolutionsTold, ResolvingTold
  <2>6. ResolutionsOf(t) = {}
    BY <2>2 DEF ResolutionsOf, EntriesOf, ResolutionsTold, ResolutionTold
  <2>7. ResolvingTold(r)'
    BY <2>1, <2>2, <2>4, <2>6 DEF ResolvingTold, Settled, ResolutionsOf, EntriesOf
  <2>8. ASSUME NEW p \in Requests \ {r}, Resolving(p)'
        PROVE  ResolvingTold(p)'
    <3>1. PICK u : u = req[p].target
      OBVIOUS
    <3>2. Resolving(p) /\ stage'[p] = stage[p] /\ req'[p] = req[p]
      BY <1>2, <2>5, <2>8
    <3>3. Settled(u) /\ ResolutionsOf(u) = {} /\ (stage[p] = "audit" => req[p].row = rows[u])
      BY <3>1, <3>2 DEF ResolutionsTold, ResolvingTold
    <3>4. Settled(u)' /\ ResolutionsOf(u)' = {} /\ rows'[u] = rows[u]
      BY <2>3, <2>4, <3>3
    <3> QED
      BY <3>1, <3>2, <3>3, <3>4 DEF ResolvingTold, Settled, ResolutionsOf, EntriesOf
  <2>9. OneResolves'
    <3>1. \A p \in Requests \ {r} : Resolving(p)' => Resolving(p) /\ req'[p] = req[p]
      BY <1>2, <2>5
    <3> QED
      BY <2>1, <2>5, <3>1 DEF ResolutionsTold, OneResolves
  <2>10. ASSUME NEW i \in DOMAIN audit, audit[i].op = "resolve"
         PROVE  ResolutionTold(i)'
    BY <1>2, <2>3, <2>10 DEF ResolutionsTold, ResolutionTold, Settled
  <2>11. OneResolution'
    BY <1>2 DEF ResolutionsTold, OneResolution
  <2> QED
    BY <1>2, <2>7, <2>8, <2>9, <2>10, <2>11 DEF ResolutionsTold
<1> QED
  BY <1>4, <1>5

LEMMA WriteAuditResolutions ==
    ASSUME IInv, ResolutionsTold, NEW r \in Requests, WriteAudit(r)
    PROVE  ResolutionsTold'
<1>1. PICK q, t : q = req[r] /\ t = q.target
  OBVIOUS
<1>2. /\ stage[r] = "audit" /\ stage'[r] = "idle" /\ rows' = rows
      /\ \A p \in Requests \ {r} : stage'[p] = stage[p] /\ req'[p] = req[p]
  BY <1>1, WriteAuditMoves
<1>3. PICK n : /\ Entered(t, n)
               /\ audit'[n].target = t /\ audit'[n].op = q.op /\ audit'[n].row = q.row
  BY <1>1, WriteAuditEnters
<1>4. /\ DOMAIN audit' = DOMAIN audit \cup {n} /\ \A i \in DOMAIN audit : audit'[i] = audit[i]
      /\ EntriesOf(t)' = EntriesOf(t) \cup {n}
      /\ \A i \in EntriesOf(t) : audit'[i] = audit[i]
      /\ \A u : u # t => EntriesOf(u)' = EntriesOf(u) /\ \A i \in EntriesOf(u) : audit'[i] = audit[i]
  BY <1>3 DEF Entered
<1>5. q.op = "resolve" => Resolving(r) /\ Settled(t) /\ ResolutionsOf(t) = {} /\ q.row = rows[t]
  BY <1>1, <1>2 DEF Resolving, ResolutionsTold, ResolvingTold
<1>6. \A p \in Requests : Resolving(p)' =>
          /\ p # r /\ Resolving(p) /\ stage'[p] = stage[p] /\ req'[p] = req[p]
  BY <1>2 DEF Resolving
<1>7. ASSUME NEW p \in Requests, Resolving(p)'
      PROVE  ResolvingTold(p)'
  <2>1. PICK u : u = req[p].target
    OBVIOUS
  <2>2. p # r /\ Resolving(p) /\ stage'[p] = stage[p] /\ req'[p] = req[p]
    BY <1>6, <1>7
  <2>3. Settled(u) /\ ResolutionsOf(u) = {} /\ (stage[p] = "audit" => req[p].row = rows[u])
    BY <2>1, <2>2 DEF ResolutionsTold, ResolvingTold
  <2>4. u = t => q.op # "resolve"
    BY <1>1, <1>5, <2>1, <2>2 DEF ResolutionsTold, OneResolves
  <2>5. ResolutionsOf(u)' = {}
    BY <1>3, <1>4, <2>3, <2>4 DEF ResolutionsOf
  <2> QED
    BY <1>2, <2>1, <2>2, <2>3, <2>5 DEF ResolvingTold, Settled, ResolutionsOf, EntriesOf
<1>8. OneResolves'
  BY <1>6 DEF ResolutionsTold, OneResolves
<1>9. ASSUME NEW i \in DOMAIN audit', audit'[i].op = "resolve"
      PROVE  ResolutionTold(i)'
  <2>1. CASE i = n
    BY <1>2, <1>3, <1>5, <1>9, <2>1 DEF ResolutionTold, Settled
  <2>2. CASE i \in DOMAIN audit
    BY <1>2, <1>4, <1>9, <2>2 DEF ResolutionsTold, ResolutionTold, Settled
  <2> QED
    BY <1>4, <2>1, <2>2
<1>10. OneResolution'
  <2>1. ASSUME NEW i \in DOMAIN audit, audit[i].op = "resolve", audit[i].target = t
        PROVE  q.op # "resolve"
    <3>1. i \in ResolutionsOf(t)
      BY <2>1 DEF ResolutionsOf, EntriesOf
    <3> QED
      BY <1>5, <3>1
  <2>2. ASSUME NEW i \in DOMAIN audit', NEW j \in DOMAIN audit', audit'[i].op = "resolve",
               audit'[j].op = "resolve", audit'[i].target = audit'[j].target
        PROVE  i = j
    <3>1. CASE i \in DOMAIN audit /\ j \in DOMAIN audit
      BY <1>4, <2>2, <3>1 DEF ResolutionsTold, OneResolution
    <3>2. CASE i = n /\ j # n
      BY <1>3, <1>4, <2>1, <2>2, <3>2
    <3>3. CASE j = n /\ i # n
      BY <1>3, <1>4, <2>1, <2>2, <3>3
    <3> QED
      BY <1>4, <3>1, <3>2, <3>3
  <2> QED
    BY <2>2 DEF OneResolution
<1> QED
  BY <1>7, <1>8, <1>9, <1>10 DEF ResolutionsTold

LEMMA ResolutionsNext ==
    ASSUME IInv, ResolutionsTold, AdminNext
    PROVE  ResolutionsTold'
<1>1. EndedKept
  BY NextKeeps
<1>2. ASSUME NEW r \in Requests, WritePut(r) \/ WriteTemplate(r) \/ RecordInitialOwner(r)
      PROVE  ResolutionsTold'
  <2>1. PICK q : q = req[r]
    OBVIOUS
  <2>2. stage[r] \in {"write", "initial"}
    BY <1>2 DEF WritePut, WriteTemplate, RecordInitialOwner
  <2>3. Shaped(q) /\ OpFits(stage[r], q)
    BY <2>1, <2>2, RequestFit
  <2>4. q.op # "resolve"
    BY <1>2, <2>1, <2>3 DEF WritePut, WriteTemplate, RecordInitialOwner, OpFits
  <2>5. audit' = audit /\ (Done(r) \/ To(r, "back", q) \/ To(r, "audit", q))
    BY <1>2, <2>1 DEF WritePut, WriteTemplate, RecordInitialOwner, adminLog
  <2>6. /\ stage'[r] = "idle" \/ req'[r] = q
        /\ \A p \in Requests \ {r} : stage'[p] = stage[p] /\ req'[p] = req[p]
    BY <2>5, ToMoves DEF Done
  <2>7. ASSUME NEW p \in Requests, Resolving(p)'
        PROVE  /\ Resolving(p) /\ req'[p].target = req[p].target
               /\ stage'[p] = "audit" => req'[p].row = rows[req[p].target]
    BY <2>4, <2>6, <2>7 DEF Resolving, ResolutionsTold, ResolvingTold
  <2> QED
    BY <1>1, <2>5, <2>7, ResolutionsKept
<1>3. ASSUME NEW r \in Requests, ReadBack(r)
      PROVE  ResolutionsTold'
  <2>1. PICK q, t : q = req[r] /\ t = q.target
    OBVIOUS
  <2>2. /\ audit' = audit /\ stage[r] = "back"
        /\ \A p \in Requests \ {r} : stage'[p] = stage[p] /\ req'[p] = req[p]
        /\ \/ stage'[r] = "idle"
           \/ req'[r].target = t /\ req'[r].op = q.op /\ req'[r].row = rows[t]
    BY <1>3, <2>1, ReadBackIs
  <2>3. ASSUME NEW p \in Requests, Resolving(p)'
        PROVE  /\ Resolving(p) /\ req'[p].target = req[p].target
               /\ stage'[p] = "audit" => req'[p].row = rows[req[p].target]
    BY <2>1, <2>2, <2>3 DEF Resolving, ResolutionsTold, ResolvingTold
  <2> QED
    BY <1>1, <2>2, <2>3, ResolutionsKept
<1>4. CASE Plain
  <2>1. ASSUME NEW p \in Requests, Resolving(p)'
        PROVE  /\ Resolving(p) /\ req'[p].target = req[p].target
               /\ stage'[p] = "audit" => req'[p].row = rows[req[p].target]
    BY <1>4, <2>1 DEF Plain, Resolving, WrittenBack, ResolutionsTold, ResolvingTold
  <2> QED
    BY <1>1, <1>4, <2>1, ResolutionsKept DEF Plain
<1> QED
  BY <1>2, <1>3, <1>4, OthersPlain, WriteEndResolutions, WriteAuditResolutions DEF Writing

-----------------------------------------------------------------------------
(* The log tells the truth.                                                  *)

LEMMA RecordsNext ==
    ASSUME IInv, IInv', RecordsTold, OwnersTold, AdminNext
    PROVE  RecordsTold'
<1>1. CASE NextDay \/ ListRecords
  BY <1>1, StayTold DEF NextDay, ListRecords, adminVars, adminLog
<1>2. ASSUME NEW r \in Requests, RequestStep(r)
      PROVE  RecordsTold'
  <2>1. CASE \/ PutTenant(r) \/ PutSigningRegistration(r) \/ PutTemplate(r) \/ PutRole(r)
             \/ PutIssuer(r) \/ PutIssuerByForm(r) \/ RequestDedicatedDb(r) \/ CreateApiKey(r)
    BY <2>1, PutsTold
  <2>2. CASE \/ DeleteIssuer(r) \/ DeleteIssuerByForm(r) \/ ResolveDedicatedDb(r) \/ RevokeApiKey(r)
             \/ Archive(r) \/ Unarchive(r) \/ UploadImage(r) \/ QueueWithKey(r)
    BY <2>2, BeginsTold
  <2>3. CASE ReadPrevious(r) \/ ReadBack(r) \/ FindKey(r) \/ TouchKey(r) \/ LoseRequest(r)
             \/ EnqueueWithKey(r)
    BY <2>3, ReadPreviousTold, ReadBackTold, UsesTold, LoseTold
  <2>4. CASE WritePut(r) \/ WriteTemplate(r) \/ WriteEnd(r)
    BY <2>4, WritePutTold, WriteTemplateTold, WriteEndTold
  <2>5. CASE StoreImage(r) \/ RecordInitialOwner(r) \/ WriteAudit(r)
    BY <2>5, StoreImageTold, RecordInitialOwnerTold, WriteAuditTold
  <2> QED
    BY <1>2, <2>1, <2>2, <2>3, <2>4, <2>5 DEF RequestStep
<1> QED
  BY <1>1, <1>2 DEF AdminNext

LEMMA ToldInit ==
    ASSUME AdminInit
    PROVE  ToldInv
<1>1. \A t \in Targets : EntriesOf(t) = {} /\ rows[t] = NoRow /\ Writers(t) = {}
  BY DEF AdminInit, EntriesOf, Writers, OnTarget
<1>2. RecordsTold
  BY <1>1 DEF RecordsTold, RecordTold, AloneOn, Telling, Tells, Chained, OwnerRecorded
<1>3. OwnersTold
  BY DEF AdminInit, OwnersTold
<1>4. ResolutionsTold
  BY DEF AdminInit, ResolutionsTold, Resolving, OneResolves, OneResolution
<1> QED
  BY <1>2, <1>3, <1>4, InitInv DEF ToldInv

LEMMA ToldNext ==
    ASSUME ToldInv, AdminNext
    PROVE  ToldInv'
  BY NextInv, RecordsNext, OwnersNext, ResolutionsNext DEF ToldInv

LEMMA ToldStutter ==
    ASSUME ToldInv, UNCHANGED adminVars
    PROVE  ToldInv'
<1>1. UNCHANGED <<rows, initials, audit, stage, req, mixed>>
  BY DEF adminVars, adminLog
<1>2. IInv'
  BY StutterInv DEF ToldInv
<1>3. RecordsTold'
  BY <1>1, <1>2, StayTold DEF ToldInv
<1>4. OwnersTold'
  BY <1>1, OwnersKept DEF ToldInv, OwnersStay
<1>5. ResolutionsTold'
  <2>1. EndedKept
    BY <1>1 DEF EndedKept
  <2>2. ASSUME NEW p \in Requests, Resolving(p)'
        PROVE  /\ Resolving(p) /\ req'[p].target = req[p].target
               /\ stage'[p] = "audit" => req'[p].row = rows[req[p].target]
    BY <1>1, <2>2 DEF ToldInv, Resolving, ResolutionsTold, ResolvingTold
  <2> QED
    BY <1>1, <2>1, <2>2, ResolutionsKept DEF ToldInv
<1> QED
  BY <1>2, <1>3, <1>4, <1>5 DEF ToldInv

LEMMA AtMostOne ==
    ASSUME NEW S, \A i, j \in S : i = j
    PROVE  Cardinality(S) <= 1
<1>1. CASE S = {}
  BY <1>1, FS_EmptySet
<1>2. CASE S # {}
  <2>1. PICK x : S = {x}
    BY <1>2
  <2> QED
    BY <2>1, FS_Singleton
<1> QED
  BY <1>1, <1>2

LEMMA ToldIsTrue ==
    ASSUME ToldInv
    PROVE  AuditTells
<1>1. NewestEntryTells /\ RoleEntriesChain
  BY DEF ToldInv, RecordsTold, RecordTold, NewestEntryTells, Telling, RoleEntriesChain, Chained, Targets
<1>2. ResolvedOnce
  <2>1. ASSUME NEW p \in Provisionings, NEW told,
               told = {i \in DOMAIN audit : audit[i].target = p /\ audit[i].op = "resolve"}
        PROVE  Cardinality(told) <= 1 /\ \A i \in told : audit[i].row = rows[p]
    <3>1. \A i, j \in told : i = j
      BY <2>1 DEF ToldInv, ResolutionsTold, OneResolution
    <3> QED
      BY <2>1, <3>1, AtMostOne DEF ToldInv, ResolutionsTold, ResolutionTold
  <2> QED
    BY <2>1 DEF ResolvedOnce
<1>3. OneInitialOwner
  <2>1. ASSUME NEW t \in Patterns, t \notin mixed, rows[t] # NoRow, ~Underway(t)
        PROVE  Len(initials[t]) = 1
    <3>1. OwnerRecorded(t)
      BY <2>1 DEF ToldInv, RecordsTold, RecordTold, Targets
    <3>2. \A r \in Writers(t) : ~Unrecorded(r)
      BY <2>1 DEF Underway, Unrecorded, Writers
    <3> QED
      BY <2>1, <3>1, <3>2 DEF OwnerRecorded
  <2> QED
    BY <2>1 DEF OneInitialOwner, ToldInv, OwnersTold
<1> QED
  BY <1>1, <1>2, <1>3 DEF AuditTells

\* The newest entry of the audit log on a record tells the record as it stands, the entries on a
\* member's role form a chain, a dedicated database request is told resolved once, and a template
\* has one initial owner on record, for any number of records and of requests that overlap
\* (createAuditLog after the write, in routes that share no transaction with it).
THEOREM AuditIsTrue == AdminSpec => []AuditTells
<1>1. AdminInit => ToldInv
  BY ToldInit
<1>2. ToldInv /\ [AdminNext]_adminVars => ToldInv'
  BY ToldNext, ToldStutter
<1>3. ToldInv => AuditTells
  BY ToldIsTrue
<1> QED
  BY <1>1, <1>2, <1>3, PTL DEF AdminSpec

-----------------------------------------------------------------------------
(* The grants and the owners of templates. Their invariant, in named parts: *)
(* what a request holds at each place, what a grant's check had seen, who   *)
(* may yet record an expiry, and what a template's history tells.           *)

\* A revocation or a use at these places judges by what it was asked itself.
NextPlaces == {"idle", "readAgain", "found", "selectGrants"}

\* The grant and its template rows are as asked so far.
Giving(place, a) ==
    /\ a.grant \in Existing /\ grant[a.grant].of = a.asked
    /\ place = "recordEvent" => grant[a.grant].templates = a.asked.templates

SeenFit(seen, r) == \A g \in seen : g \in Existing /\ ~Clash(grant[g].of, r)

\* While a request goes through the rows of its SELECT, those it has left may clash.
ComparedFit(seen, due, r) ==
    \A g \in seen : /\ g \in Existing /\ grant[g].templates = grant[g].of.templates
                    /\ g \in due \/ ~Clash(grant[g].of, r)

EndedSomehow(g) == grant[g].of.to < clock \/ grant[g].of.to < latest

GrantFits(place, a) ==
    /\ place \in {"conflicts", "compare", "insertGrant", "insertTemplate"} => a.asked \in Asked
    /\ place = "compare" => ComparedFit(a.seen, a.due, a.asked)
    /\ place = "insertGrant" => SeenFit(a.seen, a.asked)
    /\ place \in {"insertTemplate", "recordEvent"} /\ a.asked # NoAsked => Giving(place, a)
    /\ place \in {"readGrants", "insertExpired", "readAgain", "found", "update"} => a.asked = NoAsked
    /\ place \in {"readAgain", "found", "update"} => a.grant \in Existing
    /\ a.at <= latest /\ (a.now <= clock \/ a.now <= latest)
    /\ place = "insertExpired" =>
           /\ a.next \in NextPlaces /\ \A g \in a.due : g \in Existing /\ EndedSomehow(g)
           /\ a.next \in {"readAgain", "found"} => a.grant \in Existing

\* The reads of grants that come before the places below are of a use.
Deciding == {"selectGrants", "readTemplates", "decideGrant"}
Judging(place, a) == place \in Deciding \/ (place = "insertExpired" /\ a.next = "selectGrants")
Using(place, a) == place \in {"readGrants", "hasScopes", "hasAccess"} \/ Judging(place, a)

\* What was revoked when a use began is not among the rows it judges, which are its user's.
EndedFit(ended) == \A g \in ended : g \in Existing /\ grant[g].revoked # 0
Chosen(g, a) ==
    /\ g \in Existing /\ g \notin a.ended
    /\ grant[g].of.delegate = a.user /\ a.action \in grant[g].of.actions
    /\ grant[g].of.from <= a.now /\ grant[g].of.to >= a.now
ReadWhole(a) == a.whole => a.read = grant[a.grant].of.templates

UseFits(place, a) ==
    /\ Using(place, a) /\ place # "decideGrant" => a.grant = NoGrant
    /\ Judging(place, a) => a.now <= clock
    /\ place = "readGrants" \/ Judging(place, a) => EndedFit(a.ended)
    /\ place \in {"readTemplates", "decideGrant"} => \A g \in a.due : Chosen(g, a)
    /\ place = "decideGrant" => Chosen(a.grant, a) /\ ReadWhole(a)
    /\ place \in {"hasScopes", "hasAccess"} => a.role = "issuer"

OwnerPlaces == {"createTemplate", "setOwner", "recordOwner"}

OwningFits(place, a) ==
    /\ place \notin {"setOwner", "recordOwner"} => a.from = NoUnit
    /\ Using(place, a) \/ place \in OwnerPlaces \cup {"permitted"} => a.template \in Templates
    /\ place \in OwnerPlaces => a.unit \in OrgUnits

CallerFits(place, a) == GrantFits(place, a) /\ UseFits(place, a) /\ OwningFits(place, a)

GrantsSeenFit == \A g \in Existing : SeenFit(grant[g].seen, grant[g].of)

\* Who has yet to record a grant's expiry.
Recorders(g) == {c \in Callers : pc[c] = "insertExpired" /\ g \in held[c].due}

RecordersCounted ==
    \A g \in Grants : events[g].expired + Cardinality(Recorders(g)) <= Cardinality(Callers)

Last(e) == e[Len(e)]
OwnerChain(e) ==
    /\ e # <<>> => e[1].from = NoUnit
    /\ \A i \in 1..(Len(e) - 1) : e[i + 1].from = e[i].to /\ e[i + 1].to # e[i].to

\* How far a transfer, or a creation, that nobody crossed has come.
MoveFits(place, a, e, unit) ==
    /\ place = "setOwner" => a.from = unit /\ e # <<>> /\ Last(e).to = unit /\ a.unit # unit
    /\ place = "recordOwner" =>
           /\ a.unit = unit
           /\ IF e = <<>> THEN a.from = NoUnit ELSE Last(e).to = a.from /\ a.unit # a.from

OwnerFits(t) ==
    /\ owner[t] = NoUnit => Moving(t) = {} /\ ownership[t] = <<>>
    /\ owner[t] # NoUnit /\ t \notin crossed =>
           /\ OwnerChain(ownership[t])
           /\ \A c, d \in Moving(t) : c = d
           /\ Moving(t) = {} => ownership[t] # <<>> /\ Last(ownership[t]).to = owner[t]
           /\ \A c \in Moving(t) : MoveFits(pc[c], held[c], ownership[t], owner[t])

\* Nothing is told of a grant that is not there, and there is an id for each to come.
Unwritten == \A g \in Grants \ Existing : events[g].granted = 0 /\ events[g].expired = 0

SupplyLasts == Cardinality(Existing) + Cardinality(Creating) <= Cardinality(Grants)

GovInv ==
    /\ GovTypeOK
    /\ Unwritten
    /\ SupplyLasts
    /\ \A c \in Callers : CallerFits(pc[c], held[c])
    /\ GrantsSeenFit
    /\ GrantedIsWhole
    /\ ExpiredHasEnded
    /\ RecordersCounted
    /\ \A t \in Templates : OwnerFits(t)

-----------------------------------------------------------------------------
OthersStay(c) == \A d \in Callers \ {c} : pc'[d] = pc[d] /\ held'[d] = held[d]

\* What a step may do to what was read of grants.
Grows ==
    /\ clock <= clock' /\ latest <= latest'
    /\ \A g \in Existing :
           /\ grant'[g] # NoGrantRow
           /\ grant'[g].of = grant[g].of /\ grant'[g].seen = grant[g].seen
           /\ grant[g].templates = grant[g].of.templates => grant'[g].templates = grant[g].templates
           /\ grant[g].revoked # 0 => grant'[g].revoked # 0

LEMMA RowTyped ==
    ASSUME GovTypeOK, NEW g \in Existing
    PROVE  g \in Grants /\ grant[g] \in GrantRow /\ grant[g].of \in AskedRecord
  BY DEF GovTypeOK, Existing, GrantRow

LEMMA NotThere == \A r \in GrantRow : r # NoGrantRow
  BY GovernanceAssumption DEF GrantRow, NoGrantRow

LEMMA IdleTyped == NoLocals \in Locals /\ "idle" \in Places
  BY DEF NoLocals, Locals, Places, Roles

LEMMA GoneTo ==
    ASSUME GovTypeOK, NEW c \in Callers, NEW place \in Places, NEW a \in Locals, Goto(c, place, a)
    PROVE  /\ pc' \in [Callers -> Places] /\ held' \in [Callers -> Locals]
           /\ pc'[c] = place /\ held'[c] = a /\ OthersStay(c)
<1>1. pc \in [Callers -> Places] /\ held \in [Callers -> Locals]
  BY DEF GovTypeOK
<1> QED
  BY <1>1 DEF Goto, OthersStay

LEMMA SeenKept ==
    ASSUME Grows, NEW seen, NEW r, SeenFit(seen, r)
    PROVE  SeenFit(seen, r)'
  BY DEF Grows, SeenFit, Existing

LEMMA ComparedKept ==
    ASSUME Grows, NEW seen, NEW due, NEW r, ComparedFit(seen, due, r)
    PROVE  ComparedFit(seen, due, r)'
  BY DEF Grows, ComparedFit, Existing

LEMMA FitsKept ==
    ASSUME GovTypeOK, clock' \in Nat, latest' \in Nat, Grows,
           NEW place, NEW a \in Locals, CallerFits(place, a)
    PROVE  CallerFits(place, a)'
<1>1. a.at \in Nat /\ a.now \in Nat /\ clock \in Nat /\ latest \in Nat
  BY DEF GovTypeOK, Locals
<1>2. \A g \in Existing : g \in Existing'
  BY DEF Grows, Existing
<1>3. \A g \in Existing : EndedSomehow(g) => EndedSomehow(g)'
  BY <1>1, RowTyped DEF Grows, EndedSomehow, AskedRecord
<1>4. SeenFit(a.seen, a.asked) => SeenFit(a.seen, a.asked)'
  BY SeenKept
<1>5. Giving(place, a) => Giving(place, a)'
  BY <1>2 DEF Giving, Grows
<1>6. a.at <= latest /\ (a.now <= clock \/ a.now <= latest)
  BY DEF CallerFits, GrantFits
<1>7. a.at <= latest' /\ (a.now <= clock' \/ a.now <= latest')
  BY <1>1, <1>6 DEF Grows
<1>8. GrantFits(place, a)'
  <2>1. place = "insertExpired" => \A g \in a.due : (g \in Existing /\ EndedSomehow(g))'
    BY <1>2, <1>3 DEF CallerFits, GrantFits
  <2> QED
    BY <1>2, <1>4, <1>5, <1>7, <2>1, ComparedKept DEF CallerFits, GrantFits
<1>9. UseFits(place, a)'
  <2>1. a.now <= clock => a.now <= clock'
    BY <1>1 DEF Grows
  <2>2. EndedFit(a.ended) => EndedFit(a.ended)'
    BY <1>2 DEF EndedFit, Grows
  <2>3. \A g : Chosen(g, a) => Chosen(g, a)'
    BY <1>2 DEF Chosen, Grows
  <2>4. Chosen(a.grant, a) /\ ReadWhole(a) => ReadWhole(a)'
    BY DEF Chosen, ReadWhole, Grows
  <2> QED
    BY <2>1, <2>2, <2>3, <2>4 DEF Deciding, CallerFits, UseFits, Using, Judging
<1> QED
  BY <1>8, <1>9 DEF Deciding, CallerFits, OwningFits, OwnerPlaces, Using, Judging

LEMMA AllFit ==
    ASSUME GovInv, NEW c \in Callers, GovTypeOK', OthersStay(c), Grows,
           CallerFits(pc[c], held[c])'
    PROVE  \A d \in Callers : CallerFits(pc[d], held[d])'
<1> SUFFICES ASSUME NEW d \in Callers, d # c
             PROVE  CallerFits(pc[d], held[d])'
  OBVIOUS
<1>1. PICK place, a : place = pc[d] /\ a = held[d]
  OBVIOUS
<1>2. CallerFits(place, a) /\ a \in Locals
  BY <1>1 DEF GovInv, GovTypeOK
<1>3. CallerFits(place, a)'
  BY <1>2, FitsKept DEF GovInv, GovTypeOK
<1>4. pc'[d] = place /\ held'[d] = a
  BY <1>1 DEF OthersStay
<1> QED
  BY <1>3, <1>4

LEMMA AllSeenFit ==
    ASSUME GovInv, Grows, Existing' = Existing
    PROVE  GrantsSeenFit'
<1> SUFFICES ASSUME NEW g \in Existing PROVE SeenFit(grant[g].seen, grant[g].of)'
  BY DEF GrantsSeenFit
<1>1. PICK s, r : s = grant[g].seen /\ r = grant[g].of
  OBVIOUS
<1>2. SeenFit(s, r)
  BY <1>1 DEF GovInv, GrantsSeenFit
<1>3. SeenFit(s, r)'
  BY <1>2, SeenKept
<1>4. grant'[g].seen = s /\ grant'[g].of = r
  BY <1>1 DEF Grows
<1> QED
  BY <1>3, <1>4

LEMMA Finite ==
    /\ IsFiniteSet(Callers) /\ Cardinality(Callers) \in Nat
    /\ IsFiniteSet(Existing) /\ Cardinality(Existing) \in Nat /\ Existing \subseteq Grants
    /\ IsFiniteSet(Creating) /\ Cardinality(Creating) \in Nat
    /\ \A g : IsFiniteSet(Recorders(g)) /\ Cardinality(Recorders(g)) \in Nat
    /\ Cardinality(Grants) \in Nat
<1>1. Existing \subseteq Grants /\ Creating \subseteq Callers /\ \A g : Recorders(g) \subseteq Callers
  BY DEF Existing, Creating, Recorders
<1>2. IsFiniteSet(Callers) /\ IsFiniteSet(Grants)
  BY GovernanceAssumption
<1> QED
  BY <1>1, <1>2, FS_Subset, FS_CardinalityType

LEMMA SupplyKept ==
    ASSUME GovInv, Existing' = Existing, Creating' \subseteq Creating
    PROVE  SupplyLasts'
<1>1. Cardinality(Creating') <= Cardinality(Creating) /\ Cardinality(Creating') \in Nat
  BY Finite, FS_Subset, FS_CardinalityType
<1>2. Cardinality(Existing) + Cardinality(Creating) <= Cardinality(Grants)
  BY DEF GovInv, SupplyLasts
<1>3. Cardinality(Existing) + Cardinality(Creating') <= Cardinality(Grants)
  BY <1>1, <1>2, Finite
<1> QED
  BY <1>3 DEF SupplyLasts

\* An expiry nobody has told of yet may become due for one more caller.
LEMMA RecordersKept ==
    ASSUME GovInv, NEW c \in Callers, OthersStay(c),
           \A g \in Grants : events'[g].expired = events[g].expired,
           pc'[c] = "insertExpired" => \A g \in held'[c].due :
               c \in Recorders(g) \/ events[g].expired = 0
    PROVE  RecordersCounted'
<1> SUFFICES ASSUME NEW g \in Grants
             PROVE  events'[g].expired + Cardinality(Recorders(g)') <= Cardinality(Callers)
  BY DEF RecordersCounted
<1>1. events'[g].expired = events[g].expired /\ events[g].expired \in Nat
  BY DEF GovInv, GovTypeOK, Counts
<1>2. Recorders(g)' \subseteq Callers /\ Recorders(g)' \subseteq Recorders(g) \cup {c}
  BY DEF Recorders, OthersStay
<1>3. CASE Recorders(g)' \subseteq Recorders(g)
  <2>1. Cardinality(Recorders(g)') <= Cardinality(Recorders(g)) /\ Cardinality(Recorders(g)') \in Nat
    BY <1>3, Finite, FS_Subset, FS_CardinalityType
  <2>2. events[g].expired + Cardinality(Recorders(g)) <= Cardinality(Callers)
    BY DEF GovInv, RecordersCounted
  <2> QED
    BY <1>1, <2>1, <2>2, Finite
<1>4. CASE ~(Recorders(g)' \subseteq Recorders(g))
  <2>1. c \in Recorders(g)' /\ c \notin Recorders(g)
    BY <1>2, <1>4
  <2>2. events[g].expired = 0
    BY <2>1 DEF Recorders
  <2>3. Cardinality(Recorders(g)') <= Cardinality(Callers) /\ Cardinality(Recorders(g)') \in Nat
    BY <1>2, Finite, FS_Subset, FS_CardinalityType
  <2> QED
    BY <1>1, <2>2, <2>3
<1> QED
  BY <1>3, <1>4

LEMMA OwnerKeptAt ==
    ASSUME NEW t \in Templates, OwnerFits(t), NEW c \in Callers, OthersStay(c),
           owner'[t] = owner[t], ownership'[t] = ownership[t], t \in crossed => t \in crossed',
           c \notin Moving(t), c \notin Moving(t)'
    PROVE  OwnerFits(t)'
<1>1. Moving(t)' = Moving(t)
  BY DEF Moving, OthersStay
<1>2. \A d \in Moving(t) : pc'[d] = pc[d] /\ held'[d] = held[d]
  BY DEF Moving, OthersStay
<1>3. PICK e, unit : e = ownership[t] /\ unit = owner[t]
  OBVIOUS
<1>4. owner'[t] # NoUnit /\ t \notin crossed' => \A d \in Moving(t)' : MoveFits(pc'[d], held'[d], e, unit)
  BY <1>1, <1>2, <1>3 DEF OwnerFits
<1> QED
  BY <1>1, <1>3, <1>4 DEF OwnerFits

LEMMA OwnerFitsKept ==
    ASSUME GovInv, NEW c \in Callers, OthersStay(c), UNCHANGED <<owner, ownership, crossed>>,
           pc[c] \notin {"setOwner", "recordOwner"}, pc'[c] \notin {"setOwner", "recordOwner"}
    PROVE  \A t \in Templates : OwnerFits(t)'
<1> SUFFICES ASSUME NEW t \in Templates PROVE OwnerFits(t)'
  OBVIOUS
<1>1. OwnerFits(t)
  BY DEF GovInv
<1>2. c \notin Moving(t) /\ c \notin Moving(t)'
  BY DEF Moving
<1> QED
  BY <1>1, <1>2, OwnerKeptAt

\* A step that reads, or that begins or ends a request.
LEMMA LocalInv ==
    ASSUME GovInv, NEW c \in Callers, NEW place \in Places, NEW a \in Locals, Goto(c, place, a),
           UNCHANGED <<people, badges, grant, events, clock>>,
           latest' \in Nat, latest <= latest', requests' \in Nat, faults' \in Nat,
           pc[c] \notin {"setOwner", "recordOwner"}, place \notin {"setOwner", "recordOwner"},
           CallerFits(place, a)', Creating' \subseteq Creating \/ SupplyLasts',
           place = "insertExpired" => \A g \in a.due : c \in Recorders(g) \/ events[g].expired = 0
    PROVE  GovInv'
<1>1. /\ GovTypeOK' /\ pc'[c] = place /\ held'[c] = a /\ OthersStay(c)
  BY GoneTo DEF GovInv, GovTypeOK, people, badges
<1>2. Grows /\ Existing' = Existing
  <2>1. clock \in Nat /\ clock' = clock
    BY DEF GovInv, GovTypeOK
  <2> QED
    BY <2>1 DEF Grows, Existing
<1>3. \A d \in Callers : CallerFits(pc[d], held[d])'
  BY <1>1, <1>2, AllFit
<1>4. GrantsSeenFit'
  BY <1>2, AllSeenFit
<1>5. SupplyLasts'
  BY <1>2, SupplyKept
<1>6. RecordersCounted'
  BY <1>1, RecordersKept
<1>7. \A t \in Templates : OwnerFits(t)'
  BY <1>1, OwnerFitsKept DEF badges
<1>8. GrantedIsWhole' /\ Unwritten'
  BY <1>2 DEF GovInv, GrantedIsWhole, Unwritten, Whole
<1>9. ExpiredHasEnded'
  <2> SUFFICES ASSUME NEW g \in Existing, events[g].expired > 0
               PROVE  EndedSomehow(g)'
    BY <1>2 DEF ExpiredHasEnded, EndedSomehow
  <2>1. EndedSomehow(g)
    BY DEF GovInv, ExpiredHasEnded, EndedSomehow
  <2>2. grant[g].of.to \in Nat /\ clock \in Nat /\ latest \in Nat
    BY RowTyped DEF GovInv, GovTypeOK, AskedRecord
  <2> QED
    BY <2>1, <2>2 DEF EndedSomehow
<1> QED
  BY <1>1, <1>3, <1>4, <1>5, <1>6, <1>7, <1>8, <1>9 DEF GovInv

LEMMA ReadInv ==
    ASSUME GovInv, NEW c \in Callers, NEW place \in Places, NEW a \in Locals, Goto(c, place, a),
           UNCHANGED <<people, badges, grants, clock>>, requests' \in Nat, faults' \in Nat,
           pc[c] \notin {"setOwner", "recordOwner"}, place \notin {"setOwner", "recordOwner"},
           place \notin {"conflicts", "compare", "insertGrant"} \/ Creating' \subseteq Creating \/ SupplyLasts',
           CallerFits(place, a), place # "insertExpired"
    PROVE  GovInv'
<1>1. clock \in Nat /\ latest \in Nat /\ clock' = clock /\ latest' = latest
  BY DEF GovInv, GovTypeOK, grants
<1>2. Grows
  BY <1>1 DEF Grows, grants, Existing
<1>3. CallerFits(place, a)'
  BY <1>1, <1>2, FitsKept DEF GovInv
<1>4. pc'[c] = place /\ OthersStay(c)
  BY GoneTo DEF GovInv
<1>5. place \notin {"conflicts", "compare", "insertGrant"} => Creating' \subseteq Creating
  BY <1>4 DEF Creating, OthersStay
<1> QED
  BY <1>1, <1>3, <1>5, LocalInv DEF grants

\* A request that ends, wherever it is but in a transfer.
LEMMA IdleFits ==
    ASSUME GovTypeOK
    PROVE  CallerFits("idle", NoLocals)
<1>1. clock \in Nat /\ latest \in Nat
  BY DEF GovTypeOK
<1>2. NoLocals.at <= latest /\ NoLocals.now <= clock /\ NoLocals.from = NoUnit
  BY <1>1 DEF NoLocals
<1> QED
  BY <1>2 DEF Deciding, CallerFits, GrantFits, UseFits, Using, Judging, OwningFits, OwnerPlaces

LEMMA EndInv ==
    ASSUME GovInv, NEW c \in Callers, End(c),
           UNCHANGED <<people, badges, grants, clock>>, requests' \in Nat, faults' \in Nat,
           pc[c] \notin {"setOwner", "recordOwner"}
    PROVE  GovInv'
<1>1. CallerFits("idle", NoLocals)
  BY IdleFits DEF GovInv
<1> QED
  BY <1>1, IdleTyped, ReadInv DEF End

\* Only what is due by the clock, or by a time a revocation named, will be recorded.
LEMMA ReadExpiredInv ==
    ASSUME GovInv, NEW c \in Callers, NEW now \in Nat, NEW next \in NextPlaces, NEW a \in Locals,
           ReadExpired(c, now, next, a), UNCHANGED <<people, badges, grant, events, clock>>,
           latest' \in Nat, latest <= latest', requests' \in Nat, faults' \in Nat,
           pc[c] \notin {"setOwner", "recordOwner"},
           now <= clock \/ now <= latest',
           next = "selectGrants" => /\ now <= clock /\ a.grant = NoGrant /\ a.template \in Templates
                                    /\ EndedFit(a.ended),
           a.at <= latest', a.asked = NoAsked, a.from = NoUnit,
           next \in {"readAgain", "found"} => a.grant \in Existing
    PROVE  GovInv'
<1>1. /\ clock' = clock /\ clock \in Nat /\ latest \in Nat
      /\ Existing' = Existing /\ grant' = grant /\ events' = events
  BY DEF GovInv, GovTypeOK, Existing
<1>2. next \in Places /\ "insertExpired" \in Places
  BY DEF NextPlaces, Places
<1>5. EndedFit(a.ended) => EndedFit(a.ended)'
  BY <1>1 DEF EndedFit
<1>3. CASE Due(now) = {}
  <2>1. PICK b : b = [a EXCEPT !.now = now]
    OBVIOUS
  <2>2. /\ b \in Locals /\ b.now = now /\ b.asked = NoAsked /\ b.from = NoUnit
        /\ b.grant = a.grant /\ b.at = a.at /\ b.template = a.template /\ b.ended = a.ended
    BY <2>1 DEF Locals
  <2>3. Goto(c, next, b)
    BY <1>3, <2>1 DEF ReadExpired
  <2>4. next \notin {"conflicts", "compare", "insertGrant", "setOwner", "recordOwner", "insertExpired"}
    BY DEF NextPlaces
  <2>5. pc'[c] = next /\ OthersStay(c)
    BY <1>2, <2>2, <2>3, GoneTo DEF GovInv
  <2>6. Creating' \subseteq Creating
    BY <2>4, <2>5 DEF Creating, OthersStay
  <2>7. CallerFits(next, b)'
    BY <1>1, <1>5, <2>2
       DEF NextPlaces, Deciding, CallerFits, GrantFits, UseFits, Using, Judging, OwningFits, OwnerPlaces
  <2> QED
    BY <1>2, <2>2, <2>3, <2>4, <2>6, <2>7, LocalInv
<1>4. CASE Due(now) # {}
  <2>1. PICK b : b = [a EXCEPT !.now = now, !.due = Due(now), !.next = next]
    OBVIOUS
  <2>2. Due(now) \subseteq Grants
    BY DEF Due, Existing
  <2>3. /\ b \in Locals /\ b.now = now /\ b.asked = NoAsked /\ b.from = NoUnit
        /\ b.grant = a.grant /\ b.at = a.at /\ b.due = Due(now) /\ b.next = next
        /\ b.template = a.template /\ b.ended = a.ended
    BY <1>2, <2>1, <2>2 DEF Locals
  <2>4. Goto(c, "insertExpired", b)
    BY <1>4, <2>1 DEF ReadExpired
  <2>5. pc'[c] = "insertExpired" /\ OthersStay(c)
    BY <1>2, <2>3, <2>4, GoneTo DEF GovInv
  <2>6. Creating' \subseteq Creating
    BY <2>5 DEF Creating, OthersStay
  <2>7. \A g \in Due(now) : g \in Existing /\ EndedSomehow(g)' /\ events[g].expired = 0
    BY <1>1, RowTyped DEF Due, EndedSomehow, GovInv, AskedRecord
  <2>8. CallerFits("insertExpired", b)'
    BY <1>1, <1>5, <2>3, <2>7
       DEF Deciding, CallerFits, GrantFits, UseFits, Using, Judging, OwningFits, OwnerPlaces
  <2> QED
    BY <1>2, <2>3, <2>4, <2>6, <2>7, <2>8, LocalInv
<1> QED
  BY <1>3, <1>4

\* What holds of a request at its place, by its place and locals.
LEMMA AtPlace ==
    ASSUME GovInv, NEW c \in Callers
    PROVE  \E place \in Places, a \in Locals :
              place = pc[c] /\ a = held[c] /\ CallerFits(place, a)
  BY DEF GovInv, GovTypeOK

LEMMA BoundsTyped ==
    ASSUME GovInv
    PROVE  /\ requests \in Nat /\ requests + 1 \in Nat /\ faults \in Nat
           /\ clock \in Nat /\ latest \in Nat
  BY DEF GovInv, GovTypeOK

LEMMA ListGrantsInv ==
    ASSUME GovInv, NEW c \in Callers, ListGrants(c)
    PROVE  GovInv'
<1>1. /\ pc[c] = "idle" /\ UNCHANGED <<people, badges, grant, events, clock>>
      /\ latest' = latest /\ requests' = requests /\ faults' = faults
  BY DEF ListGrants, grants, bounds
<1>2. NoLocals.at = 0 /\ NoLocals.asked = NoAsked /\ NoLocals.from = NoUnit
  BY DEF NoLocals
<1>3. CASE ReadExpired(c, clock, "idle", NoLocals)
  BY <1>1, <1>2, <1>3, IdleTyped, BoundsTyped, ReadExpiredInv DEF NextPlaces
<1>4. CASE UNCHANGED <<pc, held>>
  <2>1. Goto(c, pc[c], held[c])
    BY <1>4 DEF Goto, GovInv, GovTypeOK
  <2>2. PICK place \in Places, a \in Locals : place = pc[c] /\ a = held[c] /\ CallerFits(place, a)
    BY AtPlace
  <2>3. UNCHANGED grants
    BY <1>1 DEF grants
  <2> QED
    BY <1>1, <2>1, <2>2, <2>3, BoundsTyped, ReadInv
<1> QED
  BY <1>3, <1>4 DEF ListGrants

LEMMA BeginGrantInv ==
    ASSUME GovInv, NEW c \in Callers, NEW r \in Asked, BeginGrant(c, r)
    PROVE  GovInv'
<1>1. PICK a : a = [NoLocals EXCEPT !.asked = r]
  OBVIOUS
<1>2. /\ pc[c] = "idle" /\ UNCHANGED <<people, badges, grants, clock, faults>>
      /\ requests' = requests + 1 /\ MoreGrants /\ Goto(c, "conflicts", a)
  BY <1>1 DEF BeginGrant, CountRequest
<1>3. /\ a \in Locals /\ a.asked = r /\ a.at = 0 /\ a.now = 0 /\ a.from = NoUnit
  BY <1>1, IdleTyped DEF Locals, NoLocals
<1>4. CallerFits("conflicts", a)
  BY <1>3, BoundsTyped DEF Deciding, CallerFits, GrantFits, UseFits, Using, Judging, OwningFits, OwnerPlaces
<1>5. "conflicts" \in Places
  BY DEF Places
<1>6. SupplyLasts'
  <2>1. OthersStay(c) /\ pc'[c] = "conflicts"
    BY <1>2, <1>3, <1>5, GoneTo DEF GovInv
  <2>2. Creating' \subseteq Creating \cup {c}
    BY <2>1 DEF Creating, OthersStay
  <2>3. /\ Cardinality(Creating \cup {c}) <= Cardinality(Creating) + 1
        /\ IsFiniteSet(Creating \cup {c}) /\ Cardinality(Creating \cup {c}) \in Nat
    <3>1. IsFiniteSet(Creating) /\ Cardinality(Creating) \in Nat
      BY Finite
    <3>2. IsFiniteSet(Creating \cup {c}) /\ Cardinality(Creating \cup {c}) \in Nat
      BY <3>1, FS_AddElement, FS_CardinalityType
    <3>3. Cardinality(Creating \cup {c}) = Cardinality(Creating) \/
          Cardinality(Creating \cup {c}) = Cardinality(Creating) + 1
      BY <3>1, FS_AddElement
    <3> QED
      BY <3>1, <3>2, <3>3
  <2>4. Cardinality(Creating') <= Cardinality(Creating \cup {c}) /\ Cardinality(Creating') \in Nat
    BY <2>2, <2>3, FS_Subset, FS_CardinalityType
  <2>5. Cardinality(Existing) + Cardinality(Creating) < Cardinality(Grants)
    BY <1>2 DEF MoreGrants
  <2>6. Cardinality(Existing) + Cardinality(Creating') <= Cardinality(Grants)
    BY <2>3, <2>4, <2>5, Finite
  <2>7. Existing' = Existing
    BY <1>2 DEF Existing, grants
  <2> QED
    BY <2>6, <2>7 DEF SupplyLasts
<1> QED
  BY <1>2, <1>3, <1>4, <1>5, <1>6, BoundsTyped, ReadInv

LEMMA CheckConflictsInv ==
    ASSUME GovInv, NEW c \in Callers, CheckConflicts(c)
    PROVE  GovInv'
<1>1. /\ pc[c] = "conflicts" /\ UNCHANGED <<people, badges, grants, clock>>
      /\ requests' = requests /\ faults' = faults
  BY DEF CheckConflicts, bounds
<1>2. PICK place \in Places, a \in Locals : place = pc[c] /\ a = held[c] /\ CallerFits(place, a)
  BY AtPlace
<1>3. PICK selected, seen : /\ selected = {g \in Existing : Overlapping(g, a.asked)}
                            /\ seen = {g \in Existing : Whole(g) /\ grant[g].revoked = 0}
  OBVIOUS
<1>4. PICK next, b : /\ next = (IF selected = {} THEN "insertGrant" ELSE "compare")
                     /\ b = [a EXCEPT !.due = selected, !.seen = seen]
  OBVIOUS
<1>5. Goto(c, next, b)
  BY <1>2, <1>3, <1>4 DEF CheckConflicts
<1>6. selected \in SUBSET Grants /\ seen \in SUBSET Grants /\ next \in {"compare", "insertGrant"} /\ next \in Places
  BY <1>3, <1>4 DEF Existing, Places
<1>7. /\ b \in Locals /\ b.seen = seen /\ b.due = selected /\ b.asked = a.asked
      /\ b.at = a.at /\ b.now = a.now /\ b.from = a.from
  BY <1>4, <1>6 DEF Locals
<1>8. a.asked \in Asked /\ a.asked \in AskedRecord
  BY <1>1, <1>2, GovernanceAssumption DEF CallerFits, GrantFits
<1>9. ComparedFit(seen, selected, a.asked)
  <2> SUFFICES ASSUME NEW g \in seen, g \notin selected PROVE ~Clash(grant[g].of, a.asked)
    BY <1>3 DEF ComparedFit, GovInv, GrantedIsWhole
  <2>1. g \in Existing /\ grant[g].revoked = 0 /\ ~Overlapping(g, a.asked)
    BY <1>3
  <2>2. /\ grant[g].of.from \in Nat /\ grant[g].of.to \in Nat
        /\ a.asked.from \in Nat /\ a.asked.to \in Nat
    BY <1>8, <2>1, RowTyped DEF AskedRecord, GovInv
  <2> QED
    BY <2>1, <2>2 DEF Overlapping, Clash
<1>10. next = "insertGrant" => SeenFit(seen, a.asked)
  BY <1>4, <1>9 DEF ComparedFit, SeenFit
<1>11. CallerFits(next, b)
  BY <1>1, <1>2, <1>6, <1>7, <1>8, <1>9, <1>10
     DEF Deciding, CallerFits, GrantFits, UseFits, Using, Judging, OwningFits, OwnerPlaces
<1>12. Creating' \subseteq Creating
  <2>1. OthersStay(c)
    BY <1>5, <1>6, <1>7, GoneTo DEF GovInv
  <2> QED
    BY <1>1, <2>1 DEF Creating, OthersStay
<1> QED
  BY <1>1, <1>5, <1>6, <1>7, <1>11, <1>12, BoundsTyped, ReadInv

\* A row without a template in common does not clash, if it was read whole.
LEMMA CompareGrantInv ==
    ASSUME GovInv, NEW c \in Callers, CompareGrant(c)
    PROVE  GovInv'
<1>1. /\ pc[c] = "compare" /\ UNCHANGED <<people, badges, grants, clock>>
      /\ requests' = requests /\ faults' = faults
  BY DEF CompareGrant, bounds
<1>2. PICK place \in Places, a \in Locals : place = pc[c] /\ a = held[c] /\ CallerFits(place, a)
  BY AtPlace
<1>3. CASE End(c)
  BY <1>1, <1>3, BoundsTyped, EndInv
<1>4. ASSUME NEW g \in a.due, ~Conflicts(g, a.asked),
             Goto(c, IF a.due \ {g} = {} THEN "insertGrant" ELSE "compare", [a EXCEPT !.due = a.due \ {g}])
      PROVE  GovInv'
  <2>1. PICK left, next, b : /\ left = a.due \ {g}
                             /\ next = (IF left = {} THEN "insertGrant" ELSE "compare")
                             /\ b = [a EXCEPT !.due = left]
    OBVIOUS
  <2>2. Goto(c, next, b) /\ next \in {"compare", "insertGrant"} /\ next \in Places
    BY <1>4, <2>1 DEF Places
  <2>3. /\ b \in Locals /\ b.seen = a.seen /\ b.due = left /\ b.asked = a.asked
        /\ b.at = a.at /\ b.now = a.now /\ b.from = a.from
    BY <2>1 DEF Locals
  <2>4. ComparedFit(a.seen, a.due, a.asked) /\ a.asked \in Asked
    BY <1>1, <1>2 DEF CallerFits, GrantFits
  <2>5. ComparedFit(a.seen, left, a.asked)
    <3> SUFFICES ASSUME NEW h \in a.seen, h = g PROVE ~Clash(grant[h].of, a.asked)
      BY <2>1, <2>4 DEF ComparedFit
    <3>1. grant[g].templates = grant[g].of.templates
      BY <2>4 DEF ComparedFit
    <3> QED
      BY <1>4, <3>1 DEF Conflicts, Clash
  <2>6. next = "insertGrant" => SeenFit(a.seen, a.asked)
    BY <2>1, <2>5 DEF ComparedFit, SeenFit
  <2>7. CallerFits(next, b)
    BY <1>1, <1>2, <2>2, <2>3, <2>4, <2>5, <2>6
       DEF Deciding, CallerFits, GrantFits, UseFits, Using, Judging, OwningFits, OwnerPlaces
  <2>8. Creating' \subseteq Creating
    <3>1. OthersStay(c)
      BY <2>2, <2>3, GoneTo DEF GovInv
    <3> QED
      BY <1>1, <3>1 DEF Creating, OthersStay
  <2> QED
    BY <1>1, <2>2, <2>3, <2>7, <2>8, BoundsTyped, ReadInv
<1> QED
  BY <1>2, <1>3, <1>4 DEF CompareGrant

LEMMA ReadLastInv ==
    ASSUME GovInv, NEW c \in Callers, ReadLast(c)
    PROVE  GovInv'
<1>1. /\ pc[c] = "readLast" /\ UNCHANGED <<people, badges, grants, clock>>
      /\ latest' = latest /\ requests' = requests /\ faults' = faults
  BY DEF ReadLast, bounds, grants
<1>2. NoLocals.at = 0 /\ NoLocals.asked = NoAsked /\ NoLocals.from = NoUnit
  BY DEF NoLocals
<1>3. PICK place \in Places, a \in Locals : place = pc[c] /\ a = held[c] /\ CallerFits(place, a)
  BY AtPlace
<1>4. a.now \in Nat /\ (a.now <= clock \/ a.now <= latest)
  BY <1>3 DEF CallerFits, GrantFits, Locals
<1>5. CASE End(c)
  BY <1>1, <1>5, BoundsTyped, EndInv
<1>6. CASE ReadExpired(c, a.now, "idle", NoLocals)
  <2>1. UNCHANGED <<grant, events>>
    BY <1>1 DEF grants
  <2> QED
    BY <1>1, <1>2, <1>4, <1>6, <2>1, IdleTyped, BoundsTyped, ReadExpiredInv DEF NextPlaces
<1> QED
  BY <1>3, <1>5, <1>6 DEF ReadLast

LEMMA BeginRevokeInv ==
    ASSUME GovInv, NEW c \in Callers, NEW g \in Grants, NEW when \in Times, BeginRevoke(c, g, when)
    PROVE  GovInv'
<1>1. PICK a : a = [NoLocals EXCEPT !.grant = g, !.at = when]
  OBVIOUS
<1>2. /\ pc[c] = "idle" /\ UNCHANGED <<people, badges, grant, events, clock>>
      /\ requests' = requests + 1 /\ faults' = faults
      /\ g \in Existing /\ latest' = (IF when > latest THEN when ELSE latest)
      /\ ReadExpired(c, clock, "readAgain", a)
  BY <1>1 DEF BeginRevoke, CountRequest
<1>3. when \in Nat
  BY GovernanceAssumption
<1>4. a \in Locals /\ a.grant = g /\ a.at = when /\ a.asked = NoAsked /\ a.from = NoUnit
  BY <1>1, <1>3, IdleTyped DEF Locals, NoLocals
<1>5. latest' \in Nat /\ latest <= latest' /\ when <= latest'
  BY <1>2, <1>3, BoundsTyped
<1> QED
  BY <1>2, <1>4, <1>5, BoundsTyped, ReadExpiredInv DEF NextPlaces

LEMMA ReadAgainInv ==
    ASSUME GovInv, NEW c \in Callers, ReadAgain(c)
    PROVE  GovInv'
<1>1. /\ pc[c] = "readAgain" /\ UNCHANGED <<people, badges, grant, events, clock>>
      /\ latest' = latest /\ requests' = requests /\ faults' = faults
  BY DEF ReadAgain, bounds, grants
<1>2. PICK place \in Places, a \in Locals : place = pc[c] /\ a = held[c] /\ CallerFits(place, a)
  BY AtPlace
<1>3. /\ a.at \in Nat /\ a.at <= latest /\ a.asked = NoAsked /\ a.grant \in Existing /\ a.from = NoUnit
  BY <1>1, <1>2 DEF CallerFits, GrantFits, OwningFits, Locals
<1>4. ReadExpired(c, a.at, "found", a)
  BY <1>2 DEF ReadAgain
<1> QED
  BY <1>1, <1>3, <1>4, BoundsTyped, ReadExpiredInv DEF NextPlaces

LEMMA FoundInv ==
    ASSUME GovInv, NEW c \in Callers, Found(c)
    PROVE  GovInv'
<1>1. /\ pc[c] = "found" /\ UNCHANGED <<people, badges, grants, clock>>
      /\ requests' = requests /\ faults' = faults
  BY DEF Found, bounds
<1>2. PICK place \in Places, a \in Locals : place = pc[c] /\ a = held[c] /\ CallerFits(place, a)
  BY AtPlace
<1>3. CASE End(c)
  BY <1>1, <1>3, BoundsTyped, EndInv
<1>4. CASE Goto(c, "update", a)
  <2>1. CallerFits("update", a)
    BY <1>1, <1>2 DEF Deciding, CallerFits, GrantFits, UseFits, Using, Judging, OwningFits, OwnerPlaces
  <2> QED
    BY <1>1, <1>4, <2>1, BoundsTyped, ReadInv DEF Places
<1> QED
  BY <1>2, <1>3, <1>4 DEF Found, Continue

LEMMA BeginUseInv ==
    ASSUME GovInv, NEW c \in Callers, NEW u \in Users, NEW t \in Templates, NEW action \in Actions,
           BeginUse(c, u, t, action)
    PROVE  GovInv'
<1>0. PICK over : over = {g \in Existing : grant[g].revoked # 0}
  OBVIOUS
<1>1. PICK a : a = [NoLocals EXCEPT !.user = u, !.role = role[u], !.template = t,
                                    !.action = action, !.unit = owner[t], !.ended = over]
  OBVIOUS
<1>2. PICK place : place = (IF role[u] = "admin" THEN "permitted" ELSE "readGrants")
  OBVIOUS
<1>3. /\ pc[c] = "idle" /\ UNCHANGED <<people, badges, grants, clock, faults>>
      /\ requests' = requests + 1 /\ Goto(c, place, a)
  BY <1>0, <1>1, <1>2 DEF BeginUse, CountRequest
<1>4. role[u] \in Roles /\ owner[t] \in OrgUnits \cup {NoUnit}
  BY DEF GovInv, GovTypeOK
<1>5. /\ a \in Locals /\ a.grant = NoGrant /\ a.from = NoUnit /\ a.at = 0 /\ a.now = 0
      /\ a.asked = NoAsked /\ a.template = t /\ a.ended = over /\ EndedFit(over)
  <2>1. over \in SUBSET Grants /\ EndedFit(over)
    BY <1>0 DEF Existing, EndedFit
  <2> QED
    BY <1>1, <1>4, <2>1, IdleTyped DEF Locals, NoLocals
<1>6. CallerFits(place, a)
  BY <1>2, <1>5, BoundsTyped
     DEF Deciding, CallerFits, GrantFits, UseFits, Using, Judging, OwningFits, OwnerPlaces
<1> QED
  BY <1>2, <1>3, <1>5, <1>6, BoundsTyped, ReadInv DEF Places

LEMMA BeginEditInv ==
    ASSUME GovInv, NEW c \in Callers, NEW u \in Users, NEW t \in Templates, NEW unit \in OrgUnits,
           BeginEdit(c, u, t, unit)
    PROVE  GovInv'
<1>1. PICK a : a = [NoLocals EXCEPT !.user = u, !.role = role[u], !.template = t, !.unit = unit]
  OBVIOUS
<1>2. PICK place : place = (IF role[u] = "admin" THEN "permitted" ELSE "hasScopes")
  OBVIOUS
<1>3. /\ pc[c] = "idle" /\ UNCHANGED <<people, badges, grants, clock, faults>>
      /\ requests' = requests + 1 /\ Goto(c, place, a) /\ role[u] \in {"admin", "issuer"}
  BY <1>1, <1>2 DEF BeginEdit, CountRequest
<1>4. role[u] \in Roles
  BY DEF GovInv, GovTypeOK
<1>5. /\ a \in Locals /\ a.grant = NoGrant /\ a.from = NoUnit /\ a.at = 0 /\ a.now = 0
      /\ a.role = role[u] /\ a.template = t
  BY <1>1, <1>4, IdleTyped DEF Locals, NoLocals
<1>6. CallerFits(place, a)
  BY <1>2, <1>3, <1>5, BoundsTyped
     DEF Deciding, CallerFits, GrantFits, UseFits, Using, Judging, OwningFits, OwnerPlaces
<1> QED
  BY <1>2, <1>3, <1>5, <1>6, BoundsTyped, ReadInv DEF Places

LEMMA ReadGrantsInv ==
    ASSUME GovInv, NEW c \in Callers, ReadGrants(c)
    PROVE  GovInv'
<1>1. /\ pc[c] = "readGrants" /\ UNCHANGED <<people, badges, grant, events, clock>>
      /\ latest' = latest /\ requests' = requests /\ faults' = faults
  BY DEF ReadGrants, bounds, grants
<1>2. PICK place \in Places, a \in Locals : place = pc[c] /\ a = held[c] /\ CallerFits(place, a)
  BY AtPlace
<1>3. /\ a.at <= latest /\ a.asked = NoAsked /\ a.from = NoUnit /\ a.grant = NoGrant
      /\ a.template \in Templates /\ EndedFit(a.ended)
  BY <1>1, <1>2 DEF CallerFits, GrantFits, UseFits, Using, OwningFits
<1>4. ReadExpired(c, clock, "selectGrants", a)
  BY <1>2 DEF ReadGrants
<1> QED
  BY <1>1, <1>3, <1>4, BoundsTyped, ReadExpiredInv DEF NextPlaces

\* A use goes on to the rows that are left, or to the scopes of an issuer, or ends.
LEMMA NextRowInv ==
    ASSUME GovInv, NEW c \in Callers, pc[c] \in Deciding, NEW left \in SUBSET Grants, NextRow(c, left),
           \A g \in left : Chosen(g, held[c]),
           UNCHANGED <<people, badges, grants, clock>>, requests' \in Nat, faults' \in Nat
    PROVE  GovInv'
<1>1. PICK place \in Places, a \in Locals : place = pc[c] /\ a = held[c] /\ CallerFits(place, a)
  BY AtPlace
<1>2. pc[c] \notin {"setOwner", "recordOwner"} /\ NoGrant \in Grants \cup {NoGrant}
  BY DEF Deciding
<1>3. CASE End(c)
  BY <1>2, <1>3, EndInv
<1>4. CASE /\ a.role = "issuer"
           /\ Goto(c, "hasScopes", [a EXCEPT !.due = {}, !.grant = NoGrant, !.read = {},
                                             !.whole = FALSE, !.ended = {}])
  <2>1. PICK b : b = [a EXCEPT !.due = {}, !.grant = NoGrant, !.read = {}, !.whole = FALSE, !.ended = {}]
    OBVIOUS
  <2>2. /\ b \in Locals /\ b.role = a.role /\ b.grant = NoGrant /\ b.at = a.at /\ b.now = a.now
        /\ b.from = a.from /\ b.template = a.template /\ b.asked = a.asked
    BY <2>1 DEF Locals
  <2>3. CallerFits("hasScopes", b)
    BY <1>1, <1>4, <2>2 DEF Deciding, CallerFits, GrantFits, UseFits, Using, Judging, OwningFits, OwnerPlaces
  <2> QED
    BY <1>2, <1>4, <2>1, <2>2, <2>3, ReadInv DEF Places
<1>5. CASE Goto(c, "readTemplates", [a EXCEPT !.due = left, !.grant = NoGrant, !.read = {}, !.whole = FALSE])
  <2>1. PICK b : b = [a EXCEPT !.due = left, !.grant = NoGrant, !.read = {}, !.whole = FALSE]
    OBVIOUS
  <2>2. /\ b \in Locals /\ b.due = left /\ b.grant = NoGrant /\ b.at = a.at /\ b.now = a.now
        /\ b.from = a.from /\ b.template = a.template /\ b.asked = a.asked /\ b.ended = a.ended
        /\ b.user = a.user /\ b.action = a.action
    BY <2>1 DEF Locals
  <2>3. \A g \in left : Chosen(g, b)
    BY <1>1, <2>2 DEF Chosen
  <2>4. CallerFits("readTemplates", b)
    BY <1>1, <2>2, <2>3 DEF Deciding, CallerFits, GrantFits, UseFits, Using, Judging, OwningFits, OwnerPlaces
  <2> QED
    BY <1>2, <1>5, <2>1, <2>2, <2>4, ReadInv DEF Places
<1> QED
  BY <1>1, <1>3, <1>4, <1>5 DEF NextRow, WithoutGrant

LEMMA SelectGrantsInv ==
    ASSUME GovInv, NEW c \in Callers, SelectGrants(c)
    PROVE  GovInv'
<1>1. /\ pc[c] = "selectGrants" /\ UNCHANGED <<people, badges, grants, clock>>
      /\ requests' = requests /\ faults' = faults
  BY DEF SelectGrants, bounds
<1>2. PICK place \in Places, a \in Locals : place = pc[c] /\ a = held[c] /\ CallerFits(place, a)
  BY AtPlace
<1>3. PICK selected : selected = {g \in Existing : Active(g, a)}
  OBVIOUS
<1>4. selected \in SUBSET Grants /\ NextRow(c, selected)
  BY <1>2, <1>3 DEF SelectGrants, Existing
<1>5. EndedFit(a.ended)
  BY <1>1, <1>2 DEF CallerFits, UseFits, Judging, Deciding
<1>6. \A g \in selected : Chosen(g, a)
  BY <1>3, <1>5 DEF Active, Chosen, EndedFit
<1> QED
  BY <1>1, <1>2, <1>4, <1>6, BoundsTyped, NextRowInv DEF Deciding

LEMMA ReadTemplatesInv ==
    ASSUME GovInv, NEW c \in Callers, ReadTemplates(c)
    PROVE  GovInv'
<1>1. /\ pc[c] = "readTemplates" /\ UNCHANGED <<people, badges, grants, clock>>
      /\ requests' = requests /\ faults' = faults
  BY DEF ReadTemplates, bounds
<1>2. PICK place \in Places, a \in Locals : place = pc[c] /\ a = held[c] /\ CallerFits(place, a)
  BY AtPlace
<1>3. PICK g \in a.due :
        Goto(c, "decideGrant", [a EXCEPT !.due = @ \ {g}, !.grant = g,
                                         !.read = grant[g].templates, !.whole = Whole(g)])
  BY <1>2, ZenonT(30) DEF ReadTemplates
<1>4. PICK b : b = [a EXCEPT !.due = a.due \ {g}, !.grant = g,
                             !.read = grant[g].templates, !.whole = Whole(g)]
  OBVIOUS
<1>5. \A h \in a.due : Chosen(h, a)
  BY <1>1, <1>2 DEF CallerFits, UseFits
<1>6. g \in Grants /\ g \in Existing /\ grant[g].templates \in SUBSET Templates /\ Whole(g) \in BOOLEAN
  BY <1>5, RowTyped DEF Chosen, Existing, GovInv, GrantRow, Whole
<1>7. /\ b.due = a.due \ {g} /\ b.grant = g /\ b.read = grant[g].templates /\ b.whole = Whole(g)
      /\ b.at = a.at /\ b.now = a.now /\ b.from = a.from /\ b.template = a.template
      /\ b.asked = a.asked /\ b.ended = a.ended /\ b.user = a.user /\ b.action = a.action
  BY <1>4 DEF Locals
<1>8. b \in Locals
  BY <1>4, <1>6 DEF Locals
<1>9. \A h \in a.due : Chosen(h, b)
  BY <1>5, <1>7 DEF Chosen
<1>10. ReadWhole(b)
  BY <1>6, <1>7 DEF ReadWhole, GovInv, GrantedIsWhole
<1>11. CallerFits("decideGrant", b)
  BY <1>1, <1>2, <1>7, <1>9, <1>10
     DEF Deciding, CallerFits, GrantFits, UseFits, Using, Judging, OwningFits, OwnerPlaces
<1> QED
  BY <1>1, <1>3, <1>4, <1>8, <1>11, BoundsTyped, ReadInv DEF Places

LEMMA DecideGrantInv ==
    ASSUME GovInv, NEW c \in Callers, DecideGrant(c)
    PROVE  GovInv'
<1>1. /\ pc[c] = "decideGrant" /\ UNCHANGED <<people, badges, grants, clock>>
      /\ requests' = requests /\ faults' = faults
  BY DEF DecideGrant, bounds
<1>2. PICK place \in Places, a \in Locals : place = pc[c] /\ a = held[c] /\ CallerFits(place, a)
  BY AtPlace
<1>3. CASE NextRow(c, a.due)
  <2>1. a.due \in SUBSET Grants /\ \A g \in a.due : Chosen(g, a)
    BY <1>1, <1>2 DEF CallerFits, UseFits, Locals
  <2> QED
    BY <1>1, <1>2, <1>3, <2>1, BoundsTyped, NextRowInv DEF Deciding
<1>4. CASE Goto(c, "permitted", a)
  <2>1. CallerFits("permitted", a)
    BY <1>1, <1>2 DEF Deciding, CallerFits, GrantFits, UseFits, Using, Judging, OwningFits, OwnerPlaces
  <2> QED
    BY <1>1, <1>4, <2>1, BoundsTyped, ReadInv DEF Places
<1> QED
  BY <1>2, <1>3, <1>4 DEF DecideGrant, Continue

LEMMA HasScopesInv ==
    ASSUME GovInv, NEW c \in Callers, HasScopes(c)
    PROVE  GovInv'
<1>1. /\ pc[c] = "hasScopes" /\ UNCHANGED <<people, badges, grants, clock>>
      /\ requests' = requests /\ faults' = faults
  BY DEF HasScopes, bounds
<1>2. PICK place \in Places, a \in Locals : place = pc[c] /\ a = held[c] /\ CallerFits(place, a)
  BY AtPlace
<1>3. PICK next \in {"hasAccess", "permitted"} : Goto(c, next, a)
  BY <1>2 DEF HasScopes, Continue
<1>4. CallerFits(next, a)
  BY <1>1, <1>2 DEF Deciding, CallerFits, GrantFits, UseFits, Using, Judging, OwningFits, OwnerPlaces
<1> QED
  BY <1>1, <1>3, <1>4, BoundsTyped, ReadInv DEF Places

LEMMA HasAccessInv ==
    ASSUME GovInv, NEW c \in Callers, HasAccess(c)
    PROVE  GovInv'
<1>1. /\ pc[c] = "hasAccess" /\ UNCHANGED <<people, badges, grants, clock>>
      /\ requests' = requests /\ faults' = faults
  BY DEF HasAccess, bounds
<1>2. PICK place \in Places, a \in Locals : place = pc[c] /\ a = held[c] /\ CallerFits(place, a)
  BY AtPlace
<1>3. CASE End(c)
  BY <1>1, <1>3, BoundsTyped, EndInv
<1>4. CASE Goto(c, "permitted", a)
  <2>1. CallerFits("permitted", a)
    BY <1>1, <1>2 DEF Deciding, CallerFits, GrantFits, UseFits, Using, Judging, OwningFits, OwnerPlaces
  <2> QED
    BY <1>1, <1>4, <2>1, BoundsTyped, ReadInv DEF Places
<1> QED
  BY <1>2, <1>3, <1>4 DEF HasAccess, Continue

LEMMA UsePermissionInv ==
    ASSUME GovInv, NEW c \in Callers, UsePermission(c)
    PROVE  GovInv'
<1>1. /\ pc[c] = "permitted" /\ UNCHANGED <<people, badges, grants, clock>>
      /\ requests' = requests /\ faults' = faults
  BY DEF UsePermission, bounds
<1>2. PICK place \in Places, a \in Locals : place = pc[c] /\ a = held[c] /\ CallerFits(place, a)
  BY AtPlace
<1>3. CASE End(c)
  BY <1>1, <1>3, BoundsTyped, EndInv
<1>4. CASE owner[a.template] = NoUnit /\ Exists(a.unit) /\ Goto(c, "createTemplate", a)
  <2>1. a.unit \in OrgUnits
    BY <1>4 DEF Exists
  <2>2. CallerFits("createTemplate", a)
    BY <1>1, <1>2, <2>1 DEF Deciding, CallerFits, GrantFits, UseFits, Using, Judging, OwningFits, OwnerPlaces
  <2> QED
    BY <1>1, <1>4, <2>2, BoundsTyped, ReadInv DEF Places
<1> QED
  BY <1>2, <1>3, <1>4 DEF UsePermission, Continue

\* A step that writes grants or their events.
LEMMA GrantsInv ==
    ASSUME GovInv, NEW c \in Callers, NEW place \in Places, NEW a \in Locals, Goto(c, place, a),
           UNCHANGED <<people, badges, latest, clock, bounds>>,
           grant' \in [Grants -> GrantRow \cup {NoGrantRow}], events' \in [Grants -> Counts], Grows,
           pc[c] \notin {"setOwner", "recordOwner"}, place \notin {"setOwner", "recordOwner"},
           CallerFits(place, a)', GrantsSeenFit', GrantedIsWhole', ExpiredHasEnded',
           RecordersCounted', Unwritten', SupplyLasts'
    PROVE  GovInv'
<1>1. GovTypeOK' /\ pc'[c] = place /\ held'[c] = a /\ OthersStay(c)
  BY GoneTo DEF GovInv, GovTypeOK, people, badges, bounds
<1>2. \A d \in Callers : CallerFits(pc[d], held[d])'
  BY <1>1, AllFit
<1>3. \A t \in Templates : OwnerFits(t)'
  BY <1>1, OwnerFitsKept DEF badges
<1> QED
  BY <1>1, <1>2, <1>3 DEF GovInv

LEMMA InsertExpiredInv ==
    ASSUME GovInv, NEW c \in Callers, InsertExpired(c)
    PROVE  GovInv'
<1>1. PICK place \in Places, a \in Locals : place = pc[c] /\ a = held[c] /\ CallerFits(place, a)
  BY AtPlace
<1>2. /\ place = "insertExpired"
      /\ UNCHANGED <<people, badges, grant, latest, clock, bounds>>
  BY <1>1 DEF InsertExpired
<1>3. PICK g \in a.due :
        /\ events' = [events EXCEPT ![g].expired = @ + 1]
        /\ LET left == a.due \ {g}
               next == IF left = {} THEN a.next ELSE "insertExpired"
           IN  IF next = "idle" THEN End(c) ELSE Goto(c, next, [a EXCEPT !.due = left])
  BY <1>1 DEF InsertExpired
<1>4. PICK next : next = (IF a.due \ {g} = {} THEN a.next ELSE "insertExpired")
  OBVIOUS
<1>5. PICK b : b = (IF next = "idle" THEN NoLocals ELSE [a EXCEPT !.due = a.due \ {g}])
  OBVIOUS
<1>6. Goto(c, next, b)
  BY <1>3, <1>4, <1>5 DEF End
<1>7. /\ a.next \in NextPlaces /\ \A h \in a.due : h \in Existing /\ EndedSomehow(h)
      /\ a.due \subseteq Grants /\ g \in Existing /\ g \in Grants
  BY <1>1, <1>2 DEF CallerFits, GrantFits, Existing
<1>8. next \in NextPlaces \cup {"insertExpired"} /\ next \in Places
  BY <1>4, <1>7 DEF NextPlaces, Places
<1>9. /\ next # "idle" => b = [a EXCEPT !.due = a.due \ {g}]
      /\ next = "idle" => b = NoLocals
  BY <1>5
<1>10. b \in Locals
  <2>1. [a EXCEPT !.due = a.due \ {g}] \in Locals
    BY <1>7 DEF Locals
  <2> QED
    BY <1>5, <2>1, IdleTyped
<1>11. events \in [Grants -> Counts] /\ grant' = grant /\ Existing' = Existing
  BY <1>2 DEF GovInv, GovTypeOK, Existing
<1>12. /\ events' \in [Grants -> Counts] /\ events'[g].expired = events[g].expired + 1
       /\ events'[g].granted = events[g].granted /\ events[g].expired \in Nat
       /\ \A h \in Grants \ {g} : events'[h] = events[h]
  BY <1>3, <1>7, <1>11 DEF Counts
<1>13. Grows
  <2>1. clock' = clock /\ latest' = latest /\ clock \in Nat /\ latest \in Nat
    BY <1>2, BoundsTyped
  <2> QED
    BY <1>2, <2>1 DEF Grows, Existing
<1>14. CallerFits(next, b)
  <2>1. CASE next = "idle"
    BY <1>9, <2>1, IdleFits DEF GovInv
  <2>2. CASE next # "idle"
    <3>1. /\ b.asked = a.asked /\ b.grant = a.grant /\ b.at = a.at /\ b.now = a.now
          /\ b.next = a.next /\ b.due = a.due \ {g} /\ b.from = a.from /\ b.role = a.role
          /\ b.template = a.template /\ b.ended = a.ended
      BY <1>9, <2>2 DEF Locals
    <3>2. next = "insertExpired" \/ next = a.next
      BY <1>4
    <3> QED
      BY <1>1, <1>2, <1>7, <1>8, <2>2, <3>1, <3>2
         DEF NextPlaces, Deciding, CallerFits, GrantFits, UseFits, Using, Judging, OwningFits, OwnerPlaces
  <2> QED
    BY <2>1, <2>2
<1>15. CallerFits(next, b)'
  <2>1. clock' \in Nat /\ latest' \in Nat
    BY <1>2, BoundsTyped
  <2> QED
    BY <1>10, <1>13, <1>14, <2>1, FitsKept DEF GovInv
<1>16. pc'[c] = next /\ held'[c] = b /\ OthersStay(c)
  BY <1>6, <1>8, <1>10, GoneTo DEF GovInv
<1>17. GrantsSeenFit' /\ SupplyLasts'
  <2>1. Creating' \subseteq Creating
    BY <1>8, <1>16 DEF Creating, OthersStay, NextPlaces
  <2> QED
    BY <1>11, <1>13, <2>1, AllSeenFit, SupplyKept
<1>18. GrantedIsWhole' /\ Unwritten'
  <2>1. \A h \in Grants : events'[h].granted = events[h].granted
    BY <1>12
  <2>2. \A h \in Grants \ Existing : h # g /\ events'[h].expired = events[h].expired
    BY <1>7, <1>12
  <2>3. \A h \in Existing : h \in Grants
    BY DEF Existing
  <2>4. GrantedIsWhole'
    BY <1>11, <2>1, <2>3 DEF GovInv, GrantedIsWhole, Whole
  <2>5. Unwritten'
    BY <1>11, <2>1, <2>2 DEF GovInv, Unwritten
  <2> QED
    BY <2>4, <2>5
<1>19. ExpiredHasEnded'
  <2> SUFFICES ASSUME NEW h \in Existing, events'[h].expired > 0
               PROVE  EndedSomehow(h)
    BY <1>2, <1>11 DEF ExpiredHasEnded, EndedSomehow
  <2>1. CASE h = g
    BY <1>7, <2>1
  <2>2. CASE h # g
    BY <1>12, <2>2, RowTyped DEF GovInv, ExpiredHasEnded, EndedSomehow
  <2> QED
    BY <2>1, <2>2
<1>20. RecordersCounted'
  <2> SUFFICES ASSUME NEW h \in Grants
               PROVE  events'[h].expired + Cardinality(Recorders(h)') <= Cardinality(Callers)
    BY DEF RecordersCounted
  <2>1. events[h].expired + Cardinality(Recorders(h)) <= Cardinality(Callers) /\ events[h].expired \in Nat
    BY <1>11 DEF GovInv, RecordersCounted, Counts
  <2>2. next = "insertExpired" => b.due = a.due \ {g}
    BY <1>9 DEF Locals
  <2>3. Recorders(h)' \subseteq Recorders(h) \ (IF h = g THEN {c} ELSE {})
    BY <1>1, <1>2, <1>16, <2>2 DEF Recorders, OthersStay
  <2>4. CASE h = g
    <3>1. c \in Recorders(g)
      BY <1>1, <1>2 DEF Recorders
    <3>2. /\ IsFiniteSet(Recorders(g) \ {c})
          /\ Cardinality(Recorders(g) \ {c}) = Cardinality(Recorders(g)) - 1
      BY <3>1, Finite, FS_RemoveElement
    <3>3. Recorders(g)' \subseteq Recorders(g) \ {c}
      BY <2>3, <2>4
    <3>4. /\ Cardinality(Recorders(g)') <= Cardinality(Recorders(g) \ {c})
          /\ Cardinality(Recorders(g)') \in Nat
      BY <3>2, <3>3, FS_Subset, FS_CardinalityType
    <3> QED
      BY <1>12, <2>1, <2>4, <3>2, <3>4, Finite
  <2>5. CASE h # g
    <3>1. Recorders(h)' \subseteq Recorders(h)
      BY <2>3
    <3>2. Cardinality(Recorders(h)') <= Cardinality(Recorders(h)) /\ Cardinality(Recorders(h)') \in Nat
      BY <3>1, Finite, FS_Subset, FS_CardinalityType
    <3> QED
      BY <1>12, <2>1, <2>5, <3>2, Finite
  <2> QED
    BY <2>4, <2>5
<1>21. grant' \in [Grants -> GrantRow \cup {NoGrantRow}]
  BY <1>11 DEF GovInv, GovTypeOK
<1> QED
  BY <1>1, <1>2, <1>6, <1>8, <1>10, <1>12, <1>13, <1>15, <1>17, <1>18, <1>19, <1>20, <1>21, GrantsInv
     DEF NextPlaces

LEMMA SupplyLeft ==
    ASSUME GovInv, NEW c \in Creating
    PROVE  \E g \in Grants : g \notin Existing
<1>1. Cardinality(Creating) >= 1
  <2>1. IsFiniteSet(Creating) /\ Cardinality(Creating) \in Nat
    BY Finite
  <2>2. Cardinality(Creating) # 0
    BY <2>1, FS_EmptySet
  <2> QED
    BY <2>1, <2>2
<1>2. Cardinality(Existing) < Cardinality(Grants)
  BY <1>1, Finite DEF GovInv, SupplyLasts
<1>3. Existing # Grants
  BY <1>2, Finite
<1> QED
  BY <1>3, Finite

LEMMA InsertGrantInv ==
    ASSUME GovInv, NEW c \in Callers, InsertGrant(c)
    PROVE  GovInv'
<1>1. PICK place \in Places, a \in Locals : place = pc[c] /\ a = held[c] /\ CallerFits(place, a)
  BY AtPlace
<1>2. /\ pc[c] = "insertGrant"
      /\ UNCHANGED <<people, badges, events, latest, clock, bounds>>
  BY DEF InsertGrant
<1>3. PICK r : r = a.asked
  OBVIOUS
<1>4. PICK row : row = [of |-> r, templates |-> {}, revoked |-> 0, seen |-> a.seen]
  OBVIOUS
<1>5. PICK g \in Grants : g \notin Existing /\ g = CHOOSE h \in Grants : h \notin Existing
  <2>1. c \in Creating
    BY <1>2 DEF Creating
  <2> QED
    BY <2>1, SupplyLeft
<1>6. PICK next, b : next = AfterRow(r, {}) /\ b = [a EXCEPT !.grant = g, !.now = clock, !.seen = {}]
  OBVIOUS
<1>7. grant' = [grant EXCEPT ![g] = row] /\ Goto(c, next, b)
  BY <1>1, <1>3, <1>4, <1>5, <1>6 DEF InsertGrant
<1>8. r \in Asked /\ r \in AskedRecord /\ r # NoAsked /\ SeenFit(a.seen, r)
  BY <1>1, <1>2, <1>3, GovernanceAssumption DEF CallerFits, GrantFits
<1>9. row \in GrantRow /\ row.of = r /\ row.templates = {} /\ row.seen = a.seen /\ row # NoGrantRow
  <2>1. a.seen \in SUBSET Grants
    BY DEF Locals
  <2>2. row \in GrantRow
    BY <1>4, <1>8, <2>1 DEF GrantRow
  <2> QED
    BY <1>4, <2>2, NotThere
<1>10. /\ b \in Locals /\ b.grant = g /\ b.asked = r /\ b.now = clock /\ b.at = a.at /\ b.from = a.from
  BY <1>3, <1>6, BoundsTyped DEF Locals
<1>11. /\ next \in {"insertTemplate", "recordEvent"} /\ next \in Places
       /\ next = "recordEvent" => r.templates = {}
  BY <1>6 DEF AfterRow, Places
<1>12. grant \in [Grants -> GrantRow \cup {NoGrantRow}] /\ events \in [Grants -> Counts] /\ events' = events
  BY <1>2 DEF GovInv, GovTypeOK
<1>13. /\ grant' \in [Grants -> GrantRow \cup {NoGrantRow}] /\ grant'[g] = row
       /\ \A h \in Grants \ {g} : grant'[h] = grant[h]
  BY <1>7, <1>9, <1>12
<1>14. Existing' = Existing \cup {g} /\ \A h \in Existing : h \in Grants /\ h # g
  BY <1>5, <1>9, <1>13 DEF Existing
<1>15. Grows
  BY <1>2, <1>13, <1>14, BoundsTyped DEF Grows, Existing
<1>16. CallerFits(next, b)'
  <2>1. Giving(next, b)'
    BY <1>9, <1>10, <1>11, <1>13, <1>14 DEF Giving
  <2>2. b.at <= latest' /\ b.now <= clock' /\ b.from = NoUnit
    BY <1>1, <1>2, <1>10, BoundsTyped DEF CallerFits, GrantFits, OwningFits
  <2> QED
    BY <1>8, <1>10, <1>11, <2>1, <2>2
       DEF Deciding, CallerFits, GrantFits, UseFits, Using, Judging, OwningFits, OwnerPlaces
<1>17. pc'[c] = next /\ held'[c] = b /\ OthersStay(c)
  BY <1>7, <1>10, <1>11, GoneTo DEF GovInv
<1>18. GrantsSeenFit'
  <2> SUFFICES ASSUME NEW h \in Existing'
               PROVE  SeenFit(grant[h].seen, grant[h].of)'
    BY DEF GrantsSeenFit
  <2>1. PICK s, q : s = grant'[h].seen /\ q = grant'[h].of
    OBVIOUS
  <2>2. SeenFit(s, q)
    <3>1. CASE h = g
      BY <1>8, <1>9, <1>13, <2>1, <3>1
    <3>2. CASE h # g
      BY <1>13, <1>14, <2>1, <3>2 DEF GovInv, GrantsSeenFit
    <3> QED
      BY <3>1, <3>2
  <2>3. SeenFit(s, q)'
    BY <1>15, <2>2, SeenKept
  <2> QED
    BY <2>1, <2>3
<1>19. GrantedIsWhole' /\ ExpiredHasEnded' /\ Unwritten'
  <2>1. events[g].granted = 0 /\ events[g].expired = 0
    BY <1>5 DEF GovInv, Unwritten
  <2>2. GrantedIsWhole'
    BY <1>12, <1>13, <1>14, <2>1 DEF GovInv, GrantedIsWhole, Whole
  <2>3. ExpiredHasEnded'
    BY <1>2, <1>12, <1>13, <1>14, <2>1 DEF GovInv, ExpiredHasEnded
  <2>4. Unwritten'
    BY <1>12, <1>14 DEF GovInv, Unwritten
  <2> QED
    BY <2>2, <2>3, <2>4
<1>20. RecordersCounted'
  BY <1>11, <1>12, <1>17, RecordersKept
<1>21. SupplyLasts'
  <2>1. Creating' \subseteq Creating \ {c} /\ c \in Creating
    BY <1>2, <1>11, <1>17 DEF Creating, OthersStay
  <2>2. IsFiniteSet(Creating \ {c}) /\ Cardinality(Creating \ {c}) = Cardinality(Creating) - 1
    BY <2>1, Finite, FS_RemoveElement
  <2>3. Cardinality(Creating') <= Cardinality(Creating \ {c}) /\ Cardinality(Creating') \in Nat
    BY <2>1, <2>2, FS_Subset, FS_CardinalityType
  <2>4. Cardinality(Existing \cup {g}) = Cardinality(Existing) + 1
    BY <1>5, Finite, FS_AddElement
  <2>5. Cardinality(Existing) + Cardinality(Creating) <= Cardinality(Grants)
    BY DEF GovInv, SupplyLasts
  <2>6. Cardinality(Existing \cup {g}) + Cardinality(Creating') <= Cardinality(Grants)
    BY <2>2, <2>3, <2>4, <2>5, Finite
  <2> QED
    BY <1>14, <2>6 DEF SupplyLasts
<1> QED
  BY <1>2, <1>7, <1>10, <1>11, <1>12, <1>13, <1>15, <1>16, <1>18, <1>19, <1>20, <1>21, GrantsInv

\* A grant that is there is written again, its period, unit, actions and delegate as they were.
LEMMA GrantWritten ==
    ASSUME GovInv, NEW c \in Callers, NEW place \in Places, NEW a \in Locals, Goto(c, place, a),
           UNCHANGED <<people, badges, events, latest, clock, bounds>>,
           pc[c] \notin {"setOwner", "recordOwner"}, place \in {"insertTemplate", "recordEvent", "readLast"},
           NEW g \in Existing, NEW row \in GrantRow, grant' = [grant EXCEPT ![g] = row],
           row.of = grant[g].of, row.seen = grant[g].seen,
           grant[g].templates = grant[g].of.templates => row.templates = grant[g].templates,
           grant[g].revoked # 0 => row.revoked # 0,
           CallerFits(place, a)'
    PROVE  GovInv'
<1>1. grant \in [Grants -> GrantRow \cup {NoGrantRow}] /\ events \in [Grants -> Counts] /\ events' = events
  BY DEF GovInv, GovTypeOK
<1>2. g \in Grants /\ row # NoGrantRow
  BY NotThere DEF Existing
<1>3. /\ grant' \in [Grants -> GrantRow \cup {NoGrantRow}] /\ grant'[g] = row
      /\ \A h \in Grants \ {g} : grant'[h] = grant[h]
  BY <1>1, <1>2
<1>4. Existing' = Existing
  BY <1>2, <1>3 DEF Existing
<1>5. Grows
  BY <1>2, <1>3, BoundsTyped DEF Grows, Existing
<1>6. pc'[c] = place /\ OthersStay(c)
  BY GoneTo DEF GovInv
<1>7. GrantsSeenFit' /\ SupplyLasts' /\ RecordersCounted'
  <2>1. Creating' \subseteq Creating
    BY <1>6 DEF Creating, OthersStay
  <2> QED
    BY <1>1, <1>4, <1>5, <1>6, <2>1, AllSeenFit, SupplyKept, RecordersKept
<1>8. \A h \in Existing : h \in Grants /\ grant'[h].of = grant[h].of
  BY <1>3 DEF Existing
<1>9. GrantedIsWhole'
  <2> SUFFICES ASSUME NEW h \in Existing, Whole(h)
               PROVE  grant'[h].templates = grant'[h].of.templates
    BY <1>1, <1>4 DEF GrantedIsWhole, Whole
  <2>1. grant[h].templates = grant[h].of.templates
    BY DEF GovInv, GrantedIsWhole
  <2> QED
    BY <1>3, <1>8, <2>1
<1>10. ExpiredHasEnded' /\ Unwritten'
  BY <1>1, <1>4, <1>8 DEF GovInv, ExpiredHasEnded, Unwritten
<1> QED
  BY <1>1, <1>3, <1>5, <1>7, <1>9, <1>10, GrantsInv

LEMMA InsertTemplateInv ==
    ASSUME GovInv, NEW c \in Callers, InsertTemplate(c)
    PROVE  GovInv'
<1>1. PICK place \in Places, a \in Locals : place = pc[c] /\ a = held[c] /\ CallerFits(place, a)
  BY AtPlace
<1>2. /\ pc[c] = "insertTemplate"
      /\ UNCHANGED <<people, badges, events, latest, clock, bounds>>
  BY DEF InsertTemplate
<1>3. PICK g : g = a.grant
  OBVIOUS
<1>4. PICK t \in a.asked.templates \ grant[g].templates :
        /\ grant' = [grant EXCEPT ![g].templates = grant[g].templates \cup {t}]
        /\ Goto(c, AfterRow(a.asked, grant[g].templates \cup {t}), a)
  BY <1>1, <1>3 DEF InsertTemplate, Continue
<1>5. /\ a.asked \in AskedRecord /\ a.asked # NoAsked /\ g \in Existing /\ grant[g].of = a.asked
      /\ a.asked \in Asked
  BY <1>1, <1>2, <1>3, GovernanceAssumption DEF CallerFits, GrantFits, Giving
<1>6. g \in Grants /\ grant[g] \in GrantRow
  BY <1>5, RowTyped DEF GovInv
<1>7. PICK row : row = [grant[g] EXCEPT !.templates = grant[g].templates \cup {t}]
  OBVIOUS
<1>8. /\ row \in GrantRow /\ row.of = grant[g].of /\ row.seen = grant[g].seen
      /\ row.templates = grant[g].templates \cup {t} /\ row.revoked = grant[g].revoked
  <2>1. t \in Templates
    BY <1>4, <1>5 DEF AskedRecord
  <2> QED
    BY <1>6, <1>7, <2>1 DEF GrantRow
<1>9. grant' = [grant EXCEPT ![g] = row] /\ grant'[g] = row
  BY <1>4, <1>6, <1>7 DEF GovInv, GovTypeOK
<1>10. PICK next : next = AfterRow(a.asked, grant[g].templates \cup {t})
  OBVIOUS
<1>11. /\ next \in {"insertTemplate", "recordEvent"} /\ next \in Places
       /\ next = "recordEvent" => grant[g].templates \cup {t} = a.asked.templates
  BY <1>10 DEF AfterRow, Places
<1>12. CallerFits(next, a)'
  <2>1. Existing' = Existing
    BY <1>6, <1>8, <1>9, NotThere DEF Existing, GovInv, GovTypeOK
  <2>2. Giving(next, a)'
    BY <1>3, <1>5, <1>8, <1>9, <1>11, <2>1 DEF Giving
  <2>3. /\ a.at <= latest' /\ (a.now <= clock' \/ a.now <= latest') /\ a.from = NoUnit
    BY <1>1, <1>2 DEF CallerFits, GrantFits, OwningFits
  <2> QED
    BY <1>5, <1>11, <2>2, <2>3
       DEF Deciding, CallerFits, GrantFits, UseFits, Using, Judging, OwningFits, OwnerPlaces
<1>13. ~(grant[g].templates = grant[g].of.templates)
  BY <1>4, <1>5
<1>14. Goto(c, next, a)
  BY <1>4, <1>10
<1> QED
  BY <1>2, <1>5, <1>8, <1>9, <1>11, <1>12, <1>13, <1>14, GrantWritten

LEMMA UpdateInv ==
    ASSUME GovInv, NEW c \in Callers, Update(c)
    PROVE  GovInv'
<1>1. PICK place \in Places, a \in Locals : place = pc[c] /\ a = held[c] /\ CallerFits(place, a)
  BY AtPlace
<1>2. /\ pc[c] = "update"
      /\ UNCHANGED <<people, badges, events, latest, clock, bounds>>
  BY DEF Update
<1>3. PICK g, row : g = a.grant /\ row = RevokedRow(grant[g], a.at)
  OBVIOUS
<1>4. g \in Existing /\ g \in Grants /\ grant[g] \in GrantRow /\ a.asked = NoAsked
  BY <1>1, <1>2, <1>3, RowTyped DEF CallerFits, GrantFits, GovInv
<1>5. grant' = [grant EXCEPT ![g] = row]
  BY <1>1, <1>3, <1>4 DEF Update, GovInv, GovTypeOK
<1>6. /\ row \in GrantRow /\ row.of = grant[g].of /\ row.seen = grant[g].seen
      /\ row.templates = grant[g].templates /\ (grant[g].revoked # 0 => row.revoked # 0)
  BY <1>3, <1>4 DEF RevokedRow, GrantRow, Locals
<1>7. PICK b : b = [a EXCEPT !.now = a.at]
  OBVIOUS
<1>8. PICK next \in {"recordEvent", "readLast"} : Goto(c, next, b)
  BY <1>1, <1>7 DEF Update
<1>9. b \in Locals /\ b.now = a.at /\ b.at = a.at /\ b.asked = NoAsked /\ b.from = a.from
  BY <1>4, <1>7 DEF Locals
<1>10. CallerFits(next, b)'
  BY <1>1, <1>2, <1>9 DEF Deciding, CallerFits, GrantFits, UseFits, Using, Judging, OwningFits, OwnerPlaces
<1>11. next \in Places /\ next \in {"insertTemplate", "recordEvent", "readLast"}
  BY DEF Places
<1> QED
  BY <1>2, <1>4, <1>5, <1>6, <1>8, <1>9, <1>10, <1>11, GrantWritten

LEMMA RecordEventInv ==
    ASSUME GovInv, NEW c \in Callers, RecordEvent(c)
    PROVE  GovInv'
<1>1. PICK place \in Places, a \in Locals : place = pc[c] /\ a = held[c] /\ CallerFits(place, a)
  BY AtPlace
<1>2. /\ pc[c] = "recordEvent" /\ Goto(c, "readLast", a)
      /\ UNCHANGED <<people, badges, grant, latest, clock, bounds>>
  BY <1>1 DEF RecordEvent, Continue
<1>3. PICK g : g = a.grant
  OBVIOUS
<1>4. events' = IF a.asked = NoAsked THEN [events EXCEPT ![g].revoked = @ + 1]
                ELSE [events EXCEPT ![g].granted = @ + 1]
  BY <1>1, <1>3 DEF RecordEvent
<1>5. events \in [Grants -> Counts] /\ grant' = grant /\ Existing' = Existing
      /\ grant \in [Grants -> GrantRow \cup {NoGrantRow}]
  BY <1>2 DEF GovInv, GovTypeOK, Existing
<1>6. events' \in [Grants -> Counts]
  <2>1. CASE a.asked = NoAsked
    <3>1. g \in Grants => [events[g] EXCEPT !.revoked = @ + 1] \in Counts
      BY <1>5 DEF Counts
    <3> QED
      BY <1>4, <1>5, <2>1, <3>1
  <2>2. CASE a.asked # NoAsked
    <3>1. g \in Grants => [events[g] EXCEPT !.granted = @ + 1] \in Counts
      BY <1>5 DEF Counts
    <3> QED
      BY <1>4, <1>5, <2>2, <3>1
  <2> QED
    BY <2>1, <2>2
<1>7. \A h \in Grants : events'[h].expired = events[h].expired
  BY <1>4, <1>5 DEF Counts
<1>8. \A h \in Grants : events'[h].granted = events[h].granted \/ (h = g /\ a.asked # NoAsked)
  BY <1>4, <1>5 DEF Counts
<1>9. a.asked # NoAsked => g \in Existing /\ grant[g].templates = grant[g].of.templates
  BY <1>1, <1>2, <1>3 DEF CallerFits, GrantFits, Giving
<1>10. Grows
  BY <1>2, <1>5, BoundsTyped DEF Grows, Existing
<1>11. pc'[c] = "readLast" /\ OthersStay(c)
  BY <1>2, GoneTo DEF GovInv, Places
<1>12. GrantsSeenFit' /\ SupplyLasts' /\ RecordersCounted'
  <2>1. Creating' \subseteq Creating
    BY <1>11 DEF Creating, OthersStay
  <2> QED
    BY <1>5, <1>7, <1>10, <1>11, <2>1, AllSeenFit, SupplyKept, RecordersKept
<1>13. \A h \in Existing : h \in Grants
  BY DEF Existing
<1>14. GrantedIsWhole'
  <2> SUFFICES ASSUME NEW h \in Existing, events'[h].granted > 0
               PROVE  grant[h].templates = grant[h].of.templates
    BY <1>5 DEF GrantedIsWhole, Whole
  <2> QED
    BY <1>8, <1>9, <1>13 DEF GovInv, GrantedIsWhole, Whole
<1>15. ExpiredHasEnded'
  BY <1>2, <1>5, <1>7, <1>13 DEF GovInv, ExpiredHasEnded
<1>16. Unwritten'
  BY <1>5, <1>7, <1>8, <1>9 DEF GovInv, Unwritten
<1>17. CallerFits("readLast", a)'
  BY <1>1, <1>2, <1>5 DEF Deciding, CallerFits, GrantFits, UseFits, Using, Judging, OwningFits, OwnerPlaces
<1> QED
  BY <1>2, <1>5, <1>6, <1>10, <1>12, <1>14, <1>15, <1>16, <1>17, GrantsInv DEF Places

-----------------------------------------------------------------------------
(* Steps of nobody's request.                                              *)

LEMMA TenancyInv ==
    ASSUME GovInv, Tenancy
    PROVE  GovInv'
<1>1. UNCHANGED <<badges, grants, pc, held, faults>>
  BY DEF Tenancy, AssignRole, CreateUnit, AssignScope, RemoveScope, Tick, people, bounds
<1>2. clock' \in Nat /\ clock <= clock' /\ clock \in Nat /\ latest \in Nat
  BY BoundsTyped DEF Tenancy, AssignRole, CreateUnit, AssignScope, RemoveScope, Tick
<1>3. /\ role' \in [Users -> Roles]
      /\ units' \in [OrgUnits -> UnitRow \cup {Absent}]
      /\ scopes' \in [Users -> [OrgUnits -> Roles]]
      /\ requests' \in Nat
  <2>0. /\ role \in [Users -> Roles] /\ units \in [OrgUnits -> UnitRow \cup {Absent}]
        /\ scopes \in [Users -> [OrgUnits -> Roles]] /\ requests \in Nat
    BY DEF GovInv, GovTypeOK
  <2>1. CASE \E u \in Users, r \in Roles : AssignRole(u, r)
    BY <2>0, <2>1 DEF AssignRole, RoleAssigned, CountRequest
  <2>2. CASE \E unit \in OrgUnits, type \in UnitTypes, parent \in OrgUnits \cup {NoUnit} :
                CreateUnit(unit, type, parent)
    BY <2>0, <2>2 DEF CreateUnit, UnitAdded, UnitRow, CountRequest
  <2>3. CASE \E u \in Users, unit \in OrgUnits, r \in Roles : AssignScope(u, unit, r)
    BY <2>0, <2>3 DEF AssignScope, ScopeSet, CountRequest
  <2>4. CASE \E u \in Users, unit \in OrgUnits : RemoveScope(u, unit)
    BY <2>0, <2>4 DEF RemoveScope, ScopeRemoved, CountRequest, Roles
  <2>5. CASE Tick
    BY <2>0, <2>5 DEF Tick, people, bounds
  <2> QED
    BY <2>1, <2>2, <2>3, <2>4, <2>5 DEF Tenancy
<1>4. GovTypeOK'
  <2>1. /\ pc' = pc /\ held' = held /\ grant' = grant /\ events' = events /\ latest' = latest
        /\ owner' = owner /\ ownership' = ownership /\ crossed' = crossed /\ faults' = faults
    BY <1>1 DEF badges, grants
  <2> QED
    BY <1>2, <1>3, <2>1 DEF GovInv, GovTypeOK
<1>5. /\ grant' = grant /\ events' = events /\ latest' = latest
      /\ Existing' = Existing /\ Creating' = Creating /\ pc' = pc /\ held' = held
  BY <1>1 DEF grants, Existing, Creating
<1>6. Grows
  BY <1>2, <1>5 DEF Grows, Existing
<1>7. \A c \in Callers : CallerFits(pc[c], held[c])'
  <2> SUFFICES ASSUME NEW c \in Callers PROVE CallerFits(pc[c], held[c])'
    OBVIOUS
  <2>1. PICK place \in Places, a \in Locals : place = pc[c] /\ a = held[c] /\ CallerFits(place, a)
    BY AtPlace
  <2>2. CallerFits(place, a)'
    BY <1>2, <1>5, <1>6, <2>1, FitsKept DEF GovInv
  <2> QED
    BY <1>5, <2>1, <2>2
<1>8. GrantsSeenFit' /\ SupplyLasts'
  BY <1>5, <1>6, AllSeenFit, SupplyKept
<1>9. GrantedIsWhole' /\ Unwritten'
  BY <1>5 DEF GovInv, GrantedIsWhole, Whole, Unwritten
<1>10. RecordersCounted'
  BY <1>5 DEF GovInv, RecordersCounted, Recorders
<1>11. ExpiredHasEnded'
  BY <1>2, <1>5, RowTyped DEF GovInv, ExpiredHasEnded, AskedRecord
<1>12. \A t \in Templates : OwnerFits(t)'
  BY <1>1 DEF GovInv, OwnerFits, Moving, MoveFits, badges
<1> QED
  BY <1>4, <1>7, <1>8, <1>9, <1>10, <1>11, <1>12 DEF GovInv

-----------------------------------------------------------------------------
(* Templates and their owners.                                             *)

Transferring == {"setOwner", "recordOwner"}

LEMMA OwningInv ==
    ASSUME GovInv, NEW c \in Callers, NEW place \in Places, NEW a \in Locals, Goto(c, place, a),
           UNCHANGED <<people, grants, clock>>, requests' \in Nat, faults' \in Nat,
           owner' \in [Templates -> OrgUnits \cup {NoUnit}],
           ownership' \in [Templates -> Seq([from: OrgUnits \cup {NoUnit}, to: OrgUnits])],
           crossed' \subseteq Templates, CallerFits(place, a),
           place \notin {"insertExpired", "conflicts", "compare", "insertGrant"},
           \A t \in Templates : OwnerFits(t)'
    PROVE  GovInv'
<1>1. /\ grant' = grant /\ events' = events /\ latest' = latest /\ clock' = clock
      /\ clock \in Nat /\ latest \in Nat /\ Existing' = Existing
  BY BoundsTyped DEF grants, Existing
<1>2. GovTypeOK' /\ pc'[c] = place /\ held'[c] = a /\ OthersStay(c)
  BY <1>1, GoneTo DEF GovInv, GovTypeOK, people
<1>3. Grows
  BY <1>1 DEF Grows, Existing
<1>4. \A d \in Callers : CallerFits(pc[d], held[d])'
  <2>1. CallerFits(place, a)'
    BY <1>1, <1>3, FitsKept DEF GovInv
  <2> QED
    BY <1>2, <1>3, <2>1, AllFit
<1>5. GrantsSeenFit' /\ SupplyLasts' /\ RecordersCounted'
  <2>1. Creating' \subseteq Creating
    BY <1>2 DEF Creating, OthersStay
  <2> QED
    BY <1>1, <1>2, <1>3, <2>1, AllSeenFit, SupplyKept, RecordersKept
<1>6. GrantedIsWhole' /\ ExpiredHasEnded' /\ Unwritten'
  BY <1>1 DEF GovInv, GrantedIsWhole, ExpiredHasEnded, Unwritten, Whole
<1> QED
  BY <1>2, <1>4, <1>5, <1>6 DEF GovInv

\* Another template than the one a caller is about stays as it is.
LEMMA OtherOwners ==
    ASSUME GovInv, NEW c \in Callers, OthersStay(c), NEW t \in Templates, NEW u \in Templates \ {t},
           owner'[u] = owner[u], ownership'[u] = ownership[u], u \in crossed => u \in crossed',
           pc[c] \in Transferring => held[c].template = t,
           pc'[c] \in Transferring => held'[c].template = t
    PROVE  OwnerFits(u)'
<1>1. OwnerFits(u)
  BY DEF GovInv
<1>2. c \notin Moving(u) /\ c \notin Moving(u)'
  BY DEF Moving, Transferring
<1> QED
  BY <1>1, <1>2, OwnerKeptAt

LEMMA TablesTyped ==
    ASSUME GovInv
    PROVE  /\ owner \in [Templates -> OrgUnits \cup {NoUnit}]
           /\ ownership \in [Templates -> Seq([from: OrgUnits \cup {NoUnit}, to: OrgUnits])]
           /\ crossed \subseteq Templates /\ NoUnit \notin OrgUnits
  BY GovernanceAssumption DEF GovInv, GovTypeOK

LEMMA BeginTransferInv ==
    ASSUME GovInv, NEW c \in Callers, NEW t \in Templates, NEW unit \in OrgUnits,
           BeginTransfer(c, t, unit)
    PROVE  GovInv'
<1>1. PICK a : a = [NoLocals EXCEPT !.template = t, !.unit = unit, !.from = owner[t]]
  OBVIOUS
<1>2. /\ pc[c] = "idle" /\ owner[t] # NoUnit /\ owner[t] # unit
      /\ requests' = requests + 1 /\ faults' = faults
      /\ crossed' = (IF Moving(t) = {} THEN crossed ELSE crossed \cup {t})
      /\ Goto(c, "setOwner", a)
      /\ UNCHANGED <<people, owner, ownership, grants, clock>>
  BY <1>1 DEF BeginTransfer, CountRequest, Transfers
<1>3. a \in Locals /\ a.template = t /\ a.unit = unit /\ a.from = owner[t] /\ a.at = 0 /\ a.now = 0
  BY <1>1, TablesTyped, IdleTyped DEF Locals, NoLocals
<1>4. CallerFits("setOwner", a)
  BY <1>3, BoundsTyped DEF Deciding, CallerFits, GrantFits, UseFits, Using, Judging, OwningFits, OwnerPlaces
<1>5. pc'[c] = "setOwner" /\ held'[c] = a /\ OthersStay(c)
  BY <1>2, <1>3, GoneTo DEF GovInv, Places
<1>6. OwnerFits(t)'
  <2>1. CASE Moving(t) = {}
    <3>1. Moving(t)' = {c}
      BY <1>3, <1>5, <2>1 DEF Moving, OthersStay
    <3>2. t \notin crossed => OwnerChain(ownership[t]) /\ ownership[t] # <<>> /\ Last(ownership[t]).to = owner[t]
      BY <1>2, <2>1 DEF GovInv, OwnerFits
    <3>3. PICK e, o : e = ownership[t] /\ o = owner[t]
      OBVIOUS
    <3>4. t \notin crossed => MoveFits("setOwner", a, e, o)
      BY <1>2, <1>3, <3>2, <3>3 DEF MoveFits
    <3> QED
      BY <1>2, <1>5, <2>1, <3>1, <3>2, <3>3, <3>4 DEF OwnerFits
  <2>2. CASE Moving(t) # {}
    BY <1>2, <2>2 DEF OwnerFits
  <2> QED
    BY <2>1, <2>2
<1>7. ASSUME NEW u \in Templates \ {t} PROVE OwnerFits(u)'
  BY <1>2, <1>3, <1>5, OtherOwners DEF Transferring
<1> QED
  BY <1>2, <1>3, <1>4, <1>6, <1>7, TablesTyped, BoundsTyped, OwningInv DEF Places

LEMMA CreateTemplateInv ==
    ASSUME GovInv, NEW c \in Callers, CreateTemplate(c)
    PROVE  GovInv'
<1>1. PICK place \in Places, a \in Locals : place = pc[c] /\ a = held[c] /\ CallerFits(place, a)
  BY AtPlace
<1>2. /\ pc[c] = "createTemplate" /\ requests' = requests /\ faults' = faults
      /\ UNCHANGED <<people, ownership, crossed, grants, clock>>
  BY DEF CreateTemplate, bounds
<1>3. PICK t : t = a.template
  OBVIOUS
<1>4. t \in Templates /\ a.unit \in OrgUnits /\ a.from = NoUnit
  BY <1>1, <1>2, <1>3 DEF CallerFits, OwningFits, OwnerPlaces
<1>5. CASE owner[t] # NoUnit
  <2>1. End(c) /\ UNCHANGED badges
    BY <1>1, <1>2, <1>3, <1>5 DEF CreateTemplate, badges
  <2> QED
    BY <1>2, <2>1, BoundsTyped, EndInv
<1>6. CASE owner[t] = NoUnit
  <2>1. owner' = [owner EXCEPT ![t] = a.unit] /\ Goto(c, "recordOwner", a)
    BY <1>1, <1>3, <1>6 DEF CreateTemplate, Continue
  <2>2. pc'[c] = "recordOwner" /\ held'[c] = a /\ OthersStay(c)
    BY <2>1, GoneTo DEF GovInv, Places
  <2>3. /\ owner' \in [Templates -> OrgUnits \cup {NoUnit}] /\ owner'[t] = a.unit
        /\ \A u \in Templates \ {t} : owner'[u] = owner[u]
    BY <1>4, <2>1, TablesTyped
  <2>4. CallerFits("recordOwner", a)
    BY <1>1, <1>2, <1>3, <1>4
       DEF Deciding, CallerFits, GrantFits, UseFits, Using, Judging, OwningFits, OwnerPlaces
  <2>5. OwnerFits(t)'
    <3>1. Moving(t) = {} /\ ownership[t] = <<>>
      BY <1>4, <1>6 DEF GovInv, OwnerFits
    <3>2. Moving(t)' = {c}
      BY <1>3, <2>2, <3>1 DEF Moving, OthersStay
    <3>3. PICK e, o : e = ownership[t] /\ o = owner'[t]
      OBVIOUS
    <3>4. MoveFits("recordOwner", a, e, o) /\ OwnerChain(e)
      BY <1>4, <2>3, <3>1, <3>3 DEF MoveFits, OwnerChain
    <3> QED
      BY <1>2, <1>4, <2>2, <2>3, <3>2, <3>3, <3>4, TablesTyped DEF OwnerFits
  <2>6. ASSUME NEW u \in Templates \ {t} PROVE OwnerFits(u)'
    BY <1>2, <1>3, <1>4, <2>2, <2>3, OtherOwners DEF Transferring
  <2> QED
    BY <1>2, <2>1, <2>3, <2>4, <2>5, <2>6, TablesTyped, BoundsTyped, OwningInv DEF Places
<1> QED
  BY <1>5, <1>6

LEMMA SetOwnerInv ==
    ASSUME GovInv, NEW c \in Callers, SetOwner(c)
    PROVE  GovInv'
<1>1. PICK place \in Places, a \in Locals : place = pc[c] /\ a = held[c] /\ CallerFits(place, a)
  BY AtPlace
<1>2. PICK t, e, o : t = a.template /\ e = ownership[t] /\ o = owner[t]
  OBVIOUS
<1>3. /\ pc[c] = "setOwner" /\ requests' = requests /\ faults' = faults
      /\ UNCHANGED <<people, ownership, crossed, grants, clock>>
      /\ owner' = [owner EXCEPT ![t] = a.unit] /\ Goto(c, "recordOwner", a)
  BY <1>1, <1>2 DEF SetOwner, Continue, bounds
<1>4. t \in Templates /\ a.unit \in OrgUnits
  BY <1>1, <1>2, <1>3 DEF CallerFits, OwningFits, OwnerPlaces
<1>5. pc'[c] = "recordOwner" /\ held'[c] = a /\ OthersStay(c)
  BY <1>3, GoneTo DEF GovInv, Places
<1>6. /\ owner' \in [Templates -> OrgUnits \cup {NoUnit}] /\ owner'[t] = a.unit
      /\ \A u \in Templates \ {t} : owner'[u] = owner[u]
  BY <1>3, <1>4, TablesTyped
<1>7. CallerFits("recordOwner", a)
  BY <1>1, <1>3 DEF Deciding, CallerFits, GrantFits, UseFits, Using, Judging, OwningFits, OwnerPlaces
<1>8. OwnerFits(t)'
  <2>1. c \in Moving(t) /\ OwnerFits(t)
    BY <1>1, <1>2, <1>3, <1>4 DEF Moving, GovInv
  <2>2. o # NoUnit /\ a.unit # NoUnit
    BY <1>2, <1>4, <2>1, TablesTyped DEF OwnerFits
  <2>3. CASE t \in crossed
    BY <1>3, <1>6, <2>2, <2>3 DEF OwnerFits
  <2>4. CASE t \notin crossed
    <3>1. /\ OwnerChain(e) /\ Moving(t) = {c}
          /\ MoveFits("setOwner", a, e, o)
      BY <1>1, <1>2, <1>3, <2>1, <2>2, <2>4 DEF OwnerFits
    <3>2. Moving(t)' = {c}
      BY <1>2, <1>5, <3>1 DEF Moving, OthersStay
    <3>3. MoveFits("recordOwner", a, e, a.unit)
      BY <3>1 DEF MoveFits
    <3> QED
      BY <1>2, <1>3, <1>5, <1>6, <2>2, <3>1, <3>2, <3>3 DEF OwnerFits
  <2> QED
    BY <2>3, <2>4
<1>9. ASSUME NEW u \in Templates \ {t} PROVE OwnerFits(u)'
  BY <1>1, <1>2, <1>3, <1>4, <1>5, <1>6, OtherOwners DEF Transferring
<1> QED
  BY <1>3, <1>6, <1>7, <1>8, <1>9, TablesTyped, BoundsTyped, OwningInv DEF Places

LEMMA ChainGrows ==
    ASSUME NEW Row, NEW e \in Seq(Row), NEW v \in Row, OwnerChain(e),
           IF e = <<>> THEN v.from = NoUnit ELSE Last(e).to = v.from /\ v.to # v.from
    PROVE  OwnerChain(Append(e, v)) /\ Append(e, v) # <<>> /\ Last(Append(e, v)) = v
<1>1. PICK f : f = Append(e, v)
  OBVIOUS
<1>2. /\ f # <<>> /\ Len(f) = Len(e) + 1 /\ f[Len(e) + 1] = v /\ Len(e) \in Nat
      /\ \A i \in 1..Len(e) : f[i] = e[i]
  BY <1>1, AppendProperties
<1>3. CASE e = <<>>
  BY <1>1, <1>2, <1>3 DEF OwnerChain, Last
<1>4. CASE e # <<>>
  <2>1. Len(e) >= 1 /\ e[Len(e)].to = v.from /\ v.to # v.from /\ e[1].from = NoUnit
    BY <1>2, <1>4, EmptySeq DEF OwnerChain, Last
  <2>2. f[1].from = NoUnit
    BY <1>2, <2>1
  <2>3. ASSUME NEW i \in 1..(Len(f) - 1)
        PROVE  f[i + 1].from = f[i].to /\ f[i + 1].to # f[i].to
    <3>1. CASE i = Len(e)
      BY <1>2, <2>1, <3>1
    <3>2. CASE i # Len(e)
      <4>1. i \in 1..(Len(e) - 1) /\ i + 1 \in 1..Len(e) /\ i \in 1..Len(e)
        BY <1>2, <3>2
      <4>2. e[i + 1].from = e[i].to /\ e[i + 1].to # e[i].to
        BY <4>1 DEF OwnerChain
      <4> QED
        BY <1>2, <4>1, <4>2
    <3> QED
      BY <3>1, <3>2
  <2> QED
    BY <1>1, <1>2, <2>2, <2>3 DEF OwnerChain, Last
<1> QED
  BY <1>3, <1>4

LEMMA RecordOwnerInv ==
    ASSUME GovInv, NEW c \in Callers, RecordOwner(c)
    PROVE  GovInv'
<1>1. PICK place \in Places, a \in Locals : place = pc[c] /\ a = held[c] /\ CallerFits(place, a)
  BY AtPlace
<1>2. PICK t, e, o : t = a.template /\ e = ownership[t] /\ o = owner[t]
  OBVIOUS
<1>3. PICK v : v = [from |-> a.from, to |-> a.unit]
  OBVIOUS
<1>4. /\ pc[c] = "recordOwner" /\ requests' = requests /\ faults' = faults
      /\ UNCHANGED <<people, owner, crossed, grants, clock>>
      /\ ownership' = [ownership EXCEPT ![t] = Append(@, v)] /\ Goto(c, "idle", NoLocals)
  BY <1>1, <1>2, <1>3 DEF RecordOwner, OwnerEvent, End, bounds
<1>5. t \in Templates /\ a.unit \in OrgUnits
  BY <1>1, <1>2, <1>4 DEF CallerFits, OwningFits, OwnerPlaces
<1>6. v \in [from: OrgUnits \cup {NoUnit}, to: OrgUnits] /\ v.from = a.from /\ v.to = a.unit
  BY <1>3, <1>5 DEF Locals
<1>7. e \in Seq([from: OrgUnits \cup {NoUnit}, to: OrgUnits])
  BY <1>2, <1>5, TablesTyped
<1>8. /\ ownership' \in [Templates -> Seq([from: OrgUnits \cup {NoUnit}, to: OrgUnits])]
      /\ ownership'[t] = Append(e, v)
      /\ \A u \in Templates \ {t} : ownership'[u] = ownership[u]
  <2>1. Append(e, v) \in Seq([from: OrgUnits \cup {NoUnit}, to: OrgUnits])
    BY <1>6, <1>7, AppendProperties
  <2>2. ownership' = [ownership EXCEPT ![t] = Append(e, v)]
    BY <1>2, <1>4
  <2> QED
    BY <1>5, <2>1, <2>2, TablesTyped
<1>9. pc'[c] = "idle" /\ held'[c] = NoLocals /\ OthersStay(c)
  BY <1>4, IdleTyped, GoneTo DEF GovInv
<1>10. OwnerFits(t)'
  <2>1. c \in Moving(t) /\ OwnerFits(t)
    BY <1>1, <1>2, <1>4, <1>5 DEF Moving, GovInv
  <2>2. o # NoUnit
    BY <1>2, <2>1 DEF OwnerFits
  <2>3. CASE t \in crossed
    BY <1>2, <1>4, <2>2, <2>3 DEF OwnerFits
  <2>4. CASE t \notin crossed
    <3>1. /\ OwnerChain(e) /\ Moving(t) = {c} /\ MoveFits("recordOwner", a, e, o)
      BY <1>1, <1>2, <1>4, <2>1, <2>2, <2>4 DEF OwnerFits
    <3>2. Moving(t)' = {}
      BY <1>9, <3>1 DEF Moving, OthersStay
    <3>3. /\ o = a.unit
          /\ IF e = <<>> THEN v.from = NoUnit ELSE Last(e).to = v.from /\ v.to # v.from
      BY <1>6, <3>1 DEF MoveFits
    <3>4. OwnerChain(Append(e, v)) /\ Append(e, v) # <<>> /\ Last(Append(e, v)) = v
      <4>1. PICK Row : Row = [from: OrgUnits \cup {NoUnit}, to: OrgUnits]
        OBVIOUS
      <4>2. e \in Seq(Row) /\ v \in Row
        BY <1>6, <1>7, <4>1
      <4>3. OwnerChain(e) /\ IF e = <<>> THEN v.from = NoUnit ELSE Last(e).to = v.from /\ v.to # v.from
        BY <3>1, <3>3
      <4> QED
        BY <4>2, <4>3, ChainGrows
    <3> QED
      BY <1>2, <1>4, <1>6, <1>8, <2>2, <3>2, <3>3, <3>4 DEF OwnerFits
  <2> QED
    BY <2>3, <2>4
<1>11. ASSUME NEW u \in Templates \ {t} PROVE OwnerFits(u)'
  BY <1>1, <1>2, <1>4, <1>5, <1>8, <1>9, OtherOwners DEF Transferring
<1>12. CallerFits("idle", NoLocals)
  BY IdleFits DEF GovInv
<1> QED
  BY <1>4, <1>8, <1>10, <1>11, <1>12, IdleTyped, TablesTyped, BoundsTyped, OwningInv

LEMMA LoseCallerInv ==
    ASSUME GovInv, NEW c \in Callers, Lose(c)
    PROVE  GovInv'
<1>1. PICK place \in Places, a \in Locals : place = pc[c] /\ a = held[c] /\ CallerFits(place, a)
  BY AtPlace
<1>2. PICK t : t = a.template
  OBVIOUS
<1>3. /\ faults' = faults + 1 /\ requests' = requests /\ Goto(c, "idle", NoLocals) /\ End(c)
      /\ crossed' = (IF pc[c] = "recordOwner" THEN crossed \cup {t} ELSE crossed)
      /\ UNCHANGED <<people, owner, ownership, grants, clock>>
  BY <1>1, <1>2 DEF Lose, End
<1>4. faults' \in Nat
  BY <1>3, BoundsTyped
<1>5. CASE pc[c] \notin Transferring
  <2>1. UNCHANGED badges
    BY <1>3, <1>5 DEF badges, Transferring
  <2> QED
    BY <1>3, <1>4, <1>5, <2>1, BoundsTyped, EndInv DEF Transferring
<1>6. CASE pc[c] \in Transferring
  <2>1. t \in Templates
    BY <1>1, <1>2, <1>6 DEF CallerFits, OwningFits, OwnerPlaces, Transferring
  <2>2. pc'[c] = "idle" /\ held'[c] = NoLocals /\ OthersStay(c)
    BY <1>3, IdleTyped, GoneTo DEF GovInv
  <2>3. c \in Moving(t) /\ OwnerFits(t)
    BY <1>1, <1>2, <1>6, <2>1 DEF Moving, GovInv, Transferring
  <2>4. OwnerFits(t)'
    <3>1. owner[t] # NoUnit
      BY <2>3 DEF OwnerFits
    <3>2. CASE t \in crossed'
      BY <1>3, <3>1, <3>2 DEF OwnerFits
    <3>3. CASE t \notin crossed'
      <4>1. pc[c] = "setOwner" /\ t \notin crossed
        BY <1>3, <1>6, <3>3 DEF Transferring
      <4>2. Moving(t) = {c} /\ OwnerChain(ownership[t]) /\ MoveFits(pc[c], held[c], ownership[t], owner[t])
        BY <2>3, <3>1, <4>1 DEF OwnerFits
      <4>3. ownership[t] # <<>> /\ Last(ownership[t]).to = owner[t]
        BY <4>1, <4>2 DEF MoveFits
      <4>4. Moving(t)' = {}
        BY <2>2, <4>2 DEF Moving, OthersStay
      <4> QED
        BY <1>3, <3>1, <4>2, <4>3, <4>4 DEF OwnerFits
    <3> QED
      BY <3>2, <3>3
  <2>5. ASSUME NEW u \in Templates \ {t} PROVE OwnerFits(u)'
    BY <1>1, <1>2, <1>3, <2>1, <2>2, OtherOwners DEF Transferring
  <2>6. CallerFits("idle", NoLocals)
    BY IdleFits DEF GovInv
  <2>7. crossed' \subseteq Templates
    BY <1>3, <2>1, TablesTyped
  <2> QED
    BY <1>3, <1>4, <2>4, <2>5, <2>6, <2>7, IdleTyped, TablesTyped, BoundsTyped, OwningInv
<1> QED
  BY <1>5, <1>6

-----------------------------------------------------------------------------
LEMMA GovInitInv == GovInit => GovInv
<1> SUFFICES ASSUME GovInit PROVE GovInv
  OBVIOUS
<1>1. /\ FirstRoles \in [Users -> Roles] /\ FirstUnits \in [OrgUnits -> UnitRow \cup {Absent}]
      /\ FirstOwners \in [Templates -> OrgUnits \cup {NoUnit}] /\ NoUnit \notin OrgUnits
  BY GovernanceAssumption
<1>2. Existing = {} /\ Creating = {} /\ \A g : Recorders(g) = {}
  BY DEF GovInit, Existing, Creating, Recorders
<1>3. \A t \in Templates :
         /\ Moving(t) = {}
         /\ owner[t] = NoUnit => ownership[t] = <<>>
         /\ owner[t] # NoUnit => /\ owner[t] \in OrgUnits
                                 /\ ownership[t] = <<[from |-> NoUnit, to |-> owner[t]]>>
  BY <1>1 DEF GovInit, Moving
<1>4. GovTypeOK
  <2>1. ownership \in [Templates -> Seq([from: OrgUnits \cup {NoUnit}, to: OrgUnits])]
    <3> SUFFICES ASSUME NEW t \in Templates
                 PROVE  ownership[t] \in Seq([from: OrgUnits \cup {NoUnit}, to: OrgUnits])
      BY DEF GovInit
    <3>1. PICK Row : Row = [from: OrgUnits \cup {NoUnit}, to: OrgUnits]
      OBVIOUS
    <3>2. CASE owner[t] = NoUnit
      <4>1. <<>> \in Seq(Row)
        OBVIOUS
      <4> QED
        BY <1>3, <3>1, <3>2, <4>1
    <3>3. CASE owner[t] # NoUnit
      <4>1. PICK v : v = [from |-> NoUnit, to |-> owner[t]]
        OBVIOUS
      <4>2. v \in Row /\ ownership[t] = <<v>>
        BY <1>3, <3>1, <3>3, <4>1
      <4>3. <<v>> \in Seq(Row)
        BY <4>2
      <4> QED
        BY <3>1, <4>2, <4>3
    <3> QED
      BY <3>2, <3>3
  <2>2. scopes \in [Users -> [OrgUnits -> Roles]]
    BY DEF GovInit, Roles
  <2>3. events \in [Grants -> Counts]
    BY DEF GovInit, Counts
  <2> QED
    BY <1>1, <2>1, <2>2, <2>3, IdleTyped DEF GovTypeOK, GovInit
<1>5. \A c \in Callers : CallerFits(pc[c], held[c])
  BY <1>4, IdleFits DEF GovInit
<1>6. /\ GrantsSeenFit /\ GrantedIsWhole /\ ExpiredHasEnded
  BY <1>2 DEF GrantsSeenFit, GrantedIsWhole, ExpiredHasEnded
<1>7. Unwritten
  BY DEF Unwritten, GovInit
<1>8. SupplyLasts /\ RecordersCounted
  <2>1. Cardinality({}) = 0
    BY FS_EmptySet
  <2>2. SupplyLasts
    BY <1>2, <2>1, Finite DEF SupplyLasts
  <2>3. \A g \in Grants : events[g].expired = 0
    BY DEF GovInit
  <2>4. RecordersCounted
    BY <1>2, <2>1, <2>3, Finite DEF RecordersCounted
  <2> QED
    BY <2>2, <2>4
<1>9. ASSUME NEW t \in Templates PROVE OwnerFits(t)
  <2>1. CASE owner[t] = NoUnit
    BY <1>3, <2>1 DEF OwnerFits
  <2>2. CASE owner[t] # NoUnit
    <3>1. PICK e : e = ownership[t]
      OBVIOUS
    <3>2. PICK v : v = [from |-> NoUnit, to |-> owner[t]]
      OBVIOUS
    <3>3. e = <<v>>
      BY <1>3, <2>2, <3>1, <3>2
    <3>4. e # <<>> /\ Len(e) = 1 /\ e[1] = v
      BY <3>3
    <3>5. v.from = NoUnit /\ v.to = owner[t]
      BY <3>2
    <3>6. OwnerChain(e) /\ Last(e).to = owner[t]
      BY <3>4, <3>5 DEF OwnerChain, Last
    <3> QED
      BY <1>3, <2>2, <3>1, <3>4, <3>6 DEF OwnerFits
  <2> QED
    BY <2>1, <2>2
<1> QED
  BY <1>4, <1>5, <1>6, <1>7, <1>8, <1>9 DEF GovInv

LEMMA GovNextInv == GovInv /\ [GovNext]_govVars => GovInv'
<1> SUFFICES ASSUME GovInv, [GovNext]_govVars PROVE GovInv'
  OBVIOUS
<1>1. CASE Tenancy
  BY <1>1, TenancyInv
<1>2. ASSUME NEW c \in Callers, Delegating(c) PROVE GovInv'
  BY <1>2, ListGrantsInv, InsertExpiredInv, BeginGrantInv, CheckConflictsInv, CompareGrantInv, InsertGrantInv, InsertTemplateInv,
     RecordEventInv, ReadLastInv, BeginRevokeInv, ReadAgainInv, FoundInv, UpdateInv DEF Delegating
<1>3. ASSUME NEW c \in Callers, Permitting(c) PROVE GovInv'
  BY <1>3, BeginUseInv, BeginEditInv, ReadGrantsInv, SelectGrantsInv, ReadTemplatesInv, DecideGrantInv,
     HasScopesInv, HasAccessInv, UsePermissionInv DEF Permitting
<1>4. ASSUME NEW c \in Callers, Owning(c) PROVE GovInv'
  BY <1>4, BeginTransferInv, CreateTemplateInv, SetOwnerInv, RecordOwnerInv DEF Owning
<1>5. ASSUME NEW c \in Callers, Lose(c) PROVE GovInv'
  BY <1>5, LoseCallerInv
<1>6. CASE UNCHANGED govVars
  <2>1. UNCHANGED <<role, units, scopes, owner, ownership, crossed, grant, events, latest, clock, pc, held,
                    requests, faults>>
    BY <1>6 DEF govVars, people, badges, grants, bounds
  <2>2. GovTypeOK'
    BY <2>1 DEF GovInv, GovTypeOK
  <2>3. Unwritten' /\ GrantedIsWhole' /\ ExpiredHasEnded'
    BY <2>1 DEF GovInv, Unwritten, Existing, GrantedIsWhole, Whole, ExpiredHasEnded
  <2>4. SupplyLasts' /\ RecordersCounted'
    BY <2>1 DEF GovInv, SupplyLasts, Existing, Creating, RecordersCounted, Recorders
  <2>5. GrantsSeenFit'
    BY <2>1 DEF GovInv, GrantsSeenFit, SeenFit, Existing
  <2>6. \A c \in Callers : CallerFits(pc[c], held[c])'
    BY <2>1 DEF GovInv, CallerFits, GrantFits, UseFits, OwningFits, Using, Judging, SeenFit, Giving,
       ComparedFit, EndedFit, Chosen, ReadWhole, EndedSomehow, Existing
  <2>7. \A t \in Templates : OwnerFits(t)'
    BY <2>1 DEF GovInv, OwnerFits, Moving, MoveFits
  <2> QED
    BY <2>2, <2>3, <2>4, <2>5, <2>6, <2>7 DEF GovInv
<1> QED
  BY <1>1, <1>2, <1>3, <1>4, <1>5, <1>6 DEF GovNext

\* What requests hold, which grants their checks had seen, who may yet record an expiry, and
\* the histories of templates fit in every reachable state.
THEOREM GrantInvariance == GovSpec => []GovInv
  BY GovInitInv, GovNextInv, PTL DEF GovSpec

\* Grants on record are whole once their event is written, do not clash unless they were asked
\* for by overlapping requests, and expire when they have ended, once for each reader
\* (createDelegatedIssuingAuthorityGrant, recordExpiredDelegatedIssuingAuthorityGrants).
THEOREM GrantsStaySound == GovSpec => []GrantsAreSound
<1>1. ASSUME GovInv PROVE GrantsAreSound
  <2>1. ConflictsOverlapped
    <3> SUFFICES ASSUME NEW g \in Existing, NEW h \in Existing, Clash(grant[g].of, grant[h].of)
                 PROVE  g \notin grant[h].seen /\ h \notin grant[g].seen
      BY DEF ConflictsOverlapped
    <3>1. Clash(grant[h].of, grant[g].of)
      BY DEF Clash, Overlap
    <3>2. SeenFit(grant[g].seen, grant[g].of) /\ SeenFit(grant[h].seen, grant[h].of)
      BY <1>1 DEF GovInv, GrantsSeenFit
    <3> QED
      BY <3>1, <3>2 DEF SeenFit
  <2>2. ExpiredOncePerReader
    <3> SUFFICES ASSUME NEW g \in Grants PROVE events[g].expired <= Cardinality(Callers)
      BY DEF ExpiredOncePerReader
    <3>1. events[g].expired + Cardinality(Recorders(g)) <= Cardinality(Callers) /\ events[g].expired \in Nat
      BY <1>1 DEF GovInv, GovTypeOK, RecordersCounted, Counts
    <3> QED
      BY <3>1, Finite
  <2> QED
    BY <1>1, <2>1, <2>2 DEF GovInv, GrantsAreSound
<1> QED
  BY <1>1, GrantInvariance, PTL

\* A template's history is a chain that ends at its owner, unless transfers of it overlapped or
\* were lost half-way (transferBadgeTemplateOwnership, createBadgeTemplate).
THEOREM OwnersAreExplained == GovSpec => []OwnershipExplained
<1>1. ASSUME GovInv PROVE OwnershipExplained
  <2> SUFFICES ASSUME NEW t \in Templates, t \notin crossed, Moving(t) = {}, owner[t] # NoUnit,
                      NEW e, e = ownership[t]
               PROVE  /\ Len(e) > 0 /\ e[Len(e)].to = owner[t] /\ e[1].from = NoUnit
                      /\ \A i \in 1..(Len(e) - 1) : e[i + 1].from = e[i].to /\ e[i + 1].to # e[i].to
    BY DEF OwnershipExplained
  <2>1. OwnerChain(e) /\ e # <<>> /\ Last(e).to = owner[t]
    BY <1>1 DEF GovInv, OwnerFits
  <2>2. e \in Seq([from: OrgUnits \cup {NoUnit}, to: OrgUnits])
    BY <1>1, TablesTyped
  <2>3. Len(e) > 0
    BY <2>1, <2>2, EmptySeq
  <2> QED
    BY <2>1, <2>3 DEF OwnerChain, Last
<1> QED
  BY <1>1, GrantInvariance, PTL

-----------------------------------------------------------------------------
\* What a request that comes to be permitted was given, by a grant or by role and scope.
PermitsRightly ==
    \A c \in Callers : pc'[c] = "permitted" /\ pc[c] # "permitted" =>
        LET a == held'[c]
        IN  IF a.grant = NoGrant THEN RolePermits(a) ELSE GrantPermits(a.grant, a, clock)

RevokedStay == \A g \in Existing : grant[g].revoked # 0 => grant'[g].revoked = grant[g].revoked

LEMMA NonePermitted ==
    ASSUME GovInv, NEW c \in Callers, NEW place \in Places \ {"permitted"}, NEW a, Goto(c, place, a)
    PROVE  PermitsRightly
<1>1. pc \in [Callers -> Places]
  BY DEF GovInv, GovTypeOK
<1>2. \A d \in Callers : pc'[d] = "permitted" => pc[d] = "permitted"
  BY <1>1 DEF Goto
<1> QED
  BY <1>2 DEF PermitsRightly

LEMMA OnePermitted ==
    ASSUME GovInv, NEW c \in Callers, NEW a \in Locals, Goto(c, "permitted", a),
           IF a.grant = NoGrant THEN RolePermits(a) ELSE GrantPermits(a.grant, a, clock)
    PROVE  PermitsRightly
<1>1. pc'[c] = "permitted" /\ held'[c] = a /\ OthersStay(c)
  BY GoneTo DEF GovInv, Places
<1> SUFFICES ASSUME NEW d \in Callers, pc'[d] = "permitted", pc[d] # "permitted"
             PROVE  d = c
  BY <1>1 DEF PermitsRightly
<1> QED
  BY <1>1 DEF OthersStay

LEMMA ReadPermitsNone ==
    ASSUME GovInv, NEW c \in Callers, NEW now, NEW next \in Places \ {"permitted"}, NEW a,
           ReadExpired(c, now, next, a)
    PROVE  PermitsRightly
<1>1. "insertExpired" \in Places \ {"permitted"}
  BY DEF Places
<1>2. CASE Due(now) = {}
  BY <1>2, NonePermitted DEF ReadExpired
<1>3. CASE Due(now) # {}
  BY <1>1, <1>3, NonePermitted DEF ReadExpired
<1> QED
  BY <1>2, <1>3

LEMMA EndPermitsNone ==
    ASSUME GovInv, NEW c \in Callers, End(c)
    PROVE  PermitsRightly
<1>1. "idle" \in Places \ {"permitted"}
  BY DEF Places
<1> QED
  BY <1>1, NonePermitted DEF End

LEMMA DelegatingPermitsNone ==
    ASSUME GovInv, NEW c \in Callers, Delegating(c)
    PROVE  PermitsRightly
<1>1. PICK place \in Places, a \in Locals : place = pc[c] /\ a = held[c] /\ CallerFits(place, a)
  BY AtPlace
<1>2. {"idle", "conflicts", "insertGrant", "insertTemplate", "recordEvent", "insertExpired", "readAgain", "found",
       "update", "readLast", "selectGrants", "compare"} \subseteq Places \ {"permitted"}
  BY DEF Places
<1>3. CASE ListGrants(c)
  <2>1. CASE UNCHANGED <<pc, held>>
    BY <2>1 DEF PermitsRightly
  <2>2. CASE ReadExpired(c, clock, "idle", NoLocals)
    BY <1>2, <2>2, ReadPermitsNone
  <2> QED
    BY <1>3, <2>1, <2>2 DEF ListGrants
<1>4. CASE InsertExpired(c)
  <2>1. place = "insertExpired"
    BY <1>1, <1>4 DEF InsertExpired
  <2>2. a.next \in NextPlaces
    BY <1>1, <2>1 DEF CallerFits, GrantFits
  <2>3. PICK next, b : next \in NextPlaces \cup {"insertExpired"} /\ (End(c) \/ Goto(c, next, b))
    BY <1>1, <1>4, <2>2 DEF InsertExpired
  <2>4. next \in Places \ {"permitted"}
    BY <1>2, <2>3 DEF NextPlaces
  <2> QED
    BY <2>3, <2>4, NonePermitted, EndPermitsNone
<1>5. CASE \E r \in Asked : BeginGrant(c, r)
  <2>1. PICK b : Goto(c, "conflicts", b)
    BY <1>5 DEF BeginGrant
  <2> QED
    BY <1>2, <2>1, NonePermitted
<1>6. CASE CheckConflicts(c)
  <2>1. PICK next, b : next \in {"insertGrant", "compare"} /\ Goto(c, next, b)
    BY <1>6 DEF CheckConflicts
  <2> QED
    BY <1>2, <2>1, NonePermitted
<1>60. CASE CompareGrant(c)
  <2>1. PICK next, b : next \in {"insertGrant", "compare"} /\ (End(c) \/ Goto(c, next, b))
    BY <1>60 DEF CompareGrant
  <2> QED
    BY <1>2, <2>1, NonePermitted, EndPermitsNone
<1>7. CASE InsertGrant(c) \/ InsertTemplate(c)
  <2>1. PICK r, present, b : Goto(c, AfterRow(r, present), b)
    BY <1>7 DEF InsertGrant, InsertTemplate, Continue
  <2>2. AfterRow(r, present) \in Places \ {"permitted"}
    BY <1>2 DEF AfterRow
  <2> QED
    BY <2>1, <2>2, NonePermitted
<1>8. CASE RecordEvent(c)
  BY <1>2, <1>8, NonePermitted DEF RecordEvent, Continue
<1>9. CASE ReadLast(c)
  BY <1>2, <1>9, ReadPermitsNone, EndPermitsNone DEF ReadLast
<1>10. CASE \E g \in Grants, when \in Times : BeginRevoke(c, g, when)
  <2>1. PICK b : ReadExpired(c, clock, "readAgain", b)
    BY <1>10 DEF BeginRevoke
  <2> QED
    BY <1>2, <2>1, ReadPermitsNone
<1>11. CASE ReadAgain(c)
  BY <1>2, <1>11, ReadPermitsNone DEF ReadAgain
<1>12. CASE Found(c)
  BY <1>2, <1>12, NonePermitted, EndPermitsNone DEF Found, Continue
<1>13. CASE Update(c)
  <2>1. PICK next, b : next \in {"recordEvent", "readLast"} /\ Goto(c, next, b)
    BY <1>13 DEF Update
  <2> QED
    BY <1>2, <2>1, NonePermitted
<1> QED
  BY <1>3, <1>4, <1>5, <1>6, <1>60, <1>7, <1>8, <1>9, <1>10, <1>11, <1>12, <1>13 DEF Delegating

LEMMA OwningPermitsNone ==
    ASSUME GovInv, NEW c \in Callers, Owning(c)
    PROVE  PermitsRightly
<1>1. {"setOwner", "recordOwner"} \subseteq Places \ {"permitted"}
  BY DEF Places
<1>2. CASE \E t \in Templates, unit \in OrgUnits : BeginTransfer(c, t, unit)
  <2>1. PICK b : Goto(c, "setOwner", b)
    BY <1>2 DEF BeginTransfer
  <2> QED
    BY <1>1, <2>1, NonePermitted
<1>3. CASE CreateTemplate(c) \/ SetOwner(c)
  <2>1. End(c) \/ Goto(c, "recordOwner", held[c])
    BY <1>3 DEF CreateTemplate, SetOwner, Continue
  <2> QED
    BY <1>1, <2>1, NonePermitted, EndPermitsNone
<1>4. CASE RecordOwner(c)
  BY <1>4, EndPermitsNone DEF RecordOwner
<1> QED
  BY <1>2, <1>3, <1>4 DEF Owning

\* Who is permitted without a grant was an administrator, or an issuer whose scopes allow it.
LEMMA BeginUsePermits ==
    ASSUME GovInv, NEW c \in Callers, NEW u \in Users, NEW t \in Templates, NEW action \in Actions,
           BeginUse(c, u, t, action)
    PROVE  PermitsRightly
<1>0. PICK over : over = {g \in Existing : grant[g].revoked # 0}
  OBVIOUS
<1>1. PICK b : b = [NoLocals EXCEPT !.user = u, !.role = role[u], !.template = t,
                                     !.action = action, !.unit = owner[t], !.ended = over]
  OBVIOUS
<1>2. PICK place : place = (IF role[u] = "admin" THEN "permitted" ELSE "readGrants")
  OBVIOUS
<1>3. pc[c] = "idle" /\ Goto(c, place, b)
  BY <1>0, <1>1, <1>2 DEF BeginUse, CountRequest
<1>4. role[u] \in Roles /\ owner[t] \in OrgUnits \cup {NoUnit}
  BY DEF GovInv, GovTypeOK
<1>5. b \in Locals /\ b.grant = NoGrant /\ b.role = role[u]
  <2>1. over \in SUBSET Grants
    BY <1>0 DEF Existing
  <2> QED
    BY <1>1, <1>4, <2>1, IdleTyped DEF Locals, NoLocals
<1>6. CASE role[u] = "admin"
  BY <1>2, <1>3, <1>5, <1>6, OnePermitted DEF RolePermits
<1>7. CASE role[u] # "admin"
  <2>1. place \in Places \ {"permitted"}
    BY <1>2, <1>7 DEF Places
  <2> QED
    BY <1>3, <2>1, NonePermitted
<1> QED
  BY <1>6, <1>7

LEMMA BeginEditPermits ==
    ASSUME GovInv, NEW c \in Callers, NEW u \in Users, NEW t \in Templates, NEW unit \in OrgUnits,
           BeginEdit(c, u, t, unit)
    PROVE  PermitsRightly
<1>1. PICK b : b = [NoLocals EXCEPT !.user = u, !.role = role[u], !.template = t, !.unit = unit]
  OBVIOUS
<1>2. PICK place : place = (IF role[u] = "admin" THEN "permitted" ELSE "hasScopes")
  OBVIOUS
<1>3. pc[c] = "idle" /\ Goto(c, place, b)
  BY <1>1, <1>2 DEF BeginEdit, CountRequest
<1>4. role[u] \in Roles
  BY DEF GovInv, GovTypeOK
<1>5. b \in Locals /\ b.grant = NoGrant /\ b.role = role[u]
  BY <1>1, <1>4, IdleTyped DEF Locals, NoLocals
<1>6. CASE role[u] = "admin"
  BY <1>2, <1>3, <1>5, <1>6, OnePermitted DEF RolePermits
<1>7. CASE role[u] # "admin"
  <2>1. place \in Places \ {"permitted"}
    BY <1>2, <1>7 DEF Places
  <2> QED
    BY <1>3, <2>1, NonePermitted
<1> QED
  BY <1>6, <1>7

LEMMA NextRowPermitsNone ==
    ASSUME GovInv, NEW c \in Callers, NEW left, NextRow(c, left)
    PROVE  PermitsRightly
<1>1. {"hasScopes", "readTemplates"} \subseteq Places \ {"permitted"}
  BY DEF Places
<1> QED
  BY <1>1, NonePermitted, EndPermitsNone DEF NextRow, WithoutGrant

LEMMA GrantsPermit ==
    ASSUME GovInv, NEW c \in Callers, DecideGrant(c)
    PROVE  PermitsRightly
<1>1. PICK place \in Places, a \in Locals : place = pc[c] /\ a = held[c] /\ CallerFits(place, a)
  BY AtPlace
<1>2. place = "decideGrant"
  BY <1>1 DEF DecideGrant
<1>3. a.now <= clock /\ Chosen(a.grant, a) /\ ReadWhole(a)
  BY <1>1, <1>2 DEF CallerFits, UseFits, Judging, Deciding
<1>4. CASE NextRow(c, a.due)
  BY <1>4, NextRowPermitsNone
<1>5. CASE Covers(a) /\ Goto(c, "permitted", a)
  <2>1. PICK g : g = a.grant
    OBVIOUS
  <2>2. g \in Existing /\ grant[g].of \in AskedRecord /\ g # NoGrant
    BY <1>3, <2>1, RowTyped, GovernanceAssumption DEF Chosen, Existing, GovInv
  <2>3. grant[g].of.from <= clock
    <3>1. grant[g].of.from \in Nat /\ a.now \in Nat /\ clock \in Nat
      BY <2>2, BoundsTyped DEF AskedRecord, Locals
    <3> QED
      BY <1>3, <2>1, <3>1 DEF Chosen
  <2>4. GrantPermits(g, a, clock)
    BY <1>3, <1>5, <2>1, <2>3 DEF GrantPermits, Covers, Chosen, ReadWhole
  <2> QED
    BY <1>5, <2>1, <2>2, <2>4, OnePermitted
<1> QED
  BY <1>1, <1>4, <1>5 DEF DecideGrant, Continue

LEMMA ScopesPermit ==
    ASSUME GovInv, NEW c \in Callers, HasScopes(c) \/ HasAccess(c)
    PROVE  PermitsRightly
<1>1. PICK place \in Places, a \in Locals : place = pc[c] /\ a = held[c] /\ CallerFits(place, a)
  BY AtPlace
<1>2. place \in {"hasScopes", "hasAccess"}
  BY <1>1 DEF HasScopes, HasAccess
<1>3. a.grant = NoGrant /\ a.role = "issuer"
  BY <1>1, <1>2 DEF CallerFits, UseFits, Using
<1>4. "hasAccess" \in Places \ {"permitted"}
  BY DEF Places
<1>5. CASE Goto(c, "hasAccess", a) \/ End(c)
  BY <1>4, <1>5, NonePermitted, EndPermitsNone
<1>6. ASSUME ~Scoped(a.user) \/ Access(a.user, a.unit), Goto(c, "permitted", a) PROVE PermitsRightly
  <2>1. RolePermits(a)
    BY <1>3, <1>6 DEF RolePermits, Scoped, Access
  <2> QED
    BY <1>3, <1>6, <2>1, OnePermitted
<1> QED
  BY <1>1, <1>5, <1>6 DEF HasScopes, HasAccess, Continue

LEMMA PermittingRightly ==
    ASSUME GovInv, NEW c \in Callers, Permitting(c)
    PROVE  PermitsRightly
<1>1. {"selectGrants", "decideGrant", "createTemplate"} \subseteq Places \ {"permitted"}
  BY DEF Places
<1>2. CASE ReadGrants(c)
  BY <1>1, <1>2, ReadPermitsNone DEF ReadGrants
<1>3. CASE UsePermission(c)
  BY <1>1, <1>3, NonePermitted, EndPermitsNone DEF UsePermission, Continue
<1>4. CASE SelectGrants(c)
  BY <1>4, NextRowPermitsNone DEF SelectGrants
<1>5. CASE ReadTemplates(c)
  BY <1>1, <1>5, NonePermitted DEF ReadTemplates
<1> QED
  BY <1>2, <1>3, <1>4, <1>5, BeginUsePermits, BeginEditPermits, GrantsPermit, ScopesPermit DEF Permitting

LEMMA DelegatingRevokedStay ==
    ASSUME GovInv, NEW c \in Callers, Delegating(c)
    PROVE  RevokedStay
<1>1. PICK place \in Places, a \in Locals : place = pc[c] /\ a = held[c] /\ CallerFits(place, a)
  BY AtPlace
<1>2. grant \in [Grants -> GrantRow \cup {NoGrantRow}] /\ Existing \subseteq Grants
  BY Finite DEF GovInv, GovTypeOK
<1>3. CASE InsertGrant(c)
  <2>1. c \in Creating
    BY <1>3 DEF InsertGrant, Creating
  <2>2. PICK g \in Grants : g \notin Existing /\ g = CHOOSE h \in Grants : h \notin Existing
    BY <2>1, SupplyLeft
  <2>3. PICK row : grant' = [grant EXCEPT ![g] = row]
    BY <1>3, <2>2 DEF InsertGrant
  <2> QED
    BY <1>2, <2>2, <2>3 DEF RevokedStay
<1>4. CASE InsertTemplate(c)
  <2>1. PICK g, present : grant' = [grant EXCEPT ![g].templates = present]
    BY <1>4 DEF InsertTemplate
  <2> SUFFICES ASSUME NEW h \in Existing PROVE grant'[h].revoked = grant[h].revoked
    BY DEF RevokedStay
  <2>2. PICK row : row = grant[h]
    OBVIOUS
  <2>3. row \in GrantRow
    BY <2>2, RowTyped DEF GovInv
  <2>4. [row EXCEPT !.templates = present].revoked = row.revoked
    BY <2>3 DEF GrantRow
  <2>5. grant'[h] = row \/ grant'[h] = [row EXCEPT !.templates = present]
    BY <1>2, <2>1, <2>2
  <2> QED
    BY <2>2, <2>4, <2>5
<1>5. CASE Update(c)
  <2>1. PICK g : g = a.grant
    OBVIOUS
  <2>2. grant' = [grant EXCEPT ![g] = RevokedRow(grant[g], a.at)]
    BY <1>1, <1>2, <1>5, <2>1 DEF Update
  <2> QED
    BY <1>2, <2>2 DEF RevokedStay, RevokedRow
<1>6. CASE \/ ListGrants(c) \/ InsertExpired(c) \/ CheckConflicts(c) \/ CompareGrant(c) \/ RecordEvent(c) \/ ReadLast(c)
           \/ ReadAgain(c) \/ Found(c)
  <2>1. UNCHANGED grant
    BY <1>6 DEF ListGrants, InsertExpired, CheckConflicts, CompareGrant, RecordEvent, ReadLast, ReadAgain, Found, grants
  <2> QED
    BY <2>1 DEF RevokedStay
<1>7. ASSUME NEW r \in Asked, BeginGrant(c, r) PROVE RevokedStay
  BY <1>7 DEF BeginGrant, grants, RevokedStay
<1>8. ASSUME NEW g \in Grants, NEW when \in Times, BeginRevoke(c, g, when) PROVE RevokedStay
  <2>1. grant' = grant
    BY <1>8 DEF BeginRevoke
  <2> QED
    BY <2>1 DEF RevokedStay
<1> QED
  BY <1>3, <1>4, <1>5, <1>6, <1>7, <1>8 DEF Delegating

\* Whoever comes to be permitted something was given it, by a grant that stands or by role and
\* scope, and a revoked grant stays revoked (findActiveDelegatedIssuingAuthorityGrantForAction,
\* requireScopedOrgUnitPermission, revokeDelegatedIssuingAuthorityGrant).
THEOREM PermissionsAreGiven == GovSpec => PermittedAsGiven
<1>1. ASSUME GovInv, [GovNext]_govVars PROVE PermitsRightly /\ RevokedStay
  <2>1. CASE Tenancy \/ UNCHANGED govVars
    <3>1. UNCHANGED <<pc, grant>>
      BY <2>1 DEF Tenancy, AssignRole, CreateUnit, AssignScope, RemoveScope, Tick, govVars, grants
    <3> QED
      BY <3>1 DEF PermitsRightly, RevokedStay
  <2>2. ASSUME NEW c \in Callers, Delegating(c) PROVE PermitsRightly /\ RevokedStay
    BY <1>1, <2>2, DelegatingPermitsNone, DelegatingRevokedStay
  <2>3. ASSUME NEW c \in Callers, Permitting(c) \/ Owning(c) \/ Lose(c) PROVE PermitsRightly /\ RevokedStay
    <3>1. PermitsRightly
      BY <1>1, <2>3, PermittingRightly, OwningPermitsNone, EndPermitsNone DEF Lose
    <3>2. Permitting(c) => UNCHANGED grant
      <4>1. ASSUME NEW u \in Users, NEW t \in Templates, NEW action \in Actions, BeginUse(c, u, t, action)
            PROVE  grant' = grant
        BY <4>1 DEF BeginUse, grants
      <4>2. ASSUME NEW u \in Users, NEW t \in Templates, NEW unit \in OrgUnits, BeginEdit(c, u, t, unit)
            PROVE  grant' = grant
        BY <4>2 DEF BeginEdit, grants
      <4>3. ReadGrants(c) \/ SelectGrants(c) \/ DecideGrant(c) => grant' = grant
        BY DEF ReadGrants, SelectGrants, DecideGrant, grants
      <4>5. ReadTemplates(c) => grant' = grant
        BY DEF ReadTemplates, grants
      <4>4. HasScopes(c) \/ HasAccess(c) \/ UsePermission(c) => grant' = grant
        BY DEF HasScopes, HasAccess, UsePermission, grants
      <4> QED
        BY <4>1, <4>2, <4>3, <4>4, <4>5 DEF Permitting
    <3>3. Owning(c) \/ Lose(c) => UNCHANGED grant
      <4>1. ASSUME NEW t \in Templates, NEW unit \in OrgUnits, BeginTransfer(c, t, unit) PROVE grant' = grant
        BY <4>1 DEF BeginTransfer, grants
      <4>2. CreateTemplate(c) \/ SetOwner(c) \/ RecordOwner(c) \/ Lose(c) => grant' = grant
        BY DEF CreateTemplate, SetOwner, RecordOwner, Lose, grants
      <4> QED
        BY <4>1, <4>2 DEF Owning
    <3> QED
      BY <2>3, <3>1, <3>2, <3>3 DEF RevokedStay
  <2> QED
    BY <1>1, <2>1, <2>2, <2>3 DEF GovNext
<1>2. ASSUME GovInv, [GovNext]_govVars PROVE [PermitsRightly /\ RevokedStay]_govVars
  BY <1>1, <1>2
<1>3. GovSpec => [][PermitsRightly /\ RevokedStay]_govVars
  BY <1>2, GrantInvariance, PTL DEF GovSpec
<1> QED
  BY <1>3, PTL DEF PermittedAsGiven, PermitsRightly, RevokedStay

-----------------------------------------------------------------------------
(* The connection to an LMS. Its invariant, in named parts: what the stored *)
(* row and the rows that requests read say of the LMS's tokens, what each   *)
(* request holds, and, unless the connection is adrift, whose tokens they   *)
(* are and how long they last.                                              *)

BooksOf(kind) == UNION {Books[KindOf[p]] : p \in {q \in Platforms : KindOf[q] = kind}}
AllBooks == UNION {Books[KindOf[p]] : p \in Platforms}
ConnRow == [platform: Maybe(Platforms), access: Maybe(Tokens), refresh: Maybe(Tokens),
            ends: 0..MaxMinute + Life]

\* What may be read as the facts of a course.
GradesRead == {SakaiGrades(b, Learner) : b \in BooksOf("sakai")}
                \cup {CanvasGrades(Course, b.enrollments, Learner) : b \in BooksOf("canvas")}
CompletionsRead == {SakaiCompletions(b, Learner) : b \in BooksOf("sakai")}
                     \cup {CanvasCompletions(Course, b.enrollments, Learner) : b \in BooksOf("canvas")}
SubmissionsRead == {SakaiSubmissions(b, Learner, Assignment) : b \in BooksOf("sakai")}
                     \cup {CanvasSubmissions(Course, b.submissions, Learner, Assignment) : b \in BooksOf("canvas")}
FactsRead == [grades: SUBSET GradesRead, completions: SUBSET CompletionsRead,
              submissions: SUBSET SubmissionsRead]

CallRow == [job: {"none", "exchange", "snapshot", "evaluate"}, kind: {"canvas", "sakai"}, conn: ConnRow,
            since: 0..MaxMinute, code: Maybe(Tokens), access: Maybe(Tokens), refresh: Maybe(Tokens),
            facts: FactsRead, cache: Maybe(AllBooks), seen: SUBSET AllBooks]

CallsTyped ==
    /\ call \in [Calls -> CallRow]
    /\ book \in [Platforms -> AllBooks]
    /\ \A p \in Platforms : book[p] \in Books[KindOf[p]]

Is(t, use, p) == t \in Tokens /\ issued[t].use = use /\ issued[t].platform = p

\* What the LMS hands out: an access token is never taken back before its end.
TokensFit ==
    \A t \in Tokens :
        /\ issued[t].use = "refresh" =>
               issued[t].ends = 0 /\ (issued[t].platform \notin Rotating => issued[t].live)
        /\ issued[t].use = "access" => issued[t].live /\ issued[t].ends \in Life..(minute + Life)

RowFits(row) ==
    /\ row.access # Null => issued[row.access].use = "access" /\ row.ends <= issued[row.access].ends
    /\ row.refresh # Null => issued[row.refresh].use = "refresh"
    /\ row.access = Null => row.refresh = Null /\ row.ends = 0

\* The row's access token is its LMS's, and the row says when it ends.
RowGood(row) ==
    row.access # Null => /\ issued[row.access].platform = row.platform
                         /\ row.platform \notin Silent => row.ends # 0

EndedFor(a) == a.conn.ends # 0 /\ a.conn.ends <= a.since

\* An access token that was asked for since the request began.
NewFor(t, a) == t # Null /\ issued[t].use = "access" /\ issued[t].ends >= a.since + Life

StoreFits(a) ==
    /\ NewFor(a.access, a) /\ Is(a.access, "access", a.conn.platform)
    /\ a.job = "exchange" => a.refresh # Null
    /\ a.job # "exchange" => EndedFor(a) /\ a.conn.refresh # Null
    /\ a.refresh # Null => Is(a.refresh, "refresh", a.conn.platform) /\ issued[a.refresh].live
    /\ a.refresh = Null => Is(a.conn.refresh, "refresh", a.conn.platform) /\ a.conn.platform \notin Rotating

\* The token a request read was good for it, or the driver did not tell of the new one.
AsRead(a) ==
    /\ a.access = a.conn.access /\ a.access # Null
    /\ ~EndedFor(a) \/ a.conn.refresh = Null \/ ~tallied

FactsFit(a) ==
    /\ a.kind = "canvas" =>
           /\ \A s \in UNION a.facts.grades :
                  \E b \in a.seen : s \in CanvasGrades(Course, b.enrollments, Learner)
           /\ \A s \in UNION a.facts.submissions :
                  \E b \in a.seen : s \in CanvasSubmissions(Course, b.submissions, Learner, Assignment)
    /\ a.kind = "sakai" /\ a.cache # Null =>
           /\ KindOf[a.conn.platform] = "sakai" /\ a.cache \in Books["sakai"]
           /\ a.facts.grades \subseteq {SakaiGrades(a.cache, Learner)}
           /\ a.facts.completions \subseteq {SakaiCompletions(a.cache, Learner)}
    /\ a.kind = "sakai" /\ a.cache = Null => a.facts = NoFacts

HeldFits(place, a) ==
    /\ place = "idle" => a = NoCall
    /\ place # "idle" =>
           /\ a.job # "none" /\ a.conn.platform \in Platforms /\ a.since <= minute /\ RowFits(a.conn)
           /\ a.conn.access # Null => issued[a.conn.access].ends <= a.since + Life
           /\ a.job # "exchange" => book[a.conn.platform] \in a.seen
           /\ a.job = "exchange" => place # "fetch"
    /\ place = "exchange" => a.job = "exchange" /\ a.code # Null
    /\ place = "refresh" => a.job # "exchange" /\ EndedFor(a) /\ a.conn.refresh # Null
    /\ place = "store" => StoreFits(a)
    /\ FactsFit(a)
    /\ place # "fetch" => a.facts = NoFacts /\ a.cache = Null

\* A refresh token on its way to be stored is known to its request only.
NewIsUnknown ==
    \A c \in Calls : at[c] = "store" /\ call[c].refresh # Null =>
        /\ conn.refresh # call[c].refresh
        /\ \A d \in Calls : call[d].conn.refresh # call[c].refresh
        /\ \A d \in Calls \ {c} : at[d] = "store" => call[d].refresh # call[c].refresh

\* What a request that is under way may rest on.
Steady(place, a) ==
    place # "idle" =>
        /\ a.conn.platform = conn.platform
        /\ a.job # "exchange" => RowGood(a.conn)
        /\ place = "reread" => NewFor(conn.access, a)
        /\ place = "fetch" => AsRead(a) \/ (NewFor(a.access, a) /\ Is(a.access, "access", a.conn.platform))

LmsInv ==
    /\ ConnTypeOK
    /\ CallsTyped
    /\ TokensFit
    /\ RowFits(conn)
    /\ \A c \in Calls : HeldFits(at[c], call[c])
    /\ NewIsUnknown
    /\ ~adrift => RowGood(conn) /\ \A c \in Calls : Steady(at[c], call[c])
    /\ RefreshTokenIsGood

-----------------------------------------------------------------------------
TokenRow == [platform: Maybe(Platforms), ends: 0..MaxMinute + Life, live: BOOLEAN,
             use: {"none", "code", "access", "refresh"}]
CallPlaces == {"idle", "exchange", "refresh", "store", "reread", "fetch"}

RestStays(c) == \A d \in Calls \ {c} : at'[d] = at[d] /\ call'[d] = call[d]

\* A token that was handed out keeps its use, its platform and its end.
TokensKept ==
    \A t \in Tokens : issued[t].use # "none" =>
        /\ issued'[t].use = issued[t].use /\ issued'[t].platform = issued[t].platform
        /\ issued'[t].ends = issued[t].ends

LEMMA LmsConstants ==
    /\ Null \notin Tokens /\ Null \notin Platforms /\ IsFiniteSet(Tokens)
    /\ Life \in Nat /\ Life > 0 /\ MaxMinute \in Nat /\ MaxCalls \in Nat /\ MaxLostCalls \in Nat
    /\ \A p \in Platforms : KindOf[p] \in {"canvas", "sakai"}
  BY LmsAssumption

LEMMA LmsTyped ==
    ASSUME LmsInv
    PROVE  /\ conn \in ConnRow /\ issued \in [Tokens -> TokenRow]
           /\ states \subseteq 0..MaxMinute /\ minute \in 0..MaxMinute /\ minute \in Nat
           /\ at \in [Calls -> CallPlaces] /\ call \in [Calls -> CallRow]
           /\ book \in [Platforms -> AllBooks] /\ \A p \in Platforms : book[p] \in Books[KindOf[p]]
           /\ tallied \in BOOLEAN /\ adrift \in BOOLEAN /\ asked \in 0..MaxCalls /\ gone \in 0..MaxLostCalls
<1>1. minute \in 0..MaxMinute /\ MaxMinute \in Nat
  BY LmsConstants DEF LmsInv, ConnTypeOK
<1>2. minute \in Nat
  BY <1>1
<1> QED
  BY <1>1, <1>2 DEF LmsInv, ConnTypeOK, CallsTyped, ConnRow, TokenRow, CallPlaces

LEMMA NoCallTyped ==
    /\ NoConn \in ConnRow /\ NoCall \in CallRow /\ NoFacts \in FactsRead
    /\ NoCall.since = 0 /\ NoCall.conn = NoConn /\ NoCall.refresh = Null /\ NoCall.facts = NoFacts
    /\ NoCall.cache = Null /\ NoCall.job = "none" /\ NoCall.kind = "canvas"
    /\ NoConn.refresh = Null /\ NoConn.access = Null /\ NoConn.platform = Null
    /\ NoFacts.grades = {} /\ NoFacts.completions = {} /\ NoFacts.submissions = {}
<1>1. NoConn \in ConnRow /\ NoFacts \in FactsRead
  BY LmsConstants DEF NoConn, ConnRow, Maybe, NoFacts, FactsRead
<1>2. 0 \in 0..MaxMinute
  BY LmsConstants
<1> QED
  BY <1>1, <1>2 DEF NoCall, CallRow, Maybe, NoConn, NoFacts

LEMMA AtCall ==
    ASSUME LmsInv, NEW c \in Calls
    PROVE  \E place \in CallPlaces, a \in CallRow :
              /\ place = at[c] /\ a = call[c] /\ HeldFits(place, a)
              /\ ~adrift => Steady(place, a)
  BY LmsTyped DEF LmsInv

LEMMA CallFields ==
    ASSUME NEW a \in CallRow
    PROVE  /\ a.conn \in ConnRow /\ a.since \in Nat /\ a.since \in 0..MaxMinute
           /\ a.access \in Maybe(Tokens) /\ a.refresh \in Maybe(Tokens) /\ a.code \in Maybe(Tokens)
           /\ a.conn.access \in Maybe(Tokens) /\ a.conn.refresh \in Maybe(Tokens)
           /\ a.conn.platform \in Maybe(Platforms) /\ a.conn.ends \in 0..MaxMinute + Life
           /\ a.facts \in FactsRead /\ a.seen \subseteq AllBooks
  BY LmsConstants DEF CallRow, ConnRow

LEMMA Moved ==
    ASSUME LmsInv, NEW c \in Calls, NEW place \in CallPlaces, NEW a \in CallRow, Move(c, place, a)
    PROVE  /\ at' \in [Calls -> CallPlaces] /\ call' \in [Calls -> CallRow]
           /\ at'[c] = place /\ call'[c] = a /\ RestStays(c)
  BY LmsTyped DEF Move, RestStays

LEMMA TypesFollow ==
    ASSUME conn' \in ConnRow, issued' \in [Tokens -> TokenRow], states' \subseteq 0..MaxMinute,
           minute' \in 0..MaxMinute, at' \in [Calls -> CallPlaces], CallsTyped', tallied' \in BOOLEAN,
           adrift' \in BOOLEAN, asked' \in 0..MaxCalls, gone' \in 0..MaxLostCalls,
           \A c \in Calls : HeldFits(at[c], call[c])'
    PROVE  ConnTypeOK'
<1>1. ASSUME NEW c \in Calls
      PROVE  /\ call'[c].kind \in {"canvas", "sakai"} /\ call'[c].since \in 0..minute'
             /\ call'[c].job \in {"none", "exchange", "snapshot", "evaluate"}
             /\ {call'[c].access, call'[c].refresh, call'[c].code} \subseteq Maybe(Tokens)
  <2>1. PICK a \in CallRow : a = call'[c]
    BY DEF CallsTyped
  <2>2. at'[c] = "idle" => a = NoCall
    BY <2>1 DEF HeldFits
  <2>3. at'[c] # "idle" => a.since <= minute'
    BY <2>1 DEF HeldFits
  <2>4. a.since \in 0..minute'
    BY <2>2, <2>3, CallFields, NoCallTyped, LmsConstants
  <2> QED
    BY <2>1, <2>4 DEF CallRow
<1> QED
  BY <1>1 DEF ConnTypeOK, ConnRow, TokenRow, CallPlaces

LEMMA RowKept ==
    ASSUME TokensKept, NEW row \in ConnRow, RowFits(row)
    PROVE  RowFits(row)' /\ (RowGood(row) => RowGood(row)')
  BY LmsConstants DEF TokensKept, RowFits, RowGood, ConnRow, Maybe

LEMMA HeldKept ==
    ASSUME TokensKept, book' = book, tallied' = tallied, minute \in Nat, minute' \in Nat, minute <= minute',
           NEW place, NEW a \in CallRow, HeldFits(place, a),
           place = "store" /\ a.refresh # Null => issued'[a.refresh].live
    PROVE  HeldFits(place, a)'
<1>1. a.since \in Nat /\ a.conn \in ConnRow
  BY CallFields
<1>2. place # "idle" => RowFits(a.conn)'
  BY <1>1, RowKept DEF HeldFits
<1>3. place # "idle" /\ a.conn.access # Null =>
          issued'[a.conn.access].ends = issued[a.conn.access].ends
  BY <1>1, CallFields, LmsConstants DEF HeldFits, RowFits, TokensKept, Maybe
<1>4. place = "store" => StoreFits(a)'
  <2> SUFFICES ASSUME place = "store", StoreFits(a) PROVE StoreFits(a)'
    BY DEF HeldFits
  <2>1. /\ a.refresh # Null => a.refresh \in Tokens
        /\ a.access \in Tokens
        /\ a.refresh = Null => a.conn.refresh \in Tokens
    BY CallFields DEF StoreFits, Is, Maybe
  <2> QED
    BY <2>1 DEF StoreFits, NewFor, Is, TokensKept, EndedFor
<1>5. FactsFit(a)'
  BY DEF FactsFit, HeldFits
<1>6. place # "idle" => a.since <= minute'
  BY <1>1 DEF HeldFits
<1> QED
  BY <1>2, <1>3, <1>4, <1>5, <1>6 DEF HeldFits, EndedFor

LEMMA SteadyKept ==
    ASSUME TokensKept, conn' = conn, tallied' = tallied, conn \in ConnRow,
           NEW place, NEW a \in CallRow, HeldFits(place, a), Steady(place, a)
    PROVE  Steady(place, a)'
<1>1. a.conn \in ConnRow
  BY CallFields
<1>2. place # "idle" /\ RowGood(a.conn) => RowGood(a.conn)'
  BY <1>1, RowKept DEF HeldFits
<1>3. \A t \in Maybe(Tokens) : NewFor(t, a) => NewFor(t, a)'
  BY DEF NewFor, TokensKept, Maybe
<1>4. \A t : Is(t, "access", a.conn.platform) => Is(t, "access", a.conn.platform)'
  BY DEF Is, TokensKept
<1>5. AsRead(a) => AsRead(a)'
  BY DEF AsRead, EndedFor
<1>6. conn.access \in Maybe(Tokens) /\ a.access \in Maybe(Tokens)
  BY CallFields DEF ConnRow
<1> QED
  BY <1>2, <1>3, <1>4, <1>5, <1>6 DEF Steady

\* A step of one request that moves no token and does not end at the LMS.
LEMMA CallMoveInv ==
    ASSUME LmsInv, NEW c \in Calls, NEW place \in CallPlaces, NEW a \in CallRow, Move(c, place, a),
           UNCHANGED <<conn, issued, book, minute, tallied, states>>,
           adrift' \in BOOLEAN, adrift => adrift', at[c] = "store" => adrift',
           asked' \in 0..MaxCalls, gone' \in 0..MaxLostCalls, place # "store",
           a.conn.refresh \in {Null, conn.refresh, call[c].conn.refresh},
           HeldFits(place, a), ~adrift => Steady(place, a)
    PROVE  LmsInv'
<1>1. /\ at' \in [Calls -> CallPlaces] /\ call' \in [Calls -> CallRow]
      /\ at'[c] = place /\ call'[c] = a /\ RestStays(c)
  BY Moved
<1>2. /\ TokensKept /\ minute \in Nat /\ minute' \in Nat /\ minute <= minute' /\ conn \in ConnRow
      /\ book' = book /\ tallied' = tallied /\ conn' = conn /\ issued' = issued
  <2>1. minute \in Nat /\ conn \in ConnRow
    BY LmsTyped
  <2>2. book' = book /\ tallied' = tallied /\ conn' = conn /\ issued' = issued /\ minute' = minute
    OBVIOUS
  <2>3. TokensKept
    BY <2>2 DEF TokensKept
  <2> QED
    BY <2>1, <2>2, <2>3
<1>3. \A d \in Calls : HeldFits(at[d], call[d])'
  <2>1. HeldFits(place, a)'
    <3>1. place = "store" /\ a.refresh # Null => issued'[a.refresh].live
      OBVIOUS
    <3> QED
      BY <3>1, HeldKept, <1>2
  <2>2. ASSUME NEW d \in Calls \ {c} PROVE HeldFits(at[d], call[d])'
    <3>1. PICK p \in CallPlaces, b \in CallRow : p = at[d] /\ b = call[d] /\ HeldFits(p, b)
      BY AtCall
    <3>2. p = "store" /\ b.refresh # Null => issued'[b.refresh].live
      BY <3>1 DEF HeldFits, StoreFits
    <3>3. HeldFits(p, b)'
      BY <1>2, <3>1, <3>2, HeldKept
    <3> QED
      BY <1>1, <3>1, <3>3 DEF RestStays
  <2> QED
    BY <1>1, <2>1, <2>2
<1>4. ~adrift' => RowGood(conn)' /\ \A d \in Calls : Steady(at[d], call[d])'
  <2> SUFFICES ASSUME ~adrift' PROVE RowGood(conn)' /\ \A d \in Calls : Steady(at[d], call[d])'
    OBVIOUS
  <2>1. RowGood(conn)'
    BY DEF LmsInv, RowGood
  <2>2. Steady(place, a)'
    BY <1>2, SteadyKept
  <2>3. ASSUME NEW d \in Calls \ {c} PROVE Steady(at[d], call[d])'
    <3>1. PICK p \in CallPlaces, b \in CallRow :
             p = at[d] /\ b = call[d] /\ HeldFits(p, b) /\ Steady(p, b)
      BY AtCall
    <3>2. Steady(p, b)'
      BY <1>2, <3>1, SteadyKept
    <3> QED
      BY <1>1, <3>1, <3>2 DEF RestStays
  <2> QED
    BY <1>1, <2>1, <2>2, <2>3
<1>5. NewIsUnknown'
  <2> SUFFICES ASSUME NEW d \in Calls, at'[d] = "store", call'[d].refresh # Null
               PROVE  /\ conn'.refresh # call'[d].refresh
                      /\ \A e \in Calls : call'[e].conn.refresh # call'[d].refresh
                      /\ \A e \in Calls \ {d} : at'[e] = "store" => call'[e].refresh # call'[d].refresh
    BY DEF NewIsUnknown
  <2>1. d # c /\ at[d] = "store" /\ call'[d] = call[d]
    BY <1>1 DEF RestStays
  <2>2. /\ conn.refresh # call[d].refresh
        /\ \A e \in Calls : call[e].conn.refresh # call[d].refresh
        /\ \A e \in Calls \ {d} : at[e] = "store" => call[e].refresh # call[d].refresh
    BY <2>1 DEF LmsInv, NewIsUnknown
  <2>3. a.conn.refresh # call[d].refresh
    BY <2>1, <2>2
  <2> QED
    BY <1>1, <2>1, <2>2, <2>3 DEF RestStays
<1>6. RefreshTokenIsGood'
  <2> SUFFICES ASSUME ~adrift', conn.refresh # Null, \A d \in Calls : at'[d] # "store"
               PROVE  Works(conn.refresh, "refresh", conn.platform)'
    BY DEF RefreshTokenIsGood
  <2>1. ~adrift /\ \A d \in Calls : at[d] # "store"
    BY <1>1 DEF RestStays
  <2>2. Works(conn.refresh, "refresh", conn.platform)
    BY <2>1 DEF LmsInv, RefreshTokenIsGood
  <2> QED
    BY <2>2 DEF Works
<1>7. TokensFit' /\ RowFits(conn)' /\ CallsTyped'
  BY <1>1, LmsTyped DEF LmsInv, TokensFit, RowFits, CallsTyped
<1>8. ConnTypeOK'
  BY <1>1, <1>3, <1>7, LmsTyped, TypesFollow
<1> QED
  BY <1>3, <1>4, <1>5, <1>6, <1>7, <1>8 DEF LmsInv

LEMMA EndedInv ==
    ASSUME LmsInv, NEW c \in Calls, Ended(c),
           UNCHANGED <<conn, issued, book, minute, tallied, states>>,
           adrift' \in BOOLEAN, adrift => adrift', at[c] = "store" => adrift',
           asked' \in 0..MaxCalls, gone' \in 0..MaxLostCalls
    PROVE  LmsInv'
<1>1. HeldFits("idle", NoCall) /\ Steady("idle", NoCall)
  BY NoCallTyped DEF HeldFits, FactsFit, Steady
<1>2. "idle" \in CallPlaces /\ NoCall \in CallRow /\ NoCall.conn.refresh = Null
  BY NoCallTyped DEF CallPlaces
<1> QED
  BY <1>1, <1>2, CallMoveInv DEF Ended

LEMMA Counted ==
    ASSUME LmsInv, NEW c \in Calls, Count(c)
    PROVE  at[c] = "idle" /\ asked' \in 0..MaxCalls
  BY LmsTyped, LmsConstants DEF Count

LEMMA BeginInv ==
    ASSUME LmsInv, NEW c \in Calls, NEW place \in {"exchange", "refresh", "fetch"}, NEW a \in CallRow,
           Count(c), conn.platform # Null, Move(c, place, a),
           UNCHANGED <<conn, lms, states, minute, tallied, adrift, gone>>,
           a.conn = conn, a.since = minute, a.facts = NoFacts, a.cache = Null, a.job # "none",
           place = "exchange" => a.job = "exchange" /\ a.code # Null,
           place # "exchange" => /\ a.job # "exchange" /\ a.access = conn.access
                                 /\ book[conn.platform] \in a.seen,
           place = "refresh" => AccessEnded /\ conn.refresh # Null,
           place = "fetch" => conn.access # Null /\ (~AccessEnded \/ conn.refresh = Null)
    PROVE  LmsInv'
<1>1. /\ at[c] = "idle" /\ asked' \in 0..MaxCalls /\ conn \in ConnRow /\ minute \in Nat /\ gone \in 0..MaxLostCalls
      /\ adrift \in BOOLEAN /\ RowFits(conn) /\ conn.platform \in Platforms
  BY Counted, LmsTyped DEF LmsInv, ConnRow, Maybe
<1>2. FactsFit(a)
  BY NoCallTyped DEF FactsFit
<1>3. conn.access # Null => issued[conn.access].ends <= minute + Life
  BY <1>1, LmsConstants DEF LmsInv, TokensFit, RowFits, ConnRow, Maybe
<1>4. HeldFits(place, a)
  BY <1>1, <1>2, <1>3 DEF HeldFits, EndedFor, AccessEnded
<1>5. ~adrift => Steady(place, a)
  BY <1>1 DEF LmsInv, Steady, AsRead, EndedFor, AccessEnded
<1>6. place \in CallPlaces /\ place # "store"
  BY DEF CallPlaces
<1>7. UNCHANGED <<conn, issued, book, minute, tallied, states>> /\ adrift' = adrift /\ gone' = gone
  BY DEF lms
<1> QED
  BY <1>1, <1>4, <1>5, <1>6, <1>7, CallMoveInv

LEMMA BeginExchangeInv ==
    ASSUME LmsInv, NEW c \in Calls, BeginExchange(c) PROVE LmsInv'
<1>1. Count(c) /\ conn.platform # Null /\ UNCHANGED <<conn, lms, states, minute, tallied, adrift, gone>>
  BY DEF BeginExchange
<1>2. CASE Ended(c)
  BY <1>1, <1>2, Counted, LmsTyped, EndedInv DEF lms
<1>3. ASSUME NEW t \in Tokens,
             Move(c, "exchange", [NoCall EXCEPT !.job = "exchange", !.conn = conn,
                                                !.since = minute, !.code = t])
      PROVE  LmsInv'
  <2>1. PICK a : a = [NoCall EXCEPT !.job = "exchange", !.conn = conn, !.since = minute, !.code = t]
    OBVIOUS
  <2>2. a \in CallRow /\ a.conn = conn /\ a.since = minute /\ a.facts = NoFacts /\ a.cache = Null
        /\ a.job = "exchange" /\ a.code = t
    BY <2>1, LmsTyped, NoCallTyped DEF CallRow, Maybe
  <2> QED
    BY <1>1, <1>3, <2>1, <2>2, BeginInv, LmsConstants
<1> QED
  BY <1>2, <1>3 DEF BeginExchange

LEMMA BeginSnapshotInv ==
    ASSUME LmsInv, NEW c \in Calls, BeginSnapshot(c) PROVE LmsInv'
<1>1. Count(c) /\ conn.platform # Null /\ UNCHANGED <<conn, lms, states, minute, tallied, adrift, gone>>
  BY DEF BeginSnapshot
<1>2. CASE Ended(c)
  BY <1>1, <1>2, Counted, LmsTyped, EndedInv DEF lms
<1>3. PICK a : a = [NoCall EXCEPT !.job = "snapshot", !.conn = conn, !.since = minute,
                                  !.access = conn.access, !.seen = {book[conn.platform]}]
  OBVIOUS
<1>4. book[conn.platform] \in AllBooks /\ conn.access \in Maybe(Tokens) /\ (conn.access = Null => conn.refresh = Null)
  BY <1>1, LmsTyped DEF ConnRow, Maybe, LmsInv, RowFits
<1>5. a \in CallRow /\ a.conn = conn /\ a.since = minute /\ a.facts = NoFacts /\ a.cache = Null
      /\ a.job = "snapshot" /\ a.access = conn.access /\ book[conn.platform] \in a.seen
  BY <1>3, <1>4, LmsTyped, NoCallTyped DEF CallRow, Maybe
<1>6. CASE AccessEnded /\ conn.refresh # Null /\ Move(c, "refresh", a)
  BY <1>1, <1>5, <1>6, BeginInv
<1>7. CASE conn.access # Null /\ (~AccessEnded \/ conn.refresh = Null) /\ Move(c, "fetch", a)
  BY <1>1, <1>5, <1>7, BeginInv
<1> QED
  BY <1>2, <1>3, <1>4, <1>6, <1>7 DEF BeginSnapshot

LEMMA BeginFactsInv ==
    ASSUME LmsInv, NEW c \in Calls, BeginFacts(c) PROVE LmsInv'
<1>1. Count(c) /\ conn.platform # Null /\ UNCHANGED <<conn, lms, states, minute, tallied, adrift, gone>>
  BY DEF BeginFacts
<1>2. CASE Ended(c)
  BY <1>1, <1>2, Counted, LmsTyped, EndedInv DEF lms
<1>3. ASSUME NEW kind \in {"canvas", "sakai"}, conn.access # Null,
             Move(c, IF AccessEnded /\ conn.refresh # Null THEN "refresh" ELSE "fetch",
                  [NoCall EXCEPT !.job = "evaluate", !.kind = kind, !.conn = conn, !.since = minute,
                                 !.access = conn.access, !.seen = {book[conn.platform]}])
      PROVE  LmsInv'
  <2>1. PICK a : a = [NoCall EXCEPT !.job = "evaluate", !.kind = kind, !.conn = conn, !.since = minute,
                                    !.access = conn.access, !.seen = {book[conn.platform]}]
    OBVIOUS
  <2>2. book[conn.platform] \in AllBooks /\ conn.access \in Maybe(Tokens)
    BY <1>1, LmsTyped DEF ConnRow, Maybe
  <2>3. a \in CallRow /\ a.conn = conn /\ a.since = minute /\ a.facts = NoFacts /\ a.cache = Null
        /\ a.job = "evaluate" /\ a.access = conn.access /\ book[conn.platform] \in a.seen
    BY <2>1, <2>2, LmsTyped, NoCallTyped DEF CallRow, Maybe
  <2>4. CASE AccessEnded /\ conn.refresh # Null /\ Move(c, "refresh", a)
    BY <1>1, <2>3, <2>4, BeginInv
  <2>5. CASE (~AccessEnded \/ conn.refresh = Null) /\ Move(c, "fetch", a)
    BY <1>1, <1>3, <2>3, <2>5, BeginInv
  <2> QED
    BY <1>3, <2>1, <2>4, <2>5
<1> QED
  BY <1>2, <1>3, LmsConstants DEF BeginFacts

\* A step that reads: what the request holds stays, the facts apart.
LEMMA FetchInv ==
    ASSUME LmsInv, NEW c \in Calls, at[c] = "fetch", NEW a \in CallRow, Move(c, "fetch", a),
           UNCHANGED <<conn, lms, states, minute, tallied, adrift, asked, gone>>,
           a.conn = call[c].conn, a.access = call[c].access, a.since = call[c].since,
           a.job = call[c].job, a.seen = call[c].seen, FactsFit(a)
    PROVE  LmsInv'
<1>1. PICK b \in CallRow : b = call[c] /\ HeldFits("fetch", b) /\ (~adrift => Steady("fetch", b))
  BY AtCall
<1>2. HeldFits("fetch", a)
  BY <1>1 DEF HeldFits
<1>3. ~adrift => Steady("fetch", a)
  BY <1>1 DEF Steady, AsRead, EndedFor, NewFor
<1>4. "fetch" \in CallPlaces /\ asked \in 0..MaxCalls /\ gone \in 0..MaxLostCalls /\ adrift \in BOOLEAN
  BY LmsTyped DEF CallPlaces
<1>5. UNCHANGED <<conn, issued, book, minute, tallied, states>> /\ adrift' = adrift /\ gone' = gone /\ asked' = asked
  BY DEF lms
<1> QED
  BY <1>2, <1>3, <1>4, <1>5, CallMoveInv

LEMMA StayEndedInv ==
    ASSUME LmsInv, NEW c \in Calls, Ended(c), at[c] # "store",
           UNCHANGED <<conn, lms, states, minute, tallied, adrift, asked, gone>>
    PROVE  LmsInv'
<1>1. asked \in 0..MaxCalls /\ gone \in 0..MaxLostCalls /\ adrift \in BOOLEAN
  BY LmsTyped
<1>2. UNCHANGED <<conn, issued, book, minute, tallied, states>> /\ adrift' = adrift /\ gone' = gone /\ asked' = asked
  BY DEF lms
<1> QED
  BY <1>1, <1>2, EndedInv

\* The request at "fetch", by name.
LEMMA AtFetch ==
    ASSUME LmsInv, NEW c \in Calls, at[c] = "fetch"
    PROVE  \E b \in CallRow : /\ b = call[c] /\ HeldFits("fetch", b) /\ FactsFit(b)
                              /\ b.conn.platform \in Platforms /\ book[b.conn.platform] \in b.seen
                              /\ book[b.conn.platform] \in Books[KindOf[b.conn.platform]]
<1>1. PICK b \in CallRow : b = call[c] /\ HeldFits("fetch", b)
  BY AtCall
<1> QED
  BY <1>1, LmsTyped DEF HeldFits

LEMMA FetchMatrixInv ==
    ASSUME LmsInv, NEW c \in Calls, FetchMatrix(c) PROVE LmsInv'
<1>1. at[c] = "fetch" /\ UNCHANGED <<conn, lms, states, minute, tallied, adrift, asked, gone>>
  BY DEF FetchMatrix
<1>2. CASE Ended(c)
  BY <1>1, <1>2, StayEndedInv
<1>3. CASE Accepts(c) /\ Move(c, "fetch", Cached(c))
  <2>1. PICK b \in CallRow : /\ b = call[c] /\ FactsFit(b) /\ b.conn.platform \in Platforms
                             /\ book[b.conn.platform] \in Books[KindOf[b.conn.platform]]
    BY <1>1, AtFetch
  <2>2. PICK a : a = [b EXCEPT !.cache = book[b.conn.platform]]
    OBVIOUS
  <2>3. book[b.conn.platform] \in AllBooks
    BY <2>1 DEF AllBooks
  <2>4. /\ a \in CallRow /\ a.cache = book[b.conn.platform] /\ a.conn = b.conn /\ a.access = b.access
        /\ a.since = b.since /\ a.job = b.job /\ a.seen = b.seen /\ a.facts = b.facts /\ a.kind = b.kind
    BY <2>1, <2>2, <2>3 DEF CallRow, Maybe
  <2>5. b.kind = "sakai" /\ b.cache = Null /\ KindOf[b.conn.platform] = "sakai"
    BY <1>3, <2>1 DEF FetchMatrix, Accepts
  <2>6. a.facts = NoFacts
    BY <2>1, <2>4, <2>5 DEF FactsFit
  <2>7. a.facts.grades = {} /\ a.facts.completions = {}
    BY <2>6, NoCallTyped
  <2>8. FactsFit(a)
    BY <2>1, <2>4, <2>5, <2>6, <2>7 DEF FactsFit
  <2>9. Move(c, "fetch", a)
    BY <1>3, <2>1, <2>2 DEF Cached
  <2> QED
    BY <1>1, <2>1, <2>4, <2>8, <2>9, FetchInv
<1> QED
  BY <1>2, <1>3 DEF FetchMatrix

\* Where a request that may read reads.
LEMMA SourceRead ==
    ASSUME NEW b \in CallRow, FactsFit(b), b.conn.platform \in Platforms,
           book[b.conn.platform] \in Books[KindOf[b.conn.platform]],
           b.kind = "sakai" => b.cache # Null,
           b.kind = "canvas" => KindOf[b.conn.platform] = "canvas"
    PROVE  (IF b.kind = "sakai" THEN b.cache ELSE book[b.conn.platform]) \in BooksOf(b.kind)
<1>1. CASE b.kind = "sakai"
  <2>1. KindOf[b.conn.platform] = "sakai" /\ b.cache \in Books[KindOf[b.conn.platform]]
    BY <1>1 DEF FactsFit
  <2> QED
    BY <1>1, <2>1 DEF BooksOf
<1>2. CASE b.kind = "canvas"
  BY <1>2 DEF BooksOf
<1> QED
  BY <1>1, <1>2 DEF CallRow

LEMMA FactsReadInv ==
    ASSUME LmsInv, NEW c \in Calls, NEW part \in {"grades", "completions", "submissions"}, NEW f,
           Read(c, part, f),
           part = "grades" => f = GradesIn(c),
           part = "completions" => f = CompletionsIn(c),
           part = "submissions" => f = SubmissionsIn(c)
    PROVE  LmsInv'
<1>1. at[c] = "fetch" /\ UNCHANGED <<conn, lms, states, minute, tallied, adrift, asked, gone>>
  BY DEF Read, MayFetch
<1>2. CASE Ended(c)
  BY <1>1, <1>2, StayEndedInv
<1>3. CASE /\ call[c].kind = "sakai" \/ Accepts(c)
           /\ Move(c, "fetch", [call[c] EXCEPT !.facts[part] = {f}])
  <2>1. PICK b \in CallRow : /\ b = call[c] /\ FactsFit(b) /\ b.conn.platform \in Platforms
                             /\ book[b.conn.platform] \in b.seen
                             /\ book[b.conn.platform] \in Books[KindOf[b.conn.platform]]
    BY <1>1, AtFetch
  <2>2. b.kind \in {"canvas", "sakai"} /\ b.facts \in FactsRead
    BY DEF CallRow
  <2>3. /\ b.kind = "sakai" => b.cache # Null
        /\ b.kind = "canvas" => KindOf[b.conn.platform] = "canvas"
    BY <1>3, <2>1, <2>2 DEF Read, MayFetch, Accepts
  <2>4. PICK s : s = (IF b.kind = "sakai" THEN b.cache ELSE book[b.conn.platform]) /\ s \in BooksOf(b.kind)
    BY <2>1, <2>3, SourceRead
  <2>5. s = Source(c)
    BY <2>1, <2>4 DEF Source
  <2>6. /\ part = "grades" => f = IF b.kind = "sakai" THEN SakaiGrades(s, Learner)
                                  ELSE CanvasGrades(Course, s.enrollments, Learner)
        /\ part = "completions" => f = IF b.kind = "sakai" THEN SakaiCompletions(s, Learner)
                                       ELSE CanvasCompletions(Course, s.enrollments, Learner)
        /\ part = "submissions" => f = IF b.kind = "sakai" THEN SakaiSubmissions(s, Learner, Assignment)
                                       ELSE CanvasSubmissions(Course, s.submissions, Learner, Assignment)
    BY <2>1, <2>5 DEF GradesIn, CompletionsIn, SubmissionsIn
  <2>7. /\ part = "grades" => f \in GradesRead
        /\ part = "completions" => f \in CompletionsRead
        /\ part = "submissions" => f \in SubmissionsRead
    BY <2>2, <2>4, <2>6 DEF GradesRead, CompletionsRead, SubmissionsRead
  <2>8. PICK a : a = [b EXCEPT !.facts[part] = {f}]
    OBVIOUS
  <2>9. PICK g : g = [b.facts EXCEPT ![part] = {f}]
    OBVIOUS
  <2>10. /\ g \in FactsRead /\ g[part] = {f}
         /\ part # "grades" => g.grades = b.facts.grades
         /\ part # "completions" => g.completions = b.facts.completions
         /\ part # "submissions" => g.submissions = b.facts.submissions
    BY <2>2, <2>7, <2>9 DEF FactsRead
  <2>11. a = [b EXCEPT !.facts = g]
    BY <2>8, <2>9
  <2>12. /\ a \in CallRow /\ a.cache = b.cache /\ a.conn = b.conn /\ a.access = b.access
         /\ a.since = b.since /\ a.job = b.job /\ a.seen = b.seen /\ a.facts = g /\ a.kind = b.kind
    BY <2>10, <2>11 DEF CallRow
  <2>13. FactsFit(a)
    <3>1. CASE b.kind = "sakai"
      <4>1. s = b.cache /\ UNION {f} = f
        BY <2>4, <3>1
      <4> QED
        BY <2>1, <2>3, <2>6, <2>10, <2>12, <3>1, <4>1 DEF FactsFit
    <3>2. CASE b.kind = "canvas"
      <4>1. s = book[b.conn.platform] /\ UNION {f} = f
        BY <2>4, <3>2
      <4> QED
        BY <2>1, <2>6, <2>10, <2>12, <3>2, <4>1 DEF FactsFit
    <3> QED
      BY <2>2, <3>1, <3>2
  <2>14. Move(c, "fetch", a)
    BY <1>3, <2>1, <2>8
  <2> QED
    BY <1>1, <2>1, <2>12, <2>13, <2>14, FetchInv
<1> QED
  BY <1>2, <1>3 DEF Read

LEMMA ReadsInv ==
    ASSUME LmsInv, NEW c \in Calls, ReadGrades(c) \/ ReadCompletions(c) \/ ReadSubmissions(c)
    PROVE  LmsInv'
<1>1. CASE ReadGrades(c)
  BY <1>1, FactsReadInv DEF ReadGrades
<1>2. CASE ReadCompletions(c)
  BY <1>2, FactsReadInv DEF ReadCompletions
<1>3. CASE ReadSubmissions(c)
  BY <1>3, FactsReadInv DEF ReadSubmissions
<1> QED
  BY <1>1, <1>2, <1>3

LEMMA EndsInv ==
    ASSUME LmsInv, NEW c \in Calls, FinishReading(c) \/ LoseCall(c) PROVE LmsInv'
<1>1. CASE FinishReading(c)
  BY <1>1, StayEndedInv DEF FinishReading
<1>2. CASE LoseCall(c)
  <2>1. UNCHANGED <<conn, issued, book, minute, tallied, states>> /\ Ended(c) /\ asked' = asked
        /\ adrift' = (adrift \/ at[c] = "store") /\ gone' = gone + 1 /\ gone < MaxLostCalls
    BY <1>2 DEF LoseCall, lms
  <2>2. adrift' \in BOOLEAN /\ asked' \in 0..MaxCalls /\ gone' \in 0..MaxLostCalls
    BY <2>1, LmsTyped, LmsConstants
  <2> QED
    BY <2>1, <2>2, EndedInv
<1> QED
  BY <1>1, <1>2

LEMMA RereadConnInv ==
    ASSUME LmsInv, NEW c \in Calls, RereadConn(c) PROVE LmsInv'
<1>1. at[c] = "reread" /\ UNCHANGED <<conn, lms, states, minute, tallied, adrift, asked, gone>>
  BY DEF RereadConn
<1>2. CASE call[c].job = "exchange"
  BY <1>1, <1>2, StayEndedInv DEF RereadConn
<1>3. CASE call[c].job # "exchange"
  <2>1. PICK b \in CallRow : b = call[c] /\ HeldFits("reread", b) /\ (~adrift => Steady("reread", b))
    BY <1>1, AtCall
  <2>2. PICK a : a = [b EXCEPT !.access = conn.access]
    OBVIOUS
  <2>3. conn.access \in Maybe(Tokens) /\ conn \in ConnRow
    BY LmsTyped DEF ConnRow
  <2>4. /\ a \in CallRow /\ a.cache = b.cache /\ a.conn = b.conn /\ a.access = conn.access
        /\ a.since = b.since /\ a.job = b.job /\ a.seen = b.seen /\ a.facts = b.facts /\ a.kind = b.kind
    BY <2>2, <2>3 DEF CallRow
  <2>5. FactsFit(a)
    BY <2>1, <2>4 DEF HeldFits, FactsFit
  <2>6. HeldFits("fetch", a)
    BY <1>3, <2>1, <2>4, <2>5 DEF HeldFits
  <2>7. ~adrift => Steady("fetch", a)
    <3> SUFFICES ASSUME ~adrift PROVE Steady("fetch", a)
      OBVIOUS
    <3>1. NewFor(conn.access, b) /\ b.conn.platform = conn.platform /\ RowGood(b.conn) /\ RowGood(conn)
      BY <1>3, <2>1 DEF Steady, LmsInv
    <3>2. Is(conn.access, "access", b.conn.platform)
      BY <2>3, <3>1 DEF Is, RowGood, NewFor, Maybe
    <3> QED
      BY <2>4, <3>1, <3>2 DEF Steady, NewFor
  <2>8. Move(c, "fetch", a)
    BY <1>3, <2>1, <2>2 DEF RereadConn
  <2>9. "fetch" \in CallPlaces /\ asked \in 0..MaxCalls /\ gone \in 0..MaxLostCalls /\ adrift \in BOOLEAN
    BY LmsTyped DEF CallPlaces
  <2>10. UNCHANGED <<conn, issued, book, minute, tallied, states>> /\ adrift' = adrift /\ gone' = gone /\ asked' = asked
    BY <1>1 DEF lms
  <2> QED
    BY <1>1, <2>1, <2>4, <2>6, <2>7, <2>8, <2>9, <2>10, CallMoveInv
<1> QED
  BY <1>2, <1>3

\* A step no request takes.
LEMMA StandStill ==
    ASSUME LmsInv, at' = at, call' = call, TokensKept, book' = book, tallied' = tallied,
           minute' \in Nat, minute <= minute',
           \A d \in Calls : at[d] = "store" /\ call[d].refresh # Null => issued'[call[d].refresh].live
    PROVE  /\ \A d \in Calls : HeldFits(at[d], call[d])'
           /\ conn' = conn /\ ~adrift => RowGood(conn)' /\ \A d \in Calls : Steady(at[d], call[d])'
           /\ CallsTyped'
<1>1. minute \in Nat /\ conn \in ConnRow /\ RowFits(conn)
  BY LmsTyped DEF LmsInv
<1>2. ASSUME NEW d \in Calls PROVE HeldFits(at[d], call[d])'
  <2>1. PICK p \in CallPlaces, b \in CallRow : p = at[d] /\ b = call[d] /\ HeldFits(p, b)
    BY AtCall
  <2>2. HeldFits(p, b)'
    BY <1>1, <2>1, HeldKept
  <2> QED
    BY <2>1, <2>2
<1>3. ASSUME NEW d \in Calls, conn' = conn, ~adrift PROVE Steady(at[d], call[d])'
  <2>1. PICK p \in CallPlaces, b \in CallRow :
           p = at[d] /\ b = call[d] /\ HeldFits(p, b) /\ Steady(p, b)
    BY <1>3, AtCall
  <2>2. Steady(p, b)'
    BY <1>1, <1>3, <2>1, SteadyKept
  <2> QED
    BY <2>1, <2>2
<1>4. ASSUME conn' = conn, ~adrift PROVE RowGood(conn)'
  <2>1. PICK row \in ConnRow : row = conn /\ RowFits(row) /\ RowGood(row)
    BY <1>1, <1>4 DEF LmsInv
  <2>2. RowGood(row)'
    BY <2>1, RowKept
  <2> QED
    BY <1>4, <2>1, <2>2
<1>5. CallsTyped'
  BY DEF LmsInv, CallsTyped
<1> QED
  BY <1>2, <1>3, <1>4, <1>5

LEMMA MinuteInv == ASSUME LmsInv, Minute PROVE LmsInv'
<1>1. /\ minute' = minute + 1 /\ minute < MaxMinute /\ at' = at /\ call' = call /\ book' = book /\ issued' = issued
      /\ tallied' = tallied /\ conn' = conn /\ adrift' = adrift /\ states' = states /\ asked' = asked /\ gone' = gone
  BY DEF Minute, lms
<1>2. TokensKept
  BY <1>1 DEF TokensKept
<1>3. minute \in Nat /\ minute' \in 0..MaxMinute /\ minute' \in Nat /\ minute <= minute'
  BY <1>1, LmsTyped, LmsConstants
<1>4. \A d \in Calls : at[d] = "store" /\ call[d].refresh # Null => issued'[call[d].refresh].live
  <2> SUFFICES ASSUME NEW d \in Calls, at[d] = "store", call[d].refresh # Null PROVE issued[call[d].refresh].live
    BY <1>1
  <2>1. PICK b \in CallRow : b = call[d] /\ HeldFits("store", b)
    BY AtCall
  <2> QED
    BY <2>1 DEF HeldFits, StoreFits
<1>5. /\ \A d \in Calls : HeldFits(at[d], call[d])'
      /\ ~adrift => RowGood(conn)' /\ \A d \in Calls : Steady(at[d], call[d])'
      /\ CallsTyped'
  BY <1>1, <1>2, <1>3, <1>4, StandStill
<1>6. TokensFit'
  BY <1>1, <1>3, LmsTyped, LmsConstants DEF LmsInv, TokensFit, TokenRow
<1>7. RowFits(conn)' /\ NewIsUnknown'
  BY <1>1 DEF LmsInv, RowFits, NewIsUnknown
<1>8. RefreshTokenIsGood'
  BY <1>1, LmsTyped DEF LmsInv, RefreshTokenIsGood, Works, TokensFit, RowFits, ConnRow, Maybe
<1>9. ConnTypeOK'
  BY <1>1, <1>3, <1>5, LmsTyped, TypesFollow
<1> QED
  BY <1>1, <1>5, <1>6, <1>7, <1>8, <1>9 DEF LmsInv

LEMMA StaysInv ==
    ASSUME LmsInv, UNCHANGED <<conn, lms, minute, at, call, tallied, adrift, asked, gone>>,
           states' \subseteq 0..MaxMinute
    PROVE  LmsInv'
<1>1. /\ minute' = minute /\ at' = at /\ call' = call /\ book' = book /\ issued' = issued
      /\ tallied' = tallied /\ conn' = conn /\ adrift' = adrift /\ asked' = asked /\ gone' = gone
  BY DEF lms
<1>2. TokensKept
  BY <1>1 DEF TokensKept
<1>3. minute \in Nat /\ minute' \in Nat /\ minute <= minute'
  BY <1>1, LmsTyped
<1>4. \A d \in Calls : at[d] = "store" /\ call[d].refresh # Null => issued'[call[d].refresh].live
  <2> SUFFICES ASSUME NEW d \in Calls, at[d] = "store", call[d].refresh # Null PROVE issued[call[d].refresh].live
    BY <1>1
  <2>1. PICK b \in CallRow : b = call[d] /\ HeldFits("store", b)
    BY AtCall
  <2> QED
    BY <2>1 DEF HeldFits, StoreFits
<1>5. /\ \A d \in Calls : HeldFits(at[d], call[d])'
      /\ ~adrift => RowGood(conn)' /\ \A d \in Calls : Steady(at[d], call[d])'
      /\ CallsTyped'
  BY <1>1, <1>2, <1>3, <1>4, StandStill
<1>6. TokensFit' /\ RowFits(conn)' /\ NewIsUnknown' /\ RefreshTokenIsGood'
  BY <1>1 DEF LmsInv, TokensFit, RowFits, NewIsUnknown, RefreshTokenIsGood, Works
<1>7. ConnTypeOK'
  BY <1>1, <1>5, LmsTyped, TypesFollow
<1> QED
  BY <1>1, <1>5, <1>6, <1>7 DEF LmsInv

LEMMA AuthorizeUrlInv == ASSUME LmsInv, NEW c \in Calls, AuthorizeUrl(c) PROVE LmsInv'
<1>1. states' \subseteq 0..MaxMinute
  BY LmsTyped DEF AuthorizeUrl
<1> QED
  BY <1>1, StaysInv DEF AuthorizeUrl

LEMMA OneIsUnissued ==
    ASSUME NEW S, S # {} PROVE OneOf(S) \in S
  BY DEF OneOf

LEMMA GrantCodeInv == ASSUME LmsInv, GrantCode PROVE LmsInv'
<1>1. PICK t \in Tokens : /\ issued[t] = NoToken
                          /\ issued' = [issued EXCEPT ![t] = [platform |-> conn.platform, use |-> "code",
                                                              ends |-> 0, live |-> TRUE]]
  <2>1. Unissued # {}
    BY DEF GrantCode
  <2>2. OneOf(Unissued) \in Unissued
    BY <2>1, OneIsUnissued
  <2> QED
    BY <2>2 DEF GrantCode, Unissued
<1>2. /\ minute' = minute /\ at' = at /\ call' = call /\ book' = book /\ states' = states
      /\ tallied' = tallied /\ conn' = conn /\ adrift' = adrift /\ asked' = asked /\ gone' = gone
  BY DEF GrantCode
<1>3. minute \in Nat /\ minute' \in Nat /\ minute <= minute'
  BY <1>2, LmsTyped
<1>4. issued[t].use = "none"
  BY <1>1 DEF NoToken
<1>5. /\ issued' \in [Tokens -> TokenRow] /\ issued'[t].use = "code"
      /\ \A u \in Tokens \ {t} : issued'[u] = issued[u]
  <2>1. [platform |-> conn.platform, use |-> "code", ends |-> 0, live |-> TRUE] \in TokenRow
    BY LmsTyped, LmsConstants DEF ConnRow, TokenRow
  <2> QED
    BY <1>1, <2>1, LmsTyped
<1>6. TokensKept
  BY <1>4, <1>5 DEF TokensKept
<1>7. \A d \in Calls : at[d] = "store" /\ call[d].refresh # Null => issued'[call[d].refresh].live
  <2> SUFFICES ASSUME NEW d \in Calls, at[d] = "store", call[d].refresh # Null PROVE issued'[call[d].refresh].live
    OBVIOUS
  <2>1. PICK b \in CallRow : b = call[d] /\ HeldFits("store", b)
    BY AtCall
  <2>2. b.refresh \in Tokens /\ issued[b.refresh].use = "refresh" /\ issued[b.refresh].live
    BY <2>1 DEF HeldFits, StoreFits, Is
  <2> QED
    BY <1>4, <1>5, <2>1, <2>2
<1>8. /\ \A d \in Calls : HeldFits(at[d], call[d])'
      /\ ~adrift => RowGood(conn)' /\ \A d \in Calls : Steady(at[d], call[d])'
      /\ CallsTyped'
  BY <1>2, <1>3, <1>6, <1>7, StandStill
<1>9. TokensFit'
  BY <1>2, <1>5 DEF LmsInv, TokensFit
<1>10. RowFits(conn)'
  <2>1. PICK row \in ConnRow : row = conn /\ RowFits(row)
    BY LmsTyped DEF LmsInv
  <2>2. RowFits(row)'
    BY <1>6, <2>1, RowKept
  <2> QED
    BY <1>2, <2>1, <2>2
<1>11. NewIsUnknown'
  BY <1>2 DEF LmsInv, NewIsUnknown
<1>12. RefreshTokenIsGood'
  <2> SUFFICES ASSUME ~adrift, conn.refresh # Null, \A c \in Calls : at[c] # "store"
               PROVE  Works(conn.refresh, "refresh", conn.platform)'
    BY <1>2 DEF RefreshTokenIsGood
  <2>1. Works(conn.refresh, "refresh", conn.platform)
    BY DEF LmsInv, RefreshTokenIsGood
  <2>2. conn.refresh \in Tokens \ {t}
    BY <1>4, <2>1, LmsTyped DEF Works, ConnRow, Maybe
  <2> QED
    BY <1>2, <1>5, <2>1, <2>2 DEF Works
<1>13. ConnTypeOK'
  BY <1>2, <1>5, <1>8, LmsTyped, TypesFollow
<1> QED
  BY <1>2, <1>8, <1>9, <1>10, <1>11, <1>12, <1>13 DEF LmsInv

LEMMA PutConfigInv == ASSUME LmsInv, NEW c \in Calls, PutConfig(c) PROVE LmsInv'
<1>1. PICK p \in Platforms : /\ conn' = Configured(conn, p)
                             /\ adrift' = (adrift \/ (p # conn.platform /\ (conn.access # Null \/ Others(c) # {})))
  BY DEF PutConfig
<1>2. /\ minute' = minute /\ at' = at /\ call' = call /\ book' = book /\ states' = states /\ issued' = issued
      /\ tallied' = tallied /\ gone' = gone /\ asked' \in 0..MaxCalls /\ at[c] = "idle"
  BY Counted DEF PutConfig, lms
<1>3. minute \in Nat /\ minute' \in Nat /\ minute <= minute' /\ conn \in ConnRow
  BY <1>2, LmsTyped
<1>4. TokensKept
  BY <1>2 DEF TokensKept
<1>5. \A d \in Calls : at[d] = "store" /\ call[d].refresh # Null => issued'[call[d].refresh].live
  <2> SUFFICES ASSUME NEW d \in Calls, at[d] = "store", call[d].refresh # Null PROVE issued[call[d].refresh].live
    BY <1>2
  <2>1. PICK b \in CallRow : b = call[d] /\ HeldFits("store", b)
    BY AtCall
  <2> QED
    BY <2>1 DEF HeldFits, StoreFits
<1>6. \A d \in Calls : HeldFits(at[d], call[d])'
  BY <1>2, <1>3, <1>4, <1>5, StandStill
<1>7. CallsTyped'
  BY <1>2 DEF LmsInv, CallsTyped
<1>8. /\ conn' \in ConnRow /\ conn'.platform = p /\ conn'.access = conn.access
      /\ conn'.refresh = conn.refresh /\ conn'.ends = conn.ends
  BY <1>1, <1>3 DEF Configured, ConnRow, Maybe
<1>9. adrift' \in BOOLEAN
  BY <1>1, LmsTyped
<1>10. TokensFit' /\ RowFits(conn)' /\ NewIsUnknown'
  BY <1>2, <1>8 DEF LmsInv, TokensFit, RowFits, NewIsUnknown
<1>11. ASSUME ~adrift', p = conn.platform
       PROVE  RowGood(conn)' /\ (\A d \in Calls : Steady(at[d], call[d])') /\ RefreshTokenIsGood'
  <2>1. conn' = conn
    BY <1>1, <1>3, <1>11 DEF Configured, ConnRow
  <2>2. RowGood(conn)' /\ \A d \in Calls : Steady(at[d], call[d])'
    BY <1>1, <1>2, <1>3, <1>4, <1>5, <1>11, <2>1, StandStill
  <2>3. RefreshTokenIsGood'
    BY <1>1, <1>2, <1>11, <2>1 DEF LmsInv, RefreshTokenIsGood, Works
  <2> QED
    BY <2>2, <2>3
<1>12. ASSUME ~adrift', p # conn.platform
       PROVE  RowGood(conn)' /\ (\A d \in Calls : Steady(at[d], call[d])') /\ RefreshTokenIsGood'
  <2>1. conn.access = Null /\ \A d \in Calls : at[d] = "idle"
    BY <1>1, <1>2, <1>12 DEF Others
  <2>2. conn'.access = Null /\ conn'.refresh = Null
    BY <1>8, <2>1 DEF LmsInv, RowFits
  <2>3. RowGood(conn)'
    BY <2>2 DEF RowGood
  <2>4. ASSUME NEW d \in Calls PROVE Steady(at[d], call[d])'
    BY <1>2, <2>1 DEF Steady
  <2>5. RefreshTokenIsGood'
    BY <2>2 DEF RefreshTokenIsGood
  <2> QED
    BY <2>3, <2>4, <2>5
<1>13. adrift' => RefreshTokenIsGood'
  BY DEF RefreshTokenIsGood
<1>14. /\ ~adrift' => RowGood(conn)' /\ \A d \in Calls : Steady(at[d], call[d])'
       /\ RefreshTokenIsGood'
  BY <1>11, <1>12, <1>13
<1>15. ConnTypeOK'
  BY <1>2, <1>6, <1>7, <1>8, <1>9, LmsTyped, TypesFollow
<1> QED
  BY <1>6, <1>7, <1>10, <1>14, <1>15 DEF LmsInv

\* What a request saw of its LMS's gradebook, and may see now.
SeesMore(p, e, a, q, b) ==
    /\ p = "idle" => a = e
    /\ e.conn.platform # q => a = e
    /\ p # "idle" /\ e.conn.platform = q => b \in a.seen
    /\ e.seen \subseteq a.seen /\ a.conn = e.conn /\ a.access = e.access /\ a.refresh = e.refresh
    /\ a.since = e.since /\ a.job = e.job /\ a.facts = e.facts /\ a.cache = e.cache
    /\ a.kind = e.kind /\ a.code = e.code

LEMMA GradeAgainInv == ASSUME LmsInv, GradeAgain PROVE LmsInv'
<1> SUFFICES ASSUME NEW r \in Calls, at[r] = "fetch", NEW b \in Books[KindOf[call[r].conn.platform]],
                    book' = [book EXCEPT ![call[r].conn.platform] = b],
                    call' = [c \in Calls |->
                               IF at[c] # "idle" /\ call[c].conn.platform = call[r].conn.platform
                               THEN [call[c] EXCEPT !.seen = @ \cup {b}] ELSE call[c]]
             PROVE  LmsInv'
  BY DEF GradeAgain
<1>2. PICK q \in Platforms : q = call[r].conn.platform
  <2>1. PICK e \in CallRow : e = call[r] /\ e.conn.platform \in Platforms
    BY AtFetch
  <2> QED
    BY <2>1
<1>3. /\ b \in Books[KindOf[q]] /\ book' = [book EXCEPT ![q] = b] /\ DOMAIN call' = Calls
      /\ call' = [c \in Calls |-> call'[c]]
      /\ \A c \in Calls : call'[c] = IF at[c] # "idle" /\ call[c].conn.platform = q
                                      THEN [call[c] EXCEPT !.seen = @ \cup {b}] ELSE call[c]
  BY <1>2
<1>4. /\ minute' = minute /\ at' = at /\ states' = states /\ issued' = issued
      /\ tallied' = tallied /\ conn' = conn /\ adrift' = adrift /\ asked' = asked /\ gone' = gone
  BY DEF GradeAgain
<1>5. TokensKept
  BY <1>4 DEF TokensKept
<1>6. minute \in Nat /\ conn \in ConnRow
  BY LmsTyped
<1>7. /\ book' \in [Platforms -> AllBooks] /\ \A p \in Platforms : book'[p] \in Books[KindOf[p]]
      /\ book'[q] = b /\ b \in AllBooks /\ \A p \in Platforms \ {q} : book'[p] = book[p]
  <2>1. b \in AllBooks
    BY <1>3 DEF AllBooks
  <2> QED
    BY <1>3, <2>1, LmsTyped
<1>8. ASSUME NEW d \in Calls
      PROVE  \E p \in CallPlaces, e \in CallRow, a \in CallRow :
                /\ p = at[d] /\ e = call[d] /\ HeldFits(p, e) /\ (~adrift => Steady(p, e))
                /\ a = call'[d] /\ SeesMore(p, e, a, q, b)
  <2>1. PICK p \in CallPlaces, e \in CallRow :
            p = at[d] /\ e = call[d] /\ HeldFits(p, e) /\ (~adrift => Steady(p, e))
    BY AtCall
  <2>2. PICK g : g = [e EXCEPT !.seen = @ \cup {b}]
    OBVIOUS
  <2>3. /\ g \in CallRow /\ g.seen = e.seen \cup {b} /\ g.conn = e.conn /\ g.access = e.access
        /\ g.refresh = e.refresh /\ g.since = e.since /\ g.job = e.job /\ g.facts = e.facts
        /\ g.cache = e.cache /\ g.kind = e.kind /\ g.code = e.code
    BY <1>7, <2>2 DEF CallRow
  <2>4. call'[d] = IF p # "idle" /\ e.conn.platform = q THEN g ELSE e
    BY <1>3, <2>1, <2>2
  <2>5. CASE p # "idle" /\ e.conn.platform = q
    BY <2>1, <2>3, <2>4, <2>5 DEF SeesMore
  <2>6. CASE ~(p # "idle" /\ e.conn.platform = q)
    BY <2>1, <2>4, <2>6 DEF SeesMore
  <2> QED
    BY <2>5, <2>6
<1>9. ASSUME NEW d \in Calls PROVE HeldFits(at[d], call[d])'
  <2>1. PICK p \in CallPlaces, e \in CallRow, a \in CallRow :
                /\ p = at[d] /\ e = call[d] /\ HeldFits(p, e) /\ (~adrift => Steady(p, e))
                /\ a = call'[d] /\ SeesMore(p, e, a, q, b)
    BY <1>8
  <2>2. FactsFit(a)'
    BY <2>1 DEF HeldFits, FactsFit, SeesMore
  <2>3. p # "idle" => RowFits(a.conn)'
    BY <1>4, <2>1 DEF HeldFits, RowFits, SeesMore
  <2>4. p = "store" => StoreFits(a)'
    BY <1>4, <2>1 DEF HeldFits, SeesMore, StoreFits, NewFor, Is, EndedFor
  <2>5. p # "idle" /\ a.job # "exchange" => book'[a.conn.platform] \in a.seen
    BY <1>7, <2>1 DEF HeldFits, SeesMore
  <2>6. HeldFits(p, a)'
    BY <1>4, <2>1, <2>2, <2>3, <2>4, <2>5 DEF HeldFits, EndedFor, SeesMore
  <2> QED
    BY <1>4, <2>1, <2>6
<1>10. ASSUME NEW d \in Calls, ~adrift PROVE Steady(at[d], call[d])'
  <2>1. PICK p \in CallPlaces, e \in CallRow, a \in CallRow :
                /\ p = at[d] /\ e = call[d] /\ HeldFits(p, e) /\ (~adrift => Steady(p, e))
                /\ a = call'[d] /\ SeesMore(p, e, a, q, b)
    BY <1>8
  <2>2. Steady(p, a)'
    BY <1>4, <1>10, <2>1 DEF Steady, SeesMore, RowGood, NewFor, Is, AsRead, EndedFor
  <2> QED
    BY <1>4, <2>1, <2>2
<1>11. ~adrift => RowGood(conn)'
  BY <1>4 DEF LmsInv, RowGood
<1>12. call' \in [Calls -> CallRow] /\ \A d \in Calls : call'[d].refresh = call[d].refresh /\ call'[d].conn = call[d].conn
  <2>1. ASSUME NEW d \in Calls
        PROVE  call'[d] \in CallRow /\ call'[d].refresh = call[d].refresh /\ call'[d].conn = call[d].conn
    <3>1. PICK p \in CallPlaces, e \in CallRow, a \in CallRow :
                /\ p = at[d] /\ e = call[d] /\ HeldFits(p, e) /\ (~adrift => Steady(p, e))
                /\ a = call'[d] /\ SeesMore(p, e, a, q, b)
      BY <1>8
    <3> QED
      BY <3>1 DEF SeesMore
  <2> QED
    BY <1>3, <2>1
<1>13. TokensFit' /\ RowFits(conn)' /\ NewIsUnknown' /\ RefreshTokenIsGood'
  BY <1>4, <1>12 DEF LmsInv, TokensFit, RowFits, NewIsUnknown, RefreshTokenIsGood, Works
<1>14. CallsTyped'
  BY <1>7, <1>12 DEF CallsTyped
<1>15. ConnTypeOK'
  BY <1>4, <1>9, <1>14, LmsTyped, TypesFollow
<1> QED
  BY <1>4, <1>9, <1>10, <1>11, <1>13, <1>14, <1>15 DEF LmsInv

LEMMA TwoUnissued ==
    ASSUME LmsInv, Cardinality(Unissued) > 1
    PROVE  /\ OneOf(Unissued) \in Unissued
           /\ OneOf(Unissued \ {OneOf(Unissued)}) \in Unissued \ {OneOf(Unissued)}
<1>1. IsFiniteSet(Unissued)
  BY LmsConstants, FS_Subset DEF Unissued
<1>2. Unissued # {}
  BY FS_EmptySet, <1>1
<1>3. PICK x : x = OneOf(Unissued) /\ x \in Unissued
  BY <1>2, OneIsUnissued
<1>4. Cardinality(Unissued \ {x}) = Cardinality(Unissued) - 1 /\ IsFiniteSet(Unissued \ {x})
  BY <1>1, <1>3, FS_RemoveElement
<1>5. Cardinality(Unissued) \in Nat
  BY <1>1, FS_CardinalityType
<1>6. Unissued \ {x} # {}
  BY <1>4, <1>5, FS_EmptySet
<1>7. OneOf(Unissued \ {x}) \in Unissued \ {x}
  BY <1>6, OneIsUnissued
<1> QED
  BY <1>3, <1>7

\* What the LMS's reply changes, token by token.
RepliedWith(c, spent, p, again, x, y) ==
    /\ x # y /\ x # spent /\ y # spent
    /\ issued' \in [Tokens -> TokenRow]
    /\ issued'[x] = [platform |-> p, use |-> "access", ends |-> minute + Life, live |-> TRUE]
    /\ again => /\ issued'[y] = [platform |-> p, use |-> "refresh", ends |-> 0, live |-> TRUE]
                /\ issued'[spent] = [issued[spent] EXCEPT !.live = FALSE]
                /\ \A t \in Tokens \ {x, y, spent} : issued'[t] = issued[t]
    /\ ~again => \A t \in Tokens \ {x} : issued'[t] = issued[t]
    /\ Move(c, "store", [call[c] EXCEPT !.access = x, !.refresh = IF again THEN y ELSE Null])

LEMMA Replied ==
    ASSUME LmsInv, NEW c \in Calls, NEW spent \in Tokens, Reply(c, spent, minute + Life),
           issued[spent].use # "none", NEW p \in Platforms, p = call[c].conn.platform,
           NEW again \in BOOLEAN, again = (issued[spent].use = "code" \/ p \in Rotating)
    PROVE  \E x \in Unissued, y \in Unissued : RepliedWith(c, spent, p, again, x, y)
<1>1. PICK x \in Unissued : x = OneOf(Unissued)
  BY TwoUnissued DEF Reply
<1>2. PICK y \in Unissued \ {x} : y = OneOf(Unissued \ {x})
  BY <1>1, TwoUnissued DEF Reply
<1>3. again = (issued[spent].use = "code" \/ p \in Rotating)
  OBVIOUS
<1>4. x \in Tokens /\ y \in Tokens /\ x # y /\ x # spent /\ y # spent
  <2>1. issued[x] = NoToken /\ issued[y] = NoToken /\ x \in Tokens /\ y \in Tokens /\ NoToken.use = "none"
    BY <1>1, <1>2 DEF Unissued, NoToken
  <2> QED
    BY <1>2, <2>1
<1>5. PICK newA, newR : /\ newA = [platform |-> p, use |-> "access", ends |-> minute + Life, live |-> TRUE]
                        /\ newR = [platform |-> p, use |-> "refresh", ends |-> 0, live |-> TRUE]
  OBVIOUS
<1>6. newA \in TokenRow /\ newR \in TokenRow
  BY <1>5, LmsTyped, LmsConstants DEF TokenRow, Maybe
<1>7. PICK old \in TokenRow : old = issued[spent]
  BY LmsTyped
<1>8. [old EXCEPT !.live = FALSE] \in TokenRow
  BY DEF TokenRow
<1>9. PICK used : used = IF again THEN [issued EXCEPT ![spent] = [old EXCEPT !.live = FALSE]] ELSE issued
  OBVIOUS
<1>10. used \in [Tokens -> TokenRow]
  BY <1>8, <1>9, LmsTyped
<1>11. used = IF again THEN [issued EXCEPT ![spent].live = FALSE] ELSE issued
  BY <1>7, <1>9
<1>12. /\ issued' = IF again THEN [used EXCEPT ![x] = newA, ![y] = newR] ELSE [used EXCEPT ![x] = newA]
       /\ Move(c, "store", [call[c] EXCEPT !.access = x, !.refresh = IF again THEN y ELSE Null])
  BY <1>1, <1>2, <1>3, <1>5, <1>11 DEF Reply
<1>13. CASE again
  <2>1. issued' = [used EXCEPT ![x] = newA, ![y] = newR] /\ used = [issued EXCEPT ![spent] = [old EXCEPT !.live = FALSE]]
    BY <1>9, <1>12, <1>13
  <2>2. /\ issued' \in [Tokens -> TokenRow] /\ issued'[x] = newA /\ issued'[y] = newR
        /\ issued'[spent] = [old EXCEPT !.live = FALSE]
        /\ \A t \in Tokens \ {x, y, spent} : issued'[t] = issued[t]
    BY <1>4, <1>6, <1>10, <2>1, LmsTyped
  <2> QED
    BY <1>3, <1>4, <1>5, <1>7, <1>12, <1>13, <2>2 DEF RepliedWith
<1>14. CASE ~again
  <2>1. issued' = [issued EXCEPT ![x] = newA]
    BY <1>9, <1>12, <1>14
  <2>2. /\ issued' \in [Tokens -> TokenRow] /\ issued'[x] = newA
        /\ \A t \in Tokens \ {x} : issued'[t] = issued[t]
    BY <1>4, <1>6, <2>1, LmsTyped
  <2> QED
    BY <1>3, <1>4, <1>5, <1>12, <1>14, <2>2 DEF RepliedWith
<1> QED
  BY <1>13, <1>14

LEMMA AskLmsInv == ASSUME LmsInv, NEW c \in Calls, AskLms(c) PROVE LmsInv'
<1> DEFINE coded == at[c] = "exchange"
<1>1. PICK place \in CallPlaces, b \in CallRow :
         place = at[c] /\ b = call[c] /\ HeldFits(place, b) /\ (~adrift => Steady(place, b))
  BY AtCall
<1>2. /\ conn' = conn /\ states' = states /\ book' = book /\ minute' = minute /\ tallied' = tallied
      /\ adrift' = adrift /\ asked' = asked /\ gone' = gone /\ place \in {"exchange", "refresh"}
  BY <1>1 DEF AskLms
<1>3. CASE Ended(c) /\ UNCHANGED issued
  BY <1>1, <1>2, <1>3, StayEndedInv DEF lms
<1>4. ASSUME NEW sent, NEW use, sent = (IF place = "exchange" THEN b.code ELSE b.conn.refresh),
             use = (IF place = "exchange" THEN "code" ELSE "refresh"),
             Works(sent, use, b.conn.platform), Reply(c, sent, minute + Life)
      PROVE  LmsInv'
  <2>1. b.conn.platform \in Platforms /\ sent \in Tokens
    BY <1>1, <1>2, <1>4, CallFields DEF HeldFits, Works, Maybe
  <2>2. PICK p \in Platforms : p = b.conn.platform
    BY <2>1
  <2>3. issued[sent].use = use /\ issued[sent].platform = p /\ use # "none"
    BY <1>4, <2>2 DEF Works
  <2>4. PICK again \in BOOLEAN : again = (issued[sent].use = "code" \/ p \in Rotating)
    OBVIOUS
  <2>5a. PICK x \in Unissued, y \in Unissued : RepliedWith(c, sent, p, again, x, y)
    <3>1. p = call[c].conn.platform /\ issued[sent].use # "none" /\ Reply(c, sent, minute + Life)
      BY <1>1, <1>4, <2>2, <2>3
    <3> QED
      BY <2>1, <2>4, <3>1, Replied
  <2>5. /\ x # y /\ x # sent /\ y # sent
        /\ issued' \in [Tokens -> TokenRow]
        /\ issued'[x] = [platform |-> p, use |-> "access", ends |-> minute + Life, live |-> TRUE]
        /\ again => /\ issued'[y] = [platform |-> p, use |-> "refresh", ends |-> 0, live |-> TRUE]
                    /\ issued'[sent] = [issued[sent] EXCEPT !.live = FALSE]
                    /\ \A t \in Tokens \ {x, y, sent} : issued'[t] = issued[t]
        /\ ~again => \A t \in Tokens \ {x} : issued'[t] = issued[t]
        /\ Move(c, "store", [call[c] EXCEPT !.access = x, !.refresh = IF again THEN y ELSE Null])
    BY <2>5a DEF RepliedWith
  <2>6. x \in Tokens /\ y \in Tokens /\ issued[x].use = "none" /\ issued[y].use = "none"
    BY DEF Unissued, NoToken
  <2>7. minute \in Nat /\ minute' \in Nat /\ minute <= minute' /\ conn \in ConnRow /\ RowFits(conn)
    BY <1>2, LmsTyped DEF LmsInv
  <2>8. /\ issued'[sent].use = issued[sent].use /\ issued'[sent].platform = issued[sent].platform
        /\ issued'[sent].ends = issued[sent].ends
    <3>1. PICK old \in TokenRow : old = issued[sent]
      BY <2>1, LmsTyped
    <3>2. again => issued'[sent] = [old EXCEPT !.live = FALSE]
      BY <2>5, <3>1
    <3> QED
      BY <2>1, <2>5, <3>1, <3>2 DEF TokenRow
  <2>9. TokensKept
    BY <2>5, <2>6, <2>8 DEF TokensKept
  <2>10. PICK r \in Maybe(Tokens) : r = IF again THEN y ELSE Null
    BY <2>6 DEF Maybe
  <2>11. PICK a : a = [b EXCEPT !.access = x, !.refresh = r]
    OBVIOUS
  <2>12. /\ a \in CallRow /\ a.access = x /\ a.refresh = r /\ a.conn = b.conn /\ a.since = b.since /\ a.job = b.job
         /\ a.facts = b.facts /\ a.cache = b.cache /\ a.kind = b.kind /\ a.seen = b.seen /\ a.code = b.code
    BY <2>6, <2>11 DEF CallRow, Maybe
  <2>13. Move(c, "store", a)
    BY <1>1, <2>5, <2>10, <2>11
  <2>14. /\ at' \in [Calls -> CallPlaces] /\ call' \in [Calls -> CallRow]
         /\ at'[c] = "store" /\ call'[c] = a /\ RestStays(c)
    <3>1. "store" \in CallPlaces
      BY DEF CallPlaces
    <3> QED
      BY <2>12, <2>13, <3>1, Moved
  <2>15. TokensFit'
    <3> SUFFICES ASSUME NEW t \in Tokens
                 PROVE  /\ issued'[t].use = "refresh" =>
                               issued'[t].ends = 0 /\ (issued'[t].platform \notin Rotating => issued'[t].live)
                        /\ issued'[t].use = "access" => issued'[t].live /\ issued'[t].ends \in Life..(minute' + Life)
      BY DEF TokensFit
    <3>1. /\ issued[t].use = "refresh" =>
                issued[t].ends = 0 /\ (issued[t].platform \notin Rotating => issued[t].live)
          /\ issued[t].use = "access" => issued[t].live /\ issued[t].ends \in Life..(minute + Life)
      BY DEF LmsInv, TokensFit
    <3>2. CASE t = x
      BY <1>2, <2>5, <2>7, <3>2, LmsConstants
    <3>3. CASE t = y /\ again
      BY <2>5, <3>3
    <3>4. CASE t = sent
      BY <1>2, <1>4, <2>3, <2>4, <2>5, <2>8, <3>1, <3>4
    <3>5. CASE t \notin {x, sent} /\ (t = y => ~again)
      <4>1. issued'[t] = issued[t]
        BY <2>5, <3>5
      <4> QED
        BY <1>2, <3>1, <4>1
    <3> QED
      BY <3>2, <3>3, <3>4, <3>5
  <2>16. HeldFits(place, b)'
    <3>1. place # "store"
      BY <1>2
    <3> QED
      BY <1>1, <1>2, <2>7, <2>9, <3>1, HeldKept
  <2>17. StoreFits(a)'
    <3>1. NewFor(a.access, a)' /\ Is(a.access, "access", a.conn.platform)'
      BY <1>1, <1>2, <2>2, <2>5, <2>6, <2>7, <2>12, CallFields, LmsConstants DEF NewFor, Is, HeldFits
    <3>2. a.job = "exchange" => a.refresh # Null
      <4> SUFFICES ASSUME a.job = "exchange" PROVE a.refresh # Null
        OBVIOUS
      <4>1. place = "exchange"
        BY <1>1, <1>2, <2>12 DEF HeldFits
      <4>2. again
        BY <1>4, <2>3, <2>4, <4>1
      <4> QED
        BY <2>6, <2>10, <2>12, <4>2, LmsConstants
    <3>3. a.job # "exchange" => EndedFor(a) /\ a.conn.refresh # Null
      BY <1>1, <1>2, <2>12 DEF HeldFits, EndedFor
    <3>4. a.refresh # Null => Is(a.refresh, "refresh", a.conn.platform)' /\ issued'[a.refresh].live
      BY <2>2, <2>5, <2>6, <2>10, <2>12 DEF Is
    <3>5. a.refresh = Null => Is(a.conn.refresh, "refresh", a.conn.platform)' /\ a.conn.platform \notin Rotating
      <4> SUFFICES ASSUME ~again
                   PROVE  Is(a.conn.refresh, "refresh", a.conn.platform)' /\ a.conn.platform \notin Rotating
        BY <2>6, <2>10, <2>12, LmsConstants
      <4>1. use = "refresh" /\ sent = a.conn.refresh /\ p \notin Rotating
        BY <1>2, <1>4, <2>3, <2>4, <2>12
      <4> QED
        BY <2>1, <2>2, <2>3, <2>8, <2>12, <4>1 DEF Is
    <3> QED
      BY <3>1, <3>2, <3>3, <3>4, <3>5 DEF StoreFits, EndedFor
  <2>18. HeldFits("store", a)'
    BY <1>2, <2>12, <2>16, <2>17 DEF HeldFits, FactsFit
  <2>19. \A d \in Calls : HeldFits(at[d], call[d])'
    <3>1. HeldFits(at[c], call[c])'
      BY <2>14, <2>18
    <3>2. ASSUME NEW d \in Calls \ {c} PROVE HeldFits(at[d], call[d])'
      <4>1. PICK q \in CallPlaces, e \in CallRow : q = at[d] /\ e = call[d] /\ HeldFits(q, e)
        BY AtCall
      <4>2. ASSUME q = "store", e.refresh # Null PROVE issued'[e.refresh].live
        <5>1. e.refresh \in Tokens /\ issued[e.refresh].use = "refresh" /\ issued[e.refresh].live
          BY <4>1, <4>2 DEF HeldFits, StoreFits, Is
        <5>2. e.refresh # b.conn.refresh
          BY <1>1, <4>1, <4>2 DEF LmsInv, NewIsUnknown
        <5>3. e.refresh # sent
          BY <1>4, <2>3, <5>1, <5>2
        <5> QED
          BY <2>5, <2>6, <5>1, <5>3
      <4>3. HeldFits(q, e)'
        BY <1>2, <2>7, <2>9, <4>1, <4>2, HeldKept
      <4> QED
        BY <2>14, <4>1, <4>3 DEF RestStays
    <3> QED
      BY <3>1, <3>2
  <2>20. ~adrift' => RowGood(conn)' /\ \A d \in Calls : Steady(at[d], call[d])'
    <3> SUFFICES ASSUME ~adrift PROVE RowGood(conn)' /\ \A d \in Calls : Steady(at[d], call[d])'
      BY <1>2
    <3>1. RowGood(conn)'
      <4>1. PICK row \in ConnRow : row = conn /\ RowFits(row) /\ RowGood(row)
        BY <2>7 DEF LmsInv
      <4>2. RowGood(row)'
        BY <2>9, <4>1, RowKept
      <4> QED
        BY <1>2, <4>1, <4>2
    <3>2. Steady(at[c], call[c])'
      <4>1. Steady(place, b)'
        BY <1>1, <1>2, <2>7, <2>9, SteadyKept
      <4>2. Steady("store", a)'
        BY <1>2, <2>12, <4>1 DEF Steady
      <4> QED
        BY <2>14, <4>2
    <3>3. ASSUME NEW d \in Calls \ {c} PROVE Steady(at[d], call[d])'
      <4>1. PICK q \in CallPlaces, e \in CallRow :
               q = at[d] /\ e = call[d] /\ HeldFits(q, e) /\ Steady(q, e)
        BY AtCall
      <4>2. Steady(q, e)'
        BY <1>2, <2>7, <2>9, <4>1, SteadyKept
      <4> QED
        BY <2>14, <4>1, <4>2 DEF RestStays
    <3> QED
      BY <3>1, <3>2, <3>3
  <2>21. NewIsUnknown'
    <3>1. ASSUME NEW d \in Calls PROVE call[d].conn.refresh # y
      <4>1. PICK q \in CallPlaces, e \in CallRow : q = at[d] /\ e = call[d] /\ HeldFits(q, e)
        BY AtCall
      <4> QED
        BY <2>6, <4>1, NoCallTyped, LmsConstants DEF HeldFits, RowFits
    <3>2. conn.refresh # y
      BY <2>6, <2>7, LmsConstants DEF RowFits
    <3>3. ASSUME NEW d \in Calls, at[d] = "store" PROVE call[d].refresh # y
      <4>1. PICK e \in CallRow : e = call[d] /\ HeldFits("store", e)
        BY <3>3, AtCall
      <4> QED
        BY <2>6, <4>1, LmsConstants DEF HeldFits, StoreFits, Is
    <3>4. \A d \in Calls : call'[d].conn = call[d].conn
      BY <1>1, <2>12, <2>14 DEF RestStays
    <3>5. a.refresh # Null => a.refresh = y
      BY <2>10, <2>12
    <3> SUFFICES ASSUME NEW d \in Calls, at'[d] = "store", call'[d].refresh # Null
                 PROVE  /\ conn'.refresh # call'[d].refresh
                        /\ \A e \in Calls : call'[e].conn.refresh # call'[d].refresh
                        /\ \A e \in Calls \ {d} : at'[e] = "store" => call'[e].refresh # call'[d].refresh
      BY DEF NewIsUnknown
    <3>6. CASE d = c
      <4>1. call'[d].refresh = y
        BY <2>14, <3>5, <3>6
      <4>2. \A e \in Calls \ {d} : at'[e] = "store" => call'[e].refresh # y
        BY <2>14, <3>3, <3>6 DEF RestStays
      <4> QED
        BY <1>2, <3>1, <3>2, <3>4, <4>1, <4>2
    <3>7. CASE d # c
      <4>1. at[d] = "store" /\ call'[d] = call[d] /\ call[d].refresh # Null
        BY <2>14, <3>7 DEF RestStays
      <4>2. /\ conn.refresh # call[d].refresh
            /\ \A e \in Calls : call[e].conn.refresh # call[d].refresh
            /\ \A e \in Calls \ {d} : at[e] = "store" => call[e].refresh # call[d].refresh
        BY <4>1 DEF LmsInv, NewIsUnknown
      <4>3. a.refresh # call[d].refresh
        BY <3>3, <3>5, <4>1
      <4>4. \A e \in Calls \ {d} : at'[e] = "store" => call'[e].refresh # call[d].refresh
        BY <2>14, <4>2, <4>3 DEF RestStays
      <4> QED
        BY <1>2, <3>4, <4>1, <4>2, <4>4
    <3> QED
      BY <3>6, <3>7
  <2>22. RefreshTokenIsGood'
    BY <2>14 DEF RefreshTokenIsGood
  <2>23. RowFits(conn)' /\ CallsTyped'
    <3>1. PICK row \in ConnRow : row = conn /\ RowFits(row)
      BY <2>7
    <3>2. RowFits(row)'
      BY <2>9, <3>1, RowKept
    <3> QED
      BY <1>2, <2>14, <3>1, <3>2, LmsTyped DEF CallsTyped
  <2>24. ConnTypeOK'
    BY <1>2, <2>5, <2>14, <2>19, <2>23, LmsTyped, TypesFollow
  <2> QED
    BY <2>15, <2>19, <2>20, <2>21, <2>22, <2>23, <2>24 DEF LmsInv
<1> QED
  BY <1>1, <1>2, <1>3, <1>4 DEF AskLms

LEMMA ToldIfTallied == ((IF tallied THEN RowsChanged(1, FALSE) ELSE RowsWritten(1, FALSE)) > 0) <=> tallied
  BY DEF RowsChanged, RowsWritten

\* How a request goes on from its store.
GoesOn(c, place, a, b) ==
    /\ Move(c, place, a)
    /\ \/ place = "idle" /\ a = NoCall
       \/ place = "reread" /\ a = b /\ tallied
       \/ /\ place = "fetch" /\ b.job = "evaluate" /\ ~tallied
          /\ a.access = b.conn.access /\ a.conn = b.conn /\ a.since = b.since /\ a.job = b.job /\ a.kind = b.kind
          /\ a.facts = b.facts /\ a.cache = b.cache /\ a.seen = b.seen

LEMMA StoreGoesOn ==
    ASSUME LmsInv, NEW c \in Calls, StoreTokens(c), NEW b \in CallRow, b = call[c]
    PROVE  \E place \in CallPlaces \ {"store"}, a \in CallRow : GoesOn(c, place, a, b)
<1>1. CASE Ended(c)
  <2>1. "idle" \in CallPlaces \ {"store"} /\ NoCall \in CallRow
    BY NoCallTyped DEF CallPlaces
  <2> QED
    BY <1>1, <2>1 DEF GoesOn, Ended
<1>2. CASE tallied /\ Move(c, "reread", b)
  <2>1. "reread" \in CallPlaces \ {"store"}
    BY DEF CallPlaces
  <2> QED
    BY <1>2, <2>1 DEF GoesOn
<1>3. CASE ~tallied /\ b.job = "evaluate" /\ Move(c, "fetch", [b EXCEPT !.access = b.conn.access])
  <2>1. "fetch" \in CallPlaces \ {"store"}
    BY DEF CallPlaces
  <2>2. PICK a : a = [b EXCEPT !.access = b.conn.access]
    OBVIOUS
  <2>3. /\ a \in CallRow /\ a.access = b.conn.access /\ a.conn = b.conn /\ a.since = b.since /\ a.job = b.job
        /\ a.kind = b.kind /\ a.facts = b.facts /\ a.cache = b.cache /\ a.seen = b.seen
    BY <2>2, CallFields DEF CallRow
  <2>4. Move(c, "fetch", a)
    BY <1>3, <2>2
  <2> QED
    BY <1>3, <2>1, <2>3, <2>4 DEF GoesOn
<1>4. \/ tallied /\ Move(c, "reread", call[c])
      \/ /\ ~tallied /\ call[c].job = "evaluate"
         /\ Move(c, "fetch", [call[c] EXCEPT !.access = call[c].conn.access])
      \/ Ended(c)
  BY ToldIfTallied DEF StoreTokens
<1> QED
  BY <1>1, <1>2, <1>3, <1>4

LEMMA StoreTokensInv == ASSUME LmsInv, NEW c \in Calls, StoreTokens(c) PROVE LmsInv'
<1>1. PICK b \in CallRow :
         b = call[c] /\ HeldFits("store", b) /\ StoreFits(b) /\ (~adrift => Steady("store", b))
  <2>1. at[c] = "store"
    BY DEF StoreTokens
  <2> QED
    BY <2>1, AtCall DEF HeldFits
<1>2. PICK place \in CallPlaces \ {"store"}, a \in CallRow : GoesOn(c, place, a, b)
  BY <1>1, StoreGoesOn
<1>3. /\ states' = states /\ book' = book /\ minute' = minute /\ tallied' = tallied /\ issued' = issued
      /\ asked' = asked /\ gone' = gone /\ conn' = Stored(conn, c) /\ at[c] = "store"
      /\ adrift' = IF b.job = "exchange" /\ Others(c) = {} /\ conn.platform = b.conn.platform
                   THEN FALSE ELSE adrift \/ conn # b.conn
  BY <1>1 DEF StoreTokens, lms
<1>4. /\ at' \in [Calls -> CallPlaces] /\ call' \in [Calls -> CallRow]
      /\ at'[c] = place /\ call'[c] = a /\ RestStays(c)
  <2>1. Move(c, place, a)
    BY <1>2 DEF GoesOn
  <2> QED
    BY <2>1, Moved
<1>5. /\ minute \in Nat /\ minute' \in Nat /\ minute <= minute' /\ conn \in ConnRow /\ RowFits(conn)
      /\ conn.refresh \in Maybe(Tokens) /\ conn.platform \in Maybe(Platforms) /\ conn.access \in Maybe(Tokens)
  BY <1>3, LmsTyped DEF LmsInv, ConnRow
<1>6. TokensKept
  BY <1>3 DEF TokensKept
<1>7. PICK ends : /\ ends = EndOf(c) /\ ends \in 0..MaxMinute + Life
                  /\ ends = 0 \/ ends = b.since + Life
                  /\ b.conn.platform \notin Silent => ends # 0
  BY <1>1, CallFields, LmsConstants DEF EndOf
<1>8. /\ conn' \in ConnRow /\ conn'.platform = conn.platform /\ conn'.access = b.access /\ conn'.ends = ends
      /\ conn'.refresh = IF b.refresh = Null THEN conn.refresh ELSE b.refresh
  <2>1. PICK r \in Maybe(Tokens) : r = IF b.refresh = Null THEN conn.refresh ELSE b.refresh
    BY <1>5, CallFields
  <2>2. conn' = [conn EXCEPT !.access = b.access, !.ends = ends, !.refresh = r]
    BY <1>1, <1>3, <1>7, <2>1 DEF Stored
  <2> QED
    BY <1>5, <1>7, <2>1, <2>2, CallFields DEF ConnRow
<1>9. b.access \in Tokens /\ issued[b.access].use = "access" /\ issued[b.access].ends >= b.since + Life
      /\ issued[b.access].platform = b.conn.platform
  BY <1>1 DEF StoreFits, NewFor, Is
<1>10. RowFits(conn)'
  <2>1. conn'.refresh # Null => issued[conn'.refresh].use = "refresh"
    BY <1>1, <1>5, <1>8 DEF StoreFits, RowFits, Is
  <2>2. issued[b.access].ends \in Nat /\ ends <= issued[b.access].ends
    <3>1. PICK t \in TokenRow : t = issued[b.access]
      BY <1>9, LmsTyped
    <3>2. t.ends \in Nat
      BY LmsConstants DEF TokenRow
    <3> QED
      BY <1>7, <1>9, <3>1, <3>2
  <2> QED
    BY <1>3, <1>8, <1>9, <2>1, <2>2, LmsConstants DEF RowFits
<1>11. HeldFits(place, a)
  <2>1. CASE place = "idle" /\ a = NoCall
    BY <2>1, NoCallTyped DEF HeldFits, FactsFit
  <2>2. CASE place = "reread" /\ a = b
    BY <1>1, <2>2 DEF HeldFits
  <2>3. CASE /\ place = "fetch" /\ b.job = "evaluate" /\ ~tallied
             /\ a.access = b.conn.access /\ a.conn = b.conn /\ a.since = b.since /\ a.job = b.job /\ a.kind = b.kind
             /\ a.facts = b.facts /\ a.cache = b.cache /\ a.seen = b.seen
    <3>1. FactsFit(a)
      BY <1>1, <2>3 DEF HeldFits, FactsFit
    <3> QED
      BY <1>1, <2>3, <3>1 DEF HeldFits
  <2> QED
    BY <1>2, <2>1, <2>2, <2>3 DEF GoesOn
<1>12. \A d \in Calls : HeldFits(at[d], call[d])'
  <2>1. HeldFits(place, a)'
    BY <1>2, <1>3, <1>5, <1>6, <1>11, HeldKept
  <2>2. ASSUME NEW d \in Calls \ {c} PROVE HeldFits(at[d], call[d])'
    <3>1. PICK q \in CallPlaces, e \in CallRow : q = at[d] /\ e = call[d] /\ HeldFits(q, e)
      BY AtCall
    <3>2. q = "store" /\ e.refresh # Null => issued'[e.refresh].live
      BY <1>3, <3>1 DEF HeldFits, StoreFits
    <3>3. HeldFits(q, e)'
      BY <1>3, <1>5, <1>6, <3>1, <3>2, HeldKept
    <3> QED
      BY <1>4, <3>1, <3>3 DEF RestStays
  <2> QED
    BY <1>4, <2>1, <2>2
<1>13. NewIsUnknown'
  <2> SUFFICES ASSUME NEW d \in Calls, at'[d] = "store", call'[d].refresh # Null
               PROVE  /\ conn'.refresh # call'[d].refresh
                      /\ \A e \in Calls : call'[e].conn.refresh # call'[d].refresh
                      /\ \A e \in Calls \ {d} : at'[e] = "store" => call'[e].refresh # call'[d].refresh
    BY DEF NewIsUnknown
  <2>1. d # c /\ at[d] = "store" /\ call'[d] = call[d] /\ call[d].refresh # Null
    BY <1>4 DEF RestStays
  <2>2. /\ conn.refresh # call[d].refresh
        /\ \A e \in Calls : call[e].conn.refresh # call[d].refresh
        /\ \A e \in Calls \ {d} : at[e] = "store" => call[e].refresh # call[d].refresh
    BY <2>1 DEF LmsInv, NewIsUnknown
  <2>3. b.refresh # call[d].refresh /\ b.conn.refresh # call[d].refresh
    BY <1>1, <1>3, <2>1, <2>2
  <2>4. a.conn.refresh # call[d].refresh
    BY <1>2, <2>1, <2>3, NoCallTyped DEF GoesOn
  <2> QED
    BY <1>4, <1>8, <2>1, <2>2, <2>3, <2>4 DEF RestStays
<1>14. ASSUME ~adrift'
       PROVE  /\ conn.platform = b.conn.platform
              /\ \/ b.job = "exchange" /\ Others(c) = {}
                 \/ ~adrift /\ conn = b.conn
  BY <1>3, <1>14
<1>15. ASSUME ~adrift' PROVE RowGood(conn)'
  <2>1. issued'[conn'.access].platform = conn'.platform
    BY <1>3, <1>8, <1>9, <1>14, <1>15
  <2>2. conn'.platform \notin Silent => conn'.ends # 0
    BY <1>7, <1>8, <1>14, <1>15
  <2> QED
    BY <2>1, <2>2 DEF RowGood
<1>16. ASSUME ~adrift', NEW d \in Calls \ {c} PROVE Steady(at[d], call[d])'
  <2>1. PICK q \in CallPlaces, e \in CallRow :
           q = at[d] /\ e = call[d] /\ HeldFits(q, e) /\ (~adrift => Steady(q, e))
    BY AtCall
  <2>2. CASE Others(c) = {}
    <3>1. q = "idle"
      BY <2>1, <2>2 DEF Others
    <3> QED
      BY <1>4, <2>1, <3>1 DEF Steady, RestStays
  <2>3. CASE ~adrift /\ conn = b.conn
    <3>1. Steady(q, e)
      BY <2>1, <2>3
    <3>2. \A t \in Maybe(Tokens) : NewFor(t, e) => NewFor(t, e)'
      BY <1>3 DEF NewFor
    <3>3. q = "reread" => NewFor(b.access, e)
      <4> SUFFICES ASSUME q = "reread" PROVE NewFor(b.access, e)
        OBVIOUS
      <4>1. conn.access \in Tokens /\ issued[conn.access].ends >= e.since + Life
        BY <1>5, <3>1 DEF Steady, NewFor, Maybe
      <4>2. issued[conn.access].ends <= b.since + Life
        BY <1>1, <2>3, <4>1, LmsConstants DEF HeldFits
      <4>3. issued[b.access].ends >= e.since + Life
        <5>1. PICK t \in TokenRow, u \in TokenRow : t = issued[b.access] /\ u = issued[conn.access]
          BY <1>9, <4>1, LmsTyped
        <5>2. t.ends \in Int /\ u.ends \in Int /\ e.since \in Int /\ b.since \in Int /\ Life \in Int
          BY CallFields, LmsConstants DEF TokenRow
        <5>3. t.ends >= b.since + Life /\ u.ends <= b.since + Life /\ u.ends >= e.since + Life
          BY <1>9, <4>1, <4>2, <5>1
        <5>4. t.ends >= e.since + Life
          BY <5>2, <5>3
        <5> QED
          BY <5>1, <5>4
      <4> QED
        BY <1>9, <4>3, LmsConstants DEF NewFor
    <3>4. q = "reread" => NewFor(conn.access, e)'
      BY <1>3, <1>8, <3>3 DEF NewFor
    <3>5. q # "idle" => e.conn.platform = conn'.platform /\ (e.job # "exchange" => RowGood(e.conn)')
      BY <1>3, <1>8, <3>1 DEF Steady, RowGood
    <3>6. q = "fetch" => AsRead(e)' \/ (NewFor(e.access, e)' /\ Is(e.access, "access", e.conn.platform)')
      BY <1>3, <3>1 DEF Steady, AsRead, EndedFor, NewFor, Is
    <3>7. Steady(q, e)'
      BY <3>4, <3>5, <3>6 DEF Steady
    <3> QED
      BY <1>4, <2>1, <3>7 DEF RestStays
  <2> QED
    BY <1>14, <1>16, <2>2, <2>3
<1>17. ASSUME ~adrift' PROVE Steady(at[c], call[c])'
  <2>1. b.conn.platform = conn'.platform
    BY <1>8, <1>14, <1>17
  <2>2. b.job # "exchange" => RowGood(b.conn)'
    BY <1>1, <1>3, <1>14, <1>17 DEF Steady, RowGood
  <2>3. CASE place = "idle"
    BY <1>4, <2>3 DEF Steady
  <2>4. CASE place = "reread" /\ a = b
    <3>1. NewFor(conn.access, b)'
      BY <1>1, <1>3, <1>8 DEF StoreFits, NewFor
    <3>2. Steady("reread", b)'
      BY <2>1, <2>2, <3>1 DEF Steady
    <3> QED
      BY <1>4, <2>4, <3>2
  <2>5. CASE /\ place = "fetch" /\ b.job = "evaluate" /\ ~tallied
             /\ a.access = b.conn.access /\ a.conn = b.conn /\ a.since = b.since /\ a.job = b.job
    <3>1. b.conn.access # Null
      BY <1>1, <2>5 DEF StoreFits, HeldFits, RowFits
    <3>2. AsRead(a)'
      BY <1>3, <2>5, <3>1 DEF AsRead
    <3>3. Steady("fetch", a)'
      BY <2>1, <2>2, <2>5, <3>2 DEF Steady
    <3> QED
      BY <1>4, <2>5, <3>3
  <2> QED
    BY <1>2, <2>3, <2>4, <2>5 DEF GoesOn
<1>18. RefreshTokenIsGood'
  <2> SUFFICES ASSUME ~adrift', conn'.refresh # Null PROVE Works(conn.refresh, "refresh", conn.platform)'
    BY DEF RefreshTokenIsGood
  <2>1. CASE b.refresh # Null
    <3>1. Is(b.refresh, "refresh", b.conn.platform) /\ issued[b.refresh].live
      BY <1>1, <2>1 DEF StoreFits
    <3>2. issued[b.refresh].ends = 0
      BY <3>1 DEF LmsInv, TokensFit, Is
    <3> QED
      BY <1>3, <1>8, <1>14, <2>1, <3>1, <3>2 DEF Works, Is
  <2>2. CASE b.refresh = Null
    <3>1. /\ Is(b.conn.refresh, "refresh", b.conn.platform) /\ b.conn.platform \notin Rotating
          /\ b.job # "exchange"
      BY <1>1, <2>2 DEF StoreFits
    <3>2. conn = b.conn
      BY <1>14, <3>1
    <3>3. issued[conn.refresh].ends = 0 /\ issued[conn.refresh].live
      BY <3>1, <3>2 DEF LmsInv, TokensFit, Is
    <3> QED
      BY <1>3, <1>8, <2>2, <3>1, <3>2, <3>3 DEF Works, Is
  <2> QED
    BY <2>1, <2>2
<1>19. TokensFit' /\ CallsTyped'
  BY <1>3, <1>4, LmsTyped DEF LmsInv, TokensFit, CallsTyped
<1>20. adrift' \in BOOLEAN
  BY <1>3, LmsTyped
<1>21. ConnTypeOK'
  BY <1>3, <1>4, <1>8, <1>12, <1>19, <1>20, LmsTyped, TypesFollow
<1> QED
  BY <1>10, <1>12, <1>13, <1>15, <1>16, <1>17, <1>18, <1>19, <1>21 DEF LmsInv

LEMMA LmsInvInit == ConnInit => LmsInv
<1> SUFFICES ASSUME ConnInit PROVE LmsInv
  OBVIOUS
<1>1. /\ conn = NoConn /\ issued = [t \in Tokens |-> NoToken] /\ states = {} /\ minute = 0
      /\ at = [c \in Calls |-> "idle"] /\ call = [c \in Calls |-> NoCall] /\ tallied \in BOOLEAN
      /\ adrift = FALSE /\ asked = 0 /\ gone = 0
  BY DEF ConnInit
<1>2. book \in [Platforms -> AllBooks] /\ \A p \in Platforms : book[p] \in Books[KindOf[p]]
  BY DEF ConnInit, AllBooks
<1>3. HeldFits("idle", NoCall) /\ Steady("idle", NoCall) /\ RowFits(NoConn) /\ RowGood(NoConn)
  BY NoCallTyped DEF HeldFits, FactsFit, Steady, RowFits, RowGood, NoConn
<1>4. \A c \in Calls : at[c] = "idle" /\ call[c] = NoCall
  BY <1>1
<1>5. CallsTyped
  BY <1>1, <1>2, NoCallTyped DEF CallsTyped
<1>6. \A c \in Calls : HeldFits(at[c], call[c]) /\ Steady(at[c], call[c])
  BY <1>3, <1>4
<1>7. NewIsUnknown /\ RefreshTokenIsGood
  BY <1>1, <1>4, NoCallTyped DEF NewIsUnknown, RefreshTokenIsGood
<1>8. TokensFit
  BY <1>1 DEF TokensFit, NoToken
<1>9. ConnTypeOK
  <2>1. NoConn \in ConnRow /\ NoToken \in TokenRow
    BY NoCallTyped, LmsConstants DEF TokenRow, NoToken, Maybe
  <2>2. 0 \in 0..MaxMinute /\ 0 \in 0..MaxCalls /\ 0 \in 0..MaxLostCalls /\ 0 \in 0..0
    BY LmsConstants
  <2>3. /\ NoCall.kind \in {"canvas", "sakai"} /\ NoCall.since \in 0..0
        /\ NoCall.job \in {"none", "exchange", "snapshot", "evaluate"}
        /\ {NoCall.access, NoCall.refresh, NoCall.code} \subseteq Maybe(Tokens)
    BY <2>2 DEF NoCall, Maybe
  <2>4. at \in [Calls -> CallPlaces] /\ issued \in [Tokens -> TokenRow]
    BY <1>1, <2>1 DEF CallPlaces
  <2> QED
    BY <1>1, <1>4, <2>1, <2>2, <2>3, <2>4 DEF ConnTypeOK, ConnRow, TokenRow, CallPlaces
<1> QED
  BY <1>1, <1>3, <1>5, <1>6, <1>7, <1>8, <1>9 DEF LmsInv

LEMMA LmsStands == ASSUME LmsInv, UNCHANGED connVars PROVE LmsInv'
<1>1. UNCHANGED <<conn, lms, minute, at, call, tallied, adrift, asked, gone>> /\ states' = states
  BY DEF connVars, lms
<1>2. states' \subseteq 0..MaxMinute
  BY <1>1, LmsTyped
<1> QED
  BY <1>1, <1>2, StaysInv

LEMMA LmsInvNext == ASSUME LmsInv, [ConnNext]_connVars PROVE LmsInv'
<1>1. ASSUME NEW c \in Calls, PutConfig(c) \/ AuthorizeUrl(c) \/ BeginExchange(c) PROVE LmsInv'
  BY <1>1, PutConfigInv, AuthorizeUrlInv, BeginExchangeInv
<1>2. ASSUME NEW c \in Calls, BeginSnapshot(c) \/ BeginFacts(c) \/ LoseCall(c) PROVE LmsInv'
  BY <1>2, BeginSnapshotInv, BeginFactsInv, EndsInv
<1>3. ASSUME NEW c \in Calls, Proceed(c) PROVE LmsInv'
  BY <1>3, AskLmsInv, StoreTokensInv, RereadConnInv, FetchMatrixInv, ReadsInv, EndsInv DEF Proceed
<1>4. ASSUME GrantCode \/ GradeAgain \/ Minute PROVE LmsInv'
  BY <1>4, GrantCodeInv, GradeAgainInv, MinuteInv
<1>5. ASSUME ShowConfig \/ UNCHANGED connVars PROVE LmsInv'
  BY <1>5, LmsStands DEF ShowConfig
<1> QED
  BY <1>1, <1>2, <1>3, <1>4, <1>5 DEF ConnNext

\* The invariant of the connection: what the stored row, the rows requests read and the
\* tokens they hold say of the LMS's tokens (lms/canvas-oauth.ts, routes/admin-routes.ts).
THEOREM ConnectionInvariance == ConnSpec => []LmsInv
<1>1. LmsInv /\ [ConnNext]_connVars => LmsInv'
  BY LmsInvNext
<1> QED
  BY <1>1, LmsInvInit, PTL DEF ConnSpec

LEMMA ReadsFollow == ASSUME LmsInv PROVE ReadsWithGoodToken
<1> SUFFICES ASSUME NEW c \in Calls, at[c] = "fetch", ~adrift, minute = call[c].since,
                    call[c].conn.platform = conn.platform, call[c].conn.platform \notin Silent,
                    tallied \/ ~EndedFor(call[c]) \/ call[c].conn.refresh = Null,
                    EndedFor(call[c]) => call[c].conn.refresh # Null
             PROVE  Works(call[c].access, "access", call[c].conn.platform)
  BY DEF ReadsWithGoodToken, EndedFor
<1>1. PICK b \in CallRow : b = call[c] /\ HeldFits("fetch", b) /\ Steady("fetch", b)
  BY AtCall
<1>2. b.since \in Nat /\ minute = b.since /\ b.conn.ends \in Nat /\ Life \in Nat /\ Life > 0
      /\ b.access \in Maybe(Tokens)
  BY <1>1, CallFields, LmsConstants
<1>3. CASE AsRead(b)
  <2>1. b.access = b.conn.access /\ b.access # Null /\ ~EndedFor(b)
    BY <1>1, <1>3 DEF AsRead
  <2>2. RowFits(b.conn) /\ RowGood(b.conn)
    BY <1>1 DEF HeldFits, Steady
  <2>3. /\ issued[b.access].use = "access" /\ issued[b.access].platform = b.conn.platform
        /\ b.conn.ends <= issued[b.access].ends /\ b.conn.ends # 0 /\ b.access \in Tokens
    BY <1>1, <1>2, <2>1, <2>2 DEF RowFits, RowGood, Maybe
  <2>4. issued[b.access].live /\ issued[b.access].ends \in Nat
    <3>1. issued[b.access].ends \in 0..MaxMinute + Life
      BY <2>3, LmsTyped DEF TokenRow
    <3> QED
      BY <2>3, <3>1, LmsConstants DEF LmsInv, TokensFit
  <2>5. minute < b.conn.ends
    BY <1>2, <2>1, <2>3 DEF EndedFor
  <2> QED
    BY <1>1, <1>2, <2>1, <2>3, <2>4, <2>5 DEF Works
<1>4. CASE NewFor(b.access, b) /\ Is(b.access, "access", b.conn.platform)
  <2>1. issued[b.access].live /\ issued[b.access].ends \in Nat
    <3>1. issued[b.access].ends \in 0..MaxMinute + Life
      BY <1>4, LmsTyped DEF TokenRow, Is
    <3> QED
      BY <1>4, <3>1, LmsConstants DEF LmsInv, TokensFit, Is
  <2> QED
    BY <1>1, <1>2, <1>4, <2>1 DEF Works, NewFor, Is
<1> QED
  BY <1>1, <1>3, <1>4 DEF Steady

\* A score and the completion that Sakai's provider draws from one row agree.
LEMMA OneRowAgrees ==
    ASSUME NEW matrix
    PROVE  /\ \A g \in SakaiGrades(matrix, Learner) : \E d \in SakaiCompletions(matrix, Learner) : Agree(g, d)
           /\ \A d \in SakaiCompletions(matrix, Learner) : \E g \in SakaiGrades(matrix, Learner) : Agree(g, d)
<1> DEFINE GradeOf(s) == [course |-> matrix.site, learner |-> s.learner, current |-> SakaiPercent(s.course),
                          final |-> SakaiPercent(s.course)]
           CompletionOf(s) == [course |-> matrix.site, learner |-> s.learner,
                               completed |-> SakaiPercent(s.course) # Null,
                               percent |-> SakaiPercent(s.course)]
<1>1. ASSUME NEW s PROVE Agree(GradeOf(s), CompletionOf(s))
  <2>1. GradeOf(s).final = SakaiPercent(s.course) /\ CompletionOf(s).percent = SakaiPercent(s.course)
    OBVIOUS
  <2>2. CompletionOf(s).completed = (SakaiPercent(s.course) # Null)
    OBVIOUS
  <2> HIDE DEF GradeOf, CompletionOf
  <2> QED
    BY <2>1, <2>2, Zenon DEF Agree
<1>2. /\ SakaiGrades(matrix, Learner) = {GradeOf(s) : s \in StudentsOf(matrix, Learner)}
      /\ SakaiCompletions(matrix, Learner) = {CompletionOf(s) : s \in StudentsOf(matrix, Learner)}
  BY DEF SakaiGrades, SakaiCompletions
<1> HIDE DEF GradeOf, CompletionOf
<1> QED
  BY <1>1, <1>2

LEMMA FactsFollow == ASSUME LmsInv PROVE FactsAreOfOneBook
<1> SUFFICES ASSUME NEW c \in Calls, at[c] = "fetch"
             PROVE  LET facts == call[c].facts
                        canvas == call[c].kind = "canvas"
                    IN  /\ ~canvas /\ facts.grades # {} /\ facts.completions # {} =>
                             /\ \A g \in UNION facts.grades : \E d \in UNION facts.completions : Agree(g, d)
                             /\ \A d \in UNION facts.completions : \E g \in UNION facts.grades : Agree(g, d)
                        /\ \A s \in UNION facts.grades : canvas =>
                             \E b \in call[c].seen : s \in CanvasGrades(Course, b.enrollments, Learner)
                        /\ \A s \in UNION facts.submissions : canvas =>
                             \E b \in call[c].seen : s \in CanvasSubmissions(Course, b.submissions, Learner, Assignment)
  BY DEF FactsAreOfOneBook
<1>1. PICK a \in CallRow : a = call[c] /\ FactsFit(a)
  BY AtFetch
<1>2. ASSUME a.kind # "canvas", a.facts.grades # {}, a.facts.completions # {}
      PROVE  /\ \A g \in UNION a.facts.grades : \E d \in UNION a.facts.completions : Agree(g, d)
             /\ \A d \in UNION a.facts.completions : \E g \in UNION a.facts.grades : Agree(g, d)
  <2>1. a.kind = "sakai"
    BY <1>2 DEF CallRow
  <2>2. a.cache # Null
    BY <1>1, <1>2, <2>1, NoCallTyped DEF FactsFit
  <2>3. /\ a.facts.grades = {SakaiGrades(a.cache, Learner)}
        /\ a.facts.completions = {SakaiCompletions(a.cache, Learner)}
    BY <1>1, <1>2, <2>1, <2>2 DEF FactsFit
  <2>4. /\ UNION a.facts.grades = SakaiGrades(a.cache, Learner)
        /\ UNION a.facts.completions = SakaiCompletions(a.cache, Learner)
    BY <2>3
  <2> QED
    BY <2>4, OneRowAgrees
<1>3. a.kind = "canvas" =>
        /\ \A s \in UNION a.facts.grades : \E b \in a.seen : s \in CanvasGrades(Course, b.enrollments, Learner)
        /\ \A s \in UNION a.facts.submissions :
              \E b \in a.seen : s \in CanvasSubmissions(Course, b.submissions, Learner, Assignment)
  BY <1>1 DEF FactsFit
<1> QED
  BY <1>1, <1>2, <1>3

\* What is stored of the LMS still holds there, and what is read over it belongs together,
\* whatever requests overlap and are lost (updateTenantCanvasGradebookIntegrationTokens,
\* loadRuleFacts, the gradebook providers).
THEOREM ConnectionStaysSound == ConnSpec => []ConnectionHolds
<1>1. LmsInv => EndIsEarly
  BY LmsTyped DEF LmsInv, EndIsEarly, RowFits
<1>2. LmsInv => ConnectionHolds
  BY <1>1, ReadsFollow, FactsFollow DEF ConnectionHolds, LmsInv
<1> QED
  BY <1>2, ConnectionInvariance, PTL
=============================================================================
