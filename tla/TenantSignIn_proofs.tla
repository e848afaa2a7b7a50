-------------------------- MODULE TenantSignIn_proofs --------------------------
(* Proofs that a tenant's providers and policy are what administrators made  *)
(* them, and that the local sign-in admits nobody without a second factor,   *)
(* for any number of administrators, browsers, providers and emergency       *)
(* accounts, whatever requests overlap and are lost.                         *)
EXTENDS TenantSignIn, FiniteSetTheorems, TLAPS

(* The inductive invariant, in named parts.                                  *)

PolicyAsks == [op: {"policy"}, policy: Policies]
CreateAsks == [op: {"create"}, provider: Providers, enabled: BOOLEAN, default: BOOLEAN,
               alone: BOOLEAN, asked: Nat]
UpdateAsks == [op: {"update"}, provider: Providers, enabled: BOOLEAN, default: BOOLEAN]
PolicyHolders == [op: {"create"}, provider: Providers, alone: BOOLEAN, asked: Nat,
                  policy: Policies]
UserAsks(ops) == [op: ops, user: Emergency]
CodeAsks == [op: {"verify"}, user: Emergency, trust: BOOLEAN, unlisted: BOOLEAN]

\* What an administrator's request holds at each of its places, and a browser's.
AdminFits(s, h) ==
    \/ s = "idle" /\ h = NothingHeld
    \/ s \in {"check", "upsert"} /\ h \in PolicyAsks
    \/ s = "clear" /\ h \in CreateAsks \cup UpdateAsks /\ h.default
    \/ s = "write" /\ h \in CreateAsks \cup UpdateAsks
    \/ s \in {"reread", "readPolicy"} /\ h \in CreateAsks
    \/ s = "upsert" /\ h \in PolicyHolders /\ h.policy.default = h.provider
    \/ s \in {"account", "lookup", "mail"} /\ h \in UserAsks({"reset"})

BrowserFits(s, h) ==
    \/ s = "idle" /\ h = NothingHeld
    \/ s = "lookup" /\ h \in UserAsks({"reset", "signIn", "enroll"})
    \/ s = "mail" /\ h \in UserAsks({"reset"})
    \/ s = "setPassword" /\ h \in UserAsks({"setPassword"})
    \/ s = "credentials" /\ h \in UserAsks({"signIn"})
    \/ s = "enable" /\ h \in UserAsks({"enroll"})
    \/ s \in {"verify", "listed"} /\ h \in CodeAsks
    \/ s = "markUsed" /\ h \in UserAsks({"signIn"}) \cup CodeAsks

RequestsFit ==
    /\ stage = [x \in Actors |-> stage[x]] /\ held = [x \in Actors |-> held[x]]
    /\ \A a \in Admins : AdminFits(stage[a], held[a])
    /\ \A b \in Browsers : BrowserFits(stage[b], held[b])

OneFlag == \A p, q \in Flagged : p = q

\* A creation that holds a policy holds the one that was put last, but for the default.
HeldAsPut ==
    \A a \in Admins : ~stale /\ stage[a] = "upsert" /\ held[a].op = "create" =>
        /\ held[a].policy.mode = put.mode
        /\ held[a].policy.breakGlass = put.breakGlass
        /\ held[a].policy.mfa = put.mfa

\* A creation that was asked for alone, and last, is still the only request.
StillAlone ==
    \A a \in Admins : held[a].op = "create" =>
        /\ held[a].asked <= changes
        /\ held[a].alone /\ held[a].asked = changes =>
               \A b \in Admins \ {a} : stage[b] = "idle"

ChosenHolds ==
    chosen # NoProvider =>
        policy.default = chosen /\ \A a \in Admins : stage[a] = "idle"

AdminHolds ==
    /\ OneFlag
    /\ DefaultIsKept
    /\ PolicyAsPut
    /\ HeldAsPut
    /\ StillAlone
    /\ ChosenHolds

\* A verified code is one of a user with a second factor, and was so while the user was
\* listed if the user is when that is looked up.
CodesHold ==
    \A b \in Browsers :
        /\ stage[b] \in {"listed", "markUsed"} => credentials[held[b].user].factor = "on"
        /\ stage[b] = "listed" /\ Listed(held[b].user) => ~held[b].unlisted
        /\ stage[b] = "markUsed" /\ held[b].op = "verify" => ~held[b].unlisted

LocalHolds == SecondFactorFirst /\ CodesHold

\* Admitted, and not for having lost the mark of a pending set-up.
AdmittedMarked(b) == Admitted(b) /\ ~browsers[b].lapsed

IInv == SignInTypeOK /\ RequestsFit /\ AdminHolds /\ LocalHolds

-----------------------------------------------------------------------------
(* What requests hold, and what a step of one leaves to the others.          *)

LEMMA AdminAt ==
    ASSUME NEW s, NEW h, AdminFits(s, h)
    PROVE  /\ s \in Stages /\ (s = "idle" <=> h = NothingHeld)
           /\ s = "check" => h \in PolicyAsks
           /\ s = "clear" => h \in CreateAsks \cup UpdateAsks /\ h.default
           /\ s = "write" => h \in CreateAsks \cup UpdateAsks
           /\ s \in {"reread", "readPolicy"} => h \in CreateAsks
           /\ s = "upsert" => h \in PolicyAsks \cup PolicyHolders
           /\ s \in {"account", "lookup", "mail"} => h \in UserAsks({"reset"})
           /\ s \notin {"setPassword", "credentials", "enable", "verify", "listed", "markUsed"}
  BY DEF AdminFits, Stages, NothingHeld, PolicyAsks, CreateAsks, UpdateAsks, PolicyHolders, UserAsks

LEMMA BrowserAt ==
    ASSUME NEW s, NEW h, BrowserFits(s, h)
    PROVE  /\ s \in Stages /\ (s = "idle" <=> h = NothingHeld)
           /\ s = "lookup" => h \in UserAsks({"reset", "signIn", "enroll"})
           /\ s = "mail" => h \in UserAsks({"reset"})
           /\ s = "setPassword" => h \in UserAsks({"setPassword"})
           /\ s = "credentials" => h \in UserAsks({"signIn"})
           /\ s = "enable" => h \in UserAsks({"enroll"})
           /\ s \in {"verify", "listed"} => h \in CodeAsks
           /\ s = "markUsed" => h \in UserAsks({"signIn"}) \cup CodeAsks
           /\ s \notin {"check", "upsert", "clear", "write", "reread", "readPolicy", "account"}
  BY DEF BrowserFits, Stages, NothingHeld, UserAsks, CodeAsks

Fits(x, s, h) ==
    /\ x \in Admins => AdminFits(s, h)
    /\ x \in Browsers => BrowserFits(s, h)

LEMMA NothingFits == \A x : Fits(x, "idle", NothingHeld)
  BY DEF Fits, AdminFits, BrowserFits

\* The rows, without the requests.
RowsTyped ==
    /\ policy \in Policies /\ put \in Policies
    /\ providers \in [Providers -> [status: {"absent", "present", "deleted"},
                                    enabled: BOOLEAN, isDefault: BOOLEAN]]
    /\ accounts \in [Emergency -> {"none", "active", "revoked"}]
    /\ credentials \in [Emergency -> [password: BOOLEAN, factor: {"off", "begun", "on"}]]
    /\ mailed \subseteq Emergency
    /\ browsers \in [Browsers -> [session: Emergency \cup {NoUser}, pending: BOOLEAN,
            awaiting: Emergency \cup {NoUser}, trusted: SUBSET Emergency, unlisted: BOOLEAN,
            lapsed: BOOLEAN]]
    /\ \A p \in Providers : ~Present(p) => ~providers[p].enabled /\ p \notin Flagged
    /\ changes \in 0..MaxChanges /\ cut \in 0..MaxCut
    /\ stale \in BOOLEAN /\ flagged \in BOOLEAN /\ chosen \in Providers \cup {NoProvider}

LEMMA TypesMeet ==
    ASSUME RowsTyped, RequestsFit
    PROVE  SignInTypeOK
<1>1. \A x \in Actors : stage[x] \in Stages /\ (stage[x] = "idle" <=> held[x] = NothingHeld)
  BY AdminAt, BrowserAt DEF RequestsFit, Actors
<1>2. stage \in [Actors -> Stages]
  BY <1>1 DEF RequestsFit
<1> QED
  BY <1>1, <1>2 DEF RowsTyped, SignInTypeOK

LEMMA TypesHold == IInv => RowsTyped
  BY DEF IInv, SignInTypeOK, RowsTyped

Moves(x, s, h) ==
    /\ stage'[x] = s /\ held'[x] = h
    /\ \A y \in Actors \ {x} : stage'[y] = stage[y] /\ held'[y] = held[y]

LEMMA GoMoves ==
    ASSUME RequestsFit, NEW x \in Actors, NEW s, NEW h, Go(x, s, h), Fits(x, s, h)
    PROVE  Moves(x, s, h) /\ RequestsFit'
<1>1. Moves(x, s, h)
  BY DEF RequestsFit, Go, Moves
<1>2. stage' = [y \in Actors |-> stage'[y]] /\ held' = [y \in Actors |-> held'[y]]
  BY DEF RequestsFit, Go
<1>3. \A a \in Admins : AdminFits(stage'[a], held'[a])
  BY <1>1 DEF RequestsFit, Moves, Fits, Actors
<1>4. \A b \in Browsers : BrowserFits(stage'[b], held'[b])
  BY <1>1 DEF RequestsFit, Moves, Fits, Actors
<1> QED
  BY <1>1, <1>2, <1>3, <1>4 DEF RequestsFit

\* The types after a step: those of the rows, and of the request that moved.
LEMMA TypesAfter == RowsTyped' /\ RequestsFit' => SignInTypeOK'
<1>1. RowsTyped /\ RequestsFit => SignInTypeOK
  BY TypesMeet
<1>2. (RowsTyped /\ RequestsFit => SignInTypeOK)'
  BY <1>1, PTL
<1> QED
  BY <1>2

\* What administrators' requests and their tables satisfy is not the browsers' business.
LEMMA BrowsersLeaveAdmins ==
    ASSUME IInv, adminVars' = adminVars,
           \A a \in Admins : stage'[a] = stage[a] /\ held'[a] = held[a]
    PROVE  AdminHolds'
<1>1. /\ policy' = policy /\ providers' = providers /\ changes' = changes /\ put' = put
      /\ stale' = stale /\ flagged' = flagged /\ chosen' = chosen /\ Flagged' = Flagged
  BY DEF adminVars, Flagged
<1>2. OneFlag' /\ DefaultIsKept' /\ PolicyAsPut'
  BY <1>1 DEF IInv, AdminHolds, OneFlag, DefaultIsKept, PolicyAsPut
<1>3. HeldAsPut' /\ StillAlone' /\ ChosenHolds'
  BY <1>1 DEF IInv, AdminHolds, HeldAsPut, StillAlone, ChosenHolds
<1> QED
  BY <1>2, <1>3 DEF AdminHolds

\* ... nor the other way round, unless accounts change.
LEMMA AdminsLeaveBrowsers ==
    ASSUME IInv, localVars' = localVars, accounts' = accounts,
           \A b \in Browsers : stage'[b] = stage[b] /\ held'[b] = held[b]
    PROVE  LocalHolds'
<1>1. credentials' = credentials /\ browsers' = browsers
  BY DEF localVars
<1> QED
  BY <1>1 DEF IInv, LocalHolds, SecondFactorFirst, Admitted, CodesHold, Listed

LEMMA Apart == \A a \in Admins, b \in Browsers : a # b /\ a \in Actors /\ b \in Actors
  BY SignInAssumption DEF Actors

\* A step of an administrator's request that leaves the accounts.
LEMMA AdminMove ==
    ASSUME IInv, NEW a \in Admins, NEW s, NEW h, Go(a, s, h), AdminFits(s, h),
           localVars' = localVars, accounts' = accounts, RowsTyped',
           Moves(a, s, h) => AdminHolds'
    PROVE  IInv'
<1>1. a \in Actors /\ Fits(a, s, h)
  BY Apart DEF Actors, Fits
<1>2. Moves(a, s, h) /\ RequestsFit'
  BY <1>1, GoMoves DEF IInv
<1>3. LocalHolds'
  BY <1>2, Apart, AdminsLeaveBrowsers DEF Moves
<1> QED
  BY <1>2, <1>3, TypesAfter DEF IInv

\* A step of a browser's request.
LEMMA BrowserMove ==
    ASSUME IInv, NEW b \in Browsers, NEW s, NEW h, Go(b, s, h), BrowserFits(s, h),
           adminVars' = adminVars, RowsTyped', Moves(b, s, h) => LocalHolds'
    PROVE  IInv'
<1>1. b \in Actors /\ Fits(b, s, h)
  BY Apart DEF Actors, Fits
<1>2. Moves(b, s, h) /\ RequestsFit'
  BY <1>1, GoMoves DEF IInv
<1>3. AdminHolds'
  BY <1>2, Apart, BrowsersLeaveAdmins DEF Moves
<1> QED
  BY <1>2, <1>3, TypesAfter DEF IInv

-----------------------------------------------------------------------------
(* Administrators' requests.                                                 *)

LEMMA RowsTypedSame ==
    ASSUME RowsTyped, accounts' = accounts, localVars' = localVars,
           policy' = policy, providers' = providers, put' = put, stale' = stale, flagged' = flagged,
           changes' \in 0..MaxChanges, cut' \in 0..MaxCut, chosen' \in Providers \cup {NoProvider}
    PROVE  RowsTyped'
  BY DEF RowsTyped, localVars, Present, Flagged

LEMMA CreationAsked ==
    ASSUME IInv
    PROVE  /\ changes \in Nat /\ changes + 1 \in Nat
           /\ \A c \in Admins : held[c].op = "create" =>
                  /\ held[c].asked \in Nat /\ held[c].asked <= changes + 1
                  /\ held[c].asked # changes + 1
<1>1. changes \in Nat
  BY TypesHold DEF RowsTyped
<1>2. ASSUME NEW c \in Admins, held[c].op = "create"
      PROVE  held[c].asked \in Nat /\ held[c].asked <= changes
  <2>1. AdminFits(stage[c], held[c])
    BY DEF IInv, RequestsFit
  <2>2. held[c].asked \in Nat
    BY <1>2, <2>1 DEF AdminFits, NothingHeld, PolicyAsks, CreateAsks, UpdateAsks,
                      PolicyHolders, UserAsks
  <2> QED
    BY <1>2, <2>2 DEF IInv, AdminHolds, StillAlone
<1> QED
  BY <1>1, <1>2

LEMMA AskInv ==
    ASSUME IInv, NEW a \in Admins, NEW s, NEW h, Ask(a, s, h), AdminFits(s, h),
           UNCHANGED <<policy, providers, put, stale, flagged, accounts, localVars, cut>>,
           h.op = "create" => /\ h.asked = changes + 1 /\ s # "upsert"
                              /\ h.alone => \A b \in Admins : stage[b] = "idle",
           s = "write" => ~h.default
    PROVE  IInv'
<1>1. /\ Go(a, s, h) /\ stage[a] = "idle" /\ changes < MaxChanges
      /\ changes' = changes + 1 /\ chosen' = NoProvider
  BY DEF Ask
<1>2. RowsTyped /\ changes \in Nat /\ changes' \in 0..MaxChanges
  BY <1>1, TypesHold, SignInAssumption DEF RowsTyped
<1>3. RowsTyped'
  BY <1>1, <1>2, RowsTypedSame DEF RowsTyped
<1>4. ASSUME Moves(a, s, h) PROVE AdminHolds'
  <2>1. /\ stage'[a] = s /\ held'[a] = h
        /\ \A c \in Admins \ {a} : stage'[c] = stage[c] /\ held'[c] = held[c]
    BY <1>4, Apart DEF Moves, Actors
  <2>2. OneFlag' /\ PolicyAsPut' /\ ChosenHolds'
    BY <1>1 DEF IInv, AdminHolds, OneFlag, Flagged, PolicyAsPut, ChosenHolds
  <2>3. DefaultIsKept'
    BY <1>1, <2>1 DEF IInv, AdminHolds, DefaultIsKept, Flagged
  <2>4. HeldAsPut'
    BY <2>1 DEF IInv, AdminHolds, HeldAsPut
  <2>5. StillAlone'
    <3>1. ASSUME NEW c \in Admins, held'[c].op = "create"
          PROVE  /\ held'[c].asked <= changes'
                 /\ held'[c].alone /\ held'[c].asked = changes' =>
                        \A b \in Admins \ {c} : stage'[b] = "idle"
      <4>1. CASE c = a
        BY <1>1, <1>2, <2>1, <3>1, <4>1
      <4>2. CASE c # a
        <5>1. held[c].op = "create" /\ held'[c] = held[c]
          BY <2>1, <3>1, <4>2
        <5>2. held[c].asked <= changes + 1 /\ held[c].asked # changes + 1
          BY <5>1, CreationAsked
        <5> QED
          BY <1>1, <1>2, <5>1, <5>2
      <4> QED
        BY <4>1, <4>2
    <3> QED
      BY <3>1 DEF StillAlone
  <2> QED
    BY <2>2, <2>3, <2>4, <2>5 DEF AdminHolds
<1> QED
  BY <1>1, <1>3, <1>4, AdminMove

\* A request's step that leaves the tables and does not come from a write or go to one.
LEMMA QuietInv ==
    ASSUME IInv, NEW a \in Admins, NEW s, NEW h, Go(a, s, h), AdminFits(s, h),
           UNCHANGED <<adminVars, accounts, localVars>>, cut' \in 0..MaxCut,
           stage[a] \notin {"idle", "write"}, s # "write",
           h.op = "create" => /\ held[a].op = "create" /\ h.asked = held[a].asked
                              /\ h.alone = held[a].alone,
           ~stale /\ s = "upsert" /\ h.op = "create" =>
               /\ h.policy.mode = put.mode /\ h.policy.breakGlass = put.breakGlass
               /\ h.policy.mfa = put.mfa
    PROVE  IInv'
<1>1. /\ policy' = policy /\ providers' = providers /\ changes' = changes /\ put' = put
      /\ stale' = stale /\ flagged' = flagged /\ chosen' = chosen /\ Flagged' = Flagged
  BY DEF adminVars, Flagged
<1>2. RowsTyped'
  BY <1>1, TypesHold, RowsTypedSame DEF RowsTyped
<1>3. ASSUME Moves(a, s, h) PROVE AdminHolds'
  <2>1. /\ stage'[a] = s /\ held'[a] = h
        /\ \A c \in Admins \ {a} : stage'[c] = stage[c] /\ held'[c] = held[c]
    BY <1>3, Apart DEF Moves, Actors
  <2>2. OneFlag' /\ PolicyAsPut' /\ ChosenHolds'
    BY <1>1 DEF IInv, AdminHolds, OneFlag, PolicyAsPut, ChosenHolds
  <2>3. DefaultIsKept'
    BY <1>1, <2>1 DEF IInv, AdminHolds, DefaultIsKept
  <2>4. HeldAsPut'
    BY <1>1, <2>1 DEF IInv, AdminHolds, HeldAsPut
  <2>5. StillAlone'
    BY <1>1, <2>1 DEF IInv, AdminHolds, StillAlone
  <2> QED
    BY <2>2, <2>3, <2>4, <2>5 DEF AdminHolds
<1> QED
  BY <1>2, <1>3, AdminMove

LEMMA NothingQuiet ==
    AdminFits("idle", NothingHeld) /\ NothingHeld.op = "none"
  BY DEF AdminFits, NothingHeld

LEMMA AskPolicyInv ==
    ASSUME IInv, NEW a \in Admins, NEW new \in Asked, AskPolicy(a, new)
    PROVE  IInv'
<1>1. PICK s, h : /\ s = IF new.default = NoProvider THEN "upsert" ELSE "check"
                  /\ h = [op |-> "policy", policy |-> new]
  OBVIOUS
<1>2. h \in PolicyAsks /\ h.op = "policy" /\ s \in {"check", "upsert"}
  BY <1>1, AskedAssumption DEF PolicyAsks
<1>3. AdminFits(s, h)
  BY <1>2 DEF AdminFits
<1> QED
  BY <1>1, <1>2, <1>3, AskInv DEF AskPolicy

LEMMA AskCreateInv ==
    ASSUME IInv, NEW a \in Admins, NEW p \in Providers, NEW e \in BOOLEAN, NEW d \in BOOLEAN,
           AskCreate(a, p, e, d)
    PROVE  IInv'
<1>1. PICK s, h : /\ s = IF d THEN "clear" ELSE "write"
                  /\ h = [op |-> "create", provider |-> p, enabled |-> e, default |-> d,
                          alone |-> \A b \in Admins : stage[b] = "idle", asked |-> changes + 1]
  OBVIOUS
<1>2. changes + 1 \in Nat
  BY TypesHold DEF RowsTyped
<1>3. /\ h \in CreateAsks /\ h.op = "create" /\ h.default = d /\ h.asked = changes + 1
      /\ h.alone = \A b \in Admins : stage[b] = "idle"
  BY <1>1, <1>2 DEF CreateAsks
<1>4. AdminFits(s, h) /\ s # "upsert" /\ (s = "write" => ~d)
  BY <1>1, <1>3 DEF AdminFits
<1> QED
  BY <1>1, <1>3, <1>4, AskInv DEF AskCreate

LEMMA AskUpdateInv ==
    ASSUME IInv, NEW a \in Admins, NEW p \in Providers, NEW e \in BOOLEAN, NEW d \in BOOLEAN,
           AskUpdate(a, p, e, d)
    PROVE  IInv'
<1>1. PICK s, h : /\ s = IF d THEN "clear" ELSE "write"
                  /\ h = [op |-> "update", provider |-> p, enabled |-> e, default |-> d]
  OBVIOUS
<1>2. h \in UpdateAsks /\ h.op = "update" /\ h.default = d
  BY <1>1 DEF UpdateAsks
<1>3. AdminFits(s, h) /\ (s = "write" => ~d)
  BY <1>1, <1>2 DEF AdminFits
<1> QED
  BY <1>1, <1>2, <1>3, AskInv DEF AskUpdate

LEMMA AskAccountInv ==
    ASSUME IInv, NEW a \in Admins, NEW u \in Emergency, AskAccount(a, u)
    PROVE  IInv'
<1>1. PICK h : h = [op |-> "reset", user |-> u]
  OBVIOUS
<1>2. h \in UserAsks({"reset"}) /\ h.op = "reset"
  BY <1>1 DEF UserAsks
<1>3. AdminFits("account", h)
  BY <1>2 DEF AdminFits
<1> QED
  BY <1>1, <1>2, <1>3, AskInv DEF AskAccount

\* A request that ends, or stays at another place with what it held.
LEMMA EndQuietInv ==
    ASSUME IInv, NEW a \in Admins, Done(a), UNCHANGED <<adminVars, accounts, localVars>>,
           cut' \in 0..MaxCut, stage[a] \notin {"idle", "write"}
    PROVE  IInv'
  BY NothingQuiet, QuietInv DEF Done

LEMMA CheckDefaultInv ==
    ASSUME IInv, NEW a \in Admins, CheckDefault(a)
    PROVE  IInv'
<1>1. UNCHANGED <<adminVars, accounts, localVars>> /\ cut' \in 0..MaxCut /\ stage[a] = "check"
  BY TypesHold DEF CheckDefault, RowsTyped
<1>2. CASE Done(a)
  BY <1>1, <1>2, EndQuietInv
<1>3. CASE Stay(a, "upsert")
  <2>1. PICK h : h = held[a]
    OBVIOUS
  <2>2. h \in PolicyAsks /\ h.op = "policy"
    BY <1>1, <2>1, AdminAt DEF IInv, RequestsFit, PolicyAsks
  <2>3. AdminFits("upsert", h)
    BY <2>2 DEF AdminFits
  <2> QED
    BY <1>1, <1>3, <2>1, <2>2, <2>3, QuietInv DEF Stay
<1> QED
  BY <1>2, <1>3 DEF CheckDefault

LEMMA RereadProviderInv ==
    ASSUME IInv, NEW a \in Admins, RereadProvider(a)
    PROVE  IInv'
<1>1. UNCHANGED <<adminVars, accounts, localVars>> /\ cut' \in 0..MaxCut /\ stage[a] = "reread"
  BY TypesHold DEF RereadProvider, RowsTyped
<1>2. CASE Done(a)
  BY <1>1, <1>2, EndQuietInv
<1>3. CASE Stay(a, "readPolicy")
  <2>1. PICK h : h = held[a]
    OBVIOUS
  <2>2. h \in CreateAsks /\ h.op = "create"
    BY <1>1, <2>1, AdminAt DEF IInv, RequestsFit, CreateAsks
  <2>3. AdminFits("readPolicy", h)
    BY <2>2 DEF AdminFits
  <2> QED
    BY <1>1, <1>3, <2>1, <2>2, <2>3, QuietInv DEF Stay
<1> QED
  BY <1>2, <1>3 DEF RereadProvider

LEMMA ReadPolicyInv ==
    ASSUME IInv, NEW a \in Admins, ReadPolicy(a)
    PROVE  IInv'
<1>1. UNCHANGED <<adminVars, accounts, localVars>> /\ cut' \in 0..MaxCut /\ stage[a] = "readPolicy"
  BY TypesHold DEF ReadPolicy, RowsTyped
<1>2. PICK g, q : g = held[a] /\ q = PolicyFor(held[a].provider)
  OBVIOUS
<1>3. /\ g \in CreateAsks /\ g.op = "create" /\ g.provider \in Providers
      /\ g.alone \in BOOLEAN /\ g.asked \in Nat
  BY <1>1, <1>2, AdminAt DEF IInv, RequestsFit, CreateAsks
<1>4. /\ q \in Policies /\ q.mode = policy.mode /\ q.breakGlass = policy.breakGlass
      /\ q.mfa = policy.mfa /\ q.default = g.provider
  BY <1>2, <1>3, TypesHold DEF PolicyFor, RowsTyped, Policies
<1>5. PICK h : h = [op |-> "create", provider |-> g.provider, alone |-> g.alone,
                    asked |-> g.asked, policy |-> q]
  OBVIOUS
<1>6. /\ h \in PolicyHolders /\ h.op = "create" /\ h.alone = g.alone /\ h.asked = g.asked
      /\ h.policy = q /\ h.provider = g.provider
  BY <1>3, <1>4, <1>5 DEF PolicyHolders
<1>7. AdminFits("upsert", h)
  BY <1>4, <1>6 DEF AdminFits
<1>8. Go(a, "upsert", h)
  BY <1>2, <1>5 DEF ReadPolicy
<1>9. ~stale => /\ policy.mode = put.mode /\ policy.breakGlass = put.breakGlass
                /\ policy.mfa = put.mfa
  BY DEF IInv, AdminHolds, PolicyAsPut
<1> QED
  BY <1>1, <1>2, <1>3, <1>4, <1>6, <1>7, <1>8, <1>9, QuietInv

LEMMA UpsertPolicyInv ==
    ASSUME IInv, NEW a \in Admins, UpsertPolicy(a)
    PROVE  IInv'
<1>1. /\ UNCHANGED <<providers, flagged, changes, accounts, localVars, cut>>
      /\ stage[a] = "upsert" /\ Done(a) /\ policy' = held[a].policy /\ Flagged' = Flagged
  BY DEF UpsertPolicy, Flagged
<1>2. PICK h : h = held[a]
  OBVIOUS
<1>3. h \in PolicyAsks \cup PolicyHolders
  BY <1>1, <1>2, AdminAt DEF IInv, RequestsFit
<1>4. /\ h.policy \in Policies /\ h.op \in {"policy", "create"}
      /\ h.op = "create" => h \in PolicyHolders /\ h.policy.default = h.provider
  BY <1>1, <1>2, <1>3 DEF PolicyAsks, PolicyHolders, IInv, RequestsFit, AdminFits
<1>5. chosen = NoProvider
  BY <1>1 DEF IInv, AdminHolds, ChosenHolds
<1>6. CASE h.op = "policy"
  <2>1. put' = h.policy /\ stale' = PolicyHeld /\ chosen' = chosen
    BY <1>2, <1>6 DEF UpsertPolicy
  <2>2. RowsTyped'
    BY <1>1, <1>2, <1>4, <2>1, TypesHold DEF RowsTyped, localVars, Present, Flagged, PolicyHeld
  <2>3. ASSUME Moves(a, "idle", NothingHeld) PROVE AdminHolds'
    <3>1. /\ stage'[a] = "idle" /\ held'[a] = NothingHeld /\ held'[a].op = "none"
          /\ \A c \in Admins \ {a} : stage'[c] = stage[c] /\ held'[c] = held[c]
      BY <2>3, Apart, NothingQuiet DEF Moves, Actors
    <3>2. OneFlag' /\ PolicyAsPut' /\ ChosenHolds'
      BY <1>1, <1>2, <1>5, <2>1 DEF IInv, AdminHolds, OneFlag, PolicyAsPut, ChosenHolds
    <3>3. DefaultIsKept'
      BY <1>1, <3>1 DEF IInv, AdminHolds, DefaultIsKept
    <3>4. HeldAsPut'
      BY <2>1, <3>1 DEF HeldAsPut, PolicyHeld
    <3>5. StillAlone'
      BY <1>1, <3>1 DEF IInv, AdminHolds, StillAlone
    <3> QED
      BY <3>2, <3>3, <3>4, <3>5 DEF AdminHolds
  <2> QED
    BY <1>1, <2>2, <2>3, NothingQuiet, AdminMove DEF Done
<1>7. CASE h.op = "create"
  <2>1. /\ put' = put /\ stale' = stale /\ h.provider \in Providers
        /\ chosen' = IF h.alone /\ h.asked = changes THEN h.provider ELSE chosen
    BY <1>2, <1>4, <1>7 DEF UpsertPolicy, PolicyHolders
  <2>2. RowsTyped'
    BY <1>1, <1>2, <1>4, <2>1, TypesHold DEF RowsTyped, localVars, Present, Flagged
  <2>3. ASSUME Moves(a, "idle", NothingHeld) PROVE AdminHolds'
    <3>1. /\ stage'[a] = "idle" /\ held'[a] = NothingHeld /\ held'[a].op = "none"
          /\ \A c \in Admins \ {a} : stage'[c] = stage[c] /\ held'[c] = held[c]
      BY <2>3, Apart, NothingQuiet DEF Moves, Actors
    <3>2. OneFlag'
      BY <1>1 DEF IInv, AdminHolds, OneFlag
    <3>3. DefaultIsKept'
      BY <1>1, <3>1 DEF IInv, AdminHolds, DefaultIsKept
    <3>4. PolicyAsPut' /\ HeldAsPut'
      BY <1>1, <1>2, <1>7, <2>1, <3>1 DEF IInv, AdminHolds, HeldAsPut, PolicyAsPut
    <3>5. StillAlone'
      BY <1>1, <3>1 DEF IInv, AdminHolds, StillAlone
    <3>6. ChosenHolds'
      <4>1. ASSUME h.alone, h.asked = changes PROVE \A b \in Admins : stage'[b] = "idle"
        BY <1>2, <1>7, <3>1, <4>1 DEF IInv, AdminHolds, StillAlone
      <4> QED
        BY <1>1, <1>2, <1>4, <1>5, <1>7, <2>1, <4>1 DEF ChosenHolds
    <3> QED
      BY <3>2, <3>3, <3>4, <3>5, <3>6 DEF AdminHolds
  <2> QED
    BY <1>1, <2>2, <2>3, NothingQuiet, AdminMove DEF Done
<1> QED
  BY <1>4, <1>6, <1>7

ProviderRow == [status: {"absent", "present", "deleted"}, enabled: BOOLEAN, isDefault: BOOLEAN]

\* Steps of administrators on the providers' rows: everything about policies is as it was.
LEMMA ProvidersMoved ==
    ASSUME IInv, NEW a \in Admins, NEW s, NEW h, Moves(a, s, h),
           UNCHANGED <<policy, changes, put, stale, chosen>>,
           stage[a] # "idle", s # "upsert",
           h.op = "create" => /\ held[a].op = "create" /\ h.asked = held[a].asked
                              /\ h.alone = held[a].alone,
           OneFlag', DefaultIsKept'
    PROVE  AdminHolds'
<1>1. /\ stage'[a] = s /\ held'[a] = h
      /\ \A c \in Admins \ {a} : stage'[c] = stage[c] /\ held'[c] = held[c]
  BY Apart DEF Moves, Actors
<1>2. PolicyAsPut' /\ HeldAsPut' /\ ChosenHolds'
  BY <1>1 DEF IInv, AdminHolds, HeldAsPut, PolicyAsPut, ChosenHolds
<1>3. StillAlone'
  BY <1>1 DEF IInv, AdminHolds, StillAlone
<1> QED
  BY <1>2, <1>3 DEF AdminHolds

LEMMA ClearDefaultInv ==
    ASSUME IInv, NEW a \in Admins, ClearDefault(a)
    PROVE  IInv'
<1>1. /\ UNCHANGED <<policy, changes, put, stale, flagged, chosen, accounts, localVars, cut>>
      /\ stage[a] = "clear" /\ Stay(a, "write")
      /\ providers' = [p \in Providers |-> ClearedBy(a, p)]
  BY DEF ClearDefault
<1>2. PICK h : h = held[a]
  OBVIOUS
<1>3. h \in CreateAsks \cup UpdateAsks /\ h.default
  BY <1>1, <1>2, AdminAt DEF IInv, RequestsFit
<1>4. AdminFits("write", h)
  BY <1>3 DEF AdminFits
<1>5. Go(a, "write", h)
  BY <1>1, <1>2 DEF Stay
<1>6. ASSUME NEW p \in Providers
      PROVE  /\ providers'[p] \in ProviderRow /\ providers'[p].status = providers[p].status
             /\ providers'[p].enabled = providers[p].enabled
             /\ providers'[p].isDefault => providers[p].isDefault
  <2>1. providers[p] \in ProviderRow
    BY TypesHold DEF RowsTyped, ProviderRow
  <2> QED
    BY <1>1, <2>1 DEF ClearedBy, ProviderRow
<1>7. RowsTyped'
  <2>1. providers' \in [Providers -> ProviderRow]
    BY <1>1, <1>6
  <2>2. \A p \in Providers : Present(p)' = Present(p) /\ (p \in Flagged' => p \in Flagged)
    BY <1>6 DEF Present, Flagged
  <2> QED
    BY <1>1, <1>6, <2>1, <2>2, TypesHold DEF RowsTyped, localVars, ProviderRow
<1>8. ASSUME Moves(a, "write", h) PROVE AdminHolds'
  <2>1. OneFlag'
    BY <1>6 DEF IInv, AdminHolds, OneFlag, Flagged
  <2>2. DefaultIsKept'
    BY <1>3, <1>8 DEF DefaultIsKept, Moves
  <2> QED
    BY <1>1, <1>2, <1>8, <2>1, <2>2, ProvidersMoved
<1> QED
  BY <1>1, <1>4, <1>5, <1>7, <1>8, AdminMove

\* No default is the tenant's but by the index idx_tenant_auth_providers_default_per_tenant.
LEMMA WriteProviderInv ==
    ASSUME IInv, NEW a \in Admins, WriteProvider(a)
    PROVE  IInv'
<1>1. PICK h, p, exists, conflict :
        /\ h = held[a] /\ p = held[a].provider
        /\ exists = (held[a].op = "create" \/ Present(p))
        /\ conflict = (held[a].default /\ ~DefaultFree(p))
  OBVIOUS
<1>2. /\ UNCHANGED <<policy, changes, put, stale, chosen, accounts, localVars, cut>>
      /\ stage[a] = "write"
      /\ providers' = IF exists /\ ~conflict THEN [providers EXCEPT ![p] = Written(a)]
                      ELSE providers
      /\ flagged' = IF conflict THEN flagged
                    ELSE IF h.default THEN exists
                    ELSE flagged /\ ~providers[p].isDefault
      /\ IF conflict \/ ~(h.op = "create" \/ RowsWritten(1, FALSE) > 0)
         THEN Done(a) ELSE Stay(a, "reread")
  BY <1>1 DEF WriteProvider
<1>3. /\ h \in CreateAsks \cup UpdateAsks /\ p \in Providers
      /\ h.enabled \in BOOLEAN /\ h.default \in BOOLEAN
      /\ h.op = "create" => h \in CreateAsks
      /\ p = h.provider
  BY <1>1, <1>2, AdminAt DEF IInv, RequestsFit, CreateAsks, UpdateAsks
<1>4. PICK w : w = Written(a)
  OBVIOUS
<1>5. /\ w \in ProviderRow /\ w.status = "present" /\ w.enabled = h.enabled
      /\ w.isDefault = h.default
  BY <1>1, <1>3, <1>4 DEF Written, ProviderRow
<1>6. /\ providers \in [Providers -> ProviderRow] /\ RowsTyped
  BY TypesHold DEF RowsTyped, ProviderRow
<1>7. RowsTyped'
  <2>1. providers' \in [Providers -> ProviderRow]
    BY <1>2, <1>4, <1>5, <1>6
  <2>2. \A q \in Providers : ~Present(q)' => ~providers'[q].enabled /\ q \notin Flagged'
    BY <1>2, <1>4, <1>5, <1>6 DEF RowsTyped, Present, Flagged
  <2>3. flagged' \in BOOLEAN
    <3>1. flagged \in BOOLEAN
      BY <1>6 DEF RowsTyped
    <3>2. exists \in BOOLEAN /\ (flagged /\ ~providers[p].isDefault) \in BOOLEAN
      BY <1>1
    <3> QED
      BY <1>2, <3>1, <3>2
  <2> QED
    BY <1>2, <1>6, <2>1, <2>2, <2>3 DEF RowsTyped, localVars, ProviderRow
<1>8. ASSUME ~conflict, exists
      PROVE  Flagged' = IF h.default THEN Flagged \cup {p} ELSE Flagged \ {p}
  BY <1>2, <1>3, <1>4, <1>5, <1>6, <1>8 DEF Flagged
<1>9. ASSUME conflict \/ ~exists
      PROVE  Flagged' = Flagged
  BY <1>2, <1>9 DEF Flagged
<1>10. OneFlag'
  <2>1. CASE conflict \/ ~exists
    BY <1>9, <2>1 DEF IInv, AdminHolds, OneFlag
  <2>2. CASE ~conflict /\ exists
    <3>1. h.default => Flagged \subseteq {p}
      BY <1>1, <2>2 DEF DefaultFree
    <3> QED
      BY <1>8, <2>2, <3>1 DEF IInv, AdminHolds, OneFlag
  <2> QED
    BY <1>1, <2>1, <2>2
<1>11. ASSUME NEW s, s # "write", NEW g, Moves(a, s, g)
       PROVE  DefaultIsKept'
  <2>1. /\ stage'[a] = s
        /\ \A c \in Admins \ {a} : stage'[c] = stage[c] /\ held'[c] = held[c]
    BY <1>11, Apart DEF Moves, Actors
  <2>2. SUFFICES ASSUME flagged', \A c \in Admins : stage'[c] = "write" => ~held'[c].default
                 PROVE  Flagged' # {}
    BY DEF DefaultIsKept
  <2>3. CASE conflict
    <3>1. ~(Flagged \subseteq {p})
      BY <1>1, <2>3 DEF DefaultFree
    <3> QED
      BY <1>9, <2>3, <3>1
  <2>4. CASE ~conflict /\ h.default
    BY <1>2, <1>8, <2>2, <2>4
  <2>5. CASE ~conflict /\ ~h.default
    <3>1. flagged /\ ~providers[p].isDefault
      BY <1>2, <2>2, <2>5
    <3>2. \A c \in Admins : stage[c] = "write" => ~held[c].default
      BY <1>1, <2>1, <2>2, <2>5
    <3>3. Flagged # {} /\ p \notin Flagged
      BY <3>1, <3>2 DEF IInv, AdminHolds, DefaultIsKept, Flagged
    <3> QED
      BY <1>8, <1>9, <2>5, <3>3
  <2> QED
    BY <1>1, <2>3, <2>4, <2>5
<1>12. CASE Done(a)
  <2>1. ASSUME Moves(a, "idle", NothingHeld) PROVE AdminHolds'
    BY <1>2, <1>10, <1>11, <2>1, NothingQuiet, ProvidersMoved
  <2> QED
    BY <1>2, <1>7, <1>12, <2>1, NothingQuiet, AdminMove DEF Done
<1>13. CASE h.op = "create" /\ Stay(a, "reread")
  <2>1. AdminFits("reread", h)
    BY <1>3, <1>13 DEF AdminFits
  <2>2. ASSUME Moves(a, "reread", h) PROVE AdminHolds'
    BY <1>1, <1>2, <1>10, <1>11, <2>2, ProvidersMoved
  <2> QED
    BY <1>1, <1>2, <1>7, <1>13, <2>1, <2>2, AdminMove DEF Stay
<1> QED
  BY <1>2, <1>12, <1>13 DEF RowsWritten

\* Requests that move nobody: what they have to leave as it was.
LEMMA NobodyMoves ==
    ASSUME IInv, stage' = stage, RowsTyped', AdminHolds', LocalHolds',
           held' = held
    PROVE  IInv'
<1>1. RequestsFit'
  BY DEF IInv, RequestsFit
<1> QED
  BY <1>1, TypesAfter DEF IInv

LEMMA DeleteProviderInv ==
    ASSUME IInv, NEW a \in Admins, NEW p \in Providers, DeleteProvider(a, p)
    PROVE  IInv'
<1>1. PICK w : w = [NoProviderRow EXCEPT !.status = "deleted"]
  OBVIOUS
<1>2. w \in ProviderRow /\ w.status = "deleted" /\ ~w.enabled /\ ~w.isDefault
  BY <1>1 DEF NoProviderRow, ProviderRow
<1>3. /\ UNCHANGED <<put, stale, accounts, localVars, stage, held, cut>>
      /\ providers' = [providers EXCEPT ![p] = w] /\ chosen' = NoProvider
      /\ changes' = changes + 1 /\ changes < MaxChanges
      /\ flagged' = (flagged /\ ~providers[p].isDefault)
      /\ policy' = policy
  BY <1>1 DEF DeleteProvider, RowsWritten
<1>4. RowsTyped /\ providers \in [Providers -> ProviderRow]
  BY TypesHold DEF RowsTyped, ProviderRow
<1>5. Flagged' = Flagged \ {p}
  BY <1>2, <1>3, <1>4 DEF Flagged
<1>6. RowsTyped'
  <2>1. providers' \in [Providers -> ProviderRow]
    BY <1>2, <1>3, <1>4
  <2>2. \A q \in Providers : ~Present(q)' => ~providers'[q].enabled /\ q \notin Flagged'
    BY <1>2, <1>3, <1>4 DEF RowsTyped, Present, Flagged
  <2>3. changes' \in 0..MaxChanges
    BY <1>3, <1>4, SignInAssumption DEF RowsTyped
  <2> QED
    BY <1>3, <1>4, <2>1, <2>2, <2>3 DEF RowsTyped, localVars, ProviderRow
<1>7. OneFlag' /\ PolicyAsPut' /\ HeldAsPut' /\ ChosenHolds'
  BY <1>3, <1>5 DEF IInv, AdminHolds, OneFlag, PolicyAsPut, HeldAsPut, ChosenHolds
<1>8. DefaultIsKept'
  <2>1. flagged' => flagged /\ p \notin Flagged
    BY <1>3 DEF Flagged
  <2> QED
    BY <1>3, <1>5, <2>1 DEF IInv, AdminHolds, DefaultIsKept
<1>9. StillAlone'
  BY <1>3, CreationAsked DEF IInv, AdminHolds, StillAlone
<1>10. LocalHolds'
  BY <1>3, AdminsLeaveBrowsers
<1> QED
  BY <1>3, <1>6, <1>7, <1>8, <1>9, <1>10, NobodyMoves DEF AdminHolds

LEMMA RevokeAccountInv ==
    ASSUME IInv, NEW u \in Emergency, RevokeAccount(u)
    PROVE  IInv'
<1>1. /\ UNCHANGED <<policy, providers, put, stale, flagged, localVars, stage, held, cut>>
      /\ accounts' = [accounts EXCEPT ![u] = "revoked"] /\ chosen' = NoProvider
      /\ changes' = changes + 1 /\ changes < MaxChanges /\ Flagged' = Flagged
      /\ credentials' = credentials /\ browsers' = browsers
  BY DEF RevokeAccount, Flagged, localVars
<1>2. RowsTyped
  BY TypesHold
<1>3. RowsTyped'
  <2>1. changes' \in 0..MaxChanges
    BY <1>1, <1>2, SignInAssumption DEF RowsTyped
  <2> QED
    BY <1>1, <1>2, <2>1 DEF RowsTyped, localVars, Present
<1>4. OneFlag' /\ PolicyAsPut' /\ HeldAsPut' /\ ChosenHolds' /\ DefaultIsKept'
  BY <1>1 DEF IInv, AdminHolds, OneFlag, PolicyAsPut, HeldAsPut, ChosenHolds, DefaultIsKept
<1>5. StillAlone'
  BY <1>1, CreationAsked DEF IInv, AdminHolds, StillAlone
<1>6. \A v \in Emergency : Listed(v)' => Listed(v)
  BY <1>1, <1>2 DEF Listed, RowsTyped
<1>7. \A b \in Browsers : stage[b] = "listed" => held[b].user \in Emergency
  BY BrowserAt DEF IInv, RequestsFit, CodeAsks
<1>8. SecondFactorFirst' /\ CodesHold'
  BY <1>1, <1>6, <1>7 DEF IInv, LocalHolds, SecondFactorFirst, Admitted, CodesHold, Listed
<1> QED
  BY <1>1, <1>3, <1>4, <1>5, <1>8, NobodyMoves DEF AdminHolds, LocalHolds

LEMMA ActivateAccountInv ==
    ASSUME IInv, NEW a \in Admins, ActivateAccount(a)
    PROVE  IInv'
<1>1. PICK u : u = held[a].user
  OBVIOUS
<1>2. /\ adminVars' = adminVars /\ localVars' = localVars /\ cut' = cut /\ stage[a] = "account"
      /\ accounts' = [accounts EXCEPT ![u] = "active"]
      /\ stage' = [stage EXCEPT ![a] = "lookup"]
      /\ held' = [x \in Actors |-> IF held[x].op = "verify" /\ held[x].user = u
                                  THEN [held[x] EXCEPT !.unlisted = FALSE] ELSE held[x]]
  BY <1>1 DEF ActivateAccount
<1>3. held[a] \in UserAsks({"reset"}) /\ u \in Emergency
  <2>1. AdminFits("account", held[a])
    BY <1>2 DEF IInv, RequestsFit
  <2>2. held[a] \in UserAsks({"reset"})
    BY <2>1, AdminAt
  <2> QED
    BY <1>1, <2>2 DEF UserAsks
<1>4. ASSUME NEW c \in Admins PROVE held[c].op # "verify" /\ held'[c] = held[c]
  <2>1. held[c].op # "verify"
    BY DEF IInv, RequestsFit, AdminFits, NothingHeld, PolicyAsks, CreateAsks, UpdateAsks,
           PolicyHolders, UserAsks
  <2> QED
    BY <1>2, <2>1, Apart DEF Actors
<1>5. /\ stage'[a] = "lookup" /\ \A x \in Actors \ {a} : stage'[x] = stage[x]
      /\ stage' = [x \in Actors |-> stage'[x]] /\ held' = [x \in Actors |-> held'[x]]
  BY <1>2, Apart DEF IInv, RequestsFit, Actors
<1>6. ASSUME NEW b \in Browsers
      PROVE  /\ stage'[b] = stage[b] /\ BrowserFits(stage[b], held'[b])
             /\ held'[b].op = held[b].op
             /\ stage[b] \in {"listed", "markUsed"} => held'[b].user = held[b].user
             /\ held'[b] = held[b] \/ (held[b].op = "verify" /\ held[b].user = u
                                      /\ held'[b].unlisted = FALSE)
             /\ stage[b] \in {"listed", "markUsed"} /\ held[b].op = "verify" /\ held[b].user = u =>
                  ~held'[b].unlisted
  <2>1. BrowserFits(stage[b], held[b])
    BY DEF IInv, RequestsFit
  <2>2. b \in Actors /\ b # a
    BY Apart DEF Actors
  <2>3. CASE held[b].op = "verify" /\ held[b].user = u
    <3>1. PICK h, g : h = held[b] /\ g = [h EXCEPT !.unlisted = FALSE]
      OBVIOUS
    <3>2. h \in CodeAsks /\ stage[b] \in {"verify", "listed", "markUsed"}
      BY <2>1, <2>3, <3>1 DEF BrowserFits, NothingHeld, UserAsks, CodeAsks
    <3>3. g \in CodeAsks /\ g.op = h.op /\ g.user = h.user /\ g.unlisted = FALSE
      BY <3>1, <3>2 DEF CodeAsks
    <3>4. held'[b] = g
      BY <1>2, <2>2, <2>3, <3>1
    <3> QED
      BY <1>5, <2>2, <2>3, <3>1, <3>2, <3>3, <3>4 DEF BrowserFits
  <2>4. CASE ~(held[b].op = "verify" /\ held[b].user = u)
    BY <1>2, <1>5, <2>1, <2>2, <2>4
  <2> QED
    BY <2>3, <2>4
<1>7. RequestsFit'
  <2>1. \A c \in Admins : AdminFits(stage'[c], held'[c])
    <3>1. AdminFits("lookup", held[a])
      BY <1>3 DEF AdminFits
    <3>2. \A c \in Admins \ {a} : stage'[c] = stage[c] /\ AdminFits(stage[c], held[c])
      BY <1>5, Apart DEF IInv, RequestsFit, Actors
    <3> QED
      BY <1>4, <1>5, <3>1, <3>2
  <2> QED
    BY <1>5, <1>6, <2>1 DEF RequestsFit
<1>8. RowsTyped'
  BY <1>2, <1>3, TypesHold DEF RowsTyped, adminVars, localVars, Present, Flagged
<1>9. AdminHolds'
  <2>1. /\ policy' = policy /\ providers' = providers /\ changes' = changes /\ put' = put
        /\ stale' = stale /\ flagged' = flagged /\ chosen' = chosen /\ Flagged' = Flagged
    BY <1>2 DEF adminVars, Flagged
  <2>2. /\ \A c \in Admins \ {a} : stage'[c] = stage[c] /\ stage'[a] = "lookup"
        /\ held[a].op = "reset"
    BY <1>3, <1>5 DEF Actors, UserAsks
  <2>3. OneFlag' /\ PolicyAsPut' /\ HeldAsPut'
    BY <1>4, <2>1, <2>2 DEF IInv, AdminHolds, OneFlag, PolicyAsPut, HeldAsPut
  <2>4. ChosenHolds' /\ StillAlone'
    <3>1. chosen = NoProvider
      BY <1>2 DEF IInv, AdminHolds, ChosenHolds
    <3>2. \A c \in Admins : held[c].op = "create" =>
             held[c].asked <= changes /\ ~(held[c].alone /\ held[c].asked = changes)
      BY <1>2, <2>2 DEF IInv, AdminHolds, StillAlone
    <3> QED
      BY <1>4, <2>1, <3>1, <3>2 DEF ChosenHolds, StillAlone
  <2>5. DefaultIsKept'
    BY <1>2, <1>4, <1>5, <2>1, <2>2 DEF IInv, AdminHolds, DefaultIsKept
  <2> QED
    BY <2>3, <2>4, <2>5 DEF AdminHolds
<1>10. LocalHolds'
  <2>1. credentials' = credentials /\ browsers' = browsers
    BY <1>2 DEF localVars
  <2>2. SecondFactorFirst'
    BY <2>1 DEF IInv, LocalHolds, SecondFactorFirst, Admitted
  <2>3. ASSUME NEW b \in Browsers
        PROVE  /\ stage'[b] \in {"listed", "markUsed"} => credentials'[held'[b].user].factor = "on"
               /\ stage'[b] = "listed" /\ accounts'[held'[b].user] = "active" => ~held'[b].unlisted
               /\ stage'[b] = "markUsed" /\ held'[b].op = "verify" => ~held'[b].unlisted
    <3>1. /\ stage[b] \in {"listed", "markUsed"} => credentials[held[b].user].factor = "on"
          /\ stage[b] = "listed" /\ accounts[held[b].user] = "active" => ~held[b].unlisted
          /\ stage[b] = "markUsed" /\ held[b].op = "verify" => ~held[b].unlisted
      BY DEF IInv, LocalHolds, CodesHold, Listed
    <3>2. stage[b] = "listed" => held[b].op = "verify" /\ held[b].user \in Emergency
      BY BrowserAt DEF IInv, RequestsFit, CodeAsks
    <3>3. \A v \in Emergency : v # u => accounts'[v] = accounts[v]
      BY <1>2, TypesHold DEF RowsTyped
    <3> QED
      BY <1>6, <2>1, <3>1, <3>2, <3>3
  <2> QED
    BY <2>2, <2>3 DEF LocalHolds, CodesHold, Listed
<1> QED
  BY <1>7, <1>8, <1>9, <1>10, TypesAfter DEF IInv

LEMMA AdminLookUpInv ==
    ASSUME IInv, NEW a \in Admins, LookUpAccount(a)
    PROVE  IInv'
<1>1. UNCHANGED <<adminVars, accounts, localVars>> /\ cut' \in 0..MaxCut /\ stage[a] = "lookup"
  BY TypesHold DEF LookUpAccount, RowsTyped
<1>2. CASE Done(a)
  BY <1>1, <1>2, EndQuietInv
<1>3. CASE Stay(a, AfterLookup(held[a].op))
  <2>1. PICK h : h = held[a]
    OBVIOUS
  <2>2. h \in UserAsks({"reset"}) /\ h.op = "reset"
    BY <1>1, <2>1, AdminAt DEF IInv, RequestsFit, UserAsks
  <2>3. AdminFits("mail", h) /\ Go(a, "mail", h)
    BY <1>3, <2>1, <2>2 DEF AdminFits, Stay, AfterLookup
  <2> QED
    BY <1>1, <2>2, <2>3, QuietInv
<1> QED
  BY <1>2, <1>3 DEF LookUpAccount

LEMMA LinkTyped ==
    ASSUME RowsTyped, NEW u \in Emergency, mailed' = mailed \cup {u},
           UNCHANGED <<adminVars, accounts, credentials, browsers, cut>>
    PROVE  RowsTyped'
  BY DEF RowsTyped, adminVars, Present, Flagged

LEMMA AdminSendInv ==
    ASSUME IInv, NEW a \in Admins, SendLink(a)
    PROVE  IInv'
<1>1. /\ UNCHANGED <<adminVars, accounts, credentials, browsers, cut>> /\ stage[a] = "mail"
      /\ mailed' = mailed \cup {held[a].user} /\ Done(a)
  BY DEF SendLink
<1>2. held[a].user \in Emergency
  BY <1>1, AdminAt DEF IInv, RequestsFit, UserAsks
<1>3. RowsTyped'
  BY <1>1, <1>2, TypesHold, LinkTyped
<1>4. a \in Actors /\ Fits(a, "idle", NothingHeld)
  BY NothingFits DEF Actors
<1>5. Moves(a, "idle", NothingHeld) /\ RequestsFit'
  BY <1>1, <1>4, GoMoves DEF IInv, Done
<1>6. /\ policy' = policy /\ providers' = providers /\ changes' = changes /\ put' = put
      /\ stale' = stale /\ flagged' = flagged /\ chosen' = chosen /\ Flagged' = Flagged
  BY <1>1 DEF adminVars, Flagged
<1>7. OneFlag' /\ DefaultIsKept'
  <2>1. \A c \in Admins : c # a => stage'[c] = stage[c] /\ held'[c] = held[c]
    BY <1>5, Apart DEF Moves, Actors
  <2> QED
    BY <1>1, <1>6, <2>1 DEF IInv, AdminHolds, OneFlag, DefaultIsKept
<1>8. AdminHolds'
  BY <1>1, <1>5, <1>6, <1>7, NothingQuiet, ProvidersMoved
<1>9. LocalHolds'
  <2>1. \A b \in Browsers : stage'[b] = stage[b] /\ held'[b] = held[b]
    BY <1>5, Apart DEF Moves
  <2> QED
    BY <1>1, <2>1 DEF IInv, LocalHolds, SecondFactorFirst, Admitted, CodesHold, Listed
<1> QED
  BY <1>3, <1>5, <1>8, <1>9, TypesAfter DEF IInv

LEMMA AdminLostInv ==
    ASSUME IInv, NEW a \in Admins, LoseRequest(a)
    PROVE  IInv'
<1>1. /\ UNCHANGED <<policy, providers, changes, put, stale, chosen, accounts, localVars>>
      /\ stage[a] # "idle" /\ cut < MaxCut /\ cut' = cut + 1 /\ Done(a)
      /\ flagged' = (flagged /\ ~(stage[a] = "write" /\ held[a].default)) /\ Flagged' = Flagged
  BY DEF LoseRequest, Flagged
<1>2. RowsTyped'
  <2>1. cut' \in 0..MaxCut
    BY <1>1, TypesHold, SignInAssumption DEF RowsTyped
  <2> QED
    BY <1>1, <2>1, TypesHold DEF RowsTyped, localVars, Present
<1>3. ASSUME Moves(a, "idle", NothingHeld) PROVE AdminHolds'
  <2>1. OneFlag' /\ DefaultIsKept'
    <3>1. \A c \in Admins : c # a => stage'[c] = stage[c] /\ held'[c] = held[c]
      BY <1>3, Apart DEF Moves, Actors
    <3> QED
      BY <1>1, <3>1 DEF IInv, AdminHolds, OneFlag, DefaultIsKept
  <2> QED
    BY <1>1, <1>3, <2>1, NothingQuiet, ProvidersMoved
<1> QED
  BY <1>1, <1>2, <1>3, NothingQuiet, AdminMove DEF Done

-----------------------------------------------------------------------------
(* Browsers' requests.                                                       *)

FactorsKept ==
    \A u \in Emergency : credentials[u].factor = "on" => credentials'[u].factor = "on"

\* What is asked of the browser whose request moves, and of where it goes.
MovesSoundly(b, s, h) ==
    /\ \A c \in Browsers \ {b} : browsers'[c] = browsers[c]
    /\ AdmittedMarked(b)' =>
           credentials'[browsers'[b].session].factor = "on" /\ ~browsers'[b].unlisted
    /\ s \in {"listed", "markUsed"} => credentials'[h.user].factor = "on"
    /\ s = "listed" /\ Listed(h.user) => ~h.unlisted
    /\ s = "markUsed" /\ h.op = "verify" => ~h.unlisted

LEMMA BrowserInv ==
    ASSUME IInv, NEW b \in Browsers, NEW s, NEW h, Go(b, s, h), BrowserFits(s, h),
           adminVars' = adminVars, accounts' = accounts, RowsTyped', FactorsKept,
           MovesSoundly(b, s, h)
    PROVE  IInv'
<1>1. ASSUME Moves(b, s, h) PROVE LocalHolds'
  <2>1. /\ stage'[b] = s /\ held'[b] = h
        /\ \A c \in Browsers \ {b} : stage'[c] = stage[c] /\ held'[c] = held[c]
    BY <1>1, Apart DEF Moves, Actors
  <2>2. \A c \in Browsers : browsers[c].session \in Emergency \cup {NoUser}
    BY TypesHold DEF RowsTyped
  <2>3. SecondFactorFirst'
    BY <2>2 DEF IInv, LocalHolds, SecondFactorFirst, Admitted, AdmittedMarked, MovesSoundly, FactorsKept
  <2>4. ASSUME NEW c \in Browsers, stage[c] \in {"listed", "markUsed"}
        PROVE  held[c].user \in Emergency
    <3>1. BrowserFits(stage[c], held[c])
      BY DEF IInv, RequestsFit
    <3>2. held[c] \in UserAsks({"signIn"}) \cup CodeAsks
      BY <2>4, <3>1, BrowserAt
    <3> QED
      BY <3>2 DEF UserAsks, CodeAsks
  <2>5. CodesHold'
    BY <2>1, <2>4 DEF IInv, LocalHolds, CodesHold, Listed, MovesSoundly, FactorsKept
  <2> QED
    BY <2>3, <2>5 DEF LocalHolds
<1> QED
  BY <1>1, BrowserMove

\* A request that changes neither the browser nor anybody's factor.
LEMMA BrowserQuiet ==
    ASSUME IInv, NEW b \in Browsers, NEW s, NEW h, Go(b, s, h), BrowserFits(s, h),
           adminVars' = adminVars, accounts' = accounts, browsers' = browsers, RowsTyped',
           FactorsKept, s \notin {"listed", "markUsed"}
    PROVE  IInv'
<1>1. browsers[b].session \in Emergency \cup {NoUser}
  BY TypesHold DEF RowsTyped
<1>2. MovesSoundly(b, s, h)
  BY <1>1 DEF IInv, LocalHolds, SecondFactorFirst, Admitted, AdmittedMarked, MovesSoundly, FactorsKept
<1> QED
  BY <1>2, BrowserInv

LEMMA NothingChanged ==
    ASSUME IInv, UNCHANGED <<adminVars, accounts, localVars>>, cut' \in 0..MaxCut
    PROVE  /\ RowsTyped' /\ FactorsKept /\ adminVars' = adminVars /\ accounts' = accounts
           /\ browsers' = browsers /\ credentials' = credentials
  BY TypesHold, RowsTypedSame DEF RowsTyped, adminVars, localVars, FactorsKept

LEMMA RequestInv ==
    ASSUME IInv, NEW b \in Browsers, NEW s, NEW op, NEW u \in Emergency, Request(b, s, op, u),
           (s = "lookup" /\ op \in {"reset", "signIn", "enroll"})
           \/ (s = "setPassword" /\ op = "setPassword")
    PROVE  IInv'
<1>1. PICK h : h = [op |-> op, user |-> u]
  OBVIOUS
<1>2. BrowserFits(s, h) /\ Go(b, s, h)
  BY <1>1 DEF BrowserFits, UserAsks, Request
<1>3. UNCHANGED <<adminVars, accounts, localVars>> /\ cut' \in 0..MaxCut
  BY TypesHold DEF Request, RowsTyped
<1> QED
  BY <1>2, <1>3, NothingChanged, BrowserQuiet

LEMMA AskVerifyInv ==
    ASSUME IInv, NEW b \in Browsers, NEW t \in BOOLEAN, AskVerify(b, t)
    PROVE  IInv'
<1>1. PICK h : h = [op |-> "verify", user |-> Challenged(b), trust |-> t, unlisted |-> FALSE]
  OBVIOUS
<1>2. Challenged(b) \in Emergency
  BY TypesHold DEF AskVerify, Challenged, RowsTyped
<1>3. BrowserFits("verify", h) /\ Go(b, "verify", h)
  BY <1>1, <1>2 DEF BrowserFits, CodeAsks, AskVerify
<1>4. UNCHANGED <<adminVars, accounts, localVars>> /\ cut' \in 0..MaxCut
  BY TypesHold DEF AskVerify, RowsTyped
<1> QED
  BY <1>3, <1>4, NothingChanged, BrowserQuiet

LEMMA EndBrowser == BrowserFits("idle", NothingHeld)
  BY DEF BrowserFits

LEMMA BrowserLookUpInv ==
    ASSUME IInv, NEW b \in Browsers, LookUpAccount(b)
    PROVE  IInv'
<1>1. UNCHANGED <<adminVars, accounts, localVars>> /\ cut' \in 0..MaxCut /\ stage[b] = "lookup"
  BY TypesHold DEF LookUpAccount, RowsTyped
<1>2. CASE Done(b)
  BY <1>1, <1>2, EndBrowser, NothingChanged, BrowserQuiet DEF Done
<1>3. CASE Stay(b, AfterLookup(held[b].op))
  <2>1. PICK h, s : h = held[b] /\ s = AfterLookup(held[b].op)
    OBVIOUS
  <2>2. BrowserFits("lookup", h)
    BY <1>1, <2>1 DEF IInv, RequestsFit
  <2>3. h \in UserAsks({"reset", "signIn", "enroll"})
    BY <2>2, BrowserAt
  <2>4. h.op \in {"reset", "signIn", "enroll"} /\ h \in UserAsks({h.op})
    BY <2>3 DEF UserAsks
  <2>5. BrowserFits(s, h) /\ s \notin {"listed", "markUsed"}
    BY <2>1, <2>4 DEF BrowserFits, AfterLookup
  <2> QED
    BY <1>1, <1>3, <2>1, <2>5, NothingChanged, BrowserQuiet DEF Stay
<1> QED
  BY <1>2, <1>3 DEF LookUpAccount

LEMMA BrowserSendInv ==
    ASSUME IInv, NEW b \in Browsers, SendLink(b)
    PROVE  IInv'
<1>1. /\ UNCHANGED <<adminVars, accounts, credentials, browsers, cut>> /\ stage[b] = "mail"
      /\ mailed' = mailed \cup {held[b].user} /\ Done(b)
  BY DEF SendLink
<1>2. held[b].user \in Emergency
  BY <1>1, BrowserAt DEF IInv, RequestsFit, UserAsks
<1>3. RowsTyped' /\ FactorsKept
  BY <1>1, <1>2, TypesHold, LinkTyped DEF FactorsKept
<1> QED
  BY <1>1, <1>3, EndBrowser, BrowserQuiet DEF Done

CredentialRow == [password: BOOLEAN, factor: {"off", "begun", "on"}]

LEMMA CredentialsTyped ==
    ASSUME RowsTyped, NEW u \in Emergency, NEW n \in CredentialRow,
           credentials' = [credentials EXCEPT ![u] = n], mailed' \subseteq Emergency,
           UNCHANGED <<adminVars, accounts, browsers, cut>>,
           credentials[u].factor = "on" => n.factor = "on"
    PROVE  RowsTyped' /\ FactorsKept
  BY DEF RowsTyped, CredentialRow, adminVars, Present, Flagged, FactorsKept

LEMMA SetPasswordInv ==
    ASSUME IInv, NEW b \in Browsers, SetPassword(b)
    PROVE  IInv'
<1>1. PICK u : u = held[b].user
  OBVIOUS
<1>2. /\ UNCHANGED <<adminVars, accounts, browsers, cut>> /\ stage[b] = "setPassword" /\ Done(b)
      /\ mailed' = mailed \ {u}
      /\ credentials' = IF u \in mailed THEN [credentials EXCEPT ![u].password = TRUE]
                        ELSE credentials
  BY <1>1 DEF SetPassword
<1>3. u \in Emergency /\ RowsTyped
  BY <1>1, <1>2, BrowserAt, TypesHold DEF IInv, RequestsFit, UserAsks
<1>4. PICK n : n = IF u \in mailed THEN [credentials[u] EXCEPT !.password = TRUE]
                   ELSE credentials[u]
  OBVIOUS
<1>5. credentials[u] \in CredentialRow
  BY <1>3 DEF RowsTyped, CredentialRow
<1>6. n \in CredentialRow /\ n.factor = credentials[u].factor
  BY <1>4, <1>5 DEF CredentialRow
<1>7. credentials' = [credentials EXCEPT ![u] = n]
  BY <1>2, <1>3, <1>4 DEF RowsTyped
<1>8. mailed' \subseteq Emergency
  BY <1>2, <1>3 DEF RowsTyped
<1>9. RowsTyped' /\ FactorsKept
  BY <1>2, <1>3, <1>6, <1>7, <1>8, CredentialsTyped
<1> QED
  BY <1>2, <1>9, EndBrowser, BrowserQuiet DEF Done

LEMMA EnrollInv ==
    ASSUME IInv, NEW b \in Browsers, Enroll(b)
    PROVE  IInv'
<1>1. PICK u : u = held[b].user
  OBVIOUS
<1>2. PICK n : n = [credentials[u] EXCEPT !.factor = IF @ = "off" THEN "begun" ELSE @]
  OBVIOUS
<1>3. /\ UNCHANGED <<adminVars, accounts, mailed, browsers, cut>> /\ stage[b] = "enable" /\ Done(b)
      /\ credentials' = [credentials EXCEPT ![u] = n]
  BY <1>1, <1>2 DEF Enroll
<1>4. u \in Emergency /\ RowsTyped
  BY <1>1, <1>3, BrowserAt, TypesHold DEF IInv, RequestsFit, UserAsks
<1>5. credentials[u] \in CredentialRow /\ mailed' \subseteq Emergency
  BY <1>3, <1>4 DEF RowsTyped, CredentialRow
<1>6. n \in CredentialRow /\ (credentials[u].factor = "on" => n.factor = "on")
  BY <1>2, <1>5 DEF CredentialRow
<1>7. RowsTyped' /\ FactorsKept
  BY <1>3, <1>4, <1>5, <1>6, CredentialsTyped
<1> QED
  BY <1>3, <1>7, EndBrowser, BrowserQuiet DEF Done

LEMMA VerifyCodeInv ==
    ASSUME IInv, NEW b \in Browsers, VerifyCode(b)
    PROVE  IInv'
<1>1. PICK h, u : h = held[b] /\ u = held[b].user
  OBVIOUS
<1>2. /\ UNCHANGED <<adminVars, accounts, mailed, browsers, cut>> /\ stage[b] = "verify"
      /\ IF credentials[u].factor = "off" THEN Done(b) /\ UNCHANGED credentials
         ELSE /\ credentials' = [credentials EXCEPT ![u].factor = "on"]
              /\ Go(b, "listed", [h EXCEPT !.unlisted = ~Listed(u)])
  BY <1>1 DEF VerifyCode, AfterCode
<1>3. h \in CodeAsks /\ RowsTyped
  BY <1>1, <1>2, BrowserAt, TypesHold DEF IInv, RequestsFit
<1>4. u \in Emergency /\ h.user = u
  BY <1>1, <1>3 DEF CodeAsks
<1>5. credentials[u] \in CredentialRow /\ mailed' \subseteq Emergency
  BY <1>2, <1>3, <1>4 DEF RowsTyped, CredentialRow
<1>6. CASE credentials[u].factor = "off"
  <2>1. UNCHANGED <<adminVars, accounts, localVars>> /\ cut' \in 0..MaxCut /\ Done(b)
    BY <1>2, <1>3, <1>6 DEF localVars, RowsTyped
  <2> QED
    BY <2>1, EndBrowser, NothingChanged, BrowserQuiet DEF Done
<1>7. CASE credentials[u].factor # "off"
  <2>1. PICK n, g : n = [credentials[u] EXCEPT !.factor = "on"] /\ g = [h EXCEPT !.unlisted = ~Listed(u)]
    OBVIOUS
  <2>2. n \in CredentialRow /\ n.factor = "on"
    BY <1>5, <2>1 DEF CredentialRow
  <2>3. credentials' = [credentials EXCEPT ![u] = n]
    BY <1>2, <1>7, <2>1
  <2>4. RowsTyped' /\ FactorsKept
    BY <1>2, <1>3, <1>4, <1>5, <2>2, <2>3, CredentialsTyped
  <2>5. g \in CodeAsks /\ g.user = u /\ g.unlisted = ~Listed(u)
    BY <1>3, <1>4, <2>1 DEF CodeAsks, Listed
  <2>6. BrowserFits("listed", g) /\ Go(b, "listed", g)
    BY <1>2, <1>7, <2>1, <2>5 DEF BrowserFits
  <2>7. credentials'[u].factor = "on"
    BY <1>3, <1>4, <2>2, <2>3 DEF RowsTyped
  <2>8. browsers[b].session \in Emergency \cup {NoUser}
    BY <1>3 DEF RowsTyped
  <2>9. AdmittedMarked(b)' => credentials'[browsers'[b].session].factor = "on" /\ ~browsers'[b].unlisted
    BY <1>2, <2>4, <2>8 DEF IInv, LocalHolds, SecondFactorFirst, Admitted, AdmittedMarked, FactorsKept
  <2>10. MovesSoundly(b, "listed", g)
    BY <1>2, <2>5, <2>7, <2>9 DEF MovesSoundly, Listed
  <2> QED
    BY <1>2, <2>4, <2>6, <2>10, BrowserInv
<1> QED
  BY <1>6, <1>7

Cookies == [session: Emergency \cup {NoUser}, pending: BOOLEAN,
            awaiting: Emergency \cup {NoUser}, trusted: SUBSET Emergency, unlisted: BOOLEAN,
            lapsed: BOOLEAN]

\* A response that sets cookies in its browser.
LEMMA CookiesTyped ==
    ASSUME RowsTyped, NEW b \in Browsers, NEW n \in Cookies,
           browsers' = [browsers EXCEPT ![b] = n],
           UNCHANGED <<adminVars, accounts, credentials, mailed, cut>>
    PROVE  /\ RowsTyped' /\ FactorsKept /\ browsers'[b] = n
           /\ \A c \in Browsers \ {b} : browsers'[c] = browsers[c]
  BY DEF RowsTyped, Cookies, adminVars, Present, Flagged, FactorsKept

LEMMA CookiesInv ==
    ASSUME IInv, NEW b \in Browsers, NEW n \in Cookies, Done(b),
           browsers' = [browsers EXCEPT ![b] = n],
           UNCHANGED <<adminVars, accounts, credentials, mailed, cut>>,
           n.session # NoUser /\ ~n.pending /\ ~n.lapsed => credentials[n.session].factor = "on" /\ ~n.unlisted
    PROVE  IInv'
<1>1. /\ RowsTyped' /\ FactorsKept /\ browsers'[b] = n
      /\ \A c \in Browsers \ {b} : browsers'[c] = browsers[c]
  BY TypesHold, CookiesTyped
<1>2. MovesSoundly(b, "idle", NothingHeld)
  BY <1>1 DEF MovesSoundly, Admitted, AdmittedMarked
<1> QED
  BY <1>1, <1>2, EndBrowser, BrowserInv DEF Done

LEMMA SignInInv ==
    ASSUME IInv, NEW b \in Browsers, SignIn(b)
    PROVE  IInv'
<1>1. PICK h, u : h = held[b] /\ u = held[b].user
  OBVIOUS
<1>2. /\ UNCHANGED <<adminVars, accounts, credentials, mailed, cut>> /\ stage[b] = "credentials"
      /\ IF ~credentials[u].password THEN Done(b) /\ UNCHANGED browsers
         ELSE IF credentials[u].factor = "on" /\ u \in browsers[b].trusted
         THEN Stay(b, "markUsed") /\ UNCHANGED browsers
         ELSE /\ browsers' = [browsers EXCEPT ![b] =
                  IF credentials[u].factor = "on" THEN [@ EXCEPT !.awaiting = u]
                  ELSE [@ EXCEPT !.session = u, !.pending = NeedsSetup(u), !.awaiting = NoUser,
                                 !.lapsed = FALSE]]
              /\ Done(b)
  BY <1>1 DEF SignIn
<1>3. h \in UserAsks({"signIn"}) /\ h.op = "signIn" /\ u \in Emergency /\ RowsTyped
  BY <1>1, <1>2, BrowserAt, TypesHold DEF IInv, RequestsFit, UserAsks
<1>4. browsers[b] \in Cookies
  BY <1>3 DEF RowsTyped, Cookies
<1>5. ASSUME browsers' = browsers PROVE RowsTyped' /\ FactorsKept
  <2>1. UNCHANGED <<adminVars, accounts, localVars>> /\ cut' \in 0..MaxCut
    BY <1>2, <1>3, <1>5 DEF localVars, RowsTyped
  <2> QED
    BY <2>1, NothingChanged
<1>6. CASE ~credentials[u].password
  BY <1>2, <1>5, <1>6, EndBrowser, BrowserQuiet DEF Done
<1>7. CASE /\ credentials[u].password /\ credentials[u].factor = "on"
           /\ u \in browsers[b].trusted
  <2>1. Go(b, "markUsed", h) /\ browsers' = browsers
    BY <1>1, <1>2, <1>7 DEF Stay
  <2>2. BrowserFits("markUsed", h)
    BY <1>3 DEF BrowserFits
  <2>3. credentials'[h.user].factor = "on"
    BY <1>1, <1>2, <1>7
  <2>4. AdmittedMarked(b)' => credentials'[browsers'[b].session].factor = "on" /\ ~browsers'[b].unlisted
    BY <1>2, <2>1 DEF IInv, LocalHolds, SecondFactorFirst, Admitted, AdmittedMarked
  <2>5. MovesSoundly(b, "markUsed", h)
    BY <1>3, <2>1, <2>3, <2>4 DEF MovesSoundly
  <2> QED
    BY <1>2, <1>5, <2>1, <2>2, <2>5, BrowserInv
<1>8. CASE /\ credentials[u].password
           /\ ~(credentials[u].factor = "on" /\ u \in browsers[b].trusted)
  <2>1. PICK o : o = browsers[b]
    OBVIOUS
  <2>2. PICK n : n = IF credentials[u].factor = "on" THEN [o EXCEPT !.awaiting = u]
                     ELSE [o EXCEPT !.session = u, !.pending = NeedsSetup(u), !.awaiting = NoUser,
                                    !.lapsed = FALSE]
    OBVIOUS
  <2>3. browsers' = [browsers EXCEPT ![b] = n] /\ Done(b)
    BY <1>2, <1>8, <2>1, <2>2
  <2>4. n \in Cookies
    BY <1>3, <1>4, <2>1, <2>2 DEF Cookies, NeedsSetup
  <2>5. n.session # NoUser /\ ~n.pending /\ ~n.lapsed => credentials[n.session].factor = "on" /\ ~n.unlisted
    <3>1. CASE credentials[u].factor = "on"
      <4>1. /\ n.session = o.session /\ n.pending = o.pending /\ n.unlisted = o.unlisted
            /\ n.lapsed = o.lapsed
        BY <1>4, <2>1, <2>2, <3>1 DEF Cookies
      <4> QED
        BY <2>1, <4>1 DEF IInv, LocalHolds, SecondFactorFirst, Admitted, AdmittedMarked
    <3>2. CASE credentials[u].factor # "on"
      BY <1>4, <2>1, <2>2, <3>2 DEF Cookies, NeedsSetup
    <3> QED
      BY <3>1, <3>2
  <2> QED
    BY <1>2, <2>3, <2>4, <2>5, CookiesInv
<1> QED
  BY <1>6, <1>7, <1>8

LEMMA LookUpVerifiedInv ==
    ASSUME IInv, NEW b \in Browsers, LookUpVerified(b)
    PROVE  IInv'
<1>1. PICK h : h = held[b]
  OBVIOUS
<1>2. /\ UNCHANGED <<adminVars, accounts, credentials, mailed, cut>> /\ stage[b] = "listed"
      /\ IF Listed(h.user) THEN Stay(b, "markUsed") /\ UNCHANGED browsers
         ELSE /\ browsers' = [browsers EXCEPT ![b].session = NoUser, ![b].awaiting = NoUser,
                                              ![b].lapsed = FALSE]
              /\ Done(b)
  BY <1>1 DEF LookUpVerified
<1>3. h \in CodeAsks /\ RowsTyped /\ browsers[b] \in Cookies
  BY <1>1, <1>2, BrowserAt, TypesHold DEF IInv, RequestsFit, RowsTyped, Cookies
<1>4. credentials[h.user].factor = "on" /\ (Listed(h.user) => ~h.unlisted)
  BY <1>1, <1>2 DEF IInv, LocalHolds, CodesHold
<1>5. CASE Listed(h.user)
  <2>1. Go(b, "markUsed", h) /\ browsers' = browsers
    BY <1>1, <1>2, <1>5 DEF Stay
  <2>2. BrowserFits("markUsed", h)
    BY <1>3 DEF BrowserFits
  <2>3. UNCHANGED <<adminVars, accounts, localVars>> /\ cut' \in 0..MaxCut
    BY <1>2, <1>3, <2>1 DEF localVars, RowsTyped
  <2>4. RowsTyped' /\ FactorsKept
    BY <2>3, NothingChanged
  <2>5. AdmittedMarked(b)' => credentials'[browsers'[b].session].factor = "on" /\ ~browsers'[b].unlisted
    BY <1>2, <2>1 DEF IInv, LocalHolds, SecondFactorFirst, Admitted, AdmittedMarked
  <2>6. MovesSoundly(b, "markUsed", h)
    BY <1>2, <1>4, <1>5, <2>1, <2>5 DEF MovesSoundly
  <2> QED
    BY <1>2, <2>1, <2>2, <2>4, <2>6, BrowserInv
<1>6. CASE ~Listed(h.user)
  <2>1. PICK n : n = [browsers[b] EXCEPT !.session = NoUser, !.awaiting = NoUser,
                                     !.lapsed = FALSE]
    OBVIOUS
  <2>2. n \in Cookies /\ n.session = NoUser
    BY <1>3, <2>1 DEF Cookies
  <2>3. browsers' = [browsers EXCEPT ![b] = n] /\ Done(b)
    BY <1>2, <1>3, <1>6, <2>1 DEF RowsTyped
  <2> QED
    BY <1>2, <2>2, <2>3, CookiesInv
<1> QED
  BY <1>5, <1>6

LEMMA AuthenticatedInv ==
    ASSUME IInv, NEW b \in Browsers, Authenticated(b)
    PROVE  IInv'
<1>1. PICK h, o : h = held[b] /\ o = browsers[b]
  OBVIOUS
<1>2. PICK n : n = [o EXCEPT !.session = h.user, !.awaiting = NoUser,
                            !.pending = IF h.op = "verify" THEN FALSE ELSE @,
                            !.trusted = IF h.op = "verify" /\ h.trust THEN @ \cup {h.user} ELSE @,
                            !.unlisted = h.op = "verify" /\ h.unlisted,
                            !.lapsed = FALSE]
  OBVIOUS
<1>3. stage[b] = "markUsed" /\ UNCHANGED <<adminVars, accounts, credentials, mailed, cut>> /\ Done(b)
  BY DEF Authenticated
<1>4. RowsTyped /\ o \in Cookies
  BY <1>1, TypesHold DEF RowsTyped, Cookies
<1>5. browsers' = [browsers EXCEPT ![b] = n]
  BY <1>1, <1>2, <1>4 DEF Authenticated, RowsTyped
<1>6. h \in UserAsks({"signIn"}) \cup CodeAsks
  BY <1>1, <1>3, BrowserAt DEF IInv, RequestsFit
<1>7. h.user \in Emergency /\ (h.op = "verify" => h.trust \in BOOLEAN /\ h.unlisted \in BOOLEAN)
  BY <1>6 DEF UserAsks, CodeAsks
<1>8. n \in Cookies /\ n.session = h.user /\ n.unlisted = (h.op = "verify" /\ h.unlisted)
  BY <1>2, <1>4, <1>7 DEF Cookies
<1>9. credentials[h.user].factor = "on" /\ (h.op = "verify" => ~h.unlisted)
  BY <1>1, <1>3 DEF IInv, LocalHolds, CodesHold
<1> QED
  BY <1>3, <1>5, <1>8, <1>9, CookiesInv

LEMMA LogOutInv ==
    ASSUME IInv, NEW b \in Browsers, LogOut(b)
    PROVE  IInv'
<1>1. PICK n : n = [NoCookies EXCEPT !.trusted = browsers[b].trusted]
  OBVIOUS
<1>2. /\ UNCHANGED <<adminVars, accounts, credentials, mailed, stage, held, cut>>
      /\ browsers' = [browsers EXCEPT ![b] = n]
  BY <1>1 DEF LogOut
<1>3. n \in Cookies /\ n.session = NoUser
  BY <1>1, TypesHold DEF RowsTyped, Cookies, NoCookies
<1>4. /\ RowsTyped' /\ browsers'[b] = n
      /\ \A c \in Browsers \ {b} : browsers'[c] = browsers[c]
  BY <1>2, <1>3, TypesHold, CookiesTyped
<1>5. AdminHolds'
  BY <1>2, BrowsersLeaveAdmins
<1>6. SecondFactorFirst' /\ CodesHold'
  BY <1>2, <1>3, <1>4 DEF IInv, LocalHolds, SecondFactorFirst, Admitted, AdmittedMarked, CodesHold, Listed
<1> QED
  BY <1>2, <1>4, <1>5, <1>6, NobodyMoves DEF LocalHolds

LEMMA CloseBrowserInv ==
    ASSUME IInv, NEW b \in Browsers, CloseBrowser(b)
    PROVE  IInv'
<1>1. PICK o : o = browsers[b]
  OBVIOUS
<1>2. PICK n : n = [o EXCEPT !.pending = FALSE, !.lapsed = (o.session # NoUser)]
  OBVIOUS
<1>3. RowsTyped /\ o \in Cookies
  BY <1>1, TypesHold DEF RowsTyped, Cookies
<1>4. /\ UNCHANGED <<adminVars, accounts, credentials, mailed, stage, held, cut>>
      /\ browsers' = [browsers EXCEPT ![b] = n]
  BY <1>1, <1>2, <1>3 DEF CloseBrowser, RowsTyped
<1>5. n \in Cookies /\ n.session = o.session /\ (n.session = NoUser \/ n.lapsed)
  BY <1>2, <1>3 DEF Cookies
<1>6. /\ RowsTyped' /\ browsers'[b] = n
      /\ \A c \in Browsers \ {b} : browsers'[c] = browsers[c]
  BY <1>3, <1>4, <1>5, CookiesTyped
<1>7. AdminHolds'
  BY <1>4, BrowsersLeaveAdmins
<1>8. SecondFactorFirst' /\ CodesHold'
  BY <1>4, <1>5, <1>6 DEF IInv, LocalHolds, SecondFactorFirst, Admitted, CodesHold, Listed
<1> QED
  BY <1>4, <1>6, <1>7, <1>8, NobodyMoves DEF LocalHolds

LEMMA BrowserLostInv ==
    ASSUME IInv, NEW b \in Browsers, LoseRequest(b)
    PROVE  IInv'
<1>1. /\ UNCHANGED <<policy, providers, changes, put, stale, chosen, accounts, localVars>>
      /\ stage[b] # "idle" /\ cut < MaxCut /\ cut' = cut + 1 /\ Done(b)
      /\ flagged' = (flagged /\ ~(stage[b] = "write" /\ held[b].default))
  BY DEF LoseRequest
<1>2. stage[b] # "write"
  BY BrowserAt DEF IInv, RequestsFit
<1>3. cut' \in 0..MaxCut /\ flagged \in BOOLEAN
  BY <1>1, TypesHold, SignInAssumption DEF RowsTyped
<1>4. flagged' = flagged
  BY <1>1, <1>2, <1>3
<1>5. UNCHANGED <<adminVars, accounts, localVars>>
  BY <1>1, <1>4 DEF adminVars
<1> QED
  BY <1>1, <1>3, <1>5, EndBrowser, NothingChanged, BrowserQuiet DEF Done

-----------------------------------------------------------------------------
LEMMA InitHolds == SignInInit => IInv
<1> SUFFICES ASSUME SignInInit PROVE IInv
  OBVIOUS
<1>1. RowsTyped
  <2>1. DefaultPolicy \in Policies /\ NoProviderRow \in ProviderRow
    BY DEF DefaultPolicy, Policies, LoginModes, NoProviderRow, ProviderRow
  <2>2. NoCookies \in Cookies /\ [password |-> FALSE, factor |-> "off"] \in CredentialRow
    BY DEF NoCookies, Cookies, CredentialRow
  <2>3. /\ providers \in [Providers -> ProviderRow]
        /\ credentials \in [Emergency -> CredentialRow]
        /\ browsers \in [Browsers -> Cookies]
        /\ accounts \in [Emergency -> {"none", "active", "revoked"}]
    BY <2>1, <2>2 DEF SignInInit
  <2>4. \A p \in Providers : ~providers[p].enabled /\ p \notin Flagged
    BY DEF SignInInit, NoProviderRow, Flagged
  <2>5. changes \in 0..MaxChanges /\ cut \in 0..MaxCut
    BY SignInAssumption DEF SignInInit
  <2>6. /\ policy \in Policies /\ put \in Policies /\ mailed \subseteq Emergency
        /\ stale \in BOOLEAN /\ flagged \in BOOLEAN /\ chosen \in Providers \cup {NoProvider}
    BY <2>1 DEF SignInInit
  <2> QED
    BY <2>3, <2>4, <2>5, <2>6 DEF RowsTyped, ProviderRow, CredentialRow, Cookies
<1>2. RequestsFit
  BY NothingFits, Apart DEF SignInInit, RequestsFit, Fits, Actors
<1>3. Flagged = {}
  BY DEF SignInInit, Flagged, NoProviderRow
<1>4. AdminHolds
  <2>1. \A a \in Admins : stage[a] = "idle" /\ held[a].op = "none"
    BY NothingQuiet DEF SignInInit, Actors
  <2>2. ~flagged /\ policy = put /\ chosen = NoProvider
    BY DEF SignInInit
  <2> QED
    BY <1>3, <2>1, <2>2 DEF AdminHolds, OneFlag, DefaultIsKept, PolicyAsPut, HeldAsPut, StillAlone,
                            ChosenHolds
<1>5. LocalHolds
  <2>1. \A b \in Browsers : stage[b] = "idle" /\ browsers[b].session = NoUser
    BY DEF SignInInit, NoCookies, Actors
  <2> QED
    BY <2>1 DEF LocalHolds, SecondFactorFirst, Admitted, AdmittedMarked, CodesHold
<1> QED
  BY <1>1, <1>2, <1>4, <1>5, TypesMeet DEF IInv

LEMMA AdminStepInv ==
    ASSUME IInv, NEW a \in Admins, AdminStep(a)
    PROVE  IInv'
<1>1. CASE \E new \in Asked : AskPolicy(a, new)
  BY <1>1, AskPolicyInv
<1>2. CASE \E p \in Providers, enabled, default \in BOOLEAN :
                AskCreate(a, p, enabled, default) \/ AskUpdate(a, p, enabled, default)
  BY <1>2, AskCreateInv, AskUpdateInv
<1>3. CASE \E p \in Providers : DeleteProvider(a, p)
  BY <1>3, DeleteProviderInv
<1>4. CASE \E u \in Emergency : AskAccount(a, u)
  BY <1>4, AskAccountInv
<1>5. CASE CheckDefault(a) \/ UpsertPolicy(a) \/ ClearDefault(a) \/ WriteProvider(a)
  BY <1>5, CheckDefaultInv, UpsertPolicyInv, ClearDefaultInv, WriteProviderInv
<1>6. CASE RereadProvider(a) \/ ReadPolicy(a) \/ ActivateAccount(a)
  BY <1>6, RereadProviderInv, ReadPolicyInv, ActivateAccountInv
<1> QED
  BY <1>1, <1>2, <1>3, <1>4, <1>5, <1>6 DEF AdminStep

LEMMA BrowserStepInv ==
    ASSUME IInv, NEW b \in Browsers, BrowserStep(b)
    PROVE  IInv'
<1>1. CASE \E u \in Emergency : AskReset(b, u) \/ AskSetPassword(b, u) \/ AskSignIn(b, u)
  BY <1>1, RequestInv DEF AskReset, AskSetPassword, AskSignIn
<1>2. CASE AskEnroll(b)
  <2>1. browsers[b].session \in Emergency
    BY <1>2, TypesHold DEF AskEnroll, RowsTyped
  <2> QED
    BY <1>2, <2>1, RequestInv DEF AskEnroll
<1>3. CASE \E trust \in BOOLEAN : AskVerify(b, trust)
  BY <1>3, AskVerifyInv
<1>4. CASE SetPassword(b) \/ SignIn(b) \/ Enroll(b) \/ VerifyCode(b)
  BY <1>4, SetPasswordInv, SignInInv, EnrollInv, VerifyCodeInv
<1>5. CASE LookUpVerified(b) \/ Authenticated(b) \/ LogOut(b) \/ CloseBrowser(b)
  BY <1>5, LookUpVerifiedInv, AuthenticatedInv, LogOutInv, CloseBrowserInv
<1> QED
  BY <1>1, <1>2, <1>3, <1>4, <1>5 DEF BrowserStep

LEMMA StutterInv ==
    ASSUME IInv, UNCHANGED signInVars
    PROVE  IInv'
<1>1. /\ UNCHANGED <<adminVars, accounts, localVars>> /\ cut' = cut /\ stage' = stage /\ held' = held
  BY DEF signInVars
<1>2. cut' \in 0..MaxCut
  BY <1>1, TypesHold DEF RowsTyped
<1>3. AdminHolds' /\ LocalHolds'
  BY <1>1, BrowsersLeaveAdmins, AdminsLeaveBrowsers
<1> QED
  BY <1>1, <1>2, <1>3, NothingChanged, NobodyMoves

LEMMA NextHolds ==
    ASSUME IInv, [SignInNext]_signInVars
    PROVE  IInv'
<1>1. CASE \E a \in Admins : AdminStep(a)
  BY <1>1, AdminStepInv
<1>2. CASE \E b \in Browsers : BrowserStep(b)
  BY <1>2, BrowserStepInv
<1>3. CASE \E x \in Actors : LookUpAccount(x) \/ SendLink(x) \/ LoseRequest(x)
  BY <1>3, AdminLookUpInv, AdminSendInv, AdminLostInv, BrowserLookUpInv, BrowserSendInv,
     BrowserLostInv DEF Actors
<1>4. CASE \E u \in Emergency : RevokeAccount(u)
  BY <1>4, RevokeAccountInv
<1>5. CASE UNCHANGED signInVars
  BY <1>5, StutterInv
<1> QED
  BY <1>1, <1>2, <1>3, <1>4, <1>5 DEF SignInNext, Pages

\* Policies, providers, accounts, cookies and requests, at every moment.
THEOREM Invariance == SignInSpec => []IInv
<1>1. IInv /\ [SignInNext]_signInVars => IInv'
  BY NextHolds
<1> QED
  BY InitHolds, <1>1, PTL DEF SignInSpec

LEMMA AtMostOne ==
    ASSUME NEW S, \A x, y \in S : x = y
    PROVE  Cardinality(S) <= 1
<1>1. CASE S = {}
  BY <1>1, FS_EmptySet
<1>2. CASE S # {}
  <2>1. PICK x : x \in S
    BY <1>2
  <2>2. S = {x}
    BY <2>1
  <2> QED
    BY <2>2, FS_Singleton
<1> QED
  BY <1>1, <1>2

\* However creations, updates and deletions of providers and new policies overlap and are
\* lost, a tenant has one default provider at most and keeps it, its policy opens what the
\* one that was put last opens, and a new default is the one that sign-in starts with.
THEOREM ProvidersKept == SignInSpec => []ProvidersHold
<1>1. IInv => OneDefault
  BY AtMostOne DEF IInv, AdminHolds, OneFlag, OneDefault
<1>2. IInv => NewDefaultIsUsed
  BY DEF IInv, AdminHolds, ChosenHolds, NewDefaultIsUsed, DefaultProvider
<1>3. IInv => ProvidersHold
  BY <1>1, <1>2 DEF IInv, AdminHolds, ProvidersHold
<1> QED
  BY <1>3, Invariance, PTL

\* In whatever order sign-ins, enrolments and codes of any number of browsers come, and
\* accounts are revoked and activated again, who is admitted has a second factor, and
\* gave its code while the account was listed; but for a browser that was closed while
\* the set-up was pending.
THEOREM SecondFactorIsFirst == SignInSpec => []SecondFactorFirst
<1>1. IInv => SecondFactorFirst
  BY DEF IInv, LocalHolds
<1> QED
  BY <1>1, Invariance, PTL
=============================================================================
