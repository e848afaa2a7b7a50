-------------------------- MODULE RuleApproval_proofs --------------------------
(* Proofs that no approval step is skipped and that no version is approved  *)
(* without its whole chain, for every set of versions with every chains,    *)
(* for every number of requests that overlap, and of requests lost. Then    *)
(* that evaluations and reviews of the rule, made meanwhile by any number   *)
(* of callers, come to what approved versions and reviewers decided.        *)
EXTENDS RuleReview, SequenceTheorems, FiniteSetTheorems, TLAPS

(* The inductive invariant, in two parts: of each version and of each      *)
(* request.                                                                *)

WasSubmitted(v) == status[v] \notin {"absent", "draft"}

\* Steps are inserted once, from the first to the last of the chain; a step
\* that can be decided has all before it granted.
VersionOK(v) ==
    /\ Len(steps[v]) <= Len(Chain[v])
    /\ WasSubmitted(v) => Len(steps[v]) >= 1
    /\ v \notin early /\ WasSubmitted(v) => Len(steps[v]) = Len(Chain[v])
    /\ granted[v] \subseteq 1..Len(steps[v])
    /\ \A n \in granted[v] : 1..(n - 1) \subseteq granted[v]
    /\ \A n \in 1..Len(steps[v]) :
         steps[v][n].status = "pending" => 1..(n - 1) \subseteq granted[v]
    /\ v \notin early /\ (status[v] \in {"approved", "active"} \/ active = v)
         => granted[v] = 1..Len(Chain[v])

\* Where a request has seen the version submittable, and where its steps.
Begun == Places \ {"idle", "insertSteps", "event", "audit"}
Stocked == Begun \ {"listSteps", "insertDefault"}
Deciding == {"markStep", "markNext", "judgeVersion"}
Activating == {"deprecate", "activate", "pointRule"}

\* What a request at a place has read stays true enough for what it is about
\* to write.
Holds(place, c) ==
    LET v == c.version
    IN  /\ c \in Call
        /\ place = "insertSteps" => c.step < Len(Chain[v])
        /\ place \in Stocked => Len(steps[v]) >= 1
        /\ place \in Begun /\ v \notin early => Len(steps[v]) = Len(Chain[v])
        /\ place \in Deciding =>
             /\ c.step \in 1..Len(steps[v])
             /\ 1..(c.step - 1) \subseteq granted[v]
             /\ c.next \in {0, c.step + 1}
             /\ c.next <= Len(steps[v])
             /\ c.next = 0 /\ v \notin early => c.step = Len(Chain[v])
        /\ place = "markNext" => c.next # 0 /\ c.decision = "approved"
        /\ place \in Deciding \ {"markStep"} /\ c.decision = "approved"
             => c.step \in granted[v]
        /\ place \in Activating /\ v \notin early => granted[v] = 1..Len(Chain[v])

RequestOK(r) == pc[r] # "idle" => Holds(pc[r], call[r])

IInv ==
    /\ TypeOK
    /\ \A v \in Versions : VersionOK(v)
    /\ \A r \in Requests : RequestOK(r)

\* What every action keeps: nothing is taken back, and the bounds hold.
Grows ==
    /\ early \subseteq early'
    /\ \A v \in Versions :
        /\ granted[v] \subseteq granted'[v]
        /\ Len(steps[v]) \in Nat /\ Len(steps'[v]) \in Nat
        /\ Len(steps[v]) <= Len(steps'[v])
        /\ Len(steps'[v]) <= Len(Chain[v])
        /\ granted'[v] \subseteq 1..Len(steps'[v])

OnlyMoves(r) ==
    \A q \in Requests \ {r} : pc'[q] = pc[q] /\ call'[q] = call[q]

-----------------------------------------------------------------------------

LEMMA ChainLength == \A v \in Versions : Len(Chain[v]) \in Nat /\ Len(Chain[v]) >= 1
<1> SUFFICES ASSUME NEW v \in Versions
             PROVE  Len(Chain[v]) \in Nat /\ Len(Chain[v]) >= 1
  OBVIOUS
<1>1. Chain[v] \in Seq(Nat) /\ Chain[v] # <<>>
  BY ChainAssumption
<1> QED
  BY <1>1, EmptySeq

LEMMA EmptyLength == Len(<<>>) = 0
  OBVIOUS

LEMMA FunctionIsSeq ==
    ASSUME NEW S, NEW n \in Nat, NEW f \in [1..n -> S]
    PROVE  f \in Seq(S) /\ Len(f) = n
  OBVIOUS

LEMMA StepsLength ==
    ASSUME TypeOK, NEW v \in Versions
    PROVE  Len(steps[v]) \in Nat /\ (steps[v] # <<>> => Len(steps[v]) >= 1)
<1>1. steps[v] \in Seq([rank: Nat, status: StepStatuses])
  BY DEF TypeOK
<1> QED
  BY <1>1, EmptySeq

\* A request that does not move keeps what it has read.
LEMMA Kept ==
    ASSUME NEW place, NEW c, Holds(place, c), Grows
    PROVE  Holds(place, c)'
<1>1. c \in Call /\ c.version \in Versions /\ c.step \in Nat /\ c.next \in Nat
  BY DEF Holds, Call
<1> DEFINE v == c.version
<1>2. /\ granted[v] \subseteq granted'[v] /\ (v \notin early' => v \notin early)
      /\ Len(steps[v]) \in Nat /\ Len(steps'[v]) \in Nat /\ Len(Chain[v]) \in Nat
      /\ Len(steps[v]) <= Len(steps'[v])
      /\ Len(steps'[v]) <= Len(Chain[v])
      /\ granted'[v] \subseteq 1..Len(steps'[v])
  BY <1>1, ChainLength DEF Grows
<1>3. 1..Len(steps'[v]) \subseteq 1..Len(Chain[v])
  BY <1>2
<1>4. place \in Begun /\ v \notin early' => Len(steps'[v]) = Len(Chain[v])
  BY <1>2 DEF Holds
<1>5. ASSUME place \in Deciding
      PROVE  /\ c.step \in 1..Len(steps'[v])
             /\ 1..(c.step - 1) \subseteq granted'[v]
             /\ c.next \in {0, c.step + 1}
             /\ c.next <= Len(steps'[v])
             /\ c.next = 0 /\ v \notin early' => c.step = Len(Chain[v])
  BY <1>1, <1>2, <1>5 DEF Holds
<1>6. place \in Activating /\ v \notin early' => granted'[v] = 1..Len(Chain[v])
  BY <1>2, <1>3 DEF Holds
<1>7. place \in Deciding \ {"markStep"} /\ c.decision = "approved" => c.step \in granted'[v]
  BY <1>2 DEF Holds
<1>8. place \in Stocked => Len(steps'[v]) >= 1
  BY <1>2 DEF Holds
<1>9. /\ place = "insertSteps" => c.step < Len(Chain[v])
      /\ place = "markNext" => c.next # 0 /\ c.decision = "approved"
  BY DEF Holds
<1> HIDE DEF v
<1> QED
  BY <1>1, <1>4, <1>5, <1>6, <1>7, <1>8, <1>9 DEF Holds, v

LEMMA InitInv == Init => IInv
<1> SUFFICES ASSUME Init PROVE IInv
  OBVIOUS
<1>1. TypeOK
  BY DEF Init, TypeOK, Statuses, Places
<1>2. ASSUME NEW v \in Versions PROVE VersionOK(v)
  BY ChainLength, NoVersionAssumption DEF Init, VersionOK, WasSubmitted
<1>3. ASSUME NEW r \in Requests PROVE RequestOK(r)
  BY DEF Init, RequestOK, Begun, Stocked, Deciding, Activating
<1> QED
  BY <1>1, <1>2, <1>3 DEF IInv

-----------------------------------------------------------------------------
(* What the actions have in common.                                        *)

\* It is enough to look at the versions and at the request that moves.
LEMMA StepDone ==
    ASSUME IInv, NEW r \in Requests, TypeOK', Grows, OnlyMoves(r),
           \A v \in Versions : VersionOK(v)', RequestOK(r)'
    PROVE  IInv'
<1>1. ASSUME NEW q \in Requests \ {r} PROVE RequestOK(q)'
  <2>1. PICK place, c : place = pc[q] /\ c = call[q]
    OBVIOUS
  <2>2. place # "idle" => Holds(place, c)
    BY <2>1 DEF IInv, RequestOK
  <2>3. place # "idle" => Holds(place, c)'
    BY <2>2, Kept
  <2>4. pc'[q] = place /\ call'[q] = c
    BY <2>1 DEF OnlyMoves
  <2> QED
    BY <2>3, <2>4 DEF RequestOK, Holds
<1> QED
  BY <1>1 DEF IInv

\* Where no step is written, nothing has to grow.
LEMMA GrowsSame ==
    ASSUME IInv, early \subseteq early', UNCHANGED <<steps, granted>>
    PROVE  Grows
  BY StepsLength DEF IInv, VersionOK, Grows

\* A version whose steps are left alone and that is not approved now.
LEMMA VersionKept ==
    ASSUME NEW v, VersionOK(v), steps'[v] = steps[v], granted'[v] = granted[v],
           early \subseteq early', WasSubmitted(v)' => WasSubmitted(v),
           status'[v] \in {"approved", "active"} \/ active' = v
             => status[v] \in {"approved", "active"} \/ active = v
    PROVE  VersionOK(v)'
  BY DEF VersionOK

StepRecord == [rank: Nat, status: StepStatuses]

\* The UPDATE of one step.
LEMMA StepSet ==
    ASSUME TypeOK, NEW v \in Versions, NEW n \in 1..Len(steps[v]),
           NEW s \in StepStatuses, SetStep(v, n, s)
    PROVE  /\ steps' \in [Versions -> Seq(StepRecord)]
           /\ \A w \in Versions : Len(steps'[w]) = Len(steps[w])
           /\ \A w \in Versions \ {v} : steps'[w] = steps[w]
           /\ \A m \in 1..Len(steps[v]) :
                steps'[v][m].status = IF m = n THEN s ELSE steps[v][m].status
<1>1. steps \in [Versions -> Seq(StepRecord)]
  BY DEF TypeOK, StepRecord
<1> DEFINE q == steps[v]
           p == [q EXCEPT ![n].status = s]
<1>2. q \in Seq(StepRecord) /\ q[n] \in StepRecord
  BY <1>1
<1>3. [q[n] EXCEPT !.status = s] \in StepRecord /\ [q[n] EXCEPT !.status = s].status = s
  BY <1>2 DEF StepRecord
<1>4. p = [q EXCEPT ![n] = [q[n] EXCEPT !.status = s]]
  OBVIOUS
<1>5. p \in Seq(StepRecord) /\ Len(p) = Len(q)
  BY <1>2, <1>3, <1>4, ExceptSeq
<1>6. \A m \in 1..Len(q) : p[m].status = IF m = n THEN s ELSE q[m].status
  BY <1>2, <1>3, <1>4
<1>7. steps' = [steps EXCEPT ![v] = p]
  BY DEF SetStep
<1> HIDE DEF p
<1> QED
  BY <1>1, <1>5, <1>6, <1>7

\* What is known of a request at work.
LEMMA AtWork ==
    ASSUME IInv, NEW r \in Requests, pc[r] # "idle"
    PROVE  /\ call[r] \in Call /\ call[r].version \in Versions
           /\ call[r].step \in Nat /\ call[r].next \in Nat /\ call[r].rank \in Nat
           /\ Holds(pc[r], call[r])
<1>1. Holds(pc[r], call[r])
  BY DEF IInv, RequestOK
<1>2. call[r] \in Call
  BY <1>1 DEF Holds
<1> QED
  BY <1>1, <1>2 DEF Call

-----------------------------------------------------------------------------
(* The actions.                                                            *)

LEMMA CreateVersionInv ==
    ASSUME IInv, NEW r \in Requests, NEW v \in Versions, CreateVersion(r, v)
    PROVE  IInv'
<1> USE DEF CreateVersion, Begin, Goto, logVars
<1>1. CallOf("create", v) \in Call
  BY DEF CallOf, Call, Operations, Decisions, DefaultRank
<1>2. TypeOK'
  BY <1>1 DEF IInv, TypeOK, Places, Statuses
<1>3. Grows
  BY GrowsSame
<1>4. ASSUME NEW w \in Versions PROVE VersionOK(w)'
  BY VersionKept DEF IInv, TypeOK, WasSubmitted
<1>5. RequestOK(r)'
  BY <1>1, ChainLength DEF IInv, TypeOK, RequestOK, Holds, CallOf, Begun, Stocked, Deciding, Activating
<1>6. OnlyMoves(r)
  BY DEF OnlyMoves, IInv, TypeOK
<1> QED
  BY <1>2, <1>3, <1>4, <1>5, <1>6, StepDone

LEMMA InsertStepInv ==
    ASSUME IInv, NEW r \in Requests, InsertStep(r)
    PROVE  IInv'
<1>0. PICK c, v, n : c = call[r] /\ v = c.version /\ n = c.step + 1
  OBVIOUS
<1>1. /\ pc[r] = "insertSteps" /\ c \in Call /\ v \in Versions /\ n \in Nat \ {0}
      /\ n <= Len(Chain[v]) /\ Len(Chain[v]) \in Nat /\ Len(steps[v]) \in Nat
  BY <1>0, ChainLength, StepsLength DEF InsertStep, IInv, RequestOK, Holds, Call
<1>2. OnlyMoves(r)
  BY DEF InsertStep, OnlyMoves, IInv, TypeOK, Goto, End
<1>3. CASE n > Len(steps[v])
  <2> DEFINE s == QueuedStep(Chain[v][n])
  <2>1. Chain[v][n] \in Nat
    <3>1. Chain[v] \in Seq(Nat) /\ n \in 1..Len(Chain[v])
      BY <1>1, ChainAssumption
    <3> QED
      BY <3>1, ElementOfSeq
  <2>2. s \in [rank: Nat, status: StepStatuses] /\ s.status = "queued"
    BY <2>1 DEF QueuedStep, StepStatuses
  <2>3. steps[v] \in Seq([rank: Nat, status: StepStatuses])
    BY <1>1 DEF IInv, TypeOK
  <2> DEFINE t == Append(steps[v], s)
  <2>4. /\ t \in Seq([rank: Nat, status: StepStatuses])
        /\ t # <<>> /\ Len(t) = Len(steps[v]) + 1
        /\ \A i \in 1..Len(steps[v]) : t[i] = steps[v][i]
        /\ t[Len(steps[v]) + 1] = s
    <3> HIDE DEF s
    <3> QED
      BY <2>2, <2>3, AppendProperties
  <2>5. /\ steps' = [steps EXCEPT ![v] = t] /\ call' = [call EXCEPT ![r].step = n]
        /\ UNCHANGED <<status, active, events, audited, granted, early, faults>>
    BY <1>0, <1>3 DEF InsertStep, logVars
  <2>6. Goto(r, IF n = Len(Chain[v]) THEN "audit" ELSE "insertSteps")
    BY <1>0, <1>3 DEF InsertStep
  <2> HIDE DEF t, s
  <2>7. steps'[v] = t /\ \A w \in Versions \ {v} : steps'[w] = steps[w]
    BY <1>1, <2>5 DEF IInv, TypeOK
  <2>8. call'[r] \in Call /\ call'[r].version = v /\ call'[r].step = n
    BY <1>0, <1>1, <2>5 DEF IInv, TypeOK, Call
  <2>9. TypeOK'
    <3>1. steps' \in [Versions -> Seq([rank: Nat, status: StepStatuses])]
      BY <2>4, <2>5 DEF IInv, TypeOK
    <3>2. call' \in [Requests -> Call \cup {NoCall}]
      BY <2>5, <2>8 DEF IInv, TypeOK
    <3>3. pc' \in [Requests -> Places]
      BY <2>6 DEF IInv, TypeOK, Goto, Places
    <3> QED
      BY <3>1, <3>2, <3>3, <2>4, <2>5, <2>7 DEF IInv, TypeOK
  <2>10. Grows
    BY <1>1, <1>3, <2>4, <2>5, <2>7, StepsLength DEF IInv, VersionOK, Grows
  <2>11. VersionOK(v)'
    <3>1. VersionOK(v) /\ Len(steps'[v]) = Len(steps[v]) + 1
      BY <1>1, <2>4, <2>7 DEF IInv
    <3>2. Len(steps[v]) < n /\ ~(v \notin early /\ WasSubmitted(v))
      BY <1>1, <1>3, <3>1 DEF VersionOK
    <3>3. \A m \in 1..Len(steps'[v]) : steps'[v][m].status = "pending"
            => m \in 1..Len(steps[v]) /\ steps[v][m].status = "pending"
      <4>1. PICK k : k = Len(steps[v])
        OBVIOUS
      <4>2. k \in Nat /\ Len(t) = k + 1 /\ steps'[v] = t
        BY <1>1, <2>4, <2>7, <4>1
      <4>3. \A m \in 1..(k + 1) : m \in 1..k \/ m = k + 1
        BY <4>2
      <4>4. t[k + 1].status # "pending"
        BY <2>2, <2>4, <4>1
      <4>5. \A m \in 1..k : t[m] = steps[v][m]
        BY <2>4, <4>1
      <4> QED
        BY <4>1, <4>2, <4>3, <4>4, <4>5
    <3>4. granted'[v] = granted[v] /\ 1..Len(steps[v]) \subseteq 1..Len(steps'[v])
      BY <1>1, <2>5, <3>1
    <3> QED
      BY <1>1, <2>5, <3>1, <3>2, <3>3, <3>4 DEF VersionOK, WasSubmitted
  <2>12. ASSUME NEW w \in Versions \ {v} PROVE VersionOK(w)'
    BY <2>5, <2>7 DEF IInv, VersionOK, WasSubmitted
  <2>13. RequestOK(r)'
    BY <1>1, <2>5, <2>6, <2>8
    DEF IInv, TypeOK, Goto, RequestOK, Holds, Begun, Stocked, Deciding, Activating
  <2> QED
    BY <1>2, <2>9, <2>10, <2>11, <2>12, <2>13, StepDone
<1>4. CASE ~(n > Len(steps[v]))
  <2>1. /\ End(r) /\ UNCHANGED <<steps, status, active, events, audited>>
        /\ UNCHANGED <<granted, early, faults>>
    BY <1>0, <1>4 DEF InsertStep, logVars
  <2>2. TypeOK'
    BY <2>1 DEF IInv, TypeOK, End, Goto, Places
  <2>3. Grows
    BY <2>1, GrowsSame
  <2>4. ASSUME NEW w \in Versions PROVE VersionOK(w)'
    BY <2>1, VersionKept DEF IInv, WasSubmitted
  <2>5. RequestOK(r)'
    BY <2>1 DEF IInv, TypeOK, RequestOK, End, Goto
  <2> QED
    BY <1>2, <2>2, <2>3, <2>4, <2>5, StepDone
<1> QED
  BY <1>3, <1>4

LEMMA BeginSubmitInv ==
    ASSUME IInv, NEW r \in Requests, NEW v \in Versions, BeginSubmit(r, v)
    PROVE  IInv'
<1> USE DEF BeginSubmit, Begin, Goto, logVars, ruleVars
<1>1. CallOf("submit", v) \in Call /\ CallOf("submit", v).version = v
  BY DEF CallOf, Call, Operations, Decisions, DefaultRank
<1>2. TypeOK'
  BY <1>1 DEF IInv, TypeOK, Places
<1>3. Grows
  BY GrowsSame
<1>4. ASSUME NEW w \in Versions PROVE VersionOK(w)'
  BY VersionKept DEF IInv, WasSubmitted
<1>5. RequestOK(r)'
  <2>1. Len(steps[v]) \in Nat /\ Len(Chain[v]) \in Nat /\ Len(steps[v]) <= Len(Chain[v])
    BY StepsLength, ChainLength DEF IInv, VersionOK
  <2>2. v \notin early' => Len(steps'[v]) = Len(Chain[v])
    BY <2>1
  <2>3. pc'[r] = "listSteps" /\ call'[r] = CallOf("submit", v)
    BY DEF IInv, TypeOK
  <2> QED
    BY <1>1, <2>2, <2>3 DEF RequestOK, Holds, Begun, Stocked, Deciding, Activating
<1>6. OnlyMoves(r)
  BY DEF OnlyMoves, IInv, TypeOK
<1> QED
  BY <1>2, <1>3, <1>4, <1>5, <1>6, StepDone

LEMMA ListStepsInv ==
    ASSUME IInv, NEW r \in Requests, ListSteps(r)
    PROVE  IInv'
<1> USE DEF ListSteps, AfterListing, Goto, logVars, ruleVars
<1>1. TypeOK'
  BY DEF IInv, TypeOK, Places
<1>2. Grows
  BY GrowsSame
<1>3. ASSUME NEW w \in Versions PROVE VersionOK(w)'
  BY VersionKept DEF IInv, WasSubmitted
<1>4. RequestOK(r)'
  <2>1. PICK c, v : c = call[r] /\ v = c.version
    OBVIOUS
  <2>2. Holds("listSteps", c) /\ v \in Versions
    BY <2>1, AtWork
  <2>3. /\ call'[r] = c
        /\ pc'[r] = IF steps[v] = <<>> THEN "insertDefault" ELSE "resetSteps"
    BY <2>1 DEF IInv, TypeOK
  <2>4. steps[v] # <<>> => Len(steps[v]) >= 1
    BY <2>2, StepsLength DEF IInv
  <2> QED
    BY <2>1, <2>2, <2>3, <2>4 DEF RequestOK, Holds, Begun, Stocked, Deciding, Activating, Places
<1>5. OnlyMoves(r)
  BY DEF OnlyMoves, IInv, TypeOK
<1> QED
  BY <1>1, <1>2, <1>3, <1>4, <1>5, StepDone

LEMMA InsertDefaultInv ==
    ASSUME IInv, NEW r \in Requests, InsertDefault(r)
    PROVE  IInv'
<1>1. PICK c, v : c = call[r] /\ v = c.version
  OBVIOUS
<1>2. Holds("insertDefault", c) /\ v \in Versions /\ c \in Call /\ pc[r] = "insertDefault"
  BY <1>1, AtWork DEF InsertDefault
<1>3. OnlyMoves(r)
  BY DEF InsertDefault, OnlyMoves, IInv, TypeOK, Goto, End
<1>4. CASE steps[v] = <<>>
  <2> DEFINE t == <<QueuedStep(DefaultRank)>>
  <2>1. /\ t \in Seq([rank: Nat, status: StepStatuses])
        /\ Len(t) = 1 /\ t # <<>> /\ t[1].status = "queued"
    BY DEF QueuedStep, StepStatuses, DefaultRank
  <2>2. /\ steps' = [steps EXCEPT ![v] = t] /\ Goto(r, "resetSteps")
        /\ UNCHANGED <<call, status, active, events, audited, granted, early, faults>>
    BY <1>1, <1>4 DEF InsertDefault, logVars
  <2> HIDE DEF t
  <2>3. steps'[v] = t /\ \A w \in Versions \ {v} : steps'[w] = steps[w]
    BY <1>2, <2>2 DEF IInv, TypeOK
  <2>4. Len(steps[v]) = 0 /\ Len(Chain[v]) \in Nat /\ Len(Chain[v]) >= 1
    BY <1>2, <1>4, ChainLength
  <2>5. v \in early
    BY <1>1, <1>2, <2>4 DEF Holds, Begun, Places
  <2>6. granted[v] = {} /\ VersionOK(v)
    BY <1>2, <2>4 DEF IInv, VersionOK
  <2>7. TypeOK'
    <3>1. steps' \in [Versions -> Seq([rank: Nat, status: StepStatuses])]
      BY <2>1, <2>2 DEF IInv, TypeOK
    <3> QED
      BY <2>1, <2>2, <2>3, <3>1 DEF IInv, TypeOK, Goto, Places
  <2>8. Grows
    <3>1. ASSUME NEW w \in Versions \ {v}
          PROVE  /\ granted[w] = granted'[w] /\ Len(steps[w]) = Len(steps'[w])
                 /\ Len(steps[w]) \in Nat /\ Len(steps[w]) <= Len(Chain[w])
                 /\ granted[w] \subseteq 1..Len(steps[w])
      BY <2>2, <2>3, StepsLength DEF IInv, VersionOK
    <3>2. Len(steps'[v]) = 1 /\ granted'[v] = {} /\ early' = early
      BY <2>1, <2>2, <2>3, <2>6
    <3>3. ASSUME NEW w \in Versions
          PROVE  /\ granted[w] \subseteq granted'[w]
                 /\ Len(steps[w]) \in Nat /\ Len(steps'[w]) \in Nat
                 /\ Len(steps[w]) <= Len(steps'[w])
                 /\ Len(steps'[w]) <= Len(Chain[w])
                 /\ granted'[w] \subseteq 1..Len(steps'[w])
      <4>1. CASE w = v
        <5>1. granted[v] \subseteq granted'[v]
          BY <2>6, <3>2
        <5>2. granted'[v] \subseteq 1..Len(steps'[v])
          BY <3>2
        <5>3. Len(steps[v]) \in Nat /\ Len(steps'[v]) \in Nat
          BY <2>4, <3>2
        <5>4. Len(steps[v]) <= Len(steps'[v]) /\ Len(steps'[v]) <= Len(Chain[v])
          BY <2>4, <3>2
        <5> QED
          BY <4>1, <5>1, <5>2, <5>3, <5>4
      <4>2. CASE w # v
        BY <3>1, <4>2
      <4> QED
        BY <4>1, <4>2
    <3> QED
      BY <3>2, <3>3 DEF Grows
  <2>9. VersionOK(v)'
    <3>1. Len(steps'[v]) = 1 /\ steps'[v][1].status = "queued"
      BY <2>1, <2>3
    <3>2. granted'[v] = {} /\ v \in early'
      BY <2>2, <2>5, <2>6
    <3> QED
      BY <2>4, <3>1, <3>2 DEF VersionOK
  <2>10. ASSUME NEW w \in Versions PROVE VersionOK(w)'
    BY <2>2, <2>3, <2>9 DEF IInv, VersionOK, WasSubmitted
  <2>11. RequestOK(r)'
    <3>1. pc'[r] = "resetSteps" /\ call'[r] = c
      BY <1>1, <2>2 DEF IInv, TypeOK, Goto
    <3>2. Len(steps'[v]) >= 1 /\ v \in early'
      BY <2>1, <2>2, <2>3, <2>5
    <3> QED
      BY <1>1, <1>2, <3>1, <3>2 DEF RequestOK, Holds, Deciding, Activating
  <2> QED
    BY <1>3, <2>7, <2>8, <2>10, <2>11, StepDone
<1>5. CASE steps[v] # <<>>
  <2>1. /\ End(r)
        /\ UNCHANGED <<steps, status, active, events, audited, granted, early, faults>>
    BY <1>1, <1>5 DEF InsertDefault, logVars
  <2>2. TypeOK'
    BY <2>1 DEF IInv, TypeOK, End, Goto, Places
  <2>3. Grows
    BY <2>1, GrowsSame
  <2>4. ASSUME NEW w \in Versions PROVE VersionOK(w)'
    BY <2>1, VersionKept DEF IInv, WasSubmitted
  <2>5. RequestOK(r)'
    BY <2>1 DEF IInv, TypeOK, RequestOK, End, Goto
  <2> QED
    BY <1>3, <2>2, <2>3, <2>4, <2>5, StepDone
<1> QED
  BY <1>4, <1>5

LEMMA SubmitVersionInv ==
    ASSUME IInv, NEW r \in Requests, SubmitVersion(r)
    PROVE  IInv'
<1> USE DEF SubmitVersion, Goto, logVars
<1>1. PICK c, v : c = call[r] /\ v = c.version
  OBVIOUS
<1>2. Holds("submitVersion", c) /\ v \in Versions /\ c \in Call
  BY <1>1, AtWork
<1>3. /\ Len(steps[v]) \in Nat /\ Len(steps[v]) >= 1 /\ steps[v] # <<>>
      /\ v \notin early => Len(steps[v]) = Len(Chain[v])
  BY <1>1, <1>2, StepsLength, EmptyLength DEF IInv, Holds, Stocked, Begun, Places
<1>4. TypeOK'
  BY <1>1, <1>2, <1>3 DEF IInv, TypeOK, Places, Statuses
<1>5. Grows
  BY GrowsSame
<1>6. VersionOK(v)'
  BY <1>1, <1>2, <1>3 DEF IInv, TypeOK, VersionOK
<1>7. ASSUME NEW w \in Versions \ {v} PROVE VersionOK(w)'
  BY <1>1, VersionKept DEF IInv, TypeOK, WasSubmitted
<1>8. RequestOK(r)'
  BY <1>1, <1>2 DEF IInv, TypeOK, RequestOK, Holds, Begun, Stocked, Deciding, Activating
<1>9. OnlyMoves(r)
  BY DEF OnlyMoves, IInv, TypeOK
<1> QED
  BY <1>4, <1>5, <1>6, <1>7, <1>8, <1>9, StepDone

LEMMA ResetStepsInv ==
    ASSUME IInv, NEW r \in Requests, ResetSteps(r)
    PROVE  IInv'
<1>1. PICK c, v : c = call[r] /\ v = c.version
  OBVIOUS
<1>2. Holds("resetSteps", c) /\ v \in Versions /\ c \in Call /\ pc[r] = "resetSteps"
  BY <1>1, AtWork DEF ResetSteps
<1>3. steps[v] \in Seq(StepRecord) /\ Len(steps[v]) \in Nat /\ Len(steps[v]) >= 1
  BY <1>1, <1>2, StepsLength DEF IInv, TypeOK, StepRecord, Holds, Stocked, Begun, Places
<1> DEFINE q == steps[v]
           t == [n \in DOMAIN q |-> [q[n] EXCEPT !.status = "queued"]]
<1>4. \A n \in 1..Len(q) : [q[n] EXCEPT !.status = "queued"] \in StepRecord
  <2>1. ASSUME NEW n \in 1..Len(q) PROVE q[n] \in StepRecord
    BY <1>3, ElementOfSeq
  <2> QED
    BY <2>1 DEF StepRecord, StepStatuses
<1>5. DOMAIN q = 1..Len(q)
  BY <1>3, LenProperties
<1>6. t \in [1..Len(q) -> StepRecord]
  BY <1>4, <1>5
<1>7. t \in Seq(StepRecord) /\ Len(t) = Len(q) /\ t # <<>>
  <2>1. t \in Seq(StepRecord) /\ Len(t) = Len(q)
    <3> HIDE DEF t
    <3> QED
      BY <1>3, <1>6, FunctionIsSeq
  <2> QED
    BY <1>3, <2>1, EmptyLength
<1>8. \A n \in 1..Len(q) : t[n].status = "queued"
  <2>1. ASSUME NEW n \in 1..Len(q) PROVE q[n] \in StepRecord
    BY <1>3, ElementOfSeq
  <2> QED
    BY <1>5, <2>1 DEF StepRecord
<1>9. /\ steps' = [steps EXCEPT ![v] = t] /\ Goto(r, "startFirst")
      /\ UNCHANGED <<call, status, active, events, audited, granted, early, faults>>
  BY <1>1 DEF ResetSteps, logVars
<1> HIDE DEF t
<1>10. steps'[v] = t /\ \A w \in Versions \ {v} : steps'[w] = steps[w]
  BY <1>2, <1>9 DEF IInv, TypeOK
<1>11. TypeOK'
  <2>1. steps' \in [Versions -> Seq([rank: Nat, status: StepStatuses])]
    BY <1>7, <1>9 DEF IInv, TypeOK, StepRecord
  <2> QED
    BY <1>7, <1>9, <1>10, <2>1 DEF IInv, TypeOK, Goto, Places
<1>12. \A w \in Versions : Len(steps'[w]) = Len(steps[w])
  BY <1>7, <1>10
<1>13. Grows
  BY <1>9, <1>12, StepsLength DEF IInv, VersionOK, Grows
<1>14. VersionOK(v)'
  BY <1>2, <1>7, <1>8, <1>9, <1>10 DEF IInv, VersionOK, WasSubmitted
<1>15. ASSUME NEW w \in Versions \ {v} PROVE VersionOK(w)'
  BY <1>9, <1>10, VersionKept DEF IInv, WasSubmitted
<1>16. RequestOK(r)'
  BY <1>1, <1>2, <1>9, <1>12
  DEF IInv, TypeOK, Goto, RequestOK, Holds, Begun, Stocked, Deciding, Activating, Places
<1>17. OnlyMoves(r)
  BY <1>9 DEF OnlyMoves, Goto, IInv, TypeOK
<1> QED
  BY <1>11, <1>13, <1>14, <1>15, <1>16, <1>17, StepDone

\* One step of v becomes s: what MarkStep, MarkNext and StartFirst have in common.
LEMMA StepSetVersions ==
    ASSUME IInv, NEW v \in Versions, NEW n \in 1..Len(steps[v]),
           NEW s \in StepStatuses, SetStep(v, n, s),
           UNCHANGED <<status, active, early>>,
           \A w \in Versions \ {v} : granted'[w] = granted[w],
           granted[v] \subseteq granted'[v],
           granted'[v] \subseteq granted[v] \cup {n},
           1..(n - 1) \subseteq granted[v]
    PROVE  Grows /\ \A w \in Versions : VersionOK(w)'
<1>1. /\ \A w \in Versions : Len(steps'[w]) = Len(steps[w])
      /\ \A w \in Versions \ {v} : steps'[w] = steps[w]
      /\ \A m \in 1..Len(steps[v]) :
           steps'[v][m].status = IF m = n THEN s ELSE steps[v][m].status
  BY StepSet DEF IInv
<1>2. /\ VersionOK(v) /\ Len(steps[v]) \in Nat /\ Len(Chain[v]) \in Nat
      /\ granted[v] \subseteq 1..Len(steps[v])
  BY StepsLength, ChainLength DEF IInv, VersionOK
<1>3. granted'[v] \subseteq 1..Len(steps[v])
  BY <1>2
<1>4. VersionOK(v)'
  <2>1. \A m \in granted'[v] : 1..(m - 1) \subseteq granted'[v]
    BY <1>2, <1>3 DEF VersionOK
  <2>2. \A m \in 1..Len(steps'[v]) : steps'[v][m].status = "pending"
          => 1..(m - 1) \subseteq granted'[v]
    BY <1>1, <1>2 DEF VersionOK
  <2>3. v \notin early /\ (status[v] \in {"approved", "active"} \/ active = v)
          => granted'[v] = 1..Len(Chain[v])
    <3>1. 1..Len(steps[v]) \subseteq 1..Len(Chain[v])
      BY <1>2 DEF VersionOK
    <3> QED
      BY <1>2, <1>3, <3>1 DEF VersionOK
  <2> QED
    BY <1>1, <1>2, <1>3, <2>1, <2>2, <2>3 DEF VersionOK, WasSubmitted
<1>5. ASSUME NEW w \in Versions \ {v} PROVE VersionOK(w)'
  BY <1>1, VersionKept DEF IInv, WasSubmitted
<1>6. Grows
  <2>1. ASSUME NEW w \in Versions
        PROVE  /\ granted[w] \subseteq granted'[w]
               /\ Len(steps[w]) \in Nat /\ Len(steps[w]) <= Len(Chain[w])
               /\ granted'[w] \subseteq 1..Len(steps[w])
    <3>1. CASE w = v
      BY <1>2, <1>3, <3>1 DEF VersionOK
    <3>2. CASE w # v
      BY <3>2, StepsLength DEF IInv, VersionOK
    <3> QED
      BY <3>1, <3>2
  <2> QED
    BY <1>1, <2>1 DEF Grows
<1> QED
  BY <1>4, <1>5, <1>6

LEMMA StartFirstInv ==
    ASSUME IInv, NEW r \in Requests, StartFirst(r)
    PROVE  IInv'
<1>1. PICK c, v : c = call[r] /\ v = c.version
  OBVIOUS
<1>2. Holds("startFirst", c) /\ v \in Versions /\ c \in Call /\ pc[r] = "startFirst"
  BY <1>1, AtWork DEF StartFirst
<1>3. Len(steps[v]) \in Nat /\ Len(steps[v]) >= 1
  BY <1>1, <1>2, StepsLength DEF IInv, Holds, Stocked, Begun, Places
<1>4. /\ SetStep(v, 1, "pending") /\ Goto(r, "submitVersion")
      /\ call' = [call EXCEPT ![r].step = 1]
      /\ UNCHANGED <<status, active, events, audited, granted, early, faults>>
  BY <1>1 DEF StartFirst, FirstStep, logVars
<1>5. 1 \in 1..Len(steps[v]) /\ "pending" \in StepStatuses /\ 1..(1 - 1) \subseteq granted[v]
  BY <1>3 DEF StepStatuses
<1>6. /\ steps' \in [Versions -> Seq(StepRecord)]
      /\ \A w \in Versions : Len(steps'[w]) = Len(steps[w])
  BY <1>2, <1>4, <1>5, StepSet DEF IInv
<1>7. Grows /\ \A w \in Versions : VersionOK(w)'
  BY <1>2, <1>4, <1>5, StepSetVersions
<1>8. call'[r] \in Call /\ call'[r].version = v
  BY <1>1, <1>2, <1>4 DEF IInv, TypeOK, Call
<1>9. TypeOK'
  <2>1. ASSUME NEW w \in Versions, steps[w] # <<>> PROVE steps'[w] # <<>>
    BY <1>6, <2>1, StepsLength, EmptyLength DEF IInv
  <2>2. call' \in [Requests -> Call \cup {NoCall}]
    BY <1>4, <1>8 DEF IInv, TypeOK
  <2> QED
    BY <1>4, <1>6, <2>1, <2>2 DEF IInv, TypeOK, StepRecord, Goto, Places
<1>10. RequestOK(r)'
  BY <1>1, <1>2, <1>4, <1>6, <1>8
  DEF IInv, TypeOK, Goto, RequestOK, Holds, Begun, Stocked, Deciding, Activating, Places
<1>11. OnlyMoves(r)
  BY <1>4 DEF OnlyMoves, Goto, IInv, TypeOK
<1> QED
  BY <1>7, <1>9, <1>10, <1>11, StepDone

LEMMA BeginDecideInv ==
    ASSUME IInv, NEW r \in Requests, NEW v \in Versions, NEW rank \in Ranks,
           NEW decision \in Decisions, BeginDecide(r, v, rank, decision)
    PROVE  IInv'
<1>1. PICK c : c = [CallOf("decide", v) EXCEPT !.rank = rank, !.decision = decision]
  OBVIOUS
<1>2. c \in Call /\ c.version = v
  BY <1>1, RanksAssumption DEF CallOf, Call, Operations, DefaultRank
<1>3. /\ pc' = [pc EXCEPT ![r] = "readSteps"] /\ call' = [call EXCEPT ![r] = c]
      /\ status[v] = "pending_approval"
      /\ UNCHANGED <<steps, status, active, events, audited, granted, early, faults>>
  BY <1>1 DEF BeginDecide, Begin, Goto, ruleVars, logVars
<1>4. TypeOK'
  BY <1>2, <1>3 DEF IInv, TypeOK, Places
<1>5. Grows
  BY <1>3, GrowsSame
<1>6. ASSUME NEW w \in Versions PROVE VersionOK(w)'
  BY <1>3, VersionKept DEF IInv, WasSubmitted
<1>7. RequestOK(r)'
  <2>1. pc'[r] = "readSteps" /\ call'[r] = c
    BY <1>3 DEF IInv, TypeOK
  <2>2. Len(steps[v]) >= 1 /\ (v \notin early => Len(steps[v]) = Len(Chain[v]))
    BY <1>3 DEF IInv, VersionOK, WasSubmitted
  <2> QED
    BY <1>2, <1>3, <2>1, <2>2 DEF RequestOK, Holds, Deciding, Activating
<1>8. OnlyMoves(r)
  BY <1>3 DEF OnlyMoves, IInv, TypeOK
<1> QED
  BY <1>4, <1>5, <1>6, <1>7, <1>8, StepDone

LEMMA ReadStepsInv ==
    ASSUME IInv, NEW r \in Requests, ReadSteps(r)
    PROVE  IInv'
<1>1. PICK c, v : c = call[r] /\ v = c.version
  OBVIOUS
<1>2. /\ Holds("readSteps", c) /\ v \in Versions /\ c \in Call /\ pc[r] = "readSteps"
      /\ UNCHANGED <<steps, status, active, events, audited, granted, early, faults>>
  BY <1>1, AtWork DEF ReadSteps, ruleVars, logVars
<1>3. Grows
  BY <1>2, GrowsSame
<1>4. ASSUME NEW w \in Versions PROVE VersionOK(w)'
  BY <1>2, VersionKept DEF IInv, WasSubmitted
<1>5. CASE End(r)
  <2>1. TypeOK'
    BY <1>2, <1>5 DEF IInv, TypeOK, End, Goto, Places
  <2>2. RequestOK(r)' /\ OnlyMoves(r)
    BY <1>5 DEF IInv, TypeOK, RequestOK, OnlyMoves, End, Goto
  <2> QED
    BY <1>3, <1>4, <2>1, <2>2, StepDone
<1>6. CASE ~End(r)
  <2>1. PICK n \in PendingSteps(v) :
          /\ call' = [call EXCEPT ![r].step = n, ![r].next = NextStep(v, n)]
          /\ Goto(r, "markStep")
    BY <1>1, <1>6 DEF ReadSteps
  <2>2. /\ steps[v] \in Seq(StepRecord) /\ Len(steps[v]) \in Nat /\ Len(Chain[v]) \in Nat
        /\ DOMAIN steps[v] = 1..Len(steps[v])
    BY <1>2, StepsLength, ChainLength, LenProperties DEF IInv, TypeOK, StepRecord
  <2>3. n \in 1..Len(steps[v]) /\ steps[v][n].status = "pending"
    BY <2>1, <2>2 DEF PendingSteps
  <2>4. 1..(n - 1) \subseteq granted[v]
    BY <1>2, <2>3 DEF IInv, VersionOK
  <2>5. PICK m : m = NextStep(v, n)
    OBVIOUS
  <2>6. /\ m \in {0, n + 1} /\ m \in Nat /\ m <= Len(steps[v])
        /\ m = 0 => n = Len(steps[v])
    BY <2>2, <2>3, <2>5 DEF NextStep
  <2>7. PICK e : e = [c EXCEPT !.step = n, !.next = m]
    OBVIOUS
  <2>8. e \in Call /\ e.version = v /\ e.step = n /\ e.next = m
    <3>1. PICK d : d = [c EXCEPT !.step = n]
      OBVIOUS
    <3>2. d \in Call /\ d.version = v /\ d.step = n
      BY <1>1, <1>2, <2>2, <2>3, <3>1 DEF Call
    <3>3. e = [d EXCEPT !.next = m]
      BY <2>7, <3>1
    <3> QED
      BY <2>6, <3>2, <3>3 DEF Call
  <2>9. pc' = [pc EXCEPT ![r] = "markStep"] /\ call' = [call EXCEPT ![r] = e]
    BY <1>1, <2>1, <2>5, <2>7 DEF Goto
  <2>10. TypeOK'
    BY <1>2, <2>8, <2>9 DEF IInv, TypeOK, Places
  <2>11. RequestOK(r)'
    <3>1. Len(steps[v]) >= 1 /\ (v \notin early => Len(steps[v]) = Len(Chain[v]))
      BY <1>1, <1>2 DEF Holds, Stocked, Begun, Places
    <3>2. pc'[r] = "markStep" /\ call'[r] = e
      BY <2>9 DEF IInv, TypeOK
    <3> QED
      BY <1>2, <2>3, <2>4, <2>6, <2>8, <3>1, <3>2 DEF RequestOK, Holds, Activating
  <2>12. OnlyMoves(r)
    BY <2>9 DEF OnlyMoves, IInv, TypeOK
  <2> QED
    BY <1>3, <1>4, <2>10, <2>11, <2>12, StepDone
<1> QED
  BY <1>5, <1>6

LEMMA MarkStepInv ==
    ASSUME IInv, NEW r \in Requests, MarkStep(r)
    PROVE  IInv'
<1>1. PICK c, v : c = call[r] /\ v = c.version
  OBVIOUS
<1>2. /\ Holds("markStep", c) /\ v \in Versions /\ c \in Call /\ pc[r] = "markStep"
      /\ c.decision \in Decisions
  BY <1>1, AtWork DEF MarkStep, Call
<1>3. /\ c.step \in 1..Len(steps[v]) /\ 1..(c.step - 1) \subseteq granted[v]
  BY <1>1, <1>2 DEF Holds, Deciding
<1>4. /\ SetStep(v, c.step, c.decision)
      /\ granted' = IF c.decision = "approved"
                    THEN [granted EXCEPT ![v] = @ \cup {c.step}] ELSE granted
      /\ Goto(r, IF c.decision = "approved" /\ c.next # 0 THEN "markNext" ELSE "judgeVersion")
      /\ UNCHANGED <<status, active, events, audited, call, early, faults>>
  BY <1>1 DEF MarkStep, logVars
<1>5. c.decision \in StepStatuses
  BY <1>2 DEF Decisions, StepStatuses
<1>6. /\ steps' \in [Versions -> Seq(StepRecord)]
      /\ \A w \in Versions : Len(steps'[w]) = Len(steps[w])
  BY <1>2, <1>3, <1>4, <1>5, StepSet DEF IInv
<1>7. /\ granted' \in [Versions -> SUBSET Nat]
      /\ \A w \in Versions \ {v} : granted'[w] = granted[w]
      /\ granted[v] \subseteq granted'[v]
      /\ granted'[v] \subseteq granted[v] \cup {c.step}
      /\ c.decision = "approved" => c.step \in granted'[v]
  BY <1>2, <1>3, <1>4 DEF IInv, TypeOK
<1>8. Grows /\ \A w \in Versions : VersionOK(w)'
  BY <1>2, <1>3, <1>4, <1>5, <1>7, StepSetVersions
<1>9. TypeOK'
  <2>1. ASSUME NEW w \in Versions, steps[w] # <<>> PROVE steps'[w] # <<>>
    BY <1>6, <2>1, StepsLength, EmptyLength DEF IInv
  <2> QED
    BY <1>4, <1>6, <1>7, <2>1 DEF IInv, TypeOK, StepRecord, Goto, Places
<1>10. RequestOK(r)'
  <2>1. PICK place : place = IF c.decision = "approved" /\ c.next # 0
                             THEN "markNext" ELSE "judgeVersion"
    OBVIOUS
  <2>2. call'[r] = c /\ pc'[r] = place
    BY <1>1, <1>4, <2>1 DEF IInv, TypeOK, Goto
  <2>3. Holds("markStep", c)'
    BY <1>2, <1>8, Kept
  <2>4. Holds(place, c)'
    BY <1>1, <1>7, <2>1, <2>3 DEF Holds, Begun, Stocked, Deciding, Activating, Places
  <2> QED
    BY <2>2, <2>4 DEF RequestOK, Holds
<1>11. OnlyMoves(r)
  BY <1>4 DEF OnlyMoves, Goto, IInv, TypeOK
<1> QED
  BY <1>8, <1>9, <1>10, <1>11, StepDone

LEMMA MarkNextInv ==
    ASSUME IInv, NEW r \in Requests, MarkNext(r)
    PROVE  IInv'
<1>1. PICK c, v : c = call[r] /\ v = c.version
  OBVIOUS
<1>2. Holds("markNext", c) /\ v \in Versions /\ c \in Call /\ pc[r] = "markNext"
  BY <1>1, AtWork DEF MarkNext
<1>3. /\ c.step \in Nat \ {0} /\ c.next = c.step + 1 /\ c.next <= Len(steps[v])
      /\ 1..(c.step - 1) \subseteq granted[v] /\ c.step \in granted[v]
      /\ Len(steps[v]) \in Nat
  BY <1>1, <1>2, StepsLength DEF IInv, Holds, Deciding
<1>4. c.next \in 1..Len(steps[v]) /\ 1..(c.next - 1) \subseteq granted[v]
  BY <1>3
<1>5. /\ SetStep(v, c.next, "pending") /\ Goto(r, "judgeVersion")
      /\ UNCHANGED <<status, active, events, audited, call, granted, early, faults>>
  BY <1>1 DEF MarkNext, logVars
<1>6. "pending" \in StepStatuses
  BY DEF StepStatuses
<1>7. /\ steps' \in [Versions -> Seq(StepRecord)]
      /\ \A w \in Versions : Len(steps'[w]) = Len(steps[w])
  BY <1>2, <1>4, <1>5, <1>6, StepSet DEF IInv
<1>8. Grows /\ \A w \in Versions : VersionOK(w)'
  BY <1>2, <1>4, <1>5, <1>6, StepSetVersions
<1>9. TypeOK'
  <2>1. ASSUME NEW w \in Versions, steps[w] # <<>> PROVE steps'[w] # <<>>
    BY <1>7, <2>1, StepsLength, EmptyLength DEF IInv
  <2> QED
    BY <1>5, <1>7, <2>1 DEF IInv, TypeOK, StepRecord, Goto, Places
<1>10. RequestOK(r)'
  <2>1. call'[r] = c /\ pc'[r] = "judgeVersion"
    BY <1>1, <1>5 DEF IInv, TypeOK, Goto
  <2>2. Holds("markNext", c)'
    BY <1>2, <1>8, Kept
  <2> QED
    BY <1>1, <2>1, <2>2 DEF RequestOK, Holds, Begun, Stocked, Deciding, Activating, Places
<1>11. OnlyMoves(r)
  BY <1>5 DEF OnlyMoves, Goto, IInv, TypeOK
<1> QED
  BY <1>8, <1>9, <1>10, <1>11, StepDone

LEMMA JudgeVersionInv ==
    ASSUME IInv, NEW r \in Requests, JudgeVersion(r)
    PROVE  IInv'
<1>1. PICK c, v, s : c = call[r] /\ v = c.version /\ s = Verdict(c.decision, c.next)
  OBVIOUS
<1>2. Holds("judgeVersion", c) /\ v \in Versions /\ c \in Call /\ c.decision \in Decisions
  BY <1>1, AtWork DEF JudgeVersion, Call
<1>3. /\ status' = [status EXCEPT ![v] = s] /\ Goto(r, "event")
      /\ UNCHANGED <<steps, active, events, audited, call, granted, early, faults>>
  BY <1>1 DEF JudgeVersion, logVars
<1>4. /\ s \in Statuses \ {"absent", "draft", "active"}
      /\ s = "approved" => c.decision = "approved" /\ c.next = 0
  BY <1>1, <1>2 DEF Verdict, Decisions, Statuses
<1>5. /\ c.step \in 1..Len(steps[v]) /\ Len(steps[v]) \in Nat /\ Len(steps[v]) >= 1
      /\ steps[v] # <<>> /\ v \notin early => Len(steps[v]) = Len(Chain[v])
  BY <1>1, <1>2, StepsLength, EmptyLength DEF IInv, Holds, Deciding, Stocked, Begun, Places
<1>6. TypeOK'
  <2>1. status' \in [Versions -> Statuses]
    BY <1>2, <1>3, <1>4 DEF IInv, TypeOK
  <2>2. \A w \in Versions : status'[w] \notin {"absent", "draft"} => steps'[w] # <<>>
    BY <1>3, <1>5 DEF IInv, TypeOK
  <2> QED
    BY <1>3, <2>1, <2>2 DEF IInv, TypeOK, Goto, Places
<1>7. Grows
  BY <1>3, GrowsSame
<1>8. VersionOK(v)'
  \* The last step was granted, and all before it.
  <2>1. ASSUME s = "approved", v \notin early PROVE granted[v] = 1..Len(Chain[v])
    <3>1. c.step = Len(Chain[v]) /\ 1..(c.step - 1) \subseteq granted[v] /\ c.step \in granted[v]
      BY <1>1, <1>2, <1>4, <2>1 DEF Holds, Deciding
    <3>2. 1..Len(Chain[v]) \subseteq granted[v]
      BY <1>5, <2>1, <3>1
    <3>3. granted[v] \subseteq 1..Len(Chain[v])
      BY <1>2, <1>5, <2>1 DEF IInv, VersionOK
    <3> QED
      BY <3>2, <3>3
  <2>2. status'[v] = s /\ VersionOK(v)
    BY <1>2, <1>3 DEF IInv, TypeOK
  <2> QED
    BY <1>3, <1>4, <1>5, <2>1, <2>2 DEF VersionOK
<1>9. ASSUME NEW w \in Versions \ {v} PROVE VersionOK(w)'
  BY <1>3, VersionKept DEF IInv, TypeOK, WasSubmitted
<1>10. RequestOK(r)'
  BY <1>1, <1>2, <1>3
  DEF IInv, TypeOK, Goto, RequestOK, Holds, Begun, Stocked, Deciding, Activating
<1>11. OnlyMoves(r)
  BY <1>3 DEF OnlyMoves, Goto, IInv, TypeOK
<1> QED
  BY <1>6, <1>7, <1>8, <1>9, <1>10, <1>11, StepDone

LEMMA WriteEventInv ==
    ASSUME IInv, NEW r \in Requests, WriteEvent(r)
    PROVE  IInv'
<1>1. PICK c, v : c = call[r] /\ v = c.version
  OBVIOUS
<1>2. Holds("event", c) /\ v \in Versions /\ c \in Call /\ c.decision \in Decisions /\ c.step \in Nat
  BY <1>1, AtWork DEF WriteEvent, Call
<1>3. PICK e : e = <<c.step, IF c.op = "submit" THEN "submitted" ELSE c.decision>>
  OBVIOUS
<1>4. /\ events' = [events EXCEPT ![v] = @ \cup {e}] /\ Goto(r, "audit")
      /\ UNCHANGED <<steps, status, active, audited, call, granted, early, faults>>
  BY <1>1, <1>3 DEF WriteEvent, ruleVars
<1>5. e \in Nat \X (Decisions \cup {"submitted"})
  BY <1>2, <1>3
<1>6. TypeOK'
  BY <1>2, <1>4, <1>5 DEF IInv, TypeOK, Goto, Places
<1>7. Grows
  BY <1>4, GrowsSame
<1>8. ASSUME NEW w \in Versions PROVE VersionOK(w)'
  BY <1>4, VersionKept DEF IInv, WasSubmitted
<1>9. RequestOK(r)'
  BY <1>1, <1>2, <1>4
  DEF IInv, TypeOK, Goto, RequestOK, Holds, Begun, Stocked, Deciding, Activating
<1>10. OnlyMoves(r)
  BY <1>4 DEF OnlyMoves, Goto, IInv, TypeOK
<1> QED
  BY <1>6, <1>7, <1>8, <1>9, <1>10, StepDone

LEMMA WriteAuditLogInv ==
    ASSUME IInv, NEW r \in Requests, WriteAuditLog(r)
    PROVE  IInv'
<1> USE DEF WriteAuditLog, ruleVars
<1>1. call[r].op \in Operations /\ call[r].version \in Versions
  BY AtWork DEF Call
<1>2. TypeOK'
  <2>1. audited' \subseteq Operations \X Versions
    BY <1>1 DEF IInv, TypeOK
  <2>2. pc' \in [Requests -> Places] /\ call' \in [Requests -> Call \cup {NoCall}]
    BY DEF IInv, TypeOK, End, Goto, Places
  <2> QED
    BY <2>1, <2>2 DEF IInv, TypeOK
<1>3. Grows
  BY GrowsSame
<1>4. ASSUME NEW w \in Versions PROVE VersionOK(w)'
  BY VersionKept DEF IInv, WasSubmitted
<1>5. RequestOK(r)' /\ OnlyMoves(r)
  BY DEF IInv, TypeOK, RequestOK, OnlyMoves, End, Goto
<1> QED
  BY <1>2, <1>3, <1>4, <1>5, StepDone

LEMMA BeginActivateInv ==
    ASSUME IInv, NEW r \in Requests, NEW v \in Versions, BeginActivate(r, v)
    PROVE  IInv'
<1>1. PICK c : c = CallOf("activate", v)
  OBVIOUS
<1>2. c \in Call /\ c.version = v
  BY <1>1 DEF CallOf, Call, Operations, Decisions, DefaultRank
<1>3. /\ pc' = [pc EXCEPT ![r] = "deprecate"] /\ call' = [call EXCEPT ![r] = c]
      /\ status[v] \in {"approved", "active"}
      /\ UNCHANGED <<steps, status, active, events, audited, granted, early, faults>>
  BY <1>1 DEF BeginActivate, Begin, Goto, ruleVars, logVars
<1>4. TypeOK'
  BY <1>2, <1>3 DEF IInv, TypeOK, Places
<1>5. Grows
  BY <1>3, GrowsSame
<1>6. ASSUME NEW w \in Versions PROVE VersionOK(w)'
  BY <1>3, VersionKept DEF IInv, WasSubmitted
<1>7. RequestOK(r)'
  <2>1. pc'[r] = "deprecate" /\ call'[r] = c
    BY <1>3 DEF IInv, TypeOK
  <2>2. /\ Len(steps[v]) >= 1 /\ (v \notin early => Len(steps[v]) = Len(Chain[v]))
        /\ v \notin early => granted[v] = 1..Len(Chain[v])
    BY <1>3 DEF IInv, VersionOK, WasSubmitted
  <2> QED
    BY <1>2, <1>3, <2>1, <2>2 DEF RequestOK, Holds, Deciding
<1>8. OnlyMoves(r)
  BY <1>3 DEF OnlyMoves, IInv, TypeOK
<1> QED
  BY <1>4, <1>5, <1>6, <1>7, <1>8, StepDone

LEMMA DeprecateInv ==
    ASSUME IInv, NEW r \in Requests, Deprecate(r)
    PROVE  IInv'
<1>1. PICK c, v : c = call[r] /\ v = c.version
  OBVIOUS
<1>2. Holds("deprecate", c) /\ v \in Versions /\ c \in Call
  BY <1>1, AtWork DEF Deprecate
<1>3. /\ status' = [w \in Versions |->
                      IF w \in Superseded(v) THEN "deprecated" ELSE status[w]]
      /\ Goto(r, "activate")
      /\ UNCHANGED <<steps, active, events, audited, call, granted, early, faults>>
  BY <1>1 DEF Deprecate, logVars
<1>4. ASSUME NEW w \in Versions
      PROVE  /\ status'[w] \in Statuses
             /\ status'[w] = status[w] \/ (status[w] = "active" /\ status'[w] = "deprecated")
  <2>1. status[w] \in Statuses /\ "deprecated" \in Statuses
    BY DEF IInv, TypeOK, Statuses
  <2>2. status'[w] = IF w \in Superseded(v) THEN "deprecated" ELSE status[w]
    BY <1>3
  <2>3. w \in Superseded(v) => status[w] = "active"
    BY DEF Superseded
  <2> QED
    BY <2>1, <2>2, <2>3
<1>5. TypeOK'
  <2>1. status' \in [Versions -> Statuses]
    BY <1>3, <1>4
  <2>2. \A w \in Versions : status'[w] \notin {"absent", "draft"} => steps'[w] # <<>>
    BY <1>3, <1>4 DEF IInv, TypeOK
  <2> QED
    BY <1>3, <2>1, <2>2 DEF IInv, TypeOK, Goto, Places
<1>6. Grows
  BY <1>3, GrowsSame
<1>7. ASSUME NEW w \in Versions PROVE VersionOK(w)'
  BY <1>3, <1>4, VersionKept DEF IInv, WasSubmitted
<1>8. RequestOK(r)'
  BY <1>1, <1>2, <1>3
  DEF IInv, TypeOK, Goto, RequestOK, Holds, Begun, Stocked, Deciding, Activating, Places
<1>9. OnlyMoves(r)
  BY <1>3 DEF OnlyMoves, Goto, IInv, TypeOK
<1> QED
  BY <1>5, <1>6, <1>7, <1>8, <1>9, StepDone

LEMMA ActivateInv ==
    ASSUME IInv, NEW r \in Requests, Activate(r)
    PROVE  IInv'
<1>1. PICK c, v : c = call[r] /\ v = c.version
  OBVIOUS
<1>2. Holds("activate", c) /\ v \in Versions /\ c \in Call
  BY <1>1, AtWork DEF Activate
<1>3. /\ status' = [status EXCEPT ![v] = "active"] /\ Goto(r, "pointRule")
      /\ UNCHANGED <<steps, active, events, audited, call, granted, early, faults>>
  BY <1>1 DEF Activate, logVars
<1>4. /\ Len(steps[v]) \in Nat /\ Len(steps[v]) >= 1 /\ steps[v] # <<>>
      /\ v \notin early => Len(steps[v]) = Len(Chain[v]) /\ granted[v] = 1..Len(Chain[v])
  BY <1>1, <1>2, StepsLength, EmptyLength
  DEF IInv, Holds, Activating, Stocked, Begun, Places
<1>5. TypeOK'
  <2>1. status' \in [Versions -> Statuses]
    BY <1>2, <1>3 DEF IInv, TypeOK, Statuses
  <2>2. \A w \in Versions : status'[w] \notin {"absent", "draft"} => steps'[w] # <<>>
    BY <1>3, <1>4 DEF IInv, TypeOK
  <2> QED
    BY <1>3, <2>1, <2>2 DEF IInv, TypeOK, Goto, Places
<1>6. Grows
  BY <1>3, GrowsSame
<1>7. VersionOK(v)'
  BY <1>2, <1>3, <1>4 DEF IInv, TypeOK, VersionOK
<1>8. ASSUME NEW w \in Versions \ {v} PROVE VersionOK(w)'
  BY <1>3, VersionKept DEF IInv, TypeOK, WasSubmitted
<1>9. RequestOK(r)'
  BY <1>1, <1>2, <1>3
  DEF IInv, TypeOK, Goto, RequestOK, Holds, Begun, Stocked, Deciding, Activating, Places
<1>10. OnlyMoves(r)
  BY <1>3 DEF OnlyMoves, Goto, IInv, TypeOK
<1> QED
  BY <1>5, <1>6, <1>7, <1>8, <1>9, <1>10, StepDone

LEMMA PointRuleInv ==
    ASSUME IInv, NEW r \in Requests, PointRule(r)
    PROVE  IInv'
<1>1. PICK c, v : c = call[r] /\ v = c.version
  OBVIOUS
<1>2. Holds("pointRule", c) /\ v \in Versions /\ c \in Call
  BY <1>1, AtWork DEF PointRule
<1>3. /\ active' = v /\ End(r)
      /\ UNCHANGED <<status, steps, events, audited, granted, early, faults>>
  BY <1>1 DEF PointRule, PointedAt, logVars
<1>4. v \notin early => granted[v] = 1..Len(Chain[v])
  BY <1>1, <1>2 DEF Holds, Activating
<1>5. TypeOK'
  BY <1>2, <1>3 DEF IInv, TypeOK, End, Goto, Places
<1>6. Grows
  BY <1>3, GrowsSame
<1>7. VersionOK(v)'
  BY <1>2, <1>3, <1>4 DEF IInv, VersionOK, WasSubmitted
<1>8. ASSUME NEW w \in Versions \ {v} PROVE VersionOK(w)'
  BY <1>3, VersionKept DEF IInv, WasSubmitted
<1>9. RequestOK(r)' /\ OnlyMoves(r)
  BY <1>3 DEF IInv, TypeOK, RequestOK, OnlyMoves, End, Goto
<1> QED
  BY <1>5, <1>6, <1>7, <1>8, <1>9, StepDone

LEMMA FaultInv ==
    ASSUME IInv, NEW r \in Requests, Fault(r)
    PROVE  IInv'
<1> USE DEF Fault, ruleVars, logVars
<1>1. TypeOK'
  <2>1. faults' \in Nat
    BY DEF IInv, TypeOK
  <2>2. pc' \in [Requests -> Places] /\ call' \in [Requests -> Call \cup {NoCall}]
    BY DEF IInv, TypeOK, End, Goto, Places
  <2> QED
    BY <2>1, <2>2 DEF IInv, TypeOK
<1>2. Grows
  BY GrowsSame
<1>3. ASSUME NEW w \in Versions PROVE VersionOK(w)'
  BY VersionKept DEF IInv, WasSubmitted
<1>4. RequestOK(r)' /\ OnlyMoves(r)
  BY DEF IInv, TypeOK, RequestOK, OnlyMoves, End, Goto
<1> QED
  BY <1>1, <1>2, <1>3, <1>4, StepDone

LEMMA StutterInv ==
    ASSUME IInv, UNCHANGED vars
    PROVE  IInv'
  BY DEF IInv, vars, ruleVars, logVars, TypeOK, VersionOK, WasSubmitted, RequestOK, Holds

LEMMA NextInv ==
    ASSUME IInv, [Next]_vars
    PROVE  IInv'
<1>1. ASSUME NEW r \in Requests, Step(r) PROVE IInv'
  BY <1>1, InsertStepInv, ListStepsInv, InsertDefaultInv, ResetStepsInv, StartFirstInv,
     SubmitVersionInv, ReadStepsInv, MarkStepInv, MarkNextInv, JudgeVersionInv,
     WriteEventInv, WriteAuditLogInv, DeprecateInv, ActivateInv, PointRuleInv DEF Step
<1>2. ASSUME NEW r \in Requests, NEW v \in Versions, Start(r, v) PROVE IInv'
  BY <1>2, CreateVersionInv, BeginSubmitInv, BeginDecideInv, BeginActivateInv DEF Start
<1> QED
  BY <1>1, <1>2, FaultInv, StutterInv DEF Next

-----------------------------------------------------------------------------
(* The theorems.                                                           *)

\* The inductive invariant holds.
THEOREM Invariance == Spec => []IInv
  BY InitInv, NextInv, PTL DEF Spec

\* Variables keep their types, and what was submitted has a step to decide.
THEOREM TypeCorrect == Spec => []TypeOK
<1>1. IInv => TypeOK
  BY DEF IInv
<1> QED
  BY <1>1, Invariance, PTL

\* No approval step is granted before those ahead of it, however many
\* submissions and decisions overlap.
THEOREM NoStepSkipped == Spec => []StepsInOrder
<1>1. IInv => StepsInOrder
  BY DEF IInv, VersionOK, StepsInOrder
<1> QED
  BY <1>1, Invariance, PTL

\* No version is approved, active or evaluated without the whole of its chain,
\* unless it was submitted before the chain was there.
THEOREM WholeChainApproved == Spec => []ApprovedByWholeChain
<1>1. ASSUME NEW v \in Versions PROVE DOMAIN Chain[v] = 1..Len(Chain[v])
  <2>1. Chain[v] \in Seq(Nat)
    BY ChainAssumption
  <2> QED
    BY <2>1, LenProperties
<1>2. IInv => ApprovedByWholeChain
  BY <1>1 DEF IInv, VersionOK, ApprovedByWholeChain
<1> QED
  BY <1>2, Invariance, PTL

-----------------------------------------------------------------------------
(* Requests that come one at a time, any of which may be lost halfway.     *)

OneAtWork == \A q, r \in Requests : pc[q] # "idle" /\ pc[r] # "idle" => q = r

StepIs(v, n, s) == steps[v][n].status = s
AllAre(v, last, s) == \A n \in 1..last : StepIs(v, n, s)

Done == {"approved", "active", "deprecated"}
Submitting == {"listSteps", "insertDefault", "resetSteps", "startFirst", "submitVersion"}

\* A step that is pending comes after steps that are approved, and what was approved stays so.
ShownFits(v) ==
    /\ \A n \in 1..Len(steps[v]) : StepIs(v, n, "pending") => AllAre(v, n - 1, "approved")
    /\ status[v] \in Done => AllAre(v, Len(steps[v]), "approved")

OneIsActive == \A v, w \in Versions : status[v] = "active" /\ status[w] = "active" => v = w

UsedFits ==
    faults = 0 /\ (\A r \in Requests : pc[r] \notin {"activate", "pointRule"}) =>
        \A v \in Versions : status[v] = "active" <=> active = v

OthersRest(v) == \A w \in Versions \ {v} : status[w] # "active"

\* What the request at work has read is still so.
WorkFits(place, c) ==
    LET v == c.version
    IN  /\ place = "insertSteps" => status[v] = "draft"
        /\ place \in Submitting => status[v] \in {"draft", "rejected"}
        /\ place \in Deciding \cup {"readSteps"} => status[v] = "pending_approval"
        /\ place = "startFirst" => AllAre(v, Len(steps[v]), "queued")
        /\ place \in Deciding /\ c.next = 0 => c.step = Len(steps[v])
        /\ place = "markStep" => StepIs(v, c.step, "pending")
        /\ place = "markNext" => \A n \in 1..Len(steps[v]) : ~StepIs(v, n, "pending")
        /\ place \in {"markNext", "judgeVersion"} /\ c.decision = "approved" =>
               AllAre(v, c.step, "approved")
        /\ place \in {"deprecate", "activate"} => status[v] \in {"approved", "active"}
        /\ place \in {"activate", "pointRule"} => OthersRest(v)
        /\ place = "pointRule" => status[v] = "active"

AtWorkFits(r) == pc[r] # "idle" => WorkFits(pc[r], call[r])

AloneInv ==
    /\ IInv
    /\ \A v \in Versions : ShownFits(v)
    /\ OneIsActive /\ UsedFits
    /\ \A r \in Requests : AtWorkFits(r)

Follows == \A v \in Versions : status'[v] # status[v] => status'[v] \in Workflow[status[v]]

\* No request but r is at work.
OnlyIt(r) == \A q \in Requests \ {r} : pc[q] = "idle" /\ pc'[q] = "idle"

LEMMA AloneDone ==
    ASSUME IInv', NEW r \in Requests, OnlyIt(r), \A v \in Versions : ShownFits(v)',
           OneIsActive', UsedFits', AtWorkFits(r)'
    PROVE  AloneInv'
<1>1. ASSUME NEW q \in Requests PROVE AtWorkFits(q)'
  BY DEF OnlyIt, AtWorkFits
<1> QED
  BY <1>1 DEF AloneInv

\* A version that is not touched, or that is no longer shown as approved.
LEMMA ShownStays ==
    ASSUME NEW v, ShownFits(v), steps'[v] = steps[v], status'[v] \in Done => status[v] \in Done
    PROVE  ShownFits(v)'
  BY DEF ShownFits, AllAre, StepIs

\* Who does not activate leaves it as it is which version is active.
LEMMA ActiveStays ==
    ASSUME AloneInv, NEW r \in Requests, OnlyIt(r), UNCHANGED <<active, faults>>,
           pc[r] \notin {"activate", "pointRule"},
           \A v \in Versions : status'[v] = "active" <=> status[v] = "active"
    PROVE  OneIsActive' /\ UsedFits'
<1>1. OneIsActive'
  BY DEF AloneInv, OneIsActive
<1>2. \A q \in Requests : pc[q] \notin {"activate", "pointRule"}
  BY DEF OnlyIt
<1>3. UsedFits'
  BY <1>2 DEF AloneInv, UsedFits
<1> QED
  BY <1>1, <1>3

LEMMA SameFollows ==
    ASSUME UNCHANGED status
    PROVE  Follows
  BY DEF Follows

\* The request reads, or writes what is not of versions.
LEMMA OnlyReads ==
    ASSUME AloneInv, IInv', NEW r \in Requests, OnlyIt(r), UNCHANGED <<ruleVars, faults>>,
           pc[r] \notin {"activate", "pointRule"}, AtWorkFits(r)'
    PROVE  AloneInv' /\ Follows
<1>1. UNCHANGED <<status, steps, active>>
  BY DEF ruleVars
<1>2. \A v \in Versions : ShownFits(v)'
  BY <1>1, ShownStays DEF AloneInv
<1>3. OneIsActive' /\ UsedFits'
  BY <1>1, ActiveStays
<1> QED
  BY <1>1, <1>2, <1>3, AloneDone, SameFollows

LEMMA CreateVersionAlone ==
    ASSUME AloneInv, IInv', NEW r \in Requests, OnlyIt(r), NEW v \in Versions, CreateVersion(r, v)
    PROVE  AloneInv' /\ Follows
<1>1. /\ pc[r] = "idle" /\ pc'[r] = "insertSteps" /\ call'[r].version = v
      /\ status[v] = "absent" /\ status' = [status EXCEPT ![v] = "draft"]
      /\ UNCHANGED <<steps, active, faults>>
  BY DEF CreateVersion, Begin, Goto, CallOf, AloneInv, IInv, TypeOK
<1>2. status'[v] = "draft" /\ \A w \in Versions \ {v} : status'[w] = status[w]
  BY <1>1 DEF AloneInv, IInv, TypeOK
<1>3. ASSUME NEW w \in Versions PROVE ShownFits(w)'
  BY <1>1, <1>2, ShownStays DEF AloneInv, Done
<1>4. OneIsActive' /\ UsedFits'
  BY <1>1, <1>2, ActiveStays
<1>5. AtWorkFits(r)'
  BY <1>1, <1>2 DEF AtWorkFits, WorkFits, Submitting, Deciding
<1>6. Follows
  BY <1>1, <1>2 DEF Follows, Workflow, Statuses
<1> QED
  BY <1>3, <1>4, <1>5, <1>6, AloneDone

LEMMA BeginsAlone ==
    ASSUME AloneInv, IInv', NEW r \in Requests, OnlyIt(r), NEW v \in Versions,
           BeginSubmit(r, v) \/ BeginActivate(r, v)
               \/ \E rank \in Ranks, d \in Decisions : BeginDecide(r, v, rank, d)
    PROVE  AloneInv' /\ Follows
<1>1. CASE BeginSubmit(r, v)
  <2>1. /\ pc[r] = "idle" /\ pc'[r] = "listSteps" /\ call'[r].version = v
        /\ status[v] \in {"draft", "rejected"} /\ UNCHANGED <<ruleVars, faults>>
    BY <1>1 DEF BeginSubmit, Submittable, Begin, Goto, CallOf, AloneInv, IInv, TypeOK
  <2>2. AtWorkFits(r)'
    BY <2>1 DEF AtWorkFits, WorkFits, Submitting, Deciding, ruleVars
  <2> QED
    BY <2>1, <2>2, OnlyReads
<1>2. CASE BeginActivate(r, v)
  <2>1. /\ pc[r] = "idle" /\ pc'[r] = "deprecate" /\ call'[r].version = v
        /\ status[v] \in {"approved", "active"} /\ UNCHANGED <<ruleVars, faults>>
    BY <1>2 DEF BeginActivate, Begin, Goto, CallOf, AloneInv, IInv, TypeOK
  <2>2. AtWorkFits(r)'
    BY <2>1 DEF AtWorkFits, WorkFits, Submitting, Deciding, ruleVars
  <2> QED
    BY <2>1, <2>2, OnlyReads
<1>3. CASE \E rank \in Ranks, d \in Decisions : BeginDecide(r, v, rank, d)
  <2>1. PICK rank \in Ranks, d \in Decisions : BeginDecide(r, v, rank, d)
    BY <1>3
  <2>2. /\ pc[r] = "idle" /\ pc'[r] = "readSteps" /\ call'[r].version = v
        /\ status[v] = "pending_approval" /\ UNCHANGED <<ruleVars, faults>>
    BY <2>1 DEF BeginDecide, Begin, Goto, CallOf, AloneInv, IInv, TypeOK
  <2>3. AtWorkFits(r)'
    BY <2>2 DEF AtWorkFits, WorkFits, Submitting, Deciding, ruleVars
  <2> QED
    BY <2>2, <2>3, OnlyReads
<1> QED
  BY <1>1, <1>2, <1>3

\* A step is added at the end, queued.
LEMMA InsertedFits ==
    ASSUME NEW v, ShownFits(v), steps[v] \in Seq(StepRecord), NEW s, s.status = "queued",
           s \in StepRecord, steps'[v] = Append(steps[v], s), status'[v] \notin Done
    PROVE  ShownFits(v)'
<1>1. PICK k \in Nat : k = Len(steps[v])
  BY LenProperties
<1>2. /\ Len(steps'[v]) = k + 1 /\ steps'[v][k + 1] = s
      /\ \A i \in 1..k : steps'[v][i] = steps[v][i]
  BY <1>1, AppendProperties
<1>3. ASSUME NEW n \in 1..(k + 1), StepIs(v, n, "pending")'
      PROVE  AllAre(v, n - 1, "approved")'
  <2>1. n # k + 1
    BY <1>2, <1>3 DEF StepIs
  <2>2. n \in 1..k /\ StepIs(v, n, "pending")
    BY <1>2, <1>3, <2>1 DEF StepIs
  <2>3. AllAre(v, n - 1, "approved") /\ \A i \in 1..(n - 1) : i \in 1..k
    BY <1>1, <2>2 DEF ShownFits
  <2> QED
    BY <1>2, <2>3 DEF AllAre, StepIs
<1> QED
  BY <1>2, <1>3 DEF ShownFits

LEMMA InsertStepAlone ==
    ASSUME AloneInv, IInv', NEW r \in Requests, OnlyIt(r), InsertStep(r)
    PROVE  AloneInv' /\ Follows
<1>1. PICK c, v, n : c = call[r] /\ v = c.version /\ n = c.step + 1
  OBVIOUS
<1>2. /\ pc[r] = "insertSteps" /\ Holds("insertSteps", c) /\ v \in Versions /\ c.step \in Nat
      /\ WorkFits("insertSteps", c)
      /\ UNCHANGED <<status, active, faults>>
  BY <1>1, AtWork DEF AloneInv, InsertStep, AtWorkFits
<1>3. status[v] = "draft" /\ n \in 1..Len(Chain[v])
  BY <1>1, <1>2, ChainLength DEF WorkFits, Holds
<1>4. CASE n > Len(steps[v])
  <2>1. PICK s : s = QueuedStep(Chain[v][n])
    OBVIOUS
  <2>2. s \in StepRecord /\ s.status = "queued"
    <3>1. Chain[v] \in Seq(Nat)
      BY <1>2, ChainAssumption
    <3>2. Chain[v][n] \in Nat
      BY <1>3, <3>1, ElementOfSeq
    <3> QED
      BY <2>1, <3>2 DEF QueuedStep, StepRecord, StepStatuses
  <2>3. steps' = [steps EXCEPT ![v] = Append(@, s)]
        /\ pc' = [pc EXCEPT ![r] = IF n = Len(Chain[v]) THEN "audit" ELSE "insertSteps"]
        /\ call' = [call EXCEPT ![r].step = n]
    BY <1>1, <1>4, <2>1 DEF InsertStep, Goto
  <2>4. steps'[v] = Append(steps[v], s) /\ \A w \in Versions \ {v} : steps'[w] = steps[w]
    BY <1>2, <2>3 DEF AloneInv, IInv, TypeOK
  <2>5. call'[r].version = v
    <3>1. c \in Call
      BY <1>2 DEF Holds
    <3> QED
      BY <1>1, <2>3, <3>1 DEF AloneInv, IInv, TypeOK, Call
  <2>6. ShownFits(v)'
    BY <1>2, <1>3, <2>2, <2>4, InsertedFits DEF AloneInv, IInv, TypeOK, StepRecord, Done
  <2>7. ASSUME NEW w \in Versions \ {v} PROVE ShownFits(w)'
    BY <1>2, <2>4, ShownStays DEF AloneInv
  <2>8. OneIsActive' /\ UsedFits'
    BY <1>2, ActiveStays
  <2>9. AtWorkFits(r)'
    BY <1>2, <1>3, <2>3, <2>5 DEF AtWorkFits, WorkFits, Submitting, Deciding, AloneInv, IInv, TypeOK
  <2> QED
    BY <1>2, <2>6, <2>7, <2>8, <2>9, AloneDone, SameFollows
<1>5. CASE ~(n > Len(steps[v]))
  <2>1. End(r) /\ UNCHANGED steps
    BY <1>1, <1>5 DEF InsertStep
  <2>2. AtWorkFits(r)'
    BY <2>1 DEF AtWorkFits, End, Goto, AloneInv, IInv, TypeOK
  <2> QED
    BY <1>2, <2>1, <2>2, OnlyReads DEF ruleVars
<1> QED
  BY <1>4, <1>5

\* What is known of the request at work and its version.
LEMMA AtWorkAlone ==
    ASSUME AloneInv, NEW r \in Requests, pc[r] # "idle"
    PROVE  /\ call[r] \in Call /\ call[r].version \in Versions
           /\ Holds(pc[r], call[r]) /\ WorkFits(pc[r], call[r])
           /\ ShownFits(call[r].version)
           /\ steps[call[r].version] \in Seq(StepRecord) /\ Len(steps[call[r].version]) \in Nat
<1>1. call[r] \in Call /\ call[r].version \in Versions /\ Holds(pc[r], call[r])
  BY AtWork DEF AloneInv
<1>2. WorkFits(pc[r], call[r]) /\ ShownFits(call[r].version)
  BY <1>1 DEF AloneInv, AtWorkFits
<1> QED
  BY <1>1, <1>2, StepsLength DEF AloneInv, IInv, TypeOK, StepRecord

LEMMA ListStepsAlone ==
    ASSUME AloneInv, IInv', NEW r \in Requests, OnlyIt(r), ListSteps(r)
    PROVE  AloneInv' /\ Follows
<1>1. PICK c, v : c = call[r] /\ v = c.version
  OBVIOUS
<1>2. pc[r] = "listSteps" /\ WorkFits("listSteps", c)
  BY <1>1, AtWorkAlone DEF ListSteps
<1>3. /\ pc'[r] \in {"insertDefault", "resetSteps"} /\ call'[r] = c
      /\ UNCHANGED <<ruleVars, faults>>
  BY <1>1 DEF ListSteps, AfterListing, Goto, AloneInv, IInv, TypeOK
<1>4. AtWorkFits(r)'
  BY <1>1, <1>2, <1>3 DEF AtWorkFits, WorkFits, Submitting, Deciding, ruleVars
<1> QED
  BY <1>2, <1>3, <1>4, OnlyReads

LEMMA InsertDefaultAlone ==
    ASSUME AloneInv, IInv', NEW r \in Requests, OnlyIt(r), InsertDefault(r)
    PROVE  AloneInv' /\ Follows
<1>1. PICK c, v : c = call[r] /\ v = c.version
  OBVIOUS
<1>2. /\ pc[r] = "insertDefault" /\ WorkFits("insertDefault", c) /\ v \in Versions
      /\ UNCHANGED <<status, active, faults>>
  BY <1>1, AtWorkAlone DEF InsertDefault
<1>3. status[v] \in {"draft", "rejected"}
  BY <1>1, <1>2 DEF WorkFits, Submitting
<1>4. CASE steps[v] = <<>>
  <2>1. PICK s : s = QueuedStep(DefaultRank)
    OBVIOUS
  <2>2. s.status = "queued"
    BY <2>1 DEF QueuedStep
  <2>3. /\ steps' = [steps EXCEPT ![v] = <<s>>] /\ call' = call
        /\ pc' = [pc EXCEPT ![r] = "resetSteps"]
    BY <1>1, <1>4, <2>1 DEF InsertDefault, Goto
  <2>4. steps'[v] = <<s>> /\ \A w \in Versions \ {v} : steps'[w] = steps[w]
    BY <1>2, <2>3 DEF AloneInv, IInv, TypeOK
  <2>5. Len(steps'[v]) = 1 /\ ~StepIs(v, 1, "pending")'
    BY <2>2, <2>4 DEF StepIs
  <2>6. ShownFits(v)'
    BY <1>2, <1>3, <2>5 DEF ShownFits, Done
  <2>7. ASSUME NEW w \in Versions \ {v} PROVE ShownFits(w)'
    BY <1>2, <2>4, ShownStays DEF AloneInv
  <2>8. OneIsActive' /\ UsedFits'
    BY <1>2, ActiveStays
  <2>9. AtWorkFits(r)'
    BY <1>1, <1>2, <1>3, <2>3 DEF AtWorkFits, WorkFits, Submitting, Deciding, AloneInv, IInv, TypeOK
  <2> QED
    BY <1>2, <2>6, <2>7, <2>8, <2>9, AloneDone, SameFollows
<1>5. CASE steps[v] # <<>>
  <2>1. End(r) /\ UNCHANGED steps
    BY <1>1, <1>5 DEF InsertDefault
  <2>2. AtWorkFits(r)'
    BY <2>1 DEF AtWorkFits, End, Goto, AloneInv, IInv, TypeOK
  <2> QED
    BY <1>2, <2>1, <2>2, OnlyReads DEF ruleVars
<1> QED
  BY <1>4, <1>5

LEMMA ResetStepsAlone ==
    ASSUME AloneInv, IInv', NEW r \in Requests, OnlyIt(r), ResetSteps(r)
    PROVE  AloneInv' /\ Follows
<1>1. PICK c, v : c = call[r] /\ v = c.version
  OBVIOUS
<1>2. /\ pc[r] = "resetSteps" /\ WorkFits("resetSteps", c) /\ v \in Versions
      /\ steps[v] \in Seq(StepRecord) /\ Len(steps[v]) \in Nat
      /\ UNCHANGED <<status, active, faults, call>>
  BY <1>1, AtWorkAlone DEF ResetSteps
<1>3. status[v] \in {"draft", "rejected"}
  BY <1>1, <1>2 DEF WorkFits, Submitting
<1>4. PICK q : q = steps[v]
  OBVIOUS
<1>5. PICK t : t = [n \in DOMAIN q |-> [q[n] EXCEPT !.status = "queued"]]
  OBVIOUS
<1>6. DOMAIN q = 1..Len(q) /\ \A n \in 1..Len(q) : t[n].status = "queued"
  <2>1. DOMAIN q = 1..Len(q)
    BY <1>2, <1>4, LenProperties
  <2>2. ASSUME NEW n \in 1..Len(q) PROVE q[n] \in StepRecord
    BY <1>2, <1>4, ElementOfSeq
  <2> QED
    BY <1>5, <2>1, <2>2 DEF StepRecord
<1>7. Len(t) = Len(q)
  <2>1. t \in [1..Len(q) -> {t[n] : n \in 1..Len(q)}]
    BY <1>5, <1>6
  <2> QED
    BY <1>2, <1>4, <2>1, FunctionIsSeq
<1>8. steps' = [steps EXCEPT ![v] = t] /\ pc' = [pc EXCEPT ![r] = "startFirst"]
  BY <1>1, <1>4, <1>5 DEF ResetSteps, Goto
<1>9. steps'[v] = t /\ \A w \in Versions \ {v} : steps'[w] = steps[w]
  BY <1>2, <1>8 DEF AloneInv, IInv, TypeOK
<1>10. \A n \in 1..Len(steps'[v]) : steps'[v][n].status = "queued"
  BY <1>6, <1>7, <1>9
<1>11. ShownFits(v)'
  BY <1>2, <1>3, <1>10 DEF ShownFits, StepIs, Done
<1>12. ASSUME NEW w \in Versions \ {v} PROVE ShownFits(w)'
  BY <1>2, <1>9, ShownStays DEF AloneInv
<1>13. OneIsActive' /\ UsedFits'
  BY <1>2, ActiveStays
<1>14. AtWorkFits(r)'
  BY <1>1, <1>2, <1>3, <1>8, <1>10
  DEF AtWorkFits, WorkFits, Submitting, Deciding, AllAre, StepIs, AloneInv, IInv, TypeOK
<1> QED
  BY <1>2, <1>11, <1>12, <1>13, <1>14, AloneDone, SameFollows

\* One step of a version changes.
LEMMA SetFits ==
    ASSUME AloneInv, NEW v \in Versions, NEW n \in 1..Len(steps[v]), NEW s \in StepStatuses,
           SetStep(v, n, s), UNCHANGED status, status[v] \notin Done,
           s = "pending" => AllAre(v, n - 1, "approved"),
           s # "approved" => \A m \in 1..Len(steps[v]) : m # n => ~StepIs(v, m, "pending")
    PROVE  /\ \A w \in Versions : ShownFits(w)'
           /\ Len(steps'[v]) = Len(steps[v])
           /\ \A m \in 1..Len(steps[v]) : steps'[v][m].status = IF m = n THEN s ELSE steps[v][m].status
<1>1. /\ \A w \in Versions : Len(steps'[w]) = Len(steps[w])
      /\ \A w \in Versions \ {v} : steps'[w] = steps[w]
      /\ \A m \in 1..Len(steps[v]) :
           steps'[v][m].status = IF m = n THEN s ELSE steps[v][m].status
  BY StepSet DEF AloneInv, IInv
<1>2. Len(steps[v]) \in Nat /\ ShownFits(v)
  BY StepsLength DEF AloneInv, IInv
<1>3. ASSUME NEW m \in 1..Len(steps[v]), StepIs(v, m, "pending")'
      PROVE  AllAre(v, m - 1, "approved")'
  <2>1. CASE m = n
    <3>1. s = "pending" /\ AllAre(v, n - 1, "approved")
      BY <1>1, <1>3, <2>1 DEF StepIs
    <3> QED
      BY <1>1, <1>2, <2>1, <3>1 DEF AllAre, StepIs
  <2>2. CASE m # n
    <3>1. StepIs(v, m, "pending")
      BY <1>1, <1>3, <2>2 DEF StepIs
    <3>2. s = "approved" /\ AllAre(v, m - 1, "approved")
      BY <1>2, <2>2, <3>1 DEF ShownFits
    <3> QED
      BY <1>1, <1>2, <3>2 DEF AllAre, StepIs
  <2> QED
    BY <2>1, <2>2
<1>4. ShownFits(v)'
  BY <1>1, <1>3 DEF ShownFits
<1>5. ASSUME NEW w \in Versions \ {v} PROVE ShownFits(w)'
  BY <1>1, ShownStays DEF AloneInv
<1> QED
  BY <1>1, <1>4, <1>5

LEMMA StartFirstAlone ==
    ASSUME AloneInv, IInv', NEW r \in Requests, OnlyIt(r), StartFirst(r)
    PROVE  AloneInv' /\ Follows
<1>1. PICK c, v : c = call[r] /\ v = c.version
  OBVIOUS
<1>2. /\ pc[r] = "startFirst" /\ WorkFits("startFirst", c) /\ v \in Versions
      /\ c \in Call /\ Holds("startFirst", c) /\ Len(steps[v]) \in Nat
      /\ UNCHANGED <<status, active, faults>>
  BY <1>1, AtWorkAlone DEF StartFirst
<1>3. /\ status[v] \in {"draft", "rejected"} /\ 1 \in 1..Len(steps[v])
      /\ AllAre(v, Len(steps[v]), "queued")
  BY <1>1, <1>2 DEF WorkFits, Submitting, Holds, Stocked, Begun, Places
<1>4. /\ SetStep(v, 1, "pending") /\ pc' = [pc EXCEPT ![r] = "submitVersion"]
      /\ call' = [call EXCEPT ![r].step = 1]
  BY <1>1 DEF StartFirst, FirstStep, Goto
<1>5. \A w \in Versions : ShownFits(w)'
  <2>1. AllAre(v, 1 - 1, "approved") /\ \A m \in 1..Len(steps[v]) : ~StepIs(v, m, "pending")
    BY <1>3 DEF AllAre, StepIs
  <2> QED
    BY <1>2, <1>3, <1>4, <2>1, SetFits DEF StepStatuses, Done
<1>6. OneIsActive' /\ UsedFits'
  BY <1>2, ActiveStays
<1>7. call'[r].version = v
  BY <1>1, <1>2, <1>4 DEF AloneInv, IInv, TypeOK, Call
<1>8. AtWorkFits(r)'
  BY <1>2, <1>3, <1>4, <1>7 DEF AtWorkFits, WorkFits, Submitting, Deciding, AloneInv, IInv, TypeOK
<1> QED
  BY <1>2, <1>5, <1>6, <1>8, AloneDone, SameFollows

LEMMA SubmitVersionAlone ==
    ASSUME AloneInv, IInv', NEW r \in Requests, OnlyIt(r), SubmitVersion(r)
    PROVE  AloneInv' /\ Follows
<1>1. PICK c, v : c = call[r] /\ v = c.version
  OBVIOUS
<1>2. /\ pc[r] = "submitVersion" /\ WorkFits("submitVersion", c) /\ v \in Versions
      /\ status' = [status EXCEPT ![v] = "pending_approval"] /\ pc'[r] = "event"
      /\ UNCHANGED <<steps, active, faults>>
  BY <1>1, AtWorkAlone DEF SubmitVersion, Goto, AloneInv, IInv, TypeOK
<1>3. status[v] \in {"draft", "rejected"}
  BY <1>1, <1>2 DEF WorkFits, Submitting
<1>4. status'[v] = "pending_approval" /\ \A w \in Versions \ {v} : status'[w] = status[w]
  BY <1>2 DEF AloneInv, IInv, TypeOK
<1>5. ASSUME NEW w \in Versions PROVE ShownFits(w)'
  BY <1>2, <1>4, ShownStays DEF AloneInv, Done
<1>6. OneIsActive' /\ UsedFits'
  BY <1>2, <1>3, <1>4, ActiveStays
<1>7. AtWorkFits(r)'
  BY <1>2 DEF AtWorkFits, WorkFits, Submitting, Deciding
<1>8. Follows
  BY <1>3, <1>4 DEF Follows, Workflow, Statuses
<1> QED
  BY <1>5, <1>6, <1>7, <1>8, AloneDone

\* A request ends having written nothing of versions, or is lost.
LEMMA EndsAlone ==
    ASSUME AloneInv, IInv', NEW r \in Requests, OnlyIt(r), End(r), UNCHANGED ruleVars,
           faults' # 0 \/ (faults' = faults /\ pc[r] \notin {"activate", "pointRule"})
    PROVE  AloneInv' /\ Follows
<1>1. UNCHANGED <<status, steps, active>> /\ pc'[r] = "idle"
  BY DEF ruleVars, End, Goto, AloneInv, IInv, TypeOK
<1>2. \A v \in Versions : ShownFits(v)'
  BY <1>1, ShownStays DEF AloneInv
<1>3. OneIsActive'
  BY <1>1 DEF AloneInv, OneIsActive
<1>4. UsedFits'
  <2>1. CASE faults' # 0
    BY <2>1 DEF UsedFits
  <2>2. CASE faults' = faults /\ pc[r] \notin {"activate", "pointRule"}
    BY <1>1, <2>2, ActiveStays
  <2> QED
    BY <2>1, <2>2
<1>5. AtWorkFits(r)'
  BY <1>1 DEF AtWorkFits
<1> QED
  BY <1>1, <1>2, <1>3, <1>4, <1>5, AloneDone, SameFollows

LEMMA ReadStepsAlone ==
    ASSUME AloneInv, IInv', NEW r \in Requests, OnlyIt(r), ReadSteps(r)
    PROVE  AloneInv' /\ Follows
<1>1. PICK c, v : c = call[r] /\ v = c.version
  OBVIOUS
<1>2. /\ pc[r] = "readSteps" /\ WorkFits("readSteps", c) /\ v \in Versions /\ c \in Call
      /\ Len(steps[v]) \in Nat /\ DOMAIN steps[v] = 1..Len(steps[v]) /\ ShownFits(v)
      /\ UNCHANGED <<ruleVars, faults>>
  BY <1>1, AtWorkAlone, LenProperties DEF ReadSteps
<1>3. status[v] = "pending_approval"
  BY <1>1, <1>2 DEF WorkFits, Deciding
<1>4. CASE End(r)
  BY <1>2, <1>4, EndsAlone
<1>5. CASE ~End(r)
  <2>1. PICK n \in PendingSteps(v) :
            /\ call' = [call EXCEPT ![r].step = n, ![r].next = NextStep(v, n)]
            /\ pc' = [pc EXCEPT ![r] = "markStep"]
    BY <1>1, <1>5 DEF ReadSteps, Goto
  <2>2. n \in 1..Len(steps[v]) /\ StepIs(v, n, "pending")
    BY <1>2, <2>1 DEF PendingSteps, StepIs
  <2>3. call'[r].version = v /\ call'[r].step = n /\ call'[r].next = NextStep(v, n) /\ pc'[r] = "markStep"
    BY <1>1, <1>2, <2>1 DEF AloneInv, IInv, TypeOK, Call
  <2>4. NextStep(v, n) = 0 => n = Len(steps[v])
    BY <1>2, <2>2 DEF NextStep
  <2>5. UNCHANGED <<status, steps, active>>
    BY <1>2 DEF ruleVars
  <2>6. AtWorkFits(r)'
    BY <1>3, <2>2, <2>3, <2>4, <2>5 DEF AtWorkFits, WorkFits, Submitting, Deciding, StepIs
  <2> QED
    BY <1>2, <2>6, OnlyReads
<1> QED
  BY <1>4, <1>5

LEMMA MarkStepAlone ==
    ASSUME AloneInv, IInv', NEW r \in Requests, OnlyIt(r), MarkStep(r)
    PROVE  AloneInv' /\ Follows
<1>1. PICK c, v, n : c = call[r] /\ v = c.version /\ n = c.step
  OBVIOUS
<1>2. /\ pc[r] = "markStep" /\ WorkFits("markStep", c) /\ v \in Versions /\ c \in Call
      /\ Holds("markStep", c) /\ Len(steps[v]) \in Nat /\ ShownFits(v)
      /\ UNCHANGED <<status, active, faults, call>>
  BY <1>1, AtWorkAlone DEF MarkStep
<1>3. /\ status[v] = "pending_approval" /\ n \in 1..Len(steps[v]) /\ StepIs(v, n, "pending")
      /\ c.decision \in Decisions /\ c.next \in Nat /\ (c.next = 0 => n = Len(steps[v]))
  BY <1>1, <1>2 DEF WorkFits, Deciding, Holds, Call
<1>4. SetStep(v, n, c.decision)
      /\ pc' = [pc EXCEPT ![r] = IF c.decision = "approved" /\ c.next # 0
                                 THEN "markNext" ELSE "judgeVersion"]
  BY <1>1 DEF MarkStep, Goto
<1>5. \A m \in 1..Len(steps[v]) : m # n => ~StepIs(v, m, "pending")
  <2> SUFFICES ASSUME NEW m \in 1..Len(steps[v]), m # n, StepIs(v, m, "pending") PROVE FALSE
    OBVIOUS
  <2>1. CASE m < n
    <3>1. m \in 1..(n - 1) /\ AllAre(v, n - 1, "approved")
      BY <1>2, <1>3, <2>1 DEF ShownFits
    <3> QED
      BY <3>1 DEF AllAre, StepIs
  <2>2. CASE n < m
    <3>1. n \in 1..(m - 1) /\ AllAre(v, m - 1, "approved")
      BY <1>2, <1>3, <2>2 DEF ShownFits
    <3> QED
      BY <1>3, <3>1 DEF AllAre, StepIs
  <2> QED
    BY <1>2, <1>3, <2>1, <2>2
<1>6. /\ \A w \in Versions : ShownFits(w)'
      /\ Len(steps'[v]) = Len(steps[v])
      /\ \A m \in 1..Len(steps[v]) :
            steps'[v][m].status = IF m = n THEN c.decision ELSE steps[v][m].status
  <2>1. c.decision # "pending" /\ c.decision \in StepStatuses /\ status[v] \notin Done
    BY <1>3 DEF Decisions, StepStatuses, Done
  <2> QED
    BY <1>2, <1>3, <1>4, <1>5, <2>1, SetFits
<1>7. OneIsActive' /\ UsedFits'
  BY <1>2, ActiveStays
<1>8. \A m \in 1..Len(steps[v]) : ~StepIs(v, m, "pending")'
  BY <1>3, <1>5, <1>6 DEF StepIs, Decisions
<1>9. c.decision = "approved" => AllAre(v, n, "approved")'
  <2>1. AllAre(v, n - 1, "approved")
    BY <1>2, <1>3 DEF ShownFits
  <2>2. \A m \in 1..n : m \in 1..Len(steps[v]) /\ (m = n \/ m \in 1..(n - 1))
    BY <1>2, <1>3
  <2> QED
    BY <1>6, <2>1, <2>2 DEF AllAre, StepIs
<1>10. AtWorkFits(r)'
  <2>1. /\ call'[r] = c /\ pc'[r] \in {"markNext", "judgeVersion"}
        /\ status'[v] = "pending_approval"
    BY <1>1, <1>2, <1>3, <1>4 DEF AloneInv, IInv, TypeOK
  <2> QED
    BY <1>1, <1>3, <1>6, <1>8, <1>9, <2>1 DEF AtWorkFits, WorkFits, Submitting, Deciding
<1> QED
  BY <1>2, <1>6, <1>7, <1>10, AloneDone, SameFollows

LEMMA MarkNextAlone ==
    ASSUME AloneInv, IInv', NEW r \in Requests, OnlyIt(r), MarkNext(r)
    PROVE  AloneInv' /\ Follows
<1>1. PICK c, v, n : c = call[r] /\ v = c.version /\ n = c.step
  OBVIOUS
<1>2. /\ pc[r] = "markNext" /\ WorkFits("markNext", c) /\ v \in Versions /\ c \in Call
      /\ Holds("markNext", c) /\ Len(steps[v]) \in Nat
      /\ UNCHANGED <<status, active, faults, call>>
  BY <1>1, AtWorkAlone DEF MarkNext
<1>3. /\ status[v] = "pending_approval" /\ n \in 1..Len(steps[v])
      /\ c.next = n + 1 /\ c.next \in 1..Len(steps[v])
      /\ c.decision = "approved" /\ AllAre(v, n, "approved")
      /\ \A m \in 1..Len(steps[v]) : ~StepIs(v, m, "pending")
  BY <1>1, <1>2 DEF WorkFits, Deciding, Holds, Call
<1>4. SetStep(v, n + 1, "pending") /\ pc'[r] = "judgeVersion"
  BY <1>1, <1>3 DEF MarkNext, Goto, AloneInv, IInv, TypeOK
<1>5. /\ \A w \in Versions : ShownFits(w)'
      /\ Len(steps'[v]) = Len(steps[v])
      /\ \A m \in 1..Len(steps[v]) :
            steps'[v][m].status = IF m = n + 1 THEN "pending" ELSE steps[v][m].status
  <2>1. (n + 1) - 1 = n /\ n + 1 \in 1..Len(steps[v])
    BY <1>3
  <2> QED
    BY <1>2, <1>3, <1>4, <2>1, SetFits DEF StepStatuses, Done
<1>6. OneIsActive' /\ UsedFits'
  BY <1>2, ActiveStays
<1>7. AllAre(v, n, "approved")'
  <2>1. \A m \in 1..n : m \in 1..Len(steps[v]) /\ m # n + 1
    BY <1>2, <1>3
  <2> QED
    BY <1>3, <1>5, <2>1 DEF AllAre, StepIs
<1>8. AtWorkFits(r)'
  <2>1. call'[r] = c /\ status'[v] = "pending_approval" /\ c.next # 0
    BY <1>1, <1>2, <1>3
  <2> QED
    BY <1>1, <1>4, <1>7, <2>1 DEF AtWorkFits, WorkFits, Submitting, Deciding
<1> QED
  BY <1>2, <1>5, <1>6, <1>8, AloneDone, SameFollows

LEMMA JudgeVersionAlone ==
    ASSUME AloneInv, IInv', NEW r \in Requests, OnlyIt(r), JudgeVersion(r)
    PROVE  AloneInv' /\ Follows
<1>1. PICK c, v : c = call[r] /\ v = c.version
  OBVIOUS
<1>2. /\ pc[r] = "judgeVersion" /\ WorkFits("judgeVersion", c) /\ v \in Versions /\ c \in Call
      /\ status' = [status EXCEPT ![v] = Verdict(c.decision, c.next)] /\ pc'[r] = "event"
      /\ UNCHANGED <<steps, active, faults>>
  BY <1>1, AtWorkAlone DEF JudgeVersion, Goto, AloneInv, IInv, TypeOK
<1>3. /\ status[v] = "pending_approval" /\ c.decision \in Decisions
      /\ (c.decision = "approved" /\ c.next = 0 => AllAre(v, Len(steps[v]), "approved"))
  BY <1>1, <1>2 DEF WorkFits, Deciding, Call
<1>4. status'[v] = Verdict(c.decision, c.next) /\ \A w \in Versions \ {v} : status'[w] = status[w]
  BY <1>2 DEF AloneInv, IInv, TypeOK
<1>5. /\ Verdict(c.decision, c.next) \in {"approved", "rejected", "pending_approval"}
      /\ (Verdict(c.decision, c.next) = "approved" => c.decision = "approved" /\ c.next = 0)
  BY <1>3 DEF Verdict, Decisions
<1>6. ShownFits(v)'
  <2>1. ShownFits(v)
    BY <1>2 DEF AloneInv
  <2> QED
    BY <1>2, <1>3, <1>4, <1>5, <2>1 DEF ShownFits, AllAre, StepIs, Done
<1>7. ASSUME NEW w \in Versions \ {v} PROVE ShownFits(w)'
  BY <1>2, <1>4, ShownStays DEF AloneInv
<1>8. OneIsActive' /\ UsedFits'
  BY <1>2, <1>3, <1>4, <1>5, ActiveStays
<1>9. AtWorkFits(r)'
  BY <1>2 DEF AtWorkFits, WorkFits, Submitting, Deciding
<1>10. Follows
  BY <1>3, <1>4, <1>5 DEF Follows, Workflow, Statuses
<1> QED
  BY <1>6, <1>7, <1>8, <1>9, <1>10, AloneDone

LEMMA WritesAlone ==
    ASSUME AloneInv, IInv', NEW r \in Requests, OnlyIt(r), WriteEvent(r) \/ WriteAuditLog(r)
    PROVE  AloneInv' /\ Follows
<1>1. CASE WriteEvent(r)
  <2>1. pc[r] = "event" /\ pc'[r] = "audit" /\ UNCHANGED <<ruleVars, faults>>
    BY <1>1 DEF WriteEvent, Goto, AloneInv, IInv, TypeOK
  <2>2. AtWorkFits(r)'
    BY <2>1 DEF AtWorkFits, WorkFits, Submitting, Deciding
  <2> QED
    BY <2>1, <2>2, OnlyReads
<1>2. CASE WriteAuditLog(r)
  BY <1>2, EndsAlone DEF WriteAuditLog
<1> QED
  BY <1>1, <1>2

LEMMA DeprecateAlone ==
    ASSUME AloneInv, IInv', NEW r \in Requests, OnlyIt(r), Deprecate(r)
    PROVE  AloneInv' /\ Follows
<1>1. PICK c, v : c = call[r] /\ v = c.version
  OBVIOUS
<1>2. /\ pc[r] = "deprecate" /\ WorkFits("deprecate", c) /\ v \in Versions /\ pc'[r] = "activate"
      /\ status' = [w \in Versions |-> IF w \in Superseded(v) THEN "deprecated" ELSE status[w]]
      /\ UNCHANGED <<steps, active, faults, call>>
  BY <1>1, AtWorkAlone DEF Deprecate, Goto, AloneInv, IInv, TypeOK
<1>3. status[v] \in {"approved", "active"}
  BY <1>1, <1>2 DEF WorkFits
<1>4. /\ status'[v] = status[v]
      /\ \A w \in Versions \ {v} :
            \/ status[w] = "active" /\ status'[w] = "deprecated"
            \/ status[w] # "active" /\ status'[w] = status[w]
  BY <1>2 DEF Superseded
<1>5. ASSUME NEW w \in Versions PROVE ShownFits(w)'
  BY <1>2, <1>4, ShownStays DEF AloneInv, Done
<1>6. OneIsActive'
  BY <1>4 DEF OneIsActive
<1>7. UsedFits'
  BY <1>2 DEF UsedFits
<1>8. AtWorkFits(r)'
  BY <1>1, <1>2, <1>3, <1>4 DEF AtWorkFits, WorkFits, Submitting, Deciding, OthersRest
<1>9. Follows
  BY <1>4 DEF Follows, Workflow, Statuses
<1> QED
  BY <1>5, <1>6, <1>7, <1>8, <1>9, AloneDone

LEMMA ActivateAlone ==
    ASSUME AloneInv, IInv', NEW r \in Requests, OnlyIt(r), Activate(r)
    PROVE  AloneInv' /\ Follows
<1>1. PICK c, v : c = call[r] /\ v = c.version
  OBVIOUS
<1>2. /\ pc[r] = "activate" /\ WorkFits("activate", c) /\ v \in Versions /\ pc'[r] = "pointRule"
      /\ status' = [status EXCEPT ![v] = "active"]
      /\ UNCHANGED <<steps, active, faults, call>>
  BY <1>1, AtWorkAlone DEF Activate, Goto, AloneInv, IInv, TypeOK
<1>3. status[v] \in {"approved", "active"} /\ OthersRest(v)
  BY <1>1, <1>2 DEF WorkFits
<1>4. status'[v] = "active" /\ \A w \in Versions \ {v} : status'[w] = status[w]
  BY <1>2 DEF AloneInv, IInv, TypeOK
<1>5. ASSUME NEW w \in Versions PROVE ShownFits(w)'
  BY <1>2, <1>3, <1>4, ShownStays DEF AloneInv, Done
<1>6. OneIsActive'
  BY <1>3, <1>4 DEF OneIsActive, OthersRest
<1>7. UsedFits'
  BY <1>2 DEF UsedFits
<1>8. AtWorkFits(r)'
  BY <1>1, <1>2, <1>3, <1>4 DEF AtWorkFits, WorkFits, Submitting, Deciding, OthersRest
<1>9. Follows
  BY <1>3, <1>4 DEF Follows, Workflow, Statuses
<1> QED
  BY <1>5, <1>6, <1>7, <1>8, <1>9, AloneDone

LEMMA PointRuleAlone ==
    ASSUME AloneInv, IInv', NEW r \in Requests, OnlyIt(r), PointRule(r)
    PROVE  AloneInv' /\ Follows
<1>1. PICK c, v : c = call[r] /\ v = c.version
  OBVIOUS
<1>2. /\ pc[r] = "pointRule" /\ WorkFits("pointRule", c) /\ v \in Versions /\ pc'[r] = "idle"
      /\ active' = v /\ UNCHANGED <<steps, status, faults>>
  BY <1>1, AtWorkAlone DEF PointRule, PointedAt, End, Goto, AloneInv, IInv, TypeOK
<1>3. status[v] = "active" /\ OthersRest(v)
  BY <1>1, <1>2 DEF WorkFits
<1>4. \A w \in Versions : ShownFits(w)'
  BY <1>2, ShownStays DEF AloneInv
<1>5. OneIsActive' /\ UsedFits'
  BY <1>2, <1>3 DEF AloneInv, OneIsActive, UsedFits, OthersRest
<1>6. AtWorkFits(r)'
  BY <1>2 DEF AtWorkFits
<1> QED
  BY <1>2, <1>4, <1>5, <1>6, AloneDone, SameFollows

LEMMA AloneNext ==
    ASSUME AloneInv, OneAtWork, OneAtWork', [Next]_vars
    PROVE  AloneInv' /\ Follows
<1>1. IInv'
  BY NextInv DEF AloneInv
<1>2. CASE UNCHANGED vars
  <2>1. UNCHANGED <<status, steps, active, pc, call, faults>>
    BY <1>2 DEF vars, ruleVars
  <2>2. ASSUME NEW r \in Requests PROVE AtWorkFits(r)'
    BY <2>1 DEF AloneInv, AtWorkFits, WorkFits, AllAre, StepIs, OthersRest
  <2>3. ASSUME NEW v \in Versions PROVE ShownFits(v)'
    BY <2>1, ShownStays DEF AloneInv
  <2>4. OneIsActive' /\ UsedFits'
    BY <2>1 DEF AloneInv, OneIsActive, UsedFits
  <2> QED
    BY <1>1, <2>1, <2>2, <2>3, <2>4, SameFollows DEF AloneInv
<1>3. CASE Next
  <2>1. PICK r \in Requests : Step(r) \/ Fault(r) \/ \E v \in Versions : Start(r, v)
    BY <1>3 DEF Next
  <2>2. OnlyMoves(r) /\ (pc[r] # "idle" \/ pc'[r] # "idle")
    <3>1. CASE Step(r) \/ Fault(r)
      <4>1. OnlyMoves(r)
        BY <3>1 DEF Step, Fault, InsertStep, ListSteps, InsertDefault, ResetSteps, StartFirst, SubmitVersion,
           ReadSteps, MarkStep, MarkNext, JudgeVersion, WriteEvent, WriteAuditLog, Deprecate, Activate,
           PointRule, End, Goto, OnlyMoves, AloneInv, IInv, TypeOK
      <4>2. pc[r] # "idle"
        BY <3>1 DEF Step, Fault, InsertStep, ListSteps, InsertDefault, ResetSteps, StartFirst, SubmitVersion,
           ReadSteps, MarkStep, MarkNext, JudgeVersion, WriteEvent, WriteAuditLog, Deprecate, Activate, PointRule
      <4> QED
        BY <4>1, <4>2
    <3>2. ASSUME NEW v \in Versions, Start(r, v)
          PROVE  OnlyMoves(r) /\ pc'[r] # "idle"
      BY <3>2 DEF Start, CreateVersion, BeginSubmit, BeginActivate, BeginDecide, Begin, Goto, OnlyMoves,
         AloneInv, IInv, TypeOK
    <3> QED
      BY <2>1, <3>1, <3>2
  <2>3. OnlyIt(r)
    <3>1. ASSUME NEW q \in Requests \ {r} PROVE pc[q] = "idle" /\ pc'[q] = "idle"
      BY <2>2 DEF OnlyMoves, OneAtWork
    <3> QED
      BY <3>1 DEF OnlyIt
  <2>4. CASE Step(r)
    <3>1. CASE InsertStep(r) \/ ListSteps(r) \/ InsertDefault(r) \/ ResetSteps(r)
      BY <1>1, <2>3, <3>1, InsertStepAlone, ListStepsAlone, InsertDefaultAlone, ResetStepsAlone
    <3>2. CASE StartFirst(r) \/ SubmitVersion(r) \/ ReadSteps(r) \/ MarkStep(r) \/ MarkNext(r)
      BY <1>1, <2>3, <3>2, StartFirstAlone, SubmitVersionAlone, ReadStepsAlone, MarkStepAlone, MarkNextAlone
    <3>3. CASE JudgeVersion(r) \/ WriteEvent(r) \/ WriteAuditLog(r)
      BY <1>1, <2>3, <3>3, JudgeVersionAlone, WritesAlone
    <3>4. CASE Deprecate(r) \/ Activate(r) \/ PointRule(r)
      BY <1>1, <2>3, <3>4, DeprecateAlone, ActivateAlone, PointRuleAlone
    <3> QED
      BY <2>4, <3>1, <3>2, <3>3, <3>4 DEF Step
  <2>5. CASE Fault(r)
    <3>1. End(r) /\ UNCHANGED ruleVars
      BY <2>5 DEF Fault
    <3>2. faults' # 0
      BY <2>5 DEF Fault, AloneInv, IInv, TypeOK
    <3> QED
      BY <1>1, <2>3, <3>1, <3>2, EndsAlone
  <2>6. ASSUME NEW v \in Versions, Start(r, v) PROVE AloneInv' /\ Follows
    BY <1>1, <2>3, <2>6, CreateVersionAlone, BeginsAlone DEF Start
  <2> QED
    BY <2>1, <2>4, <2>5, <2>6
<1> QED
  BY <1>2, <1>3

\* As long as no two requests are at work at once, however many are lost halfway: at most one
\* version is active, the steps of an approved version all say approved, the rule points to the
\* version that is active unless an activation was lost, and every version goes only along its
\* workflow (submitBadgeIssuanceRuleVersionForApproval, decideBadgeIssuanceRuleVersion,
\* activateBadgeIssuanceRuleVersion).
THEOREM OneByOneFollows == Spec /\ []OneAtWork => []VersionsAgree /\ FollowsWorkflow
<1>1. Init => AloneInv
  <2> SUFFICES ASSUME Init PROVE AloneInv
    OBVIOUS
  <2>1. IInv /\ \A v \in Versions : steps[v] = <<>> /\ status[v] = "absent"
    BY InitInv DEF Init
  <2>2. \A v \in Versions : ShownFits(v)
    BY <2>1 DEF ShownFits, Done
  <2>3. \A r \in Requests : AtWorkFits(r)
    BY DEF Init, AtWorkFits
  <2>4. OneIsActive /\ UsedFits
    BY <2>1, NoVersionAssumption DEF OneIsActive, UsedFits, Init
  <2> QED
    BY <2>1, <2>2, <2>3, <2>4 DEF AloneInv
<1>2. AloneInv => VersionsAgree
  <2> SUFFICES ASSUME AloneInv PROVE VersionsAgree
    OBVIOUS
  <2>1. OneActive
    <3>1. PICK actives : actives = {v \in Versions : status[v] = "active"}
      OBVIOUS
    <3>2. CASE actives = {}
      BY <3>1, <3>2, FS_EmptySet DEF OneActive
    <3>3. CASE actives # {}
      <4>1. PICK v : actives = {v}
        BY <3>1, <3>3 DEF AloneInv, OneIsActive
      <4>2. Cardinality(actives) = 1
        BY <4>1, FS_Singleton
      <4> QED
        BY <3>1, <4>2 DEF OneActive
    <3> QED
      BY <3>2, <3>3
  <2>2. ApprovalShown
    <3>1. ASSUME NEW v \in Versions, status[v] \in Done PROVE \A n \in DOMAIN steps[v] : steps[v][n].status = "approved"
      <4>1. DOMAIN steps[v] = 1..Len(steps[v])
        BY LenProperties DEF AloneInv, IInv, TypeOK
      <4> QED
        BY <3>1, <4>1 DEF AloneInv, ShownFits, AllAre, StepIs
    <3> QED
      BY <3>1 DEF ApprovalShown, Done
  <2>3. ActiveIsUsed
    BY DEF AloneInv, UsedFits, ActiveIsUsed
  <2> QED
    BY <2>1, <2>2, <2>3 DEF VersionsAgree
<1>3. AloneInv /\ OneAtWork /\ OneAtWork' /\ [Next]_vars => AloneInv' /\ [Follows]_vars
  BY AloneNext
<1>4. [Follows]_vars <=> [\A v \in Versions :
        status'[v] # status[v] => status'[v] \in Workflow[status[v]]]_vars
  BY DEF Follows
<1> QED
  BY <1>1, <1>2, <1>3, <1>4, PTL DEF Spec, FollowsWorkflow

-----------------------------------------------------------------------------
(* Evaluations and reviews, while versions go on being approved.           *)

Approved(v) == v \in early \/ granted[v] = DOMAIN Chain[v]

Outcomes == {"matched", "review_required", "no_match"}

EvaluateJob(facts) ==
    [op: {"evaluate"}, eval: Evaluations, learner: Learners, version: Versions,
     named: BOOLEAN, dryRun: BOOLEAN, facts: {facts}, outcome: Outcomes]
ResolveJob == [op: {"resolve"}, eval: Evaluations, decision: {"issue", "dismiss"}]

EvaluatePlaces == {"load", "issue", "record"}
ResolvePlaces == {"issueReview", "resolve"}

\* What a caller that evaluates holds: the outcome is of its facts, and what it is going
\* to record as issued was.
EvaluateFits(place, j) ==
    /\ j \in EvaluateJob(j.facts)
    /\ ~evaluations[j.eval].exists
    /\ j.named \/ Approved(j.version)
    /\ place # "load" => j.outcome = Outcome(RuleOf[j.version], j.facts)
    /\ place = "issue" => j.outcome = "matched" /\ ~j.dryRun
    /\ place = "record" /\ j.outcome = "matched" /\ ~j.dryRun =>
           RuleKey(j.version, j.learner) \in issued

\* What one that resolves a review does: unless others did too, it is still open.
ResolveFits(place, j) ==
    /\ j \in ResolveJob
    /\ evaluations[j.eval].exists
    /\ j.eval \notin disturbed => evaluations[j.eval].review = "pending"
    /\ place = "issueReview" => j.decision = "issue"
    /\ place = "resolve" /\ j.decision = "issue" => ReviewKey(j.eval) \in issued

CallerFits(place, j) ==
    /\ place = "idle" => j = NoJob
    /\ place \in EvaluatePlaces => EvaluateFits(place, j)
    /\ place \in ResolvePlaces => ResolveFits(place, j)

\* Two callers are about one evaluation only if it is disturbed.
CallersDiffer ==
    \A p, q \in Callers :
        /\ at[p] \in EvaluatePlaces /\ at[q] \in EvaluatePlaces /\ job[p].eval = job[q].eval => p = q
        /\ at[p] \in ResolvePlaces /\ at[q] \in ResolvePlaces /\ job[p].eval = job[q].eval
               /\ job[p].eval \notin disturbed => p = q

Evaluation(facts) ==
    [exists: {TRUE}, version: Versions, named: BOOLEAN, dryRun: BOOLEAN, learner: Learners,
     facts: {facts}, matched: BOOLEAN, assertions: SUBSET issued,
     issuance: {"none", "issued", "review_required", "review_dismissed"},
     review: {"none", "pending", "resolved"}, decision: {"none", "issue", "dismiss"}]

HistoricalOf(r) ==
    IF r.issuance = "review_required" THEN "review_required"
    ELSE IF r.matched THEN "matched" ELSE "no_match"

\* What a row says holds of its version, of the badges issued and of its facts.
RowFits(r) ==
    r = NoRow \/
    /\ r \in Evaluation(r.facts)
    /\ r.named \/ Approved(r.version)
    /\ r.issuance = "issued" => r.assertions # {}
    /\ r.review = "resolved" <=> r.decision # "none"
    /\ ~r.dryRun /\ r.review # "resolved" =>
           /\ Outcome(RuleOf[r.version], r.facts) = HistoricalOf(r)
           /\ r.matched <=> HistoricalOf(r) = "matched"

\* A badge of a review is of an entry that says so, or of a caller about to say so.
BadgeFits(e) ==
    ReviewKey(e) \in issued =>
        /\ evaluations[e].exists
        /\ e \notin disturbed =>
            \/ evaluations[e].decision = "issue"
            \/ \E p \in Callers : at[p] = "resolve" /\ job[p].eval = e /\ job[p].decision = "issue"

ReviewInv ==
    /\ lms \in [Learners -> Worlds] /\ disturbed \subseteq Evaluations /\ lost \in 0..MaxLost
    /\ at \in [Callers -> CallerPlaces] /\ DOMAIN job = Callers /\ job = [p \in Callers |-> job[p]]
    /\ evaluations = [e \in Evaluations |-> evaluations[e]]
    /\ \A p \in Callers : CallerFits(at[p], job[p])
    /\ CallersDiffer
    /\ \A e \in Evaluations : RowFits(evaluations[e])
    /\ \A e \in Evaluations : BadgeFits(e)

LEMMA ReviewInitInv == ReviewInit => ReviewInv
<1> SUFFICES ASSUME ReviewInit PROVE ReviewInv
  OBVIOUS
<1>1. lms \in [Learners -> Worlds] /\ lost \in 0..MaxLost
  BY ReviewAssumption DEF ReviewInit
<1>2. \A p \in Callers : CallerFits(at[p], job[p])
  BY DEF ReviewInit, CallerFits, EvaluatePlaces, ResolvePlaces
<1>3. CallersDiffer
  BY DEF ReviewInit, CallersDiffer, EvaluatePlaces, ResolvePlaces
<1>4. \A e \in Evaluations : RowFits(evaluations[e]) /\ BadgeFits(e)
  BY DEF ReviewInit, RowFits, BadgeFits
<1> QED
  BY <1>1, <1>2, <1>3, <1>4 DEF ReviewInit, ReviewInv, CallerPlaces

-----------------------------------------------------------------------------
(* Approvals go on.                                                        *)

LEMMA ChainDomain == \A v \in Versions : DOMAIN Chain[v] = 1..Len(Chain[v])
<1> SUFFICES ASSUME NEW v \in Versions
             PROVE  DOMAIN Chain[v] = 1..Len(Chain[v])
  OBVIOUS
<1>1. Chain[v] \in Seq(Nat)
  BY ChainAssumption
<1> QED
  BY <1>1, LenProperties

\* What was granted stays granted.
LEMMA GrantsStay ==
    ASSUME IInv, [Next]_vars
    PROVE  early \subseteq early' /\ \A v \in Versions : granted[v] \subseteq granted'[v]
<1> DEFINE Stay == early \subseteq early' /\ \A v \in Versions : granted[v] \subseteq granted'[v]
<1>1. CASE UNCHANGED <<early, granted>>
  BY <1>1
<1>2. ASSUME NEW r \in Requests, MarkStep(r)
      PROVE  Stay
  BY <1>2 DEF MarkStep, IInv, TypeOK
<1>3. ASSUME NEW r \in Requests, NEW v \in Versions, BeginSubmit(r, v)
      PROVE  Stay
  BY <1>3 DEF BeginSubmit
<1>4. ASSUME NEW r \in Requests, Step(r) \/ Fault(r)
      PROVE  Stay
  BY <1>1, <1>2, <1>4
  DEF Step, Fault, InsertStep, ListSteps, InsertDefault, ResetSteps, StartFirst, SubmitVersion,
      ReadSteps, MarkNext, JudgeVersion, WriteEvent, WriteAuditLog, Deprecate, Activate, PointRule
<1>5. ASSUME NEW r \in Requests, NEW v \in Versions, Start(r, v)
      PROVE  Stay
  BY <1>1, <1>3, <1>5 DEF Start, CreateVersion, BeginActivate, BeginDecide
<1>6. CASE UNCHANGED vars
  BY <1>1, <1>6 DEF vars
<1> QED
  BY <1>4, <1>5, <1>6 DEF Next

LEMMA ApprovedStays ==
    ASSUME IInv, [Next]_vars, NEW v \in Versions, Approved(v)
    PROVE  Approved(v)'
<1>1. IInv'
  BY NextInv
<1>2. early \subseteq early' /\ granted[v] \subseteq granted'[v]
  BY GrantsStay
<1>3. granted'[v] \subseteq 1..Len(steps'[v]) /\ Len(steps'[v]) <= Len(Chain[v])
  BY <1>1 DEF IInv, VersionOK
<1>4. Len(steps'[v]) \in Nat /\ Len(Chain[v]) \in Nat
  <2>1. steps'[v] \in Seq([rank: Nat, status: StepStatuses])
    BY <1>1 DEF IInv, TypeOK
  <2> QED
    BY <2>1, ChainLength
<1>5. granted'[v] \subseteq DOMAIN Chain[v]
  BY <1>3, <1>4, ChainDomain
<1> QED
  BY <1>2, <1>5 DEF Approved

\* The version a rule is evaluated by was approved.
LEMMA ActiveIsApproved ==
    ASSUME IInv, NEW v \in VersionsInUse
    PROVE  v \in Versions /\ Approved(v)
<1>1. v \in Versions /\ active = v
  BY DEF VersionsInUse, IInv, TypeOK
<1> QED
  BY <1>1, ChainDomain DEF IInv, VersionOK, Approved

-----------------------------------------------------------------------------
(* What a step leaves alone.                                               *)

ApprovalsStay == \A v \in Versions : Approved(v) => Approved(v)'

LEMMA CallerKept ==
    ASSUME NEW place, NEW j, CallerFits(place, j), ApprovalsStay,
           issued \subseteq issued', disturbed \subseteq disturbed',
           place \in EvaluatePlaces \cup ResolvePlaces =>
               evaluations'[j.eval].exists = evaluations[j.eval].exists,
           place \in ResolvePlaces /\ j.eval \notin disturbed' =>
               evaluations'[j.eval].review = evaluations[j.eval].review
    PROVE  CallerFits(place, j)'
<1>1. ASSUME place \in EvaluatePlaces
      PROVE  EvaluateFits(place, j)'
  <2>1. EvaluateFits(place, j) /\ evaluations'[j.eval].exists = evaluations[j.eval].exists
    BY <1>1 DEF CallerFits
  <2>2. j.version \in Versions
    BY <2>1 DEF EvaluateFits, EvaluateJob
  <2> QED
    BY <2>1, <2>2 DEF EvaluateFits, ApprovalsStay
<1>2. ASSUME place \in ResolvePlaces
      PROVE  ResolveFits(place, j)'
  BY <1>2 DEF CallerFits, ResolveFits
<1> QED
  BY <1>1, <1>2 DEF CallerFits

LEMMA RowKept ==
    ASSUME NEW r, RowFits(r), ApprovalsStay, issued \subseteq issued'
    PROVE  RowFits(r)'
<1>1. CASE r = NoRow
  BY <1>1 DEF RowFits
<1>2. CASE r # NoRow
  <2>1. r \in Evaluation(r.facts)' /\ r.version \in Versions
    BY <1>2 DEF RowFits, Evaluation
  <2> QED
    BY <1>2, <2>1 DEF RowFits, ApprovalsStay
<1> QED
  BY <1>1, <1>2

\* Approvals and previews leave evaluations and reviews alone.
LEMMA ReviewStutters ==
    ASSUME ReviewInv, ApprovalsStay, UNCHANGED reviewVars
    PROVE  ReviewInv'
<1> USE DEF ReviewInv, reviewVars
<1>1. \A p \in Callers : CallerFits(at[p], job[p])'
  BY CallerKept
<1>2. \A e \in Evaluations : RowFits(evaluations[e])'
  BY RowKept
<1>3. CallersDiffer'
  BY DEF CallersDiffer
<1>4. \A e \in Evaluations : BadgeFits(e)'
  BY DEF BadgeFits
<1> QED
  BY <1>1, <1>2, <1>3, <1>4

-----------------------------------------------------------------------------
(* One caller moves.                                                       *)

OthersStay(p) == \A q \in Callers \ {p} : at'[q] = at[q] /\ job'[q] = job[q]

LEMMA MovesOne ==
    ASSUME ReviewInv, NEW p \in Callers, NEW place \in CallerPlaces, NEW j,
           Move(p, place), job' = [job EXCEPT ![p] = j]
    PROVE  /\ at' \in [Callers -> CallerPlaces] /\ DOMAIN job' = Callers
           /\ job' = [q \in Callers |-> job'[q]]
           /\ at'[p] = place /\ job'[p] = j /\ OthersStay(p)
  BY DEF ReviewInv, Move, OthersStay

LEMMA FinishesOne ==
    ASSUME ReviewInv, NEW p \in Callers, Finish(p)
    PROVE  /\ at' \in [Callers -> CallerPlaces] /\ DOMAIN job' = Callers
           /\ job' = [q \in Callers |-> job'[q]]
           /\ at'[p] = "idle" /\ job'[p] = NoJob /\ OthersStay(p) /\ CallerFits(at[p], job[p])'
<1>1. /\ at' \in [Callers -> CallerPlaces] /\ DOMAIN job' = Callers
      /\ job' = [q \in Callers |-> job'[q]]
      /\ at'[p] = "idle" /\ job'[p] = NoJob /\ OthersStay(p)
  BY DEF ReviewInv, Finish, Move, OthersStay, CallerPlaces
<1>2. CallerFits("idle", NoJob)'
  BY DEF CallerFits, EvaluatePlaces, ResolvePlaces
<1> QED
  BY <1>1, <1>2

LEMMA KeysDiffer == \A v, l, e : RuleKey(v, l) # ReviewKey(e)
<1> SUFFICES ASSUME NEW v, NEW l, NEW e, RuleKey(v, l) = ReviewKey(e)
             PROVE  FALSE
  OBVIOUS
<1>1. RuleKey(v, l)[1] = "rule" /\ ReviewKey(e)[1] = "review"
  BY DEF RuleKey, ReviewKey
<1> QED
  BY <1>1

LEMMA ReviewKeys == \A e, d : ReviewKey(e) = ReviewKey(d) => e = d
<1> SUFFICES ASSUME NEW e, NEW d, ReviewKey(e) = ReviewKey(d)
             PROVE  e = d
  OBVIOUS
<1>1. ReviewKey(e)[2] = e /\ ReviewKey(d)[2] = d
  BY DEF ReviewKey
<1> QED
  BY <1>1

\* The jobs of callers at work.
LEMMA AtJob ==
    ASSUME ReviewInv, NEW p \in Callers
    PROVE  /\ at[p] \in CallerPlaces
           /\ at[p] = "idle" => job[p] = NoJob
           /\ at[p] \in EvaluatePlaces =>
                  EvaluateFits(at[p], job[p]) /\ job[p] # NoJob /\ job[p].op = "evaluate"
           /\ at[p] \in ResolvePlaces =>
                  ResolveFits(at[p], job[p]) /\ job[p] # NoJob /\ job[p].op = "resolve"
<1>1. CallerFits(at[p], job[p]) /\ at[p] \in CallerPlaces
  BY DEF ReviewInv
<1>2. at[p] \in EvaluatePlaces => job[p].op = "evaluate"
  BY <1>1 DEF CallerFits, EvaluateFits, EvaluateJob
<1>3. at[p] \in ResolvePlaces => job[p].op = "resolve"
  BY <1>1 DEF CallerFits, ResolveFits, ResolveJob
<1>4. NoJob.op = "none"
  BY DEF NoJob
<1> QED
  BY <1>1, <1>2, <1>3, <1>4 DEF CallerFits

LEMMA BadgeKept ==
    ASSUME NEW p \in Callers, OthersStay(p), NEW e \in Evaluations, BadgeFits(e),
           at[p] = "resolve" => job[p].eval # e,
           evaluations'[e] = evaluations[e],
           ReviewKey(e) \in issued' => ReviewKey(e) \in issued, disturbed \subseteq disturbed'
    PROVE  BadgeFits(e)'
<1> SUFFICES ASSUME ReviewKey(e) \in issued
             PROVE  BadgeFits(e)'
  BY DEF BadgeFits
<1>1. \A q \in Callers : at[q] = "resolve" /\ job[q].eval = e => at'[q] = at[q] /\ job'[q] = job[q]
  BY DEF OthersStay
<1> QED
  BY <1>1 DEF BadgeFits

\* Those that do not move keep what they hold when rows and badges are as they were.
LEMMA OthersKept ==
    ASSUME ReviewInv, NEW p \in Callers, OthersStay(p), UNCHANGED <<vars, evaluations>>,
           issued \subseteq issued', disturbed \subseteq disturbed', NEW q \in Callers \ {p}
    PROVE  CallerFits(at[q], job[q])'
<1>1. ApprovalsStay
  BY DEF ApprovalsStay, Approved, vars
<1>2. PICK place, j : place = at[q] /\ j = job[q]
  OBVIOUS
<1>3. CallerFits(place, j)
  BY <1>2 DEF ReviewInv
<1>4. CallerFits(place, j)'
  BY <1>1, <1>3, CallerKept
<1> QED
  BY <1>2, <1>4 DEF OthersStay

LEMMA RowsKept ==
    ASSUME ReviewInv, UNCHANGED <<vars, evaluations>>, issued \subseteq issued'
    PROVE  \A e \in Evaluations : RowFits(evaluations[e])'
<1> SUFFICES ASSUME NEW e \in Evaluations
             PROVE  RowFits(evaluations[e])'
  OBVIOUS
<1>1. ApprovalsStay
  BY DEF ApprovalsStay, Approved, vars
<1>2. PICK r : r = evaluations[e]
  OBVIOUS
<1>3. RowFits(r)
  BY <1>2 DEF ReviewInv
<1>4. RowFits(r)'
  BY <1>1, <1>3, RowKept
<1> QED
  BY <1>2, <1>4

LEMMA BeginEvaluateInv ==
    ASSUME IInv, ReviewInv, NEW p \in Callers, NEW e \in Evaluations, NEW l \in Learners,
           NEW v \in Versions, NEW named \in BOOLEAN, NEW dryRun \in BOOLEAN,
           BeginEvaluate(p, e, l, v, named, dryRun), UNCHANGED vars
    PROVE  ReviewInv'
<1> DEFINE j == [op |-> "evaluate", eval |-> e, learner |-> l, version |-> v, named |-> named,
                 dryRun |-> dryRun, facts |-> lms[l], outcome |-> "no_match"]
<1>1. /\ at[p] = "idle" /\ Move(p, "load") /\ job' = [job EXCEPT ![p] = j]
      /\ ~evaluations[e].exists /\ \A q \in Callers : job[q] # NoJob => job[q].eval # e
      /\ UNCHANGED <<lms, evaluations, issued, lost, disturbed>>
      /\ ~named => v \in VersionsInUse
  BY DEF BeginEvaluate
<1>2. /\ at' \in [Callers -> CallerPlaces] /\ DOMAIN job' = Callers
      /\ job' = [q \in Callers |-> job'[q]]
      /\ at'[p] = "load" /\ job'[p] = j /\ OthersStay(p)
  <2>1. "load" \in CallerPlaces
    BY DEF CallerPlaces
  <2> HIDE DEF j
  <2> QED
    BY <1>1, <2>1, MovesOne
<1>3. CallerFits("load", j)'
  <2>1. named \/ Approved(v)
    BY <1>1, ActiveIsApproved
  <2>2. (named \/ Approved(v))'
    BY <2>1 DEF Approved, vars
  <2>3. j \in EvaluateJob(j.facts)
    BY DEF EvaluateJob, Outcomes
  <2>4. EvaluateFits("load", j)'
    BY <1>1, <2>2, <2>3 DEF EvaluateFits
  <2> QED
    BY <2>4 DEF CallerFits, ResolvePlaces
<1>4. \A q \in Callers : CallerFits(at[q], job[q])'
  BY <1>1, <1>2, <1>3, OthersKept
<1>5. CallersDiffer'
  <2>1. \A q \in Callers : at[q] \in EvaluatePlaces => job[q].eval # e
    BY <1>1, AtJob
  <2>2. \A q \in Callers \ {p} : at'[q] = at[q] /\ job'[q] = job[q]
    BY <1>2 DEF OthersStay
  <2>3. j.eval = e /\ "load" \notin ResolvePlaces
    BY DEF ResolvePlaces
  <2> HIDE DEF j
  <2> QED
    BY <1>1, <1>2, <2>1, <2>2, <2>3 DEF CallersDiffer, ReviewInv
<1>6. \A d \in Evaluations : BadgeFits(d)'
  BY <1>1, <1>2, BadgeKept DEF ReviewInv
<1> QED
  BY <1>1, <1>2, <1>4, <1>5, <1>6, RowsKept DEF ReviewInv

\* A caller goes on with its evaluation.
LEMMA DiffersInPlace ==
    ASSUME ReviewInv, NEW p \in Callers, OthersStay(p), job'[p].eval = job[p].eval,
           disturbed \subseteq disturbed',
           at'[p] \in EvaluatePlaces => at[p] \in EvaluatePlaces,
           at'[p] \in ResolvePlaces => at[p] \in ResolvePlaces
    PROVE  CallersDiffer'
<1>1. \A q \in Callers : /\ job'[q].eval = job[q].eval
                         /\ at'[q] \in EvaluatePlaces => at[q] \in EvaluatePlaces
                         /\ at'[q] \in ResolvePlaces => at[q] \in ResolvePlaces
  BY DEF OthersStay
<1> QED
  BY <1>1 DEF CallersDiffer, ReviewInv

\* A caller is done.
LEMMA DiffersWhenDone ==
    ASSUME ReviewInv, NEW p \in Callers, OthersStay(p), at'[p] = "idle",
           disturbed \subseteq disturbed'
    PROVE  CallersDiffer'
<1>1. \A q \in Callers \ {p} : at'[q] = at[q] /\ job'[q] = job[q]
  BY DEF OthersStay
<1>2. at'[p] \notin EvaluatePlaces \cup ResolvePlaces
  BY DEF EvaluatePlaces, ResolvePlaces
<1> QED
  BY <1>1, <1>2 DEF CallersDiffer, ReviewInv

LEMMA OutcomeType == \A rule, f : Outcome(rule, f) \in Outcomes
  BY DEF Outcome, Outcomes

LEMMA LoadFactsInv ==
    ASSUME ReviewInv, NEW p \in Callers, LoadFacts(p), UNCHANGED vars
    PROVE  ReviewInv'
<1>1. PICK j : j = job[p]
  OBVIOUS
<1>2. at[p] = "load" /\ UNCHANGED <<lms, evaluations, issued, lost, disturbed>>
  BY DEF LoadFacts
<1>3. PICK facts, o : /\ o = Outcome(RuleOf[j.version], facts)
                      /\ job' = [job EXCEPT ![p].facts = facts, ![p].outcome = o]
                      /\ Move(p, IF o = "matched" /\ ~j.dryRun THEN "issue" ELSE "record")
  BY <1>1 DEF LoadFacts
<1>4. PICK place, k : /\ place = IF o = "matched" /\ ~j.dryRun THEN "issue" ELSE "record"
                      /\ k = [j EXCEPT !.facts = facts, !.outcome = o]
  OBVIOUS
<1>5. job' = [job EXCEPT ![p] = k] /\ Move(p, place) /\ place \in CallerPlaces
  BY <1>1, <1>3, <1>4 DEF CallerPlaces, ReviewInv
<1>6. /\ at' \in [Callers -> CallerPlaces] /\ DOMAIN job' = Callers
      /\ job' = [q \in Callers |-> job'[q]]
      /\ at'[p] = place /\ job'[p] = k /\ OthersStay(p)
  BY <1>5, MovesOne
<1>7. EvaluateFits("load", j)
  BY <1>1, <1>2, AtJob DEF EvaluatePlaces
<1>8. /\ k \in EvaluateJob(k.facts) /\ k.outcome = o /\ k.facts = facts
      /\ k.eval = j.eval /\ k.version = j.version /\ k.named = j.named /\ k.dryRun = j.dryRun
  <2>1. j \in EvaluateJob(j.facts) /\ o \in Outcomes
    BY <1>3, <1>7, OutcomeType DEF EvaluateFits
  <2>2. k \in EvaluateJob(facts) /\ k.facts = facts
    BY <1>4, <2>1 DEF EvaluateJob
  <2> QED
    BY <1>4, <2>1, <2>2 DEF EvaluateJob
<1>9. CallerFits(place, k)'
  <2>1. (j.named \/ Approved(j.version))'
    BY <1>7 DEF EvaluateFits, Approved, vars
  <2>2. EvaluateFits(place, k)'
    BY <1>2, <1>3, <1>4, <1>7, <1>8, <2>1 DEF EvaluateFits
  <2> QED
    BY <1>4, <2>2 DEF CallerFits, ResolvePlaces
<1>10. \A q \in Callers : CallerFits(at[q], job[q])'
  BY <1>2, <1>6, <1>9, OthersKept
<1>11. CallersDiffer'
  BY <1>1, <1>2, <1>4, <1>6, <1>8, DiffersInPlace DEF EvaluatePlaces, ResolvePlaces
<1>12. \A d \in Evaluations : BadgeFits(d)'
  BY <1>2, <1>6, BadgeKept DEF ReviewInv
<1> QED
  BY <1>2, <1>6, <1>10, <1>11, <1>12, RowsKept DEF ReviewInv

LEMMA IssueMatchedInv ==
    ASSUME ReviewInv, NEW p \in Callers, IssueMatched(p), UNCHANGED vars
    PROVE  ReviewInv'
<1>1. PICK j : j = job[p]
  OBVIOUS
<1>2. /\ at[p] = "issue" /\ UNCHANGED <<lms, evaluations, job, lost, disturbed>>
      /\ issued' = issued \cup {RuleKey(j.version, j.learner)} /\ Move(p, "record")
  BY <1>1 DEF IssueMatched
<1>3. /\ at' \in [Callers -> CallerPlaces] /\ DOMAIN job' = Callers
      /\ job' = [q \in Callers |-> job'[q]]
      /\ at'[p] = "record" /\ job'[p] = j /\ OthersStay(p)
  BY <1>1, <1>2 DEF ReviewInv, Move, OthersStay, CallerPlaces
<1>4. EvaluateFits("issue", j)
  BY <1>1, <1>2, AtJob DEF EvaluatePlaces
<1>5. CallerFits("record", j)'
  <2>1. (j.named \/ Approved(j.version))'
    BY <1>4 DEF EvaluateFits, Approved, vars
  <2>2. EvaluateFits("record", j)'
    BY <1>2, <1>4, <2>1 DEF EvaluateFits
  <2> QED
    BY <2>2 DEF CallerFits, ResolvePlaces
<1>6. \A q \in Callers : CallerFits(at[q], job[q])'
  BY <1>2, <1>3, <1>5, OthersKept
<1>7. CallersDiffer'
  BY <1>1, <1>2, <1>3, DiffersInPlace DEF EvaluatePlaces, ResolvePlaces
<1>8. \A d \in Evaluations : BadgeFits(d)'
  BY <1>2, <1>3, KeysDiffer, BadgeKept DEF ReviewInv
<1> QED
  BY <1>2, <1>3, <1>6, <1>7, <1>8, RowsKept DEF ReviewInv

\* Another caller's entry is not the one that is written, unless it is disturbed.
LEMMA OthersKeptOfRow ==
    ASSUME ReviewInv, NEW p \in Callers, OthersStay(p), UNCHANGED <<vars, issued, disturbed>>,
           NEW e \in Evaluations, \A d \in Evaluations \ {e} : evaluations'[d] = evaluations[d],
           \/ at[p] \in EvaluatePlaces
           \/ at[p] \in ResolvePlaces /\ evaluations'[e].exists = evaluations[e].exists,
           job[p].eval = e, NEW q \in Callers \ {p}
    PROVE  CallerFits(at[q], job[q])'
<1>1. ApprovalsStay
  BY DEF ApprovalsStay, Approved, vars
<1>2. PICK place, j : place = at[q] /\ j = job[q]
  OBVIOUS
<1>3. CallerFits(place, j)
  BY <1>2 DEF ReviewInv
<1>4. place \in EvaluatePlaces \cup ResolvePlaces => j.eval \in Evaluations
  BY <1>2, AtJob DEF EvaluateFits, EvaluateJob, ResolveFits, ResolveJob
<1>5. place \in EvaluatePlaces => ~evaluations[j.eval].exists
  BY <1>3 DEF CallerFits, EvaluateFits
<1>6. place \in ResolvePlaces => evaluations[j.eval].exists
  BY <1>3 DEF CallerFits, ResolveFits
<1>7. at[p] \in EvaluatePlaces => ~evaluations[e].exists
  BY AtJob DEF EvaluateFits
<1>8. at[p] \in ResolvePlaces => evaluations[e].exists
  BY AtJob DEF ResolveFits
<1>9. CASE at[p] \in EvaluatePlaces
  <2>1. place \in EvaluatePlaces \cup ResolvePlaces => j.eval # e
    BY <1>2, <1>6, <1>7, <1>9 DEF ReviewInv, CallersDiffer
  <2>2. CallerFits(place, j)'
    BY <1>1, <1>3, <1>4, <2>1, CallerKept
  <2> QED
    BY <1>2, <2>2 DEF OthersStay
<1>10. CASE at[p] \in ResolvePlaces /\ evaluations'[e].exists = evaluations[e].exists
  <2>1. place \in ResolvePlaces /\ j.eval = e => e \in disturbed
    BY <1>2, <1>10 DEF ReviewInv, CallersDiffer
  <2>2. CallerFits(place, j)'
    BY <1>1, <1>3, <1>4, <1>10, <2>1, CallerKept
  <2> QED
    BY <1>2, <2>2 DEF OthersStay
<1> QED
  BY <1>9, <1>10

LEMMA OtherRowsKept ==
    ASSUME ReviewInv, UNCHANGED <<vars, issued>>,
           NEW e \in Evaluations, NEW d \in Evaluations \ {e}, evaluations'[d] = evaluations[d]
    PROVE  RowFits(evaluations[d])'
<1>1. ApprovalsStay
  BY DEF ApprovalsStay, Approved, vars
<1>2. PICK r : r = evaluations[d]
  OBVIOUS
<1>3. RowFits(r)
  BY <1>2 DEF ReviewInv
<1>4. RowFits(r)'
  BY <1>1, <1>3, RowKept
<1> QED
  BY <1>2, <1>4

LEMMA RecordInv ==
    ASSUME ReviewInv, NEW p \in Callers, Record(p), UNCHANGED vars
    PROVE  ReviewInv'
<1>1. PICK j, e : j = job[p] /\ e = j.eval
  OBVIOUS
<1> DEFINE issue == j.outcome = "matched" /\ ~j.dryRun
           review == j.outcome = "review_required" /\ ~j.dryRun
           new == [exists |-> TRUE, version |-> j.version, named |-> j.named, dryRun |-> j.dryRun,
                   learner |-> j.learner, facts |-> j.facts,
                   matched |-> j.outcome = "matched",
                   assertions |-> IF issue THEN {RuleKey(j.version, j.learner)} ELSE {},
                   issuance |-> IF issue THEN "issued" ELSE IF review THEN "review_required" ELSE "none",
                   review |-> IF review THEN "pending" ELSE "none", decision |-> "none"]
<1>2. PICK r : r = new
  OBVIOUS
<1>3. /\ at[p] = "record" /\ Finish(p) /\ UNCHANGED <<lms, issued, lost, disturbed>>
      /\ evaluations' = [evaluations EXCEPT ![e] = r]
  BY <1>1, <1>2 DEF Record, FactsRecorded
<1>4. EvaluateFits("record", j) /\ e \in Evaluations
  BY <1>1, <1>3, AtJob DEF EvaluatePlaces, EvaluateFits, EvaluateJob
<1>5. /\ at' \in [Callers -> CallerPlaces] /\ DOMAIN job' = Callers
      /\ job' = [q \in Callers |-> job'[q]]
      /\ at'[p] = "idle" /\ OthersStay(p) /\ CallerFits(at[p], job[p])'
  BY <1>3, FinishesOne
<1>6. /\ evaluations' = [d \in Evaluations |-> evaluations'[d]]
      /\ evaluations'[e] = r /\ \A d \in Evaluations \ {e} : evaluations'[d] = evaluations[d]
  BY <1>3, <1>4 DEF ReviewInv
<1>7. RowFits(r)'
  <2>1. /\ j \in EvaluateJob(j.facts)
        /\ j.named \/ Approved(j.version)
        /\ j.outcome = Outcome(RuleOf[j.version], j.facts)
        /\ issue => RuleKey(j.version, j.learner) \in issued
    BY <1>4 DEF EvaluateFits
  <2>2. /\ j.version \in Versions /\ j.named \in BOOLEAN /\ j.dryRun \in BOOLEAN
        /\ j.learner \in Learners /\ j.outcome \in Outcomes
    <3>1. j \in EvaluateJob(j.facts)
      BY <2>1
    <3> HIDE DEF issue, review, new
    <3> QED
      BY <3>1 DEF EvaluateJob
  <2>3. r.facts = j.facts /\ r.version = j.version /\ r.named = j.named /\ r.dryRun = j.dryRun
    BY <1>2
  <2>4. r \in Evaluation(r.facts)
    BY <1>2, <2>1, <2>2, <2>3 DEF Evaluation
  <2>5. r.issuance = "issued" => r.assertions # {}
    BY <1>2
  <2>6. r.review # "resolved" /\ r.decision = "none"
    BY <1>2
  <2>7. ASSUME ~r.dryRun
        PROVE  HistoricalOf(r) = j.outcome /\ (r.matched <=> j.outcome = "matched")
    BY <1>2, <2>2, <2>7 DEF HistoricalOf, Outcomes
  <2>8. RowFits(r)
    BY <2>1, <2>3, <2>4, <2>5, <2>6, <2>7 DEF RowFits
  <2>9. ApprovalsStay
    BY DEF ApprovalsStay, Approved, vars
  <2> HIDE DEF new
  <2> QED
    BY <1>3, <2>8, <2>9, RowKept
<1> HIDE DEF new
<1>8. \A d \in Evaluations : RowFits(evaluations[d])'
  BY <1>3, <1>4, <1>6, <1>7, OtherRowsKept
<1>9. \A q \in Callers : CallerFits(at[q], job[q])'
  BY <1>1, <1>3, <1>4, <1>5, <1>6, OthersKeptOfRow DEF EvaluatePlaces
<1>10. CallersDiffer'
  BY <1>3, <1>5, DiffersWhenDone
<1>11. ASSUME NEW d \in Evaluations
       PROVE  BadgeFits(d)'
  <2>1. CASE d = e
    BY <1>1, <1>3, <1>4, <2>1 DEF EvaluateFits, BadgeFits, ReviewInv
  <2>2. CASE d # e
    BY <1>3, <1>5, <1>6, <2>2, BadgeKept DEF ReviewInv
  <2> QED
    BY <2>1, <2>2
<1> QED
  BY <1>3, <1>5, <1>6, <1>8, <1>9, <1>10, <1>11 DEF ReviewInv

LEMMA BeginResolveInv ==
    ASSUME ReviewInv, NEW p \in Callers, NEW e \in Evaluations, NEW d \in {"issue", "dismiss"},
           BeginResolve(p, e, d), UNCHANGED vars
    PROVE  ReviewInv'
<1>1. PICK j : j = [op |-> "resolve", eval |-> e, decision |-> d]
  OBVIOUS
<1>2. PICK place : place = AfterPending(d)
  OBVIOUS
<1>3. /\ at[p] = "idle" /\ evaluations[e].exists /\ evaluations[e].review = "pending"
      /\ Move(p, place) /\ job' = [job EXCEPT ![p] = j]
      /\ UNCHANGED <<lms, evaluations, issued, lost>>
  BY <1>1, <1>2 DEF BeginResolve, Open
<1>4. /\ disturbed \subseteq disturbed' /\ disturbed' \subseteq Evaluations
      /\ (\E q \in Callers : job[q] # NoJob /\ job[q].eval = e) => e \in disturbed'
  BY DEF BeginResolve, ReviewInv
<1>5. place \in CallerPlaces /\ (place = "issueReview" <=> d = "issue") /\ place \in ResolvePlaces
      /\ place \notin EvaluatePlaces
  BY <1>2 DEF AfterPending, CallerPlaces, ResolvePlaces, EvaluatePlaces
<1>6. /\ at' \in [Callers -> CallerPlaces] /\ DOMAIN job' = Callers
      /\ job' = [q \in Callers |-> job'[q]]
      /\ at'[p] = place /\ job'[p] = j /\ OthersStay(p)
  BY <1>3, <1>5, MovesOne
<1>7. CallerFits(place, j)'
  <2>1. j \in ResolveJob /\ j.eval = e /\ j.decision = d
    BY <1>1 DEF ResolveJob
  <2>2. ResolveFits(place, j)'
    BY <1>3, <1>5, <2>1 DEF ResolveFits
  <2> QED
    BY <1>5, <2>2 DEF CallerFits, ResolvePlaces
<1>8. \A q \in Callers : CallerFits(at[q], job[q])'
  BY <1>3, <1>4, <1>6, <1>7, OthersKept
<1>9. CallersDiffer'
  <2>1. \A q \in Callers : at[q] \in ResolvePlaces /\ job[q].eval = e => e \in disturbed'
    BY <1>4, AtJob
  <2>2. \A q \in Callers \ {p} : at'[q] = at[q] /\ job'[q] = job[q]
    BY <1>6 DEF OthersStay
  <2>3. j.eval = e
    BY <1>1
  <2> QED
    BY <1>4, <1>5, <1>6, <2>1, <2>2, <2>3 DEF CallersDiffer, ReviewInv
<1>10. \A c \in Evaluations : BadgeFits(c)'
  BY <1>3, <1>4, <1>6, BadgeKept DEF ReviewInv
<1> QED
  BY <1>3, <1>4, <1>6, <1>8, <1>9, <1>10, RowsKept DEF ReviewInv

LEMMA IssueReviewedInv ==
    ASSUME ReviewInv, NEW p \in Callers, IssueReviewed(p), UNCHANGED vars
    PROVE  ReviewInv'
<1>1. PICK j, e : j = job[p] /\ e = j.eval
  OBVIOUS
<1>2. /\ at[p] = "issueReview" /\ UNCHANGED <<lms, evaluations, job, lost, disturbed>>
      /\ issued' = issued \cup {ReviewKey(e)} /\ Move(p, "resolve")
  BY <1>1 DEF IssueReviewed
<1>3. /\ at' \in [Callers -> CallerPlaces] /\ DOMAIN job' = Callers
      /\ job' = [q \in Callers |-> job'[q]]
      /\ at'[p] = "resolve" /\ job'[p] = j /\ OthersStay(p)
  BY <1>1, <1>2 DEF ReviewInv, Move, OthersStay, CallerPlaces
<1>4. ResolveFits("issueReview", j)
  BY <1>1, <1>2, AtJob DEF ResolvePlaces
<1>5. CallerFits("resolve", j)'
  <2>1. ResolveFits("resolve", j)'
    BY <1>1, <1>2, <1>4 DEF ResolveFits
  <2> QED
    BY <2>1 DEF CallerFits, EvaluatePlaces
<1>6. \A q \in Callers : CallerFits(at[q], job[q])'
  BY <1>2, <1>3, <1>5, OthersKept
<1>7. CallersDiffer'
  BY <1>1, <1>2, <1>3, DiffersInPlace DEF EvaluatePlaces, ResolvePlaces
<1>8. ASSUME NEW d \in Evaluations
      PROVE  BadgeFits(d)'
  <2>1. CASE d = e
    BY <1>1, <1>2, <1>3, <1>4, <2>1 DEF BadgeFits, ResolveFits
  <2>2. CASE d # e
    BY <1>2, <1>3, <2>2, ReviewKeys, BadgeKept DEF ReviewInv
  <2> QED
    BY <2>1, <2>2
<1> QED
  BY <1>2, <1>3, <1>6, <1>7, <1>8, RowsKept DEF ReviewInv

LEMMA ResolveReviewInv ==
    ASSUME ReviewInv, NEW p \in Callers, ResolveReview(p), UNCHANGED vars
    PROVE  ReviewInv'
<1>1. PICK j, e, r : j = job[p] /\ e = j.eval /\ r = evaluations[e]
  OBVIOUS
<1> DEFINE new == [r EXCEPT !.review = "resolved", !.decision = j.decision,
                            !.issuance = IF j.decision = "issue" THEN "issued" ELSE "review_dismissed",
                            !.assertions = IF j.decision = "issue" THEN {ReviewKey(e)} ELSE @]
<1>2. PICK k : k = new
  OBVIOUS
<1>3. at[p] = "resolve" /\ Finish(p) /\ UNCHANGED <<lms, issued, lost, disturbed>>
  BY DEF ResolveReview
<1>4. ResolveFits("resolve", j) /\ e \in Evaluations /\ j.decision \in {"issue", "dismiss"}
  BY <1>1, <1>3, AtJob DEF ResolvePlaces, ResolveFits, ResolveJob
<1>5. evaluations' = IF r.review = "pending" THEN [evaluations EXCEPT ![e] = k] ELSE evaluations
  BY <1>1, <1>2, <1>4 DEF ResolveReview, StillOpen, ReviewInv
<1>6. RowFits(r) /\ r.exists /\ r # NoRow
  <2>1. RowFits(r) /\ r.exists
    BY <1>1, <1>4 DEF ResolveFits, ReviewInv
  <2> QED
    BY <2>1 DEF NoRow
<1>7. r \in Evaluation(r.facts)
  BY <1>6 DEF RowFits
<1>8. /\ k \in Evaluation(k.facts) /\ k.exists = r.exists /\ k.review = "resolved"
      /\ k.decision = j.decision /\ k.version = r.version /\ k.named = r.named
      /\ j.decision = "issue" => k.assertions = {ReviewKey(e)}
      /\ j.decision = "dismiss" => k.issuance = "review_dismissed"
  <2>1. j.decision = "issue" => ReviewKey(e) \in issued
    BY <1>1, <1>4 DEF ResolveFits
  <2>2. k.facts = r.facts
    BY <1>2, <1>7 DEF Evaluation
  <2>3. k \in Evaluation(r.facts)
    BY <1>2, <1>4, <1>7, <2>1 DEF Evaluation
  <2>4. /\ k.exists = r.exists /\ k.review = "resolved"
        /\ k.decision = j.decision /\ k.version = r.version /\ k.named = r.named
        /\ j.decision = "issue" => k.assertions = {ReviewKey(e)}
        /\ j.decision = "dismiss" => k.issuance = "review_dismissed"
    BY <1>2, <1>7 DEF Evaluation
  <2> HIDE DEF new
  <2> QED
    BY <2>2, <2>3, <2>4
<1> HIDE DEF new
<1>9. /\ at' \in [Callers -> CallerPlaces] /\ DOMAIN job' = Callers
      /\ job' = [q \in Callers |-> job'[q]]
      /\ at'[p] = "idle" /\ OthersStay(p) /\ CallerFits(at[p], job[p])'
  BY <1>3, FinishesOne
<1>10. /\ evaluations' = [d \in Evaluations |-> evaluations'[d]]
       /\ evaluations'[e] = IF r.review = "pending" THEN k ELSE r
       /\ \A d \in Evaluations \ {e} : evaluations'[d] = evaluations[d]
  BY <1>1, <1>4, <1>5 DEF ReviewInv
<1>11. evaluations'[e].exists = evaluations[e].exists /\ evaluations[e].exists
  BY <1>1, <1>6, <1>8, <1>10
<1>12. RowFits(evaluations[e])'
  <2>1. ApprovalsStay
    BY DEF ApprovalsStay, Approved, vars
  <2>2. RowFits(k)
    BY <1>4, <1>6, <1>8 DEF RowFits
  <2>3. RowFits(k)' /\ RowFits(r)'
    BY <1>3, <1>6, <2>1, <2>2, RowKept
  <2> QED
    BY <1>10, <2>3
<1>13. \A d \in Evaluations : RowFits(evaluations[d])'
  BY <1>3, <1>4, <1>10, <1>12, OtherRowsKept
<1>14. ASSUME NEW q \in Callers
       PROVE  CallerFits(at[q], job[q])'
  <2>1. CASE q = p
    BY <1>9, <2>1
  <2>2. CASE q # p
    <3>1. at[p] \in ResolvePlaces /\ job[p].eval = e /\ q \in Callers \ {p}
      BY <1>1, <1>3, <2>2 DEF ResolvePlaces
    <3>2. evaluations'[e].exists = evaluations[e].exists /\ UNCHANGED <<vars, issued, disturbed>>
      BY <1>3, <1>11
    <3> QED
      BY <1>4, <1>9, <1>10, <3>1, <3>2, OthersKeptOfRow
  <2> QED
    BY <2>1, <2>2
<1>15. CallersDiffer'
  BY <1>3, <1>9, DiffersWhenDone
<1>16. ASSUME NEW d \in Evaluations
       PROVE  BadgeFits(d)'
  <2>1. CASE d # e
    BY <1>1, <1>3, <1>9, <1>10, <2>1, BadgeKept DEF ReviewInv
  <2>2. CASE d = e
    <3> SUFFICES ASSUME ReviewKey(e) \in issued, e \notin disturbed
                 PROVE  evaluations'[e].decision = "issue"
      BY <1>3, <1>11, <2>2 DEF BadgeFits
    <3>1. r.review = "pending" /\ r.decision = "none"
      BY <1>1, <1>4, <1>6 DEF ResolveFits, RowFits, Evaluation
    <3>2. PICK q \in Callers : at[q] = "resolve" /\ job[q].eval = e /\ job[q].decision = "issue"
      BY <1>1, <1>4, <3>1 DEF ReviewInv, BadgeFits
    <3>3. q = p
      BY <1>1, <1>3, <3>2 DEF ReviewInv, CallersDiffer, ResolvePlaces
    <3> QED
      BY <1>1, <1>8, <1>10, <3>1, <3>2, <3>3
  <2> QED
    BY <2>1, <2>2
<1> QED
  BY <1>3, <1>9, <1>10, <1>13, <1>14, <1>15, <1>16 DEF ReviewInv

LEMMA LoseInv ==
    ASSUME ReviewInv, NEW p \in Callers, Lose(p), UNCHANGED vars
    PROVE  ReviewInv'
<1>1. PICK e : e = job[p].eval
  OBVIOUS
<1>2. /\ at[p] # "idle" /\ Finish(p) /\ UNCHANGED <<lms, evaluations, issued>>
      /\ lost' \in 0..MaxLost
  BY ReviewAssumption DEF Lose, ReviewInv
<1>3. at[p] \in EvaluatePlaces \/ at[p] \in ResolvePlaces
  BY <1>2 DEF ReviewInv, CallerPlaces, EvaluatePlaces, ResolvePlaces
<1>4. e \in Evaluations
  BY <1>1, <1>3, AtJob DEF EvaluateFits, EvaluateJob, ResolveFits, ResolveJob
<1>5. /\ disturbed \subseteq disturbed' /\ disturbed' \subseteq Evaluations
      /\ at[p] \in ResolvePlaces => e \in disturbed'
  BY <1>1, <1>4, AtJob DEF Lose, ReviewInv
<1>6. /\ at' \in [Callers -> CallerPlaces] /\ DOMAIN job' = Callers
      /\ job' = [q \in Callers |-> job'[q]]
      /\ at'[p] = "idle" /\ OthersStay(p) /\ CallerFits(at[p], job[p])'
  BY <1>2, FinishesOne
<1>7. \A q \in Callers : CallerFits(at[q], job[q])'
  BY <1>2, <1>5, <1>6, OthersKept
<1>8. CallersDiffer'
  BY <1>5, <1>6, DiffersWhenDone
<1>9. ASSUME NEW d \in Evaluations
      PROVE  BadgeFits(d)'
  <2>1. CASE at[p] = "resolve" /\ d = e
    BY <1>2, <1>5, <2>1 DEF BadgeFits, ReviewInv, ResolvePlaces
  <2>2. CASE ~(at[p] = "resolve" /\ d = e)
    BY <1>1, <1>2, <1>5, <1>6, <2>2, BadgeKept DEF ReviewInv
  <2> QED
    BY <2>1, <2>2
<1> QED
  BY <1>2, <1>5, <1>6, <1>7, <1>8, <1>9, RowsKept DEF ReviewInv

LEMMA LearnInv ==
    ASSUME ReviewInv, NEW l \in Learners, NEW w \in Worlds, Learn(l, w), UNCHANGED vars
    PROVE  ReviewInv'
<1>1. lms' \in [Learners -> Worlds] /\ UNCHANGED <<evaluations, issued, at, job, lost, disturbed>>
  BY DEF Learn, ReviewInv
<1>2. ApprovalsStay
  BY DEF ApprovalsStay, Approved, vars
<1>3. \A p \in Callers : CallerFits(at[p], job[p])'
  BY <1>1, <1>2, CallerKept DEF ReviewInv
<1>4. CallersDiffer'
  BY <1>1 DEF ReviewInv, CallersDiffer
<1>5. \A e \in Evaluations : BadgeFits(e)'
  BY <1>1 DEF ReviewInv, BadgeFits
<1> QED
  BY <1>1, <1>3, <1>4, <1>5, RowsKept DEF ReviewInv

LEMMA ReviewNextInv ==
    ASSUME IInv, ReviewInv, [ReviewNext]_allVars
    PROVE  ReviewInv'
<1>1. CASE [Next]_vars /\ UNCHANGED reviewVars
  BY <1>1, ApprovedStays, ReviewStutters DEF ApprovalsStay
<1>2. ASSUME CallerStep, UNCHANGED vars
      PROVE  ReviewInv'
  BY <1>2, BeginEvaluateInv, LoadFactsInv, IssueMatchedInv, RecordInv, BeginResolveInv,
     IssueReviewedInv, ResolveReviewInv, LoseInv, LearnInv DEF CallerStep
<1> QED
  BY <1>1, <1>2 DEF ReviewNext, Preview, PreviewAnswered, allVars

\* While the rule is evaluated, its versions go their way as before.
THEOREM ReviewsFollowApproval == ReviewSpec => Spec
<1>1. ReviewInit => Init
  BY DEF ReviewInit
<1>2. [ReviewNext]_allVars => [Next]_vars
  BY DEF ReviewNext, Preview, PreviewAnswered, allVars
<1> QED
  BY <1>1, <1>2, PTL DEF ReviewSpec, Spec

\* The inductive invariant of evaluations and reviews holds.
THEOREM ReviewInvariance == ReviewSpec => [](IInv /\ ReviewInv)
<1>1. IInv /\ ReviewInv /\ [ReviewNext]_allVars => ReviewInv'
  BY ReviewNextInv
<1> QED
  BY <1>1, ReviewsFollowApproval, Invariance, ReviewInitInv, PTL DEF ReviewSpec

\* However evaluations, reviews and approvals overlap, and whichever are lost: what a rule
\* does by itself was approved by its whole chain, a badge of a review is of a decision to
\* issue it, and an entry that says a badge was issued names one that was.
THEOREM ReviewsAreDecided == ReviewSpec => []ReviewedAsDecided
<1>1. ASSUME IInv, ReviewInv
      PROVE  ReviewedAsDecided
  <2>1. \A e \in Evaluations : evaluations[e].exists => evaluations[e] # NoRow
    BY DEF NoRow
  <2>2. \A e \in Evaluations : evaluations[e].exists =>
            RowFits(evaluations[e]) /\ evaluations[e] \in Evaluation(evaluations[e].facts)
    BY <1>1, <2>1 DEF ReviewInv, RowFits
  <2>3. ReviewTypeOK
    <3>1. \A p \in Callers : at[p] = "idle" <=> job[p] = NoJob
      BY <1>1, AtJob DEF CallerPlaces, EvaluatePlaces, ResolvePlaces
    <3>2. \A e \in Evaluations : evaluations[e].exists =>
              /\ evaluations[e].version \in Versions /\ evaluations[e].learner \in Learners
              /\ evaluations[e].issuance \in {"none", "issued", "review_required", "review_dismissed"}
              /\ evaluations[e].review \in {"none", "pending", "resolved"}
              /\ evaluations[e].decision \in {"none", "issue", "dismiss"}
              /\ evaluations[e].assertions \subseteq issued
      BY <2>2 DEF Evaluation
    <3> QED
      BY <1>1, <3>1, <3>2 DEF ReviewTypeOK, ReviewInv
  <2>4. EvaluatedUnderApproval
    BY <2>1, <2>2 DEF EvaluatedUnderApproval, RowFits, Approved
  <2>5. BadgeMeansDecision
    <3> SUFFICES ASSUME NEW e \in Evaluations \ disturbed, evaluations[e].exists,
                        ReviewKey(e) \in issued
                 PROVE  /\ evaluations[e].decision # "dismiss"
                        /\ \/ evaluations[e].decision = "issue"
                           \/ \E p \in Callers : job[p] # NoJob /\ job[p].eval = e
      BY DEF BadgeMeansDecision
    <3>1. CASE evaluations[e].decision = "issue"
      BY <3>1
    <3>2. CASE evaluations[e].decision # "issue"
      <4>1. PICK p \in Callers : at[p] = "resolve" /\ job[p].eval = e
        BY <1>1, <3>2 DEF ReviewInv, BadgeFits
      <4>2. job[p] # NoJob /\ evaluations[e].review = "pending"
        BY <1>1, <4>1, AtJob DEF ResolvePlaces, ResolveFits
      <4>3. evaluations[e].decision = "none"
        BY <2>1, <2>2, <4>2 DEF RowFits
      <4> QED
        BY <4>1, <4>2, <4>3
    <3> QED
      BY <3>1, <3>2
  <2>6. IssuedHasBadge
    BY <2>1, <2>2, <2>3 DEF IssuedHasBadge, RowFits, ReviewTypeOK
  <2> QED
    BY <2>3, <2>4, <2>5, <2>6 DEF ReviewedAsDecided
<1> QED
  BY <1>1, ReviewInvariance, PTL

\* The record of an evaluation holds the facts that were judged, for every rule: simulating
\* it with these reports no change.
THEOREM SimulationsAgree == ReviewSpec => []SimulationAgrees
<1>1. ASSUME ReviewInv
      PROVE  SimulationAgrees
  <2> SUFFICES ASSUME NEW e \in Evaluations, evaluations[e].exists, ~evaluations[e].dryRun,
                      evaluations[e].review # "resolved"
               PROVE  /\ Projected(RuleOf[evaluations[e].version], e) = Historical(e)
                      /\ evaluations[e].matched <=> Historical(e) = "matched"
    BY DEF SimulationAgrees
  <2>1. RowFits(evaluations[e]) /\ evaluations[e] # NoRow
    BY <1>1 DEF ReviewInv, NoRow
  <2>2. HistoricalOf(evaluations[e]) = Historical(e)
    BY DEF HistoricalOf, Historical
  <2> QED
    BY <2>1, <2>2 DEF RowFits, Projected
<1> QED
  BY <1>1, ReviewInvariance, PTL

\* A review is resolved once: no later resolution, however late, changes the entry.
THEOREM ResolutionsStay == ReviewSpec => [][ResolvedStays]_allVars
<1>1. ASSUME ReviewInv, [ReviewNext]_allVars
      PROVE  ResolvedStays
  <2>1. CASE UNCHANGED evaluations
    BY <2>1 DEF ResolvedStays
  <2>2. ASSUME NEW p \in Callers, Record(p)
        PROVE  ResolvedStays
    <3>1. ~evaluations[job[p].eval].exists
      BY <1>1, <2>2, AtJob DEF Record, EvaluatePlaces, EvaluateFits
    <3> QED
      BY <1>1, <2>2, <3>1 DEF Record, ResolvedStays, ReviewInv
  <2>3. ASSUME NEW p \in Callers, ResolveReview(p)
        PROVE  ResolvedStays
    <3>1. CASE ~StillOpen(job[p].eval)
      BY <2>1, <2>3, <3>1 DEF ResolveReview
    <3>2. CASE StillOpen(job[p].eval)
      <4>1. \A e \in Evaluations : e # job[p].eval => evaluations'[e] = evaluations[e]
        BY <1>1, <2>3 DEF ResolveReview, ReviewInv
      <4> QED
        BY <3>2, <4>1 DEF StillOpen, ResolvedStays
    <3> QED
      BY <3>1, <3>2
  <2>4. ASSUME NEW p \in Callers, LoadFacts(p) \/ IssueMatched(p) \/ IssueReviewed(p) \/ Lose(p)
        PROVE  ResolvedStays
    BY <2>1, <2>4 DEF LoadFacts, IssueMatched, IssueReviewed, Lose
  <2>5. ASSUME NEW p \in Callers, NEW e \in Evaluations, NEW l \in Learners, NEW v \in Versions,
               NEW named \in BOOLEAN, NEW dryRun \in BOOLEAN, BeginEvaluate(p, e, l, v, named, dryRun)
        PROVE  ResolvedStays
    BY <2>1, <2>5 DEF BeginEvaluate
  <2>6. ASSUME NEW p \in Callers, NEW e \in Evaluations, NEW d, BeginResolve(p, e, d)
        PROVE  ResolvedStays
    BY <2>1, <2>6 DEF BeginResolve
  <2>7. ASSUME NEW l, NEW w, Learn(l, w)
        PROVE  ResolvedStays
    BY <2>1, <2>7 DEF Learn
  <2>8. CASE CallerStep
    BY <2>2, <2>3, <2>4, <2>5, <2>6, <2>7, <2>8 DEF CallerStep
  <2> QED
    BY <1>1, <2>1, <2>8 DEF ReviewNext, Preview, PreviewAnswered, allVars, reviewVars
<1>2. ReviewInv /\ [ReviewNext]_allVars => [ResolvedStays]_allVars
  BY <1>1
<1> QED
  BY <1>2, ReviewInvariance, PTL DEF ReviewSpec

=============================================================================
