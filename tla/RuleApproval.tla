----------------------------- MODULE RuleApproval -----------------------------
(***************************************************************************)
(* The versions of one badge rule on their way from draft to active:       *)
(* creation with a chain of approval steps, submission, decisions and      *)
(* activation (routes/badge-rule-routes.ts and the functions of            *)
(* packages/db/src/index.ts that it calls).                                *)
(*                                                                         *)
(* Every operation reads, judges and then writes by several statements;    *)
(* none of the UPDATEs looks at the status that was read. Requests may     *)
(* overlap at any of these, and may be lost between two of them.           *)
(***************************************************************************)
EXTENDS Integers, Sequences, FiniteSets

CONSTANTS
    Versions,    \* ids of the rule's versions
    Chain,       \* Versions -> the ranks of the roles its approval steps require
    Ranks,       \* ranks of the roles of those who decide
    Requests,    \* requests that may overlap
    NoVersion,   \* NULL in active_version_id
    MaxFaults    \* bound on the requests lost between two of their statements

DefaultRank == 2     \* "admin", the one step of the default chain

ASSUME ChainAssumption == Chain \in [Versions -> Seq(Nat) \ {<<>>}]
ASSUME RanksAssumption == Ranks \subseteq Nat
ASSUME NoVersionAssumption == NoVersion \notin Versions
ASSUME FaultsAssumption == MaxFaults \in Nat

VARIABLES
    status,      \* status of each version
    steps,       \* approval steps of each version, in the order of step_number
    active,      \* active_version_id of the rule
    events,      \* approval events of each version
    audited,     \* audit log entries: operation and version
    pc, call,    \* where each request is, and what it has read
    granted,     \* history: steps once approved by a role that is high enough
    early,       \* history: versions submitted before all steps were inserted
    faults       \* history: requests lost

ruleVars == <<status, steps, active>>
logVars == <<events, audited>>
vars == <<ruleVars, logVars, pc, call, granted, early, faults>>

Statuses == {"absent", "draft", "pending_approval", "approved", "active",
             "rejected", "deprecated"}
StepStatuses == {"queued", "pending", "approved", "rejected"}
Places == {"idle", "insertSteps", "listSteps", "insertDefault", "resetSteps",
           "startFirst", "submitVersion", "readSteps", "markStep", "markNext",
           "judgeVersion", "deprecate", "activate", "pointRule", "event", "audit"}
Operations == {"create", "submit", "decide", "activate"}
Decisions == {"approved", "rejected"}

\* next is 0 when the step decided is the last.
Call == [op: Operations, version: Versions, decision: Decisions, rank: Nat,
         step: Nat, next: Nat]
NoCall == [op |-> "none"]

Init ==
    /\ status = [v \in Versions |-> "absent"]
    /\ steps = [v \in Versions |-> <<>>]
    /\ active = NoVersion
    /\ events = [v \in Versions |-> {}]
    /\ audited = {}
    /\ pc = [r \in Requests |-> "idle"]
    /\ call = [r \in Requests |-> NoCall]
    /\ granted = [v \in Versions |-> {}]
    /\ early = {}
    /\ faults = 0

Goto(r, place) == pc' = [pc EXCEPT ![r] = place]

End(r) == Goto(r, "idle") /\ call' = [call EXCEPT ![r] = NoCall]

Begin(r, place, c) ==
    /\ pc[r] = "idle"
    /\ Goto(r, place)
    /\ call' = [call EXCEPT ![r] = c]

CallOf(op, v) == [op |-> op, version |-> v, decision |-> "rejected",
                  rank |-> DefaultRank, step |-> 0, next |-> 0]

-----------------------------------------------------------------------------
(* createBadgeIssuanceRule and createBadgeIssuanceRuleVersion: the version,  *)
(* then its steps one by one. Of two creations that read one MAX of          *)
(* version_number the second fails on UNIQUE and has changed nothing.        *)

CreateVersion(r, v) ==
    /\ status[v] = "absent"
    /\ status' = [status EXCEPT ![v] = "draft"]
    /\ Begin(r, "insertSteps", CallOf("create", v))
    /\ UNCHANGED <<steps, active, logVars, granted, early, faults>>

QueuedStep(rank) == [rank |-> rank, status |-> "queued"]

\* UNIQUE (version_id, step_number): the request fails if the number is taken,
\* which it is when a submission has inserted the default chain meanwhile.
InsertStep(r) ==
    /\ pc[r] = "insertSteps"
    /\ LET v == call[r].version
           n == call[r].step + 1
       IN  IF n > Len(steps[v])
           THEN /\ steps' = [steps EXCEPT ![v] = Append(@, QueuedStep(Chain[v][n]))]
                /\ call' = [call EXCEPT ![r].step = n]
                /\ Goto(r, IF n = Len(Chain[v]) THEN "audit" ELSE "insertSteps")
           ELSE End(r) /\ UNCHANGED steps
    /\ UNCHANGED <<status, active, logVars, granted, early, faults>>

-----------------------------------------------------------------------------
(* submitBadgeIssuanceRuleVersionForApproval                               *)

Submittable(v) == status[v] \in {"draft", "rejected"}

\* The route and the function read the status one after the other and stop
\* unless both reads allow it; the second decides here.
BeginSubmit(r, v) ==
    /\ Submittable(v)
    /\ Begin(r, "listSteps", CallOf("submit", v))
    /\ early' = IF Len(steps[v]) < Len(Chain[v]) THEN early \cup {v} ELSE early
    /\ UNCHANGED <<ruleVars, logVars, granted, faults>>

AfterListing(v) == IF steps[v] = <<>> THEN "insertDefault" ELSE "resetSteps"

\* ensureBadgeIssuanceRuleApprovalStepsInitialized
ListSteps(r) ==
    /\ pc[r] = "listSteps"
    /\ Goto(r, AfterListing(call[r].version))
    /\ UNCHANGED <<ruleVars, logVars, call, granted, early, faults>>

InsertDefault(r) ==
    /\ pc[r] = "insertDefault"
    /\ LET v == call[r].version
       IN  IF steps[v] = <<>>
           THEN /\ steps' = [steps EXCEPT ![v] = <<QueuedStep(DefaultRank)>>]
                /\ Goto(r, "resetSteps")
                /\ UNCHANGED call
           ELSE End(r) /\ UNCHANGED steps
    /\ UNCHANGED <<status, active, logVars, granted, early, faults>>

SetStep(v, n, s) == steps' = [steps EXCEPT ![v][n].status = s]

ResetSteps(r) ==
    /\ pc[r] = "resetSteps"
    /\ steps' = [steps EXCEPT ![call[r].version] =
                    [n \in DOMAIN @ |-> [@[n] EXCEPT !.status = "queued"]]]
    /\ Goto(r, "startFirst")
    /\ UNCHANGED <<status, active, logVars, call, granted, early, faults>>

\* Mutant: the chain is walked from its other end.
FirstStepIsLast(v) == Len(steps[v])

FirstStep(v) == 1

StartFirst(r) ==
    /\ pc[r] = "startFirst"
    /\ SetStep(call[r].version, FirstStep(call[r].version), "pending")
    /\ call' = [call EXCEPT ![r].step = FirstStep(call[r].version)]
    /\ Goto(r, "submitVersion")
    /\ UNCHANGED <<status, active, logVars, granted, early, faults>>

SubmitVersion(r) ==
    /\ pc[r] = "submitVersion"
    /\ status' = [status EXCEPT ![call[r].version] = "pending_approval"]
    /\ Goto(r, "event")
    /\ UNCHANGED <<steps, active, logVars, call, granted, early, faults>>

-----------------------------------------------------------------------------
(* decideBadgeIssuanceRuleVersion                                          *)

BeginDecide(r, v, rank, decision) ==
    /\ status[v] = "pending_approval"
    /\ Begin(r, "readSteps", [CallOf("decide", v) EXCEPT !.rank = rank,
                                                        !.decision = decision])
    /\ UNCHANGED <<ruleVars, logVars, granted, early, faults>>

PendingSteps(v) == {n \in DOMAIN steps[v] : steps[v][n].status = "pending"}

\* Mutant: the next step is looked for one too far.
NextStepTooFar(v, n) == IF n + 2 \in DOMAIN steps[v] THEN n + 2 ELSE 0

NextStep(v, n) == IF n + 1 \in DOMAIN steps[v] THEN n + 1 ELSE 0

\* One SELECT shows all steps: the first that is pending is decided, by a role
\* that is high enough, and the one after it is next.
ReadSteps(r) ==
    /\ pc[r] = "readSteps"
    /\ LET v == call[r].version
       IN  \/ /\ PendingSteps(v) = {}
              /\ End(r)
           \/ \E n \in PendingSteps(v) :
              /\ \A m \in PendingSteps(v) : n <= m
              /\ IF call[r].rank >= steps[v][n].rank
                 THEN /\ call' = [call EXCEPT ![r].step = n, ![r].next = NextStep(v, n)]
                      /\ Goto(r, "markStep")
                 ELSE End(r)
    /\ UNCHANGED <<ruleVars, logVars, granted, early, faults>>

\* The UPDATE names the step by its number, whatever its status is by now.
MarkStep(r) ==
    /\ pc[r] = "markStep"
    /\ LET c == call[r]
       IN  /\ SetStep(c.version, c.step, c.decision)
           /\ granted' = IF c.decision = "approved"
                         THEN [granted EXCEPT ![c.version] = @ \cup {c.step}]
                         ELSE granted
           /\ Goto(r, IF c.decision = "approved" /\ c.next # 0
                      THEN "markNext" ELSE "judgeVersion")
    /\ UNCHANGED <<status, active, logVars, call, early, faults>>

MarkNext(r) ==
    /\ pc[r] = "markNext"
    /\ SetStep(call[r].version, call[r].next, "pending")
    /\ Goto(r, "judgeVersion")
    /\ UNCHANGED <<status, active, logVars, call, granted, early, faults>>

Verdict(decision, next) ==
    IF decision = "rejected" THEN "rejected"
    ELSE IF next = 0 THEN "approved" ELSE "pending_approval"

JudgeVersion(r) ==
    /\ pc[r] = "judgeVersion"
    /\ LET c == call[r]
       IN  status' = [status EXCEPT ![c.version] = Verdict(c.decision, c.next)]
    /\ Goto(r, "event")
    /\ UNCHANGED <<steps, active, logVars, call, granted, early, faults>>

\* insertBadgeIssuanceRuleApprovalEvent
WriteEvent(r) ==
    /\ pc[r] = "event"
    /\ LET c == call[r]
           action == IF c.op = "submit" THEN "submitted" ELSE c.decision
       IN  events' = [events EXCEPT ![c.version] = @ \cup {<<c.step, action>>}]
    /\ Goto(r, "audit")
    /\ UNCHANGED <<ruleVars, audited, call, granted, early, faults>>

WriteAuditLog(r) ==
    /\ pc[r] = "audit"
    /\ audited' = audited \cup {<<call[r].op, call[r].version>>}
    /\ End(r)
    /\ UNCHANGED <<ruleVars, events, granted, early, faults>>

-----------------------------------------------------------------------------
(* activateBadgeIssuanceRuleVersion                                        *)

BeginActivate(r, v) ==
    /\ status[v] \in {"approved", "active"}
    /\ Begin(r, "deprecate", CallOf("activate", v))
    /\ UNCHANGED <<ruleVars, logVars, granted, early, faults>>

Superseded(v) == {w \in Versions \ {v} : status[w] = "active"}

Deprecate(r) ==
    /\ pc[r] = "deprecate"
    /\ status' = [w \in Versions |->
                    IF w \in Superseded(call[r].version) THEN "deprecated" ELSE status[w]]
    /\ Goto(r, "activate")
    /\ UNCHANGED <<steps, active, logVars, call, granted, early, faults>>

Activate(r) ==
    /\ pc[r] = "activate"
    /\ status' = [status EXCEPT ![call[r].version] = "active"]
    /\ Goto(r, "pointRule")
    /\ UNCHANGED <<steps, active, logVars, call, granted, early, faults>>

PointedAt(v) == v

\* The request ends here and writes no audit log: run() of postgres.ts counts the
\* rows an UPDATE returns, which are none, and the route takes that for a version
\* that does not exist.
PointRule(r) ==
    /\ pc[r] = "pointRule"
    /\ active' = PointedAt(call[r].version)
    /\ End(r)
    /\ UNCHANGED <<status, steps, logVars, granted, early, faults>>

-----------------------------------------------------------------------------

\* A statement fails or the process is killed: nothing is undone.
Fault(r) ==
    /\ pc[r] # "idle"
    /\ faults < MaxFaults
    /\ faults' = faults + 1
    /\ End(r)
    /\ UNCHANGED <<ruleVars, logVars, granted, early>>

Start(r, v) ==
    \/ CreateVersion(r, v) \/ BeginSubmit(r, v) \/ BeginActivate(r, v)
    \/ \E rank \in Ranks, d \in Decisions : BeginDecide(r, v, rank, d)

Step(r) ==
    \/ InsertStep(r)
    \/ ListSteps(r) \/ InsertDefault(r) \/ ResetSteps(r) \/ StartFirst(r) \/ SubmitVersion(r)
    \/ ReadSteps(r) \/ MarkStep(r) \/ MarkNext(r) \/ JudgeVersion(r)
    \/ WriteEvent(r) \/ WriteAuditLog(r)
    \/ Deprecate(r) \/ Activate(r) \/ PointRule(r)

Next == \E r \in Requests : Step(r) \/ Fault(r) \/ \E v \in Versions : Start(r, v)

Spec == Init /\ [][Next]_vars

-----------------------------------------------------------------------------
(* Properties.                                                             *)

\* Tables, log and memories keep their types, and a version that was submitted
\* has a step to decide.
TypeOK ==
    /\ status \in [Versions -> Statuses]
    /\ steps \in [Versions -> Seq([rank: Nat, status: StepStatuses])]
    /\ \A v \in Versions : status[v] \notin {"absent", "draft"} => steps[v] # <<>>
    /\ active \in Versions \cup {NoVersion}
    /\ events \in [Versions -> SUBSET (Nat \X (Decisions \cup {"submitted"}))]
    /\ audited \subseteq Operations \X Versions
    /\ pc \in [Requests -> Places]
    /\ call \in [Requests -> Call \cup {NoCall}]
    /\ granted \in [Versions -> SUBSET Nat]
    /\ early \subseteq Versions
    /\ faults \in Nat

\* No approval step is skipped, however submissions and decisions overlap: a step
\* is granted only after all steps before it were, since submitting starts at the
\* first and only an approval starts the next.
StepsInOrder ==
    \A v \in Versions : \A n \in granted[v] : 1..(n - 1) \subseteq granted[v]

\* A version that is approved, active or the one the rule evaluates was once
\* granted every step of the chain it was created with, if the chain was there
\* when it was first submitted.
ApprovedByWholeChain ==
    \A v \in Versions \ early :
        status[v] \in {"approved", "active"} \/ active = v => granted[v] = DOMAIN Chain[v]

\* The properties from here on hold of requests that do not overlap.

\* A rule has at most one version that is active, also if an activation is lost
\* halfway: the others are deprecated first.
OneActive == Cardinality({v \in Versions : status[v] = "active"}) <= 1

\* The steps of an approved version all say approved, whatever rejections,
\* resubmissions and lost requests came before.
ApprovalShown ==
    \A v \in Versions : status[v] \in {"approved", "active", "deprecated"} =>
        \A n \in DOMAIN steps[v] : steps[v][n].status = "approved"

\* Unless a request was lost, the two places that name the active version agree
\* whenever nobody is at work.
ActiveIsUsed ==
    faults = 0 /\ (\A r \in Requests : pc[r] = "idle") =>
        \A v \in Versions : status[v] = "active" <=> active = v

\* What the tables say of the versions fits together, whatever was lost or overlapped as
\* far as that is promised above.
VersionsAgree == OneActive /\ ApprovalShown /\ ActiveIsUsed

\* The workflow of a version, which the routes' messages spell out ("Only
\* draft/rejected versions can be submitted", "Only pending_approval versions can
\* be decided", "Only approved versions can be activated").
Workflow ==
    [s \in Statuses |->
        CASE s = "absent" -> {"draft"}
          [] s \in {"draft", "rejected"} -> {"pending_approval"}
          [] s = "pending_approval" -> {"approved", "rejected"}
          [] s = "approved" -> {"active"}
          [] s = "active" -> {"deprecated"}
          [] s = "deprecated" -> {}]

\* Versions follow the workflow.
FollowsWorkflow ==
    [][\A v \in Versions :
        status'[v] # status[v] => status'[v] \in Workflow[status[v]]]_vars
=============================================================================
