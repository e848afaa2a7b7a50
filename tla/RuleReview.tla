------------------------------ MODULE RuleReview ------------------------------
(***************************************************************************)
(* Evaluations of a badge rule and the reviews they may lead to            *)
(* (routes/badge-rule-routes.ts, and the evaluations table of              *)
(* packages/db/src/index.ts), over the versions that RuleApproval brings   *)
(* forth and with the engine of RuleEngine.                                *)
(*                                                                         *)
(* Issuing is one step here: BadgeIssuance shows that a call under an      *)
(* idempotency key gives the one assertion of that key. An assertion is    *)
(* therefore named by its key.                                             *)
(***************************************************************************)
EXTENDS RuleApproval, RuleEngine

CONSTANTS
    RuleOf,          \* Versions -> [conditions, reviewOnMissing]
    Learners,
    Worlds,          \* what the LMS may come to know of a learner
    Nothing,         \* the one of them in which it knows nothing yet
    Evaluations,     \* ids of evaluations
    Callers,         \* requests that evaluate or resolve, which may overlap
    MaxLost,         \* bound on the ones of them that are lost halfway
    PreviewRules, PreviewWorlds  \* what previews are asked for

ASSUME ReviewAssumption == Nothing \in Worlds /\ MaxLost \in Nat
ASSUME DepthAssumption ==
    \A rule \in PreviewRules \cup {RuleOf[v] : v \in Versions} :
        \A c \in Conditions(rule.conditions) : Members(c) \subseteq Conditions(rule.conditions)

VARIABLES
    lms,         \* what the LMS knows of each learner
    evaluations, \* badge_issuance_rule_evaluations
    issued,      \* keys under which a badge was issued
    at, job,     \* where each caller is, and what it holds
    lost,        \* history: callers lost
    disturbed,   \* history: evaluations of which two resolutions overlapped or one was lost
    preview      \* the last preview's question and answer

reviewVars == <<lms, evaluations, issued, at, job, lost, disturbed>>
allVars == <<vars, reviewVars, preview>>

NoRow == [exists |-> FALSE]
NoJob == [op |-> "none"]
NoPreview == [asked |-> FALSE]
CallerPlaces == {"idle", "load", "issue", "record", "issueReview", "resolve"}

ReviewInit ==
    /\ Init
    /\ lms = [l \in Learners |-> Nothing]
    /\ evaluations = [e \in Evaluations |-> NoRow]
    /\ issued = {}
    /\ at = [p \in Callers |-> "idle"]
    /\ job = [p \in Callers |-> NoJob]
    /\ lost = 0
    /\ disturbed = {}
    /\ preview = NoPreview

Move(p, place) == at' = [at EXCEPT ![p] = place]

Finish(p) == Move(p, "idle") /\ job' = [job EXCEPT ![p] = NoJob]

-----------------------------------------------------------------------------
(* POST …/badge-rules/:ruleId/evaluate                                     *)

\* findActiveBadgeIssuanceRuleVersion
VersionsInUse == {active} \ {NoVersion}

\* The request may name any version instead, whatever its status.
BeginEvaluate(p, e, l, v, named, dryRun) ==
    /\ at[p] = "idle"
    /\ ~evaluations[e].exists /\ \A q \in Callers : job[q] # NoJob => job[q].eval # e
    /\ IF named THEN status[v] # "absent" ELSE v \in VersionsInUse
    /\ Resolvable(RuleOf[v].conditions)
    /\ Move(p, "load")
    /\ job' = [job EXCEPT ![p] = [op |-> "evaluate", eval |-> e, learner |-> l, version |-> v,
                                 named |-> named, dryRun |-> dryRun,
                                 facts |-> lms[l], outcome |-> "no_match"]]
    /\ UNCHANGED <<lms, evaluations, issued, lost, disturbed>>

\* loadRuleFacts, and the evaluation right after it.
LoadFacts(p) ==
    /\ at[p] = "load"
    /\ LET rule == RuleOf[job[p].version]
           facts == Loaded(Resolved(rule.conditions), lms[job[p].learner])
       IN  /\ job' = [job EXCEPT ![p].facts = facts, ![p].outcome = Outcome(rule, facts)]
           /\ Move(p, IF Outcome(rule, facts) = "matched" /\ ~job[p].dryRun
                      THEN "issue" ELSE "record")
    /\ UNCHANGED <<lms, evaluations, issued, lost, disturbed>>

RuleKey(v, l) == <<"rule", v, l>>
ReviewKey(e) == <<"review", e>>

\* issueBadgeForTenant, here under the key of rule, version and learner.
IssueMatched(p) ==
    /\ at[p] = "issue"
    /\ issued' = issued \cup {RuleKey(job[p].version, job[p].learner)}
    /\ Move(p, "record")
    /\ UNCHANGED <<lms, evaluations, job, lost, disturbed>>

FactsRecorded(j) == j.facts

\* createBadgeIssuanceRuleEvaluation
Record(p) ==
    /\ at[p] = "record"
    /\ LET j == job[p]
           issue == j.outcome = "matched" /\ ~j.dryRun
           review == j.outcome = "review_required" /\ ~j.dryRun
       IN  evaluations' = [evaluations EXCEPT ![j.eval] =
            [exists |-> TRUE, version |-> j.version, named |-> j.named, dryRun |-> j.dryRun,
             learner |-> j.learner, facts |-> FactsRecorded(j),
             matched |-> j.outcome = "matched",
             assertions |-> IF issue THEN {RuleKey(j.version, j.learner)} ELSE {},
             issuance |-> IF issue THEN "issued" ELSE IF review THEN "review_required" ELSE "none",
             review |-> IF review THEN "pending" ELSE "none", decision |-> "none"]]
    /\ Finish(p)
    /\ UNCHANGED <<lms, issued, lost, disturbed>>

-----------------------------------------------------------------------------
(* POST …/review-queue/:evaluationId/resolve                               *)

\* Mutant: an entry is resolved whatever became of it.
OpenUnlessNone(e) == evaluations[e].review # "none"

Open(e) == evaluations[e].review = "pending"

AfterPending(decision) == IF decision = "issue" THEN "issueReview" ELSE "resolve"

BeginResolve(p, e, decision) ==
    /\ at[p] = "idle"
    /\ evaluations[e].exists
    /\ Open(e)
    /\ Move(p, AfterPending(decision))
    /\ job' = [job EXCEPT ![p] = [op |-> "resolve", eval |-> e, decision |-> decision]]
    /\ disturbed' = IF \E q \in Callers : job[q] # NoJob /\ job[q].eval = e
                    THEN disturbed \cup {e} ELSE disturbed
    /\ UNCHANGED <<lms, evaluations, issued, lost>>

IssueReviewed(p) ==
    /\ at[p] = "issueReview"
    /\ issued' = issued \cup {ReviewKey(job[p].eval)}
    /\ Move(p, "resolve")
    /\ UNCHANGED <<lms, evaluations, job, lost, disturbed>>

\* Mutant: the UPDATE does not ask for a pending review.
StillOpenAnyway(e) == TRUE

StillOpen(e) == evaluations[e].review = "pending"

\* resolveBadgeIssuanceRuleEvaluationReview. The request ends here and writes no
\* audit log: run() of postgres.ts counts the rows an UPDATE returns, which are
\* none, and the route answers that the entry is no longer pending.
ResolveReview(p) ==
    /\ at[p] = "resolve"
    /\ LET e == job[p].eval
           issue == job[p].decision = "issue"
       IN  evaluations' = IF ~StillOpen(e) THEN evaluations
                          ELSE [evaluations EXCEPT
                                ![e].review = "resolved",
                                ![e].decision = job[p].decision,
                                ![e].issuance = IF issue THEN "issued" ELSE "review_dismissed",
                                ![e].assertions = IF issue THEN {ReviewKey(e)} ELSE @]
    /\ Finish(p)
    /\ UNCHANGED <<lms, issued, lost, disturbed>>

-----------------------------------------------------------------------------

\* The LMS learns of something; what it knows it keeps.
Learn(l, w) ==
    /\ lms' = [lms EXCEPT ![l] = w]
    /\ UNCHANGED <<evaluations, issued, at, job, lost, disturbed>>

\* A statement or a call fails, or the process is killed: nothing is undone.
Lose(p) ==
    /\ at[p] # "idle"
    /\ lost < MaxLost
    /\ lost' = lost + 1
    /\ disturbed' = IF job[p].op = "resolve" THEN disturbed \cup {job[p].eval} ELSE disturbed
    /\ Finish(p)
    /\ UNCHANGED <<lms, evaluations, issued>>

CallerStep ==
    \/ \E p \in Callers :
        \/ LoadFacts(p) \/ IssueMatched(p) \/ Record(p)
        \/ IssueReviewed(p) \/ ResolveReview(p) \/ Lose(p)
        \/ \E e \in Evaluations, l \in Learners, v \in Versions, named, dryRun \in BOOLEAN :
            BeginEvaluate(p, e, l, v, named, dryRun)
        \/ \E e \in Evaluations, d \in {"issue", "dismiss"} : BeginResolve(p, e, d)
    \/ \E l \in Learners, w \in Worlds : Learn(l, w)

\* POST …/badge-rules/preview-evaluate, of facts the LMS has.
Preview(rule, w) ==
    /\ preview' = [asked |-> TRUE, rule |-> rule, world |-> w,
                   outcome |-> IF Resolvable(rule.conditions)
                               THEN Outcome(rule, Loaded(Resolved(rule.conditions), w))
                               ELSE "error"]
    /\ UNCHANGED <<vars, reviewVars>>

\* POST …/badge-rules/preview-simulate: what a rule makes of the facts of an earlier
\* evaluation, and what that one had come to.
Projected(rule, e) == Outcome(rule, evaluations[e].facts)

Historical(e) ==
    IF evaluations[e].issuance = "review_required" THEN "review_required"
    ELSE IF evaluations[e].matched THEN "matched" ELSE "no_match"

PreviewAnswered ==
    /\ preview # NoPreview
    /\ preview' = NoPreview
    /\ UNCHANGED <<vars, reviewVars>>

ReviewNext ==
    \/ Next /\ UNCHANGED <<reviewVars, preview>>
    \/ CallerStep /\ UNCHANGED <<vars, preview>>
    \/ \E rule \in PreviewRules, w \in PreviewWorlds : Preview(rule, w)
    \/ PreviewAnswered

ReviewSpec == ReviewInit /\ [][ReviewNext]_allVars

-----------------------------------------------------------------------------
(* Properties.                                                             *)

ReviewTypeOK ==
    /\ lms \in [Learners -> Worlds]
    /\ \A e \in Evaluations : evaluations[e].exists =>
        /\ evaluations[e].version \in Versions /\ evaluations[e].learner \in Learners
        /\ evaluations[e].issuance \in {"none", "issued", "review_required", "review_dismissed"}
        /\ evaluations[e].review \in {"none", "pending", "resolved"}
        /\ evaluations[e].decision \in {"none", "issue", "dismiss"}
        /\ evaluations[e].assertions \subseteq issued
    /\ at \in [Callers -> CallerPlaces]
    /\ \A p \in Callers : at[p] = "idle" <=> job[p] = NoJob
    /\ disturbed \subseteq Evaluations
    /\ lost \in 0..MaxLost

\* What a rule does by itself was approved: an evaluation that did not name its
\* version was made by one that was granted every step of its chain.
EvaluatedUnderApproval ==
    \A e \in Evaluations : evaluations[e].exists /\ ~evaluations[e].named =>
        LET v == evaluations[e].version IN v \in early \/ granted[v] = DOMAIN Chain[v]

\* A review is resolved once: whoever comes second, with whatever decision, leaves
\* the entry as it is, since the UPDATE asks for a pending one.
ResolvedStays ==
    \A e \in Evaluations : evaluations[e].exists /\ evaluations[e].review = "resolved" =>
        evaluations'[e] = evaluations[e]

\* A badge is issued for a review only by those who resolve it so: a dismissed entry
\* has none, and a badge's entry says it was issued; of entries for which two
\* resolutions overlapped, or one was lost after issuing, neither is promised.
BadgeMeansDecision ==
    \A e \in Evaluations \ disturbed : evaluations[e].exists =>
        /\ evaluations[e].decision = "dismiss" => ReviewKey(e) \notin issued
        /\ ReviewKey(e) \in issued => \/ evaluations[e].decision = "issue"
                                      \/ \E p \in Callers : job[p] # NoJob /\ job[p].eval = e

\* Whatever was lost or overlapped, an entry that says a badge was issued names one
\* that was.
IssuedHasBadge ==
    \A e \in Evaluations : evaluations[e].exists /\ evaluations[e].issuance = "issued" =>
        evaluations[e].assertions # {} /\ evaluations[e].assertions \subseteq issued

\* Evaluations and badges are what approved rules and deciding reviewers made of them.
ReviewedAsDecided ==
    ReviewTypeOK /\ EvaluatedUnderApproval /\ BadgeMeansDecision /\ IssuedHasBadge

\* The record holds the facts that were judged: preview-simulate with the rule an
\* evaluation was made by reports no change, unless that was a dry run's or was
\* reviewed since (of those the record keeps too little to tell).
SimulationAgrees ==
    \A e \in Evaluations :
        evaluations[e].exists /\ ~evaluations[e].dryRun /\ evaluations[e].review # "resolved" =>
            /\ Projected(RuleOf[evaluations[e].version], e) = Historical(e)
            /\ evaluations[e].matched <=> Historical(e) = "matched"

\* What the rule's requirements make loadRuleFacts fetch is all its evaluation looks
\* at: the outcome is that of everything the LMS knows.
FactsSuffice ==
    preview.asked /\ preview.outcome # "error" =>
        preview.outcome = Outcome(preview.rule, preview.world)

\* w tells no less than u: what was known stays, a score may come in.
ScoreComes(g, h) == g \in {Undefined, h}

Completes(w, u) ==
    /\ \A x \in DOMAIN u.grades : u.grades[x].known =>
        /\ w.grades[x].known
        /\ ScoreComes(u.grades[x].current, w.grades[x].current)
        /\ u.grades[x].current # Undefined => w.grades[x].final = u.grades[x].final
    /\ \A x \in DOMAIN u.completions : u.completions[x].known => w.completions[x] = u.completions[x]
    /\ \A s \in DOMAIN u.submissions : u.submissions[s].known =>
        /\ w.submissions[s].known
        /\ ScoreComes(u.submissions[s].score, w.submissions[s].score)
        /\ u.submissions[s].state # "none" => w.submissions[s].state = u.submissions[s].state
        /\ w.submissions[s].dated = u.submissions[s].dated
    /\ w.earned = u.earned /\ w.now = u.now

\* A learner who would be awarded if only the missing facts came in is not turned
\* away by a rule that asks for review then ("reviewOnMissingFacts"); negations and
\* programs of which some courses are completed are judged without a review.
MissingIsReviewed ==
    FactsSuffice /\
    (preview.asked /\ preview.outcome = "no_match" /\ preview.rule.reviewOnMissing
        /\ (\A c \in Conditions(preview.rule.conditions) :
                c.type \notin {"not", "program_completion"}) =>
        \A w \in PreviewWorlds :
            Completes(w, preview.world) => Outcome(preview.rule, w) # "matched")

\* An evaluation comes to what its rule says of the facts, those it was made of and
\* those it never fetched.
EvaluatedAsWritten == SimulationAgrees /\ MissingIsReviewed
=============================================================================
