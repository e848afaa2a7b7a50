-------------------------------- MODULE MCRules --------------------------------
(* A badge rule for TLC: the approval of one version by requests that       *)
(* overlap, or the evaluations and reviews of a rule of two versions, which *)
(* were approved by one request at a time.                                  *)
EXTENDS RuleReview, TLC

CONSTANTS v1, v2

VARIABLE focus

TwoVersions == v1 :> <<1, 2>> @@ v2 :> <<2>>

Lists == "courses" :> [kind |-> "course_ids", values |-> <<"c1", "c2">>]
         @@ "badges" :> [kind |-> "badge_template_ids", values |-> <<"b1">>]
         @@ "many" :> [kind |-> "course_ids", values |-> <<"c1", "c2", "c1">>]

Grade(x, list, min, max, current) ==
    [type |-> "grade_threshold", subject |-> x, list |-> list, min |-> min, max |-> max,
     current |-> current]
Completion(x, list, min, required) ==
    [type |-> "course_completion", subject |-> x, list |-> list, min |-> min, required |-> required]
Program(xs, list, minimum) ==
    [type |-> "program_completion", courses |-> xs, list |-> list, minimum |-> minimum]
Submission(min, required, states) ==
    [type |-> "assignment_submission", course |-> "c1", subject |-> "a1", min |-> min,
     required |-> required, states |-> states]
Badge(x, list) == [type |-> "prerequisite_badge", subject |-> x, list |-> list]
Window(min, max) == [type |-> "time_window", min |-> min, max |-> max]

LeafConditions ==
    {Grade("c1", NoList, 60, Undefined, FALSE), Grade("c1", NoList, Undefined, 60, TRUE),
     Grade("none", "courses", 60, Undefined, FALSE), Grade("none", "many", 60, Undefined, FALSE),
     Completion("c1", NoList, Undefined, TRUE), Completion("c2", NoList, 50, FALSE),
     Completion("none", "badges", 50, FALSE),
     Program(<<"c1", "c2">>, NoList, Undefined), Program(<<>>, "courses", 1),
     Program(<<>>, "courses", 3), Program(<<"c2">>, NoList, Undefined),
     Submission(60, TRUE, {}), Submission(Undefined, FALSE, {"graded"}),
     Badge("b1", NoList), Badge("none", "badges"), Window(2, 2)}

FirstConditions == {c \in LeafConditions : c.type \in {"grade_threshold", "time_window"}}

Composed == {[type |-> t, of |-> <<c, d>>] :
                t \in {"all", "any"}, c \in FirstConditions, d \in LeafConditions}
            \cup {[type |-> "not", of |-> <<c>>] : c \in LeafConditions}

AllRules == {[conditions |-> c, reviewOnMissing |-> r] :
                c \in LeafConditions \cup Composed, r \in BOOLEAN}

G(current, final) == [known |-> TRUE, current |-> current, final |-> final]
D(completed, percent) == [known |-> TRUE, completed |-> completed, percent |-> percent]
S(dated, state, score) == [known |-> TRUE, dated |-> dated, state |-> state, score |-> score]

World(g1, g2, d1, d2, s, earned, now) ==
    [grades |-> [x \in {"c1", "c2"} |-> IF x = "c1" THEN g1 ELSE g2],
     completions |-> [x \in {"c1", "c2"} |-> IF x = "c1" THEN d1 ELSE d2],
     submissions |-> [a \in {<<"c1", "a1">>} |-> s], earned |-> earned, now |-> now]

KnowsNothing == World(NoFact, NoFact, NoFact, NoFact, NoFact, {}, 2)

ManyWorlds ==
    {World(g, NoFact, d, NoFact, s, {}, 2) :
        g \in {NoFact, G(Undefined, Undefined), G(40, Undefined), G(80, Undefined), G(40, 80)},
        d \in {NoFact, D(FALSE, 40), D(TRUE, 100)},
        s \in {NoFact, S(TRUE, "submitted", Undefined), S(FALSE, "none", 80), S(TRUE, "graded", 80)}}
    \cup {World(NoFact, g, NoFact, d, NoFact, b, n) :
            g \in {NoFact, G(80, 80)}, d \in {NoFact, D(FALSE, Undefined), D(TRUE, 100)},
            b \in {{}, {"b1"}}, n \in 1..3}

\* A missing, a failing and a sufficient grade.
ThreeWorlds == {KnowsNothing, World(G(40, 40), NoFact, NoFact, NoFact, NoFact, {}, 2),
                World(G(80, 80), NoFact, NoFact, NoFact, NoFact, {}, 2)}

Rules == v1 :> [conditions |-> Grade("c1", NoList, 60, Undefined, FALSE), reviewOnMissing |-> TRUE]
         @@ v2 :> [conditions |-> Grade("none", "courses", 60, Undefined, FALSE),
                   reviewOnMissing |-> FALSE]

mcVars == <<allVars, focus>>

MCInit == ReviewInit /\ focus \in {"approval", "review"}

ApprovalNext ==
    /\ focus = "approval"
    /\ Next /\ UNCHANGED <<reviewVars, preview, focus>>
    /\ status'[v2] = "absent" /\ faults' <= 1

\* Bound: the rule is evaluated once its versions rest, one of them active and none
\* touched by a lost request, and they rest from then on.
Settled ==
    /\ \A r \in Requests : pc[r] = "idle"
    /\ \A v \in Versions : status[v] # "absent"
    /\ active # NoVersion
    /\ faults = 0

Unused == evaluations = [e \in Evaluations |-> NoRow] /\ job = [p \in Callers |-> NoJob]

\* A preview neither reads nor writes the state of other requests: it is asked first.
EvaluationNext ==
    /\ focus = "review"
    /\ UNCHANGED focus
    /\ \/ /\ preview = NoPreview
          /\ \/ Unused /\ Next /\ Cardinality({r \in Requests : pc'[r] # "idle"}) <= 1
                /\ UNCHANGED <<reviewVars, preview>>
             \/ Settled /\ CallerStep /\ UNCHANGED <<vars, preview>>
             \/ /\ Unused /\ \A v \in Versions : status[v] = "absent"
                /\ \E rule \in PreviewRules, w \in PreviewWorlds : Preview(rule, w)
       \/ PreviewAnswered

MCSpec == MCInit /\ [][ApprovalNext \/ EvaluationNext]_mcVars

\* Requests that decide one at a time leave tables that agree, and versions that follow
\* their workflow; of overlapping ones StepsInOrder and ApprovedByWholeChain say what stays.
VersionsFollow ==
    focus = "review" =>
        /\ VersionsAgree'
        /\ \A v \in Versions : status'[v] # status[v] => status'[v] \in Workflow[status[v]]

\* Decisions go one way: those about a version along its workflow, and the one about a
\* review never back, however many reviewers resolve it.
DecisionsFollow == [][VersionsFollow /\ ResolvedStays]_mcVars

Symmetry == Permutations(Callers) \cup Permutations(Requests)
=============================================================================
