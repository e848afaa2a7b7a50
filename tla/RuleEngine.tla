------------------------------ MODULE RuleEngine ------------------------------
(***************************************************************************)
(* How a badge rule is evaluated (rules/engine.ts and the helpers of       *)
(* routes/badge-rule-routes.ts around it): the value lists its conditions  *)
(* name are put in, the facts the conditions ask for are fetched, and the  *)
(* tree of conditions is evaluated and summarised.                         *)
(*                                                                         *)
(* A condition is a record with a type. Groups and negations have the      *)
(* sequence "of" of their conditions; a leaf has Undefined in a bound it   *)
(* does not give, and NoList unless it names a value list.                 *)
(***************************************************************************)
EXTENDS Integers, Sequences, FiniteSets

CONSTANTS
    ValueLists,       \* value lists by name: [kind, values]
    NoList,           \* a condition that names no list
    MaxAlternatives,  \* the most conditions an "any" may have (50)
    MaxDepth          \* bound: how deep conditions nest

Undefined == -1
NoFact == [known |-> FALSE]

Groups == {"all", "any", "not"}

Elements(s) == {s[i] : i \in DOMAIN s}

Members(c) == IF c.type \in Groups THEN Elements(c.of) ELSE {}

\* A condition and all conditions in it.
Conditions(c) ==
    LET down[n \in 0..MaxDepth] ==
            IF n = 0 THEN {c} ELSE down[n - 1] \cup UNION {Members(k) : k \in down[n - 1]}
    IN  down[MaxDepth]

-----------------------------------------------------------------------------
(* Value lists: resolveBadgeIssuanceRuleDefinitionValueLists.              *)

\* resolveCourseListCondition, resolveBadgeTemplateListCondition: a list stands
\* for any of its values, and for all of them together in a program.
Expanded(c) ==
    LET values == ValueLists[c.list].values
    IN  IF c.type = "program_completion"
        THEN [c EXCEPT !.courses = values, !.list = NoList]
        ELSE [type |-> "any",
              of |-> [i \in DOMAIN values |->
                        [c EXCEPT !.subject = values[i], !.list = NoList]]]

ListKind(c) == IF c.type = "prerequisite_badge" THEN "badge_template_ids" ELSE "course_ids"

NamesList(c) ==
    /\ c.type \in {"grade_threshold", "course_completion", "program_completion",
                   "prerequisite_badge"}
    /\ c.list # NoList

Resolved(c) ==
    LET resolved[k \in Conditions(c)] ==
            CASE k.type \in Groups -> [k EXCEPT !.of = [i \in DOMAIN k.of |-> resolved[k.of[i]]]]
              [] NamesList(k)      -> Expanded(k)
              [] OTHER             -> k
    IN  resolved[c]

\* The request ends with an error unless the lists are there and of the right
\* kind, and what comes out is a rule again (parseBadgeIssuanceRuleDefinition).
Resolvable(c) ==
    /\ \A k \in Conditions(c) : NamesList(k) =>
        k.list \in DOMAIN ValueLists /\ ValueLists[k.list].kind = ListKind(k)
    /\ \A k \in Conditions(Resolved(c)) :
        /\ k.type \in Groups => Len(k.of) <= MaxAlternatives
        /\ k.type = "program_completion" => k.minimum <= Len(k.courses)

-----------------------------------------------------------------------------
(* Facts: extractBadgeIssuanceRuleRequirements and loadRuleFacts.          *)

CoursesOf(c) ==
    CASE c.type \in {"grade_threshold", "course_completion"} -> {c.subject}
      [] c.type = "program_completion"    -> Elements(c.courses)
      [] c.type = "assignment_submission" -> {c.course}
      [] OTHER                            -> {}

RequiredCourses(c) == UNION {CoursesOf(k) : k \in Conditions(c)}

RequiredAssignments(c) ==
    {<<k.course, k.subject>> : k \in {k \in Conditions(c) : k.type = "assignment_submission"}}

\* Grades and completions are fetched by course, submissions by assignment; the
\* badges the learner holds are all listed.
Loaded(c, lms) ==
    [lms EXCEPT
        !.grades = [x \in DOMAIN @ |-> IF x \in RequiredCourses(c) THEN @[x] ELSE NoFact],
        !.completions = [x \in DOMAIN @ |-> IF x \in RequiredCourses(c) THEN @[x] ELSE NoFact],
        !.submissions = [a \in DOMAIN @ |-> IF a \in RequiredAssignments(c) THEN @[a] ELSE NoFact]]

-----------------------------------------------------------------------------
(* Leaves: evaluatePredicate.                                              *)

Below(x, bound) == bound # Undefined /\ x < bound
Above(x, bound) == bound # Undefined /\ x > bound

\* Mutant: a final score that is not out yet counts as a failure.
ScoreOrFailure(c, g) == IF c.current THEN g.current ELSE IF g.final = Undefined THEN 0 ELSE g.final

Score(c, g) == IF c.current \/ g.final = Undefined THEN g.current ELSE g.final

GradeThreshold(c, f) ==
    LET g == f.grades[c.subject]
    IN  IF ~g.known \/ Score(c, g) = Undefined THEN "missing_data"
        ELSE IF Below(Score(c, g), c.min) \/ Above(Score(c, g), c.max) THEN "failed_condition"
        ELSE "matched"

CourseCompletion(c, f) ==
    LET done == f.completions[c.subject]
    IN  IF ~done.known THEN "missing_data"
        ELSE IF (c.required /\ ~done.completed) \/ Below(done.percent, c.min)
             THEN "failed_condition"
        ELSE "matched"

Completed(c, f) ==
    Cardinality({i \in DOMAIN c.courses :
                    f.completions[c.courses[i]].known /\ f.completions[c.courses[i]].completed})

ProgramCompletion(c, f) ==
    LET least == IF c.minimum = Undefined THEN Len(c.courses) ELSE c.minimum
    IN  IF Completed(c, f) >= least THEN "matched"
        ELSE IF Completed(c, f) = 0 THEN "missing_data" ELSE "failed_condition"

Submitted(s) == s.dated \/ s.state \notin {"none", "unsubmitted"}

AssignmentSubmission(c, f) ==
    LET s == f.submissions[<<c.course, c.subject>>]
    IN  IF ~s.known THEN "missing_data"
        ELSE IF c.required /\ ~Submitted(s) THEN "failed_condition"
        ELSE IF Below(s.score, c.min)
             THEN IF s.score = Undefined THEN "missing_data" ELSE "failed_condition"
        ELSE IF c.states # {} /\ s.state \notin c.states
             THEN IF s.state = "none" THEN "missing_data" ELSE "failed_condition"
        ELSE "matched"

PrerequisiteBadge(c, f) == IF c.subject \in f.earned THEN "matched" ELSE "failed_condition"

TimeWindow(c, f) ==
    IF Below(f.now, c.min) \/ Above(f.now, c.max) THEN "failed_condition" ELSE "matched"

Leaf(c, f) ==
    CASE c.type = "grade_threshold"       -> GradeThreshold(c, f)
      [] c.type = "course_completion"     -> CourseCompletion(c, f)
      [] c.type = "program_completion"    -> ProgramCompletion(c, f)
      [] c.type = "assignment_submission" -> AssignmentSubmission(c, f)
      [] c.type = "prerequisite_badge"    -> PrerequisiteBadge(c, f)
      [] c.type = "time_window"           -> TimeWindow(c, f)

-----------------------------------------------------------------------------
(* Groups, summary and outcome.                                            *)

\* evaluateCondition
Matches(c, f) ==
    LET matches[k \in Conditions(c)] ==
            CASE k.type = "all" -> \A i \in DOMAIN k.of : matches[k.of[i]]
              [] k.type = "any" -> \E i \in DOMAIN k.of : matches[k.of[i]]
              [] k.type = "not" -> ~matches[k.of[1]]
              [] OTHER          -> Leaf(k, f) = "matched"
    IN  matches[c]

Leaves(c) == {k \in Conditions(c) : k.type \notin Groups}

\* summarizeBadgeIssuanceRuleEvaluation, as far as the outcome asks: whether any
\* leaf was judged for lack of data.
SomeDataMissing(c, f) == \E k \in Leaves(c) : Leaf(k, f) = "missing_data"

\* badgeRuleEvaluationOutcome
Outcome(rule, f) ==
    IF Matches(Resolved(rule.conditions), f) THEN "matched"
    ELSE IF rule.reviewOnMissing /\ SomeDataMissing(Resolved(rule.conditions), f)
         THEN "review_required" ELSE "no_match"
=============================================================================
