---------------------------- MODULE LmsConnection ----------------------------
(***************************************************************************)
(* A tenant's connection to its LMS, and what is read over it: the         *)
(* settings, the OAuth state and code exchange, the refresh of tokens, the *)
(* gradebook snapshot (routes/admin-routes.ts, lms/canvas-oauth.ts) and    *)
(* the facts a rule evaluation loads (routes/badge-rule-routes.ts).        *)
(*                                                                         *)
(* The LMS is external: it hands out codes and tokens, ends them, and      *)
(* grades learners meanwhile. A request reads the settings, talks to the   *)
(* LMS and stores what it got in separate steps; requests overlap between  *)
(* them, and may be lost.                                                  *)
(*                                                                         *)
(* First what the gradebook providers make of an LMS's answers             *)
(* (lms/canvas-gradebook-provider.ts, lms/sakai-gradebook-provider.ts):    *)
(* facts on a learner's grade, completion and submissions in a course.     *)
(* Records whose ids cannot be read are dropped by the code and not        *)
(* modelled; a score is a whole percentage, or Null.                       *)
(***************************************************************************)
EXTENDS Integers, FiniteSets, SqlAdapter

CONSTANTS
    Null, Learners, Courses, Assignments,
    Calls,          \* requests that may overlap
    Platforms,      \* LMS installations, with their kinds
    KindOf,
    Rotating,       \* those that replace a refresh token when it is used
    Silent,         \* those that do not say when an access token ends
    Tokens,         \* supply of codes and tokens
    Books,          \* the gradebooks an LMS may hold, by kind
    Learner, Course, Assignment,  \* what is asked for
    Life, StateLife,    \* minutes an access token and a state token last
    MaxMinute, MaxCalls, MaxLostCalls

ASSUME LmsAssumption ==
    /\ KindOf \in [Platforms -> {"canvas", "sakai"}]
    /\ Rotating \subseteq Platforms /\ Silent \subseteq Platforms
    /\ IsFiniteSet(Tokens) /\ Null \notin Tokens \cup Platforms
    /\ Learner \in Learners /\ Course \in Courses /\ Assignment \in Assignments
    /\ {Life, StateLife} \subseteq Nat \ {0}
    /\ {MaxMinute, MaxCalls, MaxLostCalls} \subseteq Nat

-----------------------------------------------------------------------------
(* The gradebook providers.                                                *)

Maybe(S) == S \cup {Null}

\* Canvas answers enrollments with their grades, and submissions, each to a request of
\* its own.
CanvasEnrollment == [learner: Learners, state: {"active", "invited", "completed", "concluded",
                                                "inactive"},
                     graded: BOOLEAN, current: Maybe(0..100), final: Maybe(0..100)]
CanvasEnded == {"completed", "concluded", "inactive"}

CanvasGrades(course, enrollments, learner) ==
    {[course |-> course, learner |-> e.learner, current |-> e.current, final |-> e.final] :
        e \in {x \in enrollments : x.learner = learner /\ x.graded}}

CanvasPercent(e) == IF ~e.graded THEN Null ELSE IF e.final # Null THEN e.final ELSE e.current

CanvasCompletions(course, enrollments, learner) ==
    {[course |-> course, learner |-> e.learner, completed |-> e.state \in CanvasEnded,
      percent |-> CanvasPercent(e)] : e \in {x \in enrollments : x.learner = learner}}

CanvasSubmissions(course, submissions, learner, assignment) ==
    {[course |-> course, learner |-> s.learner, assignment |-> s.assignment,
      state |-> s.state, score |-> s.score] :
        s \in {x \in submissions : x.learner = learner /\ x.assignment = assignment}}

-----------------------------------------------------------------------------
(* Sakai answers one matrix for a course: every student, the course grade  *)
(* and the grades by assignment. The facts carry the site id it names.     *)

SakaiPercent(grade) ==
    IF grade.earned # Null /\ grade.possible # Null /\ grade.possible # 0
    THEN (grade.earned * 100) \div grade.possible
    ELSE grade.calculated

SakaiState(g) ==
    IF g.excused THEN "excused"
    ELSE IF g.hidden THEN "hidden"
    ELSE IF g.grade = Null THEN Null ELSE "graded"

StudentsOf(matrix, learner) == {s \in matrix.students : s.learner = learner}

SakaiGrades(matrix, learner) ==
    {[course |-> matrix.site, learner |-> s.learner, current |-> SakaiPercent(s.course),
      final |-> SakaiPercent(s.course)] : s \in StudentsOf(matrix, learner)}

\* Whoever has a score has completed the course.
SakaiCompletions(matrix, learner) ==
    {[course |-> matrix.site, learner |-> s.learner, completed |-> SakaiPercent(s.course) # Null,
      percent |-> SakaiPercent(s.course)] : s \in StudentsOf(matrix, learner)}

\* The score of a hidden grade is a fact too.
SakaiSubmissions(matrix, learner, assignment) ==
    {[course |-> matrix.site, learner |-> s.learner, assignment |-> assignment,
      state |-> SakaiState(s.grades[assignment]), score |-> s.grades[assignment].grade] :
        s \in {x \in StudentsOf(matrix, learner) : assignment \in DOMAIN x.grades}}

-----------------------------------------------------------------------------
(* The connection.                                                         *)

VARIABLES
    conn,       \* the row of tenant_canvas_gradebook_integrations
    issued,     \* the LMS's: codes and tokens it handed out
    states,     \* state tokens handed out, by the minute each was signed
    book,       \* the LMS's: its gradebook
    minute,
    at, call,   \* where each request is, and its locals
        \* history: how the last request of each caller ended
    tallied,    \* whether the driver reports the rows an UPDATE changed
    adrift,     \* history: the stored tokens may not be the LMS's last
    asked, gone

lms == <<issued, book>>
connVars == <<conn, issued, states, book, minute, at, call, tallied, adrift, asked, gone>>

NoConn == [platform |-> Null, access |-> Null, refresh |-> Null, ends |-> 0]
NoToken == [platform |-> Null, use |-> "none", ends |-> 0, live |-> FALSE]
NoFacts == [grades |-> {}, completions |-> {}, submissions |-> {}]
NoCall == [job |-> "none", kind |-> "canvas", conn |-> NoConn, since |-> 0, code |-> Null,
           access |-> Null, refresh |-> Null, facts |-> NoFacts, cache |-> Null, seen |-> {}]

ConnInit ==
    /\ conn = NoConn
    /\ issued = [t \in Tokens |-> NoToken]
    /\ states = {}
    /\ book \in {b \in [Platforms -> UNION {Books[k] : k \in DOMAIN Books}] :
                   \A p \in Platforms : b[p] \in Books[KindOf[p]]}
    /\ minute = 0
    /\ at = [c \in Calls |-> "idle"]
    /\ call = [c \in Calls |-> NoCall]
    /\ tallied \in BOOLEAN
    /\ adrift = FALSE
    /\ asked = 0
    /\ gone = 0

Move(c, place, locals) ==
    /\ at' = [at EXCEPT ![c] = place]
    /\ call' = [call EXCEPT ![c] = locals]
Ended(c) == Move(c, "idle", NoCall)     \* whatever it answered
Others(c) == {d \in Calls \ {c} : at[d] # "idle"}
\* Bound: every request that begins, those for an authorization URL left out.
Count(c) == at[c] = "idle" /\ asked < MaxCalls /\ asked' = asked + 1

Unissued == {t \in Tokens : issued[t] = NoToken}
OneOf(S) == CHOOSE t \in S : TRUE
Works(t, use, p) ==
    t # Null /\ issued[t].use = use /\ issued[t].platform = p /\ issued[t].live
      /\ (issued[t].ends = 0 \/ minute < issued[t].ends)

-----------------------------------------------------------------------------
(* Settings and connection                                                 *)

\* The tokens stay as they are.
Configured(row, p) == [row EXCEPT !.platform = p]

\* PUT …/config: one statement. The row read back is
\* answered and audited only.
PutConfig(c) ==
    /\ Count(c)
    /\ \E p \in Platforms :
         /\ conn' = Configured(conn, p)
         /\ adrift' = (adrift \/ (p # conn.platform /\ (conn.access # Null \/ Others(c) # {})))
    /\ UNCHANGED <<lms, states, minute, at, call, tallied, gone>>

\* POST …/authorize-url: a signed state, which is stored nowhere.
AuthorizeUrl(c) ==
    /\ at[c] = "idle" /\ conn.platform # Null
    /\ states' = states \cup {minute}
    /\ UNCHANGED <<conn, lms, minute, at, call, tallied, adrift, asked, gone>>

\* The administrator consents at the LMS the settings name, which hands out a code.
GrantCode ==
    /\ conn.platform # Null /\ states # {}
    /\ \A t \in Tokens : ~(issued[t].use = "code" /\ issued[t].live)
    /\ Unissued # {}
    /\ LET t == OneOf(Unissued) IN
         issued' = [issued EXCEPT ![t] = [platform |-> conn.platform, use |-> "code",
                                          ends |-> 0, live |-> TRUE]]
    /\ UNCHANGED <<conn, states, book, minute, at, call, tallied, adrift, asked, gone>>

\* validateCanvasOAuthStateToken: signed, and not ended.
StateAccepted(signed) == signed <= minute /\ minute < signed + StateLife

\* POST …/exchange: reads the settings, then checks the state.
BeginExchange(c) ==
    /\ Count(c) /\ conn.platform # Null
    /\ \E t \in Tokens, signed \in states :
         /\ issued[t].use = "code"
         /\ IF StateAccepted(signed)
            THEN /\ Move(c, "exchange", [NoCall EXCEPT !.job = "exchange", !.conn = conn,
                                                       !.since = minute, !.code = t])
            ELSE Ended(c)                \* 400
    /\ UNCHANGED <<conn, lms, states, minute, tallied, adrift, gone>>

\* The LMS's reply, when it takes what it is sent: a new access token, and a new refresh
\* token when it was sent a code or replaces the old.
Reply(c, spent, ends) ==
    /\ Cardinality(Unissued) > 1
    /\ LET access == OneOf(Unissued)
          refresh == OneOf(Unissued \ {access})
          p == call[c].conn.platform
          again == issued[spent].use = "code" \/ p \in Rotating
          used == IF again THEN [issued EXCEPT ![spent].live = FALSE] ELSE issued
          new(use, end) == [platform |-> p, use |-> use, ends |-> end, live |-> TRUE]
      IN  /\ issued' = IF again
                       THEN [used EXCEPT ![access] = new("access", ends), ![refresh] = new("refresh", 0)]
                       ELSE [used EXCEPT ![access] = new("access", ends)]
          /\ Move(c, "store", [call[c] EXCEPT !.access = access,
                                              !.refresh = IF again THEN refresh ELSE Null])

\* exchangeCanvasAuthorizationCode, refreshCanvasAccessToken: the request to the LMS that
\* the settings named when they were read.
AskLms(c) ==
    /\ at[c] \in {"exchange", "refresh"}
    /\ LET code == at[c] = "exchange"
           sent == IF code THEN call[c].code ELSE call[c].conn.refresh
       IN  IF Works(sent, IF code THEN "code" ELSE "refresh", call[c].conn.platform)
           THEN Reply(c, sent, minute + Life)
           ELSE Ended(c) /\ UNCHANGED issued    \* 502
    /\ UNCHANGED <<conn, states, book, minute, tallied, adrift, asked, gone>>

\* The end of an access token is reckoned from the time the request began.
EndOf(c) == IF call[c].conn.platform \in Silent THEN 0 ELSE call[c].since + Life

\* Mutant: a refresh token that is stored is kept.
StoredKeeping(row, c) ==
    [row EXCEPT !.access = call[c].access, !.ends = EndOf(c),
                !.refresh = IF @ = Null THEN call[c].refresh ELSE @]

\* refresh_token = COALESCE(?, refresh_token); the rest is overwritten.
Stored(row, c) ==
    [row EXCEPT !.access = call[c].access, !.ends = EndOf(c),
                !.refresh = IF call[c].refresh = Null THEN @ ELSE call[c].refresh]

\* updateTenantCanvasGradebookIntegrationTokens: the rows reported decide how a request
\* goes on. An evaluation goes on with the token it read when none is.
StoreTokens(c) ==
    /\ at[c] = "store"
    /\ conn' = Stored(conn, c)
    /\ adrift' = IF call[c].job = "exchange" /\ Others(c) = {} /\ conn.platform = call[c].conn.platform
                 THEN FALSE
                 ELSE adrift \/ conn # call[c].conn
    /\ LET told == (IF tallied THEN RowsChanged(1, FALSE) ELSE RowsWritten(1, FALSE)) > 0
       IN  CASE told -> Move(c, "reread", call[c])
             [] ~told /\ call[c].job = "evaluate" ->
                  Move(c, "fetch", [call[c] EXCEPT !.access = call[c].conn.access])
             [] OTHER -> Ended(c)        \* 404
    /\ UNCHANGED <<lms, states, minute, tallied, asked, gone>>

RereadConn(c) ==
    /\ at[c] = "reread"
    /\ IF call[c].job = "exchange" THEN Ended(c)
       ELSE Move(c, "fetch", [call[c] EXCEPT !.access = conn.access])
    /\ UNCHANGED <<conn, lms, states, minute, tallied, adrift, asked, gone>>

-----------------------------------------------------------------------------
(* Reading the gradebook                                                   *)

AccessEnded == conn.ends # 0 /\ conn.ends <= minute

\* GET …/snapshot reads as Canvas whatever the LMS is, and refreshes when there is no
\* access token too.
BeginSnapshot(c) ==
    /\ Count(c) /\ conn.platform # Null
    /\ LET on == [NoCall EXCEPT !.job = "snapshot", !.conn = conn, !.since = minute,
                                !.access = conn.access, !.seen = {book[conn.platform]}]
       IN  IF (conn.access = Null \/ AccessEnded) /\ conn.refresh # Null
           THEN Move(c, "refresh", on)
           ELSE IF conn.access = Null THEN Ended(c)    \* 409
           ELSE Move(c, "fetch", on)
    /\ UNCHANGED <<conn, lms, states, minute, tallied, adrift, gone>>

\* loadRuleFacts of a rule for an LMS of some kind.
BeginFacts(c) ==
    /\ Count(c) /\ conn.platform # Null
    /\ \E kind \in {KindOf[p] : p \in Platforms} :
         LET on == [NoCall EXCEPT !.job = "evaluate", !.kind = kind, !.conn = conn,
                                  !.since = minute, !.access = conn.access, !.seen = {book[conn.platform]}]
         IN  IF conn.access = Null THEN Ended(c)
             ELSE Move(c, IF AccessEnded /\ conn.refresh # Null THEN "refresh" ELSE "fetch", on)
    /\ UNCHANGED <<conn, lms, states, minute, tallied, adrift, gone>>

Accepts(c) == /\ Works(call[c].access, "access", call[c].conn.platform)
              /\ KindOf[call[c].conn.platform] = call[c].kind

\* Sakai's matrix is read once for a course and kept for the evaluation.
Cached(c) == [call[c] EXCEPT !.cache = book[call[c].conn.platform]]

FetchMatrix(c) ==
    /\ at[c] = "fetch" /\ call[c].kind = "sakai" /\ call[c].cache = Null
    /\ IF Accepts(c) THEN Move(c, "fetch", Cached(c))
       ELSE Ended(c)
    /\ UNCHANGED <<conn, lms, states, minute, tallied, adrift, asked, gone>>

\* The gradebook a fact is read from: Sakai's cache, or Canvas's answer of now.
Source(c) == IF call[c].kind = "sakai" THEN call[c].cache ELSE book[call[c].conn.platform]
MayFetch(c) == at[c] = "fetch" /\ (call[c].kind = "sakai" => call[c].cache # Null)
Fetched(c, part) == call[c].facts[part] # {}

GradesIn(c) == IF call[c].kind = "sakai" THEN SakaiGrades(Source(c), Learner)
               ELSE CanvasGrades(Course, Source(c).enrollments, Learner)
CompletionsIn(c) == IF call[c].kind = "sakai" THEN SakaiCompletions(Source(c), Learner)
                    ELSE CanvasCompletions(Course, Source(c).enrollments, Learner)
SubmissionsIn(c) == IF call[c].kind = "sakai" THEN SakaiSubmissions(Source(c), Learner, Assignment)
                    ELSE CanvasSubmissions(Course, Source(c).submissions, Learner, Assignment)

Read(c, part, facts) ==
    /\ MayFetch(c)
    /\ IF call[c].kind = "sakai" \/ Accepts(c)
       THEN Move(c, "fetch", [call[c] EXCEPT !.facts[part] = {facts}])
       ELSE Ended(c)                     \* the request's error is not caught: 500
    /\ UNCHANGED <<conn, lms, states, minute, tallied, adrift, asked, gone>>

\* Grades and completions are asked for at once, submissions after both.
ReadGrades(c) == ~Fetched(c, "grades") /\ Read(c, "grades", GradesIn(c))
ReadCompletions(c) == ~Fetched(c, "completions") /\ Read(c, "completions", CompletionsIn(c))
ReadSubmissions(c) ==
    /\ Fetched(c, "grades") /\ Fetched(c, "completions") /\ ~Fetched(c, "submissions")
    /\ Read(c, "submissions", SubmissionsIn(c))

FinishReading(c) ==
    /\ at[c] = "fetch" /\ \A part \in DOMAIN NoFacts : Fetched(c, part)
    /\ Ended(c)
    /\ UNCHANGED <<conn, lms, states, minute, tallied, adrift, asked, gone>>

-----------------------------------------------------------------------------
\* An instructor grades, or a learner's enrollment changes.
GradeAgain ==
    \E reader \in Calls :
      LET p == call[reader].conn.platform
      IN  /\ at[reader] = "fetch"
          /\ \E b \in Books[KindOf[p]] \ {book[p]} :
               /\ book' = [book EXCEPT ![p] = b]
               /\ call' = [c \in Calls |->
                             IF at[c] # "idle" /\ call[c].conn.platform = p
                             THEN [call[c] EXCEPT !.seen = @ \cup {b}] ELSE call[c]]
          /\ UNCHANGED <<conn, issued, states, minute, at, tallied, adrift, asked, gone>>

LoseCall(c) ==
    /\ at[c] # "idle" /\ gone < MaxLostCalls
    /\ Ended(c)
    /\ adrift' = (adrift \/ at[c] = "store")
    /\ gone' = gone + 1
    /\ UNCHANGED <<conn, lms, states, minute, tallied, asked>>

Minute ==
    /\ minute < MaxMinute
    /\ minute' = minute + 1
    /\ UNCHANGED <<conn, lms, states, at, call, tallied, adrift, asked, gone>>

\* GET …/config answers the row.
ShowConfig == UNCHANGED connVars

Proceed(c) ==
    \/ AskLms(c) \/ StoreTokens(c) \/ RereadConn(c) \/ FetchMatrix(c) \/ ReadGrades(c)
    \/ ReadCompletions(c) \/ ReadSubmissions(c) \/ FinishReading(c)

ConnNext ==
    \/ \E c \in Calls : \/ PutConfig(c) \/ AuthorizeUrl(c) \/ BeginExchange(c) \/ BeginSnapshot(c)
                        \/ BeginFacts(c) \/ Proceed(c) \/ LoseCall(c)
    \/ GrantCode \/ GradeAgain \/ Minute \/ ShowConfig

-----------------------------------------------------------------------------
(* Properties                                                              *)

\* Every row, token and local is of its kind.
ConnTypeOK ==
    /\ conn \in [platform: Maybe(Platforms), access: Maybe(Tokens), refresh: Maybe(Tokens),
                ends: 0..MaxMinute + Life]
    /\ issued \in [Tokens -> [platform: Maybe(Platforms), ends: 0..MaxMinute + Life, live: BOOLEAN,
                            use: {"none", "code", "access", "refresh"}]]
    /\ states \subseteq 0..MaxMinute /\ minute \in 0..MaxMinute
    /\ at \in [Calls -> {"idle", "exchange", "refresh", "store", "reread", "fetch"}]
    /\ \A c \in Calls : /\ call[c].kind \in {"canvas", "sakai"} /\ call[c].since \in 0..minute
                        /\ call[c].job \in {"none", "exchange", "snapshot", "evaluate"}
                        /\ {call[c].access, call[c].refresh, call[c].code} \subseteq Maybe(Tokens)
    /\ {tallied, adrift} \subseteq BOOLEAN /\ asked \in 0..MaxCalls /\ gone \in 0..MaxLostCalls

\* The refresh token stored is one the LMS of the settings takes, though it replaces its
\* tokens and requests refresh at a time; only settings of another LMS, a store over
\* what another request stored, or a request lost before its store leave another.
RefreshTokenIsGood ==
    ~adrift /\ conn.refresh # Null /\ (\A c \in Calls : at[c] # "store")
      => Works(conn.refresh, "refresh", conn.platform)

\* An access token is never thought to last longer than the LMS lets it.
EndIsEarly == ~adrift /\ conn.ends # 0 => conn.ends <= issued[conn.access].ends

\* Whoever reads the gradebook does so with a token the LMS takes, unless it does not
\* say when tokens end, or the driver did not tell that the refreshed one was stored.
ReadsWithGoodToken ==
    \A c \in Calls :
      LET read == call[c].conn
          ended == read.ends # 0 /\ read.ends <= call[c].since
      IN  /\ at[c] = "fetch" /\ ~adrift /\ minute = call[c].since
          /\ read.platform = conn.platform /\ read.platform \notin Silent
          /\ tallied \/ ~ended \/ read.refresh = Null
          /\ ended => read.refresh # Null
          => Works(call[c].access, "access", read.platform)

Agree(grade, completion) ==
    grade.final = completion.percent /\ (completion.completed <=> grade.final # Null)

\* The facts of a rule for Sakai are of one reading: a score has the completion that is
\* drawn from it, and each completion its score, though grades change meanwhile. Each fact of Canvas was true at some
\* time since the evaluation began, but not all of them at one.
FactsAreOfOneBook ==
    \A c \in Calls : at[c] = "fetch" =>
      LET facts == call[c].facts
          canvas == call[c].kind = "canvas"
      IN  /\ ~canvas /\ facts.grades # {} /\ facts.completions # {} =>
               /\ \A g \in UNION facts.grades : \E d \in UNION facts.completions : Agree(g, d)
               /\ \A d \in UNION facts.completions : \E g \in UNION facts.grades : Agree(g, d)
          /\ \A s \in UNION facts.grades : canvas =>
               \E b \in call[c].seen : s \in CanvasGrades(Course, b.enrollments, Learner)
          /\ \A s \in UNION facts.submissions : canvas =>
               \E b \in call[c].seen : s \in CanvasSubmissions(Course, b.submissions, Learner, Assignment)

\* What is stored of the LMS still holds there, and what is read over it belongs together,
\* though requests refresh the tokens and grades change at any time.
ConnectionHolds ==
    /\ ConnTypeOK
    /\ RefreshTokenIsGood
    /\ EndIsEarly
    /\ ReadsWithGoodToken
    /\ FactsAreOfOneBook

ConnSpec == ConnInit /\ [][ConnNext]_connVars
=============================================================================
