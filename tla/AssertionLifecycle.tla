-------------------------- MODULE AssertionLifecycle --------------------------
(***************************************************************************)
(* The life of one issued assertion: manual transitions                    *)
(* (routes/assertion-routes.ts and recordAssertionLifecycleTransition) and *)
(* revoke_badge jobs (queue/processing.ts and recordAssertionRevocation),  *)
(* each a sequence of reads and writes that others may interleave with.    *)
(* Assertions do not influence one another here, so one is enough.         *)
(***************************************************************************)
EXTENDS Integers, FiniteSets

CONSTANTS
    Callers,      \* manual transition requests that may overlap
    Jobs,         \* deliveries of revoke_badge jobs that may overlap
    ClientTimes,  \* values a caller may give as transitionedAt
    Ranks,        \* random parts of event ids, which break ties of time
    MaxBegins,    \* bound on the requests and deliveries
    MaxFaults     \* bound on those lost between two of their steps

ASSUME ActorsAssumption == Callers \cap Jobs = {}
ASSUME LifecycleBounds ==
    /\ ClientTimes \subseteq Nat /\ Ranks \subseteq Nat
    /\ MaxBegins \in Nat /\ MaxFaults \in Nat

NoTime == -1

VARIABLES
    revokedAt,   \* assertions.revoked_at
    revocation,  \* revocations.revoked_at of the assertion's row, if it has one
    events,      \* assertion_lifecycle_events
    audited,     \* actors' audit log entries: what each entry says was done
    pc, mem,     \* where each actor is, and what it has read
    answers,     \* history: what each actor was last answered
    now,         \* one instant per request or delivery
    faults       \* history: actors lost

vars == <<revokedAt, revocation, events, audited, pc, mem, answers, now, faults>>

Actors == Callers \cup Jobs
States == {"active", "suspended", "expired", "revoked"}
Times == Nat
Steps == {"idle", "readAssertion", "readEvent", "readAgain", "update", "insertRow",
          "insertEvent", "audit", "answer"}
Event == [at: Times, rank: Ranks, from: States, to: States]
Memory == [to: States, at: Times, revokedAt: Times \cup {NoTime}, from: States]
NoMemory == [to |-> "active", at |-> 0, revokedAt |-> NoTime, from |-> "active"]
Results == {"none", "transitioned", "already", "invalid", "done"}

\* ASSERTION_LIFECYCLE_ALLOWED_TRANSITIONS
Allowed ==
    [s \in States |->
        CASE s = "active"    -> {"suspended", "revoked", "expired"}
          [] s = "suspended" -> {"active", "revoked", "expired"}
          [] s = "expired"   -> {"active", "revoked"}
          [] s = "revoked"   -> {}]

Permitted(current, to) == to \in Allowed[current]

\* findLatestAssertionLifecycleEvent: transitioned_at and created_at are equal in
\* every row, so the id, which is random, decides between events of one instant.
IsLatest(e) ==
    \A f \in events : f.at < e.at \/ (f.at = e.at /\ f.rank <= e.rank)
LatestState == IF events = {} THEN "active" ELSE (CHOOSE e \in events : IsLatest(e)).to

\* Mutant: revoked_at counts only while there is no event.
StateFromEventFirst(revoked, latest) ==
    IF events = {} /\ revoked # NoTime THEN "revoked" ELSE latest

\* assertionLifecycleStateFromRecords: revoked_at wins over any event.
StateFrom(revoked, latest) == IF revoked # NoTime THEN "revoked" ELSE latest
State == StateFrom(revokedAt, LatestState)

Init ==
    /\ revokedAt = NoTime
    /\ revocation = NoTime
    /\ events = {}
    /\ audited = [c \in Actors |-> {}]
    /\ pc = [c \in Actors |-> "idle"]
    /\ mem = [c \in Actors |-> NoMemory]
    /\ answers = [c \in Actors |-> "none"]
    /\ now = 0
    /\ faults = 0

Goto(c, s) == pc' = [pc EXCEPT ![c] = s]

\* The actor is done, and forgets what it read.
Leave(c) == Goto(c, "idle") /\ mem' = [mem EXCEPT ![c] = NoMemory]

Reply(c, result) ==
    /\ Leave(c)
    /\ answers' = [answers EXCEPT ![c] = result]

Proceed(c, step, memory) ==
    /\ Goto(c, step)
    /\ mem' = [mem EXCEPT ![c] = memory]
    /\ UNCHANGED answers

-----------------------------------------------------------------------------
(* Manual transitions.                                                     *)

BeginTransition(c, to, at) ==
    /\ c \in Callers
    /\ pc[c] = "idle"
    /\ now < MaxBegins
    /\ now' = now + 1
    /\ mem' = [mem EXCEPT ![c] = [NoMemory EXCEPT !.to = to, !.at = at]]
    /\ answers' = [answers EXCEPT ![c] = "none"]
    /\ Goto(c, "readAssertion")
    /\ UNCHANGED <<revokedAt, revocation, events, audited, faults>>

ReadAssertion(c) ==
    /\ pc[c] = "readAssertion"
    /\ mem' = [mem EXCEPT ![c].revokedAt = revokedAt]
    /\ Goto(c, "readEvent")
    /\ UNCHANGED <<revokedAt, revocation, events, audited, answers, now, faults>>

\* The state is what the two reads say together; the transition is judged by it.
ReadEventAndDecide(c) ==
    /\ pc[c] = "readEvent"
    /\ LET current == StateFrom(mem[c].revokedAt, LatestState)
           to == mem[c].to
       IN  \/ current = to /\ Reply(c, "already")
           \/ current # to /\ ~ Permitted(current, to) /\ Reply(c, "invalid")
           \/ /\ Permitted(current, to)
              /\ Proceed(c, IF to = "revoked" THEN "readAgain" ELSE "insertEvent",
                            [mem[c] EXCEPT !.from = current])
    /\ UNCHANGED <<revokedAt, revocation, events, audited, now, faults>>

\* The event is ordered by mem.at, the caller's transitionedAt if it gave one; the
\* statements after it set updated_at and read the event back.
InsertEvent(c) ==
    /\ pc[c] = "insertEvent"
    /\ \E n \in Ranks :
        /\ \A e \in events : e.rank # n
        /\ events' = events \cup {[at |-> mem[c].at, rank |-> n,
                                   from |-> mem[c].from, to |-> mem[c].to]}
    /\ Goto(c, "audit")
    /\ UNCHANGED <<revokedAt, revocation, audited, mem, answers, now, faults>>

-----------------------------------------------------------------------------
(* recordAssertionRevocation, which a transition to "revoked" calls and a  *)
(* revoke_badge job consists of.                                           *)

BeginJob(j) ==
    /\ j \in Jobs
    /\ pc[j] = "idle"
    /\ now < MaxBegins
    /\ now' = now + 1
    /\ mem' = [mem EXCEPT ![j] = [NoMemory EXCEPT !.to = "revoked", !.at = now + 1]]
    /\ answers' = [answers EXCEPT ![j] = "none"]
    /\ Goto(j, "readAgain")
    /\ UNCHANGED <<revokedAt, revocation, events, audited, faults>>

\* Mutant: what was read is not looked at.
AfterReadAgainBlindly == "insertRow"

AfterReadAgain == IF revokedAt = NoTime THEN "update" ELSE "insertRow"

ReadAgain(c) ==
    /\ pc[c] = "readAgain"
    /\ mem' = [mem EXCEPT ![c].revokedAt = revokedAt]
    /\ Goto(c, AfterReadAgain)
    /\ UNCHANGED <<revokedAt, revocation, events, audited, answers, now, faults>>

RevokedAtUpdated(t) == IF revokedAt = NoTime THEN t ELSE revokedAt

\* UPDATE assertions ... WHERE revoked_at IS NULL
UpdateRevokedAt(c) ==
    /\ pc[c] = "update"
    /\ revokedAt' = RevokedAtUpdated(mem[c].at)
    /\ Goto(c, "insertRow")
    /\ UNCHANGED <<revocation, events, audited, mem, answers, now, faults>>

AfterRevoking(c) == IF c \in Jobs THEN "audit" ELSE "insertEvent"

\* INSERT INTO revocations ... ON CONFLICT DO NOTHING, with the time this actor
\* read or wrote. A job goes on to its audit log, a transition to its event,
\* unless it finds that it was not the one to revoke.
InsertRevocation(c) ==
    /\ pc[c] = "insertRow"
    /\ revocation' = IF revocation # NoTime THEN revocation
                     ELSE IF mem[c].revokedAt # NoTime THEN mem[c].revokedAt ELSE mem[c].at
    /\ IF c \in Callers /\ mem[c].revokedAt # NoTime
       THEN Reply(c, "already")
       ELSE Proceed(c, AfterRevoking(c), mem[c])
    /\ UNCHANGED <<revokedAt, events, audited, now, faults>>

-----------------------------------------------------------------------------
(* Both end with an audit log entry and an answer.                         *)

WriteAuditLog(c) ==
    /\ pc[c] = "audit"
    /\ audited' = [audited EXCEPT ![c] = @ \cup {mem[c].to}]
    /\ Goto(c, "answer")
    /\ UNCHANGED <<revokedAt, revocation, events, mem, answers, now, faults>>

Finish(c) ==
    /\ pc[c] = "answer"
    /\ Reply(c, IF c \in Jobs THEN "done" ELSE "transitioned")
    /\ UNCHANGED <<revokedAt, revocation, events, audited, now, faults>>

\* A statement fails or the process is killed: nothing is undone.
Fault(c) ==
    /\ pc[c] # "idle"
    /\ faults < MaxFaults
    /\ faults' = faults + 1
    /\ Leave(c)
    /\ UNCHANGED <<revokedAt, revocation, events, audited, answers, now>>

Quiet == \A c \in Actors : pc[c] = "idle"

\* The bound on requests is reached and all of them are over.
AllOver == Quiet /\ now = MaxBegins /\ UNCHANGED vars

Step(c) ==
    \/ ReadAssertion(c) \/ ReadEventAndDecide(c) \/ InsertEvent(c)
    \/ ReadAgain(c) \/ UpdateRevokedAt(c) \/ InsertRevocation(c)
    \/ WriteAuditLog(c) \/ Finish(c)

Next ==
    \/ \E c \in Callers : \E to \in States, at \in {now + 1} \cup ClientTimes :
            BeginTransition(c, to, at)
    \/ \E j \in Jobs : BeginJob(j)
    \/ \E c \in Actors : Step(c) \/ Fault(c)
    \/ AllOver

Spec == Init /\ [][Next]_vars

-----------------------------------------------------------------------------
(* Properties.                                                             *)

\* Columns and memories keep their types.
TypeOK ==
    /\ revokedAt \in Times \cup {NoTime}
    /\ revocation \in Times \cup {NoTime}
    /\ events \subseteq Event
    /\ audited \in [Actors -> SUBSET States]
    /\ pc \in [Actors -> Steps]
    /\ mem \in [Actors -> Memory]
    /\ answers \in [Actors -> Results]
    /\ now \in Nat
    /\ faults \in Nat

\* What a revocation leaves for good: no event, backdated or late, brings the assertion
\* back, and revoked_at is written once: of several revocations that all read NULL one
\* sets it, and the others' UPDATE leaves it.
RevokedIsFinal ==
    [][/\ State = "revoked" => State' = "revoked"
       /\ revokedAt # NoTime => revokedAt' = revokedAt]_vars

\* A row in revocations stands for an assertion that is revoked already.
RevocationIsEffective == revocation # NoTime => revokedAt # NoTime

\* A revoke_badge job that ends as completed has left the assertion revoked, its
\* revocation recorded and the audit log written, even if an earlier delivery of
\* it died halfway.
CompletedJobRevoked ==
    \A j \in Jobs : answers[j] = "done" =>
        revokedAt # NoTime /\ revocation # NoTime /\ "revoked" \in audited[j]

\* The rows of a revocation, which several statements write, agree in every state.
RevocationHolds == TypeOK /\ RevocationIsEffective /\ CompletedJobRevoked

\* The state of an assertion changes only along the allowed transitions.
FollowsRules == State' # State => State' \in Allowed[State]

\* A caller answered "transitioned" finds the assertion in the state it asked
\* for, or revoked by somebody else.
TakesEffect ==
    \A c \in Callers :
        pc[c] = "answer" /\ answers'[c] = "transitioned" => State \in {mem[c].to, "revoked"}
=============================================================================
