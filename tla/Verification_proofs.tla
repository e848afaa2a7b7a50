--------------------------- MODULE Verification_proofs ---------------------------
(* Proofs that a revocation's rows agree and that it is final, and of what   *)
(* verifiers are told meanwhile: for any number of overlapping transitions,  *)
(* deliveries of revoke_badge jobs and verifiers, whatever times callers     *)
(* give, and however many requests are lost.  And proofs of what is accepted *)
(* of documents and presentations that are signed, altered and passed about. *)
EXTENDS Verification, Presentations, FiniteSetTheorems, WellFoundedInduction, SequenceTheorems,
        TLAPS

(* The life of an assertion: the inductive invariant, in named parts.        *)

\* There is a latest event, though times are given by callers and ranks are random.
LatestExists == events # {} => \E e \in events : IsLatest(e)

\* An event that says "revoked" was written after revoked_at.
EventsFollow == \A e \in events : e.to = "revoked" => revokedAt # NoTime

\* What an actor remembers of revoked_at is still so, and its statements come in order.
Keeps(c) ==
    /\ mem[c].revokedAt # NoTime => revokedAt = mem[c].revokedAt
    /\ pc[c] = "insertRow" => revokedAt # NoTime
    /\ pc[c] = "insertEvent" /\ mem[c].to = "revoked" => revokedAt # NoTime

\* A job does nothing but revoke, and ends after its rows and its log entry are written.
JobInOrder(j) ==
    /\ pc[j] \in {"idle", "readAgain", "update", "insertRow", "audit", "answer"}
    /\ pc[j] # "idle" => mem[j].to = "revoked"
    /\ pc[j] \in {"audit", "answer"} => revokedAt # NoTime /\ revocation # NoTime
    /\ pc[j] = "answer" => "revoked" \in audited[j]
    /\ answers[j] = "done" =>
           revokedAt # NoTime /\ revocation # NoTime /\ "revoked" \in audited[j]

LifeInv ==
    /\ TypeOK
    /\ RevocationIsEffective
    /\ LatestExists
    /\ EventsFollow
    /\ \A c \in Actors : Keeps(c)
    /\ \A j \in Jobs : JobInOrder(j)

\* revoked_at is not written twice, nor a revocation taken back.
TimesStay ==
    /\ revokedAt # NoTime => revokedAt' = revokedAt
    /\ revocation # NoTime => revocation' = revocation

-----------------------------------------------------------------------------

LEMMA NoTimeIsNone == NoTime \notin Times
  BY DEF NoTime, Times

\* The latest event is one of the events, so its state is a state, and a state.
LEMMA LatestFits ==
    ASSUME LifeInv
    PROVE  LatestState \in States /\ (LatestState = "revoked" => revokedAt # NoTime)
<1>1. CASE events = {}
  BY <1>1 DEF LatestState, States
<1>2. CASE events # {}
  <2>1. PICK e : e = CHOOSE f \in events : IsLatest(f)
    OBVIOUS
  <2>2. e \in events
    BY <1>2, <2>1 DEF LifeInv, LatestExists
  <2>3. e.to \in States
    BY <2>2 DEF LifeInv, TypeOK, Event
  <2>4. LatestState = e.to
    BY <1>2, <2>1 DEF LatestState
  <2> QED
    BY <2>2, <2>3, <2>4 DEF LifeInv, EventsFollow
<1> QED
  BY <1>1, <1>2

LEMMA StateMeansTime ==
    LifeInv => State \in States /\ (State = "revoked" <=> revokedAt # NoTime)
  BY LatestFits DEF State, StateFrom, States

\* Of an actor that moves: how the others and the columns stand.
LEMMA OthersStay ==
    ASSUME LifeInv, TimesStay, NEW c \in Actors, NEW place, NEW m,
           pc' = [pc EXCEPT ![c] = place], mem' = [mem EXCEPT ![c] = m],
           \A j \in Jobs \ {c} : audited[j] \subseteq audited'[j] /\ answers'[j] = answers[j]
    PROVE  /\ pc'[c] = place /\ mem'[c] = m
           /\ \A d \in Actors \ {c} : Keeps(d)'
           /\ \A j \in Jobs \ {c} : JobInOrder(j)'
<1>1. /\ pc'[c] = place /\ mem'[c] = m
      /\ \A d \in Actors \ {c} : pc'[d] = pc[d] /\ mem'[d] = mem[d]
  BY DEF LifeInv, TypeOK
<1>2. ASSUME NEW d \in Actors \ {c}
      PROVE  Keeps(d)'
  <2>1. Keeps(d)
    BY DEF LifeInv
  <2>2. pc'[d] = pc[d] /\ mem'[d] = mem[d]
    BY <1>1
  <2> QED
    BY <2>1, <2>2 DEF Keeps, TimesStay
<1>3. ASSUME NEW j \in Jobs \ {c}
      PROVE  JobInOrder(j)'
  <2>1. JobInOrder(j)
    BY DEF LifeInv
  <2>2. pc'[j] = pc[j] /\ mem'[j] = mem[j]
    BY <1>1 DEF Actors
  <2> QED
    BY <2>1, <2>2 DEF JobInOrder, TimesStay
<1> QED
  BY <1>1, <1>2, <1>3

\* Most steps write neither column nor event: one actor moves.
LEMMA MoveInv ==
    ASSUME LifeInv, NEW c \in Actors, NEW place \in Steps, NEW m \in Memory,
           pc' = [pc EXCEPT ![c] = place], mem' = [mem EXCEPT ![c] = m],
           UNCHANGED <<revokedAt, revocation, events>>,
           audited' \in [Actors -> SUBSET States], answers' \in [Actors -> Results],
           now' \in Nat, faults' \in Nat,
           \A j \in Jobs \ {c} : audited[j] \subseteq audited'[j] /\ answers'[j] = answers[j],
           m.revokedAt # NoTime => revokedAt = m.revokedAt,
           place = "insertRow" => revokedAt # NoTime,
           place = "insertEvent" /\ m.to = "revoked" => revokedAt # NoTime,
           c \in Jobs =>
               /\ place \in {"idle", "readAgain", "update", "insertRow", "audit", "answer"}
               /\ place # "idle" => m.to = "revoked"
               /\ place \in {"audit", "answer"} => revokedAt # NoTime /\ revocation # NoTime
               /\ place = "answer" => "revoked" \in audited'[c]
               /\ answers'[c] = "done" =>
                      revokedAt # NoTime /\ revocation # NoTime /\ "revoked" \in audited'[c]
    PROVE  LifeInv'
<1>1. TimesStay
  BY DEF TimesStay
<1>2. /\ pc'[c] = place /\ mem'[c] = m
      /\ \A d \in Actors \ {c} : Keeps(d)'
      /\ \A j \in Jobs \ {c} : JobInOrder(j)'
  BY <1>1, OthersStay
<1>3. TypeOK'
  BY DEF LifeInv, TypeOK
<1>4. RevocationIsEffective' /\ LatestExists' /\ EventsFollow'
  BY DEF LifeInv, RevocationIsEffective, LatestExists, EventsFollow, IsLatest
<1>5. Keeps(c)'
  BY <1>2 DEF Keeps
<1>6. c \in Jobs => JobInOrder(c)'
  BY <1>2 DEF JobInOrder
<1> QED
  BY <1>2, <1>3, <1>4, <1>5, <1>6 DEF LifeInv

LEMMA InitLife == Init => LifeInv
<1> SUFFICES ASSUME Init
             PROVE  LifeInv
  OBVIOUS
<1>1. TypeOK
  BY DEF Init, TypeOK, NoTime, Times, Steps, Memory, NoMemory, States, Results
<1>2. RevocationIsEffective /\ LatestExists /\ EventsFollow
  BY DEF Init, RevocationIsEffective, LatestExists, EventsFollow
<1>3. \A c \in Actors : Keeps(c)
  BY DEF Init, Keeps, NoMemory
<1>4. \A j \in Jobs : JobInOrder(j)
  BY DEF Init, JobInOrder, NoMemory, Actors
<1> QED
  BY <1>1, <1>2, <1>3, <1>4 DEF LifeInv

LEMMA BeginTransitionInv ==
    ASSUME LifeInv, NEW c \in Callers, NEW to \in States, NEW at \in {now + 1} \cup ClientTimes,
           BeginTransition(c, to, at)
    PROVE  LifeInv'
<1>1. PICK m : m = [NoMemory EXCEPT !.to = to, !.at = at]
  OBVIOUS
<1>2. at \in Nat
  BY LifecycleBounds DEF LifeInv, TypeOK
<1>3. m \in Memory /\ m.revokedAt = NoTime
  BY <1>1, <1>2 DEF Memory, NoMemory, States, Times
<1>4. c \in Actors /\ c \notin Jobs
  BY ActorsAssumption DEF Actors
<1>5. /\ pc' = [pc EXCEPT ![c] = "readAssertion"] /\ mem' = [mem EXCEPT ![c] = m]
      /\ UNCHANGED <<revokedAt, revocation, events>>
      /\ audited' = audited /\ answers' = [answers EXCEPT ![c] = "none"]
      /\ now' = now + 1 /\ faults' = faults
  BY <1>1 DEF BeginTransition, Goto
<1>6. /\ audited' \in [Actors -> SUBSET States] /\ answers' \in [Actors -> Results]
      /\ now' \in Nat /\ faults' \in Nat
      /\ \A j \in Jobs \ {c} : audited[j] \subseteq audited'[j] /\ answers'[j] = answers[j]
  BY <1>5 DEF LifeInv, TypeOK, Results, Actors
<1> QED
  BY <1>3, <1>4, <1>5, <1>6, MoveInv DEF Steps

LEMMA BeginJobInv ==
    ASSUME LifeInv, NEW j \in Jobs, BeginJob(j)
    PROVE  LifeInv'
<1>1. PICK m : m = [NoMemory EXCEPT !.to = "revoked", !.at = now + 1]
  OBVIOUS
<1>2. m \in Memory /\ m.revokedAt = NoTime /\ m.to = "revoked"
  <2>1. now + 1 \in Nat
    BY DEF LifeInv, TypeOK
  <2> QED
    BY <1>1, <2>1 DEF Memory, NoMemory, States, Times
<1>3. /\ pc' = [pc EXCEPT ![j] = "readAgain"] /\ mem' = [mem EXCEPT ![j] = m]
      /\ UNCHANGED <<revokedAt, revocation, events>>
      /\ audited' = audited /\ answers' = [answers EXCEPT ![j] = "none"]
      /\ now' = now + 1 /\ faults' = faults
  BY <1>1 DEF BeginJob, Goto
<1>4. /\ audited' \in [Actors -> SUBSET States] /\ answers' \in [Actors -> Results]
      /\ now' \in Nat /\ faults' \in Nat /\ answers'[j] = "none"
      /\ \A k \in Jobs \ {j} : audited[k] \subseteq audited'[k] /\ answers'[k] = answers[k]
  BY <1>3 DEF LifeInv, TypeOK, Results, Actors
<1>5. j \in Actors
  BY DEF Actors
<1> QED
  BY <1>2, <1>3, <1>4, <1>5, MoveInv DEF Steps

\* A step that writes nothing: an actor reads, or is done.
LEMMA QuietMoveInv ==
    ASSUME LifeInv, NEW c \in Actors, NEW place \in Steps, NEW m \in Memory,
           pc' = [pc EXCEPT ![c] = place], mem' = [mem EXCEPT ![c] = m],
           UNCHANGED <<revokedAt, revocation, events, audited, now>>, faults' \in Nat,
           NEW result \in Results,
           answers' = answers \/ answers' = [answers EXCEPT ![c] = result],
           m.revokedAt # NoTime => revokedAt = m.revokedAt,
           place = "insertRow" => revokedAt # NoTime,
           place = "insertEvent" /\ m.to = "revoked" => revokedAt # NoTime,
           c \in Jobs =>
               /\ place \in {"idle", "readAgain", "update", "insertRow"}
               /\ place # "idle" => m.to = "revoked"
               /\ result = "done" /\ answers' # answers =>
                      revokedAt # NoTime /\ revocation # NoTime /\ "revoked" \in audited[c]
    PROVE  LifeInv'
<1>1. /\ answers' \in [Actors -> Results]
      /\ \A j \in Jobs \ {c} : answers'[j] = answers[j]
      /\ answers'[c] = answers[c] \/ (answers'[c] = result /\ answers' # answers)
  BY DEF LifeInv, TypeOK, Actors
<1>2. c \in Jobs => JobInOrder(c)
  BY DEF LifeInv
<1>3. /\ audited' \in [Actors -> SUBSET States] /\ now' \in Nat
      /\ \A j \in Jobs \ {c} : audited[j] \subseteq audited'[j]
  BY DEF LifeInv, TypeOK
<1>4. c \in Jobs /\ answers'[c] = "done" =>
          revokedAt # NoTime /\ revocation # NoTime /\ "revoked" \in audited'[c]
  BY <1>1, <1>2 DEF JobInOrder
<1> QED
  BY <1>1, <1>3, <1>4, MoveInv

LEMMA NoMemoryFits == NoMemory \in Memory /\ NoMemory.revokedAt = NoTime
  BY DEF NoMemory, Memory, States, Times

LEMMA ReadInv ==
    ASSUME LifeInv, NEW c \in Actors, ReadAssertion(c) \/ ReadAgain(c)
    PROVE  LifeInv'
<1>1. PICK m : m = [mem[c] EXCEPT !.revokedAt = revokedAt]
  OBVIOUS
<1>2. m \in Memory /\ m.revokedAt = revokedAt /\ m.to = mem[c].to
  BY <1>1 DEF LifeInv, TypeOK, Memory
<1>3. /\ mem' = [mem EXCEPT ![c] = m]
      /\ UNCHANGED <<revokedAt, revocation, events, audited, answers, now, faults>>
  BY <1>1 DEF ReadAssertion, ReadAgain
<1>4. c \in Jobs => JobInOrder(c)
  BY DEF LifeInv
<1>5. faults' \in Nat /\ "none" \in Results
  BY <1>3 DEF LifeInv, TypeOK, Results
<1>6. CASE ReadAssertion(c)
  <2>1. pc[c] = "readAssertion" /\ pc' = [pc EXCEPT ![c] = "readEvent"]
    BY <1>6 DEF ReadAssertion, Goto
  <2>2. c \notin Jobs
    BY <1>4, <2>1 DEF JobInOrder
  <2> QED
    BY <1>2, <1>3, <1>5, <2>1, <2>2, QuietMoveInv DEF Steps
<1>7. CASE ReadAgain(c)
  <2>1. PICK place : place = AfterReadAgain
    OBVIOUS
  <2>2. pc[c] = "readAgain" /\ pc' = [pc EXCEPT ![c] = place]
    BY <1>7, <2>1 DEF ReadAgain, Goto
  <2>3. place \in {"update", "insertRow"} /\ (place = "insertRow" => revokedAt # NoTime)
    BY <2>1 DEF AfterReadAgain
  <2>4. c \in Jobs => m.to = "revoked"
    BY <1>2, <1>4, <2>2 DEF JobInOrder
  <2> QED
    BY <1>2, <1>3, <1>5, <2>2, <2>3, <2>4, QuietMoveInv DEF Steps
<1> QED
  BY <1>6, <1>7

LEMMA DecideInv ==
    ASSUME LifeInv, NEW c \in Actors, ReadEventAndDecide(c)
    PROVE  LifeInv'
<1>1. /\ pc[c] = "readEvent"
      /\ UNCHANGED <<revokedAt, revocation, events, audited, now, faults>>
  BY DEF ReadEventAndDecide
<1>2. c \notin Jobs
  BY <1>1 DEF LifeInv, JobInOrder
<1>3. faults' \in Nat /\ Keeps(c)
  BY <1>1 DEF LifeInv, TypeOK
<1>4. PICK current : current = StateFrom(mem[c].revokedAt, LatestState)
  OBVIOUS
<1>5. current \in States
  BY <1>4, LatestFits DEF StateFrom, States
<1>6. ASSUME NEW result \in Results, Reply(c, result)
      PROVE  LifeInv'
  <2>1. /\ pc' = [pc EXCEPT ![c] = "idle"] /\ mem' = [mem EXCEPT ![c] = NoMemory]
        /\ answers' = [answers EXCEPT ![c] = result]
    BY <1>6 DEF Reply, Leave, Goto
  <2> QED
    BY <1>1, <1>2, <1>3, <2>1, NoMemoryFits, QuietMoveInv DEF Steps
<1>7. ASSUME NEW place \in {"readAgain", "insertEvent"}, NEW m, m = [mem[c] EXCEPT !.from = current],
             place = "insertEvent" => m.to # "revoked", Proceed(c, place, m)
      PROVE  LifeInv'
  <2>1. m \in Memory /\ m.revokedAt = mem[c].revokedAt
    BY <1>5, <1>7 DEF LifeInv, TypeOK, Memory
  <2>2. /\ pc' = [pc EXCEPT ![c] = place] /\ mem' = [mem EXCEPT ![c] = m] /\ answers' = answers
    BY <1>7 DEF Proceed, Goto
  <2> QED
    BY <1>1, <1>2, <1>3, <1>7, <2>1, <2>2, QuietMoveInv DEF Steps, Keeps, Results
<1>8. mem[c] \in Memory
  BY DEF LifeInv, TypeOK
<1>9. [mem[c] EXCEPT !.from = current].to = mem[c].to
  BY <1>8 DEF Memory
<1> QED
  BY <1>4, <1>6, <1>7, <1>9 DEF ReadEventAndDecide, Results

LEMMA FinishInv ==
    ASSUME LifeInv, NEW c \in Actors, Finish(c)
    PROVE  LifeInv'
<1>1. PICK result : result = IF c \in Jobs THEN "done" ELSE "transitioned"
  OBVIOUS
<1>2. /\ pc[c] = "answer"
      /\ pc' = [pc EXCEPT ![c] = "idle"] /\ mem' = [mem EXCEPT ![c] = NoMemory]
      /\ answers' = [answers EXCEPT ![c] = result]
      /\ UNCHANGED <<revokedAt, revocation, events, audited, now, faults>>
  BY <1>1 DEF Finish, Reply, Leave, Goto
<1>3. c \in Jobs => revokedAt # NoTime /\ revocation # NoTime /\ "revoked" \in audited[c]
  BY <1>2 DEF LifeInv, JobInOrder
<1>4. faults' \in Nat /\ result \in Results
  BY <1>1, <1>2 DEF LifeInv, TypeOK, Results
<1> QED
  BY <1>2, <1>3, <1>4, NoMemoryFits, QuietMoveInv DEF Steps

LEMMA FaultInv ==
    ASSUME LifeInv, NEW c \in Actors, Fault(c)
    PROVE  LifeInv'
<1>1. /\ pc' = [pc EXCEPT ![c] = "idle"] /\ mem' = [mem EXCEPT ![c] = NoMemory]
      /\ answers' = answers
      /\ UNCHANGED <<revokedAt, revocation, events, audited, now>>
      /\ faults' = faults + 1
  BY DEF Fault, Leave, Goto
<1>2. faults' \in Nat
  BY <1>1 DEF LifeInv, TypeOK
<1> QED
  BY <1>1, <1>2, NoMemoryFits, QuietMoveInv DEF Steps, Results

LEMMA AuditInv ==
    ASSUME LifeInv, NEW c \in Actors, WriteAuditLog(c)
    PROVE  LifeInv'
<1>1. PICK m : m = mem[c]
  OBVIOUS
<1>2. /\ pc[c] = "audit" /\ m \in Memory
      /\ audited' = [audited EXCEPT ![c] = audited[c] \cup {m.to}]
      /\ pc' = [pc EXCEPT ![c] = "answer"]
      /\ UNCHANGED <<revokedAt, revocation, events, mem, answers, now, faults>>
  BY <1>1 DEF WriteAuditLog, Goto, LifeInv, TypeOK
<1>3. mem' = [mem EXCEPT ![c] = m]
  BY <1>1, <1>2 DEF LifeInv, TypeOK
<1>4. m.to \in States
  BY <1>2 DEF Memory
<1>5. /\ audited' \in [Actors -> SUBSET States] /\ audited'[c] = audited[c] \cup {m.to}
      /\ \A j \in Jobs \ {c} : audited[j] \subseteq audited'[j]
  BY <1>2, <1>4 DEF LifeInv, TypeOK, Actors
<1>6. c \in Jobs => JobInOrder(c)
  BY DEF LifeInv
<1>7. c \in Jobs => m.to = "revoked" /\ revokedAt # NoTime /\ revocation # NoTime
  BY <1>1, <1>2, <1>6 DEF JobInOrder
<1>8. m.revokedAt # NoTime => revokedAt = m.revokedAt
  BY <1>1 DEF LifeInv, Keeps
<1>9. answers' \in [Actors -> Results] /\ now' \in Nat /\ faults' \in Nat
  BY <1>2 DEF LifeInv, TypeOK
<1> QED
  BY <1>2, <1>3, <1>5, <1>7, <1>8, <1>9, MoveInv DEF Steps

\* An inserted event is the latest, or leaves the latest as it was.
LEMMA InsertEventInv ==
    ASSUME LifeInv, NEW c \in Actors, InsertEvent(c)
    PROVE  LifeInv'
<1>1. PICK n, m, e :
          /\ n \in Ranks /\ m = mem[c] /\ e = [at |-> m.at, rank |-> n, from |-> m.from, to |-> m.to]
          /\ events' = events \cup {e}
  BY DEF InsertEvent
<1>2. /\ pc[c] = "insertEvent" /\ pc' = [pc EXCEPT ![c] = "audit"]
      /\ UNCHANGED <<revokedAt, revocation, audited, mem, answers, now, faults>>
  BY DEF InsertEvent, Goto
<1>3. m \in Memory /\ Keeps(c)
  BY <1>1 DEF LifeInv, TypeOK
<1>4. e \in Event /\ e.to = m.to /\ e.at = m.at /\ e.rank = n /\ e.at \in Nat /\ e.rank \in Nat
  BY <1>1, <1>3, LifecycleBounds DEF Memory, Event, Times
<1>5. \A f \in events : f.at \in Nat /\ f.rank \in Nat
  BY LifecycleBounds DEF LifeInv, TypeOK, Event, Times
<1>6. mem' = [mem EXCEPT ![c] = m]
  BY <1>1, <1>2 DEF LifeInv, TypeOK
<1>7. TimesStay /\ \A j \in Jobs \ {c} : audited[j] \subseteq audited'[j] /\ answers'[j] = answers[j]
  BY <1>2 DEF TimesStay
<1>8. c \notin Jobs
  BY <1>2 DEF LifeInv, JobInOrder
<1>9. /\ pc'[c] = "audit" /\ mem'[c] = m
      /\ \A d \in Actors \ {c} : Keeps(d)'
      /\ \A j \in Jobs \ {c} : JobInOrder(j)'
  BY <1>2, <1>6, <1>7, OthersStay
<1>10. TypeOK'
  BY <1>1, <1>2, <1>4 DEF LifeInv, TypeOK, Steps
<1>11. LatestExists'
  <2>1. CASE events = {}
    <3>1. events' = {e}
      BY <1>1, <2>1
    <3> QED
      BY <1>4, <3>1 DEF LatestExists, IsLatest
  <2>2. CASE events # {}
    <3>1. PICK l \in events : IsLatest(l)
      BY <2>2 DEF LifeInv, LatestExists
    <3>2. l.at \in Nat /\ l.rank \in Nat
      BY <1>5
    <3>3. CASE e.at < l.at \/ (e.at = l.at /\ e.rank <= l.rank)
      <4>1. \A f \in events' : f.at < l.at \/ (f.at = l.at /\ f.rank <= l.rank)
        BY <1>1, <3>1, <3>3 DEF IsLatest
      <4> QED
        BY <1>1, <3>1, <4>1 DEF LatestExists, IsLatest
    <3>4. CASE l.at < e.at \/ (l.at = e.at /\ l.rank < e.rank)
      <4>1. \A f \in events : f.at < e.at \/ (f.at = e.at /\ f.rank <= e.rank)
        BY <1>4, <1>5, <3>1, <3>2, <3>4 DEF IsLatest
      <4>2. \A f \in events' : f.at < e.at \/ (f.at = e.at /\ f.rank <= e.rank)
        BY <1>1, <1>4, <4>1
      <4> QED
        BY <1>1, <4>2 DEF LatestExists, IsLatest
    <3> QED
      BY <1>4, <3>2, <3>3, <3>4
  <2> QED
    BY <2>1, <2>2
<1>12. EventsFollow' /\ RevocationIsEffective'
  BY <1>1, <1>2, <1>3, <1>4 DEF LifeInv, EventsFollow, RevocationIsEffective, Keeps
<1>13. Keeps(c)'
  BY <1>1, <1>2, <1>3, <1>9 DEF Keeps
<1> QED
  BY <1>8, <1>9, <1>10, <1>11, <1>12, <1>13 DEF LifeInv

LEMMA UpdateInv ==
    ASSUME LifeInv, NEW c \in Actors, UpdateRevokedAt(c)
    PROVE  LifeInv'
<1>1. PICK m : m = mem[c]
  OBVIOUS
<1>2. /\ pc[c] = "update" /\ m \in Memory /\ revokedAt' = RevokedAtUpdated(m.at)
      /\ pc' = [pc EXCEPT ![c] = "insertRow"]
      /\ UNCHANGED <<revocation, events, audited, mem, answers, now, faults>>
  BY <1>1 DEF UpdateRevokedAt, Goto, LifeInv, TypeOK
<1>3. m.at \in Times /\ m.at # NoTime
  BY <1>2, NoTimeIsNone DEF Memory
<1>4. revokedAt' \in Times /\ revokedAt' # NoTime /\ (revokedAt # NoTime => revokedAt' = revokedAt)
  BY <1>2, <1>3, NoTimeIsNone DEF RevokedAtUpdated, LifeInv, TypeOK
<1>5. mem' = [mem EXCEPT ![c] = m]
  BY <1>1, <1>2 DEF LifeInv, TypeOK
<1>6. TimesStay /\ \A j \in Jobs \ {c} : audited[j] \subseteq audited'[j] /\ answers'[j] = answers[j]
  BY <1>2, <1>4 DEF TimesStay
<1>7. /\ pc'[c] = "insertRow" /\ mem'[c] = m
      /\ \A d \in Actors \ {c} : Keeps(d)'
      /\ \A j \in Jobs \ {c} : JobInOrder(j)'
  BY <1>2, <1>5, <1>6, OthersStay
<1>8. TypeOK'
  BY <1>2, <1>4 DEF LifeInv, TypeOK, Steps
<1>9. RevocationIsEffective' /\ LatestExists' /\ EventsFollow'
  BY <1>2, <1>4 DEF LifeInv, RevocationIsEffective, LatestExists, EventsFollow, IsLatest
<1>10. Keeps(c)'
  BY <1>1, <1>4, <1>7 DEF LifeInv, Keeps
<1>11. c \in Jobs => JobInOrder(c)'
  BY <1>1, <1>2, <1>4, <1>7 DEF LifeInv, JobInOrder
<1> QED
  BY <1>7, <1>8, <1>9, <1>10, <1>11 DEF LifeInv

LEMMA InsertRevocationInv ==
    ASSUME LifeInv, NEW c \in Actors, InsertRevocation(c)
    PROVE  LifeInv'
<1>1. PICK m : m = mem[c]
  OBVIOUS
<1>2. /\ pc[c] = "insertRow" /\ m \in Memory
      /\ revocation' = IF revocation # NoTime THEN revocation
                       ELSE IF m.revokedAt # NoTime THEN m.revokedAt ELSE m.at
      /\ UNCHANGED <<revokedAt, events, audited, now, faults>>
  BY <1>1 DEF InsertRevocation, LifeInv, TypeOK
<1>3. revokedAt # NoTime /\ (m.revokedAt # NoTime => revokedAt = m.revokedAt)
  BY <1>1, <1>2 DEF LifeInv, Keeps
<1>4. m.at \in Times /\ m.at # NoTime /\ m.revokedAt \in Times \cup {NoTime}
  BY <1>2, NoTimeIsNone DEF Memory
<1>5. revocation' \in Times /\ revocation' # NoTime /\ TimesStay
  BY <1>2, <1>4, NoTimeIsNone DEF LifeInv, TypeOK, TimesStay
<1>6. ASSUME NEW place \in {"idle", "insertEvent", "audit"}, NEW after \in Memory,
             pc' = [pc EXCEPT ![c] = place], mem' = [mem EXCEPT ![c] = after],
             answers' \in [Actors -> Results], \A j \in Jobs : answers'[j] = answers[j],
             after.revokedAt # NoTime => revokedAt = after.revokedAt,
             c \in Jobs => place = "audit" /\ after = m
      PROVE  LifeInv'
  <2>1. \A j \in Jobs \ {c} : audited[j] \subseteq audited'[j] /\ answers'[j] = answers[j]
    BY <1>2, <1>6
  <2>2. /\ pc'[c] = place /\ mem'[c] = after
        /\ \A d \in Actors \ {c} : Keeps(d)'
        /\ \A j \in Jobs \ {c} : JobInOrder(j)'
    BY <1>5, <1>6, <2>1, OthersStay
  <2>3. TypeOK'
    BY <1>2, <1>5, <1>6 DEF LifeInv, TypeOK, Steps
  <2>4. RevocationIsEffective' /\ LatestExists' /\ EventsFollow'
    BY <1>2, <1>3 DEF LifeInv, RevocationIsEffective, LatestExists, EventsFollow, IsLatest
  <2>5. Keeps(c)'
    BY <1>2, <1>3, <1>6, <2>2 DEF Keeps
  <2>6. c \in Jobs => JobInOrder(c)'
    <3>1. c \in Jobs => JobInOrder(c) /\ m.to = "revoked"
      BY <1>1, <1>2 DEF LifeInv, JobInOrder
    <3> QED
      BY <1>2, <1>3, <1>5, <1>6, <2>2, <3>1 DEF JobInOrder
  <2> QED
    BY <2>2, <2>3, <2>4, <2>5, <2>6 DEF LifeInv
<1>7. CASE c \in Callers /\ m.revokedAt # NoTime
  <2>1. /\ pc' = [pc EXCEPT ![c] = "idle"] /\ mem' = [mem EXCEPT ![c] = NoMemory]
        /\ answers' = [answers EXCEPT ![c] = "already"]
    BY <1>1, <1>7 DEF InsertRevocation, Reply, Leave, Goto
  <2>2. c \notin Jobs
    BY <1>7, ActorsAssumption
  <2>3. answers' \in [Actors -> Results] /\ \A j \in Jobs : answers'[j] = answers[j]
    BY <2>1, <2>2 DEF LifeInv, TypeOK, Actors, Results
  <2> QED
    BY <1>6, <2>1, <2>2, <2>3, NoMemoryFits
<1>8. CASE ~ (c \in Callers /\ m.revokedAt # NoTime)
  <2>1. Proceed(c, AfterRevoking(c), m)
    BY <1>1, <1>8 DEF InsertRevocation
  <2>2. PICK place : place = AfterRevoking(c)
    OBVIOUS
  <2>3. place \in {"insertEvent", "audit"} /\ (c \in Jobs => place = "audit")
    BY <2>2 DEF AfterRevoking
  <2>4. pc' = [pc EXCEPT ![c] = place] /\ mem' = [mem EXCEPT ![c] = m] /\ answers' = answers
    BY <2>1, <2>2 DEF Proceed, Goto
  <2>5. answers' \in [Actors -> Results] /\ \A j \in Jobs : answers'[j] = answers[j]
    BY <2>4 DEF LifeInv, TypeOK
  <2> QED
    BY <1>2, <1>3, <1>6, <2>3, <2>4, <2>5
<1> QED
  BY <1>7, <1>8

LEMMA NextLife ==
    ASSUME LifeInv, Next \/ UNCHANGED vars
    PROVE  LifeInv'
<1>1. CASE UNCHANGED vars \/ AllOver
  <2>1. UNCHANGED vars
    BY <1>1 DEF AllOver
  <2>2. TypeOK'
    BY <2>1 DEF LifeInv, TypeOK, vars
  <2>3. RevocationIsEffective' /\ LatestExists' /\ EventsFollow'
    BY <2>1 DEF LifeInv, RevocationIsEffective, LatestExists, EventsFollow, IsLatest, vars
  <2>4. (\A c \in Actors : Keeps(c)') /\ (\A j \in Jobs : JobInOrder(j)')
    BY <2>1 DEF LifeInv, Keeps, JobInOrder, vars
  <2> QED
    BY <2>2, <2>3, <2>4 DEF LifeInv
<1>2. CASE \E c \in Callers : \E to \in States, at \in {now + 1} \cup ClientTimes :
               BeginTransition(c, to, at)
  BY <1>2, BeginTransitionInv
<1>3. CASE \E j \in Jobs : BeginJob(j)
  BY <1>3, BeginJobInv
<1>4. CASE \E c \in Actors : Step(c) \/ Fault(c)
  BY <1>4, ReadInv, DecideInv, InsertEventInv, UpdateInv, InsertRevocationInv, AuditInv,
     FinishInv, FaultInv DEF Step
<1> QED
  BY <1>1, <1>2, <1>3, <1>4 DEF Next

\* The life of an assertion keeps its invariant in every reachable state.
THEOREM LifeInvariance == Spec => []LifeInv
<1>1. LifeInv /\ [Next]_vars => LifeInv'
  BY NextLife
<1> QED
  BY <1>1, InitLife, PTL DEF Spec

\* The rows that the statements of a revocation write agree in every state, and a
\* revoke_badge job that ends as completed has written all of them, however many
\* transitions and deliveries overlap or are lost.
THEOREM RevocationsHold == Spec => []RevocationHolds
<1>1. LifeInv => RevocationHolds
  BY DEF LifeInv, RevocationHolds, CompletedJobRevoked, JobInOrder
<1> QED
  BY <1>1, LifeInvariance, PTL

\* No UPDATE of revoked_at or INSERT of a revocation writes over an earlier one.
LEMMA TimesAreKept ==
    ASSUME LifeInv, Next \/ UNCHANGED vars
    PROVE  TimesStay
<1>1. ASSUME NEW c \in Actors, UpdateRevokedAt(c)
      PROVE  TimesStay
  BY <1>1 DEF UpdateRevokedAt, RevokedAtUpdated, TimesStay
<1>2. ASSUME NEW c \in Actors, InsertRevocation(c)
      PROVE  TimesStay
  BY <1>2 DEF InsertRevocation, TimesStay
<1>3. CASE UNCHANGED <<revokedAt, revocation>>
  BY <1>3 DEF TimesStay
<1> QED
  BY <1>1, <1>2, <1>3
  DEF Next, vars, AllOver, BeginTransition, BeginJob, Step, Fault, ReadAssertion, ReadAgain,
      ReadEventAndDecide, InsertEvent, WriteAuditLog, Finish

LEMMA StepIsFinal ==
    ASSUME LifeInv, Next \/ UNCHANGED vars
    PROVE  (State = "revoked" => State' = "revoked") /\ (revokedAt # NoTime => revokedAt' = revokedAt)
<1>1. TimesStay /\ LifeInv'
  BY TimesAreKept, NextLife
<1>2. State = "revoked" => revokedAt # NoTime
  BY StateMeansTime
<1>3. revokedAt' # NoTime => State' = "revoked"
  BY DEF State, StateFrom
<1> QED
  BY <1>1, <1>2, <1>3 DEF TimesStay

\* No event, backdated or late, brings a revoked assertion back, and the time of its
\* revocation is written once.
THEOREM RevocationIsFinal == Spec => RevokedIsFinal
<1>1. LifeInv /\ [Next]_vars =>
          [/\ State = "revoked" => State' = "revoked"
           /\ revokedAt # NoTime => revokedAt' = revokedAt]_vars
  BY StepIsFinal
<1> QED
  BY <1>1, LifeInvariance, PTL DEF Spec, RevokedIsFinal

-----------------------------------------------------------------------------
(* Callers that come one at a time, and give no times, beside any jobs.      *)

OneCaller == \A c, d \in Callers : pc[c] # "idle" /\ pc[d] # "idle" => c = d

Judged == {"readAgain", "update", "insertRow", "insertEvent"}
Unwritten == Judged \cup {"readAssertion", "readEvent"}

\* A caller's event will be the latest, and it goes from the state that is.
CallerFits(c) ==
    /\ pc[c] \in Unwritten => mem[c].at <= now /\ \A e \in events : e.at < mem[c].at
    /\ pc[c] \in Judged => mem[c].to \in Allowed[mem[c].from] /\ LatestState = mem[c].from
    /\ pc[c] \in {"audit", "answer"} => LatestState = mem[c].to

CallerInv ==
    /\ LifeInv
    /\ \A e \in events : e.at <= now
    /\ \A c \in Callers : CallerFits(c)

Effects == FollowsRules /\ TakesEffect

LEMMA EventTimes ==
    ASSUME LifeInv
    PROVE  /\ now \in Nat /\ \A e \in events : e.at \in Nat /\ e.rank \in Nat
           /\ \A c \in Actors : mem[c] \in Memory /\ mem[c].at \in Nat
  BY LifecycleBounds DEF LifeInv, TypeOK, Event, Times, Memory

LEMMA CallerIsActor == \A c \in Callers : c \in Actors /\ c \notin Jobs
  BY ActorsAssumption DEF Actors

\* An actor moves and writes no event: of a caller, what it goes on with fits.
LEMMA CallerDone ==
    ASSUME CallerInv, LifeInv', NEW a \in Actors, UNCHANGED events, now' \in Nat, now <= now',
           \A d \in Callers \ {a} : pc'[d] = pc[d] /\ mem'[d] = mem[d],
           a \in Callers => CallerFits(a)'
    PROVE  CallerInv'
<1>1. LatestState' = LatestState
  BY DEF LatestState, IsLatest
<1>2. ASSUME NEW d \in Callers \ {a} PROVE CallerFits(d)'
  <2>1. CallerFits(d) /\ mem[d].at \in Nat /\ now \in Nat
    BY EventTimes, CallerIsActor DEF CallerInv
  <2> QED
    BY <1>1, <2>1 DEF CallerFits
<1>3. \A e \in events' : e.at <= now'
  BY EventTimes DEF CallerInv
<1> QED
  BY <1>2, <1>3 DEF CallerInv

LEMMA SameState ==
    ASSUME UNCHANGED <<revokedAt, events>>
    PROVE  State' = State /\ FollowsRules
<1>1. LatestState' = LatestState
  BY DEF LatestState, IsLatest
<1> QED
  BY <1>1 DEF State, StateFrom, FollowsRules

\* Who answers "transitioned" is a caller whose event is the latest.
LEMMA AnsweredTakesEffect ==
    ASSUME CallerInv
    PROVE  TakesEffect
<1> SUFFICES ASSUME NEW c \in Callers, pc[c] = "answer" PROVE State \in {mem[c].to, "revoked"}
  BY DEF TakesEffect
<1>1. LatestState = mem[c].to
  BY DEF CallerInv, CallerFits
<1> QED
  BY <1>1 DEF State, StateFrom

LEMMA BeginTransitionOne ==
    ASSUME CallerInv, LifeInv', OneCaller', ClientTimes = {},
           NEW c \in Callers, NEW to \in States, NEW at \in {now + 1} \cup ClientTimes,
           BeginTransition(c, to, at)
    PROVE  CallerInv' /\ FollowsRules
<1>1. /\ pc' = [pc EXCEPT ![c] = "readAssertion"] /\ now' = now + 1
      /\ mem' = [mem EXCEPT ![c] = [NoMemory EXCEPT !.to = to, !.at = now + 1]]
      /\ UNCHANGED <<revokedAt, events>>
  BY DEF BeginTransition, Goto
<1>2. c \in Actors /\ now \in Nat
  BY CallerIsActor, EventTimes DEF CallerInv
<1>3. /\ pc'[c] = "readAssertion" /\ mem'[c].at = now + 1
      /\ \A d \in Callers \ {c} : pc'[d] = pc[d] /\ mem'[d] = mem[d]
  BY <1>1, <1>2, CallerIsActor DEF CallerInv, LifeInv, TypeOK, NoMemory
<1>4. CallerFits(c)'
  BY <1>1, <1>2, <1>3, EventTimes DEF CallerFits, CallerInv, Unwritten, Judged
<1> QED
  BY <1>1, <1>2, <1>3, <1>4, CallerDone, SameState

\* The steps that write neither revoked_at nor an event
LEMMA QuietOne ==
    ASSUME CallerInv, LifeInv', NEW c \in Actors,
           (\E j \in Jobs : c = j /\ BeginJob(j)) \/ ReadAssertion(c) \/ ReadAgain(c)
               \/ InsertRevocation(c) \/ WriteAuditLog(c) \/ Finish(c) \/ Fault(c)
    PROVE  CallerInv' /\ FollowsRules
<1>1. /\ UNCHANGED <<revokedAt, events>> /\ (now' = now \/ now' = now + 1)
      /\ \A d \in Actors \ {c} : pc'[d] = pc[d] /\ mem'[d] = mem[d]
  BY DEF BeginJob, ReadAssertion, ReadAgain, InsertRevocation, WriteAuditLog, Finish, Fault, Reply,
     Leave, Proceed, Goto, CallerInv, LifeInv, TypeOK
<1>2. now \in Nat /\ (\A d \in Callers : d \in Actors) /\ mem[c] \in Memory
  BY CallerIsActor, EventTimes DEF CallerInv
<1>3. LatestState' = LatestState
  BY <1>1 DEF LatestState, IsLatest
<1>4. ASSUME c \in Callers PROVE CallerFits(c)'
  <2>1. CallerFits(c) /\ c \notin Jobs
    BY <1>4, CallerIsActor DEF CallerInv
  <2>2. CASE ReadAssertion(c)
    <3>1. /\ pc[c] = "readAssertion" /\ pc'[c] = "readEvent" /\ now' = now
          /\ mem'[c].at = mem[c].at
      BY <1>2, <2>2 DEF ReadAssertion, Goto, CallerInv, LifeInv, TypeOK, Memory
    <3> QED
      BY <1>1, <2>1, <3>1 DEF CallerFits, Unwritten, Judged
  <2>3. CASE ReadAgain(c)
    <3>1. /\ pc[c] = "readAgain" /\ pc'[c] \in {"update", "insertRow"} /\ now' = now
          /\ mem'[c].at = mem[c].at /\ mem'[c].to = mem[c].to /\ mem'[c].from = mem[c].from
      BY <1>2, <2>3 DEF ReadAgain, AfterReadAgain, Goto, CallerInv, LifeInv, TypeOK, Memory
    <3> QED
      BY <1>1, <1>3, <2>1, <3>1 DEF CallerFits, Unwritten, Judged
  <2>4. CASE InsertRevocation(c)
    <3>1. pc[c] = "insertRow" /\ now' = now
          /\ (pc'[c] = "idle" \/ (pc'[c] = "insertEvent" /\ mem'[c] = mem[c]))
      BY <1>2, <2>1, <2>4 DEF InsertRevocation, AfterRevoking, Reply, Leave, Proceed, Goto, CallerInv, LifeInv, TypeOK
    <3> QED
      BY <1>1, <1>3, <2>1, <3>1 DEF CallerFits, Unwritten, Judged
  <2>5. CASE WriteAuditLog(c)
    <3>1. pc[c] = "audit" /\ pc'[c] = "answer" /\ mem'[c] = mem[c]
      BY <1>2, <2>5 DEF WriteAuditLog, Goto, CallerInv, LifeInv, TypeOK
    <3> QED
      BY <1>3, <2>1, <3>1 DEF CallerFits, Unwritten, Judged
  <2>6. CASE Finish(c) \/ Fault(c)
    <3>1. pc'[c] = "idle"
      BY <2>6 DEF Finish, Fault, Reply, Leave, Goto, CallerInv, LifeInv, TypeOK
    <3> QED
      BY <3>1 DEF CallerFits, Unwritten, Judged
  <2> QED
    BY <2>1, <2>2, <2>3, <2>4, <2>5, <2>6
<1>5. CallerInv'
  BY <1>1, <1>2, <1>4, CallerDone
<1> QED
  BY <1>1, <1>5, SameState

LEMMA DecideOne ==
    ASSUME CallerInv, LifeInv', NEW c \in Actors, ReadEventAndDecide(c)
    PROVE  CallerInv' /\ FollowsRules
<1>1. /\ UNCHANGED <<revokedAt, events, now>> /\ pc[c] = "readEvent"
      /\ \A d \in Actors \ {c} : pc'[d] = pc[d] /\ mem'[d] = mem[d]
  BY DEF ReadEventAndDecide, Reply, Leave, Proceed, Goto, CallerInv, LifeInv, TypeOK
<1>2. now \in Nat /\ (\A d \in Callers : d \in Actors) /\ mem[c] \in Memory
  BY CallerIsActor, EventTimes DEF CallerInv
<1>3. LatestState' = LatestState
  BY <1>1 DEF LatestState, IsLatest
<1>4. ASSUME c \in Callers PROVE CallerFits(c)'
  <2>1. PICK current, to : current = StateFrom(mem[c].revokedAt, LatestState) /\ to = mem[c].to
    OBVIOUS
  <2>2. CASE pc'[c] = "idle"
    BY <2>2 DEF CallerFits, Unwritten, Judged
  <2>3. CASE pc'[c] # "idle"
    <3>1. /\ to \in Allowed[current]
          /\ Proceed(c, IF to = "revoked" THEN "readAgain" ELSE "insertEvent", [mem[c] EXCEPT !.from = current])
      BY <2>1, <2>3 DEF ReadEventAndDecide, Permitted, Reply, Leave, Goto, CallerInv, LifeInv, TypeOK
    <3>2. /\ pc'[c] \in {"readAgain", "insertEvent"} /\ mem'[c].from = current
          /\ mem'[c].to = to /\ mem'[c].at = mem[c].at
      BY <1>2, <2>1, <3>1 DEF Proceed, Goto, CallerInv, LifeInv, TypeOK, Memory
    <3>3. current = LatestState
      <4>1. Allowed["revoked"] = {}
        BY DEF Allowed, States
      <4> QED
        BY <2>1, <3>1, <4>1 DEF StateFrom
    <3>4. CallerFits(c)
      BY <1>4 DEF CallerInv
    <3> QED
      BY <1>1, <1>3, <2>1, <3>1, <3>2, <3>3, <3>4 DEF CallerFits, Unwritten, Judged
  <2> QED
    BY <2>2, <2>3
<1>5. CallerInv'
  BY <1>1, <1>2, <1>4, CallerDone
<1> QED
  BY <1>1, <1>5, SameState

LEMMA UpdateOne ==
    ASSUME CallerInv, LifeInv', NEW c \in Actors, UpdateRevokedAt(c)
    PROVE  CallerInv' /\ FollowsRules
<1>1. /\ UNCHANGED <<events, now, mem>> /\ pc[c] = "update" /\ pc'[c] = "insertRow"
      /\ \A d \in Actors \ {c} : pc'[d] = pc[d]
  BY DEF UpdateRevokedAt, Goto, CallerInv, LifeInv, TypeOK
<1>2. now \in Nat /\ \A d \in Callers : d \in Actors
  BY CallerIsActor, EventTimes DEF CallerInv
<1>3. LatestState' = LatestState
  BY <1>1 DEF LatestState, IsLatest
<1>4. ASSUME c \in Callers PROVE CallerFits(c)'
  <2>1. CallerFits(c)
    BY <1>4 DEF CallerInv
  <2> QED
    BY <1>1, <1>3, <2>1 DEF CallerFits, Unwritten, Judged
<1>5. CallerInv'
  BY <1>1, <1>2, <1>4, CallerDone
<1>6. FollowsRules
  <2>1. State \in States /\ (State # "revoked" => "revoked" \in Allowed[State])
    BY StateMeansTime DEF CallerInv, Allowed, States
  <2>2. State' = State \/ State' = "revoked"
    BY <1>3 DEF State, StateFrom, UpdateRevokedAt, RevokedAtUpdated
  <2> QED
    BY <2>1, <2>2 DEF FollowsRules
<1> QED
  BY <1>5, <1>6

LEMMA InsertEventOne ==
    ASSUME CallerInv, LifeInv', OneCaller, NEW c \in Actors, InsertEvent(c)
    PROVE  CallerInv' /\ FollowsRules
<1>1. /\ UNCHANGED <<revokedAt, now, mem>> /\ pc[c] = "insertEvent" /\ pc'[c] = "audit"
      /\ \A d \in Actors \ {c} : pc'[d] = pc[d]
  BY DEF InsertEvent, Goto, CallerInv, LifeInv, TypeOK
<1>2. c \in Callers /\ CallerFits(c)
  BY <1>1 DEF CallerInv, LifeInv, JobInOrder, Actors
<1>3. PICK n, m, e :
          /\ n \in Ranks /\ m = mem[c] /\ e = [at |-> m.at, rank |-> n, from |-> m.from, to |-> m.to]
          /\ events' = events \cup {e}
  BY DEF InsertEvent
<1>4. /\ e.at = m.at /\ e.to = m.to /\ e.rank = n /\ n \in Nat /\ m.at \in Nat /\ now \in Nat
      /\ \A f \in events : f.at \in Nat
  BY <1>3, EventTimes, LifecycleBounds DEF CallerInv
<1>5. m.at <= now /\ (\A f \in events : f.at < e.at) /\ m.to \in Allowed[m.from] /\ LatestState = m.from
  BY <1>1, <1>2, <1>3, <1>4 DEF CallerFits, Unwritten, Judged
<1>6. IsLatest(e)'
  BY <1>3, <1>4, <1>5 DEF IsLatest
<1>7. ASSUME NEW f \in events', IsLatest(f)' PROVE f = e
  <2>1. e.at < f.at \/ e.at = f.at
    BY <1>3, <1>7 DEF IsLatest
  <2>2. f \in events => f.at < e.at /\ f.at \in Nat
    BY <1>4, <1>5
  <2> QED
    BY <1>3, <1>4, <2>1, <2>2
<1>8. LatestState' = m.to
  <2>1. PICK l : l = CHOOSE f \in events' : IsLatest(f)'
    OBVIOUS
  <2>2. l = e
    BY <1>3, <1>6, <1>7, <2>1
  <2>3. events' # {}
    BY <1>3
  <2> QED
    BY <1>4, <2>1, <2>2, <2>3 DEF LatestState
<1>9. ASSUME NEW d \in Callers PROVE CallerFits(d)'
  <2>1. CASE d = c
    BY <1>1, <1>3, <1>8, <2>1 DEF CallerFits, Unwritten, Judged
  <2>2. CASE d # c
    <3>1. pc'[d] = "idle"
      BY <1>1, <1>2, <2>2, CallerIsActor DEF OneCaller
    <3> QED
      BY <3>1 DEF CallerFits, Unwritten, Judged
  <2> QED
    BY <2>1, <2>2
<1>10. \A f \in events' : f.at <= now'
  BY <1>1, <1>3, <1>4, <1>5 DEF CallerInv
<1>11. FollowsRules
  BY <1>1, <1>5, <1>8 DEF FollowsRules, State, StateFrom
<1> QED
  BY <1>9, <1>10, <1>11 DEF CallerInv

LEMMA NextOne ==
    ASSUME CallerInv, OneCaller, OneCaller', ClientTimes = {}, [Next]_vars
    PROVE  CallerInv' /\ Effects
<1>1. LifeInv'
  BY NextLife DEF CallerInv
<1>2. TakesEffect
  BY AnsweredTakesEffect
<1>3. CallerInv' /\ FollowsRules
  <2>1. CASE UNCHANGED vars \/ AllOver
    <3>1. UNCHANGED <<revokedAt, events, pc, mem, now>>
      BY <2>1 DEF AllOver, vars
    <3>2. LatestState' = LatestState
      BY <3>1 DEF LatestState, IsLatest
    <3>3. ASSUME NEW c \in Callers PROVE CallerFits(c)'
      BY <3>1, <3>2 DEF CallerInv, CallerFits
    <3> QED
      BY <1>1, <3>1, <3>3, SameState DEF CallerInv
  <2>2. CASE \E c \in Callers : \E to \in States, at \in {now + 1} \cup ClientTimes :
                 BeginTransition(c, to, at)
    BY <1>1, <2>2, BeginTransitionOne
  <2>3. ASSUME NEW j \in Jobs, BeginJob(j) PROVE CallerInv' /\ FollowsRules
    BY <1>1, <2>3, QuietOne DEF Actors
  <2>4. ASSUME NEW c \in Actors, Step(c) \/ Fault(c) PROVE CallerInv' /\ FollowsRules
    BY <1>1, <2>4, QuietOne, DecideOne, UpdateOne, InsertEventOne DEF Step
  <2> QED
    BY <2>1, <2>2, <2>3, <2>4 DEF Next
<1> QED
  BY <1>2, <1>3 DEF Effects

\* As long as callers come one at a time and give no transitionedAt, beside any number of
\* deliveries of revoke_badge jobs and whatever is lost, the state of an assertion changes only
\* along the allowed transitions, and a caller finds the state it was told of, or a revocation
\* (recordAssertionLifecycleTransition, ASSERTION_LIFECYCLE_ALLOWED_TRANSITIONS).
THEOREM OneCallerIsServed ==
    ASSUME ClientTimes = {}
    PROVE  Spec /\ []OneCaller => [][FollowsRules /\ TakesEffect]_vars
<1>1. Init => CallerInv
  BY InitLife DEF Init, CallerInv, CallerFits, Unwritten, Judged, Actors
<1>2. CallerInv /\ OneCaller /\ OneCaller' /\ [Next]_vars => CallerInv' /\ [FollowsRules /\ TakesEffect]_vars
  BY NextOne DEF Effects
<1> QED
  BY <1>1, <1>2, PTL DEF Spec

-----------------------------------------------------------------------------
(* The status list.                                                          *)

LEMMA PlaceTells ==
    ASSUME NEW i \in Nat, NEW j \in Nat, Place(i) = Place(j)
    PROVE  i = j
<1>1. i \div 8 = j \div 8 /\ i % 8 = j % 8
  BY DEF Place
<1> QED
  BY <1>1

\* What is decoded at the index of an entry is what was encoded of it, whatever other
\* entries the list holds, as long as none has its index.
LEMMA DecodedAsEncoded ==
    ASSUME NEW entries \in SUBSET Entry, NEW e \in entries,
           \A f \in entries : f.index = e.index => f = e
    PROVE  Decode(Encode(entries), e.index) = IF e.revoked THEN "revoked" ELSE "clear"
<1> DEFINE list == Encode(entries)
<1>1. e.index \in Nat /\ e.index \div 8 \in Nat
  BY DEF Entry
<1>2. e.index \div 8 \in list.bytes
  <2>1. e.index \div 8 \in 0 .. (e.index \div 8)
    BY <1>1
  <2> QED
    BY <2>1 DEF Encode, Bytes
<1>3. Place(e.index) \in list.bits <=> e.revoked
  <2>1. list.bits = {Place(f.index) : f \in {g \in entries : g.revoked}}
    BY DEF Encode
  <2>2. ASSUME NEW f \in entries, Place(f.index) = Place(e.index)
        PROVE  f = e
    <3>1. f.index \in Nat
      BY DEF Entry
    <3> QED
      BY <1>1, <2>2, <3>1, PlaceTells
  <2> QED
    BY <2>1, <2>2
<1> QED
  BY <1>2, <1>3 DEF Decode

\* The list that is built from the rows says of the assertion what its row does.
LEMMA ListTells ==
    ASSUME LifeInv, revokedOthers \subseteq Others
    PROVE  Decode(Encode(Entries), Index) = IF revokedAt # NoTime THEN "revoked" ELSE "clear"
<1>1. PICK e : e = [index |-> Index, revoked |-> revokedAt # NoTime]
  OBVIOUS
<1>2. e \in Entries /\ e.index = Index /\ e.revoked = (revokedAt # NoTime)
  BY <1>1 DEF Entries
<1>3. Entries \in SUBSET Entry
  <2>1. ASSUME NEW i \in Nat, NEW b \in BOOLEAN
        PROVE  [index |-> i, revoked |-> b] \in Entry
    BY DEF Entry
  <2>2. (revokedAt # NoTime) \in BOOLEAN /\ \A o : (o \in revokedOthers) \in BOOLEAN
    OBVIOUS
  <2>3. [index |-> Index, revoked |-> revokedAt # NoTime] \in Entry
    BY <2>1, <2>2, IndexesAssumption
  <2>4. \A o \in Others : [index |-> o, revoked |-> o \in revokedOthers] \in Entry
    BY <2>1, <2>2, IndexesAssumption
  <2> QED
    BY <2>3, <2>4 DEF Entries
<1>4. \A f \in Entries : f.index = e.index => f = e
  BY <1>1, <1>2, IndexesAssumption DEF Entries
<1> QED
  BY <1>2, <1>3, <1>4, DecodedAsEncoded

-----------------------------------------------------------------------------
(* What verifiers are told: the inductive invariant, in named parts.         *)

\* The key a credential was signed with is in use, or was kept when it was replaced.
KeyKept == SignedWith \in {ActiveKey} \cup history

\* What a verifier has read was so when it read it, and where it was revoked it still
\* is; and the states it could have seen are among those observed.
Tallies(place, m, states) ==
    /\ place # "idle" => State \in states
    /\ \/ m.wasRevoked \/ m.row # NoTime \/ m.read # NoTime
       \/ m.lifecycle = "revoked" \/ m.listed = "revoked"
       => revokedAt # NoTime
    /\ m.kind = "present" => place \in {"idle", "list", "proof"}
    /\ m.kind = "document" => place \in {"idle", "loadRow", "loadAssertion", "loadEvent"}
    /\ place = "loadEvent" /\ m.read = NoTime =>
           ~ m.wasRevoked /\ \E s \in states : s # "revoked"
    /\ place \in {"record", "list", "proof"} /\ m.kind # "present" =>
           /\ m.wasRevoked => m.lifecycle = "revoked"
           /\ \A s \in States : states = {s} => m.lifecycle = s
    /\ place = "proof" /\ m.kind = "present" /\ m.wasRevoked => m.listed # "clear"

ViewHolds(v) == Tallies(vpc[v], view[v], seen[v])

AnswerFits(a) ==
    /\ a \in Shown
    /\ a.proof # "invalid"
    /\ a.listed = "revoked" => a.status \in {"revoked", "invalid"}
    /\ a.lifecycle # "active" => a.status \in {a.lifecycle, "revoked"}
    /\ a.revokedAt # NoTime => a.status = "revoked"

VerifyInv ==
    /\ LifeInv
    /\ VerifyTypeOK
    /\ KeyKept
    /\ \A v \in Verifiers : AnswerFits(shown[v])
    /\ \A v \in Verifiers : ViewHolds(v)

-----------------------------------------------------------------------------

\* What a step of the assertion or of one verifier does for the others.
LEMMA StateNext ==
    LifeInv' => State' \in States /\ (State' = "revoked" <=> revokedAt' # NoTime)
<1>1. (LifeInv => State \in States /\ (State = "revoked" <=> revokedAt # NoTime))'
  BY StateMeansTime, PTL
<1> QED
  BY <1>1 DEF States

LEMMA ViewStays ==
    ASSUME VerifyInv, LifeInv', TimesStay, Observe, NEW v \in Verifiers,
           vpc'[v] = vpc[v], view'[v] = view[v]
    PROVE  ViewHolds(v)'
<1>1. PICK m, place : m = view[v] /\ place = vpc[v]
  OBVIOUS
<1>2. m = view'[v] /\ place = vpc'[v]
  BY <1>1
<1>3. seen'[v] = IF place = "idle" THEN {} ELSE seen[v] \cup {State, State'}
  BY <1>2 DEF Observe
<1>4. ViewHolds(v) /\ (revokedAt # NoTime => revokedAt' # NoTime)
  BY DEF VerifyInv, TimesStay
<1>5. place # "idle" => State \in seen[v]
  BY <1>1, <1>4 DEF ViewHolds, Tallies
<1>6. place # "idle" => \A s \in States : seen'[v] = {s} => seen[v] = {s}
  BY <1>3, <1>5
<1>7. Tallies(place, m, seen[v])
  BY <1>1, <1>4 DEF ViewHolds
<1>8. PICK states, after : states = seen[v] /\ after = seen'[v]
  OBVIOUS
<1>9. place # "idle" => State' \in after /\ states \subseteq after
  BY <1>3, <1>8
<1>10. place # "idle" => \A s \in States : after = {s} => states = {s}
  BY <1>6, <1>8
<1>11. Tallies(place, m, after)'
  BY <1>4, <1>7, <1>8, <1>9, <1>10 DEF Tallies
<1> QED
  BY <1>2, <1>8, <1>11 DEF ViewHolds

LEMMA SeenFits ==
    ASSUME VerifyInv, LifeInv', Observe
    PROVE  seen' \in [Verifiers -> SUBSET States]
<1>1. State \in States /\ State' \in States
  BY StateMeansTime, StateNext DEF VerifyInv
<1> QED
  BY <1>1 DEF Observe, VerifyInv, VerifyTypeOK

\* One verifier moves, and is perhaps told something.
LEMMA VerifierMoves ==
    ASSUME VerifyInv, LifeInv', TimesStay, Observe, NEW v \in Verifiers, NEW place \in VerifySteps,
           NEW m \in View, NEW a, AnswerFits(a), ViewHolds(v)',
           vpc' = [vpc EXCEPT ![v] = place], view' = [view EXCEPT ![v] = m],
           shown' = shown \/ shown' = [shown EXCEPT ![v] = a],
           UNCHANGED <<revokedOthers, keyVars>>, views' \in Nat
    PROVE  VerifyInv'
<1>1. \A w \in Verifiers \ {v} : vpc'[w] = vpc[w] /\ view'[w] = view[w]
  BY DEF VerifyInv, VerifyTypeOK
<1>2. \A w \in Verifiers : ViewHolds(w)'
  BY <1>1, ViewStays
<1>3. \A w \in Verifiers : shown'[w] = shown[w] \/ shown'[w] = a
  BY DEF VerifyInv, VerifyTypeOK
<1>4. \A w \in Verifiers : AnswerFits(shown'[w])
  BY <1>3 DEF VerifyInv
<1>5. shown' \in [Verifiers -> Shown]
  BY DEF VerifyInv, VerifyTypeOK, AnswerFits
<1>6. VerifyTypeOK'
  BY <1>5, SeenFits DEF VerifyInv, VerifyTypeOK, LifeInv, keyVars
<1>7. KeyKept'
  BY DEF VerifyInv, KeyKept, ActiveKey, keyVars
<1> QED
  BY <1>2, <1>4, <1>6, <1>7 DEF VerifyInv

\* No verifier moves.
LEMMA NobodyMoves ==
    ASSUME VerifyInv, LifeInv', TimesStay, Observe,
           UNCHANGED <<vpc, view, views, shown>>, KeyKept', revokedOthers' \subseteq Others,
           registration' \in Keys \cup {NoKey}, history' \subseteq Keys
    PROVE  VerifyInv'
<1>1. \A w \in Verifiers : ViewHolds(w)'
  BY ViewStays
<1>2. VerifyTypeOK'
  BY SeenFits DEF VerifyInv, VerifyTypeOK, LifeInv
<1> QED
  BY <1>1, <1>2 DEF VerifyInv

\* A verifier changes nothing of the assertion, but asking takes its time.
LEMMA LifeUntouched ==
    ASSUME LifeInv, UNCHANGED <<revokedAt, revocation, events, audited, pc, mem, answers, faults>>,
           now' \in Nat
    PROVE  LifeInv' /\ TimesStay /\ State' = State
<1>1. TypeOK'
  BY DEF LifeInv, TypeOK
<1>2. RevocationIsEffective' /\ LatestExists' /\ EventsFollow'
  BY DEF LifeInv, RevocationIsEffective, LatestExists, EventsFollow, IsLatest
<1>3. (\A c \in Actors : Keeps(c)') /\ (\A j \in Jobs : JobInOrder(j)')
  BY DEF LifeInv, Keeps, JobInOrder
<1>4. State' = State
  BY DEF State, StateFrom, LatestState, IsLatest
<1> QED
  BY <1>1, <1>2, <1>3, <1>4 DEF LifeInv, TimesStay

LEMMA NoAnswerFits == AnswerFits(NoAnswer) /\ NoView \in View /\ NoView.at # NoTime
  BY DEF AnswerFits, NoAnswer, Shown, States, Listings, NoView, View, Kinds, Times, NoTime

LEMMA InitVerify == VerifyInit => VerifyInv
<1> SUFFICES ASSUME VerifyInit
             PROVE  VerifyInv
  OBVIOUS
<1>1. LifeInv
  BY InitLife DEF VerifyInit
<1>2. VerifyTypeOK
  BY <1>1, NoAnswerFits DEF VerifyInit, VerifyTypeOK, LifeInv, VerifySteps, AnswerFits
<1>3. KeyKept
  BY DEF VerifyInit, KeyKept, SignedWith, ActiveKey
<1>4. \A v \in Verifiers : ViewHolds(v)
  BY DEF VerifyInit, ViewHolds, Tallies, NoView
<1> QED
  BY <1>1, <1>2, <1>3, <1>4, NoAnswerFits DEF VerifyInv, VerifyInit

LEMMA AskInv ==
    ASSUME VerifyInv, Observe, NEW v \in Verifiers, NEW kind \in Kinds, NEW clean \in BOOLEAN,
           Ask(v, kind, clean)
    PROVE  VerifyInv' /\ TimesStay
<1>1. PICK was \in BOOLEAN : was = (State = "revoked")
  OBVIOUS
<1>2. PICK m, place :
          /\ m = [NoView EXCEPT !.kind = kind, !.clean = clean, !.at = now + 1, !.wasRevoked = was]
          /\ place = IF kind = "present" THEN "list" ELSE "loadRow"
  OBVIOUS
<1>3. /\ vpc' = [vpc EXCEPT ![v] = place] /\ view' = [view EXCEPT ![v] = m]
      /\ shown' = [shown EXCEPT ![v] = NoAnswer] /\ now' = now + 1
      /\ UNCHANGED <<revokedAt, revocation, events, audited, pc, mem, answers, faults,
                     revokedOthers, keyVars, views>>
  BY <1>1, <1>2 DEF Ask, Advance
<1>4. now' \in Nat
  BY <1>3 DEF VerifyInv, LifeInv, TypeOK
<1>5. LifeInv' /\ TimesStay /\ State' = State
  BY <1>3, <1>4, LifeUntouched DEF VerifyInv
<1>6. m \in View /\ place \in VerifySteps
  BY <1>2, <1>3, <1>4 DEF View, NoView, Times, States, Listings, VerifySteps
<1>7. /\ m.kind = kind /\ m.wasRevoked = was /\ m.row = NoTime /\ m.read = NoTime
      /\ m.lifecycle = "active" /\ m.listed = "unknown"
  BY <1>2 DEF NoView
<1>8. vpc'[v] = place /\ view'[v] = m /\ seen'[v] = seen[v] \cup {State, State'}
  BY <1>2, <1>3 DEF VerifyInv, VerifyTypeOK, Observe
<1>9. State' \in seen'[v] /\ (was => revokedAt' # NoTime)
  BY <1>1, <1>3, <1>5, <1>8, StateMeansTime DEF VerifyInv
<1>10. ViewHolds(v)'
  BY <1>2, <1>7, <1>8, <1>9 DEF ViewHolds, Tallies, Kinds
<1>11. views' \in Nat
  BY <1>3 DEF VerifyInv, VerifyTypeOK
<1> QED
  BY <1>3, <1>5, <1>6, <1>10, <1>11, NoAnswerFits, VerifierMoves

\* What a verifier reads next, while nothing of the assertion changes.
LEMMA ReadingInv ==
    ASSUME VerifyInv, Observe, NEW v \in Verifiers, UNCHANGED <<vars, revokedOthers, keyVars>>,
           NEW place \in VerifySteps, NEW m \in View, NEW a, AnswerFits(a), vpc[v] # "idle",
           vpc' = [vpc EXCEPT ![v] = place], view' = [view EXCEPT ![v] = m],
           shown' = shown \/ shown' = [shown EXCEPT ![v] = a], views' \in Nat,
           place # "idle" => Tallies(place, m, seen[v]),
           place = "idle" => m = NoView
    PROVE  VerifyInv'
<1>1. LifeInv' /\ TimesStay /\ State' = State
  <2>1. now' \in Nat
    BY DEF vars, VerifyInv, LifeInv, TypeOK
  <2> QED
    BY <2>1, LifeUntouched DEF vars, VerifyInv
<1>2. vpc'[v] = place /\ view'[v] = m
  BY DEF VerifyInv, VerifyTypeOK
<1>3. State \in seen[v]
  BY DEF VerifyInv, ViewHolds, Tallies
<1>4. place # "idle" => seen'[v] = seen[v]
  BY <1>1, <1>2, <1>3 DEF Observe
<1>5. revokedAt' = revokedAt
  BY DEF vars
<1>6. ViewHolds(v)'
  <2>1. CASE place = "idle"
    BY <1>2, <2>1 DEF ViewHolds, Tallies, NoView
  <2>2. CASE place # "idle"
    <3>1. PICK states : states = seen[v]
      OBVIOUS
    <3>2. Tallies(place, m, states)'
      BY <1>1, <1>5, <2>2, <3>1 DEF Tallies
    <3> QED
      BY <1>2, <1>4, <2>2, <3>1, <3>2 DEF ViewHolds
  <2> QED
    BY <2>1, <2>2
<1> QED
  BY <1>1, <1>6, VerifierMoves

LEMMA LoadInv ==
    ASSUME VerifyInv, Observe, NEW v \in Verifiers, LoadRow(v) \/ LoadAssertion(v)
    PROVE  VerifyInv'
<1>1. PICK old : old = view[v]
  OBVIOUS
<1>2. old \in View /\ Tallies(vpc[v], old, seen[v])
  BY <1>1 DEF VerifyInv, VerifyTypeOK, ViewHolds
<1>3. revokedAt \in Times \cup {NoTime} /\ (revokedAt = NoTime => State # "revoked")
  BY StateMeansTime DEF VerifyInv, LifeInv, TypeOK
<1>4. /\ UNCHANGED <<vars, revokedOthers, keyVars>> /\ views' = views /\ shown' = shown
      /\ views' \in Nat
  BY DEF LoadRow, LoadAssertion, VerifyInv, VerifyTypeOK
<1>5. CASE LoadRow(v)
  <2>1. PICK m : m = [old EXCEPT !.row = revokedAt]
    OBVIOUS
  <2>2. /\ vpc[v] = "loadRow" /\ vpc' = [vpc EXCEPT ![v] = "loadAssertion"]
        /\ view' = [view EXCEPT ![v] = m]
    BY <1>1, <1>5, <2>1 DEF LoadRow, Advance
  <2>3. m \in View /\ m.row = revokedAt /\ m.read = old.read /\ m.kind = old.kind
        /\ m.wasRevoked = old.wasRevoked /\ m.lifecycle = old.lifecycle /\ m.listed = old.listed
    BY <1>2, <1>3, <2>1 DEF View
  <2>4. Tallies("loadAssertion", m, seen[v])
    BY <1>2, <2>2, <2>3 DEF Tallies
  <2> QED
    BY <1>4, <2>2, <2>3, <2>4, NoAnswerFits, ReadingInv DEF VerifySteps
<1>6. CASE LoadAssertion(v)
  <2>1. PICK m : m = [old EXCEPT !.read = revokedAt]
    OBVIOUS
  <2>2. /\ vpc[v] = "loadAssertion" /\ vpc' = [vpc EXCEPT ![v] = "loadEvent"]
        /\ view' = [view EXCEPT ![v] = m]
    BY <1>1, <1>6, <2>1 DEF LoadAssertion, Advance
  <2>3. m \in View /\ m.read = revokedAt /\ m.row = old.row /\ m.kind = old.kind
        /\ m.wasRevoked = old.wasRevoked /\ m.lifecycle = old.lifecycle /\ m.listed = old.listed
    BY <1>2, <1>3, <2>1 DEF View
  <2>4. Tallies("loadEvent", m, seen[v])
    BY <1>2, <1>3, <2>2, <2>3 DEF Tallies
  <2> QED
    BY <1>4, <2>2, <2>3, <2>4, NoAnswerFits, ReadingInv DEF VerifySteps
<1> QED
  BY <1>5, <1>6

\* The state that the record shows: the one the assertion stayed in, if it stayed in one,
\* and revoked if it was when the verifier asked.
LEMMA RecordShows ==
    ASSUME VerifyInv, NEW m \in View, NEW states, Tallies("loadEvent", m, states),
           NEW lifecycle, lifecycle = StateFrom(m.read, LatestState)
    PROVE  /\ lifecycle \in States
           /\ lifecycle = "revoked" => revokedAt # NoTime
           /\ m.wasRevoked => lifecycle = "revoked"
           /\ \A s \in States : states = {s} => lifecycle = s
<1>1. /\ LatestState \in States /\ (LatestState = "revoked" => revokedAt # NoTime)
      /\ State \in States /\ (State = "revoked" <=> revokedAt # NoTime)
  BY LatestFits, StateMeansTime DEF VerifyInv
<1>2. CASE m.read = NoTime
  <2>1. lifecycle = LatestState /\ ~ m.wasRevoked /\ \E s \in states : s # "revoked"
    BY <1>2 DEF StateFrom, Tallies
  <2>2. ASSUME NEW s \in States, states = {s}
        PROVE  lifecycle = s
    <3>1. State = s /\ s # "revoked"
      BY <2>1, <2>2 DEF Tallies
    <3>2. State = LatestState
      BY <1>1, <3>1 DEF State, StateFrom
    <3> QED
      BY <2>1, <3>1, <3>2
  <2> QED
    BY <1>1, <2>1, <2>2
<1>3. CASE m.read # NoTime
  <2>1. lifecycle = "revoked" /\ revokedAt # NoTime /\ State = "revoked" /\ State \in states
    BY <1>1, <1>3 DEF StateFrom, Tallies
  <2> QED
    BY <2>1 DEF States
<1> QED
  BY <1>2, <1>3

\* What a verifier may be told in the end.
Tells(m, states, a) ==
    /\ m.wasRevoked => a.status \in {"revoked", "invalid"}
    /\ a.status = "revoked" \/ a.listed = "revoked" => State = "revoked"
    /\ \A s \in States : states = {s} /\ m.kind # "present" => a.status = s

DocumentAnswer(m) ==
    [NoAnswer EXCEPT !.status = Merged(m.row, m), !.lifecycle = m.lifecycle,
                     !.revokedAt = MergedAt(m.row, m)]

LEMMA DocumentTells ==
    ASSUME VerifyInv, NEW old \in View, NEW states, Tallies("loadEvent", old, states),
           NEW m, m = [old EXCEPT !.lifecycle = StateFrom(old.read, LatestState)],
           NEW a, a = DocumentAnswer(m)
    PROVE  AnswerFits(a) /\ Tells(old, states, a)
<1>1. PICK lifecycle : lifecycle = StateFrom(old.read, LatestState)
  OBVIOUS
<1>2. /\ lifecycle \in States
      /\ lifecycle = "revoked" => revokedAt # NoTime
      /\ old.wasRevoked => lifecycle = "revoked"
      /\ \A s \in States : states = {s} => lifecycle = s
  BY <1>1, RecordShows
<1>3. /\ m.lifecycle = lifecycle /\ m.row = old.row /\ m.read = old.read
      /\ m.row \in Times \cup {NoTime} /\ m.read \in Times \cup {NoTime}
  BY <1>1 DEF View
<1>4. /\ a.status = (IF lifecycle = "revoked" \/ m.row # NoTime THEN "revoked" ELSE lifecycle)
      /\ a.lifecycle = lifecycle /\ a.listed = "unknown" /\ a.proof = "none"
      /\ a.revokedAt = (IF lifecycle = "revoked" /\ m.read # NoTime THEN m.read ELSE m.row)
  BY <1>3 DEF DocumentAnswer, NoAnswer, Merged, MergedAt
<1>5. a \in Shown
  BY <1>2, <1>3 DEF DocumentAnswer, NoAnswer, Merged, MergedAt, Shown, States, Listings
<1>6. AnswerFits(a)
  BY <1>4, <1>5 DEF AnswerFits
<1>7. (m.row # NoTime => revokedAt # NoTime) /\ (revokedAt # NoTime <=> State = "revoked")
      /\ State \in states
  BY <1>3, StateMeansTime DEF Tallies, VerifyInv
<1>8. Tells(old, states, a)
  BY <1>2, <1>4, <1>7 DEF Tells
<1> QED
  BY <1>6, <1>8

CheckAnswer(m) ==
    IF m.kind = "present"
    THEN [NoAnswer EXCEPT !.status = IF Passes(m) THEN "valid" ELSE "invalid",
                          !.listed = m.listed, !.proof = Proof]
    ELSE [status |-> Merged(RevokedAtFor(m), m), lifecycle |-> m.lifecycle,
          listed |-> m.listed, revokedAt |-> MergedAt(RevokedAtFor(m), m), proof |-> Proof]

LEMMA ProofIsValid == VerifyInv => Proof = "valid"
  BY DEF VerifyInv, KeyKept, Proof

LEMMA CheckTells ==
    ASSUME VerifyInv, NEW m \in View, NEW states, Tallies("proof", m, states),
           NEW a, a = CheckAnswer(m)
    PROVE  AnswerFits(a) /\ Tells(m, states, a)
<1>1. PICK base : base = RevokedAtFor(m)
  OBVIOUS
<1>2. /\ m.row \in Times \cup {NoTime} /\ m.read \in Times \cup {NoTime}
      /\ m.at \in Times /\ m.at # NoTime /\ m.lifecycle \in States /\ m.listed \in Listings
  BY NoTimeIsNone DEF View
<1>3. /\ base \in Times \cup {NoTime}
      /\ m.listed = "revoked" => base # NoTime
      /\ base # NoTime => m.listed = "revoked" \/ m.row # NoTime
  BY <1>1, <1>2 DEF RevokedAtFor, Listings
<1>4. /\ base # NoTime \/ m.lifecycle = "revoked" \/ m.listed = "revoked" => revokedAt # NoTime
      /\ revokedAt # NoTime <=> State = "revoked"
      /\ State \in states
  BY <1>3, StateMeansTime DEF Tallies, VerifyInv
<1>5. CASE m.kind = "present"
  <2>1. /\ a.status = (IF Passes(m) THEN "valid" ELSE "invalid") /\ a.listed = m.listed
        /\ a.proof = "valid" /\ a.lifecycle = "active" /\ a.revokedAt = NoTime
    BY <1>5, ProofIsValid DEF CheckAnswer, NoAnswer
  <2>2. a \in Shown
    BY <1>2, <1>5, ProofIsValid DEF CheckAnswer, NoAnswer, Shown, States
  <2>3. Passes(m) => m.listed = "clear"
    BY DEF Passes
  <2>4. m.wasRevoked => a.status = "invalid"
    BY <1>5, <2>1, <2>3 DEF Tallies
  <2> QED
    BY <1>4, <1>5, <2>1, <2>2, <2>3, <2>4 DEF AnswerFits, Tells
<1>6. CASE m.kind # "present"
  <2>1. /\ a.status = (IF m.lifecycle = "revoked" \/ base # NoTime THEN "revoked" ELSE m.lifecycle)
        /\ a.lifecycle = m.lifecycle /\ a.listed = m.listed /\ a.proof = "valid"
        /\ a.revokedAt = (IF m.lifecycle = "revoked" /\ m.read # NoTime THEN m.read ELSE base)
    BY <1>1, <1>6, ProofIsValid DEF CheckAnswer, Merged, MergedAt
  <2>2. a \in Shown
    BY <1>1, <1>2, <1>3, <1>6, ProofIsValid DEF CheckAnswer, Merged, MergedAt, Shown, States
  <2>3. AnswerFits(a)
    BY <1>3, <2>1, <2>2 DEF AnswerFits
  <2>4. /\ m.wasRevoked => m.lifecycle = "revoked"
        /\ \A s \in States : states = {s} => m.lifecycle = s
    BY <1>6 DEF Tallies
  <2> QED
    BY <1>4, <2>1, <2>3, <2>4 DEF Tells
<1> QED
  BY <1>5, <1>6

LEMMA LoadEventInv ==
    ASSUME VerifyInv, Observe, NEW v \in Verifiers, LoadEvent(v)
    PROVE  /\ VerifyInv'
           /\ vpc'[v] = "idle" => Tells(view[v], seen[v], shown'[v])
<1>1. PICK old : old = view[v]
  OBVIOUS
<1>2. PICK m : m = [old EXCEPT !.lifecycle = StateFrom(old.read, LatestState)]
  OBVIOUS
<1>3. /\ vpc[v] = "loadEvent" /\ UNCHANGED <<vars, revokedOthers, keyVars>> /\ views' = views
      /\ IF m.kind = "document" THEN Tell(v, "loadEvent", DocumentAnswer(m))
         ELSE Advance(v, "loadEvent", "record", m) /\ UNCHANGED shown
  BY <1>1, <1>2 DEF LoadEvent, DocumentAnswer
<1>4. old \in View /\ Tallies("loadEvent", old, seen[v]) /\ views' \in Nat
  BY <1>1, <1>3 DEF VerifyInv, VerifyTypeOK, ViewHolds
<1>5. CASE m.kind = "document"
  <2>1. PICK a : a = DocumentAnswer(m)
    OBVIOUS
  <2>2. /\ vpc' = [vpc EXCEPT ![v] = "idle"] /\ view' = [view EXCEPT ![v] = NoView]
        /\ shown' = [shown EXCEPT ![v] = a]
    BY <1>3, <1>5, <2>1 DEF Tell, Advance
  <2>3. AnswerFits(a) /\ Tells(old, seen[v], a)
    BY <1>2, <1>4, <2>1, DocumentTells
  <2>4. VerifyInv'
    BY <1>3, <1>4, <2>2, <2>3, NoAnswerFits, ReadingInv DEF VerifySteps
  <2>5. shown'[v] = a
    BY <2>2 DEF VerifyInv, VerifyTypeOK
  <2> QED
    BY <1>1, <2>3, <2>4, <2>5
<1>6. CASE m.kind # "document"
  <2>1. PICK lifecycle : lifecycle = StateFrom(old.read, LatestState)
    OBVIOUS
  <2>2. /\ lifecycle \in States
        /\ lifecycle = "revoked" => revokedAt # NoTime
        /\ old.wasRevoked => lifecycle = "revoked"
        /\ \A s \in States : seen[v] = {s} => lifecycle = s
    BY <1>4, <2>1, RecordShows
  <2>3. m \in View /\ m.lifecycle = lifecycle /\ m.row = old.row /\ m.read = old.read
        /\ m.kind = old.kind /\ m.wasRevoked = old.wasRevoked /\ m.listed = old.listed
    BY <1>2, <1>4, <2>1, <2>2 DEF View
  <2>4. Tallies("record", m, seen[v])
    BY <1>4, <1>6, <2>2, <2>3 DEF Tallies
  <2>5. vpc' = [vpc EXCEPT ![v] = "record"] /\ view' = [view EXCEPT ![v] = m] /\ shown' = shown
    BY <1>3, <1>6 DEF Advance
  <2>6. VerifyInv'
    BY <1>3, <1>4, <2>3, <2>4, <2>5, NoAnswerFits, ReadingInv DEF VerifySteps
  <2>7. vpc'[v] = "record"
    BY <2>5 DEF VerifyInv, VerifyTypeOK
  <2> QED
    BY <2>6, <2>7
<1> QED
  BY <1>5, <1>6

LEMMA CheckProofInv ==
    ASSUME VerifyInv, Observe, NEW v \in Verifiers, CheckProof(v)
    PROVE  VerifyInv' /\ Tells(view[v], seen[v], shown'[v])
<1>1. PICK m, a : m = view[v] /\ a = CheckAnswer(m)
  OBVIOUS
<1>2. /\ vpc[v] = "proof" /\ UNCHANGED <<vars, revokedOthers, keyVars>> /\ views' = views
      /\ Tell(v, "proof", a)
  BY <1>1 DEF CheckProof, CheckAnswer
<1>3. m \in View /\ Tallies("proof", m, seen[v]) /\ views' \in Nat
  BY <1>1, <1>2 DEF VerifyInv, VerifyTypeOK, ViewHolds
<1>4. /\ vpc' = [vpc EXCEPT ![v] = "idle"] /\ view' = [view EXCEPT ![v] = NoView]
      /\ shown' = [shown EXCEPT ![v] = a]
  BY <1>2 DEF Tell, Advance
<1>5. AnswerFits(a) /\ Tells(m, seen[v], a)
  BY <1>1, <1>3, CheckTells
<1>6. VerifyInv'
  BY <1>2, <1>3, <1>4, <1>5, NoAnswerFits, ReadingInv DEF VerifySteps
<1>7. shown'[v] = a
  BY <1>4 DEF VerifyInv, VerifyTypeOK
<1> QED
  BY <1>1, <1>5, <1>6, <1>7

LEMMA RecordViewInv ==
    ASSUME VerifyInv, Observe, NEW v \in Verifiers, RecordView(v)
    PROVE  VerifyInv'
<1>1. PICK m : m = view[v]
  OBVIOUS
<1>2. /\ vpc[v] = "record" /\ vpc' = [vpc EXCEPT ![v] = "list"] /\ view' = [view EXCEPT ![v] = m]
      /\ UNCHANGED <<vars, revokedOthers, keyVars>> /\ views' = views + 1 /\ shown' = shown
  BY <1>1 DEF RecordView, Advance
<1>3. m \in View /\ Tallies("record", m, seen[v]) /\ views' \in Nat
  BY <1>1, <1>2 DEF VerifyInv, VerifyTypeOK, ViewHolds
<1>4. Tallies("list", m, seen[v])
  BY <1>3 DEF Tallies
<1> QED
  BY <1>2, <1>3, <1>4, NoAnswerFits, ReadingInv DEF VerifySteps

LEMMA ReadListInv ==
    ASSUME VerifyInv, Observe, NEW v \in Verifiers, ReadList(v)
    PROVE  VerifyInv'
<1>1. PICK old : old = view[v]
  OBVIOUS
<1>2. PICK listed \in {Decode(Encode(Entries), Index), "unknown"} :
          Advance(v, "list", "proof", [old EXCEPT !.listed = listed])
  BY <1>1 DEF ReadList
<1>3. PICK m : m = [old EXCEPT !.listed = listed]
  OBVIOUS
<1>4. listed \in {IF revokedAt # NoTime THEN "revoked" ELSE "clear", "unknown"}
  BY <1>2, ListTells DEF VerifyInv, VerifyTypeOK
<1>5. /\ vpc[v] = "list" /\ vpc' = [vpc EXCEPT ![v] = "proof"] /\ view' = [view EXCEPT ![v] = m]
      /\ UNCHANGED <<vars, revokedOthers, keyVars>> /\ views' = views /\ shown' = shown
  BY <1>2, <1>3 DEF ReadList, Advance
<1>6. old \in View /\ Tallies("list", old, seen[v]) /\ views' \in Nat
  BY <1>1, <1>5 DEF VerifyInv, VerifyTypeOK, ViewHolds
<1>7. m \in View /\ m.listed = listed /\ m.row = old.row /\ m.read = old.read
      /\ m.kind = old.kind /\ m.wasRevoked = old.wasRevoked /\ m.lifecycle = old.lifecycle
  BY <1>3, <1>4, <1>6 DEF View, Listings
<1>8. Tallies("proof", m, seen[v])
  BY <1>4, <1>6, <1>7 DEF Tallies
<1> QED
  BY <1>5, <1>6, <1>7, <1>8, NoAnswerFits, ReadingInv DEF VerifySteps

-----------------------------------------------------------------------------
(* The rest of the tenant, and all steps together.                           *)

LEMMA AroundInv ==
    ASSUME VerifyInv, AroundNext
    PROVE  VerifyInv' /\ vpc' = vpc
<1>1. UNCHANGED <<vars, vpc, view, views, shown>> /\ Observe
  BY DEF AroundNext, RevokeOther, KeepKey, Rotate, keyVars
<1>2. LifeInv' /\ TimesStay
  <2>1. now' \in Nat
    BY <1>1 DEF vars, VerifyInv, LifeInv, TypeOK
  <2> QED
    BY <1>1, <2>1, LifeUntouched DEF vars, VerifyInv
<1>3. ActiveKey \in Keys
  BY KeysAssumption DEF ActiveKey, VerifyInv, VerifyTypeOK
<1>4. CASE \E o \in Others : RevokeOther(o)
  <2>1. KeyKept' /\ revokedOthers' \subseteq Others /\ UNCHANGED keyVars
    BY <1>4 DEF RevokeOther, VerifyInv, VerifyTypeOK, KeyKept, ActiveKey, keyVars
  <2> QED
    BY <1>1, <1>2, <2>1, NobodyMoves DEF VerifyInv, VerifyTypeOK, keyVars
<1>5. CASE KeepKey
  <2>1. KeyKept' /\ history' \subseteq Keys /\ UNCHANGED <<revokedOthers, registration>>
    BY <1>3, <1>5 DEF KeepKey, VerifyInv, VerifyTypeOK, KeyKept, ActiveKey
  <2> QED
    BY <1>1, <1>2, <2>1, NobodyMoves DEF VerifyInv, VerifyTypeOK
<1>6. CASE \E k \in Keys : Rotate(k)
  <2>1. KeyKept' /\ registration' \in Keys /\ UNCHANGED <<revokedOthers, history>>
    BY <1>6 DEF Rotate, VerifyInv, KeyKept
  <2> QED
    BY <1>1, <1>2, <2>1, NobodyMoves DEF VerifyInv, VerifyTypeOK
<1> QED
  BY <1>1, <1>4, <1>5, <1>6 DEF AroundNext

LEMMA AssertionInv ==
    ASSUME VerifyInv, Next, UNCHANGED verifyVars, Observe
    PROVE  VerifyInv' /\ vpc' = vpc
<1>1. LifeInv' /\ TimesStay
  BY NextLife, TimesAreKept DEF VerifyInv
<1>2. /\ UNCHANGED <<vpc, view, views, shown>> /\ KeyKept' /\ revokedOthers' = revokedOthers
      /\ registration' = registration /\ history' = history
  BY DEF verifyVars, VerifyInv, KeyKept, ActiveKey
<1> QED
  BY <1>1, <1>2, NobodyMoves DEF VerifyInv, VerifyTypeOK

LEMMA AnsweringInv ==
    ASSUME VerifyInv, NEW v \in Verifiers, Answering(v), Observe
    PROVE  /\ VerifyInv'
           /\ vpc[v] # "idle" /\ vpc'[v] = "idle" => Tells(view[v], seen[v], shown'[v])
           /\ \A w \in Verifiers \ {v} : vpc'[w] = vpc[w]
<1>1. \A w \in Verifiers \ {v} : vpc'[w] = vpc[w]
  <2>1. \E place : vpc' = [vpc EXCEPT ![v] = place]
    BY DEF Answering, Ask, LoadRow, LoadAssertion, LoadEvent, RecordView, ReadList, CheckProof,
           Tell, Advance
  <2> QED
    BY <2>1 DEF VerifyInv, VerifyTypeOK
<1>2. CASE \E kind \in Kinds, clean \in BOOLEAN : Ask(v, kind, clean)
  <2>1. vpc[v] = "idle"
    BY <1>2 DEF Ask, Advance
  <2> QED
    BY <1>1, <1>2, <2>1, AskInv
<1>3. CASE LoadRow(v) \/ LoadAssertion(v) \/ RecordView(v) \/ ReadList(v)
  <2>1. \E place \in {"loadAssertion", "loadEvent", "list", "proof"} :
            vpc' = [vpc EXCEPT ![v] = place]
    BY <1>3 DEF LoadRow, LoadAssertion, RecordView, ReadList, Advance
  <2>2. vpc'[v] # "idle"
    BY <2>1 DEF VerifyInv, VerifyTypeOK
  <2> QED
    BY <1>1, <1>3, <2>2, LoadInv, RecordViewInv, ReadListInv
<1>4. CASE LoadEvent(v)
  BY <1>1, <1>4, LoadEventInv
<1>5. CASE CheckProof(v)
  BY <1>1, <1>5, CheckProofInv
<1> QED
  BY <1>2, <1>3, <1>4, <1>5 DEF Answering

LEMMA VerifyStep ==
    ASSUME VerifyInv, VerifyNext
    PROVE  VerifyInv' /\ AnswersTell
<1>1. ASSUME NEW v \in Verifiers, Tells(view[v], seen[v], shown'[v])
      PROVE  RevokedIsShown(v) /\ ShownIsRevoked(v) /\ StableIsShown(v)
  BY <1>1 DEF Tells, RevokedIsShown, ShownIsRevoked, StableIsShown
<1>2. CASE AroundNext
  BY <1>2, AroundInv DEF AnswersTell, Told
<1>3. CASE Next /\ UNCHANGED verifyVars /\ Observe
  BY <1>3, AssertionInv DEF AnswersTell, Told
<1>4. CASE (\E v \in Verifiers : Answering(v)) /\ Observe
  <2>1. PICK v \in Verifiers : Answering(v)
    BY <1>4
  <2>2. /\ VerifyInv'
        /\ vpc[v] # "idle" /\ vpc'[v] = "idle" => Tells(view[v], seen[v], shown'[v])
        /\ \A w \in Verifiers \ {v} : vpc'[w] = vpc[w]
    BY <1>4, <2>1, AnsweringInv
  <2>3. ASSUME NEW w \in Verifiers, Told(w)
        PROVE  RevokedIsShown(w) /\ ShownIsRevoked(w) /\ StableIsShown(w)
    <3>1. w = v /\ vpc[w] # "idle" /\ vpc'[w] = "idle"
      BY <2>2, <2>3 DEF Told
    <3> QED
      BY <1>1, <2>2, <3>1
  <2> QED
    BY <2>2, <2>3 DEF AnswersTell
<1> QED
  BY <1>2, <1>3, <1>4 DEF VerifyNext, LifeNext

LEMMA NothingChanges ==
    ASSUME VerifyInv, UNCHANGED allVars
    PROVE  VerifyInv'
<1>1. UNCHANGED vars /\ UNCHANGED <<revokedOthers, registration, history, vpc, view, views, shown, seen>>
  BY DEF allVars, verifyVars
<1>2. LifeInv' /\ State' = State /\ revokedAt' = revokedAt
  <2>1. now' \in Nat
    BY <1>1 DEF vars, VerifyInv, LifeInv, TypeOK
  <2> QED
    BY <1>1, <2>1, LifeUntouched DEF vars, VerifyInv
<1>3. VerifyTypeOK'
  BY <1>1, <1>2 DEF VerifyInv, VerifyTypeOK, LifeInv
<1>4. KeyKept' /\ \A v \in Verifiers : AnswerFits(shown'[v])
  BY <1>1 DEF VerifyInv, KeyKept, ActiveKey
<1>5. \A v \in Verifiers : ViewHolds(v)'
  BY <1>1, <1>2 DEF VerifyInv, ViewHolds, Tallies
<1> QED
  BY <1>2, <1>3, <1>4, <1>5 DEF VerifyInv

\* Verifiers and the assertion keep their invariant in every reachable state.
THEOREM VerifyInvariance == VerifySpec => []VerifyInv
<1>1. VerifyInv /\ [VerifyNext]_allVars => VerifyInv'
  BY VerifyStep, NothingChanges
<1> QED
  BY <1>1, InitVerify, PTL DEF VerifySpec

\* The summary of an answer, read at several times, is never better than any of its
\* parts, and a proof verifies whatever keys were replaced.
THEOREM AnswersAgree == VerifySpec => []PartsAgree
<1>1. VerifyInv => PartsAgree
  BY DEF VerifyInv, PartsAgree, SummaryIsWorst, ProofSurvives, AnswerFits
<1> QED
  BY <1>1, VerifyInvariance, PTL

\* What verifiers are told is true, however their reads interleave with transitions,
\* revocations and their losses.
THEOREM AnswersAreTrue == VerifySpec => [][AnswersTell]_allVars
<1>1. VerifyInv /\ [VerifyNext]_allVars => [AnswersTell]_allVars
  BY VerifyStep
<1> QED
  BY <1>1, VerifyInvariance, PTL DEF VerifySpec

-----------------------------------------------------------------------------

(* Documents and presentations: sequences.                                   *)

\* A sequence, whatever it is of.
ListOf(s) == s \in Seq({s[i] : i \in DOMAIN s})

LEMMA LeastExists ==
    ASSUME NEW S, S \subseteq Nat, S # {}
    PROVE  \E i \in S : \A j \in S : i <= j
<1> DEFINE below(i) == 0 .. (i - 1)
           T == {below(i) : i \in S}
           R == StrictSubsetOrdering(Nat)
<1>1. T \subseteq FiniteSubsetsOf(Nat) /\ T # {}
  <2>1. \A i \in S : IsFiniteSet(below(i))
    BY FS_Interval
  <2>2. \A i \in S : below(i) \in SUBSET Nat
    OBVIOUS
  <2>3. \A i \in S : below(i) \in FiniteSubsetsOf(Nat)
    <3> HIDE DEF below
    <3> QED
      BY <2>1, <2>2 DEF FiniteSubsetsOf
  <2> QED
    BY <2>3
<1>2. IsWellFoundedOn(R, FiniteSubsetsOf(Nat))
  BY FS_StrictSubsetOrderingWellFounded
<1>3. PICK x \in T : \A y \in T : ~ (<<y, x>> \in R)
  <2> HIDE DEF T, R
  <2> QED
  BY <1>1, <1>2, WFMin
<1>4. PICK i \in S : x = below(i)
  BY <1>3
<1>5. ASSUME NEW j \in S PROVE i <= j
  <2>1. <<below(j), below(i)>> \notin R
    BY <1>3, <1>4
  <2>2. below(j) \in SUBSET Nat /\ below(i) \in SUBSET Nat
    OBVIOUS
  <2>3. ~ (below(j) \subseteq below(i) /\ below(j) # below(i))
    <3> DEFINE A == below(j)
               B == below(i)
    <3> HIDE DEF A, B, below
    <3> QED
      BY <2>1, <2>2 DEF StrictSubsetOrdering, A, B, R
  <2>4. CASE j < i
    <3>1. j \in below(i) /\ j \notin below(j)
      BY <2>4
    <3>2. below(j) \subseteq below(i)
      BY <2>4
    <3> QED
      BY <2>3, <3>1, <3>2
  <2> QED
    BY <2>4
<1> QED
  BY <1>5

LEMMA ListsAre ==
    ASSUME NEW s, ListOf(s)
    PROVE  Len(s) \in Nat /\ DOMAIN s = 1 .. Len(s) /\ (s # <<>> => 1 \in DOMAIN s)
<1> QED
  BY LenProperties, EmptySeq DEF ListOf

LEMMA SequenceIsList ==
    ASSUME NEW S, NEW s \in Seq(S)
    PROVE  ListOf(s)
<1>1. Len(s) \in Nat /\ s \in [1 .. Len(s) -> S] /\ DOMAIN s = 1 .. Len(s)
  BY LenProperties
<1>2. s \in [1 .. Len(s) -> {s[i] : i \in DOMAIN s}]
  BY <1>1
<1> QED
  BY <1>1, <1>2, SeqDef DEF ListOf

LEMMA SingleIsList ==
    ASSUME NEW x
    PROVE  ListOf(<<x>>) /\ DOMAIN <<x>> = {1} /\ <<x>>[1] = x /\ Len(<<x>>) = 1
<1>1. PICK s : s = <<x>>
  OBVIOUS
<1>2. s \in Seq({x}) /\ DOMAIN s = {1} /\ s[1] = x /\ Len(s) = 1
  BY <1>1
<1>3. ListOf(s)
  BY <1>2, SequenceIsList
<1> QED
  BY <1>1, <1>2, <1>3

LEMMA EmptyIsList == ListOf(<<>>) /\ DOMAIN <<>> = {}
<1>1. PICK s : s = <<>>
  OBVIOUS
<1>2. s \in Seq({}) /\ DOMAIN s = {}
  BY <1>1
<1>3. ListOf(s)
  BY <1>2, SequenceIsList
<1> QED
  BY <1>1, <1>2, <1>3

LEMMA ListAppended ==
    ASSUME NEW s, ListOf(s), NEW x
    PROVE  /\ ListOf(Append(s, x)) /\ Len(Append(s, x)) = Len(s) + 1
           /\ \A i \in DOMAIN Append(s, x) :
                Append(s, x)[i] = x \/ (i \in DOMAIN s /\ Append(s, x)[i] = s[i])
<1> DEFINE S == {s[i] : i \in DOMAIN s} \cup {x}
<1>1. s \in Seq(S) /\ x \in S
  BY SeqMonotonic DEF ListOf
<1> HIDE DEF S
<1>2. PICK t : t = Append(s, x)
  OBVIOUS
<1>3. /\ t \in Seq(S) /\ Len(t) = Len(s) + 1 /\ t[Len(s) + 1] = x
      /\ \A i \in 1 .. Len(s) : t[i] = s[i]
  BY <1>1, <1>2, AppendProperties
<1>4. ListOf(t)
  BY <1>3, SequenceIsList
<1>5. DOMAIN s = 1 .. Len(s) /\ Len(s) \in Nat /\ DOMAIN t = 1 .. Len(t)
  BY <1>4, ListsAre
<1>6. ASSUME NEW i \in DOMAIN t
      PROVE  t[i] = x \/ (i \in DOMAIN s /\ t[i] = s[i])
  <2>1. i \in 1 .. Len(s) \/ i = Len(s) + 1
    BY <1>3, <1>5, <1>6
  <2>2. CASE i \in 1 .. Len(s)
    <3>1. t[i] = s[i]
      BY <1>3, <2>2
    <3> QED
      BY <1>5, <2>2, <3>1
  <2>3. CASE i = Len(s) + 1
    BY <1>3, <2>3
  <2> QED
    BY <2>1, <2>2, <2>3
<1> QED
  BY <1>2, <1>3, <1>4, <1>6

LEMMA ListJoined ==
    ASSUME NEW s, ListOf(s), NEW t, ListOf(t)
    PROVE  /\ ListOf(s \o t)
           /\ \A i \in DOMAIN (s \o t) :
                \/ i \in DOMAIN s /\ (s \o t)[i] = s[i]
                \/ \E j \in DOMAIN t : (s \o t)[i] = t[j]
<1> DEFINE S == {s[i] : i \in DOMAIN s} \cup {t[i] : i \in DOMAIN t}
<1>1. s \in Seq(S) /\ t \in Seq(S)
  BY SeqMonotonic DEF ListOf
<1> HIDE DEF S
<1>2. PICK u : u = s \o t
  OBVIOUS
<1>3. /\ u \in Seq(S) /\ Len(u) = Len(s) + Len(t)
      /\ \A i \in 1 .. Len(s) + Len(t) : u[i] = IF i <= Len(s) THEN s[i] ELSE t[i - Len(s)]
  BY <1>1, <1>2, ConcatProperties
<1>4. ListOf(u)
  BY <1>3, SequenceIsList
<1>5. /\ DOMAIN s = 1 .. Len(s) /\ Len(s) \in Nat /\ DOMAIN u = 1 .. Len(u)
      /\ DOMAIN t = 1 .. Len(t) /\ Len(t) \in Nat
  BY <1>4, ListsAre
<1>6. ASSUME NEW i \in DOMAIN u
      PROVE  (i \in DOMAIN s /\ u[i] = s[i]) \/ \E j \in DOMAIN t : u[i] = t[j]
  <2>1. CASE i <= Len(s)
    BY <1>3, <1>5, <1>6, <2>1
  <2>2. CASE ~ (i <= Len(s))
    <3>1. i - Len(s) \in DOMAIN t /\ u[i] = t[i - Len(s)]
      BY <1>3, <1>5, <1>6, <2>2
    <3> QED
      BY <3>1
  <2> QED
    BY <2>1, <2>2
<1> QED
  BY <1>2, <1>4, <1>6

\* Records with the fields that proofs, documents and presentations have.
ProofShape(q) ==
    q = [type |-> q.type, suite |-> q.suite, purpose |-> q.purpose, did |-> q.did,
         key |-> q.key, by |-> q.by, over |-> q.over, about |-> q.about]

DocShape(d) ==
    d = [context |-> d.context, terms |-> d.terms, schema |-> d.schema, badge |-> d.badge,
         subject |-> d.subject, identified |-> d.identified, achievement |-> d.achievement,
         from |-> d.from, until |-> d.until, status |-> d.status, issuer |-> d.issuer,
         proofs |-> d.proofs]

PresentationShape(p) ==
    p = [context |-> p.context, terms |-> p.terms, holder |-> p.holder, issuer |-> p.issuer,
         wrapped |-> p.wrapped, proofs |-> p.proofs]

\* Proofs made of other proofs: none has been signed anew.
Derived(s, t) ==
    /\ ListOf(s)
    /\ \A i \in DOMAIN s :
        /\ ProofShape(s[i])
        /\ \E j \in DOMAIN t : s[i].over = t[j].over /\ s[i].by = t[j].by

LEMMA SelectedIsThere ==
    ASSUME NEW d, ListOf(d.proofs), d.proofs # <<>>
    PROVE  \E i \in DOMAIN d.proofs : SelectedProof(d) = d.proofs[i]
<1> DEFINE S == {i \in DOMAIN d.proofs : d.proofs[i].purpose = "assertionMethod"}
<1>1. 1 \in DOMAIN d.proofs /\ DOMAIN d.proofs \subseteq Nat
  BY ListsAre
<1>2. SelectedProof(d) = d.proofs[IF S = {} THEN 1 ELSE CHOOSE i \in S : \A j \in S : i <= j]
  BY DEF SelectedProof
<1>3. S \subseteq Nat
  BY <1>1
<1>4. CASE S = {}
  BY <1>1, <1>2, <1>4
<1>5. CASE S # {}
  <2> HIDE DEF S
  <2>1. \E i \in S : \A j \in S : i <= j
    BY <1>3, <1>5, LeastExists
  <2>2. (CHOOSE i \in S : \A j \in S : i <= j) \in S
    BY <2>1
  <2> QED
    BY <1>2, <1>5, <2>2 DEF S
<1> QED
  BY <1>4, <1>5

LEMMA OnlyProofIsSelected ==
    ASSUME NEW d, NEW q, d.proofs = <<q>>
    PROVE  SelectedProof(d) = q
<1>1. DOMAIN d.proofs = {1} /\ d.proofs[1] = q
  BY SingleIsList
<1>2. PICK S : S = {i \in DOMAIN d.proofs : d.proofs[i].purpose = "assertionMethod"}
  OBVIOUS
<1>3. S = {} \/ S = {1}
  BY <1>1, <1>2
<1>4. SelectedProof(d) = d.proofs[IF S = {} THEN 1 ELSE CHOOSE i \in S : \A j \in S : i <= j]
  BY <1>2 DEF SelectedProof
<1>5. S = {1} => (CHOOSE i \in S : \A j \in S : i <= j) = 1
  OBVIOUS
<1> QED
  BY <1>1, <1>3, <1>4, <1>5

LEMMA ProofDepartureFits ==
    ASSUME NEW d, ListOf(d.proofs), \A i \in DOMAIN d.proofs : ProofShape(d.proofs[i]),
           NEW e \in ProofDepartures(d)
    PROVE  \E s : e = [d EXCEPT !.proofs = s] /\ Derived(s, d.proofs)
<1> DEFINE t == d.proofs
<1>1. t # <<>> /\ 1 \in DOMAIN t /\ ProofShape(t[1])
  BY ListsAre DEF ProofDepartures
<1>2. CASE e = [d EXCEPT !.proofs = <<>>]
  BY <1>2, EmptyIsList DEF Derived
<1>3. CASE e = [d EXCEPT !.proofs = <<[@[1] EXCEPT !.purpose = "authentication"]>> \o @]
  <2>1. PICK q : q = [t[1] EXCEPT !.purpose = "authentication"]
    OBVIOUS
  <2>2. ProofShape(q) /\ q.over = t[1].over /\ q.by = t[1].by
    BY <1>1, <2>1 DEF ProofShape
  <2>3. PICK l : l = <<q>>
    OBVIOUS
  <2>4. ListOf(l) /\ DOMAIN l = {1} /\ l[1] = q
    BY <2>3, SingleIsList
  <2>5. PICK s : s = l \o t
    OBVIOUS
  <2>6. /\ ListOf(s)
        /\ \A i \in DOMAIN s : (i \in DOMAIN l /\ s[i] = l[i]) \/ \E j \in DOMAIN t : s[i] = t[j]
    BY <2>4, <2>5, ListJoined
  <2>7. \A i \in DOMAIN s : s[i] = q \/ \E j \in DOMAIN t : s[i] = t[j]
    BY <2>4, <2>6
  <2>8. Derived(s, t)
    BY <1>1, <2>2, <2>6, <2>7 DEF Derived
  <2>9. e = [d EXCEPT !.proofs = s]
    BY <1>3, <2>1, <2>3, <2>5
  <2> QED
    BY <2>8, <2>9
<1>4. ASSUME NEW q, e = [d EXCEPT !.proofs[1] = q],
             ProofShape(q), q.over = t[1].over, q.by = t[1].by
      PROVE  \E s : e = [d EXCEPT !.proofs = s] /\ Derived(s, d.proofs)
  <2>1. PICK s : s = [t EXCEPT ![1] = q]
    OBVIOUS
  <2>2. DOMAIN s = DOMAIN t /\ s[1] = q /\ \A i \in DOMAIN t \ {1} : s[i] = t[i]
    BY <1>1, <2>1
  <2>3. ListOf(s)
    <3> DEFINE S == {t[i] : i \in DOMAIN t} \cup {q}
    <3>1. t \in Seq(S) /\ q \in S
      BY SeqMonotonic DEF ListOf
    <3>2. 1 \in 1 .. Len(t)
      BY <1>1, ListsAre
    <3> HIDE DEF S
    <3>3. s \in Seq(S)
      BY <2>1, <3>1, <3>2, ExceptSeq
    <3> QED
      BY <3>3, SequenceIsList
  <2>4. Derived(s, t)
    BY <1>1, <1>4, <2>2, <2>3 DEF Derived
  <2>5. e = [d EXCEPT !.proofs = s]
    BY <1>4, <2>1
  <2> QED
    BY <2>4, <2>5
<1>5. CASE \E q \in {[t[1] EXCEPT !.purpose = "authentication"],
                     [t[1] EXCEPT !.type = "JsonWebSignature2020"],
                     [t[1] EXCEPT !.did = Nothing],
                     [t[1] EXCEPT !.did = OtherDid],
                     [t[1] EXCEPT !.key = Nothing]}
                    \cup {[t[1] EXCEPT !.key = k] : k \in SigningKeys} :
              e = [d EXCEPT !.proofs[1] = q]
  <2>1. PICK q \in {[t[1] EXCEPT !.purpose = "authentication"],
                    [t[1] EXCEPT !.type = "JsonWebSignature2020"],
                    [t[1] EXCEPT !.did = Nothing],
                    [t[1] EXCEPT !.did = OtherDid],
                    [t[1] EXCEPT !.key = Nothing]}
                   \cup {[t[1] EXCEPT !.key = k] : k \in SigningKeys} :
              e = [d EXCEPT !.proofs[1] = q]
    BY <1>5
  <2>2. ProofShape(q) /\ q.over = t[1].over /\ q.by = t[1].by
    <3>1. PICK u : u = t[1]
      OBVIOUS
    <3>2. ProofShape(u)
      BY <1>1, <3>1
    <3>3. CASE q = [u EXCEPT !.purpose = "authentication"]
      BY <3>2, <3>3, <3>1 DEF ProofShape
    <3>4. CASE q = [u EXCEPT !.type = "JsonWebSignature2020"]
      BY <3>2, <3>4, <3>1 DEF ProofShape
    <3>5. ASSUME NEW x, q = [u EXCEPT !.did = x]
          PROVE  ProofShape(q) /\ q.over = t[1].over /\ q.by = t[1].by
      BY <3>2, <3>5, <3>1 DEF ProofShape
    <3>6. ASSUME NEW x, q = [u EXCEPT !.key = x]
          PROVE  ProofShape(q) /\ q.over = t[1].over /\ q.by = t[1].by
      BY <3>2, <3>6, <3>1 DEF ProofShape
    <3> QED
      BY <2>1, <3>1, <3>3, <3>4, <3>5, <3>6
  <2> QED
    BY <1>4, <2>1, <2>2
<1> QED
  BY <1>1, <1>2, <1>3, <1>5 DEF ProofDepartures

\* A document, or a presentation of documents.
Shaped(x) == DocShape(x) \/ PresentationShape(x)

\* What signatures are made over, of document d.
Payloads(d) == {<<"json", Unsigned(d)>>, <<"linked data", LinkedData(d)>>}

LEMMA DocumentData ==
    ASSUME NEW d, DocShape(d)
    PROVE  /\ Unsigned(d) = [context |-> d.context, terms |-> d.terms, schema |-> d.schema,
                             badge |-> d.badge, subject |-> d.subject,
                             identified |-> d.identified, achievement |-> d.achievement,
                             from |-> d.from, until |-> d.until, status |-> d.status,
                             issuer |-> d.issuer, proofs |-> <<>>]
           /\ LinkedData(d) = [context |-> d.context, terms |-> "known", schema |-> d.schema,
                               badge |-> d.badge, subject |-> d.subject,
                               identified |-> d.identified, achievement |-> d.achievement,
                               from |-> d.from, until |-> d.until, status |-> d.status,
                               issuer |-> d.issuer, proofs |-> <<>>]
<1>1. Unsigned(d) = [context |-> d.context, terms |-> d.terms, schema |-> d.schema,
                             badge |-> d.badge, subject |-> d.subject,
                             identified |-> d.identified, achievement |-> d.achievement,
                             from |-> d.from, until |-> d.until, status |-> d.status,
                             issuer |-> d.issuer, proofs |-> <<>>]
  BY DEF Unsigned, DocShape
<1>2. PICK e : e = Known(d)
  OBVIOUS
<1>3. e = [context |-> d.context, terms |-> "known", schema |-> d.schema,
                             badge |-> d.badge, subject |-> d.subject,
                             identified |-> d.identified, achievement |-> d.achievement,
                             from |-> d.from, until |-> d.until, status |-> d.status,
                             issuer |-> d.issuer, proofs |-> d.proofs]
  BY <1>2 DEF Known, DocShape
<1>4. "wrapped" \notin DOMAIN d
  BY DEF DocShape
<1>5. LinkedData(d) = [e EXCEPT !.proofs = <<>>]
  BY <1>2, <1>4 DEF LinkedData, Unsigned
<1>6. LinkedData(d) = [context |-> d.context, terms |-> "known", schema |-> d.schema,
                             badge |-> d.badge, subject |-> d.subject,
                             identified |-> d.identified, achievement |-> d.achievement,
                             from |-> d.from, until |-> d.until, status |-> d.status,
                             issuer |-> d.issuer, proofs |-> <<>>]
  BY <1>3, <1>5
<1> QED
  BY <1>1, <1>6

LEMMA PresentationData ==
    ASSUME NEW p, PresentationShape(p)
    PROVE  /\ Unsigned(p) = [context |-> p.context, terms |-> p.terms, holder |-> p.holder,
                             issuer |-> p.issuer, wrapped |-> p.wrapped, proofs |-> <<>>]
           /\ LinkedData(p) = [context |-> p.context, terms |-> "known", holder |-> p.holder,
                               issuer |-> p.issuer,
                               wrapped |-> [i \in DOMAIN p.wrapped |-> Known(p.wrapped[i])],
                               proofs |-> <<>>]
<1>1. Unsigned(p) = [context |-> p.context, terms |-> p.terms, holder |-> p.holder,
                             issuer |-> p.issuer, wrapped |-> p.wrapped, proofs |-> <<>>]
  BY DEF Unsigned, PresentationShape
<1>2. PICK e : e = Known(p)
  OBVIOUS
<1>3. e = [context |-> p.context, terms |-> "known", holder |-> p.holder,
           issuer |-> p.issuer, wrapped |-> p.wrapped, proofs |-> p.proofs]
  BY <1>2 DEF Known, PresentationShape
<1>4. "wrapped" \in DOMAIN p
  BY DEF PresentationShape
<1>5. PICK f : f = [e EXCEPT !.proofs = <<>>]
  OBVIOUS
<1>6. f = [context |-> p.context, terms |-> "known", holder |-> p.holder,
           issuer |-> p.issuer, wrapped |-> p.wrapped, proofs |-> <<>>]
  BY <1>3, <1>5
<1>7. LinkedData(p) = [f EXCEPT !.wrapped = [i \in DOMAIN @ |-> Known(@[i])]]
  BY <1>2, <1>4, <1>5 DEF LinkedData, Unsigned
<1>8. PICK w : w = [i \in DOMAIN f.wrapped |-> Known(f.wrapped[i])]
  OBVIOUS
<1>9. LinkedData(p) = [f EXCEPT !.wrapped = w]
  BY <1>7, <1>8
<1>10. LinkedData(p) = [context |-> p.context, terms |-> "known", holder |-> p.holder,
                        issuer |-> p.issuer, wrapped |-> w, proofs |-> <<>>]
  BY <1>6, <1>9
<1>11. w = [i \in DOMAIN p.wrapped |-> Known(p.wrapped[i])]
  BY <1>6, <1>8
<1> QED
  BY <1>1, <1>10, <1>11

\* To sign a document again, or to take its proofs away, changes nothing of what it says.
LEMMA ProofsAreApart ==
    ASSUME NEW x, Shaped(x), NEW s, NEW y, y = [x EXCEPT !.proofs = s]
    PROVE  /\ y.proofs = s
           /\ DocShape(x) => DocShape(y)
           /\ PresentationShape(x) => PresentationShape(y)
           /\ Unsigned(y) = Unsigned(x) /\ LinkedData(y) = LinkedData(x)
           /\ y.context = x.context
<1>1. CASE DocShape(x)
  <2>1. y = [context |-> x.context, terms |-> x.terms, schema |-> x.schema,
                             badge |-> x.badge, subject |-> x.subject,
                             identified |-> x.identified, achievement |-> x.achievement,
                             from |-> x.from, until |-> x.until, status |-> x.status,
                             issuer |-> x.issuer, proofs |-> s]
    BY <1>1 DEF DocShape
  <2>2. DocShape(y)
    BY <2>1 DEF DocShape
  <2>3. ~ PresentationShape(x)
    <3>1. "holder" \notin DOMAIN x
      BY <1>1 DEF DocShape
    <3> QED
      BY <3>1 DEF PresentationShape
  <2> QED
    BY <1>1, <2>1, <2>2, <2>3, DocumentData
<1>2. CASE PresentationShape(x)
  <2>1. y = [context |-> x.context, terms |-> x.terms, holder |-> x.holder,
             issuer |-> x.issuer, wrapped |-> x.wrapped, proofs |-> s]
    BY <1>2 DEF PresentationShape
  <2>2. PresentationShape(y)
    BY <2>1 DEF PresentationShape
  <2>3. ~ DocShape(x)
    <3>1. "holder" \in DOMAIN x
      BY <1>2 DEF PresentationShape
    <3> QED
      BY <3>1 DEF DocShape
  <2> QED
    BY <1>2, <2>1, <2>2, <2>3, PresentationData
<1> QED
  BY <1>1, <1>2 DEF Shaped

LEMMA UnsignedIsShaped ==
    ASSUME NEW x, Shaped(x)
    PROVE  /\ DocShape(x) => DocShape(Unsigned(x))
           /\ PresentationShape(x) => PresentationShape(Unsigned(x))
           /\ Unsigned(Unsigned(x)) = Unsigned(x) /\ LinkedData(Unsigned(x)) = LinkedData(x)
           /\ Payloads(Unsigned(x)) = Payloads(x)
<1>1. PICK y : y = [x EXCEPT !.proofs = <<>>]
  OBVIOUS
<1>2. y = Unsigned(x)
  BY <1>1 DEF Unsigned
<1>3. /\ DocShape(x) => DocShape(y)
      /\ PresentationShape(x) => PresentationShape(y)
      /\ Unsigned(y) = Unsigned(x) /\ LinkedData(y) = LinkedData(x)
  BY <1>1, ProofsAreApart
<1> QED
  BY <1>2, <1>3 DEF Payloads

\* A document with one proof.
Proven(x, q) == [x EXCEPT !.proofs = <<q>>]

\* A proof as it was asked for.
ProofAsAsked(q, x, type, suite, did, key, by) ==
    /\ ProofShape(q) /\ q.type = type /\ q.suite = suite
    /\ q.purpose = "assertionMethod" /\ q.did = did /\ q.key = key /\ q.by = by
    /\ q.about = Envelope(q)
    /\ type = "Ed25519Signature2020" => q.over = <<"linked data", LinkedData(x)>>
    /\ type # "Ed25519Signature2020" => q.over = <<"json", Unsigned(x)>>

LEMMA SealedAsAsked ==
    ASSUME NEW x, Shaped(x), NEW type, NEW suite, NEW did, NEW key, NEW by
    PROVE  \E q : /\ Sealed(x, type, suite, did, key, by) = Proven(x, q)
                  /\ ProofAsAsked(q, x, type, suite, did, key, by)
<1> DEFINE over == IF type = "Ed25519Signature2020"
                   THEN <<"linked data", LinkedData(x)>> ELSE <<"json", Unsigned(x)>>
           bare == [type |-> type, suite |-> suite, purpose |-> "assertionMethod",
                    did |-> did, key |-> key, by |-> by, over |-> over, about |-> <<>>]
<1>1. PICK o : o = over
  OBVIOUS
<1>2. PICK b : b = [type |-> type, suite |-> suite, purpose |-> "assertionMethod",
                    did |-> did, key |-> key, by |-> by, over |-> o, about |-> <<>>]
  OBVIOUS
<1>3. b = bare
  BY <1>1, <1>2
<1>4. PICK q : q = [b EXCEPT !.about = Envelope(b)]
  OBVIOUS
<1>5. Sealed(x, type, suite, did, key, by) = Proven(x, q)
  BY <1>3, <1>4 DEF Sealed, Proven
<1>6. q = [type |-> type, suite |-> suite, purpose |-> "assertionMethod",
           did |-> did, key |-> key, by |-> by, over |-> o, about |-> Envelope(b)]
  BY <1>2, <1>4
<1>7. ProofShape(q)
  BY <1>6 DEF ProofShape
<1>8. Envelope(q) = Envelope(b)
  BY <1>2, <1>6 DEF Envelope
<1>9. /\ q.type = type /\ q.suite = suite /\ q.purpose = "assertionMethod" /\ q.did = did
      /\ q.key = key /\ q.by = by /\ q.over = o /\ q.about = Envelope(b)
  BY <1>6
<1>10. q.about = Envelope(q)
  BY <1>8, <1>9
<1>11. /\ type = "Ed25519Signature2020" => o = <<"linked data", LinkedData(x)>>
       /\ type # "Ed25519Signature2020" => o = <<"json", Unsigned(x)>>
  BY <1>1
<1> HIDE DEF over, bare
<1>12. ProofAsAsked(q, x, type, suite, did, key, by)
  BY <1>7, <1>9, <1>10, <1>11 DEF ProofAsAsked
<1> QED
  BY <1>5, <1>12

LEMMA ValidIsSigned ==
    ASSUME NEW d, NEW q, NEW key, CheckedWith(d, q, key) = "valid"
    PROVE  q.by = key /\ q.over \in Payloads(d)
  BY DEF CheckedWith, Signature, Payloads

LEMMA CredentialIsSigned ==
    ASSUME NEW d, ListOf(d.proofs), NEW active, NEW kept,
           CredentialProof(d, active, kept) = "valid"
    PROVE  \E i \in DOMAIN d.proofs :
              /\ d.proofs[i].by \in {active} \cup kept
              /\ d.proofs[i].over \in Payloads(d)
<1>1. d.proofs # <<>>
  BY DEF CredentialProof
<1>2. PICK i \in DOMAIN d.proofs : SelectedProof(d) = d.proofs[i]
  BY <1>1, SelectedIsThere
<1>3. PICK q : q = d.proofs[i]
  OBVIOUS
<1>4. CheckedWith(d, q, q.key) = "valid" /\ q.key \in {active} \cup kept
  BY <1>2, <1>3 DEF CredentialProof, KeyIds
<1> QED
  BY <1>3, <1>4, ValidIsSigned

\* Whom a key signs for.
DidOf(key) == IF key \in SigningKeys THEN TenantDid ELSE key

\* A document that goes about: whatever became of it and of its proofs since, each proof
\* is the tenant's signature of something the program was to sign.
DocumentFits(d, signed) ==
    /\ DocShape(d) /\ ListOf(d.proofs)
    /\ d.status.index = BadgeIndex => d.status.form = "object"
    /\ \A i \in DOMAIN d.proofs :
        /\ ProofShape(d.proofs[i])
        /\ \E m \in signed : /\ m[1] = TenantDid /\ DocShape(m[2])
                             /\ d.proofs[i].over \in Payloads(m[2])

\* A presentation: each proof is a signature by whoever has its key, of a presentation with
\* the issuer this one has.
PresentationFits(p, signed) ==
    /\ PresentationShape(p) /\ p.holder \in Holders \cup {TenantDid}
    /\ ListOf(p.wrapped) /\ \A i \in DOMAIN p.wrapped : DocumentFits(p.wrapped[i], signed)
    /\ ListOf(p.proofs)
    /\ \A i \in DOMAIN p.proofs :
        /\ ProofShape(p.proofs[i])
        /\ \E m \in signed : /\ m[1] = DidOf(p.proofs[i].by) /\ PresentationShape(m[2])
                             /\ m[2].issuer = p.issuer
                             /\ p.proofs[i].over \in Payloads(m[2])

\* The badge, as it was issued on some day with a key of the tenant.
IssuedFits(d, today, keys) ==
    \E subject, origin : \E from \in 0 .. today, k \in keys \ EcKeys :
        d = Sealed(BadgeDocument(subject, from, origin), "Ed25519Signature2020", Nothing,
                   TenantDid, k, k)

\* A document as it was signed with a key of the tenant.
UnalteredFits(d, keys) ==
    \E x : \E t \in Suites, k \in keys :
        /\ DocShape(x) /\ x.context = "vc" /\ x.issuer = TenantDid /\ Fits(k, t[1], t[2])
        /\ d = Sealed(x, t[1], t[2], TenantDid, k, k)

CopiesFit ==
    /\ ListOf(copies) /\ Len(copies) <= 1 + Len(badge)
    /\ \A i \in DOMAIN copies : DocumentFits(copies[i], made)

BadgeFits ==
    \/ badge = <<>>
    \/ \E d : /\ badge = <<d>> /\ DocumentFits(d, made)
              /\ IssuedFits(d, day, KeyIds(activeKey, keptKeys))

PresentedFits == presented = <<>> \/ \E p : presented = <<p>> /\ PresentationFits(p, made)

UnalteredFit ==
    liberties = 0 =>
        \A i \in DOMAIN copies : UnalteredFits(copies[i], KeyIds(activeKey, keptKeys))

\* What the program made of the badge is presented, unless it was altered.
CreatedFits ==
    liberties = 0 /\ (\E m \in made : m[1] = "created") =>
        \E h \in Holders :
            /\ badge # <<>> /\ badge[1].subject = h
            /\ presented = <<Sealed(Presentation(h, Nothing, badge), "Ed25519Signature2020",
                                    Nothing, h, h, h)>>

\* The answer of the last request is of the state as it is.
ReplyFits ==
    /\ answer.to = "present" => presented # <<>> /\ answer.status \in {Verdict, "error"}
    /\ answer.to = "lookup" =>
        /\ badge # <<>>
        /\ answer.status =
               LifecycleOf(badge[1], RevokedFor(badge[1], StatusFor(ApiOrigin)), day)
        /\ answer.proof = CredentialProof(badge[1], activeKey, keptKeys)

PresentTyped ==
    /\ day \in 0 .. MaxDays
    /\ activeKey \in SigningKeys /\ keptKeys \subseteq SigningKeys \ {activeKey}
    /\ signer \in {"local", "remote"}
    /\ badgeRevoked \in BOOLEAN
    /\ liberties \in 0 .. MaxLiberties
    /\ answer.to \in {"none", "sign", "create", "present", "lookup"}

PresentInv ==
    /\ PresentTyped
    /\ CopiesFit /\ BadgeFits /\ PresentedFits /\ UnalteredFit /\ CreatedFits
    /\ ReplyFits

-----------------------------------------------------------------------------
(* What is accepted was signed.                                              *)

LEMMA PayloadsAgree ==
    ASSUME NEW x, Shaped(x), NEW y, Shaped(y), NEW o, o \in Payloads(x), o \in Payloads(y)
    PROVE  LinkedData(x) = LinkedData(y)
<1>1. LinkedData(Unsigned(x)) = LinkedData(x) /\ LinkedData(Unsigned(y)) = LinkedData(y)
  BY UnsignedIsShaped
<1>2. PICK u, v : u = Unsigned(x) /\ v = Unsigned(y)
  OBVIOUS
<1>3. PICK f, g : f = LinkedData(x) /\ g = LinkedData(y)
  OBVIOUS
<1>4. o \in {<<"json", u>>, <<"linked data", f>>} /\ o \in {<<"json", v>>, <<"linked data", g>>}
  BY <1>2, <1>3 DEF Payloads
<1>5. o = <<"json", u>> \/ o = <<"linked data", f>>
  BY <1>4
<1>6. o = <<"json", v>> \/ o = <<"linked data", g>>
  BY <1>4
<1>7. <<"json", u>> # <<"linked data", g>> /\ <<"linked data", f>> # <<"json", v>>
  OBVIOUS
<1>8. /\ <<"json", u>> = <<"json", v>> => u = v
      /\ <<"linked data", f>> = <<"linked data", g>> => f = g
  OBVIOUS
<1>9. u = v \/ f = g
  BY <1>5, <1>6, <1>7, <1>8, Zenon
<1> QED
  BY <1>1, <1>2, <1>3, <1>9

LEMMA HolderSigned ==
    ASSUME NEW p, NEW signed, PresentationFits(p, signed),
           NEW active \in SigningKeys, NEW kept, kept \subseteq SigningKeys,
           HolderProof(p, active, kept) = "valid"
    PROVE  \E m \in signed : m[1] = p.holder /\ LinkedData(m[2]) = LinkedData(p)
<1>1. PresentationShape(p) /\ ListOf(p.proofs) /\ Shaped(p)
  BY DEF PresentationFits, Shaped
<1>2. CASE p.holder \in Holders
  <2>1. p.proofs # <<>> /\ CheckedWith(p, SelectedProof(p), p.holder) = "valid"
    BY <1>2 DEF HolderProof
  <2>2. PICK i \in DOMAIN p.proofs : SelectedProof(p) = p.proofs[i]
    BY <1>1, <2>1, SelectedIsThere
  <2>3. PICK q : q = p.proofs[i]
    OBVIOUS
  <2>4. q.by = p.holder /\ q.over \in Payloads(p)
    BY <2>1, <2>2, <2>3, ValidIsSigned
  <2>5. PICK m \in signed : /\ m[1] = DidOf(q.by) /\ PresentationShape(m[2])
                            /\ q.over \in Payloads(m[2])
    BY <2>3 DEF PresentationFits
  <2>6. m[1] = p.holder
    BY <1>2, <2>4, <2>5, HoldersAssumption DEF DidOf
  <2>7. LinkedData(m[2]) = LinkedData(p)
    BY <1>1, <2>4, <2>5, PayloadsAgree DEF Shaped
  <2> QED
    BY <2>6, <2>7
<1>3. CASE p.holder \notin Holders
  <2>1. p.holder = TenantDid
    BY <1>3 DEF PresentationFits
  <2>2. PICK d : d = [p EXCEPT !.issuer = TenantDid]
    OBVIOUS
  <2>3. d = [context |-> p.context, terms |-> p.terms, holder |-> p.holder,
             issuer |-> TenantDid, wrapped |-> p.wrapped, proofs |-> p.proofs]
    BY <1>1, <2>2 DEF PresentationShape
  <2>4. PresentationShape(d) /\ ListOf(d.proofs)
    BY <1>1, <2>3 DEF PresentationShape
  <2>5. CredentialProof(d, active, kept) = "valid"
    BY <1>3, <2>1, <2>2 DEF HolderProof
  <2>6. PICK i \in DOMAIN p.proofs : /\ p.proofs[i].by \in {active} \cup kept
                                     /\ p.proofs[i].over \in Payloads(d)
    BY <2>3, <2>4, <2>5, CredentialIsSigned
  <2>7. PICK q : q = p.proofs[i]
    OBVIOUS
  <2>8. PICK m \in signed : /\ m[1] = DidOf(q.by) /\ PresentationShape(m[2])
                            /\ m[2].issuer = p.issuer /\ q.over \in Payloads(m[2])
    BY <2>7 DEF PresentationFits
  <2>9. m[1] = TenantDid
    BY <2>6, <2>7, <2>8 DEF DidOf
  <2>10. LinkedData(m[2]) = LinkedData(d)
    BY <2>4, <2>6, <2>7, <2>8, PayloadsAgree DEF Shaped
  <2>11. m[2].issuer = TenantDid
    <3>1. PICK u : u = m[2]
      OBVIOUS
    <3>2. PresentationShape(u) /\ LinkedData(u) = LinkedData(d)
      BY <2>8, <2>10, <3>1
    <3>3. LinkedData(u).issuer = u.issuer /\ LinkedData(d).issuer = d.issuer
      BY <2>4, <3>2, PresentationData
    <3> QED
      BY <2>3, <3>1, <3>2, <3>3
  <2>12. d = p
    BY <1>1, <2>3, <2>8, <2>11 DEF PresentationShape
  <2> QED
    BY <2>1, <2>9, <2>10, <2>12
<1> QED
  BY <1>2, <1>3

LEMMA PassedIsSigned ==
    ASSUME NEW d, NEW signed, DocumentFits(d, signed), NEW active, NEW kept, NEW holder,
           NEW at, NEW lists,
           PassesPresented(d, holder, at, lists, CredentialProof(d, active, kept))
    PROVE  \E m \in signed : m[1] = TenantDid /\ LinkedData(m[2]) = Unsigned(d)
<1>1. CredentialProof(d, active, kept) = "valid" /\ d.terms = "known"
  BY DEF PassesPresented, SafeMode, Validity
<1>2. DocShape(d) /\ ListOf(d.proofs)
  BY DEF DocumentFits
<1>3. PICK i \in DOMAIN d.proofs : d.proofs[i].over \in Payloads(d)
  BY <1>1, <1>2, CredentialIsSigned
<1>4. PICK m \in signed : /\ m[1] = TenantDid /\ DocShape(m[2])
                          /\ d.proofs[i].over \in Payloads(m[2])
  BY DEF DocumentFits
<1>5. LinkedData(m[2]) = LinkedData(d)
  BY <1>2, <1>3, <1>4, PayloadsAgree DEF Shaped
<1>6. LinkedData(d) = Unsigned(d)
  BY <1>1, <1>2, DocumentData
<1> QED
  BY <1>4, <1>5, <1>6

\* A badge that passes is not on the list that it names.
LEMMA PassedIsActive ==
    ASSUME NEW d, NEW signed, DocumentFits(d, signed), NEW holder, NEW at, NEW proof,
           PassesPresented(d, holder, at, Lists, proof), d.status.index = BadgeIndex
    PROVE  ~ badgeRevoked
<1>1. PICK own : own = OwnReference(d)
  OBVIOUS
<1>2. d.status.form = "object"
  BY DEF DocumentFits
<1>3. StatusCheck(d, own, Lists) # "invalid" /\ LifecycleOf(d, BitSet(d, own, Lists), at) = "active"
  BY <1>1 DEF PassesPresented
<1>4. StatusRead(d, own, Lists)
  BY <1>2, <1>3 DEF StatusCheck, Validity
<1>5. ~ BitSet(d, own, Lists)
  BY <1>3 DEF LifecycleOf
<1>6. d.status.list \in DOMAIN Lists /\ BadgeIndex \notin Lists[d.status.list]
  BY <1>4, <1>5 DEF StatusRead, BitSet
<1>7. Lists[d.status.list] = IF badgeRevoked THEN {BadgeIndex} ELSE {}
  BY <1>6 DEF Lists
<1> QED
  BY <1>6, <1>7

LEMMA WhatIsAcceptedWasSigned ==
    ASSUME PresentInv
    PROVE  AcceptedIsAsSigned
<1> SUFFICES ASSUME Accepted
             PROVE  AcceptedIsAsSigned
  BY DEF AcceptedIsAsSigned
<1>1. presented # <<>> /\ Verdict = "valid"
  BY DEF Accepted, PresentInv, ReplyFits
<1>2. PICK p : presented = <<p>> /\ PresentationFits(p, made)
  BY <1>1 DEF PresentInv, PresentedFits
<1>3. presented[1] = p
  BY <1>2
<1>4. /\ HolderProof(p, activeKey, keptKeys) = "valid"
      /\ \A i \in DOMAIN p.wrapped :
            PassesPresented(p.wrapped[i], p.holder, day, Lists,
                            CredentialProof(p.wrapped[i], activeKey, keptKeys))
  BY <1>1, <1>3 DEF Verdict, HolderProves, ProofIn
<1>5. activeKey \in SigningKeys /\ keptKeys \subseteq SigningKeys
  BY DEF PresentInv, PresentTyped
<1>6. \E m \in made : m[1] = p.holder /\ LinkedData(m[2]) = LinkedData(p)
  BY <1>2, <1>4, <1>5, HolderSigned
<1>7. ASSUME NEW i \in DOMAIN p.wrapped, NEW d, d = p.wrapped[i]
      PROVE  /\ \E m \in made : m[1] = TenantDid /\ LinkedData(m[2]) = Unsigned(d)
             /\ d.subject = p.holder
             /\ d.status.index = BadgeIndex => ~ badgeRevoked
  <2>1. DocumentFits(d, made)
    BY <1>2, <1>7 DEF PresentationFits
  <2>2. PassesPresented(d, p.holder, day, Lists, CredentialProof(d, activeKey, keptKeys))
    BY <1>4, <1>7
  <2>3. d.subject = p.holder
    BY <2>2 DEF PassesPresented
  <2> QED
    BY <2>1, <2>2, <2>3, PassedIsSigned, PassedIsActive
<1> QED
  BY <1>3, <1>6, <1>7 DEF AcceptedIsAsSigned

LEMMA SealedIsSigned ==
    ASSUME NEW x, Shaped(x), x.context = "vc", NEW type, NEW suite, <<type, suite>> \in Suites,
           NEW did, NEW by, Fits(by, type, suite),
           NEW d, d = Sealed(x, type, suite, did, by, by)
    PROVE  \E q : /\ d = Proven(x, q) /\ d.proofs = <<q>> /\ SelectedProof(d) = q
                  /\ ~ Incomplete(q) /\ q.purpose = "assertionMethod" /\ q.did = did
                  /\ q.key = by /\ q.by = by
                  /\ CheckedWith(d, q, by) = "valid"
<1>1. PICK q : d = Proven(x, q) /\ ProofAsAsked(q, x, type, suite, did, by, by)
  BY SealedAsAsked
<1>2. /\ ProofShape(q) /\ q.type = type /\ q.suite = suite
      /\ q.purpose = "assertionMethod" /\ q.did = did /\ q.key = by /\ q.by = by
      /\ q.about = Envelope(q)
      /\ type = "Ed25519Signature2020" => q.over = <<"linked data", LinkedData(x)>>
      /\ type # "Ed25519Signature2020" => q.over = <<"json", Unsigned(x)>>
  BY <1>1 DEF ProofAsAsked
<1>3. PICK s : s = <<q>>
  OBVIOUS
<1>4. d = [x EXCEPT !.proofs = s]
  BY <1>3, <1>1 DEF Proven
<1>5. /\ d.proofs = s /\ Unsigned(d) = Unsigned(x) /\ LinkedData(d) = LinkedData(x)
      /\ d.context = "vc"
  BY <1>4, ProofsAreApart
<1>6. SelectedProof(d) = q
  BY <1>3, <1>5, OnlyProofIsSelected
<1>7. type \in {"Ed25519Signature2020", "DataIntegrityProof"}
  BY DEF Suites
<1>8. q.over # <<>>
  <2>1. <<"linked data", LinkedData(x)>> # <<>> /\ <<"json", Unsigned(x)>> # <<>>
    OBVIOUS
  <2> QED
    BY <1>2, <2>1
<1>9. ~ Incomplete(q)
  BY <1>2, <1>7, <1>8 DEF Incomplete, Nothing
<1>10. Signature(d, q, by) = "valid"
  <2>1. q.over = <<"json", Unsigned(d)>>
        \/ (q.type = "Ed25519Signature2020" /\ q.over = <<"linked data", LinkedData(d)>>)
    BY <1>2, <1>5, <1>7
  <2>2. d.context # Nothing
    BY <1>5 DEF Nothing
  <2> QED
    BY <1>2, <2>1, <2>2 DEF Signature
<1>11. CheckedWith(d, q, by) = "valid"
  BY <1>2, <1>7, <1>10 DEF CheckedWith
<1> QED
  BY <1>2, <1>3, <1>5, <1>6, <1>9, <1>11, <1>1

LEMMA CredentialProves ==
    ASSUME NEW x, DocShape(x), x.context = "vc", x.issuer = TenantDid,
           NEW type, NEW suite, <<type, suite>> \in Suites,
           NEW active \in SigningKeys, NEW kept, kept \subseteq SigningKeys,
           NEW k \in KeyIds(active, kept), Fits(k, type, suite),
           NEW d, d = Sealed(x, type, suite, TenantDid, k, k)
    PROVE  CredentialProof(d, active, kept) = "valid" /\ SelectedProof(d).key = k
<1>1. PICK q : /\ d = Proven(x, q) /\ d.proofs = <<q>> /\ SelectedProof(d) = q
               /\ ~ Incomplete(q) /\ q.purpose = "assertionMethod" /\ q.did = TenantDid
               /\ q.key = k /\ q.by = k
               /\ CheckedWith(d, q, k) = "valid"
  BY SealedIsSigned DEF Shaped
<1>2. d.issuer = TenantDid
  BY <1>1 DEF DocShape, Proven
<1>3. d.proofs # <<>>
  <2>1. <<q>> # <<>>
    OBVIOUS
  <2> QED
    BY <1>1, <2>1
<1>4. k # Nothing
  BY HoldersAssumption DEF KeyIds
<1> QED
  BY <1>1, <1>2, <1>3, <1>4 DEF CredentialProof, TenantDid, Nothing

LEMMA HolderProvesItself ==
    ASSUME NEW p, PresentationShape(p), p.context = "vc", NEW h \in Holders, p.holder = h,
           NEW d, d = Sealed(p, "Ed25519Signature2020", Nothing, h, h, h), NEW active, NEW kept
    PROVE  HolderProof(d, active, kept) = "valid"
<1>1. Fits(h, "Ed25519Signature2020", Nothing)
  BY CurvesAssumption, HoldersAssumption DEF Fits
<1>2. <<"Ed25519Signature2020", Nothing>> \in Suites
  BY DEF Suites
<1>3. PICK q : /\ d = Proven(p, q) /\ d.proofs = <<q>> /\ SelectedProof(d) = q
               /\ ~ Incomplete(q) /\ q.purpose = "assertionMethod" /\ q.did = h
               /\ q.key = h /\ q.by = h
               /\ CheckedWith(d, q, h) = "valid"
  BY <1>1, <1>2, SealedIsSigned DEF Shaped
<1>4. d.holder = h
  BY <1>3 DEF PresentationShape, Proven
<1>5. d.proofs # <<>>
  <2>1. <<q>> # <<>>
    OBVIOUS
  <2> QED
    BY <1>3, <2>1
<1> QED
  BY <1>3, <1>4, <1>5 DEF HolderProof

\* The badge as it was issued.
IssuedAs(d, today) ==
    /\ \E origin : d.status = StatusFor(origin)
    /\ d.context = "vc" /\ d.terms = "known" /\ d.schema = NoSchemas /\ d.identified = TRUE
    /\ d.achievement = "typed" /\ d.from \in 0 .. today /\ d.until = Missing

LEMMA BadgeShape ==
    ASSUME NEW subject, NEW from, NEW origin, NEW x, x = BadgeDocument(subject, from, origin)
    PROVE  /\ DocShape(x) /\ x.context = "vc" /\ x.issuer = TenantDid /\ x.proofs = <<>>
           /\ x.terms = "known" /\ x.schema = NoSchemas /\ x.identified = TRUE
           /\ x.achievement = "typed" /\ x.from = from /\ x.until = Missing
           /\ x.status = StatusFor(origin) /\ x.subject = subject
  BY DEF BadgeDocument, DocShape

LEMMA IssuedProves ==
    ASSUME NEW d, NEW today \in Nat, NEW active \in SigningKeys, NEW kept,
           kept \subseteq SigningKeys, IssuedFits(d, today, KeyIds(active, kept))
    PROVE  IssuedAs(d, today) /\ CredentialProof(d, active, kept) = "valid"
<1>1. PICK subject, origin : \E from \in 0 .. today, k \in KeyIds(active, kept) \ EcKeys :
        d = Sealed(BadgeDocument(subject, from, origin), "Ed25519Signature2020", Nothing,
                   TenantDid, k, k)
  BY DEF IssuedFits
<1>2. PICK from \in 0 .. today, k \in KeyIds(active, kept) \ EcKeys :
        d = Sealed(BadgeDocument(subject, from, origin), "Ed25519Signature2020", Nothing,
                   TenantDid, k, k)
  BY <1>1
<1>3. PICK x : x = BadgeDocument(subject, from, origin)
  OBVIOUS
<1>4. /\ DocShape(x) /\ x.context = "vc" /\ x.issuer = TenantDid
      /\ x.terms = "known" /\ x.schema = NoSchemas /\ x.identified = TRUE
      /\ x.achievement = "typed" /\ x.from = from /\ x.until = Missing
      /\ x.status = StatusFor(origin)
  BY <1>3 DEF BadgeDocument, DocShape
<1>5. Fits(k, "Ed25519Signature2020", Nothing) /\ <<"Ed25519Signature2020", Nothing>> \in Suites
  BY DEF Fits, Suites
<1>6. d = Sealed(x, "Ed25519Signature2020", Nothing, TenantDid, k, k)
  BY <1>2, <1>3
<1>7. CredentialProof(d, active, kept) = "valid"
  BY <1>4, <1>5, <1>6, CredentialProves
<1>8. PICK q : d = Proven(x, q)
  BY <1>4, <1>6, SealedAsAsked DEF Shaped
<1>9. IssuedAs(d, today)
  <2>1. /\ d.context = x.context /\ d.terms = x.terms /\ d.schema = x.schema
        /\ d.identified = x.identified /\ d.achievement = x.achievement /\ d.from = x.from
        /\ d.until = x.until /\ d.status = x.status
    BY <1>4, <1>8 DEF DocShape, Proven
  <2> QED
    BY <1>4, <2>1 DEF IssuedAs
<1> QED
  BY <1>7, <1>9

LEMMA SignedVerifies ==
    ASSUME PresentInv
    PROVE  SignedIsVerifiable
<1> SUFFICES ASSUME NEW i \in DOMAIN copies, liberties = 0
             PROVE  /\ CredentialProof(copies[i], activeKey, keptKeys) = "valid"
                    /\ SelectedProof(copies[i]).key \in Jwks(activeKey, keptKeys)
  BY DEF SignedIsVerifiable
<1>1. PICK d : d = copies[i]
  OBVIOUS
<1>2. UnalteredFits(d, KeyIds(activeKey, keptKeys))
  BY <1>1 DEF PresentInv, UnalteredFit
<1>3. PICK x : \E t \in Suites, k \in KeyIds(activeKey, keptKeys) :
        /\ DocShape(x) /\ x.context = "vc" /\ x.issuer = TenantDid /\ Fits(k, t[1], t[2])
        /\ d = Sealed(x, t[1], t[2], TenantDid, k, k)
  BY <1>2 DEF UnalteredFits
<1>4. PICK t \in Suites, k \in KeyIds(activeKey, keptKeys) :
        /\ DocShape(x) /\ x.context = "vc" /\ x.issuer = TenantDid /\ Fits(k, t[1], t[2])
        /\ d = Sealed(x, t[1], t[2], TenantDid, k, k)
  BY <1>3
<1>5. activeKey \in SigningKeys /\ keptKeys \subseteq SigningKeys
  BY DEF PresentInv, PresentTyped
<1>6. <<t[1], t[2]>> \in Suites
  BY DEF Suites
<1>7. CredentialProof(d, activeKey, keptKeys) = "valid" /\ SelectedProof(d).key = k
  BY <1>4, <1>5, <1>6, CredentialProves
<1>8. k \in Jwks(activeKey, keptKeys)
  BY DEF KeyIds, Jwks
<1> QED
  BY <1>1, <1>7, <1>8

LEMMA LookedUpRight ==
    ASSUME PresentInv
    PROVE  LookUpIsRight
<1> SUFFICES ASSUME answer.to = "lookup"
             PROVE  /\ answer.status = IF badgeRevoked THEN "revoked" ELSE "active"
                    /\ answer.proof = "valid"
  BY DEF LookUpIsRight
<1>1. PICK d : badge = <<d>> /\ IssuedFits(d, day, KeyIds(activeKey, keptKeys))
  BY DEF PresentInv, BadgeFits, ReplyFits
<1>2. badge[1] = d
  BY <1>1
<1>3. /\ activeKey \in SigningKeys /\ keptKeys \subseteq SigningKeys /\ day \in Nat
      /\ badgeRevoked \in BOOLEAN
  BY PresentationsAssumption DEF PresentInv, PresentTyped
<1>4. IssuedAs(d, day) /\ CredentialProof(d, activeKey, keptKeys) = "valid"
  BY <1>1, <1>3, IssuedProves
<1>5. PICK expected : expected = StatusFor(ApiOrigin)
  OBVIOUS
<1>6. /\ answer.status = LifecycleOf(d, RevokedFor(d, expected), day)
      /\ answer.proof = CredentialProof(d, activeKey, keptKeys)
  BY <1>2, <1>5 DEF PresentInv, ReplyFits
<1>7. RevokedFor(d, expected) = badgeRevoked
  <2>1. CASE StatusCheck(d, expected, Lists) = "valid"
    <3>1. StatusRead(d, expected, Lists)
      BY <2>1 DEF StatusCheck, Validity
    <3>2. d.status.index = BadgeIndex /\ d.status.list \in DOMAIN Lists
      BY <3>1, <1>5 DEF StatusRead, StatusFor
    <3>3. Lists[d.status.list] = IF badgeRevoked THEN {BadgeIndex} ELSE {}
      BY <3>2 DEF Lists
    <3>4. BitSet(d, expected, Lists) = (BadgeIndex \in Lists[d.status.list])
      BY <3>1, <3>2 DEF BitSet
    <3> QED
      BY <1>3, <2>1, <3>3, <3>4 DEF RevokedFor
  <2>2. CASE StatusCheck(d, expected, Lists) # "valid"
    BY <2>2 DEF RevokedFor
  <2> QED
    BY <2>1, <2>2
<1>8. d.until \notin Nat
  BY <1>4 DEF IssuedAs, Missing
<1>9. LifecycleOf(d, badgeRevoked, day) = IF badgeRevoked THEN "revoked" ELSE "active"
  BY <1>3, <1>8 DEF LifecycleOf
<1> QED
  BY <1>4, <1>6, <1>7, <1>9

LEMMA IssuedPasses ==
    ASSUME NEW d, NEW today \in Nat, IssuedAs(d, today), NEW h \in Holders, d.subject = h,
           ~ badgeRevoked, d.status.list \in DOMAIN Lists
    PROVE  PassesPresented(d, h, today, Lists, "valid")
<1>1. PICK origin : d.status = StatusFor(origin)
  BY DEF IssuedAs
<1>2. /\ d.status.form = "object" /\ d.status.type = "entry" /\ d.status.purpose = "revocation"
      /\ d.status.index = BadgeIndex /\ d.status.list = ListUrl(origin)
  BY <1>1 DEF StatusFor
<1>3. ListUrl(origin) # <<>>
  BY DEF ListUrl
<1>4. OwnReference(d) = d.status
  BY <1>2, <1>3 DEF OwnReference, Nothing, Missing, BadgeIndex
<1>5. d.status # NoStatus
  BY <1>2 DEF NoStatus
<1>6. StatusRead(d, d.status, Lists)
  BY <1>2, <1>5 DEF StatusRead, BadgeIndex
<1>7. StatusCheck(d, d.status, Lists) = "valid"
  BY <1>2, <1>6 DEF StatusCheck, Validity
<1>8. Lists[d.status.list] = {}
  BY DEF Lists
<1>9. BitSet(d, d.status, Lists) = FALSE
  BY <1>8 DEF BitSet
<1>10. d.until = Missing /\ d.until \notin Nat /\ d.from \in 0 .. today
  BY DEF IssuedAs, Missing
<1>11. LifecycleOf(d, BitSet(d, d.status, Lists), today) = "active"
  BY <1>9, <1>10 DEF LifecycleOf
<1>12. DatesCheck(d, today) = "valid"
  BY <1>10 DEF DatesCheck, Validity, Missing, Garbled
<1>13. SubjectCheck(d) = "valid"
  <2>1. d.subject # Nothing /\ d.achievement = "typed"
    BY HoldersAssumption DEF IssuedAs
  <2> QED
    BY <2>1 DEF SubjectCheck, Validity
<1>14. SchemaCheck(d) = "unchecked" /\ SafeMode(d) = "valid"
  <2>1. d.schema.given = FALSE /\ d.context = "vc" /\ d.terms = "known"
    BY DEF IssuedAs, NoSchemas
  <2> QED
    BY <2>1 DEF SchemaCheck, SafeMode, Validity
<1> QED
  BY <1>4, <1>7, <1>11, <1>12, <1>13, <1>14 DEF PassesPresented

LEMMA CreatedPasses ==
    ASSUME PresentInv
    PROVE  CreatedIsAccepted
<1> SUFFICES ASSUME answer.to = "present", \E m \in made : m[1] = "created", liberties = 0,
                    ~ badgeRevoked, badge[1].status.list \in DOMAIN Lists
             PROVE  answer.status \in {"valid", "error"}
  <2>1. PICK u : u = Unsigned(presented[1])
    OBVIOUS
  <2>2. <<"created", u>> \in made => \E m \in made : m[1] = "created"
    OBVIOUS
  <2> QED
    BY <2>1, <2>2 DEF CreatedIsAccepted
<1>1. PICK h \in Holders :
        /\ badge # <<>> /\ badge[1].subject = h
        /\ presented = <<Sealed(Presentation(h, Nothing, badge), "Ed25519Signature2020",
                                Nothing, h, h, h)>>
  BY DEF PresentInv, CreatedFits
<1>2. PICK d : badge = <<d>> /\ IssuedFits(d, day, KeyIds(activeKey, keptKeys))
  BY <1>1 DEF PresentInv, BadgeFits
<1>3. badge[1] = d
  BY <1>2
<1>4. activeKey \in SigningKeys /\ keptKeys \subseteq SigningKeys /\ day \in Nat
  BY PresentationsAssumption DEF PresentInv, PresentTyped
<1>5. IssuedAs(d, day) /\ CredentialProof(d, activeKey, keptKeys) = "valid"
  BY <1>2, <1>4, IssuedProves
<1>6. PICK p : p = Presentation(h, Nothing, badge)
  OBVIOUS
<1>7. /\ PresentationShape(p) /\ p.context = "vc" /\ p.holder = h /\ p.wrapped = badge
  BY <1>6 DEF Presentation, PresentationShape
<1>8. PICK s : s = Sealed(p, "Ed25519Signature2020", Nothing, h, h, h)
  OBVIOUS
<1>9. presented[1] = s
  BY <1>1, <1>6, <1>8
<1>10. HolderProof(s, activeKey, keptKeys) = "valid"
  BY <1>7, <1>8, HolderProvesItself
<1>11. s.context = "vc" /\ s.holder = h /\ s.wrapped = badge
  <2>1. PICK q : s = Proven(p, q)
    BY <1>7, <1>8, SealedAsAsked DEF Shaped
  <2> QED
    BY <1>7, <2>1 DEF PresentationShape, Proven
<1>12. DOMAIN badge = {1}
  BY <1>2
<1>13. PassesPresented(d, h, day, Lists, "valid")
  BY <1>1, <1>3, <1>4, <1>5, IssuedPasses
<1>14. Verdict = "valid"
  <2>1. HolderProves = "valid"
    BY <1>9, <1>10 DEF HolderProves
  <2>2. ProofIn(1) = "valid" /\ s.wrapped[1] = d /\ DOMAIN s.wrapped = {1}
    BY <1>3, <1>5, <1>9, <1>11, <1>12 DEF ProofIn
  <2>3. s.wrapped # <<>>
    BY <1>1, <1>11
  <2> QED
    BY <1>9, <1>11, <1>13, <2>1, <2>2, <2>3 DEF Verdict
<1> QED
  BY <1>14 DEF PresentInv, ReplyFits

LEMMA PresentTypes ==
    ASSUME PresentInv
    PROVE  PresentTypeOK
<1>1. Len(badge) = 0 \/ Len(badge) = 1
  <2>1. ASSUME NEW d PROVE Len(<<d>>) = 1
    OBVIOUS
  <2> QED
    BY <2>1 DEF PresentInv, BadgeFits
<1>2. Len(presented) <= 1
  <2>1. ASSUME NEW d PROVE Len(<<d>>) = 1
    OBVIOUS
  <2> QED
    BY <2>1 DEF PresentInv, PresentedFits
<1>3. Len(copies) <= 2
  <2>1. Len(copies) \in Nat /\ Len(copies) <= 1 + Len(badge)
    BY ListsAre DEF PresentInv, CopiesFit
  <2>2. PICK n, k : n = Len(copies) /\ k = Len(badge)
    OBVIOUS
  <2>3. n \in Nat /\ n <= 1 + k /\ (k = 0 \/ k = 1)
    BY <1>1, <2>1, <2>2
  <2>4. n <= 2
    BY <2>3
  <2> QED
    BY <2>2, <2>4
<1>4. Len(badge) <= 1
  <2>1. PICK k : k = Len(badge)
    OBVIOUS
  <2>2. k <= 1
    BY <1>1, <2>1
  <2> QED
    BY <2>1, <2>2
<1>5. PresentTyped
  BY DEF PresentInv
<1> QED
  BY <1>2, <1>3, <1>4, <1>5 DEF PresentTyped, PresentTyped, PresentTypeOK

(* What fits goes on to fit as more is signed and kept.                      *)

LEMMA DocumentsGrow ==
    ASSUME NEW d, NEW A, NEW B, A \subseteq B, DocumentFits(d, A)
    PROVE  DocumentFits(d, B)
  BY DEF DocumentFits

LEMMA PresentationsGrow ==
    ASSUME NEW p, NEW A, NEW B, A \subseteq B, PresentationFits(p, A)
    PROVE  PresentationFits(p, B)
<1>1. \A i \in DOMAIN p.wrapped : DocumentFits(p.wrapped[i], B)
  BY DocumentsGrow DEF PresentationFits
<1>2. ASSUME NEW i \in DOMAIN p.proofs
      PROVE  /\ ProofShape(p.proofs[i])
             /\ \E m \in B : /\ m[1] = DidOf(p.proofs[i].by) /\ PresentationShape(m[2])
                             /\ m[2].issuer = p.issuer
                             /\ p.proofs[i].over \in Payloads(m[2])
  BY DEF PresentationFits
<1> QED
  BY <1>1, <1>2 DEF PresentationFits

LEMMA IssuedGrow ==
    ASSUME NEW d, NEW s \in Nat, NEW t \in Nat, s <= t, NEW K, NEW L, K \subseteq L,
           IssuedFits(d, s, K)
    PROVE  IssuedFits(d, t, L)
<1>1. PICK subject, origin : \E from \in 0 .. s, k \in K \ EcKeys :
        d = Sealed(BadgeDocument(subject, from, origin), "Ed25519Signature2020", Nothing,
                   TenantDid, k, k)
  BY DEF IssuedFits
<1>2. PICK from \in 0 .. s, k \in K \ EcKeys :
        d = Sealed(BadgeDocument(subject, from, origin), "Ed25519Signature2020", Nothing,
                   TenantDid, k, k)
  BY <1>1
<1>3. from \in 0 .. t /\ k \in L \ EcKeys
  OBVIOUS
<1> QED
  BY <1>2, <1>3 DEF IssuedFits

LEMMA UnalteredGrow ==
    ASSUME NEW d, NEW K, NEW L, K \subseteq L, UnalteredFits(d, K)
    PROVE  UnalteredFits(d, L)
  BY DEF UnalteredFits

-----------------------------------------------------------------------------
(* What is signed fits.                                                      *)

LEMMA ProofMadeFor ==
    ASSUME NEW x, Shaped(x), NEW type, NEW suite, NEW did, NEW key, NEW by, NEW q,
           ProofAsAsked(q, x, type, suite, did, key, by)
    PROVE  q.over \in Payloads(x)
  BY DEF ProofAsAsked, Payloads

LEMMA ProvenIs ==
    ASSUME NEW x, Shaped(x), NEW q, NEW d, d = Proven(x, q)
    PROVE  /\ d.proofs = <<q>> /\ ListOf(d.proofs) /\ DOMAIN d.proofs = {1} /\ d.proofs[1] = q
           /\ DocShape(x) => DocShape(d)
           /\ PresentationShape(x) => PresentationShape(d)
           /\ Unsigned(d) = Unsigned(x) /\ LinkedData(d) = LinkedData(x)
<1>1. PICK s : s = <<q>>
  OBVIOUS
<1>2. d = [x EXCEPT !.proofs = s]
  BY <1>1 DEF Proven
<1>3. /\ d.proofs = s
      /\ DocShape(x) => DocShape(d)
      /\ PresentationShape(x) => PresentationShape(d)
      /\ Unsigned(d) = Unsigned(x) /\ LinkedData(d) = LinkedData(x)
  BY <1>2, ProofsAreApart
<1>4. ListOf(s) /\ DOMAIN s = {1} /\ s[1] = q
  BY <1>1, SingleIsList
<1> QED
  BY <1>1, <1>3, <1>4

LEMMA SealedDocumentFits ==
    ASSUME NEW x, DocShape(x), x.status.index = BadgeIndex => x.status.form = "object",
           NEW signed, <<TenantDid, Unsigned(x)>> \in signed,
           NEW type, NEW suite, NEW k,
           NEW d, d = Sealed(x, type, suite, TenantDid, k, k)
    PROVE  DocumentFits(d, signed) /\ Unsigned(d) = Unsigned(x)
<1>1. PICK q : d = Proven(x, q) /\ ProofAsAsked(q, x, type, suite, TenantDid, k, k)
  BY SealedAsAsked DEF Shaped
<1>2. /\ ListOf(d.proofs) /\ DOMAIN d.proofs = {1} /\ d.proofs[1] = q /\ DocShape(d)
      /\ Unsigned(d) = Unsigned(x)
  BY <1>1, ProvenIs DEF Shaped
<1>3. d.status = x.status
  BY <1>1 DEF Proven, DocShape
<1>4. PICK u : u = Unsigned(x)
  OBVIOUS
<1>5. DocShape(u) /\ q.over \in Payloads(u)
  BY <1>1, <1>4, UnsignedIsShaped, ProofMadeFor DEF Shaped
<1>6. PICK m : m = <<TenantDid, u>>
  OBVIOUS
<1>7. m \in signed /\ m[1] = TenantDid /\ m[2] = u
  BY <1>4, <1>6
<1>8. ProofShape(q)
  BY <1>1 DEF ProofAsAsked
<1> QED
  BY <1>2, <1>3, <1>5, <1>7, <1>8 DEF DocumentFits

LEMMA SignedFits ==
    ASSUME NEW how, NEW key \in SigningKeys, NEW x, DocShape(x), NEW type, NEW suite,
           <<type, suite>> \in Suites \cup {<<"DataIntegrityProof", Nothing>>},
           NEW r, r \in SignedBy(how, key, x, type, suite)
    PROVE  \E t \in Suites : /\ t[1] = type /\ Fits(key, t[1], t[2])
                             /\ r = Sealed(x, t[1], t[2], TenantDid, key, key)
<1>1. ~ (type = "DataIntegrityProof" /\ suite = Nothing)
  BY DEF SignedBy
<1>2. CASE how = "local"
  <2>1. r = Sealed(x, type, suite, TenantDid, key, key) /\ Fits(key, type, suite)
    BY <1>1, <1>2 DEF SignedBy
  <2>2. PICK t : t = <<type, suite>>
    OBVIOUS
  <2>3. t[1] = type /\ t[2] = suite /\ t # <<"DataIntegrityProof", Nothing>>
    BY <1>1, <2>2
  <2>4. t \in Suites
    BY <2>2, <2>3
  <2> QED
    BY <2>1, <2>3, <2>4
<1>3. CASE how = "remote"
  <2>1. r \in RemoteReplies(x) /\ AcceptedOfRemote(r, key, type, suite)
    BY <1>1, <1>3 DEF SignedBy
  <2>2. r.proofs # <<>> /\ SelectedProof(r).type = type /\ SelectedProof(r).key = key
    BY <2>1 DEF AcceptedOfRemote
  <2>3. r # Unsigned(x)
    BY <2>2, DocumentData
  <2>4. PICK t \in {y \in Suites \X (SigningKeys \cup {NobodysKey}) : Fits(y[2], y[1][1], y[1][2])} :
            r = Sealed(x, t[1][1], t[1][2], TenantDid, t[2], t[2])
    BY <2>1, <2>3 DEF RemoteReplies
  <2>5. PICK u, k : u = t[1] /\ k = t[2]
    OBVIOUS
  <2>6. u \in Suites /\ Fits(k, u[1], u[2]) /\ r = Sealed(x, u[1], u[2], TenantDid, k, k)
    BY <2>4, <2>5
  <2>7. PICK q : r = Proven(x, q) /\ ProofAsAsked(q, x, u[1], u[2], TenantDid, k, k)
    BY <2>6, SealedAsAsked DEF Shaped
  <2>8. r.proofs = <<q>>
    BY <2>7, ProvenIs DEF Shaped
  <2>9. SelectedProof(r) = q
    BY <2>8, OnlyProofIsSelected
  <2>10. k = key /\ u[1] = type
    BY <2>2, <2>7, <2>9 DEF ProofAsAsked
  <2> QED
    BY <2>6, <2>10
<1> QED
  BY <1>1, <1>2, <1>3 DEF SignedBy

LEMMA SealedPresentationFits ==
    ASSUME NEW holder \in Holders \cup {TenantDid}, NEW issuer, NEW docs, ListOf(docs),
           NEW signed, \A i \in DOMAIN docs : DocumentFits(docs[i], signed),
           NEW by, <<DidOf(by), Presentation(holder, issuer, docs)>> \in signed,
           NEW type, NEW suite, NEW did, NEW key,
           NEW s, s = Sealed(Presentation(holder, issuer, docs), type, suite, did, key, by)
    PROVE  PresentationFits(s, signed)
<1>1. PICK p : p = Presentation(holder, issuer, docs)
  OBVIOUS
<1>2. /\ PresentationShape(p) /\ p.holder = holder /\ p.issuer = issuer /\ p.wrapped = docs
  BY <1>1 DEF Presentation, PresentationShape
<1>3. s = Sealed(p, type, suite, did, key, by)
  BY <1>1
<1>4. PICK q : s = Proven(p, q) /\ ProofAsAsked(q, p, type, suite, did, key, by)
  BY <1>2, <1>3, SealedAsAsked DEF Shaped
<1>5. ListOf(s.proofs) /\ DOMAIN s.proofs = {1} /\ s.proofs[1] = q /\ PresentationShape(s)
  BY <1>2, <1>4, ProvenIs DEF Shaped
<1>6. s.holder = holder /\ s.issuer = issuer /\ s.wrapped = docs
  BY <1>2, <1>4 DEF Proven, PresentationShape
<1>7. ProofShape(q) /\ q.by = by /\ q.over \in Payloads(p)
  BY <1>2, <1>4, ProofMadeFor DEF ProofAsAsked, Shaped
<1>8. PICK m : m = <<DidOf(by), p>>
  OBVIOUS
<1>9. m \in signed /\ m[1] = DidOf(by) /\ m[2] = p
  BY <1>1, <1>8
<1> QED
  BY <1>2, <1>5, <1>6, <1>7, <1>9 DEF PresentationFits

-----------------------------------------------------------------------------
(* What is altered fits.                                                     *)

LEMMA DepartureKeepsProofs ==
    ASSUME NEW d, DocShape(d), d.status.index = BadgeIndex => d.status.form = "object",
           NEW e \in Departures(d)
    PROVE  DocShape(e) /\ e.proofs = d.proofs /\ (e.status.index = BadgeIndex => e.status.form = "object")
<1>1. \/ \E x : e = [d EXCEPT !.context = x]
      \/ \E x : e = [d EXCEPT !.terms = x]
      \/ e = [d EXCEPT !.badge = FALSE] \/ e = [d EXCEPT !.identified = FALSE]
      \/ \E x : e = [d EXCEPT !.schema = x]
      \/ \E x : e = [d EXCEPT !.subject = x]
      \/ \E x : e = [d EXCEPT !.achievement = x]
      \/ \E x : e = [d EXCEPT !.from = x]
      \/ \E x : e = [d EXCEPT !.until = x]
      \/ \E x \in {NoStatus, [NoStatus EXCEPT !.form = "text"],
                   [StatusFor(ApiOrigin) EXCEPT !.purpose = "suspension"],
                   [StatusFor(ApiOrigin) EXCEPT !.index = BadgeIndex + 1],
                   [StatusFor(ApiOrigin) EXCEPT !.index = Garbled]} :
             e = [d EXCEPT !.status = x]
      \/ \E x : e = [d EXCEPT !.issuer = x]
  BY DEF Departures
<1>2. ASSUME NEW x, e = [d EXCEPT !.context = x]
      PROVE  DocShape(e) /\ e.proofs = d.proofs /\ e.status = d.status
  BY <1>2 DEF DocShape
<1>3. ASSUME NEW x, e = [d EXCEPT !.terms = x]
      PROVE  DocShape(e) /\ e.proofs = d.proofs /\ e.status = d.status
  BY <1>3 DEF DocShape
<1>4. CASE e = [d EXCEPT !.badge = FALSE] \/ e = [d EXCEPT !.identified = FALSE]
  BY <1>4 DEF DocShape
<1>5. ASSUME NEW x, e = [d EXCEPT !.schema = x]
      PROVE  DocShape(e) /\ e.proofs = d.proofs /\ e.status = d.status
  BY <1>5 DEF DocShape
<1>6. ASSUME NEW x, e = [d EXCEPT !.subject = x]
      PROVE  DocShape(e) /\ e.proofs = d.proofs /\ e.status = d.status
  BY <1>6 DEF DocShape
<1>7. ASSUME NEW x, e = [d EXCEPT !.achievement = x]
      PROVE  DocShape(e) /\ e.proofs = d.proofs /\ e.status = d.status
  BY <1>7 DEF DocShape
<1>8. ASSUME NEW x, e = [d EXCEPT !.from = x]
      PROVE  DocShape(e) /\ e.proofs = d.proofs /\ e.status = d.status
  BY <1>8 DEF DocShape
<1>9. ASSUME NEW x, e = [d EXCEPT !.until = x]
      PROVE  DocShape(e) /\ e.proofs = d.proofs /\ e.status = d.status
  BY <1>9 DEF DocShape
<1>10. ASSUME NEW x, e = [d EXCEPT !.issuer = x]
      PROVE  DocShape(e) /\ e.proofs = d.proofs /\ e.status = d.status
  BY <1>10 DEF DocShape
<1>11. ASSUME NEW x, e = [d EXCEPT !.status = x]
      PROVE  DocShape(e) /\ e.proofs = d.proofs /\ e.status = x
  BY <1>11 DEF DocShape
<1>12. ASSUME NEW x \in {NoStatus, [NoStatus EXCEPT !.form = "text"],
                   [StatusFor(ApiOrigin) EXCEPT !.purpose = "suspension"],
                   [StatusFor(ApiOrigin) EXCEPT !.index = BadgeIndex + 1],
                   [StatusFor(ApiOrigin) EXCEPT !.index = Garbled]}
      PROVE  x.index = BadgeIndex => x.form = "object"
  BY <1>12 DEF NoStatus, StatusFor, BadgeIndex, Garbled, Missing
<1> QED
  BY <1>1, <1>2, <1>3, <1>4, <1>5, <1>6, <1>7, <1>8, <1>9, <1>10, <1>11, <1>12

LEMMA AlteredFits ==
    ASSUME NEW d, NEW signed, DocumentFits(d, signed),
           NEW e \in Departures(d) \cup ProofDepartures(d)
    PROVE  DocumentFits(e, signed)
<1>1. CASE e \in Departures(d)
  BY <1>1, DepartureKeepsProofs DEF DocumentFits
<1>2. CASE e \in ProofDepartures(d)
  <2>1. ListOf(d.proofs) /\ \A i \in DOMAIN d.proofs : ProofShape(d.proofs[i])
    BY DEF DocumentFits
  <2>2. PICK s : e = [d EXCEPT !.proofs = s] /\ Derived(s, d.proofs)
    BY <1>2, <2>1, ProofDepartureFits
  <2>3. e.proofs = s /\ DocShape(e) /\ e.status = d.status
    BY <2>2 DEF DocumentFits, DocShape
  <2>4. ASSUME NEW i \in DOMAIN s
        PROVE  /\ ProofShape(s[i])
               /\ \E m \in signed : /\ m[1] = TenantDid /\ DocShape(m[2])
                                    /\ s[i].over \in Payloads(m[2])
    <3>1. PICK j \in DOMAIN d.proofs : s[i].over = d.proofs[j].over
      BY <2>2 DEF Derived
    <3>2. PICK m \in signed : /\ m[1] = TenantDid /\ DocShape(m[2])
                              /\ d.proofs[j].over \in Payloads(m[2])
      BY DEF DocumentFits
    <3> QED
      BY <2>2, <3>1, <3>2 DEF Derived
  <2> QED
    BY <2>2, <2>3, <2>4 DEF DocumentFits, Derived
<1> QED
  BY <1>1, <1>2

LEMMA AlteredPresentationFits ==
    ASSUME NEW p, NEW signed, PresentationFits(p, signed),
           NEW e \in {[p EXCEPT !.holder = h] : h \in Holders}
                \cup {[p EXCEPT !.wrapped = <<>>], [p EXCEPT !.context = "other"],
                      [p EXCEPT !.wrapped = @ \o @]}
                \cup ProofDepartures(p)
    PROVE  PresentationFits(e, signed)
<1>1. ASSUME NEW h \in Holders, e = [p EXCEPT !.holder = h]
      PROVE  PresentationFits(e, signed)
  <2>1. /\ PresentationShape(e) /\ e.holder = h /\ e.wrapped = p.wrapped /\ e.proofs = p.proofs
        /\ e.issuer = p.issuer
    BY <1>1 DEF PresentationFits, PresentationShape
  <2> QED
    BY <2>1 DEF PresentationFits
<1>2. ASSUME NEW w, e = [p EXCEPT !.wrapped = w], ListOf(w),
             \A i \in DOMAIN w : DocumentFits(w[i], signed)
      PROVE  PresentationFits(e, signed)
  <2>1. /\ PresentationShape(e) /\ e.holder = p.holder /\ e.wrapped = w /\ e.proofs = p.proofs
        /\ e.issuer = p.issuer
    BY <1>2 DEF PresentationFits, PresentationShape
  <2> QED
    BY <1>2, <2>1 DEF PresentationFits
<1>3. CASE e = [p EXCEPT !.wrapped = <<>>]
  BY <1>2, <1>3, EmptyIsList
<1>4. CASE e = [p EXCEPT !.context = "other"]
  <2>1. /\ PresentationShape(e) /\ e.holder = p.holder /\ e.wrapped = p.wrapped
        /\ e.proofs = p.proofs /\ e.issuer = p.issuer
    BY <1>4 DEF PresentationFits, PresentationShape
  <2> QED
    BY <2>1 DEF PresentationFits
<1>5. CASE e = [p EXCEPT !.wrapped = @ \o @]
  <2>1. PICK v : v = p.wrapped
    OBVIOUS
  <2>2. ListOf(v) /\ \A i \in DOMAIN v : DocumentFits(v[i], signed)
    BY <2>1 DEF PresentationFits
  <2>3. PICK w : w = v \o v
    OBVIOUS
  <2>4. ListOf(w) /\ \A i \in DOMAIN w : \E j \in DOMAIN v : w[i] = v[j]
    BY <2>2, <2>3, ListJoined
  <2>5. \A i \in DOMAIN w : DocumentFits(w[i], signed)
    BY <2>2, <2>4
  <2>6. e = [p EXCEPT !.wrapped = w]
    BY <1>5, <2>1, <2>3
  <2> QED
    BY <1>2, <2>4, <2>5, <2>6
<1>6. CASE e \in ProofDepartures(p)
  <2>1. ListOf(p.proofs) /\ \A i \in DOMAIN p.proofs : ProofShape(p.proofs[i])
    BY DEF PresentationFits
  <2>2. PICK s : e = [p EXCEPT !.proofs = s] /\ Derived(s, p.proofs)
    BY <1>6, <2>1, ProofDepartureFits
  <2>3. /\ e.proofs = s /\ PresentationShape(e) /\ e.holder = p.holder
        /\ e.wrapped = p.wrapped /\ e.issuer = p.issuer
    BY <2>2 DEF PresentationFits, PresentationShape
  <2>4. ASSUME NEW i \in DOMAIN s
        PROVE  /\ ProofShape(s[i])
               /\ \E m \in signed : /\ m[1] = DidOf(s[i].by) /\ PresentationShape(m[2])
                                    /\ m[2].issuer = p.issuer
                                    /\ s[i].over \in Payloads(m[2])
    <3>1. PICK j \in DOMAIN p.proofs : s[i].over = p.proofs[j].over /\ s[i].by = p.proofs[j].by
      BY <2>2 DEF Derived
    <3>2. PICK m \in signed : /\ m[1] = DidOf(p.proofs[j].by) /\ PresentationShape(m[2])
                              /\ m[2].issuer = p.issuer
                              /\ p.proofs[j].over \in Payloads(m[2])
      BY DEF PresentationFits
    <3> QED
      BY <2>2, <3>1, <3>2 DEF Derived
  <2> QED
    BY <2>2, <2>3, <2>4 DEF PresentationFits, Derived
<1> QED
  BY <1>1, <1>3, <1>4, <1>5, <1>6

LEMMA PresentInitInv == PresentInit => PresentInv
<1> SUFFICES ASSUME PresentInit PROVE PresentInv
  OBVIOUS
<1>1. PresentTyped
  <2>1. day \in 0 .. MaxDays /\ liberties \in 0 .. MaxLiberties
    BY PresentationsAssumption DEF PresentInit
  <2>2. activeKey \in SigningKeys /\ keptKeys \subseteq SigningKeys \ {activeKey}
    BY PresentationsAssumption DEF PresentInit
  <2>3. answer.to = "none"
    BY DEF PresentInit, NoReply
  <2>4. signer \in {"local", "remote"} /\ badgeRevoked \in BOOLEAN
    BY DEF PresentInit
  <2> QED
    BY <2>1, <2>2, <2>3, <2>4 DEF PresentTyped
<1>2. ListOf(copies) /\ DOMAIN copies = {} /\ Len(copies) <= 1 + Len(badge)
  <2>1. copies = <<>> /\ badge = <<>> /\ Len(<<>>) = 0
    BY DEF PresentInit
  <2> QED
    BY <2>1, EmptyIsList
<1> QED
  BY <1>1, <1>2 DEF PresentInit, PresentInv, CopiesFit, BadgeFits, PresentedFits, UnalteredFit,
                    CreatedFits, ReplyFits, NoReply

\* What never goes back.
Growing ==
    /\ made \subseteq made' /\ KeyIds(activeKey, keptKeys) \subseteq KeyIds(activeKey, keptKeys)'
    /\ day <= day' /\ liberties <= liberties'

LEMMA CopiesKept ==
    ASSUME PresentInv, Growing, UNCHANGED <<copies, badge>>
    PROVE  CopiesFit'
<1>1. \A i \in DOMAIN copies : DocumentFits(copies[i], made')
  BY DocumentsGrow DEF PresentInv, CopiesFit, Growing
<1> QED
  BY <1>1 DEF PresentInv, CopiesFit

LEMMA BadgeKept ==
    ASSUME PresentInv, PresentTyped', Growing, UNCHANGED badge
    PROVE  BadgeFits'
<1>1. day \in Nat /\ day' \in Nat
  BY PresentationsAssumption DEF PresentInv, PresentTyped
<1>2. CASE badge # <<>>
  <2>1. PICK d : /\ badge = <<d>> /\ DocumentFits(d, made)
                 /\ IssuedFits(d, day, KeyIds(activeKey, keptKeys))
    BY <1>2 DEF PresentInv, BadgeFits
  <2>2. DocumentFits(d, made')
    BY <2>1, DocumentsGrow DEF Growing
  <2>3. IssuedFits(d, day', KeyIds(activeKey', keptKeys'))
    BY <1>1, <2>1, IssuedGrow DEF Growing
  <2> QED
    BY <2>1, <2>2, <2>3 DEF BadgeFits
<1> QED
  BY <1>2 DEF BadgeFits

LEMMA PresentedKept ==
    ASSUME PresentInv, Growing, UNCHANGED presented
    PROVE  PresentedFits'
<1>1. CASE presented # <<>>
  <2>1. PICK p : presented = <<p>> /\ PresentationFits(p, made)
    BY <1>1 DEF PresentInv, PresentedFits
  <2>2. PresentationFits(p, made')
    BY <2>1, PresentationsGrow DEF Growing
  <2> QED
    BY <2>1, <2>2 DEF PresentedFits
<1> QED
  BY <1>1 DEF PresentedFits

LEMMA NoLiberty ==
    ASSUME PresentInv, PresentTyped', Growing, liberties' = 0
    PROVE  liberties = 0
  BY PresentationsAssumption DEF PresentInv, PresentTyped, Growing

LEMMA UnalteredKept ==
    ASSUME PresentInv, PresentTyped', Growing, UNCHANGED copies
    PROVE  UnalteredFit'
<1> SUFFICES ASSUME liberties' = 0, NEW i \in DOMAIN copies
             PROVE  UnalteredFits(copies[i], KeyIds(activeKey', keptKeys'))
  BY DEF UnalteredFit
<1>1. UnalteredFits(copies[i], KeyIds(activeKey, keptKeys))
  BY NoLiberty DEF PresentInv, UnalteredFit
<1> QED
  BY <1>1, UnalteredGrow DEF Growing

LEMMA CreatedKept ==
    ASSUME PresentInv, PresentTyped', Growing, liberties' = 0 => UNCHANGED presented,
           badge # <<>> => UNCHANGED badge,
           \A m \in made' \ made : m[1] # "created"
    PROVE  CreatedFits'
<1> SUFFICES ASSUME liberties' = 0, \E m \in made' : m[1] = "created"
             PROVE  \E h \in Holders :
            /\ badge' # <<>> /\ badge'[1].subject = h
            /\ presented' = <<Sealed(Presentation(h, Nothing, badge'), "Ed25519Signature2020",
                                    Nothing, h, h, h)>>
  BY DEF CreatedFits
<1>1. liberties = 0 /\ \E m \in made : m[1] = "created"
  BY NoLiberty
<1>2. PICK h \in Holders :
            /\ badge # <<>> /\ badge[1].subject = h
            /\ presented = <<Sealed(Presentation(h, Nothing, badge), "Ed25519Signature2020",
                                    Nothing, h, h, h)>>
  BY <1>1 DEF PresentInv, CreatedFits
<1> QED
  BY <1>2

-----------------------------------------------------------------------------
(* The steps of a document, and all steps together.                          *)

LEMMA IssueInv ==
    ASSUME PresentInv, NEW subject, NEW origin, IssueTo(subject, origin)
    PROVE  PresentInv'
<1>1. PICK x : x = BadgeDocument(subject, day, origin)
  OBVIOUS
<1>2. PICK d \in SignedBy(signer, activeKey, x, "Ed25519Signature2020", Nothing) :
            /\ badge' = <<d>> /\ copies' = Append(copies, d)
            /\ made' = made \cup {<<TenantDid, Unsigned(d)>>}
  BY <1>1 DEF IssueTo
<1>3. /\ badge = <<>> /\ answer' = NoReply
      /\ UNCHANGED <<day, activeKey, keptKeys, signer, readable, badgeRevoked, presented, liberties>>
  BY DEF IssueTo
<1>4. /\ PresentTyped' /\ Growing /\ activeKey \in SigningKeys /\ day \in Nat
      /\ activeKey \in KeyIds(activeKey, keptKeys)
  BY <1>2, <1>3, PresentationsAssumption
  DEF PresentInv, PresentTyped, Growing, KeyIds, NoReply
<1>5. /\ DocShape(x) /\ x.context = "vc" /\ x.issuer = TenantDid
      /\ x.status = StatusFor(origin)
  BY <1>1 DEF BadgeDocument, DocShape
<1>6. <<"Ed25519Signature2020", Nothing>> \in Suites
  BY DEF Suites
<1>7. PICK t \in Suites : /\ t[1] = "Ed25519Signature2020" /\ Fits(activeKey, t[1], t[2])
                          /\ d = Sealed(x, t[1], t[2], TenantDid, activeKey, activeKey)
  BY <1>2, <1>4, <1>5, <1>6, SignedFits
<1>8. t[2] = Nothing /\ activeKey \notin EcKeys
  BY <1>7 DEF Suites, Fits
<1>9. DocumentFits(d, made')
  <2>1. x.status.index = BadgeIndex => x.status.form = "object"
    BY <1>5 DEF StatusFor
  <2>2. PICK signed : signed = made \cup {<<TenantDid, Unsigned(x)>>}
    OBVIOUS
  <2>3. <<TenantDid, Unsigned(x)>> \in signed
    BY <2>2
  <2>4. PICK type, suite : type = t[1] /\ suite = t[2]
    OBVIOUS
  <2>5. d = Sealed(x, type, suite, TenantDid, activeKey, activeKey)
    BY <1>7, <2>4
  <2>6. Unsigned(d) = Unsigned(x) /\ DocumentFits(d, signed)
    BY <1>5, <2>1, <2>3, <2>5, SealedDocumentFits
  <2> QED
    BY <1>2, <2>2, <2>6
<1>10. BadgeFits'
  <2>1. IssuedFits(d, day, KeyIds(activeKey, keptKeys))
    <3>1. day \in 0 .. day /\ activeKey \in KeyIds(activeKey, keptKeys) \ EcKeys
      BY <1>4, <1>8
    <3>2. d = Sealed(BadgeDocument(subject, day, origin), "Ed25519Signature2020", Nothing,
                     TenantDid, activeKey, activeKey)
      BY <1>1, <1>7, <1>8
    <3> QED
      BY <3>1, <3>2 DEF IssuedFits
  <2> QED
    BY <1>2, <1>3, <1>9, <2>1 DEF BadgeFits
<1>11. /\ ListOf(copies') /\ Len(copies') = Len(copies) + 1
       /\ \A i \in DOMAIN copies' : copies'[i] = d \/ (i \in DOMAIN copies /\ copies'[i] = copies[i])
  BY <1>2, ListAppended DEF PresentInv, CopiesFit
<1>12. CopiesFit'
  <2>1. Len(copies) \in Nat /\ Len(copies) <= 1 + Len(badge) /\ Len(badge) = 0
    BY <1>3, ListsAre DEF PresentInv, CopiesFit
  <2>2. Len(badge') = 1
    BY <1>2, SingleIsList
  <2>3. Len(copies') <= 1 + Len(badge')
    BY <1>11, <2>1, <2>2
  <2>4. \A i \in DOMAIN copies : DocumentFits(copies[i], made')
    BY <1>4, DocumentsGrow DEF PresentInv, CopiesFit, Growing
  <2>5. \A i \in DOMAIN copies' : DocumentFits(copies'[i], made')
    BY <1>9, <1>11, <2>4
  <2> QED
    BY <1>11, <2>3, <2>5 DEF CopiesFit
<1>13. UnalteredFit'
  <2> SUFFICES ASSUME liberties' = 0, NEW i \in DOMAIN copies'
               PROVE  UnalteredFits(copies'[i], KeyIds(activeKey', keptKeys'))
    BY DEF UnalteredFit
  <2>1. UnalteredFits(d, KeyIds(activeKey, keptKeys))
    BY <1>4, <1>5, <1>7 DEF UnalteredFits
  <2>2. i \in DOMAIN copies => UnalteredFits(copies[i], KeyIds(activeKey, keptKeys))
    BY <1>3 DEF PresentInv, UnalteredFit
  <2> QED
    BY <1>3, <1>11, <2>1, <2>2
<1>14. CreatedFits'
  <2>1. TenantDid # "created"
    BY DEF TenantDid
  <2>2. PICK u : u = Unsigned(d)
    OBVIOUS
  <2>3. ASSUME NEW m \in made' \ made PROVE m[1] # "created"
    <3>1. m = <<TenantDid, u>>
      BY <1>2, <2>2
    <3> QED
      BY <2>1, <3>1
  <2> QED
    BY <1>3, <1>4, <2>3, CreatedKept
<1>15. PresentedFits' /\ ReplyFits'
  BY <1>3, <1>4, PresentedKept DEF ReplyFits, NoReply
<1> QED
  BY <1>4, <1>10, <1>12, <1>13, <1>14, <1>15 DEF PresentInv

\* A document that the signing endpoint is asked for.
LEMMA SignInv ==
    ASSUME PresentInv, copies = <<>>, NEW x, DocShape(x),
           x.status.index = BadgeIndex => x.status.form = "object",
           liberties' \in 0 .. MaxLiberties, liberties <= liberties',
           liberties' = 0 => x.context = "vc" /\ x.issuer = TenantDid,
           x.proofs = <<>>, NEW type, NEW suite,
           <<type, suite>> \in Suites \cup {<<"DataIntegrityProof", Nothing>>},
           SignDocument(x, type, suite)
    PROVE  PresentInv'
<1>1. UNCHANGED <<day, activeKey, keptKeys, signer, readable, badge, badgeRevoked, presented>>
  BY DEF SignDocument
<1>2. made \subseteq made' /\ \A m \in made' \ made : m[1] # "created"
  <2>1. TenantDid # "created"
    BY DEF TenantDid
  <2>2. PICK u : u = Unsigned(x)
    OBVIOUS
  <2>3. made' = made \/ made' = made \cup {<<TenantDid, u>>}
    BY <2>2 DEF SignDocument
  <2>4. ASSUME NEW m \in made' \ made PROVE m[1] # "created"
    <3>1. m = <<TenantDid, u>>
      BY <2>3
    <3> QED
      BY <2>1, <3>1
  <2> QED
    BY <2>3, <2>4
<1>3. /\ PresentTyped' /\ Growing /\ activeKey \in SigningKeys
      /\ activeKey \in KeyIds(activeKey, keptKeys)
  <2>1. answer'.to = "sign"
    BY DEF SignDocument, NoReply
  <2>2. PresentTyped'
    BY <1>1, <2>1 DEF PresentInv, PresentTyped
  <2>3. day \in Nat /\ activeKey \in SigningKeys
    BY PresentationsAssumption DEF PresentInv, PresentTyped
  <2>4. activeKey \in KeyIds(activeKey, keptKeys)
    BY DEF KeyIds
  <2>5. Growing
    BY <1>1, <1>2, <2>3 DEF Growing
  <2> QED
    BY <2>2, <2>3, <2>4, <2>5
<1>4. BadgeFits' /\ PresentedFits' /\ CreatedFits'
  BY <1>1, <1>2, <1>3, BadgeKept, PresentedKept, CreatedKept
<1>5. ReplyFits'
  BY DEF SignDocument, ReplyFits, NoReply
<1>6. CASE UNCHANGED copies
  BY <1>1, <1>3, <1>4, <1>5, <1>6, CopiesKept, UnalteredKept DEF PresentInv
<1>7. CASE \E r \in SignedBy(signer, activeKey, x, type, suite) :
              copies' = Append(copies, r) /\ made' = made \cup {<<TenantDid, Unsigned(x)>>}
  <2>1. PICK r \in SignedBy(signer, activeKey, x, type, suite) :
              copies' = Append(copies, r) /\ made' = made \cup {<<TenantDid, Unsigned(x)>>}
    BY <1>7
  <2>2. PICK t \in Suites : /\ Fits(activeKey, t[1], t[2])
                            /\ r = Sealed(x, t[1], t[2], TenantDid, activeKey, activeKey)
    BY <1>3, <2>1, SignedFits
  <2>3. DocumentFits(r, made')
    <3>1. <<TenantDid, Unsigned(x)>> \in made \cup {<<TenantDid, Unsigned(x)>>}
      OBVIOUS
    <3> QED
      BY <2>1, <2>2, <3>1, SealedDocumentFits
  <2>4. /\ ListOf(copies') /\ Len(copies') = Len(copies) + 1
        /\ \A i \in DOMAIN copies' : copies'[i] = r \/ (i \in DOMAIN copies /\ copies'[i] = copies[i])
    BY <2>1, ListAppended DEF PresentInv, CopiesFit
  <2>5. DOMAIN copies = {} /\ Len(copies) = 0
    BY EmptyIsList
  <2>6. CopiesFit'
    <3>1. Len(badge) \in Nat
      BY SingleIsList DEF PresentInv, BadgeFits
    <3>2. Len(copies') <= 1 + Len(badge')
      BY <1>1, <2>4, <2>5, <3>1
    <3> QED
      BY <2>3, <2>4, <2>5, <3>2 DEF CopiesFit
  <2>7. UnalteredFit'
    <3> SUFFICES ASSUME liberties' = 0, NEW i \in DOMAIN copies'
                 PROVE  UnalteredFits(copies'[i], KeyIds(activeKey', keptKeys'))
      BY DEF UnalteredFit
    <3>1. UnalteredFits(r, KeyIds(activeKey, keptKeys))
      BY <1>3, <2>2 DEF UnalteredFits
    <3> QED
      BY <1>1, <2>4, <2>5, <3>1
  <2> QED
    BY <1>3, <1>4, <1>5, <2>6, <2>7 DEF PresentInv
<1> QED
  BY <1>6, <1>7 DEF SignDocument

LEMMA SignSomethingInv ==
    ASSUME PresentInv, SignSomething
    PROVE  PresentInv'
<1>1. copies = <<>>
  BY DEF SignSomething
<1>2. PICK p : p = PlainDocument(Learner)
  OBVIOUS
<1>3. PICK b : b = BadgeDocument(Learner, 0, ApiOrigin)
  OBVIOUS
<1>4. /\ DocShape(b) /\ b.context = "vc" /\ b.issuer = TenantDid /\ b.proofs = <<>>
  BY <1>3 DEF BadgeDocument, DocShape
<1>5. p = [b EXCEPT !.status = NoStatus]
  BY <1>2, <1>3 DEF PlainDocument
<1>6. /\ DocShape(p) /\ p.context = "vc" /\ p.issuer = TenantDid /\ p.proofs = <<>>
      /\ p.status = NoStatus
  BY <1>4, <1>5 DEF DocShape
<1>7. p.status.index # BadgeIndex
  BY <1>6 DEF NoStatus, BadgeIndex, Missing
<1>8. CASE /\ \E suite \in Suites \cup {<<"DataIntegrityProof", Nothing>>} :
                SignDocument(p, suite[1], suite[2])
           /\ UNCHANGED liberties
  <2>1. PICK suite \in Suites \cup {<<"DataIntegrityProof", Nothing>>} :
                SignDocument(p, suite[1], suite[2])
    BY <1>8
  <2>2. <<suite[1], suite[2]>> \in Suites \cup {<<"DataIntegrityProof", Nothing>>}
    BY DEF Suites
  <2>3. liberties' \in 0 .. MaxLiberties /\ liberties <= liberties'
    BY <1>8, PresentationsAssumption DEF PresentInv, PresentTyped
  <2> QED
    BY <1>1, <1>6, <1>7, <2>1, <2>2, <2>3, SignInv
<1>9. CASE /\ liberties < MaxLiberties
           /\ liberties' = liberties + 1
           /\ \E doc \in Departures(p) : SignDocument(doc, "Ed25519Signature2020", Nothing)
  <2>1. PICK doc \in Departures(p) : SignDocument(doc, "Ed25519Signature2020", Nothing)
    BY <1>9
  <2>2. DocShape(doc) /\ doc.proofs = p.proofs
        /\ (doc.status.index = BadgeIndex => doc.status.form = "object")
    BY <1>6, <1>7, DepartureKeepsProofs
  <2>3. <<"Ed25519Signature2020", Nothing>> \in Suites \cup {<<"DataIntegrityProof", Nothing>>}
    BY DEF Suites
  <2>4. liberties' \in 0 .. MaxLiberties /\ liberties <= liberties' /\ liberties' # 0
    BY <1>9, PresentationsAssumption DEF PresentInv, PresentTyped
  <2> QED
    BY <1>1, <1>6, <2>1, <2>2, <2>3, <2>4, SignInv
<1> QED
  BY <1>2, <1>8, <1>9 DEF SignSomething

LEMMA CreateInv ==
    ASSUME PresentInv, NEW holder \in Holders, NEW privateKey \in Holders, NEW owner \in BOOLEAN,
           CreatePresentation(holder, privateKey, owner)
    PROVE  PresentInv'
<1>1. /\ presented = <<>>
      /\ UNCHANGED <<day, activeKey, keptKeys, signer, readable, badge, badgeRevoked, copies,
                     liberties>>
      /\ made \subseteq made' /\ answer'.to = "create"
  BY DEF CreatePresentation, NoReply
<1>2. PresentTyped' /\ Growing
  BY <1>1 DEF PresentInv, PresentTyped, Growing
<1>3. CopiesFit' /\ BadgeFits' /\ UnalteredFit' /\ ReplyFits'
  BY <1>1, <1>2, CopiesKept, BadgeKept, UnalteredKept DEF ReplyFits
<1>4. CASE UNCHANGED <<presented, made>>
  BY <1>1, <1>2, <1>3, <1>4, PresentedKept, CreatedKept DEF PresentInv
<1>5. CASE ~ UNCHANGED <<presented, made>>
  <2>1. PICK p : p = Presentation(holder, Nothing, badge)
    OBVIOUS
  <2>2. /\ privateKey = holder /\ badge # <<>> /\ badge[1].subject = holder
        /\ presented' = <<Sealed(p, "Ed25519Signature2020", Nothing, holder, holder, privateKey)>>
        /\ made' = made \cup {<<holder, p>>, <<"created", p>>}
    BY <1>5, <2>1 DEF CreatePresentation
  <2>3. DidOf(holder) = holder
    BY HoldersAssumption DEF DidOf
  <2>4. ListOf(badge) /\ \A i \in DOMAIN badge : DocumentFits(badge[i], made')
    <3>1. PICK d : badge = <<d>> /\ DocumentFits(d, made)
      BY <2>2 DEF PresentInv, BadgeFits
    <3>2. DocumentFits(d, made')
      BY <1>1, <3>1, DocumentsGrow
    <3>3. ListOf(badge) /\ DOMAIN badge = {1} /\ badge[1] = d
      BY <3>1, SingleIsList
    <3> QED
      BY <3>2, <3>3
  <2>5. <<DidOf(holder), Presentation(holder, Nothing, badge)>> \in made'
    BY <2>1, <2>2, <2>3
  <2>6. PICK s : s = Sealed(Presentation(holder, Nothing, badge), "Ed25519Signature2020", Nothing,
                            holder, holder, holder)
    OBVIOUS
  <2>7. PresentationFits(s, made')
    BY <2>4, <2>5, <2>6, SealedPresentationFits
  <2>8. presented' = <<s>>
    BY <2>1, <2>2, <2>6
  <2>9. PresentedFits'
    BY <2>7, <2>8 DEF PresentedFits
  <2>10. CreatedFits'
    BY <1>1, <2>2, <2>6, <2>8 DEF CreatedFits
  <2> QED
    BY <1>2, <1>3, <2>9, <2>10 DEF PresentInv
<1> QED
  BY <1>4, <1>5

LEMMA WrapInv ==
    ASSUME PresentInv, NEW holder \in Holders \cup {TenantDid}, NEW issuer,
           NEW by \in Holders \cup SigningKeys, NEW type, NEW suite,
           liberties' \in 0 .. MaxLiberties, liberties <= liberties',
           Wrap(holder, issuer, by, copies, type, suite)
    PROVE  PresentInv'
<1>1. PICK p : p = Presentation(holder, issuer, copies)
  OBVIOUS
<1>2. /\ presented = <<>>
      /\ presented' = <<Sealed(p, type, suite, DidOf(by), by, by)>>
      /\ made' = made \cup {<<DidOf(by), p>>}
      /\ answer' = NoReply
      /\ UNCHANGED <<day, activeKey, keptKeys, signer, readable, badge, badgeRevoked, copies>>
  BY <1>1 DEF Wrap, DidOf
<1>3. PresentTyped' /\ Growing
  BY <1>2 DEF PresentInv, PresentTyped, Growing, NoReply
<1>4. CopiesFit' /\ BadgeFits' /\ UnalteredFit' /\ ReplyFits'
  BY <1>2, <1>3, CopiesKept, BadgeKept, UnalteredKept DEF ReplyFits, NoReply
<1>5. \A m \in made' \ made : m[1] # "created"
  <2>1. DidOf(by) # "created"
    BY PresentationsAssumption DEF DidOf, TenantDid
  <2> QED
    BY <1>2, <2>1
<1>6. CreatedFits'
  <2> SUFFICES ASSUME liberties' = 0, \E m \in made' : m[1] = "created"
               PROVE  FALSE
    BY DEF CreatedFits
  <2>1. liberties = 0 /\ \E m \in made : m[1] = "created"
    BY <1>3, <1>5, NoLiberty
  <2>2. \E h \in Holders : presented = <<Sealed(Presentation(h, Nothing, badge),
                                   "Ed25519Signature2020", Nothing, h, h, h)>>
    BY <2>1 DEF PresentInv, CreatedFits
  <2> QED
    BY <1>2, <2>2
<1>7. PresentedFits'
  <2>1. ListOf(copies) /\ \A i \in DOMAIN copies : DocumentFits(copies[i], made')
    BY <1>3, DocumentsGrow DEF PresentInv, CopiesFit, Growing
  <2>2. PICK s : s = Sealed(Presentation(holder, issuer, copies), type, suite, DidOf(by), by, by)
    OBVIOUS
  <2>3. <<DidOf(by), Presentation(holder, issuer, copies)>> \in made'
    BY <1>1, <1>2
  <2>4. PresentationFits(s, made')
    BY <2>1, <2>2, <2>3, SealedPresentationFits
  <2>5. presented' = <<s>>
    BY <1>1, <1>2, <2>2
  <2> QED
    BY <2>4, <2>5 DEF PresentedFits
<1> QED
  BY <1>3, <1>4, <1>6, <1>7 DEF PresentInv

LEMMA WrapSomethingInv ==
    ASSUME PresentInv, WrapSomething
    PROVE  PresentInv'
<1>1. \E holder \in Holders \cup {TenantDid}, issuer \in {TenantDid, Nothing},
        by \in Holders \cup SigningKeys : \E type, suite :
            Wrap(holder, issuer, by, copies, type, suite)
  BY PresentationsAssumption DEF WrapSomething
<1>2. liberties' \in 0 .. MaxLiberties /\ liberties <= liberties'
  BY PresentationsAssumption DEF WrapSomething, PresentInv, PresentTyped
<1> QED
  BY <1>1, <1>2, WrapInv

LEMMA LookingInv ==
    ASSUME PresentInv, VerifyPresentation \/ LookUp
    PROVE  PresentInv'
<1>1. UNCHANGED <<day, activeKey, keptKeys, signer, readable, badge, badgeRevoked, copies,
                  presented, liberties, made>>
  BY DEF VerifyPresentation, LookUp
<1>2. PresentTyped' /\ Growing
  <2>1. answer'.to \in {"present", "lookup"}
    <3>1. VerifyPresentation => answer'.to = "present"
      BY DEF VerifyPresentation, NoReply
    <3>2. LookUp => answer'.to = "lookup"
      BY DEF LookUp
    <3> QED
      BY <3>1, <3>2
  <2>2. PresentTyped'
    BY <1>1, <2>1 DEF PresentInv, PresentTyped
  <2>3. day \in Nat /\ liberties \in Nat
    BY PresentationsAssumption DEF PresentInv, PresentTyped
  <2>4. Growing
    BY <1>1, <2>3 DEF Growing
  <2> QED
    BY <2>2, <2>4
<1>3. CopiesFit' /\ BadgeFits' /\ UnalteredFit' /\ PresentedFits' /\ CreatedFits'
  BY <1>1, <1>2, CopiesKept, BadgeKept, UnalteredKept, PresentedKept, CreatedKept
<1>4. ReplyFits'
  <2>1. CASE VerifyPresentation
    <3>1. Verdict' = Verdict
      BY <1>1 DEF Verdict, HolderProves, ProofIn, Lists
    <3>2. /\ presented # <<>> /\ answer'.to = "present" /\ answer'.status \in {Verdict, "error"}
      BY <2>1 DEF VerifyPresentation, NoReply
    <3> QED
      BY <1>1, <3>1, <3>2 DEF ReplyFits
  <2>2. CASE LookUp
    <3>1. PICK r : r = RevokedFor(badge[1], StatusFor(ApiOrigin))
      OBVIOUS
    <3>2. RevokedFor(badge[1], StatusFor(ApiOrigin))' = r
      BY <1>1, <3>1 DEF RevokedFor, Lists
    <3>3. /\ badge # <<>> /\ answer'.to = "lookup"
          /\ answer'.status = LifecycleOf(badge[1], r, day)
          /\ answer'.proof = CredentialProof(badge[1], activeKey, keptKeys)
      BY <2>2, <3>1 DEF LookUp
    <3> QED
      BY <1>1, <3>2, <3>3 DEF ReplyFits
  <2> QED
    BY <2>1, <2>2
<1> QED
  BY <1>2, <1>3, <1>4 DEF PresentInv

LEMMA AlterCopyInv ==
    ASSUME PresentInv, NEW i \in DOMAIN copies, AlterCopy(i)
    PROVE  PresentInv'
<1>1. PICK e \in Departures(copies[i]) \cup ProofDepartures(copies[i]) :
            copies' = [copies EXCEPT ![i] = e]
  BY DEF AlterCopy
<1>2. /\ liberties < MaxLiberties /\ liberties' = liberties + 1 /\ answer' = NoReply
      /\ UNCHANGED <<day, activeKey, keptKeys, signer, readable, badge, badgeRevoked, presented, made>>
  BY DEF AlterCopy
<1>3. PresentTyped' /\ Growing /\ liberties' # 0
  BY <1>2, PresentationsAssumption DEF PresentInv, PresentTyped, Growing, NoReply
<1>4. BadgeFits' /\ PresentedFits' /\ UnalteredFit' /\ CreatedFits' /\ ReplyFits'
  BY <1>2, <1>3, BadgeKept, PresentedKept DEF UnalteredFit, CreatedFits, ReplyFits, NoReply
<1>5. DocumentFits(e, made)
  <2>1. PICK d : d = copies[i]
    OBVIOUS
  <2>2. DocumentFits(d, made)
    BY <2>1 DEF PresentInv, CopiesFit
  <2> QED
    BY <1>1, <2>1, <2>2, AlteredFits
<1>6. CopiesFit'
  <2>1. ListOf(copies) /\ Len(copies) <= 1 + Len(badge)
    BY DEF PresentInv, CopiesFit
  <2>2. ListOf(copies') /\ Len(copies') = Len(copies)
    <3> DEFINE S == {copies[j] : j \in DOMAIN copies} \cup {e}
    <3>1. copies \in Seq(S) /\ e \in S
      BY <2>1, SeqMonotonic DEF ListOf
    <3>2. i \in 1 .. Len(copies)
      BY <2>1, ListsAre
    <3> HIDE DEF S
    <3>3. copies' \in Seq(S) /\ Len(copies') = Len(copies)
      BY <1>1, <3>1, <3>2, ExceptSeq
    <3> QED
      BY <3>3, SequenceIsList
  <2>3. \A j \in DOMAIN copies' : j \in DOMAIN copies /\ (copies'[j] = e \/ copies'[j] = copies[j])
    BY <1>1
  <2>4. \A j \in DOMAIN copies' : DocumentFits(copies'[j], made)
    BY <1>5, <2>3 DEF PresentInv, CopiesFit
  <2> QED
    BY <1>2, <2>1, <2>2, <2>4 DEF CopiesFit
<1> QED
  BY <1>3, <1>4, <1>6 DEF PresentInv

LEMMA AlterPresentationInv ==
    ASSUME PresentInv, AlterPresentation
    PROVE  PresentInv'
<1>1. /\ presented # <<>>
      /\ liberties < MaxLiberties /\ liberties' = liberties + 1 /\ answer' = NoReply
      /\ UNCHANGED <<day, activeKey, keptKeys, signer, readable, badge, badgeRevoked, copies, made>>
  BY DEF AlterPresentation
<1>2. PresentTyped' /\ Growing /\ liberties' # 0
  BY <1>1, PresentationsAssumption DEF PresentInv, PresentTyped, Growing, NoReply
<1>3. CopiesFit' /\ BadgeFits' /\ UnalteredFit' /\ CreatedFits' /\ ReplyFits'
  BY <1>1, <1>2, CopiesKept, BadgeKept DEF UnalteredFit, CreatedFits, ReplyFits, NoReply
<1>4. PICK p : presented = <<p>> /\ PresentationFits(p, made)
  BY <1>1 DEF PresentInv, PresentedFits
<1>5. PICK e \in {[p EXCEPT !.holder = h] : h \in Holders}
                \cup {[p EXCEPT !.wrapped = <<>>], [p EXCEPT !.context = "other"],
                      [p EXCEPT !.wrapped = @ \o @]}
                \cup ProofDepartures(p) : presented' = <<e>>
  <2>1. presented[1] = p
    BY <1>4
  <2> QED
    BY <2>1 DEF AlterPresentation
<1>6. PresentationFits(e, made)
  BY <1>4, <1>5, AlteredPresentationFits
<1>7. PresentedFits'
  BY <1>1, <1>5, <1>6 DEF PresentedFits
<1> QED
  BY <1>2, <1>3, <1>7 DEF PresentInv

LEMMA ElsewhereInv ==
    ASSUME PresentInv,
           RevokeBadge \/ (\E k \in SigningKeys : ReplaceKey(k)) \/ NextDay
    PROVE  PresentInv'
<1>1. /\ answer' = NoReply
      /\ UNCHANGED <<signer, readable, badge, copies, presented, liberties, made>>
  BY DEF RevokeBadge, ReplaceKey, NextDay
<1>2. PresentTyped' /\ Growing
  <2>1. CASE RevokeBadge
    BY <1>1, <2>1, PresentationsAssumption
    DEF RevokeBadge, PresentInv, PresentTyped, Growing, NoReply
  <2>2. ASSUME NEW k \in SigningKeys, ReplaceKey(k) PROVE PresentTyped' /\ Growing
    BY <1>1, <2>2, PresentationsAssumption
    DEF ReplaceKey, PresentInv, PresentTyped, Growing, KeyIds, NoReply
  <2>3. CASE NextDay
    BY <1>1, <2>3, PresentationsAssumption
    DEF NextDay, PresentInv, PresentTyped, Growing, NoReply
  <2> QED
    BY <2>1, <2>2, <2>3
<1>3. CopiesFit' /\ BadgeFits' /\ UnalteredFit' /\ PresentedFits' /\ CreatedFits'
  BY <1>1, <1>2, CopiesKept, BadgeKept, UnalteredKept, PresentedKept, CreatedKept
<1>4. ReplyFits'
  BY <1>1 DEF ReplyFits, NoReply
<1> QED
  BY <1>2, <1>3, <1>4 DEF PresentInv

LEMMA StutterInv ==
    ASSUME PresentInv, UNCHANGED presentVars
    PROVE  PresentInv'
<1>1. UNCHANGED <<day, activeKey, keptKeys, signer, readable, badge, badgeRevoked, copies,
                  presented, liberties, answer, made>>
  BY DEF presentVars
<1>2. PresentTyped' /\ Growing
  BY <1>1 DEF PresentInv, PresentTyped, Growing
<1>3. CopiesFit' /\ BadgeFits' /\ UnalteredFit' /\ PresentedFits' /\ CreatedFits'
  BY <1>1, <1>2, CopiesKept, BadgeKept, UnalteredKept, PresentedKept, CreatedKept
<1>4. ReplyFits'
  <2>1. Verdict' = Verdict
    BY <1>1 DEF Verdict, HolderProves, ProofIn, Lists
  <2>2. PICK r : r = RevokedFor(badge[1], StatusFor(ApiOrigin))
    OBVIOUS
  <2>3. RevokedFor(badge[1], StatusFor(ApiOrigin))' = r
    BY <1>1, <2>2 DEF RevokedFor, Lists
  <2> QED
    BY <1>1, <2>1, <2>2, <2>3 DEF PresentInv, ReplyFits
<1> QED
  BY <1>2, <1>3, <1>4 DEF PresentInv

LEMMA PresentStepInv ==
    ASSUME PresentInv, [PresentNext]_presentVars
    PROVE  PresentInv'
<1>1. CASE PresentNext
  BY <1>1, IssueInv, SignSomethingInv, CreateInv, WrapSomethingInv, LookingInv, AlterCopyInv,
     AlterPresentationInv, ElsewhereInv DEF PresentNext
<1> QED
  BY <1>1, StutterInv

\* Every proof that goes about is a signature of something that its key's owner signed, and
\* what is unaltered is as it was made, in every reachable state.
THEOREM PresentInvariance == PresentSpec => []PresentInv
<1> QED
  BY PresentInitInv, PresentStepInv, PTL DEF PresentSpec

\* For any holders, keys and origins, days, replacements of the key and alterations: what
\* is accepted was signed so by holder and tenant and is not revoked, and what the program
\* made is accepted, verified and looked up as it is.
THEOREM AcceptedWasMade == PresentSpec => []AcceptedAsMade
<1>1. PresentInv => AcceptedAsMade
  BY WhatIsAcceptedWasSigned, CreatedPasses, LookedUpRight, SignedVerifies, PresentTypes
  DEF AcceptedAsMade, MadeIsAccepted
<1> QED
  BY <1>1, PresentInvariance, PTL
=============================================================================
