-------------------------- MODULE BadgeIssuance_proofs --------------------------
(* Proofs that what is issued is whole and that issuance keeps its promise,  *)
(* for any number of overlapping runs, keys and recipients and any number of *)
(* runs that are lost between two of their statements; and that each badge   *)
(* is counted, for a unit that owned its template and with its claim once,   *)
(* whatever the reports, transfers and events overlap with.                  *)
EXTENDS BadgeIssuance, Reporting, FiniteSetTheorems, TLAPS

(* The inductive invariant, in named parts.                                  *)

OneRow == \A a, b \in Rows : assertions[a].key = assertions[b].key => a = b

\* The row of the greatest index, and no index beyond the number of rows: so the
\* next index exists (nextAssertionStatusListIndex).
IndexesCount ==
    /\ IsFiniteSet(Rows)
    /\ \A a \in Rows : assertions[a].index < Cardinality(Rows)
    /\ Rows # {} =>
           \E m \in Rows : \A a \in Rows : assertions[a].index <= assertions[m].index

AnswersHold ==
    \A x \in answers :
        /\ x.id \in RowsOfKey(x.key)
        /\ x.status = "issued" => written[x.id] = FollowUps

\* What a run has written before each of its last steps.
WrittenBefore(place) ==
    CASE place = "attribution" -> {"recipients"}
      [] place = "audit"       -> {"recipients", "attribution"}
      [] place = "answer"      -> FollowUps
      [] OTHER                 -> {}

\* What a run has read and written is so, and what it has drawn is its own.
RunHolds(place, c) ==
    /\ place = "idle" => c = NoCall
    /\ place # "idle" => c.key \in Keys /\ c.learner \in Learners
    /\ place = "replay" => c.id \in RowsOfKey(c.key)
    /\ place \in {"newIdentity", "index", "store", "insert"} => c.profile \in profiles
    /\ place \in {"index", "store", "insert"} => identities[c.learner] = c.profile
    /\ place \in {"store", "insert"} =>
           c.id \in Ids /\ c.id \notin Rows /\ c.index <= Cardinality(Rows)
    /\ place = "store" => objects[c.id] = NoValue
    /\ place = "insert" => objects[c.id] = [subject |-> c.profile, index |-> c.index]
    /\ place \in FollowUps \cup {"answer"} =>
           c.id \in RowsOfKey(c.key) /\ WrittenBefore(place) \subseteq written[c.id]

Holding == {"store", "insert"}

IdsDiffer ==
    \A q, r \in Requests :
        pc[q] \in Holding /\ pc[r] \in Holding /\ call[q].id = call[r].id => q = r

\* The tables and the object store, without the runs.
TablesTyped ==
    /\ assertions \in [Ids -> Assertion \cup {NoValue}]
    /\ objects \in [Ids -> Credential \cup {NoValue}]
    /\ profiles \subseteq Profiles
    /\ identities \in [Learners -> profiles \cup {NoValue}]
    /\ written \in [Ids -> SUBSET FollowUps]
    /\ answers \subseteq Answer
    /\ faults \in Nat

TablesHold ==
    /\ TablesTyped
    /\ OneRow
    /\ IndexesCount
    /\ RowMatchesCredential
    /\ SubjectHasIdentity
    /\ AnswersHold

IInv ==
    /\ TypeOK
    /\ TablesHold
    /\ \A r \in Requests : RunHolds(pc[r], call[r])
    /\ IdsDiffer

-----------------------------------------------------------------------------
(* What no step undoes, and what a step of one run leaves to the others.     *)

TablesStay ==
    /\ Rows \subseteq Rows'
    /\ \A a \in Rows :
           /\ assertions'[a].key = assertions[a].key
           /\ assertions'[a].profile = assertions[a].profile
           /\ assertions'[a].index = assertions[a].index
           /\ objects'[a] = objects[a]
    /\ profiles \subseteq profiles'
    /\ \A l \in Learners : identities[l] # NoValue => identities'[l] = identities[l]
    /\ \A a \in Ids : written[a] \subseteq written'[a]
    /\ Cardinality(Rows) \in Nat /\ Cardinality(Rows)' \in Nat
    /\ Cardinality(Rows) <= Cardinality(Rows)'

\* No row and no object is made under the id that another run holds.
OthersKept(r) ==
    \A q \in Requests \ {r} :
        pc[q] \in Holding =>
            call[q].id \notin Rows' /\ objects'[call[q].id] = objects[call[q].id]

\* A run of which nothing is undone still has what it had.
LEMMA RunStays ==
    ASSUME TypeOK, TablesStay, NEW s \in Steps, NEW c \in Call, RunHolds(s, c),
           s \in Holding => c.id \notin Rows' /\ objects'[c.id] = objects[c.id]
    PROVE  RunHolds(s, c)'
<1>1. (s = "idle" => c = NoCall) /\ (s # "idle" => c.key \in Keys /\ c.learner \in Learners)
  BY DEF RunHolds
<1>2. ASSUME c.id \in RowsOfKey(c.key) PROVE c.id \in RowsOfKey(c.key)'
  BY <1>2 DEF RowsOfKey, TablesStay
<1>3. s = "replay" => c.id \in RowsOfKey(c.key)'
  BY <1>2 DEF RunHolds
<1>4. s \in {"newIdentity", "index", "store", "insert"} => c.profile \in profiles'
  BY DEF RunHolds, TablesStay
<1>5. s \in {"index", "store", "insert"} => identities'[c.learner] = c.profile
  BY NoValueAssumption DEF RunHolds, TablesStay, TypeOK
<1>6. s \in Holding => c.id \in Ids /\ c.id \notin Rows' /\ c.index <= Cardinality(Rows)'
  <2>1. c.index \in Nat
    BY DEF Call
  <2> QED
    BY <2>1 DEF RunHolds, TablesStay, Holding
<1>7. s = "store" => objects'[c.id] = NoValue
  BY DEF RunHolds, Holding
<1>8. s = "insert" => objects'[c.id] = [subject |-> c.profile, index |-> c.index]
  BY DEF RunHolds, Holding
<1>9. s \in FollowUps \cup {"answer"} =>
         c.id \in RowsOfKey(c.key)' /\ WrittenBefore(s) \subseteq written'[c.id]
  <2>1. ASSUME s \in FollowUps \cup {"answer"}
        PROVE  c.id \in Ids /\ c.id \in RowsOfKey(c.key) /\ WrittenBefore(s) \subseteq written[c.id]
    BY <2>1 DEF RunHolds, RowsOfKey, Rows
  <2> QED
    BY <1>2, <2>1 DEF TablesStay
<1> QED
  BY <1>1, <1>3, <1>4, <1>5, <1>6, <1>7, <1>8, <1>9 DEF RunHolds, Holding

Moved(r, s, c) ==
    /\ pc' = [pc EXCEPT ![r] = s]
    /\ call' = [call EXCEPT ![r] = c]

\* A run that goes on to s with c keeps the invariant when the tables do, and when
\* what it holds then is so and its own.
LEMMA MoveInv ==
    ASSUME IInv, NEW r \in Requests, NEW s \in Steps, NEW c \in Call, Moved(r, s, c),
           TablesHold', TablesStay, OthersKept(r), RunHolds(s, c)',
           s \in Holding => \A q \in Requests \ {r} : pc[q] \in Holding => call[q].id # c.id
    PROVE  IInv'
<1>1. pc' \in [Requests -> Steps] /\ call' \in [Requests -> Call]
  BY DEF IInv, TypeOK, Moved
<1>2. TypeOK'
  BY <1>1 DEF TypeOK, TablesHold, TablesTyped
<1>3. /\ pc'[r] = s /\ call'[r] = c
      /\ \A q \in Requests \ {r} : pc'[q] = pc[q] /\ call'[q] = call[q]
  BY DEF IInv, TypeOK, Moved
<1>4. ASSUME NEW q \in Requests PROVE RunHolds(pc[q], call[q])'
  <2>1. CASE q = r
    BY <1>3, <2>1 DEF RunHolds
  <2>2. CASE q # r
    <3>1. PICK p, d : p = pc[q] /\ d = call[q]
      OBVIOUS
    <3>2. p \in Steps /\ d \in Call /\ RunHolds(p, d)
      BY <3>1 DEF IInv, TypeOK
    <3>3. p \in Holding => d.id \notin Rows' /\ objects'[d.id] = objects[d.id]
      BY <2>2, <3>1 DEF OthersKept
    <3>4. RunHolds(p, d)'
      BY <3>2, <3>3, RunStays DEF IInv
    <3> QED
      BY <1>3, <2>2, <3>1, <3>4 DEF RunHolds
  <2> QED
    BY <2>1, <2>2
<1>5. IdsDiffer'
  BY <1>3 DEF IInv, IdsDiffer
<1> QED
  BY <1>2, <1>4, <1>5 DEF IInv

LEMMA RowsCounted == IInv => IsFiniteSet(Rows) /\ Cardinality(Rows) \in Nat
  BY FS_CardinalityType DEF IInv, TablesHold, IndexesCount

TablesSame == UNCHANGED <<assertions, objects, profiles, identities, written>>

LEMMA SameStay ==
    ASSUME IInv, TablesSame
    PROVE  TablesStay /\ Rows' = Rows
<1>1. Rows' = Rows
  BY DEF TablesSame, Rows
<1>2. Cardinality(Rows) \in Nat /\ Cardinality(Rows)' = Cardinality(Rows)
  BY <1>1, RowsCounted
<1> QED
  BY <1>1, <1>2 DEF TablesSame, TablesStay

\* Steps that only read.
LEMMA ReadInv ==
    ASSUME IInv, NEW r \in Requests, NEW s \in Steps, NEW c \in Call, Moved(r, s, c),
           TablesSame, answers' \subseteq Answer, faults' \in Nat, AnswersHold',
           RunHolds(s, c),
           s \in Holding => \A q \in Requests \ {r} : pc[q] \in Holding => call[q].id # c.id
    PROVE  IInv'
<1>1. TablesStay /\ Rows' = Rows
  BY SameStay
<1>2. TablesTyped' /\ OneRow' /\ RowMatchesCredential' /\ SubjectHasIdentity'
  BY <1>1 DEF TablesSame, IInv, TablesHold, TablesTyped, OneRow, RowMatchesCredential,
              SubjectHasIdentity
<1>3. IndexesCount'
  BY <1>1 DEF TablesSame, IInv, TablesHold, IndexesCount
<1>4. \A q \in Requests :
         pc[q] \in Holding => call[q].id \notin Rows' /\ objects'[call[q].id] = objects[call[q].id]
  BY <1>1 DEF TablesSame, IInv, RunHolds, Holding
<1>5. OthersKept(r)
  BY <1>4 DEF OthersKept
<1>6. s \in Holding => c.id \notin Rows' /\ objects'[c.id] = objects[c.id]
  BY <1>1 DEF TablesSame, RunHolds, Holding
<1>7. RunHolds(s, c)'
  BY <1>1, <1>6, RunStays DEF IInv
<1> QED
  BY <1>1, <1>2, <1>3, <1>5, <1>7, MoveInv DEF TablesHold

LEMMA AnswersStay ==
    ASSUME IInv, TablesSame, answers' = answers
    PROVE  AnswersHold' /\ answers' \subseteq Answer
  BY DEF IInv, TablesHold, TablesTyped, AnswersHold, TablesSame, RowsOfKey, Rows

LEMMA NoCallFits ==
    /\ NoCall \in Call /\ "idle" \in Steps \ Holding
    /\ RunHolds("idle", NoCall)
  BY DEF NoCall, Call, Steps, Holding, RunHolds, FollowUps

\* A run that ends or reads, with no answer given.
LEMMA EndInv ==
    ASSUME IInv, NEW r \in Requests, End(r), TablesSame, answers' = answers, faults' \in Nat
    PROVE  IInv'
<1>1. Moved(r, "idle", NoCall)
  BY DEF End, Goto, Moved
<1> QED
  BY <1>1, NoCallFits, AnswersStay, ReadInv

LEMMA BeginInv ==
    ASSUME IInv, NEW r \in Requests, NEW k \in Keys, NEW l \in Learners, Begin(r, k, l)
    PROVE  IInv'
<1>1. PICK c : c = [NoCall EXCEPT !.key = k, !.learner = l]
  OBVIOUS
<1>2. c \in Call /\ c.key = k /\ c.learner = l
  BY <1>1 DEF NoCall, Call
<1>3. Moved(r, "find", c) /\ TablesSame /\ answers' = answers /\ faults' = faults
  BY <1>1 DEF Begin, Goto, Moved, TablesSame
<1>4. "find" \in Steps \ Holding /\ RunHolds("find", c)
  BY <1>2 DEF Steps, Holding, RunHolds, FollowUps
<1>5. faults' \in Nat
  BY <1>3 DEF IInv, TypeOK
<1> QED
  BY <1>2, <1>3, <1>4, <1>5, AnswersStay, ReadInv

LEMMA FindExistingInv ==
    ASSUME IInv, NEW r \in Requests, FindExisting(r)
    PROVE  IInv'
<1>1. TablesSame /\ answers' = answers /\ faults' \in Nat
  BY DEF FindExisting, TablesSame, IInv, TypeOK
<1>2. PICK c : c = call[r]
  OBVIOUS
<1>3. c \in Call /\ c.key \in Keys /\ c.learner \in Learners
  BY <1>2 DEF FindExisting, IInv, TypeOK, RunHolds
<1>4. CASE RowsOfKey(c.key) = {}
  <2>1. Moved(r, "profile", c)
    BY <1>2, <1>4 DEF FindExisting, Goto, Moved, IInv, TypeOK
  <2>2. "profile" \in Steps \ Holding /\ RunHolds("profile", c)
    BY <1>3 DEF Steps, Holding, RunHolds, FollowUps
  <2> QED
    BY <1>1, <1>3, <2>1, <2>2, AnswersStay, ReadInv
<1>5. CASE RowsOfKey(c.key) # {}
  <2>1. PICK a \in RowsOfKey(c.key) : Goto(r, "replay") /\ call' = [call EXCEPT ![r].id = a]
    BY <1>2, <1>5 DEF FindExisting
  <2>2. PICK d : d = [c EXCEPT !.id = a]
    OBVIOUS
  <2>3. d \in Call /\ d.key = c.key /\ d.learner = c.learner /\ d.id = a
    BY <1>3, <2>2 DEF Call, RowsOfKey, Rows
  <2>4. Moved(r, "replay", d)
    BY <1>2, <2>1, <2>2 DEF Goto, Moved
  <2>5. "replay" \in Steps \ Holding /\ RunHolds("replay", d)
    BY <1>3, <2>1, <2>3 DEF Steps, Holding, RunHolds, FollowUps
  <2> QED
    BY <1>1, <2>3, <2>4, <2>5, AnswersStay, ReadInv
<1> QED
  BY <1>4, <1>5

\* A run that ends with an answer about a row of its key, whose following rows are
\* written when it says so.
LEMMA AnsweredInv ==
    ASSUME IInv, NEW r \in Requests, NEW x \in Answer, End(r), TablesSame, faults' = faults,
           answers' = answers \cup {x}, x.id \in RowsOfKey(x.key),
           x.status = "issued" => written[x.id] = FollowUps
    PROVE  IInv'
<1>1. Moved(r, "idle", NoCall)
  BY DEF End, Goto, Moved
<1>2. answers' \subseteq Answer /\ faults' \in Nat
  BY DEF IInv, TypeOK
<1>3. AnswersHold'
  BY DEF IInv, TablesHold, AnswersHold, TablesSame, RowsOfKey, Rows
<1> QED
  BY <1>1, <1>2, <1>3, NoCallFits, ReadInv

LEMMA ReplayInv ==
    ASSUME IInv, NEW r \in Requests, Replay(r)
    PROVE  IInv'
<1>1. TablesSame /\ faults' = faults /\ faults' \in Nat /\ End(r)
  BY DEF Replay, TablesSame, IInv, TypeOK
<1>2. call[r].key \in Keys /\ call[r].id \in RowsOfKey(call[r].key)
  BY DEF Replay, IInv, RunHolds
<1>3. CASE answers' = answers
  BY <1>1, <1>3, EndInv
<1>4. CASE answers' # answers
  <2>1. PICK x : x = [key |-> call[r].key, id |-> call[r].id, status |-> "already_issued"]
    OBVIOUS
  <2>2. x \in Answer /\ x.id \in RowsOfKey(x.key) /\ x.status # "issued"
    BY <1>2, <2>1 DEF Answer, RowsOfKey, Rows
  <2>3. answers' = answers \cup {x}
    BY <1>4, <2>1 DEF Replay
  <2> QED
    BY <1>1, <2>2, <2>3, AnsweredInv
<1> QED
  BY <1>3, <1>4

LEMMA AnswerIssuedInv ==
    ASSUME IInv, NEW r \in Requests, AnswerIssued(r)
    PROVE  IInv'
<1>1. TablesSame /\ faults' = faults /\ End(r)
  BY DEF AnswerIssued, TablesSame
<1>2. /\ call[r].key \in Keys /\ call[r].id \in RowsOfKey(call[r].key)
      /\ FollowUps \subseteq written[call[r].id]
  BY DEF AnswerIssued, IInv, RunHolds, WrittenBefore
<1>3. PICK x : x = [key |-> call[r].key, id |-> call[r].id, status |-> "issued"]
  OBVIOUS
<1>4. x \in Answer /\ x.id \in RowsOfKey(x.key) /\ written[x.id] = FollowUps
  BY <1>2, <1>3 DEF Answer, RowsOfKey, Rows, IInv, TypeOK
<1>5. answers' = answers \cup {x}
  BY <1>3 DEF AnswerIssued
<1> QED
  BY <1>1, <1>4, <1>5, AnsweredInv

LEMMA FaultInv ==
    ASSUME IInv, NEW r \in Requests, Fault(r)
    PROVE  IInv'
<1>1. TablesSame /\ answers' = answers /\ faults' = faults + 1 /\ End(r)
  BY DEF Fault, TablesSame
<1>2. faults' \in Nat
  BY <1>1 DEF IInv, TypeOK
<1> QED
  BY <1>1, <1>2, EndInv

LEMMA FindProfileInv ==
    ASSUME IInv, NEW r \in Requests, FindProfile(r)
    PROVE  IInv'
<1>1. TablesSame /\ answers' = answers /\ faults' \in Nat
  BY DEF FindProfile, TablesSame, IInv, TypeOK
<1>2. PICK c : c = call[r]
  OBVIOUS
<1>3. c \in Call /\ c.key \in Keys /\ c.learner \in Learners
  BY <1>2 DEF FindProfile, IInv, TypeOK, RunHolds
<1>4. CASE identities[c.learner] = NoValue
  <2>1. Moved(r, "newProfile", c)
    BY <1>2, <1>4 DEF FindProfile, ProfileOf, Goto, Moved, IInv, TypeOK
  <2>2. "newProfile" \in Steps \ Holding /\ RunHolds("newProfile", c)
    BY <1>3 DEF Steps, Holding, RunHolds, FollowUps
  <2> QED
    BY <1>1, <1>3, <2>1, <2>2, AnswersStay, ReadInv
<1>5. CASE identities[c.learner] # NoValue
  <2>1. PICK d : d = [c EXCEPT !.profile = identities[c.learner]]
    OBVIOUS
  <2>2. identities[c.learner] \in profiles /\ identities[c.learner] \in Profiles
    BY <1>3, <1>5 DEF IInv, TypeOK
  <2>3. /\ d \in Call /\ d.key = c.key /\ d.learner = c.learner
        /\ d.profile = identities[c.learner]
    BY <1>3, <2>1, <2>2 DEF Call
  <2>4. Moved(r, "index", d)
    BY <1>2, <1>5, <2>1 DEF FindProfile, ProfileOf, Goto, Moved
  <2>5. "index" \in Steps \ Holding /\ RunHolds("index", d)
    BY <1>3, <2>2, <2>3 DEF Steps, Holding, RunHolds, FollowUps
  <2> QED
    BY <1>1, <2>3, <2>4, <2>5, AnswersStay, ReadInv
<1> QED
  BY <1>4, <1>5

\* The next status index is there, and no row has it or a greater one.
LEMMA NextIndexBound ==
    IInv => /\ NextIndex \in Nat /\ NextIndex <= Cardinality(Rows)
            /\ \A a \in Rows : assertions[a].index < NextIndex
<1> SUFFICES ASSUME IInv
             PROVE  /\ NextIndex \in Nat /\ NextIndex <= Cardinality(Rows)
                    /\ \A a \in Rows : assertions[a].index < NextIndex
  OBVIOUS
<1> DEFINE Next1(i) == /\ \A a \in Rows : assertions[a].index < i
                       /\ i = 0 \/ \E a \in Rows : assertions[a].index = i - 1
<1>1. Cardinality(Rows) \in Nat
  BY RowsCounted
<1>2. \A a \in Rows : assertions[a].index \in Nat
  BY NoRowAssumption DEF IInv, TypeOK, Rows, Assertion
<1>3. \E i \in 0..Cardinality(Rows) : Next1(i)
  <2>1. CASE Rows = {}
    <3>1. 0 \in 0..Cardinality(Rows) /\ Next1(0)
      BY <1>1, <2>1
    <3> QED
      BY <3>1
  <2>2. CASE Rows # {}
    <3>1. PICK m \in Rows : \A a \in Rows : assertions[a].index <= assertions[m].index
      BY <2>2 DEF IInv, TablesHold, IndexesCount
    <3>2. PICK i : i = assertions[m].index + 1
      OBVIOUS
    <3>3. i \in 0..Cardinality(Rows)
      BY <1>1, <1>2, <3>1, <3>2 DEF IInv, TablesHold, IndexesCount
    <3>4. Next1(i)
      BY <1>2, <3>1, <3>2
    <3> QED
      BY <3>3, <3>4
  <2> QED
    BY <2>1, <2>2
<1>4. NextIndex = CHOOSE i \in 0..Cardinality(Rows) : Next1(i)
  BY DEF NextIndex
<1> HIDE DEF Next1
<1>5. NextIndex \in 0..Cardinality(Rows) /\ Next1(NextIndex)
  BY <1>3, <1>4
<1> QED
  BY <1>1, <1>5 DEF Next1

LEMMA AllocateIndexInv ==
    ASSUME IInv, NEW r \in Requests, AllocateIndex(r)
    PROVE  IInv'
<1>1. TablesSame /\ answers' = answers /\ faults' \in Nat
  BY DEF AllocateIndex, TablesSame, IInv, TypeOK
<1>2. PICK c : c = call[r]
  OBVIOUS
<1>3. /\ c \in Call /\ c.key \in Keys /\ c.learner \in Learners
      /\ c.profile \in profiles /\ identities[c.learner] = c.profile
  BY <1>2 DEF AllocateIndex, IInv, TypeOK, RunHolds
<1>4. CASE Ids \ UsedIds # {}
  <2>1. FreshId \in Ids /\ FreshId \notin UsedIds
    BY <1>4 DEF FreshId
  <2>2. PICK a, i : a = FreshId /\ i = NextIndex
    OBVIOUS
  <2>3. a \in Ids /\ a \notin Rows /\ objects[a] = NoValue /\ \A q \in Requests : call[q].id # a
    BY <2>1, <2>2 DEF UsedIds
  <2>4. i \in Nat /\ i <= Cardinality(Rows)
    BY <2>2, NextIndexBound
  <2>5. PICK d : d = [c EXCEPT !.id = a, !.index = i]
    OBVIOUS
  <2>6. /\ d \in Call /\ d.key = c.key /\ d.learner = c.learner /\ d.profile = c.profile
        /\ d.id = a /\ d.index = i
    BY <1>3, <2>3, <2>4, <2>5 DEF Call
  <2>7. call' = [call EXCEPT ![r] = d]
    BY <1>2, <1>4, <2>2, <2>5 DEF AllocateIndex, IInv, TypeOK
  <2>8. Moved(r, "store", d)
    BY <1>4, <2>7 DEF AllocateIndex, Goto, Moved
  <2>9. "store" \in Steps /\ RunHolds("store", d)
    BY <1>3, <2>3, <2>4, <2>6 DEF Steps, RunHolds, FollowUps
  <2> QED
    BY <1>1, <2>3, <2>6, <2>8, <2>9, AnswersStay, ReadInv
<1>5. CASE Ids \ UsedIds = {}
  BY <1>1, <1>5, EndInv DEF AllocateIndex
<1> QED
  BY <1>4, <1>5

\* Steps that leave the rows, the answers and the count of lost runs.
RowsSame == UNCHANGED <<assertions, answers, faults>>

LEMMA RowsSameHold ==
    ASSUME IInv, RowsSame
    PROVE  /\ Rows' = Rows /\ OneRow' /\ IndexesCount'
           /\ answers' \subseteq Answer /\ faults' \in Nat
           /\ assertions' \in [Ids -> Assertion \cup {NoValue}]
           /\ Cardinality(Rows) \in Nat /\ Cardinality(Rows)' = Cardinality(Rows)
<1>1. Rows' = Rows
  BY DEF RowsSame, Rows
<1>2. Cardinality(Rows) \in Nat /\ Cardinality(Rows)' = Cardinality(Rows)
  BY <1>1, RowsCounted
<1>3. OneRow'
  BY <1>1 DEF RowsSame, IInv, TablesHold, OneRow
<1>4. IndexesCount'
  BY <1>1, <1>2 DEF RowsSame, IInv, TablesHold, IndexesCount
<1> QED
  BY <1>1, <1>2, <1>3, <1>4 DEF RowsSame, IInv, TypeOK

\* A run's hold on its id is not touched by a step that makes no row and no object.
LEMMA OthersKeptSame ==
    ASSUME IInv, NEW r, Rows' = Rows, objects' = objects
    PROVE  OthersKept(r)
<1>1. \A q \in Requests : pc[q] \in Holding => call[q].id \notin Rows
  BY DEF IInv, RunHolds, Holding
<1> QED
  BY <1>1 DEF OthersKept

LEMMA CreateProfileInv ==
    ASSUME IInv, NEW r \in Requests, CreateProfile(r)
    PROVE  IInv'
<1>1. /\ RowsSame /\ objects' = objects /\ identities' = identities /\ written' = written
      /\ answers' = answers /\ faults' \in Nat
  BY DEF CreateProfile, RowsSame, IInv, TypeOK
<1>2. CASE Profiles \ UsedProfiles # {}
  <2>1. PICK c, p : c = call[r] /\ p = FreshProfile
    OBVIOUS
  <2>2. c \in Call /\ c.key \in Keys /\ c.learner \in Learners
    BY <2>1 DEF CreateProfile, IInv, TypeOK, RunHolds
  <2>3. p \in Profiles
    BY <1>2, <2>1 DEF FreshProfile
  <2>4. PICK d : d = [c EXCEPT !.profile = p]
    OBVIOUS
  <2>5. d \in Call /\ d.key = c.key /\ d.learner = c.learner /\ d.profile = p
    BY <2>2, <2>3, <2>4 DEF Call
  <2>6. profiles' = profiles \cup {p}
    BY <1>2, <2>1 DEF CreateProfile
  <2>7. Moved(r, "newIdentity", d)
    BY <1>2, <2>1, <2>4 DEF CreateProfile, Goto, Moved
  <2>8. TablesStay
    BY <1>1, <2>6, RowsSameHold DEF TablesStay, RowsSame
  <2>9. OthersKept(r)
    BY <1>1, RowsSameHold, OthersKeptSame
  <2>10. TablesTyped'
    BY <1>1, <2>3, <2>6, RowsSameHold DEF TablesTyped, IInv, TypeOK
  <2>11. RowMatchesCredential' /\ SubjectHasIdentity' /\ AnswersHold'
    BY <1>1, RowsSameHold
       DEF RowsSame, IInv, TablesHold, RowMatchesCredential, SubjectHasIdentity, AnswersHold, RowsOfKey
  <2>12. "newIdentity" \in Steps \ Holding /\ RunHolds("newIdentity", d)'
    BY <2>2, <2>5, <2>6 DEF Steps, Holding, RunHolds, FollowUps
  <2>13. TablesHold'
    BY <1>1, <2>10, <2>11, RowsSameHold DEF TablesHold
  <2> QED
    BY <2>5, <2>7, <2>8, <2>9, <2>12, <2>13, MoveInv
<1>3. CASE Profiles \ UsedProfiles = {}
  <2>1. TablesSame /\ End(r)
    BY <1>1, <1>3 DEF CreateProfile, TablesSame, RowsSame
  <2> QED
    BY <1>1, <2>1, EndInv
<1> QED
  BY <1>2, <1>3

LEMMA AddIdentityInv ==
    ASSUME IInv, NEW r \in Requests, AddIdentity(r)
    PROVE  IInv'
<1>1. /\ RowsSame /\ objects' = objects /\ profiles' = profiles /\ written' = written
      /\ answers' = answers /\ faults' \in Nat
  BY DEF AddIdentity, RowsSame, IInv, TypeOK
<1>2. PICK c : c = call[r]
  OBVIOUS
<1>3. c \in Call /\ c.key \in Keys /\ c.learner \in Learners /\ c.profile \in profiles
  BY <1>2 DEF AddIdentity, IInv, TypeOK, RunHolds
<1>4. CASE identities[c.learner] = NoValue
  <2>1. identities' = [identities EXCEPT ![c.learner] = c.profile]
    BY <1>2, <1>4 DEF AddIdentity, IdentityIsFree
  <2>2. Moved(r, "index", c)
    BY <1>2, <1>4 DEF AddIdentity, IdentityIsFree, Goto, Moved, IInv, TypeOK
  <2>3. /\ identities' \in [Learners -> profiles \cup {NoValue}]
        /\ identities'[c.learner] = c.profile
        /\ \A l \in Learners : identities[l] # NoValue => identities'[l] = identities[l]
    BY <1>3, <1>4, <2>1 DEF IInv, TypeOK
  <2>4. TablesStay
    BY <1>1, <2>3, RowsSameHold DEF TablesStay, RowsSame
  <2>5. OthersKept(r)
    BY <1>1, RowsSameHold, OthersKeptSame
  <2>6. TablesTyped'
    BY <1>1, <2>3, RowsSameHold DEF TablesTyped, IInv, TypeOK
  <2>7. RowMatchesCredential' /\ AnswersHold'
    BY <1>1, RowsSameHold
       DEF RowsSame, IInv, TablesHold, RowMatchesCredential, AnswersHold, RowsOfKey
  <2>8. SubjectHasIdentity'
    <3>1. \A a \in Rows : assertions[a].profile # NoValue
      BY NoValueAssumption, NoRowAssumption DEF IInv, TypeOK, Rows, Assertion
    <3> QED
      BY <1>1, <2>3, <3>1, RowsSameHold DEF RowsSame, IInv, TablesHold, SubjectHasIdentity
  <2>9. "index" \in Steps \ Holding /\ RunHolds("index", c)'
    BY <1>1, <1>3, <2>3 DEF Steps, Holding, RunHolds, FollowUps
  <2>10. TablesHold'
    BY <1>1, <2>6, <2>7, <2>8, RowsSameHold DEF TablesHold
  <2> QED
    BY <1>3, <2>2, <2>4, <2>5, <2>9, <2>10, MoveInv
<1>5. CASE identities[c.learner] # NoValue
  <2>1. TablesSame /\ End(r)
    BY <1>1, <1>2, <1>5 DEF AddIdentity, IdentityIsFree, TablesSame, RowsSame
  <2> QED
    BY <1>1, <2>1, EndInv
<1> QED
  BY <1>4, <1>5

LEMMA StoreCredentialInv ==
    ASSUME IInv, NEW r \in Requests, StoreCredential(r)
    PROVE  IInv'
<1>1. /\ RowsSame /\ profiles' = profiles /\ identities' = identities /\ written' = written
      /\ faults' \in Nat
  BY DEF StoreCredential, RowsSame, IInv, TypeOK
<1>2. PICK c : c = call[r]
  OBVIOUS
<1>3. /\ c \in Call /\ c.key \in Keys /\ c.learner \in Learners /\ c.profile \in profiles
      /\ identities[c.learner] = c.profile /\ c.id \in Ids /\ c.id \notin Rows
      /\ c.index <= Cardinality(Rows) /\ c.index \in Nat
  BY <1>2 DEF StoreCredential, IInv, TypeOK, RunHolds, Call
<1>4. PICK o : o = [subject |-> c.profile, index |-> c.index]
  OBVIOUS
<1>5. o \in Credential
  BY <1>3, <1>4 DEF Credential, IInv, TypeOK
<1>6. objects' = [objects EXCEPT ![c.id] = o]
  BY <1>2, <1>4 DEF StoreCredential
<1>7. /\ objects' \in [Ids -> Credential \cup {NoValue}] /\ objects'[c.id] = o
      /\ \A a \in Ids : a # c.id => objects'[a] = objects[a]
  BY <1>3, <1>5, <1>6 DEF IInv, TypeOK
<1>8. Moved(r, "insert", c)
  BY <1>2 DEF StoreCredential, Goto, Moved, IInv, TypeOK
<1>9. TablesStay
  BY <1>1, <1>3, <1>7, RowsSameHold DEF TablesStay, RowsSame, Rows
<1>10. \A q \in Requests \ {r} : pc[q] \in Holding => call[q].id # c.id
  BY <1>2 DEF StoreCredential, IInv, IdsDiffer, Holding
<1>11. OthersKept(r)
  <2>1. \A q \in Requests : pc[q] \in Holding => call[q].id \notin Rows /\ call[q].id \in Ids
    BY DEF IInv, RunHolds, Holding
  <2> QED
    BY <1>7, <1>10, <2>1, RowsSameHold, <1>1 DEF OthersKept
<1>12. TablesTyped'
  BY <1>1, <1>7, RowsSameHold DEF TablesTyped, IInv, TypeOK
<1>13. RowMatchesCredential' /\ SubjectHasIdentity' /\ AnswersHold'
  BY <1>1, <1>3, <1>7, RowsSameHold
     DEF RowsSame, IInv, TablesHold, RowMatchesCredential, SubjectHasIdentity, AnswersHold, RowsOfKey,
         Rows
<1>14. "insert" \in Steps /\ RunHolds("insert", c)'
  BY <1>1, <1>3, <1>4, <1>7, RowsSameHold DEF Steps, RunHolds, FollowUps
<1>15. TablesHold'
  BY <1>1, <1>12, <1>13, RowsSameHold DEF TablesHold
<1> QED
  BY <1>3, <1>8, <1>9, <1>10, <1>11, <1>14, <1>15, MoveInv

\* The new row is the first of its key, and its index is within the new count of rows.
LEMMA InsertAssertionInv ==
    ASSUME IInv, NEW r \in Requests, InsertAssertion(r)
    PROVE  IInv'
<1>1. /\ UNCHANGED <<objects, profiles, identities, written, answers, faults>>
      /\ faults' \in Nat /\ answers' \subseteq Answer
  BY DEF InsertAssertion, IInv, TypeOK
<1>2. PICK c : c = call[r]
  OBVIOUS
<1>3. /\ c \in Call /\ c.key \in Keys /\ c.learner \in Learners /\ c.profile \in profiles
      /\ identities[c.learner] = c.profile /\ c.id \in Ids /\ c.id \notin Rows
      /\ c.index <= Cardinality(Rows) /\ c.index \in Nat
      /\ objects[c.id] = [subject |-> c.profile, index |-> c.index]
  BY <1>2 DEF InsertAssertion, IInv, TypeOK, RunHolds, Call
<1>4. CASE KeyIsFree(c.key)
  <2>1. PICK n : n = NewRow(r)
    OBVIOUS
  <2>2. /\ n \in Assertion /\ n # NoValue
        /\ n.key = c.key /\ n.profile = c.profile /\ n.index = c.index
    BY <1>2, <1>3, <2>1, NoRowAssumption DEF NewRow, Assertion, IInv, TypeOK
  <2>3. assertions' = [assertions EXCEPT ![c.id] = n]
    BY <1>2, <1>4, <2>1 DEF InsertAssertion
  <2>4. /\ assertions' \in [Ids -> Assertion \cup {NoValue}]
        /\ assertions'[c.id] = n
        /\ \A a \in Rows : a # c.id /\ assertions'[a] = assertions[a]
    BY <1>3, <2>2, <2>3 DEF IInv, TypeOK, Rows
  <2>5. Rows' = Rows \cup {c.id}
    BY <1>3, <2>2, <2>3 DEF IInv, TypeOK, Rows
  <2>6. PICK m : m = Cardinality(Rows)
    OBVIOUS
  <2>7. m \in Nat /\ IsFiniteSet(Rows)' /\ Cardinality(Rows)' = m + 1
    BY <1>3, <2>5, <2>6, RowsCounted, FS_AddElement
  <2>8. TablesStay
    BY <1>1, <2>4, <2>5, <2>6, <2>7 DEF TablesStay
  <2>9. OneRow'
    <3>1. \A a \in Rows : assertions[a].key # c.key
      BY <1>4 DEF KeyIsFree, RowsOfKey
    <3> QED
      BY <2>2, <2>4, <2>5, <3>1 DEF OneRow, IInv, TablesHold
  <2>10. IndexesCount'
    <3>1. \A a \in Rows : assertions[a].index \in Nat /\ assertions[a].index < m
      BY <2>6, NoRowAssumption DEF IInv, TypeOK, TablesHold, IndexesCount, Rows, Assertion
    <3>2. \A a \in Rows' : assertions'[a].index < m + 1
      BY <1>3, <2>2, <2>4, <2>5, <2>6, <2>7, <3>1
    <3>3. \E x \in Rows' : \A a \in Rows' : assertions'[a].index <= assertions'[x].index
      <4>1. CASE \A a \in Rows : assertions[a].index <= c.index
        BY <1>3, <2>2, <2>4, <2>5, <4>1
      <4>2. CASE \E a \in Rows : assertions[a].index > c.index
        <5>1. PICK y \in Rows : assertions[y].index > c.index
          BY <4>2
        <5>2. PICK x \in Rows : \A a \in Rows : assertions[a].index <= assertions[x].index
          BY <5>1 DEF IInv, TablesHold, IndexesCount
        <5>3. c.index <= assertions[x].index
          BY <1>3, <3>1, <5>1, <5>2
        <5> QED
          BY <2>2, <2>4, <2>5, <5>2, <5>3
      <4> QED
        BY <1>3, <3>1, <4>1, <4>2
    <3> QED
      BY <2>7, <3>2, <3>3 DEF IndexesCount
  <2>11. RowMatchesCredential' /\ SubjectHasIdentity'
    BY <1>1, <1>3, <2>2, <2>4, <2>5
       DEF IInv, TablesHold, RowMatchesCredential, SubjectHasIdentity
  <2>12. \A k \in Keys : \A a \in RowsOfKey(k) : a \in RowsOfKey(k)'
    BY <2>4, <2>5 DEF RowsOfKey
  <2>13. AnswersHold'
    BY <1>1, <2>12 DEF IInv, TypeOK, TablesHold, AnswersHold, Answer
  <2>14. TablesTyped'
    BY <1>1, <2>4 DEF TablesTyped, IInv, TypeOK
  <2>15. Moved(r, "recipients", c)
    BY <1>2, <1>4 DEF InsertAssertion, Goto, Moved, IInv, TypeOK
  <2>16. OthersKept(r)
    <3>1. \A q \in Requests \ {r} : pc[q] \in Holding => call[q].id # c.id /\ call[q].id \notin Rows
      BY <1>2 DEF InsertAssertion, IInv, IdsDiffer, RunHolds, Holding
    <3> QED
      BY <1>1, <2>5, <3>1 DEF OthersKept
  <2>17. c.id \in RowsOfKey(c.key)'
    BY <2>2, <2>4, <2>5 DEF RowsOfKey
  <2>18. "recipients" \in Steps \ Holding /\ RunHolds("recipients", c)'
    BY <1>3, <2>17 DEF Steps, Holding, RunHolds, FollowUps, WrittenBefore
  <2>19. TablesHold'
    BY <2>9, <2>10, <2>11, <2>13, <2>14 DEF TablesHold
  <2> QED
    BY <1>3, <2>8, <2>15, <2>16, <2>18, <2>19, MoveInv
<1>5. CASE ~ KeyIsFree(c.key)
  <2>1. TablesSame /\ End(r)
    BY <1>1, <1>2, <1>5 DEF InsertAssertion, TablesSame
  <2> QED
    BY <1>1, <2>1, EndInv
<1> QED
  BY <1>4, <1>5

LEMMA WriteFollowUpInv ==
    ASSUME IInv, NEW r \in Requests, WriteFollowUp(r)
    PROVE  IInv'
<1>1. RowsSame /\ objects' = objects /\ profiles' = profiles /\ identities' = identities
  BY DEF WriteFollowUp, RowsSame
<1>2. PICK c, p : c = call[r] /\ p = pc[r]
  OBVIOUS
<1>3. /\ p \in FollowUps /\ c \in Call /\ c.key \in Keys /\ c.learner \in Learners
      /\ c.id \in RowsOfKey(c.key) /\ c.id \in Ids /\ WrittenBefore(p) \subseteq written[c.id]
  BY <1>2 DEF WriteFollowUp, IInv, TypeOK, RunHolds, RowsOfKey, Rows, FollowUps
<1>4. written' = [written EXCEPT ![c.id] = @ \cup {p}]
  BY <1>2 DEF WriteFollowUp
<1>5. /\ written' \in [Ids -> SUBSET FollowUps]
      /\ written'[c.id] = written[c.id] \cup {p}
      /\ \A a \in Ids : written[a] \subseteq written'[a]
  BY <1>3, <1>4 DEF IInv, TypeOK
<1>6. PICK s : s = After(p)
  OBVIOUS
<1>7. /\ s \in Steps \ Holding /\ s \in {"attribution", "audit", "answer"}
      /\ WrittenBefore(s) = WrittenBefore(p) \cup {p}
  BY <1>3, <1>6 DEF After, FollowUps, Steps, Holding, WrittenBefore
<1>8. Moved(r, s, c)
  BY <1>2, <1>6 DEF WriteFollowUp, Goto, Moved, IInv, TypeOK
<1>9. TablesStay
  BY <1>1, <1>5, RowsSameHold DEF TablesStay, RowsSame
<1>10. OthersKept(r)
  BY <1>1, RowsSameHold, OthersKeptSame
<1>11. TablesTyped'
  BY <1>1, <1>5, RowsSameHold DEF TablesTyped, IInv, TypeOK
<1>12. RowMatchesCredential' /\ SubjectHasIdentity'
  BY <1>1, RowsSameHold DEF RowsSame, IInv, TablesHold, RowMatchesCredential, SubjectHasIdentity
<1>13. AnswersHold'
  <2>1. ASSUME NEW x \in answers
        PROVE  x.id \in RowsOfKey(x.key)' /\ (x.status = "issued" => written'[x.id] = FollowUps)
    <3>1. x.id \in Ids /\ x.id \in RowsOfKey(x.key) /\ (x.status = "issued" => written[x.id] = FollowUps)
      BY DEF IInv, TypeOK, TablesHold, AnswersHold, Answer
    <3>2. written[x.id] \subseteq written'[x.id] /\ written'[x.id] \subseteq FollowUps
      BY <1>5, <3>1
    <3> QED
      BY <1>1, <3>1, <3>2, RowsSameHold DEF RowsOfKey, RowsSame
  <2> QED
    BY <1>1, <2>1 DEF AnswersHold, RowsSame
<1>14. RunHolds(s, c)'
  <2>1. c.id \in RowsOfKey(c.key)'
    BY <1>1, <1>3, RowsSameHold DEF RowsOfKey, RowsSame
  <2> QED
    BY <1>3, <1>5, <1>7, <2>1 DEF RunHolds, FollowUps
<1>15. TablesHold'
  BY <1>1, <1>11, <1>12, <1>13, RowsSameHold DEF TablesHold
<1> QED
  BY <1>3, <1>7, <1>8, <1>9, <1>10, <1>14, <1>15, MoveInv

LEMMA ChangeStateInv ==
    ASSUME IInv, NEW a \in Ids, NEW t \in {"active", "suspended", "revoked"}, ChangeState(a, t)
    PROVE  IInv'
<1>1. /\ UNCHANGED <<objects, profiles, identities, written, pc, call, answers, faults>>
      /\ a \in Rows /\ assertions' = [assertions EXCEPT ![a].state = t]
  BY DEF ChangeState
<1>2. assertions[a] \in Assertion
  BY <1>1 DEF IInv, TypeOK, Rows
<1>3. PICK n : n = [assertions[a] EXCEPT !.state = t]
  OBVIOUS
<1>4. /\ n \in Assertion /\ n # NoValue /\ n.key = assertions[a].key
      /\ n.profile = assertions[a].profile /\ n.index = assertions[a].index
  BY <1>2, <1>3, NoRowAssumption DEF Assertion
<1>5. assertions' = [assertions EXCEPT ![a] = n]
  BY <1>1, <1>3
<1>6. /\ assertions' \in [Ids -> Assertion \cup {NoValue}]
      /\ Rows' = Rows
      /\ \A b \in Rows : /\ assertions'[b].key = assertions[b].key
                          /\ assertions'[b].profile = assertions[b].profile
                          /\ assertions'[b].index = assertions[b].index
  <2>1. /\ assertions \in [Ids -> Assertion \cup {NoValue}] /\ a \in Ids
        /\ assertions[a] # NoValue
    BY <1>1 DEF IInv, TypeOK, Rows
  <2>2. /\ assertions' \in [Ids -> Assertion \cup {NoValue}] /\ assertions'[a] = n
        /\ \A b \in Ids : b # a => assertions'[b] = assertions[b]
    BY <1>4, <1>5, <2>1
  <2>3. Rows' = Rows
    BY <1>4, <2>1, <2>2 DEF Rows
  <2> QED
    BY <1>4, <2>2, <2>3 DEF Rows
<1>7. Cardinality(Rows) \in Nat /\ Cardinality(Rows)' = Cardinality(Rows)
  BY <1>6, RowsCounted
<1>8. TablesStay
  BY <1>1, <1>6, <1>7 DEF TablesStay
<1>9. TablesTyped' /\ OneRow' /\ RowMatchesCredential' /\ SubjectHasIdentity'
  BY <1>1, <1>6 DEF IInv, TypeOK, TablesHold, TablesTyped, OneRow, RowMatchesCredential,
                    SubjectHasIdentity
<1>10. IndexesCount'
  BY <1>6, <1>7 DEF IInv, TablesHold, IndexesCount
<1>11. AnswersHold'
  BY <1>1, <1>6 DEF IInv, TablesHold, AnswersHold, RowsOfKey
<1>12. ASSUME NEW r \in Requests PROVE RunHolds(pc[r], call[r])'
  <2>1. PICK p, c : p = pc[r] /\ c = call[r]
    OBVIOUS
  <2>2. p \in Steps /\ c \in Call /\ RunHolds(p, c)
    BY <2>1 DEF IInv, TypeOK
  <2>3. p \in Holding => c.id \notin Rows' /\ objects'[c.id] = objects[c.id]
    BY <1>1, <1>6, <2>2 DEF RunHolds, Holding
  <2>4. RunHolds(p, c)'
    BY <1>8, <2>2, <2>3, RunStays DEF IInv
  <2> QED
    BY <1>1, <2>1, <2>4 DEF RunHolds
<1>13. TypeOK' /\ IdsDiffer'
  BY <1>1, <1>9 DEF IInv, TypeOK, TablesTyped, IdsDiffer
<1> QED
  BY <1>9, <1>10, <1>11, <1>12, <1>13 DEF IInv, TablesHold

LEMMA InitInv == Init => IInv
<1> SUFFICES ASSUME Init PROVE IInv
  OBVIOUS
<1>1. Rows = {} /\ IsFiniteSet(Rows)
  BY FS_EmptySet DEF Init, Rows
<1>2. TypeOK
  BY NoCallFits DEF Init, TypeOK, Steps
<1>3. TablesHold
  BY <1>1, <1>2 DEF Init, TablesHold, TablesTyped, TypeOK, OneRow, IndexesCount,
                    RowMatchesCredential, SubjectHasIdentity, AnswersHold
<1>4. \A r \in Requests : RunHolds(pc[r], call[r])
  BY NoCallFits DEF Init, RunHolds
<1>5. IdsDiffer
  BY DEF Init, IdsDiffer, Holding
<1> QED
  BY <1>2, <1>3, <1>4, <1>5 DEF IInv

LEMMA NextInv ==
    ASSUME IInv, [Next]_vars
    PROVE  IInv'
<1>1. CASE UNCHANGED vars
  <2>1. /\ TablesSame /\ pc' = pc /\ call' = call /\ answers' = answers /\ faults' = faults
        /\ Rows' = Rows
    BY <1>1 DEF vars, TablesSame, Rows
  <2>2. TypeOK' /\ IdsDiffer'
    BY <2>1 DEF TablesSame, IInv, TypeOK, IdsDiffer
  <2>3. TablesTyped' /\ OneRow' /\ RowMatchesCredential' /\ SubjectHasIdentity' /\ AnswersHold'
    BY <2>1 DEF TablesSame, IInv, TablesHold, TablesTyped, OneRow, RowMatchesCredential,
                SubjectHasIdentity, AnswersHold, RowsOfKey
  <2>4. IndexesCount'
    BY <2>1 DEF TablesSame, IInv, TablesHold, IndexesCount
  <2>5. \A r \in Requests : RunHolds(pc[r], call[r])'
    BY <2>1 DEF TablesSame, IInv, RunHolds, RowsOfKey
  <2> QED
    BY <2>2, <2>3, <2>4, <2>5 DEF IInv, TablesHold
<1>2. ASSUME NEW r \in Requests, NEW k \in Keys, NEW l \in Learners, Begin(r, k, l)
      PROVE  IInv'
  BY <1>2, BeginInv
<1>3. ASSUME NEW r \in Requests, Step(r)
      PROVE  IInv'
  <2> USE <1>3
  <2>1. CASE FindExisting(r)
    BY <2>1, FindExistingInv
  <2>2. CASE Replay(r)
    BY <2>2, ReplayInv
  <2>3. CASE FindProfile(r)
    BY <2>3, FindProfileInv
  <2>4. CASE CreateProfile(r)
    BY <2>4, CreateProfileInv
  <2>5. CASE AddIdentity(r)
    BY <2>5, AddIdentityInv
  <2>6. CASE AllocateIndex(r)
    BY <2>6, AllocateIndexInv
  <2>7. CASE StoreCredential(r)
    BY <2>7, StoreCredentialInv
  <2>8. CASE InsertAssertion(r)
    BY <2>8, InsertAssertionInv
  <2>9. CASE WriteFollowUp(r)
    BY <2>9, WriteFollowUpInv
  <2>10. CASE AnswerIssued(r)
    BY <2>10, AnswerIssuedInv
  <2> QED
    BY <2>1, <2>2, <2>3, <2>4, <2>5, <2>6, <2>7, <2>8, <2>9, <2>10 DEF Step
<1>4. ASSUME NEW r \in Requests, Fault(r)
      PROVE  IInv'
  BY <1>4, FaultInv
<1>5. ASSUME NEW a \in Ids, NEW t \in {"active", "suspended", "revoked"}, ChangeState(a, t)
      PROVE  IInv'
  BY <1>5, ChangeStateInv
<1> QED
  BY <1>1, <1>2, <1>3, <1>4, <1>5 DEF Next

\* The tables, the object store and what every run holds, at every moment.
THEOREM Invariance == Spec => []IInv
<1>1. IInv /\ [Next]_vars => IInv'
  BY NextInv
<1> QED
  BY InitInv, <1>1, PTL DEF Spec

-----------------------------------------------------------------------------
LEMMA AtMostOne ==
    ASSUME NEW S, \A x, y \in S : x = y
    PROVE  Cardinality(S) <= 1
<1>1. CASE S = {}
  BY <1>1, FS_EmptySet
<1>2. CASE S # {}
  <2>1. PICK x : x \in S
    BY <1>2
  <2>2. S = {x}
    BY <2>1
  <2> QED
    BY <2>2, FS_Singleton
<1> QED
  BY <1>1, <1>2

LEMMA RowsOfKeyAlike ==
    IInv => \A k \in Keys : \A a, b \in RowsOfKey(k) : a = b
  BY DEF IInv, TablesHold, OneRow, RowsOfKey

\* A key has one assertion; it has its credential from the first moment, with the index
\* and the profile of the row; every caller was told of it, "issued" only with all its
\* rows; whatever runs of issueBadgeForTenant overlapped and were lost.
THEOREM IssuedStaysWhole == Spec => []IssuedIsWhole
<1>1. IInv => OneAssertionPerKey
  BY RowsOfKeyAlike, AtMostOne DEF OneAssertionPerKey
<1>2. IInv => AnswersAgree
  <2> SUFFICES ASSUME IInv, NEW x \in answers PROVE RowsOfKey(x.key) = {x.id}
    BY DEF AnswersAgree
  <2>1. x.key \in Keys /\ x.id \in RowsOfKey(x.key)
    BY DEF IInv, TypeOK, Answer, TablesHold, AnswersHold
  <2> QED
    BY <2>1, RowsOfKeyAlike
<1>3. IInv => IssuedIsRecorded
  BY DEF IInv, TablesHold, AnswersHold, IssuedIsRecorded
<1>4. IInv => IssuedIsWhole
  BY <1>1, <1>2, <1>3 DEF IssuedIsWhole, IInv, TablesHold
<1> QED
  BY <1>4, Invariance, PTL

-----------------------------------------------------------------------------
(* Issuance implements IdempotentIssuance: storing the credential is Store,  *)
(* inserting the row is Issue, the two answers are Answer, and every other   *)
(* step is a stutter.                                                        *)

StoredIds == {a \in Ids : objects[a] # NoValue}
IssuedOf == [k \in Keys |-> IssuedId(k)]
AnsweredOf == [k \in Keys |-> {x.id : x \in {y \in answers : y.key = k}}]

Chosen(S) == IF S = {} THEN NoValue ELSE CHOOSE a \in S : TRUE

LEMMA SameRowsSameId ==
    ASSUME NEW k, RowsOfKey(k)' = RowsOfKey(k)
    PROVE  IssuedId(k)' = IssuedId(k)
<1>1. IssuedId(k) = Chosen(RowsOfKey(k))
  BY DEF IssuedId, Chosen
<1>2. IssuedId(k)' = Chosen(RowsOfKey(k)')
  BY DEF IssuedId, Chosen
<1> QED
  BY <1>1, <1>2

LEMMA IssuedIdSame ==
    ASSUME \A k \in Keys : RowsOfKey(k)' = RowsOfKey(k)
    PROVE  IssuedOf' = IssuedOf
  BY SameRowsSameId DEF IssuedOf

LEMMA IssuedIdIsRow ==
    ASSUME IInv, NEW k \in Keys, NEW a \in RowsOfKey(k)
    PROVE  IssuedId(k) = a
  BY RowsOfKeyAlike DEF IssuedId

LEMMA QuietKeepsPromise ==
    ASSUME Rows' = Rows, \A a \in Rows : assertions'[a].key = assertions[a].key,
           objects' = objects, answers' = answers
    PROVE  UNCHANGED Promise!vars
<1>1. \A k \in Keys : RowsOfKey(k)' = RowsOfKey(k)
  BY DEF RowsOfKey
<1>2. IssuedOf' = IssuedOf /\ StoredIds' = StoredIds /\ AnsweredOf' = AnsweredOf
  BY <1>1, IssuedIdSame DEF StoredIds, AnsweredOf
<1> QED
  BY <1>2 DEF Promise!vars, IssuedOf, StoredIds, AnsweredOf

LEMMA StoreKeepsPromise ==
    ASSUME IInv, NEW r \in Requests, StoreCredential(r)
    PROVE  Promise!Next
<1>1. PICK c : c = call[r]
  OBVIOUS
<1>2. /\ c.id \in Ids /\ objects[c.id] = NoValue
      /\ c.profile \in Profiles /\ c.index \in Nat
  BY <1>1 DEF StoreCredential, IInv, TypeOK, RunHolds, Call
<1>3. PICK o : o = [subject |-> c.profile, index |-> c.index]
  OBVIOUS
<1>4. o # NoValue
  BY <1>2, <1>3, NoRowAssumption DEF Credential
<1>5. objects' = [objects EXCEPT ![c.id] = o] /\ assertions' = assertions /\ answers' = answers
  BY <1>1, <1>3 DEF StoreCredential
<1>6. StoredIds' = StoredIds \cup {c.id} /\ c.id \notin StoredIds
  BY <1>2, <1>4, <1>5 DEF StoredIds, IInv, TypeOK
<1>7. IssuedOf' = IssuedOf /\ AnsweredOf' = AnsweredOf
  BY <1>5, IssuedIdSame DEF AnsweredOf, RowsOfKey, Rows
<1>8. Promise!Store(c.id)
  BY <1>6, <1>7 DEF Promise!Store, IssuedOf, StoredIds, AnsweredOf
<1> QED
  BY <1>2, <1>8 DEF Promise!Next

LEMMA InsertKeepsPromise ==
    ASSUME IInv, IInv', NEW r \in Requests, InsertAssertion(r), KeyIsFree(call[r].key)
    PROVE  Promise!Next
<1>1. PICK c : c = call[r]
  OBVIOUS
<1>2. /\ c.key \in Keys /\ c.id \in Ids /\ c.id \notin Rows
      /\ c.profile \in Profiles /\ c.index \in Nat
      /\ objects[c.id] = [subject |-> c.profile, index |-> c.index]
  BY <1>1 DEF InsertAssertion, IInv, TypeOK, RunHolds, Call
<1>3. PICK n : n = NewRow(r)
  OBVIOUS
<1>4. n # NoValue /\ n.key = c.key
  BY <1>1, <1>2, <1>3, NoRowAssumption DEF NewRow, Assertion
<1>5. assertions' = [assertions EXCEPT ![c.id] = n] /\ objects' = objects /\ answers' = answers
  BY <1>1, <1>3 DEF InsertAssertion
<1>6. /\ \A a \in Rows : assertions'[a] = assertions[a]
      /\ assertions'[c.id] = n /\ Rows' = Rows \cup {c.id}
  BY <1>2, <1>4, <1>5 DEF IInv, TypeOK, Rows
<1>7. RowsOfKey(c.key) = {}
  BY <1>1 DEF KeyIsFree
<1>8. /\ RowsOfKey(c.key)' = {c.id}
      /\ \A k \in Keys : k # c.key => RowsOfKey(k)' = RowsOfKey(k)
  BY <1>2, <1>4, <1>6, <1>7 DEF RowsOfKey
<1>9. /\ IssuedId(c.key) = NoValue /\ IssuedId(c.key)' = c.id
      /\ \A k \in Keys : k # c.key => IssuedId(k)' = IssuedId(k)
  <2>1. IssuedId(c.key) = NoValue
    BY <1>7 DEF IssuedId
  <2>2. IssuedId(c.key)' = c.id
    BY <1>8 DEF IssuedId
  <2>3. \A k \in Keys : k # c.key => IssuedId(k)' = IssuedId(k)
    BY <1>8, SameRowsSameId
  <2> QED
    BY <2>1, <2>2, <2>3
<1>10. IssuedOf' = [IssuedOf EXCEPT ![c.key] = c.id] /\ IssuedOf[c.key] = NoValue
  BY <1>2, <1>9 DEF IssuedOf
<1>11. c.id \in StoredIds
  BY <1>2, NoRowAssumption DEF StoredIds, Credential
<1>12. \A j \in Keys : IssuedOf[j] # c.id
  <2> SUFFICES ASSUME NEW j \in Keys PROVE IssuedId(j) # c.id
    BY DEF IssuedOf
  <2>1. CASE RowsOfKey(j) = {}
    BY <1>2, <2>1, NoValueAssumption DEF IssuedId
  <2>2. CASE RowsOfKey(j) # {}
    <3>1. PICK a \in RowsOfKey(j) : TRUE
      BY <2>2
    <3> QED
      BY <1>2, <3>1, IssuedIdIsRow DEF RowsOfKey
  <2> QED
    BY <2>1, <2>2
<1>13. StoredIds' = StoredIds /\ AnsweredOf' = AnsweredOf
  BY <1>5 DEF StoredIds, AnsweredOf
<1>14. Promise!Issue(c.key, c.id)
  BY <1>10, <1>11, <1>12, <1>13 DEF Promise!Issue, IssuedOf, StoredIds, AnsweredOf
<1> QED
  BY <1>2, <1>14 DEF Promise!Next

LEMMA AnswerKeepsPromise ==
    ASSUME IInv, assertions' = assertions, objects' = objects, NEW x \in Answer,
           answers' = answers \cup {x}, x.id \in RowsOfKey(x.key)
    PROVE  Promise!Next
<1>1. x.key \in Keys /\ x.id \in Ids
  BY DEF Answer
<1>2. IssuedOf' = IssuedOf /\ StoredIds' = StoredIds
  BY IssuedIdSame DEF StoredIds, RowsOfKey, Rows
<1>3. IssuedOf[x.key] = x.id /\ x.id # NoValue
  BY <1>1, IssuedIdIsRow, NoValueAssumption DEF IssuedOf
<1>4. AnsweredOf' = [AnsweredOf EXCEPT ![x.key] = @ \cup {x.id}]
  BY <1>1 DEF AnsweredOf
<1>5. Promise!Answer(x.key)
  BY <1>1, <1>2, <1>3, <1>4 DEF Promise!Answer, IssuedOf, StoredIds, AnsweredOf
<1> QED
  BY <1>1, <1>5 DEF Promise!Next

LEMMA StepKeepsPromise ==
    ASSUME IInv, [Next]_vars
    PROVE  [Promise!Next]_Promise!vars
<1>1. IInv'
  BY NextInv
<1>2. ASSUME assertions' = assertions, objects' = objects, answers' = answers
      PROVE  UNCHANGED Promise!vars
  BY <1>2, QuietKeepsPromise DEF Rows
<1>3. CASE UNCHANGED vars
  BY <1>2, <1>3 DEF vars
<1>4. ASSUME NEW r \in Requests, NEW k \in Keys, NEW l \in Learners, Begin(r, k, l)
      PROVE  UNCHANGED Promise!vars
  BY <1>2, <1>4 DEF Begin
<1>5. ASSUME NEW r \in Requests, Step(r)
      PROVE  [Promise!Next]_Promise!vars
  <2>1. CASE FindExisting(r) \/ FindProfile(r) \/ CreateProfile(r) \/ AddIdentity(r)
             \/ AllocateIndex(r) \/ WriteFollowUp(r)
    BY <1>2, <2>1 DEF FindExisting, FindProfile, CreateProfile, AddIdentity, AllocateIndex,
                      WriteFollowUp
  <2>2. CASE Replay(r)
    <3>1. assertions' = assertions /\ objects' = objects
      BY <2>2 DEF Replay
    <3>2. PICK x : x = [key |-> call[r].key, id |-> call[r].id, status |-> "already_issued"]
      OBVIOUS
    <3>3. x \in Answer /\ x.id \in RowsOfKey(x.key)
      BY <2>2, <3>2 DEF Replay, IInv, RunHolds, Answer, RowsOfKey, Rows
    <3>4. CASE answers' = answers
      BY <1>2, <3>1, <3>4
    <3>5. CASE answers' # answers
      BY <2>2, <3>1, <3>2, <3>3, <3>5, AnswerKeepsPromise DEF Replay
    <3> QED
      BY <3>4, <3>5
  <2>3. CASE StoreCredential(r)
    BY <2>3, StoreKeepsPromise
  <2>4. CASE InsertAssertion(r)
    <3>1. CASE KeyIsFree(call[r].key)
      BY <1>1, <2>4, <3>1, InsertKeepsPromise
    <3>2. CASE ~ KeyIsFree(call[r].key)
      BY <1>2, <2>4, <3>2 DEF InsertAssertion
    <3> QED
      BY <3>1, <3>2
  <2>5. CASE AnswerIssued(r)
    <3>1. PICK x : x = [key |-> call[r].key, id |-> call[r].id, status |-> "issued"]
      OBVIOUS
    <3>2. x \in Answer /\ x.id \in RowsOfKey(x.key)
      BY <2>5, <3>1 DEF AnswerIssued, IInv, RunHolds, Answer, RowsOfKey, Rows
    <3> QED
      BY <2>5, <3>1, <3>2, AnswerKeepsPromise DEF AnswerIssued
  <2> QED
    BY <1>5, <2>1, <2>2, <2>3, <2>4, <2>5 DEF Step
<1>6. ASSUME NEW r \in Requests, Fault(r)
      PROVE  UNCHANGED Promise!vars
  BY <1>2, <1>6 DEF Fault
<1>7. ASSUME NEW a \in Ids, NEW t \in {"active", "suspended", "revoked"}, ChangeState(a, t)
      PROVE  UNCHANGED Promise!vars
  <2>1. PICK n : n = [assertions[a] EXCEPT !.state = t]
    OBVIOUS
  <2>2. a \in Rows /\ assertions' = [assertions EXCEPT ![a] = n]
    BY <1>7, <2>1 DEF ChangeState
  <2>3. assertions[a] \in Assertion
    BY <2>2 DEF IInv, TypeOK, Rows
  <2>4. n \in Assertion /\ n # NoValue /\ n.key = assertions[a].key
    BY <2>1, <2>3, NoRowAssumption DEF Assertion
  <2>5. Rows' = Rows /\ \A b \in Rows : assertions'[b].key = assertions[b].key
    BY <2>2, <2>4 DEF Rows, IInv, TypeOK
  <2> QED
    BY <1>7, <2>5, QuietKeepsPromise DEF ChangeState
<1> QED
  BY <1>3, <1>4, <1>5, <1>6, <1>7 DEF Next

\* Seen through its tables, issueBadgeForTenant with runs that overlap and are lost does
\* what IdempotentIssuance allows: a key has one assertion for ever, whose credential is
\* in the object store first, and every caller is answered with it.
THEOREM PromiseKept == Spec => ImplementsPromise
<1>1. Init => Promise!Init
  <2> SUFFICES ASSUME Init PROVE Promise!Init
    OBVIOUS
  <2>1. \A k \in Keys : RowsOfKey(k) = {}
    BY DEF Init, Rows, RowsOfKey
  <2>2. IssuedOf = [k \in Keys |-> NoValue] /\ StoredIds = {} /\ AnsweredOf = [k \in Keys |-> {}]
    BY <2>1 DEF IssuedOf, IssuedId, StoredIds, AnsweredOf, Init
  <2> QED
    BY <2>2 DEF Promise!Init, IssuedOf, StoredIds, AnsweredOf
<1>2. IInv /\ [Next]_vars => [Promise!Next]_Promise!vars
  BY StepKeepsPromise
<1> QED
  BY <1>1, <1>2, Invariance, PTL DEF Spec, Promise!Spec, ImplementsPromise

-----------------------------------------------------------------------------
(* The status list, as long as no two runs are between drawing an index and inserting it. *)

OneHolds == \A q, r \in Requests : pc[q] \in Holding /\ pc[r] \in Holding => q = r

IndexesDiffer == \A a, b \in Rows : assertions[a].index = assertions[b].index => a = b
HeldIsNew ==
    \A r \in Requests : pc[r] \in Holding =>
        \A a \in Rows : assertions[a].index < call[r].index

IndexInv == IInv /\ IndexesDiffer /\ HeldIsNew

\* No row is new, and who holds an index then held it before.
LEMMA IndexesStay ==
    ASSUME IndexInv, IInv', Rows' = Rows,
           \A a \in Rows : assertions'[a].index = assertions[a].index,
           \A r \in Requests : pc'[r] \in Holding => pc[r] \in Holding /\ call'[r].index = call[r].index
    PROVE  IndexInv'
  BY DEF IndexInv, IndexesDiffer, HeldIsNew

\* A run goes on to a step outside.
LEMMA IndexesLeft ==
    ASSUME IndexInv, IInv', assertions' = assertions, NEW r \in Requests,
           NEW s \in Steps \ Holding, Goto(r, s), \A q \in Requests \ {r} : call'[q] = call[q]
    PROVE  IndexInv'
<1>1. pc \in [Requests -> Steps]
  BY DEF IndexInv, IInv, TypeOK
<1>2. \A q \in Requests : pc'[q] \in Holding => q # r /\ pc'[q] = pc[q]
  BY <1>1 DEF Goto
<1>3. Rows' = Rows
  BY DEF Rows
<1> QED
  BY <1>2, <1>3, IndexesStay

LEMMA IndexStepInv ==
    ASSUME IndexInv, OneHolds, IInv', NEW r \in Requests, Step(r)
    PROVE  IndexInv'
<1>1. pc \in [Requests -> Steps] /\ call \in [Requests -> Call]
  BY DEF IndexInv, IInv, TypeOK
<1>2. /\ {"idle", "replay", "profile", "newProfile", "newIdentity", "index", "recipients",
          "attribution", "audit", "answer"} \subseteq Steps \ Holding
      /\ FollowUps \cup {"store", "insert"} \subseteq Steps
  BY DEF Steps, Holding, FollowUps
<1>3. CASE \/ FindExisting(r) \/ Replay(r) \/ FindProfile(r) \/ CreateProfile(r)
           \/ AddIdentity(r) \/ WriteFollowUp(r) \/ AnswerIssued(r)
  <2>1. assertions' = assertions
    BY <1>3 DEF FindExisting, Replay, FindProfile, CreateProfile, AddIdentity, WriteFollowUp, AnswerIssued
  <2>2. \E s \in Steps \ Holding : Goto(r, s)
    BY <1>2, <1>3 DEF FindExisting, Replay, FindProfile, CreateProfile, AddIdentity, WriteFollowUp,
          AnswerIssued, End, After, FollowUps
  <2>3. \A q \in Requests \ {r} : call'[q] = call[q]
    BY <1>1, <1>3 DEF FindExisting, Replay, FindProfile, CreateProfile, AddIdentity, WriteFollowUp,
          AnswerIssued, End
  <2> QED
    BY <2>1, <2>2, <2>3, IndexesLeft
<1>4. CASE AllocateIndex(r)
  <2>1. assertions' = assertions /\ Rows' = Rows
    BY <1>4 DEF AllocateIndex, Rows
  <2>2. CASE Ids \ UsedIds = {}
    <3>1. Goto(r, "idle") /\ \A q \in Requests \ {r} : call'[q] = call[q]
      BY <1>1, <1>4, <2>2 DEF AllocateIndex, End
    <3> QED
      BY <1>2, <2>1, <3>1, IndexesLeft
  <2>3. CASE Ids \ UsedIds # {}
    <3>1. PICK a, i : a = FreshId /\ i = NextIndex
      OBVIOUS
    <3>2. call' = [call EXCEPT ![r].id = a, ![r].index = i] /\ pc' = [pc EXCEPT ![r] = "store"]
      BY <1>4, <2>3, <3>1 DEF AllocateIndex, Goto
    <3>3. \A b \in Rows : assertions[b].index < i
      BY <3>1, NextIndexBound DEF IndexInv
    <3>4. call'[r].index = i
      <4>1. PICK c \in Call : c = call[r]
        BY <1>1
      <4>2. call' = [call EXCEPT ![r] = [c EXCEPT !.id = a, !.index = i]]
        BY <1>1, <3>2, <4>1
      <4> QED
        BY <1>1, <4>1, <4>2 DEF Call
    <3>5. \A q \in Requests \ {r} : call'[q] = call[q] /\ pc'[q] = pc[q]
      BY <1>1, <3>2
    <3>6. HeldIsNew'
      BY <2>1, <3>3, <3>4, <3>5 DEF IndexInv, HeldIsNew
    <3> QED
      BY <2>1, <3>6 DEF IndexInv, IndexesDiffer
  <2> QED
    BY <2>2, <2>3
<1>5. CASE StoreCredential(r)
  <2>1. assertions' = assertions /\ call' = call /\ pc' = [pc EXCEPT ![r] = "insert"] /\ pc[r] = "store"
    BY <1>5 DEF StoreCredential, Goto
  <2>2. Rows' = Rows
    BY <2>1 DEF Rows
  <2>3. \A q \in Requests : pc'[q] \in Holding => pc[q] \in Holding
    BY <1>1, <2>1 DEF Holding
  <2> QED
    BY <2>1, <2>2, <2>3, IndexesStay
<1>6. CASE InsertAssertion(r)
  <2>1. pc[r] = "insert" /\ pc[r] \in Holding
    BY <1>6 DEF InsertAssertion, Holding
  <2>2. CASE KeyIsFree(call[r].key)
    <3>1. PICK a, new : a = call[r].id /\ new = NewRow(r)
      OBVIOUS
    <3>2. assertions' = [assertions EXCEPT ![a] = new] /\ pc' = [pc EXCEPT ![r] = "recipients"]
      BY <1>6, <2>2, <3>1 DEF InsertAssertion, Goto
    <3>3. new.index = call[r].index /\ a \in Ids /\ a \notin Rows
      BY <2>1, <3>1 DEF NewRow, IndexInv, IInv, RunHolds
    <3>4. assertions \in [Ids -> Assertion \cup {NoValue}]
      BY DEF IndexInv, IInv, TypeOK
    <3>5. /\ assertions'[a] = new
          /\ \A b \in Rows : assertions'[b] = assertions[b]
          /\ Rows' \subseteq Rows \cup {a}
      BY <3>2, <3>3, <3>4 DEF Rows
    <3>6. \A b \in Rows : assertions[b].index < new.index
      BY <2>1, <3>3 DEF IndexInv, HeldIsNew
    <3>7. new.index \in Nat /\ \A b \in Rows : assertions[b].index \in Nat
      BY <1>1, <3>3, <3>4, NoRowAssumption DEF Call, Rows, Assertion
    <3>8. IndexesDiffer'
      <4> SUFFICES ASSUME NEW b \in Rows', NEW c \in Rows', assertions'[b].index = assertions'[c].index
                   PROVE  b = c
        BY DEF IndexesDiffer
      <4>1. CASE b = a /\ c = a
        BY <4>1
      <4>2. CASE b = a /\ c # a
        BY <3>5, <3>6, <3>7, <4>2
      <4>3. CASE b # a /\ c = a
        BY <3>5, <3>6, <3>7, <4>3
      <4>4. CASE b # a /\ c # a
        BY <3>5, <4>4 DEF IndexInv, IndexesDiffer
      <4> QED
        BY <4>1, <4>2, <4>3, <4>4
    <3>9. \A q \in Requests : pc'[q] \notin Holding
      BY <1>1, <2>1, <3>2 DEF OneHolds, Holding
    <3> QED
      BY <3>8, <3>9 DEF IndexInv, HeldIsNew
  <2>3. CASE ~ KeyIsFree(call[r].key)
    <3>1. assertions' = assertions /\ Goto(r, "idle") /\ \A q \in Requests \ {r} : call'[q] = call[q]
      BY <1>1, <1>6, <2>3 DEF InsertAssertion, End
    <3> QED
      BY <1>2, <3>1, IndexesLeft
  <2> QED
    BY <2>2, <2>3
<1> QED
  BY <1>3, <1>4, <1>5, <1>6 DEF Step

LEMMA IndexNextInv == IndexInv /\ OneHolds /\ [Next]_vars => IndexInv'
<1> SUFFICES ASSUME IndexInv, OneHolds, [Next]_vars PROVE IndexInv'
  OBVIOUS
<1>1. IInv'
  BY NextInv DEF IndexInv
<1>2. pc \in [Requests -> Steps] /\ call \in [Requests -> Call]
      /\ assertions \in [Ids -> Assertion \cup {NoValue}]
  BY DEF IndexInv, IInv, TypeOK
<1>3. ASSUME NEW r \in Requests, NEW k \in Keys, NEW l \in Learners, Begin(r, k, l) PROVE IndexInv'
  <2>1. assertions' = assertions /\ Goto(r, "find") /\ \A q \in Requests \ {r} : call'[q] = call[q]
    BY <1>2, <1>3 DEF Begin
  <2>2. "find" \in Steps \ Holding
    BY DEF Steps, Holding
  <2> QED
    BY <1>1, <2>1, <2>2, IndexesLeft
<1>4. ASSUME NEW r \in Requests, Fault(r) PROVE IndexInv'
  <2>1. assertions' = assertions /\ Goto(r, "idle") /\ \A q \in Requests \ {r} : call'[q] = call[q]
    BY <1>2, <1>4 DEF Fault, End
  <2>2. "idle" \in Steps \ Holding
    BY DEF Steps, Holding
  <2> QED
    BY <1>1, <2>1, <2>2, IndexesLeft
<1>5. ASSUME NEW a \in Ids, NEW t \in {"active", "suspended", "revoked"}, ChangeState(a, t) PROVE IndexInv'
  <2>1. assertions' = [assertions EXCEPT ![a].state = t] /\ a \in Rows /\ pc' = pc /\ call' = call
    BY <1>5 DEF ChangeState
  <2>2. PICK row \in Assertion : row = assertions[a]
    BY <1>2, <2>1, NoRowAssumption DEF Rows
  <2>3. PICK new : new = [row EXCEPT !.state = t]
    OBVIOUS
  <2>4. new \in Assertion /\ new.index = row.index /\ new # NoValue
    BY <2>2, <2>3, NoRowAssumption DEF Assertion
  <2>5. assertions' = [assertions EXCEPT ![a] = new]
    BY <1>2, <2>1, <2>2, <2>3
  <2>6. Rows' = Rows /\ \A b \in Rows : assertions'[b].index = assertions[b].index
    BY <1>2, <2>1, <2>2, <2>4, <2>5 DEF Rows
  <2> QED
    BY <1>1, <2>1, <2>6, IndexesStay
<1>6. CASE UNCHANGED vars
  <2>1. assertions' = assertions /\ pc' = pc /\ call' = call
    BY <1>6 DEF vars
  <2>2. Rows' = Rows
    BY <2>1 DEF Rows
  <2> QED
    BY <1>1, <2>1, <2>2, IndexesStay
<1> QED
  BY <1>1, <1>3, <1>4, <1>5, <1>6, IndexStepInv DEF Next

\* As long as no run draws an index while another has drawn one that it has not inserted,
\* every credential has a bit of its own in the tenant's status list, set exactly when its
\* assertion is revoked, however runs overlap otherwise, fail and are repeated
\* (nextAssertionStatusListIndex, direct-issue.ts).
THEOREM BitsMeanRevoked == Spec /\ []OneHolds => []BitMeansRevoked
<1>1. Init => IndexInv
  <2> SUFFICES ASSUME Init PROVE IndexInv
    OBVIOUS
  <2>1. IInv
    BY InitInv
  <2>2. Rows = {} /\ \A r \in Requests : pc[r] \notin Holding
    BY DEF Init, Rows, Holding
  <2> QED
    BY <2>1, <2>2 DEF IndexInv, IndexesDiffer, HeldIsNew
<1>2. IndexInv => BitMeansRevoked
  <2> SUFFICES ASSUME IndexInv, NEW a \in Rows
               PROVE  objects[a].index \in RevokedBits <=> assertions[a].state = "revoked"
    BY DEF BitMeansRevoked
  <2>1. objects[a] = [subject |-> assertions[a].profile, index |-> assertions[a].index]
    BY DEF IndexInv, IInv, TablesHold, RowMatchesCredential
  <2>2. objects[a].index = assertions[a].index
    BY <2>1
  <2> QED
    BY <2>2 DEF RevokedBits, IndexInv, IndexesDiffer
<1> QED
  BY <1>1, <1>2, IndexNextInv, PTL DEF Spec

-----------------------------------------------------------------------------
(* The unit a badge is counted for: the inductive invariant, in named parts. *)

Places == {"idle", "select", "list", "upsert", "rows", "find", "insert", "answered"}
IssueSteps == {"unissued", "signing", "inserted", "snapshot", "issued", "lost"}
Transfer == [to: OrgUnits, at: 1..(MaxNow + 1)]
BadgeRow ==
    [template: ReportTemplates \cup {Nobody}, issuedAt: Nat, revoked: BOOLEAN,
     toState: {"active", "suspended", "expired", "revoked"},
     reason: {"none", "appeal_pending"}]
Missing == [badge: Badges, owner: OrgUnits]
Listing == [template: ReportTemplates, events: SUBSET Transfer]
Job ==
    [type: Recorded \cup {"report", "none"}, badge: Badges \cup {Nobody}, at: 0..MaxNow,
     missing: SUBSET Missing, listed: SUBSET Listing, due: SUBSET Badges,
     counted: SUBSET Badges]

ReportTyped ==
    /\ now \in 1..MaxNow
    /\ badge \in [Badges -> BadgeRow]
    /\ issue \in [Badges -> [step: IssueSteps, read: OrgUnits \cup {Nobody}]]
    /\ attribution \in [Badges -> [unit: OrgUnits \cup {Nobody}, source: Sources \cup {"none"}]]
    /\ holders \in [Badges -> SUBSET OrgUnits]
    /\ owned \in [ReportTemplates -> OrgUnits]
    /\ transfers \in [ReportTemplates -> SUBSET Transfer]
    /\ moving \in [ReportTemplates -> [from: OrgUnits, to: OrgUnits, at: 1..(MaxNow + 1)] \cup {NoMove}]
    /\ engaged \subseteq [id: Nat \ {0}, badge: Badges, type: EventTypes, at: 1..MaxNow]
    /\ IsFiniteSet(engaged)
    /\ pcr \in [Reporters -> Places] /\ job \in [Reporters -> Job]

\* Transfers of a template: no two of a date, the first of the template's creation, and
\* one that is the latest up to each date.
HasLatest(events, date) ==
    \E e \in events : e.at <= date /\ \A f \in events : f.at <= date => f.at <= e.at
Dated(events) ==
    /\ \A e, f \in events : e.at = f.at => e = f
    /\ \A date \in Nat : date >= 1 => HasLatest(events, date)

\* The last of them, and the last up to a date, is to such a unit.
Newest(events, unit) ==
    \E e \in events : e.to = unit /\ \A f \in events : f.at <= e.at
KnownTo(events, date, units) ==
    \E e \in events :
        /\ e.at <= date /\ e.to \in units
        /\ \A f \in events : f.at <= date => f.at <= e.at

\* A template's transfers follow its owners, unless it is among the broken.
TemplateFits(t) ==
    /\ Dated(transfers[t])
    /\ moving[t] # NoMove =>
        /\ moving[t].from # moving[t].to /\ owned[t] \in {moving[t].from, moving[t].to}
        /\ \A e \in transfers[t] : e.at # moving[t].at
    /\ t \notin broken =>
        /\ \A e \in transfers[t] : e.at <= now
        /\ moving[t] = NoMove => Newest(transfers[t], owned[t])
        /\ moving[t] # NoMove =>
            /\ Newest(transfers[t], moving[t].from) /\ moving[t].at <= now
            /\ \A e \in transfers[t] : e.at < moving[t].at

\* The unit that a badge's issuance goes by, and the unit it is counted for, owned its template.
BadgeFits(b) ==
    /\ issue[b].step # "unissued" =>
           badge[b].template \in ReportTemplates /\ badge[b].issuedAt \in 2..now
    /\ issue[b].step \in {"signing", "inserted"} => owned[badge[b].template] \in holders[b]
    /\ issue[b].step = "snapshot" => issue[b].read \in OrgUnits \cap holders[b]
    /\ attribution[b].unit = Nobody <=> attribution[b].source = "none"
    /\ attribution[b].unit # Nobody =>
        /\ b \in Existing
        /\ badge[b].template \notin broken => attribution[b].unit \in holders[b]

\* So did the unit that the transfers name for its date.
DateFits(b) ==
    issue[b].step # "unissued" /\ badge[b].template \notin broken =>
        /\ KnownTo(transfers[badge[b].template], badge[b].issuedAt, holders[b])
        /\ moving[badge[b].template] # NoMove /\ moving[badge[b].template].at <= badge[b].issuedAt =>
               moving[badge[b].template].to \in holders[b]

\* What a call that fills in has read: badges without a unit, and transfers of theirs, at
\* least those that there were when the badge was issued.
CallFits(place, j) ==
    /\ place # "idle" /\ j.type # "report" =>
           j.type \in Recorded /\ j.badge \in Badges /\ j.at >= 1
    /\ place \in {"find", "insert"} => j.type # "report"
    /\ place = "select" => j.listed = {}
    /\ \A m \in j.missing : m.badge \in Existing
    /\ \A l \in j.listed :
        /\ Dated(l.events)
        /\ \A m \in j.missing :
               badge[m.badge].template = l.template /\ l.template \notin broken =>
                   KnownTo(l.events, badge[m.badge].issuedAt, holders[m.badge])
    /\ place = "upsert" =>
           \A m \in j.missing : \E l \in j.listed : l.template = badge[m.badge].template

\* A report will count what was there when it began.
ReportFits(place, j) ==
    j.type = "report" =>
        /\ j.due \subseteq Existing
        /\ place \in {"list", "upsert"} =>
               \A b \in j.due : b \in Attributed \/ \E m \in j.missing : m.badge = b
        /\ place = "rows" => j.due \subseteq Attributed
        /\ place = "answered" => j.due \subseteq j.counted

CallsFit == \A r \in Reporters : CallFits(pcr[r], job[r]) /\ ReportFits(pcr[r], job[r])

ReportInv ==
    /\ ReportTyped
    /\ \A t \in ReportTemplates : TemplateFits(t)
    /\ \A b \in Badges : BadgeFits(b) /\ DateFits(b)
    /\ CallsFit
    /\ ClaimedOnce

-----------------------------------------------------------------------------
(* Lemmas. *)

LEMMA DatedOfOne ==
    ASSUME NEW e, e.at = 1
    PROVE  Dated({e})
  BY DEF Dated, HasLatest

LEMMA DatedGrows ==
    ASSUME NEW events \in SUBSET Transfer, NEW g \in Transfer, Dated(events),
           \A e \in events : e.at # g.at
    PROVE  Dated(events \cup {g})
<1> DEFINE more == events \cup {g}
<1>1. ASSUME NEW e \in more, NEW f \in more, e.at = f.at PROVE e = f
  BY <1>1 DEF Dated
<1>2. ASSUME NEW date \in Nat, date >= 1 PROVE HasLatest(more, date)
  <2>1. PICK e \in events : e.at <= date /\ \A f \in events : f.at <= date => f.at <= e.at
    BY <1>2 DEF Dated, HasLatest
  <2>2. e.at \in Nat /\ g.at \in Nat /\ \A f \in events : f.at \in Nat
    BY DEF Transfer
  <2>3. CASE g.at <= date /\ g.at > e.at
    <3>1. \A f \in more : f.at <= date => f.at <= g.at
      BY <2>1, <2>2, <2>3
    <3> QED
      BY <2>3, <3>1 DEF HasLatest
  <2>4. CASE ~ (g.at <= date /\ g.at > e.at)
    <3>1. \A f \in more : f.at <= date => f.at <= e.at
      BY <1>2, <2>1, <2>2, <2>4
    <3> QED
      BY <2>1, <3>1 DEF HasLatest
  <2> QED
    BY <2>3, <2>4
<1> QED
  BY <1>1, <1>2 DEF Dated

LEMMA KnownGrows ==
    ASSUME NEW events, NEW date, NEW units, NEW more, units \subseteq more,
           KnownTo(events, date, units)
    PROVE  KnownTo(events, date, more)
  BY DEF KnownTo

\* A transfer after all others leaves the badges before it where they are.
LEMMA KnownAfter ==
    ASSUME NEW events \in SUBSET Transfer, NEW g \in Transfer, NEW date \in Nat, NEW units,
           KnownTo(events, date, units), \A e \in events : e.at < g.at,
           g.at <= date => g.to \in units
    PROVE  KnownTo(events \cup {g}, date, units)
<1>1. PICK e \in events : /\ e.at <= date /\ e.to \in units
                          /\ \A f \in events : f.at <= date => f.at <= e.at
  BY DEF KnownTo
<1>2. e.at \in Nat /\ g.at \in Nat /\ \A f \in events : f.at \in Nat
  BY DEF Transfer
<1>3. CASE g.at <= date
  <2>1. \A f \in events \cup {g} : f.at <= date => f.at <= g.at
    BY <1>2
  <2> QED
    BY <1>3, <2>1 DEF KnownTo
<1>4. CASE ~ (g.at <= date)
  <2>1. \A f \in events \cup {g} : f.at <= date => f.at <= e.at
    BY <1>1, <1>4
  <2> QED
    BY <1>1, <2>1 DEF KnownTo
<1> QED
  BY <1>3, <1>4

LEMMA NewestIsKnown ==
    ASSUME NEW events \in SUBSET Transfer, NEW date \in Nat, NEW unit, NEW units, unit \in units,
           Newest(events, unit), \A e \in events : e.at <= date
    PROVE  KnownTo(events, date, units)
  BY DEF Newest, KnownTo

LEMMA NewestAfter ==
    ASSUME NEW events \in SUBSET Transfer, NEW g \in Transfer, \A e \in events : e.at < g.at
    PROVE  Newest(events \cup {g}, g.to)
<1>1. g.at \in Nat /\ \A f \in events : f.at \in Nat
  BY DEF Transfer
<1>2. \A f \in events \cup {g} : f.at <= g.at
  BY <1>1
<1> QED
  BY <1>2 DEF Newest

\* What a badge without a unit is counted for.
LEMMA ResolvedFits ==
    ASSUME NEW events \in SUBSET Transfer, Dated(events), NEW m \in Missing,
           badge[m.badge].issuedAt \in Nat, badge[m.badge].issuedAt >= 1
    PROVE  /\ Resolved(events, m).unit \in OrgUnits
           /\ Resolved(events, m).source = "historical_backfill"
           /\ \A units : KnownTo(events, badge[m.badge].issuedAt, units) =>
                  Resolved(events, m).unit \in units
<1>1. PICK date \in Nat : date = badge[m.badge].issuedAt
  OBVIOUS
<1>2. PICK known : known = {e \in events : e.at <= date}
  OBVIOUS
<1>3. PICK x : x = CHOOSE e \in known : \A f \in known : f.at <= e.at
  OBVIOUS
<1>4. \E e \in known : \A f \in known : f.at <= e.at
  BY <1>1, <1>2 DEF Dated, HasLatest
<1>5. x \in known /\ \A f \in known : f.at <= x.at
  BY <1>3, <1>4
<1>6. Resolved(events, m) = [unit |-> x.to, source |-> "historical_backfill"]
  BY <1>1, <1>2, <1>3, <1>5 DEF Resolved
<1>7. x.to \in OrgUnits
  BY <1>2, <1>5 DEF Transfer
<1>8. ASSUME NEW units, KnownTo(events, badge[m.badge].issuedAt, units) PROVE x.to \in units
  <2>1. PICK e \in events : /\ e.at <= date /\ e.to \in units
                            /\ \A f \in events : f.at <= date => f.at <= e.at
    BY <1>1, <1>8 DEF KnownTo
  <2>2. e \in known /\ x \in events
    BY <1>2, <1>5, <2>1
  <2>3. e.at <= x.at /\ x.at <= e.at
    BY <1>2, <1>5, <2>1, <2>2
  <2>4. e.at \in Nat /\ x.at \in Nat
    BY <2>2 DEF Transfer
  <2>5. e.at = x.at
    BY <2>3, <2>4
  <2>6. e = x
    BY <2>2, <2>5 DEF Dated
  <2> QED
    BY <2>1, <2>6
<1> QED
  BY <1>6, <1>7, <1>8

\* What never goes back.
Grows ==
    /\ now <= now' /\ broken \subseteq broken'
    /\ Existing \subseteq Existing' /\ Attributed \subseteq Attributed'
    /\ \A b \in Existing : /\ badge'[b].template = badge[b].template
                           /\ badge'[b].issuedAt = badge[b].issuedAt
                           /\ holders[b] \subseteq holders'[b]

LEMMA CallStays ==
    ASSUME Grows, NEW place, NEW j, CallFits(place, j) /\ ReportFits(place, j)
    PROVE  CallFits(place, j)' /\ ReportFits(place, j)'
<1>1. CallFits(place, j)'
  <2>1. \A m \in j.missing : m.badge \in Existing' /\ badge'[m.badge].template = badge[m.badge].template
    BY DEF CallFits, Grows
  <2>2. ASSUME NEW l \in j.listed, NEW m \in j.missing, badge'[m.badge].template = l.template,
               l.template \notin broken'
        PROVE  KnownTo(l.events, badge'[m.badge].issuedAt, holders'[m.badge])
    <3>1. PICK b : b = m.badge
      OBVIOUS
    <3>2. /\ b \in Existing /\ badge'[b].issuedAt = badge[b].issuedAt
          /\ holders[b] \subseteq holders'[b]
      BY <3>1 DEF CallFits, Grows
    <3>3. PICK date, held : date = badge[b].issuedAt /\ held = holders[b]
      OBVIOUS
    <3>4. KnownTo(l.events, date, held)
      BY <2>1, <2>2, <3>1, <3>3 DEF CallFits, Grows
    <3>5. PICK more : more = holders'[b]
      OBVIOUS
    <3>6. KnownTo(l.events, date, more)
      BY <3>2, <3>3, <3>4, <3>5, KnownGrows
    <3> QED
      BY <3>1, <3>2, <3>3, <3>5, <3>6
  <2>3. \A l \in j.listed : Dated(l.events)
    BY DEF CallFits
  <2>4. place = "upsert" =>
            \A m \in j.missing : \E l \in j.listed : l.template = badge'[m.badge].template
    BY <2>1 DEF CallFits
  <2>5. /\ place # "idle" /\ j.type # "report" =>
               j.type \in Recorded /\ j.badge \in Badges /\ j.at >= 1
        /\ place \in {"find", "insert"} => j.type # "report"
        /\ place = "select" => j.listed = {}
    BY DEF CallFits
  <2> QED
    BY <2>1, <2>2, <2>3, <2>4, <2>5 DEF CallFits
<1>2. ReportFits(place, j)'
  BY DEF ReportFits, Grows
<1> QED
  BY <1>1, <1>2

\* Whoever does not move keeps what it has read.
LEMMA CallsStay ==
    ASSUME ReportInv, Grows, UNCHANGED <<pcr, job>>
    PROVE  CallsFit'
<1> SUFFICES ASSUME NEW r \in Reporters
             PROVE  (CallFits(pcr[r], job[r]) /\ ReportFits(pcr[r], job[r]))'
  BY DEF CallsFit
<1>1. PICK place, j : place = pcr[r] /\ j = job[r]
  OBVIOUS
<1>2. CallFits(place, j) /\ ReportFits(place, j)
  BY <1>1 DEF ReportInv, CallsFit
<1>3. CallFits(place, j)' /\ ReportFits(place, j)'
  BY <1>2, CallStays
<1> QED
  BY <1>1, <1>3 DEF CallFits, ReportFits

LEMMA OneCallMoves ==
    ASSUME ReportInv, Grows, NEW r \in Reporters, NEW place \in Places, NEW j \in Job,
           pcr' = [pcr EXCEPT ![r] = place], job' = [job EXCEPT ![r] = j],
           CallFits(place, j)', ReportFits(place, j)'
    PROVE  CallsFit' /\ pcr' \in [Reporters -> Places] /\ job' \in [Reporters -> Job]
<1>1. pcr \in [Reporters -> Places] /\ job \in [Reporters -> Job]
  BY DEF ReportInv, ReportTyped
<1>2. ASSUME NEW q \in Reporters
      PROVE  (CallFits(pcr[q], job[q]) /\ ReportFits(pcr[q], job[q]))'
  <2>1. CASE q = r
    <3>1. pcr'[q] = place /\ job'[q] = j
      BY <1>1, <2>1
    <3> QED
      BY <3>1
  <2>2. CASE q # r
    <3>1. PICK p, k : p = pcr[q] /\ k = job[q]
      OBVIOUS
    <3>2. pcr'[q] = p /\ job'[q] = k
      BY <1>1, <2>2, <3>1
    <3>3. CallFits(p, k) /\ ReportFits(p, k)
      BY <3>1 DEF ReportInv, CallsFit
    <3>4. CallFits(p, k)' /\ ReportFits(p, k)'
      BY <3>3, CallStays
    <3> QED
      BY <3>2, <3>4
  <2> QED
    BY <2>1, <2>2
<1> QED
  BY <1>1, <1>2 DEF CallsFit

\* Templates whose transfers do not move, and badges they are of.
LEMMA TemplateStays ==
    ASSUME ReportInv, now' \in Nat, now <= now', broken \subseteq broken',
           NEW t \in ReportTemplates, owned'[t] = owned[t], transfers'[t] = transfers[t],
           moving'[t] = moving[t]
    PROVE  TemplateFits(t)'
<1>1. TemplateFits(t) /\ now \in Nat /\ transfers[t] \subseteq Transfer
  BY ReportingAssumption DEF ReportInv, ReportTyped
<1>2. \A e \in transfers[t] : e.at <= now => e.at <= now'
  BY <1>1 DEF Transfer
<1>3. moving[t] # NoMove => moving[t].at \in Nat
  BY DEF ReportInv, ReportTyped
<1> QED
  BY <1>1, <1>2, <1>3 DEF TemplateFits

LEMMA BadgeStays ==
    ASSUME ReportInv, now' \in Nat, now <= now', broken \subseteq broken',
           NEW b \in Badges, badge'[b].template = badge[b].template,
           badge'[b].issuedAt = badge[b].issuedAt, issue'[b] = issue[b],
           attribution'[b] = attribution[b], holders[b] \subseteq holders'[b],
           issue[b].step \in {"signing", "inserted"} =>
               owned'[badge[b].template] \in holders'[b]
    PROVE  BadgeFits(b)'
<1>1. BadgeFits(b) /\ now \in Nat /\ badge[b].issuedAt \in Nat
  BY ReportingAssumption DEF ReportInv, ReportTyped, BadgeRow
<1>2. b \in Existing <=> b \in Existing'
  BY DEF Existing
<1> QED
  BY <1>1, <1>2 DEF BadgeFits

LEMMA DateStays ==
    ASSUME ReportInv, broken \subseteq broken',
           NEW b \in Badges, badge'[b].template = badge[b].template,
           badge'[b].issuedAt = badge[b].issuedAt, issue'[b].step # "unissued" => issue[b].step # "unissued",
           holders[b] \subseteq holders'[b], NEW t, t = badge[b].template,
           transfers'[t] = transfers[t], moving'[t] = moving[t]
    PROVE  DateFits(b)'
<1>1. SUFFICES ASSUME issue'[b].step # "unissued", t \notin broken'
               PROVE  /\ KnownTo(transfers[t], badge[b].issuedAt, holders'[b])
                      /\ moving[t] # NoMove /\ moving[t].at <= badge[b].issuedAt => moving[t].to \in holders'[b]
  BY DEF DateFits
<1>2. /\ KnownTo(transfers[t], badge[b].issuedAt, holders[b])
      /\ moving[t] # NoMove /\ moving[t].at <= badge[b].issuedAt => moving[t].to \in holders[b]
  BY <1>1 DEF ReportInv, DateFits
<1>3. PICK events, date, held, more : events = transfers[t] /\ date = badge[b].issuedAt
                                      /\ held = holders[b] /\ more = holders'[b]
  OBVIOUS
<1>4. KnownTo(events, date, more)
  BY <1>2, <1>3, KnownGrows
<1> QED
  BY <1>2, <1>3, <1>4

LEMMA TemplatesStay ==
    ASSUME ReportInv, now' \in Nat, now <= now', UNCHANGED templateVars
    PROVE  \A t \in ReportTemplates : TemplateFits(t)'
  BY TemplateStays DEF templateVars

-----------------------------------------------------------------------------
(* A badge's steps. *)

LEMMA BadgeStepInv ==
    ASSUME ReportInv, NEW b \in Badges, now' \in now..MaxNow, UNCHANGED <<templateVars, bookVars>>,
           badge' \in [Badges -> BadgeRow],
           issue' \in [Badges -> [step: IssueSteps, read: OrgUnits \cup {Nobody}]],
           attribution' \in [Badges -> [unit: OrgUnits \cup {Nobody}, source: Sources \cup {"none"}]],
           holders' \in [Badges -> SUBSET OrgUnits],
           \A c \in Badges \ {b} : /\ badge'[c] = badge[c] /\ issue'[c] = issue[c]
                                   /\ attribution'[c] = attribution[c] /\ holders'[c] = holders[c],
           BadgeFits(b)', DateFits(b)', b \in Existing => b \in Existing', b \in Attributed => b \in Attributed',
           b \in Existing => /\ badge'[b].template = badge[b].template
                             /\ badge'[b].issuedAt = badge[b].issuedAt
                             /\ holders[b] \subseteq holders'[b]
    PROVE  ReportInv'
<1>1. now \in Nat /\ now' \in Nat /\ now <= now' /\ now' \in 1..MaxNow
  BY ReportingAssumption DEF ReportInv, ReportTyped
<1>2. ReportTyped' /\ ClaimedOnce'
  BY <1>1 DEF ReportInv, ReportTyped, ClaimedOnce, templateVars, bookVars, reporterVars
<1>3. \A t \in ReportTemplates : TemplateFits(t)'
  BY <1>1, TemplatesStay
<1>4. ASSUME NEW c \in Badges \ {b} PROVE BadgeFits(c)' /\ DateFits(c)'
  <2>1. UNCHANGED <<owned, transfers, moving, broken>>
    BY DEF templateVars
  <2>2. issue[c].step \in {"signing", "inserted"} => owned[badge[c].template] \in holders[c]
    BY DEF ReportInv, BadgeFits
  <2> QED
    BY <1>1, <2>1, <2>2, BadgeStays, DateStays
<1>5. Grows
  <2>1. \A c \in Badges \ {b} : /\ c \in Existing => c \in Existing'
                                /\ c \in Attributed => c \in Attributed'
    BY DEF Existing, Attributed
  <2>2. Existing \subseteq Badges /\ Attributed \subseteq Badges
    BY DEF Existing, Attributed
  <2> QED
    BY <1>1, <2>1, <2>2 DEF Grows, templateVars
<1>6. CallsFit'
  BY <1>5, CallsStay DEF bookVars, reporterVars
<1> QED
  BY <1>2, <1>3, <1>4, <1>6 DEF ReportInv

LEMMA StartIssueInv ==
    ASSUME ReportInv, NEW b \in Badges, NEW t \in ReportTemplates, StartIssue(b, t)
    PROVE  ReportInv'
<1>1. /\ issue[b].step = "unissued" /\ now < MaxNow /\ now' = now + 1
      /\ badge' = [badge EXCEPT ![b].template = t, ![b].issuedAt = now + 1]
      /\ issue' = [issue EXCEPT ![b].step = "signing"]
      /\ UNCHANGED <<attribution, templateVars, bookVars>>
  BY DEF StartIssue
<1>2. PICK held : held = {owned[t]} \cup (IF moving[t] = NoMove THEN {} ELSE {moving[t].from, moving[t].to})
  OBVIOUS
<1>3. holders' = [holders EXCEPT ![b] = held]
  BY <1>2 DEF StartIssue
<1>4. now \in Nat /\ now >= 1 /\ now' \in now..MaxNow /\ now + 1 \in 2..now'
  BY <1>1, ReportingAssumption DEF ReportInv, ReportTyped
<1>5. held \in SUBSET OrgUnits /\ owned[t] \in held
  BY <1>2 DEF ReportInv, ReportTyped
<1>6. /\ badge' \in [Badges -> BadgeRow]
      /\ badge'[b].template = t /\ badge'[b].issuedAt = now + 1
      /\ \A c \in Badges \ {b} : badge'[c] = badge[c]
  <2>1. PICK row \in BadgeRow : row = badge[b]
    BY DEF ReportInv, ReportTyped
  <2>2. PICK new : new = [row EXCEPT !.template = t, !.issuedAt = now + 1]
    OBVIOUS
  <2>3. new \in BadgeRow /\ new.template = t /\ new.issuedAt = now + 1
    <3>1. PICK date \in Nat : date = now + 1
      BY <1>4
    <3>2. new = [row EXCEPT !.template = t, !.issuedAt = date]
      BY <2>2, <3>1
    <3> QED
      BY <3>1, <3>2 DEF BadgeRow
  <2>4. badge \in [Badges -> BadgeRow]
    BY DEF ReportInv, ReportTyped
  <2>5. badge' = [badge EXCEPT ![b] = new]
    BY <1>1, <2>1, <2>2, <2>4
  <2> QED
    BY <2>3, <2>4, <2>5
<1>7. /\ issue' \in [Badges -> [step: IssueSteps, read: OrgUnits \cup {Nobody}]]
      /\ issue'[b].step = "signing"
      /\ \A c \in Badges \ {b} : issue'[c] = issue[c]
  BY <1>1 DEF ReportInv, ReportTyped, IssueSteps
<1>8. /\ holders' \in [Badges -> SUBSET OrgUnits] /\ holders'[b] = held
      /\ \A c \in Badges \ {b} : holders'[c] = holders[c]
  BY <1>3, <1>5 DEF ReportInv, ReportTyped
<1>9. b \notin Existing /\ attribution[b].unit = Nobody /\ attribution[b].source = "none"
  BY <1>1 DEF ReportInv, BadgeFits, Existing
<1>10. BadgeFits(b)'
  BY <1>1, <1>4, <1>5, <1>6, <1>7, <1>8, <1>9 DEF BadgeFits, templateVars
<1>11. DateFits(b)'
  <2> SUFFICES ASSUME t \notin broken
               PROVE  /\ KnownTo(transfers[t], now + 1, held)
                      /\ moving[t] # NoMove => moving[t].to \in held
    BY <1>1, <1>6, <1>7, <1>8 DEF DateFits, templateVars
  <2>1. PICK unit \in held : Newest(transfers[t], unit)
    BY <1>2, <1>5 DEF ReportInv, TemplateFits
  <2>2. \A e \in transfers[t] : e.at <= now
    BY DEF ReportInv, TemplateFits
  <2>3. PICK events, date : events = transfers[t] /\ date = now + 1
    OBVIOUS
  <2>4. events \in SUBSET Transfer /\ date \in Nat
    BY <1>4, <2>3 DEF ReportInv, ReportTyped
  <2>5. \A e \in events : e.at <= date
    BY <1>4, <2>2, <2>3, <2>4 DEF Transfer
  <2>6. KnownTo(events, date, held)
    BY <2>1, <2>3, <2>4, <2>5, NewestIsKnown
  <2> QED
    BY <1>2, <2>3, <2>6
<1>12. attribution' \in [Badges -> [unit: OrgUnits \cup {Nobody}, source: Sources \cup {"none"}]]
  BY <1>1 DEF ReportInv, ReportTyped
<1>13. b \notin Attributed
  BY <1>9 DEF Attributed
<1> QED
  BY <1>1, <1>4, <1>6, <1>7, <1>8, <1>9, <1>10, <1>11, <1>12, <1>13, BadgeStepInv

\* An issuance goes on, or is lost.
LEMMA IssueGoesOn ==
    ASSUME ReportInv, NEW b \in Badges, issue[b].step # "unissued",
           NEW new \in [step: IssueSteps, read: OrgUnits \cup {Nobody}],
           issue' = [issue EXCEPT ![b] = new], new.step \notin {"unissued", "signing"},
           new.step = "inserted" => issue[b].step = "signing",
           new.step = "snapshot" => new.read \in OrgUnits \cap holders[b],
           NEW count \in [unit: OrgUnits \cup {Nobody}, source: Sources \cup {"none"}],
           attribution' = [attribution EXCEPT ![b] = count],
           \/ count = attribution[b]
           \/ count.unit \in OrgUnits \cap holders[b] /\ count.source # "none",
           UNCHANGED <<now, badge, holders, templateVars, bookVars>>
    PROVE  ReportInv'
<1>1. /\ now' \in now..MaxNow /\ now' = now /\ badge' = badge /\ holders' = holders
      /\ UNCHANGED <<owned, transfers, moving, broken>>
  BY ReportingAssumption DEF ReportInv, ReportTyped, templateVars
<1>2. /\ badge' \in [Badges -> BadgeRow] /\ holders' \in [Badges -> SUBSET OrgUnits]
      /\ issue' \in [Badges -> [step: IssueSteps, read: OrgUnits \cup {Nobody}]]
      /\ attribution' \in [Badges -> [unit: OrgUnits \cup {Nobody}, source: Sources \cup {"none"}]]
      /\ issue'[b] = new /\ attribution'[b] = count
      /\ \A c \in Badges \ {b} : issue'[c] = issue[c] /\ attribution'[c] = attribution[c]
  BY <1>1 DEF ReportInv, ReportTyped
<1>3. BadgeFits(b)
  BY DEF ReportInv
<1>4. b \in Existing'
  BY <1>2 DEF Existing
<1>5. Nobody \notin OrgUnits
  BY ReportingAssumption
<1>6. BadgeFits(b)'
  <2>1. /\ new.step \in {"signing", "inserted"} => owned[badge[b].template] \in holders[b]
        /\ badge[b].template \in ReportTemplates /\ badge[b].issuedAt \in 2..now
    BY <1>3 DEF BadgeFits
  <2>2. /\ count.unit = Nobody <=> count.source = "none"
        /\ count.unit # Nobody /\ badge[b].template \notin broken => count.unit \in holders[b]
    BY <1>3, <1>5 DEF BadgeFits
  <2> QED
    BY <1>1, <1>2, <1>4, <2>1, <2>2 DEF BadgeFits
<1>7. DateFits(b)'
  BY <1>1, DateStays
<1>8. b \in Attributed => b \in Attributed'
  BY <1>1, <1>2, <1>5 DEF Attributed
<1> QED
  BY <1>1, <1>2, <1>4, <1>6, <1>7, <1>8, BadgeStepInv

LEMMA IssueStepInv ==
    ASSUME ReportInv, NEW b \in Badges, IssueStep(b)
    PROVE  ReportInv'
<1>1. /\ issue[b] \in [step: IssueSteps, read: OrgUnits \cup {Nobody}]
      /\ attribution[b] \in [unit: OrgUnits \cup {Nobody}, source: Sources \cup {"none"}]
      /\ attribution = [attribution EXCEPT ![b] = attribution[b]]
  BY DEF ReportInv, ReportTyped
<1>2. PICK old, count : old = issue[b] /\ count = attribution[b]
  OBVIOUS
<1>3. CASE \E t \in ReportTemplates : StartIssue(b, t)
  BY <1>3, StartIssueInv
<1>4. CASE InsertBadge(b)
  <2>1. PICK new : new = [old EXCEPT !.step = "inserted"]
    OBVIOUS
  <2>2. /\ new \in [step: IssueSteps, read: OrgUnits \cup {Nobody}] /\ new.step = "inserted"
        /\ issue' = [issue EXCEPT ![b] = new] /\ old.step = "signing"
        /\ UNCHANGED <<now, badge, holders, attribution, templateVars, bookVars>>
    BY <1>1, <1>2, <1>4, <2>1 DEF InsertBadge, IssueSteps, ReportInv, ReportTyped
  <2> QED
    BY <1>1, <1>2, <2>2, IssueGoesOn
<1>5. CASE ReadTemplate(b)
  <2>1. PICK unit : unit = owned[badge[b].template]
    OBVIOUS
  <2>2. PICK new : new = [step |-> "snapshot", read |-> unit]
    OBVIOUS
  <2>3. /\ issue' = [issue EXCEPT ![b] = new] /\ old.step = "inserted"
        /\ UNCHANGED <<now, badge, holders, attribution, templateVars, bookVars>>
    BY <1>2, <1>5, <2>1, <2>2 DEF ReadTemplate
  <2>4. unit \in OrgUnits \cap holders[b]
    BY <1>2, <2>1, <2>3 DEF ReportInv, ReportTyped, BadgeFits
  <2>5. new \in [step: IssueSteps, read: OrgUnits \cup {Nobody}] /\ new.step = "snapshot" /\ new.read = unit
    BY <2>2, <2>4 DEF IssueSteps
  <2> QED
    BY <1>1, <1>2, <2>3, <2>4, <2>5, IssueGoesOn
<1>6. CASE Snapshot(b)
  <2>1. PICK next : next = [unit |-> old.read, source |-> "issuance_snapshot"]
    OBVIOUS
  <2>2. PICK new : new = [step |-> "issued", read |-> Nobody]
    OBVIOUS
  <2>3. /\ issue' = [issue EXCEPT ![b] = new] /\ old.step = "snapshot"
        /\ attribution' = [attribution EXCEPT ![b] = next]
        /\ UNCHANGED <<now, badge, holders, templateVars, bookVars>>
    BY <1>2, <1>6, <2>1, <2>2 DEF Snapshot
  <2>4. old.read \in OrgUnits \cap holders[b]
    BY <1>2, <2>3 DEF ReportInv, BadgeFits
  <2>5. new \in [step: IssueSteps, read: OrgUnits \cup {Nobody}] /\ new.step = "issued"
    BY <2>2 DEF IssueSteps
  <2>6. /\ next \in [unit: OrgUnits \cup {Nobody}, source: Sources \cup {"none"}]
        /\ next.unit \in OrgUnits \cap holders[b] /\ next.source # "none"
    BY <2>1, <2>4 DEF Sources
  <2> QED
    BY <1>2, <2>3, <2>5, <2>6, IssueGoesOn
<1>7. CASE LoseIssue(b)
  <2>1. PICK new : new = [step |-> "lost", read |-> Nobody]
    OBVIOUS
  <2>2. /\ issue' = [issue EXCEPT ![b] = new] /\ old.step \in {"inserted", "snapshot"}
        /\ UNCHANGED <<now, badge, holders, attribution, templateVars, bookVars>>
    BY <1>2, <1>7, <2>1 DEF LoseIssue
  <2>3. new \in [step: IssueSteps, read: OrgUnits \cup {Nobody}] /\ new.step = "lost"
    BY <2>1 DEF IssueSteps
  <2> QED
    BY <1>1, <1>2, <2>2, <2>3, IssueGoesOn
<1> QED
  BY <1>3, <1>4, <1>5, <1>6, <1>7 DEF IssueStep

LEMMA StateStepInv ==
    ASSUME ReportInv, NEW b \in Badges, StateStep(b)
    PROVE  ReportInv'
<1>1. PICK state \in {"active", "suspended", "expired", "revoked"}, reason \in {"none", "appeal_pending"} :
            SetState(b, state, reason)
  BY DEF StateStep
<1>2. /\ UNCHANGED <<now, issue, attribution, holders, templateVars, bookVars>>
      /\ badge' = [badge EXCEPT ![b].toState = state, ![b].reason = reason,
                                ![b].revoked = (state = "revoked")]
  BY <1>1 DEF SetState
<1>3. PICK row \in BadgeRow : row = badge[b]
  BY DEF ReportInv, ReportTyped
<1>4. PICK gone \in BOOLEAN : gone = (state = "revoked")
  OBVIOUS
<1>5. PICK new : new = [row EXCEPT !.toState = state, !.reason = reason, !.revoked = gone]
  OBVIOUS
<1>6. new \in BadgeRow /\ new.template = row.template /\ new.issuedAt = row.issuedAt
  BY <1>5 DEF BadgeRow
<1>7. badge \in [Badges -> BadgeRow] /\ badge' = [badge EXCEPT ![b] = new]
  BY <1>2, <1>3, <1>4, <1>5 DEF ReportInv, ReportTyped
<1>8. /\ badge' \in [Badges -> BadgeRow] /\ \A c \in Badges \ {b} : badge'[c] = badge[c]
      /\ badge'[b].template = badge[b].template /\ badge'[b].issuedAt = badge[b].issuedAt
  BY <1>3, <1>6, <1>7
<1>9. /\ now' \in now..MaxNow /\ now' \in Nat /\ now <= now'
      /\ UNCHANGED <<owned, transfers, moving, broken>>
  BY <1>2, ReportingAssumption DEF ReportInv, ReportTyped, templateVars
<1>10. BadgeFits(b)' /\ DateFits(b)'
  <2>1. issue[b].step \in {"signing", "inserted"} => owned[badge[b].template] \in holders[b]
    BY DEF ReportInv, BadgeFits
  <2> QED
    BY <1>2, <1>8, <1>9, <2>1, BadgeStays, DateStays
<1>11. /\ issue' \in [Badges -> [step: IssueSteps, read: OrgUnits \cup {Nobody}]]
       /\ attribution' \in [Badges -> [unit: OrgUnits \cup {Nobody}, source: Sources \cup {"none"}]]
       /\ holders' \in [Badges -> SUBSET OrgUnits]
       /\ Existing' = Existing /\ Attributed' = Attributed
  BY <1>2 DEF ReportInv, ReportTyped, Existing, Attributed
<1> QED
  BY <1>2, <1>8, <1>9, <1>10, <1>11, BadgeStepInv

(* A template's steps. *)

LEMMA TemplateStepInv ==
    ASSUME ReportInv, NEW t \in ReportTemplates, now' \in now..MaxNow,
           UNCHANGED <<badge, issue, attribution, bookVars>>,
           owned' \in [ReportTemplates -> OrgUnits],
           transfers' \in [ReportTemplates -> SUBSET Transfer],
           moving' \in [ReportTemplates -> [from: OrgUnits, to: OrgUnits, at: 1..(MaxNow + 1)] \cup {NoMove}],
           holders' \in [Badges -> SUBSET OrgUnits], broken \subseteq broken',
           \A u \in ReportTemplates \ {t} : /\ owned'[u] = owned[u] /\ transfers'[u] = transfers[u]
                                            /\ moving'[u] = moving[u],
           \A b \in Badges : /\ holders[b] \subseteq holders'[b]
                             /\ badge[b].template = t => DateFits(b)'
                             /\ badge[b].template = t /\ issue[b].step \in {"signing", "inserted"} =>
                                    owned'[t] \in holders'[b],
           TemplateFits(t)'
    PROVE  ReportInv'
<1>1. now \in Nat /\ now' \in Nat /\ now <= now' /\ now' \in 1..MaxNow
  BY ReportingAssumption DEF ReportInv, ReportTyped
<1>2. ReportTyped' /\ ClaimedOnce'
  BY <1>1 DEF ReportInv, ReportTyped, ClaimedOnce, bookVars, reporterVars
<1>3. \A u \in ReportTemplates : TemplateFits(u)'
  BY <1>1, TemplateStays
<1>4. ASSUME NEW b \in Badges PROVE BadgeFits(b)' /\ DateFits(b)'
  <2>1. PICK u : u = badge[b].template
    OBVIOUS
  <2>2. /\ issue[b].step \in {"signing", "inserted"} => owned[u] \in holders[b]
        /\ issue[b].step # "unissued" => u \in ReportTemplates
    BY <2>1 DEF ReportInv, BadgeFits
  <2>3. issue[b].step \in {"signing", "inserted"} => owned'[u] \in holders'[b]
    BY <2>1, <2>2
  <2>4. BadgeFits(b)'
    BY <1>1, <2>1, <2>3, BadgeStays
  <2>5. CASE u = t
    BY <2>1, <2>4, <2>5
  <2>6. CASE u \in ReportTemplates \ {t}
    BY <2>1, <2>4, <2>6, DateStays
  <2>7. CASE issue[b].step = "unissued"
    BY <2>4, <2>7 DEF DateFits
  <2> QED
    BY <2>2, <2>5, <2>6, <2>7
<1>5. Grows
  <2>1. Existing \subseteq Badges /\ Existing' = Existing /\ Attributed' = Attributed
    BY DEF Existing, Attributed
  <2> QED
    BY <1>1, <2>1 DEF Grows
<1>6. CallsFit'
  BY <1>5, CallsStay DEF bookVars, reporterVars
<1> QED
  BY <1>2, <1>3, <1>4, <1>6 DEF ReportInv

LEMMA StartTransferInv ==
    ASSUME ReportInv, NEW t \in ReportTemplates, NEW unit \in OrgUnits, NEW at \in 1..(MaxNow + 1),
           StartTransfer(t, unit, at)
    PROVE  ReportInv'
<1>1. /\ moving[t] = NoMove /\ owned[t] # unit /\ now < MaxNow /\ now' = now + 1
      /\ at \notin {e.at : e \in transfers[t]}
      /\ UNCHANGED <<badge, issue, attribution, owned, transfers, bookVars>>
      /\ broken' = IF InOrder(t, at) THEN broken ELSE broken \cup {t}
  BY DEF StartTransfer
<1>2. PICK next : next = [from |-> owned[t], to |-> unit, at |-> at]
  OBVIOUS
<1>3. moving' = [moving EXCEPT ![t] = next]
  BY <1>2 DEF StartTransfer
<1>4. now \in Nat /\ now' \in now..MaxNow /\ at \in Nat
  BY <1>1, ReportingAssumption DEF ReportInv, ReportTyped
<1>5. /\ next \in [from: OrgUnits, to: OrgUnits, at: 1..(MaxNow + 1)]
      /\ next.from = owned[t] /\ next.to = unit /\ next.at = at
  BY <1>2 DEF ReportInv, ReportTyped
<1>6. next # NoMove
  <2>1. NoMove.from = Nobody /\ Nobody \notin OrgUnits
    BY ReportingAssumption DEF NoMove
  <2>2. owned[t] \in OrgUnits
    BY DEF ReportInv, ReportTyped
  <2> QED
    BY <1>5, <2>1, <2>2
<1>7. /\ owned' \in [ReportTemplates -> OrgUnits]
      /\ transfers' \in [ReportTemplates -> SUBSET Transfer]
      /\ moving' \in [ReportTemplates -> [from: OrgUnits, to: OrgUnits, at: 1..(MaxNow + 1)] \cup {NoMove}]
      /\ moving'[t] = next /\ \A u \in ReportTemplates \ {t} : moving'[u] = moving[u]
  BY <1>1, <1>3, <1>5 DEF ReportInv, ReportTyped
<1>8. \A b \in Badges : holders'[b] = holders[b] \cup
          (IF badge[b].template = t /\ badge[b].issuedAt >= at THEN {unit} ELSE {})
  BY DEF StartTransfer
<1>9. holders' \in [Badges -> SUBSET OrgUnits] /\ \A b \in Badges : holders[b] \subseteq holders'[b]
  BY <1>8 DEF StartTransfer, ReportInv, ReportTyped
<1>10. broken \subseteq broken'
  BY <1>1
<1>11. TemplateFits(t)
  BY DEF ReportInv
<1>12. TemplateFits(t)'
  <2>1. Dated(transfers'[t]) /\ \A e \in transfers'[t] : e.at # at
    BY <1>1, <1>11 DEF TemplateFits
  <2>2. ASSUME t \notin broken'
        PROVE  /\ \A e \in transfers'[t] : e.at <= now'
               /\ Newest(transfers'[t], next.from) /\ at <= now'
               /\ \A e \in transfers'[t] : e.at < at
    <3>1. InOrder(t, at) /\ t \notin broken
      BY <1>1, <2>2
    <3>2. /\ \A e \in transfers[t] : e.at <= now /\ e.at \in Nat
          /\ Newest(transfers[t], owned[t])
      BY <1>1, <1>11, <3>1 DEF TemplateFits, ReportInv, ReportTyped, Transfer
    <3> QED
      BY <1>1, <1>4, <1>5, <3>1, <3>2 DEF InOrder
  <2> QED
    BY <1>1, <1>5, <1>6, <1>7, <2>1, <2>2 DEF TemplateFits
<1>13. ASSUME NEW b \in Badges, badge[b].template = t PROVE DateFits(b)'
  <2> SUFFICES ASSUME issue[b].step # "unissued", t \notin broken'
               PROVE  /\ KnownTo(transfers[t], badge[b].issuedAt, holders'[b])
                      /\ at <= badge[b].issuedAt => unit \in holders'[b]
    BY <1>1, <1>5, <1>7, <1>13 DEF DateFits
  <2>1. KnownTo(transfers[t], badge[b].issuedAt, holders[b])
    BY <1>10, <1>13 DEF ReportInv, DateFits
  <2>2. PICK events, date, held, more : events = transfers[t] /\ date = badge[b].issuedAt
                                        /\ held = holders[b] /\ more = holders'[b]
    OBVIOUS
  <2>3. KnownTo(events, date, more)
    BY <1>9, <2>1, <2>2, KnownGrows
  <2>4. badge[b].issuedAt \in Nat
    BY DEF ReportInv, ReportTyped, BadgeRow
  <2> QED
    BY <1>4, <1>8, <1>13, <2>2, <2>3, <2>4
<1>14. \A b \in Badges : badge[b].template = t /\ issue[b].step \in {"signing", "inserted"} =>
           owned'[t] \in holders'[b]
  BY <1>1, <1>9 DEF ReportInv, BadgeFits
<1> QED
  BY <1>1, <1>4, <1>7, <1>9, <1>10, <1>12, <1>13, <1>14, TemplateStepInv

LEMMA MoveOwnerInv ==
    ASSUME ReportInv, NEW t \in ReportTemplates, MoveOwner(t)
    PROVE  ReportInv'
<1>1. /\ moving[t].to \notin {Nobody, owned[t]}
      /\ owned' = [owned EXCEPT ![t] = moving[t].to]
      /\ UNCHANGED <<now, badge, issue, attribution, transfers, moving, broken, bookVars>>
  BY DEF MoveOwner
<1>2. moving[t] # NoMove
  BY <1>1 DEF NoMove
<1>3. PICK next : next = moving[t]
  OBVIOUS
<1>4. next \in [from: OrgUnits, to: OrgUnits, at: 1..(MaxNow + 1)] /\ next # NoMove
  BY <1>2, <1>3 DEF ReportInv, ReportTyped
<1>5. /\ owned' \in [ReportTemplates -> OrgUnits] /\ owned'[t] = next.to
      /\ \A u \in ReportTemplates \ {t} : owned'[u] = owned[u]
  BY <1>1, <1>3, <1>4 DEF ReportInv, ReportTyped
<1>6. \A b \in Badges : holders'[b] = holders[b] \cup
          (IF badge[b].template = t /\ issue[b].step \in {"signing", "inserted"} THEN {next.to} ELSE {})
  BY <1>3 DEF MoveOwner
<1>7. holders' \in [Badges -> SUBSET OrgUnits] /\ \A b \in Badges : holders[b] \subseteq holders'[b]
  BY <1>3, <1>4, <1>6 DEF MoveOwner, ReportInv, ReportTyped
<1>8. /\ now' \in now..MaxNow
      /\ transfers' \in [ReportTemplates -> SUBSET Transfer]
      /\ moving' \in [ReportTemplates -> [from: OrgUnits, to: OrgUnits, at: 1..(MaxNow + 1)] \cup {NoMove}]
  BY <1>1, ReportingAssumption DEF ReportInv, ReportTyped
<1>9. TemplateFits(t)'
  <2>1. TemplateFits(t)
    BY DEF ReportInv
  <2> QED
    BY <1>1, <1>3, <1>4, <1>5, <2>1 DEF TemplateFits
<1>10. \A b \in Badges : badge[b].template = t => DateFits(b)'
  BY <1>1, <1>7, DateStays
<1>11. \A b \in Badges : badge[b].template = t /\ issue[b].step \in {"signing", "inserted"} =>
           owned'[t] \in holders'[b]
  BY <1>5, <1>6
<1> QED
  BY <1>1, <1>5, <1>7, <1>8, <1>9, <1>10, <1>11, TemplateStepInv

LEMMA RecordTransferInv ==
    ASSUME ReportInv, NEW t \in ReportTemplates, RecordTransfer(t)
    PROVE  ReportInv'
<1>1. /\ moving[t].to = owned[t]
      /\ moving' = [moving EXCEPT ![t] = NoMove]
      /\ UNCHANGED <<now, badge, issue, attribution, holders, owned, broken, bookVars>>
  BY DEF RecordTransfer, badgeVars
<1>2. PICK next : next = moving[t]
  OBVIOUS
<1>3. PICK g : g = [to |-> next.to, at |-> next.at]
  OBVIOUS
<1>4. PICK events : events = transfers[t]
  OBVIOUS
<1>5. next \in [from: OrgUnits, to: OrgUnits, at: 1..(MaxNow + 1)] /\ next # NoMove
  BY <1>1, <1>2, ReportingAssumption DEF ReportInv, ReportTyped, NoMove
<1>6. g \in Transfer /\ g.to = next.to /\ g.at = next.at /\ events \in SUBSET Transfer
  BY <1>3, <1>4, <1>5 DEF Transfer, ReportInv, ReportTyped
<1>7. transfers' = [transfers EXCEPT ![t] = events \cup {g}]
  BY <1>2, <1>3, <1>4 DEF RecordTransfer
<1>8. /\ now' \in now..MaxNow
      /\ owned' \in [ReportTemplates -> OrgUnits] /\ holders' \in [Badges -> SUBSET OrgUnits]
      /\ moving' \in [ReportTemplates -> [from: OrgUnits, to: OrgUnits, at: 1..(MaxNow + 1)] \cup {NoMove}]
      /\ moving'[t] = NoMove
      /\ \A u \in ReportTemplates \ {t} : moving'[u] = moving[u]
  BY <1>1, ReportingAssumption DEF ReportInv, ReportTyped
<1>9. /\ transfers' \in [ReportTemplates -> SUBSET Transfer] /\ transfers'[t] = events \cup {g}
      /\ \A u \in ReportTemplates \ {t} : transfers'[u] = transfers[u]
  BY <1>4, <1>6, <1>7 DEF ReportInv, ReportTyped
<1>10. /\ Dated(events) /\ \A e \in events : e.at # g.at
       /\ t \notin broken =>
             /\ \A e \in events : e.at <= now /\ e.at < g.at
             /\ g.at <= now
  BY <1>2, <1>4, <1>5, <1>6 DEF ReportInv, TemplateFits
<1>11. TemplateFits(t)'
  <2>1. Dated(events \cup {g})
    BY <1>6, <1>10, DatedGrows
  <2>2. t \notin broken => Newest(events \cup {g}, owned[t])
    BY <1>1, <1>2, <1>6, <1>10, NewestAfter
  <2> QED
    BY <1>1, <1>8, <1>9, <1>10, <2>1, <2>2 DEF TemplateFits
<1>12. ASSUME NEW b \in Badges, badge[b].template = t PROVE DateFits(b)'
  <2> SUFFICES ASSUME issue[b].step # "unissued", t \notin broken
               PROVE  KnownTo(events \cup {g}, badge[b].issuedAt, holders[b])
    BY <1>1, <1>8, <1>9, <1>12 DEF DateFits
  <2>1. PICK date, held : date = badge[b].issuedAt /\ held = holders[b]
    OBVIOUS
  <2>2. KnownTo(events, date, held) /\ (g.at <= date => g.to \in held)
    BY <1>2, <1>4, <1>5, <1>6, <1>12, <2>1 DEF ReportInv, DateFits
  <2>3. date \in Nat
    BY <2>1 DEF ReportInv, ReportTyped, BadgeRow
  <2>4. KnownTo(events \cup {g}, date, held)
    BY <1>6, <1>10, <2>2, <2>3, KnownAfter
  <2> QED
    BY <2>1, <2>4
<1>13. \A b \in Badges : badge[b].template = t /\ issue[b].step \in {"signing", "inserted"} =>
           owned'[t] \in holders'[b]
  BY <1>1 DEF ReportInv, BadgeFits
<1> QED
  BY <1>1, <1>8, <1>9, <1>11, <1>12, <1>13, TemplateStepInv

LEMMA LoseTransferInv ==
    ASSUME ReportInv, NEW t \in ReportTemplates, LoseTransfer(t)
    PROVE  ReportInv'
<1>1. /\ moving[t] # NoMove
      /\ moving' = [moving EXCEPT ![t] = NoMove]
      /\ broken' = IF moving[t].to = owned[t] THEN broken \cup {t} ELSE broken
      /\ UNCHANGED <<now, badge, issue, attribution, holders, owned, transfers, bookVars>>
  BY DEF LoseTransfer, badgeVars
<1>2. /\ now' \in now..MaxNow
      /\ owned' \in [ReportTemplates -> OrgUnits] /\ holders' \in [Badges -> SUBSET OrgUnits]
      /\ transfers' \in [ReportTemplates -> SUBSET Transfer]
      /\ moving' \in [ReportTemplates -> [from: OrgUnits, to: OrgUnits, at: 1..(MaxNow + 1)] \cup {NoMove}]
      /\ moving'[t] = NoMove
      /\ \A u \in ReportTemplates \ {t} : moving'[u] = moving[u]
  BY <1>1, ReportingAssumption DEF ReportInv, ReportTyped
<1>3. TemplateFits(t)'
  <2>1. TemplateFits(t)
    BY DEF ReportInv
  <2>2. t \notin broken' => t \notin broken /\ owned[t] = moving[t].from
    BY <1>1, <2>1 DEF TemplateFits
  <2> QED
    BY <1>1, <1>2, <2>1, <2>2 DEF TemplateFits
<1>4. ASSUME NEW b \in Badges, badge[b].template = t PROVE DateFits(b)'
  BY <1>1, <1>2, <1>4 DEF ReportInv, DateFits
<1>5. \A b \in Badges : badge[b].template = t /\ issue[b].step \in {"signing", "inserted"} =>
           owned'[t] \in holders'[b]
  BY <1>1 DEF ReportInv, BadgeFits
<1>6. broken \subseteq broken'
  BY <1>1
<1> QED
  BY <1>1, <1>2, <1>3, <1>4, <1>5, <1>6, TemplateStepInv

(* A call's steps. *)

LEMMA CallStepInv ==
    ASSUME ReportInv, NEW r \in Reporters, NEW place \in Places, NEW j \in Job,
           pcr' = [pcr EXCEPT ![r] = place], job' = [job EXCEPT ![r] = j],
           UNCHANGED <<now, badgeVars, templateVars, engaged>>,
           CallFits(place, j), ReportFits(place, j)
    PROVE  ReportInv'
<1>1. UNCHANGED <<now, badge, issue, attribution, holders, owned, transfers, moving, broken, engaged>>
  BY DEF badgeVars, templateVars
<1>2. now' \in Nat /\ now <= now'
  BY <1>1, ReportingAssumption DEF ReportInv, ReportTyped
<1>3. Existing' = Existing /\ Attributed' = Attributed
  BY <1>1 DEF Existing, Attributed
<1>4. Grows
  BY <1>1, <1>2, <1>3 DEF Grows
<1>5. CallFits(place, j)' /\ ReportFits(place, j)'
  BY <1>4, CallStays
<1>6. CallsFit' /\ pcr' \in [Reporters -> Places] /\ job' \in [Reporters -> Job]
  BY <1>4, <1>5, OneCallMoves
<1>7. ReportTyped' /\ ClaimedOnce'
  BY <1>1, <1>6 DEF ReportInv, ReportTyped, ClaimedOnce
<1>8. \A t \in ReportTemplates : TemplateFits(t)'
  BY <1>2, TemplatesStay
<1>9. ASSUME NEW b \in Badges PROVE BadgeFits(b)' /\ DateFits(b)'
  <2>1. issue[b].step \in {"signing", "inserted"} => owned[badge[b].template] \in holders[b]
    BY DEF ReportInv, BadgeFits
  <2> QED
    BY <1>1, <1>2, <2>1, BadgeStays, DateStays
<1> QED
  BY <1>6, <1>7, <1>8, <1>9 DEF ReportInv

LEMMA NothingToDo == NoJob \in Job /\ CallFits("idle", NoJob) /\ ReportFits("idle", NoJob)
<1>1. NoJob \in Job
  BY ReportingAssumption DEF NoJob, Job
<1>2. CallFits("idle", NoJob) /\ ReportFits("idle", NoJob)
  BY DEF NoJob, CallFits, ReportFits
<1> QED
  BY <1>1, <1>2

LEMMA BeginCallInv ==
    ASSUME ReportInv, NEW r \in Reporters,
           BeginReport(r) \/ \E b \in Badges, type \in Recorded : BeginEvent(r, b, type)
    PROVE  ReportInv'
<1>1. UNCHANGED <<now, badgeVars, templateVars, engaged>>
  BY DEF BeginReport, BeginEvent
<1>2. Existing \subseteq Badges
  BY DEF Existing
<1>3. CASE BeginReport(r)
  <2>1. PICK due : due = Existing
    OBVIOUS
  <2>2. PICK j : j = [NoJob EXCEPT !.type = "report", !.due = due]
    OBVIOUS
  <2>3. pcr' = [pcr EXCEPT ![r] = "select"] /\ job' = [job EXCEPT ![r] = j]
    BY <1>3, <2>1, <2>2 DEF BeginReport
  <2>4. j = [type |-> "report", badge |-> Nobody, at |-> 0, missing |-> {}, listed |-> {},
             due |-> due, counted |-> {}]
    BY <2>2 DEF NoJob
  <2>5. j \in Job
    BY <1>2, <2>1, <2>4, ReportingAssumption DEF Job
  <2>6. CallFits("select", j) /\ ReportFits("select", j)
    BY <2>1, <2>4 DEF CallFits, ReportFits
  <2>7. "select" \in Places
    BY DEF Places
  <2> QED
    BY <1>1, <2>3, <2>5, <2>6, <2>7, CallStepInv
<1>4. ASSUME NEW b \in Badges, NEW type \in Recorded, BeginEvent(r, b, type) PROVE ReportInv'
  <2>1. PICK date \in 1..MaxNow : date = now
    BY DEF ReportInv, ReportTyped
  <2>2. PICK j : j = [NoJob EXCEPT !.type = type, !.badge = b, !.at = date]
    OBVIOUS
  <2>3. PICK place \in {"find", "select"} : pcr' = [pcr EXCEPT ![r] = place]
    BY <1>4 DEF BeginEvent
  <2>4. job' = [job EXCEPT ![r] = j]
    BY <1>4, <2>1, <2>2 DEF BeginEvent
  <2>5. j = [type |-> type, badge |-> b, at |-> date, missing |-> {}, listed |-> {},
             due |-> {}, counted |-> {}]
    BY <2>2 DEF NoJob
  <2>6. j \in Job /\ date >= 1
    BY <2>5, ReportingAssumption DEF Job
  <2>7. j.type # "report"
    BY <2>5, ReportingAssumption DEF EventTypes, OneShot
  <2>8. CallFits(place, j)
    BY <2>3, <2>5, <2>6, <2>7 DEF CallFits
  <2>9. ReportFits(place, j)
    BY <2>7 DEF ReportFits
  <2>10. place \in Places
    BY DEF Places
  <2> QED
    BY <1>1, <2>3, <2>4, <2>6, <2>8, <2>9, <2>10, CallStepInv
<1> QED
  BY <1>3, <1>4

LEMMA SelectMissingInv ==
    ASSUME ReportInv, NEW r \in Reporters, SelectMissing(r)
    PROVE  ReportInv'
<1>1. /\ pcr[r] = "select" /\ UNCHANGED <<now, badgeVars, templateVars, engaged>>
  BY DEF SelectMissing
<1>2. PICK old : old = job[r]
  OBVIOUS
<1>3. old \in Job /\ CallFits("select", old) /\ ReportFits("select", old)
  BY <1>1, <1>2 DEF ReportInv, ReportTyped, CallsFit
<1>4. PICK missing : missing = {[badge |-> b, owner |-> owned[badge[b].template]] : b \in Existing \ Attributed}
  OBVIOUS
<1>5. missing \in SUBSET Missing
  <2>1. ASSUME NEW b \in Existing PROVE b \in Badges /\ owned[badge[b].template] \in OrgUnits
    BY DEF Existing, ReportInv, ReportTyped, BadgeFits
  <2> QED
    BY <1>4, <2>1 DEF Missing
<1>6. PICK j : j = [old EXCEPT !.missing = missing]
  OBVIOUS
<1>7. /\ j \in Job /\ j.missing = missing /\ j.type = old.type /\ j.badge = old.badge /\ j.at = old.at
      /\ j.listed = old.listed /\ j.due = old.due /\ j.counted = old.counted
  BY <1>3, <1>5, <1>6 DEF Job
<1>8. job' = [job EXCEPT ![r] = j]
  BY <1>2, <1>4, <1>6 DEF SelectMissing, ReportInv, ReportTyped
<1>9. PICK place : place = IF missing = {} THEN (IF old.type = "report" THEN "rows" ELSE "find") ELSE "list"
  OBVIOUS
<1>10. pcr' = [pcr EXCEPT ![r] = place] /\ place \in Places
  BY <1>2, <1>4, <1>9 DEF SelectMissing, AfterBackfill, Places
<1>11. CallFits(place, j)
  <2>1. \A m \in missing : m.badge \in Existing
    BY <1>4
  <2>2. old.listed = {}
    BY <1>3 DEF CallFits
  <2> QED
    BY <1>3, <1>7, <1>9, <2>1, <2>2 DEF CallFits
<1>12. ReportFits(place, j)
  <2>1. ASSUME NEW b \in Existing PROVE b \in Attributed \/ \E m \in missing : m.badge = b
    <3>1. b \notin Attributed => [badge |-> b, owner |-> owned[badge[b].template]] \in missing
      BY <1>4
    <3> QED
      BY <3>1
  <2>2. old.type = "report" => old.due \subseteq Existing
    BY <1>3 DEF ReportFits
  <2> QED
    BY <1>7, <1>9, <2>1, <2>2 DEF ReportFits
<1> QED
  BY <1>1, <1>7, <1>8, <1>10, <1>11, <1>12, CallStepInv

LEMMA ListTransfersInv ==
    ASSUME ReportInv, NEW r \in Reporters, ListTransfers(r)
    PROVE  ReportInv'
<1>1. /\ pcr[r] = "list" /\ UNCHANGED <<now, badgeVars, templateVars, engaged>>
  BY DEF ListTransfers
<1>2. PICK old : old = job[r]
  OBVIOUS
<1>3. old \in Job /\ CallFits("list", old) /\ ReportFits("list", old)
  BY <1>1, <1>2 DEF ReportInv, ReportTyped, CallsFit
<1>4. PICK wanted : wanted = {badge[m.badge].template : m \in old.missing}
  OBVIOUS
<1>5. PICK left : left = wanted \ {l.template : l \in old.listed}
  OBVIOUS
<1>6. CASE left = {}
  <2>1. pcr' = [pcr EXCEPT ![r] = "upsert"] /\ job' = [job EXCEPT ![r] = old]
    BY <1>2, <1>4, <1>5, <1>6 DEF ListTransfers, ReportInv, ReportTyped
  <2>2. \A m \in old.missing : \E l \in old.listed : l.template = badge[m.badge].template
    BY <1>4, <1>5, <1>6
  <2>3. CallFits("upsert", old) /\ ReportFits("upsert", old)
    BY <1>3, <2>2 DEF CallFits, ReportFits
  <2>4. "upsert" \in Places
    BY DEF Places
  <2> QED
    BY <1>1, <1>3, <2>1, <2>3, <2>4, CallStepInv
<1>7. CASE left # {}
  <2>1. PICK t \in left :
            /\ job' = [job EXCEPT ![r].listed = @ \cup {[template |-> t, events |-> transfers[t]]}]
            /\ UNCHANGED pcr
    BY <1>2, <1>4, <1>5, <1>7 DEF ListTransfers
  <2>2. t \in ReportTemplates
    <3>1. PICK m \in old.missing : t = badge[m.badge].template
      BY <1>4, <1>5, <2>1
    <3>2. m.badge \in Existing
      BY <1>3 DEF CallFits
    <3> QED
      BY <3>1, <3>2 DEF Existing, ReportInv, BadgeFits
  <2>3. PICK events \in SUBSET Transfer : events = transfers[t]
    BY <2>2 DEF ReportInv, ReportTyped
  <2>4. PICK new : new = [template |-> t, events |-> events]
    OBVIOUS
  <2>5. new \in Listing /\ new.template = t /\ new.events = events
    BY <2>2, <2>4 DEF Listing
  <2>6. PICK j : j = [old EXCEPT !.listed = old.listed \cup {new}]
    OBVIOUS
  <2>7. /\ j \in Job /\ j.listed = old.listed \cup {new} /\ j.type = old.type /\ j.badge = old.badge
        /\ j.at = old.at /\ j.missing = old.missing /\ j.due = old.due /\ j.counted = old.counted
    BY <1>3, <2>5, <2>6 DEF Job
  <2>8. job' = [job EXCEPT ![r] = j] /\ pcr' = [pcr EXCEPT ![r] = "list"]
    BY <1>1, <1>2, <2>1, <2>3, <2>4, <2>6 DEF ReportInv, ReportTyped
  <2>9. CallFits("list", j)
    <3>1. Dated(events)
      BY <2>2, <2>3 DEF ReportInv, TemplateFits
    <3>2. ASSUME NEW m \in old.missing, badge[m.badge].template = t, t \notin broken
          PROVE  KnownTo(events, badge[m.badge].issuedAt, holders[m.badge])
      <4>1. m.badge \in Existing
        BY <1>3 DEF CallFits
      <4> QED
        BY <2>3, <3>2, <4>1 DEF Existing, ReportInv, DateFits
    <3>3. \A l \in old.listed :
            /\ Dated(l.events)
            /\ \A m \in old.missing :
                   badge[m.badge].template = l.template /\ l.template \notin broken =>
                       KnownTo(l.events, badge[m.badge].issuedAt, holders[m.badge])
      BY <1>3 DEF CallFits
    <3>4. \A l \in j.listed :
            /\ Dated(l.events)
            /\ \A m \in j.missing :
                   badge[m.badge].template = l.template /\ l.template \notin broken =>
                       KnownTo(l.events, badge[m.badge].issuedAt, holders[m.badge])
      BY <2>5, <2>7, <3>1, <3>2, <3>3
    <3> QED
      BY <1>3, <2>7, <3>4 DEF CallFits
  <2>10. ReportFits("list", j)
    BY <1>3, <2>7 DEF ReportFits
  <2>11. "list" \in Places
    BY DEF Places
  <2> QED
    BY <1>1, <2>7, <2>8, <2>9, <2>10, <2>11, CallStepInv
<1> QED
  BY <1>6, <1>7

LEMMA FillInInv ==
    ASSUME ReportInv, NEW r \in Reporters, FillIn(r)
    PROVE  ReportInv'
<1>1. /\ pcr[r] = "upsert"
      /\ UNCHANGED <<now, badge, issue, holders, templateVars, engaged>>
  BY DEF FillIn
<1>2. PICK old : old = job[r]
  OBVIOUS
<1>3. old \in Job /\ CallFits("upsert", old) /\ ReportFits("upsert", old)
  BY <1>1, <1>2 DEF ReportInv, ReportTyped, CallsFit
<1>4. PICK m \in old.missing :
        /\ LET l == CHOOSE x \in old.listed : x.template = badge[m.badge].template
           IN  attribution' = [attribution EXCEPT ![m.badge] = Resolved(l.events, m)]
        /\ job' = [job EXCEPT ![r].missing = @ \ {m}]
        /\ pcr' = [pcr EXCEPT ![r] = IF old.missing = {m} THEN AfterBackfill(r) ELSE "upsert"]
  BY <1>2 DEF FillIn
<1>5. PICK b : b = m.badge
  OBVIOUS
<1>6. m \in Missing /\ b \in Existing /\ b \in Badges
  BY <1>3, <1>5 DEF Job, CallFits, Existing
<1>7. PICK l \in old.listed : /\ l.template = badge[b].template
                              /\ attribution' = [attribution EXCEPT ![b] = Resolved(l.events, m)]
  <2>1. \E x \in old.listed : x.template = badge[b].template
    BY <1>3, <1>5 DEF CallFits
  <2>2. PICK l : l = CHOOSE x \in old.listed : x.template = badge[b].template
    OBVIOUS
  <2>3. l \in old.listed /\ l.template = badge[b].template
    BY <2>1, <2>2
  <2> QED
    BY <1>4, <1>5, <2>2, <2>3
<1>8. PICK count : count = Resolved(l.events, m)
  OBVIOUS
<1>9. issue[b].step # "unissued" /\ badge[b].issuedAt \in Nat /\ badge[b].issuedAt >= 2
  BY <1>6, ReportingAssumption DEF Existing, ReportInv, ReportTyped, BadgeFits
<1>10. /\ count.unit \in OrgUnits /\ count.source = "historical_backfill"
       /\ badge[b].template \notin broken => count.unit \in holders[b]
  <2>1. l.events \in SUBSET Transfer /\ Dated(l.events)
    BY <1>3 DEF Job, Listing, CallFits
  <2>2. badge[b].template \notin broken => KnownTo(l.events, badge[b].issuedAt, holders[b])
    BY <1>3, <1>5, <1>7 DEF CallFits
  <2>3. PICK events : events = l.events
    OBVIOUS
  <2>4. PICK held : held = holders[b]
    OBVIOUS
  <2>5. /\ count.unit \in OrgUnits /\ count.source = "historical_backfill"
        /\ KnownTo(events, badge[b].issuedAt, held) => count.unit \in held
    BY <1>5, <1>6, <1>8, <1>9, <2>1, <2>3, ResolvedFits
  <2> QED
    BY <2>2, <2>3, <2>4, <2>5
<1>11. count \in [unit: OrgUnits \cup {Nobody}, source: Sources \cup {"none"}]
  <2>1. \E u : count = [unit |-> u, source |-> count.source]
    BY <1>8 DEF Resolved
  <2> QED
    BY <1>10, <2>1 DEF Sources
<1>12. /\ attribution' \in [Badges -> [unit: OrgUnits \cup {Nobody}, source: Sources \cup {"none"}]]
       /\ attribution'[b] = count /\ \A c \in Badges \ {b} : attribution'[c] = attribution[c]
  BY <1>6, <1>7, <1>8, <1>11 DEF ReportInv, ReportTyped
<1>13. UNCHANGED <<owned, transfers, moving, broken>>
  BY <1>1 DEF templateVars
<1>14. now' \in Nat /\ now <= now' /\ Nobody \notin OrgUnits
  BY <1>1, ReportingAssumption DEF ReportInv, ReportTyped
<1>15. Existing' = Existing /\ Attributed' = Attributed \cup {b}
  BY <1>1, <1>6, <1>10, <1>12, <1>14 DEF Existing, Attributed
<1>16. Grows
  BY <1>1, <1>13, <1>14, <1>15 DEF Grows
<1>17. PICK j : j = [old EXCEPT !.missing = old.missing \ {m}]
  OBVIOUS
<1>18. /\ j \in Job /\ j.missing = old.missing \ {m} /\ j.listed = old.listed /\ j.type = old.type
       /\ j.badge = old.badge /\ j.at = old.at /\ j.due = old.due /\ j.counted = old.counted
  BY <1>3, <1>17 DEF Job
<1>19. job' = [job EXCEPT ![r] = j]
  BY <1>2, <1>4, <1>17 DEF ReportInv, ReportTyped
<1>20. PICK place : place = IF old.missing = {m} THEN (IF old.type = "report" THEN "rows" ELSE "find") ELSE "upsert"
  OBVIOUS
<1>21. pcr' = [pcr EXCEPT ![r] = place] /\ place \in Places
  BY <1>2, <1>4, <1>20 DEF AfterBackfill, Places
<1>22. CallFits(place, j)'
  <2>1. CallFits(place, j)
    BY <1>3, <1>18, <1>20 DEF CallFits
  <2>2. j.missing \subseteq old.missing
    BY <1>18
  <2> QED
    BY <1>1, <1>13, <1>15, <2>1 DEF CallFits
<1>23. ReportFits(place, j)'
  <2>1. ASSUME old.type = "report"
        PROVE  /\ old.due \subseteq Existing
               /\ \A c \in old.due : c \in Attributed \/ \E n \in old.missing : n.badge = c
    BY <1>3, <2>1 DEF ReportFits
  <2>2. \A c : (c \in Attributed \/ \E n \in old.missing : n.badge = c) =>
               (c \in Attributed' \/ \E n \in j.missing : n.badge = c)
    BY <1>5, <1>15, <1>18
  <2> QED
    BY <1>15, <1>18, <1>20, <2>1, <2>2 DEF ReportFits
<1>24. CallsFit' /\ pcr' \in [Reporters -> Places] /\ job' \in [Reporters -> Job]
  BY <1>16, <1>18, <1>19, <1>21, <1>22, <1>23, OneCallMoves
<1>25. ReportTyped' /\ ClaimedOnce'
  BY <1>1, <1>12, <1>13, <1>24 DEF ReportInv, ReportTyped, ClaimedOnce
<1>26. \A t \in ReportTemplates : TemplateFits(t)'
  BY <1>1, <1>14, TemplatesStay
<1>27. ASSUME NEW c \in Badges PROVE DateFits(c)'
  BY <1>1, <1>13, DateStays
<1>28. ASSUME NEW c \in Badges PROVE BadgeFits(c)'
  <2>1. BadgeFits(c)
    BY DEF ReportInv
  <2>2. CASE c = b
    BY <1>1, <1>6, <1>10, <1>12, <1>13, <1>14, <1>15, <2>1, <2>2 DEF BadgeFits
  <2>3. CASE c # b
    BY <1>1, <1>12, <1>13, <1>15, <2>1, <2>3 DEF BadgeFits
  <2> QED
    BY <2>2, <2>3
<1> QED
  BY <1>24, <1>25, <1>26, <1>27, <1>28 DEF ReportInv

LEMMA RowsAreCounted == AssertionsOf(CurrentRows) = Existing \cap Attributed
<1>1. ASSUME NEW b \in Existing \cap Attributed
      PROVE  \E row \in CurrentRows : row.assertion = b
  <2>1. \E e : e \in IF Events(b) = {} THEN {NoEvent} ELSE Events(b)
    OBVIOUS
  <2>2. PICK e : e \in IF Events(b) = {} THEN {NoEvent} ELSE Events(b)
    BY <2>1
  <2>3. Row(b, e) \in RowsOf(b)
    BY <2>2 DEF RowsOf
  <2>4. Row(b, e) \in CurrentRows
    BY <2>3 DEF CurrentRows
  <2>5. Row(b, e).assertion = b
    BY DEF Row
  <2> QED
    BY <2>4, <2>5
<1>2. ASSUME NEW row \in CurrentRows PROVE row.assertion \in Existing \cap Attributed
  <2>1. PICK b \in Existing \cap Attributed : row \in RowsOf(b)
    BY DEF CurrentRows
  <2>2. PICK e : row = Row(b, e)
    BY <2>1 DEF RowsOf
  <2>3. row.assertion = b
    BY <2>2 DEF Row
  <2> QED
    BY <2>3
<1>3. ASSUME NEW b \in AssertionsOf(CurrentRows) PROVE b \in Existing \cap Attributed
  BY <1>2 DEF AssertionsOf
<1>4. ASSUME NEW b \in Existing \cap Attributed PROVE b \in AssertionsOf(CurrentRows)
  BY <1>1 DEF AssertionsOf
<1> QED
  BY <1>3, <1>4

LEMMA ReadRowsInv ==
    ASSUME ReportInv, NEW r \in Reporters, ReadRows(r)
    PROVE  ReportInv'
<1>1. /\ pcr[r] = "rows" /\ UNCHANGED <<now, badgeVars, templateVars, engaged>>
      /\ pcr' = [pcr EXCEPT ![r] = "answered"]
  BY DEF ReadRows
<1>2. PICK old : old = job[r]
  OBVIOUS
<1>3. old \in Job /\ CallFits("rows", old) /\ ReportFits("rows", old)
  BY <1>1, <1>2 DEF ReportInv, ReportTyped, CallsFit
<1>4. PICK rows : rows = AssertionsOf(CurrentRows)
  OBVIOUS
<1>5. rows = Existing \cap Attributed
  BY <1>4, RowsAreCounted
<1>6. rows \in SUBSET Badges
  BY <1>5 DEF Existing
<1>7. PICK j : j = [old EXCEPT !.counted = rows]
  OBVIOUS
<1>8. /\ j \in Job /\ j.counted = rows /\ j.type = old.type /\ j.badge = old.badge /\ j.at = old.at
      /\ j.missing = old.missing /\ j.listed = old.listed /\ j.due = old.due
  BY <1>3, <1>6, <1>7 DEF Job
<1>9. job' = [job EXCEPT ![r] = j]
  BY <1>2, <1>4, <1>7 DEF ReadRows, ReportInv, ReportTyped
<1>10. CallFits("answered", j)
  BY <1>3, <1>8 DEF CallFits
<1>11. ReportFits("answered", j)
  BY <1>3, <1>5, <1>8 DEF ReportFits
<1>12. "answered" \in Places
  BY DEF Places
<1> QED
  BY <1>1, <1>8, <1>9, <1>10, <1>11, <1>12, CallStepInv

LEMMA FindEventInv ==
    ASSUME ReportInv, NEW r \in Reporters, FindEvent(r)
    PROVE  ReportInv'
<1>1. pcr[r] = "find" /\ UNCHANGED <<now, badgeVars, templateVars, engaged, job>>
  BY DEF FindEvent
<1>2. PICK place \in {"answered", "insert"} : pcr' = [pcr EXCEPT ![r] = place]
  BY DEF FindEvent
<1>3. PICK j : j = job[r]
  OBVIOUS
<1>4. j \in Job /\ CallFits("find", j)
  BY <1>1, <1>3 DEF ReportInv, ReportTyped, CallsFit
<1>5. job' = [job EXCEPT ![r] = j]
  BY <1>1, <1>3 DEF ReportInv, ReportTyped
<1>6. CallFits(place, j) /\ ReportFits(place, j)
  BY <1>2, <1>4 DEF CallFits, ReportFits
<1>7. place \in Places
  BY DEF Places
<1> QED
  BY <1>1, <1>2, <1>4, <1>5, <1>6, <1>7, CallStepInv

LEMMA InsertEventInv ==
    ASSUME ReportInv, NEW r \in Reporters, InsertEvent(r)
    PROVE  ReportInv'
<1>1. /\ pcr[r] = "insert" /\ UNCHANGED <<now, badgeVars, templateVars, job>>
      /\ pcr' = [pcr EXCEPT ![r] = "answered"]
  BY DEF InsertEvent
<1>2. PICK j : j = job[r]
  OBVIOUS
<1>3. j \in Job /\ CallFits("insert", j)
  BY <1>1, <1>2 DEF ReportInv, ReportTyped, CallsFit
<1>4. engaged' = Engaged(j.badge, j.type, j.at)
  BY <1>2 DEF InsertEvent
<1>5. UNCHANGED <<badge, issue, attribution, holders, owned, transfers, moving, broken>>
  BY <1>1 DEF badgeVars, templateVars
<1>6. now' \in Nat /\ now <= now'
  BY <1>1, ReportingAssumption DEF ReportInv, ReportTyped
<1>7. Existing' = Existing /\ Attributed' = Attributed
  BY <1>5 DEF Existing, Attributed
<1>8. Grows
  BY <1>5, <1>6, <1>7 DEF Grows
<1>9. "answered" \in Places /\ job' = [job EXCEPT ![r] = j]
  BY <1>1, <1>2 DEF Places, ReportInv, ReportTyped
<1>10. CallFits("answered", j) /\ ReportFits("answered", j)
  BY <1>3 DEF CallFits, ReportFits
<1>11. CallFits("answered", j)' /\ ReportFits("answered", j)'
  BY <1>8, <1>10, CallStays
<1>12. CallsFit' /\ pcr' \in [Reporters -> Places] /\ job' \in [Reporters -> Job]
  BY <1>1, <1>3, <1>8, <1>9, <1>11, OneCallMoves
<1>13. /\ engaged' \subseteq [id: Nat \ {0}, badge: Badges, type: EventTypes, at: 1..MaxNow]
       /\ IsFiniteSet(engaged') /\ ClaimedOnce'
  <2>1. j.badge \in Badges /\ j.type \in EventTypes /\ j.at \in 1..MaxNow
    BY <1>3, ReportingAssumption DEF CallFits, Job
  <2>2. /\ engaged \subseteq [id: Nat \ {0}, badge: Badges, type: EventTypes, at: 1..MaxNow]
        /\ IsFiniteSet(engaged) /\ ClaimedOnce
    BY DEF ReportInv, ReportTyped
  <2>3. CASE engaged' = engaged
    BY <2>2, <2>3 DEF ClaimedOnce
  <2>4. CASE engaged' # engaged
    <3>1. /\ engaged' = Inserted(j.badge, j.type, j.at)
          /\ j.type \in OneShot => \A e \in Events(j.badge) : e.type # j.type
      BY <1>4, <2>4 DEF Engaged
    <3>2. Cardinality(engaged) \in Nat
      BY <2>2, FS_CardinalityType
    <3>3. PICK number \in Nat \ {0} : number = Cardinality(engaged) + 1
      BY <3>2
    <3>4. PICK new : new = [id |-> number, badge |-> j.badge, type |-> j.type, at |-> j.at]
      OBVIOUS
    <3>5. /\ new \in [id: Nat \ {0}, badge: Badges, type: EventTypes, at: 1..MaxNow]
          /\ new.badge = j.badge /\ new.type = j.type
      BY <2>1, <3>4
    <3>6. engaged' = engaged \cup {new}
      BY <3>1, <3>3, <3>4 DEF Inserted
    <3>7. IsFiniteSet(engaged')
      BY <2>2, <3>6, FS_AddElement
    <3>8. \A e \in engaged : ~ (e.badge = new.badge /\ e.type = new.type /\ new.type \in OneShot)
      BY <3>1, <3>5 DEF Events
    <3>9. ClaimedOnce'
      BY <2>2, <3>6, <3>8 DEF ClaimedOnce
    <3> QED
      BY <2>2, <3>5, <3>6, <3>7, <3>9
  <2> QED
    BY <2>3, <2>4
<1>14. ReportTyped'
  BY <1>1, <1>5, <1>12, <1>13 DEF ReportInv, ReportTyped
<1>15. \A t \in ReportTemplates : TemplateFits(t)'
  BY <1>1, <1>6, TemplatesStay
<1>16. ASSUME NEW b \in Badges PROVE BadgeFits(b)' /\ DateFits(b)'
  <2>1. issue[b].step \in {"signing", "inserted"} => owned[badge[b].template] \in holders[b]
    BY DEF ReportInv, BadgeFits
  <2> QED
    BY <1>5, <1>6, <2>1, BadgeStays, DateStays
<1> QED
  BY <1>12, <1>13, <1>14, <1>15, <1>16 DEF ReportInv

LEMMA EndCallInv ==
    ASSUME ReportInv, NEW r \in Reporters, Reply(r) \/ LoseReporter(r)
    PROVE  ReportInv'
<1>1. /\ pcr' = [pcr EXCEPT ![r] = "idle"] /\ job' = [job EXCEPT ![r] = NoJob]
      /\ UNCHANGED <<now, badgeVars, templateVars, engaged>>
  BY DEF Reply, LoseReporter
<1>2. "idle" \in Places
  BY DEF Places
<1> QED
  BY <1>1, <1>2, NothingToDo, CallStepInv

LEMMA ReporterStepInv ==
    ASSUME ReportInv, NEW r \in Reporters, ReporterStep(r)
    PROVE  ReportInv'
<1>1. CASE BeginReport(r) \/ \E b \in Badges, type \in Recorded : BeginEvent(r, b, type)
  BY <1>1, BeginCallInv
<1>2. CASE SelectMissing(r)
  BY <1>2, SelectMissingInv
<1>3. CASE ListTransfers(r)
  BY <1>3, ListTransfersInv
<1>4. CASE FillIn(r)
  BY <1>4, FillInInv
<1>5. CASE ReadRows(r)
  BY <1>5, ReadRowsInv
<1>6. CASE FindEvent(r)
  BY <1>6, FindEventInv
<1>7. CASE InsertEvent(r)
  BY <1>7, InsertEventInv
<1>8. CASE Reply(r) \/ LoseReporter(r)
  BY <1>8, EndCallInv
<1> QED
  BY <1>1, <1>2, <1>3, <1>4, <1>5, <1>6, <1>7, <1>8 DEF ReporterStep

-----------------------------------------------------------------------------
(* The specification. *)

LEMMA ReportingStarts == ReportingInit => ReportInv
<1> SUFFICES ASSUME ReportingInit PROVE ReportInv
  OBVIOUS
<1>1. now = 1 /\ 1 \in 1..MaxNow /\ 1 \in 1..(MaxNow + 1)
  BY ReportingAssumption DEF ReportingInit
<1>2. \A b \in Badges : /\ badge[b] = Unissued /\ issue[b].step = "unissued" /\ issue[b].read = Nobody
                        /\ attribution[b].unit = Nobody /\ attribution[b].source = "none"
                        /\ holders[b] = {}
  BY DEF ReportingInit
<1>3. Unissued \in BadgeRow
  BY DEF Unissued, BadgeRow
<1>4. ASSUME NEW t \in ReportTemplates
      PROVE  TemplateFits(t) /\ transfers[t] \in SUBSET Transfer /\ owned[t] \in OrgUnits
             /\ moving[t] = NoMove
  <2>1. owned[t] = FirstOwner[t] /\ FirstOwner[t] \in OrgUnits /\ moving[t] = NoMove /\ broken = {}
    BY ReportingAssumption DEF ReportingInit
  <2>2. PICK first : first = [to |-> FirstOwner[t], at |-> 1]
    OBVIOUS
  <2>3. first \in Transfer /\ first.at = 1 /\ first.to = FirstOwner[t]
    BY <1>1, <2>1, <2>2 DEF Transfer
  <2>4. transfers[t] = {first}
    BY <2>2 DEF ReportingInit
  <2>5. Dated({first})
    BY <2>3, DatedOfOne
  <2>6. Newest({first}, owned[t])
    BY <2>1, <2>3 DEF Newest
  <2> QED
    BY <1>1, <2>1, <2>3, <2>4, <2>5, <2>6 DEF TemplateFits
<1>5. \A b \in Badges : BadgeFits(b) /\ DateFits(b)
  BY <1>2 DEF BadgeFits, DateFits
<1>6. CallsFit /\ pcr \in [Reporters -> Places] /\ job \in [Reporters -> Job]
  BY NothingToDo DEF ReportingInit, CallsFit, Places
<1>7. engaged = {} /\ IsFiniteSet(engaged) /\ ClaimedOnce
  BY FS_EmptySet DEF ReportingInit, ClaimedOnce
<1>8. /\ badge \in [Badges -> BadgeRow]
      /\ issue \in [Badges -> [step: IssueSteps, read: OrgUnits \cup {Nobody}]]
      /\ attribution \in [Badges -> [unit: OrgUnits \cup {Nobody}, source: Sources \cup {"none"}]]
      /\ holders \in [Badges -> SUBSET OrgUnits]
  BY <1>3 DEF ReportingInit, IssueSteps
<1>9. /\ owned \in [ReportTemplates -> OrgUnits]
      /\ transfers \in [ReportTemplates -> SUBSET Transfer]
      /\ moving \in [ReportTemplates -> [from: OrgUnits, to: OrgUnits, at: 1..(MaxNow + 1)] \cup {NoMove}]
  <2>1. owned \in [ReportTemplates -> OrgUnits]
    BY ReportingAssumption DEF ReportingInit
  <2>2. PICK first : first = [t \in ReportTemplates |-> {[to |-> FirstOwner[t], at |-> 1]}]
    OBVIOUS
  <2>3. transfers = first
    BY <2>2 DEF ReportingInit
  <2>4. \A t \in ReportTemplates : first[t] \in SUBSET Transfer
    BY <1>4, <2>3
  <2>5. transfers \in [ReportTemplates -> SUBSET Transfer]
    BY <2>2, <2>3, <2>4
  <2> QED
    BY <2>1, <2>5 DEF ReportingInit
<1>10. ReportTyped
  BY <1>1, <1>6, <1>7, <1>8, <1>9 DEF ReportTyped
<1> QED
  BY <1>4, <1>5, <1>6, <1>7, <1>10 DEF ReportInv

LEMMA ReportingStutters == ReportInv /\ UNCHANGED reportingVars => ReportInv'
<1> SUFFICES ASSUME ReportInv, UNCHANGED reportingVars PROVE ReportInv'
  OBVIOUS
<1>1. UNCHANGED <<now, badgeVars, templateVars, engaged, pcr, job>>
  BY DEF reportingVars, bookVars, reporterVars
<1>2. UNCHANGED <<badge, issue, attribution, holders, owned, transfers, moving, broken>>
  BY <1>1 DEF badgeVars, templateVars
<1>3. Existing' = Existing /\ Attributed' = Attributed /\ now' \in Nat /\ now <= now'
  BY <1>1, <1>2, ReportingAssumption DEF Existing, Attributed, ReportInv, ReportTyped
<1>4. Grows
  BY <1>2, <1>3 DEF Grows
<1>5. CallsFit'
  BY <1>1, <1>4, CallsStay
<1>6. \A t \in ReportTemplates : TemplateFits(t)'
  BY <1>1, <1>3, TemplatesStay
<1>7. ASSUME NEW b \in Badges PROVE BadgeFits(b)' /\ DateFits(b)'
  <2>1. issue[b].step \in {"signing", "inserted"} => owned[badge[b].template] \in holders[b]
    BY DEF ReportInv, BadgeFits
  <2> QED
    BY <1>2, <1>3, <2>1, BadgeStays, DateStays
<1>8. ReportTyped' /\ ClaimedOnce'
  BY <1>1, <1>2 DEF ReportInv, ReportTyped, ClaimedOnce
<1> QED
  BY <1>5, <1>6, <1>7, <1>8 DEF ReportInv

\* In every reachable state the transfers of each template are dated and follow its owners
\* unless one was lost or dated out of order; each badge goes by a unit that owned its
\* template; and each call that fills in has read what it will resolve (createAssertion,
\* backfillAssertionReportingAttributionsForTenant, transferBadgeTemplateOwnership).
THEOREM ReportInvariance == ReportingSpec => []ReportInv
<1>1. ReportInv /\ [ReportingNext]_reportingVars => ReportInv'
  <2> SUFFICES ASSUME ReportInv, ReportingNext PROVE ReportInv'
    BY ReportingStutters
  <2>1. CASE \E b \in Badges : IssueStep(b)
    BY <2>1, IssueStepInv
  <2>2. CASE \E b \in Badges : StateStep(b)
    BY <2>2, StateStepInv
  <2>3. CASE \E t \in ReportTemplates : TransferStep(t)
    <3>1. PICK t \in ReportTemplates : TransferStep(t)
      BY <2>3
    <3>2. CASE \E unit \in OrgUnits, at \in 1..(MaxNow + 1) : StartTransfer(t, unit, at)
      BY <3>2, StartTransferInv
    <3>3. CASE MoveOwner(t)
      BY <3>3, MoveOwnerInv
    <3>4. CASE RecordTransfer(t)
      BY <3>4, RecordTransferInv
    <3>5. CASE LoseTransfer(t)
      BY <3>5, LoseTransferInv
    <3> QED
      BY <3>1, <3>2, <3>3, <3>4, <3>5 DEF TransferStep
  <2>4. CASE \E r \in Reporters : ReporterStep(r)
    BY <2>4, ReporterStepInv
  <2> QED
    BY <2>1, <2>2, <2>3, <2>4 DEF ReportingNext
<1> QED
  BY <1>1, ReportingStarts, PTL DEF ReportingSpec

\* Whatever a report is interleaved with, it counts every badge that had its row when the
\* report began, each for a unit that owned its template while it was issued or by its
\* transfers, and a claim or an acceptance of it once (the reports' statements, the unique
\* index of migration 0034).
THEOREM BadgesAreCounted == ReportingSpec => []CountsAreTrue
<1>1. ReportInv => CountsAreTrue
  <2> SUFFICES ASSUME ReportInv PROVE CountsAreTrue
    OBVIOUS
  <2>1. ReportingTypeOK
    BY DEF ReportInv, ReportTyped, ReportingTypeOK, BadgeFits, Transfer
  <2>2. CountedForAnOwner
    BY DEF CountedForAnOwner, ReportInv, BadgeFits, Attributed
  <2>3. CountsWhatWasIssued
    BY DEF CountsWhatWasIssued, ReportInv, CallsFit, ReportFits
  <2> QED
    BY <2>1, <2>2, <2>3 DEF CountsAreTrue, ReportInv
<1> QED
  BY <1>1, ReportInvariance, PTL

-----------------------------------------------------------------------------
(* What a reader of some units is told. *)

ScopedAccess == [visible: {"scoped"}, roots: (SUBSET OrgUnits) \ {{}}]
IsQuery(q) ==
    q = [template |-> q.template, unit |-> q.unit, state |-> q.state, from |-> q.from, to |-> q.to]

\* Whom the routes and the dashboard restrict to units, they restrict to some.
LEMMA ScopesAreUnits ==
    ASSUME NEW role, NEW scopes, DOMAIN scopes \subseteq OrgUnits
    PROVE  /\ ReportingAccess(role, scopes).visible = "scoped" =>
                  ReportingAccess(role, scopes) \in ScopedAccess
           /\ ExecutiveAccess(role, scopes).visible = "scoped" =>
                  ExecutiveAccess(role, scopes) \in ScopedAccess
<1>1. \A roles : ScopedUnits(scopes, roles) \subseteq OrgUnits
  BY DEF ScopedUnits
<1>2. ASSUME ReportingAccess(role, scopes).visible = "scoped"
      PROVE  ReportingAccess(role, scopes) \in ScopedAccess
  <2>1. PICK roots : roots = ScopedUnits(scopes, {"admin", "issuer"})
    OBVIOUS
  <2>2. ReportingAccess(role, scopes) = [visible |-> "scoped", roots |-> roots] /\ roots # {}
    BY <1>2, <2>1 DEF ReportingAccess
  <2> QED
    BY <1>1, <2>1, <2>2 DEF ScopedAccess
<1>3. ASSUME ExecutiveAccess(role, scopes).visible = "scoped"
      PROVE  ExecutiveAccess(role, scopes) \in ScopedAccess
  <2>1. PICK roots : roots = ScopedUnits(scopes, {"admin", "issuer", "viewer"})
    OBVIOUS
  <2>2. ExecutiveAccess(role, scopes) = [visible |-> "scoped", roots |-> roots] /\ roots # {}
    BY <1>3, <2>1 DEF ExecutiveAccess
  <2> QED
    BY <1>1, <2>1, <2>2 DEF ScopedAccess
<1> QED
  BY <1>2, <1>3

\* Most reports look at the rows that a query selects only.
LEMMA SelectedAlike ==
    ASSUME NEW rows, NEW others, NEW q, Selected(rows, q) = Selected(others, q)
    PROVE  /\ Overview(rows, q) = Overview(others, q)
           /\ Engagement(rows, q) = Engagement(others, q)
           /\ Trend(rows, q) = Trend(others, q)
           /\ \A by : Comparison(rows, q, by) = Comparison(others, q, by)
<1>1. PICK chosen : chosen = Selected(rows, q) /\ chosen = Selected(others, q)
  OBVIOUS
<1>2. {r \in Listed(rows, q) : InState(r, q.state)} = chosen
      /\ {r \in Listed(others, q) : InState(r, q.state)} = chosen
  BY <1>1 DEF Selected
<1>3. Overview(rows, q) = Overview(others, q)
  BY <1>2 DEF Overview
<1>4. Engagement(rows, q) = Engagement(others, q)
  BY <1>1 DEF Engagement
<1>5. Trend(rows, q) = Trend(others, q)
  BY <1>1 DEF Trend
<1>6. \A by : Comparison(rows, q, by) = Comparison(others, q, by)
  BY <1>1 DEF Comparison
<1> QED
  BY <1>3, <1>4, <1>5, <1>6

\* A query for a unit of the scope selects rows of the scope.
LEMMA NamedUnitIsOwn ==
    ASSUME NEW rows, NEW roots, NEW q, q.unit # AnyOf, WithinRoots(q.unit, roots)
    PROVE  Selected(rows, q) = Selected(OwnRows(rows, roots), q)
<1>1. ASSUME NEW r \in Listed(rows, q) PROVE r.unit = q.unit
  BY DEF Listed, FilterAllows
<1>2. Listed(rows, q) = Listed(OwnRows(rows, roots), q)
  BY <1>1 DEF Listed, OwnRows
<1> QED
  BY <1>2 DEF Selected

\* Of the groups of units those of the scope, and what they count, are of rows of the scope.
LEMMA GroupsAreOwn ==
    ASSUME NEW rows, NEW roots, NEW q, NEW own, own = OwnRows(rows, roots),
           NEW g, WithinRoots(g, roots)
    PROVE  /\ g \in DOMAIN Comparison(rows, q, "orgUnit") <=> g \in DOMAIN Comparison(own, q, "orgUnit")
           /\ g \in DOMAIN Comparison(rows, q, "orgUnit") =>
                  Comparison(rows, q, "orgUnit")[g] = Comparison(own, q, "orgUnit")[g]
<1>1. Selected(own, q) = {r \in Selected(rows, q) : WithinRoots(r.unit, roots)}
  BY DEF Selected, Listed, OwnRows
<1>2. PICK all, some : all = Selected(rows, q) /\ some = Selected(own, q)
  OBVIOUS
<1>3. \A s : DOMAIN Comparison(s, q, "orgUnit") = {r.unit : r \in Selected(s, q)}
  BY DEF Comparison, GroupOf
<1>4. g \in {r.unit : r \in all} <=> g \in {r.unit : r \in some}
  BY <1>1, <1>2
<1>5. {r \in all : r.unit = g} = {r \in some : r.unit = g}
  BY <1>1, <1>2
<1>6. \A s : g \in {r.unit : r \in Selected(s, q)} =>
          Comparison(s, q, "orgUnit")[g] = Totals({r \in Selected(s, q) : r.unit = g}, q)
  BY DEF Comparison, GroupOf
<1> QED
  BY <1>2, <1>3, <1>4, <1>5, <1>6

LEMMA ByUnitIsOwn ==
    ASSUME NEW rows, NEW access \in ScopedAccess, NEW q, NEW own,
           own = OwnRows(rows, access.roots)
    PROVE  ComparisonReply(rows, access, q, "orgUnit") = ComparisonReply(own, access, q, "orgUnit")
<1>1. PICK f, g : f = Comparison(rows, q, "orgUnit") /\ g = Comparison(own, q, "orgUnit")
  OBVIOUS
<1>2. \A u : WithinRoots(u, access.roots) =>
          (u \in DOMAIN f <=> u \in DOMAIN g) /\ (u \in DOMAIN f => f[u] = g[u])
  <2>1. PICK roots : roots = access.roots
    OBVIOUS
  <2>2. own = OwnRows(rows, roots)
    BY <2>1
  <2> QED
    BY <1>1, <2>1, <2>2, GroupsAreOwn
<1>3. PICK shown : /\ shown = {u \in DOMAIN f : WithinRoots(u, access.roots)}
                   /\ shown = {u \in DOMAIN g : WithinRoots(u, access.roots)}
  BY <1>2
<1>4. Restrict(f, shown) = Restrict(g, shown)
  BY <1>2, <1>3 DEF Restrict
<1>5. access.visible = "scoped"
  BY DEF ScopedAccess
<1>6. CASE ComparisonAllowed(access, q, "orgUnit")
  <2>1. ComparisonReply(rows, access, q, "orgUnit") = Restrict(f, shown)
    BY <1>1, <1>3, <1>5, <1>6 DEF ComparisonReply
  <2>2. ComparisonReply(own, access, q, "orgUnit") = Restrict(g, shown)
    BY <1>1, <1>3, <1>5, <1>6 DEF ComparisonReply
  <2> QED
    BY <1>4, <2>1, <2>2
<1>7. CASE ~ ComparisonAllowed(access, q, "orgUnit")
  BY <1>7 DEF ComparisonReply
<1> QED
  BY <1>6, <1>7

\* What a route adds up of groups depends on those it adds.
LEMMA SumOfSame ==
    ASSUME NEW f, NEW g, NEW S, \A u \in S : f[u] = g[u]
    PROVE  SumOver(f, S) = SumOver(g, S)
<1>1. Restrict(f, S) = Restrict(g, S)
  BY DEF Restrict
<1> QED
  BY <1>1 DEF SumOver

LEMMA HierarchyIsOwn ==
    ASSUME NEW rows, NEW access \in ScopedAccess, NEW q, NEW own, NEW focus, NEW level,
           own = OwnRows(rows, access.roots)
    PROVE  /\ HierarchyReply(rows, access, q, focus, level) = HierarchyReply(own, access, q, focus, level)
           /\ Hierarchy(rows, q, focus, level, access.roots) = Hierarchy(own, q, focus, level, access.roots)
<1>1. PICK roots : roots = access.roots
  OBVIOUS
<1>2. \A u : Below(u, focus, roots) => WithinRoots(u, roots)
  BY <1>1 DEF ScopedAccess, Below
<1>3. PICK f, g : f = Comparison(rows, q, "orgUnit") /\ g = Comparison(own, q, "orgUnit")
  OBVIOUS
<1>4. \A u : Below(u, focus, roots) =>
          (u \in DOMAIN f <=> u \in DOMAIN g) /\ (u \in DOMAIN f => f[u] = g[u])
  <2>1. own = OwnRows(rows, roots)
    BY <1>1
  <2> QED
    BY <1>2, <1>3, <2>1, GroupsAreOwn
<1>5. PICK chosen : /\ chosen = {u \in DOMAIN f : Below(u, focus, roots)}
                    /\ chosen = {u \in DOMAIN g : Below(u, focus, roots)}
  BY <1>4
<1>6. \A x : SumOver(f, {u \in chosen : x \in AtLevel(u, level)}) = SumOver(g, {u \in chosen : x \in AtLevel(u, level)})
  <2> SUFFICES ASSUME NEW x
               PROVE  SumOver(f, {u \in chosen : x \in AtLevel(u, level)})
                        = SumOver(g, {u \in chosen : x \in AtLevel(u, level)})
    OBVIOUS
  <2>1. PICK S : S = {u \in chosen : x \in AtLevel(u, level)}
    OBVIOUS
  <2>2. \A u \in S : f[u] = g[u]
    BY <1>4, <1>5, <2>1
  <2>3. SumOver(f, S) = SumOver(g, S)
    BY <2>2, SumOfSame
  <2> QED
    BY <2>1, <2>3
<1>7. RouteHierarchy(f, focus, level, roots) = RouteHierarchy(g, focus, level, roots)
  BY <1>5, <1>6 DEF RouteHierarchy
<1>8. HierarchyReply(rows, access, q, focus, level) = HierarchyReply(own, access, q, focus, level)
  BY <1>1, <1>3, <1>7 DEF HierarchyReply
<1>9. {r \in Listed(rows, q) : Below(r.unit, focus, roots)} = {r \in Listed(own, q) : Below(r.unit, focus, roots)}
  BY <1>1, <1>2 DEF Listed, OwnRows
<1>10. Hierarchy(rows, q, focus, level, roots) = Hierarchy(own, q, focus, level, roots)
  BY <1>9 DEF Hierarchy
<1> QED
  BY <1>1, <1>8, <1>10

\* Every page is of a unit of the scope, also when the reader names none.
LEMMA PageUnitsAreOwn ==
    ASSUME NEW rows, NEW access \in ScopedAccess, NEW q, NEW own, IsQuery(q),
           \A r \in rows : r.unit \in OrgUnits, NamedAllowed(access, q.unit),
           own = OwnRows(rows, access.roots)
    PROVE  /\ PageUnits(rows, access, q) = PageUnits(own, access, q)
           /\ \A u \in PageUnits(rows, access, q) : u # AnyOf /\ WithinRoots(u, access.roots)
<1>1. PICK p : p = [q EXCEPT !.unit = AnyOf]
  OBVIOUS
<1>2. p.unit = AnyOf /\ ComparisonAllowed(access, p, "orgUnit")
  BY <1>1 DEF IsQuery, ComparisonAllowed, NamedAllowed, ScopedAccess
<1>3. PICK groups : groups = ComparisonReply(rows, access, p, "orgUnit")
  OBVIOUS
<1>4. groups = ComparisonReply(own, access, p, "orgUnit")
  BY <1>3, ByUnitIsOwn
<1>5. PICK most : most = {g \in DOMAIN groups : \A h \in DOMAIN groups : groups[h].issued <= groups[g].issued}
  OBVIOUS
<1>6. \A s : ComparisonReply(s, access, p, "orgUnit") = groups =>
          PageUnits(s, access, q) = IF q.unit # AnyOf \/ access.visible = "tenant" THEN {q.unit}
                                    ELSE IF most = {} THEN access.roots ELSE most
  BY <1>1, <1>5 DEF PageUnits
<1>7. access.visible = "scoped" /\ access.roots \subseteq OrgUnits
  BY DEF ScopedAccess
<1>8. ASSUME NEW u \in DOMAIN groups PROVE u \in OrgUnits /\ WithinRoots(u, access.roots)
  <2>1. PICK f : f = Comparison(rows, p, "orgUnit")
    OBVIOUS
  <2>2. groups = Restrict(f, {g \in DOMAIN f : WithinRoots(g, access.roots)})
    BY <1>2, <1>3, <1>7, <2>1 DEF ComparisonReply
  <2>3. u \in DOMAIN f /\ WithinRoots(u, access.roots)
    BY <2>2 DEF Restrict
  <2>4. DOMAIN f = {r.unit : r \in Selected(rows, p)}
    BY <2>1 DEF Comparison, GroupOf
  <2> QED
    BY <2>3, <2>4 DEF Selected, Listed
<1>9. ASSUME NEW u \in access.roots PROVE WithinRoots(u, access.roots)
  <2>1. u \in OrgUnits /\ u # NoParent
    BY <1>7, TreeAssumption
  <2>2. u \in LineageOf[u]
    BY <2>1 DEF LineageOf, WithParents
  <2> QED
    BY <2>2 DEF WithinRoots, Within
<1>10. AnyOf \notin OrgUnits
  BY TreeAssumption
<1>11. q.unit # AnyOf => WithinRoots(q.unit, access.roots)
  BY <1>7 DEF NamedAllowed
<1>12. most \subseteq DOMAIN groups
  BY <1>5
<1> QED
  BY <1>3, <1>4, <1>6, <1>7, <1>8, <1>9, <1>10, <1>11, <1>12

LEMMA PagesAreOwn ==
    ASSUME NEW rows, NEW access \in ScopedAccess, NEW q, NEW own, IsQuery(q),
           \A r \in rows : r.unit \in OrgUnits,
           own = OwnRows(rows, access.roots)
    PROVE  ReportingPages(rows, access, q) = ReportingPages(own, access, q)
<1> SUFFICES ASSUME NamedAllowed(access, q.unit)
             PROVE  ReportingPages(rows, access, q) = ReportingPages(own, access, q)
  BY DEF ReportingPages
<1>1. PICK units : units = PageUnits(rows, access, q) /\ units = PageUnits(own, access, q)
  BY PageUnitsAreOwn
<1>2. \A u \in units : u # AnyOf /\ WithinRoots(u, access.roots)
  BY <1>1, PageUnitsAreOwn
<1>3. ASSUME NEW u \in units PROVE ReportingPage(rows, access, q, u) = ReportingPage(own, access, q, u)
  <2>1. PICK p : p = [q EXCEPT !.unit = u]
    OBVIOUS
  <2>2. p.unit = u
    BY <2>1 DEF IsQuery
  <2>3. Selected(rows, p) = Selected(own, p)
    BY <1>2, <2>2, NamedUnitIsOwn
  <2>4. /\ Overview(rows, p) = Overview(own, p) /\ Engagement(rows, p) = Engagement(own, p)
        /\ Trend(rows, p) = Trend(own, p)
        /\ Comparison(rows, p, "badgeTemplate") = Comparison(own, p, "badgeTemplate")
    BY <2>3, SelectedAlike
  <2>5. PICK w : w = [q EXCEPT !.unit = AnyOf]
    OBVIOUS
  <2>6. ComparisonReply(rows, access, w, "orgUnit") = ComparisonReply(own, access, w, "orgUnit")
    BY ByUnitIsOwn
  <2> QED
    BY <2>1, <2>4, <2>5, <2>6 DEF ReportingPage
<1>4. {ReportingPage(rows, access, q, u) : u \in units} = {ReportingPage(own, access, q, u) : u \in units}
  BY <1>3
<1> QED
  BY <1>1, <1>4 DEF ReportingPages

LEMMA AnsweredOfOwnRows ==
    ASSUME NEW rows, \A r \in rows : r.unit \in OrgUnits, NEW access \in ScopedAccess,
           NEW q, IsQuery(q), NEW foci
    PROVE  OwnOnly(rows, access, q, foci)
<1>1. PICK own : own = OwnRows(rows, access.roots)
  OBVIOUS
<1>2. access.visible = "scoped"
  BY DEF ScopedAccess
<1>3. ASSUME q.unit # AnyOf, WithinRoots(q.unit, access.roots)
      PROVE  /\ Overview(rows, q) = Overview(own, q) /\ Engagement(rows, q) = Engagement(own, q)
             /\ Trend(rows, q) = Trend(own, q)
             /\ Comparison(rows, q, "badgeTemplate") = Comparison(own, q, "badgeTemplate")
  <2>1. Selected(rows, q) = Selected(own, q)
    BY <1>1, <1>3, NamedUnitIsOwn
  <2> QED
    BY <2>1, SelectedAlike
<1>4. /\ OverviewReply(rows, access, q) = OverviewReply(own, access, q)
      /\ EngagementReply(rows, access, q) = EngagementReply(own, access, q)
      /\ TrendReply(rows, access, q) = TrendReply(own, access, q)
  <2>1. CASE UnitAllowed(access, q)
    BY <1>2, <1>3, <2>1 DEF UnitAllowed, OverviewReply, EngagementReply, TrendReply
  <2>2. CASE ~ UnitAllowed(access, q)
    BY <2>2 DEF OverviewReply, EngagementReply, TrendReply
  <2> QED
    BY <2>1, <2>2
<1>5. ReportingPages(rows, access, q) = ReportingPages(own, access, q)
  BY <1>1, PagesAreOwn
<1>6. ComparisonReply(rows, access, q, "orgUnit") = ComparisonReply(own, access, q, "orgUnit")
  BY <1>1, ByUnitIsOwn
<1>7. ComparisonReply(rows, access, q, "badgeTemplate") = ComparisonReply(own, access, q, "badgeTemplate")
  <2>1. CASE ComparisonAllowed(access, q, "badgeTemplate")
    <3>1. q.unit # AnyOf /\ WithinRoots(q.unit, access.roots)
      BY <1>2, <2>1 DEF ComparisonAllowed, NamedAllowed
    <3> QED
      BY <1>3, <2>1, <3>1 DEF ComparisonReply
  <2>2. CASE ~ ComparisonAllowed(access, q, "badgeTemplate")
    BY <2>2 DEF ComparisonReply
  <2> QED
    BY <2>1, <2>2
<1>8. \A focus \in foci, level \in LevelNames :
          HierarchyReply(rows, access, q, focus, level) = HierarchyReply(own, access, q, focus, level)
  BY <1>1, HierarchyIsOwn
<1>9. \A focus \in foci : Rollup(rows, access, q, focus) = Rollup(own, access, q, focus)
  <2> SUFFICES ASSUME NEW focus \in foci
               PROVE  Rollup(rows, access, q, focus) = Rollup(own, access, q, focus)
    OBVIOUS
  <2>1. PICK level : level = ComparisonLevel(focus, VisibleUnits(access))
    OBVIOUS
  <2>2. Hierarchy(rows, q, focus, level, access.roots) = Hierarchy(own, q, focus, level, access.roots)
    BY <1>1, HierarchyIsOwn
  <2> QED
    BY <2>1, <2>2 DEF Rollup
<1>10. AnsweredAlike(rows, own, access, q, foci)
  BY <1>4, <1>5, <1>6, <1>7, <1>8, <1>9 DEF AnsweredAlike
<1> QED
  BY <1>1, <1>10 DEF OwnOnly

\* A row is of the unit its badge is attributed to.
LEMMA RowsAreOfUnits ==
    ASSUME ReportInv, NEW row \in CurrentRows
    PROVE  row.unit \in OrgUnits
<1>1. PICK b \in Existing \cap Attributed : row \in RowsOf(b)
  BY DEF CurrentRows
<1>2. PICK e : row = Row(b, e)
  BY <1>1 DEF RowsOf
<1>3. row.unit = attribution[b].unit
  BY <1>2 DEF Row
<1> QED
  BY <1>1, <1>3 DEF Attributed, Existing, ReportInv, ReportTyped

\* Whoever is restricted to units is answered, by every report, page and dashboard, as if
\* the badges of the other units were not there: no total, group, bucket or default page
\* gives away one of them (resolveTenantReportingAccess, requireReportingAccess,
\* loadReportingPageData, summarizeTenantReportingHierarchyRows).
THEOREM ScopedReadersSeeOwn ==
    ASSUME NEW access \in ScopedAccess, NEW q, IsQuery(q), NEW foci
    PROVE  ReportingSpec => []OwnOnly(CurrentRows, access, q, foci)
<1>1. ReportInv => OwnOnly(CurrentRows, access, q, foci)
  <2> SUFFICES ASSUME ReportInv PROVE OwnOnly(CurrentRows, access, q, foci)
    OBVIOUS
  <2>1. ASSUME NEW row \in CurrentRows PROVE row.unit \in OrgUnits
    BY RowsAreOfUnits
  <2>2. PICK rows : rows = CurrentRows
    OBVIOUS
  <2>3. OwnOnly(rows, access, q, foci)
    BY <2>1, <2>2, AnsweredOfOwnRows
  <2> QED
    BY <2>2, <2>3
<1> QED
  BY <1>1, ReportInvariance, PTL

(* The tree of units, and the links of the dashboard. *)

LevelOf(u) == Depth(UnitType[u])

LEMMA LevelsDiffer ==
    /\ \A i \in 1..4 : Levels[i] \in LevelNames /\ Depth(Levels[i]) = i
    /\ \A level \in LevelNames : Depth(level) \in 1..4 /\ Levels[Depth(level)] = level
<1>1. DOMAIN Levels = 1..4 /\ \A i, j \in 1..4 : Levels[i] = Levels[j] => i = j
  BY DEF Levels
<1>2. \A i \in 1..4 : Levels[i] \in LevelNames
  BY <1>1 DEF LevelNames, Range
<1>3. ASSUME NEW i \in 1..4 PROVE Depth(Levels[i]) = i
  <2>1. PICK level : level = Levels[i]
    OBVIOUS
  <2>2. PICK d : d = CHOOSE j \in 1..4 : Levels[j] = level
    OBVIOUS
  <2>3. d \in 1..4 /\ Levels[d] = level
    BY <2>1, <2>2
  <2>4. d = i
    BY <1>1, <2>1, <2>3
  <2> QED
    BY <2>1, <2>2, <2>4 DEF Depth
<1>4. \A level \in LevelNames : \E i \in 1..4 : level = Levels[i]
  BY <1>1 DEF LevelNames, Range
<1> QED
  BY <1>2, <1>3, <1>4

\* An institution is of level 1 and below nothing; any other unit is below one of the level above.
LEMMA ParentIsAbove ==
    ASSUME NEW u \in OrgUnits
    PROVE  /\ LevelOf(u) \in 1..4 /\ u # NoParent /\ u # AnyOf
           /\ UnitParent[u] = NoParent <=> LevelOf(u) = 1
           /\ UnitParent[u] # NoParent =>
                  UnitParent[u] \in OrgUnits /\ LevelOf(UnitParent[u]) = LevelOf(u) - 1
<1>1. \A v \in OrgUnits : UnitType[v] \in LevelNames /\ LevelOf(v) \in 1..4
  BY TreeAssumption, LevelsDiffer DEF LevelOf
<1>2. Levels[1] = "institution"
  BY DEF Levels
<1>3. UnitParent[u] = NoParent => LevelOf(u) = 1
  BY <1>2, TreeAssumption, LevelsDiffer DEF LevelOf
<1>4. UnitParent[u] # NoParent => UnitParent[u] \in OrgUnits /\ LevelOf(UnitParent[u]) = LevelOf(u) - 1
  BY TreeAssumption DEF LevelOf
<1>5. u # NoParent /\ u # AnyOf
  BY TreeAssumption
<1> QED
  BY <1>1, <1>3, <1>4, <1>5

\* The lineage of a unit is the unit and the lineage of its parent.
LEMMA LineageGoesUp ==
    ASSUME NEW u \in OrgUnits
    PROVE  LineageOf[u] = {u} \cup (IF UnitParent[u] = NoParent THEN {} ELSE LineageOf[UnitParent[u]])
<1> DEFINE Up(S) == WithParents(S)
<1>1. \A v \in OrgUnits : LineageOf[v] = Up(Up(Up({v})))
  BY DEF LineageOf
<1>2. ASSUME NEW v \in OrgUnits, UnitParent[v] = NoParent PROVE Up({v}) = {v}
  BY <1>2, ParentIsAbove DEF WithParents
<1>3. \A v \in OrgUnits : LevelOf(v) = 1 => LineageOf[v] = {v}
  BY <1>1, <1>2, ParentIsAbove
<1>4. ASSUME NEW v \in OrgUnits, UnitParent[v] # NoParent PROVE Up({v}) = {v, UnitParent[v]}
  BY <1>4, ParentIsAbove DEF WithParents
<1>5. \A S, T : Up(S \cup T) = Up(S) \cup Up(T)
  BY DEF WithParents
<1> HIDE DEF Up
<1>6. CASE UnitParent[u] = NoParent
  BY <1>3, <1>6, ParentIsAbove
<1>7. CASE UnitParent[u] # NoParent
  <2>1. PICK p \in OrgUnits : p = UnitParent[u]
    BY <1>7, ParentIsAbove
  <2>2. Up({u}) = {u} \cup {p}
    BY <1>4, <1>7, <2>1
  <2>3. Up(Up({u})) = {u} \cup {p} \cup Up({p})
    BY <1>5, <2>2
  <2>4. Up(Up(Up({u}))) = {u} \cup {p} \cup Up({p}) \cup Up(Up({p}))
    <3>1. PICK T : T = Up({p})
      OBVIOUS
    <3>2. Up(({u} \cup {p}) \cup T) = Up({u} \cup {p}) \cup Up(T)
      BY <1>5
    <3>3. Up({u} \cup {p}) = Up({u}) \cup Up({p})
      BY <1>5
    <3> QED
      BY <2>2, <2>3, <3>1, <3>2, <3>3
  <2>5. p \in Up({p})
    BY <1>2, <1>4
  <2>6. Up({p}) \subseteq Up(Up({p}))
    <3>1. CASE UnitParent[p] = NoParent
      BY <1>2, <3>1
    <3>2. CASE UnitParent[p] # NoParent
      <4>1. Up({p}) = {p} \cup {UnitParent[p]}
        BY <1>4, <3>2
      <4>2. Up(Up({p})) = Up({p}) \cup Up({UnitParent[p]})
        BY <1>5, <4>1
      <4> QED
        BY <4>2
    <3> QED
      BY <3>1, <3>2
  <2>7. LineageOf[u] = {u} \cup Up(Up({p}))
    BY <1>1, <2>4, <2>5, <2>6
  <2>8. Up(Up({p})) = Up(Up(Up({p})))
    <3>1. CASE UnitParent[p] = NoParent
      BY <1>2, <3>1
    <3>2. CASE UnitParent[p] # NoParent
      <4>1. PICK o \in OrgUnits : o = UnitParent[p]
        BY <3>2, ParentIsAbove
      <4>2. Up({p}) = {p} \cup {o}
        BY <1>4, <3>2, <4>1
      <4>3. Up(Up({p})) = {p} \cup {o} \cup Up({o})
        BY <1>5, <4>2
      <4>4. Up(Up(Up({p}))) = {p} \cup {o} \cup Up({o}) \cup Up(Up({o}))
        <5>1. PICK T : T = Up({o})
          OBVIOUS
        <5>2. Up(({p} \cup {o}) \cup T) = Up({p} \cup {o}) \cup Up(T)
          BY <1>5
        <5>3. Up({p} \cup {o}) = Up({p}) \cup Up({o})
          BY <1>5
        <5> QED
          BY <4>2, <4>3, <5>1, <5>2, <5>3
      <4>5. Up(Up({o})) = Up({o})
        <5>1. CASE UnitParent[o] = NoParent
          BY <1>2, <5>1
        <5>2. CASE UnitParent[o] # NoParent
          <6>1. PICK n \in OrgUnits : n = UnitParent[o]
            BY <5>2, ParentIsAbove
          <6>2. LevelOf(n) = 1
            BY <1>7, <2>1, <3>2, <4>1, <5>2, <6>1, ParentIsAbove
          <6>3. Up({n}) = {n} /\ Up({o}) = {o} \cup {n}
            BY <1>2, <1>4, <5>2, <6>1, <6>2, ParentIsAbove
          <6>4. Up(Up({o})) = Up({o}) \cup Up({n})
            BY <1>5, <6>3
          <6> QED
            BY <6>3, <6>4
        <5> QED
          BY <5>1, <5>2
      <4> QED
        BY <4>3, <4>4, <4>5
    <3> QED
      BY <3>1, <3>2
  <2> QED
    BY <1>1, <1>7, <2>1, <2>7, <2>8
<1> QED
  BY <1>6, <1>7

\* A unit's lineage is of units, one of every level down to its own, holds the lineage of each
\* of them, and every unit of it but the unit itself is the parent of another one.
LineageOk(u) ==
    /\ u \in LineageOf[u] /\ LineageOf[u] \subseteq OrgUnits
    /\ IsFiniteSet(LineageOf[u]) /\ Cardinality(LineageOf[u]) = LevelOf(u)
    /\ \A w \in LineageOf[u] :
          /\ LineageOf[w] \subseteq LineageOf[u]
          /\ w # u => LevelOf(w) < LevelOf(u) /\ \E c \in LineageOf[u] : UnitParent[c] = w

LEMMA LineagesAreOk == \A u \in OrgUnits : LineageOk(u)
<1>1. ASSUME NEW u \in OrgUnits, UnitParent[u] = NoParent PROVE LineageOk(u)
  <2>1. LineageOf[u] = {u}
    BY <1>1, LineageGoesUp
  <2>2. IsFiniteSet({u}) /\ Cardinality({u}) = 1
    BY FS_Singleton
  <2>3. LevelOf(u) = 1
    BY <1>1, ParentIsAbove
  <2> QED
    BY <2>1, <2>2, <2>3 DEF LineageOk
<1>2. ASSUME NEW u \in OrgUnits, UnitParent[u] # NoParent, LineageOk(UnitParent[u])
      PROVE  LineageOk(u)
  <2>1. PICK p \in OrgUnits : p = UnitParent[u]
    BY <1>2, ParentIsAbove
  <2>2. LineageOf[u] = {u} \cup LineageOf[p]
    BY <1>2, <2>1, LineageGoesUp
  <2>3. LevelOf(p) \in 1..4 /\ LevelOf(u) \in 1..4 /\ LevelOf(p) = LevelOf(u) - 1
    BY <1>2, <2>1, ParentIsAbove
  <2>4. LineageOk(p)
    BY <1>2, <2>1
  <2>5. ASSUME NEW w \in LineageOf[p], w # p PROVE LevelOf(w) < LevelOf(u)
    <3>1. w \in OrgUnits /\ LevelOf(w) < LevelOf(p)
      BY <2>4, <2>5 DEF LineageOk
    <3>2. LevelOf(w) \in 1..4
      BY <3>1, ParentIsAbove
    <3> QED
      BY <2>3, <3>1, <3>2
  <2>6. ASSUME NEW w \in LineageOf[u], w # u
        PROVE  LevelOf(w) < LevelOf(u) /\ \E c \in LineageOf[u] : UnitParent[c] = w
    <3>1. w \in LineageOf[p]
      BY <2>2, <2>6
    <3>2. CASE w = p
      BY <2>1, <2>2, <2>3, <3>2
    <3>3. CASE w # p
      BY <2>2, <2>4, <2>5, <3>1, <3>3 DEF LineageOk
    <3> QED
      BY <3>2, <3>3
  <2>7. \A w \in LineageOf[u] : LineageOf[w] \subseteq LineageOf[u]
    BY <2>2, <2>4 DEF LineageOk
  <2>8. u \in LineageOf[u] /\ LineageOf[u] \subseteq OrgUnits
    BY <2>2, <2>4 DEF LineageOk
  <2>9. u \notin LineageOf[p]
    <3> SUFFICES ASSUME u \in LineageOf[p] PROVE FALSE
      OBVIOUS
    <3> QED
      BY <2>3, <2>4 DEF LineageOk
  <2>10. IsFiniteSet(LineageOf[u]) /\ Cardinality(LineageOf[u]) = LevelOf(u)
    <3>1. PICK T : T = LineageOf[p]
      OBVIOUS
    <3>2. IsFiniteSet(T) /\ Cardinality(T) = LevelOf(p) /\ u \notin T
      BY <2>4, <2>9, <3>1 DEF LineageOk
    <3>3. IsFiniteSet(T \cup {u}) /\ Cardinality(T \cup {u}) = Cardinality(T) + 1
      BY <3>2, FS_AddElement
    <3>4. LineageOf[u] = T \cup {u}
      BY <2>2, <3>1
    <3> QED
      BY <2>3, <3>2, <3>3, <3>4
  <2> QED
    BY <2>6, <2>7, <2>8, <2>10 DEF LineageOk
<1>3. ASSUME NEW u \in OrgUnits
      PROVE  (LevelOf(u) = 1 => LineageOk(u)) /\ LevelOf(u) \in 1..4
             /\ (LevelOf(u) # 1 => UnitParent[u] \in OrgUnits
                     /\ LevelOf(UnitParent[u]) = LevelOf(u) - 1
                     /\ (LineageOk(UnitParent[u]) => LineageOk(u)))
  BY <1>1, <1>2, ParentIsAbove
<1>4. \A u \in OrgUnits : LevelOf(u) = 2 => LineageOk(u)
  BY <1>3
<1>5. \A u \in OrgUnits : LevelOf(u) = 3 => LineageOk(u)
  BY <1>3, <1>4
<1>6. \A u \in OrgUnits : LevelOf(u) = 4 => LineageOk(u)
  BY <1>3, <1>5
<1> QED
  BY <1>3, <1>4, <1>5, <1>6

LEMMA SmallestOfLevels ==
    ASSUME NEW S \in SUBSET (1..4), S # {}
    PROVE  Min(S) \in S /\ \A d \in S : Min(S) <= d
<1>1. \E x \in S : \A y \in S : x <= y
  <2>1. CASE 1 \in S
    BY <2>1
  <2>2. CASE 1 \notin S /\ 2 \in S
    BY <2>2
  <2>3. CASE 1 \notin S /\ 2 \notin S /\ 3 \in S
    BY <2>3
  <2>4. CASE 1 \notin S /\ 2 \notin S /\ 3 \notin S
    <3>1. \A s \in S : s = 4
      BY <2>4
    <3>2. PICK s \in S : TRUE
      OBVIOUS
    <3> QED
      BY <3>1, <3>2
  <2> QED
    BY <2>1, <2>2, <2>3, <2>4
<1> QED
  BY <1>1 DEF Min

\* No dashboard compares the units of a level above its focus.
LEMMA NeverTooDeep ==
    ASSUME NEW v \in OrgUnits, NEW visible \in SUBSET OrgUnits
    PROVE  ~TooDeep(v, ComparisonLevel(v, visible))
<1>1. PICK below : below = {Depth(UnitType[u]) : u \in {w \in visible \ {v} : Within(w, v)}}
  OBVIOUS
<1>2. PICK deeper : deeper = {d \in below : d > Depth(UnitType[v])}
  OBVIOUS
<1>3. below \subseteq 1..4 /\ Depth(UnitType[v]) \in 1..4
  BY <1>1, ParentIsAbove DEF LevelOf
<1>4. ComparisonLevel(v, visible) = IF deeper = {} THEN UnitType[v] ELSE Levels[Min(deeper)]
  BY <1>1, <1>2 DEF ComparisonLevel
<1>5. CASE deeper = {}
  BY <1>3, <1>4, <1>5 DEF TooDeep
<1>6. CASE deeper # {}
  <2>1. Min(deeper) \in deeper
    BY <1>2, <1>3, <1>6, SmallestOfLevels
  <2>2. PICK d \in 1..4 : d = Min(deeper) /\ d > Depth(UnitType[v])
    BY <1>2, <1>3, <2>1
  <2>3. ComparisonLevel(v, visible) = Levels[d] /\ Depth(Levels[d]) = d
    BY <1>4, <1>6, <2>2, LevelsDiffer
  <2> QED
    BY <1>3, <2>2, <2>3 DEF TooDeep
<1> QED
  BY <1>5, <1>6

\* Towards a unit below its focus, a dashboard compares the units of the next level.
LEMMA ComparesNextLevel ==
    ASSUME NEW visible \in SUBSET OrgUnits, NEW v \in OrgUnits, NEW u \in OrgUnits,
           v \in LineageOf[u], v # u, \A c \in LineageOf[u] : v \in LineageOf[c] => c \in visible
    PROVE  \E c \in LineageOf[u] :
              /\ v \in LineageOf[c] /\ c \in visible /\ LevelOf(c) = LevelOf(v) + 1
              /\ ComparisonLevel(v, visible) = UnitType[c] /\ UnitType[c] # UnitType[v]
<1>1. PICK c \in LineageOf[u] : UnitParent[c] = v
  BY LineagesAreOk DEF LineageOk
<1>2. c \in OrgUnits /\ v # NoParent
  BY LineagesAreOk, ParentIsAbove DEF LineageOk
<1>3. v \in LineageOf[c] /\ LevelOf(c) = LevelOf(v) + 1 /\ c # v
  <2>1. LineageOf[c] = {c} \cup LineageOf[v]
    BY <1>1, <1>2, LineageGoesUp
  <2>2. LevelOf(v) = LevelOf(c) - 1 /\ LevelOf(v) \in 1..4 /\ LevelOf(c) \in 1..4
    BY <1>1, <1>2, ParentIsAbove
  <2> QED
    BY <2>1, <2>2, LineagesAreOk DEF LineageOk
<1>4. c \in visible
  BY <1>3
<1>5. PICK below : below = {Depth(UnitType[w]) : w \in {x \in visible \ {v} : Within(x, v)}}
  OBVIOUS
<1>6. PICK deeper : deeper = {d \in below : d > Depth(UnitType[v])}
  OBVIOUS
<1>7. below \subseteq 1..4 /\ LevelOf(v) \in 1..4 /\ LevelOf(c) \in 1..4
  BY <1>2, <1>5, ParentIsAbove DEF LevelOf
<1>8. LevelOf(c) \in deeper
  BY <1>3, <1>4, <1>5, <1>6, <1>7 DEF LevelOf, Within
<1>9. Min(deeper) = LevelOf(c)
  <2>1. Min(deeper) \in deeper /\ \A d \in deeper : Min(deeper) <= d
    BY <1>6, <1>7, <1>8, SmallestOfLevels
  <2>2. Min(deeper) > LevelOf(v) /\ Min(deeper) \in 1..4 /\ Min(deeper) <= LevelOf(c)
    BY <1>6, <1>7, <1>8, <2>1 DEF LevelOf
  <2> QED
    BY <1>3, <1>7, <2>2
<1>10. ComparisonLevel(v, visible) = Levels[LevelOf(c)]
  BY <1>5, <1>6, <1>8, <1>9 DEF ComparisonLevel
<1>11. Levels[LevelOf(c)] = UnitType[c]
  BY <1>2, LevelsDiffer, TreeAssumption DEF LevelOf
<1>12. UnitType[c] # UnitType[v]
  BY <1>3, <1>7 DEF LevelOf
<1> QED
  BY <1>3, <1>4, <1>10, <1>11, <1>12

\* Who opens the dashboard: the whole tenant, or those restricted to some units.
TenantAccess == [visible |-> "tenant", roots |-> {}]

LEMMA FirstIsVisible ==
    ASSUME NEW access \in {TenantAccess} \cup ScopedAccess, NEW first \in DefaultFocuses(access)
    PROVE  /\ first \in OrgUnits
           /\ VisibleUnits(access) \subseteq OrgUnits
           /\ \A u \in OrgUnits : first \in LineageOf[u] => u \in VisibleUnits(access)
           /\ \A u \in OrgUnits : first \in LineageOf[u] => access.roots = {} \/ WithinRoots(u, access.roots)
<1>1. CASE access = TenantAccess
  BY <1>1 DEF TenantAccess, VisibleUnits, DefaultFocuses, Highest
<1>2. CASE access \in ScopedAccess
  <2>1. access.visible = "scoped" /\ access.roots \subseteq OrgUnits
    BY <1>2 DEF ScopedAccess
  <2>2. first \in access.roots
    BY <2>1 DEF DefaultFocuses, Highest
  <2>3. \A u \in OrgUnits : first \in LineageOf[u] => WithinRoots(u, access.roots)
    BY <2>2 DEF WithinRoots, Within
  <2> QED
    BY <2>1, <2>2, <2>3 DEF VisibleUnits
<1> QED
  BY <1>1, <1>2

\* There is a first dashboard: the code throws when there is none to show.
LEMMA ThereIsAFirst ==
    ASSUME NEW access \in {TenantAccess} \cup ScopedAccess, OrgUnits # {}
    PROVE  DefaultFocuses(access) # {}
<1>1. ASSUME NEW S \in SUBSET OrgUnits, S # {} PROVE Highest(S) # {}
  <2>1. PICK depths : depths = {LevelOf(u) : u \in S}
    OBVIOUS
  <2>2. depths \in SUBSET (1..4) /\ depths # {}
    BY <1>1, <2>1, ParentIsAbove
  <2>3. Min(depths) \in depths /\ \A d \in depths : Min(depths) <= d
    BY <2>2, SmallestOfLevels
  <2>4. PICK u \in S : LevelOf(u) = Min(depths)
    BY <2>1, <2>3
  <2>5. \A v \in S : LevelOf(u) <= LevelOf(v)
    BY <2>1, <2>3, <2>4
  <2>6. u \in Highest(S)
    BY <1>1, <2>5, LineagesAreOk DEF Highest, LineageOk
  <2> QED
    BY <2>6
<1>2. CASE access = TenantAccess
  <2>1. PICK u : u \in Highest(OrgUnits)
    BY <1>1
  <2>2. u \in OrgUnits /\ \A v \in OrgUnits : LevelOf(u) <= LevelOf(v)
    BY <2>1, LineagesAreOk DEF Highest, LineageOk
  <2>3. UnitParent[u] = NoParent
    <3> SUFFICES ASSUME UnitParent[u] # NoParent PROVE FALSE
      OBVIOUS
    <3>1. UnitParent[u] \in OrgUnits /\ LevelOf(u) \in 1..4 /\ LevelOf(UnitParent[u]) = LevelOf(u) - 1
      BY <2>2, ParentIsAbove
    <3> QED
      BY <2>2, <3>1
  <2>4. u \in {v \in OrgUnits : UnitType[v] = "institution"}
    BY <2>2, <2>3, TreeAssumption
  <2> QED
    BY <1>2, <2>4 DEF TenantAccess, DefaultFocuses
<1>3. CASE access \in ScopedAccess
  <2>1. access.visible = "scoped" /\ access.roots \in SUBSET OrgUnits /\ access.roots # {}
    BY <1>3 DEF ScopedAccess
  <2> QED
    BY <1>1, <2>1 DEF DefaultFocuses
<1> QED
  BY <1>2, <1>3

\* The units that a dashboard of a focus has a row for
LEMMA RollupHasRow ==
    ASSUME NEW rows, NEW access, NEW q, NEW focus, NEW r \in Listed(rows, q), focus # AnyOf,
           Within(r.unit, focus), access.roots = {} \/ WithinRoots(r.unit, access.roots),
           NEW c, c \in LineageOf[r.unit], UnitType[c] = ComparisonLevel(focus, VisibleUnits(access))
    PROVE  c \in DOMAIN Rollup(rows, access, q, focus)
<1>1. PICK level : level = ComparisonLevel(focus, VisibleUnits(access))
  OBVIOUS
<1>2. PICK chosen : chosen = {s \in Listed(rows, q) : Below(s.unit, focus, access.roots)}
  OBVIOUS
<1>3. PICK groups : groups = UNION {AtLevel(s.unit, level) : s \in chosen}
  OBVIOUS
<1>4. r \in chosen
  BY <1>2 DEF Below
<1>5. c \in groups
  BY <1>1, <1>3, <1>4 DEF AtLevel
<1>6. Rollup(rows, access, q, focus) =
          [g \in groups |-> Totals({s \in chosen : g \in AtLevel(s.unit, level)}, q)]
  BY <1>1, <1>2, <1>3 DEF Rollup, Hierarchy
<1> QED
  BY <1>5, <1>6

\* One link on: a dashboard above a unit with badges has a row for the unit, or a link to
\* the dashboard of the next unit above it.
LEMMA OneLinkOn ==
    ASSUME NEW rows, NEW q, NEW access \in {TenantAccess} \cup ScopedAccess,
           NEW first \in DefaultFocuses(access),
           NEW u \in OrgUnits, first \in LineageOf[u],
           NEW r \in Listed(rows, q), r.unit \in OrgUnits, Within(r.unit, u),
           NEW v, v \in LineageOf[u], first \in LineageOf[v], v # u
    PROVE  \/ u \in DOMAIN Rollup(rows, access, q, v)
           \/ \E c \in Drilldowns(rows, access, q, v) :
                 /\ c \in LineageOf[u] /\ first \in LineageOf[c] /\ c # u
                 /\ LevelOf(c) = LevelOf(v) + 1
<1> DEFINE visible == VisibleUnits(access)
<1>1. /\ first \in OrgUnits /\ visible \in SUBSET OrgUnits
      /\ \A w \in OrgUnits : first \in LineageOf[w] => w \in visible
      /\ access.roots = {} \/ WithinRoots(r.unit, access.roots)
  <2>1. first \in LineageOf[r.unit]
    BY LineagesAreOk DEF Within, LineageOk
  <2> QED
    BY <2>1, FirstIsVisible
<1> HIDE DEF visible
<1>2. LineageOf[u] \subseteq OrgUnits /\ v \in OrgUnits
      /\ \A w \in LineageOf[u] : LineageOf[w] \subseteq LineageOf[u]
  BY LineagesAreOk DEF LineageOk
<1>3. \A c \in LineageOf[u] : v \in LineageOf[c] => first \in LineageOf[c]
  <2> SUFFICES ASSUME NEW c \in LineageOf[u], v \in LineageOf[c] PROVE first \in LineageOf[c]
    OBVIOUS
  <2>1. LineageOk(c)
    BY <1>2, LineagesAreOk
  <2> QED
    BY <2>1 DEF LineageOk
<1>4. \A c \in LineageOf[u] : v \in LineageOf[c] => c \in visible
  BY <1>1, <1>2, <1>3
<1>5. PICK c \in LineageOf[u] :
          /\ v \in LineageOf[c] /\ c \in visible /\ LevelOf(c) = LevelOf(v) + 1
          /\ ComparisonLevel(v, visible) = UnitType[c] /\ UnitType[c] # UnitType[v]
  BY <1>1, <1>2, <1>4, ComparesNextLevel
<1>6. LineageOf[u] \subseteq LineageOf[r.unit] /\ v # AnyOf
  BY <1>2, LineagesAreOk, ParentIsAbove DEF Within, LineageOk
<1>7. c \in DOMAIN Rollup(rows, access, q, v)
  BY <1>1, <1>5, <1>6, RollupHasRow DEF Within, visible
<1>8. CASE c = u
  BY <1>7, <1>8
<1>9. CASE c # u
  <2>1. \A d \in LineageOf[u] : c \in LineageOf[d] => d \in visible
    <3> SUFFICES ASSUME NEW d \in LineageOf[u], c \in LineageOf[d] PROVE d \in visible
      OBVIOUS
    <3>1. LineageOk(d)
      BY <1>2, LineagesAreOk
    <3>2. v \in LineageOf[d]
      BY <1>5, <3>1 DEF LineageOk
    <3> QED
      BY <1>4, <3>2
  <2>2. ComparisonLevel(c, visible) # UnitType[c]
    BY <1>1, <1>2, <1>9, <2>1, ComparesNextLevel
  <2>3. c \in Drilldowns(rows, access, q, v)
    BY <1>5, <1>7, <2>2 DEF Drilldowns, visible
  <2> QED
    BY <1>3, <1>5, <1>9, <2>3
<1> QED
  BY <1>8, <1>9

\* From a first dashboard, three links are enough.
LEMMA LinksReach ==
    ASSUME NEW rows, NEW q, \A r \in rows : r.unit \in OrgUnits,
           NEW access \in {TenantAccess} \cup ScopedAccess, OrgUnits # {}
    PROVE  EveryUnitReached(rows, access, q)
<1>1. ASSUME NEW first \in DefaultFocuses(access) PROVE first \in VisibleUnits(access)
  BY FirstIsVisible, LineagesAreOk DEF LineageOk
<1>2. ASSUME NEW first \in DefaultFocuses(access), NEW u \in OrgUnits, Within(u, first),
             NEW r \in Listed(rows, q), Within(r.unit, u)
      PROVE  \E v \in Reached(rows, access, q, first) :
                 /\ ~TooDeep(v, ComparisonLevel(v, VisibleUnits(access)))
                 /\ u = first \/ u \in DOMAIN Rollup(rows, access, q, v)
  <2> DEFINE Linked(S) == Follow(rows, access, q, S)
             Ahead(c) == c \in LineageOf[u] /\ first \in LineageOf[c] /\ c # u
             Shown(v) == u \in DOMAIN Rollup(rows, access, q, v)
  <2>1. first \in OrgUnits /\ VisibleUnits(access) \in SUBSET OrgUnits /\ first \in LineageOf[u]
        /\ r.unit \in OrgUnits
    BY <1>2, FirstIsVisible DEF Within, Listed
  <2>2. \A S : S \subseteq Linked(S) /\ \A v \in S : Drilldowns(rows, access, q, v) \subseteq Linked(S)
    BY DEF Follow
  <2>3. \A v : Ahead(v) => Shown(v) \/ \E c \in Drilldowns(rows, access, q, v) :
                                          Ahead(c) /\ LevelOf(c) = LevelOf(v) + 1
    BY <1>2, <2>1, OneLinkOn
  <2>4. \A v : Ahead(v) => v \in OrgUnits /\ LevelOf(v) \in 1..4 /\ LevelOf(u) \in 1..4 /\ LevelOf(v) < LevelOf(u)
    BY LineagesAreOk, ParentIsAbove DEF LineageOk
  <2>5. Reached(rows, access, q, first) = Linked(Linked(Linked({first})))
    BY DEF Reached
  <2>6. CASE u = first
    BY <2>1, <2>2, <2>5, <2>6, NeverTooDeep
  <2>7. CASE u # first
    <3>0. Ahead(first) /\ LevelOf(first) \in 1..4
      BY <2>1, <2>4, <2>7, LineagesAreOk DEF LineageOk
    <3> HIDE DEF Linked, Ahead, Shown
    <3>1. Shown(first) \/ \E c \in Linked({first}) : Ahead(c) /\ LevelOf(c) > 1
      BY <2>2, <2>3, <3>0
    <3>2. ASSUME NEW c \in Linked({first}), Ahead(c), LevelOf(c) > 1
          PROVE  Shown(c) \/ \E d \in Linked(Linked({first})) : Ahead(d) /\ LevelOf(d) > 2
      BY <2>2, <2>3, <2>4, <3>2
    <3>3. ASSUME NEW d \in Linked(Linked({first})), Ahead(d), LevelOf(d) > 2
          PROVE  Shown(d)
      <4>1. ASSUME NEW e, Ahead(e), LevelOf(e) = LevelOf(d) + 1 PROVE FALSE
        BY <2>4, <3>3, <4>1
      <4> QED
        BY <2>3, <3>3, <4>1
    <3>4. \E v \in Linked(Linked(Linked({first}))) : Shown(v) /\ Ahead(v)
      BY <2>2, <3>0, <3>1, <3>2, <3>3
    <3>5. PICK v \in Reached(rows, access, q, first) : Shown(v) /\ Ahead(v)
      BY <2>5, <3>4
    <3>6. ~TooDeep(v, ComparisonLevel(v, VisibleUnits(access)))
      BY <2>1, <2>4, <3>5, NeverTooDeep
    <3> QED
      BY <3>5, <3>6 DEF Shown
  <2> QED
    BY <2>6, <2>7
<1> QED
  BY <1>1, <1>2, ThereIsAFirst DEF EveryUnitReached

\* Whoever may open the dashboard, in a tenant with units, gets one, and comes from it by its
\* links, each to the next level of units, to a row for every unit below it that has badges:
\* the level that a dashboard compares is chosen by the units that its reader may see, so no
\* link leads past a unit, or to a dashboard that the code refuses to make
\* (inferExecutiveDashboardDefaults, resolveExecutiveComparisonLevel,
\* buildExecutiveDashboardNavigation).
THEOREM LinksReachAllUnits ==
    ASSUME NEW access \in {TenantAccess} \cup ScopedAccess, NEW q, OrgUnits # {}
    PROVE  ReportingSpec => []EveryUnitReached(CurrentRows, access, q)
<1>1. ReportInv => EveryUnitReached(CurrentRows, access, q)
  <2> SUFFICES ASSUME ReportInv PROVE EveryUnitReached(CurrentRows, access, q)
    OBVIOUS
  <2>1. ASSUME NEW row \in CurrentRows PROVE row.unit \in OrgUnits
    BY RowsAreOfUnits
  <2>2. PICK rows : rows = CurrentRows
    OBVIOUS
  <2>3. EveryUnitReached(rows, access, q)
    BY <2>1, <2>2, LinksReach
  <2> QED
    BY <2>2, <2>3
<1> QED
  BY <1>1, ReportInvariance, PTL
=============================================================================
