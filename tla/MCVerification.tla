--------------------------- MODULE MCVerification ---------------------------
(* Small instances of AssertionLifecycle, Verification and Presentations    *)
(* for TLC.  Each behaviour explores one of them.                           *)
EXTENDS Verification, Presentations, TLC

CONSTANT MaxLife   \* bound on the lifecycle's requests while the tenant changes around it

VARIABLE focus   \* what is explored: overlapping requests for one assertion, verifiers of
                 \* an assertion, alone or in a tenant that changes around it, or documents

\* In a behaviour in which the rest of the tenant changes the assertion sees few
\* requests, and in one in which it does not, the other assertions are all revoked.
MCInit ==
    /\ focus \in {"overlap", "turbulent", "calm", "documents"}
    /\ VerifyInit
    /\ revokedOthers = IF focus = "turbulent" THEN {} ELSE Others
    /\ PresentInit
    /\ focus # "documents" => signer = "local" /\ readable = {}
    /\ signer = "remote" => readable = {ApiOrigin}

\* One caller and one job, and no transition is backdated.
OneByOne ==
    LET used == {c \in Actors : pc'[c] # "idle" \/ answers'[c] # "none" \/ audited'[c] # {}}
    IN  /\ Cardinality(used \cap Callers) <= 1 /\ Cardinality(used \cap Jobs) <= 1
        /\ \A c \in Callers : pc'[c] # "idle" => mem'[c].at > 0

\* Of overlapping requests, the deliveries of a job may be lost; callers are lost above.
OnlyJobsLost == faults' # faults => \E j \in Jobs : pc'[j] # pc[j]

\* Two documents go about together only unaltered, and on one day.
FewTogether == Len(copies') = 2 => liberties' = 0 /\ day' = 0

MCNext ==
    /\ UNCHANGED focus
    /\ \/ /\ focus = "overlap"
          /\ Next /\ OnlyJobsLost /\ UNCHANGED <<verifyVars, seen, presentVars>>
       \/ /\ focus = "turbulent"
          /\ VerifyNext /\ OneByOne /\ now' <= MaxLife /\ UNCHANGED presentVars
       \/ focus = "calm" /\ LifeNext /\ OneByOne /\ UNCHANGED presentVars
       \/ focus = "documents" /\ PresentNext /\ FewTogether /\ UNCHANGED allVars
       \* a request that only reads
       \/ UNCHANGED <<allVars, presentVars>>

Symmetry == Permutations(Callers) \cup Permutations(Jobs)

everything == <<focus, allVars, presentVars>>
MCSpec == MCInit /\ [][MCNext]_everything

\* What callers and verifiers are told is so. Of callers that come one at a time beside a
\* job, each moves the state along the rules and finds what it was told of; overlapping ones
\* judge by what they read before, and RevokedIsFinal says what still stays.
ToldAsItIs ==
    [][AnswersTell /\ (focus # "overlap" => FollowsRules /\ TakesEffect)]_everything
=============================================================================
