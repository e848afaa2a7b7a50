------------------------- MODULE IdempotentIssuance -------------------------
(***************************************************************************)
(* What issuance promises its callers: an idempotency key stands for one   *)
(* assertion. Whoever asks for the key, and however often, is answered     *)
(* with that assertion and no other, and never before its signed           *)
(* credential is in the object store.                                      *)
(***************************************************************************)
CONSTANTS Keys, Ids,
    NoId    \* stands for no assertion, and is none of Ids

VARIABLES
    issued,     \* Keys -> Ids or NoId
    stored,     \* assertions whose credential can be fetched
    answered    \* Keys -> the assertions its callers were told of

vars == <<issued, stored, answered>>

Init ==
    /\ issued = [k \in Keys |-> NoId]
    /\ stored = {}
    /\ answered = [k \in Keys |-> {}]

Store(a) ==
    /\ a \notin stored
    /\ stored' = stored \cup {a}
    /\ UNCHANGED <<issued, answered>>

Issue(k, a) ==
    /\ issued[k] = NoId
    /\ a \in stored
    /\ \A j \in Keys : issued[j] # a
    /\ issued' = [issued EXCEPT ![k] = a]
    /\ UNCHANGED <<stored, answered>>

Answer(k) ==
    /\ issued[k] # NoId
    /\ answered' = [answered EXCEPT ![k] = @ \cup {issued[k]}]
    /\ UNCHANGED <<issued, stored>>

Next ==
    \/ \E a \in Ids : Store(a)
    \/ \E k \in Keys, a \in Ids : Issue(k, a)
    \/ \E k \in Keys : Answer(k)

Spec == Init /\ [][Next]_vars
=============================================================================
