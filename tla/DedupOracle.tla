------------------------------ MODULE DedupOracle ------------------------------
(***************************************************************************)
(* What the dedup server promises to its clients: an article is answered   *)
(* once, in one step, DUP when an article the server knows is similar to   *)
(* it and OK when none is, and from then on the server knows it.  A        *)
(* restart leaves the server with what the article store holds.            *)
(***************************************************************************)
CONSTANTS Ids, Signatures, None, Similar(_, _)

VARIABLES
    stored,        \* <<id, signature>> pairs of the article store
    known,         \* <<id, signature>> pairs the server knows
    answer         \* answer[id]: None, "DUP" or "OK"

Init ==
    /\ stored = {}
    /\ known = {}
    /\ answer = [id \in Ids |-> None]

Save(id, signature) ==
    /\ stored' = stored \cup {<<id, signature>>}
    /\ UNCHANGED <<known, answer>>

Drop ==
    /\ stored' = {}
    /\ UNCHANGED <<known, answer>>

Answer(id, signature) ==
    /\ answer[id] = None
    /\ answer' = [answer EXCEPT ![id] =
           IF \E k \in known : k[1] # id /\ Similar(k[2], signature)
           THEN "DUP" ELSE "OK"]
    /\ known' = known \cup {<<id, signature>>}
    /\ UNCHANGED stored

Restart ==
    /\ known' = stored
    /\ UNCHANGED <<stored, answer>>

Next ==
    \/ \E id \in Ids, signature \in Signatures :
           Save(id, signature) \/ Answer(id, signature)
    \/ Drop
    \/ Restart

Spec == Init /\ [][Next]_<<stored, known, answer>>
=============================================================================
