------------------------------ MODULE TokensMap ------------------------------
(***************************************************************************)
(* What the map from stem ids to tokens promises to its callers: a map     *)
(* whose sets only grow, one token at a time, each addition taking effect  *)
(* at one instant.  StemIdTokensRCUMap implements it without a lock.       *)
(***************************************************************************)
CONSTANTS StemIds, Tokens

VARIABLE tokensOf          \* tokensOf[id]: the tokens recorded for stem id

Init == tokensOf = [id \in StemIds |-> {}]

AddToken(id, token) ==
    tokensOf' = [tokensOf EXCEPT ![id] = @ \cup {token}]

Next == \E id \in StemIds, token \in Tokens : AddToken(id, token)

Spec == Init /\ [][Next]_tokensOf
=============================================================================
