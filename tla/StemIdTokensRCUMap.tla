------------------------- MODULE StemIdTokensRCUMap -------------------------
(***************************************************************************)
(* engine/include/common/stemid_tokens_rcumap.h: an array of               *)
(* shared_ptr<TokensSet> indexed by stem id.  A writer copies the set it   *)
(* read, inserts its token in the copy and publishes the copy with         *)
(* atomic_compare_exchange_strong, starting over when another writer came  *)
(* first.                                                                  *)
(*                                                                         *)
(* A shared_ptr is two words, the stored pointer and the control block     *)
(* that counts the owners.  add_token and get_tokens copy the slot with a  *)
(* plain, non-atomic copy: it reads one word, then the other, then counts  *)
(* itself in.  The atomic operation excludes other atomic operations on    *)
(* the slot, not those copies: it empties the slot word by word and fills  *)
(* it word by word.  A step that touches a set nobody owns any more sets   *)
(* `undefined`, and nothing is said of the program after it.               *)
(*                                                                         *)
(* An element of Sets is one allocation (make_shared: the set and its      *)
(* control block), not an address: its owners are the slots and the        *)
(* threads that count for it, it is freed when Live is false, and touching *)
(* it after that is undefined whether or not its address was handed out    *)
(* again.  So it stands for a new allocation only when no thread still     *)
(* has it in hand.                                                         *)
(***************************************************************************)
CONSTANTS
    StemIds,     \* indexes of tokens_rcu_map_
    Tokens,      \* the strings a set holds
    Writers,     \* threads that call add_token
    Readers,     \* threads that call get_tokens
    Sets,        \* allocations, each a TokensSet with its control block
    Null

ASSUME NullAssumption ==
    /\ Null \notin Sets
    /\ Null \notin Tokens
    /\ Null \notin Writers \cup Readers

Threads == Writers \cup Readers

VARIABLES
    ptr,         \* ptr[id]: stored-pointer word of tokens_rcu_map_[id]
    own,         \* own[id]: control-block word of tokens_rcu_map_[id]
    mover,       \* mover[id]: thread inside the atomic store of id's slot
    contents,    \* contents[s]: the tokens in allocation s
    pc,          \* pc[t]: where thread t is in its call
    callId,      \* callId[t]: the id argument of t's call
    callTok,     \* callTok[t]: the token argument, Null in get_tokens
    oldPtr,      \* oldPtr[t], oldOwn[t]: the two words t copied
    oldOwn,
    newSet,      \* newSet[t]: tokens_set_newptr
    undefined,   \* a thread touched a freed set
    added,       \* history: added[id], tokens whose add_token returned
    before       \* history: before[t], added[callId[t]] when t's call began

slots   == <<ptr, own, mover>>
locals  == <<callId, callTok, oldPtr, oldOwn, newSet>>
history == <<added, before>>
vars    == <<slots, contents, pc, locals, undefined, history>>

-----------------------------------------------------------------------------
\* Threads that counted themselves in as owners of the set they copied.
Counted == {"check", "result", "cas", "moveOut", "storePtr", "storeOwn"}

Holds(t, s) ==
    \/ newSet[t] = s
    \/ oldOwn[t] = s /\ pc[t] \in Counted

Live(s) ==
    \/ \E id \in StemIds : own[id] = s
    \/ \E t \in Threads : Holds(t, s)

\* s can stand for a new allocation.
Fresh(s) == ~Live(s) /\ \A t \in Threads : s \notin {oldPtr[t], oldOwn[t]}

\* The tokens of the set a word points to.
TokensAt(word) == IF word = Null THEN {} ELSE contents[word]

\* The value of a slot.  During an exchange: of the set it is moving out, and
\* once that is done, of the set it is storing.
Published(id) ==
    IF mover[id] = Null THEN TokensAt(own[id])
    ELSE IF pc[mover[id]] = "moveOut" THEN TokensAt(oldPtr[mover[id]])
    ELSE TokensAt(newSet[mover[id]])

-----------------------------------------------------------------------------
Init ==
    /\ ptr = [id \in StemIds |-> Null]
    /\ own = [id \in StemIds |-> Null]
    /\ mover = [id \in StemIds |-> Null]
    /\ contents = [s \in Sets |-> {}]
    /\ pc = [t \in Threads |-> "idle"]
    /\ callId \in [Threads -> StemIds]
    /\ callTok = [t \in Threads |-> Null]
    /\ oldPtr = [t \in Threads |-> Null]
    /\ oldOwn = [t \in Threads |-> Null]
    /\ newSet = [t \in Threads |-> Null]
    /\ undefined = FALSE
    /\ added = [id \in StemIds |-> {}]
    /\ before = [t \in Threads |-> {}]

Step(t, from, to) ==
    /\ ~undefined
    /\ pc[t] = from
    /\ pc' = [pc EXCEPT ![t] = to]

\* Touching a freed set: undefined behaviour.
Fault(t, from) ==
    /\ ~undefined
    /\ pc[t] = from
    /\ undefined' = TRUE
    /\ UNCHANGED <<slots, contents, pc, locals, history>>

Begin(t, id, token) ==
    /\ Step(t, "idle", "loadPtr")
    /\ callId' = [callId EXCEPT ![t] = id]
    /\ callTok' = [callTok EXCEPT ![t] = token]
    /\ before' = [before EXCEPT ![t] = added[id]]
    /\ UNCHANGED <<slots, contents, oldPtr, oldOwn, newSet, undefined, added>>

CallAddToken(t) == \E id \in StemIds, token \in Tokens : Begin(t, id, token)

CallGetTokens(t) == \E id \in StemIds : Begin(t, id, Null)

\* The plain copy of the slot: pointer word, control-block word, count.
LoadPtr(t) ==
    /\ Step(t, "loadPtr", "loadOwn")
    /\ oldPtr' = [oldPtr EXCEPT ![t] = ptr[callId[t]]]
    /\ UNCHANGED <<slots, contents, callId, callTok, oldOwn, newSet,
                   undefined, history>>

LoadOwn(t) ==
    /\ Step(t, "loadOwn", "acquire")
    /\ oldOwn' = [oldOwn EXCEPT ![t] = own[callId[t]]]
    /\ UNCHANGED <<slots, contents, callId, callTok, oldPtr, newSet,
                   undefined, history>>

Acquire(t) ==
    \/ /\ oldOwn[t] = Null \/ Live(oldOwn[t])
       /\ Step(t, "acquire", IF callTok[t] = Null THEN "result" ELSE "check")
       /\ UNCHANGED <<slots, contents, locals, undefined, history>>
    \/ /\ oldOwn[t] # Null /\ ~Live(oldOwn[t])
       /\ Fault(t, "acquire")

\* The end of an iteration: the copies go out of scope.
Release(t) ==
    /\ oldPtr' = [oldPtr EXCEPT ![t] = Null]
    /\ oldOwn' = [oldOwn EXCEPT ![t] = Null]
    /\ newSet' = [newSet EXCEPT ![t] = Null]

\* The end of a call: so do its arguments.
Return(t) ==
    /\ Release(t)
    /\ callTok' = [callTok EXCEPT ![t] = Null]
    /\ before' = [before EXCEPT ![t] = {}]
    /\ UNCHANGED callId

ReturnAdd(t) ==
    /\ Return(t)
    /\ added' = [added EXCEPT ![callId[t]] = @ \cup {callTok[t]}]

\* Mutant: the copy is forgotten, the new set has the new token only.
UpdatedCopyTokenOnly(t) == {callTok[t]}

\* The contents of the set that replaces the one t copied.
UpdatedCopy(t) ==
    TokensAt(oldPtr[t]) \cup {callTok[t]}

AlreadyAdded(t) ==
    /\ oldPtr[t] # Null /\ Live(oldPtr[t])
    /\ callTok[t] \in contents[oldPtr[t]]
    /\ Step(t, "check", "idle")
    /\ ReturnAdd(t)
    /\ UNCHANGED <<slots, contents, undefined>>

\* Mutant: the token is inserted in the shared set, not in a copy.
InsertInPlace(t) ==
    /\ Step(t, "check", "cas")
    /\ \E s \in Sets :
        /\ IF oldPtr[t] # Null THEN s = oldPtr[t] ELSE Fresh(s)
        /\ contents' = [contents EXCEPT ![s] = UpdatedCopy(t)]
        /\ newSet' = [newSet EXCEPT ![t] = s]
    /\ UNCHANGED <<slots, callId, callTok, oldPtr, oldOwn, undefined, history>>

CopyAndInsert(t) ==
    /\ oldPtr[t] # Null =>
           Live(oldPtr[t]) /\ callTok[t] \notin contents[oldPtr[t]]
    /\ Step(t, "check", "cas")
    /\ \E s \in Sets :
        /\ Fresh(s)
        /\ contents' = [contents EXCEPT ![s] = UpdatedCopy(t)]
        /\ newSet' = [newSet EXCEPT ![t] = s]
    /\ UNCHANGED <<slots, callId, callTok, oldPtr, oldOwn, undefined, history>>

CheckDangling(t) ==
    /\ oldPtr[t] # Null /\ ~Live(oldPtr[t])
    /\ Fault(t, "check")

\* Mutant: atomic_store instead of the compare-exchange.
UnmovedUnchecked(t) == TRUE

\* atomic_compare_exchange_strong compares both words under the slot's mutex.
Unmoved(t) ==
    LET id == callId[t]
    IN  ptr[id] = oldPtr[t] /\ own[id] = oldOwn[t]

\* The exchange moves the old set out of the slot, one word after the other in
\* the order the build chose.  That set lives until the call ends: oldOwn[t]
\* counts for it.
EmptyOneWord(id) ==
    \/ ptr' = [ptr EXCEPT ![id] = Null] /\ UNCHANGED own
    \/ own' = [own EXCEPT ![id] = Null] /\ UNCHANGED ptr

\* Mutant: the exchange does not take the slot's mutex.
CasWithoutMutex(t) ==
    /\ Unmoved(t)
    /\ Step(t, "cas", "moveOut")
    /\ mover' = [mover EXCEPT ![callId[t]] = t]
    /\ EmptyOneWord(callId[t])
    /\ UNCHANGED <<contents, locals, undefined, history>>

CasSucceeds(t) ==
    /\ mover[callId[t]] = Null
    /\ Unmoved(t)
    /\ Step(t, "cas", "moveOut")
    /\ mover' = [mover EXCEPT ![callId[t]] = t]
    /\ EmptyOneWord(callId[t])
    /\ UNCHANGED <<contents, locals, undefined, history>>

\* The other word: the slot is empty.
MoveOut(t) ==
    /\ Step(t, "moveOut", "storePtr")
    /\ ptr' = [ptr EXCEPT ![callId[t]] = Null]
    /\ own' = [own EXCEPT ![callId[t]] = Null]
    /\ UNCHANGED <<mover, contents, locals, undefined, history>>

\* Mutant: the copy is made before the loop, the exchange refreshes `expected`.
RetryWithStaleCopy(t) ==
    /\ mover[callId[t]] = Null
    /\ ~Unmoved(t)
    /\ Step(t, "cas", "cas")
    /\ oldPtr' = [oldPtr EXCEPT ![t] = ptr[callId[t]]]
    /\ oldOwn' = [oldOwn EXCEPT ![t] = own[callId[t]]]
    /\ UNCHANGED <<slots, contents, callId, callTok, newSet, undefined, history>>

\* Mutant: the loop tries the same exchange again.
RetrySameExchange(t) ==
    /\ mover[callId[t]] = Null
    /\ ~Unmoved(t)
    /\ Step(t, "cas", "cas")
    /\ UNCHANGED <<slots, contents, locals, undefined, history>>

CasFails(t) ==
    /\ mover[callId[t]] = Null
    /\ ~Unmoved(t)
    /\ Step(t, "cas", "loadPtr")
    /\ Release(t)
    /\ UNCHANGED <<slots, contents, callId, callTok, undefined, history>>

StorePtr(t) ==
    /\ Step(t, "storePtr", "storeOwn")
    /\ ptr' = [ptr EXCEPT ![callId[t]] = newSet[t]]
    /\ UNCHANGED <<own, mover, contents, locals, undefined, history>>

StoreOwn(t) ==
    /\ Step(t, "storeOwn", "idle")
    /\ own' = [own EXCEPT ![callId[t]] = newSet[t]]
    /\ mover' = [mover EXCEPT ![callId[t]] = Null]
    /\ ReturnAdd(t)
    /\ UNCHANGED <<ptr, contents, undefined>>

\* The caller of get_tokens reads the set it got and drops it.
UseResult(t) ==
    \/ /\ oldPtr[t] = Null \/ Live(oldPtr[t])
       /\ Step(t, "result", "idle")
       /\ Return(t)
       /\ UNCHANGED <<slots, contents, undefined, added>>
    \/ /\ oldPtr[t] # Null /\ ~Live(oldPtr[t])
       /\ Fault(t, "result")

\* Nothing is said of the program after undefined behaviour.
Halted == undefined /\ UNCHANGED vars

Run(t) ==
    \/ LoadPtr(t) \/ LoadOwn(t) \/ Acquire(t)
    \/ AlreadyAdded(t) \/ CopyAndInsert(t) \/ CheckDangling(t)
    \/ CasSucceeds(t) \/ MoveOut(t) \/ CasFails(t) \/ StorePtr(t)
    \/ StoreOwn(t) \/ UseResult(t)

Next ==
    \/ \E t \in Writers : CallAddToken(t)
    \/ \E t \in Readers : CallGetTokens(t)
    \/ \E t \in Threads : Run(t)
    \/ Halted

\* A thread inside a call is scheduled again; nobody is bound to call.
Fairness == \A t \in Threads : WF_vars(Run(t))

Spec == Init /\ [][Next]_vars
FairSpec == Spec /\ Fairness

-----------------------------------------------------------------------------
(***************************************************************************)
(* Typing.  The store of a slot is exclusive: the thread in it is the one  *)
(* the slot names, and outside it the two words of the slot belong         *)
(* together.                                                               *)
(***************************************************************************)
Word == Sets \cup {Null}

PcTypes == {"idle", "loadPtr", "loadOwn", "acquire", "check", "result", "cas",
            "moveOut", "storePtr", "storeOwn"}

\* The steps of an exchange that has taken the slot's mutex.
Storing == {"moveOut", "storePtr", "storeOwn"}

TypeOK ==
    /\ ptr \in [StemIds -> Word]
    /\ own \in [StemIds -> Word]
    /\ mover \in [StemIds -> Threads \cup {Null}]
    /\ contents \in [Sets -> SUBSET Tokens]
    /\ pc \in [Threads -> PcTypes]
    /\ callId \in [Threads -> StemIds]
    /\ callTok \in [Threads -> Tokens \cup {Null}]
    /\ oldPtr \in [Threads -> Word]
    /\ oldOwn \in [Threads -> Word]
    /\ newSet \in [Threads -> Word]
    /\ undefined \in BOOLEAN
    /\ added \in [StemIds -> SUBSET Tokens]
    /\ before \in [Threads -> SUBSET Tokens]
    /\ \A id \in StemIds : mover[id] = Null => ptr[id] = own[id]
    /\ \A t \in Threads, id \in StemIds :
           mover[id] = t <=> pc[t] \in Storing /\ callId[t] = id

(***************************************************************************)
(* A token whose add_token returned, by a successful exchange or because   *)
(* the copy it read already had it, is in the published set for good, no   *)
(* matter which writers exchanged the slot meanwhile.                      *)
(***************************************************************************)
NoLostToken == \A id \in StemIds : added[id] \subseteq Published(id)

(***************************************************************************)
(* A set get_tokens returns holds every token whose add_token returned     *)
(* before get_tokens was called: the copy of the slot is never stale,      *)
(* whatever the two words of the slot did between the reads.               *)
(***************************************************************************)
GetSeesCompletedAdds ==
    \A t \in Threads :
        pc[t] = "result" /\ oldPtr[t] # Null /\ Live(oldPtr[t])
            => before[t] \subseteq contents[oldPtr[t]]

(***************************************************************************)
(* Read-copy-update: a set another thread may be reading never changes,    *)
(* the update happens in a copy.                                           *)
(***************************************************************************)
ImmutableSnapshots ==
    [][\A s \in Sets : Live(s) => contents'[s] = contents[s]]_vars

(***************************************************************************)
(* The map as its callers may use it: every add_token takes effect at one  *)
(* instant, the successful exchange, and nothing else changes the map.     *)
(***************************************************************************)
Abstract == INSTANCE TokensMap WITH
    tokensOf <- [id \in StemIds |-> Published(id)]

ImplementsTokensMap == Abstract!Spec

(***************************************************************************)
(* add_token and get_tokens return: a failed exchange means that another   *)
(* writer added a token, so the retry loop ends.                           *)
(***************************************************************************)
CallsReturn == \A t \in Threads : pc[t] # "idle" ~> pc[t] = "idle" \/ undefined

(***************************************************************************)
(* What stemid_tokens_rcumap.h:21 says of add_token, "thread-safe,         *)
(* non-locking": no thread touches a freed set.                            *)
(***************************************************************************)
NoUndefinedBehaviour == ~undefined
=============================================================================
