------------------------------- MODULE Notary -------------------------------
(***************************************************************************)
(* pkg/services/notary: the service collects the signatures of a main      *)
(* transaction from the requests of its signers and sends it when they are *)
(* complete, or the fallbacks once they are valid.  Three goroutines: the  *)
(* main loop (OnNewRequest, OnRequestRemoval, PostPersist), the callback   *)
(* loop that submits what the main loop finalized, and the one that stores *)
(* blocks and calls UpdateNotaryNodes.  A critical section under reqMtx is *)
(* one step, but for the long one of PostPersist.                          *)
(*                                                                         *)
(* A main transaction has witnesses of two types: signatures of some of    *)
(* its keys (a single signature is one of one key) and what a contract     *)
(* decides on.                                                             *)
(***************************************************************************)
EXTENDS Integers, Sequences, FiniteSets

CONSTANTS
    Mains,        \* main transactions
    Payloads,     \* requests, each with its fallback
    Wits,         \* witnesses of a main transaction, by number
    Scripts,      \* signatures, and invocation scripts for contracts
    Info,         \* Payloads -> [main, nvb, valid, scripts (of its witnesses)]
    Witness,      \* Mains -> [Wits -> [typ, need, pubs]]; pubs is what verifies
    ChanCap,      \* defaultTxChannelCapacity
    MaxHeight,    \* bound on the height; blocks keep coming at it
    MaxEntries,   \* bound on how often requests enter the pool
    None

VARIABLES
    height,       \* Chain.BlockHeight()
    block,        \* "new" while a stored block has not been told to the service
    account,      \* currAccount: "set" or "nil"
    pooled,       \* requests in the pool, as the main loop has been told
    entries,      \* requests that have entered the pool so far
    requests,     \* n.requests: Mains -> request or None
    newTxs,       \* n.newTxs
    main,         \* the main loop
    cb,           \* newTxCallbackLoop
    relayed,      \* mains accepted since their request was created (history)
    fellBack,     \* the same of mains a fallback of which was accepted (history)
    orphans       \* requests stored after the account had gone (history)

vars == <<height, block, account, pooled, entries, requests, newTxs, main, cb,
          relayed, fellBack, orphans>>

ASSUME NotaryAssumption ==
    /\ ChanCap \in Nat \ {0} /\ MaxHeight \in Nat
    /\ \A m \in Mains, i \in Wits :
           /\ Witness[m][i].typ \in {"multi", "contract"}
           /\ Witness[m][i].pubs \subseteq Scripts
           /\ Witness[m][i].typ = "multi" => Witness[m][i].need \in Nat \ {0}
    /\ \A p \in Payloads : /\ Info[p].main \in Mains /\ Info[p].nvb \in Nat
                           /\ Info[p].scripts \in [Wits -> Scripts \cup {None}]

\* type request struct
Request ==
    [isSent : {"yes", "no"}, minNVB : Nat, fbs : SUBSET Payloads, info : {"nil", "set"},
     sigs : [Wits -> SUBSET Scripts]]

ASSUME NoneAssumption ==
    None \notin Payloads \cup Scripts \cup Request /\ \A S \in SUBSET Payloads : S # None

\* A transaction for the callback loop: the fallback of tx, or main itself.
Pair(m, tx, sigs) == [main |-> m, tx |-> tx, sigs |-> sigs]
IsMain(pair) == pair.tx = None
Unsigned == [i \in Wits |-> {}]

Selecting == [pc |-> "select", req |-> None, todo |-> {}]
Idle == [pc |-> "idle", pair |-> None, old |-> None]

Init ==
    /\ height = 0 /\ block = "none" /\ account = "set"
    /\ pooled = {} /\ entries = 0
    /\ requests = [m \in Mains |-> None]
    /\ newTxs = <<>>
    /\ main = Selecting
    /\ cb = Idle
    /\ relayed = {} /\ fellBack = {} /\ orphans = {}

\* Mutant: one witness with all its signatures is enough.
isMainCompletedEarly(m, r) ==
    /\ r.info = "set"
    /\ \E i \in Wits :
           Witness[m][i].typ = "multi" /\ Cardinality(r.sigs[i]) = Witness[m][i].need

\* isMainCompleted; nSigsLeft of a contract is 0.
isMainCompleted(m, r) ==
    /\ r.info = "set"
    /\ \A i \in Wits :
           Witness[m][i].typ = "multi" => Cardinality(r.sigs[i]) = Witness[m][i].need

\* reqMtx is free: only PostPersist keeps it over several steps.
Unlocked == main.pc # "post"

\* pushNewTx: a full channel refuses.
Pushed(queue, pair) == IF Len(queue) < ChanCap THEN Append(queue, pair) ELSE queue

-----------------------------------------------------------------------------
(* OnNewRequest.                                                           *)

\* The account is read, the witnesses are verified.
NewStart(p) ==
    /\ main.pc = "select"
    /\ p \notin pooled /\ entries < MaxEntries
    /\ entries' = entries + 1
    /\ pooled' = pooled \cup {p}
    /\ main' = IF account = "nil" THEN main ELSE [main EXCEPT !.pc = "new", !.req = p]
    /\ UNCHANGED <<height, block, account, requests, newTxs, cb, relayed, fellBack, orphans>>

Least(x, y) == IF x < y THEN x ELSE y

\* A request with a copy of p's main transaction; the scripts for its contracts are
\* there unverified.
Created(p) ==
    [isSent |-> "no", minNVB |-> Info[p].nvb, fbs |-> {}, info |-> "nil",
     sigs |-> [i \in Wits |-> IF Witness[Info[p].main][i].typ = "contract"
                              THEN {Info[p].scripts[i]} \ {None} ELSE {}]]

\* Mutant: the first request's bound stays.
KeptFirstBound(p, r) ==
    LET base == IF r # None THEN r ELSE Created(p)
    IN  [base EXCEPT !.fbs = @ \cup {p},
                     !.info = IF Info[p].valid THEN "set" ELSE @]

\* The request with the fallback of p, before its witnesses are looked at.
Kept(p, r) ==
    LET base == IF r # None THEN [r EXCEPT !.minNVB = Least(@, Info[p].nvb)] ELSE Created(p)
    IN  [base EXCEPT !.fbs = @ \cup {p},
                     !.info = IF Info[p].valid THEN "set" ELSE @]

\* Witness i with what p brings for it: a script the contract accepts takes the
\* place of the one there, signatures are collected until there are enough.
SignedAt(p, i, sigs) ==
    LET w == Witness[Info[p].main][i]
        script == Info[p].scripts[i]
    IN  IF script \notin w.pubs THEN sigs
        ELSE IF w.typ = "contract" THEN {script}
        ELSE IF Cardinality(sigs) = w.need THEN sigs
        ELSE sigs \cup {script}

Signed(p, r) == [r EXCEPT !.sigs = [i \in Wits |-> SignedAt(p, i, r.sigs[i])]]

NewApply ==
    /\ main.pc = "new"
    /\ main' = Selecting
    /\ LET p == main.req
           m == Info[p].main
           r == requests[m]
           kept == Kept(p, r)
           early == (r # None /\ isMainCompleted(m, kept)) \/ ~Info[p].valid
           new == IF early THEN kept ELSE Signed(p, kept)
       IN  IF r # None /\ p \in r.fbs
           THEN UNCHANGED <<requests, newTxs, relayed, fellBack, orphans>>
           ELSE /\ requests' = [requests EXCEPT ![m] = new]
                /\ newTxs' = IF ~early /\ isMainCompleted(m, new) /\ new.minNVB > height
                             THEN Pushed(newTxs, Pair(m, None, new.sigs)) ELSE newTxs
                /\ relayed' = IF r = None THEN relayed \ {m} ELSE relayed
                /\ fellBack' = IF r = None THEN fellBack \ {m} ELSE fellBack
                /\ orphans' = IF account = "nil" THEN orphans \cup {p} ELSE orphans \ {p}
    /\ UNCHANGED <<entries, height, block, account, pooled, cb>>

-----------------------------------------------------------------------------
(* OnRequestRemoval and PostPersist.                                       *)

\* The callback loop holds a pointer to the request of m.
Holds(m) == cb.pc \in {"send", "finish"} /\ cb.old = None /\ cb.pair.main = m

\* Mutant: a request without fallbacks stays in the map.
OnRequestRemovalLeaves(p) ==
    LET m == Info[p].main
    IN  /\ main.pc = "select"
        /\ p \in pooled
        /\ pooled' = pooled \ {p}
        /\ requests' = IF account = "nil" \/ requests[m] = None THEN requests
                       ELSE [requests EXCEPT ![m].fbs = @ \ {p}]
        /\ UNCHANGED <<entries, height, block, account, newTxs, main, cb, relayed, fellBack, orphans>>

OnRequestRemoval(p) ==
    LET m == Info[p].main
        r == requests[m]
        left == r.fbs \ {p}
    IN  /\ main.pc = "select"
        /\ p \in pooled
        /\ pooled' = pooled \ {p}
        /\ IF account = "nil" \/ r = None THEN UNCHANGED <<requests, cb>>
           ELSE /\ requests' = [requests EXCEPT ![m] =
                        IF left = {} THEN None ELSE [r EXCEPT !.fbs = left]]
                /\ cb' = IF left = {} /\ Holds(m) THEN [cb EXCEPT !.old = {}] ELSE cb
        /\ UNCHANGED <<entries, height, block, account, newTxs, main, relayed, fellBack, orphans>>

\* Mutant: a completed main goes before its fallbacks at any height.
DueMainOnly(h) ==
    UNION {LET r == requests[m]
           IN  IF r.isSent = "no" /\ isMainCompleted(m, r)
               THEN {Pair(m, None, r.sigs)}
               ELSE IF r.minNVB <= h
               THEN {Pair(m, p, Unsigned) : p \in {q \in r.fbs : Info[q].nvb <= h}}
               ELSE {}
           : m \in {n \in Mains : requests[n] # None}}

\* Mutant: the fallbacks of a completed main are not turned to.
DueMainElseNothing(h) ==
    UNION {LET r == requests[m]
           IN  IF r.isSent = "no" /\ isMainCompleted(m, r)
               THEN IF r.minNVB > h THEN {Pair(m, None, r.sigs)} ELSE {}
               ELSE IF r.minNVB <= h
               THEN {Pair(m, p, Unsigned) : p \in {q \in r.fbs : Info[q].nvb <= h}}
               ELSE {}
           : m \in {n \in Mains : requests[n] # None}}

\* What PostPersist finalizes at a height.
Due(h) ==
    UNION {LET r == requests[m]
           IN  IF r.isSent = "no" /\ isMainCompleted(m, r) /\ r.minNVB > h
               THEN {Pair(m, None, r.sigs)}
               ELSE IF r.minNVB <= h
               THEN {Pair(m, p, Unsigned) : p \in {q \in r.fbs : Info[q].nvb <= h}}
               ELSE {}
           : m \in {n \in Mains : requests[n] # None}}

PostStart ==
    /\ main.pc = "select" /\ block = "new"
    /\ block' = "none"
    /\ main' = IF account = "nil" \/ Due(height) = {} THEN main
               ELSE [main EXCEPT !.pc = "post", !.todo = Due(height)]
    /\ UNCHANGED <<entries, height, account, pooled, requests, newTxs, cb, relayed, fellBack, orphans>>

\* One finalize; the map and the callback loop decide on the order.
PostPush(pair) ==
    /\ main.pc = "post" /\ pair \in main.todo
    /\ newTxs' = Pushed(newTxs, pair)
    /\ main' = IF main.todo = {pair} THEN Selecting
               ELSE [main EXCEPT !.todo = @ \ {pair}]
    /\ UNCHANGED <<entries, height, block, account, pooled, requests, cb, relayed, fellBack, orphans>>

-----------------------------------------------------------------------------
(* newTxCallbackLoop.                                                      *)

CbRecv ==
    /\ cb.pc = "idle" /\ newTxs # <<>>
    /\ cb' = [cb EXCEPT !.pc = "check", !.pair = Head(newTxs)]
    /\ newTxs' = Tail(newTxs)
    /\ UNCHANGED <<entries, height, block, account, pooled, requests, main, relayed, fellBack, orphans>>

\* Mutant: a main that was sent is sent again.
PendingAlways(pair) ==
    LET r == requests[pair.main]
    IN  /\ r # None
        /\ IF IsMain(pair) THEN r.minNVB > height ELSE pair.tx \in r.fbs

\* Mutant: a main is sent at any height.
PendingAnyHeight(pair) ==
    LET r == requests[pair.main]
    IN  /\ r # None
        /\ IF IsMain(pair) THEN r.isSent = "no" ELSE pair.tx \in r.fbs

\* There is still something to send.
Pending(pair) ==
    LET r == requests[pair.main]
    IN  /\ r # None
        /\ IF IsMain(pair) THEN r.isSent = "no" /\ r.minNVB > height ELSE pair.tx \in r.fbs

CbCheck ==
    /\ cb.pc = "check" /\ Unlocked
    /\ cb' = IF Pending(cb.pair) THEN [cb EXCEPT !.pc = "send"] ELSE Idle
    /\ UNCHANGED <<entries, height, block, account, pooled, requests, newTxs, main, relayed, fellBack, orphans>>

\* onTransaction, without the lock, succeeds ...
CbSent(m, tx) ==
    /\ cb.pc = "send" /\ cb.pair.main = m /\ cb.pair.tx = tx
    /\ cb' = [cb EXCEPT !.pc = "finish"]
    /\ relayed' = IF tx = None /\ cb.old = None THEN relayed \cup {m} ELSE relayed
    /\ fellBack' = IF tx # None /\ cb.old = None THEN fellBack \cup {m} ELSE fellBack
    /\ UNCHANGED <<entries, height, block, account, pooled, requests, newTxs, main, orphans>>

\* ... or fails.
CbFailed ==
    /\ cb.pc = "send"
    /\ cb' = Idle
    /\ UNCHANGED <<entries, height, block, account, pooled, requests, newTxs, main, relayed, fellBack, orphans>>

\* Mutant: every fallback of the request goes with the one that was sent.
AfterSendAll(pair) ==
    IF IsMain(pair)
    THEN IF cb.old = None THEN [requests EXCEPT ![pair.main].isSent = "yes"] ELSE requests
    ELSE [requests EXCEPT ![pair.main] = None]

\* The requests after a submission.  If the callback's request has meanwhile
\* left the map, what it says of its own fallbacks (old) decides on the entry
\* of the map, whichever request that is.
AfterSend(pair) ==
    LET m == pair.main
        left == IF cb.old = None THEN requests[m].fbs \ {pair.tx} ELSE cb.old \ {pair.tx}
    IN  IF IsMain(pair)
        THEN IF cb.old = None THEN [requests EXCEPT ![m].isSent = "yes"] ELSE requests
        ELSE IF left = {} THEN [requests EXCEPT ![m] = None]
        ELSE IF cb.old = None THEN [requests EXCEPT ![m].fbs = left]
        ELSE requests

CbFinish ==
    /\ cb.pc = "finish" /\ Unlocked
    /\ requests' = AfterSend(cb.pair)
    /\ cb' = Idle
    /\ UNCHANGED <<entries, height, block, account, pooled, newTxs, main, relayed, fellBack, orphans>>

CbSteps ==
    \/ CbRecv \/ CbCheck \/ CbFailed \/ CbFinish
    \/ \E m \in Mains, tx \in Payloads \cup {None} : CbSent(m, tx)

-----------------------------------------------------------------------------
(* Blocks.                                                                 *)

NewBlock ==
    /\ height' = IF height < MaxHeight THEN height + 1 ELSE height
    /\ block' = "new"
    /\ UNCHANGED <<entries, account, pooled, requests, newTxs, main, cb, relayed, fellBack, orphans>>

\* Mutant: the requests are kept.
UpdateNotaryNodesKeeping(acc) ==
    /\ Unlocked
    /\ account # acc
    /\ account' = acc
    /\ UNCHANGED <<requests, cb>>
    /\ UNCHANGED <<entries, height, block, pooled, newTxs, main, relayed, fellBack, orphans>>

\* The node is designated or is no more; without an account the map is reset.
UpdateNotaryNodes(acc) ==
    /\ Unlocked
    /\ account # acc
    /\ account' = acc
    /\ IF acc = "nil"
       THEN /\ requests' = [m \in Mains |-> None]
            /\ cb' = IF \E m \in Mains : Holds(m)
                     THEN [cb EXCEPT !.old = requests[cb.pair.main].fbs] ELSE cb
       ELSE UNCHANGED <<requests, cb>>
    /\ UNCHANGED <<entries, height, block, pooled, newTxs, main, relayed, fellBack, orphans>>

MainSteps == NewApply \/ PostStart \/ \E pair \in main.todo : PostPush(pair)

Next ==
    \/ \E p \in Payloads : NewStart(p) \/ OnRequestRemoval(p)
    \/ MainSteps
    \/ CbSteps
    \/ NewBlock
    \/ \E acc \in {"set", "nil"} : UpdateNotaryNodes(acc)

Spec == Init /\ [][Next]_vars

\* Blocks keep coming, both loops run, and a transaction that is submitted
\* again and again is accepted in the end.
FairSpec ==
    /\ Spec
    /\ WF_vars(NewBlock)
    /\ WF_vars(NewApply) /\ SF_vars(PostStart)
    /\ WF_vars(\E pair \in main.todo : PostPush(pair))
    /\ SF_vars(CbSteps)
    /\ \A m \in Mains, tx \in Payloads \cup {None} : SF_vars(CbSent(m, tx))

-----------------------------------------------------------------------------
(* Properties.                                                             *)

\* Shape of the state; a request in the map has a fallback.
TypeOK ==
    /\ height \in 0 .. MaxHeight
    /\ requests \in [Mains -> Request \cup {None}]
    /\ Len(newTxs) <= ChanCap
    /\ pooled \subseteq Payloads
    /\ main.pc \in {"select", "new", "post"}
    /\ cb.pc \in {"idle", "check", "send", "finish"}
    /\ \A m \in Mains : requests[m] # None => requests[m].fbs # {}

Waiting == {p \in Payloads : requests[Info[p].main] # None /\ p \in requests[Info[p].main].fbs}

\* Transactions on their way to the callback loop, and in it.
Queued == {newTxs[i] : i \in DOMAIN newTxs} \cup main.todo
          \cup (IF cb.pc = "idle" THEN {} ELSE {cb.pair})

\* Just the number of different signatures that each signature witness needs.
Complete(pair) ==
    \A i \in Wits :
        LET w == Witness[pair.main][i]
        IN  w.typ = "multi" => /\ Cardinality(pair.sigs[i]) = w.need
                               /\ pair.sigs[i] \subseteq w.pubs

\* No fallback that waits for the main transaction m may be in a block yet.
FallbacksAhead(m) == \A p \in Waiting : Info[p].main = m => height < Info[p].nvb

\* OnNewRequest and PostPersist queue a main transaction when it is complete, and
\* not at the height of any fallback still waiting.
QueuedRight ==
    \A pair \in Queued' \ Queued :
        IsMain(pair) => Complete(pair) /\ FallbacksAhead(pair.main)'

\* The callback loop, which may have had it since long before, takes it to submit it
\* when the network has accepted neither it nor a fallback of its request, and not
\* at the height of any fallback still waiting.
TakenRight ==
    cb.pc = "check" /\ cb'.pc = "send" /\ IsMain(cb.pair) =>
        /\ Complete(cb.pair)
        /\ cb.pair.main \notin relayed \cup fellBack
        /\ FallbacksAhead(cb.pair.main)

\* "We stop trying to send the mainTx to the network if the chain reaches the
\* minNotValidBefore height": main transactions are queued and taken to be submitted
\* complete, once and before any fallback, whatever the order of the requests, of
\* their removals and of changes of the account.  (The height is that of the
\* decision: the loop gives up the lock for the submission itself, and a block may
\* be stored in between.)
MainsSentRight == [][QueuedRight /\ TakenRight]_vars

\* The same comment, of the submission itself: the height is read before the lock is
\* given up for onTransaction.
MainNeverLate ==
    cb.pc = "send" /\ IsMain(cb.pair) /\ cb.old = None => requests[cb.pair.main].minNVB > height

\* What the service works on is in the pool: a fallback whose request has left
\* the pool is not kept, and no request without a fallback is.  (Exception:
\* OnNewRequest reads the account before it has the lock; what it stores when the
\* account has gone is not removed.)
WaitingArePooled == TypeOK /\ Waiting \subseteq pooled \cup orphans

\* The same without the exception.
WaitingAlwaysPooled == Waiting \subseteq pooled

\* A fallback is dropped only when its request leaves the pool, when it has
\* been submitted, or when the node is no notary any more, as long as the
\* callback loop's request is the one in the map.
FallbackKept ==
    [][\A p \in Waiting \ Waiting' :
          \/ p \notin pooled'
          \/ account' = "nil"
          \/ cb.pc = "finish" /\ (cb.pair.tx = p \/ cb.old # None)]_vars

\* "Ignore the error, wait for the next block to resend them": the same without
\* the exception for a request that has left the map.
FallbackNotForgotten ==
    [][\A p \in Waiting \ Waiting' :
          p \notin pooled' \/ account' = "nil" \/ cb.pair.tx = p]_vars

\* "minNotValidBefore is the minimum NVB value among fallbacks transactions."
MinNVBExact ==
    \A m \in Mains : requests[m] # None =>
        \E p \in requests[m].fbs : Info[p].nvb = requests[m].minNVB

\* A fallback that becomes valid is submitted, although the channel may be full
\* and submissions may fail, unless its request is dropped first.
FallbackResolved ==
    \A p \in Payloads :
        (p \in Waiting /\ Info[p].nvb <= MaxHeight) ~> (p \notin Waiting \/ p \in orphans)
=============================================================================
