------------------------------ MODULE BlockSync ------------------------------
(***************************************************************************)
(* pkg/network/server.go: requestBlocks and getRequestBlocksPayload ask    *)
(* peers for blocks on the ground of the chain's height and of what        *)
(* bQueue.LastQueued says; handleBlockCmd puts the answers into the queue. *)
(* Peers are external: an answer may be lost, late, out of order or        *)
(* repeated.                                                               *)
(***************************************************************************)
EXTENDS BlockQueue

CONSTANTS
    MaxHashesCount,   \* payload.MaxHashesCount, blocks per request
    MaxBad,           \* bound on the bad blocks that peers send
    MaxLost           \* bound on the answers that never come

VARIABLES
    lastRequestedBlock,   \* s.lastRequestedBlock
    wanted,               \* indexes peers were asked for and may still send
    spoiled,              \* bad blocks sent so far
    lost                  \* answers that did not come so far

syncVars == <<vars, lastRequestedBlock, wanted, spoiled, lost>>

SyncInit ==
    /\ Init
    /\ lastRequestedBlock = 0 /\ wanted = {} /\ spoiled = 0
    /\ lost = 0

\* The height of every peer is MaxIndex.
peerHeight == MaxIndex

Least(x, y) == IF x < y THEN x ELSE y

Ask(start, count) ==
    wanted' = wanted \cup (start .. Least(start + count - 1, MaxIndex))

\* Mutant: the random chunk is never the first one.
randomHeightNotFirst(index) == height + 1 + (index + 1) * MaxHashesCount

\* A chunk at random, the first one included.
randomHeight(index) == height + 1 + index * MaxHashesCount

\* LastQueued moves the start of the request past what is queued.
IndexStart(need) == IF lastQ >= need THEN lastQ + 1 ELSE need

Count(need) ==
    LET capLeft == CacheSize - len
    IN  IF lastQ >= need /\ capLeft < MaxHashesCount THEN capLeft ELSE MaxHashesCount

Send(need) ==
    IF CacheSize - len = 0 THEN UNCHANGED wanted ELSE Ask(IndexStart(need), Count(need))

\* The three branches of getRequestBlocksPayload; index is its random number.
requestBlocks(index) ==
    LET old == lastRequestedBlock
        fresh == old <= height
        ahead == ~fresh /\ old < height + (CacheSize - MaxHashesCount)
        further == ahead /\ peerHeight > old + MaxHashesCount
        need == CASE fresh -> height + 1
                  [] further -> old + MaxHashesCount
                  [] ahead /\ ~further -> height + 1
                  [] OTHER -> randomHeight(index)
    IN  /\ height < peerHeight
        /\ lastRequestedBlock' = IF fresh \/ further THEN need ELSE old
        /\ Send(need)
        /\ UNCHANGED <<vars, spoiled, lost>>

\* An answer reaches handleBlockCmd.
handleBlockCmd(q, e) ==
    /\ e.index \in wanted
    /\ e.kind = "bad" => spoiled < MaxBad
    /\ PutStart(q, e)
    /\ spoiled' = IF e.kind = "bad" THEN spoiled + 1 ELSE spoiled
    /\ wanted' = wanted \ {e.index}
    /\ UNCHANGED <<lastRequestedBlock, lost>>

AnswerLost ==
    /\ lost < MaxLost
    /\ lost' = lost + 1
    /\ \E i \in wanted : wanted' = wanted \ {i}
    /\ UNCHANGED <<vars, lastRequestedBlock, spoiled>>

Choices == 0 .. (CacheSize \div MaxHashesCount) - 1

requestVars == <<lastRequestedBlock, wanted, spoiled, lost>>
RunStep == Run /\ UNCHANGED requestVars
PutStep(q) == PutSteps(q) /\ UNCHANGED requestVars

SyncNext ==
    \/ RunStep
    \/ \E q \in Putters : PutStep(q)
    \/ \E index \in Choices : requestBlocks(index)
    \/ \E q \in Putters, e \in Elements : handleBlockCmd(q, e)
    \/ AnswerLost

Good(i) == [index |-> i, kind |-> "good"]

\* The goroutines of Run and Put are scheduled, pings make requests go on with
\* every random number drawn again and again, and an answer that is not lost
\* arrives.
SyncSpec ==
    /\ SyncInit
    /\ [][SyncNext]_syncVars
    /\ WF_syncVars(RunStep)
    /\ \A q \in Putters : WF_syncVars(PutStep(q))
    /\ \A index \in Choices : SF_syncVars(requestBlocks(index))
    /\ \A i \in 1 .. MaxIndex :
          SF_syncVars(\E q \in Putters : handleBlockCmd(q, Good(i)))

-----------------------------------------------------------------------------
(* Properties.                                                             *)

\* "Every block must eventually be fetched even if the peer sends no answer":
\* the node reaches its peers' height whatever answers are lost or repeated.
EveryBlockFetched == <>(height = MaxIndex)
=============================================================================
