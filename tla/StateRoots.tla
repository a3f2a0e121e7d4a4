----------------------------- MODULE StateRoots -----------------------------
(***************************************************************************)
(* Validation of the state root of one block by the designated state       *)
(* validators: the state validation service (pkg/services/stateroot), the  *)
(* records of state roots and validator keys it works on                   *)
(* (pkg/core/stateroot) and the way its payloads travel, announced to the  *)
(* peers, fetched and kept in the pool of every node (ExtensiblePool,      *)
(* pkg/network/server.go).                                                 *)
(*                                                                         *)
(* Every validator that has processed block Index signs its own state root *)
(* and sends the signature as a vote, again after a timeout.  The sender   *)
(* in turn puts m signatures together and sends the validated root.        *)
(***************************************************************************)
EXTENDS ExtensiblePool, FiniteSets, FiniteSetsExt

CONSTANTS
    Index,          \* the block whose root is validated
    Worlds,         \* the circumstances considered, see below
    voteValidEndInc,
    rootValidEndInc,
    maxRetries,
    MaxLost         \* announcements that may be lost

Validators == Senders
LastBlock == Index + voteValidEndInc

ASSUME StateRootsAssumption ==
    /\ \A w \in Worlds :
        /\ w.up \subseteq Validators               \* the validators that run
        /\ w.local \in [Validators -> {"r", "s"}]  \* the root each one computes
        /\ {w.first, w.second} \subseteq Seq(Validators)  \* lists of validators
        /\ w.designation \in Nat                   \* the block that designates second
        /\ w.timely \in BOOLEAN  \* blocks arrive before votes, votes before timeouts
    /\ {Index, voteValidEndInc, rootValidEndInc} \subseteq Nat \ {0}
    /\ {maxRetries, MaxLost} \subseteq Nat
    /\ voteValidEndInc <= rootValidEndInc

VARIABLES
    world,     \* the circumstances of this behaviour
    height,    \* height[n]: the block height of the node
    handled,   \* handled[n]: the last block its service has handled
    keys,      \* keys[n]: validator lists by height (Module.keys)
    incomplete,\* incomplete[n]: incompleteRoots[Index], or None
    witness,   \* witness[n]: the one of the stored root, NoWitness if not validated
    pool,      \* pool[n]: its pool of extensible payloads
    inv,       \* inv[n]: payloads announced to n and not fetched yet
    handling,  \* handling[n]: <<e>>: e is in the pool, its handler has not run
    armed,     \* armed[n]: "yes": the timer of sendVote is set
    lost

vars == <<world, height, handled, keys, incomplete, witness, pool, inv, handling, armed, lost>>

Up == world.up
Local == world.local
Lists == {world.first, world.second}

None == [sv |-> <<>>, myIndex |-> -1, root |-> "nil", sigs |-> [v \in Validators |-> "none"],
         isSent |-> "no", retries |-> 0, myVote |-> -1]

-----------------------------------------------------------------------------
(* Keys of the validators (pkg/core/stateroot/validators.go).              *)

getKeyCacheForHeight(ks, h) ==
    LET fits == {i \in DOMAIN ks : /\ ks[i].height <= h
                                   /\ i = Len(ks) \/ ks[i + 1].height < h}
    IN  IF fits = {} THEN <<>> ELSE ks[Max(fits)].list

\* UpdateStateValidators, called by the designation contract when block b is
\* persisted.
Updated(ks, b) ==
    IF b = world.designation /\ getKeyCacheForHeight(ks, b + 1) # world.second
    THEN Append(ks, [height |-> b + 1, list |-> world.second])
    ELSE ks

\* The list the node was last told of: its account and the senders it allows.
Current(n) == keys[n][Len(keys[n])].list
IsValidator(n) == n \in ToSet(Current(n))
IndexIn(list, v) == CHOOSE i \in DOMAIN list : list[i] = v

-----------------------------------------------------------------------------
(* Payloads.                                                               *)

\* A verification script of the validators of list, and the signatures of signers.
NoWitness == [list |-> <<>>, signers |-> {}]

Vote(n, index) ==
    [kind |-> "vote", sender |-> n, index |-> index, of |-> Local[n], witness |-> NoWitness,
     validBlockStart |-> Index, validBlockEnd |-> Index + voteValidEndInc]

Root(n, w) ==
    [kind |-> "root", sender |-> n, index |-> 0, of |-> Local[n], witness |-> w,
     validBlockStart |-> Index, validBlockEnd |-> Index + rootValidEndInc]

\* Mutant: the test of what a peer has is the wrong way round.
AdvertiseKnown(from, es, pools) ==
    [k \in Validators |->
        IF k \in Up \ {from} THEN inv[k] \union {e \in es : Pooled(pools[k], e)} ELSE inv[k]]

\* advertiseExtensible: peers that have the payload ignore the announcement.
Advertise(from, es, pools) ==
    [k \in Validators |->
        IF k \in Up \ {from} THEN inv[k] \union {e \in es : ~Pooled(pools[k], e)} ELSE inv[k]]

\* BroadcastExtensible of own, in order, by n, which also passes on what it has
\* handled.
Publish(n, own, handledOnes) ==
    LET valid == SelectSeq(own, LAMBDA e : Verified(e, height[n], ToSet(Current(n))))
        add(p, e) == IF Pooled(p, e) THEN p ELSE Added(p, e)
        pools == [pool EXCEPT ![n] = FoldLeft(add, @, valid)]
    IN  /\ pool' = pools
        /\ inv' = Advertise(n, ToSet(valid) \union handledOnes, pools)

-----------------------------------------------------------------------------
Init ==
    /\ world \in Worlds
    /\ height = [n \in Validators |-> Index - 1]
    /\ handled = height
    /\ keys = [n \in Validators |-> <<[height |-> 0, list |-> world.first]>>]
    /\ incomplete = [n \in Validators |-> None]
    /\ witness = [n \in Validators |-> NoWitness]
    /\ pool = [n \in Validators |-> EmptyPool]
    /\ inv = [n \in Validators |-> {}]
    /\ handling = [n \in Validators |-> <<>>]
    /\ armed = [n \in Validators |-> "no"]
    /\ lost = 0

\* Nothing is on its way to anybody who runs.
Quiet == \A n \in Up : /\ height[n] >= Index /\ handled[n] = height[n]
                       /\ inv[n] = {} /\ handling[n] = <<>>

\* The next block: the designation contract tells the service of new keys.
StoreBlock(n) ==
    /\ height[n] < LastBlock
    /\ (world.timely /\ height[n] >= Index) => Quiet
    /\ height' = [height EXCEPT ![n] = @ + 1]
    /\ keys' = [keys EXCEPT ![n] = Updated(@, height[n] + 1)]
    /\ UNCHANGED <<world, handled, incomplete, witness, pool, inv, handling, armed, lost>>

\* relayBlocksLoop of the server.
DropStale(n) ==
    LET p == RemoveStale(pool[n], height[n], ToSet(Current(n)))
    IN  /\ p # pool[n]
        /\ pool' = [pool EXCEPT ![n] = p]
        /\ UNCHANGED <<world, height, handled, keys, incomplete, witness, inv, handling, armed, lost>>

-----------------------------------------------------------------------------
(* The service (pkg/services/stateroot).                                   *)

getIncompleteRoot(n) ==
    IF incomplete[n] # None THEN incomplete[n]
    ELSE [None EXCEPT !.sv = getKeyCacheForHeight(keys[n], Index),
                      !.myIndex = IndexIn(Current(n), n) - 1]

\* GetDefaultHonestNodeCount
Quorum(list) == Len(list) - (Len(list) - 1) \div 3

isSenderNow(ir) ==
    /\ ir.root # "nil" /\ ir.isSent = "no" /\ ir.sv # <<>>
    /\ (Index - Max({ir.retries, 0})) % Len(ir.sv) = ir.myIndex

Signed(ir) == SelectSeq(ir.sv, LAMBDA v : ir.sigs[v] = "ok")

\* trySendRoot: the sender in turn has enough signatures.
Ready(ir) == isSenderNow(ir) /\ Len(Signed(ir)) >= Quorum(ir.sv)

\* finalize takes the first m signatures in the order of the list.
Finalized(ir) == [list |-> ir.sv, signers |-> ToSet(SubSeq(Signed(ir), 1, Quorum(ir.sv)))]

\* VerifyStateRoot of the root of with the witness w at node n: the script must be that
\* of the validators n knows for the height, and of all signatures for this root.
VerifyStateRoot(n, of, w) ==
    LET list == getKeyCacheForHeight(keys[n], Index)
    IN  /\ height[n] >= Index - 1
        /\ list # <<>> /\ ToSet(w.list) = ToSet(list)
        /\ w.signers \subseteq ToSet(list) /\ Cardinality(w.signers) = Quorum(list)
        /\ \A v \in w.signers : Local[v] = of

\* AddStateRoot compares it with the local root, if there is one yet.
AddStateRoot(n, of, w) ==
    IF ~VerifyStateRoot(n, of, w) \/ height[n] < Index THEN "error"
    ELSE IF of # Local[n] THEN "mismatch" ELSE "ok"

WitnessAfter(n, of, w) ==
    IF AddStateRoot(n, of, w) = "ok" /\ witness[n] = NoWitness
    THEN [witness EXCEPT ![n] = w] ELSE witness

\* Mutant: signatures that came before the root are taken as they are.
reverifyTrusting(ir) ==
    [ir EXCEPT !.sigs = [v \in Validators |-> IF @[v] = "none" THEN "none" ELSE "ok"]]

reverify(ir) == [ir EXCEPT !.sigs = [v \in Validators |-> IF @[v] = "valid" THEN "ok" ELSE @[v]]]

\* The vote is not due any more.
VoteOver(n, ir) ==
    ir.isSent = "yes" \/ ir.retries >= maxRetries \/ height[n] >= Index + voteValidEndInc

\* Mutant: the root is not sent when the own signature is the last one.
signAndSendVote(n) ==
    LET got == getIncompleteRoot(n)
        mine == IndexIn(Current(n), n) - 1
        ir == [reverify([got EXCEPT !.root = Local[n], !.sigs[n] = "ok"])
                 EXCEPT !.retries = -1, !.myVote = mine]
    IN  /\ incomplete' = [incomplete EXCEPT ![n] = [ir EXCEPT !.retries = 0]]
        /\ armed' = [armed EXCEPT ![n] = "yes"]
        /\ Publish(n, <<Vote(n, mine)>>, {})
        /\ UNCHANGED witness

\* The local root is signed; if that completes it and it is this node's turn the
\* root is sent, else the vote, for the first time.
signAndSend(n) ==
    LET got == getIncompleteRoot(n)
        mine == IndexIn(Current(n), n) - 1
        ir == reverify([got EXCEPT !.root = Local[n], !.sigs[n] = "ok"])
        ready == Ready(ir)
        done == [ir EXCEPT !.isSent = IF ready THEN "yes" ELSE @, !.retries = -1, !.myVote = mine]
        over == VoteOver(n, done)
    IN  /\ incomplete' = [incomplete EXCEPT ![n] = [done EXCEPT !.retries = IF over THEN @ ELSE 0]]
        /\ armed' = [armed EXCEPT ![n] = IF over THEN @ ELSE "yes"]
        /\ witness' = IF ready THEN WitnessAfter(n, Local[n], Finalized(ir)) ELSE witness
        /\ Publish(n, (IF ready THEN <<Root(n, Finalized(ir))>> ELSE <<>>)
                        \o (IF over THEN <<>> ELSE <<Vote(n, mine)>>), {})

\* run: a block event.
OnBlock(n) ==
    LET b == handled[n] + 1
    IN  /\ b <= height[n]
        /\ world.timely => \A k \in Up : height[k] >= Index
        /\ handled' = [handled EXCEPT ![n] = b]
        /\ IF b = Index /\ IsValidator(n)
           THEN signAndSend(n)
           ELSE /\ incomplete' = IF b - voteValidEndInc = Index
                                 THEN [incomplete EXCEPT ![n] = None] ELSE incomplete
                /\ UNCHANGED <<witness, pool, inv, armed>>
        /\ UNCHANGED <<world, height, keys, handling, lost>>

\* sendVote from the timer.
ResendVote(n) ==
    LET ir == incomplete[n]
        over == ir = None \/ VoteOver(n, ir)
    IN  /\ armed[n] = "yes"
        /\ world.timely => Quiet
        /\ IF over
           THEN /\ armed' = [armed EXCEPT ![n] = "no"]
                /\ UNCHANGED <<incomplete, pool, inv>>
           ELSE /\ incomplete' = [incomplete EXCEPT ![n].retries = @ + 1]
                /\ Publish(n, <<Vote(n, ir.myVote)>>, {})
                /\ UNCHANGED armed
        /\ UNCHANGED <<world, height, handled, keys, witness, handling, lost>>

-----------------------------------------------------------------------------
(* A payload arrives (handleInvCmd, handleGetDataCmd, handleExtensibleCmd).*)

Fetch(n, e) ==
    /\ e \in inv[n] /\ handling[n] = <<>>
    /\ inv' = [inv EXCEPT ![n] = @ \ {e}]
    /\ IF /\ \E k \in Up \ {n} : Pooled(pool[k], e)
          /\ IsNew(pool[n], e, height[n], ToSet(Current(n)))
       THEN /\ pool' = [pool EXCEPT ![n] = Added(@, e)]
            /\ handling' = [handling EXCEPT ![n] = <<e>>]
       ELSE UNCHANGED <<pool, handling>>
    /\ UNCHANGED <<world, height, handled, keys, incomplete, witness, armed, lost>>

Lose(n, e) ==
    /\ e \in inv[n] /\ lost < MaxLost /\ ~world.timely
    /\ inv' = [inv EXCEPT ![n] = @ \ {e}]
    /\ lost' = lost + 1
    /\ UNCHANGED <<world, height, handled, keys, incomplete, witness, pool, handling, armed>>

\* AddSignature
OnVote(n, e) ==
    LET got == getIncompleteRoot(n)
        known == e.index < Len(got.sv)
        pub == got.sv[e.index + 1]
        valid == pub = e.sender /\ e.of = Local[n]
        ir == [got EXCEPT !.sigs[pub] =
                  IF got.root # "nil" THEN "ok" ELSE IF valid THEN "valid" ELSE "invalid"]
        ready == Ready(ir)
    IN  IF ~IsValidator(n)
        THEN Publish(n, <<>>, {e}) /\ UNCHANGED <<incomplete, witness>>
        ELSE IF ~known \/ (got.root # "nil" /\ ~valid)
        THEN /\ incomplete' = [incomplete EXCEPT ![n] = got]
             /\ UNCHANGED <<witness, pool, inv>>
        ELSE /\ incomplete' = [incomplete EXCEPT ![n] =
                                  [ir EXCEPT !.isSent = IF ready THEN "yes" ELSE @]]
             /\ witness' = IF ready THEN WitnessAfter(n, Local[n], Finalized(ir)) ELSE witness
             /\ Publish(n, IF ready THEN <<Root(n, Finalized(ir))>> ELSE <<>>, {e})

\* OnPayload of a root: it is marked as sent whatever the error, but for a
\* mismatch.
OnRoot(n, e) ==
    LET res == AddStateRoot(n, e.of, e.witness)
    IN  /\ witness' = WitnessAfter(n, e.of, e.witness)
        /\ incomplete' = IF res # "mismatch" /\ incomplete[n] # None
                         THEN [incomplete EXCEPT ![n].isSent = "yes"] ELSE incomplete
        /\ IF res = "error" THEN UNCHANGED <<pool, inv>> ELSE Publish(n, <<>>, {e})

OnPayload(n) ==
    /\ handling[n] # <<>>
    /\ handling' = [handling EXCEPT ![n] = <<>>]
    /\ \/ handling[n][1].kind = "vote" /\ OnVote(n, handling[n][1])
       \/ handling[n][1].kind = "root" /\ OnRoot(n, handling[n][1])
    /\ UNCHANGED <<world, height, handled, keys, armed, lost>>

Next ==
    \E n \in Up :
        \/ StoreBlock(n)
        \/ DropStale(n)
        \/ OnBlock(n)
        \/ ResendVote(n)
        \/ OnPayload(n)
        \/ \E e \in inv[n] : Fetch(n, e) \/ Lose(n, e)

\* The goroutines of every running node go on; blocks come, up to Index at least.
Fairness ==
    \A n \in Validators :
        /\ WF_vars(n \in Up /\ height[n] < Index /\ StoreBlock(n))
        /\ WF_vars(n \in Up /\ OnBlock(n))
        /\ WF_vars(n \in Up /\ OnPayload(n))
        /\ WF_vars(n \in Up /\ \E e \in inv[n] : Fetch(n, e))
        /\ WF_vars(n \in Up /\ ResendVote(n))

Spec == Init /\ [][Next]_vars /\ Fairness

-----------------------------------------------------------------------------
\* The type of every variable.
TypeOK ==
    /\ \A n \in Validators :
        /\ handled[n] \in Index - 1 .. height[n] /\ height[n] \in Index - 1 .. LastBlock
        /\ witness[n].list \in Lists \union {<<>>} /\ witness[n].signers \subseteq Validators
        /\ incomplete[n].sv \in Lists \union {<<>>}
        /\ incomplete[n].retries \in -1 .. maxRetries
        /\ \A v \in Validators : Len(pool[n][v]) <= singleCap
        /\ Len(handling[n]) <= 1
    /\ lost \in 0 .. MaxLost

\* Every root that is sent, and every root a node stores as validated, carries a
\* quorum of one list of validators, each of whom has processed the block and signed
\* its own root; signatures that arrived before the own block, when AddSignature
\* cannot check them, included.  Quorums of one list share an honest validator, so
\* two nodes that go by the same list never hold different validated roots.
RootsBacked ==
    LET Backed(of, w) ==
            /\ w.signers \subseteq ToSet(w.list) /\ Cardinality(w.signers) = Quorum(w.list)
            /\ \A v \in w.signers : Local[v] = of /\ handled[v] >= Index
    IN  TypeOK /\ \A n \in Up :
            /\ witness[n] # NoWitness => Backed(Local[n], witness[n])
            /\ \A v \in Validators : \A e \in ToSet(pool[n][v]) :
                    e.kind = "root" => Backed(e.of, e.witness)

\* The sender of the first turn sends the root as soon as a quorum of
\* signatures is there, in whatever order the block, the votes and the other
\* payloads came.
FirstTurnSends ==
    \A n \in Up : incomplete[n].retries <= 0 => ~Ready(incomplete[n])

\* Every turn of the rotation in isSenderNow sends: when the timer makes a node
\* the sender it sends what it has.
EveryTurnSends == \A n \in Up : ~Ready(incomplete[n])

\* If blocks arrive before votes and votes before the first timeout, and the
\* first sender and a quorum run, with equal states, the validated root reaches
\* every running node that has the same state.
TimelyValidated ==
    LET sender == world.first[(Index % Len(world.first)) + 1]
    IN  (world.timely /\ sender \in Up)
            => <>(\A n \in Up : Local[n] = Local[sender] => witness[n] # NoWitness)

\* The entry of incompleteRoots is gone for good once the service has handled
\* the block that ends the life of the votes.
EntryDropped ==
    \A n \in Up : handled[n] >= Index + voteValidEndInc => incomplete[n] = None

\* The keys of a height are the ones of the last designation up to it.
KeysOfHeight ==
    \A n \in Up : getKeyCacheForHeight(keys[n], Index) =
                     keys[n][Max({i \in DOMAIN keys[n] : keys[n][i].height <= Index})].list
=============================================================================
