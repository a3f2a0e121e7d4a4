------------------------------ MODULE StateSync ------------------------------
(***************************************************************************)
(* The state synchronisation module (pkg/core/statesync/module.go): a node *)
(* that joins late collects headers up to P+1, the state at the            *)
(* synchronisation point P (as MPT nodes or as raw storage items) and the  *)
(* last traceable blocks, and then jumps to P.                             *)
(*                                                                         *)
(* Everything collected goes through the DAO cache (view).  The Run        *)
(* goroutine of the Blockchain persists it (disk) at any moment, also      *)
(* between two writes of a handler: it does not take the module's lock.  A *)
(* crash loses the cache and the module; Init and defineSyncStage find the *)
(* stage again from what is stored.                                        *)
(*                                                                         *)
(* The trie is a graph of nodes named by their hashes; a path is the       *)
(* sequence of child indexes from the root, so that a node shared by       *)
(* several places of the trie, of one branch too, has several paths.  The  *)
(* trusted header is genesis.  The jump itself is StateChange.             *)
(***************************************************************************)
EXTENDS Integers, Sequences, SequencesExt, FiniteSets, FiniteSetsExt, Bags

CONSTANTS
    Modes,               \* of {"MPTBased", "ContractStorageBased"}
    Interval,            \* StateSyncInterval
    MaxTraceableBlocks,
    Heights,             \* what Init may be told as the height of the network
    MaxHeight,           \* headers the peers have
    HeaderBatch,         \* headers per message
    Nodes, Children,     \* MPT nodes, and the children of each in index order
    Roots,               \* the root of the state in the header of P+1 is one of these
    Bad,                 \* bytes that are not a node
    Messages,            \* sequences of Nodes \union {Bad} that peers may send
    Items,               \* number of storage items in a state object
    ItemBatch,           \* KeyValueBatchSize of the state fetcher
    Objects,             \* contents of state objects; "state" is the header's
    StateRootInHeader,
    MaxCrashes

ASSUME StateSyncAssumption ==
    /\ Modes \subseteq {"MPTBased", "ContractStorageBased"}
    /\ {Interval, HeaderBatch, ItemBatch, Items} \subseteq Nat \ {0}
    /\ {MaxTraceableBlocks, MaxHeight, MaxCrashes} \subseteq Nat
    /\ Heights \subseteq Nat /\ "state" \in Objects
    /\ Roots \subseteq Nodes /\ Children \in [Nodes -> Seq(Nodes)]
    /\ Bad \notin Nodes /\ Messages \subseteq Seq(Nodes \union {Bad})
    /\ StateRootInHeader \in BOOLEAN

VARIABLES
    mode,        \* mode
    root,        \* PrevStateRoot of the header of P+1
    syncStage,   \* syncStage, the set of its flags; {}: the process is dead
    syncPoint,   \* syncPoint, 0 before Init
    blockHeight, \* blockHeight
    mptpool,     \* paths of the nodes still to be fetched
    billet,      \* paths that the billet has restored, collapsed ones included
    localTrie,   \* the object each item of the local trie comes from
    object,      \* the state object of the fetcher: its contents and height
    fetcher,     \* "on", or "stopped" after a failed batch or the last one
    lock,        \* the handler that has the module's lock, and where it is
    nodes,       \* AddMPTNodes: what is left of the message
    calls,       \* restoreNode: per call, the stored children to be looked at
    work,        \* restoreNode: paths still to be restored
    leaf,        \* <<path>>: RestoreHashNode is about to store the leaf's item
    batch,       \* AddContractStorageItems: the number of items
    view, disk,  \* the storage through the DAO cache, and the database
    exposed,     \* what crashes and restarts have met so far (for the properties)
    crashes

ram == <<syncStage, syncPoint, blockHeight, mptpool, billet, localTrie, object, fetcher>>
handler == <<lock, nodes, calls, work, leaf, batch>>
vars == <<mode, root, ram, handler, view, disk, exposed, crashes>>

-----------------------------------------------------------------------------
(* The trie.                                                               *)

\* The paths below a node, in the order in which traverse visits them.
PreOrder[n \in Nodes] ==
    <<<<>>>> \o FlattenSeq([i \in DOMAIN Children[n] |->
        [j \in DOMAIN PreOrder[Children[n][i]] |-> <<i>> \o PreOrder[Children[n][i]][j]]])

Walk == [n \in Roots |-> PreOrder[n]]

\* The nodes on each path below a root, from that root to the end of the path.
Trail ==
    [n \in Roots |-> [p \in ToSet(Walk[n]) |->
        FoldLeft(LAMBDA ns, i : Append(ns, Children[Last(ns)][i]), <<n>>, p)]]

Paths == DOMAIN Trail[root]
NodeAt(p) == Last(Trail[root][p])
LeafPaths == {p \in Paths : Children[NodeAt(p)] = <<>>}
PathsTo(n) == {p \in Paths : NodeAt(p) = n}
Waiting(pool, n) == {p \in pool : NodeAt(p) = n}
GetChildrenPaths(p) == {Append(p, i) : i \in DOMAIN Children[NodeAt(p)]}

Stored(s) == {n \in Nodes : s.count[n] > 0}

\* The path leads through stored nodes to a stored one.
Known(s, p) == \A k \in 1 .. Len(p) + 1 : s.count[Trail[root][p][k]] > 0

\* Mutant: a visited node stays in the pool.
VisitKeeping(acc, p) ==
    LET nPaths == Waiting(acc.pool, NodeAt(p))
    IN  [pool |-> acc.pool \union UNION {GetChildrenPaths(q) : q \in nPaths},
         panic |-> acc.panic \/ nPaths = {}]

\* The pool after a visit of Traverse to the path p; a node that is not in the
\* pool is a panic.
Visit(acc, p) ==
    LET nPaths == Waiting(acc.pool, NodeAt(p))
    IN  [pool |-> (acc.pool \ nPaths) \union UNION {GetChildrenPaths(q) : q \in nPaths},
         panic |-> acc.panic \/ nPaths = {}]

\* Traverse over what is stored.
Traverse(s) ==
    FoldLeft(Visit, [pool |-> {<<>>}, panic |-> FALSE],
             SelectSeq(Walk[root], LAMBDA p : Known(s, p)))

-----------------------------------------------------------------------------
(* The storage.                                                            *)

NoCheckpoint == [trie |-> <<>>, synced |-> "no"]
Object(o) == [k \in 1 .. Items |-> o]
HeaderRoot == Object("state")

Storage ==
    [header: 0 .. MaxHeight,               \* headers, from genesis
     point: Nat,                           \* SYSStateSyncPoint, 0: none
     count: [Nodes -> Nat],                \* MPT nodes with their reference counts
     items: SUBSET LeafPaths,              \* temporary storage, MPTBased
     kvs: Seq(Objects),                    \* temporary storage, ContractStorageBased
     tries: UNION {[S -> Nat \ {0}] : S \in SUBSET Seq(Objects)},
                                           \* local tries with their reference counts
     ckpt: [trie: Seq(Objects), synced: {"yes", "no"}],
     blocks: SUBSET (1 .. MaxHeight),
     current: 0 .. MaxHeight,              \* SYSStateSyncCurrentBlockHeight
     chain: 0 .. MaxHeight,                \* the height of the Blockchain
     genesis: {"yes", "no"}]               \* genesis MPT nodes are there

\* Mutant: the first traceable block is taken for a stored one.
getLatestSavedBlockLate(s, p) ==
    Max({IF p > MaxTraceableBlocks THEN p - MaxTraceableBlocks + 1 ELSE 0, s.current, s.chain})

getLatestSavedBlock(s, p) ==
    Max({IF p > MaxTraceableBlocks THEN p - MaxTraceableBlocks ELSE 0, s.current, s.chain})

-----------------------------------------------------------------------------
Init ==
    /\ mode \in Modes /\ root \in Roots
    /\ syncStage = {"none"} /\ syncPoint = 0 /\ blockHeight = 0
    /\ mptpool = {} /\ billet = {} /\ localTrie = <<>>
    /\ object = [of |-> "state", height |-> 0] /\ fetcher = "on"
    /\ lock = "free" /\ nodes = <<>> /\ calls = <<>> /\ work = <<>> /\ leaf = <<>> /\ batch = 0
    /\ view = [header |-> 0, point |-> 0, count |-> [n \in Nodes |-> 0], items |-> {},
               kvs |-> <<>>, tries |-> EmptyBag, ckpt |-> NoCheckpoint, blocks |-> {},
               current |-> 0, chain |-> 0, genesis |-> "yes"]
    /\ disk = view
    /\ exposed = {} /\ crashes = 0

\* Mutant: the header that names the state root is not waited for.
HeadersFetchedToPoint(s, p) == s.header >= p

HeadersFetched(s, p) == s.header > p

WithStage(flag) == syncStage \union {flag}

Enough(s) ==
    IF mode = "MPTBased" THEN Traverse(s).pool = {} ELSE s.ckpt.synced = "yes"

Panics(s, p) == mode = "MPTBased" /\ HeadersFetched(s, p) /\ Traverse(s).panic

\* Stages found from the storage s for point p; st is the stage before.
defineSyncStage(s, p, st) ==
    IF ~HeadersFetched(s, p) \/ Panics(s, p)
    THEN /\ syncStage' = IF HeadersFetched(s, p) THEN {} ELSE st
         /\ UNCHANGED <<mptpool, billet, localTrie, blockHeight>>
    ELSE /\ IF mode = "MPTBased"
            THEN /\ mptpool' = mptpool \union Traverse(s).pool
                 /\ billet' = {q \in Paths : Known(s, q)}
                 /\ UNCHANGED localTrie
            ELSE localTrie' = s.ckpt.trie /\ UNCHANGED <<mptpool, billet>>
         /\ IF ~Enough(s)
            THEN syncStage' = {"headersSynced"} /\ UNCHANGED blockHeight
            ELSE /\ blockHeight' = getLatestSavedBlock(s, p)
                 /\ syncStage' = IF blockHeight' >= p THEN {"inactive"}
                                 ELSE {"headersSynced", "mptSynced"}

\* Init when there is nothing to synchronise.  The error for a trusted header above the
\* chain cannot occur: it is genesis.
InitInactive(h) ==
    LET p == (h \div Interval) * Interval
    IN  /\ p < 2 * Interval \/ view.chain > p - 2 * Interval
        /\ syncStage' = {"inactive"}
        /\ exposed' = IF p < 2 * Interval /\ view.genesis = "no" THEN exposed \union {"low"}
                      ELSE exposed
        /\ UNCHANGED <<syncPoint, blockHeight, mptpool, billet, localTrie, view>>

\* Init when a point is to be synchronised, a new one or the stored one.
InitPoint(h) ==
    LET p == (h \div Interval) * Interval
        resume == view.point # 0
        q == IF resume THEN view.point ELSE p
        s == [view EXCEPT !.point = q, !.genesis = IF resume THEN @ ELSE "no"]
    IN  /\ p >= 2 * Interval /\ view.chain <= p - 2 * Interval
        /\ IF resume THEN view.point >= p - Interval ELSE view.chain = 0
        /\ view' = s
        /\ syncPoint' = q
        /\ defineSyncStage(s, q, {"initialized"})
        /\ exposed' = exposed
             \union (IF mode = "ContractStorageBased" /\ q # p THEN {"object"} ELSE {})
             \union (IF Panics(s, q) THEN {"panic"} ELSE {})

\* Init when the stored point is outdated or the chain is too low: the server
\* stops with log.Fatal.
InitFails(h) ==
    LET p == (h \div Interval) * Interval
    IN  /\ p >= 2 * Interval /\ view.chain <= p - 2 * Interval
        /\ IF view.point # 0 THEN view.point < p - Interval ELSE view.chain # 0
        /\ syncStage' = {}
        /\ UNCHANGED <<syncPoint, blockHeight, mptpool, billet, localTrie, view, exposed>>

\* tryInitStateSync: h is the height of the median peer, or of the latest
\* state object.
InitModule(h, o) ==
    /\ lock = "free"
    /\ syncStage = {"none"}
    /\ mode = "ContractStorageBased" => h % Interval = 0
    /\ object' = [of |-> o, height |-> h]
    /\ \/ InitInactive(h)
       \/ InitPoint(h)
       \/ InitFails(h)
    /\ UNCHANGED <<mode, root, fetcher, handler, disk, crashes>>

-----------------------------------------------------------------------------
(* Headers.                                                                *)

AddHeaders(k) ==
    LET s == [view EXCEPT !.header = k]
    IN  /\ lock = "free"
        /\ syncStage = {"initialized"}
        /\ k \in view.header + 1 .. view.header + HeaderBatch
        /\ view' = s
        /\ IF HeadersFetched(s, syncPoint)
           THEN disk' = s /\ defineSyncStage(s, syncPoint, syncStage)
           ELSE UNCHANGED <<disk, syncStage, mptpool, billet, localTrie, blockHeight>>
        /\ UNCHANGED <<mode, root, syncPoint, object, fetcher, handler, exposed, crashes>>

-----------------------------------------------------------------------------
(* MPT nodes (AddMPTNodes, restoreNode, Billet.RestoreHashNode).           *)

\* A message of nodes: they are restored one after the other under the lock.
AddMPTNodes(message) ==
    /\ lock = "free"
    /\ mode = "MPTBased"
    /\ "headersSynced" \in syncStage /\ "mptSynced" \notin syncStage
    /\ lock' = "nodes" /\ nodes' = message
    /\ UNCHANGED <<mode, root, ram, calls, work, leaf, batch, view, disk, exposed, crashes>>

Restoring == work # <<>> \/ leaf # <<>>

\* restoreNode(n) begins: the paths on which the pool has n, in their order; none: it
\* returns.
RestoreNode(n) == work' = SelectSeq(Walk[root], LAMBDA p : p \in Waiting(mptpool, n))

\* The next node of the message.
NextNode ==
    /\ lock = "nodes" /\ ~Restoring /\ calls = <<>>
    /\ nodes # <<>> /\ Head(nodes) # Bad
    /\ nodes' = Tail(nodes)
    /\ RestoreNode(Head(nodes))
    /\ UNCHANGED <<mode, root, ram, lock, calls, leaf, batch, view, disk, exposed, crashes>>

\* All of a subtree is restored: it is one collapsed hash node.
Collapsed(p) == \A q \in Paths : IsPrefix(p, q) => q \in billet

\* putIntoNode on the way from the root to p: an error at a node that is not
\* restored or is collapsed, a panic when p itself has been restored.
RestoreResult(p) ==
    IF \E k \in 0 .. Len(p) - 1 :
            SubSeq(p, 1, k) \notin billet \/ Collapsed(SubSeq(p, 1, k))
    THEN "error"
    ELSE IF p \in billet THEN "panic" ELSE "ok"

\* Mutant: stored children are not looked at.
StoredChildrenNone(n) == {}

\* The calls of restoreNode to come for n, for its children in the store.
StoredChildren(n) == ToSet(Children[n]) \intersect Stored(view)

\* Mutant: the children of the first path only enter the pool.
PoolAfterFirst(n) ==
    LET nPaths == Waiting(mptpool, n)
    IN  (mptpool \ nPaths) \union GetChildrenPaths(CHOOSE p \in nPaths : TRUE)

\* Mutant: what has been restored stays in the pool.
PoolAfterKept(n) == mptpool \union UNION {GetChildrenPaths(p) : p \in Waiting(mptpool, n)}

\* mptpool.Update: the paths of n are replaced by those of its children.
PoolAfter(n) ==
    LET nPaths == Waiting(mptpool, n)
    IN  (mptpool \ nPaths) \union UNION {GetChildrenPaths(p) : p \in nPaths}

\* After the last path of n the pool is updated, and the stored children are next.
PathsDone(n) ==
    /\ mptpool' = PoolAfter(n)
    /\ calls' = IF StoredChildren(n) = {} THEN calls ELSE Append(calls, StoredChildren(n))

\* RestoreHashNode for one path, with incrementRefAndStore; the item of a leaf is
\* a write of its own.
StoreNode ==
    LET p == Head(work)
    IN  /\ work # <<>> /\ leaf = <<>>
        /\ IF RestoreResult(p) = "ok"
           THEN /\ view' = [view EXCEPT !.count[NodeAt(p)] = @ + 1]
                /\ billet' = billet \union {p}
                /\ work' = Tail(work)
                /\ leaf' = IF p \in LeafPaths THEN <<p>> ELSE <<>>
                /\ IF work' = <<>> /\ leaf' = <<>> THEN PathsDone(NodeAt(p))
                   ELSE UNCHANGED <<mptpool, calls>>
                /\ UNCHANGED <<lock, nodes, syncStage>>
           ELSE /\ lock' = "free" /\ nodes' = <<>> /\ calls' = <<>> /\ work' = <<>>
                /\ syncStage' = IF RestoreResult(p) = "panic" THEN {} ELSE syncStage
                /\ UNCHANGED <<view, billet, leaf, mptpool>>
        /\ UNCHANGED <<mode, root, syncPoint, blockHeight, localTrie, object, fetcher,
                       batch, disk, exposed, crashes>>

\* A leaf is put into the temporary contract storage.
StoreItem ==
    /\ leaf # <<>>
    /\ leaf' = <<>>
    /\ view' = [view EXCEPT !.items = @ \union {leaf[1]}]
    /\ IF work = <<>> THEN PathsDone(NodeAt(leaf[1])) ELSE UNCHANGED <<mptpool, calls>>
    /\ UNCHANGED <<mode, root, syncStage, syncPoint, blockHeight, billet, localTrie, object,
                   fetcher, lock, nodes, work, batch, disk, exposed, crashes>>

\* The call of restoreNode for a child that is in the store.  A call with no
\* child left has returned.
RestoreChild(c) ==
    /\ lock = "nodes" /\ ~Restoring /\ calls # <<>> /\ c \in Last(calls)
    /\ calls' = SelectSeq(Append(Front(calls), Last(calls) \ {c}), LAMBDA f : f # {})
    /\ RestoreNode(c)
    /\ UNCHANGED <<mode, root, ram, lock, nodes, leaf, batch, view, disk, exposed, crashes>>

\* AddMPTNodes returns.  After the last node of the message, and with an empty pool,
\* the nodes are persisted and blocks are requested; what is no node is an error.
NodesDone ==
    /\ lock = "nodes" /\ ~Restoring /\ calls = <<>>
    /\ nodes # <<>> => Head(nodes) = Bad
    /\ lock' = "free" /\ nodes' = <<>>
    /\ IF nodes = <<>> /\ mptpool = {}
       THEN /\ disk' = view
            /\ syncStage' = WithStage("mptSynced")
            /\ blockHeight' = getLatestSavedBlock(view, syncPoint)
       ELSE UNCHANGED <<disk, syncStage, blockHeight>>
    /\ exposed' = IF nodes # <<>> /\ mptpool = {} THEN exposed \union {"stalled"} ELSE exposed
    /\ UNCHANGED <<mode, root, syncPoint, mptpool, billet, localTrie, object, fetcher,
                   calls, work, leaf, batch, view, crashes>>

-----------------------------------------------------------------------------
(* Raw storage items (the state fetcher's run and AddContractStorageItems).*)

\* A batch the module refuses stops the fetcher.
ItemsRefused ==
    \/ "mptSynced" \in syncStage
    \/ Object(object.of) = localTrie
    \/ object.height # syncPoint

\* The root of the local trie can be read; an empty trie has none.
Readable(s, trie) == trie = <<>> \/ BagIn(trie, s.tries)

\* The fetcher sends what follows the last stored key; the items are put into the
\* temporary storage and then into the local trie.
AddContractStorageItems ==
    LET n == Min({ItemBatch, Items - Len(localTrie)})
        trie == localTrie \o [k \in 1 .. n |-> object.of]
    IN  /\ lock = "free"
        /\ mode = "ContractStorageBased" /\ fetcher = "on"
        /\ "headersSynced" \in syncStage
        /\ IF n = 0 \/ ItemsRefused THEN UNCHANGED view ELSE view' = [view EXCEPT !.kvs = trie]
        /\ IF n = 0 \/ ItemsRefused \/ ~Readable(view, localTrie)
           THEN fetcher' = "stopped" /\ UNCHANGED <<localTrie, lock, batch>>
           ELSE localTrie' = trie /\ lock' = "trie" /\ batch' = n /\ UNCHANGED fetcher
        /\ UNCHANGED <<mode, root, syncStage, syncPoint, blockHeight, mptpool, billet, object,
                       nodes, calls, work, leaf, disk, exposed, crashes>>

\* The counts of the nodes of a trie that replaces another one, of which none is left
\* without a reference (ModeLatest).
WithTrie(tries, old, new) ==
    (IF old = <<>> THEN tries ELSE tries (-) SetToBag({old})) (+) SetToBag({new})

\* localTrie.Flush; its writes are one step, with the removal of the old root.
FlushTrie ==
    LET old == SubSeq(localTrie, 1, Len(localTrie) - batch)
    IN  /\ lock = "trie"
        /\ lock' = "checkpoint"
        /\ view' = [view EXCEPT !.tries = WithTrie(@, old, localTrie)]
        /\ UNCHANGED <<mode, root, ram, nodes, calls, work, leaf, batch, disk, exposed, crashes>>

\* Mutant: the root of the header is not looked at.
RootAcceptedAlways == TRUE

RootAccepted == StateRootInHeader => localTrie = HeaderRoot

\* The checkpoint is stored and persisted; only then is the root compared with
\* the one in the header.
PutCheckpoint ==
    LET synced == localTrie = Object(object.of)
        s == [view EXCEPT !.ckpt = [trie |-> localTrie, synced |-> IF synced THEN "yes" ELSE "no"]]
    IN  /\ lock = "checkpoint"
        /\ lock' = "free" /\ batch' = 0
        /\ view' = s /\ disk' = s
        /\ IF synced /\ RootAccepted
           THEN /\ syncStage' = WithStage("mptSynced")
                /\ blockHeight' = getLatestSavedBlock(s, syncPoint)
                /\ UNCHANGED fetcher
           ELSE /\ fetcher' = IF synced THEN "stopped" ELSE fetcher
                /\ UNCHANGED <<syncStage, blockHeight>>
        /\ UNCHANGED <<mode, root, syncPoint, mptpool, billet, localTrie, object,
                       nodes, calls, work, leaf, exposed, crashes>>

-----------------------------------------------------------------------------
(* Blocks and the jump.                                                    *)

\* Mutant: the block at the point does not count.
IsLastBeyond(b) == b > syncPoint

IsLast(b) == b = syncPoint

\* Block b, whose hash the header chain confirms, in one change set with its
\* index; the last one is persisted at once.
AddBlock(b) ==
    LET s == [view EXCEPT !.blocks = @ \union {b}, !.current = b]
    IN  /\ lock = "free"
        /\ syncStage = {"headersSynced", "mptSynced"}
        /\ blockHeight # syncPoint /\ b = blockHeight + 1
        /\ view' = s
        /\ blockHeight' = b
        /\ IF IsLast(b)
           THEN /\ disk' = s
                /\ syncStage' = WithStage("blocksSynced")
                /\ lock' = "jump"
           ELSE UNCHANGED <<disk, syncStage, lock>>
        /\ UNCHANGED <<mode, root, syncPoint, mptpool, billet, localTrie, object, fetcher,
                       nodes, calls, work, leaf, batch, exposed, crashes>>

\* checkSyncIsCompleted; jumpCallback persists the new height.
Jump ==
    LET s == [view EXCEPT !.chain = syncPoint]
    IN  /\ lock = "jump"
        /\ lock' = "free"
        /\ view' = s /\ disk' = s
        /\ syncStage' = {"inactive"}
        /\ UNCHANGED <<mode, root, syncPoint, blockHeight, mptpool, billet, localTrie, object,
                       fetcher, nodes, calls, work, leaf, batch, exposed, crashes>>

-----------------------------------------------------------------------------
(* The environment: Run persists, the process dies.                        *)

Flush ==
    /\ disk' = view
    /\ UNCHANGED <<mode, root, ram, handler, view, exposed, crashes>>

\* Some of the writes for a node are missing: a reference for one of the places
\* to which the stored nodes lead, or the item of a leaf.
Torn(s) ==
    \/ \E n \in Nodes : s.count[n] # Cardinality({p \in PathsTo(n) : Known(s, p)})
    \/ s.items # {p \in LeafPaths : Known(s, p)}

\* Everything has been collected and the jump has not begun.
AllCollected(s) ==
    /\ s.point # 0 /\ s.chain = 0 /\ HeadersFetched(s, s.point)
    /\ Enough(s) /\ getLatestSavedBlock(s, s.point) >= s.point

Crash ==
    /\ crashes < MaxCrashes
    /\ crashes' = crashes + 1
    /\ view' = disk
    /\ syncStage' = {"none"} /\ syncPoint' = 0 /\ blockHeight' = 0
    /\ mptpool' = {} /\ billet' = {} /\ localTrie' = <<>>
    /\ object' = [of |-> "state", height |-> 0] /\ fetcher' = "on"
    /\ lock' = "free" /\ nodes' = <<>> /\ calls' = <<>> /\ work' = <<>> /\ leaf' = <<>> /\ batch' = 0
    /\ exposed' = exposed
         \union (IF Torn(disk) THEN {"cut"} ELSE {})
         \union (IF ~Readable(disk, disk.ckpt.trie) THEN {"ahead"} ELSE {})
         \union (IF AllCollected(disk) THEN {"collected"} ELSE {})
         \union (IF disk.ckpt.synced = "yes" /\ disk.ckpt.trie # HeaderRoot THEN {"mismatch"} ELSE {})
    /\ UNCHANGED <<mode, root, disk>>

Initialize == \E h \in Heights, o \in Objects : InitModule(h, o)
FetchHeaders == \E k \in 1 .. MaxHeight : AddHeaders(k)
FetchNodes == \E p \in mptpool : AddMPTNodes(<<NodeAt(p)>>)
OtherNodes == \E message \in Messages : AddMPTNodes(message)
Restore ==
    \/ NextNode
    \/ StoreNode
    \/ StoreItem
    \/ \E c \in Nodes : RestoreChild(c)
    \/ NodesDone
FetchBlocks == \E b \in 1 .. MaxHeight : AddBlock(b)

Next ==
    \/ Initialize
    \/ FetchHeaders
    \/ FetchNodes
    \/ OtherNodes
    \/ Restore
    \/ AddContractStorageItems
    \/ FlushTrie
    \/ PutCheckpoint
    \/ FetchBlocks
    \/ Jump
    \/ Flush
    \/ Crash

\* The server keeps asking its peers for what the module needs, the fetcher
\* sends the batches of its object, and a handler that runs goes on.  The lock of
\* the module is a sync.RWMutex: a handler that waits for it gets it, whatever other
\* messages arrive.
Fairness ==
    /\ WF_vars(Initialize)
    /\ WF_vars(FetchHeaders)
    /\ SF_vars(FetchNodes)
    /\ WF_vars(Restore)
    /\ WF_vars(AddContractStorageItems)
    /\ WF_vars(FlushTrie)
    /\ WF_vars(PutCheckpoint)
    /\ WF_vars(FetchBlocks)
    /\ WF_vars(Jump)

Spec == Init /\ [][Next]_vars /\ Fairness

-----------------------------------------------------------------------------
\* The type of every variable; syncStage combines only the flags the comments
\* on stateSyncStage allow together.
TypeOK ==
    /\ mode \in Modes
    /\ syncStage \in {{}, {"inactive"}, {"none"}, {"initialized"}, {"headersSynced"},
                      {"headersSynced", "mptSynced"},
                      {"headersSynced", "mptSynced", "blocksSynced"}}
    /\ syncPoint \in 0 .. MaxHeight /\ blockHeight \in 0 .. MaxHeight
    /\ mptpool \subseteq Paths /\ billet \subseteq Paths /\ work \in Seq(Paths)
    /\ localTrie \in Seq(Objects)
    /\ fetcher \in {"on", "stopped"}
    /\ lock \in {"free", "nodes", "trie", "checkpoint", "jump"}
    /\ nodes \in Seq(Nodes \union {Bad}) /\ calls \in Seq(SUBSET Nodes \ {{}})
    /\ {view.header, disk.header, view.current, view.chain} \subseteq 0 .. MaxHeight
    /\ \A s \in {view, disk} : s.items \subseteq LeafPaths /\ s.kvs \in Seq(Objects)
    /\ exposed \subseteq {"cut", "ahead", "collected", "mismatch", "low", "object", "panic",
                         "stalled"}

\* The whole state of the point is in s: every node with one reference per
\* path, every leaf as an item; or every raw item and the trie of them all.
StateWhole(s) ==
    IF mode = "MPTBased"
    THEN (\A n \in Nodes : s.count[n] = Cardinality(PathsTo(n))) /\ s.items = LeafPaths
    ELSE s.kvs = HeaderRoot /\ Readable(s, HeaderRoot)

\* Paths that lead through stored nodes only to one that is not stored.
Frontier(s) ==
    {p \in Paths : NodeAt(p) \notin Stored(s) /\ (p = <<>> \/ Known(s, Front(p)))}

\* Requests: while nodes are asked for, the pool is exactly the frontier of what is
\* stored, so that nothing is asked for twice and the pool is empty only when the
\* trie is complete; it is so again after a restart whose Traverse gets through.
\* Restoring: RestoreHashNode meets none of its errors and panics, and over any
\* restarts no reference count exceeds the number of the node's paths ("Any pair
\* (node, path) must be restored only once", Billet).  When the handler returns,
\* every stored node has the reference of every path that leads to it and every
\* leaf its item, unless a crash had met a part of a handler's writes.
PoolIsFrontier ==
    /\ TypeOK
    /\ (mode = "MPTBased" /\ syncStage = {"headersSynced"} /\ lock = "free") =>
            mptpool = Frontier(view)
    /\ \A p \in ToSet(work) : RestoreResult(p) = "ok"
    /\ \A s \in {view, disk}, n \in Nodes : s.count[n] <= Cardinality(PathsTo(n))
    /\ (lock = "free" /\ "cut" \notin exposed) => ~Torn(view)

\* When the module says that the state is synchronised, the whole state that
\* the header of P+1 names is stored and durable.  Not so after a crash that
\* met a part of a handler's writes in the database, or a checkpoint of other
\* contents.
SyncedIsWhole ==
    (exposed \intersect {"cut", "mismatch"} = {} /\ "mptSynced" \in syncStage) => StateWhole(disk)

\* Data collected for a point is never in the database without the point: a
\* restart resumes that point instead of mixing its data with another one's,
\* and the blocks stored follow one another without a gap.
DataHasPoint ==
    \A s \in {view, disk} :
        /\ (Stored(s) # {} \/ s.kvs # <<>> \/ s.blocks # {}) => s.point # 0 /\ s.genesis = "no"
        /\ s.blocks # {} => /\ s.blocks = Min(s.blocks) .. s.current
                            /\ Min(s.blocks) = Max({1, s.point - MaxTraceableBlocks + 1})
                            /\ s.current <= s.point

\* A database that says the chain is at P holds the headers up to P+1, all
\* the traceable blocks and the whole state of P, whatever crashes came before
\* (with the exceptions of SyncedIsWhole), and on the way there what is collected
\* always belongs to the stored point.
JumpIsBacked ==
    /\ DataHasPoint
    /\ (exposed \intersect {"cut", "mismatch"} = {} /\ disk.chain # 0) =>
        /\ disk.header > disk.chain
        /\ Max({1, disk.chain - MaxTraceableBlocks + 1}) .. disk.chain \subseteq disk.blocks
        /\ StateWhole(disk)

\* Once the peers answer, the synchronisation ends in the jump, over crashes, unless
\* - Init finds nothing to synchronise or gives up, or a state object is not the
\*   header's state;
\* - a restart meets everything collected, a newer state object, a lower height of
\*   the network, a checkpoint of a trie that has been replaced ("ahead"), or a
\*   stored node that waits on several paths, at which Traverse panics ("panic");
\* - bytes that are no node follow the last missing node in a message, which leaves
\*   an empty pool behind ("stalled").
EventuallyJumps ==
    <>(\/ view.chain # 0
       \/ syncStage = {}
       \/ syncStage = {"inactive"} /\ view.genesis = "yes"
       \/ exposed \ {"cut"} # {}
       \/ ToSet(view.kvs) \ {"state"} # {})

\* A restart gets through its Traverse ("if this situation occurs, then it's a bug
\* in MPT pool or Traverse", defineSyncStage).
TraverseGetsThrough == "panic" \notin exposed

\* A restart can go on from its checkpoint.
CheckpointUsable == "ahead" \notin exposed

\* While nodes are awaited there is one to ask for.
SomethingRequested ==
    (mode = "MPTBased" /\ syncStage = {"headersSynced"} /\ lock = "free") => mptpool # {}

\* A restart that finds everything collected still jumps: the node never goes
\* on with regular block processing from a genesis whose MPT nodes are gone
\* ("Once all the data are collected and stored in the db, an atomic state jump
\* is occurred").
CollectedJumps ==
    syncStage = {"inactive"} => (view.chain # 0 \/ view.genesis = "yes")

\* SyncedIsWhole without its first exception: a crash at any point between
\* two writes leaves the restart all it needs ("flush right now, because sync
\* process can be interrupted at any time").
InterruptedIsWhole ==
    ("mismatch" \notin exposed /\ "mptSynced" \in syncStage) => StateWhole(disk)

\* SyncedIsWhole without its second exception: contents that AddContractStorageItems
\* has refused with "state root mismatch" are not the state of the node later.
RefusedStaysRefused ==
    ("cut" \notin exposed /\ "mptSynced" \in syncStage) => StateWhole(disk)

\* A stored point that is still valid is synchronised after a restart ("old
\* point is still valid, so try to resync states for this point").
ResumedCompletes ==
    ("object" \in exposed) ~> (view.chain # 0 \/ syncStage = {} \/ exposed # {"object"})
=============================================================================
