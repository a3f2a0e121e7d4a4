# Formal model of neo-go

neo-go is a full node of the Neo N3 blockchain. This directory models the parts
of it where state, concurrency and failures meet: TLA+ modules translated from
the Go code, TLC configurations that check them on small instances, and proofs
for TLAPS of the results that matter most. Paths below are relative to `src/`;
`PROJECT.json` maps every definition to its lines. The repository is large (VM,
compiler, RPC, wallet, CLI): what is modelled is about 7% of its lines, most of
it in `pkg/core` and `pkg/services`; section 7 says what is missing.

## 1. The system

| Part | State | Operations | Works with | What is hard |
|---|---|---|---|---|
| `storage.MemCachedStore` | two maps of changes, the store below, a temporary store during a persist | Get, Put, Delete, PutChangeSet, Seek, Persist, PersistSync, PersistPrivate | the DAO above, a database below | readers and writers go on during a persist; the database may refuse the batch; the process may die |
| `performSeek` | a sorted snapshot of a layer, the iteration below | Seek in both directions, early stop, cut prefixes | MemCachedStore | merging two ordered streams with deletions |
| `mempool.Pool` | sorted list, map, fees per payer, conflicts, oracle ids | Add, Remove, RemoveStale | chain (balances, policy), events | five structures kept in step by hand; a full pool; unsigned sums |
| pool and chain events | lock holders, channels, subscribers, what is to be persisted | PoolTxWithData, storeBlock, persist, both dispatchers, the service's main loop | mempool, chain, notary | unbuffered channels served while locks are held; a condition that is signalled without its lock |
| `bqueue.Queue` | a ring, its length, the last index queued, a signal channel | Put (two modes), Run, Discard, LastQueued | server, chain | heights read before the lock, dropped signals, slots shared by indexes |
| block requests of `network.Server` | last requested block | requestBlocks, handleBlockCmd | queue, peers | lost, late and repeated answers |
| ledger storage in `core.Blockchain` | DAO cache and disk, header hash pages, GC position | AddHeaders, AddBlock/storeBlock, persist timer, tryRunGC, init | MemCachedStore | deletions that bypass the cache; crashes between a persist and a collection; rounding |
| state jump and reset | stage marks, storage prefix, pages, records | jumpToStateInternal, resetStateInternal, init | MemCachedStore, state root module | several persists per operation, resumption after a crash, two goroutines |
| `core/mpt`, `core/stateroot` | nodes in memory, stored nodes with reference counters, one root per height | Put, Delete, PutBatch, Flush, Collapse, Find, Seek, proofs; AddMPTBatch, GC, ResetState, Init | MemCachedStore, the chain | nodes shared by many roots, counters that come from several places, nodes that were collapsed and are loaded again |
| `core/statesync` | stage, sync point, pool of unknown nodes, billet | Init, AddHeaders, AddMPTNodes, AddContractStorageItems, AddBlock, the jump | ledger, server, NeoFS fetcher | two ways to collect the state, checkpoints, crashes at any step |
| `services/stateroot`, `core/stateroot` validators, `network/extpool` | incomplete roots, signatures, key history, pooled payloads | AddSignature, sign and send, retries, OnPayload, AddStateRoot; Add, Get, RemoveStale | chain, network | votes before the own block, a list that changes, goroutines that recreate what was dropped |
| native NEO (`native_neo.go`) | balances, votes, candidates, turnout, rewards, committee, caches | transfer, vote, registerCandidate, unregisterCandidate, setGasPerBlock, OnPersist, PostPersist, InitializeCache | Policy (blocked accounts) | sums kept by differences, rewards per vote of dropped candidates, caches against storage |
| `services/notary` | requests by main transaction, queue of finished transactions | OnNewRequest, OnRequestRemoval, PostPersist, the sending loop, UpdateNotaryNodes | pool events, chain, network | three goroutines, a bounded queue, sends without the lock |
| consensus callbacks, oracle, peers, discovery, block fetcher | | | network | expiry, retries, timeouts |
| VM, other native contracts, RPC, wallet, compiler, CLI | | | | sequential code on large data |

All but the last two rows are modelled; `PROJECT.json` lists every part with
what is left out of it. "Hazards" there names, line by line, what can go wrong
and which property would show it.

## 2. Modules

| Module | Models | Remarks |
|---|---|---|
| `DurableKV` | what MemCachedStore promises | one map, one disk, writes visible at once, a flush atomic, a crash back to the disk |
| `MemCachedStore` | `memcached_store.go` | a heap of Go maps, so that a Seek can keep a map that persist has left; persist in four steps; Seek in three reads |
| `SeekMerge` | `performSeek` | one action per turn of the merge loop, keys are byte sequences |
| `MemPool` | `mem_pool.go` | every operation runs under the pool's lock: one action each, built from operators with the names of the code's methods |
| `PoolEvents` | sends and receives around the pool, storeBlock's wait for a persist | a send on an unbuffered channel and its receive are one step; `bc.lock` prefers a waiting writer, like `sync.RWMutex` |
| `BlockQueue` | `queue.go` | a critical section is a step, reads outside it are steps of their own |
| `BlockSync` | `requestBlocks`, `handleBlockCmd` | extends `BlockQueue`: server and queue composed, peers external |
| `Ledger` | `blockchain.go`, `headerhashes.go` | blocks, headers and pages are indices; `view` is the DAO cache over `disk` |
| `StateChange` | jump, reset, resumption | one action per stage; contract items under a prefix are none, part, old or new |
| `Trie` | the algorithms of `core/mpt` | pure operators, recursive; a hash is the tree it stands for, so a node in memory is a tree some parts of which are hash nodes |
| `StateTrie` | `stateroot/module.go` over `Trie` | blocks that put and delete keys, one at a time or as a batch, in the three modes of the store (all states, the latest, collected); restarts, collapses, collections, resets |
| `StateSync` | `statesync/module.go`, its pool, the billet, the parts of server and fetcher that feed it | the trie is a graph of hashes, a place in it a path; restoring is one step per path and per item, the flush of the local trie and the checkpoint are two; a restart runs the code's Traverse, panic included; `view` and `disk` as in `Ledger`; crashes at any step |
| `ExtensiblePool` | `extpool/pool.go` | lists per sender with a limit, expiry |
| `StateRoots` | the state root service, AddStateRoot, key history | extends `ExtensiblePool`; one block; several nodes, each with its goroutines, and a network that loses, delays and reorders |
| `NeoToken` | `native_neo.go` | one action per method, one per block; storage and cache are different variables |
| `Notary` | `notary.go`, `node.go` | the three goroutines; PostPersist holds the lock over several steps; witnesses by one or several keys or by a contract |

`MC...` modules give the constants values. `MemCachedStoreProofs`,
`StateChangeProofs`, `BlockQueueProofs`, `LedgerProofs`, `NeoTokenProofs`,
`NotaryProofs`, `NotaryOrderProofs` and `PoolEventsProofs` hold the proofs.

How the parts fit together. `DurableKV` is what `Ledger`, `StateChange`,
`StateSync` and `StateTrie` assume of the store: changes enter `view`, one step
makes `disk` equal to it, a crash makes `view` equal to `disk`. `SeekGC` of the
database is the exception and is modelled as a change of the disk. `StateSync`
ends where it calls the jump, whose stages are `StateChange`. The contents of
the nodes it restores are `Trie`'s business. `PoolEvents` takes from `MemPool`
only that an operation adds or removes a transaction; `Notary` takes from
`PoolEvents` that it receives one event per change of the pool.

Definitions under a comment "Mutant" are wrong on purpose: each is a plausible
mistake in the definition that follows it, and replacing that definition by it
makes TLC report the property it is listed with. A property with several parts
has a mutant for each.

## 3. Runs

| Run | Instance | Distinct states | Shows |
|---|---|---|---|
| `store` | 2 keys, 1 value, 3 maps, 1 Seek, change sets that treat the keys alike | 715160 | the cache over the database implements `DurableKV`: no step of persist is visible, a failed one loses nothing, a crash leaves a whole earlier state; and a Seek answers with values the keys held while it ran, though it reads three layers at three moments |
| `mempool` | 8 transactions of 2 payers, with conflicts and oracle answers, 3 balances, capacity 3, 2 policies | 1962 | map, list, conflicts, oracle ids and order agree, fees are exact and covered, no conflict is pooled, every eviction is justified |
| `pool_events` | 2 pooling goroutines, 2 requests | 106668 | pooling, storing a block, persisting and the service wait for each other and still go on, although storeBlock may miss the signal of a persist; events account for the pool |
| `queue` | ring of 2, indexes to 4, 1 bad, 1 block from elsewhere, Discard | 123468 | the window, the room, no pending element lost, the next one applied |
| `block_sync` | ring of 4, chunks of 2, 1 answer lost | 123690 | the node reaches its peers' height |
| `ledger` | pages of 2, period 2, MaxTraceableBlocks 4, interval 3, 17 blocks, 1 crash, a cache of one page | 941487 | the node can be restarted at any moment, traceable blocks are kept and found, the blocks a synchronising peer needs are kept (but for the first two intervals), the storage is bounded |
| `state_change` | target 1 of 8 blocks and 11 headers, pages of 2, batches of 2, 4 crashes | 849 | the live contract storage is whole at every moment, the change is all or nothing, a jump resumes and leaves the trie ready, the operation finishes |
| `state_trie` | 4 keys of two digits, one the beginning of others; 2 values; up to 3 blocks; 3 modes; Collapse at depth 1 | 303823 | the root is a function of the items, whatever led to them; counters are exact; kept states can be read, searched and proved. The same run takes performSeek through every content of two layers over 4 keys, both directions, 3 starts, 3 limits, with and without cutPrefix: it delivers their overlay |
| `state_sync` | 9 blocks, interval 2, two tries (a leaf with two parents; an inner node at three places), messages of one or two nodes, some known, some followed by bytes that are none, 3 items in batches of 2, 2 crashes, both ways | 314711 | the pool is the frontier of what is stored, also after a restart, and no node is restored too often; a synchronised node, and one that jumped, has all it claims; a node jumps in the end, with the exceptions `EventuallyJumps` names |
| `state_roots` | 2 or 3 running nodes of 4, lists of 1 to 4 validators, 6 worlds (timely or not, differing states, a list that changes), 1 payload lost, 1 retry | 146083 | a validated root has a quorum of signatures of one list of validators, all of whom computed it, the first sender never forgets to send, in good time everybody has the root |
| `neo_token` | 2 accounts, 2 NEO, 3 keys, committee of 2, 4 blocks, 5 calls, 1 restart | 817991 | balances, votes and turnout add up, voters have a candidate, holders are paid once for each block, rewards only grow, the committee is what the votes say |
| `notary` | 1 main transaction with 3 witnesses (2 of 2 keys, 1 key, a contract), 3 requests, queue of 1 | 50138 | main transactions are queued and taken for submission complete, once, and below the height of every waiting fallback; no fallback is lost, each is resolved |

Type invariants are conjuncts of the first invariant of a run (for
`MemCachedStore` the type invariant is a theorem).

Bounds. Every bound is a constant named in its module. They are chosen from the
branches: a ring of two slots lets indexes one length apart meet in a slot, and
indexes to 4 let that happen twice; a pool of 3 is full with all the rivals of an
arrival in it or not; pages of 2 and 17 blocks let the collector remove several
pages and stop at each place of a page, and a period below the interval lets it run
between two synchronisation points, as the defaults do (10000 and 40000); four crashes interrupt every pair of
stages and the resumption itself; a notary queue of one is full with the first
transaction in it. Two digits instead of 16 keep every shape of a node (branch
with and without value, extension, leaf, empty) and every merge of them; the
keys give branches at the root and below, a value in a branch and two equal
subtrees; Collapse at depth 1 cuts what the code's depth of 10 cuts in a large
trie. The tries of `state_sync` have a leaf with two parents and an inner node that
is a child of the root and twice one of another branch, so that stored children are
found at several paths; checkpoints fall within and at the end of the items. Four NEO blocks are two epochs of the
committee. Word sizes are scaled down with the amounts (`Word` is 64 in
`MemPool`, 1000 in `Ledger`), so that sums wrap where the code's would.

Deadlock is checked for the store, the trie, the state synchronisation, the
notary and the events (where the persist timer always goes on, so that only
`NobodyStuck` tells). The others may stop: the pool when nothing more arrives, the queue after
Discard, the chain at its bound, an operation when it is over, the validators after the last retry.

## 4. Fairness

Fairness is one formula per goroutine, never more than Go's scheduler, a timer
or the network's retries give.

* `BlockQueue`: weak fairness of Run only, as long as the process has not
  panicked. Put is not assumed to come.
* `BlockSync`: Run and a running Put go on; strong fairness of requestBlocks for
  each value of its random choice (it is called on every ping and every block,
  and the choice is uniform); strong fairness of an answer to a block that is
  asked for again and again. The number of lost answers is bounded, which is
  what the strong fairness of answers says too.
* `PoolEvents`: goroutines waiting for a lock or at a channel get it eventually
  (`sync.Mutex` is starvation free, `select` chooses at random): strong fairness
  of the pooling goroutines and of storeBlock, weak fairness of the main loop's
  cases. The persist timer fires again and again, and the database does not refuse
  every batch.
* `Notary`: blocks keep coming, the two loops go on, and a submission that is
  tried again and again is not refused for ever.
* `StateChange`: the goroutine of the operation and the one that persists go on.
  Crashes are bounded.
* `StateSync`: the server asks again for what is missing and is answered in the
  end, the fetcher hands over its batches, a handler that runs goes on, a stopped
  node is started again. An answer with a missing node is strongly fair: other
  messages may take the module's lock again and again, but `sync.RWMutex` serves
  who waits for it. Crashes are bounded.
* `StateRoots`: the goroutines of running nodes go on and blocks come up to the
  one that is voted on; what was announced and is not lost is fetched. Nothing
  more is assumed of the network: `TimelyValidated` is about the worlds where it is
  timely.

## 5. Proofs

`MemCachedStoreProofs`, for any keys, values, maps and number of Seeks. The
assumptions on the constants (`StoreAssumption`) only say that the markers are
not values.

* `TypeCorrect`: `Spec => []TypeOK`. In particular the database never holds a
  deletion mark or a gap.
* `Refinement`: `Spec => ImplementsDurableKV`. The map of the abstract
  specification is what Get returns, its disk the database, its snapshot the
  temporary store over the database between the swap and the flush. That a step
  of persist is invisible needs `LayerInv`: there is a temporary store exactly
  while a persist runs, it is not the map that takes the writes, and once it is
  flushed the database agrees with all of it, so dropping it changes nothing.
* `SeekSoundness`: `Spec => []SeekSound`. `SeekInvAt` says, for a key a running
  Seek has not settled yet, that whatever it is still going to read, the captured
  map, the database, or the database after the pending flush, was held by the
  key while it ran. The temporary store of a failed persist is changed while the
  Seek may read it (see 6); the theorem shows that the answer is still right.

`StateChangeProofs`, for any heights, page size, batch size and number of
crashes (`StateChangeAssumption`: the target is between genesis and the current
height).

* `TypeCorrect`: `Spec => []TypeOK`.
* `StorageWhole`: `Spec => []LiveStorageWhole`. The property looks at the disk
  only; the invariant has to say what each stage mark promises, in the cache and
  on the disk (`StorageInv`: a reset marked newStorageItemsAdded has all new items
  under the other prefix; a jump not past its first stage has both sets), what
  the goroutine knows at its stage (`StageInv`), and how far the disk can be
  behind it (`LagInv`: when SeekGC runs, the switch of the prefix has reached the
  disk, since the hand-over of the next stage had to wait for the persisting
  goroutine). With a buffered channel `LagInv` fails, which is the mutant
  `ResetSendBuffered`.
* `AllOrNothingHolds`: `Spec => []AllOrNothing`, and `JumpResumesHolds`: `Spec =>
  []JumpResumes`. Both are about what is left after crashes at any moments, so the
  invariant says, for each stage on the disk, which of the old and of the new state is
  complete there and what a start that finds that stage still has to do. The second theorem assumes `HeaderHeight + 1 >= Batch`: the chain has
  one full page of header hashes (2000), which a node that has reached its
  synchronisation point has. On a shorter chain it is false (see 6).

`BlockQueueProofs`, for a ring of any size, any elements, both modes and any
number of goroutines in Put (`QueueAssumption`: sizes are numbers, indexes start
above the chain's start).

* `QueueTyped`, `QueueInWindow`, `QueueNoRoomInvented` and, from them,
  `QueueRingSound`: no slot holds an element beyond the window above the chain, at
  another place than its own, or that `len` has not counted. `QueuePendingKept`:
  no step removes or replaces a good element the chain still needs, unless blocks
  came from elsewhere or the queue is discarded.
* The invariant is `TypeOK /\ InWindow /\ HeightsRead /\ HeldIsNext`: heights that
  a Put read before it took the lock are not above the chain, and the element that
  Run took out of the lock is the one after the height it read. Two indexes in one
  slot are a ring apart (lemma `SameSlot`), so with both facts no Put can replace
  what Run is adding.
* The room is for rings of two slots or more. In a ring of one slot Put stores
  over the element Run has just added and does not count it again; the code's ring
  has 2000.

`LedgerProofs`, for a chain of any length, any page size, period, interval and number
of restarts (`LedgerAssumption`: MaxTraceableBlocks is a positive uint32, and twice the
chain fits into one).

* `AlwaysRestartable`, when no value of MaxTraceableBlocks is below a page of header
  hashes; `TraceableAlwaysKept`, when MaxTraceableBlocks does not change;
  `SyncPointAlwaysKept`, under the same hypothesis, for any period and interval;
  `StorageAlwaysBounded`, when MaxTraceableBlocks does not change and is at least a page
  and a period, and no multiple of the period is the last hash of a page. TLC shows
  what happens without the hypotheses (section 6: `LowMTB`, `MCLedgerMTB`, the row on
  Batch = 3). The defaults, 2102400 blocks, pages of 2000, a period of 10000 and an
  interval of 40000, satisfy all of them.
* What `SyncPointKept` excepts (`EarlyBlocks`) depends on the constants: nothing when the
  period is not shorter than the interval, else the blocks of the first two intervals.
  The proof has to follow the subtraction of `tryRunGC` past its wrap: then the height
  alone gives the target, and that is below the end of the second interval
  (`SyncTarget`).
* The invariant is `LedgerInv(L)`: from L blocks below the persisted height on, headers,
  blocks and full pages are there, in the cache and on the disk, and a collection under
  way has a target that far below. It is inductive for every L not above
  MaxTraceableBlocks; the first theorem takes a page for L, the others
  MaxTraceableBlocks itself. The bound needs what the collector has to find again
  (`Reachable`): where it stopped is not above any block that is left, and the full pages
  these blocks are in are stored.
* The attempt to prove the bound showed that two periods, as it was stated first, are
  not enough: a target of one period is passed over, and when MaxTraceableBlocks is not
  a multiple of the period (2102400 and 10000 are not) that costs a third. It also
  showed where the collector depends on the cache of pages: removeOldHeaderHashes
  deletes the page that ends with the target while the block of the target is still
  there. The next collection finds it through the cache of 8 pages unless other callers
  have pushed the page out. With pages of 2000 and a period of 10000 no target ends a
  page, which is the last hypothesis; the action `GetHeaderHash` and the constant
  `PagesCache` are in the model for this.

`NeoTokenProofs`, for any finite set of accounts and keys, any
rates, committee size and number of blocks (`NeoTokenAssumption`).

* `CommitteeIsElected`: `Spec => CommitteeElected`. What the step into an epoch
  takes over is a value cached some blocks before. `EpochInv`: it is what the votes
  elect as long as votesChanged is not set, and at the last block of an epoch in any
  case; a restart recomputes it.

`NotaryProofs` and `NotaryOrderProofs`, for any main transactions, witnesses, requests
and channel capacity (`NotaryAssumption`, `NoneAssumption`: a signature witness needs at
least one signature; `None` is no request).

* `NotaryTyped`, `NotaryWaitingArePooled` and `NotaryFallbackKept`. The invariant is
  `Shape /\ Marked /\ Stored /\ BoundIsLow`. A pair in the channel carries the signatures
  its main needs although the request may have changed since (`Shape`); while the sending
  loop is outside the lock its request is in the map or known to be gone, and an accepted
  main is marked or about to be (`Marked`); without an account only requests stored too
  late wait (`Stored`); minNotValidBefore is at most the height of every waiting fallback
  (`BoundIsLow`).
* `NotaryMainsSentRight`: `Spec => MainsSentRight`, about what enters the queue and what
  the sending loop takes out of it, at which height. It needs besides that a fallback is
  accepted only at or above minNotValidBefore, so that once one was, the main transaction
  is not taken any more (`Turned`).

`PoolEventsProofs`, for any finite number of pooling goroutines and any requests
(`PoolEventsAssumption`: `None`, the goroutines and the holder name of storeBlock are
different).

* `PoolEventsAccount`: `Spec => []EventsAccountForPool`. The sum counts events at the
  dispatcher and goroutines about to send (`Balanced`). That a step keeps it needs
  `Locked`: who is between taking a request out of the pool and announcing that holds
  the pool's lock, so that what it found in the pool, or not in it, is still so.

The strengthened invariants hold in TLC as well. Liveness (`NextApplied`,
`EveryBlockFetched`, `NobodyStuck`, `FallbackResolved`, `Finishes`, `EventuallyJumps`,
`TimelyValidated`) is out of the prover's reach. So is `Trie`, whose operators are
recursive, with what is checked over it (`RootIsCanonical`, `CountsAreUses`,
`StatesReadable`, `SearchesComplete`). The pool (`IndexesAgree`, `FeesExact`,
`NoConflictPooled`, `EvictionJustified`), performSeek (`SeekIsOverlay`), the state
synchronisation (`PoolIsFrontier`, `SyncedIsWhole`, `JumpIsBacked`), the state roots
(`RootsBacked`, `FirstTurnSends`) and of NEO `BalancesAddUp`, `HoldersPaid` and
`RewardsGrow` are model-checked only.

## 6. Where the code and its comments disagree

A passing run's property that excludes a case where the code does not do what it
says names the exception in its comment, and another property states it without
the exception. These are violated. Some have a configuration of their own; for
the others, take the run's configuration with the changes given.

| Configuration | Property | Disagreement |
|---|---|---|
| `ledger` | `SyncPointAlways` | `blockchain.go:1395` subtracts in `uint32`; while the second latest synchronisation point is below MaxTraceableBlocks the bound wraps, and blocks above "P2-MaxTraceableBlocks" (1389) are collected |
| `MCStateChangeReset` | `ResetResumes` | DeleteBlock removes the header with the block (1052), so a reset interrupted after a persisted batch cannot be resumed, against "Keep headers for now" (1043) |
| `MCLedgerMTB` | `TraceableKept` | a lowered MaxTraceableBlocks is used before it is persisted; the comment at `blockchain.go:1380` expects extra blocks at worst |
| `MCMemPoolRepeat` | `FeesCovered` | a pooled transaction that the arrival names in two Conflicts attributes is deducted twice (`mem_pool.go:585`), against the comment at 594 |
| `MCStateRootsKeys` | `KeysOfHeight` | getKeyCacheForHeight wants the next entry to be below the height (`validators.go:32`): a height before the last designation gets no keys, or those of an older list |
| `MCStateSyncCollected` | `CollectedJumps` | a restart that finds all the data collected does not jump, and the node goes on from genesis (`module.go:347`) |
| `MCStateSyncCut` | `InterruptedIsWhole` | "flush right now, because sync process can be interrupted at any time" (`billet.go:179`): a persist may fall between the writes of the places of one node, and after a stop the restart does not ask for the rest |
| `MCStateSyncRefused` | `RefusedStaysRefused` | the checkpoint says IsMPTSynced and is persisted (`module.go:587`) before the root is compared with the header's (600); items that are then refused are taken for the state after a restart |
| `MCStateTrieReset` | `NeverFails` | with collection of old states, ResetState leaves nodes inactive that the old root uses; the next batch fails on them |
| `MCStateTrieSeek` | `SeekIsSorted` | "items are sorted by key in ascending way" (storage.Store): the trie shows a key after the keys it is the beginning of, and turns the comparison with Start round |
| `state_trie`, Limits = {} | `PagesComplete` | for the same reason findstates called page by page misses a key that is the beginning of others |
| `state_trie` | `SeekIsWhole` | with cutPrefix, which the DAO sets (`dao.go:413`), the layer's last key has lost its prefix when it is compared with a key of the store below (`memcached_store.go:274`, `:289`), and that key is skipped |
| `state_sync` | `ResumedCompletes` | "old point is still valid, so try to resync states for this point": after a restart the fetcher takes the object of the newest point, whose items do not lead to the stored one, and the node does not get there |
| `state_sync` | `TraverseGetsThrough` | "if this situation occurs, then it's a bug in MPT pool or Traverse" (`module.go:292`): the callback of the first visit takes all paths of a node out of the pool, the next path of the same node finds none, and the restart panics |
| `state_sync` | `CheckpointUsable` | the local trie is flushed, and its old root with it dropped, before the checkpoint that names the new one (`module.go:578`, `:586`); a persist in between leaves a checkpoint whose root is gone, and the next batch fails on it (`:575`) |
| `state_sync` | `SomethingRequested` | a node that cannot be decoded ends AddMPTNodes (`module.go:519`) before it looks at the pool; if the nodes before it were the last missing ones, nothing is requested any more (`server.go:1159`) |
| `state_roots` | `EveryTurnSends` | a root is only sent from AddSignature and signAndSend, so a node whose turn comes later has nothing that makes it send (`network.go:77`) |
| `state_roots` | `EntryDropped` | a vote handled after the entry was dropped creates it again, and nothing drops it any more |
| `neo_token` | `CacheIsStorage` | the cached reward of a dropped candidate is looked for under another key than the one it is stored with (`native_neo.go:758`) |
| `neo_token` | `CommitteeElectedAlways` | blocking an account does not set votesChanged, but a start does (`native_neo.go:368`): a node that restarts elects another committee than one that does not |
| `store`, without SYMMETRY | `CapturedFrozen` | "nothing ever changes it" of tempstore (`memcached_store.go`, persist); a failed persist copies new entries into it |
| `mempool`, Policies = {1}, Capacity = 2 | `OracleIndexExact` | "ids of oracle responses for the tx in the pool" (`mem_pool.go:65`); Add stores the id (230) before it finds out that there is no room (260) |
| `mempool` | `PolicyRespected` | loadPolicy only follows a growing fee per byte (`mem_pool.go:424`) |
| `pool_events`, Spec | `EventsInOrder` | additions are announced after the unlock (`mem_pool.go:304`), so a removal can be announced first |
| `pool_events` | `ShutdownReturns` | the main loop sends to unsubCh (`notary.go:185`) while the dispatcher sends to it (`subscriptions.go:64`) |
| `queue`, Spec, NonBlocking, MaxExternal = 0, Bad = {} | `CapacityExact`, `LastQueuedCurrent` | len and lastQ are adjusted for some of the cases only (`queue.go:179`, `:181`) |
| `queue`, Spec, MaxExternal = 0, Bad = {} | `DiscardFinal` | a blocked Put looks at discarded before it takes the lock again (`queue.go:170`) |
| `block_sync`, Bad = {1} | `EveryBlockFetched` | lastQ has moved past a block the chain refused, and it is not asked for again (`server.go:1468`, comment at 1451) |
| `ledger`, Batch = 4, GCPeriod = 1, LowMTB, Interval = 0, MaxHeight = 14 | `Restartable` | MaxTraceableBlocks below a page of header hashes: the page a start needs is collected |
| `ledger`, Batch = 3, MTBs = {5}, Interval = 0, MaxHeight = 20, MaxCrashes = 0 | `StorageBounded` | the page that ends with the target of a collection is deleted before the block of the target is (`blockchain.go:1618`); once it has left the cache of pages the block stays for ever |
| `ledger`, Batch = 2, GCPeriod = 1, OneMTB, Interval = 0, MaxHeight = 12 | `CollectedAcrossRestart` | deletions lost in a crash are not repeated; `docs/node-configuration.md:36` says only the last blocks are stored |
| `state_change`, Spec, JumpOnly, MaxCrashes = 2 | `JumpAtomic` | Version and stage mark are two Puts (`blockchain.go:784`), and the persist timer may come in between |
| `state_change`, Spec, ResetOnly, MaxCrashes = 2 | `MptAfterResume` | a reset resumed from its last stage leaves the state root module without a trie |
| `notary`, Spec | `MainNeverLate` | "We stop trying to send the mainTx to the network if the chain reaches the minNotValidBefore height" (`notary.go:96`): the height is read before the lock is given up for the submission |
| `notary`, Spec | `WaitingAlwaysPooled` | the account is read before the lock (`notary.go:242`): a request enters the map after it was cleared, and its removal from the pool is ignored |
| `notary`, Spec | `FallbackNotForgotten` | "wait for the next block to resend them" (`notary.go:393`); fallbacks of a request that left the map meanwhile are not |
| `notary`, Spec | `MinNVBExact` | minNotValidBefore is not raised when the lowest fallback goes (`notary.go:356`, comment at 95) |

On a chain shorter than one page of header hashes a jump that is interrupted after
the old blocks are gone is not resumed: HeaderHashes.init walks back to the genesis
header (`headerhashes.go:117`), which DeleteBlock has removed. `state_change` with
Batch = 30 violates `JumpResumes` that way.

Two more were met on the way and have no property. AddStateRoot sets the
validated height to that of the root that came last, also a lower one
(`stateroot/store.go:79`). A block that is refused after AddMPTBatch
(`blockchain.go:2099`) has already changed nodes that the module's trie shares.

## 7. Not modelled

* Database backends: atomic batch stores with snapshot iteration.
* DAO, block, transaction and node serialisation: records appear as indices or
  values, a hash as what it stands for. MPT and transfer log collection in
  tryRunGC; executing a block is its effect on what a module looks at.
* VM, interops, compiler, CLI, wallet, RPC client and server: sequential code
  on large data, without a protocol state of their own that TLC could enumerate
  in a small instance. Together they are the larger part of the repository, which
  is why the share of its lines that the models cover is small.
* Native contracts other than NEO: deposits of Notary, the request queue of Oracle,
  Designate, Management, GAS and the rest of Policy.
* dBFT itself is an external library; the callbacks of the consensus service only
  make sense with it.
* The oracle service collects responses as `StateRoots` collects votes and sends
  as `Notary` does; its requests over the network are I/O.
* Handshake, send queues, discovery; the downloads of the NeoFS fetchers.
* Metrics, logging and caches of decoded objects have no part in the properties.

## 8. What would come next

1. Models. The oracle service (responses of an unfinished request, retries), peers
   (handshake, send queues, ping timeouts), Notary deposits and Oracle requests as
   native contracts, the validated height of the state root module over several
   blocks.
2. Compositions. `Ledger` over `DurableKV` with keys, so that the two levels are
   connected by refinement; `Notary` over `PoolEvents`; `StateSync` with the stages
   of `StateChange` instead of one jump.
3. Proofs. `MemPool` (`IndexesAgree`, `FeesExact`), whose lists need facts about
   folds; `StateSync` (`JumpIsBacked`); `StateRoots`
   (`RootsBacked`).
