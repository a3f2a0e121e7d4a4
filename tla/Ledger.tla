------------------------------- MODULE Ledger -------------------------------
(***************************************************************************)
(* The block storage of the ledger: headers and blocks entering the DAO    *)
(* cache, the periodic persist, the garbage collector that follows it and  *)
(* a restart from what the disk holds                                      *)
(* (pkg/core/blockchain.go, pkg/core/headerhashes.go).                     *)
(*                                                                         *)
(* A header, a block and a hash are named by their index: the chain is     *)
(* verified before it is stored, so an index has one hash.  The storage is *)
(* what the keys of interest say: which indices have a header or a block   *)
(* record, the current header and block, the MaxTraceableBlocks of the     *)
(* native Policy contract, and the pages of header hashes, named by their  *)
(* first index.  A record is changed through the cache and reaches the     *)
(* disk with the next persist as one batch (MemCachedStore); only the      *)
(* collector's SeekGC deletes hash pages from the disk directly.           *)
(***************************************************************************)
EXTENDS Integers, FiniteSets, FiniteSetsExt

CONSTANTS
    Batch,      \* headerBatchCount, the hashes of a page
    GCPeriod,   \* GarbageCollectionPeriod
    MTBs,       \* the values MaxTraceableBlocks takes
    Interval,   \* StateSyncInterval, 0: P2PStateExchangeExtensions is off
    Word,       \* the modulus of uint32
    PagesCache, \* pagesCache, the size of HeaderHashes.cache
    MaxHeight,  \* bound on the chain
    MaxHeaders, \* bound on the headers of one AddHeaders
    MaxCrashes  \* bound on the restarts

ASSUME LedgerAssumption ==
    /\ {Batch, GCPeriod, PagesCache, MaxHeight, MaxHeaders} \subseteq Nat \ {0}
    /\ Batch > 1 /\ Interval \in Nat /\ MaxCrashes \in Nat
    /\ Word \in Nat /\ Word > 2 * MaxHeight
    /\ MTBs \subseteq 1 .. Word - 1 /\ MTBs # {}

VARIABLES
    view,       \* the storage as seen through the DAO cache
    disk,       \* the storage the last persist left
    newPages,   \* pages of header hashes that are only in the cache
    diskPages,  \* pages of header hashes on the disk
    lru,        \* HeaderHashes.cache, the pages read from the storage
    gcLast,     \* gcLastUntraceableBlockHeight
    gc,         \* the Run goroutine: where it is and tryRunGC's locals
    node,       \* "up", or "failed" when init returned an error
    crashes

vars == <<view, disk, newPages, diskPages, lru, gcLast, gc, node, crashes>>

Index == 0 .. MaxHeight
Storage == [headers: SUBSET Index, blocks: SUBSET Index,
            currentHeader: Index, currentBlock: Index, mtb: MTBs]
Idle == [pc |-> "idle"]

(***************************************************************************)
(* Header hashes                                                           *)
(***************************************************************************)
PageOf(i) == (i \div Batch) * Batch

\* The hashes up to here are in full pages, the rest is HeaderHashes.latest.
storedHeaderCount(s) == PageOf(s.currentHeader + 1)

\* Mutant: a page is stored under the index of its last hash.
CompletedUnderLast(a, b) == {j \in a + 1 .. b : (j + 1) % Batch = 0}

\* The pages addHeaders completes when the header height goes from a to b.
Completed(a, b) == {PageOf(i) : i \in {j \in a + 1 .. b : (j + 1) % Batch = 0}}

\* latest and previous are in memory.
getLocalHeaderHash(i) ==
    /\ i <= view.currentHeader
    /\ i >= storedHeaderCount(view) - Batch

\* GetHeaderHash returns a hash: from memory, the cache of pages or the storage.
HashKnown(i) ==
    \/ getLocalHeaderHash(i)
    \/ PageOf(i) \in lru \cup newPages \cup diskPages

\* HeaderHashes.cache after the pages ps were looked up: it holds PagesCache pages,
\* the last one among them; which of the others had to go is left open.
Cached(ps) ==
    LET all == lru \cup ps
    IN  {c \in SUBSET all : /\ ps # {} => Max(ps) \in c
                            /\ Cardinality(c) = Min({PagesCache, Cardinality(all)})}

\* HeaderHashes.init succeeds: the page before the last is there and the
\* headers of the incomplete page can be walked back through PrevHash.
InitOK(s, pages) ==
    LET stored == storedHeaderCount(s)
    IN  /\ stored >= Batch => stored - Batch \in pages
        /\ stored .. s.currentHeader \subseteq s.headers

(***************************************************************************)
(* Headers and blocks                                                      *)
(***************************************************************************)
Genesis(m) == [headers |-> {0}, blocks |-> {0}, currentHeader |-> 0,
               currentBlock |-> 0, mtb |-> m]

\* A fresh database: the genesis block is stored and persisted once.
Init ==
    /\ view = Genesis(Max(MTBs))
    /\ disk = view
    /\ newPages = {} /\ diskPages = {} /\ lru = {}
    /\ gcLast = 0
    /\ gc = Idle
    /\ node = "up"
    /\ crashes = 0

\* n verified headers on top of the current one.  AddBlock of a block whose
\* header is not known yet does this with n = 1 before it looks at the
\* transactions, and the header stays when the block is refused.
AddHeaders(n) ==
    LET last == view.currentHeader + n
    IN  /\ node = "up"
        /\ last <= MaxHeight
        /\ view.currentHeader \in view.headers
        /\ view' = [view EXCEPT !.headers = @ \cup (view.currentHeader + 1 .. last),
                                !.currentHeader = last]
        /\ newPages' = newPages \cup Completed(view.currentHeader, last)
        /\ UNCHANGED <<disk, diskPages, lru, gcLast, gc, node, crashes>>

\* AddBlock gets past its checks: the next index, with the known header.
AddBlockAccepts(i) ==
    /\ i = view.currentBlock + 1
    /\ i <= view.currentHeader
    /\ HashKnown(i)

\* The next block; executing it may lower the
\* MaxTraceableBlocks of the Policy contract.
StoreBlock(m) ==
    LET i == view.currentBlock + 1
    IN  /\ node = "up"
        /\ AddBlockAccepts(i)
        /\ m <= view.mtb
        /\ view' = [view EXCEPT !.headers = @ \cup {i}, !.blocks = @ \cup {i},
                                !.currentBlock = i, !.mtb = m]
        /\ UNCHANGED <<disk, newPages, diskPages, lru, gcLast, gc, node, crashes>>

\* Another caller, a contract or the RPC server, reads a page that is not in
\* memory, and another one may have to leave the cache.
GetHeaderHash(page) ==
    /\ node = "up"
    /\ page < storedHeaderCount(view) - Batch
    /\ page \notin lru
    /\ lru' \in Cached({page})
    /\ UNCHANGED <<view, disk, newPages, diskPages, gcLast, gc, node, crashes>>

(***************************************************************************)
(* Persist and garbage collection, one goroutine                           *)
(***************************************************************************)
\* Mutant: only the pages below the current block are flushed.
FlushedOfBlocks == diskPages \cup {p \in newPages : p + Batch <= view.currentBlock}

\* The pages on the disk after a flush.
Flushed == diskPages \cup newPages

\* Mutant: the old height is read after the persist.
PersistOldAfter ==
    /\ node = "up"
    /\ gc.pc = "idle"
    /\ view # disk
    /\ disk' = view
    /\ diskPages' = Flushed
    /\ newPages' = {}
    /\ gc' = [pc |-> "check", old |-> view.currentBlock]
    /\ UNCHANGED <<view, lru, gcLast, node, crashes>>

\* The timer of Run fires and the cache is flushed; oldPersisted is kept for
\* the collector.  A failed persist changes nothing and starts no collection.
Persist ==
    /\ node = "up"
    /\ gc.pc = "idle"
    /\ view # disk
    /\ disk' = view
    /\ diskPages' = Flushed
    /\ newPages' = {}
    /\ gc' = [pc |-> "check", old |-> disk.currentBlock]
    /\ UNCHANGED <<view, lru, gcLast, node, crashes>>

\* syncP-mtb of tryRunGC, in uint32.
SyncBound(h, m) == ((((h \div Interval - 1) * Interval) % Word) - m) % Word

\* Mutant: the synchronisation points are ignored.
TgtUnroundedNoSync(h, m) == h - m

\* tgtBlock of tryRunGC at persisted height h.
TgtUnrounded(h, m) ==
    IF Interval = 0 THEN h - m ELSE Min({h - m, SyncBound(h, m)})

\* The same, rounded to the period.
TgtBlock(h, m) == (TgtUnrounded(h, m) \div GCPeriod) * GCPeriod

TryRunGC ==
    LET h == disk.currentBlock
        tgt == TgtBlock(h, view.mtb)
        due == tgt > GCPeriod /\ h \div GCPeriod # gc.old \div GCPeriod
    IN  /\ node = "up"
        /\ gc.pc = "check"
        /\ gc' = IF due THEN [pc |-> "blocks", period |-> h \div GCPeriod, tgt |-> tgt]
                        ELSE Idle
        /\ UNCHANGED <<view, disk, newPages, diskPages, lru, gcLast, node, crashes>>

\* The page of the persisted height is not complete: keep its blocks and the
\* page before it.
Target(period, tgt) ==
    IF PageOf(period * GCPeriod) = PageOf(tgt) THEN Max({0, PageOf(tgt) - Batch}) ELSE tgt

\* The blocks from where the last collection stopped go, through the cache;
\* a block whose hash is not found is skipped.
removeUntraceableBlocks ==
    LET tgt == Target(gc.period, gc.tgt)
        range == gcLast .. tgt - 1
        found == {i \in range : HashKnown(i)}
    IN  /\ node = "up"
        /\ gc.pc = "blocks"
        /\ view' = [view EXCEPT !.headers = @ \ found, !.blocks = @ \ found]
        /\ lru' \in Cached({PageOf(i) : i \in {j \in found : ~getLocalHeaderHash(j)}})
        /\ gcLast' = IF tgt = 0 THEN gcLast ELSE tgt
        /\ gc' = [pc |-> "pages", tgt |-> gc.tgt]
        /\ UNCHANGED <<disk, newPages, diskPages, node, crashes>>

\* Mutant: the page of the target goes too.
TillThrough(tgt) == PageOf(tgt + 1)

\* The last page removeOldHeaderHashes deletes.
Till(tgt) == PageOf(tgt + 1) - Batch

\* SeekGC on the disk, past the cache.
removeOldHeaderHashes ==
    LET till == Till(gc.tgt)
    IN  /\ node = "up"
        /\ gc.pc = "pages"
        /\ diskPages' = IF till > 0 THEN {p \in diskPages : p > till} ELSE diskPages
        /\ gc' = Idle
        /\ UNCHANGED <<view, disk, newPages, lru, gcLast, node, crashes>>

(***************************************************************************)
(* A crash and the restart that follows it: what is not on the disk is     *)
(* lost, init rebuilds HeaderHashes and takes the first page for the place *)
(* where the collector stopped.                                            *)
(***************************************************************************)
Restart ==
    /\ node = "up"
    /\ crashes < MaxCrashes
    /\ crashes' = crashes + 1
    /\ view' = disk
    /\ newPages' = {} /\ lru' = {}
    /\ gc' = Idle
    /\ gcLast' = IF diskPages = {} THEN 0 ELSE Min(diskPages)
    /\ node' = IF InitOK(disk, diskPages) THEN "up" ELSE "failed"
    /\ UNCHANGED <<disk, diskPages>>

Next ==
    \/ \E n \in 1 .. MaxHeaders : AddHeaders(n)
    \/ \E m \in MTBs : StoreBlock(m)
    \/ \E page \in newPages \cup diskPages : GetHeaderHash(page)
    \/ Persist
    \/ TryRunGC
    \/ removeUntraceableBlocks
    \/ removeOldHeaderHashes
    \/ Restart

Spec == Init /\ [][Next]_vars

(***************************************************************************)
(* Properties                                                              *)
(***************************************************************************)
\* Storage records, pages and the collector's position keep their types (the
\* variables of Blockchain and HeaderHashes).
TypeOK ==
    /\ view \in Storage /\ disk \in Storage
    /\ UNION {newPages, diskPages, lru} \subseteq {p \in Index : p % Batch = 0}
    /\ gcLast \in Index
    /\ gc.pc \in {"idle", "check", "blocks", "pages"}
    /\ node \in {"up", "failed"}
    /\ crashes \in 0 .. MaxCrashes

\* Whatever moment the node stops at, between two persists or two steps of
\* the collector, HeaderHashes.init finds in the storage the page and the
\* headers it rebuilds its state from (headerhashes.go, init).
Restartable == TypeOK /\ InitOK(disk, diskPages) /\ node = "up"

\* A block the contracts may access, one of the last MaxTraceableBlocks, has
\* its record and is found by its index, also after a restart
\* (blockchain.go, tryRunGC; the Ledger native looks blocks up by index).  MTBs of
\* the run has one value: when MaxTraceableBlocks is lowered and the node stops
\* before that is persisted, blocks are missing that are traceable again.
TraceableKept ==
    node = "up" =>
        \A i \in 0 .. view.currentBlock :
            i + view.mtb > view.currentBlock => i \in view.blocks /\ HashKnown(i)

\* Blocks that tryRunGC may take before their time.  syncP-mtb wraps around while
\* P2 is below MaxTraceableBlocks, and the height alone then gives the target; with
\* a period that is not shorter than the interval nothing is due so early.
EarlyBlocks == IF GCPeriod < Interval THEN 0 .. 2 * Interval - 3 ELSE {}

\* With the state exchange extensions the blocks from P2 - MaxTraceableBlocks
\* on are kept, P2 being the state synchronisation point before the latest
\* (blockchain.go, tryRunGC), except for blocks of the first two intervals
\* (EarlyBlocks), and as long as MaxTraceableBlocks does not change.
SyncPointKept ==
    (Interval > 0 /\ node = "up") =>
        LET p2 == (disk.currentBlock \div Interval - 1) * Interval
        IN  \A i \in (0 .. view.currentBlock) \ EarlyBlocks :
                i >= p2 - view.mtb => i \in view.blocks

\* "Old blocks should be removed up to P2-MaxTraceableBlocks which is required for
\* proper P2P state synchronization": the same without the exception.
SyncPointAlways ==
    (Interval > 0 /\ node = "up") =>
        LET p2 == (disk.currentBlock \div Interval - 1) * Interval
        IN  \A i \in 0 .. view.currentBlock : i >= p2 - view.mtb => i \in view.blocks

\* The storage does not grow with the chain: when the collector is done, no
\* block is left that became untraceable more than three periods (and two
\* synchronisation intervals) ago: one that rounding the target leaves, one
\* until the next height at which the period changes, and one because a target
\* of a single period is passed over (blockchain.go, tryRunGC).  A crash loses
\* this: see CollectedAcrossRestart.
StorageBounded ==
    (crashes = 0 /\ gc.pc = "idle") =>
        \A i \in view.blocks :
            i + view.mtb + 3 * GCPeriod + 2 * Interval > disk.currentBlock

\* The same after a restart: the node-configuration documentation says only
\* the last MaxTraceableBlocks are stored when RemoveUntraceableBlocks is set.
CollectedAcrossRestart ==
    (node = "up" /\ gc.pc = "idle" /\ view = disk) =>
        \A i \in view.blocks : i >= gcLast
=============================================================================
