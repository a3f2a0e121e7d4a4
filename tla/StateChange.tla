----------------------------- MODULE StateChange -----------------------------
(***************************************************************************)
(* Moving the whole state of a node: the state jump that ends a state      *)
(* synchronisation (jumpToStateInternal) and the reset of the database to  *)
(* an earlier height (resetStateInternal), with crashes and the resumption *)
(* from the stage marker in init (pkg/core/blockchain.go).                 *)
(*                                                                         *)
(* The storage is reduced to the keys the stages are about.  Contract      *)
(* storage items live under one of two prefixes, the Version record says   *)
(* which; the items under a prefix are none, a part of the new ones, all   *)
(* the old ones or all the new ones.  Blocks and headers are named by      *)
(* their indices, header hashes by the first index of their page.          *)
(* Everything goes through the DAO cache and is flushed as one batch       *)
(* (MemCachedStore); only SeekGC works on the disk directly.               *)
(***************************************************************************)
EXTENDS Integers, FiniteSets

CONSTANTS
    Ops,          \* the operations considered, of {"jump", "reset"}
    Batch,        \* headerBatchCount
    Target,       \* the height to reset or jump to; a jump goes past MaxTraceableBlocks
    Height,       \* the block height before a reset (0 before a jump)
    HeaderHeight, \* the header height before the operation
    PersistBatch, \* persistBatchSize, blocks removed per intermediate batch
    MaxCrashes

ASSUME StateChangeAssumption ==
    /\ Ops \subseteq {"jump", "reset"} /\ Ops # {}
    /\ {Batch, PersistBatch, Target} \subseteq Nat \ {0}
    /\ {MaxCrashes, Height, HeaderHeight} \subseteq Nat
    /\ Target < Height /\ Height <= HeaderHeight

VARIABLES
    op,      \* "jump" or "reset"
    view,    \* the storage through the DAO cache
    disk,    \* the storage itself
    pc,      \* the stage the operation is to execute next
    i,       \* loop counter of the removal of blocks
    sending, \* "yes": the changes of a stage wait for a persist
    worker,  \* the batch persisting goroutine of a reset: "free" or "busy"
    mpt,     \* stateRoot.mpt: "nil", or the state it stands for
    live,    \* "yes": Run is working in parallel; "no": called from init
    crashes

vars == <<op, view, disk, pc, i, sending, worker, mpt, live, crashes>>

Stages == {"none", "stateJumpStarted", "newStorageItemsAdded",
           "staleBlocksRemoved", "headersReset", "transfersReset"}
Index == 0 .. HeaderHeight
Contents == {"none", "part", "old", "new"}
Storage == [prefix: 0 .. 1, items: [0 .. 1 -> Contents], stage: Stages,
            records: SUBSET Index, pages: SUBSET Index,
            currentBlock: Index, currentHeader: Index, root: {"old", "new"}]

TemporaryPrefix(p) == 1 - p
PageOf(n) == (n \div Batch) * Batch
storedHeaderCount(s) == PageOf(s.currentHeader + 1)

\* HeaderHashes.init finds the page before the last one and walks the headers
\* of the last one back.
HeadersFound(s) ==
    LET stored == storedHeaderCount(s)
    IN  /\ stored >= Batch => stored - Batch \in s.pages
        /\ stored .. s.currentHeader \subseteq s.records

\* A jump starts from genesis with the new items collected under the
\* temporary prefix, a reset from a complete chain.
Before(o) ==
    [prefix |-> 0,
     items |-> [p \in 0 .. 1 |-> IF p = 0 THEN "old" ELSE IF o = "jump" THEN "new" ELSE "none"],
     stage |-> "none",
     records |-> Index,
     pages |-> {p \in Index : p % Batch = 0 /\ p + Batch <= HeaderHeight + 1},
     currentBlock |-> IF o = "jump" THEN 0 ELSE Height,
     currentHeader |-> HeaderHeight,
     root |-> "old"]

Init ==
    /\ op \in Ops
    /\ view = Before(op)
    /\ disk = view
    /\ pc = "none"
    /\ i = 0
    /\ sending = "no" /\ worker = "free"
    /\ mpt = "old"
    /\ live = IF op = "jump" THEN "yes" ELSE "no"
    /\ crashes = 0

\* A stage of o: its changes to the cache, and what follows.
Step(o, from, to) ==
    /\ op = o /\ pc = from /\ sending = "no"
    /\ pc' = to
    /\ UNCHANGED <<op, disk, worker, live, crashes>>

(***************************************************************************)
(* jumpToStateInternal, p = Target                                         *)
(***************************************************************************)
JumpNone ==
    /\ Step("jump", "none", "stateJumpStarted")
    /\ view' = [view EXCEPT !.stage = "stateJumpStarted"]
    /\ sending' = "yes"
    /\ UNCHANGED <<i, mpt>>

\* The Version record is switched to the prefix of the collected items ...
JumpVersion ==
    /\ Step("jump", "stateJumpStarted", "versionPut")
    /\ view' = [view EXCEPT !.prefix = TemporaryPrefix(@)]
    /\ UNCHANGED <<i, sending, mpt>>

\* ... and the stage is marked by a second Put.
JumpStarted ==
    /\ Step("jump", "versionPut", "newStorageItemsAdded")
    /\ view' = [view EXCEPT !.stage = "newStorageItemsAdded"]
    /\ sending' = "yes"
    /\ UNCHANGED <<i, mpt>>

\* Mutant: the stage is not put with the changes it marks.
JumpItemsUnmarked ==
    /\ {0, Target} \subseteq view.records
    /\ Step("jump", "newStorageItemsAdded", "staleBlocksRemoved")
    /\ view' = [view EXCEPT !.items[TemporaryPrefix(view.prefix)] = "none",
                            !.records = @ \ {0}, !.currentBlock = Target]
    /\ sending' = "yes"
    /\ UNCHANGED <<i, mpt>>

\* The old items and the genesis block go, the block of the point becomes
\* current: one private cache, so one change.
JumpItems ==
    /\ {0, Target} \subseteq view.records
    /\ Step("jump", "newStorageItemsAdded", "staleBlocksRemoved")
    /\ view' = [view EXCEPT !.items[TemporaryPrefix(view.prefix)] = "none",
                            !.records = @ \ {0}, !.currentBlock = Target,
                            !.stage = "staleBlocksRemoved"]
    /\ sending' = "yes"
    /\ UNCHANGED <<i, mpt>>

\* Mutant: the root is stored and the module keeps its trie.
JumpRootStored ==
    /\ Target + 1 \in view.records
    /\ Step("jump", "staleBlocksRemoved", "finish")
    /\ view' = [view EXCEPT !.root = "new"]
    /\ UNCHANGED <<i, sending, mpt>>

\* stateRoot.JumpToState takes the root from the header after the point.
JumpRoot ==
    /\ Target + 1 \in view.records
    /\ Step("jump", "staleBlocksRemoved", "finish")
    /\ view' = [view EXCEPT !.root = "new"]
    /\ mpt' = "new"
    /\ UNCHANGED <<i, sending>>

JumpFinish ==
    /\ Step("jump", "finish", "done")
    /\ view' = [view EXCEPT !.stage = "none"]
    /\ sending' = "yes"
    /\ UNCHANGED <<i, mpt>>

\* dao.Store.Persist at the end of a stage of the jump.  A failure of it ends in the
\* log.Fatal of checkSyncIsCompleted, or in the error of init: the process stops and
\* the disk is as it was, which is Crash.
JumpPersist ==
    /\ op = "jump" /\ sending = "yes"
    /\ disk' = view
    /\ sending' = "no"
    /\ UNCHANGED <<op, view, pc, i, worker, mpt, live, crashes>>

\* The timer of Run: it persists without the locks the jump holds.
RunPersist ==
    /\ op = "jump" /\ live = "yes"
    /\ view # disk
    /\ disk' = view
    /\ UNCHANGED <<op, view, pc, i, sending, worker, mpt, live, crashes>>

(***************************************************************************)
(* resetStateInternal, height = Target                                     *)
(***************************************************************************)
\* The block and the state root of the target are read before the first stage.
ResetNone ==
    /\ Target \in view.records
    /\ Step("reset", "none", "stateJumpStarted")
    /\ view' = [view EXCEPT !.stage = "stateJumpStarted"]
    /\ i' = Target + 1
    /\ sending' = "yes"
    /\ UNCHANGED mpt

\* The blocks one intermediate batch removes; DeleteBlock removes the header
\* with the block.
RemovedBlocks == i .. (IF i + PersistBatch > view.currentBlock THEN view.currentBlock
                                                               ELSE i + PersistBatch - 1)

ResetSomeBlocks ==
    /\ i + PersistBatch <= view.currentBlock
    /\ RemovedBlocks \subseteq view.records
    /\ Step("reset", "stateJumpStarted", "stateJumpStarted")
    /\ view' = [view EXCEPT !.records = @ \ RemovedBlocks]
    /\ i' = i + PersistBatch
    /\ sending' = "yes"
    /\ UNCHANGED mpt

ResetLastBlocks ==
    /\ i + PersistBatch > view.currentBlock
    /\ RemovedBlocks \subseteq view.records
    /\ Step("reset", "stateJumpStarted", "staleBlocksRemoved")
    /\ view' = [view EXCEPT !.records = @ \ RemovedBlocks, !.stage = "staleBlocksRemoved"]
    /\ i' = 0
    /\ sending' = "yes"
    /\ UNCHANGED mpt

\* Contract items are copied from the MPT of the target under the temporary
\* prefix, in one or more batches; the last one carries the stage.
ResetItems(c) ==
    /\ c \in {"part", "new"}
    /\ c = "part" => view.items[TemporaryPrefix(view.prefix)] = "none"
    /\ Step("reset", "staleBlocksRemoved",
            IF c = "part" THEN "staleBlocksRemoved" ELSE "newStorageItemsAdded")
    /\ view' = [view EXCEPT !.items[TemporaryPrefix(view.prefix)] = c,
                            !.stage = IF c = "part" THEN @ ELSE "newStorageItemsAdded"]
    /\ sending' = "yes"
    /\ UNCHANGED <<i, mpt>>

\* Headers and pages above the target, the current block and header, Version.
ResetHeaders ==
    /\ Step("reset", "newStorageItemsAdded", "headersReset")
    /\ view' = [view EXCEPT !.records = @ \ (Target + 1 .. view.currentHeader),
                            !.pages = @ \ (PageOf(Target + 1) .. HeaderHeight),
                            !.currentBlock = Target, !.currentHeader = Target,
                            !.prefix = TemporaryPrefix(@), !.stage = "headersReset"]
    /\ sending' = "yes"
    /\ UNCHANGED <<i, mpt>>

\* Mutant: the state root is not reset in the storage.
ResetTransfersOnly ==
    /\ Step("reset", "headersReset", "transfersReset")
    /\ view' = [view EXCEPT !.stage = "transfersReset"]
    /\ mpt' = "new"
    /\ sending' = "yes"
    /\ UNCHANGED i

\* stateRoot.ResetState and resetTransfers.
ResetTransfers ==
    /\ Step("reset", "headersReset", "transfersReset")
    /\ view' = [view EXCEPT !.root = "new", !.stage = "transfersReset"]
    /\ mpt' = "new"
    /\ sending' = "yes"
    /\ UNCHANGED i

\* SeekGC removes the items of the other prefix from the disk at once.
ResetSeekGC ==
    /\ op = "reset" /\ pc = "transfersReset" /\ sending = "no"
    /\ view' = [view EXCEPT !.items[TemporaryPrefix(view.prefix)] = "none"]
    /\ disk' = [disk EXCEPT !.items[TemporaryPrefix(view.prefix)] = "none"]
    /\ pc' = "finish"
    /\ UNCHANGED <<op, i, sending, worker, mpt, live, crashes>>

ResetFinish ==
    /\ Step("reset", "finish", "done")
    /\ view' = [view EXCEPT !.stage = "none"]
    /\ sending' = "yes"
    /\ UNCHANGED <<i, mpt>>

\* Mutant: persistCh is buffered.
ResetSendBuffered ==
    /\ op = "reset" /\ sending = "yes"
    /\ sending' = "no"
    /\ worker' = "busy"
    /\ UNCHANGED <<op, view, disk, pc, i, mpt, live, crashes>>

\* persistCh is not buffered: a stage is handed over when the goroutine has
\* finished the one before, and the main goroutine goes on meanwhile.
ResetSend ==
    /\ op = "reset" /\ sending = "yes" /\ worker = "free"
    /\ sending' = "no"
    /\ worker' = "busy"
    /\ UNCHANGED <<op, view, disk, pc, i, mpt, live, crashes>>

\* Mutant: the goroutine does not come back for the next batch.
ResetPersistOnce ==
    /\ worker = "busy"
    /\ disk' = view
    /\ UNCHANGED <<worker, op, view, pc, i, sending, mpt, live, crashes>>

\* cache.Persist in the goroutine: everything that is in the cache by then.
ResetPersist ==
    /\ worker = "busy"
    /\ disk' = view
    /\ worker' = "free"
    /\ UNCHANGED <<op, view, pc, i, sending, mpt, live, crashes>>

(***************************************************************************)
(* Errors and crashes                                                      *)
(***************************************************************************)
\* The records a stage reads and returns an error without.
Required ==
    CASE op = "jump" /\ pc = "newStorageItemsAdded" -> {0, Target}
      [] op = "jump" /\ pc = "staleBlocksRemoved" -> {Target + 1}
      [] op = "reset" /\ pc = "none" -> {Target}
      [] op = "reset" /\ pc = "stateJumpStarted" -> RemovedBlocks
      [] OTHER -> {}

Fail ==
    /\ sending = "no"
    /\ ~(Required \subseteq view.records)
    /\ pc' = "error"
    /\ UNCHANGED <<op, view, disk, i, sending, worker, mpt, live, crashes>>

\* The target is reached already, or the operation has to be asked for again.
Unmarked(s) == IF s.currentBlock = Target THEN "done" ELSE "none"

\* The node stops and is started again.  init rebuilds the header hashes, then
\* continues a marked operation; only without a mark it initialises stateRoot.
Restart ==
    /\ crashes < MaxCrashes
    /\ pc \notin {"failed", "error"}
    /\ crashes' = crashes + 1
    /\ view' = disk
    /\ sending' = "no" /\ worker' = "free"
    /\ pc' = IF ~HeadersFound(disk) THEN "failed"
             ELSE IF disk.stage = "none" THEN Unmarked(disk) ELSE disk.stage
    /\ i' = IF disk.stage = "stateJumpStarted" THEN Target + 1 ELSE 0
    /\ mpt' = IF disk.stage = "none" THEN disk.root ELSE "nil"
    /\ live' = IF op = "jump" /\ disk.stage = "none" THEN "yes" ELSE "no"
    /\ UNCHANGED <<op, disk>>

Jump ==
    \/ JumpNone \/ JumpVersion \/ JumpStarted \/ JumpItems \/ JumpRoot
    \/ JumpFinish \/ JumpPersist

Reset ==
    \/ ResetNone \/ ResetSomeBlocks \/ ResetLastBlocks
    \/ \E c \in {"part", "new"} : ResetItems(c)
    \/ ResetHeaders \/ ResetTransfers \/ ResetSeekGC \/ ResetFinish \/ ResetSend

Next == Jump \/ Reset \/ RunPersist \/ ResetPersist \/ Fail \/ Restart

Spec == Init /\ [][Next]_vars

\* The goroutine of the operation and the one that persists go on.
FairSpec == Spec /\ WF_vars(Jump \/ Reset \/ Fail) /\ WF_vars(ResetPersist)

(***************************************************************************)
(* Properties                                                              *)
(***************************************************************************)
\* The storage, the stage marks and the loop counter keep their types (the
\* stages of blockchain.go).
TypeOK ==
    /\ op \in Ops
    /\ view \in Storage /\ disk \in Storage
    /\ pc \in Stages \cup {"versionPut", "finish", "done", "failed", "error"}
    /\ i \in Index
    /\ sending \in {"yes", "no"} /\ worker \in {"free", "busy"}
    /\ mpt \in {"nil", "old", "new"} /\ live \in {"yes", "no"}
    /\ crashes \in 0 .. MaxCrashes

\* The storage of s is what the operation was to produce.
Moved(s) ==
    /\ s.items = [p \in 0 .. 1 |-> IF p = s.prefix THEN "new" ELSE "none"]
    /\ s.currentBlock = Target /\ s.root = "new"
    /\ op = "reset" => /\ s.currentHeader = Target
                       /\ s.records = 0 .. Target
                       /\ HeadersFound(s)

\* A database without a stage mark has either not been touched or is
\* completely moved, whatever was interrupted and resumed in between
\* (resetStateInternal; for jumpToStateInternal while nothing crashes).
AllOrNothing ==
    TypeOK /\ ((disk.stage = "none" /\ (op = "reset" \/ crashes = 0)) =>
        disk = Before(op) \/ Moved(disk))

\* The same for a jump that is interrupted: the stages are to be atomic.
JumpAtomic ==
    (disk.stage = "none" /\ op = "jump") => disk = Before(op) \/ Moved(disk)

\* The contract storage the Version record points at is complete at every
\* moment a crash could expose: the switch of the prefix is on the disk only
\* after all new items, and SeekGC removes the old ones only after the switch.
LiveStorageWhole == disk.items[disk.prefix] \in {"old", "new"}

\* A resumed reset can be completed (init: continue interrupted state reset).
ResetResumes == op = "reset" => pc \notin {"failed", "error"}

\* When the operation is over, the state root module works on the new trie
\* (AddMPTBatch dereferences it); a resumed reset is left to MptAfterResume.
MptReady == (pc = "done" /\ (op = "jump" \/ crashes = 0)) => mpt = "new"

\* A resumed jump finds the blocks it needs, and the state root module is ready
\* at the end of it, and of a reset that was not interrupted.
JumpResumes == MptReady /\ (op = "jump" => pc \notin {"failed", "error"})

\* The same for a reset that was resumed from its last stage.
MptAfterResume == pc = "done" => mpt = "new"

\* The operation ends, on the disk too.
Finishes ==
    <>(\/ pc \in {"failed", "error"}
       \/ pc = "done" /\ disk = view /\ sending = "no" /\ worker = "free")
=============================================================================
