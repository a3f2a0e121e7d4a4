-------------------------- MODULE StateChangeProofs --------------------------
(***************************************************************************)
(* Type correctness of StateChange, that the contract storage the Version  *)
(* record on the disk points at is whole at every moment, that a change    *)
(* without a stage mark is done or not begun, and that a jump is resumed,  *)
(* for every chain length, page and batch size and number of crashes.      *)
(***************************************************************************)
EXTENDS StateChange, TLAPS

\* Steps are tried with SMT, then with Zenon, and then with SMT and more time.
USE SMT, Zenon, SMTT(20)

Whole == {"old", "new"}
BothWhole(s) == s.items[0] \in Whole /\ s.items[1] \in Whole

\* What a storage with a given stage mark holds, in the cache and on the disk.
StorageInv(s) ==
    /\ s.items[s.prefix] \in Whole
    /\ op = "reset" /\ s.stage = "newStorageItemsAdded" => s.items[1 - s.prefix] = "new"
    /\ op = "jump" =>
        /\ s.stage = "stateJumpStarted" => BothWhole(s)
        /\ s.stage = "none" /\ s.currentBlock # Target => BothWhole(s)
        /\ s.stage = "staleBlocksRemoved" => s.currentBlock = Target
        /\ s.stage \notin {"headersReset", "transfersReset"}

\* What the goroutine that runs the operation knows at each stage.
StageInv ==
    /\ op = "reset" /\ pc = "staleBlocksRemoved" => view.stage = "staleBlocksRemoved"
    /\ op = "reset" /\ pc = "newStorageItemsAdded" => view.items[1 - view.prefix] = "new"
    /\ op = "reset" /\ pc = "headersReset" => view.stage = "headersReset"
    /\ op = "reset" /\ pc = "transfersReset" => view.stage = "transfersReset"
    /\ op = "jump" =>
        /\ pc \in {"none", "stateJumpStarted", "versionPut"} => BothWhole(view)
        /\ pc \in {"staleBlocksRemoved", "finish"} => view.currentBlock = Target

\* The disk has seen the switch of the prefix ...
Switched ==
    disk.prefix = view.prefix /\ disk.stage \in {"headersReset", "transfersReset"}

\* ... before the goroutine comes to SeekGC, because the persisting one is at
\* most one stage behind.
LagInv ==
    op = "reset" =>
        /\ pc = "headersReset" => Switched \/ sending = "yes" \/ worker = "busy"
        /\ pc = "transfersReset" => Switched \/ (sending = "yes" /\ worker = "busy")

IInv == TypeOK /\ StorageInv(view) /\ StorageInv(disk) /\ StageInv /\ LagInv

\* The pages of header hashes before the operation, and the ones a reset keeps.
AllPages == {p \in Index : p % Batch = 0 /\ p + Batch <= HeaderHeight + 1}
KeptPages == AllPages \ (PageOf(Target + 1) .. HeaderHeight)

\* What the storage of a reset holds at each of its marks: nothing but blocks
\* above the target is lost until the headers are reset, and after that only
\* the items of the other prefix and the root are still to change.
ResetStorage(s) ==
    /\ s.stage = "none" => s = Before(op) \/ Moved(s)
    /\ s.stage \in {"stateJumpStarted", "staleBlocksRemoved", "newStorageItemsAdded"} =>
        /\ s.prefix = 0
        /\ 0 .. Target \subseteq s.records
        /\ s.currentBlock = Height /\ s.currentHeader = HeaderHeight
        /\ s.pages = AllPages
    /\ s.stage \in {"headersReset", "transfersReset"} =>
        /\ s.prefix = 1 /\ s.items[1] = "new"
        /\ s.records = 0 .. Target
        /\ s.currentBlock = Target /\ s.currentHeader = Target
        /\ s.pages = KeptPages
    /\ s.stage = "transfersReset" => s.root = "new"

\* The goroutine of a reset is where the mark in its cache says.
ResetInv ==
    op = "reset" =>
        /\ ResetStorage(view) /\ ResetStorage(disk)
        /\ pc = "none" => view = Before(op)
        /\ pc \in Stages \ {"none"} => view.stage = pc
        /\ pc = "stateJumpStarted" => i > Target
        /\ pc = "finish" => view.stage = "transfersReset" /\ view.items[0] = "none"
        /\ pc \in {"transfersReset", "finish", "done"} /\ crashes = 0 => mpt = "new"

\* A jump that is not interrupted goes through its stages once.
JumpOnceInv ==
    (op = "jump" /\ crashes = 0) =>
        /\ \A s \in {view, disk} : s.stage = "none" => s = Before(op) \/ Moved(s)
        /\ pc = "none" => view = Before(op)
        /\ pc = "stateJumpStarted" => view.prefix = 0 /\ view.items[1] = "new"
        /\ pc \in {"versionPut", "newStorageItemsAdded", "staleBlocksRemoved", "finish"} =>
               view.prefix = 1 /\ view.items[1] = "new"
        /\ pc \in {"staleBlocksRemoved", "finish"} => view.items[0] = "none"

\* What the storage of a jump holds, however often it was interrupted: only
\* the genesis block is ever lost, and not before that is marked.
JumpStorage(s) ==
    /\ s.currentHeader = HeaderHeight /\ s.pages = AllPages
    /\ Index \ {0} \subseteq s.records
    /\ 0 \in s.records \/ (s.currentBlock = Target /\ s.stage \in {"none", "staleBlocksRemoved"})
    /\ s.stage = "none" /\ s.currentBlock = Target => s.root = "new"

\* The mark in the cache while a jump runs.
JumpMarked ==
    /\ pc \in {"stateJumpStarted", "versionPut"} => view.stage = "stateJumpStarted"
    /\ pc = "newStorageItemsAdded" => view.stage = "newStorageItemsAdded"
    /\ pc \in {"staleBlocksRemoved", "finish"} => view.stage = "staleBlocksRemoved"

\* The goroutine of a jump finds genesis until it has removed it, and sets the
\* root and the trie before it finishes.
JumpStageInv ==
    op = "jump" =>
        /\ JumpStorage(view) /\ JumpStorage(disk)
        /\ pc \in {"none", "stateJumpStarted", "versionPut", "newStorageItemsAdded"} =>
               0 \in view.records
        /\ pc \in {"finish", "done"} => mpt = "new" /\ view.root = "new"
        /\ JumpMarked

\* Constants, in the form the steps below use.
LEMMA Constants ==
    /\ Target \in Nat /\ Height \in Nat /\ HeaderHeight \in Nat
    /\ PersistBatch \in Nat /\ PersistBatch > 0 /\ Batch \in Nat /\ Batch > 0
    /\ MaxCrashes \in Nat
    /\ 0 < Target /\ Target < Height /\ Height <= HeaderHeight
    /\ Ops \subseteq {"jump", "reset"}
  BY StateChangeAssumption

\* The initial states satisfy the invariant.
LEMMA InitInv == Init => IInv
  <1> SUFFICES ASSUME Init PROVE IInv
    OBVIOUS
  <1> USE Constants
  <1>1. op \in {"jump", "reset"}
    BY DEF Init
  <1>2. Before(op) \in Storage
    BY <1>1 DEF Before, Storage, Index, Contents, Stages
  <1>3. TypeOK
    BY <1>1, <1>2 DEF Init, TypeOK, Index, Stages
  <1>4. StorageInv(view) /\ StorageInv(disk)
    BY <1>1 DEF Init, Before, StorageInv, BothWhole, Whole
  <1>5. StageInv /\ LagInv
    BY <1>1 DEF Init, Before, StageInv, LagInv, BothWhole, Whole
  <1> QED
    BY <1>3, <1>4, <1>5 DEF IInv

\* The stages of a jump preserve the invariant.
LEMMA JumpKeeps == ASSUME IInv, Jump PROVE IInv'
  <1> USE Constants DEF IInv, Step, TemporaryPrefix
  <1>1. CASE JumpNone
    <2>1. TypeOK'
      BY <1>1 DEF JumpNone, TypeOK, Storage, Stages, Contents, Index
    <2>2. StorageInv(view)' /\ StorageInv(disk)'
      BY <1>1 DEF JumpNone, TypeOK, Storage, StorageInv, StageInv, BothWhole, Whole
    <2>3. StageInv' /\ LagInv'
      BY <1>1 DEF JumpNone, TypeOK, Storage, StorageInv, StageInv, LagInv, Switched,
                 BothWhole, Whole
    <2> QED
      BY <2>1, <2>2, <2>3
  <1>2. CASE JumpVersion
    <2>1. TypeOK'
      BY <1>2 DEF JumpVersion, TypeOK, Storage, Stages, Contents, Index
    <2>2. StorageInv(view)' /\ StorageInv(disk)'
      BY <1>2 DEF JumpVersion, TypeOK, Storage, StorageInv, StageInv, BothWhole, Whole
    <2>3. StageInv' /\ LagInv'
      BY <1>2 DEF JumpVersion, TypeOK, Storage, StorageInv, StageInv, LagInv, Switched,
                 BothWhole, Whole
    <2> QED
      BY <2>1, <2>2, <2>3
  <1>3. CASE JumpStarted
    <2>1. TypeOK'
      BY <1>3 DEF JumpStarted, TypeOK, Storage, Stages, Contents, Index
    <2>2. StorageInv(view)' /\ StorageInv(disk)'
      BY <1>3 DEF JumpStarted, TypeOK, Storage, StorageInv, StageInv, BothWhole, Whole
    <2>3. StageInv' /\ LagInv'
      BY <1>3 DEF JumpStarted, TypeOK, Storage, StorageInv, StageInv, LagInv, Switched,
                 BothWhole, Whole
    <2> QED
      BY <2>1, <2>2, <2>3
  <1>4. CASE JumpItems
    <2>1. TypeOK'
      BY <1>4, SMTT(20), ZenonT(40) DEF JumpItems, TypeOK, Storage, Stages, Contents, Index
    <2>2. StorageInv(view)' /\ StorageInv(disk)'
      BY <1>4 DEF JumpItems, TypeOK, Storage, StorageInv, StageInv, BothWhole, Whole
    <2>3. StageInv' /\ LagInv'
      BY <1>4 DEF JumpItems, TypeOK, Storage, StorageInv, StageInv, LagInv, Switched,
                 BothWhole, Whole
    <2> QED
      BY <2>1, <2>2, <2>3
  <1>5. CASE JumpRoot
    <2>1. TypeOK'
      BY <1>5 DEF JumpRoot, TypeOK, Storage, Stages, Contents, Index
    <2>2. StorageInv(view)' /\ StorageInv(disk)'
      BY <1>5 DEF JumpRoot, TypeOK, Storage, StorageInv, StageInv, BothWhole, Whole
    <2>3. StageInv' /\ LagInv'
      BY <1>5 DEF JumpRoot, TypeOK, Storage, StorageInv, StageInv, LagInv, Switched,
                 BothWhole, Whole
    <2> QED
      BY <2>1, <2>2, <2>3
  <1>6. CASE JumpFinish
    <2>1. TypeOK'
      BY <1>6 DEF JumpFinish, TypeOK, Storage, Stages, Contents, Index
    <2>2. StorageInv(view)' /\ StorageInv(disk)'
      BY <1>6 DEF JumpFinish, TypeOK, Storage, StorageInv, StageInv, BothWhole, Whole
    <2>3. StageInv' /\ LagInv'
      BY <1>6 DEF JumpFinish, TypeOK, Storage, StorageInv, StageInv, LagInv, Switched,
                 BothWhole, Whole
    <2> QED
      BY <2>1, <2>2, <2>3
  <1>7. CASE JumpPersist
    <2>1. TypeOK'
      BY <1>7 DEF JumpPersist, TypeOK, Storage, Stages, Contents, Index
    <2>2. StorageInv(view)' /\ StorageInv(disk)'
      BY <1>7 DEF JumpPersist, TypeOK, Storage, StorageInv, StageInv, BothWhole, Whole
    <2>3. StageInv' /\ LagInv'
      BY <1>7 DEF JumpPersist, TypeOK, Storage, StorageInv, StageInv, LagInv, Switched,
                 BothWhole, Whole
    <2> QED
      BY <2>1, <2>2, <2>3
  <1> QED
    BY <1>1, <1>2, <1>3, <1>4, <1>5, <1>6, <1>7 DEF Jump

\* The stages of a reset preserve the invariant.
LEMMA ResetKeeps == ASSUME IInv, Reset PROVE IInv'
  <1> USE Constants DEF IInv, Step, TemporaryPrefix
  <1>1. CASE ResetNone
    <2>1. TypeOK'
      BY <1>1 DEF ResetNone, TypeOK, Storage, Stages, Contents, Index
    <2>2. StorageInv(view)' /\ StorageInv(disk)'
      BY <1>1 DEF ResetNone, TypeOK, Storage, StorageInv, StageInv, LagInv, Switched, Whole
    <2>3. StageInv' /\ LagInv'
      BY <1>1 DEF ResetNone, TypeOK, Storage, StorageInv, StageInv, LagInv, Switched
    <2> QED
      BY <2>1, <2>2, <2>3
  <1>2. CASE ResetSomeBlocks
    <2>1. TypeOK'
      BY <1>2 DEF ResetSomeBlocks, TypeOK, Storage, Stages, Contents, Index
    <2>2. StorageInv(view)' /\ StorageInv(disk)'
      BY <1>2 DEF ResetSomeBlocks, TypeOK, Storage, StorageInv, StageInv, LagInv, Switched, Whole
    <2>3. StageInv' /\ LagInv'
      BY <1>2 DEF ResetSomeBlocks, TypeOK, Storage, StorageInv, StageInv, LagInv, Switched
    <2> QED
      BY <2>1, <2>2, <2>3
  <1>3. CASE ResetLastBlocks
    <2>1. TypeOK'
      <3>1. view.records \ RemovedBlocks \in SUBSET Index
        BY DEF TypeOK, Storage
      <3>2. view' \in Storage
        BY <1>3, <3>1 DEF ResetLastBlocks, TypeOK, Storage, Stages
      <3>3. i' \in Index
        BY <1>3 DEF ResetLastBlocks, Index
      <3> QED
        BY <1>3, <3>2, <3>3 DEF ResetLastBlocks, TypeOK, Stages
    <2>2. StorageInv(view)' /\ StorageInv(disk)'
      BY <1>3 DEF ResetLastBlocks, TypeOK, Storage, StorageInv, StageInv, LagInv, Switched, Whole
    <2>3. StageInv' /\ LagInv'
      BY <1>3 DEF ResetLastBlocks, TypeOK, Storage, StorageInv, StageInv, LagInv, Switched
    <2> QED
      BY <2>1, <2>2, <2>3
  <1>4. ASSUME NEW c \in {"part", "new"}, ResetItems(c) PROVE IInv'
    <2>1. TypeOK'
      BY <1>4, ZenonT(40) DEF ResetItems, TypeOK, Storage, Stages, Contents, Index
    <2>2. StorageInv(view)' /\ StorageInv(disk)'
      BY <1>4 DEF ResetItems, TypeOK, Storage, StorageInv, StageInv, LagInv, Switched, Whole
    <2>3. StageInv' /\ LagInv'
      BY <1>4 DEF ResetItems, TypeOK, Storage, StorageInv, StageInv, LagInv, Switched
    <2> QED
      BY <2>1, <2>2, <2>3
  <1>5. CASE ResetHeaders
    <2>1. TypeOK'
      <3>1. /\ view.records \ (Target + 1 .. view.currentHeader) \in SUBSET Index
            /\ view.pages \ (PageOf(Target + 1) .. HeaderHeight) \in SUBSET Index
        BY DEF TypeOK, Storage
      <3>2. Target \in Index
        BY DEF Index
      <3>3. view' \in Storage
        <4> DEFINE R == view.records \ (Target + 1 .. view.currentHeader)
                   G == view.pages \ (PageOf(Target + 1) .. HeaderHeight)
        <4>1. view' = [view EXCEPT !.records = R, !.pages = G, !.currentBlock = Target,
                                   !.currentHeader = Target, !.prefix = 1 - view.prefix,
                                   !.stage = "headersReset"]
          BY <1>5 DEF ResetHeaders
        <4>2. R \in SUBSET Index /\ G \in SUBSET Index
          BY <3>1
        <4>3. 1 - view.prefix \in 0 .. 1
          BY DEF TypeOK, Storage
        <4> HIDE DEF R, G
        <4> QED
          BY <3>2, <4>1, <4>2, <4>3 DEF TypeOK, Storage, Stages
      <3> QED
        BY <1>5, <3>3 DEF ResetHeaders, TypeOK, Stages
    <2>2. StorageInv(view)' /\ StorageInv(disk)'
      BY <1>5 DEF ResetHeaders, TypeOK, Storage, StorageInv, StageInv, LagInv, Switched, Whole
    <2>3. StageInv' /\ LagInv'
      BY <1>5 DEF ResetHeaders, TypeOK, Storage, StorageInv, StageInv, LagInv, Switched
    <2> QED
      BY <2>1, <2>2, <2>3
  <1>6. CASE ResetTransfers
    <2>1. TypeOK'
      BY <1>6 DEF ResetTransfers, TypeOK, Storage, Stages, Contents, Index
    <2>2. StorageInv(view)' /\ StorageInv(disk)'
      BY <1>6 DEF ResetTransfers, TypeOK, Storage, StorageInv, StageInv, LagInv, Switched, Whole
    <2>3. StageInv' /\ LagInv'
      BY <1>6 DEF ResetTransfers, TypeOK, Storage, StorageInv, StageInv, LagInv, Switched
    <2> QED
      BY <2>1, <2>2, <2>3
  <1>7. CASE ResetSeekGC
    <2>1. TypeOK'
      BY <1>7 DEF ResetSeekGC, TypeOK, Storage, Stages, Contents, Index
    <2>2. StorageInv(view)' /\ StorageInv(disk)'
      BY <1>7 DEF ResetSeekGC, TypeOK, Storage, StorageInv, StageInv, LagInv, Switched, Whole
    <2>3. StageInv' /\ LagInv'
      BY <1>7 DEF ResetSeekGC, TypeOK, Storage, StorageInv, StageInv, LagInv, Switched
    <2> QED
      BY <2>1, <2>2, <2>3
  <1>8. CASE ResetFinish
    <2>1. TypeOK'
      BY <1>8 DEF ResetFinish, TypeOK, Storage, Stages, Contents, Index
    <2>2. StorageInv(view)' /\ StorageInv(disk)'
      BY <1>8 DEF ResetFinish, TypeOK, Storage, StorageInv, StageInv, LagInv, Switched, Whole
    <2>3. StageInv' /\ LagInv'
      BY <1>8 DEF ResetFinish, TypeOK, Storage, StorageInv, StageInv, LagInv, Switched
    <2> QED
      BY <2>1, <2>2, <2>3
  <1>9. CASE ResetSend
    <2>1. TypeOK'
      BY <1>9 DEF ResetSend, TypeOK, Storage, Stages, Contents, Index
    <2>2. StorageInv(view)' /\ StorageInv(disk)'
      BY <1>9 DEF ResetSend, TypeOK, Storage, StorageInv, StageInv, LagInv, Switched, Whole
    <2>3. StageInv' /\ LagInv'
      BY <1>9 DEF ResetSend, TypeOK, Storage, StorageInv, StageInv, LagInv, Switched
    <2> QED
      BY <2>1, <2>2, <2>3
  <1> QED
    BY <1>1, <1>2, <1>3, <1>4, <1>5, <1>6, <1>7, <1>8, <1>9 DEF Reset

\* Every step preserves the invariant.
LEMMA NextInv == ASSUME IInv, [Next]_vars PROVE IInv'
  <1> USE Constants DEF IInv
  <1>1. CASE RunPersist \/ ResetPersist
    <2>1. TypeOK'
      BY <1>1 DEF RunPersist, ResetPersist, TypeOK
    <2>2. StorageInv(view)' /\ StorageInv(disk)'
      BY <1>1 DEF RunPersist, ResetPersist, StorageInv, BothWhole
    <2>3. StageInv' /\ LagInv'
      BY <1>1 DEF RunPersist, ResetPersist, StageInv, LagInv, Switched, BothWhole
    <2> QED
      BY <2>1, <2>2, <2>3
  <1>2. CASE Fail
    <2>1. TypeOK'
      BY <1>2 DEF Fail, TypeOK
    <2>2. StorageInv(view)' /\ StorageInv(disk)'
      BY <1>2 DEF Fail, StorageInv, BothWhole
    <2>3. StageInv' /\ LagInv'
      BY <1>2 DEF Fail, StageInv, LagInv
    <2> QED
      BY <2>1, <2>2, <2>3
  <1>3. CASE Restart
    <2>1. TypeOK'
      BY <1>3 DEF Restart, Unmarked, TypeOK, Storage, Stages, Index
    <2>2. StorageInv(view)' /\ StorageInv(disk)'
      BY <1>3 DEF Restart, StorageInv, BothWhole
    <2>3. StageInv' /\ LagInv'
      BY <1>3 DEF Restart, Unmarked, StorageInv, StageInv, LagInv, Switched, BothWhole,
                  TypeOK, Storage, Stages
    <2> QED
      BY <2>1, <2>2, <2>3
  <1>4. CASE UNCHANGED vars
    BY <1>4 DEF vars, TypeOK, StorageInv, StageInv, LagInv, Switched, BothWhole
  <1> QED
    BY <1>1, <1>2, <1>3, <1>4, JumpKeeps, ResetKeeps DEF Next

\* The strengthened invariant holds in every reachable state.
THEOREM InvHolds == Spec => []IInv
  <1>1. IInv /\ [Next]_vars => IInv'
    BY NextInv
  <1> QED
    BY InitInv, <1>1, PTL DEF Spec

\* jumpToStateInternal, resetStateInternal and init keep every record, stage
\* and counter of the model in its type, for every value of the constants.
THEOREM TypeCorrect == Spec => []TypeOK
  <1>1. IInv => TypeOK
    BY DEF IInv
  <1> QED
    BY InvHolds, <1>1, PTL

\* Whenever the node is stopped during a jump or a reset, the contract storage
\* that the Version record on the disk selects is complete: the switch of the
\* prefix reaches the disk after all new items, and SeekGC works on the disk
\* only after the switch is there, since persistCh is not buffered.
THEOREM StorageWhole == Spec => []LiveStorageWhole
  <1>1. IInv => LiveStorageWhole
    BY DEF IInv, StorageInv, LiveStorageWhole, Whole
  <1> QED
    BY InvHolds, <1>1, PTL
(***************************************************************************)
(* All or nothing.                                                         *)
(***************************************************************************)
\* storedHeaderCount rounds down to a multiple of headerBatchCount.
LEMMA PageFacts ==
    ASSUME NEW n \in Nat
    PROVE  /\ PageOf(n) \in Nat /\ PageOf(n) <= n /\ n < PageOf(n) + Batch
           /\ PageOf(n) >= Batch => (PageOf(n) - Batch) % Batch = 0
  <1> USE Constants
  <1>1. PageOf(n) \in Nat /\ PageOf(n) <= n /\ n < PageOf(n) + Batch
    BY DEF PageOf
  <1>2. ASSUME PageOf(n) >= Batch PROVE (PageOf(n) - Batch) % Batch = 0
    <2> DEFINE q == n \div Batch
    <2>1. q \in Nat
      OBVIOUS
    <2>2. PageOf(n) - Batch = (q - 1) * Batch
      BY <2>1 DEF PageOf
    <2>3. ASSUME NEW m \in Int PROVE (m * Batch) % Batch = 0
      OBVIOUS
    <2>4. q - 1 \in Int
      BY <2>1
    <2> HIDE DEF q
    <2> QED
      BY <2>2, <2>3, <2>4, Zenon
  <1> QED
    BY <1>1, <1>2

\* HeaderHashes.init succeeds on the records and pages a reset leaves.
LEMMA KeptHeadersFound ==
    ASSUME NEW s, s.currentHeader = Target, s.records = 0 .. Target, s.pages = KeptPages
    PROVE  HeadersFound(s)
  <1> USE Constants
  <1> DEFINE stored == PageOf(Target + 1)
  <1>1. Target + 1 \in Nat
    OBVIOUS
  <1>2. /\ stored \in Nat /\ stored <= Target + 1
        /\ stored >= Batch => (stored - Batch) % Batch = 0
    BY <1>1, PageFacts, Zenon
  <1> HIDE DEF stored
  <1>3. ASSUME stored >= Batch PROVE stored - Batch \in AllPages \ (stored .. HeaderHeight)
    BY <1>2, <1>3 DEF AllPages, Index
  <1>4. stored .. Target \subseteq 0 .. Target
    BY <1>2
  <1> QED
    BY <1>3, <1>4 DEF HeadersFound, storedHeaderCount, KeptPages, stored

\* The same for what a jump leaves, on a chain of a page or more.
LEMMA JumpHeadersFound ==
    ASSUME HeaderHeight + 1 >= Batch, NEW s, JumpStorage(s)
    PROVE  HeadersFound(s)
  <1> USE Constants
  <1> DEFINE stored == PageOf(HeaderHeight + 1)
  <1>0. HeaderHeight + 1 \in Nat
    OBVIOUS
  <1>1. /\ stored \in Nat /\ stored <= HeaderHeight + 1 /\ HeaderHeight + 1 < stored + Batch
        /\ stored >= Batch => (stored - Batch) % Batch = 0
    BY <1>0, PageFacts, Zenon
  <1> HIDE DEF stored
  <1>2. stored > 0
    BY <1>1
  <1>3. ASSUME stored >= Batch PROVE stored - Batch \in AllPages
    BY <1>1, <1>3 DEF AllPages, Index
  <1>4. stored .. HeaderHeight \subseteq Index \ {0}
    BY <1>1, <1>2 DEF Index
  <1> QED
    BY <1>3, <1>4 DEF JumpStorage, HeadersFound, storedHeaderCount, stored

\* The invariant of a reset holds initially ...
LEMMA ResetInvInit == Init => ResetInv
  BY Constants DEF Init, Before, ResetInv, ResetStorage, Stages

\* ... its stages preserve it ...
LEMMA ResetInvStages == ASSUME IInv, ResetInv, Reset PROVE ResetInv'
  <1> USE Constants
  <1>0. TypeOK /\ op = "reset" /\ op' = op
    BY DEF IInv, Reset, Step, ResetNone, ResetSomeBlocks, ResetLastBlocks, ResetItems,
           ResetHeaders, ResetTransfers, ResetSeekGC, ResetFinish, ResetSend
  <1>1. ASSUME disk' = disk PROVE ResetStorage(disk)'
    BY <1>0, <1>1 DEF ResetInv, ResetStorage, Moved
  <1>2. CASE ResetNone
    <2>1. view = Before(op) /\ disk' = disk
      BY <1>0, <1>2 DEF ResetNone, Step, ResetInv
    <2>2. ResetStorage(view)'
      BY <1>0, <1>2, <2>1 DEF ResetNone, Before, ResetStorage, Index, AllPages
    <2> QED
      BY <1>0, <1>1, <1>2, <2>1, <2>2 DEF ResetNone, Step, ResetInv, Before
  <1>3. CASE ResetSomeBlocks \/ ResetLastBlocks
    <2>1. disk' = disk /\ view.stage = "stateJumpStarted" /\ i > Target /\ i \in Nat
      BY <1>0, <1>3 DEF ResetSomeBlocks, ResetLastBlocks, Step, ResetInv, Stages, TypeOK, Index
    <2>2. (0 .. Target) \cap RemovedBlocks = {}
      BY <2>1 DEF RemovedBlocks
    <2>3. /\ view'.records = view.records \ RemovedBlocks
          /\ view'.stage \in {"stateJumpStarted", "staleBlocksRemoved"} /\ view'.stage = pc'
          /\ view'.prefix = view.prefix /\ view'.pages = view.pages
          /\ view'.currentBlock = view.currentBlock
          /\ view'.currentHeader = view.currentHeader
      <3>1. CASE ResetSomeBlocks
        BY <1>0, <2>1, <3>1 DEF ResetSomeBlocks, Step, TypeOK, Storage
      <3>2. CASE ResetLastBlocks
        BY <1>0, <2>1, <3>2 DEF ResetLastBlocks, Step, TypeOK, Storage
      <3> QED
        BY <1>3, <3>1, <3>2
    <2>4. ResetStorage(view)'
      BY <1>0, <2>1, <2>2, <2>3 DEF ResetStorage, ResetInv
    <2>5. pc' = "stateJumpStarted" => i' > Target
      BY <1>3, <2>1 DEF ResetSomeBlocks, ResetLastBlocks, Step
    <2> QED
      BY <1>0, <1>1, <2>1, <2>3, <2>4, <2>5 DEF ResetInv
  <1>4. ASSUME NEW c \in {"part", "new"}, ResetItems(c) PROVE ResetInv'
    <2>1. disk' = disk /\ view.stage = "staleBlocksRemoved"
      BY <1>0, <1>4 DEF ResetItems, Step, ResetInv, Stages
    <2>2. /\ view'.records = view.records
          /\ view'.stage \in {"staleBlocksRemoved", "newStorageItemsAdded"} /\ view'.stage = pc'
          /\ view'.prefix = view.prefix /\ view'.pages = view.pages
          /\ view'.currentBlock = view.currentBlock
          /\ view'.currentHeader = view.currentHeader
      BY <1>0, <1>4, <2>1 DEF ResetItems, Step, TypeOK, Storage
    <2>3. ResetStorage(view)'
      BY <1>0, <2>1, <2>2 DEF ResetStorage, ResetInv
    <2> QED
      BY <1>0, <1>1, <2>1, <2>2, <2>3 DEF ResetInv
  <1>5. CASE ResetHeaders
    <2>1. disk' = disk /\ view.stage = "newStorageItemsAdded"
      BY <1>0, <1>5 DEF ResetHeaders, Step, ResetInv, Stages
    <2>2. /\ view.prefix = 0 /\ view.items[1] = "new" /\ view.currentHeader = HeaderHeight
          /\ 0 .. Target \subseteq view.records /\ view.pages = AllPages
      BY <1>0, <1>5, <2>1 DEF ResetHeaders, Step, ResetInv, ResetStorage, IInv, StageInv
    <2>3. view.records \ (Target + 1 .. HeaderHeight) = 0 .. Target
      BY <1>0, <2>2 DEF TypeOK, Storage, Index
    <2>4. /\ view'.records = 0 .. Target /\ view'.pages = KeptPages
          /\ view'.currentBlock = Target /\ view'.currentHeader = Target
          /\ view'.prefix = 1 /\ view'.items[1] = "new"
          /\ view'.stage = "headersReset" /\ pc' = "headersReset"
      BY <1>0, <1>5, <2>2, <2>3 DEF ResetHeaders, Step, TypeOK, Storage, KeptPages, TemporaryPrefix
    <2> QED
      BY <1>0, <1>1, <2>1, <2>4 DEF ResetInv, ResetStorage
  <1>6. CASE ResetTransfers
    <2>1. disk' = disk /\ view.stage = "headersReset"
      BY <1>0, <1>6 DEF ResetTransfers, Step, ResetInv, Stages
    <2>2. /\ view'.records = view.records /\ view'.pages = view.pages
          /\ view'.currentBlock = view.currentBlock
          /\ view'.currentHeader = view.currentHeader
          /\ view'.prefix = view.prefix /\ view'.items = view.items /\ view'.root = "new"
          /\ view'.stage = "transfersReset" /\ pc' = "transfersReset" /\ mpt' = "new"
      BY <1>0, <1>6 DEF ResetTransfers, Step, TypeOK, Storage
    <2> QED
      BY <1>0, <1>1, <2>1, <2>2 DEF ResetInv, ResetStorage
  <1>7. CASE ResetSeekGC
    <2>1. /\ view.stage = "transfersReset" /\ view.prefix = 1
          /\ disk.stage \in {"headersReset", "transfersReset"}
      BY <1>0, <1>7 DEF ResetSeekGC, ResetInv, ResetStorage, Stages, IInv, LagInv, Switched
    <2>2. /\ view' = [view EXCEPT !.items[0] = "none"]
          /\ disk' = [disk EXCEPT !.items[0] = "none"]
          /\ pc' = "finish" /\ mpt' = mpt /\ crashes' = crashes /\ pc = "transfersReset"
      BY <1>7, <2>1 DEF ResetSeekGC, TemporaryPrefix
    <2>3. ResetStorage(view)' /\ ResetStorage(disk)'
      BY <1>0, <2>1, <2>2 DEF ResetInv, ResetStorage, TypeOK, Storage
    <2>4. view'.items[0] = "none" /\ view'.stage = "transfersReset"
      BY <1>0, <2>1, <2>2 DEF TypeOK, Storage
    <2> QED
      BY <1>0, <2>2, <2>3, <2>4 DEF ResetInv, Stages
  <1>8. CASE ResetFinish
    <2>1. disk' = disk /\ view.stage = "transfersReset" /\ view.items[0] = "none"
      BY <1>0, <1>8 DEF ResetFinish, Step, ResetInv
    <2>2. /\ view'.records = view.records /\ view'.pages = view.pages
          /\ view'.currentBlock = view.currentBlock
          /\ view'.currentHeader = view.currentHeader
          /\ view'.prefix = view.prefix /\ view'.items = view.items /\ view'.root = view.root
          /\ view'.stage = "none" /\ pc' = "done" /\ mpt' = mpt /\ crashes' = crashes
          /\ pc = "finish"
      BY <1>0, <1>8 DEF ResetFinish, Step, TypeOK, Storage
    <2>3. /\ view'.currentHeader = Target /\ view'.records = 0 .. Target /\ view'.pages = KeptPages
          /\ view'.prefix = 1 /\ view'.items[1] = "new" /\ view'.items[0] = "none"
          /\ view'.currentBlock = Target /\ view'.root = "new"
      BY <1>0, <2>1, <2>2 DEF ResetInv, ResetStorage
    <2>4. HeadersFound(view')
      BY <2>3, KeptHeadersFound
    <2>5. view'.items = [p \in 0 .. 1 |-> IF p = view'.prefix THEN "new" ELSE "none"]
      BY <1>0, <2>2, <2>3 DEF TypeOK, Storage
    <2>6. Moved(view)'
      BY <2>3, <2>4, <2>5 DEF Moved
    <2> QED
      BY <1>0, <1>1, <2>1, <2>2, <2>6 DEF ResetInv, ResetStorage, Stages
  <1>9. CASE ResetSend
    BY <1>0, <1>1, <1>9 DEF ResetSend, ResetInv, ResetStorage, Moved
  <1> QED
    BY <1>2, <1>3, <1>4, <1>5, <1>6, <1>7, <1>8, <1>9 DEF Reset

\* ... and so do the persisting goroutine, an error and a restart.
LEMMA ResetInvNext == ASSUME IInv, ResetInv, [Next]_vars PROVE ResetInv'
  <1> USE Constants
  <1>1. CASE Jump \/ RunPersist
    BY <1>1 DEF Jump, Step, JumpNone, JumpVersion, JumpStarted, JumpItems, JumpRoot, JumpFinish,
                JumpPersist, RunPersist, ResetInv
  <1>2. CASE ResetPersist
    BY <1>2 DEF ResetPersist, ResetInv, ResetStorage, Moved
  <1>3. CASE Fail
    BY <1>3 DEF Fail, ResetInv, ResetStorage, Moved, Stages
  <1>4. CASE Restart
    <2> SUFFICES ASSUME op = "reset" PROVE ResetInv'
      BY <1>4 DEF Restart, ResetInv
    <2>1. op' = op /\ view' = disk /\ disk' = disk
      BY <1>4 DEF Restart
    <2>2. ResetStorage(view)' /\ ResetStorage(disk)'
      BY <2>1 DEF ResetInv, ResetStorage, Moved
    <2>3. /\ crashes' # 0
          /\ pc' = "none" => disk.stage = "none" /\ disk.currentBlock # Target
          /\ pc' \in Stages \ {"none"} => disk.stage = pc'
          /\ pc' = "stateJumpStarted" => i' = Target + 1
          /\ pc' # "finish"
      BY <1>4 DEF Restart, Unmarked, IInv, TypeOK, Storage, Stages
    <2>4. pc' = "none" => view' = Before(op)
      BY <2>1, <2>3 DEF ResetInv, ResetStorage, Moved
    <2> QED
      BY <2>1, <2>2, <2>3, <2>4 DEF ResetInv
  <1>5. CASE UNCHANGED vars
    BY <1>5 DEF vars, ResetInv, ResetStorage, Moved
  <1> QED
    BY <1>1, <1>2, <1>3, <1>4, <1>5, ResetInvStages DEF Next

\* A jump, interrupted or not: initially ...
LEMMA JumpStageInit == Init => JumpStageInv
  BY Constants DEF Init, Before, JumpStageInv, JumpStorage, JumpMarked, AllPages, Index

\* ... through its stages ...
LEMMA JumpStageStages == ASSUME IInv, JumpStageInv, Jump PROVE JumpStageInv'
  <1> USE Constants
  <1>0. TypeOK /\ op = "jump" /\ op' = op
    BY DEF IInv, Jump, Step, JumpNone, JumpVersion, JumpStarted, JumpItems, JumpRoot, JumpFinish,
           JumpPersist
  <1>1. CASE JumpNone \/ JumpVersion \/ JumpStarted
    <2>1. /\ disk' = disk /\ mpt' = mpt /\ 0 \in view.records
          /\ pc' \in {"stateJumpStarted", "versionPut", "newStorageItemsAdded"}
      BY <1>0, <1>1 DEF JumpNone, JumpVersion, JumpStarted, Step, JumpStageInv
    <2>2. /\ view'.records = view.records /\ view'.pages = view.pages
          /\ view'.currentHeader = view.currentHeader
          /\ view'.stage \in {"stateJumpStarted", "newStorageItemsAdded"}
      BY <1>0, <1>1 DEF JumpNone, JumpVersion, JumpStarted, Step, JumpStageInv, JumpMarked,
                        TypeOK, Storage
    <2>3. pc' = "versionPut" => view'.stage = "stateJumpStarted"
      BY <1>0, <1>1 DEF JumpNone, JumpVersion, JumpStarted, Step, JumpStageInv, JumpMarked,
                        TypeOK, Storage
    <2>4. pc' # "versionPut" => view'.stage = pc'
      BY <1>0, <1>1 DEF JumpNone, JumpVersion, JumpStarted, Step, TypeOK, Storage
    <2> QED
      BY <1>0, <2>1, <2>2, <2>3, <2>4 DEF JumpStageInv, JumpStorage, JumpMarked
  <1>2. CASE JumpItems
    <2>1. /\ disk' = disk /\ pc' = "staleBlocksRemoved" /\ view'.records = view.records \ {0}
          /\ view'.pages = view.pages /\ view'.currentHeader = view.currentHeader
          /\ view'.stage = "staleBlocksRemoved" /\ view'.currentBlock = Target
      BY <1>0, <1>2 DEF JumpItems, Step, TypeOK, Storage
    <2> QED
      BY <1>0, <2>1 DEF JumpStageInv, JumpStorage, JumpMarked
  <1>3. CASE JumpRoot
    <2>1. /\ disk' = disk /\ pc = "staleBlocksRemoved" /\ pc' = "finish" /\ mpt' = "new"
          /\ view'.records = view.records /\ view'.currentBlock = view.currentBlock
          /\ view'.pages = view.pages /\ view'.currentHeader = view.currentHeader
          /\ view'.stage = view.stage /\ view'.root = "new"
      BY <1>0, <1>3 DEF JumpRoot, Step, TypeOK, Storage
    <2> QED
      BY <1>0, <2>1 DEF JumpStageInv, JumpStorage, JumpMarked
  <1>4. CASE JumpFinish
    <2>1. /\ disk' = disk /\ pc = "finish" /\ pc' = "done" /\ mpt' = mpt
          /\ view'.records = view.records /\ view'.currentBlock = view.currentBlock
          /\ view'.pages = view.pages /\ view'.currentHeader = view.currentHeader
          /\ view'.stage = "none" /\ view'.root = view.root
      BY <1>0, <1>4 DEF JumpFinish, Step, TypeOK, Storage
    <2>2. view.currentBlock = Target
      BY <1>0, <2>1 DEF IInv, StageInv
    <2> QED
      BY <1>0, <2>1, <2>2 DEF JumpStageInv, JumpStorage, JumpMarked
  <1>5. CASE JumpPersist
    BY <1>0, <1>5 DEF JumpPersist, JumpStageInv, JumpMarked
  <1> QED
    BY <1>1, <1>2, <1>3, <1>4, <1>5 DEF Jump

\* ... and through persists, errors and restarts.
LEMMA JumpStageNext == ASSUME IInv, JumpStageInv, [Next]_vars PROVE JumpStageInv'
  <1> USE Constants
  <1>1. CASE Reset
    BY <1>1 DEF Reset, Step, ResetNone, ResetSomeBlocks, ResetLastBlocks, ResetItems,
                ResetHeaders, ResetTransfers, ResetSeekGC, ResetFinish, ResetSend, JumpStageInv
  <1>2. CASE RunPersist \/ ResetPersist \/ Fail \/ UNCHANGED vars
    BY <1>2 DEF RunPersist, ResetPersist, Fail, vars, JumpStageInv, JumpMarked
  <1>3. CASE Restart
    <2> SUFFICES ASSUME op = "jump" PROVE JumpStageInv'
      BY <1>3 DEF Restart, JumpStageInv
    <2>1. op' = op /\ view' = disk /\ disk' = disk
      BY <1>3 DEF Restart
    <2>2. JumpStorage(view)' /\ JumpStorage(disk)'
      BY <2>1 DEF JumpStageInv, JumpStorage
    <2>3. disk.stage \in {"none", "stateJumpStarted", "newStorageItemsAdded", "staleBlocksRemoved"}
      BY DEF IInv, TypeOK, Storage, Stages, StorageInv
    <2>4. /\ pc' \in {"failed", "done", "none"} \/ pc' = disk.stage
          /\ pc' = "none" => disk.stage = "none" /\ disk.currentBlock # Target
          /\ pc' = "done" => disk.stage = "none" /\ disk.currentBlock = Target /\ mpt' = disk.root
      BY <1>3, <2>3 DEF Restart, Unmarked
    <2> QED
      BY <2>1, <2>2, <2>3, <2>4 DEF JumpStageInv, JumpStorage, JumpMarked
  <1> QED
    BY <1>1, <1>2, <1>3, JumpStageStages DEF Next

\* A jump without interruption: initially ...
LEMMA JumpOnceInit == Init => JumpOnceInv
  BY Constants DEF Init, Before, JumpOnceInv

\* ... and through its stages.
LEMMA JumpOnceNext == ASSUME IInv, JumpStageInv, JumpOnceInv, [Next]_vars PROVE JumpOnceInv'
  <1> USE Constants
  <1> SUFFICES ASSUME op' = "jump", crashes' = 0 PROVE JumpOnceInv'
    BY DEF JumpOnceInv
  <1>0. op = "jump" /\ TypeOK /\ crashes \in Nat
    BY DEF Next, Jump, Reset, Step, JumpNone, JumpVersion, JumpStarted, JumpItems, JumpRoot,
           JumpFinish, JumpPersist, RunPersist, ResetNone, ResetSomeBlocks, ResetLastBlocks,
           ResetItems, ResetHeaders, ResetTransfers, ResetSeekGC, ResetFinish, ResetSend,
           ResetPersist, Fail, Restart, vars, IInv, TypeOK
  <1>1. CASE JumpNone \/ JumpVersion \/ JumpStarted
    <2>1. /\ disk' = disk /\ crashes = 0
          /\ view'.stage # "none" /\ view'.items = view.items
          /\ pc' = "stateJumpStarted" => pc = "none" /\ view'.prefix = view.prefix
          /\ pc' = "versionPut" => pc = "stateJumpStarted" /\ view'.prefix = 1 - view.prefix
          /\ pc' = "newStorageItemsAdded" => pc = "versionPut" /\ view'.prefix = view.prefix
          /\ pc' \in {"stateJumpStarted", "versionPut", "newStorageItemsAdded"}
      <3>1. CASE JumpNone
        BY <1>0, <3>1 DEF JumpNone, Step, TypeOK, Storage
      <3>2. CASE JumpVersion
        <4>1. view.stage # "none"
          BY <1>0, <3>2 DEF JumpVersion, Step, JumpMarked, JumpStageInv
        <4> QED
          BY <1>0, <3>2, <4>1 DEF JumpVersion, Step, TypeOK, Storage, TemporaryPrefix
      <3>3. CASE JumpStarted
        BY <1>0, <3>3 DEF JumpStarted, Step, TypeOK, Storage
      <3> QED
        BY <1>1, <3>1, <3>2, <3>3
    <2>2. pc' = "stateJumpStarted" => view'.prefix = 0 /\ view'.items[1] = "new"
      BY <1>0, <2>1 DEF JumpOnceInv, Before
    <2>3. pc' \in {"versionPut", "newStorageItemsAdded"} =>
              view'.prefix = 1 /\ view'.items[1] = "new"
      BY <1>0, <2>1 DEF JumpOnceInv
    <2>4. disk'.stage = "none" => disk' = Before(op') \/ Moved(disk)'
      BY <1>0, <2>1 DEF JumpOnceInv, Moved
    <2> QED
      BY <2>1, <2>2, <2>3, <2>4 DEF JumpOnceInv
  <1>2. CASE JumpItems
    <2>1. /\ disk' = disk /\ crashes = 0 /\ pc = "newStorageItemsAdded"
          /\ pc' = "staleBlocksRemoved" /\ view'.stage = "staleBlocksRemoved"
          /\ view'.prefix = view.prefix
          /\ view'.items = [view.items EXCEPT ![1 - view.prefix] = "none"]
      BY <1>0, <1>2 DEF JumpItems, Step, TypeOK, Storage, TemporaryPrefix
    <2>2. view'.prefix = 1 /\ view'.items[1] = "new" /\ view'.items[0] = "none"
      BY <1>0, <2>1 DEF JumpOnceInv, TypeOK, Storage
    <2>3. disk'.stage = "none" => disk' = Before(op') \/ Moved(disk)'
      BY <1>0, <2>1 DEF JumpOnceInv, Moved
    <2> QED
      BY <2>1, <2>2, <2>3 DEF JumpOnceInv
  <1>3. CASE JumpRoot
    <2>1. /\ disk' = disk /\ crashes = 0 /\ pc = "staleBlocksRemoved" /\ pc' = "finish"
          /\ view'.stage = view.stage /\ view'.prefix = view.prefix /\ view'.items = view.items
      BY <1>0, <1>3 DEF JumpRoot, Step, TypeOK, Storage
    <2>2. view.stage # "none"
      BY <1>0, <2>1 DEF JumpMarked, JumpStageInv
    <2>3. disk'.stage = "none" => disk' = Before(op') \/ Moved(disk)'
      BY <1>0, <2>1 DEF JumpOnceInv, Moved
    <2> QED
      BY <1>0, <2>1, <2>2, <2>3 DEF JumpOnceInv
  <1>4. CASE JumpFinish
    <2>1. /\ disk' = disk /\ crashes = 0 /\ pc = "finish" /\ pc' = "done"
          /\ view'.prefix = view.prefix /\ view'.items = view.items
          /\ view'.currentBlock = view.currentBlock /\ view'.root = view.root
      BY <1>0, <1>4 DEF JumpFinish, Step, TypeOK, Storage
    <2>2. /\ view'.prefix = 1 /\ view'.items[1] = "new" /\ view'.items[0] = "none"
          /\ view'.currentBlock = Target /\ view'.root = "new"
      BY <1>0, <2>1 DEF JumpOnceInv, IInv, StageInv, JumpStageInv
    <2>3. view'.items = [p \in 0 .. 1 |-> IF p = view'.prefix THEN "new" ELSE "none"]
      BY <1>0, <2>1, <2>2 DEF TypeOK, Storage
    <2>4. Moved(view)'
      BY <2>2, <2>3 DEF Moved
    <2>5. disk'.stage = "none" => disk' = Before(op') \/ Moved(disk)'
      BY <1>0, <2>1 DEF JumpOnceInv, Moved
    <2> QED
      BY <2>1, <2>4, <2>5 DEF JumpOnceInv
  <1>5. CASE JumpPersist \/ RunPersist \/ ResetPersist
    BY <1>0, <1>5 DEF JumpPersist, RunPersist, ResetPersist, JumpOnceInv, Moved
  <1>6. CASE Fail \/ UNCHANGED vars
    BY <1>0, <1>6 DEF Fail, vars, JumpOnceInv, Moved
  <1>7. CASE Reset \/ Restart
    BY <1>0, <1>7 DEF Reset, Step, ResetNone, ResetSomeBlocks, ResetLastBlocks, ResetItems,
           ResetHeaders, ResetTransfers, ResetSeekGC, ResetFinish, ResetSend, Restart
  <1> QED
    BY <1>1, <1>2, <1>3, <1>4, <1>5, <1>6, <1>7 DEF Next, Jump

\* Resuming needs nothing else: a stage of a jump never misses a block, and a
\* restart finds the headers.
LEMMA JumpNeverFails ==
    ASSUME HeaderHeight + 1 >= Batch, IInv, JumpStageInv, JumpResumes, [Next]_vars,
           ResetInv'
    PROVE  JumpResumes'
  <1> USE Constants
  <1>1. JumpStageInv'
    BY JumpStageNext
  <1>2. MptReady'
    BY <1>1, NextInv DEF MptReady, JumpStageInv, ResetInv, IInv, TypeOK
  <1>3. ASSUME op' = "jump" PROVE pc' \notin {"failed", "error"}
    <2>0. op = "jump"
      BY <1>3, NextInv DEF Next, Jump, Reset, Step, JumpNone, JumpVersion, JumpStarted, JumpItems,
           JumpRoot, JumpFinish, JumpPersist, RunPersist, ResetNone, ResetSomeBlocks,
           ResetLastBlocks, ResetItems, ResetHeaders, ResetTransfers, ResetSeekGC, ResetFinish,
           ResetSend, ResetPersist, Fail, Restart, vars
    <2>1. CASE Fail
      <3>1. 0 \in Index /\ Target \in Index \ {0} /\ Target + 1 \in Index \ {0}
        BY DEF Index
      <3>2. Required \subseteq view.records
        BY <2>0, <3>1 DEF Required, JumpStageInv, JumpStorage
      <3> QED
        BY <2>1, <3>2 DEF Fail
    <2>2. CASE Restart
      <3>1. HeadersFound(disk)
        BY <2>0, JumpHeadersFound DEF JumpStageInv
      <3>2. disk.stage \notin {"failed", "error"}
        BY DEF IInv, TypeOK, Storage, Stages
      <3> QED
        BY <2>2, <3>1, <3>2 DEF Restart, Unmarked
    <2>3. CASE ~Fail /\ ~Restart
      BY <2>0, <2>3 DEF Next, Jump, Reset, Step, JumpNone, JumpVersion, JumpStarted, JumpItems,
           JumpRoot, JumpFinish, JumpPersist, RunPersist, ResetNone, ResetSomeBlocks,
           ResetLastBlocks, ResetItems, ResetHeaders, ResetTransfers, ResetSeekGC, ResetFinish,
           ResetSend, ResetPersist, vars, JumpResumes
    <2> QED
      BY <2>1, <2>2, <2>3
  <1> QED
    BY <1>2, <1>3 DEF JumpResumes

\* The invariants of the two operations hold in every reachable state.
THEOREM OperationsHold == Spec => [](ResetInv /\ JumpStageInv /\ JumpOnceInv)
  <1>1. Init => ResetInv /\ JumpStageInv /\ JumpOnceInv
    BY ResetInvInit, JumpStageInit, JumpOnceInit
  <1>2. IInv /\ ResetInv /\ JumpStageInv /\ JumpOnceInv /\ [Next]_vars =>
            ResetInv' /\ JumpStageInv' /\ JumpOnceInv'
    BY ResetInvNext, JumpStageNext, JumpOnceNext
  <1> QED
    BY InvHolds, <1>1, <1>2, PTL DEF Spec

\* However often resetStateInternal is interrupted and resumed, between any two
\* of its stages and whatever the goroutine behind persistCh had written by
\* then, a database without a stage mark is either as it was or completely
\* reset, with header hashes HeaderHashes.init can read; and so is the database
\* of a jump that is not interrupted, although Run persists in the middle of
\* its stages.
THEOREM AllOrNothingHolds == Spec => []AllOrNothing
  <1>1. IInv /\ ResetInv /\ JumpStageInv /\ JumpOnceInv => AllOrNothing
    BY Constants DEF AllOrNothing, IInv, TypeOK, ResetInv, ResetStorage, JumpOnceInv
  <1> QED
    BY InvHolds, OperationsHold, <1>1, PTL

\* On a chain with at least one page of header hashes, a jump can be resumed
\* after every interruption: jumpToStateInternal finds the blocks each stage
\* reads, init finds the headers although genesis is gone, and at the end the
\* state root module works on the new trie.  On a shorter chain the property
\* fails: HeaderHashes.init would walk back to the genesis block.
THEOREM JumpResumesHolds == ASSUME HeaderHeight + 1 >= Batch PROVE Spec => []JumpResumes
  <1>1. Init => JumpResumes
    BY DEF Init, JumpResumes, MptReady
  <1>2. IInv /\ JumpStageInv /\ ResetInv' /\ JumpResumes /\ [Next]_vars => JumpResumes'
    BY JumpNeverFails
  <1> QED
    BY InvHolds, OperationsHold, <1>1, <1>2, PTL DEF Spec
=============================================================================
