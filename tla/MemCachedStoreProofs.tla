------------------------ MODULE MemCachedStoreProofs ------------------------
(***************************************************************************)
(* Proofs about MemCachedStore, for any sets of keys, values, maps and     *)
(* seekers.                                                                *)
(***************************************************************************)
EXTENDS MemCachedStore, TLAPS

\* The layers fit together: there is a temporary store exactly while a
\* persist runs, it is not the map that takes the writes, and once it is
\* flushed the database agrees with all of it.
LayerInv ==
    /\ (pstage = "idle") <=> (temp = NoMap)
    /\ mem # temp
    /\ pstage = "flushed" =>
           \A k \in Keys : heap[temp][k] # Unset => db[k] = heap[temp][k]

\* Only a Seek that is about to read a captured map holds one.
CaptureInv ==
    \A s \in Seekers : (seek[s].pc = "temp") <=> (seek[s].low # NoMap)

-----------------------------------------------------------------------------
USE DEF ghosts

\* maps.Copy of two change sets is a change set.
LEMMA OverlayType ==
    ASSUME NEW cs \in ChangeSet, NEW base \in ChangeSet
    PROVE  Overlay(cs, base) \in ChangeSet
  BY DEF Overlay, ChangeSet

\* A batch applied to the database leaves a database without marks or gaps.
LEMMA OverlayState ==
    ASSUME NEW cs \in ChangeSet, NEW base \in State
    PROVE  Overlay(cs, base) \in State
  BY StoreAssumption DEF Overlay, ChangeSet, State

\* A fresh map is a change set.
LEMMA EmptyType == Empty \in ChangeSet
  BY DEF Empty, ChangeSet

\* The state of a Seek that has not begun is typed.
LEMMA IdleSeekType == IdleSeek \in SeekState
  BY EmptyType DEF IdleSeek, SeekState

\* Collecting dead maps keeps the types and the live maps.
LEMMA SweepType ==
    ASSUME NEW h \in [MapIds -> ChangeSet], NEW live
    PROVE  /\ Sweep(h, live) \in [MapIds -> ChangeSet]
           /\ \A i \in MapIds \cap live : Sweep(h, live)[i] = h[i]
  BY EmptyType DEF Sweep

\* Every writer is putChangeSet of some change set.
LEMMA WriterIsPutChangeSet ==
    ASSUME Writers
    PROVE  \E cs \in ChangeSet : putChangeSet(cs)
  <1>1. CASE \E k \in Keys, v \in Values : Put(k, v)
    <2>1. PICK k \in Keys, v \in Values : Put(k, v)
      BY <1>1
    <2>2. [Empty EXCEPT ![k] = v] \in ChangeSet
      BY EmptyType DEF ChangeSet
    <2> QED
      BY <2>1, <2>2 DEF Put
  <1>2. CASE \E k \in Keys : Delete(k)
    <2>1. PICK k \in Keys : Delete(k)
      BY <1>2
    <2>2. [Empty EXCEPT ![k] = NoValue] \in ChangeSet
      BY EmptyType DEF ChangeSet
    <2> QED
      BY <2>1, <2>2 DEF Delete
  <1>3. CASE \E cs \in PrivateSets : PutChangeSet(cs)
    BY <1>3, StoreAssumption DEF PutChangeSet
  <1>4. CASE \E first, second \in PrivateSets : PersistPrivate(first, second)
    BY <1>4, StoreAssumption, OverlayType DEF PersistPrivate
  <1> QED
    BY <1>1, <1>2, <1>3, <1>4 DEF Writers

\* The readers see a state: every layer is typed.
LEMMA ViewType ==
    ASSUME TypeOK
    PROVE  View \in State
  BY StoreAssumption DEF View, Get, Lower, Overlay, TypeOK, ChangeSet, State

-----------------------------------------------------------------------------
Inv == TypeOK /\ LayerInv /\ CaptureInv

\* A store just opened satisfies the invariant.
LEMMA InitInv == Init => Inv
  BY EmptyType, IdleSeekType, StoreAssumption
     DEF Init, Inv, TypeOK, LayerInv, CaptureInv, IdleSeek

\* Writers touch the entries of s.mem and the history of the Seeks only.
LEMMA WriteInv ==
    ASSUME Inv, NEW cs \in ChangeSet, putChangeSet(cs)
    PROVE  Inv' /\ View' = Overlay(cs, View)
  <1> USE DEF Inv
  <1>1. heap' \in [MapIds -> ChangeSet]
    BY OverlayType DEF putChangeSet, TypeOK
  <1>2. /\ heap'[mem] = Overlay(cs, heap[mem])
        /\ \A i \in MapIds \ {mem} : heap'[i] = heap[i]
    BY DEF putChangeSet, TypeOK
  <1>3. Lower' = Lower
    BY <1>2 DEF Lower, putChangeSet, TypeOK, LayerInv
  <1>4. View' = Overlay(cs, View)
    BY <1>2, <1>3 DEF View, Get, Overlay, putChangeSet
  <1>5. View' \in State
    BY <1>4, ViewType, OverlayState
  <1>6. seen' \in [Seekers -> [Keys -> SUBSET (Values \cup {NoValue})]]
    BY <1>5 DEF putChangeSet, Observe, TypeOK, State
  <1>7. TypeOK'
    BY <1>1, <1>6 DEF putChangeSet, TypeOK
  <1>8. LayerInv'
    BY <1>2 DEF putChangeSet, TypeOK, LayerInv
  <1>9. CaptureInv'
    BY DEF putChangeSet, CaptureInv
  <1> QED
    BY <1>4, <1>7, <1>8, <1>9

\* Moving the maps to tempstore keeps the invariant and what readers see.
LEMMA PersistStartInv ==
    ASSUME Inv, NEW mode \in {"sync", "async"}, NEW fresh \in MapIds,
           PersistStart(mode, fresh)
    PROVE  Inv' /\ View' = View
  <1> USE DEF Inv
  <1>1. TypeOK'
    BY EmptyType DEF PersistStart, TypeOK
  <1>2. LayerInv'
    BY StoreAssumption DEF PersistStart, LayerInv, TypeOK
  <1>3. CaptureInv'
    BY DEF PersistStart, CaptureInv
  <1>4. /\ heap'[fresh] = Empty
        /\ heap'[mem] = heap[mem]
        /\ temp = NoMap /\ temp' = mem /\ mem # NoMap /\ mem' = fresh /\ db' = db
    BY StoreAssumption DEF PersistStart, TypeOK, LayerInv
  <1>5. View' = View
    BY <1>4 DEF View, Get, Lower, Overlay, Empty
  <1> QED
    BY <1>1, <1>2, <1>3, <1>5

\* The database taking the batch keeps the invariant and what readers see.
LEMMA PersistFlushInv ==
    ASSUME Inv, PersistFlush
    PROVE  Inv' /\ View' = View
  <1> USE DEF Inv
  <1>0. temp \in MapIds
    BY DEF PersistFlush, LayerInv, TypeOK
  <1>1. TypeOK'
    BY <1>0, OverlayState DEF PersistFlush, TypeOK
  <1>2. LayerInv'
    BY <1>0 DEF PersistFlush, LayerInv, TypeOK, Overlay
  <1>3. CaptureInv'
    BY DEF PersistFlush, CaptureInv
  <1>4. View' = View
    BY <1>0, StoreAssumption DEF PersistFlush, View, Get, Lower, Overlay
  <1> QED
    BY <1>1, <1>2, <1>3, <1>4

\* The database refusing the batch keeps the invariant and what readers see.
LEMMA PersistFailInv ==
    ASSUME Inv, PersistFail
    PROVE  Inv' /\ View' = View
  BY DEF Inv, PersistFail, TypeOK, LayerInv, CaptureInv, View, Get, Lower

\* Dropping a flushed tempstore keeps the invariant and what readers see.
LEMMA PersistDoneInv ==
    ASSUME Inv, PersistDone
    PROVE  Inv' /\ View' = View
  <1> USE DEF Inv
  <1>0. temp \in MapIds
    BY DEF PersistDone, LayerInv, TypeOK
  <1>1. TypeOK'
    BY SweepType DEF PersistDone, TypeOK
  <1>2. LayerInv'
    BY StoreAssumption DEF PersistDone, LayerInv, TypeOK
  <1>3. CaptureInv'
    BY DEF PersistDone, CaptureInv
  <1>4. heap'[mem] = heap[mem]
    BY SweepType DEF PersistDone, TypeOK
  <1>5. \A k \in Keys : heap[temp][k] # Unset => db[k] = heap[temp][k]
    BY DEF PersistDone, LayerInv
  <1>6. View' = View
    BY <1>0, <1>4, <1>5, StoreAssumption DEF PersistDone, View, Get, Lower, Overlay
  <1> QED
    BY <1>1, <1>2, <1>3, <1>6

\* Merging the maps after a failure keeps the invariant and what readers see.
LEMMA PersistRestoreInv ==
    ASSUME Inv, PersistRestore
    PROVE  /\ Inv' /\ View' = View
           /\ heap'[temp] = Overlay(heap[mem], heap[temp])
  <1> USE DEF Inv
  <1> DEFINE h == [heap EXCEPT ![temp] = Overlay(heap[mem], heap[temp])]
  <1>0. temp \in MapIds
    BY DEF PersistRestore, LayerInv, TypeOK
  <1>1. h \in [MapIds -> ChangeSet]
    BY <1>0, OverlayType DEF TypeOK
  <1>2. heap' = Sweep(h, {temp} \cup Captured(seek))
    BY DEF PersistRestore
  <1>3. TypeOK'
    <2>1. heap' \in [MapIds -> ChangeSet]
      BY <1>1, <1>2, SweepType
    <2> QED
      BY <1>0, <2>1 DEF PersistRestore, TypeOK
  <1>4. LayerInv'
    BY <1>0, StoreAssumption DEF PersistRestore, LayerInv
  <1>5. CaptureInv'
    BY DEF PersistRestore, CaptureInv
  <1>6. heap'[temp] = Overlay(heap[mem], heap[temp])
    <2>1. heap'[temp] = h[temp]
      BY <1>0, <1>1, <1>2, SweepType
    <2> QED
      BY <1>0, <2>1 DEF TypeOK
  <1>7. View' = View
    BY <1>0, <1>6, StoreAssumption DEF PersistRestore, View, Get, Lower, Overlay
  <1> QED
    BY <1>3, <1>4, <1>5, <1>6, <1>7

\* prepareSeekMemSnapshot keeps the invariant and what readers see.
LEMMA SeekStartInv ==
    ASSUME Inv, NEW s \in Seekers, SeekStart(s)
    PROVE  Inv' /\ View' = View
  <1> USE DEF Inv
  <1>1. [pc  |-> IF temp = NoMap THEN "db" ELSE "temp",
         res |-> heap[mem], low |-> temp] \in SeekState
    BY DEF TypeOK, SeekState
  <1>2. [k \in Keys |-> {View[k]}] \in [Keys -> SUBSET (Values \cup {NoValue})]
    BY ViewType DEF State
  <1>3. TypeOK'
    BY <1>1, <1>2 DEF SeekStart, TypeOK
  <1>4. LayerInv'
    BY DEF SeekStart, LayerInv
  <1>5. CaptureInv'
    BY DEF SeekStart, CaptureInv, TypeOK
  <1>6. View' = View
    BY DEF SeekStart, View, Get, Lower
  <1> QED
    BY <1>3, <1>4, <1>5, <1>6

\* Reading the captured tempstore keeps the invariant and what readers see.
LEMMA SeekTempInv ==
    ASSUME Inv, NEW s \in Seekers, SeekTemp(s)
    PROVE  /\ Inv' /\ View' = View
           /\ heap'[mem] = heap[mem]
           /\ temp # NoMap => heap'[temp] = heap[temp]
           /\ \A q \in Seekers : seek'[q].low # NoMap =>
                  heap'[seek'[q].low] = heap[seek'[q].low]
  <1> USE DEF Inv
  <1>1. seek[s] \in SeekState /\ seek[s].low \in MapIds
    BY DEF SeekTemp, TypeOK, CaptureInv, SeekState
  <1>2. [pc |-> "db", res |-> Overlay(seek[s].res, heap[seek[s].low]),
         low |-> NoMap] \in SeekState
    BY <1>1, OverlayType DEF TypeOK, SeekState
  <1>3. seek' \in [Seekers -> SeekState]
    BY <1>2 DEF SeekTemp, TypeOK
  <1>4. heap' = Sweep(heap, {mem, temp} \cup Captured(seek'))
    BY DEF SeekTemp
  <1>5. /\ heap' \in [MapIds -> ChangeSet]
        /\ heap'[mem] = heap[mem]
        /\ temp # NoMap => heap'[temp] = heap[temp]
    BY <1>4, SweepType DEF TypeOK
  <1>10. TypeOK'
    BY <1>3, <1>5 DEF SeekTemp, TypeOK
  <1>6. \A q \in Seekers : seek'[q].low # NoMap =>
            heap'[seek'[q].low] = heap[seek'[q].low]
    <2> SUFFICES ASSUME NEW q \in Seekers, seek'[q].low # NoMap
                 PROVE  heap'[seek'[q].low] = heap[seek'[q].low]
      OBVIOUS
    <2>1. seek'[q].low \in MapIds \cap ({mem, temp} \cup Captured(seek'))
      BY <1>3 DEF Captured, SeekState
    <2> QED
      BY <2>1, <1>4, SweepType DEF TypeOK
  <1>7. LayerInv'
    BY <1>5 DEF SeekTemp, LayerInv
  <1>8. CaptureInv'
    BY DEF SeekTemp, CaptureInv, TypeOK
  <1>9. View' = View
    BY <1>5 DEF SeekTemp, View, Get, Lower
  <1> QED
    BY <1>5, <1>6, <1>7, <1>8, <1>9, <1>10

\* Reading the database keeps the invariant and what readers see.
LEMMA SeekDBInv ==
    ASSUME Inv, NEW s \in Seekers, SeekDB(s)
    PROVE  Inv' /\ View' = View
  <1> USE DEF Inv
  <1>1. Overlay(seek[s].res, db) \in ChangeSet
    BY DEF TypeOK, SeekState, State, ChangeSet, Overlay
  <1>2. TypeOK'
    BY <1>1, ZenonT(40) DEF SeekDB, TypeOK, SeekState
  <1>3. LayerInv' /\ View' = View
    BY DEF SeekDB, LayerInv, View, Get, Lower
  <1>4. CaptureInv'
    BY DEF SeekDB, CaptureInv, TypeOK, SeekState
  <1> QED
    BY <1>2, <1>3, <1>4

\* The end of a Seek keeps the invariant and what readers see.
LEMMA SeekReturnInv ==
    ASSUME Inv, NEW s \in Seekers, SeekReturn(s)
    PROVE  Inv' /\ View' = View
  <1> USE DEF Inv
  <1>1. TypeOK'
    BY IdleSeekType DEF SeekReturn, TypeOK
  <1>2. LayerInv' /\ View' = View
    BY DEF SeekReturn, LayerInv, View, Get, Lower
  <1>3. CaptureInv'
    BY DEF SeekReturn, CaptureInv, TypeOK, IdleSeek
  <1> QED
    BY <1>1, <1>2, <1>3

\* After a crash readers see the database.
LEMMA CrashInv ==
    ASSUME Inv, Crash
    PROVE  Inv' /\ View' = db
  <1>1. Inv'
    BY EmptyType, IdleSeekType, StoreAssumption
       DEF Crash, Inv, TypeOK, LayerInv, CaptureInv, IdleSeek
  <1>2. heap'[mem'] = Empty
    BY DEF Crash
  <1>3. View' = db
    BY <1>2 DEF Inv, Crash, TypeOK, State, View, Get, Lower, Empty
  <1> QED
    BY <1>1, <1>3

\* A step that changes nothing keeps the invariant.
LEMMA StutterInv ==
    ASSUME Inv, UNCHANGED vars
    PROVE  Inv' /\ View' = View
  BY DEF vars, Inv, TypeOK, LayerInv, CaptureInv, View, Get, Lower

\* Every step of the store keeps the invariant.
LEMMA NextInv ==
    ASSUME Inv, [Next]_vars
    PROVE  Inv'
  <1>1. CASE Writers
    BY <1>1, WriterIsPutChangeSet, WriteInv
  <1>2. CASE Persisting
    BY <1>2, PersistStartInv, PersistFlushInv, PersistFailInv, PersistDoneInv,
       PersistRestoreInv DEF Persisting
  <1>3. CASE Seeking
    BY <1>3, SeekStartInv, SeekTempInv, SeekDBInv, SeekReturnInv DEF Seeking
  <1> QED
    BY <1>1, <1>2, <1>3, CrashInv, StutterInv DEF Next

\* The layers of the store are typed and fit together in every reachable
\* state (persist, Seek and the writers of memcached_store.go).
THEOREM InvHolds == Spec => []Inv
  BY InitInv, NextInv, PTL DEF Spec

\* Type correctness: in particular the database never holds a deletion mark
\* or a gap (persist of memcached_store.go).
THEOREM TypeCorrect == Spec => []TypeOK
  BY InvHolds, PTL DEF Inv

-----------------------------------------------------------------------------
(* Refinement.                                                             *)

\* A store just opened is a durable map just opened.
LEMMA InitRefines == Inv /\ Init => Abs!Init
  <1> SUFFICES ASSUME Inv, Init
               PROVE  Abs!Init
    OBVIOUS
  <1>1. View = db
    BY DEF Inv, TypeOK, Init, View, Get, Lower, Empty, State
  <1>2. db \in State
    BY DEF Init
  <1> QED
    BY <1>1, <1>2 DEF Abs!Init, Abs!State, State, Init, Empty

\* Every step of the store is a step of the durable map or invisible to it.
LEMMA StepRefines ==
    ASSUME Inv, [Next]_vars
    PROVE  [Abs!Next]_Abs!absVars
  <1> DEFINE snap == IF pstage = "swapped" THEN {Overlay(heap[temp], db)} ELSE {}
  <1>1. CASE Writers
    <2>1. PICK cs \in ChangeSet : putChangeSet(cs)
      BY <1>1, WriterIsPutChangeSet
    <2>2. View' = Abs!Overlay(cs, View)
      BY <2>1, WriteInv DEF Overlay, Abs!Overlay
    <2>3. pstage = "swapped" => heap'[temp] = heap[temp]
      BY <2>1 DEF putChangeSet, Inv, LayerInv, TypeOK
    <2>4. snap' = snap /\ db' = db
      BY <2>1, <2>3 DEF putChangeSet, Overlay
    <2>5. arg' = cs /\ calls' = 1 - calls /\ boots' = boots
      BY <2>1 DEF putChangeSet
    <2>6. Abs!Write
      BY <2>2, <2>4, <2>5 DEF Abs!Write, Abs!ChangeSet, ChangeSet
    <2> QED
      BY <2>6 DEF Abs!Next
  <1>2. ASSUME NEW mode \in {"sync", "async"}, NEW fresh \in MapIds,
               PersistStart(mode, fresh)
        PROVE  Abs!Capture
    <2>1. View' = View
      BY <1>2, PersistStartInv
    <2>2. View = Overlay(heap[mem], db)
      BY <1>2 DEF PersistStart, Inv, LayerInv, View, Get, Lower, Overlay
    <2>3. snap = {} /\ snap' = {Overlay(heap[mem], db)} /\ db' = db /\ UNCHANGED ghosts
      BY <1>2 DEF PersistStart, Inv, TypeOK, Overlay
    <2> QED
      BY <2>1, <2>2, <2>3 DEF Abs!Capture
  <1>3. CASE PersistFlush
    <2>1. View' = View
      BY <1>3, PersistFlushInv
    <2>2. Abs!Commit
      BY <1>3, <2>1 DEF PersistFlush, Abs!Commit
    <2> QED
      BY <2>2 DEF Abs!Next
  <1>4. CASE PersistFail
    <2>1. View' = View
      BY <1>4, PersistFailInv
    <2>2. Abs!Abort
      BY <1>4, <2>1 DEF PersistFail, Abs!Abort
    <2> QED
      BY <2>2 DEF Abs!Next
  <1>5. CASE PersistDone \/ PersistRestore
    <2>1. View' = View
      BY <1>5, PersistDoneInv, PersistRestoreInv
    <2> QED
      BY <1>5, <2>1 DEF PersistDone, PersistRestore, Abs!absVars
  <1>6. CASE Seeking
    <2>1. PICK s \in Seekers : SeekStart(s) \/ SeekTemp(s) \/ SeekDB(s) \/ SeekReturn(s)
      BY <1>6 DEF Seeking
    <2>2. View' = View
      BY <2>1, SeekStartInv, SeekTempInv, SeekDBInv, SeekReturnInv
    <2>3. db' = db /\ pstage' = pstage /\ temp' = temp /\ UNCHANGED ghosts
      BY <2>1 DEF SeekStart, SeekTemp, SeekDB, SeekReturn
    <2>4. pstage = "swapped" => heap'[temp] = heap[temp]
      BY <2>1, SeekTempInv DEF SeekStart, SeekDB, SeekReturn, Inv, LayerInv
    <2>5. snap' = snap
      BY <2>3, <2>4 DEF Overlay
    <2> QED
      BY <2>2, <2>3, <2>5 DEF Abs!absVars
  <1>7. CASE Crash
    <2>1. Abs!Crash
      BY <1>7, CrashInv DEF Crash, Abs!Crash
    <2> QED
      BY <2>1 DEF Abs!Next
  <1>8. CASE UNCHANGED vars
    BY <1>8, StutterInv DEF vars, Abs!absVars, Overlay
  <1> QED
    BY <1>1, <1>2, <1>3, <1>4, <1>5, <1>6, <1>7, <1>8
       DEF Next, Persisting, Abs!Next

\* The cache over the database implements the durable key-value map, for any
\* keys, values and number of concurrent Seeks (memcached_store.go as a whole).
THEOREM Refinement == Spec => ImplementsDurableKV
  BY InvHolds, InitRefines, StepRefines, PTL DEF Spec, Abs!Spec, ImplementsDurableKV

-----------------------------------------------------------------------------
(* Soundness of Seek.                                                      *)

\* What a running Seek of s has read of k, and whatever it may still read of
\* it, are values that k held since the Seek began.
SeekInvAt(s, k) ==
    /\ View[k] \in seen[s][k]
    /\ seek[s].res[k] # Unset => seek[s].res[k] \in seen[s][k]
    /\ seek[s].res[k] = Unset =>
         IF seek[s].pc = "temp" /\ heap[seek[s].low][k] # Unset
         THEN heap[seek[s].low][k] \in seen[s][k]
         ELSE /\ db[k] \in seen[s][k]
              /\ temp # NoMap /\ heap[temp][k] # Unset
                     => heap[temp][k] \in seen[s][k]

IInv ==
    /\ Inv
    /\ \A s \in Seekers, k \in Keys :
           seek[s].pc \in {"temp", "db"} => SeekInvAt(s, k)
    /\ SeekSound

\* A writer adds the new value to what the running Seeks may answer.
LEMMA WriteSeek ==
    ASSUME IInv, NEW cs \in ChangeSet, putChangeSet(cs)
    PROVE  IInv'
  <1> USE DEF IInv
  <1>1. Inv' /\ View' = Overlay(cs, View)
    BY WriteInv
  <1>2. ASSUME NEW s \in Seekers, NEW k \in Keys, seek'[s].pc \in {"temp", "db"}
        PROVE  SeekInvAt(s, k)'
    <2>1. SeekInvAt(s, k) /\ seek' = seek /\ db' = db /\ temp' = temp
      BY <1>2 DEF putChangeSet
    <2>2. seen'[s][k] = seen[s][k] \cup {View'[k]}
      BY <1>2 DEF putChangeSet, Observe
    <2>3. temp # NoMap => heap'[temp] = heap[temp]
      BY DEF putChangeSet, Inv, LayerInv, TypeOK
    <2>4. ASSUME seek[s].pc = "temp"
          PROVE  /\ heap[seek[s].low][k] # Unset => heap'[seek[s].low][k] # Unset
                 /\ heap'[seek[s].low][k] = heap[seek[s].low][k]
                      \/ heap'[seek[s].low][k] = View'[k]
      <3>1. seek[s].low \in MapIds
        BY <2>4 DEF Inv, TypeOK, CaptureInv, SeekState
      <3>2. CASE seek[s].low = mem
        BY <3>1, <3>2 DEF putChangeSet, Inv, TypeOK, View, Get, Overlay
      <3>3. CASE seek[s].low # mem
        BY <3>1, <3>3 DEF putChangeSet, Inv, TypeOK
      <3> QED
        BY <3>2, <3>3
    <2> QED
      BY <2>1, <2>2, <2>3, <2>4 DEF SeekInvAt
  <1>3. SeekSound'
    BY DEF SeekSound, putChangeSet, Observe
  <1> QED
    BY <1>1, <1>2, <1>3

\* No step of persist spoils what a running Seek has read or will read.
LEMMA PersistSeek ==
    ASSUME IInv, Persisting
    PROVE  IInv'
  <1> USE DEF IInv
  <1>1. Inv' /\ View' = View
    BY PersistStartInv, PersistFlushInv, PersistFailInv, PersistDoneInv,
       PersistRestoreInv DEF Persisting
  <1>2. seek' = seek /\ seen' = seen
    BY DEF Persisting, PersistStart, PersistFlush, PersistFail, PersistDone, PersistRestore
  <1>3. SeekSound'
    BY <1>2 DEF SeekSound
  <1>4. ASSUME NEW s \in Seekers, NEW k \in Keys, seek[s].pc \in {"temp", "db"}
        PROVE  SeekInvAt(s, k)'
    <2>1. SeekInvAt(s, k) /\ View[k] \in seen[s][k]
      BY <1>4 DEF SeekInvAt
    <2>2. seek[s].pc = "temp" => seek[s].low \in MapIds /\ seek[s].low \in Captured(seek)
      BY DEF Inv, TypeOK, CaptureInv, SeekState, Captured
    <2>3. ASSUME NEW mode \in {"sync", "async"}, NEW fresh \in MapIds,
                 PersistStart(mode, fresh)
          PROVE  SeekInvAt(s, k)'
      <3>1. seek[s].pc = "temp" => heap'[seek[s].low] = heap[seek[s].low]
        BY <2>2, <2>3 DEF PersistStart, Inv, TypeOK
      <3>2. heap[mem][k] # Unset => heap[mem][k] \in seen[s][k]
        BY <2>1 DEF View, Get
      <3>3. temp' = mem /\ heap'[mem] = heap[mem] /\ db' = db
        BY <2>3 DEF PersistStart, Inv, TypeOK
      <3> QED
        BY <1>1, <1>2, <2>1, <3>1, <3>2, <3>3 DEF SeekInvAt
    <2>4. CASE PersistFlush
      <3>1. temp \in MapIds /\ temp # NoMap
        BY <2>4, StoreAssumption DEF PersistFlush, Inv, LayerInv, TypeOK
      <3>2. db'[k] = IF heap[temp][k] = Unset THEN db[k] ELSE heap[temp][k]
        BY <2>4 DEF PersistFlush, Overlay
      <3>3. heap' = heap /\ temp' = temp
        BY <2>4 DEF PersistFlush
      <3> QED
        BY <1>1, <1>2, <2>1, <3>1, <3>2, <3>3 DEF SeekInvAt
    <2>5. CASE PersistFail
      BY <1>1, <1>2, <2>1, <2>5 DEF SeekInvAt, PersistFail
    <2>6. CASE PersistDone
      <3>1. seek[s].pc = "temp" => heap'[seek[s].low] = heap[seek[s].low]
        BY <2>2, <2>6, SweepType DEF PersistDone, Inv, TypeOK
      <3>2. temp' = NoMap /\ db' = db
        BY <2>6 DEF PersistDone
      <3> QED
        BY <1>1, <1>2, <2>1, <3>1, <3>2 DEF SeekInvAt
    <2>7. CASE PersistRestore
      <3>1. temp' = NoMap /\ db' = db /\ temp \in MapIds
        BY <2>7 DEF PersistRestore, Inv, LayerInv, TypeOK
      <3>2. heap[mem][k] # Unset => heap[mem][k] \in seen[s][k]
        BY <2>1 DEF View, Get
      <3>3. heap'[temp][k] = IF heap[mem][k] = Unset THEN heap[temp][k] ELSE heap[mem][k]
        BY <2>7, PersistRestoreInv DEF Overlay
      <3>4. seek[s].pc = "temp" /\ seek[s].low # temp
                => heap'[seek[s].low] = heap[seek[s].low]
        BY <2>2, <2>7, <3>1 DEF PersistRestore, Sweep, Inv, TypeOK
      <3> QED
        BY <1>1, <1>2, <2>1, <3>1, <3>2, <3>3, <3>4 DEF SeekInvAt
    <2> QED
      BY <2>3, <2>4, <2>5, <2>6, <2>7 DEF Persisting
  <1> QED
    BY <1>1, <1>2, <1>3, <1>4

\* A Seek that begins has read values the keys hold.
LEMMA SeekStartSeek ==
    ASSUME IInv, NEW q \in Seekers, SeekStart(q)
    PROVE  IInv'
  <1> USE DEF IInv
  <1>1. Inv' /\ View' = View
    BY SeekStartInv
  <1>2. \A s \in Seekers \ {q} : seek'[s] = seek[s] /\ seen'[s] = seen[s]
    BY DEF SeekStart, Inv, TypeOK
  <1>3. /\ seek'[q].pc = IF temp = NoMap THEN "db" ELSE "temp"
        /\ seek'[q].res = heap[mem] /\ seek'[q].low = temp
        /\ \A k \in Keys : seen'[q][k] = {View[k]}
    BY DEF SeekStart, Inv, TypeOK
  <1>4. heap' = heap /\ db' = db /\ temp' = temp
    BY DEF SeekStart
  <1>5. SeekSound'
    BY <1>2, <1>3 DEF SeekSound
  <1>6. ASSUME NEW s \in Seekers, NEW k \in Keys, seek'[s].pc \in {"temp", "db"}
        PROVE  SeekInvAt(s, k)'
    <2>1. CASE s = q
      <3>1. heap[mem][k] # Unset => View[k] = heap[mem][k]
        BY DEF View, Get
      <3>2. heap[mem][k] = Unset => View[k] =
                IF temp = NoMap \/ heap[temp][k] = Unset THEN db[k] ELSE heap[temp][k]
        BY DEF View, Get, Lower, Overlay
      <3> QED
        BY <1>1, <1>3, <1>4, <2>1, <3>1, <3>2, SMTT(15), ZenonT(40) DEF SeekInvAt
    <2>2. CASE s # q
      BY <1>1, <1>2, <1>4, <1>6, <2>2 DEF SeekInvAt
    <2> QED
      BY <2>1, <2>2
  <1> QED
    BY <1>1, <1>5, <1>6

\* What a Seek reads from the captured tempstore was held while it ran.
LEMMA SeekTempSeek ==
    ASSUME IInv, NEW q \in Seekers, SeekTemp(q)
    PROVE  IInv'
  <1> USE DEF IInv
  <1>1. /\ Inv' /\ View' = View
        /\ temp # NoMap => heap'[temp] = heap[temp]
        /\ \A s \in Seekers : seek'[s].low # NoMap =>
               heap'[seek'[s].low] = heap[seek'[s].low]
    BY SeekTempInv
  <1>2. \A s \in Seekers \ {q} : seek'[s] = seek[s]
    BY DEF SeekTemp, Inv, TypeOK
  <1>3. /\ seek'[q].pc = "db"
        /\ seek'[q].res = Overlay(seek[q].res, heap[seek[q].low])
    BY DEF SeekTemp, Inv, TypeOK
  <1>4. seen' = seen /\ db' = db /\ temp' = temp
    BY DEF SeekTemp
  <1>5. SeekSound'
    BY <1>2, <1>3, <1>4 DEF SeekSound
  <1>6. ASSUME NEW s \in Seekers, NEW k \in Keys, seek'[s].pc \in {"temp", "db"}
        PROVE  SeekInvAt(s, k)'
    <2>1. CASE s = q
      <3>1. SeekInvAt(q, k) /\ seek[q].pc = "temp"
        BY DEF SeekTemp
      <3>2. seek'[q].res[k] = IF seek[q].res[k] = Unset THEN heap[seek[q].low][k]
                              ELSE seek[q].res[k]
        BY <1>3 DEF Overlay
      <3> QED
        BY <1>1, <1>3, <1>4, <2>1, <3>1, <3>2 DEF SeekInvAt
    <2>2. CASE s # q
      <3>1. seek'[s] = seek[s] /\ SeekInvAt(s, k)
        BY <1>2, <1>6, <2>2
      <3>2. seek[s].pc = "temp" => heap'[seek[s].low] = heap[seek[s].low]
        BY <1>1, <3>1 DEF Inv, CaptureInv
      <3> QED
        BY <1>1, <1>4, <3>1, <3>2, SMTT(15), ZenonT(40) DEF SeekInvAt
    <2> QED
      BY <2>1, <2>2
  <1> QED
    BY <1>1, <1>5, <1>6

\* What a Seek reads from the database was held while it ran.
LEMMA SeekDBSeek ==
    ASSUME IInv, NEW q \in Seekers, SeekDB(q)
    PROVE  IInv'
  <1> USE DEF IInv
  <1>1. Inv' /\ View' = View
    BY SeekDBInv
  <1>2. \A s \in Seekers \ {q} : seek'[s] = seek[s]
    BY DEF SeekDB, Inv, TypeOK
  <1>3. seek'[q].pc = "done" /\ seek'[q].res = Overlay(seek[q].res, db)
    BY DEF SeekDB, Inv, TypeOK, SeekState
  <1>4. seen' = seen /\ db' = db /\ temp' = temp /\ heap' = heap
    BY DEF SeekDB
  <1>5. \A k \in Keys : seek'[q].res[k] \in seen[q][k]
    <2> SUFFICES ASSUME NEW k \in Keys
                 PROVE  seek'[q].res[k] \in seen[q][k]
      OBVIOUS
    <2>1. SeekInvAt(q, k) /\ seek[q].pc = "db"
      BY DEF SeekDB
    <2> QED
      BY <1>3, <2>1 DEF SeekInvAt, Overlay
  <1>6. SeekSound'
    BY <1>2, <1>4, <1>5 DEF SeekSound
  <1>7. ASSUME NEW s \in Seekers, NEW k \in Keys, seek'[s].pc \in {"temp", "db"}
        PROVE  SeekInvAt(s, k)'
    BY <1>1, <1>2, <1>3, <1>4, <1>7 DEF SeekInvAt
  <1> QED
    BY <1>1, <1>6, <1>7

\* The end of a Seek leaves the others as they were.
LEMMA SeekReturnSeek ==
    ASSUME IInv, NEW q \in Seekers, SeekReturn(q)
    PROVE  IInv'
  <1> USE DEF IInv
  <1>1. Inv' /\ View' = View
    BY SeekReturnInv
  <1>2. \A s \in Seekers \ {q} : seek'[s] = seek[s] /\ seen'[s] = seen[s]
    BY DEF SeekReturn, Inv, TypeOK
  <1>3. seek'[q].pc = "idle"
    BY DEF SeekReturn, Inv, TypeOK, IdleSeek
  <1>4. db' = db /\ temp' = temp /\ heap' = heap
    BY DEF SeekReturn
  <1>5. SeekSound'
    BY <1>2, <1>3 DEF SeekSound
  <1>6. ASSUME NEW s \in Seekers, NEW k \in Keys, seek'[s].pc \in {"temp", "db"}
        PROVE  SeekInvAt(s, k)'
    BY <1>1, <1>2, <1>3, <1>4, <1>6 DEF SeekInvAt
  <1> QED
    BY <1>1, <1>5, <1>6

\* A crash ends all Seeks.
LEMMA CrashSeek ==
    ASSUME IInv, Crash
    PROVE  IInv'
  BY CrashInv DEF IInv, Crash, IdleSeek, SeekSound

\* A step that changes nothing keeps the Seeks' invariant.
LEMMA StutterSeek ==
    ASSUME IInv, UNCHANGED vars
    PROVE  IInv'
  BY StutterInv DEF IInv, vars, SeekInvAt, SeekSound

\* A Seek answers with values that the keys held while it ran, for any number
\* of concurrent Seeks, persists and failures (Seek, prepareSeekMemSnapshot,
\* performSeek and persist of memcached_store.go).
THEOREM SeekSoundness == Spec => []SeekSound
  <1>1. Init => IInv
    BY InitInv DEF IInv, Init, IdleSeek, SeekSound
  <1>2. ASSUME IInv, [Next]_vars
        PROVE  IInv'
    <2>1. CASE Writers
      BY <1>2, <2>1, WriterIsPutChangeSet, WriteSeek
    <2>2. CASE Seeking
      BY <1>2, <2>2, SeekStartSeek, SeekTempSeek, SeekDBSeek, SeekReturnSeek DEF Seeking
    <2> QED
      BY <1>2, <2>1, <2>2, PersistSeek, CrashSeek, StutterSeek DEF Next
  <1>3. IInv => SeekSound
    BY DEF IInv
  <1> QED
    BY <1>1, <1>2, <1>3, PTL DEF Spec
=============================================================================
