--------------------------- MODULE MemCachedStore ---------------------------
(***************************************************************************)
(* pkg/core/storage/memcached_store.go: the write-back cache every part of *)
(* the node keeps its data in, over a database that takes whole batches.   *)
(*                                                                         *)
(* The Go maps s.mem and s.stor split the keys between them by prefix and  *)
(* are always handled side by side, so one change set stands for the pair. *)
(* Maps are objects: a Seek that captured the temporary store of a persist *)
(* keeps reading the same map after the persist is over, so the model      *)
(* keeps a heap of maps and names them by identifiers.                     *)
(***************************************************************************)
EXTENDS Integers, FiniteSets

CONSTANTS
    Keys,     \* keys of the store
    Values,   \* values that can be stored
    NoValue,  \* nil: a deletion in a map, a missing key in the database
    Unset,    \* the key is not in the map
    MapIds,   \* identities of Go maps
    NoMap,    \* no temporary store: s.ps is the database itself
    Seekers,  \* goroutines that run Seek
    PrivateSets \* the change sets the private stores of a block can hold

VARIABLES
    heap,     \* MapId -> contents of the map
    mem,      \* s.mem, s.stor
    temp,     \* the map of tempstore when s.ps = tempstore, else NoMap
    db,       \* contents of the database
    pstage,   \* where persist is: "idle", "swapped", "flushed" or "failed"
    pmode,    \* "none", or how persist runs: "sync" (isSync: with s.mut held
              \* to the end) or "async"
    seek,     \* Seeker -> progress of its Seek
    seen,     \* Seeker -> Key -> values the key held since the Seek began
    arg,      \* the change set of the latest write call
    calls,    \* the number of write calls so far, modulo 2
    boots     \* the number of restarts so far, modulo 2

\* arg, calls, boots and seen are history: no action reads them.
ghosts == <<arg, calls, boots>>
vars == <<heap, mem, temp, db, pstage, pmode, seek, seen, ghosts>>

State == [Keys -> Values \cup {NoValue}]
ChangeSet == [Keys -> Values \cup {NoValue, Unset}]
Empty == [k \in Keys |-> Unset]

ASSUME StoreAssumption ==
    /\ NoValue \notin Values
    /\ Unset \notin Values \cup {NoValue}
    /\ NoMap \notin MapIds
    /\ PrivateSets \subseteq ChangeSet

\* maps.Copy(base, cs): the entries of cs replace those of base.
Overlay(cs, base) ==
    [k \in Keys |-> IF cs[k] = Unset THEN base[k] ELSE cs[k]]

\* What lies below s.mem: s.ps.
Lower == IF temp = NoMap THEN db ELSE Overlay(heap[temp], db)

\* Get: the first layer that has the key answers; nil is "not found".
Get(k) == IF heap[mem][k] = Unset THEN Lower[k] ELSE heap[mem][k]
View == [k \in Keys |-> Get(k)]

\* s.mut can be taken: only a synchronous persist keeps it.
Unlocked == pmode # "sync"

\* A map nobody points to is collected.
Sweep(h, live) == [i \in MapIds |-> IF i \in live THEN h[i] ELSE Empty]
Captured(sk) == {sk[s].low : s \in Seekers}

IdleSeek == [pc |-> "idle", res |-> Empty, low |-> NoMap]

\* Every running Seek remembers what the keys have held meanwhile.
Observe ==
    seen' = [s \in Seekers |->
                IF seek[s].pc \in {"idle", "done"} THEN seen[s]
                ELSE [k \in Keys |-> seen[s][k] \cup {View'[k]}]]

Init ==
    /\ db \in State
    /\ heap = [i \in MapIds |-> Empty]
    /\ mem \in MapIds
    /\ temp = NoMap
    /\ pstage = "idle"
    /\ pmode = "none"
    /\ seek = [s \in Seekers |-> IdleSeek]
    /\ seen = [s \in Seekers |-> [k \in Keys |-> {}]]
    /\ arg = Empty
    /\ calls = 0
    /\ boots = 0

-----------------------------------------------------------------------------
(* Writers.                                                                *)

\* s.mem takes over the entries of a change set, under s.mut.
putChangeSet(cs) ==
    /\ Unlocked
    /\ heap' = [heap EXCEPT ![mem] = Overlay(cs, @)]
    /\ arg' = cs
    /\ calls' = 1 - calls
    /\ UNCHANGED <<mem, temp, db, pstage, pmode, seek, boots>>
    /\ Observe

Put(k, v) == putChangeSet([Empty EXCEPT ![k] = v])
Delete(k) == putChangeSet([Empty EXCEPT ![k] = NoValue])
PutChangeSet(cs) == putChangeSet(cs)

\* The private stores of one block are merged in order under one lock.
PersistPrivate(first, second) ==
    /\ first # Empty \/ second # Empty
    /\ putChangeSet(Overlay(second, first))

-----------------------------------------------------------------------------
(* persist.                                                                *)

\* plock is taken, the maps move to tempstore and s gets a fresh one.
PersistStart(mode, fresh) ==
    /\ pstage = "idle"
    /\ heap[mem] # Empty
    /\ fresh \in MapIds \ ({mem} \cup Captured(seek))
    /\ temp' = mem
    /\ mem' = fresh
    /\ heap' = [heap EXCEPT ![fresh] = Empty]
    /\ pstage' = "swapped"
    /\ pmode' = mode
    /\ UNCHANGED <<db, seek, seen, ghosts>>

\* tempstore.ps.PutChangeSet: the database takes the whole batch.
PersistFlush ==
    /\ pstage = "swapped"
    /\ db' = Overlay(heap[temp], db)
    /\ pstage' = "flushed"
    /\ UNCHANGED <<heap, mem, temp, pmode, seek, seen, ghosts>>

\* ... or refuses it and keeps what it had.
PersistFail ==
    /\ pstage = "swapped"
    /\ pstage' = "failed"
    /\ UNCHANGED <<heap, mem, temp, db, pmode, seek, seen, ghosts>>

\* Success: s.ps is the database again.
PersistDone ==
    /\ pstage = "flushed"
    /\ pstage' = "idle"
    /\ pmode' = "none"
    /\ temp' = NoMap
    /\ heap' = Sweep(heap, {mem} \cup Captured(seek))
    /\ UNCHANGED <<mem, db, seek, seen, ghosts>>

\* Mutant: maps.Copy with its arguments the wrong way round.
PersistRestoreSwapped ==
    /\ pstage = "failed"
    /\ pstage' = "idle"
    /\ pmode' = "none"
    /\ mem' = temp
    /\ temp' = NoMap
    /\ heap' = Sweep([heap EXCEPT ![temp] = Overlay(@, heap[mem])],
                     {temp} \cup Captured(seek))
    /\ UNCHANGED <<db, seek, seen, ghosts>>

\* Failure: what was written meanwhile is copied into the old maps and these
\* are the maps of s again.
PersistRestore ==
    /\ pstage = "failed"
    /\ pstage' = "idle"
    /\ pmode' = "none"
    /\ mem' = temp
    /\ temp' = NoMap
    /\ heap' = Sweep([heap EXCEPT ![temp] = Overlay(heap[mem], @)],
                     {temp} \cup Captured(seek))
    /\ UNCHANGED <<db, seek, seen, ghosts>>

-----------------------------------------------------------------------------
(* Seek.                                                                   *)

\* Mutant: the layer below is the database, whatever s.ps is.
SeekStartSkipsTemp(s) ==
    /\ Unlocked
    /\ seek[s].pc = "idle"
    /\ seek' = [seek EXCEPT ![s] = [pc |-> "db", res |-> heap[mem], low |-> NoMap]]
    /\ seen' = [seen EXCEPT ![s] = [k \in Keys |-> {View[k]}]]
    /\ UNCHANGED <<heap, mem, temp, db, pstage, pmode, ghosts>>

\* prepareSeekMemSnapshot: under the read lock the entries of s.mem are
\* copied and s.ps is captured.
SeekStart(s) ==
    /\ Unlocked
    /\ seek[s].pc = "idle"
    /\ seek' = [seek EXCEPT ![s] =
                    [pc  |-> IF temp = NoMap THEN "db" ELSE "temp",
                     res |-> heap[mem],
                     low |-> temp]]
    /\ seen' = [seen EXCEPT ![s] = [k \in Keys |-> {View[k]}]]
    /\ UNCHANGED <<heap, mem, temp, db, pstage, pmode, ghosts>>

\* performSeek on a captured tempstore: its own snapshot is the map as it is
\* by now, entries of the upper layer win.
SeekTemp(s) ==
    /\ seek[s].pc = "temp"
    /\ seek' = [seek EXCEPT ![s] = [pc  |-> "db",
                                    res |-> Overlay(seek[s].res, heap[seek[s].low]),
                                    low |-> NoMap]]
    /\ heap' = Sweep(heap, {mem, temp} \cup Captured(seek'))
    /\ UNCHANGED <<mem, temp, db, pstage, pmode, seen, ghosts>>

\* The database iterates over a snapshot of its own.
SeekDB(s) ==
    /\ seek[s].pc = "db"
    /\ seek' = [seek EXCEPT ![s].pc = "done", ![s].res = Overlay(@, db)]
    /\ UNCHANGED <<heap, mem, temp, db, pstage, pmode, seen, ghosts>>

\* The caller is done with the result.
SeekReturn(s) ==
    /\ seek[s].pc = "done"
    /\ seek' = [seek EXCEPT ![s] = IdleSeek]
    /\ seen' = [seen EXCEPT ![s] = [k \in Keys |-> {}]]
    /\ UNCHANGED <<heap, mem, temp, db, pstage, pmode, ghosts>>

-----------------------------------------------------------------------------
\* The process dies and starts again from the database.
Crash ==
    /\ heap' = [i \in MapIds |-> Empty]
    /\ mem' \in MapIds
    /\ temp' = NoMap
    /\ pstage' = "idle"
    /\ pmode' = "none"
    /\ seek' = [s \in Seekers |-> IdleSeek]
    /\ seen' = [s \in Seekers |-> [k \in Keys |-> {}]]
    /\ boots' = 1 - boots
    /\ UNCHANGED <<db, arg, calls>>

Writers ==
    \/ \E k \in Keys, v \in Values : Put(k, v)
    \/ \E k \in Keys : Delete(k)
    \/ \E cs \in PrivateSets : PutChangeSet(cs)
    \/ \E first, second \in PrivateSets : PersistPrivate(first, second)

Persisting ==
    \/ \E mode \in {"sync", "async"}, fresh \in MapIds : PersistStart(mode, fresh)
    \/ PersistFlush
    \/ PersistFail
    \/ PersistDone
    \/ PersistRestore

Seeking ==
    \E s \in Seekers :
        SeekStart(s) \/ SeekTemp(s) \/ SeekDB(s) \/ SeekReturn(s)

Next == Writers \/ Persisting \/ Seeking \/ Crash

Spec == Init /\ [][Next]_vars
-----------------------------------------------------------------------------
(* Properties.                                                             *)

SeekState ==
    [pc : {"idle", "temp", "db", "done"}, res : ChangeSet, low : MapIds \cup {NoMap}]

\* Every variable has its type: the maps hold entries, the database holds
\* values only (no deletion marks and no gaps), ids name maps.
TypeOK ==
    /\ heap \in [MapIds -> ChangeSet]
    /\ mem \in MapIds
    /\ temp \in MapIds \cup {NoMap}
    /\ db \in State
    /\ pstage \in {"idle", "swapped", "flushed", "failed"}
    /\ pmode \in {"none", "sync", "async"}
    /\ seek \in [Seekers -> SeekState]
    /\ seen \in [Seekers -> [Keys -> SUBSET (Values \cup {NoValue})]]
    /\ arg \in ChangeSet
    /\ calls \in 0..1
    /\ boots \in 0..1

\* A Seek answers, for every key, with a value the key really held at some
\* moment between the snapshot it took and its end, whatever persists
\* succeeded or failed meanwhile (prepareSeekMemSnapshot and performSeek
\* read three layers at three different moments, persist moves data between
\* them).
SeekSound ==
    \A s \in Seekers : seek[s].pc = "done" =>
        \A k \in Keys : seek[s].res[k] \in seen[s][k]

\* The cache over the database is one key-value map: a change set becomes
\* visible at once, no step of persist is visible, a failed persist loses
\* nothing, and the database only ever holds a whole earlier state, so that
\* is what a crash leaves (Get, putChangeSet and persist together).
Abs == INSTANCE DurableKV WITH
    kv   <- View,
    snap <- IF pstage = "swapped" THEN {Overlay(heap[temp], db)} ELSE {},
    disk <- db

ImplementsDurableKV == Abs!Spec

\* "This tempstore is only known here and nothing ever changes it, therefore
\* accesses to it (reads) can go unprotected" (persist): a map captured by a
\* running Seek keeps its contents until the Seek lets it go.
CapturedFrozen ==
    [][\A s \in Seekers :
          seek[s].low # NoMap /\ seek'[s].low = seek[s].low
              => heap'[seek[s].low] = heap[seek[s].low]]_vars
=============================================================================
