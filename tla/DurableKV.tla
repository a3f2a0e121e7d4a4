------------------------------ MODULE DurableKV ------------------------------
(***************************************************************************)
(* What the node's storage promises to the code above it: one key-value    *)
(* map that changes only by whole change sets, a disk that only ever       *)
(* changes to a whole earlier state of that map, and a crash that leaves   *)
(* exactly what is on the disk.  pkg/core/storage's MemCachedStore over a  *)
(* database is shown to implement it (MemCachedStore.tla).                 *)
(***************************************************************************)

EXTENDS Integers

CONSTANTS
    Keys,     \* keys of the store
    Values,   \* values a key can hold
    NoValue,  \* the key holds nothing
    Unset     \* a change set does not mention the key

VARIABLES
    kv,       \* the map every reader sees
    snap,     \* {s} while state s is on its way to the disk, {} otherwise
    disk,     \* the map a restart begins with
    arg,      \* the change set of the latest write call
    calls,    \* write calls so far, modulo 2: a write is a step of its own
    boots     \* restarts so far, modulo 2: so is a crash

absVars == <<kv, snap, disk, arg, calls, boots>>

State == [Keys -> Values \cup {NoValue}]
ChangeSet == [Keys -> Values \cup {NoValue, Unset}]

\* Change set cs laid over the map base.
Overlay(cs, base) ==
    [k \in Keys |-> IF cs[k] = Unset THEN base[k] ELSE cs[k]]

Init ==
    /\ disk \in State
    /\ kv = disk
    /\ snap = {}
    /\ arg = [k \in Keys |-> Unset]
    /\ calls = 0
    /\ boots = 0

\* A change set becomes visible as a whole.
Write ==
    /\ arg' \in ChangeSet
    /\ kv' = Overlay(arg', kv)
    /\ calls' = 1 - calls
    /\ UNCHANGED <<snap, disk, boots>>

\* The current state is chosen to be written to the disk.
Capture ==
    /\ snap = {}
    /\ snap' = {kv}
    /\ UNCHANGED <<kv, disk, arg, calls, boots>>

\* The chosen state reaches the disk as a whole.
Commit ==
    /\ \E s \in snap : disk' = s
    /\ snap' = {}
    /\ UNCHANGED <<kv, arg, calls, boots>>

\* The disk refuses; nothing is lost, the map goes on.
Abort ==
    /\ snap # {}
    /\ snap' = {}
    /\ UNCHANGED <<kv, disk, arg, calls, boots>>

\* The process dies: what is on the disk is the map from now on.
Crash ==
    /\ kv' = disk
    /\ snap' = {}
    /\ boots' = 1 - boots
    /\ UNCHANGED <<disk, arg, calls>>

Next == Write \/ Capture \/ Commit \/ Abort \/ Crash

Spec == Init /\ [][Next]_absVars
=============================================================================
