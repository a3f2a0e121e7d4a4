-------------------------- MODULE PoolEventsProofs --------------------------
(***************************************************************************)
(* One event per change of the request pool, for any number of goroutines  *)
(* that pool and any set of requests.                                      *)
(***************************************************************************)
EXTENDS PoolEvents, FiniteSetTheorems, TLAPS

Events == [type : {"Added", "Removed"}, tx : Txs]

\* Types of all that the argument looks at; who is in PoolTxWithData reads bc.lock.
Shape ==
    /\ readers \subseteq Adders
    /\ writer \in {"free", "wanted", "held"}
    /\ mpLock \in Adders \cup {"store", None}
    /\ pooled \subseteq Txs
    /\ add \in [Adders -> [pc : {"idle", "lock", "ditch", "announce"},
                           tx : Txs \cup {None}, ditched : Txs \cup {None}]]
    /\ \A a \in Adders : (a \in readers) <=> (add[a].pc # "idle")
    /\ store \in [pc : {"idle", "lock", "check", "wait", "asleep", "stale", "filter", "event"},
                  stale : SUBSET Txs]
    /\ poolLoop \in [pc : {"select", "deliver"}, event : Events \cup {None}]
    /\ poolLoop.pc = "deliver" => poolLoop.event \in Events
    /\ balance \in [Txs -> Int]
    /\ writer = "held" => readers = {}
    /\ cached \in {"none", "few", "many"} /\ run \in {"timer", "signal"}

\* Who is in the middle of a change of the pool holds its lock, and what it is about
\* to add or has still to remove is as it found it.
Locked ==
    /\ \A a \in Adders : add[a].pc # "idle" => add[a].tx \in Txs
    /\ \A a \in Adders : add[a].pc = "ditch" =>
          /\ mpLock = a
          /\ add[a].ditched \in Txs \ pooled
          /\ add[a].tx \notin pooled
          /\ add[a].tx # add[a].ditched
    /\ store.pc = "filter" => mpLock = "store" /\ store.stale \subseteq pooled

Announcing(t) == {a \in Adders : add[a].pc = "announce" /\ add[a].tx = t}

Ditching(t) == {a \in Adders : add[a].pc = "ditch" /\ add[a].ditched = t}

\* The event is at the dispatcher of the pool.
AtLoop(type, t) == IF poolLoop.pc = "deliver" /\ poolLoop.event = Event(type, t) THEN 1 ELSE 0

InPool(t) == IF t \in pooled THEN 1 ELSE 0

Accounted(t) ==
    balance[t] + AtLoop("Added", t) + Cardinality(Announcing(t))
        - AtLoop("Removed", t) - Cardinality(Ditching(t)) = InPool(t)

Balanced == poolSub = "on" => \A t \in Txs : Accounted(t)

EventsInv == Shape /\ Locked /\ Balanced

-----------------------------------------------------------------------------
\* A set of goroutines is finite.
LEMMA CountNat ==
    ASSUME NEW S \in SUBSET Adders
    PROVE  IsFiniteSet(S) /\ Cardinality(S) \in Nat
BY FS_Subset, FS_CardinalityType, PoolEventsAssumption

\* A goroutine that enters a set of them, if it does, counts for one.
LEMMA CountEnter ==
    ASSUME NEW S \in SUBSET Adders, NEW T, NEW a \in Adders \ S, NEW enters \in BOOLEAN,
           T = IF enters THEN S \cup {a} ELSE S
    PROVE  Cardinality(T) = Cardinality(S) + (IF enters THEN 1 ELSE 0)
<1>1. IsFiniteSet(S) /\ Cardinality(S) \in Nat
  BY CountNat
<1>2. Cardinality(S \cup {a}) = Cardinality(S) + 1
  BY <1>1, FS_AddElement
<1>3. CASE enters
  BY <1>2, <1>3
<1>4. CASE ~enters
  BY <1>1, <1>4
<1> QED
  BY <1>3, <1>4

\* One that leaves it counts for one, too.
LEMMA CountLeave ==
    ASSUME NEW S \in SUBSET Adders, NEW T, NEW a, NEW leaves \in BOOLEAN,
           IF leaves THEN a \in S /\ T = S \ {a} ELSE T = S
    PROVE  Cardinality(T) = Cardinality(S) - (IF leaves THEN 1 ELSE 0)
<1>1. IsFiniteSet(S) /\ Cardinality(S) \in Nat
  BY CountNat
<1>2. CASE leaves
  <2>1. Cardinality(S \ {a}) = Cardinality(S) - 1
    BY <1>1, <1>2, FS_RemoveElement
  <2> QED
    BY <1>2, <2>1
<1>3. CASE ~leaves
  BY <1>1, <1>3
<1> QED
  BY <1>2, <1>3

\* What is on its way is at the dispatcher or with a goroutine that is to send it.
LEMMA ComingSplit ==
    ASSUME NEW t \in Txs
    PROVE  /\ Coming("Added", t) = AtLoop("Added", t) + Cardinality(Announcing(t))
           /\ Coming("Removed", t) = AtLoop("Removed", t) + Cardinality(Ditching(t))
<1>1. {a \in Adders : \/ "Added" = "Added" /\ add[a].pc = "announce" /\ add[a].tx = t
                      \/ "Added" = "Removed" /\ add[a].pc = "ditch" /\ add[a].ditched = t}
        = Announcing(t)
  BY DEF Announcing
<1>2. {a \in Adders : \/ "Removed" = "Added" /\ add[a].pc = "announce" /\ add[a].tx = t
                      \/ "Removed" = "Removed" /\ add[a].pc = "ditch" /\ add[a].ditched = t}
        = Ditching(t)
  BY DEF Ditching
<1> QED
  BY <1>1, <1>2 DEF Coming, AtLoop

\* Every step keeps the types and the exclusion of readers and writer.
LEMMA ShapeStep ==
    ASSUME Shape, Locked, [Next]_vars
    PROVE  Shape'
<1> USE PoolEventsAssumption
<1>1. CASE \E a \in Adders, t \in Txs : AddStart(a, t)
  BY <1>1 DEF Shape, Locked, AddStart, persistence
<1>2. CASE \E a \in Adders : AddLock(a)
  BY <1>2 DEF Shape, Locked, AddLock, persistence
<1>3. CASE \E a \in Adders : AddDitch(a)
  BY <1>3 DEF Shape, Locked, AddDitch, SendEvent, Event, Events, persistence
<1>4. CASE \E a \in Adders : AddAnnounce(a)
  BY <1>4 DEF Shape, Locked, AddAnnounce, SendEvent, Event, Events, persistence
<1>5. CASE StoreStart
  BY <1>5 DEF Shape, Locked, StoreStart, persistence
<1>6. CASE StoreLock
  BY <1>6 DEF Shape, Locked, StoreLock, persistence
<1>7. CASE StoreCheck
  BY <1>7 DEF Shape, Locked, StoreCheck, persistence
<1>8. CASE StoreWait
  BY <1>8 DEF Shape, Locked, StoreWait, persistence
<1>9. CASE StoreRemoveStale
  <2>1. PICK stale \in SUBSET pooled : store' = [store EXCEPT !.pc = "filter", !.stale = stale]
    BY <1>9 DEF StoreRemoveStale
  <2>2. stale \in SUBSET Txs
    BY DEF Shape
  <2>3. store' \in [pc : {"idle", "lock", "check", "wait", "asleep", "stale", "filter", "event"},
                    stale : SUBSET Txs]
    BY <2>1, <2>2 DEF Shape
  <2> QED
    BY <1>9, <2>3 DEF Shape, StoreRemoveStale, persistence
<1>10. CASE StoreDrop
  BY <1>10 DEF Shape, Locked, StoreDrop, SendEvent, Event, Events, persistence
<1>11. CASE StoreUnlock
  BY <1>11 DEF Shape, Locked, StoreUnlock, persistence
<1>12. CASE StoreEvent
  BY <1>12 DEF Shape, Locked, StoreEvent, persistence
<1>13. CASE Persist
  BY <1>13 DEF Shape, Locked, Persist, persistence
<1>14. CASE Signal
  BY <1>14 DEF Shape, Locked, Signal, persistence
<1>15. CASE MainEvent
  BY <1>15 DEF Shape, Locked, MainEvent, Events, persistence
<1>16. CASE MainBlock
  BY <1>16 DEF Shape, Locked, MainBlock, persistence
<1>17. CASE MainStop
  BY <1>17 DEF Shape, Locked, MainStop, persistence
<1>18. CASE MainUnsubPool
  BY <1>18 DEF Shape, Locked, MainUnsubPool, persistence
<1>19. CASE MainUnsubBlocks
  BY <1>19 DEF Shape, Locked, MainUnsubBlocks, persistence
<1>20. CASE Shutdown
  BY <1>20 DEF Shape, Locked, Shutdown, persistence
<1>21. CASE UNCHANGED vars
  BY <1>21 DEF Shape, Locked, vars, persistence
<1> QED
  BY <1>1, <1>2, <1>3, <1>4, <1>5, <1>6, <1>7, <1>8, <1>9, <1>10, <1>11, <1>12, <1>13, <1>14, <1>15, <1>16, <1>17, <1>18, <1>19, <1>20, <1>21 DEF Next, AddSteps, StoreSteps, MainSteps

\* Every step keeps what the pool's lock protects.
LEMMA LockedStep ==
    ASSUME Shape, Locked, [Next]_vars
    PROVE  Locked'
<1> USE PoolEventsAssumption
<1>1. CASE \E a \in Adders, t \in Txs : AddStart(a, t)
  BY <1>1 DEF Shape, Locked, AddStart, persistence
<1>2. CASE \E a \in Adders : AddLock(a)
  <2> PICK a \in Adders : AddLock(a)
    BY <1>2
  <2>1. /\ mpLock = None /\ add[a].tx \in Txs /\ UNCHANGED store
        /\ \A b \in Adders : add[b].pc # "ditch"
        /\ store.pc # "filter"
    BY DEF Shape, Locked, AddLock
  <2>2. \A b \in Adders \ {a} : add'[b] = add[b]
    BY DEF Shape, AddLock
  <2>3. CASE add' = [add EXCEPT ![a] = [pc |-> "idle", tx |-> None, ditched |-> None]]
    BY <2>1, <2>2, <2>3 DEF Shape, Locked
  <2>4. CASE /\ add[a].tx \notin pooled
             /\ mpLock' = a
             /\ \E u \in pooled : /\ add' = [add EXCEPT ![a].pc = "ditch", ![a].ditched = u]
                                 /\ pooled' = pooled \ {u}
    <3> PICK u \in pooled : /\ add' = [add EXCEPT ![a].pc = "ditch", ![a].ditched = u]
                            /\ pooled' = pooled \ {u}
      BY <2>4
    <3>1. add'[a].pc = "ditch" /\ add'[a].ditched = u /\ add'[a].tx = add[a].tx
      BY DEF Shape
    <3> QED
      BY <2>1, <2>2, <2>4, <3>1 DEF Shape, Locked
  <2>5. CASE add' = [add EXCEPT ![a].pc = "announce"]
    <3>1. add'[a].pc = "announce" /\ add'[a].tx = add[a].tx
      BY <2>5 DEF Shape
    <3> QED
      BY <2>1, <2>2, <3>1 DEF Locked
  <2> QED
    BY <2>3, <2>4, <2>5 DEF AddLock
<1>3. CASE \E a \in Adders : AddDitch(a)
  BY <1>3 DEF Shape, Locked, AddDitch, SendEvent, Event, Events, persistence
<1>4. CASE \E a \in Adders : AddAnnounce(a)
  BY <1>4 DEF Shape, Locked, AddAnnounce, SendEvent, Event, Events, persistence
<1>5. CASE StoreStart
  BY <1>5 DEF Shape, Locked, StoreStart, persistence
<1>6. CASE StoreLock
  BY <1>6 DEF Shape, Locked, StoreLock, persistence
<1>7. CASE StoreCheck
  BY <1>7 DEF Shape, Locked, StoreCheck, persistence
<1>8. CASE StoreWait
  BY <1>8 DEF Shape, Locked, StoreWait, persistence
<1>9. CASE StoreRemoveStale
  BY <1>9 DEF Shape, Locked, StoreRemoveStale, persistence
<1>10. CASE StoreDrop
  BY <1>10 DEF Shape, Locked, StoreDrop, SendEvent, Event, Events, persistence
<1>11. CASE StoreUnlock
  BY <1>11 DEF Shape, Locked, StoreUnlock, persistence
<1>12. CASE StoreEvent
  BY <1>12 DEF Shape, Locked, StoreEvent, persistence
<1>13. CASE Persist
  BY <1>13 DEF Shape, Locked, Persist, persistence
<1>14. CASE Signal
  BY <1>14 DEF Shape, Locked, Signal, persistence
<1>15. CASE MainEvent
  BY <1>15 DEF Shape, Locked, MainEvent, Events, persistence
<1>16. CASE MainBlock
  BY <1>16 DEF Shape, Locked, MainBlock, persistence
<1>17. CASE MainStop
  BY <1>17 DEF Shape, Locked, MainStop, persistence
<1>18. CASE MainUnsubPool
  BY <1>18 DEF Shape, Locked, MainUnsubPool, persistence
<1>19. CASE MainUnsubBlocks
  BY <1>19 DEF Shape, Locked, MainUnsubBlocks, persistence
<1>20. CASE Shutdown
  BY <1>20 DEF Shape, Locked, Shutdown, persistence
<1>21. CASE UNCHANGED vars
  BY <1>21 DEF Shape, Locked, vars, persistence
<1> QED
  BY <1>1, <1>2, <1>3, <1>4, <1>5, <1>6, <1>7, <1>8, <1>9, <1>10, <1>11, <1>12, <1>13, <1>14, <1>15, <1>16, <1>17, <1>18, <1>19, <1>20, <1>21 DEF Next, AddSteps, StoreSteps, MainSteps

\* The sum of an unchanged state is the same.
LEMMA SameAccount ==
    ASSUME Balanced, UNCHANGED <<poolSub, balance, poolLoop, add, pooled>>
    PROVE  Balanced'
BY DEF Balanced, Accounted, AtLoop, Announcing, Ditching, InPool

\* Every step that changes the pool, sends an event or takes one keeps the sum: for a
\* request t, each says which of the five terms it changes.
LEMMA BalancedStep ==
    ASSUME Shape, Locked, Balanced, [Next]_vars
    PROVE  Balanced'
<1> USE PoolEventsAssumption
<1>1. CASE \E a \in Adders, t \in Txs : AddStart(a, t)
  <2> PICK a \in Adders, t \in Txs : AddStart(a, t)
    BY <1>1
  <2>1. \A u : Announcing(u)' = Announcing(u) /\ Ditching(u)' = Ditching(u)
    BY DEF Shape, AddStart, Announcing, Ditching
  <2> QED
    BY <2>1 DEF AddStart, Balanced, Accounted, AtLoop, InPool
<1>2. CASE \E a \in Adders : AddLock(a)
  <2> PICK a \in Adders : AddLock(a)
    BY <1>2
  <2> SUFFICES ASSUME poolSub' = "on", NEW t \in Txs
               PROVE  Accounted(t)'
    BY DEF Balanced
  <2>0. Cardinality(Announcing(t)) \in Nat /\ Cardinality(Ditching(t)) \in Nat
    BY CountNat DEF Announcing, Ditching
  <2>1. /\ Accounted(t) /\ balance[t] \in Int /\ UNCHANGED <<balance, poolLoop>>
        /\ add[a].pc = "lock"
    BY DEF AddLock, Balanced, Shape
  <2>2. AtLoop("Added", t)' = AtLoop("Added", t) /\ AtLoop("Removed", t)' = AtLoop("Removed", t)
    BY <2>1 DEF AtLoop
  <2>3. CASE /\ add' = [add EXCEPT ![a] = [pc |-> "idle", tx |-> None, ditched |-> None]]
             /\ UNCHANGED pooled
    <3>1. Announcing(t)' = Announcing(t) /\ Ditching(t)' = Ditching(t)
      BY <2>3 DEF Shape, AddLock, Announcing, Ditching
    <3> QED
      BY <2>1, <2>2, <2>3, <3>1 DEF Accounted, InPool
  <2>4. CASE \E u \in pooled : /\ add' = [add EXCEPT ![a].pc = "ditch", ![a].ditched = u]
                              /\ pooled' = pooled \ {u}
    <3> PICK u \in pooled : /\ add' = [add EXCEPT ![a].pc = "ditch", ![a].ditched = u]
                            /\ pooled' = pooled \ {u}
      BY <2>4
    <3>0. /\ add'[a].pc = "ditch" /\ add'[a].ditched = u
          /\ \A b \in Adders \ {a} : add'[b] = add[b]
      BY DEF Shape
    <3>1. Announcing(t)' = Announcing(t)
      BY <2>1, <3>0 DEF Announcing
    <3>2. /\ a \notin Ditching(t)
          /\ Ditching(t)' = IF t = u THEN Ditching(t) \cup {a} ELSE Ditching(t)
      BY <2>1, <3>0 DEF Ditching
    <3>3. Ditching(t) \in SUBSET Adders /\ Announcing(t) \in SUBSET Adders
      BY DEF Ditching, Announcing
    <3>4. Cardinality(Ditching(t))' = Cardinality(Ditching(t)) + (IF t = u THEN 1 ELSE 0)
      BY <3>2, <3>3, CountEnter, Zenon
    <3>5. InPool(t)' = InPool(t) - (IF t = u THEN 1 ELSE 0)
      BY DEF InPool
    <3> QED
      BY <2>0, <2>1, <2>2, <3>1, <3>4, <3>5 DEF Accounted, AtLoop, InPool
  <2>5. CASE /\ add[a].tx \notin pooled
             /\ add' = [add EXCEPT ![a].pc = "announce"]
             /\ pooled' = pooled \cup {add[a].tx}
    <3>0. /\ add'[a].pc = "announce" /\ add'[a].tx = add[a].tx
          /\ \A b \in Adders \ {a} : add'[b] = add[b]
      BY <2>5 DEF Shape
    <3>1. Ditching(t)' = Ditching(t)
      BY <2>1, <3>0 DEF Ditching
    <3>2. /\ a \notin Announcing(t)
          /\ Announcing(t)' = IF t = add[a].tx THEN Announcing(t) \cup {a} ELSE Announcing(t)
      BY <2>1, <3>0 DEF Announcing
    <3>3. Ditching(t) \in SUBSET Adders /\ Announcing(t) \in SUBSET Adders
      BY DEF Ditching, Announcing
    <3>4. Cardinality(Announcing(t))' = Cardinality(Announcing(t)) + (IF t = add[a].tx THEN 1 ELSE 0)
      BY <3>2, <3>3, CountEnter, Zenon
    <3>5. InPool(t)' = InPool(t) + (IF t = add[a].tx THEN 1 ELSE 0)
      BY <2>5 DEF InPool
    <3> QED
      BY <2>0, <2>1, <2>2, <3>1, <3>4, <3>5 DEF Accounted, AtLoop, InPool
  <2> QED
    BY <2>3, <2>4, <2>5 DEF AddLock
<1>3. CASE \E a \in Adders : AddDitch(a)
  <2> PICK a \in Adders : AddDitch(a)
    BY <1>3
  <2> SUFFICES ASSUME poolSub' = "on", NEW t \in Txs
               PROVE  Accounted(t)'
    BY DEF Balanced
  <2>0. Cardinality(Announcing(t)) \in Nat /\ Cardinality(Ditching(t)) \in Nat
    BY CountNat DEF Announcing, Ditching
  <2> DEFINE tx == add[a].tx
             ditched == add[a].ditched
  <2>1. /\ Accounted(t) /\ balance[t] \in Int /\ UNCHANGED balance
        /\ add[a].pc = "ditch" /\ tx \notin pooled /\ pooled' = pooled \cup {tx}
        /\ poolLoop.pc = "select"
        /\ poolLoop' = [pc |-> "deliver", event |-> Event("Removed", ditched)]
    BY DEF AddDitch, SendEvent, Balanced, Shape, Locked
  <2>2. /\ AtLoop("Added", t) = 0 /\ AtLoop("Removed", t) = 0
        /\ AtLoop("Added", t)' = 0
        /\ AtLoop("Removed", t)' = IF t = ditched THEN 1 ELSE 0
    BY <2>1 DEF AtLoop, Event
  <2>3. Ditching(t) \in SUBSET Adders /\ Announcing(t) \in SUBSET Adders
    BY DEF Ditching, Announcing
  <2>4. /\ a \notin Announcing(t)
        /\ Announcing(t)' = IF t = tx THEN Announcing(t) \cup {a} ELSE Announcing(t)
    BY DEF Shape, AddDitch, Announcing
  <2>5. IF t = ditched THEN a \in Ditching(t) /\ Ditching(t)' = Ditching(t) \ {a}
        ELSE Ditching(t)' = Ditching(t)
    BY DEF Shape, AddDitch, Ditching
  <2>6. Cardinality(Announcing(t))' = Cardinality(Announcing(t)) + (IF t = tx THEN 1 ELSE 0)
    BY <2>3, <2>4, CountEnter, Zenon
  <2>7. Cardinality(Ditching(t))' = Cardinality(Ditching(t)) - (IF t = ditched THEN 1 ELSE 0)
    BY <2>3, <2>5, CountLeave, Zenon
  <2>8. InPool(t)' = InPool(t) + (IF t = tx THEN 1 ELSE 0)
    BY <2>1 DEF InPool
  <2> QED
    BY <2>0, <2>1, <2>2, <2>6, <2>7, <2>8 DEF Accounted, InPool
<1>4. CASE \E a \in Adders : AddAnnounce(a)
  <2> PICK a \in Adders : AddAnnounce(a)
    BY <1>4
  <2> SUFFICES ASSUME poolSub' = "on", NEW t \in Txs
               PROVE  Accounted(t)'
    BY DEF Balanced
  <2>0. Cardinality(Announcing(t)) \in Nat /\ Cardinality(Ditching(t)) \in Nat
    BY CountNat DEF Announcing, Ditching
  <2> DEFINE tx == add[a].tx
  <2>1. /\ Accounted(t) /\ balance[t] \in Int /\ UNCHANGED <<balance, pooled>>
        /\ poolLoop.pc = "select"
        /\ poolLoop' = [pc |-> "deliver", event |-> Event("Added", tx)]
    BY DEF AddAnnounce, SendEvent, Balanced, Shape
  <2>2. /\ AtLoop("Added", t) = 0 /\ AtLoop("Removed", t) = 0
        /\ AtLoop("Added", t)' = IF t = tx THEN 1 ELSE 0
        /\ AtLoop("Removed", t)' = 0
    BY <2>1 DEF AtLoop, Event
  <2>3. Ditching(t) \in SUBSET Adders /\ Announcing(t) \in SUBSET Adders
    BY DEF Ditching, Announcing
  <2>4. IF t = tx THEN a \in Announcing(t) /\ Announcing(t)' = Announcing(t) \ {a}
        ELSE Announcing(t)' = Announcing(t)
    BY DEF Shape, AddAnnounce, Announcing
  <2>5. Ditching(t)' = Ditching(t)
    BY DEF Shape, AddAnnounce, Ditching
  <2>6. Cardinality(Announcing(t))' = Cardinality(Announcing(t)) - (IF t = tx THEN 1 ELSE 0)
    BY <2>3, <2>4, CountLeave, Zenon
  <2> QED
    BY <2>0, <2>1, <2>2, <2>5, <2>6 DEF Accounted, InPool
<1>5. CASE StoreDrop
  <2> SUFFICES ASSUME poolSub' = "on", NEW t \in Txs
               PROVE  Accounted(t)'
    BY DEF Balanced
  <2> PICK u \in store.stale : SendEvent(Event("Removed", u)) /\ pooled' = pooled \ {u}
    BY <1>5 DEF StoreDrop
  <2>1. /\ Accounted(t) /\ balance[t] \in Int /\ UNCHANGED <<balance, add>>
        /\ u \in pooled
        /\ poolLoop.pc = "select"
        /\ poolLoop' = [pc |-> "deliver", event |-> Event("Removed", u)]
    BY <1>5 DEF StoreDrop, SendEvent, Balanced, Shape, Locked
  <2>2. /\ AtLoop("Added", t) = 0 /\ AtLoop("Removed", t) = 0
        /\ AtLoop("Added", t)' = 0
        /\ AtLoop("Removed", t)' = IF t = u THEN 1 ELSE 0
    BY <2>1 DEF AtLoop, Event
  <2>3. Announcing(t)' = Announcing(t) /\ Ditching(t)' = Ditching(t)
    BY <2>1 DEF Announcing, Ditching
  <2>4. InPool(t)' = InPool(t) - (IF t = u THEN 1 ELSE 0)
    BY <2>1 DEF InPool
  <2>5. Cardinality(Announcing(t)) \in Nat /\ Cardinality(Ditching(t)) \in Nat
    BY CountNat DEF Announcing, Ditching
  <2> QED
    BY <2>1, <2>2, <2>3, <2>4, <2>5 DEF Accounted, InPool
<1>6. CASE MainEvent
  <2> SUFFICES ASSUME poolSub' = "on", NEW t \in Txs
               PROVE  Accounted(t)'
    BY DEF Balanced
  <2> DEFINE event == poolLoop.event
             sign == IF event.type = "Added" THEN 1 ELSE -1
  <2>1. /\ Accounted(t) /\ balance[t] \in Int /\ UNCHANGED <<add, pooled>>
        /\ poolLoop.pc = "deliver" /\ event \in Events
        /\ poolLoop' = [pc |-> "select", event |-> None]
    BY <1>6 DEF MainEvent, Balanced, Shape
  <2>2. balance'[t] = IF t = event.tx THEN balance[t] + sign ELSE balance[t]
    BY <1>6 DEF MainEvent, Shape
  <2>3. event = Event(event.type, event.tx) /\ event.type \in {"Added", "Removed"}
    BY <2>1 DEF Events, Event
  <2>4. /\ AtLoop("Added", t) = IF event.type = "Added" /\ t = event.tx THEN 1 ELSE 0
        /\ AtLoop("Removed", t) = IF event.type = "Removed" /\ t = event.tx THEN 1 ELSE 0
        /\ AtLoop("Added", t)' = 0 /\ AtLoop("Removed", t)' = 0
    BY <2>1, <2>3 DEF AtLoop, Event
  <2>5. Announcing(t)' = Announcing(t) /\ Ditching(t)' = Ditching(t) /\ InPool(t)' = InPool(t)
    BY <2>1 DEF Announcing, Ditching, InPool
  <2>6. Cardinality(Announcing(t)) \in Nat /\ Cardinality(Ditching(t)) \in Nat
    BY CountNat DEF Announcing, Ditching
  <2>7. InPool(t) \in Int
    BY DEF InPool
  <2> QED
    BY <2>1, <2>2, <2>3, <2>4, <2>5, <2>6, <2>7 DEF Accounted
<1>7. CASE MainUnsubPool
  BY <1>7 DEF MainUnsubPool, Balanced
<1>8. CASE StoreStart
  BY <1>8, SameAccount DEF StoreStart
<1>9. CASE StoreLock
  BY <1>9, SameAccount DEF StoreLock
<1>10. CASE StoreCheck
  BY <1>10, SameAccount DEF StoreCheck
<1>11. CASE StoreWait
  BY <1>11, SameAccount DEF StoreWait
<1>12. CASE StoreRemoveStale
  BY <1>12, SameAccount DEF StoreRemoveStale
<1>13. CASE StoreUnlock
  BY <1>13, SameAccount DEF StoreUnlock
<1>14. CASE StoreEvent
  BY <1>14, SameAccount DEF StoreEvent
<1>15. CASE Persist
  BY <1>15, SameAccount DEF Persist
<1>16. CASE Signal
  BY <1>16, SameAccount DEF Signal
<1>17. CASE MainBlock
  BY <1>17, SameAccount DEF MainBlock
<1>18. CASE MainStop
  BY <1>18, SameAccount DEF MainStop
<1>19. CASE MainUnsubBlocks
  BY <1>19, SameAccount DEF MainUnsubBlocks
<1>20. CASE Shutdown
  BY <1>20, SameAccount DEF Shutdown
<1>21. CASE UNCHANGED vars
  BY <1>21, SameAccount DEF vars
<1> QED
  BY <1>1, <1>2, <1>3, <1>4, <1>5, <1>6, <1>7, <1>8, <1>9, <1>10, <1>11, <1>12, <1>13, <1>14, <1>15, <1>16, <1>17, <1>18, <1>19, <1>20, <1>21 DEF Next, AddSteps, StoreSteps, MainSteps

-----------------------------------------------------------------------------
\* The service that is subscribed gets one event per change of the request pool
\* (mem_pool.go sends them, subscriptions.go delivers), whatever the number of
\* goroutines in PoolTxWithData and with blocks stored and persisted meanwhile.
THEOREM PoolEventsAccount == Spec => []EventsAccountForPool
<1>1. Init => EventsInv
  <2> SUFFICES ASSUME Init
               PROVE  EventsInv
    OBVIOUS
  <2>1. Shape /\ Locked
    BY PoolEventsAssumption DEF Init, Shape, Locked
  <2>2. \A t \in Txs : Announcing(t) = {} /\ Ditching(t) = {}
    BY DEF Init, Announcing, Ditching
  <2>3. Cardinality({}) = 0
    BY FS_EmptySet
  <2>4. Balanced
    BY <2>2, <2>3, SMTT(15), ZenonT(40) DEF Init, Balanced, Accounted, AtLoop, InPool
  <2> QED
    BY <2>1, <2>4 DEF EventsInv
<1>2. EventsInv /\ [Next]_vars => EventsInv'
  BY ShapeStep, LockedStep, BalancedStep DEF EventsInv
<1>3. EventsInv => EventsAccountForPool
  <2> SUFFICES ASSUME EventsInv
               PROVE  EventsAccountForPool
    OBVIOUS
  <2>1. TypeOK
    BY DEF EventsInv, Shape, TypeOK
  <2>2. ASSUME poolSub = "on", NEW t \in Txs
        PROVE  balance[t] + Coming("Added", t) - Coming("Removed", t) = InPool(t)
    <3>1. Cardinality(Announcing(t)) \in Nat /\ Cardinality(Ditching(t)) \in Nat
      BY CountNat DEF Announcing, Ditching
    <3>2. balance[t] \in Int /\ Accounted(t)
      BY <2>2 DEF EventsInv, Shape, Balanced
    <3>3. AtLoop("Added", t) \in Int /\ AtLoop("Removed", t) \in Int /\ InPool(t) \in Int
      BY DEF AtLoop, InPool
    <3> QED
      BY <3>1, <3>2, <3>3, ComingSplit DEF Accounted
  <2> QED
    BY <2>1, <2>2 DEF EventsAccountForPool, InPool
<1> QED
  BY <1>1, <1>2, <1>3, PTL DEF Spec
=============================================================================
