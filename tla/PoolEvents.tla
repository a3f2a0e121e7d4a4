----------------------------- MODULE PoolEvents -----------------------------
(***************************************************************************)
(* Who waits for whom around the notary request pool: goroutines that pool *)
(* requests (PoolTxWithData, under bc.lock for reading), the one that      *)
(* stores a block (storeBlock, under bc.lock), the one that persists (Run) *)
(* and lets a storeBlock that is too fast go on, the event loops of the    *)
(* pool and of the chain (notificationDispatcher), and the main loop of    *)
(* the Notary service, which subscribes to both.  All the channels are     *)
(* unbuffered: a send and its receive are one step.                        *)
(*   pkg/core/mempool/subscriptions.go, mem_pool.go (its sends),           *)
(*   pkg/core/blockchain.go, pkg/services/notary/notary.go (mainLoop)      *)
(***************************************************************************)
EXTENDS Integers, FiniteSets

CONSTANTS
    Adders,       \* goroutines in PoolTxWithData
    Txs,          \* requests (by the hash of their fallback)
    None

ASSUME PoolEventsAssumption ==
    /\ IsFiniteSet(Adders)
    /\ None \notin Adders \cup Txs \cup {"store"}
    /\ "store" \notin Adders

VARIABLES
    readers,      \* bc.lock: adders that hold it for reading
    writer,       \* bc.lock: "free", "wanted" or "held" by storeBlock
    mpLock,       \* the pool's lock: None or its holder
    pooled,       \* transactions in the pool
    add,          \* PoolTxWithData, per adder: pc, tx and the one ditched
    store,        \* storeBlock: pc and the transactions it has to remove
    poolLoop,     \* notificationDispatcher of the pool: pc and event
    chainLoop,    \* notificationDispatcher of the chain: "select" or "deliver"
    poolSub,      \* the service is in txFeed: "on" or "off"
    chainSub,     \* the service is in blockFeed: "on" or "off"
    main,         \* mainLoop of the service
    stopCh,       \* "open" or "closed" by Shutdown
    balance,      \* Added minus Removed events the service got, per request
    cached,       \* keys not persisted: "none", "few" or "many" (of which
                  \* storeBlock waits for the end of a persist)
    run           \* Run: at its "timer", or in persist and about to "signal"

persistence == <<cached, run>>

vars == <<readers, writer, mpLock, pooled, add, store, poolLoop, chainLoop,
          poolSub, chainSub, main, stopCh, balance, persistence>>

Event(type, t) == [type |-> type, tx |-> t]

\* The service is running and subscribed.
Init ==
    /\ readers = {} /\ writer = "free" /\ mpLock = None
    /\ pooled = {}
    /\ add = [a \in Adders |-> [pc |-> "idle", tx |-> None, ditched |-> None]]
    /\ store = [pc |-> "idle", stale |-> {}]
    /\ poolLoop = [pc |-> "select", event |-> None]
    /\ chainLoop = "select"
    /\ poolSub = "on" /\ chainSub = "on"
    /\ main = "select"
    /\ stopCh = "open"
    /\ balance = [t \in Txs |-> 0]
    /\ cached = "none" /\ run = "timer"

-----------------------------------------------------------------------------
(* Pool.Add under bc.lock.RLock.                                           *)

\* Mutant: a lock that lets readers in before a waiting writer.
AddStartEagerly(a, t) ==
    /\ add[a].pc = "idle"
    /\ writer # "held"
    /\ readers' = readers \cup {a}
    /\ add' = [add EXCEPT ![a] = [pc |-> "lock", tx |-> t, ditched |-> None]]
    /\ UNCHANGED <<writer, mpLock, pooled, store, poolLoop, chainLoop, poolSub,
                   chainSub, main, stopCh, balance, persistence>>

\* A waiting writer keeps new readers out.
AddStart(a, t) ==
    /\ add[a].pc = "idle"
    /\ writer = "free"
    /\ readers' = readers \cup {a}
    /\ add' = [add EXCEPT ![a] = [pc |-> "lock", tx |-> t, ditched |-> None]]
    /\ UNCHANGED <<writer, mpLock, pooled, store, poolLoop, chainLoop, poolSub,
                   chainSub, main, stopCh, balance, persistence>>

\* ErrDup ends it; otherwise the request may have to ditch another one.
AddLock(a) ==
    /\ add[a].pc = "lock"
    /\ mpLock = None
    /\ \/ /\ add[a].tx \in pooled
          /\ add' = [add EXCEPT ![a] = [pc |-> "idle", tx |-> None, ditched |-> None]]
          /\ readers' = readers \ {a}
          /\ UNCHANGED <<mpLock, pooled>>
       \/ /\ add[a].tx \notin pooled
          /\ \E u \in pooled :
                /\ add' = [add EXCEPT ![a].pc = "ditch", ![a].ditched = u]
                /\ pooled' = pooled \ {u}
          /\ mpLock' = a
          /\ UNCHANGED readers
       \/ /\ add[a].tx \notin pooled
          /\ add' = [add EXCEPT ![a].pc = "announce"]
          /\ pooled' = pooled \cup {add[a].tx}
          /\ UNCHANGED <<mpLock, readers>>
    /\ UNCHANGED <<writer, store, poolLoop, chainLoop, poolSub, chainSub, main,
                   stopCh, balance, persistence>>

\* mp.events <- event: the dispatcher has to be at its select.
SendEvent(event) ==
    /\ poolLoop.pc = "select"
    /\ poolLoop' = IF poolSub = "on" THEN [pc |-> "deliver", event |-> event]
                   ELSE poolLoop

\* Mutant: the request that was ditched is not announced.
AddDitchSilently(a) ==
    /\ add[a].pc = "ditch"
    /\ mpLock' = None
    /\ pooled' = pooled \cup {add[a].tx}
    /\ add' = [add EXCEPT ![a].pc = "announce", ![a].ditched = None]
    /\ UNCHANGED <<readers, writer, store, poolLoop, chainLoop, poolSub, chainSub,
                   main, stopCh, balance, persistence>>

\* TransactionRemoved is sent with the pool locked.
AddDitch(a) ==
    /\ add[a].pc = "ditch"
    /\ SendEvent(Event("Removed", add[a].ditched))
    /\ mpLock' = None
    /\ pooled' = pooled \cup {add[a].tx}
    /\ add' = [add EXCEPT ![a].pc = "announce", ![a].ditched = None]
    /\ UNCHANGED <<readers, writer, store, chainLoop, poolSub, chainSub, main,
                   stopCh, balance, persistence>>

\* TransactionAdded is sent after the unlock, still under bc.lock.RLock.
AddAnnounce(a) ==
    /\ add[a].pc = "announce"
    /\ SendEvent(Event("Added", add[a].tx))
    /\ add' = [add EXCEPT ![a] = [pc |-> "idle", tx |-> None, ditched |-> None]]
    /\ readers' = readers \ {a}
    /\ UNCHANGED <<writer, mpLock, pooled, store, chainLoop, poolSub, chainSub,
                   main, stopCh, balance, persistence>>

AddSteps(a) == AddLock(a) \/ AddDitch(a) \/ AddAnnounce(a)

-----------------------------------------------------------------------------
(* storeBlock: bc.lock, RemoveStale of the pool as a postBlock callback,   *)
(* and the event for the chain's dispatcher.                               *)

StoreStart ==
    /\ store.pc = "idle"
    /\ writer' = "wanted"
    /\ store' = [store EXCEPT !.pc = "lock"]
    /\ UNCHANGED <<readers, mpLock, pooled, add, poolLoop, chainLoop, poolSub,
                   chainSub, main, stopCh, balance, persistence>>

\* Mutant: the block is stored although requests are being verified.
StoreLockEarly ==
    /\ store.pc = "lock"
    /\ writer' = "held"
    /\ store' = [store EXCEPT !.pc = "check"]
    /\ UNCHANGED <<readers, mpLock, pooled, add, poolLoop, chainLoop, poolSub,
                   chainSub, main, stopCh, balance, persistence>>

StoreLock ==
    /\ store.pc = "lock"
    /\ readers = {}
    /\ writer' = "held"
    /\ store' = [store EXCEPT !.pc = "check"]
    /\ UNCHANGED <<readers, mpLock, pooled, add, poolLoop, chainLoop, poolSub,
                   chainSub, main, stopCh, balance, persistence>>

\* Too much to persist: wait; otherwise the block enters the cache.
StoreCheck ==
    /\ store.pc = "check"
    /\ IF cached = "many"
       THEN store' = [store EXCEPT !.pc = "wait"] /\ UNCHANGED cached
       ELSE store' = [store EXCEPT !.pc = "stale"] /\ cached' \in {"few", "many"}
    /\ UNCHANGED <<readers, writer, mpLock, pooled, add, poolLoop, chainLoop, poolSub,
                   chainSub, main, stopCh, balance, run>>

\* persistCond.Wait releases the lock.
StoreWait ==
    /\ store.pc = "wait"
    /\ writer' = "free"
    /\ store' = [store EXCEPT !.pc = "asleep"]
    /\ UNCHANGED <<readers, mpLock, pooled, add, poolLoop, chainLoop, poolSub,
                   chainSub, main, stopCh, balance, persistence>>

StoreRemoveStale ==
    /\ store.pc = "stale"
    /\ mpLock = None
    /\ mpLock' = "store"
    /\ \E stale \in SUBSET pooled :
          store' = [store EXCEPT !.pc = "filter", !.stale = stale]
    /\ UNCHANGED <<readers, writer, pooled, add, poolLoop, chainLoop, poolSub,
                   chainSub, main, stopCh, balance, persistence>>

\* A turn of RemoveStale's loop for a transaction that has to go.
StoreDrop ==
    /\ store.pc = "filter"
    /\ \E t \in store.stale :
          /\ SendEvent(Event("Removed", t))
          /\ pooled' = pooled \ {t}
          /\ store' = [store EXCEPT !.stale = @ \ {t}]
    /\ UNCHANGED <<readers, writer, mpLock, add, chainLoop, poolSub, chainSub,
                   main, stopCh, balance, persistence>>

StoreUnlock ==
    /\ store.pc = "filter" /\ store.stale = {}
    /\ mpLock' = None
    /\ writer' = "free"
    /\ store' = [store EXCEPT !.pc = "event"]
    /\ UNCHANGED <<readers, pooled, add, poolLoop, chainLoop, poolSub, chainSub,
                   main, stopCh, balance, persistence>>

\* notificationDispatcher of the chain after an event; of its subscribers only the
\* service is modelled.
Dispatched == IF chainSub = "on" THEN "deliver" ELSE "select"

\* bc.events <- bcEvent
StoreEvent ==
    /\ store.pc = "event"
    /\ chainLoop = "select"
    /\ chainLoop' = Dispatched
    /\ store' = [store EXCEPT !.pc = "idle"]
    /\ UNCHANGED <<readers, writer, mpLock, pooled, add, poolLoop, poolSub,
                   chainSub, main, stopCh, balance, persistence>>

StoreSteps ==
    \/ StoreLock \/ StoreCheck \/ StoreWait
    \/ StoreRemoveStale \/ StoreDrop \/ StoreUnlock \/ StoreEvent

-----------------------------------------------------------------------------
(* Run: its timer makes it persist what is cached, without bc.lock.  (When *)
(* the database refuses, nothing changes until the next time.)             *)

\* Mutant: only a persist that had something to do signals.
PersistIfAny ==
    /\ run = "timer"
    /\ cached' = "none"
    /\ run' = IF cached = "none" THEN "timer" ELSE "signal"
    /\ UNCHANGED <<readers, writer, mpLock, pooled, add, store, poolLoop, chainLoop,
                   poolSub, chainSub, main, stopCh, balance>>

Persist ==
    /\ run = "timer"
    /\ cached' = "none"
    /\ run' = "signal"
    /\ UNCHANGED <<readers, writer, mpLock, pooled, add, store, poolLoop, chainLoop,
                   poolSub, chainSub, main, stopCh, balance>>

\* persistCond.Signal, which is for nobody when storeBlock has looked at what is
\* cached and does not wait yet.  Who is woken takes bc.lock and looks again.
Signal ==
    /\ run = "signal"
    /\ run' = "timer"
    /\ IF store.pc = "asleep"
       THEN store' = [store EXCEPT !.pc = "lock"] /\ writer' = "wanted"
       ELSE UNCHANGED <<store, writer>>
    /\ UNCHANGED <<readers, mpLock, pooled, add, poolLoop, chainLoop, poolSub, chainSub,
                   main, stopCh, balance, cached>>

-----------------------------------------------------------------------------
(* The main loop of the service.                                           *)

\* OnNewRequest or OnRequestRemoval; neither waits for the chain or the pool.
MainEvent ==
    /\ main = "select" /\ poolLoop.pc = "deliver"
    /\ balance' = [balance EXCEPT ![poolLoop.event.tx] =
                      IF poolLoop.event.type = "Added" THEN @ + 1 ELSE @ - 1]
    /\ poolLoop' = [pc |-> "select", event |-> None]
    /\ UNCHANGED <<readers, writer, mpLock, pooled, add, store, chainLoop,
                   poolSub, chainSub, main, stopCh, persistence>>

\* PostPersist, or a block that UnsubscribeFromBlocks throws away.
MainBlock ==
    /\ main \in {"select", "unsubBlocks"} /\ chainLoop = "deliver"
    /\ chainLoop' = "select"
    /\ UNCHANGED <<readers, writer, mpLock, pooled, add, store, poolLoop,
                   poolSub, chainSub, main, stopCh, balance, persistence>>

MainStop ==
    /\ main = "select" /\ stopCh = "closed"
    /\ main' = "unsubPool"
    /\ UNCHANGED <<readers, writer, mpLock, pooled, add, store, poolLoop,
                   chainLoop, poolSub, chainSub, stopCh, balance, persistence>>

\* UnsubscribeFromTransactions of the pool: mp.unsubCh <- ch, and nothing else.
MainUnsubPool ==
    /\ main = "unsubPool" /\ poolLoop.pc = "select"
    /\ poolSub' = "off"
    /\ main' = "unsubBlocks"
    /\ UNCHANGED <<readers, writer, mpLock, pooled, add, store, poolLoop,
                   chainLoop, chainSub, stopCh, balance, persistence>>

\* UnsubscribeFromBlocks of the chain reads from the channel meanwhile.
MainUnsubBlocks ==
    /\ main = "unsubBlocks" /\ chainLoop = "select"
    /\ chainSub' = "off"
    /\ main' = "done"
    /\ UNCHANGED <<readers, writer, mpLock, pooled, add, store, poolLoop,
                   chainLoop, poolSub, stopCh, balance, persistence>>

Shutdown ==
    /\ stopCh = "open"
    /\ stopCh' = "closed"
    /\ UNCHANGED <<readers, writer, mpLock, pooled, add, store, poolLoop,
                   chainLoop, poolSub, chainSub, main, balance, persistence>>

MainSteps == MainEvent \/ MainBlock \/ MainStop \/ MainUnsubPool \/ MainUnsubBlocks

-----------------------------------------------------------------------------
Next ==
    \/ \E a \in Adders : AddSteps(a) \/ \E t \in Txs : AddStart(a, t)
    \/ StoreStart \/ StoreSteps
    \/ Persist \/ Signal
    \/ MainSteps
    \/ Shutdown

Spec == Init /\ [][Next]_vars

\* Every goroutine that can go on does.  A send that waits at a channel is
\* served in the end although others come and go (the queue of a channel is
\* first in, first out), and so is a lock.  The timer of Run comes again and again,
\* and the database does not refuse for ever.
FairSpec ==
    /\ Spec
    /\ \A a \in Adders : SF_vars(AddSteps(a))
    /\ SF_vars(StoreSteps)
    /\ WF_vars(Persist) /\ WF_vars(Signal)
    /\ WF_vars(MainEvent) /\ WF_vars(MainBlock) /\ WF_vars(MainStop)
    /\ SF_vars(MainUnsubPool \/ MainUnsubBlocks)

-----------------------------------------------------------------------------
(* Properties.                                                             *)

\* Shape of the state; the locks exclude whom they must.
TypeOK ==
    /\ readers \subseteq Adders
    /\ writer \in {"free", "wanted", "held"}
    /\ mpLock \in Adders \cup {"store", None}
    /\ pooled \subseteq Txs
    /\ \A a \in Adders : /\ add[a].pc \in {"idle", "lock", "ditch", "announce"}
                         /\ (a \in readers) <=> (add[a].pc # "idle")
    /\ balance \in [Txs -> Int]
    /\ writer = "held" => readers = {}
    /\ cached \in {"none", "few", "many"} /\ run \in {"timer", "signal"}

\* Events about t that are on their way: sent or about to be sent.
Coming(type, t) ==
    LET bit(cond) == IF cond THEN 1 ELSE 0
    IN  bit(poolLoop.pc = "deliver" /\ poolLoop.event = Event(type, t))
        + Cardinality({a \in Adders :
              \/ type = "Added" /\ add[a].pc = "announce" /\ add[a].tx = t
              \/ type = "Removed" /\ add[a].pc = "ditch" /\ add[a].ditched = t})

\* While it is subscribed, the service gets one event per change of the pool:
\* what it has counted and what is on its way make up what is pooled, although
\* removals are sent under the pool's lock and additions after it.
EventsAccountForPool ==
    TypeOK /\ (poolSub = "on" => \A t \in Txs :
        balance[t] + Coming("Added", t) - Coming("Removed", t)
            = IF t \in pooled THEN 1 ELSE 0)

\* "notary request event is announced every time notary request enters or
\* leaves notary pool": the one that it left does not come before the one that
\* it entered.
EventsInOrder == \A t \in Txs : balance[t] \in {0, 1}

\* Nobody waits forever: a request is pooled or refused and a block is stored,
\* although both wait for the pool's events to be taken, with bc.lock held, the
\* service that takes them waits for blocks as well, and a storeBlock that waits for
\* a persist may miss the end of one.  (While the service runs; ShutdownReturns is
\* about its end.)
NobodyStuck ==
    /\ \A a \in Adders : add[a].pc # "idle" ~> (add[a].pc = "idle" \/ stopCh = "closed")
    /\ store.pc # "idle" ~> (store.pc = "idle" \/ stopCh = "closed")

\* "Shutdown stops the Notary module": the main loop ends.
ShutdownReturns == stopCh = "closed" ~> main = "done"
=============================================================================
