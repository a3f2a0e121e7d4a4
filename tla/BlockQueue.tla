----------------------------- MODULE BlockQueue -----------------------------
(***************************************************************************)
(* pkg/network/bqueue/queue.go: the ring of blocks (or headers) received   *)
(* ahead of the chain.  Putters are the goroutines that call Put, Run is   *)
(* the one that feeds the chain.  A critical section under queueLock is    *)
(* one step; reads of the height and of discarded outside of it, and       *)
(* chain.AddItem, are steps of their own.                                  *)
(***************************************************************************)
EXTENDS Integers, FiniteSets

CONSTANTS
    Putters,      \* goroutines calling Put
    CacheSize,    \* slots of the ring
    Mode,         \* "Blocking" or "NonBlocking"
    MaxIndex,     \* bound on the indexes of elements and of the chain
    MaxExternal,  \* bound on the elements the chain takes from elsewhere
    Bad,          \* indexes that also come in a form the chain refuses
    Start,        \* height of the chain when the queue is made
    None          \* bq.nilQ

ASSUME QueueAssumption ==
    /\ CacheSize \in Nat \ {0}
    /\ MaxIndex \in Nat /\ MaxExternal \in Nat /\ Start \in Nat
    /\ Bad \subseteq 1 .. MaxIndex
    /\ Mode \in {"Blocking", "NonBlocking"}

Elements ==
    [index : 1 .. MaxIndex, kind : {"good"}] \cup [index : Bad, kind : {"bad"}]

ASSUME NoneAssumption == None \notin Elements

VARIABLES
    height,       \* bq.chain.Height()
    external,     \* elements the chain took from elsewhere so far
    queue,        \* bq.queue
    lastQ,        \* bq.lastQ
    len,          \* bq.len
    signal,       \* checkBlocks: "empty" or "full"
    discard,      \* "no", "flagged" (discarded is set) or "closed"
    run,          \* Run: pc, lastHeight, h and b
    put,          \* Put, per putter: pc, element and h
    fate          \* "ok", or "panic" after a send on the closed channel

ring == <<queue, lastQ, len>>
vars == <<height, external, queue, lastQ, len, signal, discard, run, put, fate>>

indexToPosition(i) == i % CacheSize

Slots == 0 .. CacheSize - 1

Init ==
    /\ height = Start
    /\ external = 0
    /\ queue = [p \in Slots |-> None]
    /\ lastQ = 0
    /\ len = 0
    /\ signal = "empty"
    /\ discard = "no"
    /\ run = [pc |-> "recv", lastHeight |-> Start, h |-> Start, b |-> None]
    /\ put = [q \in Putters |-> [pc |-> "idle", e |-> None, h |-> 0]]
    /\ fate = "ok"

-----------------------------------------------------------------------------
(* The chain.                                                              *)

\* A block comes from the consensus, not from this queue.
ChainAdvances ==
    /\ external < MaxExternal
    /\ height < MaxIndex
    /\ height' = height + 1
    /\ external' = external + 1
    /\ UNCHANGED <<queue, lastQ, len, signal, discard, run, put, fate>>

Accepts(e) == e.kind = "good" /\ e.index = height + 1

-----------------------------------------------------------------------------
(* Run.                                                                    *)

RunRecv ==
    /\ run.pc = "recv"
    /\ \/ signal = "full" /\ run' = [run EXCEPT !.pc = "height"]
       \/ signal = "empty" /\ discard = "closed" /\ run' = [run EXCEPT !.pc = "end"]
    /\ signal' = "empty"
    /\ UNCHANGED <<height, external, queue, lastQ, len, discard, put, fate>>

RunHeight ==
    /\ run.pc = "height"
    /\ run' = [run EXCEPT !.pc = "scan", !.h = height]
    /\ UNCHANGED <<height, external, queue, lastQ, len, signal, discard, put, fate>>

\* Slots the loop over lastHeight .. h-1 empties: the element in the slot of
\* i+1 goes if its index is i.
Outdated(p) ==
    \E i \in run.lastHeight .. run.h - 1 :
        /\ indexToPosition(i + 1) = p
        /\ queue[p] # None /\ queue[p].index = i

\* Mutant: an empty slot is taken for an element.
RunScanUnchecked ==
    /\ run.pc = "scan"
    /\ run' = [run EXCEPT !.pc = "add", !.lastHeight = run.h,
                          !.b = queue[indexToPosition(run.h + 1)]]
    /\ queue' = [p \in Slots |-> IF Outdated(p) THEN None ELSE queue[p]]
    /\ len' = len - Cardinality({p \in Slots : Outdated(p)})
    /\ UNCHANGED <<height, external, lastQ, signal, discard, put, fate>>

RunScan ==
    /\ run.pc = "scan"
    /\ LET b == queue[indexToPosition(run.h + 1)]
       IN  run' = [run EXCEPT !.pc = IF b = None THEN "recv" ELSE "add",
                              !.b = b, !.lastHeight = run.h]
    /\ queue' = [p \in Slots |-> IF Outdated(p) THEN None ELSE queue[p]]
    /\ len' = len - Cardinality({p \in Slots : Outdated(p)})
    /\ UNCHANGED <<height, external, lastQ, signal, discard, put, fate>>

RunAdd ==
    /\ run.pc = "add"
    /\ height' = IF Accepts(run.b) THEN height + 1 ELSE height
    /\ run' = [run EXCEPT !.pc = "done"]
    /\ UNCHANGED <<external, queue, lastQ, len, signal, discard, put, fate>>

\* Mutant: the slot is emptied whatever it holds by now.
RunDoneBlindly ==
    /\ run.pc = "done"
    /\ len' = len - 1
    /\ queue' = [queue EXCEPT ![indexToPosition(run.h + 1)] = None]
    /\ run' = [run EXCEPT !.pc = "height", !.b = None]
    /\ UNCHANGED <<height, external, lastQ, signal, discard, put, fate>>

\* Mutant: one element per signal.
RunDoneWaits ==
    /\ run.pc = "done"
    /\ len' = len - 1
    /\ queue' = [queue EXCEPT ![indexToPosition(run.h + 1)] =
                    IF @ = run.b THEN None ELSE @]
    /\ run' = [run EXCEPT !.pc = "recv", !.b = None]
    /\ UNCHANGED <<height, external, lastQ, signal, discard, put, fate>>

RunDone ==
    /\ run.pc = "done"
    /\ len' = len - 1
    /\ queue' = [queue EXCEPT ![indexToPosition(run.h + 1)] =
                    IF @ = run.b THEN None ELSE @]
    /\ run' = [run EXCEPT !.pc = "height", !.b = None]
    /\ UNCHANGED <<height, external, lastQ, signal, discard, put, fate>>

Run == RunRecv \/ RunHeight \/ RunScan \/ RunAdd \/ RunDone

-----------------------------------------------------------------------------
(* Put.                                                                    *)

Goto(q, pc) == put' = [put EXCEPT ![q].pc = pc]

\* The height is read before the lock is taken.
PutStart(q, e) ==
    /\ put[q].pc = "idle"
    /\ put' = [put EXCEPT ![q] = [pc |-> "lock", e |-> e, h |-> height]]
    /\ UNCHANGED <<height, external, queue, lastQ, len, signal, discard, run, fate>>

Return(q) == put' = [put EXCEPT ![q] = [pc |-> "idle", e |-> None, h |-> 0]]

\* Mutant: one element too many fits.
TooFarByOne(q) == put[q].h + CacheSize + 1 < put[q].e.index

TooFar(q) == put[q].h + CacheSize < put[q].e.index

\* lastQ moves on over the elements that follow it, up to the end of the array.
Advanced(ringNow, last, p) ==
    LET follows(n) == \A k \in 0 .. n - 1 :
            /\ p + k < CacheSize
            /\ ringNow[p + k] # None /\ ringNow[p + k].index = last + k + 1
    IN  last + Cardinality({n \in 1 .. CacheSize : follows(n)})

\* Mutant: an element that takes the slot of an older one is not counted.
EnqueueUncounted(q) ==
    LET e == put[q].e
        p == indexToPosition(e.index)
    IN  /\ IF queue[p] = None \/ queue[p].index < e.index
           THEN /\ queue' = [queue EXCEPT ![p] = e]
                /\ len' = IF queue[p] = None THEN len + 1 ELSE len
                /\ lastQ' = Advanced(queue', lastQ, p)
           ELSE UNCHANGED ring
        /\ IF discard = "closed" THEN fate' = "panic" /\ UNCHANGED signal
           ELSE signal' = "full" /\ UNCHANGED fate
        /\ Return(q)

\* The end of Put: the element gets its slot unless that holds one as new, and
\* Run is signalled.
Enqueue(q) ==
    LET e == put[q].e
        p == indexToPosition(e.index)
    IN  /\ IF queue[p] = None \/ queue[p].index < e.index
           THEN /\ queue' = [queue EXCEPT ![p] = e]
                /\ len' = len + 1
                /\ lastQ' = Advanced(queue', lastQ, p)
           ELSE UNCHANGED ring
        /\ IF discard = "closed" THEN fate' = "panic" /\ UNCHANGED signal
           ELSE signal' = "full" /\ UNCHANGED fate
        /\ Return(q)

\* Mutant: discarded is not looked at.
PutLockLate(q) ==
    /\ put[q].pc = "lock"
    /\ IF put[q].e.index <= put[q].h \/ (TooFar(q) /\ Mode = "NonBlocking")
       THEN Return(q) /\ UNCHANGED <<queue, lastQ, len, signal, fate>>
       ELSE IF TooFar(q)
       THEN Goto(q, "wait") /\ UNCHANGED <<queue, lastQ, len, signal, fate>>
       ELSE Enqueue(q)
    /\ UNCHANGED <<height, external, discard, run>>

PutLock(q) ==
    /\ put[q].pc = "lock"
    /\ IF \/ discard # "no"
          \/ put[q].e.index <= put[q].h
          \/ TooFar(q) /\ Mode = "NonBlocking"
       THEN Return(q) /\ UNCHANGED <<queue, lastQ, len, signal, fate>>
       ELSE IF TooFar(q)
       THEN Goto(q, "wait") /\ UNCHANGED <<queue, lastQ, len, signal, fate>>
       ELSE Enqueue(q)
    /\ UNCHANGED <<height, external, discard, run>>

\* A tick of the timer, the lock released.
PutTick(q) ==
    /\ put[q].pc = "wait"
    /\ IF discard # "no" THEN Return(q)
       ELSE /\ height + CacheSize >= put[q].e.index
            /\ put' = [put EXCEPT ![q].pc = "relock", ![q].h = height]
    /\ UNCHANGED <<height, external, queue, lastQ, len, signal, discard, run, fate>>

PutRelock(q) ==
    /\ put[q].pc = "relock"
    /\ Enqueue(q)
    /\ UNCHANGED <<height, external, discard, run>>

PutSteps(q) == PutLock(q) \/ PutTick(q) \/ PutRelock(q)

-----------------------------------------------------------------------------
(* Discard.                                                                *)

DiscardFlag ==
    /\ discard = "no"
    /\ discard' = "flagged"
    /\ UNCHANGED <<height, external, queue, lastQ, len, signal, run, put, fate>>

DiscardClose ==
    /\ discard = "flagged"
    /\ discard' = "closed"
    /\ queue' = [p \in Slots |-> None]
    /\ len' = 0
    /\ UNCHANGED <<height, external, lastQ, signal, run, put, fate>>

Next ==
    /\ fate = "ok"
    /\ \/ Run
       \/ ChainAdvances
       \/ \E q \in Putters : PutSteps(q) \/ \E e \in Elements : PutStart(q, e)
       \/ DiscardFlag
       \/ DiscardClose

Spec == Init /\ [][Next]_vars

\* The goroutine of Run is scheduled; nobody is obliged to call Put or Discard.
FairSpec == Spec /\ WF_vars(fate = "ok" /\ Run)

-----------------------------------------------------------------------------
(* Properties.                                                             *)

Pcs == {"idle", "lock", "wait", "relock"}

\* Shape of the state.
TypeOK ==
    /\ height \in Nat
    /\ external \in 0 .. MaxExternal
    /\ queue \in [Slots -> Elements \cup {None}]
    /\ lastQ \in Nat
    /\ len \in Int
    /\ signal \in {"empty", "full"}
    /\ discard \in {"no", "flagged", "closed"}
    /\ run \in [pc : {"recv", "height", "scan", "add", "done", "end"},
                lastHeight : Nat, h : Nat, b : Elements \cup {None}]
    /\ put \in [Putters -> [pc : Pcs, e : Elements \cup {None}, h : Nat]]
    /\ fate \in {"ok", "panic"}
    /\ run.pc \in {"add", "done"} => run.b # None
    /\ \A q \in Putters : put[q].pc # "idle" => put[q].e # None

\* The ring holds no element beyond the window above the chain and each in the
\* slot of its index, although Put tests the height before it has the lock and
\* a blocked Put tests it again without the lock.
InWindow ==
    \A p \in Slots : queue[p] # None =>
        /\ indexToPosition(queue[p].index) = p
        /\ queue[p].index <= height + CacheSize

\* "If we already have it, keep the old element": a good element above the
\* chain leaves the ring only when the chain takes it or Discard clears all.
\* (It holds while the chain grows through this queue alone.)
PendingKept ==
    [][external' = 0 => \A p \in Slots :
          (queue[p] # None /\ queue[p].kind = "good" /\ queue[p].index > height')
              => queue'[p] = queue[p] \/ discard' = "closed"]_vars

Occupied == {p \in Slots : queue[p] # None}

\* Run holds an element whose slot has been given to another one.
Handed ==
    IF run.pc \in {"add", "done"} /\ queue[indexToPosition(run.h + 1)] # run.b
    THEN 1 ELSE 0

\* len never falls behind the elements in the ring and the one Run holds, so
\* requestBlocks is never told of room that is not there (while the chain grows
\* through this queue alone).
NoRoomInvented ==
    (discard = "no" /\ external = 0) => len >= Cardinality(Occupied) + Handed

\* Every element is at its place in the window, and counted; no index, counter or
\* program counter is out of its range.
RingSound == TypeOK /\ InWindow /\ NoRoomInvented

\* "LastQueued returns ... the queue's capacity left": len counts just those.
CapacityExact == discard = "no" => len = Cardinality(Occupied) + Handed

\* "LastQueued returns the index of the last queued element": when no call is
\* under way, and the next element of the chain is in the ring, lastQ is not
\* behind the elements queued without a gap above the chain.
LastQueuedCurrent ==
    (discard = "no" /\ run.pc = "recv" /\ signal = "full") =>
        \A i \in 1 .. MaxIndex :
            (/\ height < i
             /\ \A j \in height + 1 .. i :
                   /\ queue[indexToPosition(j)] # None
                   /\ queue[indexToPosition(j)].index = j)
            => lastQ >= i

\* "Discard stops the queue and prevents it from accepting more elements to
\* enqueue": nothing enters the ring and nobody sends on the channel once
\* Discard has closed it.
DiscardFinal ==
    [][discard = "closed" =>
          /\ \A p \in Slots : queue'[p] # None => queue'[p] = queue[p]
          /\ fate' = fate]_vars

\* An element that is next for the chain gets there: no signal to Run is lost,
\* whichever of Put and the last look at the ring comes first (while the chain
\* grows through this queue alone).
NextApplied ==
    \A i \in 1 .. MaxIndex :
        (height = i - 1 /\ queue[indexToPosition(i)] = [index |-> i, kind |-> "good"])
            ~> (height >= i \/ discard # "no" \/ external > 0)

=============================================================================
