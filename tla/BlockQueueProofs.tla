-------------------------- MODULE BlockQueueProofs --------------------------
(***************************************************************************)
(* Proofs about the ring of bqueue/queue.go for every size of the ring,    *)
(* number of putters and mode: the state keeps its shape, no element is    *)
(* beyond the window, and no pending element is lost.                      *)
(***************************************************************************)
EXTENDS BlockQueue, FiniteSetTheorems, TLAPS

\* Two indexes with one slot differ by the size of the ring or more.
LEMMA SameSlot ==
    ASSUME NEW i \in Nat, NEW j \in Nat, indexToPosition(i) = indexToPosition(j), i < j
    PROVE  j >= i + CacheSize
<1> DEFINE a == i \div CacheSize
           b == j \div CacheSize
<1>1. CacheSize \in Nat \ {0}
  BY QueueAssumption
<1>2. /\ a \in Nat /\ b \in Nat
      /\ i = CacheSize * a + (i % CacheSize)
      /\ j = CacheSize * b + (j % CacheSize)
  BY <1>1
<1>3. CacheSize * (b - a) = j - i
  BY <1>1, <1>2 DEF indexToPosition
<1> HIDE DEF a, b
<1>4. CASE b - a >= 1
  <2>1. CacheSize * (b - a) >= CacheSize
    BY <1>1, <1>2, <1>4
  <2> QED
    BY <1>1, <1>3, <2>1
<1>5. CASE b - a <= 0
  <2>1. CacheSize * (b - a) <= 0
    BY <1>1, <1>2, <1>5
  <2> QED
    BY <1>3, <2>1
<1> QED
  BY <1>2, <1>4, <1>5

-----------------------------------------------------------------------------
(* The inductive invariant.                                                *)

\* What Put and Run remember of the height is not ahead of it, and a blocked Put
\* goes on only inside the window.
HeightsRead ==
    /\ run.h <= height
    /\ \A q \in Putters :
          /\ put[q].h <= height
          /\ put[q].pc = "relock" => put[q].e.index <= put[q].h + CacheSize

\* While the chain grows through the queue alone, the element Run holds is not
\* above the next one, and a good one has got into the chain when Run is done.
HeldIsNext ==
    external = 0 =>
        /\ run.pc \in {"scan", "add"} => run.h = height
        /\ run.pc = "add" => run.b.index <= run.h + 1
        /\ (run.pc = "done" /\ run.b.kind = "good") => run.b.index <= height

IInv == TypeOK /\ InWindow /\ HeightsRead /\ HeldIsNext

\* Elements have an index, and None is none of them.
LEMMA ElementFacts ==
    /\ \A e \in Elements : e.index \in Nat /\ e # None
    /\ CacheSize \in Nat \ {0} /\ MaxExternal \in Nat /\ Start \in Nat
    /\ \A i \in Nat : indexToPosition(i) \in Slots
<1>1. ASSUME NEW e \in Elements PROVE e.index \in Nat /\ e # None
  <2>1. e # None
    BY NoneAssumption
  <2>2. CASE e \in [index : 1 .. MaxIndex, kind : {"good"}]
    BY <2>1, <2>2, QueueAssumption
  <2>3. CASE e \in [index : Bad, kind : {"bad"}]
    <3>1. e.index \in Bad
      BY <2>3
    <3>2. Bad \subseteq 1 .. MaxIndex
      BY QueueAssumption
    <3>3. e.index \in 1 .. MaxIndex
      BY <3>1, <3>2
    <3>4. \A i \in 1 .. MaxIndex : i \in Nat
      BY QueueAssumption
    <3> QED
      BY <2>1, <3>3, <3>4
  <2> QED
    BY <2>2, <2>3 DEF Elements
<1>2. CacheSize \in Nat \ {0} /\ MaxExternal \in Nat /\ Start \in Nat
  BY QueueAssumption
<1>3. \A i \in Nat : indexToPosition(i) \in Slots
  BY <1>2 DEF indexToPosition, Slots
<1> QED
  BY <1>1, <1>2, <1>3

\* Every set of slots is finite.
LEMMA SlotsFinite ==
    ASSUME NEW S \in SUBSET Slots
    PROVE  IsFiniteSet(S) /\ Cardinality(S) \in Nat
<1>1. IsFiniteSet(Slots)
  BY FS_Interval, ElementFacts DEF Slots
<1> QED
  BY <1>1, FS_Subset, FS_CardinalityType

\* The index of the last queued element stays a number.
LEMMA AdvancedIsNat ==
    ASSUME NEW r, NEW last \in Nat, NEW p
    PROVE  Advanced(r, last, p) \in Nat
<1> DEFINE follows(n) == \A k \in 0 .. n - 1 :
              /\ p + k < CacheSize
              /\ r[p + k] # None /\ r[p + k].index = last + k + 1
           S == {n \in 1 .. CacheSize : follows(n)}
<1>1. IsFiniteSet(1 .. CacheSize) /\ S \in SUBSET (1 .. CacheSize)
  BY FS_Interval, ElementFacts
<1>2. Cardinality(S) \in Nat
  BY <1>1, FS_Subset, FS_CardinalityType
<1>3. Advanced(r, last, p) = last + Cardinality(S)
  BY DEF Advanced
<1> HIDE DEF S
<1> QED
  BY <1>2, <1>3

LEMMA InitIInv == Init => IInv
<1> SUFFICES ASSUME Init
             PROVE  IInv
  OBVIOUS
<1>1. TypeOK
  BY ElementFacts DEF Init, TypeOK, Pcs
<1>2. InWindow
  BY DEF Init, InWindow
<1>3. HeightsRead /\ HeldIsNext
  BY ElementFacts DEF Init, HeightsRead, HeldIsNext
<1> QED
  BY <1>1, <1>2, <1>3 DEF IInv

-----------------------------------------------------------------------------
(* Every step keeps the invariant.                                         *)

\* Enqueue of an element inside the window keeps the shape and the window of the
\* ring.
LEMMA EnqueueKeeps ==
    ASSUME IInv, NEW q \in Putters, Enqueue(q),
           put[q].e # None, put[q].e.index <= put[q].h + CacheSize,
           UNCHANGED <<height, external, discard, run>>
    PROVE  IInv'
<1> DEFINE e == put[q].e
           p == indexToPosition(e.index)
<1>1. /\ e \in Elements /\ e.index \in Nat /\ e # None /\ p \in Slots
      /\ height \in Nat /\ put[q].h \in Nat /\ put[q].h <= height
  BY ElementFacts DEF IInv, TypeOK, HeightsRead
<1>2. /\ queue' \in [Slots -> Elements \cup {None}] /\ lastQ' \in Nat /\ len' \in Int
      /\ \A s \in Slots : queue'[s] = queue[s] \/ (s = p /\ queue'[s] = e)
  <2>1. CASE queue[p] = None \/ queue[p].index < e.index
    <3>1. queue' = [queue EXCEPT ![p] = e] /\ len' = len + 1 /\ lastQ' = Advanced(queue', lastQ, p)
      BY <2>1 DEF Enqueue
    <3>2. lastQ' \in Nat
      BY <3>1, AdvancedIsNat DEF IInv, TypeOK
    <3> QED
      BY <1>1, <3>1, <3>2 DEF IInv, TypeOK
  <2>2. CASE ~(queue[p] = None \/ queue[p].index < e.index)
    BY <2>2 DEF Enqueue, ring, IInv, TypeOK
  <2> QED
    BY <2>1, <2>2
<1>3. signal' \in {"empty", "full"} /\ fate' \in {"ok", "panic"}
  BY DEF Enqueue, IInv, TypeOK
<1>4. put' = [put EXCEPT ![q] = [pc |-> "idle", e |-> None, h |-> 0]]
  BY DEF Enqueue, Return
<1>5. TypeOK'
  BY <1>2, <1>3, <1>4 DEF IInv, TypeOK, Pcs
<1>6. InWindow'
  <2> SUFFICES ASSUME NEW s \in Slots, queue'[s] # None
               PROVE  /\ indexToPosition(queue'[s].index) = s
                      /\ queue'[s].index <= height + CacheSize
    BY DEF InWindow
  <2>1. CASE queue'[s] = queue[s]
    BY <2>1 DEF IInv, InWindow
  <2>2. CASE s = p /\ queue'[s] = e
    BY <1>1, <2>2, ElementFacts
  <2> QED
    BY <1>2, <2>1, <2>2
<1>7. HeightsRead'
  BY <1>1, <1>4 DEF IInv, TypeOK, HeightsRead
<1>8. HeldIsNext'
  BY DEF IInv, HeldIsNext
<1> QED
  BY <1>5, <1>6, <1>7, <1>8 DEF IInv

\* Put keeps the invariant.
LEMMA PutKeeps ==
    ASSUME IInv, NEW q \in Putters,
           PutSteps(q) \/ \E e \in Elements : PutStart(q, e)
    PROVE  IInv'
<1>1. ASSUME NEW e \in Elements, PutStart(q, e) PROVE IInv'
  BY <1>1, ElementFacts
     DEF IInv, TypeOK, InWindow, HeightsRead, HeldIsNext, PutStart, Pcs
<1>2. ASSUME Return(q), UNCHANGED <<height, external, queue, lastQ, len, signal, discard, run, fate>>
      PROVE  IInv'
  BY <1>2 DEF IInv, TypeOK, InWindow, HeightsRead, HeldIsNext, Return, Pcs
<1>3. CASE PutLock(q)
  <2>1. put[q].e \in Elements /\ put[q].e.index \in Nat /\ put[q].h \in Nat /\ put[q].e # None
    BY <1>3, ElementFacts DEF IInv, TypeOK, PutLock
  <2>2. CASE Goto(q, "wait") /\ UNCHANGED <<queue, lastQ, len, signal, fate>>
    BY <1>3, <2>1, <2>2
       DEF IInv, TypeOK, InWindow, HeightsRead, HeldIsNext, Goto, PutLock, Pcs
  <2>3. CASE ~TooFar(q) /\ Enqueue(q)
    BY <1>3, <2>1, <2>3, ElementFacts, EnqueueKeeps DEF TooFar, PutLock
  <2> QED
    BY <1>2, <1>3, <2>2, <2>3 DEF PutLock
<1>4. CASE PutTick(q)
  <2>1. CASE discard # "no"
    BY <1>2, <1>4, <2>1 DEF PutTick
  <2>2. CASE discard = "no"
    BY <1>4, <2>2, ElementFacts, SMTT(15), ZenonT(40)
       DEF IInv, TypeOK, InWindow, HeightsRead, HeldIsNext, PutTick, Pcs
  <2> QED
    BY <2>1, <2>2
<1>5. CASE PutRelock(q)
  BY <1>5, EnqueueKeeps DEF PutRelock, IInv, TypeOK, HeightsRead
<1> QED
  BY <1>1, <1>3, <1>4, <1>5 DEF PutSteps

\* Run keeps the invariant.
LEMMA RunKeeps == IInv /\ Run => IInv'
<1> SUFFICES ASSUME IInv, Run PROVE IInv'
  OBVIOUS
<1>1. CASE RunRecv
  <2>1. TypeOK'
    BY <1>1 DEF IInv, TypeOK, RunRecv
  <2>2. InWindow' /\ HeightsRead' /\ HeldIsNext'
    BY <1>1 DEF IInv, TypeOK, InWindow, HeightsRead, HeldIsNext, RunRecv
  <2> QED
    BY <2>1, <2>2 DEF IInv
<1>2. CASE RunHeight
  <2>1. TypeOK'
    BY <1>2 DEF IInv, TypeOK, RunHeight
  <2>2. InWindow' /\ HeightsRead' /\ HeldIsNext'
    BY <1>2 DEF IInv, TypeOK, InWindow, HeightsRead, HeldIsNext, RunHeight
  <2> QED
    BY <2>1, <2>2 DEF IInv
<1>3. CASE RunScan
  <2> DEFINE b == queue[indexToPosition(run.h + 1)]
             D == {p \in Slots : Outdated(p)}
  <2>1. /\ run.h \in Nat /\ height \in Nat /\ run.h <= height
        /\ indexToPosition(run.h + 1) \in Slots /\ b \in Elements \cup {None}
    BY ElementFacts DEF IInv, TypeOK, HeightsRead
  <2>2. Cardinality(D) \in Nat
    BY SlotsFinite
  <2>3. /\ run' = [run EXCEPT !.pc = IF b = None THEN "recv" ELSE "add",
                              !.b = b, !.lastHeight = run.h]
        /\ queue' = [p \in Slots |-> IF Outdated(p) THEN None ELSE queue[p]]
        /\ len' = len - Cardinality(D)
        /\ UNCHANGED <<height, external, lastQ, signal, discard, put, fate>>
    BY <1>3 DEF RunScan
  <2>4. TypeOK'
    <3> HIDE DEF b, D
    <3>1. run' \in [pc : {"recv", "height", "scan", "add", "done", "end"},
                    lastHeight : Nat, h : Nat, b : Elements \cup {None}]
      BY <2>1, <2>3 DEF IInv, TypeOK
    <3>2. queue' \in [Slots -> Elements \cup {None}]
      BY <2>3 DEF IInv, TypeOK
    <3>3. run'.pc \in {"add", "done"} => run'.b # None
      BY <2>3 DEF IInv, TypeOK
    <3> QED
      BY <2>2, <2>3, <3>1, <3>2, <3>3 DEF IInv, TypeOK
  <2>5. InWindow'
    <3>1. \A p \in Slots : queue'[p] = None \/ queue'[p] = queue[p]
      BY <2>3
    <3> QED
      BY <2>3, <3>1 DEF IInv, InWindow
  <2>6. HeightsRead'
    BY <2>3 DEF IInv, TypeOK, HeightsRead
  <2>7. HeldIsNext'
    <3> SUFFICES ASSUME external = 0, b # None PROVE b.index <= run.h + 1 /\ run.h = height
      <4> HIDE DEF b, D
      <4> QED BY <2>3 DEF HeldIsNext, IInv, TypeOK
    <3>1. run.h = height
      BY <1>3 DEF RunScan, IInv, HeldIsNext
    <3>2. /\ b.index \in Nat /\ b.index <= height + CacheSize
          /\ indexToPosition(b.index) = indexToPosition(run.h + 1)
      BY <2>1, ElementFacts DEF IInv, InWindow
    <3>3. CASE run.h + 1 < b.index
      <4>1. b.index >= run.h + 1 + CacheSize
        BY <2>1, <3>2, <3>3, SameSlot
      <4> HIDE DEF b
      <4> QED
        BY <2>1, <3>1, <3>2, <4>1, ElementFacts
    <3> HIDE DEF b
    <3> QED
      BY <2>1, <3>1, <3>2, <3>3
  <2> QED
    BY <2>4, <2>5, <2>6, <2>7 DEF IInv
<1>4. CASE RunAdd
  <2>1. /\ height \in Nat /\ run.b \in Elements /\ run.b.index \in Nat /\ run.h \in Nat
        /\ height' \in Nat /\ height <= height' /\ height' <= height + 1
    BY <1>4, ElementFacts DEF IInv, TypeOK, RunAdd
  <2>2. TypeOK' /\ InWindow' /\ HeightsRead'
    BY <1>4, <2>1, ElementFacts DEF IInv, TypeOK, InWindow, HeightsRead, RunAdd
  <2>3. HeldIsNext'
    BY <1>4, <2>1 DEF IInv, TypeOK, HeldIsNext, RunAdd, Accepts
  <2> QED
    BY <2>2, <2>3 DEF IInv
<1>5. CASE RunDone
  <2>1. run.h \in Nat /\ indexToPosition(run.h + 1) \in Slots
    BY ElementFacts DEF IInv, TypeOK
  <2>2. /\ queue' \in [Slots -> Elements \cup {None}]
        /\ \A p \in Slots : queue'[p] = None \/ queue'[p] = queue[p]
    BY <1>5, <2>1 DEF IInv, TypeOK, RunDone
  <2>3. TypeOK'
    <3>1. /\ run' = [run EXCEPT !.pc = "height", !.b = None] /\ len' = len - 1
          /\ UNCHANGED <<height, external, lastQ, signal, discard, put, fate>>
      BY <1>5 DEF RunDone
    <3>2. /\ run' \in [pc : {"recv", "height", "scan", "add", "done", "end"},
                       lastHeight : Nat, h : Nat, b : Elements \cup {None}]
          /\ run'.pc = "height"
      BY <3>1 DEF IInv, TypeOK
    <3>3. len' \in Int
      BY <3>1 DEF IInv, TypeOK
    <3> QED
      BY <2>2, <3>1, <3>2, <3>3 DEF IInv, TypeOK
  <2>4. InWindow'
    BY <1>5, <2>2 DEF IInv, InWindow, RunDone
  <2>5. HeightsRead' /\ HeldIsNext'
    BY <1>5 DEF IInv, TypeOK, HeightsRead, HeldIsNext, RunDone
  <2> QED
    BY <2>3, <2>4, <2>5 DEF IInv
<1> QED
  BY <1>1, <1>2, <1>3, <1>4, <1>5 DEF Run

\* The chain and Discard keep the invariant, so every step does.
LEMMA StepKeeps == IInv /\ [Next]_vars => IInv'
<1> SUFFICES ASSUME IInv, [Next]_vars PROVE IInv'
  OBVIOUS
<1>1. CASE ChainAdvances
  BY <1>1, ElementFacts
     DEF IInv, TypeOK, InWindow, HeightsRead, HeldIsNext, ChainAdvances
<1>2. CASE DiscardFlag
  BY <1>2 DEF IInv, TypeOK, InWindow, HeightsRead, HeldIsNext, DiscardFlag
<1>3. CASE DiscardClose
  BY <1>3 DEF IInv, TypeOK, InWindow, HeightsRead, HeldIsNext, DiscardClose
<1>4. CASE UNCHANGED vars
  BY <1>4 DEF IInv, TypeOK, InWindow, HeightsRead, HeldIsNext, vars
<1> QED
  BY <1>1, <1>2, <1>3, <1>4, RunKeeps, PutKeeps DEF Next

-----------------------------------------------------------------------------
(* Theorems.                                                               *)

\* The state of the queue keeps its shape: Run never takes an empty slot for an
\* element.
THEOREM QueueTyped == Spec => []TypeOK
<1>1. IInv => TypeOK
  BY DEF IInv
<1> QED
  BY InitIInv, StepKeeps, <1>1, PTL DEF Spec

\* Whatever the size of the ring, the number of goroutines in Put and the mode,
\* the ring holds no element beyond the window above the chain.
THEOREM QueueInWindow == Spec => []InWindow
<1>1. IInv => InWindow
  BY DEF IInv
<1> QED
  BY InitIInv, StepKeeps, <1>1, PTL DEF Spec

\* While the chain grows through the queue alone, a good element above the chain
\* leaves the ring only by Discard: neither an element of a later round of the
\* ring nor what Run removes takes its slot.
THEOREM QueuePendingKept == Spec => PendingKept
<1> DEFINE Kept == external' = 0 => \A p \in Slots :
              (queue[p] # None /\ queue[p].kind = "good" /\ queue[p].index > height')
                  => queue'[p] = queue[p] \/ discard' = "closed"
<1>1. IInv /\ [Next]_vars => Kept
  <2> SUFFICES ASSUME IInv, [Next]_vars, external' = 0, NEW p \in Slots, queue[p] # None,
                      queue[p].kind = "good", queue[p].index > height', discard' # "closed"
               PROVE  queue'[p] = queue[p]
    OBVIOUS
  <2>1. /\ height \in Nat /\ queue[p] \in Elements /\ queue[p].index \in Nat
        /\ external \in Nat /\ indexToPosition(queue[p].index) = p
        /\ queue[p].index <= height + CacheSize /\ queue \in [Slots -> Elements \cup {None}]
    BY ElementFacts DEF IInv, TypeOK, InWindow
  <2>2. ASSUME NEW q \in Putters, Enqueue(q), put[q].e # None,
               put[q].e.index <= put[q].h + CacheSize, UNCHANGED height
        PROVE  queue'[p] = queue[p]
    <3> DEFINE e == put[q].e
               s == indexToPosition(e.index)
    <3>1. /\ e.index \in Nat /\ put[q].h \in Nat /\ put[q].h <= height /\ s \in Slots
          /\ CacheSize \in Nat
      BY <2>2, ElementFacts DEF IInv, TypeOK, HeightsRead
    <3>2. ~(s = p /\ queue[p].index < e.index)
      <4> SUFFICES ASSUME s = p, queue[p].index < e.index PROVE FALSE
        OBVIOUS
      <4>1. e.index >= queue[p].index + CacheSize
        BY <2>1, <3>1, SameSlot
      <4> HIDE DEF e, s
      <4>2. e.index <= put[q].h + CacheSize
        BY <2>2 DEF e
      <4> QED
        BY <2>1, <2>2, <3>1, <4>1, <4>2
    <3> QED
      BY <2>1, <2>2, <3>1, <3>2 DEF Enqueue, ring
  <2>3. ASSUME NEW q \in Putters, PutLock(q) PROVE queue'[p] = queue[p]
    <3>1. put[q].e.index \in Nat /\ put[q].h \in Nat /\ put[q].e # None
      BY <2>3, ElementFacts DEF IInv, TypeOK, PutLock
    <3>2. CASE ~TooFar(q) /\ Enqueue(q)
      BY <2>2, <2>3, <3>1, <3>2, ElementFacts DEF TooFar, PutLock
    <3> QED
      BY <2>3, <3>2 DEF PutLock
  <2>4. ASSUME NEW q \in Putters, PutRelock(q) PROVE queue'[p] = queue[p]
    BY <2>2, <2>4 DEF PutRelock, IInv, TypeOK, HeightsRead
  <2>5. CASE RunScan
    <3>1. ~Outdated(p)
      BY <2>1, <2>5 DEF Outdated, RunScan, IInv, TypeOK, HeightsRead
    <3> QED
      BY <2>5, <3>1 DEF RunScan
  <2>6. CASE RunDone
    <3>1. external = 0 /\ height' = height /\ run.h \in Nat
      BY <2>6 DEF RunDone, IInv, TypeOK
    <3>2. queue[p] # run.b
      BY <2>1, <2>6, <3>1 DEF RunDone, IInv, HeldIsNext
    <3> QED
      BY <2>1, <2>6, <3>2 DEF RunDone
  <2>7. CASE RunRecv \/ RunHeight \/ RunAdd \/ ChainAdvances \/ DiscardFlag \/ UNCHANGED vars
    BY <2>7 DEF RunRecv, RunHeight, RunAdd, ChainAdvances, DiscardFlag, vars
  <2>8. ASSUME NEW q \in Putters, PutTick(q) \/ \E e \in Elements : PutStart(q, e)
        PROVE  queue'[p] = queue[p]
    BY <2>8 DEF PutTick, PutStart
  <2>9. CASE DiscardClose
    BY <2>9 DEF DiscardClose
  <2> QED
    BY <2>3, <2>4, <2>5, <2>6, <2>7, <2>8, <2>9 DEF Next, Run, PutSteps
<1> QED
  BY InitIInv, StepKeeps, <1>1, PTL DEF Spec, PendingKept

-----------------------------------------------------------------------------
(* The count of elements.                                                  *)

\* In a ring of two slots or more the loop of Run over the heights passed never
\* finds anything: an element of index i is not in the slot of i + 1.
LEMMA NothingOutdated ==
    ASSUME CacheSize > 1, IInv, NEW p \in Slots
    PROVE  ~Outdated(p)
<1> SUFFICES ASSUME NEW i \in run.lastHeight .. run.h - 1, indexToPosition(i + 1) = p,
                    queue[p] # None, queue[p].index = i
             PROVE  FALSE
  BY DEF Outdated
<1>1. i \in Nat /\ indexToPosition(i) = p
  BY DEF IInv, TypeOK, InWindow
<1>2. i + 1 >= i + CacheSize
  BY <1>1, SameSlot
<1> QED
  BY <1>1, <1>2, ElementFacts

\* The number of elements in the ring after the slot p has got another content.
LEMMA OccupiedChange ==
    ASSUME IInv, NEW p \in Slots, NEW x, queue' = [queue EXCEPT ![p] = x]
    PROVE  /\ Cardinality(Occupied) \in Nat /\ Cardinality(Occupied') \in Nat
           /\ (x # None /\ queue[p] = None) => Cardinality(Occupied') = Cardinality(Occupied) + 1
           /\ (x # None /\ queue[p] # None) => Cardinality(Occupied') = Cardinality(Occupied)
           /\ (x = None /\ queue[p] # None) => Cardinality(Occupied') = Cardinality(Occupied) - 1
<1>1. Occupied \in SUBSET Slots /\ Occupied' \in SUBSET Slots
  BY DEF Occupied
<1>2. IsFiniteSet(Occupied) /\ Cardinality(Occupied) \in Nat /\ Cardinality(Occupied') \in Nat
  BY <1>1, SlotsFinite
<1>3. DOMAIN queue = Slots /\ (p \in Occupied <=> queue[p] # None)
  BY DEF IInv, TypeOK, Occupied
<1>4. x # None => Occupied' = Occupied \cup {p}
  BY <1>3 DEF Occupied
<1>5. x = None => Occupied' = Occupied \ {p}
  BY <1>3 DEF Occupied
<1>6. Cardinality(Occupied \cup {p}) =
          IF p \in Occupied THEN Cardinality(Occupied) ELSE Cardinality(Occupied) + 1
  BY <1>2, FS_AddElement
<1>7. Cardinality(Occupied \ {p}) =
          IF p \in Occupied THEN Cardinality(Occupied) - 1 ELSE Cardinality(Occupied)
  BY <1>2, FS_RemoveElement
<1> QED
  BY <1>2, <1>3, <1>4, <1>5, <1>6, <1>7

\* In a ring of two slots or more, len never falls behind the elements in the ring
\* and the one Run holds.
THEOREM QueueNoRoomInvented == CacheSize > 1 => (Spec => []NoRoomInvented)
<1> SUFFICES ASSUME CacheSize > 1 PROVE Spec => []NoRoomInvented
  OBVIOUS
<1>1. Init => NoRoomInvented
  <2> SUFFICES ASSUME Init PROVE NoRoomInvented
    OBVIOUS
  <2>1. Occupied = {} /\ Handed = 0 /\ len = 0
    BY ElementFacts DEF Init, Occupied, Handed
  <2> QED
    BY <2>1, FS_EmptySet DEF NoRoomInvented
<1>2. IInv /\ NoRoomInvented /\ [Next]_vars => NoRoomInvented'
  <2> SUFFICES ASSUME IInv, NoRoomInvented, [Next]_vars, discard' = "no", external' = 0
               PROVE  len' >= Cardinality(Occupied') + Handed'
    BY DEF NoRoomInvented
  <2> DEFINE pos == indexToPosition(run.h + 1)
  <2>1. /\ len \in Int /\ pos \in Slots /\ Handed \in {0, 1} /\ Handed' \in {0, 1}
        /\ Cardinality(Occupied) \in Nat
    <3>1. Occupied \in SUBSET Slots
      BY DEF Occupied
    <3> QED
      BY <3>1, SlotsFinite, ElementFacts DEF IInv, TypeOK, Handed
  <2>2. discard = "no" /\ external = 0 /\ len >= Cardinality(Occupied) + Handed
    <3>1. discard' = discard \/ discard' \in {"flagged", "closed"}
      BY DEF Next, Run, PutSteps, RunRecv, RunHeight, RunScan, RunAdd, RunDone, ChainAdvances,
             PutLock, PutTick, PutRelock, PutStart, DiscardFlag, DiscardClose, vars
    <3>2. external' = external \/ external' = external + 1
      BY DEF Next, Run, PutSteps, RunRecv, RunHeight, RunScan, RunAdd, RunDone, ChainAdvances,
             PutLock, PutTick, PutRelock, PutStart, DiscardFlag, DiscardClose, vars
    <3>3. external \in Nat
      BY DEF IInv, TypeOK
    <3> QED
      BY <3>1, <3>2, <3>3 DEF NoRoomInvented
  <2>3. ASSUME UNCHANGED <<queue, len, run>> PROVE len' >= Cardinality(Occupied') + Handed'
    BY <2>2, <2>3 DEF Occupied, Handed
  <2>4. ASSUME NEW q \in Putters, Enqueue(q), put[q].e # None, UNCHANGED run
        PROVE  len' >= Cardinality(Occupied') + Handed'
    <3> DEFINE e == put[q].e
               p == indexToPosition(e.index)
    <3>1. p \in Slots
      BY <2>4, ElementFacts DEF IInv, TypeOK
    <3>2. CASE ~(queue[p] = None \/ queue[p].index < e.index)
      BY <2>3, <2>4, <3>2 DEF Enqueue, ring
    <3>3. CASE queue[p] = None \/ queue[p].index < e.index
      <4>1. queue' = [queue EXCEPT ![p] = e] /\ len' = len + 1 /\ run' = run
        BY <2>4, <3>3 DEF Enqueue
      <4>2. queue[p] = None => Handed' <= Handed
        BY <2>1, <3>1, <4>1 DEF Handed, IInv, TypeOK
      <4> HIDE DEF e, p
      <4>3. e # None
        BY <2>4 DEF e
      <4>4. /\ Cardinality(Occupied') \in Nat
            /\ queue[p] = None => Cardinality(Occupied') = Cardinality(Occupied) + 1
            /\ queue[p] # None => Cardinality(Occupied') = Cardinality(Occupied)
        BY <3>1, <4>1, <4>3, OccupiedChange
      <4> QED
        BY <2>1, <2>2, <4>1, <4>2, <4>4
    <3> QED
      BY <3>2, <3>3
  <2>5. CASE RunScan
    <3>1. \A p \in Slots : ~Outdated(p)
      BY NothingOutdated
    <3>2. {p \in Slots : Outdated(p)} = {}
      BY <3>1
    <3>3. len' = len
      BY <2>1, <2>5, <3>2, FS_EmptySet DEF RunScan
    <3>4. queue' = queue
      BY <2>5, <3>1 DEF RunScan, IInv, TypeOK
    <3>5. run'.h = run.h /\ run'.b = queue[pos] /\ run'.pc # "done"
      BY <2>5 DEF RunScan, IInv, TypeOK
    <3>6. Handed' = 0
      BY <3>4, <3>5 DEF Handed
    <3>7. Occupied' = Occupied
      BY <3>4 DEF Occupied
    <3> QED
      BY <2>1, <2>2, <3>3, <3>6, <3>7
  <2>6. CASE RunDone
    <3>1. Handed' = 0 /\ len' = len - 1
      BY <2>6 DEF RunDone, Handed, IInv, TypeOK
    <3>2. CASE queue[pos] = run.b
      <4>1. queue' = [queue EXCEPT ![pos] = None] /\ queue[pos] # None
        BY <2>1, <2>6, <3>2 DEF RunDone, IInv, TypeOK
      <4>2. Cardinality(Occupied') = Cardinality(Occupied) - 1
        BY <2>1, <4>1, OccupiedChange
      <4> QED
        BY <2>1, <2>2, <3>1, <4>2
    <3>3. CASE queue[pos] # run.b
      <4>1. Occupied' = Occupied /\ Handed = 1
        BY <2>1, <2>6, <3>3 DEF RunDone, Occupied, Handed, IInv, TypeOK
      <4> QED
        BY <2>1, <2>2, <3>1, <4>1
    <3> QED
      BY <3>2, <3>3
  <2>7. CASE RunRecv \/ RunHeight \/ RunAdd
    <3>1. Occupied' = Occupied /\ len' = len /\ Handed' = Handed
      BY <2>7, ZenonT(40) DEF RunRecv, RunHeight, RunAdd, Occupied, Handed, IInv, TypeOK
    <3> QED
      BY <2>2, <3>1
  <2>8. ASSUME NEW q \in Putters, PutSteps(q) \/ \E e \in Elements : PutStart(q, e)
        PROVE  len' >= Cardinality(Occupied') + Handed'
    BY <2>3, <2>4, <2>8
       DEF PutSteps, PutLock, PutTick, PutRelock, PutStart, IInv, TypeOK
  <2>9. CASE ChainAdvances \/ DiscardFlag \/ UNCHANGED vars
    BY <2>3, <2>9 DEF ChainAdvances, DiscardFlag, vars
  <2>10. CASE DiscardClose
    BY <2>10 DEF DiscardClose
  <2> QED
    BY <2>5, <2>6, <2>7, <2>8, <2>9, <2>10 DEF Next, Run
<1> QED
  BY InitIInv, StepKeeps, <1>1, <1>2, PTL DEF Spec

\* A ring of two slots or more never holds an element outside the window or one
\* that it has not counted, whatever Put and Run do.
THEOREM QueueRingSound == CacheSize > 1 => (Spec => []RingSound)
<1> SUFFICES ASSUME CacheSize > 1 PROVE Spec => []RingSound
  OBVIOUS
<1>1. Spec => []NoRoomInvented
  BY QueueNoRoomInvented
<1>2. TypeOK /\ InWindow /\ NoRoomInvented => RingSound
  BY DEF RingSound
<1> QED
  BY <1>1, <1>2, QueueTyped, QueueInWindow, PTL

=============================================================================
