------------------------- MODULE NotaryOrderProofs -------------------------
(***************************************************************************)
(* The Notary service's main transactions and their fallbacks, for any     *)
(* number of either: a main is queued and taken to be submitted complete,  *)
(* once, and before the chain is at any fallback that waits for it.        *)
(***************************************************************************)
EXTENDS NotaryProofs

\* Steps are tried with SMT, then with Zenon, and then with SMT and more time.
USE SMT, Zenon, SMTT(20)

\* Fallbacks are queued once they are valid; from then on their main is over its
\* bound.
Turned ==
    /\ \A pair \in Queued : ~IsMain(pair) => Info[pair.tx].nvb <= height
    /\ \A m \in Mains :
          \/ m \in fellBack
          \/ cb.pc = "send" /\ ~IsMain(cb.pair) /\ cb.old = None /\ cb.pair.main = m
          => requests[m] = None \/ requests[m].minNVB <= height

\* What the channel holds.
LEMMA ChannelElements ==
    ASSUME NEW q \in Seq(GoodPairs), NEW pair \in GoodPairs
    PROVE  /\ \A i \in DOMAIN Pushed(q, pair) :
                 Pushed(q, pair)[i] = pair \/ \E j \in DOMAIN q : Pushed(q, pair)[i] = q[j]
           /\ q # <<>> => \A i \in DOMAIN Tail(q) : \E j \in DOMAIN q : Tail(q)[i] = q[j]
           /\ q # <<>> => \E j \in DOMAIN q : Head(q) = q[j]
<1>1. \A i \in DOMAIN Pushed(q, pair) :
         Pushed(q, pair)[i] = pair \/ \E j \in DOMAIN q : Pushed(q, pair)[i] = q[j]
  BY DEF Pushed
<1>2. ASSUME q # <<>>
      PROVE  /\ \A i \in DOMAIN Tail(q) : i + 1 \in DOMAIN q /\ Tail(q)[i] = q[i + 1]
             /\ 1 \in DOMAIN q /\ Head(q) = q[1]
  BY <1>2
<1> QED
  BY <1>1, <1>2

LEMMA QueuedGood == Shape => Queued \subseteq GoodPairs
<1> SUFFICES ASSUME Shape PROVE Queued \subseteq GoodPairs
  OBVIOUS
<1>1. \A i \in DOMAIN newTxs : newTxs[i] \in GoodPairs
  BY DEF Shape
<1>2. main.todo \subseteq GoodPairs /\ (cb.pc # "idle" => cb.pair \in GoodPairs)
  BY DEF Shape
<1> QED
  BY <1>1, <1>2 DEF Queued

LEMMA QueuedGoodNext == Shape' => (Queued \subseteq GoodPairs)'
BY QueuedGood, PTL

\* What enters the channel: OnNewRequest's main below the bound it has stored, and
\* what PostPersist found due.
LEMMA QueuedStep ==
    ASSUME IInv, [Next]_vars, NEW pair \in Queued', pair \notin Queued
    PROVE  \/ PostStart /\ pair \in Due(height)
           \/ /\ NewApply /\ IsMain(pair) /\ pair.main \in Mains
              /\ requests'[pair.main] # None /\ requests'[pair.main].minNVB > height
<1>1. CASE NewApply
  <2> DEFINE m == Info[main.req].main
  <2>1. main'.todo = {} /\ cb' = cb /\ newTxs \in Seq(GoodPairs)
        /\ requests \in [Mains -> Request \cup {None}]
    BY <1>1 DEF IInv, Shape, NewApply, Selecting
  <2>2. newTxs' # newTxs
    BY <2>1 DEF Queued
  <2>3. PICK new \in Request :
            /\ m \in Mains /\ requests' = [requests EXCEPT ![m] = new] /\ Own(m, new)
            /\ newTxs' = Pushed(newTxs, Pair(m, None, new.sigs))
            /\ isMainCompleted(m, new) /\ new.minNVB > height
    BY <1>1, <2>2, ApplyEffect DEF IInv
  <2>4. Pair(m, None, new.sigs) \in GoodPairs
    BY <2>3, MainPair
  <2>5. \A i \in DOMAIN newTxs' :
            newTxs'[i] = Pair(m, None, new.sigs) \/ \E j \in DOMAIN newTxs : newTxs'[i] = newTxs[j]
    BY <2>1, <2>3, <2>4, ChannelElements
  <2>6. pair = Pair(m, None, new.sigs)
    BY <2>1, <2>5 DEF Queued
  <2>7. requests'[m] = new /\ new # None
    BY <2>1, <2>3, Facts
  <2> QED
    BY <1>1, <2>3, <2>6, <2>7 DEF Pair, IsMain
<1>2. CASE PostStart
  BY <1>2 DEF PostStart, Queued
<1>3. ASSUME NEW other \in main.todo, PostPush(other) PROVE FALSE
  <2>1. other \in GoodPairs /\ newTxs \in Seq(GoodPairs) /\ newTxs' = Pushed(newTxs, other)
        /\ main'.todo \subseteq main.todo /\ cb' = cb
    BY <1>3 DEF PostPush, IInv, Shape, Selecting
  <2>2. \A i \in DOMAIN newTxs' : newTxs'[i] \in Queued
    BY <1>3, <2>1, ChannelElements DEF Queued
  <2> QED
    BY <2>1, <2>2 DEF Queued
<1>4. CASE CbRecv
  <2>1. newTxs \in Seq(GoodPairs) /\ newTxs # <<>> /\ newTxs' = Tail(newTxs) /\ main' = main
        /\ cb'.pair = Head(newTxs) /\ cb'.pc = "check"
    BY <1>4 DEF CbRecv, IInv, Shape
  <2>2. Head(newTxs) \in GoodPairs
    BY <2>1
  <2>3. (\A i \in DOMAIN newTxs' : newTxs'[i] \in Queued) /\ Head(newTxs) \in Queued
    BY <2>1, <2>2, ChannelElements DEF Queued
  <2> QED
    BY <2>1, <2>3 DEF Queued
<1>5. CASE /\ UNCHANGED <<newTxs, main>>
           /\ cb'.pc # "idle" => cb.pc # "idle" /\ cb'.pair = cb.pair
  BY <1>5 DEF Queued
<1>6. ASSUME NEW p \in Payloads, NewStart(p) PROVE FALSE
  <2>1. main'.todo = main.todo /\ newTxs' = newTxs /\ cb' = cb
    BY <1>6 DEF NewStart, IInv, Shape
  <2> QED
    BY <2>1 DEF Queued
<1>7. CASE CbSteps /\ ~CbRecv
  <2>1. UNCHANGED <<newTxs, main>> /\ (cb'.pc # "idle" => cb.pc # "idle" /\ cb'.pair = cb.pair)
    BY <1>7 DEF CbSteps, CbCheck, CbSent, CbFailed, CbFinish, Idle, IInv, Shape
  <2> QED
    BY <1>5, <2>1
<1>8. ASSUME NEW p \in Payloads, OnRequestRemoval(p) PROVE FALSE
  <2>1. UNCHANGED <<newTxs, main>> /\ cb'.pair = cb.pair /\ cb'.pc = cb.pc
    BY <1>8 DEF OnRequestRemoval, IInv, Shape
  <2> QED
    BY <2>1 DEF Queued
<1>9. ASSUME NEW acc \in {"set", "nil"}, UpdateNotaryNodes(acc) PROVE FALSE
  <2>1. UNCHANGED <<newTxs, main>> /\ cb'.pair = cb.pair /\ cb'.pc = cb.pc
    BY <1>9 DEF UpdateNotaryNodes, IInv, Shape
  <2> QED
    BY <2>1 DEF Queued
<1>10. CASE NewBlock \/ UNCHANGED vars
  <2>1. UNCHANGED <<newTxs, main, cb>>
    BY <1>10 DEF NewBlock, vars
  <2> QED
    BY <1>5, <2>1
<1> QED
  BY <1>1, <1>2, <1>3, <1>4, <1>6, <1>7, <1>8, <1>9, <1>10 DEF Next, MainSteps

\* The bound of a request is never raised; only OnNewRequest creates one.
LEMMA BoundStep ==
    ASSUME IInv, [Next]_vars, NEW m \in Mains, requests'[m] # None
    PROVE  \/ /\ requests[m] # None
              /\ requests'[m].minNVB <= requests[m].minNVB
           \/ NewApply /\ requests[m] = None /\ m \notin fellBack' /\ cb' = cb
<1>1. CASE NewApply
  <2> DEFINE n == Info[main.req].main
  <2>1. requests \in [Mains -> Request \cup {None}] /\ cb' = cb
    BY <1>1 DEF IInv, Shape, NewApply
  <2>2. requests[m] # None => requests[m].minNVB \in Nat
    BY <2>1 DEF Request
  <2>3. CASE requests'[m] = requests[m]
    BY <2>2, <2>3
  <2>4. CASE requests'[m] # requests[m]
    <3>1. PICK new \in Request :
              /\ n \in Mains /\ requests' = [requests EXCEPT ![n] = new]
              /\ requests[n] # None => new.minNVB <= requests[n].minNVB
              /\ requests[n] = None => n \notin fellBack'
      BY <1>1, <2>4, ApplyEffect DEF IInv
    <3>2. m = n /\ requests'[m] = new
      BY <2>1, <2>4, <3>1
    <3> QED
      BY <1>1, <2>1, <3>1, <3>2
  <2> QED
    BY <2>3, <2>4
<1>2. CASE Shrinks
  <2>1. requests[m] # None /\ requests[m] \in Request
    BY <1>2 DEF Shrinks, IInv, Shape
  <2>2. requests[m].minNVB \in Nat /\ requests'[m].minNVB = requests[m].minNVB
    BY <1>2, <2>1 DEF Shrinks, Request
  <2> QED
    BY <2>1, <2>2
<1>3. CASE requests' = requests
  BY <1>2, <1>3 DEF Shrinks
<1>4. ASSUME NEW acc \in {"set", "nil"}, UpdateNotaryNodes(acc) PROVE Shrinks
  BY <1>4 DEF UpdateNotaryNodes, Shrinks
<1> QED
  BY <1>1, <1>2, <1>3, <1>4, FinishShrinks, OnRequestRemovalKeeps
     DEF Next, vars, NewStart, MainSteps, PostStart, PostPush, CbSteps, CbRecv, CbCheck, CbSent,
         CbFailed, NewBlock

\* Blocks only raise the height.
LEMMA HeightStep ==
    ASSUME IInv, [Next]_vars
    PROVE  /\ height \in Nat /\ height' \in Nat /\ height <= height'
           /\ height' # height => NewBlock
<1>1. height \in Nat
  BY DEF IInv, Shape
<1>2. CASE NewBlock
  BY <1>1, <1>2 DEF NewBlock
<1>3. CASE height' = height
  BY <1>1, <1>3
<1> QED
  BY <1>2, <1>3
     DEF Next, vars, NewStart, MainSteps, NewApply, PostStart, PostPush, CbSteps, CbRecv,
         CbCheck, CbSent, CbFailed, CbFinish, OnRequestRemoval, UpdateNotaryNodes

LEMMA TurnedStep ==
    ASSUME IInv, IInv', Turned, [Next]_vars
    PROVE  Turned'
<1> DEFINE Over(m) == \/ m \in fellBack
                      \/ cb.pc = "send" /\ ~IsMain(cb.pair) /\ cb.old = None /\ cb.pair.main = m
<1>1. ASSUME NEW pair \in Queued', ~IsMain(pair) PROVE Info[pair.tx].nvb <= height'
  <2>1. CASE pair \in Queued
    <3>1. pair \in GoodPairs
      BY <2>1, QueuedGood DEF IInv
    <3>2. Info[pair.tx].nvb \in Nat /\ Info[pair.tx].nvb <= height
      BY <1>1, <2>1, <3>1, Facts DEF Turned, GoodPairs, IsMain
    <3> QED
      BY <3>2, HeightStep
  <2>2. CASE pair \notin Queued
    <3>1. PostStart /\ pair \in Due(height)
      BY <1>1, <2>2, QueuedStep
    <3> QED
      BY <1>1, <3>1, HeightStep, DueGood DEF IInv, PostStart
  <2> QED
    BY <2>1, <2>2
<1>2. ASSUME NEW m \in Mains, Over(m)', requests'[m] # None
      PROVE  requests'[m].minNVB <= height'
  <2>1. requests'[m].minNVB \in Nat
    BY <1>2 DEF IInv, Shape, Request
  <2>2. CASE Over(m) /\ requests[m] # None
    <3>1. requests[m].minNVB \in Nat /\ requests[m].minNVB <= height
      BY <2>2 DEF Turned, IInv, Shape, Request
    <3>2. requests'[m].minNVB <= requests[m].minNVB
      BY <1>2, <2>2, BoundStep
    <3> QED
      BY <2>1, <3>1, <3>2, HeightStep
  <2>3. CASE CbCheck
    <3>1. /\ cb.pc = "check" /\ cb.pair \in GoodPairs /\ requests' = requests /\ height' = height
          /\ fellBack' = fellBack
      BY <2>3 DEF CbCheck, IInv, Shape
    <3>2. CASE Over(m)
      BY <1>2, <2>2, <3>1, <3>2
    <3>3. CASE ~Over(m)
      <4>1. Pending(cb.pair) /\ cb' = [cb EXCEPT !.pc = "send"]
        BY <1>2, <2>3, <3>1, <3>3 DEF CbCheck, Idle
      <4>2. ~IsMain(cb.pair) /\ cb.pair.main = m
        BY <1>2, <3>1, <3>3, <4>1 DEF IInv, Shape, IsMain
      <4>3. /\ cb.pair.tx \in requests[m].fbs /\ cb.pair.tx \in Payloads
            /\ Info[cb.pair.tx].main = m /\ requests[m] # None
        BY <3>1, <4>1, <4>2 DEF Pending, GoodPairs, IsMain
      <4>4. cb.pair.tx \in Waiting
        BY <4>3 DEF Waiting
      <4>5. requests[m].minNVB <= Info[cb.pair.tx].nvb
        BY <4>3, <4>4 DEF IInv, BoundIsLow
      <4>6. cb.pair \in Queued
        BY <3>1 DEF Queued
      <4>7. Info[cb.pair.tx].nvb <= height /\ Info[cb.pair.tx].nvb \in Nat
        BY <4>2, <4>3, <4>6, Facts DEF Turned
      <4> QED
        BY <2>1, <3>1, <4>5, <4>7, HeightStep
    <3> QED
      BY <3>2, <3>3
  <2>4. CASE ~CbCheck
    <3>1. Over(m)
      <4>1. CASE UNCHANGED <<fellBack, cb>>
        BY <1>2, <4>1 DEF IsMain
      <4>2. CASE fellBack' = fellBack /\ cb'.pc # "send"
        BY <1>2, <4>2
      <4>3. ASSUME NEW n \in Mains, NEW tx \in Payloads \cup {None}, CbSent(n, tx)
            PROVE  Over(m)
        <5>1. cb'.pc # "send"
          BY <4>3 DEF CbSent, IInv, Shape
        <5>2. m \in fellBack'
          BY <1>2, <5>1
        <5>3. m \in fellBack \/ (tx # None /\ cb.old = None /\ m = n)
          BY <4>3, <5>2 DEF CbSent
        <5> QED
          BY <4>3, <5>3 DEF CbSent, IsMain
      <4>4. CASE NewApply
        <5>1. cb' = cb /\ fellBack' \subseteq fellBack
          BY <4>4 DEF NewApply
        <5> QED
          BY <1>2, <5>1 DEF IsMain
      <4>5. ASSUME fellBack' = fellBack, cb'.pc = cb.pc, cb'.pair = cb.pair,
                   cb'.old = None => cb.old = None
            PROVE  Over(m)
        BY <1>2, <4>5 DEF IsMain
      <4>6. ASSUME NEW p \in Payloads, OnRequestRemoval(p) PROVE Over(m)
        <5>1. fellBack' = fellBack /\ (cb' = cb \/ (cb' = [cb EXCEPT !.old = {}] /\ {} # None))
          BY <4>6, Facts DEF OnRequestRemoval
        <5> QED
          BY <4>1, <4>5, <5>1 DEF IInv, Shape
      <4>7. ASSUME NEW acc \in {"set", "nil"}, UpdateNotaryNodes(acc) PROVE Over(m)
        <5>1. fellBack' = fellBack
          BY <4>7 DEF UpdateNotaryNodes
        <5>2. cb' = cb \/ \E k \in Mains : Holds(k) /\ cb' = [cb EXCEPT !.old = requests[k].fbs]
          BY <4>7 DEF UpdateNotaryNodes, Holds
        <5>3. ASSUME NEW k \in Mains, Holds(k), cb' = [cb EXCEPT !.old = requests[k].fbs]
              PROVE  Over(m)
          <6>1. cb.old = None /\ cb'.pc = cb.pc /\ cb'.pair = cb.pair
            BY <5>3 DEF Holds, IInv, Shape
          <6> QED
            BY <4>5, <5>1, <6>1
        <5> QED
          BY <4>1, <5>1, <5>2, <5>3
      <4>8. CASE CbRecv \/ CbFailed \/ CbFinish
        <5>1. fellBack' = fellBack /\ cb'.pc # "send"
          <6>1. CASE CbRecv
            BY <6>1 DEF CbRecv, IInv, Shape
          <6>2. CASE CbFailed \/ CbFinish
            BY <6>2 DEF CbFailed, CbFinish, Idle
          <6> QED
            BY <4>8, <6>1, <6>2
        <5> QED
          BY <4>2, <5>1
      <4> QED
        BY <2>4, <4>1, <4>3, <4>4, <4>6, <4>7, <4>8
           DEF Next, vars, NewStart, MainSteps, PostStart, PostPush, CbSteps, NewBlock
    <3>2. CASE requests[m] = None
      <4>1. NewApply /\ m \notin fellBack' /\ cb' = cb
        BY <1>2, <3>2, BoundStep
      <4>2. Holds(m)
        BY <1>2, <4>1 DEF Holds, IsMain
      <4> QED
        BY <3>2, <4>2 DEF IInv, Marked
    <3> QED
      BY <2>2, <3>1, <3>2
  <2> QED
    BY <2>3, <2>4
<1> QED
  BY <1>1, <1>2 DEF Turned, IsMain

\* For any payloads, witnesses, blocks and changes of the notary nodes, a main
\* transaction is queued and taken to be submitted only complete, when the network
\* has accepted neither it nor a fallback of its request, and at a height that no
\* waiting fallback has reached.
THEOREM NotaryMainsSentRight == Spec => MainsSentRight
<1>1. Init => Turned
  BY Facts DEF Init, Turned, Queued, Selecting, Idle
<1>2. ASSUME IInv, Turned, [Next]_vars, IInv' PROVE QueuedRight
  <2> SUFFICES ASSUME NEW pair \in Queued', pair \notin Queued, IsMain(pair)
               PROVE  Complete(pair) /\ FallbacksAhead(pair.main)'
    BY DEF QueuedRight
  <2>1. pair \in GoodPairs
    BY <1>2, QueuedGoodNext DEF IInv
  <2>2. requests'[pair.main] # None /\ requests'[pair.main].minNVB > height /\ height' = height
        /\ pair.main \in Mains
    <3>1. CASE PostStart /\ pair \in Due(height)
      BY <1>2, <2>1, <3>1, DueGood, HeightStep DEF PostStart, IInv, GoodPairs
    <3>2. CASE NewApply /\ pair.main \in Mains /\ requests'[pair.main] # None
               /\ requests'[pair.main].minNVB > height
      BY <3>2 DEF NewApply
    <3> QED
      BY <1>2, <3>1, <3>2, QueuedStep
  <2>3. ASSUME NEW p \in Waiting', Info[p].main = pair.main PROVE height' < Info[p].nvb
    <3>1. requests'[pair.main].minNVB <= Info[p].nvb
      BY <1>2, <2>3 DEF IInv, BoundIsLow
    <3>2. requests'[pair.main].minNVB \in Nat /\ Info[p].nvb \in Nat /\ height \in Nat
      BY <1>2, <2>2, Facts DEF IInv, Shape, Request, Waiting
    <3> QED
      BY <2>2, <3>1, <3>2
  <2> QED
    BY <2>1, <2>3 DEF GoodPairs, FallbacksAhead
<1>3. ASSUME IInv, Turned, [Next]_vars PROVE TakenRight
  <2> SUFFICES ASSUME cb.pc = "check", cb'.pc = "send", IsMain(cb.pair)
               PROVE  /\ Complete(cb.pair) /\ cb.pair.main \notin relayed \cup fellBack
                      /\ FallbacksAhead(cb.pair.main)
    BY DEF TakenRight
  <2> DEFINE m == cb.pair.main
  <2>1. CbCheck
    BY <1>3
       DEF Next, vars, NewStart, MainSteps, NewApply, PostStart, PostPush, CbSteps, CbRecv,
           CbSent, CbFailed, CbFinish, OnRequestRemoval, UpdateNotaryNodes, NewBlock,
           Idle, IInv, Shape
  <2>2. Pending(cb.pair)
    BY <2>1 DEF CbCheck, Idle
  <2>3. cb.pair \in GoodPairs /\ m \in Mains
    BY <1>3 DEF IInv, Shape, GoodPairs
  <2>4. requests[m] # None /\ requests[m].isSent = "no" /\ requests[m].minNVB > height
    BY <2>2 DEF Pending
  <2>5. requests[m].minNVB \in Nat /\ height \in Nat
    BY <1>3, <2>3, <2>4 DEF IInv, Shape, Request
  <2>6. m \notin relayed
    BY <1>3, <2>3, <2>4 DEF IInv, Marked
  <2>7. m \notin fellBack
    BY <1>3, <2>3, <2>4, <2>5 DEF Turned
  <2>8. ASSUME NEW p \in Waiting, Info[p].main = m PROVE height < Info[p].nvb
    <3>1. requests[m].minNVB <= Info[p].nvb /\ Info[p].nvb \in Nat
      BY <1>3, <2>8, Facts DEF IInv, BoundIsLow, Waiting
    <3> QED
      BY <2>4, <2>5, <3>1
  <2> QED
    BY <2>3, <2>6, <2>7, <2>8 DEF GoodPairs, FallbacksAhead
<1> QED
  BY InitIInv, StepKeeps, TurnedStep, <1>1, <1>2, <1>3, PTL DEF Spec, MainsSentRight

=============================================================================
