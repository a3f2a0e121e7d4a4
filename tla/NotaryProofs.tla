---------------------------- MODULE NotaryProofs ----------------------------
(***************************************************************************)
(* Proofs about the Notary service for any number of main transactions,    *)
(* requests and witnesses and any capacity of the channel: an inductive    *)
(* invariant, and that fallbacks are neither kept without their request    *)
(* nor lost.                                                               *)
(***************************************************************************)
EXTENDS Notary, TLAPS

\* Steps are tried with SMT, then with Zenon, and then with SMT and more time.
USE SMT, Zenon, SMTT(20)

\* A request of m holds fallbacks of m, and only signatures that verify.
Own(m, r) ==
    /\ \A p \in r.fbs : Info[p].main = m
    /\ \A i \in Wits : Witness[m][i].typ = "multi" => r.sigs[i] \subseteq Witness[m][i].pubs

\* Transactions for the callback loop: fallbacks, and mains with the signatures they
\* need.
GoodPairs ==
    {pair \in [main : Mains, tx : Payloads \cup {None}, sigs : [Wits -> SUBSET Scripts]] :
        IF IsMain(pair) THEN Complete(pair) ELSE Info[pair.tx].main = pair.main}

\* Shape of the state, what is queued and sent included.
Shape ==
    /\ height \in Nat /\ pooled \subseteq Payloads /\ account \in {"set", "nil"}
    /\ requests \in [Mains -> Request \cup {None}]
    /\ \A m \in Mains : requests[m] # None => Own(m, requests[m])
    /\ newTxs \in Seq(GoodPairs)
    /\ main \in [pc : {"select", "new", "post"}, req : Payloads \cup {None}, todo : SUBSET GoodPairs]
    /\ main.pc = "new" => main.req \in pooled
    /\ cb \in [pc : {"idle", "check", "send", "finish"}, pair : GoodPairs \cup {None},
               old : (SUBSET Payloads) \cup {None}]
    /\ cb.pc # "idle" => cb.pair \in GoodPairs
    /\ cb.pc \in {"idle", "check"} => cb.old = None

\* A main transaction that the network accepted is not submitted again for the
\* same request.
SentOnce == cb.pc = "send" /\ IsMain(cb.pair) /\ cb.old = None => cb.pair.main \notin relayed

\* The request whose transaction is being sent is in the map until it is noted
\* that it is not, and a main that was accepted is marked as sent, or is about to
\* be.
Marked ==
    /\ \A m \in Mains : Holds(m) => requests[m] # None
    /\ \A m \in relayed : (m \in Mains /\ requests[m] # None) =>
          \/ requests[m].isSent = "yes"
          \/ cb.pc = "finish" /\ IsMain(cb.pair) /\ cb.pair.main = m /\ cb.old = None
    /\ SentOnce

\* What is kept is in the pool, or was stored too late.
KeptArePooled == Waiting \subseteq pooled \cup orphans

\* Without an account only what was stored too late is waiting.
Stored ==
    /\ KeptArePooled
    /\ account = "nil" => Waiting \subseteq orphans

\* The bound that stops the main is not above any fallback.
BoundIsLow == \A p \in Waiting : requests[Info[p].main].minNVB <= Info[p].nvb

IInv == Shape /\ Marked /\ Stored /\ BoundIsLow

-----------------------------------------------------------------------------
(* Operators.                                                              *)

\* What is known of the constants.
LEMMA Facts ==
    /\ \A p \in Payloads : Info[p].main \in Mains /\ Info[p].nvb \in Nat /\ p # None
    /\ \A S \in SUBSET Payloads : S # None
    /\ \A r \in Request : r # None
    /\ \A p \in Payloads, i \in Wits : Info[p].scripts[i] \in Scripts \cup {None}
    /\ \A m \in Mains, i \in Wits : Witness[m][i].pubs \subseteq Scripts
BY NotaryAssumption, NoneAssumption

\* A completed main has just the signatures it needs.
LEMMA MainPair ==
    ASSUME NEW m \in Mains, NEW r \in Request, Own(m, r), isMainCompleted(m, r)
    PROVE  Pair(m, None, r.sigs) \in GoodPairs
BY DEF Pair, GoodPairs, Complete, Own, isMainCompleted, IsMain, Request

LEMMA FallbackPair ==
    ASSUME NEW p \in Payloads
    PROVE  Pair(Info[p].main, p, Unsigned) \in GoodPairs
BY Facts DEF Pair, GoodPairs, IsMain, Unsigned

\* The channel holds what was pushed.
LEMMA PushedGood ==
    ASSUME NEW q \in Seq(GoodPairs), NEW pair \in GoodPairs
    PROVE  Pushed(q, pair) \in Seq(GoodPairs)
BY DEF Pushed

LEMMA DueGood ==
    ASSUME Shape, NEW h \in Nat
    PROVE  /\ Due(h) \subseteq GoodPairs
           /\ \A pair \in Due(h) : ~IsMain(pair) => Info[pair.tx].nvb <= h
           /\ \A pair \in Due(h) : IsMain(pair) =>
                 requests[pair.main] # None /\ requests[pair.main].minNVB > h
<1> SUFFICES ASSUME NEW pair \in Due(h)
             PROVE  /\ pair \in GoodPairs
                    /\ ~IsMain(pair) => Info[pair.tx].nvb <= h
                    /\ IsMain(pair) =>
                          requests[pair.main] # None /\ requests[pair.main].minNVB > h
  OBVIOUS
<1>1. PICK m \in Mains :
          /\ requests[m] # None
          /\ \/ /\ isMainCompleted(m, requests[m]) /\ requests[m].minNVB > h
                /\ pair = Pair(m, None, requests[m].sigs)
             \/ \E p \in requests[m].fbs : Info[p].nvb <= h /\ pair = Pair(m, p, Unsigned)
  BY DEF Due
<1>2. requests[m] \in Request /\ Own(m, requests[m])
  BY <1>1 DEF Shape
<1>3. \A p \in requests[m].fbs : p \in Payloads /\ Info[p].main = m
  BY <1>2 DEF Own, Request
<1>4. CASE isMainCompleted(m, requests[m]) /\ requests[m].minNVB > h
           /\ pair = Pair(m, None, requests[m].sigs)
  <2>1. pair \in GoodPairs
    BY <1>2, <1>4, MainPair
  <2> QED
    BY <1>1, <1>4, <2>1 DEF Pair, IsMain
<1>5. ASSUME NEW p \in requests[m].fbs, Info[p].nvb <= h, pair = Pair(m, p, Unsigned)
      PROVE  pair \in GoodPairs /\ ~IsMain(pair) /\ Info[pair.tx].nvb <= h
  <2>1. pair \in GoodPairs
    BY <1>3, <1>5, FallbackPair
  <2> QED
    BY <1>3, <1>5, <2>1, Facts DEF Pair, IsMain
<1> QED
  BY <1>1, <1>4, <1>5

\* A new request has its shape, and only scripts for contracts.
LEMMA CreatedShape ==
    ASSUME NEW p \in Payloads
    PROVE  /\ Created(p) \in Request /\ Created(p).fbs = {} /\ Created(p).minNVB = Info[p].nvb
           /\ Own(Info[p].main, Created(p))
<1> DEFINE sigs == [i \in Wits |-> IF Witness[Info[p].main][i].typ = "contract"
                                   THEN {Info[p].scripts[i]} \ {None} ELSE {}]
<1>1. sigs \in [Wits -> SUBSET Scripts]
  BY Facts
<1>2. \A i \in Wits : Witness[Info[p].main][i].typ = "multi" => sigs[i] = {}
  OBVIOUS
<1>3. Created(p) = [isSent |-> "no", minNVB |-> Info[p].nvb, fbs |-> {}, info |-> "nil",
                    sigs |-> sigs]
  BY DEF Created
<1> HIDE DEF sigs
<1> QED
  BY <1>1, <1>2, <1>3, Facts DEF Request, Own

\* A request keeps its shape, its mark, and a bound as low as its fallbacks.
LEMMA KeptShape ==
    ASSUME NEW p \in Payloads, NEW r \in Request \cup {None}
    PROVE  /\ Kept(p, r) \in Request
           /\ Kept(p, r).fbs = (IF r = None THEN {} ELSE r.fbs) \cup {p}
           /\ Kept(p, r).sigs = IF r = None THEN Created(p).sigs ELSE r.sigs
           /\ r # None => Kept(p, r).isSent = r.isSent
           /\ Kept(p, r).minNVB <= Info[p].nvb
           /\ r # None => Kept(p, r).minNVB <= r.minNVB
<1> DEFINE base == IF r # None THEN [r EXCEPT !.minNVB = Least(@, Info[p].nvb)]
                   ELSE Created(p)
           f == base.fbs \cup {p}
           i == IF Info[p].valid THEN "set" ELSE base.info
<1>1. Kept(p, r) = [base EXCEPT !.fbs = f, !.info = i]
  BY DEF Kept
<1>3. /\ base \in Request /\ base.minNVB <= Info[p].nvb
      /\ r = None => base.fbs = {} /\ base.sigs = Created(p).sigs
      /\ r # None => /\ base.fbs = r.fbs /\ base.sigs = r.sigs /\ base.isSent = r.isSent
                     /\ base.minNVB <= r.minNVB
  <2>1. CASE r = None
    BY <2>1, Facts, CreatedShape DEF Request
  <2>2. CASE r # None
    <3>1. r \in Request
      BY <2>2
    <3>2. Least(r.minNVB, Info[p].nvb) \in Nat /\ Least(r.minNVB, Info[p].nvb) <= Info[p].nvb
          /\ Least(r.minNVB, Info[p].nvb) <= r.minNVB
      BY <3>1, Facts DEF Least, Request
    <3> QED
      BY <2>2, <3>1, <3>2 DEF Request
  <2> QED
    BY <2>1, <2>2
<1> HIDE DEF base
<1>4. f \in SUBSET Payloads /\ i \in {"nil", "set"}
  <2>1. base.fbs \in SUBSET Payloads /\ base.info \in {"nil", "set"}
    BY <1>3 DEF Request
  <2> QED
    BY <2>1
<1> HIDE DEF f, i
<1>5. /\ Kept(p, r) \in Request /\ Kept(p, r).fbs = f
      /\ Kept(p, r).isSent = base.isSent /\ Kept(p, r).minNVB = base.minNVB
      /\ Kept(p, r).sigs = base.sigs
  BY <1>1, <1>3, <1>4 DEF Request
<1>6. f = (IF r = None THEN {} ELSE r.fbs) \cup {p}
  BY <1>3 DEF f
<1> QED
  BY <1>3, <1>5, <1>6

LEMMA SignedShape ==
    ASSUME NEW p \in Payloads, NEW r \in Request, Own(Info[p].main, r)
    PROVE  /\ Signed(p, r) \in Request
           /\ Own(Info[p].main, Signed(p, r))
           /\ Signed(p, r).fbs = r.fbs /\ Signed(p, r).isSent = r.isSent
           /\ Signed(p, r).minNVB = r.minNVB
<1> DEFINE sigs == [i \in Wits |-> SignedAt(p, i, r.sigs[i])]
<1>1. \A i \in Wits : Witness[Info[p].main][i].pubs \subseteq Scripts /\ r.sigs[i] \subseteq Scripts
  BY Facts DEF Request
<1>2. \A i \in Wits : /\ SignedAt(p, i, r.sigs[i]) \subseteq Scripts
                      /\ Witness[Info[p].main][i].typ = "multi" =>
                            SignedAt(p, i, r.sigs[i]) \subseteq Witness[Info[p].main][i].pubs
  BY <1>1 DEF SignedAt, Own
<1>3. Signed(p, r) = [r EXCEPT !.sigs = sigs]
  BY DEF Signed
<1>4. /\ sigs \in [Wits -> SUBSET Scripts]
      /\ \A i \in Wits : Witness[Info[p].main][i].typ = "multi" =>
                             sigs[i] \subseteq Witness[Info[p].main][i].pubs
  <2>1. sigs = [i \in Wits |-> sigs[i]] /\ \A i \in Wits : sigs[i] = SignedAt(p, i, r.sigs[i])
    OBVIOUS
  <2> HIDE DEF sigs
  <2>2. \A i \in Wits : sigs[i] \in SUBSET Scripts
    BY <1>2, <2>1
  <2> QED
    BY <1>2, <2>1, <2>2
<1> HIDE DEF sigs
<1> QED
  BY <1>3, <1>4 DEF Request, Own

-----------------------------------------------------------------------------
(* The requests after NewApply.                                            *)

\* The request that NewApply stores for the payload p, if it stores any.
LEMMA ApplyShape ==
    ASSUME Shape, NEW p \in Payloads, NEW new,
           new = Kept(p, requests[Info[p].main]) \/ new = Signed(p, Kept(p, requests[Info[p].main]))
    PROVE  LET r == requests[Info[p].main]
           IN  /\ new \in Request /\ new # None /\ Own(Info[p].main, new)
               /\ new.fbs = (IF r = None THEN {} ELSE r.fbs) \cup {p}
               /\ r # None => new.isSent = r.isSent
               /\ new.minNVB \in Nat /\ new.minNVB <= Info[p].nvb
               /\ r # None => new.minNVB <= r.minNVB
<1> DEFINE m == Info[p].main
           r == requests[m]
           k == Kept(p, r)
<1>1. m \in Mains /\ r \in Request \cup {None} /\ (r # None => Own(m, r))
  BY Facts DEF Shape
<1>2. /\ k \in Request /\ Own(m, k)
      /\ k.fbs = (IF r = None THEN {} ELSE r.fbs) \cup {p}
      /\ r # None => k.isSent = r.isSent
      /\ k.minNVB <= Info[p].nvb
      /\ r # None => k.minNVB <= r.minNVB
  <2>1. /\ k.sigs = IF r = None THEN Created(p).sigs ELSE r.sigs
        /\ k.fbs = (IF r = None THEN {} ELSE r.fbs) \cup {p}
    BY <1>1, KeptShape
  <2>2. Own(m, k)
    BY <1>1, <2>1, CreatedShape DEF Own
  <2> QED
    BY <1>1, <2>2, KeptShape
<1> HIDE DEF k
<1>3. /\ new \in Request /\ Own(m, new) /\ new.fbs = k.fbs
      /\ new.isSent = k.isSent /\ new.minNVB = k.minNVB
  <2>1. CASE new = k
    BY <1>2, <2>1
  <2>2. CASE new = Signed(p, k)
    BY <1>2, <2>2, SignedShape
  <2> QED
    BY <2>1, <2>2 DEF k
<1>4. new.minNVB \in Nat
  BY <1>3 DEF Request
<1> QED
  BY <1>2, <1>3, <1>4, Facts

\* What NewApply does to the map and the channel.
LEMMA ApplyEffect ==
    ASSUME Shape, NewApply
    PROVE  LET p == main.req
               m == Info[p].main
               r == requests[m]
           IN  /\ p \in Payloads /\ m \in Mains
               /\ \/ requests' = requests /\ newTxs' = newTxs
                  \/ \E new \in Request :
                        /\ requests' = [requests EXCEPT ![m] = new] /\ Own(m, new)
                        /\ new.fbs = (IF r = None THEN {} ELSE r.fbs) \cup {p}
                        /\ r # None => new.minNVB <= r.minNVB
                        /\ r = None => m \notin fellBack'
                        /\ \/ newTxs' = newTxs
                           \/ /\ newTxs' = Pushed(newTxs, Pair(m, None, new.sigs))
                              /\ isMainCompleted(m, new) /\ new.minNVB > height
<1> DEFINE p == main.req
           m == Info[p].main
           r == requests[m]
           kept == Kept(p, r)
           early == (r # None /\ isMainCompleted(m, kept)) \/ ~Info[p].valid
           new == IF early THEN kept ELSE Signed(p, kept)
<1>1. p \in Payloads
  BY NoneAssumption DEF Shape, NewApply
<1>2. m \in Mains
  BY <1>1, Facts
<1>3. \/ requests' = requests /\ newTxs' = newTxs
      \/ /\ requests' = [requests EXCEPT ![m] = new]
         /\ r = None => m \notin fellBack'
         /\ \/ newTxs' = newTxs
            \/ /\ newTxs' = Pushed(newTxs, Pair(m, None, new.sigs))
               /\ isMainCompleted(m, new) /\ new.minNVB > height
  BY DEF NewApply
<1>4. new = Kept(p, requests[Info[p].main]) \/ new = Signed(p, Kept(p, requests[Info[p].main]))
  OBVIOUS
<1> HIDE DEF new, p
<1>5. /\ new \in Request /\ Own(m, new)
      /\ new.fbs = (IF r = None THEN {} ELSE r.fbs) \cup {p}
      /\ r # None => new.minNVB <= r.minNVB
  BY <1>1, <1>4, ApplyShape
<1> QED
  BY <1>1, <1>2, <1>3, <1>5 DEF p

-----------------------------------------------------------------------------
(* Every step keeps the invariant.                                         *)

LEMMA InitIInv == Init => IInv
<1> SUFFICES ASSUME Init PROVE IInv
  OBVIOUS
<1>1. Shape
  BY DEF Init, Shape, Selecting, Idle
<1>2. Marked
  BY DEF Init, Marked, SentOnce, Holds, Idle
<1>3. Waiting = {}
  BY Facts DEF Init, Waiting
<1> QED
  BY <1>1, <1>2, <1>3 DEF IInv, Stored, KeptArePooled, BoundIsLow

\* Steps that leave the requests and the callback loop alone.
LEMMA QuietKeeps ==
    ASSUME IInv, Shape', UNCHANGED <<requests, cb, relayed, orphans, account>>,
           pooled \subseteq pooled'
    PROVE  IInv'
<1>1. Waiting' = Waiting
  BY DEF Waiting
<1>2. Marked'
  BY DEF IInv, Marked, SentOnce, Holds, IsMain
<1>3. Stored'
  BY <1>1 DEF IInv, Stored, KeptArePooled
<1>4. BoundIsLow'
  BY <1>1 DEF IInv, BoundIsLow
<1> QED
  BY <1>2, <1>3, <1>4 DEF IInv

LEMMA NewStartKeeps ==
    ASSUME IInv, NEW p \in Payloads, NewStart(p)
    PROVE  IInv'
<1>1. Shape'
  BY DEF IInv, Shape, NewStart
<1> QED
  BY <1>1, QuietKeeps DEF NewStart

LEMMA NewApplyKeeps ==
    ASSUME IInv, NewApply
    PROVE  IInv'
<1> DEFINE p == main.req
           m == Info[p].main
           r == requests[m]
           kept == Kept(p, r)
           early == (r # None /\ isMainCompleted(m, kept)) \/ ~Info[p].valid
           new == IF early THEN kept ELSE Signed(p, kept)
<1>1. p \in Payloads /\ p \in pooled /\ m \in Mains /\ r \in Request \cup {None}
  BY Facts DEF IInv, Shape, NewApply
<1>2. UNCHANGED <<height, account, pooled, cb>> /\ main' = Selecting
  BY DEF NewApply
<1>3. CASE r # None /\ p \in r.fbs
  <2>1. UNCHANGED <<requests, newTxs, relayed, orphans>>
    BY <1>3 DEF NewApply
  <2>2. Shape'
    BY <1>2, <2>1 DEF IInv, Shape, Selecting
  <2> QED
    BY <1>2, <2>1, <2>2, QuietKeeps
<1>4. CASE ~(r # None /\ p \in r.fbs)
  <2>1. /\ requests' = [requests EXCEPT ![m] = new]
        /\ newTxs' = IF ~early /\ isMainCompleted(m, new) /\ new.minNVB > height
                     THEN Pushed(newTxs, Pair(m, None, new.sigs)) ELSE newTxs
        /\ relayed' = IF r = None THEN relayed \ {m} ELSE relayed
        /\ orphans' = IF account = "nil" THEN orphans \cup {p} ELSE orphans \ {p}
    BY <1>4 DEF NewApply
  <2>2. new = Kept(p, requests[Info[p].main]) \/ new = Signed(p, Kept(p, requests[Info[p].main]))
    OBVIOUS
  <2> HIDE DEF new, early
  <2>3. /\ new \in Request /\ new # None /\ Own(m, new)
        /\ new.fbs = (IF r = None THEN {} ELSE r.fbs) \cup {p}
        /\ r # None => new.isSent = r.isSent
        /\ new.minNVB \in Nat /\ new.minNVB <= Info[p].nvb
        /\ r # None => new.minNVB <= r.minNVB
    BY <1>1, <2>2, ApplyShape DEF IInv
  <2>4. newTxs' \in Seq(GoodPairs)
    BY <1>1, <2>1, <2>3, MainPair, PushedGood DEF IInv, Shape
  <2>5. Shape'
    <3> HIDE DEF p, m
    <3>1. /\ requests' \in [Mains -> Request \cup {None}]
          /\ \A k \in Mains : requests'[k] # None => Own(k, requests'[k])
      BY <1>1, <2>1, <2>3 DEF IInv, Shape
    <3> QED
      BY <1>2, <2>4, <3>1 DEF IInv, Shape, Selecting
  <2>6. Waiting' = Waiting \cup {p}
    <3>1. \A q \in Payloads : q \in Waiting' <=> q \in Waiting \/ q = p
      <4> SUFFICES ASSUME NEW q \in Payloads PROVE q \in Waiting' <=> q \in Waiting \/ q = p
        OBVIOUS
      <4>1. Info[q].main \in Mains /\ DOMAIN requests = Mains
        BY Facts DEF IInv, Shape
      <4>2. CASE Info[q].main = m
        BY <1>1, <2>1, <2>3, <4>1, <4>2 DEF Waiting
      <4>3. CASE Info[q].main # m
        BY <1>1, <2>1, <4>1, <4>3 DEF Waiting
      <4> QED
        BY <4>2, <4>3
    <3> QED
      BY <1>1, <3>1 DEF Waiting
  <2>7. Marked'
    <3> HIDE DEF p, m
    <3>1. DOMAIN requests = Mains
      BY DEF IInv, Shape
    <3>2. \A k \in Mains : Holds(k)' => requests'[k] # None
      BY <1>1, <1>2, <2>1, <2>3, <3>1 DEF IInv, Marked, Holds
    <3>3. SentOnce'
      BY <1>2, <2>1 DEF IInv, Marked, SentOnce, IsMain
    <3>4. ASSUME NEW k \in relayed', k \in Mains, requests'[k] # None
          PROVE  \/ requests'[k].isSent = "yes"
                 \/ cb'.pc = "finish" /\ IsMain(cb'.pair) /\ cb'.pair.main = k /\ cb'.old = None
      <4>1. k \in relayed /\ (k = m => r # None)
        BY <2>1, <3>4
      <4>2. requests[k] # None /\ requests'[k].isSent = requests[k].isSent
        BY <1>1, <2>1, <2>3, <3>1, <3>4, <4>1
      <4> QED
        BY <1>2, <3>4, <4>1, <4>2 DEF IInv, Marked
    <3> QED
      BY <3>2, <3>3, <3>4 DEF Marked, IsMain
  <2>8. Stored'
    BY <1>1, <1>2, <2>1, <2>6 DEF IInv, Stored, KeptArePooled, Shape
  <2>9. BoundIsLow'
    <3> SUFFICES ASSUME NEW q \in Waiting' PROVE requests'[Info[q].main].minNVB <= Info[q].nvb
      BY DEF BoundIsLow
    <3>1. q \in Payloads /\ Info[q].main \in Mains /\ Info[q].nvb \in Nat /\ DOMAIN requests = Mains
      BY Facts DEF Waiting, IInv, Shape
    <3>2. CASE q = p
      BY <1>1, <2>1, <2>3, <3>1, <3>2
    <3>3. CASE q # p
      <4>1. q \in Waiting
        BY <2>6, <3>3
      <4>2. requests[Info[q].main].minNVB <= Info[q].nvb
        BY <4>1 DEF IInv, BoundIsLow
      <4>3. CASE Info[q].main = m
        <5>1. r # None /\ r \in Request /\ r.minNVB \in Nat
          BY <1>1, <4>1, <4>3 DEF Waiting, Request
        <5>2. requests'[m] = new
          BY <1>1, <2>1, <3>1
        <5>3. new.minNVB \in Nat /\ new.minNVB <= r.minNVB
          BY <2>3, <5>1
        <5>4. r.minNVB <= Info[q].nvb
          BY <4>2, <4>3
        <5>5. new.minNVB <= Info[q].nvb
          BY <3>1, <5>1, <5>3, <5>4
        <5> QED
          BY <4>3, <5>2, <5>5
      <4>4. CASE Info[q].main # m
        BY <1>1, <2>1, <3>1, <4>2, <4>4
      <4> QED
        BY <4>3, <4>4
    <3> QED
      BY <3>2, <3>3
  <2> QED
    BY <2>5, <2>7, <2>8, <2>9 DEF IInv
<1> QED
  BY <1>3, <1>4

\* Steps after which every request has the fallbacks it had, or fewer.
Shrinks ==
    \A m \in Mains : requests'[m] # None =>
        /\ requests[m] # None /\ requests'[m].fbs \subseteq requests[m].fbs
        /\ requests'[m].minNVB = requests[m].minNVB /\ requests'[m].sigs = requests[m].sigs

LEMMA ShrinksKeeps ==
    ASSUME IInv, Shrinks
    PROVE  /\ Waiting' \subseteq Waiting /\ BoundIsLow'
           /\ \A m \in Mains : requests'[m] # None => Own(m, requests'[m])
<1>1. Waiting' \subseteq Waiting
  BY Facts DEF Waiting, Shrinks
<1>2. BoundIsLow'
  <2> SUFFICES ASSUME NEW p \in Waiting' PROVE requests'[Info[p].main].minNVB <= Info[p].nvb
    BY DEF BoundIsLow
  <2>1. Info[p].main \in Mains /\ requests'[Info[p].main] # None
    BY Facts DEF Waiting
  <2> QED
    BY <1>1, <2>1 DEF IInv, BoundIsLow, Shrinks
<1> QED
  BY <1>1, <1>2 DEF IInv, Shape, Shrinks, Own

LEMMA OnRequestRemovalKeeps ==
    ASSUME IInv, NEW p \in Payloads, OnRequestRemoval(p)
    PROVE  IInv' /\ Shrinks
<1> DEFINE m == Info[p].main
           r == requests[m]
           left == r.fbs \ {p}
<1>1. m \in Mains /\ r \in Request \cup {None} /\ DOMAIN requests = Mains
  BY Facts DEF IInv, Shape
<1>2. /\ pooled' = pooled \ {p} /\ main.pc = "select"
      /\ UNCHANGED <<height, account, newTxs, main, relayed, orphans>>
  BY DEF OnRequestRemoval
<1>3. CASE account = "nil" \/ r = None
  <2>1. UNCHANGED <<requests, cb>>
    BY <1>3 DEF OnRequestRemoval
  <2>2. Shape'
    BY <1>2, <2>1 DEF IInv, Shape
  <2>3. Waiting' = Waiting /\ (account # "nil" => p \notin Waiting)
    BY <1>3, <2>1 DEF Waiting
  <2>4. Marked'
    BY <1>2, <2>1 DEF IInv, Marked, SentOnce, Holds, IsMain
  <2>5. Stored'
    BY <1>2, <2>3 DEF IInv, Stored, KeptArePooled
  <2>6. BoundIsLow' /\ Shrinks
    BY <2>1, <2>3 DEF IInv, BoundIsLow, Shrinks
  <2> QED
    BY <2>2, <2>4, <2>5, <2>6 DEF IInv
<1>4. CASE account # "nil" /\ r # None
  <2> DEFINE new == IF left = {} THEN None ELSE [r EXCEPT !.fbs = left]
  <2>1. /\ requests' = [requests EXCEPT ![m] = new]
        /\ cb' = IF left = {} /\ Holds(m) THEN [cb EXCEPT !.old = {}] ELSE cb
    BY <1>4 DEF OnRequestRemoval
  <2>2. /\ new \in Request \cup {None}
        /\ new # None => /\ new.fbs = left /\ new.minNVB = r.minNVB /\ new.sigs = r.sigs
                         /\ new.isSent = r.isSent
        /\ new = None <=> left = {}
    <3>1. r \in Request /\ left \in SUBSET Payloads
      BY <1>1, <1>4 DEF Request
    <3> HIDE DEF left, r
    <3>2. [r EXCEPT !.fbs = left] \in Request
      BY <3>1 DEF Request
    <3> QED
      BY <3>1, <3>2, Facts DEF Request
  <2> HIDE DEF new
  <2>3. Shrinks
    BY <1>1, <1>4, <2>1, <2>2 DEF Shrinks
  <2>4. Waiting' \subseteq Waiting \ {p}
    <3>1. p \notin Waiting'
      BY <1>1, <2>1, <2>2 DEF Waiting
    <3> QED
      BY <2>3, <3>1, ShrinksKeeps
  <2>5. Shape'
    <3>1. requests' \in [Mains -> Request \cup {None}]
      BY <1>1, <2>1, <2>2 DEF IInv, Shape
    <3>2. \A k \in Mains : requests'[k] # None => Own(k, requests'[k])
      BY <2>3, ShrinksKeeps
    <3>3. /\ cb' \in [pc : {"idle", "check", "send", "finish"}, pair : GoodPairs \cup {None},
                      old : (SUBSET Payloads) \cup {None}]
          /\ cb'.pc = cb.pc /\ cb'.pair = cb.pair
          /\ cb.pc \in {"idle", "check"} => cb'.old = cb.old
      <4> HIDE DEF left, m
      <4> QED
        BY <2>1 DEF IInv, Shape, Holds
    <3> QED
      BY <1>2, <3>1, <3>2, <3>3 DEF IInv, Shape
  <2>6. Marked'
    <3>1. cb'.pc = cb.pc /\ cb'.pair = cb.pair
          /\ (cb'.old = None => cb.old = None) /\ (cb.old = None => cb'.old = None \/ Holds(m))
          /\ (Holds(m) => left # {} \/ cb'.old # None)
          /\ (~(left = {} /\ Holds(m)) => cb' = cb)
      <4>1. {} # None
        BY Facts
      <4> HIDE DEF left, m
      <4> QED
        BY <2>1, <4>1 DEF IInv, Shape, Holds
    <3>2. \A k \in Mains : Holds(k)' => requests'[k] # None
      BY <1>1, <2>1, <2>2, <3>1 DEF IInv, Marked, Holds
    <3>3. SentOnce'
      BY <1>2, <3>1 DEF IInv, Marked, SentOnce, IsMain
    <3>4. ASSUME NEW k \in relayed, k \in Mains, requests'[k] # None
          PROVE  \/ requests'[k].isSent = "yes"
                 \/ cb'.pc = "finish" /\ IsMain(cb'.pair) /\ cb'.pair.main = k /\ cb'.old = None
      <4>1. requests[k] # None /\ requests'[k].isSent = requests[k].isSent
        BY <1>1, <1>4, <2>1, <2>2, <3>4
      <4>2. \/ requests[k].isSent = "yes"
            \/ cb.pc = "finish" /\ IsMain(cb.pair) /\ cb.pair.main = k /\ cb.old = None
        BY <3>4, <4>1 DEF IInv, Marked
      <4>3. CASE cb' = cb
        BY <4>1, <4>2, <4>3
      <4>4. CASE left = {} /\ Holds(m)
        <5>1. k # m
          BY <1>1, <2>1, <2>2, <3>4, <4>4
        <5> QED
          BY <4>1, <4>2, <4>4, <5>1 DEF Holds
      <4> QED
        BY <3>1, <4>3, <4>4
    <3> QED
      BY <1>2, <3>2, <3>3, <3>4 DEF Marked, IsMain
  <2>7. Stored'
    BY <1>2, <1>4, <2>4 DEF IInv, Stored, KeptArePooled
  <2> QED
    BY <2>3, <2>5, <2>6, <2>7, ShrinksKeeps DEF IInv
<1> QED
  BY <1>3, <1>4

LEMMA UpdateNotaryNodesKeeps ==
    ASSUME IInv, NEW acc \in {"set", "nil"}, UpdateNotaryNodes(acc)
    PROVE  IInv'
<1>1. /\ account' = acc /\ account # acc
      /\ UNCHANGED <<height, pooled, newTxs, main, relayed, orphans>>
  BY DEF UpdateNotaryNodes
<1>2. CASE acc = "set"
  <2>1. UNCHANGED <<requests, cb>>
    BY <1>2 DEF UpdateNotaryNodes
  <2>2. Shape'
    BY <1>1, <2>1 DEF IInv, Shape
  <2>3. Waiting' = Waiting
    BY <2>1 DEF Waiting
  <2>4. Marked' /\ BoundIsLow'
    BY <1>1, <2>1, <2>3 DEF IInv, Marked, SentOnce, Holds, IsMain, BoundIsLow
  <2>5. Stored'
    BY <1>1, <1>2, <2>3 DEF IInv, Stored, KeptArePooled
  <2> QED
    BY <2>2, <2>4, <2>5 DEF IInv
<1>3. CASE acc = "nil"
  <2>1. /\ requests' = [k \in Mains |-> None]
        /\ cb' = IF \E k \in Mains : Holds(k)
                 THEN [cb EXCEPT !.old = requests[cb.pair.main].fbs] ELSE cb
    BY <1>3 DEF UpdateNotaryNodes
  <2>2. Waiting' = {}
    BY <2>1, Facts DEF Waiting
  <2>3. /\ cb' \in [pc : {"idle", "check", "send", "finish"}, pair : GoodPairs \cup {None},
                    old : (SUBSET Payloads) \cup {None}]
        /\ cb'.pc = cb.pc /\ cb'.pair = cb.pair
        /\ cb.pc \in {"idle", "check"} => cb'.old = cb.old
        /\ \A k \in Mains : ~Holds(k)'
        /\ cb'.old = None => cb.old = None
    <3>1. CASE \E k \in Mains : Holds(k)
      <4>1. PICK k \in Mains : Holds(k)
        BY <3>1
      <4>2. requests[k] \in Request /\ cb.pair.main = k
        BY <4>1 DEF IInv, Marked, Shape, Holds
      <4>3. requests[k].fbs \in SUBSET Payloads /\ requests[k].fbs # None
        BY <4>2, Facts DEF Request
      <4>4. cb' = [cb EXCEPT !.old = requests[k].fbs]
        BY <2>1, <3>1, <4>2
      <4> QED
        BY <4>1, <4>3, <4>4 DEF IInv, Shape, Holds
    <3>2. CASE ~\E k \in Mains : Holds(k)
      BY <2>1, <3>2 DEF IInv, Shape, Holds
    <3> QED
      BY <3>1, <3>2
  <2>4. Shape'
    BY <1>1, <1>3, <2>1, <2>3 DEF IInv, Shape
  <2>5. Marked'
    BY <1>1, <2>1, <2>3 DEF IInv, Marked, SentOnce, IsMain
  <2> QED
    BY <2>2, <2>4, <2>5 DEF IInv, Stored, KeptArePooled, BoundIsLow
<1> QED
  BY <1>2, <1>3

\* PostPersist and new blocks.
LEMMA PostKeeps ==
    ASSUME IInv, PostStart \/ NewBlock \/ \E pair \in main.todo : PostPush(pair)
    PROVE  IInv'
<1>1. CASE PostStart
  <2>1. Due(height) \in SUBSET GoodPairs
    BY DueGood DEF IInv, Shape
  <2>2. main' \in [pc : {"select", "new", "post"}, req : Payloads \cup {None}, todo : SUBSET GoodPairs]
        /\ main'.pc # "new"
    BY <1>1, <2>1 DEF PostStart, IInv, Shape
  <2>3. Shape'
    BY <1>1, <2>2 DEF PostStart, IInv, Shape
  <2> QED
    BY <1>1, <2>3, QuietKeeps DEF PostStart
<1>2. CASE NewBlock
  <2>1. Shape'
    BY <1>2 DEF NewBlock, IInv, Shape
  <2> QED
    BY <1>2, <2>1, QuietKeeps DEF NewBlock
<1>3. ASSUME NEW pair \in main.todo, PostPush(pair) PROVE IInv'
  <2>1. pair \in GoodPairs
    BY <1>3 DEF IInv, Shape
  <2>2. newTxs' \in Seq(GoodPairs)
    BY <1>3, <2>1, PushedGood DEF PostPush, IInv, Shape
  <2>3. main' \in [pc : {"select", "new", "post"}, req : Payloads \cup {None}, todo : SUBSET GoodPairs]
        /\ main'.pc # "new"
    BY <1>3 DEF PostPush, IInv, Shape, Selecting
  <2>4. Shape'
    BY <1>3, <2>2, <2>3 DEF PostPush, IInv, Shape
  <2> QED
    BY <1>3, <2>4, QuietKeeps DEF PostPush
<1> QED
  BY <1>1, <1>2, <1>3

\* Steps of the callback loop that leave the requests alone.
LEMMA CallbackKeeps ==
    ASSUME IInv, Shape', Marked',
           UNCHANGED <<requests, orphans, account, pooled>>
    PROVE  IInv'
<1>1. Waiting' = Waiting
  BY DEF Waiting
<1> QED
  BY <1>1 DEF IInv, Stored, KeptArePooled, BoundIsLow

\* The loop's request is in the map, or is known to have left it.
LEMMA FinishFacts ==
    ASSUME IInv, CbFinish
    PROVE  /\ cb.pair.main \in Mains /\ requests \in [Mains -> Request \cup {None}]
           /\ requests' = AfterSend(cb.pair) /\ cb.pc = "finish"
           /\ cb.old = None => requests[cb.pair.main] \in Request /\ requests[cb.pair.main] # None
<1>1. requests' = AfterSend(cb.pair) /\ cb.pc = "finish"
  BY DEF CbFinish
<1>2. cb.pair.main \in Mains /\ requests \in [Mains -> Request \cup {None}]
  BY <1>1 DEF IInv, Shape, GoodPairs
<1>3. cb.old = None => requests[cb.pair.main] # None
  BY <1>1, <1>2 DEF IInv, Marked, Holds
<1> QED
  BY <1>1, <1>2, <1>3

\* What newTxCallbackLoop does with the map after a submission.
LEMMA FinishShrinks ==
    ASSUME IInv, CbFinish
    PROVE  /\ requests' \in [Mains -> Request \cup {None}] /\ Shrinks
           /\ \A k \in Mains : requests'[k] # None =>
                 \/ /\ requests'[k].isSent = requests[k].isSent
                    /\ ~(IsMain(cb.pair) /\ cb.old = None /\ k = cb.pair.main)
                 \/ requests'[k].isSent = "yes"
<1> DEFINE pair == cb.pair
           m == pair.main
           tx == pair.tx
<1>0. /\ requests' = AfterSend(cb.pair)
      /\ m \in Mains /\ DOMAIN requests = Mains
      /\ requests \in [Mains -> Request \cup {None}]
      /\ cb.old = None => requests[m] # None
  BY FinishFacts
<1> DEFINE left == IF cb.old = None THEN requests[m].fbs \ {tx} ELSE cb.old \ {tx}
<1>1. CASE IsMain(pair) /\ cb.old = None
  <2>1. requests' = [requests EXCEPT ![m].isSent = "yes"] /\ requests[m] \in Request
    BY <1>0, <1>1 DEF AfterSend
  <2>2. [requests[m] EXCEPT !.isSent = "yes"] \in Request
    BY <2>1 DEF Request
  <2>3. /\ requests'[m] \in Request /\ requests'[m].fbs = requests[m].fbs
        /\ requests'[m].isSent = "yes" /\ requests'[m].sigs = requests[m].sigs
        /\ requests'[m].minNVB = requests[m].minNVB /\ requests[m] # None
    BY <1>0, <2>1, <2>2, Facts DEF Request
  <2>4. \A k \in Mains \ {m} : requests'[k] = requests[k]
    BY <1>0, <2>1
  <2>5. requests' \in [Mains -> Request \cup {None}]
    BY <1>0, <2>1, <2>2
  <2> QED
    BY <1>0, <2>3, <2>4, <2>5 DEF Shrinks
<1>2. CASE IsMain(pair) /\ cb.old # None
  <2>1. requests' = requests
    BY <1>0, <1>2 DEF AfterSend
  <2> QED
    BY <1>0, <1>2, <2>1 DEF Shrinks
<1>3. CASE ~IsMain(pair) /\ left = {}
  <2>1. requests' = [requests EXCEPT ![m] = None]
    BY <1>0, <1>3 DEF AfterSend
  <2> QED
    BY <1>0, <1>3, <2>1 DEF Shrinks
<1>4. CASE ~IsMain(pair) /\ left # {} /\ cb.old = None
  <2>1. requests' = [requests EXCEPT ![m].fbs = left] /\ requests[m] \in Request
    BY <1>0, <1>4 DEF AfterSend
  <2>2. left \in SUBSET Payloads /\ left \subseteq requests[m].fbs
    BY <1>4, <2>1 DEF Request
  <2> HIDE DEF left
  <2>3. [requests[m] EXCEPT !.fbs = left] \in Request
    BY <2>1, <2>2 DEF Request
  <2>4. /\ requests'[m] \in Request /\ requests'[m].fbs = left
        /\ requests'[m].isSent = requests[m].isSent /\ requests'[m].sigs = requests[m].sigs
        /\ requests'[m].minNVB = requests[m].minNVB /\ requests[m] # None
    BY <1>0, <2>1, <2>3, Facts DEF Request
  <2>5. \A k \in Mains \ {m} : requests'[k] = requests[k]
    BY <1>0, <2>1
  <2>6. requests' \in [Mains -> Request \cup {None}]
    BY <1>0, <2>1, <2>3
  <2> QED
    BY <1>0, <1>4, <2>2, <2>4, <2>5, <2>6 DEF Shrinks
<1>5. CASE ~IsMain(pair) /\ left # {} /\ cb.old # None
  <2>1. requests' = requests
    BY <1>0, <1>5 DEF AfterSend
  <2> QED
    BY <1>0, <1>5, <2>1 DEF Shrinks
<1> QED
  BY <1>1, <1>2, <1>3, <1>4, <1>5

LEMMA CbKeeps ==
    ASSUME IInv, CbSteps
    PROVE  IInv'
<1>1. CASE CbRecv
  <2>1. Head(newTxs) \in GoodPairs /\ newTxs' \in Seq(GoodPairs)
    BY <1>1 DEF CbRecv, IInv, Shape
  <2>2. cb' = [cb EXCEPT !.pc = "check", !.pair = Head(newTxs)] /\ cb.old = None
    BY <1>1 DEF CbRecv, IInv, Shape
  <2>3. Shape'
    BY <1>1, <2>1, <2>2 DEF CbRecv, IInv, Shape
  <2>4. Marked'
    BY <1>1, <2>2 DEF CbRecv, IInv, Shape, Marked, SentOnce, Holds
  <2> QED
    BY <1>1, <2>3, <2>4, CallbackKeeps DEF CbRecv
<1>2. CASE CbCheck
  <2>1. UNCHANGED <<height, account, pooled, requests, newTxs, main, relayed, orphans>>
    BY <1>2 DEF CbCheck
  <2>2. cb.pc = "check" /\ cb.pair \in GoodPairs /\ cb.pair.main \in Mains /\ cb.old = None
    BY <1>2 DEF CbCheck, IInv, Shape, GoodPairs
  <2>3. CASE ~Pending(cb.pair)
    <3>1. cb' = Idle
      BY <1>2, <2>3 DEF CbCheck
    <3>2. Shape'
      BY <2>1, <3>1 DEF IInv, Shape, Idle
    <3>3. Marked'
      BY <2>1, <2>2, <3>1 DEF IInv, Marked, SentOnce, Holds, Idle
    <3> QED
      BY <2>1, <3>2, <3>3, CallbackKeeps
  <2>4. CASE Pending(cb.pair)
    <3>1. cb' = [cb EXCEPT !.pc = "send"]
      BY <1>2, <2>4 DEF CbCheck
    <3>2. Shape'
      BY <2>1, <2>2, <3>1 DEF IInv, Shape
    <3>3. /\ requests[cb.pair.main] # None
          /\ IsMain(cb.pair) => cb.pair.main \notin relayed
      BY <2>2, <2>4 DEF Pending, IInv, Marked
    <3>4. cb'.pc = "send" /\ cb'.pair = cb.pair /\ cb'.old = None
      BY <2>2, <3>1 DEF IInv, Shape
    <3>5. Marked'
      BY <2>1, <2>2, <3>3, <3>4 DEF IInv, Marked, SentOnce, Holds, IsMain
    <3> QED
      BY <2>1, <3>2, <3>5, CallbackKeeps
  <2> QED
    BY <2>3, <2>4
<1>3. ASSUME NEW m \in Mains, NEW tx \in Payloads \cup {None}, CbSent(m, tx) PROVE IInv'
  <2>1. UNCHANGED <<height, account, pooled, requests, newTxs, main, orphans>>
    BY <1>3 DEF CbSent
  <2>2. /\ cb' = [cb EXCEPT !.pc = "finish"] /\ cb.pc = "send"
        /\ cb.pair.main = m /\ cb.pair.tx = tx /\ cb.pair \in GoodPairs
        /\ relayed' = IF tx = None /\ cb.old = None THEN relayed \cup {m} ELSE relayed
    BY <1>3 DEF CbSent, IInv, Shape
  <2>3. Shape'
    BY <2>1, <2>2 DEF IInv, Shape
  <2>4. cb'.pc = "finish" /\ cb'.pair = cb.pair /\ cb'.old = cb.old
    BY <2>2 DEF IInv, Shape
  <2>5. Marked'
    BY <2>1, <2>2, <2>4 DEF IInv, Marked, SentOnce, Holds, IsMain
  <2> QED
    BY <2>1, <2>3, <2>5, CallbackKeeps
<1>4. CASE CbFailed
  <2>1. Shape'
    BY <1>4 DEF CbFailed, IInv, Shape, Idle
  <2>2. Marked'
    BY <1>4 DEF CbFailed, IInv, Marked, SentOnce, Holds, Idle
  <2> QED
    BY <1>4, <2>1, <2>2, CallbackKeeps DEF CbFailed
<1>5. CASE CbFinish
  <2> DEFINE pair == cb.pair
             m == pair.main
             tx == pair.tx
  <2>1. /\ UNCHANGED <<height, account, pooled, newTxs, main, relayed, orphans>>
        /\ cb.pc = "finish" /\ cb' = Idle /\ requests' = AfterSend(cb.pair)
        /\ m \in Mains /\ DOMAIN requests = Mains
        /\ requests \in [Mains -> Request \cup {None}]
        /\ cb.old = None => requests[m] # None
    BY <1>5 DEF CbFinish, IInv, Shape, GoodPairs, Marked, Holds
  <2>2. /\ requests' \in [Mains -> Request \cup {None}] /\ Shrinks
        /\ \A k \in Mains : requests'[k] # None =>
              \/ requests'[k].isSent = requests[k].isSent /\ ~(IsMain(pair) /\ cb.old = None /\ k = m)
              \/ requests'[k].isSent = "yes"
    BY <1>5, FinishShrinks
  <2>3. Shape'
    BY <2>1, <2>2, ShrinksKeeps DEF IInv, Shape, Idle
  <2>4. Marked'
    <3>1. ASSUME NEW k \in relayed, k \in Mains, requests'[k] # None
          PROVE  requests'[k].isSent = "yes"
      <4>1. requests[k] # None
        BY <2>2, <3>1 DEF Shrinks
      <4> QED
        BY <2>2, <3>1, <4>1 DEF IInv, Marked
    <3> QED
      BY <2>1, <3>1 DEF Marked, SentOnce, Holds, Idle
  <2>5. Stored'
    <3>1. Waiting' \subseteq Waiting
      BY <2>2, ShrinksKeeps
    <3> QED
      BY <2>1, <3>1 DEF IInv, Stored, KeptArePooled
  <2> QED
    BY <2>2, <2>3, <2>4, <2>5, ShrinksKeeps DEF IInv
<1> QED
  BY <1>1, <1>2, <1>3, <1>4, <1>5 DEF CbSteps

LEMMA StepKeeps == IInv /\ [Next]_vars => IInv'
<1> SUFFICES ASSUME IInv, [Next]_vars PROVE IInv'
  OBVIOUS
<1>1. CASE UNCHANGED vars
  <2>1. Shape'
    BY <1>1 DEF vars, IInv, Shape
  <2> QED
    BY <1>1, <2>1, QuietKeeps DEF vars
<1> QED
  BY <1>1, NewStartKeeps, NewApplyKeeps, OnRequestRemovalKeeps, UpdateNotaryNodesKeeps,
     PostKeeps, CbKeeps DEF Next, MainSteps

-----------------------------------------------------------------------------
(* Theorems.                                                               *)

\* A fallback is dropped only with its request, when it has been submitted, or
\* with the account, as long as the callback loop's request is the one in the map.
THEOREM NotaryFallbackKept == Spec => FallbackKept
<1> DEFINE Kpt == \A p \in Waiting \ Waiting' :
              \/ p \notin pooled'
              \/ account' = "nil"
              \/ cb.pc = "finish" /\ (cb.pair.tx = p \/ cb.old # None)
<1>1. IInv /\ [Next]_vars => Kpt
  <2> SUFFICES ASSUME IInv, [Next]_vars, NEW p \in Waiting, p \notin Waiting',
                      p \in pooled', account' # "nil"
               PROVE  cb.pc = "finish" /\ (cb.pair.tx = p \/ cb.old # None)
    OBVIOUS
  <2>1. /\ p \in Payloads /\ Info[p].main \in Mains /\ requests[Info[p].main] # None
        /\ p \in requests[Info[p].main].fbs /\ requests \in [Mains -> Request \cup {None}]
    BY Facts DEF Waiting, IInv, Shape
  <2>2. requests' # requests
    BY <2>1 DEF Waiting
  <2>3. ~NewApply
    <3> SUFFICES ASSUME NewApply PROVE FALSE
      OBVIOUS
    <3> DEFINE m == Info[main.req].main
    <3>1. PICK new \in Request :
              /\ m \in Mains /\ requests' = [requests EXCEPT ![m] = new]
              /\ requests[m] # None => requests[m].fbs \subseteq new.fbs
      BY <2>2, ApplyEffect DEF IInv
    <3>2. new # None
      BY Facts
    <3> QED
      BY <2>1, <3>1, <3>2 DEF Waiting
  <2>4. ASSUME NEW q \in Payloads, OnRequestRemoval(q) PROVE FALSE
    <3> DEFINE m == Info[q].main
               left == requests[m].fbs \ {q}
    <3>1. /\ requests' = [requests EXCEPT ![m] =
                 IF left = {} THEN None ELSE [requests[m] EXCEPT !.fbs = left]]
          /\ p # q /\ m \in Mains
      BY <2>2, <2>4, Facts DEF OnRequestRemoval
    <3>2. CASE Info[p].main = m
      <4>1. p \in left /\ requests[m] \in Request
        BY <2>1, <3>1, <3>2
      <4>2. [requests[m] EXCEPT !.fbs = left] # None /\ [requests[m] EXCEPT !.fbs = left].fbs = left
        <5>1. left \in SUBSET Payloads
          BY <4>1 DEF Request
        <5> HIDE DEF left
        <5>2. [requests[m] EXCEPT !.fbs = left] \in Request
          BY <4>1, <5>1 DEF Request
        <5> QED
          BY <4>1, <5>2, Facts DEF Request
      <4> HIDE DEF left
      <4> QED
        BY <2>1, <3>1, <3>2, <4>1, <4>2 DEF Waiting
    <3>3. CASE Info[p].main # m
      BY <2>1, <3>1, <3>3 DEF Waiting
    <3> QED
      BY <3>2, <3>3
  <2>5. ASSUME NEW acc \in {"set", "nil"}, UpdateNotaryNodes(acc) PROVE FALSE
    BY <2>2, <2>5 DEF UpdateNotaryNodes
  <2>6. CbFinish
    BY <2>2, <2>3, <2>4, <2>5
       DEF Next, vars, NewStart, MainSteps, PostStart, PostPush, CbSteps, CbRecv, CbCheck, CbSent,
           CbFailed, NewBlock
  <2>7. CASE cb.old = None
    <3> DEFINE m == cb.pair.main
               left == requests[m].fbs \ {cb.pair.tx}
    <3>1. m \in Mains /\ requests[m] \in Request
      BY <2>6, <2>7, FinishFacts
    <3>2. CASE IsMain(cb.pair)
      <4>1. requests' = [requests EXCEPT ![m].isSent = "yes"]
        BY <2>6, <2>7, <3>2 DEF CbFinish, AfterSend
      <4>2. [requests[m] EXCEPT !.isSent = "yes"] \in Request
        BY <3>1 DEF Request
      <4>3. requests'[m] # None /\ requests'[m].fbs = requests[m].fbs
        BY <2>1, <3>1, <4>1, <4>2, Facts DEF Request
      <4> QED
        BY <2>1, <3>1, <4>1, <4>3 DEF Waiting
    <3>3. CASE ~IsMain(cb.pair) /\ cb.pair.tx # p
      <4>1. requests' = IF left = {} THEN [requests EXCEPT ![m] = None]
                        ELSE [requests EXCEPT ![m].fbs = left]
        BY <2>6, <2>7, <3>3 DEF CbFinish, AfterSend
      <4>2. Info[p].main = m
        BY <2>1, <3>1, <4>1 DEF Waiting
      <4>3. p \in left /\ left \in SUBSET Payloads
        BY <2>1, <3>1, <3>3, <4>2 DEF Request
      <4> HIDE DEF left
      <4>4. [requests[m] EXCEPT !.fbs = left] \in Request
        BY <3>1, <4>3 DEF Request
      <4>5. requests'[m] # None /\ requests'[m].fbs = left
        BY <2>1, <3>1, <4>1, <4>3, <4>4, Facts DEF Request
      <4> QED
        BY <2>1, <4>2, <4>3, <4>5 DEF Waiting
    <3> QED
      BY <2>6, <3>2, <3>3 DEF CbFinish
  <2> QED
    BY <2>6, <2>7 DEF CbFinish
<1> QED
  BY InitIInv, StepKeeps, <1>1, PTL DEF Spec, FallbackKept

\* Every component has its shape: above all, the channel is never over its capacity
\* and no request without fallbacks stays in the map.
THEOREM NotaryTyped == Spec => []TypeOK
<1>1. Init => TypeOK
  BY NotaryAssumption DEF Init, TypeOK, Selecting, Idle
<1>2. ASSUME IInv, IInv', TypeOK, [Next]_vars PROVE TypeOK'
  <2> DEFINE Full == \A m \in Mains : requests[m] # None => requests[m].fbs # {}
  <2>1. height' \in 0 .. MaxHeight
    <3>1. CASE NewBlock
      BY <1>2, <3>1, NotaryAssumption DEF TypeOK, NewBlock
    <3>2. CASE height' = height
      BY <1>2, <3>2 DEF TypeOK
    <3> QED
      BY <1>2, <3>1, <3>2
         DEF Next, vars, NewStart, MainSteps, NewApply, PostStart, PostPush, CbSteps, CbRecv,
             CbCheck, CbSent, CbFailed, CbFinish, OnRequestRemoval, UpdateNotaryNodes
  <2>2. \/ newTxs' = newTxs
        \/ newTxs' = Tail(newTxs) /\ newTxs # <<>>
        \/ \E pair : newTxs' = Pushed(newTxs, pair)
    BY <1>2
       DEF Next, vars, NewStart, MainSteps, NewApply, PostStart, PostPush, CbSteps, CbRecv,
           CbCheck, CbSent, CbFailed, CbFinish, OnRequestRemoval, UpdateNotaryNodes, NewBlock
  <2>3. Len(newTxs') <= ChanCap
    BY <1>2, <2>2, NotaryAssumption DEF TypeOK, IInv, Shape, Pushed
  <2>4. Full'
    <3>1. CASE NewApply
      <4>1. CASE requests' = requests
        BY <1>2, <4>1 DEF TypeOK
      <4>2. CASE requests' # requests
        <5>1. PICK new \in Request :
                  requests' = [requests EXCEPT ![Info[main.req].main] = new] /\ main.req \in new.fbs
          BY <1>2, <3>1, <4>2, ApplyEffect DEF IInv
        <5>2. \A k \in Mains : requests'[k] = new \/ requests'[k] = requests[k]
          BY <1>2, <5>1 DEF TypeOK
        <5> QED
          BY <1>2, <5>1, <5>2 DEF TypeOK
      <4> QED
        BY <4>1, <4>2
    <3>2. ASSUME NEW p \in Payloads, OnRequestRemoval(p) PROVE Full'
      <4> DEFINE m == Info[p].main
                 r == requests[m]
                 left == r.fbs \ {p}
      <4>1. CASE account = "nil" \/ r = None
        BY <1>2, <3>2, <4>1 DEF OnRequestRemoval, TypeOK
      <4>2. CASE ~(account = "nil" \/ r = None)
        <5>1. r \in Request /\ left \in SUBSET Payloads /\ m \in Mains
          BY <1>2, <4>2, Facts DEF IInv, Shape, Request
        <5>2. requests' = [requests EXCEPT ![m] = IF left = {} THEN None
                                                  ELSE [r EXCEPT !.fbs = left]]
          BY <3>2, <4>2 DEF OnRequestRemoval
        <5> HIDE DEF m, r, left
        <5>3. [r EXCEPT !.fbs = left].fbs = left
          BY <5>1 DEF Request
        <5> QED
          BY <1>2, <5>1, <5>2, <5>3 DEF TypeOK
      <4> QED
        BY <4>1, <4>2
    <3>3. CASE CbFinish
      <4> DEFINE m == cb.pair.main
                 left == requests[m].fbs \ {cb.pair.tx}
      <4>1. m \in Mains /\ requests' = AfterSend(cb.pair)
            /\ (cb.old = None => requests[m] # None)
        BY <1>2, <3>3, FinishFacts
      <4>2. \/ requests' = requests \/ requests' = [requests EXCEPT ![m] = None]
            \/ cb.old = None /\ requests' = [requests EXCEPT ![m].isSent = "yes"]
            \/ cb.old = None /\ requests' = [requests EXCEPT ![m].fbs = left] /\ left # {}
        BY <4>1 DEF AfterSend
      <4>3. CASE cb.old = None
        <5>1. requests[m] \in Request /\ left \in SUBSET Payloads /\ requests[m].fbs # {}
          BY <1>2, <4>1, <4>3 DEF TypeOK, Request
        <5> HIDE DEF left, m
        <5>2. [requests[m] EXCEPT !.fbs = left].fbs = left
          BY <5>1 DEF Request
        <5>3. [requests[m] EXCEPT !.isSent = "yes"].fbs # {}
          BY <5>1 DEF Request
        <5> QED
          BY <1>2, <4>1, <4>2, <5>1, <5>2, <5>3 DEF TypeOK
      <4> QED
        BY <1>2, <4>1, <4>2, <4>3 DEF TypeOK
    <3>4. CASE \E acc \in {"set", "nil"} : UpdateNotaryNodes(acc)
      BY <1>2, <3>4 DEF UpdateNotaryNodes, TypeOK
    <3> QED
      BY <1>2, <3>1, <3>2, <3>3, <3>4
         DEF Next, vars, NewStart, MainSteps, PostStart, PostPush, CbSteps, CbRecv,
             CbCheck, CbSent, CbFailed, NewBlock, TypeOK
  <2> QED
    BY <1>2, <2>1, <2>3, <2>4 DEF IInv, Shape, TypeOK
<1> QED
  BY InitIInv, StepKeeps, <1>1, <1>2, PTL DEF Spec

\* What the pool has dropped is not worked on, and nothing is kept for a main
\* transaction without fallbacks; the only ones outside the pool were stored by an
\* OnNewRequest that had read the account before it was gone.
THEOREM NotaryWaitingArePooled == Spec => []WaitingArePooled
<1>1. IInv /\ TypeOK => WaitingArePooled
  BY DEF IInv, Stored, KeptArePooled, WaitingArePooled
<1> QED
  BY InitIInv, StepKeeps, NotaryTyped, <1>1, PTL DEF Spec

=============================================================================
