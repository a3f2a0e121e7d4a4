---------------------------- MODULE LedgerProofs ----------------------------
(***************************************************************************)
(* The four invariants of Ledger, for chains of any length and for every   *)
(* page size, collection period and synchronisation interval: the node     *)
(* restarts from whatever the disk holds, the traceable blocks and those   *)
(* of the synchronisation points are kept, and the storage is bounded      *)
(* (pkg/core/blockchain.go, tryRunGC and the collectors behind it;         *)
(* pkg/core/headerhashes.go, init).                                        *)
(*                                                                         *)
(* LedgerInv(L) is the inductive invariant: of the headers, blocks and     *)
(* full pages of hashes everything from L blocks below the persisted       *)
(* height on is there, both through the cache and on the disk, and a       *)
(* collection under way has a target at least L below that height.  It is  *)
(* inductive for every L that no value of MaxTraceableBlocks is below.     *)
(* SyncInv adds the synchronisation point, BoundInv what a collection has  *)
(* left behind.                                                            *)
(***************************************************************************)
EXTENDS Ledger, NaturalsInduction, WellFoundedInduction, TLAPS

\* Steps are tried with SMT, then with Zenon, and then with SMT and more time.
USE SMT, Zenon, SMTT(20)

(***************************************************************************)
(* Constants, division and pages                                           *)
(***************************************************************************)
\* Quotient and remainder, the arithmetic of pages, periods and intervals.
LEMMA Division ==
    ASSUME NEW x \in Nat, NEW g \in Nat \ {0}
    PROVE  /\ x \div g \in Nat /\ x % g \in 0 .. g - 1
           /\ x = g * (x \div g) + (x % g)
<1>1. x \div g \in Nat /\ x % g \in 0 .. g - 1
  BY SMT
<1>2. x = g * (x \div g) + (x % g)
  BY SMT
<1> QED
  BY <1>1, <1>2

\* Multiples of g are g apart.
LEMMA Product ==
    ASSUME NEW g \in Nat \ {0}, NEW a \in Int, NEW b \in Int
    PROVE  /\ g * a \in Int
           /\ a < b => g * a + g <= g * b
           /\ g * (a + 1) = g * a + g
           /\ a * g = g * a
BY Z3

\* A multiple of g and a rest less than g are told apart again by \div and %.
LEMMA Quotient ==
    ASSUME NEW g \in Nat \ {0}, NEW q \in Nat, NEW r \in 0 .. g - 1
    PROVE  (g * q + r) \div g = q /\ (g * q + r) % g = r
<1> DEFINE x == g * q + r
           a == x \div g
<1>1. x \in Nat /\ g * q \in Int
  BY SMT
<1>2. a \in Nat /\ x % g \in 0 .. g - 1 /\ x = g * a + (x % g)
  BY <1>1, Division
<1> HIDE DEF a
<1>3. ~(a < q)
  <2> SUFFICES ASSUME a < q PROVE FALSE
    OBVIOUS
  <2>1. g * a + g <= g * q /\ g * a \in Int
    BY <1>2, Product
  <2> DEFINE y == g * a
             z == g * q
  <2> HIDE DEF y, z
  <2>2. x = y + (x % g) /\ x = z + r /\ y + g <= z /\ y \in Int /\ z \in Int /\ x % g \in 0 .. g - 1
    BY <1>1, <1>2, <2>1 DEF y, z
  <2> HIDE DEF x
  <2> QED
    BY <2>2
<1>4. ~(q < a)
  <2> SUFFICES ASSUME q < a PROVE FALSE
    OBVIOUS
  <2>1. g * q + g <= g * a /\ g * a \in Int
    BY <1>2, Product
  <2> DEFINE y == g * a
             z == g * q
  <2> HIDE DEF y, z
  <2>2. x = y + (x % g) /\ x = z + r /\ z + g <= y /\ y \in Int /\ z \in Int /\ x % g \in 0 .. g - 1
    BY <1>1, <1>2, <2>1 DEF y, z
  <2> HIDE DEF x
  <2> QED
    BY <2>2
<1>5. a = q
  BY <1>2, <1>3, <1>4
<1> QED
  BY <1>1, <1>2, <1>5 DEF a

\* The page of index i starts at a multiple of the page size, not more than a
\* page below i (headerhashes.go, GetHeaderHash).
LEMMA PageBounds ==
    ASSUME NEW i \in Nat
    PROVE  /\ PageOf(i) \in Nat /\ PageOf(i) <= i /\ i < PageOf(i) + Batch
           /\ PageOf(i) % Batch = 0
<1>0. Batch \in Nat \ {0}
  BY LedgerAssumption
<1> DEFINE q == i \div Batch
<1>1. q \in Nat /\ i = Batch * q + (i % Batch) /\ i % Batch \in 0 .. Batch - 1
  BY <1>0, Division
<1> HIDE DEF q
<1>2. Batch * q \in Int /\ q * Batch = Batch * q
  BY <1>0, <1>1, Product
<1>3. PageOf(i) = Batch * q
  BY <1>2 DEF PageOf, q
<1>4. Batch * q <= i /\ i < Batch * q + Batch
  BY <1>0, <1>1, <1>2
<1>5. Batch * q >= 0
  BY <1>0, <1>1
<1>6. (Batch * q + 0) % Batch = 0
  <2>1. 0 \in 0 .. Batch - 1
    BY <1>0
  <2> QED
    BY <1>0, <1>1, <2>1, Quotient, Zenon
<1> QED
  BY <1>2, <1>3, <1>4, <1>5, <1>6

\* Pages do not overlap: an index below a page is in one that ends before it.
LEMMA PageApart ==
    ASSUME NEW p \in Nat, p % Batch = 0, NEW i \in Nat
    PROVE  /\ i < p => PageOf(i) + Batch <= p
           /\ p <= i /\ i < p + Batch => PageOf(i) = p
           /\ (p + Batch) % Batch = 0
<1>0. Batch \in Nat \ {0}
  BY LedgerAssumption
<1> DEFINE q == i \div Batch
           k == p \div Batch
<1>1. /\ q \in Nat /\ i = Batch * q + (i % Batch) /\ i % Batch \in 0 .. Batch - 1
      /\ k \in Nat /\ p = Batch * k + (p % Batch)
  BY <1>0, Division
<1> HIDE DEF q, k
<1>2. /\ Batch * q \in Int /\ Batch * k \in Int /\ q * Batch = Batch * q /\ p = Batch * k
      /\ q < k => Batch * q + Batch <= Batch * k
      /\ k < q => Batch * k + Batch <= Batch * q
  BY <1>0, <1>1, Product
<1>3. PageOf(i) = Batch * q
  BY <1>2 DEF PageOf, q
<1>4. i < p => q < k
  <2>1. q = k => Batch * q = Batch * k
    OBVIOUS
  <2> QED
    BY <1>0, <1>1, <1>2, <2>1
<1>5. p <= i /\ i < p + Batch => q = k
  BY <1>0, <1>1, <1>2
<1>6. p + Batch = Batch * (k + 1) + 0 /\ k + 1 \in Nat
  BY <1>0, <1>1, <1>2, Product
<1>7. (Batch * (k + 1) + 0) % Batch = 0
  BY <1>0, <1>6, Quotient
<1> QED
  BY <1>2, <1>3, <1>4, <1>5, <1>6, <1>7

\* The constants, as numbers.
LEMMA LedgerConstants ==
    /\ Batch \in Nat /\ Batch > 1 /\ GCPeriod \in Nat /\ GCPeriod > 0
    /\ MaxHeight \in Nat /\ MaxHeaders \in Nat /\ Interval \in Nat /\ MaxCrashes \in Nat
    /\ Word \in Nat /\ Word > 0
    /\ MTBs \subseteq Nat /\ MTBs # {} /\ \A m \in MTBs : m <= Word
BY LedgerAssumption

\* The larger of two numbers.
LEMMA MaxOfTwo ==
    ASSUME NEW a \in Int, NEW b \in Int
    PROVE  Max({a, b}) \in {a, b} /\ a <= Max({a, b}) /\ b <= Max({a, b})
<1> DEFINE S == {a, b}
<1>1. \E x \in S : \A y \in S : x >= y
  <2>1. CASE a <= b
    BY <2>1
  <2>2. CASE b <= a
    BY <2>2
  <2> QED
    BY <2>1, <2>2
<1>2. Max(S) \in S /\ \A y \in S : Max(S) >= y
  <2> HIDE DEF S
  <2> QED
    BY <1>1 DEF Max
<1> QED
  BY <1>2

\* The smaller of two numbers (min in tryRunGC).
LEMMA MinOfTwo ==
    ASSUME NEW a \in Int, NEW b \in Int
    PROVE  Min({a, b}) \in {a, b} /\ Min({a, b}) <= a /\ Min({a, b}) <= b
<1> DEFINE S == {a, b}
<1>1. \E x \in S : \A y \in S : x <= y
  <2>1. CASE a <= b
    BY <2>1
  <2>2. CASE b <= a
    BY <2>2
  <2> QED
    BY <2>1, <2>2
<1>2. Min(S) \in S /\ \A y \in S : Min(S) <= y
  <2> HIDE DEF S
  <2> QED
    BY <1>1 DEF Min
<1> QED
  BY <1>2

\* The order of the numbers as a relation.
Less == {ss \in Nat \X Nat : ss[1] < ss[2]}

\* A bounded set of numbers has a maximum.
LEMMA MaxIn ==
    ASSUME NEW S, S \subseteq Nat, S # {}, NEW n \in Nat, \A y \in S : y <= n
    PROVE  Max(S) \in S /\ \A y \in S : y <= Max(S)
<1> DEFINE B == {n - y : y \in S}
<1>0. PICK x \in S : TRUE
  OBVIOUS
<1>1. B \subseteq Nat /\ n - x \in B
  BY <1>0
<1>2. IsWellFoundedOn(Less, Nat)
  BY NatLessThanWellFounded DEF OpToRel, Less
<1>3. PICK m \in B : \A k \in B : <<k, m>> \notin Less
  <2> HIDE DEF B
  <2> QED
    BY <1>1, <1>2, WFMin
<1>4. PICK z \in S : m = n - z
  BY <1>3
<1>5. ASSUME NEW y \in S PROVE z >= y
  <2>1. n - y \in B /\ n - y \in Nat /\ m \in Nat
    BY <1>1
  <2>2. <<n - y, m>> \notin Less
    BY <1>3, <2>1
  <2>3. ~(n - y < m)
    BY <2>1, <2>2 DEF Less
  <2> QED
    BY <1>4, <2>3
<1>6. \E u \in S : \A y \in S : u >= y
  BY <1>5
<1>7. Max(S) \in S /\ \A y \in S : Max(S) >= y
  BY <1>6 DEF Max
<1> QED
  BY <1>7

\* A set of numbers has a minimum: the first page on the disk, from which init
\* takes the place where the collector stopped.
LEMMA MinIn ==
    ASSUME NEW S, S \subseteq Nat, S # {}
    PROVE  Min(S) \in S /\ \A y \in S : Min(S) <= y
<1>2. IsWellFoundedOn(Less, Nat)
  BY NatLessThanWellFounded DEF OpToRel, Less
<1>3. PICK m \in S : \A k \in S : <<k, m>> \notin Less
  BY <1>2, WFMin
<1>4. ASSUME NEW y \in S PROVE m <= y
  <2>1. m \in Nat /\ y \in Nat /\ <<y, m>> \notin Less
    BY <1>3
  <2>2. ~(y < m)
    BY <2>1 DEF Less
  <2> QED
    BY <2>1, <2>2
<1>5. \E u \in S : \A y \in S : u <= y
  BY <1>4
<1> QED
  BY <1>5, Zenon DEF Min

(***************************************************************************)
(* The invariant                                                           *)
(***************************************************************************)
\* The indices pages of header hashes are stored under.
Pages == {p \in Index : p % Batch = 0}

\* Types, and the orders of the heights: blocks follow headers, the disk follows
\* the cache.
Shape ==
    /\ view \in Storage /\ disk \in Storage
    /\ newPages \subseteq Pages /\ diskPages \subseteq Pages /\ lru \subseteq Pages
    /\ gcLast \in Index /\ crashes \in 0 .. MaxCrashes /\ node \in {"up", "failed"}
    /\ view.currentBlock <= view.currentHeader /\ disk.currentBlock <= disk.currentHeader
    /\ disk.currentBlock <= view.currentBlock /\ disk.currentHeader <= view.currentHeader

\* A target the collector may have at height h when it leaves L blocks.
MayCollect(tgt, h, L) == tgt \in Nat /\ tgt > 0 /\ tgt + L <= h

\* A collection under way has a target it may have.
Collecting(L) ==
    /\ gc.pc \in {"idle", "check", "blocks", "pages"}
    /\ gc.pc \in {"blocks", "pages"} => MayCollect(gc.tgt, disk.currentBlock, L)
    /\ gc.pc = "blocks" => gc.period \in Nat

\* The headers and blocks of s from height h - L on are there.
RecordsKept(s, h, L) ==
    /\ \A i \in 0 .. s.currentHeader : i + L > h => i \in s.headers
    /\ \A i \in 0 .. s.currentBlock : i + L > h => i \in s.blocks

\* The full pages of s with a hash of block h - L or a later one are in pages.
PagesKept(s, pages, h, L) ==
    \A p \in Pages : p + Batch <= s.currentHeader + 1 /\ p + Batch + L > h + 1 => p \in pages

\* What is kept, through the cache and on the disk.
Kept(L) ==
    /\ RecordsKept(view, disk.currentBlock, L) /\ RecordsKept(disk, disk.currentBlock, L)
    /\ PagesKept(view, newPages \cup diskPages, disk.currentBlock, L)
    /\ PagesKept(disk, diskPages, disk.currentBlock, L)

\* The inductive invariant, for the last L blocks.
LedgerInv(L) == Shape /\ Collecting(L) /\ Kept(L) /\ (Batch <= L => node = "up")

\* L is not above any value of MaxTraceableBlocks.
IsLow(L) == L \in Nat /\ \A m \in MTBs : L <= m

\* The fields of a storage record.
LEMMA StorageFields ==
    ASSUME NEW s \in Storage
    PROVE  /\ s.headers \subseteq Index /\ s.blocks \subseteq Index
           /\ s.currentHeader \in Index /\ s.currentBlock \in Index /\ s.mtb \in MTBs
           /\ s = [headers |-> s.headers, blocks |-> s.blocks, currentHeader |-> s.currentHeader,
                   currentBlock |-> s.currentBlock, mtb |-> s.mtb]
BY DEF Storage

\* The genesis block is all there is to keep.
LEMMA InitLedger == ASSUME NEW L, IsLow(L) PROVE Init => LedgerInv(L)
<1> SUFFICES ASSUME Init PROVE LedgerInv(L)
  OBVIOUS
<1> USE LedgerConstants
<1>1. /\ view = Genesis(Max(MTBs)) /\ disk = view /\ newPages = {} /\ diskPages = {} /\ lru = {}
      /\ gcLast = 0 /\ gc = Idle /\ node = "up" /\ crashes = 0
  BY DEF Init
<1>2. Max(MTBs) \in MTBs
  BY MaxIn
<1>3. view \in Storage /\ view.headers = {0} /\ view.blocks = {0} /\ view.currentHeader = 0 /\ view.currentBlock = 0
  BY <1>1, <1>2 DEF Genesis, Storage, Index
<1>4. Shape
  BY <1>1, <1>3 DEF Shape, Index
<1>5. Collecting(L)
  BY <1>1 DEF Collecting, Idle
<1>6. Kept(L)
  BY <1>1, <1>3 DEF Kept, RecordsKept, PagesKept, Pages, Index
<1> QED
  BY <1>1, <1>4, <1>5, <1>6 DEF LedgerInv

(***************************************************************************)
(* The steps of the ledger                                                 *)
(***************************************************************************)
\* What of the invariant a step has to be looked at for.
LEMMA Facts ==
    ASSUME NEW L, IsLow(L), LedgerInv(L)
    PROVE  /\ L \in Nat
           /\ view.currentHeader \in Nat /\ view.currentBlock \in Nat
           /\ disk.currentHeader \in Nat /\ disk.currentBlock \in Nat
           /\ view.currentHeader <= MaxHeight /\ disk.currentHeader <= MaxHeight
           /\ view.currentBlock <= view.currentHeader /\ disk.currentBlock <= disk.currentHeader
           /\ disk.currentBlock <= view.currentBlock /\ disk.currentHeader <= view.currentHeader
           /\ view.mtb \in Nat /\ L <= view.mtb
BY LedgerConstants, StorageFields DEF IsLow, LedgerInv, Shape, Index

\* The pages addHeaders stores are the ones that are full now.
LEMMA CompletedPages ==
    ASSUME NEW a \in Nat, NEW b \in Nat, a <= b, b <= MaxHeight
    PROVE  /\ Completed(a, b) \subseteq Pages
           /\ \A p \in Pages : p + Batch > a + 1 /\ p + Batch <= b + 1 => p \in Completed(a, b)
<1> USE LedgerConstants
<1>1. ASSUME NEW i \in a + 1 .. b PROVE PageOf(i) \in Pages
  <2>1. i \in Nat /\ i <= MaxHeight
    OBVIOUS
  <2>2. PageOf(i) \in Nat /\ PageOf(i) <= i /\ PageOf(i) % Batch = 0
    BY <2>1, PageBounds
  <2> QED
    BY <2>1, <2>2 DEF Pages, Index
<1>2. ASSUME NEW p \in Pages, p + Batch > a + 1, p + Batch <= b + 1 PROVE p \in Completed(a, b)
  <2> DEFINE j == p + Batch - 1
  <2>1. p \in Nat /\ p % Batch = 0
    BY DEF Pages, Index
  <2>2. j \in a + 1 .. b /\ j \in Nat /\ p <= j /\ j < p + Batch /\ j + 1 = p + Batch
    BY <1>2, <2>1
  <2>3. PageOf(j) = p /\ (p + Batch) % Batch = 0
    BY <2>1, <2>2, PageApart
  <2>4. (j + 1) % Batch = 0
    BY <2>2, <2>3, Zenon
  <2> HIDE DEF j
  <2> QED
    BY <2>2, <2>3, <2>4 DEF Completed
<1> QED
  BY <1>1, <1>2 DEF Completed

\* addHeaders stores a page when it is full.
LEMMA AddHeadersKeeps ==
    ASSUME NEW L, IsLow(L), LedgerInv(L), NEW n \in 1 .. MaxHeaders, AddHeaders(n)
    PROVE  LedgerInv(L)'
<1> USE LedgerConstants
<1> DEFINE c == view.currentHeader
           last == c + n
<1>1. /\ L \in Nat /\ c \in Nat /\ last \in Nat /\ c < last /\ last <= MaxHeight
      /\ disk.currentBlock \in Nat /\ view.currentBlock \in Nat
      /\ disk.currentHeader <= c /\ view.currentBlock <= c /\ disk.currentHeader \in Nat
  BY Facts DEF AddHeaders
<1>2. /\ view' = [view EXCEPT !.headers = @ \cup (c + 1 .. last), !.currentHeader = last]
      /\ newPages' = newPages \cup Completed(c, last)
      /\ UNCHANGED <<disk, diskPages, lru, gcLast, gc, node, crashes>>
  BY DEF AddHeaders
<1>3. /\ view'.headers = view.headers \cup (c + 1 .. last) /\ view'.blocks = view.blocks
      /\ view'.currentHeader = last /\ view'.currentBlock = view.currentBlock
      /\ view'.mtb = view.mtb /\ view' \in Storage
  <2>1. view \in Storage
    BY DEF LedgerInv, Shape
  <2>2. c + 1 .. last \subseteq Index /\ last \in Index
    BY <1>1 DEF Index
  <2> HIDE DEF c, last
  <2> QED
    BY <1>2, <2>1, <2>2 DEF Storage
<1>4. /\ Completed(c, last) \subseteq Pages
      /\ \A p \in Pages : p + Batch > c + 1 /\ p + Batch <= last + 1 => p \in Completed(c, last)
  BY <1>1, CompletedPages
<1> HIDE DEF last
<1>5. Shape'
  BY <1>1, <1>2, <1>3, <1>4 DEF LedgerInv, Shape
<1>6. RecordsKept(view, disk.currentBlock, L)'
  BY <1>1, <1>2, <1>3 DEF LedgerInv, Kept, RecordsKept
<1>7. PagesKept(view, newPages \cup diskPages, disk.currentBlock, L)'
  <2> SUFFICES ASSUME NEW p \in Pages, p + Batch <= last + 1, p + Batch + L > disk.currentBlock + 1
               PROVE  p \in newPages \cup Completed(c, last) \cup diskPages
    BY <1>2, <1>3 DEF PagesKept, Pages, Index
  <2>1. p \in Nat
    BY DEF Pages, Index
  <2>2. CASE p + Batch <= c + 1
    BY <2>2 DEF LedgerInv, Kept, PagesKept
  <2>3. CASE p + Batch > c + 1
    BY <1>4, <2>3
  <2> QED
    BY <1>1, <2>1, <2>2, <2>3
<1>8. Kept(L)'
  BY <1>2, <1>6, <1>7 DEF LedgerInv, Kept, RecordsKept, PagesKept, Pages, Index
<1> QED
  BY <1>2, <1>5, <1>8 DEF LedgerInv, Collecting, MayCollect

\* storeBlock adds the block above the last one and removes nothing.
LEMMA StoreBlockKeeps ==
    ASSUME NEW L, IsLow(L), LedgerInv(L), NEW m \in MTBs, StoreBlock(m)
    PROVE  LedgerInv(L)'
<1> USE LedgerConstants
<1> DEFINE i == view.currentBlock + 1
<1>1. /\ L \in Nat /\ i \in Nat /\ i <= view.currentHeader /\ view.currentHeader <= MaxHeight
      /\ disk.currentBlock < i /\ view.currentHeader \in Nat /\ disk.currentBlock \in Nat
      /\ view.currentBlock \in Nat
  BY Facts DEF StoreBlock, AddBlockAccepts
<1>2. /\ view' = [view EXCEPT !.headers = @ \cup {i}, !.blocks = @ \cup {i},
                              !.currentBlock = i, !.mtb = m]
      /\ UNCHANGED <<disk, newPages, diskPages, lru, gcLast, gc, node, crashes>>
  BY DEF StoreBlock
<1>3. /\ view'.headers = view.headers \cup {i} /\ view'.blocks = view.blocks \cup {i}
      /\ view'.currentHeader = view.currentHeader /\ view'.currentBlock = i /\ view'.mtb = m
      /\ view' \in Storage
  <2>1. view \in Storage
    BY DEF LedgerInv, Shape
  <2>2. i \in Index
    BY <1>1 DEF Index
  <2> HIDE DEF i
  <2> QED
    BY <1>2, <2>1, <2>2 DEF Storage
<1>4. Shape'
  BY <1>1, <1>2, <1>3 DEF LedgerInv, Shape
<1>5. RecordsKept(view, disk.currentBlock, L)'
  <2>1. \A j \in 0 .. i : j = i \/ j \in 0 .. view.currentBlock
    BY <1>1
  <2> HIDE DEF i
  <2> QED
    BY <1>1, <1>2, <1>3, <2>1 DEF LedgerInv, Kept, RecordsKept
<1>6. Kept(L)'
  BY <1>2, <1>3, <1>5 DEF LedgerInv, Kept, RecordsKept, PagesKept, Pages, Index
<1> QED
  BY <1>2, <1>4, <1>6 DEF LedgerInv, Collecting, MayCollect

\* A persist moves what is kept to the disk, at a height that asks for less.
LEMMA PersistKeeps ==
    ASSUME NEW L, IsLow(L), LedgerInv(L), Persist
    PROVE  LedgerInv(L)'
<1> USE LedgerConstants
<1>1. /\ L \in Nat /\ disk.currentBlock <= view.currentBlock
      /\ disk.currentBlock \in Nat /\ view.currentBlock \in Nat
      /\ view.currentBlock <= view.currentHeader /\ view.currentHeader \in Nat
  BY Facts
<1>2. /\ disk' = view /\ view' = view /\ diskPages' = diskPages \cup newPages /\ newPages' = {}
      /\ gc'.pc = "check" /\ UNCHANGED <<lru, gcLast, node, crashes>>
  BY DEF Persist, Flushed
<1>3. Shape'
  BY <1>1, <1>2 DEF LedgerInv, Shape
<1>4. RecordsKept(view, view.currentBlock, L)
  BY <1>1 DEF LedgerInv, Kept, RecordsKept
<1>5. PagesKept(view, newPages \cup diskPages, view.currentBlock, L)
  BY <1>1 DEF LedgerInv, Kept, PagesKept, Pages, Index
<1>6. newPages' \cup diskPages' = newPages \cup diskPages /\ diskPages' = newPages \cup diskPages
  BY <1>2
<1>7. Kept(L)'
  BY <1>2, <1>4, <1>5, <1>6 DEF Kept, RecordsKept, PagesKept, Pages, Index
<1> QED
  BY <1>2, <1>3, <1>7 DEF LedgerInv, Collecting

\* What tryRunGC computes is at most the distance it has to leave.
LEMMA TgtBlockBound ==
    ASSUME NEW h \in Nat, NEW m \in Nat
    PROVE  /\ TgtBlock(h, m) \in Int /\ TgtBlock(h, m) <= h - m
           /\ TgtBlock(h, m) > 0 => TgtBlock(h, m) % GCPeriod = 0
<1> USE LedgerConstants
<1> DEFINE x == TgtUnrounded(h, m)
<1>1. x \in Int /\ x <= h - m
  <2>1. CASE Interval = 0
    BY <2>1 DEF TgtUnrounded
  <2>2. CASE Interval # 0
    <3>1. SyncBound(h, m) \in Int
      <4>1. h \div Interval \in Int
        BY <2>2
      <4>2. (h \div Interval - 1) * Interval \in Int
        BY <4>1
      <4>3. ((h \div Interval - 1) * Interval) % Word \in Int
        BY <4>2
      <4> QED
        BY <4>3 DEF SyncBound
    <3>2. h - m \in Int
      OBVIOUS
    <3> HIDE DEF x
    <3>3. x = Min({h - m, SyncBound(h, m)})
      BY <2>2 DEF x, TgtUnrounded
    <3> QED
      BY <3>1, <3>2, <3>3, MinOfTwo
  <2> QED
    BY <2>1, <2>2
<1> HIDE DEF x
<1>2. (x \div GCPeriod) * GCPeriod \in Int /\ (x \div GCPeriod) * GCPeriod <= x
  BY <1>1
<1>3. TgtBlock(h, m) = (x \div GCPeriod) * GCPeriod
  BY DEF TgtBlock, x
<1>4. ASSUME TgtBlock(h, m) > 0 PROVE TgtBlock(h, m) % GCPeriod = 0
  <2> DEFINE e == x \div GCPeriod
  <2>1. e \in Int /\ GCPeriod \in Nat \ {0}
    BY <1>1
  <2> HIDE DEF e
  <2>2. TgtBlock(h, m) = GCPeriod * e
    BY <1>3, <2>1, Product DEF e
  <2>3. ~(e < 0)
    <3>1. e < 0 => GCPeriod * e + GCPeriod <= GCPeriod * 0 /\ GCPeriod * e \in Int
      BY <2>1, Product
    <3> QED
      BY <1>4, <2>1, <2>2, <3>1
  <2>4. e \in Nat /\ 0 \in 0 .. GCPeriod - 1
    BY <2>1, <2>3
  <2>5. (GCPeriod * e + 0) % GCPeriod = 0
    BY <2>1, <2>4, Quotient, Zenon
  <2>6. GCPeriod * e + 0 = GCPeriod * e
    BY <2>1
  <2> QED
    BY <2>2, <2>5, <2>6
<1> QED
  BY <1>1, <1>2, <1>3, <1>4

\* A collection that starts has a target at least L below the persisted height.
LEMMA TryRunGCKeeps ==
    ASSUME NEW L, IsLow(L), LedgerInv(L), TryRunGC
    PROVE  LedgerInv(L)'
<1> USE LedgerConstants
<1> DEFINE h == disk.currentBlock
           tgt == TgtBlock(h, view.mtb)
           due == tgt > GCPeriod /\ h \div GCPeriod # gc.old \div GCPeriod
<1>1. L \in Nat /\ h \in Nat /\ view.mtb \in Nat /\ L <= view.mtb
  BY Facts
<1>2. tgt \in Int /\ tgt <= h - view.mtb
  BY <1>1, TgtBlockBound
<1>3. /\ gc' = IF due THEN [pc |-> "blocks", period |-> h \div GCPeriod, tgt |-> tgt] ELSE Idle
      /\ UNCHANGED <<view, disk, newPages, diskPages, lru, gcLast, node, crashes>>
  BY DEF TryRunGC
<1>4. Collecting(L)'
  <2>1. CASE due
    <3>1. MayCollect(tgt, h, L)
      <4> HIDE DEF tgt
      <4> QED
        BY <1>1, <1>2, <2>1 DEF MayCollect
    <3>2. h \div GCPeriod \in Nat
      BY <1>1
    <3>3. gc'.pc = "blocks" /\ gc'.period = h \div GCPeriod /\ gc'.tgt = tgt
      <4> HIDE DEF tgt, h
      <4> QED
        BY <1>3, <2>1
    <3> HIDE DEF tgt
    <3> QED
      BY <1>3, <3>1, <3>2, <3>3 DEF Collecting
  <2>2. CASE ~due
    BY <1>3, <2>2 DEF Collecting, Idle
  <2> QED
    BY <2>1, <2>2
<1>5. Shape'
  BY <1>3 DEF LedgerInv, Shape
<1>6. Kept(L)'
  BY <1>3 DEF LedgerInv, Kept, RecordsKept, PagesKept
<1> QED
  BY <1>3, <1>4, <1>5, <1>6 DEF LedgerInv

\* The blocks are collected below the target, never above it.
LEMMA TargetBound ==
    ASSUME NEW period \in Nat, NEW tgt \in Nat
    PROVE  Target(period, tgt) \in Nat /\ Target(period, tgt) <= tgt
<1> USE LedgerConstants
<1>1. PageOf(tgt) \in Nat /\ PageOf(tgt) <= tgt
  BY PageBounds
<1>2. PageOf(tgt) - Batch \in Int /\ PageOf(tgt) - Batch <= tgt
  BY <1>1
<1> DEFINE b == PageOf(tgt) - Batch
           x == Max({0, b})
<1>4. Target(period, tgt) \in {x, tgt}
  BY DEF Target
<1>5. b \in Int /\ b <= tgt /\ 0 \in Int
  BY <1>2 DEF b
<1> HIDE DEF b
<1>3. x \in {0, b} /\ 0 <= x
  BY <1>5, MaxOfTwo
<1> HIDE DEF x
<1> QED
  BY <1>3, <1>4, <1>5

\* What a collection of the blocks removes is below the target of the collector.
LEMMA Collected ==
    ASSUME NEW L, IsLow(L), LedgerInv(L), removeUntraceableBlocks
    PROVE  \E found \in SUBSET Nat :
               /\ \A i \in found : i < gc.tgt
               /\ view' = [view EXCEPT !.headers = @ \ found, !.blocks = @ \ found]
               /\ lru' \subseteq Pages
<1> USE LedgerConstants
<1> DEFINE t == Target(gc.period, gc.tgt)
           range == gcLast .. t - 1
           found == {i \in range : HashKnown(i)}
<1>1. gc.pc = "blocks" /\ gc.period \in Nat /\ gc.tgt \in Nat /\ gc.tgt + L <= disk.currentBlock
  BY DEF LedgerInv, Collecting, MayCollect, removeUntraceableBlocks
<1>2. t \in Nat /\ t <= gc.tgt
  BY <1>1, TargetBound
<1>3. /\ L \in Nat /\ disk.currentBlock \in Nat /\ disk.currentBlock <= MaxHeight
      /\ gcLast \in Nat /\ lru \subseteq Pages
  BY Facts DEF LedgerInv, Shape, Index
<1>4. found \in SUBSET Nat /\ \A i \in found : i < gc.tgt /\ i <= MaxHeight
  BY <1>1, <1>2, <1>3
<1>5. /\ view' = [view EXCEPT !.headers = @ \ found, !.blocks = @ \ found]
      /\ lru' \subseteq lru \cup ({PageOf(i) : i \in {j \in found : ~getLocalHeaderHash(j)}})
  BY DEF removeUntraceableBlocks, Cached
<1> HIDE DEF found
<1>6. ASSUME NEW i \in found PROVE PageOf(i) \in Pages
  <2>1. i \in Nat /\ i <= MaxHeight
    BY <1>4
  <2>2. PageOf(i) \in Nat /\ PageOf(i) <= i /\ PageOf(i) % Batch = 0
    BY <2>1, PageBounds
  <2> QED
    BY <2>1, <2>2 DEF Pages, Index
<1>7. lru' \subseteq Pages
  BY <1>3, <1>5, <1>6
<1> QED
  BY <1>4, <1>5, <1>7

\* removeUntraceableBlocks removes records below the target only.
LEMMA removeUntraceableBlocksKeeps ==
    ASSUME NEW L, IsLow(L), LedgerInv(L), removeUntraceableBlocks
    PROVE  LedgerInv(L)'
<1> USE LedgerConstants
<1>1. /\ gc.pc = "blocks" /\ gc.period \in Nat /\ MayCollect(gc.tgt, disk.currentBlock, L)
      /\ UNCHANGED <<disk, newPages, diskPages, node, crashes>>
      /\ gc' = [pc |-> "pages", tgt |-> gc.tgt]
  BY DEF LedgerInv, Collecting, removeUntraceableBlocks
<1>2. /\ L \in Nat /\ disk.currentBlock \in Nat /\ disk.currentBlock <= MaxHeight
      /\ gc.tgt \in Nat /\ gc.tgt + L <= disk.currentBlock /\ view \in Storage
  BY <1>1, Facts DEF MayCollect, LedgerInv, Shape
<1>3. PICK found \in SUBSET Nat :
          /\ \A i \in found : i < gc.tgt
          /\ view' = [view EXCEPT !.headers = @ \ found, !.blocks = @ \ found]
          /\ lru' \subseteq Pages
  BY Collected
<1>4. /\ view'.headers = view.headers \ found /\ view'.blocks = view.blocks \ found
      /\ view'.currentHeader = view.currentHeader /\ view'.currentBlock = view.currentBlock
      /\ view'.mtb = view.mtb /\ view' \in Storage
  BY <1>2, <1>3 DEF Storage
<1>5. gcLast' \in Index
  <2>1. Target(gc.period, gc.tgt) \in Nat /\ Target(gc.period, gc.tgt) <= gc.tgt
    BY <1>1, <1>2, TargetBound
  <2>2. gcLast' = gcLast \/ gcLast' = Target(gc.period, gc.tgt)
    BY DEF removeUntraceableBlocks
  <2> QED
    BY <1>2, <2>1, <2>2 DEF LedgerInv, Shape, Index
<1>6. Shape'
  BY <1>1, <1>3, <1>4, <1>5 DEF LedgerInv, Shape
<1>7. Collecting(L)'
  BY <1>1 DEF Collecting, MayCollect
<1>8. RecordsKept(view, disk.currentBlock, L)'
  <2>1. \A i \in found : i \in Nat /\ ~(i + L > disk.currentBlock)
    BY <1>2, <1>3
  <2> QED
    BY <1>1, <1>4, <2>1 DEF LedgerInv, Kept, RecordsKept
<1>9. Kept(L)'
  BY <1>1, <1>4, <1>8 DEF LedgerInv, Kept, RecordsKept, PagesKept, Pages, Index
<1> QED
  BY <1>1, <1>6, <1>7, <1>9 DEF LedgerInv

\* removeOldHeaderHashes removes pages that end below the target only.
LEMMA removeOldHeaderHashesKeeps ==
    ASSUME NEW L, IsLow(L), LedgerInv(L), removeOldHeaderHashes
    PROVE  LedgerInv(L)'
<1> USE LedgerConstants
<1> DEFINE till == Till(gc.tgt)
<1>1. /\ gc.pc = "pages" /\ MayCollect(gc.tgt, disk.currentBlock, L)
      /\ UNCHANGED <<view, disk, newPages, lru, gcLast, node, crashes>>
      /\ gc' = Idle
      /\ diskPages' = IF till > 0 THEN {p \in diskPages : p > till} ELSE diskPages
  BY DEF LedgerInv, Collecting, removeOldHeaderHashes
<1>2. /\ L \in Nat /\ disk.currentBlock \in Nat /\ gc.tgt \in Nat
      /\ gc.tgt + L <= disk.currentBlock
  BY <1>1, Facts DEF MayCollect
<1>3. till \in Int /\ till + Batch <= gc.tgt + 1
  <2>0. gc.tgt + 1 \in Nat
    BY <1>2
  <2>1. PageOf(gc.tgt + 1) \in Nat /\ PageOf(gc.tgt + 1) <= gc.tgt + 1
    BY <2>0, PageBounds, Zenon
  <2>2. till = PageOf(gc.tgt + 1) - Batch
    BY DEF Till
  <2> HIDE DEF till
  <2> QED
    BY <1>2, <2>1, <2>2
<1> HIDE DEF till
<1>4. ASSUME NEW p \in Pages, p \in diskPages, p + Batch + L > disk.currentBlock + 1
      PROVE  p \in diskPages'
  <2>1. p \in Nat
    BY DEF Pages, Index
  <2>2. p > till
    BY <1>2, <1>3, <1>4, <2>1
  <2> QED
    BY <1>1, <1>4, <2>2
<1>5. Shape'
  BY <1>1 DEF LedgerInv, Shape, Pages
<1>6. Kept(L)'
  BY <1>1, <1>4 DEF LedgerInv, Kept, RecordsKept, PagesKept, Pages, Index
<1>7. Collecting(L)'
  BY <1>1 DEF Collecting, Idle
<1> QED
  BY <1>1, <1>5, <1>6, <1>7 DEF LedgerInv

\* What HeaderHashes.init reads is above what the collector may remove.
LEMMA InitFinds ==
    ASSUME NEW L, IsLow(L), LedgerInv(L), Batch <= L
    PROVE  InitOK(disk, diskPages)
<1> USE LedgerConstants
<1> DEFINE stored == storedHeaderCount(disk)
           c == disk.currentHeader
           h == disk.currentBlock
<1>1. L \in Nat /\ c \in Nat /\ h \in Nat /\ h <= c /\ c <= MaxHeight
  BY Facts
<1>2. stored \in Nat /\ stored <= c + 1 /\ c + 1 < stored + Batch /\ stored % Batch = 0
  <2>1. c + 1 \in Nat
    BY <1>1
  <2> QED
    BY <2>1, PageBounds, Zenon DEF storedHeaderCount
<1>3. /\ \A i \in 0 .. c : i + L > h => i \in disk.headers
      /\ \A p \in Pages : p + Batch <= c + 1 /\ p + Batch + L > h + 1 => p \in diskPages
  BY DEF LedgerInv, Kept, RecordsKept, PagesKept
<1> HIDE DEF stored, c, h
<1>4. ASSUME stored >= Batch PROVE stored - Batch \in diskPages
  <2> DEFINE p == stored - Batch
  <2>1. p \in Nat /\ p + Batch = stored /\ p <= MaxHeight
    BY <1>1, <1>2, <1>4
  <2>2. p % Batch = 0
    <3>1. PageOf(p) + Batch <= stored /\ p < PageOf(p) + Batch /\ PageOf(p) \in Nat /\ PageOf(p) % Batch = 0
          /\ PageOf(p) <= p
      <4>1. p < stored
        BY <2>1
      <4> QED
        BY <1>2, <2>1, <4>1, PageBounds, PageApart
    <3>2. ~(PageOf(p) < p)
      <4> SUFFICES ASSUME PageOf(p) < p PROVE FALSE
        OBVIOUS
      <4> DEFINE r == PageOf(p) + Batch
      <4>1. r \in Nat /\ r % Batch = 0 /\ r < stored /\ p < r
        <5>1. (PageOf(p) + Batch) % Batch = 0
          BY <2>1, <3>1, PageApart
        <5> QED
          BY <2>1, <3>1, <5>1
      <4>2. PageOf(r) + Batch <= stored /\ PageOf(r) = r
        <5>1. r <= r /\ r < r + Batch
          BY <4>1
        <5> HIDE DEF r
        <5> QED
          BY <1>2, <4>1, <5>1, PageApart
      <4> HIDE DEF r
      <4> QED
        BY <2>1, <4>1, <4>2
    <3> QED
      BY <2>1, <3>1, <3>2
  <2>3. p \in Pages
    BY <2>1, <2>2 DEF Pages, Index
  <2> HIDE DEF p
  <2>4. p + Batch <= c + 1 /\ p + Batch + L > h + 1
    BY <1>1, <1>2, <2>1
  <2> QED
    BY <1>3, <2>3, <2>4 DEF p
<1>5. ASSUME NEW i \in stored .. c PROVE i \in disk.headers
  <2>1. i \in 0 .. c /\ i + L > h
    BY <1>1, <1>2
  <2> QED
    BY <1>3, <2>1
<1> QED
  BY <1>4, <1>5 DEF InitOK, stored, c

\* A restart finds on the disk what the invariant keeps there.
LEMMA RestartKeeps ==
    ASSUME NEW L, IsLow(L), LedgerInv(L), Restart
    PROVE  LedgerInv(L)'
<1> USE LedgerConstants
<1>1. /\ view' = disk /\ newPages' = {} /\ lru' = {} /\ gc' = Idle /\ disk' = disk
      /\ diskPages' = diskPages /\ crashes' \in 0 .. MaxCrashes
      /\ gcLast' = IF diskPages = {} THEN 0 ELSE Min(diskPages)
      /\ node' = IF InitOK(disk, diskPages) THEN "up" ELSE "failed"
  BY DEF Restart, LedgerInv, Shape
<1>2. gcLast' \in Index
  <2>1. diskPages \subseteq Index /\ diskPages \subseteq Nat
    BY DEF LedgerInv, Shape, Pages, Index
  <2>2. diskPages # {} => Min(diskPages) \in diskPages
    BY <2>1, MinIn
  <2>3. 0 \in Index
    BY DEF Index
  <2> QED
    BY <1>1, <2>1, <2>2, <2>3
<1>3. Shape'
  BY <1>1, <1>2, Facts DEF LedgerInv, Shape
<1>4. newPages' \cup diskPages' = diskPages
  BY <1>1
<1>5. Kept(L)'
  BY <1>1, <1>4 DEF LedgerInv, Kept, RecordsKept, PagesKept, Pages, Index
<1>6. Collecting(L)'
  BY <1>1 DEF Collecting, Idle
<1>7. Batch <= L => node' = "up"
  BY <1>1, InitFinds
<1> QED
  BY <1>3, <1>5, <1>6, <1>7 DEF LedgerInv

\* A page that is looked up changes the cache of pages alone.
LEMMA GetHeaderHashKeeps ==
    ASSUME NEW L, LedgerInv(L), NEW page \in newPages \cup diskPages, GetHeaderHash(page)
    PROVE  LedgerInv(L)'
<1>1. lru' \subseteq lru \cup {page}
  BY DEF GetHeaderHash, Cached
<1>2. UNCHANGED <<view, disk, newPages, diskPages, gcLast, gc, node, crashes>>
  BY DEF GetHeaderHash
<1>3. Shape'
  BY <1>1, <1>2 DEF LedgerInv, Shape
<1> QED
  BY <1>2, <1>3 DEF LedgerInv, Collecting, Kept, RecordsKept, PagesKept

\* LedgerInv(L) is inductive.
LEMMA StepLedger ==
    ASSUME NEW L, IsLow(L)
    PROVE  LedgerInv(L) /\ [Next]_vars => LedgerInv(L)'
<1> SUFFICES ASSUME LedgerInv(L), [Next]_vars PROVE LedgerInv(L)'
  OBVIOUS
<1>1. ASSUME NEW n \in 1 .. MaxHeaders, AddHeaders(n) PROVE LedgerInv(L)'
  BY <1>1, AddHeadersKeeps
<1>2. ASSUME NEW m \in MTBs, StoreBlock(m) PROVE LedgerInv(L)'
  BY <1>2, StoreBlockKeeps
<1>3. CASE Persist
  BY <1>3, PersistKeeps
<1>4. CASE TryRunGC
  BY <1>4, TryRunGCKeeps
<1>5. CASE removeUntraceableBlocks
  BY <1>5, removeUntraceableBlocksKeeps
<1>6. CASE removeOldHeaderHashes
  BY <1>6, removeOldHeaderHashesKeeps
<1>7. CASE Restart
  BY <1>7, RestartKeeps
<1>8. CASE UNCHANGED vars
  BY <1>8 DEF vars, LedgerInv, Shape, Collecting, Kept, RecordsKept, PagesKept
<1>9. ASSUME NEW page \in newPages \cup diskPages, GetHeaderHash(page) PROVE LedgerInv(L)'
  BY <1>9, GetHeaderHashKeeps
<1> QED
  BY <1>1, <1>2, <1>3, <1>4, <1>5, <1>6, <1>7, <1>8, <1>9 DEF Next

\* Whatever moment the node stops at, HeaderHashes.init finds what it reads: the
\* last full page of hashes and the headers after it.  The hypothesis is what it
\* needs of the configuration: a page is not longer than MaxTraceableBlocks
\* (headerBatchCount is 2000, the default of MaxTraceableBlocks 2102400).
THEOREM AlwaysRestartable ==
    ASSUME \A m \in MTBs : Batch <= m
    PROVE  Spec => []Restartable
<1> USE LedgerConstants
<1>1. IsLow(Batch)
  BY DEF IsLow
<1>2. Init => LedgerInv(Batch)
  BY <1>1, InitLedger
<1>3. LedgerInv(Batch) /\ [Next]_vars => LedgerInv(Batch)'
  BY <1>1, StepLedger
<1>4. LedgerInv(Batch) => Restartable
  <2> SUFFICES ASSUME LedgerInv(Batch) PROVE Restartable
    OBVIOUS
  <2>1. InitOK(disk, diskPages)
    BY <1>1, InitFinds
  <2> QED
    BY <2>1 DEF Restartable, TypeOK, LedgerInv, Shape, Collecting, Pages
<1> QED
  BY <1>2, <1>3, <1>4, PTL DEF Spec

\* The hashes of the blocks that are kept are found by their index.
LEMMA HashesFound ==
    ASSUME NEW L, IsLow(L), LedgerInv(L), NEW i \in 0 .. view.currentBlock, i + L > disk.currentBlock
    PROVE  HashKnown(i)
<1> USE LedgerConstants
<1> DEFINE stored == storedHeaderCount(view)
           c == view.currentHeader
           h == disk.currentBlock
<1>1. L \in Nat /\ c \in Nat /\ h \in Nat /\ i \in Nat /\ i <= c /\ c <= MaxHeight
  BY Facts
<1>2. stored \in Nat /\ stored <= c + 1 /\ stored % Batch = 0
  <2>1. c + 1 \in Nat
    BY <1>1
  <2> QED
    BY <2>1, PageBounds, Zenon DEF storedHeaderCount
<1>3. \A p \in Pages : p + Batch <= c + 1 /\ p + Batch + L > h + 1 => p \in newPages \cup diskPages
  BY DEF LedgerInv, Kept, PagesKept
<1>4. i + L > h
  OBVIOUS
<1> HIDE DEF stored, c, h
<1>5. CASE i >= stored
  BY <1>1, <1>2, <1>5 DEF HashKnown, getLocalHeaderHash, stored, c
<1>6. CASE i < stored
  <2>1. PageOf(i) + Batch <= stored
    BY <1>1, <1>2, <1>6, PageApart
  <2>2. PageOf(i) \in Nat /\ PageOf(i) <= i /\ i < PageOf(i) + Batch /\ PageOf(i) % Batch = 0
    BY <1>1, PageBounds
  <2>3. PageOf(i) \in Pages
    BY <1>1, <2>2 DEF Pages, Index
  <2>4. PageOf(i) + Batch <= c + 1 /\ PageOf(i) + Batch + L > h + 1
    BY <1>1, <1>2, <1>4, <2>1, <2>2
  <2> QED
    BY <1>3, <2>3, <2>4 DEF HashKnown
<1> QED
  BY <1>1, <1>2, <1>5, <1>6

\* The collector never removes a block the contracts may access, nor the page its
\* hash is found in, as long as MaxTraceableBlocks does not change (tryRunGC).
THEOREM TraceableAlwaysKept ==
    ASSUME \A m, n \in MTBs : m = n
    PROVE  Spec => []TraceableKept
<1> USE LedgerConstants
<1>1. PICK L \in MTBs : \A m \in MTBs : m = L
  OBVIOUS
<1>2. IsLow(L)
  BY <1>1 DEF IsLow
<1>3. Init => LedgerInv(L)
  BY <1>2, InitLedger
<1>4. LedgerInv(L) /\ [Next]_vars => LedgerInv(L)'
  BY <1>2, StepLedger
<1>5. LedgerInv(L) => TraceableKept
  <2> SUFFICES ASSUME LedgerInv(L), NEW i \in 0 .. view.currentBlock,
                      i + view.mtb > view.currentBlock
               PROVE  i \in view.blocks /\ HashKnown(i)
    BY DEF TraceableKept
  <2>1. view.mtb = L /\ disk.currentBlock <= view.currentBlock /\ L \in Nat
        /\ disk.currentBlock \in Nat /\ view.currentBlock \in Nat
    BY <1>1, <1>2, Facts, StorageFields DEF LedgerInv, Shape
  <2>2. i + L > disk.currentBlock
    BY <2>1
  <2>3. i \in view.blocks
    BY <2>2 DEF LedgerInv, Kept, RecordsKept
  <2>4. HashKnown(i)
    BY <1>2, <2>2, HashesFound
  <2> QED
    BY <2>3, <2>4
<1> QED
  BY <1>3, <1>4, <1>5, PTL DEF Spec

(***************************************************************************)
(* The synchronisation points                                              *)
(***************************************************************************)
\* P2, the synchronisation point before the latest, of tryRunGC.
Point(h) == (h \div Interval - 1) * Interval

\* From the synchronisation point on less L blocks, the blocks of s are there, but
\* for early ones.
SyncKept(s, h, L) ==
    \A i \in (0 .. s.currentBlock) \ EarlyBlocks : i + L >= Point(h) => i \in s.blocks

\* A target below the point, or of early blocks only.
SyncTarget(tgt, h, L) ==
    \/ tgt + L <= Point(h)
    \/ \A i \in Nat : i < tgt => i \in EarlyBlocks

\* SyncKept through the cache and on the disk, and a target that respects it.
SyncInv(L) ==
    /\ LedgerInv(L)
    /\ SyncKept(view, disk.currentBlock, L) /\ SyncKept(disk, disk.currentBlock, L)
    /\ gc.pc \in {"blocks", "pages"} => SyncTarget(gc.tgt, disk.currentBlock, L)

\* The synchronisation point is at most two intervals below the height, and moves
\* only up.
LEMMA PointBounds ==
    ASSUME Interval > 0, NEW h \in Nat, NEW k \in Nat, h <= k
    PROVE  /\ Point(h) \in Int /\ Point(k) \in Int /\ Point(h) <= h
           /\ h < Point(h) + 2 * Interval /\ Point(h) <= Point(k)
<1> USE LedgerConstants
<1>0. Interval \in Nat \ {0}
  OBVIOUS
<1> DEFINE a == h \div Interval
           b == k \div Interval
<1>1. /\ a \in Nat /\ h = Interval * a + (h % Interval) /\ h % Interval \in 0 .. Interval - 1
      /\ b \in Nat /\ k = Interval * b + (k % Interval) /\ k % Interval \in 0 .. Interval - 1
  BY <1>0, Division
<1> DEFINE x == Interval * a
           y == Interval * b
<1>2. /\ x \in Int /\ y \in Int /\ (b < a => y + Interval <= x)
      /\ Point(h) = x - Interval /\ Point(k) = y - Interval
  <2>1. /\ x \in Int /\ y \in Int /\ (b < a => y + Interval <= x)
    <3> HIDE DEF a, b
    <3> QED
      BY <1>0, <1>1, Product
  <2>2. (a - 1) \in Int /\ (b - 1) \in Int
    BY <1>1
  <2>3. /\ (a - 1) * Interval = Interval * (a - 1) /\ (b - 1) * Interval = Interval * (b - 1)
        /\ Interval * ((a - 1) + 1) = Interval * (a - 1) + Interval
        /\ Interval * ((b - 1) + 1) = Interval * (b - 1) + Interval
        /\ Interval * (a - 1) \in Int /\ Interval * (b - 1) \in Int
    <3> HIDE DEF a, b
    <3> QED
      BY <1>0, <2>2, Product
  <2>4. (a - 1) + 1 = a /\ (b - 1) + 1 = b
    BY <1>1
  <2>5. Interval * (a - 1) = x - Interval /\ Interval * (b - 1) = y - Interval
    BY <1>0, <2>1, <2>3, <2>4
  <2>6. Point(h) = (a - 1) * Interval /\ Point(k) = (b - 1) * Interval
    BY DEF Point
  <2> QED
    BY <2>1, <2>3, <2>5, <2>6
<1>3. b >= a \/ b < a
  BY <1>1
<1>4. b >= a => b = a \/ a < b
  BY <1>1
<1>5. a < b => x + Interval <= y
  <2> HIDE DEF a, b
  <2> QED
    BY <1>0, <1>1, Product
<1>6. b = a => x = y
  OBVIOUS
<1> DEFINE r == h % Interval
           q == k % Interval
<1>7. h = x + r /\ k = y + q /\ r \in 0 .. Interval - 1 /\ q \in 0 .. Interval - 1
  BY <1>1
<1> HIDE DEF a, b, x, y, r, q
<1>8. x <= y
  BY <1>0, <1>2, <1>3, <1>4, <1>5, <1>6, <1>7
<1> QED
  BY <1>0, <1>2, <1>7, <1>8

\* A collection that is due leaves the synchronisation point alone, unless the
\* subtraction wraps around: the height is then less than two intervals above
\* MaxTraceableBlocks, and the period shorter than the interval.
LEMMA TgtBlockSync ==
    ASSUME Interval > 0,
           NEW h \in Nat, h <= MaxHeight, NEW m \in Nat, m < Word, TgtBlock(h, m) > GCPeriod
    PROVE  SyncTarget(TgtBlock(h, m), h, m)
<1> USE LedgerConstants
<1> DEFINE s == SyncBound(h, m)
           x == TgtUnrounded(h, m)
           t == TgtBlock(h, m)
           p == Point(h)
<1>0. Word \in Nat /\ Word > 2 * MaxHeight
  BY LedgerAssumption
<1>1. p \in Int /\ p <= h /\ h < p + 2 * Interval
  BY PointBounds
<1>2. s = ((p % Word) - m) % Word
  BY DEF SyncBound, Point
<1>3. s \in Int
  <2> HIDE DEF p
  <2>1. p % Word \in Int
    BY <1>1
  <2> HIDE DEF s
  <2> QED
    BY <1>2, <2>1
<1>4. x \in {h - m, s} /\ x <= h - m /\ x <= s
  <2>1. x = Min({h - m, s})
    BY DEF TgtUnrounded
  <2>2. h - m \in Int
    OBVIOUS
  <2> HIDE DEF x, s
  <2> QED
    BY <1>3, <2>1, <2>2, MinOfTwo
<1>5. t \in Int /\ t <= x /\ \E e \in Int : t = GCPeriod * e
  <2>1. x \in Int
    <3> HIDE DEF x, s
    <3> QED
      BY <1>3, <1>4
  <2> DEFINE e == x \div GCPeriod
  <2>2. t = e * GCPeriod
    BY DEF TgtBlock
  <2>3. e \in Int /\ e * GCPeriod \in Int /\ e * GCPeriod <= x
    <3> HIDE DEF x
    <3> QED
      BY <2>1
  <2> HIDE DEF e, x, t
  <2>4. e * GCPeriod = GCPeriod * e
    BY <2>3, Product
  <2> QED
    BY <2>2, <2>3, <2>4
<1> HIDE DEF t, x, s, p
<1>6. t > GCPeriod
  BY DEF t
<1>7. t >= 2 * GCPeriod
  <2>1. PICK e \in Int : t = GCPeriod * e
    BY <1>5
  <2>2. GCPeriod * 1 = GCPeriod /\ GCPeriod \in Nat \ {0}
    BY Z3
  <2>3. 1 < e
    <3>1. e < 1 => GCPeriod * e + GCPeriod <= GCPeriod * 1
      BY <2>2, Product
    <3>2. e = 1 => GCPeriod * e = GCPeriod
      BY <2>2
    <3> DEFINE z == GCPeriod * e
    <3> HIDE DEF z
    <3>3. e < 1 => z + GCPeriod <= GCPeriod
      BY <2>2, <3>1 DEF z
    <3>4. t = z /\ (e = 1 => z = GCPeriod)
      BY <2>1, <3>2 DEF z
    <3> QED
      BY <1>5, <1>6, <2>1, <3>3, <3>4
  <2>4. GCPeriod * 1 + GCPeriod <= GCPeriod * e
    BY <2>2, <2>3, Product
  <2> DEFINE z == GCPeriod * e
  <2> HIDE DEF z
  <2>5. t = z /\ GCPeriod + GCPeriod <= z
    BY <2>1, <2>2, <2>4 DEF z
  <2> QED
    BY <1>5, <2>5
<1>8. CASE p >= m
  <2>1. p \in 0 .. Word - 1 /\ p - m \in 0 .. Word - 1
    BY <1>0, <1>1, <1>8
  <2>2. p % Word = p /\ (p - m) % Word = p - m
    BY <1>0, <2>1
  <2>3. s = p - m
    BY <1>2, <2>2, Zenon
  <2>4. t + m <= p
    BY <1>1, <1>3, <1>4, <1>5, <2>3
  <2> QED
    BY <2>4 DEF t, p, SyncTarget
<1>9. CASE p < m
  <2>1. t <= 2 * Interval - 2
    BY <1>1, <1>3, <1>4, <1>5, <1>9
  <2>2. GCPeriod < Interval
    BY <1>5, <1>7, <2>1
  <2>3. \A i \in Nat : i < t => i \in EarlyBlocks
    BY <1>5, <2>1, <2>2 DEF EarlyBlocks
  <2> QED
    BY <2>3 DEF t, SyncTarget
<1> QED
  BY <1>1, <1>8, <1>9

\* The synchronisation points of the genesis block.
LEMMA InitSync ==
    ASSUME NEW L, IsLow(L), Interval > 0 PROVE Init => SyncInv(L)
<1> SUFFICES ASSUME Init PROVE SyncInv(L)
  OBVIOUS
<1>1. LedgerInv(L)
  BY InitLedger
<1>2. view.blocks = {0} /\ view.currentBlock = 0 /\ disk = view /\ gc = Idle
  BY DEF Init, Genesis
<1> QED
  BY <1>1, <1>2 DEF SyncInv, SyncKept, Idle

\* The point moves on when the chain does, so that what is kept for it stays enough.
LEMMA SyncKeptLater ==
    ASSUME Interval > 0, NEW s \in Storage, NEW L \in Nat,
           NEW h \in Nat, NEW k \in Nat, h <= k, SyncKept(s, h, L)
    PROVE  SyncKept(s, k, L)
<1>1. Point(h) \in Int /\ Point(k) \in Int /\ Point(h) <= Point(k)
  BY PointBounds
<1> SUFFICES ASSUME NEW i \in (0 .. s.currentBlock) \ EarlyBlocks, i + L >= Point(k)
             PROVE  i \in s.blocks
  BY DEF SyncKept
<1>2. i + L >= Point(h)
  BY <1>1
<1> QED
  BY <1>2 DEF SyncKept

\* SyncInv(L) is inductive for a MaxTraceableBlocks of L.
LEMMA StepSync ==
    ASSUME NEW L, IsLow(L), \A m \in MTBs : m = L, Interval > 0
    PROVE  SyncInv(L) /\ [Next]_vars => SyncInv(L)'
<1> SUFFICES ASSUME SyncInv(L), [Next]_vars PROVE SyncInv(L)'
  OBVIOUS
<1> USE LedgerConstants
<1>0. LedgerInv(L) /\ LedgerInv(L)'
  BY StepLedger DEF SyncInv
<1>i. /\ L \in Nat /\ disk.currentBlock \in Nat /\ view.currentBlock \in Nat
      /\ disk.currentBlock <= view.currentBlock /\ disk.currentBlock <= MaxHeight
      /\ view \in Storage /\ view.mtb = L /\ L < Word
  BY <1>0, Facts, StorageFields, LedgerAssumption DEF LedgerInv, Shape
<1>p. Point(disk.currentBlock) \in Int
  BY <1>i, PointBounds
<1>1. ASSUME NEW n \in 1 .. MaxHeaders, AddHeaders(n) PROVE SyncInv(L)'
  <2>1. /\ view'.blocks = view.blocks /\ view'.currentBlock = view.currentBlock
        /\ disk' = disk /\ gc' = gc
    BY <1>1, <1>i DEF AddHeaders, Storage
  <2> QED
    BY <1>0, <2>1 DEF SyncInv, SyncKept
<1>2. ASSUME NEW m \in MTBs, StoreBlock(m) PROVE SyncInv(L)'
  <2>1. /\ view'.blocks = view.blocks \cup {view.currentBlock + 1}
        /\ view'.currentBlock = view.currentBlock + 1 /\ disk' = disk /\ gc' = gc
    BY <1>2, <1>i DEF StoreBlock, Storage
  <2>2. \A j \in 0 .. view.currentBlock + 1 :
            j = view.currentBlock + 1 \/ j \in 0 .. view.currentBlock
    BY <1>i
  <2> QED
    BY <1>0, <2>1, <2>2 DEF SyncInv, SyncKept
<1>3. CASE Persist
  <2>1. disk' = view /\ view' = view /\ gc'.pc = "check"
    BY <1>3 DEF Persist
  <2>2. SyncKept(view, view.currentBlock, L)
    BY <1>i, SyncKeptLater DEF SyncInv
  <2> QED
    BY <1>0, <2>1, <2>2 DEF SyncInv, SyncKept
<1>4. CASE TryRunGC
  <2> DEFINE h == disk.currentBlock
             tgt == TgtBlock(h, view.mtb)
             due == tgt > GCPeriod /\ h \div GCPeriod # gc.old \div GCPeriod
  <2>1. /\ gc' = IF due THEN [pc |-> "blocks", period |-> h \div GCPeriod, tgt |-> tgt] ELSE Idle
        /\ view' = view /\ disk' = disk
    BY <1>4 DEF TryRunGC
  <2>2. tgt > GCPeriod => SyncTarget(tgt, h, L)
    BY <1>i, TgtBlockSync
  <2>3. gc'.pc \in {"blocks", "pages"} => gc'.tgt = tgt /\ tgt > GCPeriod
    <3> HIDE DEF tgt, h
    <3> QED
      BY <2>1 DEF Idle
  <2> HIDE DEF tgt
  <2> QED
    BY <1>0, <2>1, <2>2, <2>3 DEF SyncInv, SyncKept
<1>5. CASE removeUntraceableBlocks
  <2>1. PICK found \in SUBSET Nat :
            /\ \A i \in found : i < gc.tgt
            /\ view' = [view EXCEPT !.headers = @ \ found, !.blocks = @ \ found]
            /\ lru' \subseteq Pages
    BY <1>0, <1>5, Collected
  <2>2. view'.blocks = view.blocks \ found /\ view'.currentBlock = view.currentBlock
    BY <1>i, <2>1 DEF Storage
  <2>3. /\ disk' = disk /\ gc'.tgt = gc.tgt /\ SyncTarget(gc.tgt, disk.currentBlock, L)
        /\ gc.tgt \in Nat
    BY <1>0, <1>5 DEF removeUntraceableBlocks, SyncInv, LedgerInv, Collecting, MayCollect
  <2>4. \A i \in found : i \in EarlyBlocks \/ ~(i + L >= Point(disk.currentBlock))
    <3>1. CASE gc.tgt + L <= Point(disk.currentBlock)
      BY <1>i, <1>p, <2>1, <2>3, <3>1
    <3>2. CASE \A i \in Nat : i < gc.tgt => i \in EarlyBlocks
      BY <2>1, <3>2
    <3> QED
      BY <2>3, <3>1, <3>2 DEF SyncTarget
  <2> QED
    BY <1>0, <2>2, <2>3, <2>4 DEF SyncInv, SyncKept
<1>6. CASE removeOldHeaderHashes
  <2>1. view' = view /\ disk' = disk /\ gc'.pc = "idle"
    BY <1>6 DEF removeOldHeaderHashes, Idle
  <2> QED
    BY <1>0, <2>1 DEF SyncInv, SyncKept
<1>7. CASE Restart
  <2>1. view' = disk /\ disk' = disk /\ gc'.pc = "idle"
    BY <1>7 DEF Restart, Idle
  <2> QED
    BY <1>0, <2>1 DEF SyncInv, SyncKept
<1>8. CASE UNCHANGED vars
  BY <1>0, <1>8 DEF vars, SyncInv, SyncKept
<1>9. ASSUME NEW page \in newPages \cup diskPages, GetHeaderHash(page) PROVE SyncInv(L)'
  <2>1. view' = view /\ disk' = disk /\ gc' = gc
    BY <1>9 DEF GetHeaderHash
  <2> QED
    BY <1>0, <2>1 DEF SyncInv, SyncKept
<1> QED
  BY <1>1, <1>2, <1>3, <1>4, <1>5, <1>6, <1>7, <1>8, <1>9 DEF Next

\* The blocks from P2 - MaxTraceableBlocks on are kept, for every period and every
\* interval, but for those of the first two intervals that the uint32 subtraction of
\* tryRunGC gives away when the period is the shorter one.
THEOREM SyncPointAlwaysKept ==
    ASSUME \A m, n \in MTBs : m = n
    PROVE  Spec => []SyncPointKept
<1> USE LedgerConstants
<1>a. CASE Interval = 0
  <2>1. SyncPointKept
    BY <1>a DEF SyncPointKept
  <2> QED
    BY <2>1, PTL
<1>b. CASE Interval > 0
  <2>1. PICK L \in MTBs : \A m \in MTBs : m = L
    OBVIOUS
  <2>2. IsLow(L)
    BY <2>1 DEF IsLow
  <2>3. Init => SyncInv(L)
    BY <1>b, <2>2, InitSync
  <2>4. SyncInv(L) /\ [Next]_vars => SyncInv(L)'
    BY <1>b, <2>1, <2>2, StepSync
  <2>5. SyncInv(L) => SyncPointKept
    <3> SUFFICES ASSUME SyncInv(L), NEW i \in (0 .. view.currentBlock) \ EarlyBlocks,
                        i >= Point(disk.currentBlock) - view.mtb
                 PROVE  i \in view.blocks
      BY DEF SyncPointKept, Point
    <3>1. view.mtb = L /\ L \in Nat /\ disk.currentBlock \in Nat
      BY <2>1, <2>2, Facts, StorageFields DEF SyncInv, LedgerInv, Shape
    <3>2. Point(disk.currentBlock) \in Int
      BY <1>b, <3>1, PointBounds
    <3>3. i + L >= Point(disk.currentBlock)
      BY <3>1, <3>2
    <3> QED
      BY <3>3 DEF SyncInv, SyncKept
  <2> QED
    BY <2>3, <2>4, <2>5, PTL DEF Spec
<1> QED
  BY <1>a, <1>b

(***************************************************************************)
(* The bound on what is stored                                             *)
(***************************************************************************)
\* The first height of the collection period of h.
PeriodStart(h) == (h \div GCPeriod) * GCPeriod

\* How far below the period the oldest block may be.
Room(L) == L + 2 * GCPeriod + 2 * Interval

\* What the collector needs to find every block it has not removed yet: its
\* position is below all of them, and their pages are in the storage.
Reachable ==
    /\ gcLast <= view.currentBlock
    /\ \A i \in view.blocks : gcLast <= i
    /\ \A i \in view.blocks :
           PageOf(i) + Batch <= view.currentHeader + 1 => PageOf(i) \in newPages \cup diskPages

\* No block is further below the period that was collected last.
Left(L) ==
    /\ gc.pc = "idle" =>
           \A i \in view.blocks : i + Room(L) > PeriodStart(disk.currentBlock)
    /\ gc.pc = "check" =>
           /\ gc.old \in Nat /\ gc.old <= disk.currentBlock
           /\ \A i \in view.blocks : i + Room(L) > PeriodStart(gc.old)
    /\ gc.pc \in {"blocks", "pages"} =>
           gc.tgt + Room(L) > PeriodStart(disk.currentBlock) /\ gc.tgt % GCPeriod = 0
    /\ gc.pc = "blocks" => gc.period = disk.currentBlock \div GCPeriod
    /\ gc.pc = "pages" => gcLast = gc.tgt

\* Until the first restart the collector reaches all that is left, and it is
\* bounded.
BoundInv(L) == LedgerInv(L) /\ (crashes = 0 => Reachable /\ Left(L))

\* The period of h starts at or below h, less than a period below.
LEMMA PeriodBounds ==
    ASSUME NEW h \in Nat
    PROVE  PeriodStart(h) \in Nat /\ PeriodStart(h) <= h /\ h < PeriodStart(h) + GCPeriod
<1> USE LedgerConstants
<1>0. GCPeriod \in Nat \ {0}
  OBVIOUS
<1> DEFINE a == h \div GCPeriod
           r == h % GCPeriod
           x == GCPeriod * a
<1>1. a \in Nat /\ h = x + r /\ r \in 0 .. GCPeriod - 1
  BY <1>0, Division
<1>2. x \in Int /\ a * GCPeriod = x
  <2> HIDE DEF a
  <2> QED
    BY <1>0, <1>1, Product
<1>3. x >= 0
  <2> HIDE DEF a
  <2> QED
    BY <1>0, <1>1
<1>4. PeriodStart(h) = x
  BY <1>2 DEF PeriodStart
<1> HIDE DEF a, r, x
<1> QED
  BY <1>0, <1>1, <1>2, <1>3, <1>4

\* How far behind the target of tryRunGC may be.
LEMMA TgtBlockReach ==
    ASSUME NEW h \in Nat, h <= MaxHeight, NEW m \in Nat, m < Word
    PROVE  TgtBlock(h, m) + GCPeriod + m + 2 * Interval > h
<1> USE LedgerConstants
<1> DEFINE s == SyncBound(h, m)
           x == TgtUnrounded(h, m)
           p == Point(h)
<1>0. Word \in Nat /\ Word > 2 * MaxHeight
  BY LedgerAssumption
<1>1. x \in Int /\ x + m + 2 * Interval >= h
  <2>1. CASE Interval = 0
    BY <2>1 DEF TgtUnrounded
  <2>2. CASE Interval # 0
    <3>1. p \in Int /\ p <= h /\ h < p + 2 * Interval
      BY <2>2, PointBounds
    <3>2. s = ((p % Word) - m) % Word
      BY DEF SyncBound, Point
    <3>3. x = Min({h - m, s})
      BY <2>2 DEF TgtUnrounded
    <3> HIDE DEF p, x, s
    <3>4. s \in Int /\ s >= 0
      <4>1. p % Word \in Int
        BY <1>0, <3>1
      <4> DEFINE y == (p % Word) - m
      <4>2. y \in Int
        BY <4>1
      <4> HIDE DEF y
      <4>3. y % Word \in 0 .. Word - 1
        BY <1>0, <4>2
      <4> QED
        BY <1>0, <3>2, <4>3 DEF y
    <3>5. s >= p - m
      <4>1. CASE p >= m
        <5>1. p \in 0 .. Word - 1 /\ p - m \in 0 .. Word - 1
          BY <1>0, <3>1, <4>1
        <5>2. p % Word = p /\ (p - m) % Word = p - m
          BY <1>0, <5>1
        <5>3. s = p - m
          BY <3>2, <5>2, Zenon
        <5> QED
          BY <3>1, <5>3
      <4>2. CASE p < m
        BY <3>1, <3>4, <4>2
      <4> QED
        BY <3>1, <4>1, <4>2
    <3>6. h - m \in Int
      OBVIOUS
    <3>7. x \in {h - m, s}
      BY <3>3, <3>4, <3>6, MinOfTwo
    <3> QED
      BY <3>1, <3>4, <3>5, <3>6, <3>7
  <2> QED
    BY <2>1, <2>2
<1> HIDE DEF x
<1>2. (x \div GCPeriod) * GCPeriod \in Int /\ (x \div GCPeriod) * GCPeriod + GCPeriod > x
  BY <1>1
<1>3. TgtBlock(h, m) = (x \div GCPeriod) * GCPeriod
  BY DEF TgtBlock, x
<1> DEFINE t == TgtBlock(h, m)
<1>4. t \in Int /\ t + GCPeriod > x
  BY <1>2, <1>3, Zenon
<1> HIDE DEF t
<1>5. t + GCPeriod + m + 2 * Interval > h
  BY <1>1, <1>4
<1> QED
  BY <1>5 DEF t

\* A target that far below the height is not in the page of the period.
LEMMA TargetIsTgt ==
    ASSUME NEW h \in Nat, NEW t \in Nat, NEW L \in Nat, t + L <= h, GCPeriod + Batch <= L
    PROVE  Target(h \div GCPeriod, t) = t
<1> USE LedgerConstants
<1> DEFINE i == PeriodStart(h)
<1>1. i \in Nat /\ h < i + GCPeriod
  BY PeriodBounds
<1>2. Target(h \div GCPeriod, t) = IF PageOf(i) = PageOf(t) THEN Max({0, PageOf(t) - Batch}) ELSE t
  BY DEF Target, PeriodStart
<1> HIDE DEF i
<1>3. /\ PageOf(i) \in Nat /\ i < PageOf(i) + Batch
      /\ PageOf(t) \in Nat /\ PageOf(t) <= t
  BY <1>1, PageBounds
<1>4. PageOf(i) # PageOf(t)
  BY <1>1, <1>3
<1> QED
  BY <1>2, <1>4

\* The genesis block is within every bound.
LEMMA InitBound ==
    ASSUME NEW L, IsLow(L) PROVE Init => BoundInv(L)
<1> SUFFICES ASSUME Init PROVE BoundInv(L)
  OBVIOUS
<1> USE LedgerConstants
<1>1. LedgerInv(L)
  BY InitLedger
<1>2. /\ view.blocks = {0} /\ view.currentBlock = 0 /\ view.currentHeader = 0
      /\ disk = view /\ gc = Idle /\ gcLast = 0
  BY DEF Init, Genesis
<1>3. PageOf(0) \in Nat
  BY PageBounds
<1>4. Reachable
  BY <1>2, <1>3 DEF Reachable
<1>5. PeriodStart(0) \in Nat /\ PeriodStart(0) <= 0
  BY PeriodBounds
<1>6. 0 + Room(L) > PeriodStart(0)
  BY <1>5 DEF Room, IsLow
<1>7. Left(L)
  BY <1>2, <1>6 DEF Left, Idle
<1> QED
  BY <1>1, <1>4, <1>7 DEF BoundInv

\* What the proofs of the bound use of LedgerInv.
LEMMA BoundFacts ==
    ASSUME NEW L, IsLow(L), LedgerInv(L)
    PROVE  /\ L \in Nat /\ Room(L) \in Nat /\ Room(L) > 0
           /\ view.currentHeader \in Nat /\ view.currentBlock \in Nat /\ disk.currentBlock \in Nat
           /\ disk.currentBlock <= view.currentBlock /\ view.currentBlock <= view.currentHeader
           /\ view.currentHeader <= MaxHeight /\ gcLast \in Nat
           /\ PeriodStart(disk.currentBlock) \in Nat
           /\ PeriodStart(disk.currentBlock) <= disk.currentBlock
           /\ disk.currentBlock < PeriodStart(disk.currentBlock) + GCPeriod
           /\ view.blocks \subseteq Nat /\ \A i \in view.blocks : i <= MaxHeight
<1> USE LedgerConstants
<1>1. /\ L \in Nat /\ disk.currentBlock \in Nat
  BY Facts
<1>2. Room(L) \in Nat /\ Room(L) > 0
  BY <1>1 DEF Room
<1>3. view.blocks \subseteq Nat /\ (\A i \in view.blocks : i <= MaxHeight) /\ gcLast \in Nat
  BY StorageFields DEF LedgerInv, Shape, Index
<1> QED
  BY <1>1, <1>2, <1>3, Facts, PeriodBounds

\* addHeaders: a page that gets full is stored, so that its blocks stay reachable.
LEMMA AddHeadersBound ==
    ASSUME NEW L, IsLow(L), LedgerInv(L), Reachable, Left(L),
           NEW n \in 1 .. MaxHeaders, AddHeaders(n)
    PROVE  Reachable' /\ Left(L)'
<1> USE LedgerConstants
<1> DEFINE c == view.currentHeader
           last == c + n
<1>1. /\ c \in Nat /\ last \in Nat /\ c <= last /\ last <= MaxHeight
      /\ view.blocks \subseteq Nat /\ \A i \in view.blocks : i <= MaxHeight
  BY BoundFacts DEF AddHeaders
<1>2. /\ view'.blocks = view.blocks /\ view'.currentBlock = view.currentBlock
      /\ view'.currentHeader = last /\ newPages' = newPages \cup Completed(c, last)
      /\ UNCHANGED <<disk, diskPages, lru, gcLast, gc>>
  BY DEF AddHeaders, LedgerInv, Shape, Storage
<1>3. \A p \in Pages : p + Batch > c + 1 /\ p + Batch <= last + 1 => p \in Completed(c, last)
  BY <1>1, CompletedPages
<1> HIDE DEF last
<1>4. ASSUME NEW i \in view.blocks, PageOf(i) + Batch <= last + 1
      PROVE  PageOf(i) \in newPages \cup Completed(c, last) \cup diskPages
  <2>1. PageOf(i) \in Nat /\ PageOf(i) <= i /\ PageOf(i) % Batch = 0
    BY <1>1, PageBounds
  <2>2. PageOf(i) \in Pages
    BY <1>1, <2>1 DEF Pages, Index
  <2>3. CASE PageOf(i) + Batch <= c + 1
    BY <2>3 DEF Reachable
  <2>4. CASE PageOf(i) + Batch > c + 1
    BY <1>3, <1>4, <2>2, <2>4
  <2> QED
    BY <1>1, <2>1, <2>3, <2>4
<1>5. Reachable'
  BY <1>2, <1>4 DEF Reachable, PageOf
<1> QED
  BY <1>2, <1>5 DEF Left, PeriodStart

\* storeBlock: the new block is above everything collected.
LEMMA StoreBlockBound ==
    ASSUME NEW L, IsLow(L), LedgerInv(L), Reachable, Left(L), NEW m \in MTBs, StoreBlock(m)
    PROVE  Reachable' /\ Left(L)'
<1> USE LedgerConstants
<1> DEFINE i == view.currentBlock + 1
<1>1. /\ L \in Nat /\ Room(L) \in Nat /\ Room(L) > 0 /\ i \in Nat /\ disk.currentBlock < i
      /\ view.currentBlock \in Nat /\ disk.currentBlock \in Nat /\ gcLast < i /\ gcLast \in Nat
      /\ i <= view.currentHeader /\ view.currentHeader \in Nat /\ view.currentHeader <= MaxHeight
      /\ PeriodStart(disk.currentBlock) \in Nat /\ PeriodStart(disk.currentBlock) < i
  BY BoundFacts DEF Reachable, StoreBlock, AddBlockAccepts
<1>2. /\ view'.blocks = view.blocks \cup {i} /\ view'.currentBlock = i
      /\ view'.currentHeader = view.currentHeader
      /\ UNCHANGED <<disk, newPages, diskPages, lru, gcLast, gc>>
  BY DEF StoreBlock, LedgerInv, Shape, Storage
<1> HIDE DEF i
<1>4. PageOf(i) + Batch <= view.currentHeader + 1 => PageOf(i) \in newPages \cup diskPages
  <2>1. PageOf(i) \in Nat /\ PageOf(i) <= i /\ i < PageOf(i) + Batch /\ PageOf(i) % Batch = 0
    BY <1>1, PageBounds
  <2>2. PageOf(i) \in Pages
    BY <1>1, <2>1 DEF Pages, Index
  <2>3. PageOf(i) + Batch + L > disk.currentBlock + 1
    BY <1>1, <2>1
  <2> QED
    BY <2>2, <2>3 DEF LedgerInv, Kept, PagesKept
<1>5. Reachable'
  <2>1. gcLast' <= view'.currentBlock /\ \A j \in view'.blocks : gcLast' <= j
    BY <1>1, <1>2 DEF Reachable
  <2>2. \A j \in view'.blocks : PageOf(j) + Batch <= view'.currentHeader + 1
            => PageOf(j) \in newPages' \cup diskPages'
    BY <1>2, <1>4 DEF Reachable
  <2> QED
    BY <2>1, <2>2 DEF Reachable, PageOf
<1>6. gc.pc = "check" => i + Room(L) > PeriodStart(gc.old)
  <2> SUFFICES ASSUME gc.pc = "check" PROVE i + Room(L) > PeriodStart(gc.old)
    OBVIOUS
  <2>1. gc.old \in Nat /\ gc.old <= disk.currentBlock
    BY DEF Left
  <2>2. PeriodStart(gc.old) \in Nat /\ PeriodStart(gc.old) <= gc.old
    BY <2>1, PeriodBounds
  <2> QED
    BY <1>1, <2>1, <2>2
<1>7. i + Room(L) > PeriodStart(disk.currentBlock)
  BY <1>1
<1> QED
  BY <1>2, <1>5, <1>6, <1>7 DEF Left, PeriodStart

\* A persist leaves blocks and pages where the collector finds them, and keeps the
\* height it started from.
LEMMA PersistBound ==
    ASSUME NEW L, IsLow(L), LedgerInv(L), Reachable, Left(L), Persist
    PROVE  Reachable' /\ Left(L)'
<1>1. /\ gc.pc = "idle" /\ disk' = view /\ view' = view /\ lru' = lru /\ gcLast' = gcLast
      /\ newPages' \cup diskPages' = newPages \cup diskPages
      /\ gc'.pc = "check" /\ gc'.old = disk.currentBlock
  BY DEF Persist, Flushed
<1>2. disk.currentBlock \in Nat /\ disk.currentBlock <= view.currentBlock
  BY BoundFacts
<1>3. Reachable'
  BY <1>1 DEF Reachable, PageOf
<1> QED
  BY <1>1, <1>2, <1>3 DEF Left, PeriodStart

\* tryRunGC lets a collection out only when the period has not changed or when the
\* target is not above one period.
LEMMA TryRunGCBound ==
    ASSUME NEW L, IsLow(L), LedgerInv(L), Reachable, Left(L), view.mtb = L, L < Word, TryRunGC
    PROVE  Reachable' /\ Left(L)'
<1> USE LedgerConstants
<1> DEFINE h == disk.currentBlock
           tgt == TgtBlock(h, view.mtb)
           due == tgt > GCPeriod /\ h \div GCPeriod # gc.old \div GCPeriod
<1>1. /\ gc' = IF due THEN [pc |-> "blocks", period |-> h \div GCPeriod, tgt |-> tgt] ELSE Idle
      /\ UNCHANGED <<view, disk, newPages, diskPages, lru, gcLast>> /\ gc.pc = "check"
  BY DEF TryRunGC
<1>2. L \in Nat /\ h \in Nat /\ h <= MaxHeight /\ view.blocks \subseteq Nat /\ PeriodStart(h) \in Nat
      /\ PeriodStart(h) <= h
  BY BoundFacts
<1>3. tgt \in Int /\ tgt + GCPeriod + L + 2 * Interval > h
  BY <1>2, TgtBlockBound, TgtBlockReach
<1>r. tgt > 0 => tgt % GCPeriod = 0
  BY <1>2, TgtBlockBound
<1>4. Reachable'
  BY <1>1 DEF Reachable, PageOf
<1>5. CASE due
  <2>1. gc'.pc = "blocks" /\ gc'.period = h \div GCPeriod /\ gc'.tgt = tgt
    <3> HIDE DEF tgt, h
    <3> QED
      BY <1>1, <1>5
  <2> HIDE DEF tgt
  <2>2. tgt + Room(L) > PeriodStart(h)
    <3> HIDE DEF h
    <3> QED
      BY <1>2, <1>3 DEF Room
  <2>3. tgt % GCPeriod = 0
    <3>1. tgt > 0
      BY <1>3, <1>5
    <3> QED
      BY <1>r, <3>1
  <2> QED
    BY <1>1, <1>4, <2>1, <2>2, <2>3 DEF Left, PeriodStart
<1>6. CASE ~due
  <2>1. gc' = Idle
    BY <1>1, <1>6
  <2>2. \A i \in view.blocks : i + Room(L) > PeriodStart(h)
    <3>1. CASE h \div GCPeriod = gc.old \div GCPeriod
      <4>1. PeriodStart(h) = PeriodStart(gc.old)
        BY <3>1 DEF PeriodStart
      <4> QED
        BY <1>1, <4>1 DEF Left
    <3>2. CASE tgt <= GCPeriod
      <4> HIDE DEF tgt, h
      <4> QED
        BY <1>2, <1>3, <3>2 DEF Room
    <3>3. tgt <= GCPeriod \/ tgt > GCPeriod
      <4> HIDE DEF tgt
      <4> QED
        BY <1>3
    <3> QED
      BY <1>6, <3>1, <3>2, <3>3
  <2>3. gc'.pc = "idle" /\ view' = view /\ disk' = disk
    <3>1. gc'.pc = "idle"
      BY <2>1, Zenon DEF Idle
    <3> QED
      BY <1>1, <3>1, Zenon
  <2>4. Left(L)'
    BY <2>2, <2>3 DEF Left, PeriodStart
  <2> QED
    BY <1>4, <2>4
<1> QED
  BY <1>5, <1>6

\* A block whose page is full and stored, or that is in no full page, has its
\* hash found.
LEMMA BlockFound ==
    ASSUME NEW L, IsLow(L), LedgerInv(L), Reachable,
           NEW i \in view.blocks, i <= view.currentHeader
    PROVE  HashKnown(i)
<1> USE LedgerConstants
<1> DEFINE stored == storedHeaderCount(view)
           c == view.currentHeader
<1>1. c \in Nat /\ i \in Nat /\ i <= c
  BY BoundFacts
<1>2. stored \in Nat /\ stored <= c + 1 /\ stored % Batch = 0
  <2>1. c + 1 \in Nat
    BY <1>1
  <2> QED
    BY <2>1, PageBounds, Zenon DEF storedHeaderCount
<1> HIDE DEF stored, c
<1>3. CASE i >= stored
  BY <1>1, <1>2, <1>3 DEF HashKnown, getLocalHeaderHash, stored, c
<1>4. CASE i < stored
  <2>1. PageOf(i) + Batch <= stored /\ PageOf(i) \in Nat
    BY <1>1, <1>2, <1>4, PageApart, PageBounds
  <2>2. PageOf(i) + Batch <= c + 1
    BY <1>1, <1>2, <2>1
  <2> QED
    BY <2>2 DEF c, Reachable, HashKnown
<1> QED
  BY <1>1, <1>2, <1>3, <1>4

\* removeUntraceableBlocks leaves no block below its target: each one is at or
\* above the place where the last collection stopped, and its hash is found.
LEMMA removeUntraceableBlocksBound ==
    ASSUME NEW L, IsLow(L), LedgerInv(L), Reachable, Left(L),
           GCPeriod + Batch <= L, removeUntraceableBlocks
    PROVE  Reachable' /\ Left(L)'
<1> USE LedgerConstants
<1> DEFINE h == disk.currentBlock
           t == gc.tgt
           found == {i \in gcLast .. t - 1 : HashKnown(i)}
<1>1. /\ gc.pc = "blocks" /\ gc.period = h \div GCPeriod /\ t \in Nat /\ t > 0 /\ t + L <= h
  BY DEF removeUntraceableBlocks, LedgerInv, Collecting, MayCollect, Left
<1>2. /\ L \in Nat /\ h \in Nat /\ view.blocks \subseteq Nat /\ gcLast \in Nat
      /\ view.currentBlock \in Nat /\ view.currentHeader \in Nat
      /\ h <= view.currentBlock /\ view.currentBlock <= view.currentHeader
  BY BoundFacts
<1>3. Target(gc.period, gc.tgt) = t
  <2> HIDE DEF h, t
  <2>1. Target(h \div GCPeriod, t) = t
    BY <1>1, <1>2, TargetIsTgt
  <2> QED
    BY <1>1, <2>1 DEF t
<1>4. /\ view' = [view EXCEPT !.headers = @ \ found, !.blocks = @ \ found]
      /\ gcLast' = t /\ gc' = [pc |-> "pages", tgt |-> t]
      /\ UNCHANGED <<disk, newPages, diskPages>>
  <2> DEFINE u == Target(gc.period, gc.tgt)
             gone == {i \in gcLast .. u - 1 : HashKnown(i)}
  <2>1. /\ view' = [view EXCEPT !.headers = @ \ gone, !.blocks = @ \ gone]
        /\ gcLast' = IF u = 0 THEN gcLast ELSE u
        /\ gc' = [pc |-> "pages", tgt |-> gc.tgt]
        /\ UNCHANGED <<disk, newPages, diskPages>>
    BY DEF removeUntraceableBlocks
  <2>2. u = t /\ gone = found
    BY <1>3
  <2> HIDE DEF u, gone, found
  <2> QED
    BY <1>1, <2>1, <2>2
<1>5. /\ view'.blocks = view.blocks \ found /\ view'.currentBlock = view.currentBlock
      /\ view'.currentHeader = view.currentHeader
  <2> HIDE DEF found
  <2> QED
    BY <1>4 DEF LedgerInv, Shape, Storage
<1>6. ASSUME NEW i \in view.blocks, i < t PROVE i \in found
  <2>1. gcLast <= i /\ i \in Nat
    BY <1>2 DEF Reachable
  <2>2. HashKnown(i)
    BY <1>1, <1>2, <1>6, <2>1, BlockFound
  <2> QED
    BY <1>1, <1>2, <1>6, <2>1, <2>2
<1> HIDE DEF found
<1>8. Reachable'
  <2>1. gcLast' <= view'.currentBlock /\ \A i \in view'.blocks : gcLast' <= i
    BY <1>1, <1>2, <1>4, <1>5, <1>6
  <2>2. \A i \in view'.blocks : PageOf(i) + Batch <= view'.currentHeader + 1
            => PageOf(i) \in newPages' \cup diskPages'
    BY <1>4, <1>5 DEF Reachable
  <2> QED
    BY <2>1, <2>2 DEF Reachable, PageOf
<1>9. gc'.pc = "pages" /\ gc'.tgt = gc.tgt /\ disk' = disk /\ gcLast' = gc.tgt
  BY <1>4
<1> QED
  BY <1>1, <1>8, <1>9 DEF Left, PeriodStart

\* removeOldHeaderHashes deletes the page of the target itself when the target is
\* its last hash, which the hypothesis excludes: every other page it deletes ends
\* below the target, and its blocks were collected.
LEMMA removeOldHeaderHashesBound ==
    ASSUME NEW L, IsLow(L), LedgerInv(L), Reachable, Left(L), removeOldHeaderHashes,
           \A t \in Nat : t % GCPeriod = 0 => (t + 1) % Batch # 0
    PROVE  Reachable' /\ Left(L)'
<1> USE LedgerConstants
<1> DEFINE till == Till(gc.tgt)
           t == gc.tgt
<1>1. /\ gc.pc = "pages" /\ gcLast = t /\ gc' = Idle
      /\ t + Room(L) > PeriodStart(disk.currentBlock) /\ t % GCPeriod = 0
      /\ diskPages' = IF till > 0 THEN {p \in diskPages : p > till} ELSE diskPages
      /\ UNCHANGED <<view, disk, newPages, lru, gcLast>>
  BY DEF removeOldHeaderHashes, Left
<1> HIDE DEF till
<1>2. /\ gcLast \in Nat /\ view.blocks \subseteq Nat /\ Room(L) \in Nat
      /\ PeriodStart(disk.currentBlock) \in Nat /\ view.currentBlock \in Nat
  BY BoundFacts
<1>3. t \in Nat /\ \A i \in view.blocks : t <= i
  BY <1>1, <1>2 DEF Reachable
<1>4. till \in Int /\ till + Batch <= t + 1
  <2>0. gc.tgt + 1 \in Nat
    BY <1>3
  <2>1. PageOf(gc.tgt + 1) \in Nat /\ PageOf(gc.tgt + 1) <= gc.tgt + 1
    BY <2>0, PageBounds, Zenon
  <2>2. till = PageOf(gc.tgt + 1) - Batch
    BY DEF till, Till
  <2> HIDE DEF t
  <2>3. t + 1 = gc.tgt + 1
    BY DEF t
  <2> QED
    BY <1>3, <2>1, <2>2, <2>3
<1> HIDE DEF t
<1>5. ASSUME NEW i \in view.blocks PROVE PageOf(i) > till
  <2> DEFINE p == PageOf(i)
  <2>1. i \in Nat /\ p \in Nat /\ p <= i /\ i < p + Batch /\ p % Batch = 0
    BY <1>2, PageBounds
  <2> HIDE DEF p
  <2> SUFFICES ASSUME p <= till PROVE FALSE
    BY <1>4, <2>1 DEF p
  <2>2. t + 1 = p + Batch
    BY <1>3, <1>4, <2>1
  <2>3. (p + Batch) % Batch = 0
    BY <2>1, PageApart
  <2>4. (t + 1) % Batch = 0
    BY <2>2, <2>3, Zenon
  <2>5. t % GCPeriod = 0
    BY <1>1
  <2> QED
    BY <1>3, <2>4, <2>5
<1>6. Reachable'
  <2>1. \A i \in view.blocks : PageOf(i) \in diskPages => PageOf(i) \in diskPages'
    BY <1>1, <1>5
  <2>2. \A i \in view.blocks : PageOf(i) + Batch <= view.currentHeader + 1
            => PageOf(i) \in newPages \cup diskPages'
    BY <2>1 DEF Reachable
  <2> QED
    BY <1>1, <2>2 DEF Reachable, PageOf
<1>7. \A i \in view.blocks : i + Room(L) > PeriodStart(disk.currentBlock)
  BY <1>1, <1>2, <1>3
<1> QED
  BY <1>1, <1>6, <1>7 DEF Left, Idle, PeriodStart

\* BoundInv(L) is inductive when the target of a collection is in another page than
\* the period and no target is the last hash of a page.
LEMMA StepBound ==
    ASSUME NEW L, IsLow(L), \A m \in MTBs : m = L, GCPeriod + Batch <= L,
           \A t \in Nat : t % GCPeriod = 0 => (t + 1) % Batch # 0
    PROVE  BoundInv(L) /\ [Next]_vars => BoundInv(L)'
<1> SUFFICES ASSUME BoundInv(L), [Next]_vars, crashes' = 0 PROVE Reachable' /\ Left(L)'
  BY StepLedger DEF BoundInv
<1> USE LedgerConstants
<1>0. LedgerInv(L) /\ crashes \in Nat /\ view.mtb = L /\ L < Word
  BY StorageFields, LedgerAssumption DEF BoundInv, LedgerInv, Shape
<1>i. CASE crashes = 0
  <2>0. Reachable /\ Left(L)
    BY <1>i DEF BoundInv
  <2>1. ASSUME NEW n \in 1 .. MaxHeaders, AddHeaders(n) PROVE Reachable' /\ Left(L)'
    BY <1>0, <2>0, <2>1, AddHeadersBound
  <2>2. ASSUME NEW m \in MTBs, StoreBlock(m) PROVE Reachable' /\ Left(L)'
    BY <1>0, <2>0, <2>2, StoreBlockBound
  <2>3. CASE Persist
    BY <1>0, <2>0, <2>3, PersistBound
  <2>4. CASE TryRunGC
    BY <1>0, <2>0, <2>4, TryRunGCBound
  <2>5. CASE removeUntraceableBlocks
    BY <1>0, <2>0, <2>5, removeUntraceableBlocksBound
  <2>6. CASE removeOldHeaderHashes
    BY <1>0, <2>0, <2>6, removeOldHeaderHashesBound
  <2>7. CASE Restart
    BY <1>i, <2>7 DEF Restart
  <2>8. CASE UNCHANGED vars
    BY <2>0, <2>8 DEF vars, Reachable, Left, PageOf, PeriodStart
  <2>9. ASSUME NEW page \in newPages \cup diskPages, GetHeaderHash(page) PROVE Reachable' /\ Left(L)'
    <3>1. UNCHANGED <<view, disk, newPages, diskPages, gcLast, gc>>
      BY <2>9 DEF GetHeaderHash
    <3> QED
      BY <2>0, <3>1 DEF Reachable, Left, PageOf, PeriodStart
  <2> QED
    BY <2>1, <2>2, <2>3, <2>4, <2>5, <2>6, <2>7, <2>8, <2>9 DEF Next
<1>ii. CASE crashes # 0
  <2>1. crashes' = crashes \/ crashes' = crashes + 1
    BY DEF Next, AddHeaders, StoreBlock, GetHeaderHash, Persist, TryRunGC, removeUntraceableBlocks,
           removeOldHeaderHashes, Restart, vars
  <2> QED
    BY <1>0, <1>ii, <2>1
<1> QED
  BY <1>i, <1>ii

\* A node that was not restarted keeps no block that became untraceable more than
\* three periods and two intervals ago.  The hypotheses are what it needs of the
\* configuration: MaxTraceableBlocks is longer than a page and a period, and no
\* multiple of the period is the last hash of a page; without the last one the page
\* of a block that is still there is deleted from the storage, and the block stays
\* when the page has also left the cache of pages.  They hold for the defaults:
\* 2102400 traceable blocks, 2000 hashes in a page, a period of 10000.
THEOREM StorageAlwaysBounded ==
    ASSUME \A m, n \in MTBs : m = n,
           \A m \in MTBs : GCPeriod + Batch <= m,
           \A t \in Nat : t % GCPeriod = 0 => (t + 1) % Batch # 0
    PROVE  Spec => []StorageBounded
<1> USE LedgerConstants
<1>1. PICK L \in MTBs : \A m \in MTBs : m = L
  OBVIOUS
<1>2. IsLow(L) /\ GCPeriod + Batch <= L
  BY <1>1 DEF IsLow
<1>3. Init => BoundInv(L)
  BY <1>2, InitBound
<1>4. BoundInv(L) /\ [Next]_vars => BoundInv(L)'
  BY <1>1, <1>2, StepBound
<1>5. BoundInv(L) => StorageBounded
  <2> SUFFICES ASSUME BoundInv(L), crashes = 0, gc.pc = "idle", NEW i \in view.blocks
               PROVE  i + view.mtb + 3 * GCPeriod + 2 * Interval > disk.currentBlock
    BY DEF StorageBounded
  <2>1. /\ view.mtb = L /\ L \in Nat /\ disk.currentBlock \in Nat /\ i \in Nat
        /\ PeriodStart(disk.currentBlock) \in Nat
        /\ disk.currentBlock < PeriodStart(disk.currentBlock) + GCPeriod
    BY <1>1, <1>2, BoundFacts, StorageFields DEF BoundInv, LedgerInv, Shape
  <2>2. i + Room(L) > PeriodStart(disk.currentBlock)
    BY DEF BoundInv, Left
  <2> QED
    BY <2>1, <2>2 DEF Room
<1> QED
  BY <1>3, <1>4, <1>5, PTL DEF Spec
=============================================================================
