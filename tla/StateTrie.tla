------------------------------ MODULE StateTrie ------------------------------
(***************************************************************************)
(* The state trie of a node: stateroot.Module of pkg/core/stateroot        *)
(* applies the storage changes of each block to the Merkle Patricia trie,  *)
(* flushes the nodes with their reference counters, collapses the trie in  *)
(* memory, removes old nodes and is started, or reset, from a stored root. *)
(***************************************************************************)
EXTENDS Trie

CONSTANTS
    Keys,         \* storage keys, as paths
    Values,       \* storage values
    Sizes,        \* bound: how many blocks there are, and keys each one changes,
                  \* in each of the configurations "all", "latest"
                  \* (KeepOnlyLatestState) and "gc" (RemoveUntraceableBlocks)
    ResetModes,   \* the ones in which the state is reset
    Depth,        \* what Collapse keeps; 10 in storeBlock
    Searches,     \* prefixes and starting points of searches: whole bytes, that
                  \* is an even number of digits
    MaxResets     \* bound: resets of the state

VARIABLES
    mode,         \* Module.mode
    root,         \* Module.mpt.root
    refcount,     \* Module.mpt.refcount
    store,        \* DataMPT: hash -> active flag and counter (or, of an
                  \* inactive node, the height it was dropped at)
    roots,        \* DataMPTAux: state roots by height
    removed,      \* height the garbage collector has reached
    contents,     \* storage items, by height: what the roots stand for
    resets,       \* times the state was reset
    status        \* "ok"; "error" or "panic" once applying a block has failed

vars == <<mode, root, refcount, store, roots, removed, contents, resets, status>>

height == Len(roots)

RC == mode \in {"latest", "gc"}

GCFlag == mode = "gc"

NoNodes == [h \in {} |-> [active |-> TRUE, n |-> 0]]

NoRefs == [h \in {} |-> [initial |-> 0, refcount |-> 0]]

\* getFromStore of the node's own trie: inactive nodes are not found.
Readable(s) ==
    LET found == {h \in DOMAIN s : GCFlag => s[h].active}
    IN  [h \in found |-> s[h].n]

\* The mode of the reads of old states has no GC flag.
db == DOMAIN store

-----------------------------------------------------------------------------
Changes ==
    UNION {[S -> Values \cup {None}] : S \in SUBSET Keys \ {{}}}

Applied(m, ch) ==
    LET kept == {k \in DOMAIN m : k \notin DOMAIN ch}
        set == {k \in DOMAIN ch : ch[k] # None}
    IN  [k \in kept \cup set |-> IF k \in set THEN ch[k] ELSE m[k]]

MapToMPTBatch(ch) ==
    LET keys == SetToSortSeq(DOMAIN ch, Less)
    IN  [i \in DOMAIN keys |-> [key |-> keys[i], value |-> ch[keys[i]]]]

\* Mutant: the stored counter is read for created nodes only, not for dropped ones.
NewCountCreated(rc, h) ==
    rc[h].refcount
        + IF rc[h].initial # 0 \/ rc[h].refcount < 0 THEN rc[h].initial
          ELSE IF h \in DOMAIN Readable(store) THEN store[h].n ELSE 0

\* The counter Flush arrives at for a node.
NewCount(rc, h) ==
    rc[h].refcount
        + IF rc[h].initial # 0 THEN rc[h].initial
          ELSE IF h \in DOMAIN Readable(store) THEN store[h].n ELSE 0

Touched(rc) == {h \in DOMAIN rc : rc[h].refcount # 0}

\* updateRefCount
Updated(rc, index, h) ==
    IF NewCount(rc, h) = 0 THEN [active |-> FALSE, n |-> index]
                           ELSE [active |-> TRUE, n |-> NewCount(rc, h)]

\* Flush: the storage after it.
Flushed(rc, index) ==
    LET written == IF RC THEN {h \in Touched(rc) : GCFlag \/ NewCount(rc, h) # 0}
                         ELSE {h \in Touched(rc) : rc[h].refcount > 0}
        deleted == IF RC /\ ~GCFlag THEN {h \in Touched(rc) : NewCount(rc, h) = 0} ELSE {}
    IN  [h \in (DOMAIN store \cup written) \ deleted |->
            IF h \notin written THEN store[h]
            ELSE IF RC THEN Updated(rc, index, h)
            ELSE [active |-> TRUE, n |-> 0]]

\* Mutant: what stays in memory is the counter before the block.
RefreshedLate(rc) ==
    [h \in {h \in Touched(rc) : RC => NewCount(rc, h) # 0} |->
        [initial |-> rc[h].initial, refcount |-> 0]]

\* Flush: the counters that stay in memory.
Refreshed(rc) ==
    [h \in {h \in Touched(rc) : RC => NewCount(rc, h) # 0} |->
        [initial |-> IF RC THEN NewCount(rc, h) ELSE 0, refcount |-> 0]]

Init ==
    /\ mode \in DOMAIN Sizes
    /\ root = EmptyNode
    /\ refcount = NoRefs
    /\ store = NoNodes
    /\ roots = <<>>
    /\ removed = 0
    /\ contents = <<>>
    /\ resets = 0
    /\ status = "ok"

\* Items stored at the last height.
Current == IF contents = <<>> THEN [k \in {} |-> None] ELSE Last(contents)

\* The tail of storing a block, r being the trie after the block's changes:
\* Flush, the state root, Collapse when the persisted height allows it,
\* UpdateCurrentLocal.
Store(ch, r) ==
    LET bad == RC /\ \E h \in Touched(r.rc) : NewCount(r.rc, h) < 0
    IN  IF r.n = Failed \/ bad
        THEN /\ status' = IF r.n = Failed THEN "error" ELSE "panic"
             /\ UNCHANGED <<root, refcount, store, roots, contents>>
        ELSE /\ store' = Flushed(r.rc, height + 1)
             /\ roots' = Append(roots, r.n.h)
             /\ contents' = Append(contents, Applied(Current, ch))
             /\ \/ root' = r.n /\ refcount' = Refreshed(r.rc)
                \/ root' = collapse(Depth, r.n) /\ refcount' = NoRefs
             /\ UNCHANGED status

\* Natives always keep some item, so no block leaves the storage empty.
Allowed(ch) ==
    /\ status = "ok" /\ height < Len(Sizes[mode])
    /\ Cardinality(DOMAIN ch) <= Sizes[mode][height + 1]
    /\ DOMAIN Applied(Current, ch) # {}

AddMPTBatch ==
    \E ch \in Changes :
        /\ Allowed(ch)
        /\ Store(ch, PutBatch(Readable(store), refcount, root, MapToMPTBatch(ch)))
        /\ UNCHANGED <<mode, removed, resets>>

\* One change made by Put or Delete instead of a batch.
PutOrDelete ==
    \E k \in Keys, v \in Values \cup {None} :
        LET st == Readable(store)
        IN  /\ Allowed([x \in {k} |-> v])
            /\ Store([x \in {k} |-> v],
                     IF v = None THEN deleteFromNode(st, refcount, root, k)
                                 ELSE putIntoNode(st, refcount, root, k, LeafNode(v)))
            /\ UNCHANGED <<mode, removed, resets>>

\* Module.Init at the last height.
Restart ==
    /\ status = "ok" /\ height > 0
    /\ root' = HashNode(Last(roots))
    /\ refcount' = NoRefs
    /\ UNCHANGED <<mode, store, roots, removed, contents, resets, status>>

\* Mutant: the nodes dropped by the block after the index are removed too.
GCBeyond ==
    /\ GCFlag /\ status = "ok"
    /\ \E index \in removed + 1 .. height - 1 :
        /\ store' = [h \in {h \in DOMAIN store : store[h].active \/ store[h].n > index + 1} |-> store[h]]
        /\ removed' = index
    /\ UNCHANGED <<mode, root, refcount, roots, contents, resets, status>>

\* Module.GC up to an index below the height.
GC ==
    /\ GCFlag /\ status = "ok"
    /\ \E index \in removed + 1 .. height - 1 :
        /\ store' = [h \in {h \in DOMAIN store : store[h].active \/ store[h].n > index} |-> store[h]]
        /\ removed' = index
    /\ UNCHANGED <<mode, root, refcount, roots, contents, resets, status>>

\* Module.ResetState: the nodes are left as they are.
ResetState ==
    /\ mode \in ResetModes /\ status = "ok" /\ removed = 0
    /\ resets < MaxResets /\ resets' = resets + 1
    /\ \E h \in 1 .. height - 1 :
        /\ roots' = SubSeq(roots, 1, h)
        /\ contents' = SubSeq(contents, 1, h)
        /\ root' = HashNode(roots[h])
    /\ refcount' = NoRefs
    /\ UNCHANGED <<mode, store, removed, status>>

Next == AddMPTBatch \/ PutOrDelete \/ Restart \/ GC \/ ResetState

Spec == Init /\ [][Next]_vars

-----------------------------------------------------------------------------
(* References: what the trie of given items is, whatever led to it.        *)

RECURSIVE TreeOf(_), Uses(_, _)

\* The tree of the items m, a function of paths.
TreeOf(m) ==
    LET paths == DOMAIN m
        some == CHOOSE p \in paths : TRUE
        common == Max({n \in 0 .. Len(some) : \A p \in paths : IsPrefix(SubSeq(some, 1, n), p)})
        under(prefix) == [p \in {From(x, Len(prefix)) : x \in {y \in paths : IsPrefix(prefix, y)}} |->
                            m[prefix \o p]]
    IN  CASE paths = {} -> EmptyHash
          [] paths = {<<>>} -> <<"leaf", m[<<>>]>>
          [] paths \notin {{}, {<<>>}} /\ common > 0 ->
                <<"ext", SubSeq(some, 1, common), TreeOf(under(SubSeq(some, 1, common)))>>
          [] OTHER ->
                <<"branch", [i \in Index |->
                    IF i # lastChild THEN TreeOf(under(<<i>>))
                    ELSE IF <<>> \in paths THEN <<"leaf", m[<<>>]>> ELSE EmptyHash]>>

ChildrenOf(h) ==
    CASE h[1] = "ext" -> <<h[3]>>
      [] h[1] = "branch" -> [i \in 1 .. lastChild + 1 |-> h[2][i - 1]]
      [] OTHER -> <<>>

\* How many times the node x occurs in the tree h.
Uses(h, x) ==
    FoldLeft(LAMBDA n, c : n + Uses(c, x), IF h = x THEN 1 ELSE 0, ChildrenOf(h))

\* The items of m below the prefix, those that come after from only, in order.
Items(m, prefix, after(_)) ==
    LET below == {From(k, Len(prefix)) : k \in {x \in DOMAIN m : IsPrefix(prefix, x)}}
        seq == SetToSortSeq({p \in below : after(p)}, Less)
    IN  [i \in DOMAIN seq |-> [path |-> seq[i], v |-> m[prefix \o seq[i]]]]

\* Reads of a state start from its root's hash and see the storage only, so it
\* is enough to look at them when the node has just started.
Started == height > 0 /\ root = HashNode(Last(roots))

-----------------------------------------------------------------------------
(* Properties.                                                             *)

\* Between blocks no counter has a change that is not flushed, and what is
\* kept in memory of a counter is what is stored.
TypeOK ==
    /\ status \in {"ok", "error", "panic"}
    /\ \A i \in 1 .. height : DOMAIN contents[i] \subseteq Keys /\ Range(contents[i]) \subseteq Values
    /\ \A h \in DOMAIN refcount :
        refcount[h].refcount = 0 /\ (RC => h \in DOMAIN store /\ refcount[h].initial = store[h].n)

\* No block fails on the trie: the nodes it needs are found, active, and no
\* counter gets negative ("BUG: negative reference count").
NeverFails == status = "ok"

\* The state root is a function of the stored items: it does not depend on the
\* blocks that led to them, on batches against single changes, on what was in
\* memory or collapsed, on restarts.  And no block fails on the trie.
RootIsCanonical ==
    /\ TypeOK /\ NeverFails
    /\ height > 0 => Last(roots) = TreeOf(Last(contents)) /\ root.h = Last(roots)

\* A counter is the number of times the node occurs in the current trie, and a
\* node that does not occur is inactive or, without GC, removed (addRef and removeRef
\* of trie.go, updateRefCount); a reset of a node that collects old states is left
\* out by ResetModes, since it does not restore the counters (see NeverFails).
CountsAreUses ==
    RC /\ height > 0 =>
        \A h \in DOMAIN store :
            IF store[h].active THEN store[h].n = Uses(Last(roots), h) /\ store[h].n > 0
                               ELSE GCFlag /\ Uses(Last(roots), h) = 0

\* A key has a proof exactly when it is stored, the proof shows its value, and
\* it shows of no other key anything but its value.
ProofsVerify ==
    Started =>
        LET h == Last(roots)
            m == Last(contents)
        IN  \A k \in Keys :
                LET proof == getProof(db, HashNode(h), k)
                IN  IF k \notin DOMAIN m THEN proof = None
                    ELSE /\ VerifyProof(h, k, proof) = m[k]
                         /\ \A o \in Keys :
                                VerifyProof(h, o, proof) \in {None} \cup {m[x] : x \in DOMAIN m \cap {o}}

\* Every state the garbage collector may not have touched can be read back in
\* full: the current one, the ones from the collected height on.
StatesReadable ==
    /\ ProofsVerify
    /\ Started => \A i \in 1 .. height :
        (mode = "latest" => i = height) /\ i >= removed =>
            \A k \in Keys :
                Get(db, HashNode(roots[i]), k)
                    = IF k \in DOMAIN contents[i] THEN contents[i][k] ELSE None

\* A search that is not cut short shows every item below the prefix once, Find
\* those after from only.  (Comment of FindStates: "If nil `start` is specified,
\* then the item with the key equal to the prefix is included into the result;
\* if empty `start` is specified, then the item with the key equal to the prefix
\* is not included".)
SearchesComplete ==
    Started =>
        \A prefix \in Searches :
            LET m == Last(contents)
                h == HashNode(Last(roots))
                same(a, b) == Len(a) = Len(b) /\ ToSet(a) = ToSet(b)
            IN  /\ \A from \in Searches \cup {None} :
                    same(Find(db, h, prefix, from, Cardinality(Keys)),
                         Items(m, prefix, LAMBDA p : IF from = None THEN TRUE ELSE Less(from, p)))
                /\ \A backwards \in BOOLEAN :
                    same(Seek(db, h, prefix, <<>>, backwards), Items(m, prefix, LAMBDA p : TRUE))

\* Not so: the items of a search that is cut short, each search starting where
\* the one before ended, are all the items.  (traverse shows a key after the
\* keys it is the beginning of, and never when one of those is the start.)
PagesComplete ==
    Started =>
        LET m == Last(contents)
            h == HashNode(Last(roots))
        IN  \A x \in ToSet(Find(db, h, <<>>, None, Cardinality(Keys))) :
                LET page == Find(db, h, <<>>, None, 1)
                IN  x \in ToSet(page) \cup ToSet(Find(db, h, <<>>, page[1].path, Cardinality(Keys)))

\* Not so: "Seek can guarantee that key-value items are sorted by key in
\* ascending way" (storage.Store), "Backwards can be safely combined with Prefix
\* and Start" (storage.SeekRange).
SeekIsSorted ==
    Started =>
        \A prefix, from \in Searches :
            LET after(p) == p = from \/ Less(from, p)
            IN  Seek(db, HashNode(Last(roots)), prefix, from, FALSE)
                    = Items(Last(contents), prefix, after)

=============================================================================
