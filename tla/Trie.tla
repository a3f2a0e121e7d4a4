-------------------------------- MODULE Trie --------------------------------
(***************************************************************************)
(* The Merkle Patricia trie of pkg/core/mpt as operators: Put, Delete and  *)
(* PutBatch with the reference counters they keep, the reads (Get, Find,   *)
(* proofs, TrieStore.Seek) and Collapse.                                   *)
(*                                                                         *)
(* A hash is the tree it stands for, so equal hashes mean equal trees.  A  *)
(* node remembers the hash it was sealed with: a node that is changed and  *)
(* not sealed again keeps a stale one, as BaseNode does without            *)
(* invalidateCache.  rc is Trie.refcount; st maps the hashes that can be   *)
(* read from the storage to their counters.                                *)
(***************************************************************************)
EXTENDS Integers, SequencesExt, FiniteSetsExt

CONSTANTS
    Radix,        \* digits of a path; 16 nibbles in the code
    None          \* nil

ASSUME RadixAssumption == Radix \in Nat \ {0}

lastChild == Radix

Index == 0 .. lastChild

-----------------------------------------------------------------------------
(* Nodes.                                                                  *)

EmptyHash == <<"empty">>

EmptyNode == [t |-> "empty", h |-> EmptyHash]

\* A read that failed, and with it the whole operation.
Failed == [t |-> "failed", h |-> EmptyHash]

isEmpty(n) == n.t = "empty"

LeafNode(v) == [t |-> "leaf", v |-> v, h |-> <<"leaf", v>>]

ExtensionNode(key, next) ==
    [t |-> "ext", key |-> key, next |-> next, h |-> <<"ext", key, next.h>>]

BranchNode(children) ==
    [t |-> "branch", c |-> children,
     h |-> <<"branch", [i \in Index |-> children[i].h]>>]

NoChildren == [i \in Index |-> EmptyNode]

HashNode(h) == [t |-> "hash", h |-> h]

\* A child as it is stored in its parent.
AsChild(h) == IF h = EmptyHash THEN EmptyNode ELSE HashNode(h)

Decoded(h) ==
    CASE h[1] = "leaf" -> LeafNode(h[2])
      [] h[1] = "ext" -> ExtensionNode(h[2], AsChild(h[3]))
      [] h[1] = "branch" -> BranchNode([i \in Index |-> AsChild(h[2][i])])

splitPath(path) ==
    IF path = <<>> THEN [i |-> lastChild, rest |-> <<>>]
                   ELSE [i |-> Head(path), rest |-> Tail(path)]

lcp(a, b) ==
    SubSeq(a, 1, Max({n \in 0 .. Min({Len(a), Len(b)}) : SubSeq(a, 1, n) = SubSeq(b, 1, n)}))

\* What follows the first n digits.
From(s, n) == SubSeq(s, n + 1, Len(s))

-----------------------------------------------------------------------------
(* Reference counters.  An operation returns the node that replaces the    *)
(* one it was given, and the counters.                                     *)

Counted(rc, h, by) ==
    IF h \in DOMAIN rc
    THEN [rc EXCEPT ![h].refcount = @ + by]
    ELSE [x \in DOMAIN rc \cup {h} |->
            IF x = h THEN [initial |-> 0, refcount |-> by] ELSE rc[x]]

addRef(rc, h) == Counted(rc, h, 1)

removeRef(rc, h) == Counted(rc, h, -1)

Same(rc, n) == [n |-> n, rc |-> rc]

\* addRef(n.Hash(), n.bytes) and return n
Added(rc, n) == Same(addRef(rc, n.h), n)

\* getFromStore: besides the node, the counter of a node that is referenced.
getFromStore(st, rc, h) ==
    IF h \notin DOMAIN st THEN Same(rc, Failed)
    ELSE Same(IF h \in DOMAIN rc THEN [rc EXCEPT ![h].initial = st[h]] ELSE rc, Decoded(h))

newSubTrie(rc, path, n, newVal) ==
    LET r == IF newVal THEN addRef(rc, n.h) ELSE rc
    IN  IF path = <<>> THEN Same(r, n) ELSE Added(r, ExtensionNode(path, n))

-----------------------------------------------------------------------------
(* Put.                                                                    *)

RECURSIVE putIntoNode(_, _, _, _, _)

putIntoLeaf(rc, curr, path, val) ==
    IF path = <<>> THEN Added(removeRef(rc, curr.h), val)
    ELSE LET s == newSubTrie(rc, Tail(path), val, TRUE)
         IN  Added(s.rc, BranchNode([NoChildren EXCEPT ![Head(path)] = s.n, ![lastChild] = curr]))

putIntoBranch(st, rc, curr, path, val) ==
    LET p == splitPath(path)
        r == putIntoNode(st, removeRef(rc, curr.h), curr.c[p.i], p.rest, val)
    IN  IF r.n = Failed THEN r ELSE Added(r.rc, BranchNode([curr.c EXCEPT ![p.i] = r.n]))

\* The extension ends where the path leaves it: a branch takes both.
SplitExtension(rc, curr, path, val) ==
    LET pref == lcp(curr.key, path)
        keyTail == From(curr.key, Len(pref))
        p == splitPath(From(path, Len(pref)))
        s1 == newSubTrie(rc, Tail(keyTail), curr.next, FALSE)
        s2 == newSubTrie(s1.rc, p.rest, val, TRUE)
        b == Added(s2.rc, BranchNode([NoChildren EXCEPT ![Head(keyTail)] = s1.n, ![p.i] = s2.n]))
    IN  IF pref = <<>> THEN b ELSE Added(b.rc, ExtensionNode(pref, b.n))

putIntoExtension(st, rc, curr, path, val) ==
    LET removed == removeRef(rc, curr.h)
        r == putIntoNode(st, removed, curr.next, From(path, Len(curr.key)), val)
    IN  IF ~IsPrefix(curr.key, path) THEN SplitExtension(removed, curr, path, val)
        ELSE IF r.n = Failed THEN r
        ELSE Added(r.rc, ExtensionNode(curr.key, r.n))

putIntoHash(st, rc, curr, path, val) ==
    LET g == getFromStore(st, rc, curr.h)
    IN  IF g.n = Failed THEN g ELSE putIntoNode(st, g.rc, g.n, path, val)

putIntoNode(st, rc, curr, path, val) ==
    CASE curr.t = "leaf" -> putIntoLeaf(rc, curr, path, val)
      [] curr.t = "branch" -> putIntoBranch(st, rc, curr, path, val)
      [] curr.t = "ext" -> putIntoExtension(st, rc, curr, path, val)
      [] curr.t = "hash" -> putIntoHash(st, rc, curr, path, val)
      [] curr.t = "empty" -> newSubTrie(rc, path, val, TRUE)

-----------------------------------------------------------------------------
(* Delete.                                                                 *)

RECURSIVE deleteFromNode(_, _, _, _)

\* The only child left of a branch, which its extension absorbs the digit of.
Lifted(st, rc, i, c) ==
    LET g == IF c.t = "hash" THEN getFromStore(st, rc, c.h) ELSE Same(rc, c)
    IN  IF g.n.t = "ext"
        THEN Added(removeRef(g.rc, g.n.h), ExtensionNode(<<i>> \o g.n.key, g.n.next))
        ELSE IF g.n = Failed THEN g ELSE Added(g.rc, ExtensionNode(<<i>>, g.n))

deleteFromBranch(st, rc, b, path) ==
    LET p == splitPath(path)
        r == deleteFromNode(st, rc, b.c[p.i], p.rest)
        children == [b.c EXCEPT ![p.i] = r.n]
        left == {i \in Index : ~isEmpty(children[i])}
        index == Max(left)
        removed == removeRef(r.rc, b.h)
    IN  IF r.n = Failed THEN r
        ELSE IF Cardinality(left) > 1 THEN Added(removed, BranchNode(children))
        ELSE IF index = lastChild THEN Same(removed, children[index])
        ELSE Lifted(st, removed, index, children[index])

deleteFromExtension(st, rc, n, path) ==
    LET r == deleteFromNode(st, rc, n.next, From(path, Len(n.key)))
        removed == removeRef(r.rc, n.h)
    IN  IF ~IsPrefix(n.key, path) THEN Same(rc, n)
        ELSE CASE r.n = Failed -> r
               [] r.n.t = "empty" -> Same(removed, r.n)
               [] r.n.t = "ext" ->
                    Added(removeRef(removed, r.n.h), ExtensionNode(n.key \o r.n.key, r.n.next))
               [] OTHER -> Added(removed, ExtensionNode(n.key, r.n))

deleteFromNode(st, rc, curr, path) ==
    CASE curr.t = "leaf" ->
            IF path = <<>> THEN Same(removeRef(rc, curr.h), EmptyNode) ELSE Same(rc, curr)
      [] curr.t = "branch" -> deleteFromBranch(st, rc, curr, path)
      [] curr.t = "ext" -> deleteFromExtension(st, rc, curr, path)
      [] curr.t = "empty" -> Same(rc, curr)
      [] curr.t = "hash" ->
            LET g == getFromStore(st, rc, curr.h)
            IN  IF g.n = Failed THEN g ELSE deleteFromNode(st, g.rc, g.n, path)

-----------------------------------------------------------------------------
(* PutBatch.  kv is a sequence of [key, value] in the order of the keys; a *)
(* value None deletes.                                                     *)

RECURSIVE putBatchIntoNode(_, _, _, _), newSubTrieMany(_, _, _, _, _), iterateBatch(_, _, _, _)

lcpMany(kv) == FoldLeft(LAMBDA p, x : lcp(p, x.key), kv[1].key, kv)

stripPrefix(n, kv) == [i \in DOMAIN kv |-> [kv[i] EXCEPT !.key = From(@, n)]]

mergeNode(rc, prefix, sub) ==
    CASE sub.t = "ext" ->
            Added(removeRef(rc, sub.h), ExtensionNode(prefix \o sub.key, sub.next))
      [] sub.t \in {"empty", "failed"} \/ prefix = <<>> -> Same(rc, sub)
      [] OTHER -> Added(rc, ExtensionNode(prefix, sub))

\* Mutant: a child that is known by its hash only is not looked at.
mergeExtensionUnloaded(st, rc, prefix, sub) == mergeNode(rc, prefix, sub)

mergeExtension(st, rc, prefix, sub) ==
    LET g == IF sub.t = "hash" THEN getFromStore(st, rc, sub.h) ELSE Same(rc, sub)
    IN  mergeNode(g.rc, prefix, g.n)

stripBranch(st, rc, children) ==
    LET left == {i \in Index : ~isEmpty(children[i])}
        last == Max(left)
    IN  CASE left = {} -> Same(rc, EmptyNode)
          [] left = {lastChild} -> Same(rc, children[lastChild])
          [] Cardinality(left) = 1 /\ last # lastChild ->
                mergeExtension(st, rc, <<last>>, children[last])
          [] OTHER -> Added(rc, BranchNode(children))

\* The items of kv that go to the child of the first one.
getLastIndex(kv) ==
    Max({n \in DOMAIN kv : \A i \in 1 .. n : splitPath(kv[i].key).i = splitPath(kv[1].key).i})

iterateBatch(st, rc, children, kv) ==
    IF kv = <<>> THEN [c |-> children, rc |-> rc, ok |-> TRUE]
    ELSE LET c == splitPath(kv[1].key).i
             n == getLastIndex(kv)
             group == SubSeq(kv, 1, n)
             r == putBatchIntoNode(st, rc, children[c],
                                   IF c = lastChild THEN group ELSE stripPrefix(1, group))
         IN  IF r.n = Failed THEN [c |-> children, rc |-> r.rc, ok |-> FALSE]
             ELSE iterateBatch(st, r.rc, [children EXCEPT ![c] = r.n], From(kv, n))

\* addToBranch; the caller has removed the reference to a branch of the trie.
addToBranch(st, rc, children, kv) ==
    LET r == iterateBatch(st, rc, children, kv)
    IN  IF r.ok THEN stripBranch(st, r.rc, r.c) ELSE Same(r.rc, Failed)

putBatchIntoExtensionNoPrefix(st, rc, key, next, kv) ==
    LET s == newSubTrie(rc, Tail(key), next, FALSE)
    IN  addToBranch(st, s.rc, [NoChildren EXCEPT ![Head(key)] = s.n], kv)

\* Mutant: the extension that is replaced keeps its reference.
putBatchIntoExtensionKept(st, rc, curr, kv) ==
    LET pref == lcp(lcpMany(kv), curr.key)
        tail == stripPrefix(Len(pref), kv)
        sub == IF pref = curr.key
               THEN putBatchIntoNode(st, rc, curr.next, tail)
               ELSE putBatchIntoExtensionNoPrefix(st, rc, From(curr.key, Len(pref)), curr.next, tail)
    IN  IF pref = <<>> THEN sub ELSE mergeExtension(st, sub.rc, pref, sub.n)

putBatchIntoExtension(st, rc, curr, kv) ==
    LET removed == removeRef(rc, curr.h)
        pref == lcp(lcpMany(kv), curr.key)
        tail == stripPrefix(Len(pref), kv)
        sub == IF pref = curr.key
               THEN putBatchIntoNode(st, removed, curr.next, tail)
               ELSE putBatchIntoExtensionNoPrefix(st, removed, From(curr.key, Len(pref)), curr.next, tail)
    IN  IF pref = <<>> THEN sub ELSE mergeExtension(st, sub.rc, pref, sub.n)

newSubTrieMany(st, rc, prefix, kv, value) ==
    LET first == kv[1]
        many == Len(kv) > 1
        here == IF first.key = <<>> THEN first.value ELSE value
        leaf == LeafNode(here)
        b == addToBranch(st, IF here = None THEN rc ELSE addRef(rc, leaf.h),
                         [NoChildren EXCEPT ![lastChild] = IF here = None THEN EmptyNode ELSE leaf], kv)
    IN  CASE first.key = <<>> /\ first.value = None /\ ~many -> Same(rc, EmptyNode)
          [] first.key = <<>> /\ first.value = None /\ many ->
                newSubTrieMany(st, rc, prefix, Tail(kv), None)
          [] first.key = <<>> /\ first.value # None /\ ~many -> newSubTrie(rc, prefix, leaf, TRUE)
          [] OTHER -> mergeExtension(st, b.rc, prefix, b.n)

putBatchIntoHash(st, rc, curr, kv) ==
    LET g == getFromStore(st, rc, curr.h)
    IN  IF g.n = Failed THEN g ELSE putBatchIntoNode(st, g.rc, g.n, kv)

putBatchIntoNode(st, rc, curr, kv) ==
    CASE curr.t = "leaf" -> newSubTrieMany(st, removeRef(rc, curr.h), <<>>, kv, curr.v)
      [] curr.t = "branch" -> addToBranch(st, removeRef(rc, curr.h), curr.c, kv)
      [] curr.t = "ext" -> putBatchIntoExtension(st, rc, curr, kv)
      [] curr.t = "hash" -> putBatchIntoHash(st, rc, curr, kv)
      [] curr.t = "empty" ->
            newSubTrieMany(st, rc, lcpMany(kv), stripPrefix(Len(lcpMany(kv)), kv), None)

PutBatch(st, rc, root, kv) == IF kv = <<>> THEN Same(rc, root) ELSE putBatchIntoNode(st, rc, root, kv)

-----------------------------------------------------------------------------
(* Collapse and reads.                                                     *)

RECURSIVE collapse(_, _), getWithPath(_, _, _, _), getProof(_, _, _), traverse(_, _, _, _, _)

collapse(depth, n) ==
    CASE n.t \in {"hash", "empty"} -> n
      [] depth = 0 /\ n.t \notin {"hash", "empty"} -> HashNode(n.h)
      [] depth > 0 /\ n.t = "leaf" -> n
      [] depth > 0 /\ n.t = "branch" -> [n EXCEPT !.c = [i \in Index |-> collapse(depth - 1, n.c[i])]]
      [] depth > 0 /\ n.t = "ext" -> [n EXCEPT !.next = collapse(depth - 1, @)]

\* What a read meets at a node of the trie; db is the set of hashes it can load.
Loaded(db, n) ==
    CASE n.t = "hash" /\ n.h \in db -> Decoded(n.h)
      [] n.t = "hash" /\ n.h \notin db -> Failed
      [] OTHER -> n

NotFound == [n |-> Failed, path |-> <<>>]

Below(digits, found) ==
    IF found.n = Failed THEN found ELSE [found EXCEPT !.path = digits \o @]

\* The node at the path and, unless strict, the first one below its end.
getWithPath(db, curr, path, strict) ==
    LET n == Loaded(db, curr)
        p == splitPath(path)
    IN  CASE n.t = "leaf" /\ path = <<>> -> [n |-> n, path |-> <<>>]
          [] n.t = "branch" /\ path = <<>> /\ ~strict -> [n |-> n, path |-> <<>>]
          [] n.t = "branch" /\ (path # <<>> \/ strict) ->
                Below(IF path = <<>> THEN <<>> ELSE <<p.i>>, getWithPath(db, n.c[p.i], p.rest, strict))
          [] n.t = "ext" /\ IsPrefix(n.key, path) ->
                Below(n.key, getWithPath(db, n.next, From(path, Len(n.key)), strict))
          [] n.t = "ext" /\ ~IsPrefix(n.key, path) /\ ~strict /\ IsPrefix(path, n.key) ->
                [n |-> n.next, path |-> n.key]
          [] OTHER -> NotFound

Get(db, root, key) ==
    LET n == getWithPath(db, root, key, TRUE).n IN IF n = Failed THEN None ELSE n.v

\* Mutant: a branch whose child is the leaf itself is left out of the proof.
getProofShort(db, curr, path) ==
    LET n == Loaded(db, curr)
        p == splitPath(path)
        rest == IF n.t = "branch" THEN getProof(db, n.c[p.i], p.rest)
                                  ELSE getProof(db, n.next, From(path, Len(n.key)))
    IN  CASE n.t = "leaf" /\ path = <<>> -> {n.h}
          [] n.t = "branch" /\ path = <<>> -> rest
          [] (n.t = "branch" /\ path # <<>>) \/ (n.t = "ext" /\ IsPrefix(n.key, path)) ->
                IF rest = None THEN None ELSE {n.h} \cup rest
          [] OTHER -> None

\* The nodes on the way to the key, or None.
getProof(db, curr, path) ==
    LET n == Loaded(db, curr)
        p == splitPath(path)
        rest == IF n.t = "branch" THEN getProof(db, n.c[p.i], p.rest)
                                  ELSE getProof(db, n.next, From(path, Len(n.key)))
    IN  CASE n.t = "leaf" /\ path = <<>> -> {n.h}
          [] n.t = "branch" \/ (n.t = "ext" /\ IsPrefix(n.key, path)) ->
                IF rest = None THEN None ELSE {n.h} \cup rest
          [] OTHER -> None

VerifyProof(h, key, proof) == Get(proof, HashNode(h), key)

\* bytes.Compare(a, b) < 0
Less(a, b) ==
    \/ a # b /\ IsPrefix(a, b)
    \/ \E i \in 1 .. Min({Len(a), Len(b)}) : SubSeq(a, 1, i - 1) = SubSeq(b, 1, i - 1) /\ a[i] < b[i]

\* The children of a branch in the order traverse visits them.
Visited(from, backwards) ==
    LET first == IF from # <<>> THEN Head(from) ELSE IF backwards THEN lastChild ELSE 0
        last == IF backwards THEN 0 ELSE IF from # <<>> THEN lastChild - 1 ELSE lastChild
    IN  IF backwards THEN [k \in 1 .. first - last + 1 |-> first - k + 1]
                     ELSE [k \in 1 .. last - first + 1 |-> first + k - 1]

\* Mutant: an extension that comes after from is passed over too.
FromBelowExact(key, from) ==
    CASE from # <<>> /\ IsPrefix(key, from) -> From(from, Len(key))
      [] from = <<>> -> <<>>
      [] OTHER -> None

\* What is left of from below an extension; None when it is passed over.
FromBelow(key, from) ==
    CASE from # <<>> /\ IsPrefix(key, from) -> From(from, Len(key))
      [] from = <<>> \/ Less(from, key) -> <<>>
      [] OTHER -> None

\* The leaves (*Billet).traverse shows, with their paths.
traverse(db, curr, path, from, backwards) ==
    LET n == Loaded(db, curr)
        rest == FromBelow(n.key, from)
        child(i) == traverse(db, n.c[i], IF i = lastChild THEN path ELSE Append(path, i),
                             IF from # <<>> /\ i = Head(from) THEN Tail(from) ELSE <<>>, backwards)
    IN  CASE n.t = "leaf" -> IF from = <<>> THEN <<[path |-> path, v |-> n.v]>> ELSE <<>>
          [] n.t = "branch" -> FoldLeft(LAMBDA acc, i : acc \o child(i), <<>>, Visited(from, backwards))
          [] n.t = "ext" ->
                IF rest = None THEN <<>> ELSE traverse(db, n.next, path \o n.key, rest, backwards)
          [] OTHER -> <<>>

\* Where the search for prefix and from starts: the digits below the prefix
\* that the start node is reached by, and what is left of from there; passed
\* says that all of it comes before from.
StartOf(path, from) ==
    CASE IsPrefix(path, from) -> [from |-> From(from, Len(path)), passed |-> FALSE]
      [] IsStrictPrefix(from, path) -> [from |-> <<>>, passed |-> FALSE]
      [] OTHER -> [from |-> <<>>, passed |-> Less(path, from)]

\* Find; from is None or a path.
Find(db, root, prefix, from, maxNum) ==
    LET start == getWithPath(db, root, prefix, FALSE)
        path == From(start.path, Len(prefix))
        s == StartOf(path, IF from = None THEN <<>> ELSE from)
        found == SelectSeq(traverse(db, start.n, path, s.from, FALSE), LAMBDA x : x.path # from)
    IN  IF start.n = Failed \/ (from \notin {None, <<>>} /\ s.passed) THEN <<>>
        ELSE SubSeq(found, 1, Min({maxNum, Len(found)}))

\* TrieStore.Seek with the whole range wanted.
Seek(db, root, prefix, from, backwards) ==
    LET start == getWithPath(db, root, prefix, FALSE)
        path == From(start.path, Len(prefix))
        s == StartOf(path, from)
        apart == ~IsPrefix(path, from) /\ ~IsPrefix(from, path)
    IN  IF start.n = Failed \/ (apart /\ s.passed = backwards) THEN <<>>
        ELSE traverse(db, start.n, path, s.from, backwards)

=============================================================================
