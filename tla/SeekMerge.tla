------------------------------ MODULE SeekMerge ------------------------------
(***************************************************************************)
(* performSeek of pkg/core/storage/memcached_store.go: the items of a      *)
(* cache layer are merged, in key order, with those of the store below,    *)
(* which its Seek delivers one by one.  Keys are sequences of bytes.       *)
(***************************************************************************)
EXTENDS Integers, SequencesExt

CONSTANTS
    Prefix,       \* rng.Prefix
    Endings,     \* what follows the prefix in the keys
    Starts,       \* rng.Start; the empty one means from the very first key
    Limits        \* the consumer stops the iteration after so many items

KeySet == {Prefix \o s : s \in Endings}

VARIABLES
    mem,          \* the layer: key -> "absent", "deleted" or "set"
    ps,           \* keys of the store below
    rng,          \* Start and Backwards
    cutPrefix,    \* cutPrefix
    limit,        \* items the consumer takes
    memRes,       \* sorted snapshot of the layer's items in the range
    iMem,         \* index of the item after kvMem
    kvMem,        \* the layer's item under comparison
    haveMem,      \* whether there is one
    psLeft,       \* what the Seek of the store below has still to deliver
    done,         \* the consumer has stopped
    out,          \* what the consumer got
    pc            \* "merge", "tail" or "end"

vars ==
    <<mem, ps, rng, cutPrefix, limit, memRes, iMem, kvMem, haveMem, psLeft, done, out, pc>>

\* bytes.Compare(x, y) < 0
Before(x, y) ==
    \E i \in DOMAIN y :
        /\ \A j \in 1 .. i - 1 : j \in DOMAIN x /\ x[j] = y[j]
        /\ i \in DOMAIN x => x[i] < y[i]

\* cmpFunc(x, y) < 0
Earlier(backwards, x, y) == IF backwards THEN Before(y, x) ELSE Before(x, y)

CutOff(key) == SubSeq(key, Len(Prefix) + 1, Len(key))

isKeyOK(r, key) ==
    r.start = <<>> \/ CutOff(key) = r.start \/ Earlier(r.backwards, r.start, CutOff(key))

Sorted(r, keys) ==
    SetToSortSeq({k \in keys : isKeyOK(r, k)}, LAMBDA x, y : Earlier(r.backwards, x, y))

Item(key) == [key |-> key, exists |-> mem[key] = "set"]

\* prepareSeekMemSnapshot and the sort at the head of performSeek.
Snapshot(m, r) == Sorted(r, {k \in KeySet : m[k] # "absent"})

NoItem == [key |-> <<>>, exists |-> FALSE]

Init ==
    /\ mem \in [KeySet -> {"absent", "deleted", "set"}]
    /\ ps \in SUBSET KeySet
    /\ rng \in [start : Starts, backwards : BOOLEAN]
    /\ cutPrefix \in BOOLEAN
    /\ limit \in Limits
    /\ memRes = [i \in DOMAIN Snapshot(mem, rng) |-> Item(Snapshot(mem, rng)[i])]
    /\ haveMem = (memRes # <<>>)
    /\ kvMem = IF memRes = <<>> THEN NoItem ELSE memRes[1]
    /\ iMem = IF memRes = <<>> THEN 1 ELSE 2
    /\ psLeft = Sorted(rng, ps)
    /\ done = FALSE
    /\ out = <<>>
    /\ pc = "merge"

-----------------------------------------------------------------------------
Cut(key) == IF cutPrefix THEN CutOff(key) ELSE key

\* cont(key, value): the value tells where the item comes from.
Deliver(key, from) ==
    /\ out' = Append(out, [key |-> Cut(key), from |-> from])
    /\ done' = (Len(out) + 1 = limit)

Skip == UNCHANGED <<out, done>>

\* The item of the layer is strictly before the one of the store below.
isMem == haveMem /\ Earlier(rng.backwards, kvMem.key, Head(psLeft))

\* mergeFunc, a turn that takes the item of the layer.  The key that was cut
\* for the consumer stays cut in kvMem until the next item replaces it.
MergeMem ==
    /\ pc = "merge" /\ ~done /\ psLeft # <<>> /\ isMem
    /\ IF kvMem.exists THEN Deliver(kvMem.key, "mem") ELSE Skip
    /\ IF done'
       THEN UNCHANGED <<iMem, kvMem, haveMem>>
       ELSE IF iMem <= Len(memRes)
       THEN kvMem' = memRes[iMem] /\ haveMem' = TRUE /\ iMem' = iMem + 1
       ELSE /\ haveMem' = FALSE
            /\ kvMem' = IF kvMem.exists THEN [kvMem EXCEPT !.key = Cut(@)] ELSE kvMem
            /\ UNCHANGED iMem
    /\ UNCHANGED <<mem, ps, rng, cutPrefix, limit, memRes, psLeft, pc>>

\* Mutant: an item of the store below is delivered although the layer has it.
MergePsAlways ==
    /\ pc = "merge" /\ ~done /\ psLeft # <<>> /\ ~isMem
    /\ Deliver(Head(psLeft), "ps")
    /\ psLeft' = Tail(psLeft)
    /\ UNCHANGED <<mem, ps, rng, cutPrefix, limit, memRes, iMem, kvMem, haveMem, pc>>

\* mergeFunc, the turn that takes the item of the store below, unless the layer
\* has the same key.
MergePs ==
    /\ pc = "merge" /\ ~done /\ psLeft # <<>> /\ ~isMem
    /\ IF kvMem.key # Head(psLeft) THEN Deliver(Head(psLeft), "ps") ELSE Skip
    /\ psLeft' = Tail(psLeft)
    /\ UNCHANGED <<mem, ps, rng, cutPrefix, limit, memRes, iMem, kvMem, haveMem, pc>>

\* The Seek of the store below is over.
SeekReturns ==
    /\ pc = "merge" /\ (done \/ psLeft = <<>>)
    /\ pc' = IF ~done /\ haveMem THEN "tail" ELSE "end"
    /\ iMem' = iMem - 1
    /\ UNCHANGED <<mem, ps, rng, cutPrefix, limit, memRes, kvMem, haveMem, psLeft, done, out>>

\* The loop over what is left of the layer.
TailTurn ==
    /\ pc = "tail"
    /\ IF done \/ iMem > Len(memRes)
       THEN pc' = "end" /\ Skip /\ UNCHANGED <<iMem, kvMem>>
       ELSE /\ kvMem' = memRes[iMem]
            /\ iMem' = iMem + 1
            /\ IF memRes[iMem].exists THEN Deliver(memRes[iMem].key, "mem") ELSE Skip
            /\ UNCHANGED pc
    /\ UNCHANGED <<mem, ps, rng, cutPrefix, limit, memRes, haveMem, psLeft>>

Next == MergeMem \/ MergePs \/ SeekReturns \/ TailTurn

Spec == Init /\ [][Next]_vars

-----------------------------------------------------------------------------
(* Properties.                                                             *)

\* What a reader of the two layers as one store expects, the keys but: the keys of
\* the range that the layer set, or that it does not mention and the store below
\* has, in order.
OverlayBut(but) ==
    LET live == {k \in KeySet \ but : mem[k] = "set" \/ (mem[k] = "absent" /\ k \in ps)}
        seq == Sorted(rng, live)
    IN  [i \in DOMAIN seq |->
            [key |-> Cut(seq[i]), from |-> IF mem[seq[i]] = "set" THEN "mem" ELSE "ps"]]

\* A key past the last item of the layer that is what is left of the key of that
\* item when the prefix is cut off it.
Mistaken ==
    {k \in KeySet :
        /\ cutPrefix /\ memRes # <<>> /\ Last(memRes).exists
        /\ k = CutOff(Last(memRes).key)
        /\ Earlier(rng.backwards, Last(memRes).key, k)}

Delivers(seq) ==
    /\ IsPrefix(out, seq)
    /\ pc = "end" => Len(out) = IF Len(seq) < limit THEN Len(seq) ELSE limit

\* performSeek delivers the overlay of the two layers, cut off where the
\* consumer stops: no key twice, none skipped, none out of order, no deleted
\* key, no value that the layer has overwritten.  It does so with and without
\* cutPrefix (SeekAsync of the DAO sets it), except that it skips a key of the
\* store below that it mistakes for the last one of the layer, the prefix of
\* which it has cut off before it compares the two.
SeekIsOverlay == Delivers(OverlayBut(Mistaken))

\* The same with no exception, which is what the comment of performSeek promises
\* ("`cutPrefix` denotes whether provided key needs to be cut off the resulting
\* keys", and nothing else): it fails.
SeekIsWhole == Delivers(OverlayBut({}))

=============================================================================
