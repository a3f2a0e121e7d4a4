---------------------------- MODULE MCStateTrie ----------------------------
(***************************************************************************)
(* Instances of StateTrie and of SeekMerge for TLC.  A behaviour is either *)
(* one of the state trie, or one run of performSeek, by which the stores   *)
(* over the database, and the ones that historic invocations put over a    *)
(* TrieStore, read in key order; the other part stays as it is.            *)
(***************************************************************************)
EXTENDS StateTrie

CONSTANTS
    Prefix, Endings, Starts, Limits                \* those of SeekMerge

VARIABLES
    mem, ps, rng, cutPrefix, limit, memRes, iMem, kvMem, haveMem, psLeft, done, out, pc

Merge == INSTANCE SeekMerge

mergeVars ==
    <<mem, ps, rng, cutPrefix, limit, memRes, iMem, kvMem, haveMem, psLeft, done, out, pc>>

NoMerge ==
    /\ mem = <<>> /\ ps = {} /\ rng = <<>> /\ cutPrefix = FALSE /\ limit = 0
    /\ memRes = <<>> /\ iMem = 0 /\ kvMem = <<>> /\ haveMem = FALSE
    /\ psLeft = <<>> /\ done = FALSE /\ out = <<>> /\ pc = "none"

NoTrie == mode = CHOOSE m \in DOMAIN Sizes : TRUE

MCInit == Init /\ (NoMerge \/ (NoTrie /\ Merge!Init))

MCNext ==
    \/ pc = "none" /\ Next /\ UNCHANGED mergeVars
    \/ Merge!Next /\ UNCHANGED vars
    \/ pc = "end" /\ UNCHANGED <<vars, mergeVars>>

MCSpec == MCInit /\ [][MCNext]_<<vars, mergeVars>>

\* performSeek delivers the overlay of the two layers it merges, with and without
\* cutPrefix, but for the key that it mistakes for the layer's last one.
SeekIsOverlay == pc # "none" => Merge!SeekIsOverlay

\* The same with no exception: it fails.
SeekIsWhole == pc # "none" => Merge!SeekIsWhole

\* Two digits; keys of one and of two bytes, one of them the beginning of
\* others, and subtrees that are the same.
FourKeys == {<<0, 0>>, <<0, 1>>, <<0, 0, 0, 1>>, <<0, 0, 1, 1>>}
BlockSizes == [all |-> <<2, 1>>, latest |-> <<4, 2>>, gc |-> <<2, 1, 1>>]
SomeSearches == {<<>>, <<0, 0>>, <<0, 1>>, <<1, 0>>, <<0, 0, 0, 1>>, <<0, 0, 1, 0>>}

\* Every content of two layers over four keys, one of which starts with the
\* prefix twice.
OnePrefix == <<1>>
FourEndings == {<<>>, <<1>>, <<2>>, <<1, 2>>}
ThreeStarts == {<<>>, <<1, 1>>, <<2>>}
=============================================================================
