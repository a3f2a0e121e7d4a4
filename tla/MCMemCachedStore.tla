-------------------------- MODULE MCMemCachedStore --------------------------
(***************************************************************************)
(* Instances of MemCachedStore for TLC.  Map identities are always         *)
(* interchangeable; keys and values are so when PrivateSets is all of      *)
(* ChangeSet.                                                              *)
(***************************************************************************)
EXTENDS MemCachedStore, TLC

AllSets == ChangeSet

\* Change sets that treat all the keys alike: all deleted, or none mentioned.
UniformSets == {Empty, [k \in Keys |-> NoValue]}

Interchangeable ==
    Permutations(Keys) \cup Permutations(Values) \cup Permutations(MapIds)
=============================================================================
