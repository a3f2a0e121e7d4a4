---------------------------- MODULE MCStateSync ----------------------------
(***************************************************************************)
(* Instances of StateSync for TLC: a trie in which a leaf has two parents, *)
(* and one in which an inner node is a child of the root and twice one of  *)
(* another branch.  Synchronisation points 4 and 6, state objects of three *)
(* items.                                                                  *)
(***************************************************************************)
EXTENDS StateSync

CONSTANTS r, t, a, c, b, l, m

MCChildren ==
    (r :> <<a, b>>) @@ (t :> <<a, c>>) @@ (a :> <<l>>) @@ (c :> <<a, a>>) @@ (b :> <<l, m>>)
        @@ (l :> <<>>) @@ (m :> <<>>)

\* Two nodes, which may be known or not, and one before bytes that are no node.
MCMessages == {<<a, l>>, <<l, Bad>>}
=============================================================================
