---------------------------- MODULE MCStateRoots ----------------------------
(* Instances of StateRoots for TLC.  Three of four validators run in the   *)
(* timely world, three signatures are a quorum there; the other worlds     *)
(* have two validators and need the signatures of both.                    *)
EXTENDS StateRoots

MCSenders == 0 .. 3
Equal == [v \in MCSenders |-> "r"]
OneOff == [Equal EXCEPT ![1] = "s"]
Never == 9

Timely == [up |-> {0, 1, 2}, local |-> Equal, first |-> <<0, 1, 2, 3>>, second |-> <<>>,
           designation |-> Never, timely |-> TRUE]
Observed == [Timely EXCEPT !.first = <<0, 1>>, !.local[2] = "s"]
Late == [Timely EXCEPT !.up = {0, 1}, !.first = <<0, 1>>, !.timely = FALSE]

\* A timely network, without and with a node beside the validators that has
\* another state; one that is not timely; one where a node has another state; new
\* validators, where node 1 has another index than before, while the votes are on
\* their way.  Lists are sorted, as DesignateAsRole sorts them.
MCWorlds ==
    {Timely, Observed, Late, [Late EXCEPT !.local = OneOff]}
    \union {[Late EXCEPT !.second = l, !.designation = 2] : l \in {<<1>>, <<1, 2>>}}
MCDesignated == {[Late EXCEPT !.second = <<1, 2>>, !.designation = 1]}
=============================================================================
