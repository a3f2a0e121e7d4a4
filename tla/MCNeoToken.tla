----------------------------- MODULE MCNeoToken -----------------------------
(* Instances of NeoToken for TLC: two holders, two candidates, one of     *)
(* which is also in the standby committee of two, so an epoch is two       *)
(* blocks.                                                                 *)
EXTENDS NeoToken

MCStandby == <<1, 2>>
=============================================================================
