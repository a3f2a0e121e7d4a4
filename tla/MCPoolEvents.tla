---------------------------- MODULE MCPoolEvents ----------------------------
(***************************************************************************)
(* Instances of PoolEvents: two goroutines that pool, two requests.        *)
(***************************************************************************)
EXTENDS PoolEvents
=============================================================================
