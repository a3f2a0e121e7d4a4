----------------------------- MODULE MCBlockSync -----------------------------
(***************************************************************************)
(* Instances of BlockSync: requests of two blocks and a ring of four.      *)
(***************************************************************************)
EXTENDS BlockSync
=============================================================================
