---------------------------- MODULE MCBlockQueue ----------------------------
(***************************************************************************)
(* Instances of BlockQueue: a ring of two slots, elements up to twice its  *)
(* length and one index that also comes in a bad form.                     *)
(***************************************************************************)
EXTENDS BlockQueue
=============================================================================
