------------------------------ MODULE MCLedger ------------------------------
(* Ledger on a chain of a few pages, with the constants of the .cfg files.  *)
EXTENDS Ledger

OneMTB == {4}
LowMTB == {2}
LoweredMTB == {3, 8}
=============================================================================
