---------------------------- MODULE MCStateChange ----------------------------
(* StateChange on a chain of three pages of header hashes.                  *)
EXTENDS StateChange

Both == {"jump", "reset"}
JumpOnly == {"jump"}
ResetOnly == {"reset"}
=============================================================================
