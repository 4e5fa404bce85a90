-------------------------------- MODULE MCClaim -------------------------------
(* Instances of TransferClaim for TLC. *)
EXTENDS TransferClaim
CONSTANTS r1, r2
Two == {r1, r2}
=============================================================================
