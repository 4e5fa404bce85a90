-------------------------------- MODULE MCWatch -------------------------------
(* Instances of TransferWatch for TLC. *)
EXTENDS TransferWatch
=============================================================================
