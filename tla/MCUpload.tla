------------------------------- MODULE MCUpload -------------------------------
(* Instances of SealedUpload for TLC. *)
EXTENDS SealedUpload

CONSTANTS p1, p2

OneProc == {p1}
TwoProcs == {p1, p2}
=============================================================================
