------------------------------ MODULE MCRotation ------------------------------
(* Instances of IdentityRotation for TLC. *)
EXTENDS IdentityRotation

CONSTANTS p1, p2

Both == {"encryption", "signing"}
One == {p1}
Two == {p1, p2}
OnlyEncryption == {"encryption"}
=============================================================================
