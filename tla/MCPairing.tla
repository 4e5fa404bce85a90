------------------------------ MODULE MCPairing -------------------------------
EXTENDS Pairing
CONSTANTS p1, p2
Two == {p1, p2}
=============================================================================
