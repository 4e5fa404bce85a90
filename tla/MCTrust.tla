------------------------------- MODULE MCTrust --------------------------------
EXTENDS RecipientTrust
CONSTANTS p1, p2, A, B
One == {p1}
Two == {p1, p2}
OneId == {A}
TwoIds == {A, B}
=============================================================================
