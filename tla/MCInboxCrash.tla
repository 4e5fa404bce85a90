---------------------------- MODULE MCInboxCrash -----------------------------
(* One operator, one process at a time: every crash point of every command. *)
EXTENDS InboxDelivery
CONSTANTS p1, d1, d2
OneProc == {p1}
OneDir == {d1}
TwoDirs == {d1, d2}
AllCommands == {"receive", "rejected", "processed"}
ReceiveOnly == {"receive"}
Both == {TRUE, FALSE}
Always == {TRUE}
=============================================================================
