--------------------------- MODULE HandoffPromise ----------------------------
(***************************************************************************)
(* What a handoff promises its two devices, whatever is lost on the way    *)
(* and whoever else tries the code: the token goes to one receiver, once   *)
(* and for all, whose operator approved; the service holds it for that     *)
(* receiver alone; only that receiver opens it; and the offering device    *)
(* reports success only of a token that is there to be opened.             *)
(***************************************************************************)
VARIABLES
    agreed, \* receivers whose operators approved
    chosen, \* the receiver the token is sealed for, if any
    stored, \* the receiver the service holds it for, if any
    opened, \* the receiver that has opened it, if any
    told    \* has the offering device reported success?

vars == <<agreed, chosen, stored, opened, told>>

Init == agreed = {} /\ chosen = {} /\ stored = {} /\ opened = {} /\ told = FALSE

Agree ==
    /\ \E k \in agreed' : agreed' = agreed \cup {k}
    /\ UNCHANGED <<chosen, stored, opened, told>>

Choose ==
    /\ chosen = {} /\ \E k \in agreed : chosen' = {k}
    /\ UNCHANGED <<agreed, stored, opened, told>>

\* The device that stores it may report so at once, or after it has asked again.
Store ==
    /\ stored = {} /\ chosen # {} /\ stored' = chosen
    /\ told' \in {told, TRUE}
    /\ UNCHANGED <<agreed, chosen, opened>>

Tell ==
    /\ stored # {} /\ told' = TRUE
    /\ UNCHANGED <<agreed, chosen, stored, opened>>

Open ==
    /\ stored # {} /\ opened' = stored
    /\ UNCHANGED <<agreed, chosen, stored, told>>

Next == Agree \/ Choose \/ Store \/ Tell \/ Open

Spec == Init /\ [][Next]_vars
=============================================================================
