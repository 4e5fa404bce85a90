---------------------------- MODULE BundlePromise ----------------------------
(***************************************************************************)
(* What the commands that receive a bundle rely on: InboxDelivery and      *)
(* TransferClaim have a whole receive in two steps, a directory with       *)
(* .partial files in it and one with the files.  A receive puts every file *)
(* in place at once, or none; what it has put in place is not lost by a    *)
(* later one; only then does it report success, and nothing else; and only *)
(* a stop, or a removal that failed, leaves .partial files behind.         *)
(***************************************************************************)
VARIABLES
    stage,   \* of the receive at work: "none", "fetching" or "placed"
    parts,   \* are there .partial files in the directory?
    kept,    \* is every file of a verified bundle there?
    outcome  \* what the last receive reported

vars == <<stage, parts, kept, outcome>>

Init == stage = "none" /\ parts = FALSE /\ kept = FALSE /\ outcome = {"none"}

Begin ==
    /\ stage = "none" /\ ~parts /\ stage' = "fetching" /\ outcome' = {"none"}
    /\ UNCHANGED <<parts, kept>>

Fill ==
    /\ stage = "fetching" /\ parts' = TRUE
    /\ UNCHANGED <<stage, kept, outcome>>

\* By the receive that failed, or by the operator after it.
Clear ==
    /\ parts' = FALSE
    /\ UNCHANGED <<stage, kept, outcome>>

Place ==
    /\ stage = "fetching" /\ parts /\ stage' = "placed"
    /\ parts' = FALSE /\ kept' = TRUE
    /\ UNCHANGED outcome

Succeed ==
    /\ stage = "placed" /\ stage' = "none" /\ outcome' = {"ok"}
    /\ UNCHANGED <<parts, kept>>

Fail ==
    /\ stage = "fetching" /\ stage' = "none" /\ outcome' = {"error"}
    /\ UNCHANGED <<parts, kept>>

Stop ==
    /\ stage # "none" /\ stage' = "none" /\ outcome' = {"stopped"}
    /\ UNCHANGED <<parts, kept>>

Next == Begin \/ Fill \/ Clear \/ Place \/ Succeed \/ Fail \/ Stop

Spec == Init /\ [][Next]_vars
=============================================================================
