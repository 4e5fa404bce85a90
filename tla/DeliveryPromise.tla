--------------------------- MODULE DeliveryPromise ---------------------------
(***************************************************************************)
(* What the addressed inbox promises the two parties of one delivery,      *)
(* whatever runs, restarts and lost responses lie in between: the service  *)
(* knows a claim as downloaded only when the files are in place, verified  *)
(* only when downloaded, at most one verdict is ever given, and processed  *)
(* follows the verdict and its local record.                               *)
(***************************************************************************)
CONSTANT NoClaim

VARIABLES
    installed,  \* the recipient has the verified files
    known,      \* the <<receipt type, claim>> pairs the service holds
    recorded    \* the verified claim the recipient has on record, or NoClaim

vars == <<installed, known, recorded>>

Verdicts == {"verified", "rejected"}

Init == installed = FALSE /\ known = {} /\ recorded = NoClaim

Install ==
    /\ installed' = TRUE
    /\ UNCHANGED <<known, recorded>>

Allowed(type, c) ==
    CASE type = "downloaded" -> installed
      [] type = "verified" ->
            <<"downloaded", c>> \in known /\ \A k \in known : k[1] \notin Verdicts
      [] type = "rejected" -> \A k \in known : k[1] \notin Verdicts
      [] type = "processed" -> <<"verified", c>> \in known /\ recorded # NoClaim

Learn ==
    /\ \E k \in known' : known' = known \cup {k} /\ Allowed(k[1], k[2])
    /\ UNCHANGED <<installed, recorded>>

Record ==
    /\ <<"verified", recorded'>> \in known
    /\ UNCHANGED <<installed, known>>

Next == Install \/ Learn \/ Record

Spec == Init /\ [][Next]_vars
=============================================================================
