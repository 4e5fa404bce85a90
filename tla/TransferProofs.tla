----------------------------- MODULE TransferProofs ---------------------------
(***************************************************************************)
(* Proofs about SealedUpload, what the owner of a transfer does, and about *)
(* TransferWatch, which watches each of its requests.                      *)
(*                                                                         *)
(* SealedUpload: types, that the owner keeps the ticket (OwnerInv, for any *)
(* processes), and that what recipients fetch is consistent (SoleInv, for  *)
(* one command at a time).                                                 *)
(*                                                                         *)
(* TransferWatch: types, and TimerTruthful.  That the timer fires only     *)
(* after a whole Timeout without a byte needs NotEarly: a running timer    *)
(* has at least as long to go as is missing from Timeout; and StopIsFinal: *)
(* a touch after stop moves bytes but resets no timer.  That a stall is    *)
(* reported only of a body that is being read needs ActiveReads.           *)
(***************************************************************************)
EXTENDS SealedUpload, TransferWatch, FiniteSetTheorems, TLAPS

---------------------------------------------------------------------------
(* SealedUpload *)

\* What a command at each step has in hand, whether or not there is a ticket (t).
Fits(r, t) ==
    /\ r \in Run
    /\ r.pc \in {"idle", "create", "ticket", "inspect", "encrypt", "upload"} => r.part \in Parts
    /\ r.pc \notin {"idle", "inspect"} => r.plan \in Versions
    /\ r.pc \notin {"idle", "create", "ticket", "abandon"} => t

\* TypeOK without the commands.
StoreTypes ==
    /\ state \in States
    /\ parts \in [Parts -> Versions \cup {None}]
    /\ {manifest, delivery, finished} \subseteq Manifest \cup {NoManifest}
    /\ answered \subseteq {DeliveryKey} \cup {PartKey(n, v) : n \in Parts, v \in Versions}
    /\ source \in Versions /\ past \subseteq Versions
    /\ ticket \in BOOLEAN /\ leftover \in BOOLEAN /\ stranded \in BOOLEAN
    /\ manifests \in Nat /\ faults \in Nat /\ edits \in Nat

\* What every command has in hand fits its step.
RunsFit == run \in [Procs -> Run] /\ \A p \in Procs : Fits(run[p], ticket)

\* The invariant for any processes.  OwnerKeepsTicket alone is not inductive: a command that
\* uploads must be known to have its ticket, which Fits says.
OwnerInv == StoreTypes /\ RunsFit /\ OwnerKeepsTicket

\* The flags, apart from the arithmetic.
LEMMA Booleans ==
    ASSUME OwnerInv PROVE ticket \in BOOLEAN /\ leftover \in BOOLEAN /\ stranded \in BOOLEAN
    BY DEF OwnerInv, StoreTypes

\* A command that goes on to another part is still one.
LEMMA PartAndStep ==
    ASSUME NEW r \in Run, NEW k \in Nat, NEW pc \in PCs
    PROVE  [r EXCEPT !.part = k, !.pc = pc] \in Run
    BY DEF Run

\* An idle command has nothing in hand.
LEMMA IdleFits == \A t \in BOOLEAN : Fits(Idle, t)
    BY UploadAssumption DEF Fits, Idle, Run, PCs, Parts, Nowhere, NoManifest, Manifest, None

\* A command that goes on to another step has what that step needs.
LEMMA GoFits ==
    ASSUME NEW t, NEW u, NEW r, Fits(r, t), t => u, NEW pc \in PCs \ {"idle", "create", "inspect"},
           r.pc # "inspect", r.pc # "idle",
           pc \in {"ticket", "encrypt", "upload"} => r.part \in Parts,
           pc \in {"ticket", "abandon"} \/ u
    PROVE  Fits([r EXCEPT !.pc = pc], u)
    BY DEF Fits, Run

\* A step that replaces one command's record by one that fits.
LEMMA Moves ==
    ASSUME RunsFit, NEW p \in Procs, NEW r, Fits(r, ticket'), run' = [run EXCEPT ![p] = r],
           ticket => ticket'
    PROVE  RunsFit'
    BY DEF RunsFit, Fits

\* A step that ends a command, and one that moves it on.
LEMMA Ends ==
    ASSUME RunsFit, NEW p \in Procs, End(p), ticket => ticket', ticket' \in BOOLEAN
    PROVE  RunsFit' /\ run'[p].pc = "idle" /\ run' = [run EXCEPT ![p] = Idle]
    BY IdleFits, Moves DEF End, Idle, RunsFit

LEMMA Goes ==
    ASSUME RunsFit, NEW p \in Procs, NEW pc \in PCs \ {"idle", "create", "inspect"}, Goto(p, pc),
           ~At(p, "inspect"), ~At(p, "idle"), ticket => ticket',
           pc \in {"ticket", "encrypt", "upload"} => run[p].part \in Parts,
           pc \in {"ticket", "abandon"} \/ ticket'
    PROVE  RunsFit' /\ run'[p].pc = pc /\ run' = [run EXCEPT ![p] = [run[p] EXCEPT !.pc = pc]]
<1>1. run' = [run EXCEPT ![p] = [run[p] EXCEPT !.pc = pc]]
    BY DEF Goto, RunsFit
<1>2. Fits([run[p] EXCEPT !.pc = pc], ticket')
    BY GoFits DEF RunsFit, At
<1>. QED
    BY <1>1, <1>2, Moves DEF RunsFit, Run

\* Steps that leave the service, the ticket and what is remembered of a lost reservation alone
\* keep the ticket's promise if the command does not turn away from writing the ticket.
LEMMA TicketQuiet ==
    ASSUME OwnerKeepsTicket, NEW p \in Procs, UNCHANGED <<state, parts, manifest>>,
           ticket => ticket', stranded => stranded',
           \A q \in Procs \ {p} : run'[q] = run[q],
           run[p].pc \in {"ticket", "abandon"} =>
               run'[p].pc \in {"ticket", "abandon"} \/ stranded' \/ ticket'
    PROVE  OwnerKeepsTicket'
    BY DEF OwnerKeepsTicket, At

\* The steps before anything is stored: a command starts and hashes the sources.
LEMMA OwnerStarts ==
    ASSUME OwnerInv, NEW p \in Procs, StartCreate(p) \/ Resume(p) \/ Inspect(p)
    PROVE  OwnerInv'
<1>. USE DEF OwnerInv
<1>0. StoreTypes' /\ UNCHANGED <<state, parts, manifest, ticket, stranded>>
    BY DEF StartCreate, Resume, Inspect, StoreTypes, service, disk, sources, bounds
<1>a. /\ source \in Versions /\ parts \in [Parts -> Versions \cup {None}]
      /\ ticket' = ticket /\ ticket \in BOOLEAN
    BY <1>0 DEF StoreTypes
<1>b. run \in [Procs -> Run] /\ Fits(run[p], ticket)
    BY DEF RunsFit
<1>1. RunsFit' /\ \A q \in Procs \ {p} : run'[q] = run[q]
  <2>1. CASE StartCreate(p)
    <3>. DEFINE r == [run[p] EXCEPT !.pc = "create", !.plan = source]
    <3>1. run' = [run EXCEPT ![p] = r]
        BY <2>1 DEF StartCreate, RunsFit
    <3>2. Fits(r, ticket')
        BY <1>a, <1>b, <2>1 DEF Fits, Run, PCs, StartCreate, At
    <3>. QED
        BY <1>0, <3>1, <3>2, Moves DEF RunsFit
  <2>2. CASE Resume(p)
    <3>. DEFINE r == [run[p] EXCEPT !.pc = "inspect", !.kept = parts]
    <3>1. run' = [run EXCEPT ![p] = r]
        BY <2>2 DEF Resume, RunsFit
    <3>2. Fits(r, ticket')
        BY <1>a, <1>b, <2>2 DEF Fits, Run, PCs, Resume, At
    <3>. QED
        BY <1>0, <3>1, <3>2, Moves DEF RunsFit
  <2>3. CASE Inspect(p) /\ source \in Grown
        BY <1>a, <1>b, <2>3, Ends DEF Inspect, End
  <2>4. CASE Inspect(p) /\ source \notin Grown
    <3>. DEFINE r == [run[p] EXCEPT !.pc = "encrypt", !.plan = source]
    <3>1. run' = [run EXCEPT ![p] = r]
        BY <2>4 DEF Inspect, RunsFit
    <3>2. Fits(r, ticket')
        BY <1>a, <1>b, <2>4 DEF Fits, Run, PCs, Inspect, At
    <3>. QED
        BY <1>0, <3>1, <3>2, Moves DEF RunsFit
  <2>. QED
    BY <2>1, <2>2, <2>3, <2>4
<1>2. run[p].pc \notin {"ticket", "abandon"}
    BY DEF StartCreate, Resume, Inspect, At
<1>. QED
    BY <1>0, <1>1, <1>2, TicketQuiet

\* The steps at which a reservation may be left without its ticket.
LEMMA OwnerCreates ==
    ASSUME OwnerInv, NEW p \in Procs, Reserve(p) \/ WriteTicket(p) \/ Abandon(p)
    PROVE  OwnerInv'
<1>. USE DEF OwnerInv
<1>1. ASSUME Reserve(p) PROVE OwnerInv'
  <2>1. RunsFit' /\ run'[p].pc \in {"idle", "ticket"}
    <3>1. CASE Goto(p, "ticket")
        BY <1>1, <3>1, Goes DEF Reserve, disk, At, PCs, RunsFit, Fits
    <3>2. CASE End(p)
        BY <1>1, <3>2, Ends DEF Reserve, disk, StoreTypes
    <3>. QED
        BY <1>1, <3>1, <3>2 DEF Reserve, Proceed
  <2>2. StoreTypes'
    BY <1>1 DEF Reserve, Proceed, Fault, NoFault, StoreTypes, States, disk, sources
  <2>3. OwnerKeepsTicket'
    BY <1>1, <2>1 DEF Reserve, OwnerKeepsTicket, disk
  <2>. QED
    BY <2>1, <2>2, <2>3
<1>2. ASSUME WriteTicket(p) PROVE OwnerInv'
  <2>. ticket => ticket'
    BY <1>2 DEF WriteTicket
  <2>1. CASE ticket' = TRUE /\ Goto(p, "encrypt") /\ NoFault /\ UNCHANGED stranded
    <3>1. RunsFit'
        BY <1>2, <2>1, Goes DEF WriteTicket, At, PCs, RunsFit, Fits
    <3>. QED
        BY <1>2, <2>1, <3>1 DEF WriteTicket, StoreTypes, OwnerKeepsTicket, service, sources, NoFault
  <2>2. CASE Goto(p, "abandon") /\ Fault /\ UNCHANGED <<ticket, stranded>>
    <3>1. RunsFit' /\ run'[p].pc = "abandon"
        BY <1>2, <2>2, Goes DEF WriteTicket, At, PCs
    <3>. QED
        BY <1>2, <2>2, <3>1 DEF WriteTicket, StoreTypes, OwnerKeepsTicket, service, sources, Fault
  <2>3. CASE stranded' = TRUE /\ End(p) /\ Fault /\ UNCHANGED ticket
    <3>1. RunsFit'
        BY <1>2, <2>3, Ends DEF StoreTypes
    <3>. QED
        BY <1>2, <2>3, <3>1 DEF WriteTicket, StoreTypes, OwnerKeepsTicket, service, sources, Fault
  <2>. QED
    BY <1>2, <2>1, <2>2, <2>3 DEF WriteTicket
<1>3. ASSUME Abandon(p) PROVE OwnerInv'
  <2>1. RunsFit'
    BY <1>3, Ends DEF Abandon, disk, StoreTypes
  <2>2. StoreTypes'
    <3>1. state' \in States
        BY <1>3 DEF Abandon, StoreTypes, States
    <3>2. stranded' \in BOOLEAN
        BY ONLY <1>3, Booleans, OwnerInv, Zenon DEF Abandon
    <3>3. faults' \in Nat
        BY <1>3 DEF Abandon, Fault, NoFault, StoreTypes
    <3>. QED
        BY <1>3, <3>1, <3>2, <3>3 DEF Abandon, StoreTypes, disk, sources
  <2>3. OwnerKeepsTicket'
    BY <1>3 DEF Abandon, OwnerKeepsTicket, disk
  <2>. QED
    BY <2>1, <2>2, <2>3
<1>. QED
    BY <1>1, <1>2, <1>3

\* The steps of a command that has its ticket.
LEMMA OwnerUploads ==
    ASSUME OwnerInv, NEW p \in Procs,
           \/ Encrypt(p) \/ KeepPart(p) \/ UploadPart(p) \/ WriteNewTicket(p) \/ RenameTicket(p)
           \/ UploadManifest(p) \/ PrepareDelivery(p) \/ Complete(p)
    PROVE  OwnerInv'
<1>. USE DEF OwnerInv
<1>0. /\ run \in [Procs -> Run] /\ Fits(run[p], ticket) /\ ticket \in BOOLEAN
      /\ run[p] \in Run /\ run[p].pc \notin {"idle", "create", "ticket", "abandon", "inspect"}
      /\ ticket /\ run[p].plan \in Versions
    BY DEF RunsFit, Fits, StoreTypes, Encrypt, KeepPart, UploadPart, WriteNewTicket, RenameTicket,
        UploadManifest, PrepareDelivery, Complete, At
<1>1. UNCHANGED <<ticket, stranded>>
    BY DEF Encrypt, KeepPart, UploadPart, WriteNewTicket, RenameTicket,
        UploadManifest, PrepareDelivery, Complete, disk
<1>2. OwnerKeepsTicket'
    BY <1>0, <1>1 DEF OwnerKeepsTicket
<1>. HIDE DEF OwnerInv
<1>e. ASSUME End(p) PROVE RunsFit'
    BY <1>0, <1>1, <1>e, Ends DEF OwnerInv
<1>g. ASSUME NEW pc \in {"newticket", "rename", "manifest", "deliver", "complete"}, Goto(p, pc) PROVE RunsFit'
    BY <1>0, <1>1, <1>g, Goes DEF OwnerInv, At, PCs
<1>a. ASSUME Advance(p), At(p, "upload") PROVE RunsFit'
  <2>. DEFINE pc == IF run[p].part = NParts THEN "newticket" ELSE "upload"
              r == [run[p] EXCEPT !.part = @ + 1, !.pc = pc]
  <2>1. run' = [run EXCEPT ![p] = r]
    BY <1>a, <1>0 DEF Advance
  <2>2. Fits(r, ticket')
    <3>1. /\ r \in Run /\ r.part = run[p].part + 1 /\ r.plan = run[p].plan
          /\ r.pc = IF run[p].part = NParts THEN "newticket" ELSE "upload"
      <4>1. pc \in {"newticket", "upload"}
        OBVIOUS
      <4>2. run[p].part \in Nat
        BY <1>0 DEF Run
      <4>3. r.part = run[p].part + 1 /\ r.plan = run[p].plan /\ r.pc = pc
        BY <1>0 DEF Run
      <4>. HIDE DEF pc
      <4>4. pc \in PCs /\ run[p].part + 1 \in Nat
        BY <4>1, <4>2 DEF PCs
      <4>5. r \in Run
        BY ONLY <1>0, <4>4, PartAndStep
      <4>. QED
        BY <4>3, <4>5 DEF pc
    <3>2. run[p].part \in Parts
        BY <1>0, <1>a DEF Fits, At
    <3>3. r.pc = "upload" => r.part \in Parts
        BY <3>1, <3>2, UploadAssumption DEF Parts
    <3>. QED
        BY <3>1, <3>3, <1>0, <1>1 DEF Fits
  <2>. QED
    BY <1>1, <2>1, <2>2, Moves DEF OwnerInv
<1>3. CASE Encrypt(p)
  <2>1. RunsFit'
    <3>1. CASE Goto(p, "upload")
        BY <1>0, <1>1, <1>3, <3>1, Goes DEF OwnerInv, At, PCs, Encrypt, Fits
    <3>. QED
        BY <1>3, <3>1, <1>e DEF Encrypt
  <2>2. faults' \in Nat
    BY <1>3 DEF Encrypt, Fault, NoFault, OwnerInv, StoreTypes
  <2>. QED
    BY <1>3, <1>2, <2>1, <2>2 DEF Encrypt, OwnerInv, StoreTypes, service, sources, disk
<1>4. CASE KeepPart(p)
    BY <1>4, <1>a, <1>2 DEF KeepPart, OwnerInv, StoreTypes, service, sources, disk, bounds
<1>5. CASE UploadPart(p)
  <2>1. RunsFit'
    BY <1>5, <1>a, <1>e DEF UploadPart
  <2>2. faults' \in Nat
    BY <1>5 DEF UploadPart, Fault, NoFault, OwnerInv, StoreTypes
  <2>3. run[p].part \in Parts
    BY <1>5, <1>0 DEF UploadPart, At, Fits
  <2>4. parts' \in [Parts -> Versions \cup {None}]
    BY <1>5, <1>0, <2>3 DEF UploadPart, OwnerInv, StoreTypes
  <2>5. answered' \subseteq {DeliveryKey} \cup {PartKey(n, v) : n \in Parts, v \in Versions}
    BY <1>5, <1>0, <2>3 DEF UploadPart, OwnerInv, StoreTypes
  <2>. QED
    BY <1>5, <1>2, <2>1, <2>2, <2>4, <2>5 DEF UploadPart, OwnerInv, StoreTypes, sources, disk
<1>6. CASE WriteNewTicket(p)
  <2>. DEFINE m == [version |-> run[p].plan, nonce |-> manifests']
              r == [run[p] EXCEPT !.pc = "rename", !.sealed = m]
  <2>1. CASE ~leftover /\ leftover' = TRUE /\ manifests' = manifests + 1 /\ NoFault
             /\ run' = [run EXCEPT ![p].pc = "rename", ![p].sealed = m]
    <3>1. run' = [run EXCEPT ![p] = r]
        BY <2>1, <1>0
    <3>2. manifests' \in Nat /\ faults' \in Nat /\ leftover' \in BOOLEAN
        BY <2>1 DEF OwnerInv, StoreTypes, NoFault
    <3>3. Fits(r, ticket')
        BY <1>0, <1>1, <3>2 DEF Fits, Run, PCs, Manifest
    <3>4. RunsFit'
        BY <1>1, <3>1, <3>3, Moves DEF OwnerInv
    <3>. QED
        BY <1>6, <1>1, <1>2, <3>2, <3>4 DEF WriteNewTicket, OwnerInv, StoreTypes, service, sources
  <2>2. CASE End(p) /\ (Fault \/ NoFault) /\ UNCHANGED <<leftover, manifests>>
    <3>1. RunsFit'
        BY <2>2, <1>e
    <3>2. faults' \in Nat
        BY <2>2 DEF OwnerInv, StoreTypes, Fault, NoFault
    <3>. QED
        BY <1>6, <1>1, <1>2, <2>2, <3>1, <3>2 DEF WriteNewTicket, OwnerInv, StoreTypes, service, sources
  <2>. QED
    BY <1>6, <2>1, <2>2 DEF WriteNewTicket
<1>7. CASE RenameTicket(p)
  <2>1. RunsFit'
    BY <1>7, <1>e, <1>g DEF RenameTicket, Proceed
  <2>2. faults' \in Nat
    BY <1>7 DEF RenameTicket, Proceed, Fault, NoFault, OwnerInv, StoreTypes
  <2>3. leftover' \in BOOLEAN
    BY <1>7, Zenon DEF RenameTicket
  <2>. QED
    BY <1>1, <1>7, <1>2, <2>1, <2>2, <2>3 DEF RenameTicket, OwnerInv, StoreTypes, service, sources
<1>8. CASE UploadManifest(p)
  <2>1. RunsFit'
    BY <1>8, <1>e, <1>g DEF UploadManifest, Proceed
  <2>2. faults' \in Nat
    BY <1>8 DEF UploadManifest, Proceed, Fault, NoFault, OwnerInv, StoreTypes
  <2>3. manifest' \in Manifest \cup {NoManifest}
    BY <1>8, <1>0 DEF UploadManifest, Run
  <2>. QED
    BY <1>8, <1>2, <2>1, <2>2, <2>3 DEF UploadManifest, OwnerInv, StoreTypes, sources, disk
<1>9. CASE PrepareDelivery(p)
  <2>1. RunsFit'
    BY <1>9, <1>e, <1>g DEF PrepareDelivery, Proceed
  <2>2. faults' \in Nat
    BY <1>9 DEF PrepareDelivery, Proceed, Fault, NoFault, OwnerInv, StoreTypes
  <2>3. delivery' \in Manifest \cup {NoManifest}
    BY <1>9, <1>0 DEF PrepareDelivery, Run, OwnerInv, StoreTypes
  <2>4. answered' \subseteq {DeliveryKey} \cup {PartKey(n, v) : n \in Parts, v \in Versions}
    BY <1>9 DEF PrepareDelivery, OwnerInv, StoreTypes
  <2>. QED
    BY <1>9, <1>2, <2>1, <2>2, <2>3, <2>4 DEF PrepareDelivery, OwnerInv, StoreTypes, sources, disk
<1>10. CASE Complete(p)
  <2>1. RunsFit'
    BY <1>10, <1>e DEF Complete
  <2>2. state' \in States /\ finished' \in Manifest \cup {NoManifest}
    BY <1>10, <1>0 DEF Complete, Run, OwnerInv, StoreTypes, States
  <2>. QED
    BY <1>10, <1>2, <2>1, <2>2 DEF Complete, OwnerInv, StoreTypes, sources, disk, bounds
<1>. QED
    BY <1>3, <1>4, <1>5, <1>6, <1>7, <1>8, <1>9, <1>10

\* A refusal, a failure or a stop.
LEMMA OwnerEnds ==
    ASSUME OwnerInv, NEW p \in Procs, Refused(p) \/ Crash(p)
    PROVE  OwnerInv'
<1>1. RunsFit' /\ run' = [run EXCEPT ![p] = Idle]
    BY Ends DEF Refused, Crash, disk, OwnerInv, StoreTypes
<1>2. faults' \in Nat
    BY DEF Refused, Crash, Fault, NoFault, OwnerInv, StoreTypes
<1>3. stranded' \in BOOLEAN
    BY Booleans, Zenon DEF Refused, Crash
<1>4. UNCHANGED <<state, parts, manifest, ticket>>
    BY DEF Refused, Crash, service, disk
<1>7. stranded => stranded'
    BY Zenon DEF Refused, Crash
<1>5. run[p].pc \in {"ticket", "abandon"} => stranded'
    BY DEF Refused, Crash, At
<1>6. OwnerKeepsTicket'
    BY <1>1, <1>4, <1>5, <1>7, TicketQuiet DEF OwnerInv, RunsFit
<1>. QED
    BY <1>1, <1>2, <1>3, <1>6 DEF Refused, Crash, OwnerInv, StoreTypes, service, sources, disk

\* What the owner does outside the commands.
LEMMA OwnerOthers == ASSUME OwnerInv, Revoke \/ Edit \/ UNCHANGED vars PROVE OwnerInv'
<1>1. CASE Revoke
  <2>1. state' \in States
    BY <1>1 DEF Revoke, States
  <2>2. UNCHANGED run /\ UNCHANGED <<ticket, stranded, parts, manifest>>
    BY <1>1 DEF Revoke, disk
  <2>3. RunsFit' /\ OwnerKeepsTicket'
    BY <1>1, <2>2 DEF Revoke, OwnerInv, RunsFit, OwnerKeepsTicket, At
  <2>. QED
    BY <1>1, <2>1, <2>3 DEF Revoke, OwnerInv, StoreTypes, sources, disk, bounds
<1>2. CASE Edit
    BY <1>2 DEF Edit, OwnerInv, StoreTypes, RunsFit, OwnerKeepsTicket, At, service, disk
<1>3. CASE UNCHANGED vars
    BY <1>3 DEF vars, OwnerInv, StoreTypes, RunsFit, OwnerKeepsTicket, At, service, sources, disk, bounds
<1>. QED
    BY <1>1, <1>2, <1>3

\* The invariant holds for any processes, parts, versions, faults and edits.
THEOREM OwnerInvariant == Spec => []OwnerInv
<1>1. Init => OwnerInv
  <2>. SUFFICES ASSUME Init PROVE OwnerInv OBVIOUS
  <2>1. RunsFit
    BY IdleFits DEF Init, RunsFit, Fits
  <2>2. StoreTypes
    <3>1. ticket \in BOOLEAN /\ leftover \in BOOLEAN /\ stranded \in BOOLEAN
        BY Zenon DEF Init
    <3>2. parts \in [Parts -> Versions \cup {None}]
        BY DEF Init, Nowhere
    <3>. QED
        BY <3>1, <3>2, UploadAssumption DEF Init, StoreTypes, States
  <2>3. OwnerKeepsTicket
    BY DEF Init, OwnerKeepsTicket
  <2>. QED
    BY <2>1, <2>2, <2>3 DEF OwnerInv
<1>2. OwnerInv /\ [Next]_vars => OwnerInv'
    BY OwnerStarts, OwnerCreates, OwnerUploads, OwnerEnds, OwnerOthers DEF Next, Starting, Uploading
<1>. QED
    BY <1>1, <1>2, PTL DEF Spec

\* Type correctness of the owner's side and of what the service holds.
THEOREM SealedTypes == Spec => []TypeOK
<1>1. OwnerInv => TypeOK
    BY DEF OwnerInv, StoreTypes, RunsFit, Fits, TypeOK, At
<1>. QED
    BY <1>1, OwnerInvariant, PTL

\* Nothing is stored without a ticket on disk, and a reservation without one is still being
\* handled, was revoked, or is counted as stranded (transfer.go 256-292).
THEOREM SealedOwnerKeepsTicket == Spec => []OwnerKeepsTicket
    BY OwnerInvariant, PTL DEF OwnerInv

\* What is known of the sources: every version that was hashed or uploaded is one they had.
History ==
    /\ IsFiniteSet(past) /\ source \in past /\ Cardinality(past) <= edits + 1
    /\ \A n \in Parts, v \in Versions : PartKey(n, v) \in answered => v \in past

\* A part whose present version was uploaded once still has it.
Fresh == ~Undone => \A n \in Parts : PartKey(n, source) \in answered => parts[n] = source

\* What a command with a plan knows of the parts.
Follows(r) ==
    /\ \A n \in Parts : PartKey(n, r.plan) \in answered => parts[n] = r.plan
    /\ r.plan # source => \A n \in Parts : PartKey(n, source) \notin answered
    /\ r.pc = "upload" => \A n \in Parts : n < r.part => parts[n] = r.plan
    /\ r.pc \in {"newticket", "rename", "manifest", "deliver", "complete"} =>
         \A n \in Parts : parts[n] = r.plan

\* What is known of one command while it is the only one.
Sound(r) ==
    /\ r.pc = "idle" => r = Idle
    /\ r.pc \in {"create", "ticket", "abandon", "inspect", "encrypt"} => r.part = 1
    /\ r.pc = "inspect" => r.plan = None
    /\ r.plan \in past \cup {None}
    /\ r.pc # "idle" => \A n \in Parts : n >= r.part => r.kept[n] = parts[n]
    /\ r.pc \in {"rename", "manifest", "deliver", "complete"} => r.sealed.version = r.plan
    /\ r.plan # None /\ ~Undone => Follows(r)

\* The invariant for one command at a time.  ContentMatches says nothing of a transfer that
\* is still uploading; Follows carries what completing it will rest on, part by part, and
\* Fresh what the next command's plan will find.
SoleInv(p) ==
    /\ OwnerInv
    /\ History /\ Fresh
    /\ state = "none" => parts = Nowhere
    /\ Sound(run[p])
    /\ ContentMatches

\* An edit that is not undone brings a version the sources never had.
LEMMA EditHistory ==
    ASSUME OwnerInv, History, Edit
    PROVE  /\ History' /\ (Undone => Undone')
           /\ ~Undone' => source' \notin past
<1>1. /\ past' = past \cup {source'} /\ edits' = edits + 1 /\ edits \in Nat /\ source' \in Versions
      /\ answered' = answered
    BY DEF Edit, service, OwnerInv, StoreTypes
<1>2. /\ IsFiniteSet(past') /\ Cardinality(past) \in Nat
      /\ Cardinality(past') = IF source' \in past THEN Cardinality(past) ELSE Cardinality(past) + 1
    BY <1>1, FS_AddElement, FS_CardinalityType DEF History
<1>. QED
    BY <1>1, <1>2 DEF History, Undone

\* Nothing is known of an idle command, and nothing needs to be.
LEMMA IdleSound == ASSUME None \notin Versions PROVE Sound(Idle)
    BY DEF Sound, Idle

\* Steps that store nothing and leave the sources alone: only the command is to be looked at.
LEMMA SoleQuiet ==
    ASSUME NEW p \in Procs, SoleInv(p), OwnerInv', UNCHANGED <<parts, sources, edits>>,
           answered' \in {answered, answered \cup {DeliveryKey}},
           state = "none" \/ state' # "none", state' = "available" => ContentMatches',
           Sound(run'[p])
    PROVE  SoleInv(p)'
<1>1. \A n \in Parts, v \in Versions : PartKey(n, v) \in answered' <=> PartKey(n, v) \in answered
    BY DEF PartKey, DeliveryKey
<1>2. Sound(run[p])'
  <2>1. /\ source' = source /\ past' = past /\ edits' = edits /\ parts' = parts
        /\ past \subseteq Versions /\ source \in Versions
    BY DEF sources, SoleInv, OwnerInv, StoreTypes
  <2>2. ~Undone' => ~Undone
    BY <2>1 DEF Undone
  <2>3. run'[p].plan # None /\ ~Undone' => Follows(run[p])'
    BY <1>1, <2>1, <2>2 DEF Sound, Follows
  <2>. QED
    BY <2>1, <2>3 DEF Sound
<1>3. History' /\ Fresh'
    BY <1>1 DEF SoleInv, OwnerInv, StoreTypes, sources, History, Fresh, Undone
<1>4. ContentMatches'
    BY DEF ContentMatches
<1>. QED
    BY <1>2, <1>3, <1>4 DEF SoleInv

\* A command that only goes on to its next step knows what it knew.
LEMMA GoSound ==
    ASSUME NEW r \in Run, Sound(r), NEW pc,
           \/ r.pc \in {"create", "ticket"} /\ pc \in {"ticket", "abandon", "encrypt"}
           \/ r.pc = "encrypt" /\ pc = "upload"
           \/ r.pc \in {"rename", "manifest", "deliver"} /\ pc \in {"manifest", "deliver", "complete"}
    PROVE  Sound([r EXCEPT !.pc = pc])
<1>. DEFINE s == [r EXCEPT !.pc = pc]
<1>1. /\ s.pc = pc /\ s.part = r.part /\ s.kept = r.kept /\ s.plan = r.plan /\ s.sealed = r.sealed
    BY DEF Run
<1>. HIDE DEF s
<1>2. s.plan # None /\ ~Undone => Follows(s)
    BY <1>1 DEF Sound, Follows, Parts
<1>3. Sound(s)
    BY <1>1, <1>2 DEF Sound
<1>. QED
    BY <1>3 DEF s

\* A command that starts, reads what is stored, or makes its plan.
LEMMA SoleStarts ==
    ASSUME NEW p \in Procs, SoleInv(p), OwnerInv', StartCreate(p) \/ Resume(p) \/ Inspect(p)
    PROVE  SoleInv(p)'
<1>0. /\ run[p] \in Run /\ Sound(run[p]) /\ run \in [Procs -> Run] /\ parts \in [Parts -> Versions \cup {None}]
      /\ source \in Versions /\ None \notin Versions /\ source \in past
    BY UploadAssumption DEF SoleInv, OwnerInv, StoreTypes, RunsFit, None, History
<1>1. UNCHANGED <<service, sources, edits>>
    BY DEF StartCreate, Resume, Inspect, bounds
<1>2. Sound(run'[p])
  <2>1. CASE StartCreate(p)
    <3>1. /\ run'[p].pc = "create" /\ run'[p].plan = source /\ run'[p].kept = run[p].kept
          /\ run'[p].part = run[p].part /\ run[p].pc = "idle"
        BY <2>1, <1>0 DEF StartCreate, At, Run
    <3>2. run[p].kept = Nowhere /\ run[p].part = 1 /\ parts = Nowhere
        BY <2>1, <3>1, <1>0 DEF SoleInv, Sound, Idle, StartCreate
    <3>3. ~Undone => Follows(run'[p])
        BY <3>1 DEF SoleInv, Fresh, Follows
    <3>. QED
        BY <1>0, <3>1, <3>2, <3>3 DEF Sound
  <2>2. CASE Resume(p)
    <3>1. /\ run'[p].pc = "inspect" /\ run'[p].plan = run[p].plan /\ run'[p].kept = parts
          /\ run'[p].part = run[p].part /\ run[p].pc = "idle"
        BY <2>2, <1>0 DEF Resume, At, Run
    <3>2. run[p].plan = None /\ run[p].part = 1
        BY <3>1, <1>0 DEF Sound, Idle
    <3>. QED
        BY <1>0, <3>1, <3>2 DEF Sound
  <2>3. CASE Inspect(p) /\ source \in Grown
        BY <2>3, <1>0, IdleSound DEF Inspect, End
  <2>4. CASE Inspect(p) /\ source \notin Grown
    <3>1. /\ run'[p].pc = "encrypt" /\ run'[p].plan = source /\ run'[p].kept = run[p].kept
          /\ run'[p].part = run[p].part /\ run[p].pc = "inspect"
        BY <2>4, <1>0 DEF Inspect, At, Run
    <3>2. ~Undone => Follows(run'[p])
        BY <3>1 DEF SoleInv, Fresh, Follows
    <3>. QED
        BY <1>0, <3>1, <3>2 DEF Sound
  <2>. QED
    BY <2>1, <2>2, <2>3, <2>4
<1>3. ContentMatches'
    BY <1>1 DEF SoleInv, ContentMatches, Undone, service, sources
<1>. QED
    BY <1>1, <1>2, <1>3, SoleQuiet DEF service

\* A command that goes on, or ends, without touching the parts.
LEMMA SoleGoes ==
    ASSUME NEW p \in Procs, SoleInv(p), OwnerInv',
           \/ Reserve(p) \/ WriteTicket(p) \/ Abandon(p) \/ Encrypt(p) \/ RenameTicket(p)
           \/ UploadManifest(p) \/ PrepareDelivery(p) \/ Refused(p) \/ Crash(p)
    PROVE  SoleInv(p)'
<1>0. /\ run[p] \in Run /\ Sound(run[p]) /\ run \in [Procs -> Run] /\ None \notin Versions
    BY UploadAssumption DEF SoleInv, OwnerInv, StoreTypes, RunsFit, None
<1>1. UNCHANGED <<parts, sources, edits>> /\ answered' \in {answered, answered \cup {DeliveryKey}}
    BY DEF Reserve, WriteTicket, Abandon, Encrypt, RenameTicket, UploadManifest, PrepareDelivery,
        Refused, Crash, service
<1>2. state = "none" \/ state' # "none"
    BY DEF Reserve, WriteTicket, Abandon, Encrypt, RenameTicket, UploadManifest, PrepareDelivery,
        Refused, Crash, service
<1>3. ASSUME state' = "available" PROVE ContentMatches'
  <2>1. UNCHANGED <<state, manifest, finished>>
    BY <1>3 DEF Reserve, WriteTicket, Abandon, Encrypt, RenameTicket, UploadManifest, PrepareDelivery,
        Refused, Crash, service
  <2>. QED
    BY <1>1, <2>1 DEF SoleInv, ContentMatches, Undone, sources
<1>4. Sound(run'[p])
  <2>1. CASE End(p)
    BY <2>1, <1>0, IdleSound DEF End
  <2>2. ASSUME NEW pc, Goto(p, pc), 
           \/ run[p].pc \in {"create", "ticket"} /\ pc \in {"ticket", "abandon", "encrypt"}
           \/ run[p].pc = "encrypt" /\ pc = "upload"
           \/ run[p].pc \in {"rename", "manifest", "deliver"} /\ pc \in {"manifest", "deliver", "complete"}
        PROVE Sound(run'[p])
    <3>1. run'[p] = [run[p] EXCEPT !.pc = pc]
        BY <1>0, <2>2 DEF Goto
    <3>. QED
        BY <1>0, <2>2, <3>1, GoSound
  <2>. QED
    BY <2>1, <2>2 DEF Reserve, WriteTicket, Abandon, Encrypt, RenameTicket, UploadManifest,
        PrepareDelivery, Refused, Crash, Proceed, At
<1>. QED
    BY <1>1, <1>2, <1>3, <1>4, SoleQuiet

\* The manifest is made of the plan, and completing names that manifest.
LEMMA SoleCompletes ==
    ASSUME NEW p \in Procs, SoleInv(p), OwnerInv', WriteNewTicket(p) \/ Complete(p)
    PROVE  SoleInv(p)'
<1>0. /\ run[p] \in Run /\ Sound(run[p]) /\ run \in [Procs -> Run] /\ None \notin Versions
    BY UploadAssumption DEF SoleInv, OwnerInv, StoreTypes, RunsFit, None
<1>1. UNCHANGED <<parts, sources, edits, answered>>
    BY DEF WriteNewTicket, Complete, service, bounds
<1>2. state = "none" \/ state' # "none"
    BY DEF WriteNewTicket, Complete, Completable, service
<1>3. ASSUME state' = "available" PROVE ContentMatches'
  <2>1. CASE UNCHANGED <<state, manifest, finished>>
    BY <1>1, <1>3, <2>1 DEF SoleInv, ContentMatches, Undone, sources
  <2>2. CASE Complete(p) /\ Completable(p) /\ finished' = run[p].sealed /\ UNCHANGED manifest
    <3>1. run[p].pc = "complete"
        BY <2>2 DEF Complete, At
    <3>2. run[p].plan \in Versions
        BY <3>1 DEF SoleInv, OwnerInv, RunsFit, Fits
    <3>3. finished'.version = run[p].plan /\ (~Undone => \A n \in Parts : parts[n] = run[p].plan)
        BY <1>0, <2>2, <3>1, <3>2 DEF Sound, Follows
    <3>. QED
        BY <1>1, <2>2, <3>3 DEF ContentMatches, Undone, Completable, sources
  <2>. QED
    BY <2>1, <2>2 DEF WriteNewTicket, Complete, service
<1>4. Sound(run'[p])
  <2>1. CASE End(p)
    BY <2>1, <1>0, IdleSound DEF End
  <2>2. CASE WriteNewTicket(p) /\ ~End(p)
    <3>1. /\ run'[p].pc = "rename" /\ run'[p].plan = run[p].plan /\ run'[p].kept = run[p].kept
          /\ run'[p].part = run[p].part /\ run[p].pc = "newticket"
          /\ run'[p].sealed.version = run[p].plan
        BY <2>2, <1>0 DEF WriteNewTicket, At, Run
    <3>2. run[p].plan # None /\ ~Undone => Follows(run'[p])
        BY <1>0, <3>1 DEF Sound, Follows
    <3>. QED
        BY <1>0, <3>1, <3>2 DEF Sound
  <2>. QED
    BY <2>1, <2>2 DEF Complete
<1>. QED
    BY <1>1, <1>2, <1>3, <1>4, SoleQuiet

\* A part that is kept is the one the plan would upload: what the service reported is still so.
LEMMA SoleKeeps == ASSUME NEW p \in Procs, SoleInv(p), OwnerInv', KeepPart(p) PROVE SoleInv(p)'
<1>a. /\ run \in [Procs -> Run] /\ Fits(run[p], ticket) /\ run[p] \in Run
      /\ Sound(run[p]) /\ run[p].pc = "upload"
    BY DEF SoleInv, OwnerInv, RunsFit, Fits, KeepPart, At
<1>b. run[p].part \in Parts /\ run[p].part \in Nat /\ run[p].plan \in Versions
    BY <1>a DEF Fits, Parts
<1>c. None \notin Versions /\ source \in Versions /\ parts \in [Parts -> Versions \cup {None}]
    BY UploadAssumption DEF SoleInv, OwnerInv, StoreTypes, None
<1>0. /\ run[p] \in Run /\ Sound(run[p]) /\ run \in [Procs -> Run] /\ None \notin Versions
      /\ run[p].part \in Parts /\ run[p].part \in Nat /\ run[p].pc = "upload"
      /\ run[p].plan \in Versions
    BY <1>a, <1>b, <1>c
<1>1. UNCHANGED <<service, sources, edits>>
    BY DEF KeepPart, bounds
<1>2. /\ run'[p].pc = IF run[p].part = NParts THEN "newticket" ELSE "upload"
      /\ run'[p].part = run[p].part + 1 /\ run'[p].plan = run[p].plan /\ run'[p].kept = run[p].kept
      /\ run'[p].sealed = run[p].sealed
    BY <1>0 DEF KeepPart, Advance, Run
<1>3. parts[run[p].part] = run[p].plan
    BY <1>0 DEF KeepPart, Sound, Parts
<1>4. ~Undone => Follows(run'[p])
  <2>1. ASSUME ~Undone, NEW n \in Parts, n < run'[p].part PROVE parts[n] = run[p].plan
    BY <1>0, <1>2, <1>3, <2>1 DEF Sound, Follows, Parts
  <2>2. run'[p].pc # "upload" => \A n \in Parts : n < run'[p].part
    BY <1>0, <1>2, UploadAssumption DEF Parts
  <2>. QED
    BY <1>0, <1>2, <2>1, <2>2 DEF Sound, Follows
<1>5. Sound(run'[p])
    BY <1>0, <1>2, <1>4 DEF Sound, Parts
<1>6. ContentMatches'
    BY <1>1 DEF SoleInv, ContentMatches, Undone, service, sources
<1>. QED
    BY <1>1, <1>5, <1>6, SoleQuiet DEF service

\* A part that is uploaded becomes the plan's, also when its key was used before.
LEMMA SoleUploads == ASSUME NEW p \in Procs, SoleInv(p), OwnerInv', UploadPart(p) PROVE SoleInv(p)'
<1>. DEFINE k == run[p].part
            v == run[p].plan
<1>a. /\ run \in [Procs -> Run] /\ Fits(run[p], ticket) /\ run[p] \in Run
      /\ Sound(run[p]) /\ run[p].pc = "upload"
    BY DEF SoleInv, OwnerInv, RunsFit, Fits, UploadPart, At
<1>b. run[p].part \in Parts /\ run[p].part \in Nat /\ run[p].plan \in Versions
    BY <1>a DEF Fits, Parts
<1>c. None \notin Versions /\ source \in Versions /\ parts \in [Parts -> Versions \cup {None}]
    BY UploadAssumption DEF SoleInv, OwnerInv, StoreTypes, None
<1>0. /\ run[p] \in Run /\ Sound(run[p]) /\ run \in [Procs -> Run] /\ None \notin Versions
      /\ k \in Parts /\ k \in Nat /\ run[p].pc = "upload" /\ v \in Versions /\ v \in past
      /\ parts \in [Parts -> Versions \cup {None}] /\ source \in Versions
    BY <1>a, <1>b, <1>c DEF Sound
<1>1. UNCHANGED <<source, past, edits>> /\ state = "uploading" /\ state' = "uploading"
    BY DEF UploadPart, sources
<1>2. \A n \in Parts : n # k => parts'[n] = parts[n]
    BY <1>0 DEF UploadPart
<1>3. ~Undone => parts'[k] = v
    BY <1>0 DEF UploadPart, Sound, Follows
<1>4. \A n \in Parts, w \in Versions :
        PartKey(n, w) \in answered' <=> PartKey(n, w) \in answered \/ (n = k /\ w = v)
    BY <1>0 DEF UploadPart, PartKey
<1>5. History' /\ Fresh'
  <2>1. History'
    BY <1>0, <1>1, <1>4 DEF SoleInv, History
  <2>2. ASSUME ~Undone, NEW n \in Parts, PartKey(n, source) \in answered' PROVE parts'[n] = source
    <3>1. CASE v = source
        BY <1>0, <1>2, <1>3, <1>4, <2>2, <3>1 DEF SoleInv, Fresh
    <3>2. CASE v # source
        BY <1>0, <1>4, <2>2, <3>2 DEF Sound, Follows
    <3>. QED
        BY <3>1, <3>2
  <2>. QED
    BY <1>1, <2>1, <2>2 DEF Fresh, Undone
<1>6. Sound(run[p])'
  <2>1. CASE End(p)
    BY <2>1, <1>0, IdleSound DEF End, Sound, Idle
  <2>2. CASE Advance(p)
    <3>1. /\ run'[p].pc = IF k = NParts THEN "newticket" ELSE "upload"
          /\ run'[p].part = k + 1 /\ run'[p].plan = v /\ run'[p].kept = run[p].kept
          /\ run'[p].sealed = run[p].sealed
        BY <1>0, <2>2 DEF Advance, Run
    <3>2. ASSUME ~Undone PROVE Follows(run[p])'
      <4>1. ASSUME NEW n \in Parts, n < k + 1 PROVE parts'[n] = v
        BY <1>0, <1>2, <1>3, <3>2, <4>1 DEF Sound, Follows, Parts
      <4>2. run'[p].pc # "upload" => \A n \in Parts : n < k + 1
        BY <1>0, <3>1, UploadAssumption DEF Parts
      <4>3. \A n \in Parts : PartKey(n, v) \in answered' => parts'[n] = v
        BY <1>0, <1>2, <1>3, <1>4, <3>2 DEF Sound, Follows
      <4>4. v # source => \A n \in Parts : PartKey(n, source) \notin answered'
        BY <1>0, <1>4, <3>2 DEF Sound, Follows
      <4>. QED
        BY <1>0, <1>1, <3>1, <4>1, <4>2, <4>3, <4>4 DEF Follows
    <3>3. \A n \in Parts : n >= k + 1 => run'[p].kept[n] = parts'[n]
        BY <1>0, <1>2, <3>1 DEF Sound, Parts
    <3>. QED
        BY <1>0, <1>1, <3>1, <3>2, <3>3 DEF Sound, Undone
  <2>. QED
    BY <2>1, <2>2 DEF UploadPart
<1>. QED
    BY <1>1, <1>5, <1>6 DEF SoleInv, ContentMatches

\* An edit that is not undone leaves no answered key of the new version behind.
LEMMA SoleEdits == ASSUME NEW p \in Procs, SoleInv(p), OwnerInv', Edit PROVE SoleInv(p)'
<1>0. UNCHANGED <<service, run>> /\ past \subseteq past'
    BY DEF Edit
<1>1. History' /\ (Undone => Undone') /\ (~Undone' => source' \notin past) /\ source' \in Versions
    BY EditHistory DEF SoleInv, Edit
<1>2. ~Undone' => \A n \in Parts : PartKey(n, source') \notin answered
    BY <1>1 DEF SoleInv, History
<1>3. Fresh'
    BY <1>0, <1>2 DEF Fresh, service
<1>4. Sound(run[p])'
  <2>1. run[p].plan # None /\ ~Undone' => Follows(run[p])'
    BY <1>0, <1>1, <1>2 DEF SoleInv, Sound, Follows, service
  <2>. QED
    BY <1>0, <2>1 DEF SoleInv, Sound, service
<1>5. ContentMatches'
    BY <1>0, <1>1 DEF SoleInv, ContentMatches, service
<1>. QED
    BY <1>0, <1>1, <1>3, <1>4, <1>5 DEF SoleInv, service

\* A revocation, and a step of nobody.
LEMMA SoleRests ==
    ASSUME NEW p \in Procs, SoleInv(p), OwnerInv', Revoke \/ UNCHANGED vars
    PROVE  SoleInv(p)'
<1>1. UNCHANGED <<parts, manifest, finished, answered, sources, edits, run>>
    BY DEF Revoke, vars, service, bounds
<1>2. state' = state \/ state' = "revoked"
    BY DEF Revoke, vars, service
<1>3. ContentMatches' /\ Sound(run'[p])
    BY <1>1, <1>2 DEF SoleInv, ContentMatches, Undone, sources
<1>. QED
    BY <1>1, <1>2, <1>3, SoleQuiet DEF SoleInv

\* An available transfer has the manifest it was completed with, and unless an edit was undone
\* every part belongs to it, with one command at a time, for any edits, stops and lost answers
\* (finishTransferUpload, transfer.go 355-441).
THEOREM SealedContentMatches == ASSUME NEW p, Procs = {p} PROVE Spec => []ContentMatches
<1>1. Init /\ OwnerInv => SoleInv(p)
  <2>. SUFFICES ASSUME Init, OwnerInv PROVE SoleInv(p) OBVIOUS
  <2>1. History
    BY FS_Singleton DEF Init, History
  <2>. QED
    BY <2>1, UploadAssumption DEF Init, SoleInv, Fresh, Sound, Idle, ContentMatches, None
<1>2. SoleInv(p) /\ OwnerInv' /\ [Next]_vars => SoleInv(p)'
    BY SoleStarts, SoleGoes, SoleCompletes, SoleKeeps, SoleUploads, SoleEdits, SoleRests
    DEF Next, Starting, Uploading
<1>3. SoleInv(p) => ContentMatches
    BY DEF SoleInv
<1>. QED
    BY <1>1, <1>2, <1>3, OwnerInvariant, PTL DEF Spec

---------------------------------------------------------------------------
(* TransferWatch *)

NotEarly == timer = "running" => left + quiet >= Timeout

StopIsFinal == mode = "stopped" => timer = "off"

\* The watch is active only while one of the two bodies is being read, and its timer runs only
\* while it is active, or after the request was cancelled.
ActiveReads == /\ mode = "active" => request = "reading" \/ response = "reading"
               /\ timer = "running" => mode = "active" \/ cause # "none"

WatchInv == WatchTypeOK /\ NotEarly /\ StopIsFinal /\ ActiveReads

\* The watch's operations keep the flags and the timer within their types, and the
\* timer they leave running was running before or has the whole Timeout to go.
LEMMA WatchSteps ==
    ASSUME WatchTypeOK, StopIsFinal, touch \/ pause \/ stop
    PROVE  /\ mode' \in {"idle", "active", "stopped"} /\ timer' \in {"off", "running"}
           /\ left' \in 0..Timeout
           /\ fired' = fired
           /\ cause' \in {"none", "stalled", "ended"}
           /\ timer' = "running" => left' = Timeout \/ (timer = "running" /\ left' = left)
           /\ mode' = "stopped" => timer' = "off"
    BY WatchAssumption DEF WatchTypeOK, StopIsFinal, touch, pause, stop, watch

\* The inductive invariant: every step keeps the types and NotEarly.
THEOREM WatchInvariant == WatchSpec => []WatchInv
<1>1. WatchInit => WatchInv
    <2>. SUFFICES ASSUME WatchInit PROVE WatchInv
        OBVIOUS
    <2>1. request \in {"none", "begun"}
        BY DEF WatchInit
    <2>2. /\ mode = "idle" /\ timer = "off" /\ left = Timeout /\ fired = 0 /\ cause = "none"
          /\ response = "awaited" /\ bytes = 0 /\ quiet = 0
        BY DEF WatchInit
    <2>3. retried \in BOOLEAN
        BY DEF WatchInit
    <2>4. WatchTypeOK
        BY <2>1, <2>2, <2>3, WatchAssumption DEF WatchTypeOK
    <2>. QED
        BY <2>2, <2>4 DEF WatchInv, NotEarly, StopIsFinal, ActiveReads
<1>2. WatchInv /\ [WatchNext]_watchVars => WatchInv'
    <2>. SUFFICES ASSUME WatchInv, [WatchNext]_watchVars
                  PROVE  WatchInv'
        OBVIOUS
    <2>. USE WatchAssumption DEF WatchInv
    <2>1. CASE Fire
        BY <2>1 DEF Fire, WatchTypeOK, NotEarly, StopIsFinal, ActiveReads, peers
    <2>2. CASE Expire
        BY <2>2 DEF Expire, WatchTypeOK, NotEarly, StopIsFinal, ActiveReads, peers
    <2>3. CASE Send
        BY <2>3 DEF Send, touch, watch, WatchTypeOK, NotEarly, StopIsFinal, ActiveReads
    <2>4. CASE SendEnds
        BY <2>4, WatchSteps
        DEF SendEnds, pause, watch, WatchTypeOK, NotEarly, StopIsFinal, ActiveReads
    <2>5. CASE Headers
        BY <2>5 DEF Headers, touch, watch, WatchTypeOK, NotEarly, StopIsFinal, ActiveReads
    <2>6. CASE NoResponse
        BY <2>6, WatchSteps
        DEF NoResponse, stop, watch, WatchTypeOK, NotEarly, StopIsFinal, ActiveReads
    <2>7. CASE Receive
        BY <2>7 DEF Receive, touch, watch, WatchTypeOK, NotEarly, StopIsFinal, ActiveReads
    <2>8. CASE ReceiveEnds
        BY <2>8, WatchSteps
        DEF ReceiveEnds, pause, watch, WatchTypeOK, NotEarly, StopIsFinal, ActiveReads
    <2>9. CASE Close
        BY <2>9, WatchSteps
        DEF Close, stop, watch, WatchTypeOK, NotEarly, StopIsFinal, ActiveReads
    <2>12. CASE Refusal
        BY <2>12 DEF Refusal, watch, WatchTypeOK, NotEarly, StopIsFinal, ActiveReads
    <2>13. CASE RefusalEnds
        BY <2>13, WatchSteps
        DEF RefusalEnds, stop, watch, WatchTypeOK, NotEarly, StopIsFinal, ActiveReads
    <2>10. CASE Tick
        BY <2>10 DEF Tick, WatchTypeOK, NotEarly, StopIsFinal, ActiveReads, peers
    <2>11. CASE UNCHANGED watchVars
        BY <2>11 DEF watchVars, watch, peers, WatchTypeOK, NotEarly, StopIsFinal, ActiveReads
    <2>. QED
        BY <2>1, <2>2, <2>3, <2>4, <2>5, <2>6, <2>7, <2>8, <2>9, <2>10, <2>11, <2>12, <2>13
        DEF WatchNext
<1>. QED
    BY <1>1, <1>2, PTL DEF WatchSpec

\* Every reachable state has its types, for every Timeout.
THEOREM WatchTypes == WatchSpec => []WatchTypeOK
    BY WatchInvariant, PTL DEF WatchInv

\* When the timer fires it has nothing left to go, so NotEarly says all of Timeout has passed
\* (transfer.go 33-49).
LEMMA FiresWhenQuiet ==
    ASSUME WatchInv, WatchNext, fired' > fired
    PROVE  quiet = Timeout
<1>1. Fire
    BY WatchSteps DEF WatchNext, WatchInv, WatchTypeOK, Expire, Send, SendEnds, Headers, Refusal,
        RefusalEnds, watch, NoResponse, Receive, ReceiveEnds, Close, Tick
<1>. QED
    BY <1>1, WatchAssumption DEF Fire, WatchInv, WatchTypeOK, NotEarly, StopIsFinal

\* Only expire gives stalled as a cause, and only of an active watch, which ActiveReads says
\* reads a body (transfer.go 63-70).
LEMMA StallsWhileReading ==
    ASSUME WatchInv, WatchNext, cause' = "stalled", cause # "stalled"
    PROVE  request = "reading" \/ response = "reading"
<1>1. Expire
    BY DEF WatchNext, Fire, Send, SendEnds, Headers, Refusal, RefusalEnds, NoResponse, Receive,
        ReceiveEnds, Close, Tick, touch, pause, stop, watch
<1>. QED
    BY <1>1 DEF Expire, WatchInv, ActiveReads

\* What the timer makes of a transfer is true of it, for every Timeout and any peer: it fires only
\* after all of it without a byte, and cancels only a request whose body is being read.
THEOREM WatchTimerTruthful == WatchSpec => TimerTruthful
<1>1. WatchInv /\ [WatchNext]_watchVars =>
        [/\ fired' > fired => quiet = Timeout
         /\ cause' = "stalled" /\ cause # "stalled" =>
              request = "reading" \/ response = "reading"]_watchVars
    BY FiresWhenQuiet, StallsWhileReading
<1>. QED
    BY <1>1, WatchInvariant, PTL DEF WatchSpec, TimerTruthful
===============================================================================
