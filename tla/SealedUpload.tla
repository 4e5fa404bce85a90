----------------------------- MODULE SealedUpload -----------------------------
(***************************************************************************)
(* cmd/transfer.go, the owner's side of a sealed transfer: `transfer       *)
(* create` reserves a transfer and saves the owner ticket; it then, as     *)
(* `transfer resume` does in any later invocation, encrypts the sources,   *)
(* uploads the parts the service does not hold yet, replaces the ticket,   *)
(* uploads the manifest, prepares the delivery of an addressed transfer,   *)
(* and completes.  The command may fail or stop at any step, answers may   *)
(* be lost, and the sources may be edited between two invocations.         *)
(*                                                                         *)
(* The service is external: it stores parts and a manifest while the       *)
(* transfer is uploading, and answers a repeated idempotency key with the  *)
(* recorded answer and no new effect (internal/api/sealed.go 204-206).     *)
(***************************************************************************)
EXTENDS Integers, FiniteSets

CONSTANTS
    Procs,      \* processes running a command on the transfer
    NParts,     \* parts of the ciphertext
    Versions,   \* contents the sources may have, all of the same size
    Grown,      \* the versions whose size differs from the first one's
    Addressed,  \* whether the transfer is addressed to an identity
    MaxManifests, \* bound: manifests built
    MaxFaults,  \* bound: operations that fail, answers lost, processes stopped
    MaxEdits    \* bound: edits of the sources

Parts == 1..NParts
None == 0

ASSUME UploadAssumption ==
    /\ NParts \in Nat \ {0}
    /\ Versions \subseteq Nat \ {0} /\ 1 \in Versions
    /\ Grown \subseteq Versions \ {1}
    /\ Addressed \in BOOLEAN
    /\ MaxManifests \in Nat /\ MaxFaults \in Nat /\ MaxEdits \in Nat

VARIABLES
    \* at the service
    state,     \* of the transfer
    parts,     \* version of the sources each stored part was encrypted from
    manifest,  \* the stored manifest
    delivery,  \* the manifest the prepared delivery names
    finished,  \* what the transfer was completed with
    answered,  \* idempotency keys the service has recorded an answer for
    \* at the owner
    source,    \* version of the source files
    ticket,    \* whether the owner ticket exists
    leftover,  \* whether <ticket>.new exists
    run,       \* what each process is doing
    past,      \* history: the versions the sources have had
    stranded,  \* history: the transfer was reserved but its ticket never written
    manifests, faults, edits \* counted for the bounds; manifests also numbers nonces

service == <<state, parts, manifest, delivery, finished, answered>>
disk == <<ticket, leftover>>
bounds == <<manifests, faults, edits>>
sources == <<source, past>>
vars == <<service, sources, disk, run, stranded, bounds>>

States == {"none", "uploading", "available", "revoked"}

\* A manifest lists the digests of one version; its nonce is fresh in each run.
Manifest == [version : Versions, nonce : Nat]
NoManifest == [version |-> None, nonce |-> 0]

PCs == {"idle", "create", "ticket", "abandon", "inspect", "encrypt", "upload", "newticket",
        "rename", "manifest", "deliver", "complete"}

\* plan is the version InspectInputs hashed, kept the parts the service reported,
\* part the next part to upload, sealed the manifest this command has built.
Run == [pc : PCs, plan : Versions \cup {None}, kept : [Parts -> Versions \cup {None}],
        part : Nat, sealed : Manifest \cup {NoManifest}]

\* Idempotency keys: of a part its number and digest, of the delivery nothing else.
PartKey(n, version) == <<"part", n, version>>
DeliveryKey == <<"delivery", 0, 0>>

Nowhere == [n \in Parts |-> None]
Idle == [pc |-> "idle", plan |-> None, kept |-> Nowhere, part |-> 1, sealed |-> NoManifest]

At(p, pc) == run[p].pc = pc
Goto(p, pc) == run' = [run EXCEPT ![p].pc = pc]
End(p) == run' = [run EXCEPT ![p] = Idle]

\* An operation fails, an answer is lost or a process stops.
Fault == faults < MaxFaults /\ faults' = faults + 1
NoFault == UNCHANGED faults

\* On to the next step; if the answer is lost, or the operation failed after all, the
\* command ends with an error.
Proceed(p, pc) ==
    \/ Goto(p, pc) /\ NoFault
    \/ End(p) /\ Fault

Init ==
    /\ state = "none" /\ parts = Nowhere /\ manifest = NoManifest
    /\ delivery = NoManifest /\ finished = NoManifest /\ answered = {}
    /\ source = 1 /\ ticket = FALSE /\ leftover = FALSE
    /\ run = [p \in Procs |-> Idle]
    /\ past = {1} /\ stranded = FALSE
    /\ manifests = 0 /\ faults = 0 /\ edits = 0

-----------------------------------------------------------------------------
\* create: hash the inputs, then reserve a transfer of their size (version 1's).
StartCreate(p) ==
    /\ At(p, "idle")
    /\ state = "none"
    /\ source \notin Grown
    /\ \A q \in Procs : At(q, "idle")
    /\ run' = [run EXCEPT ![p].pc = "create", ![p].plan = source]
    /\ UNCHANGED <<service, sources, disk, stranded, bounds>>

\* CreateTransfer; a reservation whose answer is lost twice has no ticket.
Reserve(p) ==
    /\ At(p, "create")
    /\ state' = "uploading"
    /\ Proceed(p, "ticket")
    /\ stranded' = (run'[p].pc = "idle")
    /\ UNCHANGED <<parts, manifest, delivery, finished, answered, sources, disk, manifests, edits>>

\* Mutant: a ticket that could not be written does not end the command.
CarryOnWithout(p) ==
    /\ At(p, "ticket")
    /\ \/ ticket' = TRUE /\ Goto(p, "encrypt") /\ NoFault
       \/ Goto(p, "encrypt") /\ Fault /\ UNCHANGED ticket
    /\ UNCHANGED <<service, sources, leftover, stranded, manifests, edits>>

\* The ticket is saved before anything is uploaded.  If the key cannot be wrapped
\* for the recipient there is no ticket to save, and the command ends there.
WriteTicket(p) ==
    /\ At(p, "ticket")
    /\ \/ ticket' = TRUE /\ Goto(p, "encrypt") /\ NoFault /\ UNCHANGED stranded
       \/ Goto(p, "abandon") /\ Fault /\ UNCHANGED <<ticket, stranded>>
       \/ Addressed /\ stranded' = TRUE /\ End(p) /\ Fault /\ UNCHANGED ticket
    /\ UNCHANGED <<service, sources, leftover, manifests, edits>>

\* Without a ticket the transfer is revoked, if the service can be reached.
Abandon(p) ==
    /\ At(p, "abandon")
    /\ \/ state' = "revoked" /\ NoFault /\ UNCHANGED stranded
       \/ stranded' = TRUE /\ Fault /\ UNCHANGED state
    /\ End(p)
    /\ UNCHANGED <<parts, manifest, delivery, finished, answered, sources, disk, manifests, edits>>

\* resume: the ticket is read and the service asked for its state and parts.
Resume(p) ==
    /\ At(p, "idle")
    /\ ticket
    /\ state = "uploading"
    /\ manifests < MaxManifests
    /\ run' = [run EXCEPT ![p].pc = "inspect", ![p].kept = parts]
    /\ UNCHANGED <<service, sources, disk, stranded, bounds>>

\* Mutant: the sources must be the ones that were reserved.
InspectExact(p) ==
    /\ At(p, "inspect")
    /\ IF source # 1
       THEN End(p)
       ELSE run' = [run EXCEPT ![p].pc = "encrypt", ![p].plan = source]
    /\ UNCHANGED <<service, sources, disk, stranded, bounds>>

\* The sources are hashed again; they must have the size that was reserved.
Inspect(p) ==
    /\ At(p, "inspect")
    /\ IF source \in Grown
       THEN End(p)
       ELSE run' = [run EXCEPT ![p].pc = "encrypt", ![p].plan = source]
    /\ UNCHANGED <<service, sources, disk, stranded, bounds>>

\* EncryptBundle hashes what it encrypts: sources edited since are refused.
Encrypt(p) ==
    /\ At(p, "encrypt")
    /\ \/ source = run[p].plan /\ Goto(p, "upload") /\ NoFault
       \/ source # run[p].plan /\ End(p) /\ NoFault
       \/ End(p) /\ Fault
    /\ UNCHANGED <<service, sources, disk, stranded, manifests, edits>>

Advance(p) ==
    run' = [run EXCEPT ![p].part = @ + 1,
                       ![p].pc = IF run[p].part = NParts THEN "newticket" ELSE "upload"]

\* Mutant: a part the service holds is kept whatever it was encrypted from.
KeepAnyPart(p) ==
    /\ At(p, "upload")
    /\ run[p].kept[run[p].part] # None
    /\ Advance(p)
    /\ UNCHANGED <<service, sources, disk, stranded, bounds>>

\* A part the service holds is kept if its digest is that of the new ciphertext.
KeepPart(p) ==
    /\ At(p, "upload")
    /\ run[p].kept[run[p].part] = run[p].plan
    /\ Advance(p)
    /\ UNCHANGED <<service, sources, disk, stranded, bounds>>

\* Any other part is uploaded, under a key made of its number and its digest.
UploadPart(p) ==
    LET n == run[p].part
        key == PartKey(n, run[p].plan)
    IN
    /\ At(p, "upload")
    /\ run[p].kept[n] # run[p].plan
    /\ state = "uploading"
    /\ parts' = IF key \in answered THEN parts ELSE [parts EXCEPT ![n] = run[p].plan]
    /\ answered' = answered \cup {key}
    /\ \/ Advance(p) /\ NoFault
       \/ End(p) /\ Fault
    /\ UNCHANGED <<state, manifest, delivery, finished, sources, disk, stranded, manifests, edits>>

\* replaceTransferTicket: the new ticket, which names the manifest, is created
\* exclusively under another name ...
WriteNewTicket(p) ==
    /\ At(p, "newticket")
    /\ \/ /\ ~leftover
          /\ leftover' = TRUE
          /\ manifests' = manifests + 1
          /\ run' = [run EXCEPT ![p].pc = "rename",
                                ![p].sealed = [version |-> run[p].plan, nonce |-> manifests']]
          /\ NoFault
       \/ leftover /\ End(p) /\ NoFault /\ UNCHANGED <<leftover, manifests>>
       \/ End(p) /\ Fault /\ UNCHANGED <<leftover, manifests>>
    /\ UNCHANGED <<service, sources, ticket, stranded, edits>>

\* ... and renamed, or removed if it cannot be renamed.
RenameTicket(p) ==
    /\ At(p, "rename")
    /\ leftover' = FALSE
    /\ Proceed(p, "manifest")
    /\ UNCHANGED <<service, sources, ticket, stranded, manifests, edits>>

\* UploadTransferManifest: the key holds the digest, so every manifest is stored.
UploadManifest(p) ==
    /\ At(p, "manifest")
    /\ state = "uploading"
    /\ manifest' = run[p].sealed
    /\ Proceed(p, IF Addressed THEN "deliver" ELSE "complete")
    /\ UNCHANGED <<state, parts, delivery, finished, answered, sources, disk, stranded, manifests, edits>>

\* PrepareDelivery: the key is the same for every manifest of the transfer.
PrepareDelivery(p) ==
    /\ At(p, "deliver")
    /\ state = "uploading"
    /\ delivery' = IF DeliveryKey \in answered THEN delivery ELSE run[p].sealed
    /\ answered' = answered \cup {DeliveryKey}
    /\ Proceed(p, "complete")
    /\ UNCHANGED <<state, parts, manifest, finished, sources, disk, stranded, manifests, edits>>

\* CompleteTransfer: the service finalizes the parts and the manifest that was
\* named; completing again is answered from the record.  The digest of the ciphertext
\* is sent as well; it is not assumed that the service compares it with the parts.
Completable(p) ==
    /\ state = "uploading"
    /\ manifest = run[p].sealed
    /\ \A n \in Parts : parts[n] # None

Complete(p) ==
    /\ At(p, "complete")
    /\ \/ Completable(p) /\ state' = "available" /\ finished' = run[p].sealed
       \/ state = "available" /\ UNCHANGED <<state, finished>>
    /\ End(p)
    /\ UNCHANGED <<parts, manifest, delivery, answered, sources, disk, stranded, bounds>>

\* The service refuses, or cannot be reached: the command ends with its error.
Refused(p) ==
    /\ \/ run[p].pc \in {"upload", "manifest", "deliver"} /\ state # "uploading" /\ NoFault
       \/ At(p, "complete") /\ state # "available" /\ ~Completable(p) /\ NoFault
       \/ run[p].pc \in {"create", "upload", "manifest", "deliver", "complete"} /\ Fault
    /\ End(p)
    /\ UNCHANGED <<service, sources, disk, stranded, manifests, edits>>

\* revoke: the capability comes from the ticket.
Revoke ==
    /\ ticket
    /\ state \in {"uploading", "available"}
    /\ state' = "revoked"
    /\ UNCHANGED <<parts, manifest, delivery, finished, answered, sources, disk, run, stranded, bounds>>

\* The process stops.
Crash(p) ==
    /\ ~At(p, "idle")
    /\ Fault
    /\ stranded' = (stranded \/ run[p].pc \in {"ticket", "abandon"})
    /\ End(p)
    /\ UNCHANGED <<service, sources, disk, manifests, edits>>

\* The sources are edited.
Edit ==
    /\ edits < MaxEdits
    /\ source' \in Versions \ {source}
    /\ past' = past \cup {source'}
    /\ edits' = edits + 1
    /\ UNCHANGED <<service, disk, run, stranded, manifests, faults>>

Uploading(p) ==
    \/ Reserve(p) \/ WriteTicket(p) \/ Abandon(p) \/ Inspect(p) \/ Encrypt(p)
    \/ KeepPart(p) \/ UploadPart(p) \/ WriteNewTicket(p) \/ RenameTicket(p)
    \/ UploadManifest(p) \/ PrepareDelivery(p) \/ Complete(p) \/ Refused(p)

Starting(p) == StartCreate(p) \/ Resume(p)

Next ==
    \/ \E p \in Procs : Starting(p) \/ Uploading(p) \/ Crash(p)
    \/ Revoke \/ Edit

Spec == Init /\ [][Next]_vars

(***************************************************************************)
(* Fairness: a command keeps executing and the operator keeps starting     *)
(* one: create first, then resume for as long as resume accepts.  That the *)
(* service completes an answer it has begun is assumed: JSON answers are   *)
(* read without a deadline (internal/api/client.go 517-532).               *)
(***************************************************************************)
FairSpec ==
    /\ Spec
    /\ \A p \in Procs : WF_vars(Uploading(p)) /\ WF_vars(Starting(p))

-----------------------------------------------------------------------------
TypeOK ==
    /\ state \in States
    /\ parts \in [Parts -> Versions \cup {None}]
    /\ {manifest, delivery, finished} \subseteq Manifest \cup {NoManifest}
    /\ answered \subseteq {DeliveryKey} \cup {PartKey(n, v) : n \in Parts, v \in Versions}
    /\ source \in Versions /\ past \subseteq Versions
    /\ ticket \in BOOLEAN /\ leftover \in BOOLEAN /\ stranded \in BOOLEAN
    /\ run \in [Procs -> Run] /\ \A p \in Procs : At(p, "upload") => run[p].part \in Parts
    /\ manifests \in Nat /\ faults \in Nat /\ edits \in Nat

\* An edit has brought back a version the sources had before.
Undone == edits >= Cardinality(past)

\* What recipients can fetch is consistent: a transfer that is available was
\* completed with the manifest the service stores, and every part belongs to the
\* ciphertext that manifest describes, however many commands, edits of the sources
\* and lost answers it took (finishTransferUpload, transfer.go 355-441). An edit that
\* is undone is the exception: see ContentAlwaysMatches.
ContentMatches ==
    state = "available" =>
        /\ manifest = finished
        /\ Undone \/ \A n \in Parts : parts[n] = finished.version

\* The same without the exception. It fails if the service answers a repeated part key
\* (transfer.go 369) from its record and stores nothing.
ContentAlwaysMatches ==
    state = "available" => \A n \in Parts : parts[n] = finished.version

\* The owner can resume or revoke whatever the service holds: nothing is uploaded
\* before the ticket is on disk, and a reservation without one is either still being
\* handled or was revoked, unless its answer or the revocation was lost, the process
\* stopped in between, or the recipient's part of the ticket could not be made, after which
\* nothing is revoked (transfer.go 249-262, 286-292).
OwnerKeepsTicket ==
    /\ parts # Nowhere \/ manifest # NoManifest => ticket
    /\ state \in {"uploading", "available"} =>
         ticket \/ stranded \/ \E p \in Procs : run[p].pc \in {"ticket", "abandon"}

\* An addressed transfer that is available can be received: the delivery names the
\* manifest that was finalized ("Inbox receive compares ... the encrypted manifest
\* digest", docs/API.md).
DeliveryMatches == Addressed /\ state = "available" => delivery = manifest

\* "If the process stops before finalization, rerun aispace transfer resume"
\* (docs/CLI.md:270): once there is a ticket, running resume finishes the transfer.
ResumeFinishes == ticket ~> state \in {"available", "revoked"}

\* What running create and resume does achieve: with finitely many faults and edits
\* the transfer is finished, unless a stop left <ticket>.new behind, the sources
\* keep another size, or the reservation never got a ticket.
UploadEnds ==
    \/ <>(state \in {"available", "revoked"})
    \/ <>[]leftover
    \/ <>[](source \in Grown)
    \/ <>[]stranded
=============================================================================
