------------------------------- MODULE FileUpload -------------------------------
(***************************************************************************)
(* `upload` (cmd/upload.go, cmd/crypto.go) and the tool upload_file        *)
(* (internal/mcp/server.go), one after the other, numbered as they begin.  *)
(* An upload with --encrypt and no --recipient generates an age identity   *)
(* of its own.  The service keeps only ciphertext, so the identity must    *)
(* survive wherever the ciphertext may: in the file --identity-out names,  *)
(* in a recovery file beside the configuration, or on the caller's output. *)
(***************************************************************************)
EXTENDS Naturals

CONSTANTS
    MaxUploads,  \* bound: uploads begun
    OutputFails  \* whether what is printed may go nowhere without an error (a full disk)

ASSUME UploadAssumption == MaxUploads \in Nat /\ OutputFails \in BOOLEAN

Uploads == 1..MaxUploads
Nobody == 0

\* plain: no --encrypt, or --encrypt for a --recipient who has the identity; tool: upload_file.
Kinds == {"plain", "out", "recovery", "tool"}
Generates(kind) == kind \in {"out", "recovery"}

VARIABLES
    up,       \* the upload at work: its step, kind, whether it asks for a link
    uploads,  \* uploads begun; the last is the one at work
    sealed,   \* uploads encrypted to an identity generated for them
    outFile,  \* the upload whose identity the --identity-out path holds, or Nobody
    recovery, \* uploads whose identity is in a recovery file
    shown,    \* uploads whose identity reached the caller's output
    stored    \* service: the uploads whose file it keeps

uploadVars == <<up, uploads, sealed, outFile, recovery, shown, stored>>

UpSteps == {"idle", "check", "identity", "encrypt", "send", "refused", "kept", "link", "print",
            "cleanup"}
UpRest == [pc |-> "idle", kind |-> "plain", link |-> FALSE]
UpAt(pc) == up.pc = pc
UpGoto(pc) == up' = [up EXCEPT !.pc = pc]

\* The identity file of the upload at work goes away.
Forget ==
    /\ outFile' = IF up.kind = "out" THEN Nobody ELSE outFile
    /\ recovery' = recovery \ {uploads}

UploadInit ==
    /\ up = UpRest /\ uploads = 0 /\ sealed = {}
    /\ outFile = Nobody /\ recovery = {} /\ shown = {}
    /\ stored = {}

\* Flags, names and the source file.
StartUpload(kind, link) ==
    /\ UpAt("idle") /\ uploads < MaxUploads /\ kind # "tool"
    /\ uploads' = uploads + 1
    /\ sealed' = IF Generates(kind) THEN sealed \cup {uploads + 1} ELSE sealed
    /\ up' = [pc |-> IF Generates(kind) THEN "identity" ELSE "send", kind |-> kind, link |-> link]
    /\ UNCHANGED <<outFile, recovery, shown, stored>>

\* upload_file never encrypts, and asks for the quota first.
StartUploadFile ==
    /\ UpAt("idle") /\ uploads < MaxUploads
    /\ uploads' = uploads + 1
    /\ up' = [pc |-> "check", kind |-> "tool", link |-> FALSE]
    /\ UNCHANGED <<sealed, outFile, recovery, shown, stored>>

\* upload_file compares the size with the quota, then opens and hashes the file.
CheckQuota ==
    /\ UpAt("check")
    /\ UpGoto("send") \/ UpGoto("idle")
    /\ UNCHANGED <<uploads, sealed, outFile, recovery, shown, stored>>

\* The --identity-out file must be new: it is created exclusively.
WriteOut ==
    /\ UpAt("identity") /\ up.kind = "out"
    /\ IF outFile = Nobody
       THEN outFile' = uploads /\ UpGoto("encrypt")
       ELSE UNCHANGED outFile /\ UpGoto("idle")
    /\ UNCHANGED <<uploads, sealed, recovery, shown, stored>>

WriteRecovery ==
    /\ UpAt("identity") /\ up.kind = "recovery"
    /\ recovery' = recovery \cup {uploads}
    /\ UpGoto("encrypt")
    /\ UNCHANGED <<uploads, sealed, outFile, shown, stored>>

\* A file that was created and could not be filled is removed again.
WriteIdentityFails ==
    /\ UpAt("identity")
    /\ UpGoto("idle")
    /\ UNCHANGED <<uploads, sealed, outFile, recovery, shown, stored>>

\* The whole ciphertext is made in a temporary file before anything is sent.
Encrypt ==
    /\ UpAt("encrypt")
    /\ UpGoto("send")
    /\ UNCHANGED <<uploads, sealed, outFile, recovery, shown, stored>>

\* Encrypting or hashing fails: nothing was sent, so the identity goes, if it can be removed.
EncryptFails ==
    /\ UpAt("encrypt")
    /\ Forget \/ UNCHANGED <<outFile, recovery>>
    /\ UpGoto("idle")
    /\ UNCHANGED <<uploads, sealed, shown, stored>>

Store == stored' = stored \cup {uploads}

\* uploadConfirmed: an --identity-out file stays from here on.
Send ==
    /\ UpAt("send")
    /\ Store
    /\ UpGoto(IF up.link THEN "link" ELSE "print")
    /\ UNCHANGED <<uploads, sealed, outFile, recovery, shown>>

SendRefused ==
    /\ UpAt("send")
    /\ UpGoto("refused")
    /\ UNCHANGED <<uploads, sealed, outFile, recovery, shown, stored>>

\* The answer is lost, stalled, a 5xx or unreadable: the file may be stored or not, and a
\* POST is never sent twice (doRequest retries a GET only).
SendUnclear ==
    /\ UpAt("send")
    /\ Store \/ UNCHANGED stored
    /\ UpGoto("kept")
    /\ UNCHANGED <<uploads, sealed, outFile, recovery, shown>>

\* Defect: KeepIdentity: discardUnusedIdentity removes the identity after any error.
DropIdentity ==
    /\ UpAt("kept")
    /\ Forget
    /\ UpGoto("idle")
    /\ UNCHANGED <<uploads, sealed, shown, stored>>

\* preserveIdentity: the deferred cleanup finds no path to remove.
KeepIdentity ==
    /\ UpAt("kept")
    /\ UpGoto("idle")
    /\ UNCHANGED <<uploads, sealed, outFile, recovery, shown, stored>>

\* A 4xx: nothing was stored, and the identity is removed here or by the deferred cleanup.
DiscardIdentity ==
    /\ UpAt("refused")
    /\ Forget \/ UNCHANGED <<outFile, recovery>>
    /\ UpGoto("idle")
    /\ UNCHANGED <<uploads, sealed, shown, stored>>

\* The link is made or refused: either way the upload is reported, identity included.
Link ==
    /\ UpAt("link")
    /\ UpGoto("print")
    /\ UNCHANGED <<uploads, sealed, outFile, recovery, shown, stored>>

\* Only an identity without a file of its own is printed.
PrintUpload ==
    /\ UpAt("print")
    /\ \/ shown' = IF up.kind = "recovery" THEN shown \cup {uploads} ELSE shown
       \/ OutputFails /\ UNCHANGED shown
    /\ UpGoto("cleanup")
    /\ UNCHANGED <<uploads, sealed, outFile, recovery, stored>>

\* The deferred cleanup removes the recovery file, and the ciphertext's temporary file.
CleanUpUpload ==
    /\ UpAt("cleanup")
    /\ recovery' = recovery \ {uploads} \/ UNCHANGED recovery
    /\ UpGoto("idle")
    /\ UNCHANGED <<uploads, sealed, outFile, shown, stored>>

\* The process stops, a request on its way included: nothing is removed.
UploadCrash ==
    /\ ~UpAt("idle")
    /\ (UpAt("send") /\ Store) \/ UNCHANGED stored
    /\ UpGoto("idle")
    /\ UNCHANGED <<uploads, sealed, outFile, recovery, shown>>

\* The operator removes an identity file that `aispace ls` shows to decrypt nothing.
TidyIdentity ==
    /\ UpAt("idle") /\ outFile # Nobody /\ outFile \notin stored
    /\ outFile' = Nobody
    /\ UNCHANGED <<up, uploads, sealed, recovery, shown, stored>>

UploadNext ==
    \/ \E kind \in Kinds, link \in BOOLEAN : StartUpload(kind, link)
    \/ StartUploadFile \/ CheckQuota \/ WriteOut \/ WriteRecovery \/ WriteIdentityFails \/ Encrypt \/ EncryptFails
    \/ Send \/ SendRefused \/ SendUnclear \/ KeepIdentity \/ DiscardIdentity
    \/ Link \/ PrintUpload \/ CleanUpUpload \/ UploadCrash \/ TidyIdentity

UploadSpec == UploadInit /\ [][UploadNext]_uploadVars

---------------------------------------------------------------------------
(* Properties *)

\* The step at work and the records of identities and files are well formed.
UploadTypes ==
    /\ up \in [pc : UpSteps, kind : Kinds, link : BOOLEAN]
    /\ uploads \in 0..MaxUploads /\ (~UpAt("idle") => uploads \in Uploads)
    /\ sealed \subseteq 1..uploads
    /\ outFile \in {Nobody} \cup Uploads /\ recovery \subseteq Uploads /\ shown \subseteq Uploads
    /\ stored \subseteq Uploads

\* Whatever the answer, the step that fails or the moment the process stops: a ciphertext the
\* service may hold can be decrypted. Its generated identity is in a file or was printed; only
\* a refused upload takes its identity along (discardUnusedIdentity, uploadConfirmed, cleanup).
Decryptable == sealed \cap stored \subseteq shown \cup recovery \cup {outFile}

=============================================================================
