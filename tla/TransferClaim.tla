----------------------------- MODULE TransferClaim ----------------------------
(***************************************************************************)
(* `transfer receive` (cmd/transfer.go, runTransferReceive): receivers of  *)
(* ONE sealed link that may run at the same time, each in an output        *)
(* directory of its own.  A run inspects the manifest, claims the          *)
(* transfer, downloads and verifies the bundle while it renews the claim,  *)
(* installs the files, and commits the claim, which consumes one download  *)
(* of a limited transfer.  Whatever else ends it releases the claim.       *)
(* BundleInstall models the download itself; the service is external, and  *)
(* is modelled from how the client uses it: a claim is exclusive, is       *)
(* replayed for its idempotency key, and runs out with its lease.          *)
(***************************************************************************)
EXTENDS Naturals, FiniteSets

CONSTANTS
    Receivers,  \* receivers, each with an output directory
    Overwrites, \* the values of --overwrite they use
    Cap,        \* --max-downloads of the transfer
    Chunks,     \* chunks of the ciphertext: an empty file has one too
    RenewEvery, \* chunks in 32 MiB: the claim is renewed at least as often
    MaxRuns,    \* bound: claim requests with a new key
    MaxFaults,  \* bound: lost messages, failures and crashes
    MaxExpiries \* bound: claim leases that run out

ASSUME OverwriteAssumption == Overwrites \subseteq BOOLEAN
ASSUME ClaimAssumption ==
    /\ Cap \in Nat /\ Chunks \in Nat \ {0} /\ RenewEvery \in Nat \ {0}
    /\ MaxRuns \in Nat /\ MaxFaults \in Nat /\ MaxExpiries \in Nat

VARIABLES
    run,       \* what each receiver's command is doing
    output,    \* what each output directory holds of the bundle
    status,    \* service: the state of each claim, named by its key
    recorded,  \* service: chunks recorded as downloaded under a claim
    verified,  \* history: claims whose files were verified and installed
    unreleased,\* history: claims a command lost hold of: see NothingLeftClaimed
    told,      \* history: claims whose command reported a verified download
    unclear,   \* history: claims whose commit was left without an answer: see ConsumedTold
    keys,      \* idempotency keys drawn so far
    faults, expiries \* counters behind the bounds

service == <<status, recorded>>
reports == <<told, unclear>>
history == <<verified, unreleased, reports>>
bounds == <<keys, faults, expiries>>
vars == <<run, output, service, history, bounds>>

Keys == 1..MaxRuns
PCs == {"idle", "claim", "open", "download", "renew", "commit", "release"}
Idle == [pc |-> "idle", key |-> 0, tries |-> 0, done |-> 0, last |-> 0]
Run == [pc : PCs, key : Nat, tries : 0..1, done : 0..Chunks, last : 0..Chunks]

At(p, pc) == run[p].pc = pc
Become(p, r) == run' = [run EXCEPT ![p] = r]
Goto(p, pc) == Become(p, [run[p] EXCEPT !.pc = pc, !.tries = 0])
End(p) == Become(p, Idle)
Fault == faults < MaxFaults /\ faults' = faults + 1
Refused(p) == status[run[p].key] # "active"

Active == {k \in Keys : status[k] = "active"}
Consumed == {k \in Keys : status[k] = "committed"}

Init ==
    /\ run = [p \in Receivers |-> Idle]
    /\ output = [p \in Receivers |-> {}]
    /\ status = [k \in Keys |-> "free"]
    /\ recorded = [k \in Keys |-> 0]
    /\ verified = {} /\ unreleased = {} /\ told = {} /\ unclear = {}
    /\ keys = 0 /\ faults = 0 /\ expiries = 0

-----------------------------------------------------------------------------
\* The manifest is fetched, decrypted and confirmed, and PreflightReceive finds the
\* output free: a key is drawn for the claim.  (Else the command ends here.)
Inspect(p, ow) ==
    /\ At(p, "idle")
    /\ "files" \in output[p] => ow
    /\ "partial" \notin output[p]
    /\ keys < MaxRuns
    /\ keys' = keys + 1
    /\ Become(p, [Idle EXCEPT !.pc = "claim", !.key = keys + 1])
    /\ UNCHANGED <<output, service, history, faults, expiries>>

\* doIdempotent: after a network failure a call is made once more with its key.
Again(p) == Fault /\ run[p].tries = 0 /\ Become(p, [run[p] EXCEPT !.tries = 1])

\* After a second one the command gives up, and at once when a gateway answers with an error.
GiveUp(p) == Fault

\* The service grants a claim for a new key while no claim runs and the cap is not
\* reached; it answers a key it knows with the claim it granted.
Grantable(k) ==
    \/ status[k] = "active"
    \/ status[k] = "free" /\ Active = {} /\ Cardinality(Consumed) < Cap

\* A claim the command cannot name is left to its lease.
Claim(p) ==
    /\ At(p, "claim")
    /\ Grantable(run[p].key)
    /\ status' = [status EXCEPT ![run[p].key] = "active"]
    /\ \/ Goto(p, "open") /\ UNCHANGED <<unreleased, faults>>
       \/ Again(p) /\ UNCHANGED unreleased
       \/ GiveUp(p) /\ End(p) /\ unreleased' = unreleased \cup {run[p].key}
    /\ UNCHANGED <<output, recorded, verified, reports, keys, expiries>>

\* The claim is refused, or the request does not arrive.
ClaimFails(p) ==
    /\ At(p, "claim")
    /\ \/ ~Grantable(run[p].key) /\ End(p) /\ UNCHANGED <<unreleased, faults>>
       \/ Again(p) /\ UNCHANGED unreleased
       \/ GiveUp(p) /\ End(p) /\ unreleased' = unreleased \cup {run[p].key}
    /\ UNCHANGED <<output, service, verified, reports, keys, expiries>>

-----------------------------------------------------------------------------
\* ReceiveBundle creates the .partial files ...
Open(p) ==
    /\ At(p, "open")
    /\ output' = [output EXCEPT ![p] = @ \cup {"partial"}]
    /\ Goto(p, "download")
    /\ UNCHANGED <<service, history, bounds>>

\* Mutant: the end of the ciphertext is no reason to renew.
DueByVolume(done, last) == done - last >= RenewEvery

\* Progress renews after 32 MiB and at the end of the ciphertext.
Due(done, last) == done - last >= RenewEvery \/ done = Chunks

\* ... reads, authenticates and writes one more chunk, and Progress renews the claim
\* when it is due, or when five minutes have passed since the last renewal.
Receive(p) ==
    /\ At(p, "download")
    /\ run[p].done < Chunks
    /\ status[run[p].key] = "active"
    /\ \E renew \in BOOLEAN :
         /\ Due(run[p].done + 1, run[p].last) => renew
         /\ Become(p, [run[p] EXCEPT !.done = @ + 1,
                                     !.pc = IF renew THEN "renew" ELSE "download"])
    /\ UNCHANGED <<output, service, history, bounds>>

\* The PATCH is not repeated when its answer is lost: then RenewFails.
Renew(p) ==
    /\ At(p, "renew")
    /\ status[run[p].key] = "active"
    /\ recorded' = [recorded EXCEPT ![run[p].key] = run[p].done]
    /\ Become(p, [run[p] EXCEPT !.pc = "download", !.last = run[p].done])
    /\ UNCHANGED <<output, status, history, bounds>>

\* Mutant: a command that fails ends without the deferred release.
DiscardOnly(p) ==
    /\ output' = [output EXCEPT ![p] = @ \ {"partial"}]
    /\ End(p)

\* A failure removes the .partial files, and the claim is released.
Discard(p) ==
    /\ output' = [output EXCEPT ![p] = @ \ {"partial"}]
    /\ Goto(p, "release")

RenewFails(p) ==
    /\ At(p, "renew")
    /\ \/ Refused(p) /\ UNCHANGED <<recorded, faults>>
       \/ Fault /\ UNCHANGED recorded
       \/ /\ Fault /\ ~Refused(p)
          /\ recorded' = [recorded EXCEPT ![run[p].key] = run[p].done]
    /\ Discard(p)
    /\ UNCHANGED <<status, history, keys, expiries>>

\* Opening, reading, decrypting, checking or renaming fails.
ReceiveFails(p) ==
    /\ run[p].pc \in {"open", "download"}
    /\ \/ Fault
       \/ Refused(p) /\ run[p].done < Chunks /\ UNCHANGED faults
    /\ Discard(p)
    /\ UNCHANGED <<service, history, keys, expiries>>

\* Mutant: the files are reported before they are installed.
InstallLate(p) ==
    /\ At(p, "download") /\ run[p].done = Chunks
    /\ Goto(p, "commit")
    /\ UNCHANGED <<output, service, history, bounds>>

\* Every digest matched: the files get their names.
Install(p) ==
    /\ At(p, "download") /\ run[p].done = Chunks
    /\ output' = [output EXCEPT ![p] = {"files"}]
    /\ verified' = verified \cup {run[p].key}
    /\ Goto(p, "commit")
    /\ UNCHANGED <<service, unreleased, reports, bounds>>

-----------------------------------------------------------------------------
\* A verified claim consumes one download; a known commit is answered again.
Committable(k) ==
    \/ status[k] = "active" /\ recorded[k] = Chunks
    \/ status[k] = "committed"

Commit(p) ==
    /\ At(p, "commit")
    /\ Committable(run[p].key)
    /\ status' = [status EXCEPT ![run[p].key] = "committed"]
    /\ \/ End(p) /\ told' = told \cup {run[p].key} /\ UNCHANGED <<unclear, faults>>
       \/ Again(p) /\ UNCHANGED reports
       \/ /\ GiveUp(p) /\ Goto(p, "release")
          /\ unclear' = unclear \cup {run[p].key} /\ UNCHANGED told
    /\ UNCHANGED <<output, recorded, verified, unreleased, keys, expiries>>

\* Mutant: the commit is made again with a key of its own, which the service refuses
\* for a claim it has committed.
CommitAfresh(p) ==
    /\ At(p, "commit")
    /\ \/ /\ ~Committable(run[p].key) \/ run[p].tries = 1
          /\ Goto(p, "release") /\ UNCHANGED <<unclear, faults>>
       \/ Again(p) /\ UNCHANGED unclear
       \/ GiveUp(p) /\ Goto(p, "release") /\ unclear' = unclear \cup {run[p].key}
    /\ UNCHANGED <<output, service, verified, unreleased, told, keys, expiries>>

\* The commit is refused or does not arrive: the files stay, the claim is released.
CommitFails(p) ==
    /\ At(p, "commit")
    /\ \/ ~Committable(run[p].key) /\ Goto(p, "release") /\ UNCHANGED <<unclear, faults>>
       \/ Again(p) /\ UNCHANGED unclear
       \/ GiveUp(p) /\ Goto(p, "release") /\ unclear' = unclear \cup {run[p].key}
    /\ UNCHANGED <<output, service, verified, unreleased, told, keys, expiries>>

\* The deferred release, whose answer nobody waits for.
Release(p) ==
    /\ At(p, "release")
    /\ \/ /\ status' = [status EXCEPT ![run[p].key] = IF @ = "active" THEN "released" ELSE @]
          /\ UNCHANGED <<unreleased, faults>>
       \/ /\ Fault /\ UNCHANGED status
          /\ unreleased' = unreleased \cup {run[p].key}
    /\ End(p)
    /\ UNCHANGED <<output, recorded, verified, reports, keys, expiries>>

\* The process stops: interrupted, killed, or the machine goes down.
Crash(p) ==
    /\ ~At(p, "idle") /\ Fault
    /\ unreleased' = unreleased \cup {run[p].key}
    /\ unclear' = IF At(p, "commit") THEN unclear \cup {run[p].key} ELSE unclear
    /\ End(p)
    /\ UNCHANGED <<output, service, verified, told, keys, expiries>>

\* The lease of a claim runs out.
Expire(k) ==
    /\ status[k] = "active" /\ expiries < MaxExpiries
    /\ status' = [status EXCEPT ![k] = "expired"]
    /\ expiries' = expiries + 1
    /\ UNCHANGED <<run, output, recorded, history, keys, faults>>

Step(p) ==
    \/ Claim(p) \/ ClaimFails(p) \/ Open(p) \/ Receive(p) \/ Renew(p) \/ RenewFails(p)
    \/ ReceiveFails(p) \/ Install(p) \/ Commit(p) \/ CommitFails(p) \/ Release(p)

Next ==
    \/ \E p \in Receivers : Step(p) \/ Crash(p) \/ \E ow \in Overwrites : Inspect(p, ow)
    \/ \E k \in Keys : Expire(k)

Spec == Init /\ [][Next]_vars

-----------------------------------------------------------------------------
TypeOK ==
    /\ run \in [Receivers -> Run]
    /\ output \in [Receivers -> SUBSET {"partial", "files"}]
    /\ status \in [Keys -> {"free", "active", "released", "expired", "committed"}]
    /\ recorded \in [Keys -> 0..Chunks]
    /\ verified \subseteq Keys /\ unreleased \subseteq Keys
    /\ told \subseteq Keys /\ unclear \subseteq Keys
    /\ keys \in 0..MaxRuns /\ faults \in Nat /\ expiries \in Nat

\* "A limited download is consumed only after cryptographic verification"
\* (SECURE_HANDOFFS.md 95): each consumed claim's files were verified and installed.
ConsumedVerified == Consumed \subseteq verified

\* A commit is asked for only when the service has the total of the download, which
\* it requires (API.md 96-98), under the claim it was made with.
CommitComplete == \A p \in Receivers :
    At(p, "commit") => recorded[run[p].key] = Chunks

\* A command that ends gives its claim back: a claim that nobody works under is one
\* whose command was killed, never learned of it, or could not send the release.
NothingLeftClaimed == \A k \in Active :
    k \in unreleased \/ \E p \in Receivers : ~At(p, "idle") /\ run[p].key = k

\* What a command reports of its download agrees with what the service counted (transfer.go
\* 763-767, sealed.go 204-226): success only if one was consumed, and a consumed one as success,
\* however messages are lost and leases run out, unless the process stopped at the commit, its
\* answer was lost twice, or a gateway's error came in its place.
ConsumedTold ==
    /\ told \subseteq Consumed
    /\ \A k \in Consumed :
         k \in told \cup unclear \/ \E p \in Receivers : At(p, "commit") /\ run[p].key = k

\* "verified download cap" (the flag, transfer.go 132): at most Cap receives verify.
VerifiedCapped == Cardinality(verified) <= Cap
=============================================================================
