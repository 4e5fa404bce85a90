---------------------------- MODULE InboxDelivery ----------------------------
(***************************************************************************)
(* The addressed-inbox side of the CLI (cmd/inbox.go): `inbox receive`,    *)
(* `inbox reject` and `inbox processed` for ONE delivery, run any number   *)
(* of times, by one operator or by several at once, over the private files *)
(* that survive a run:                                                     *)
(*   pending/inbox-claim-<id>     the idempotency key of the claim request *)
(*   pending/receipt-<flow>-<id>  the signed receipts of a flow, and how   *)
(*                                many of them the service acknowledged    *)
(*   deliveries/<id>.json         the context `inbox processed` needs      *)
(* A run stops at any point (error, interrupt, crash, lost response) and   *)
(* the next run finds only those files, the output directory, and the      *)
(* service.  The service is external and is modelled from how the client   *)
(* uses it: a claim is replayed for its key, its lease expires, a receipt  *)
(* is accepted once and replayed for its identifier.                       *)
(***************************************************************************)
EXTENDS Naturals, FiniteSets

CONSTANTS
    Procs,      \* CLI processes that may be running at the same time
    Dirs,       \* output directories an operator names
    Commands,   \* the inbox commands the operator uses
    Overwrites, \* the values of --overwrite the operator uses
    MaxRuns,    \* bound: commands begun with no claim pending
    MaxFaults,  \* bound: runs cut short, responses lost
    MaxExpiries \* bound: claim leases that run out

Flows == {"receive", "rejected", "processed"}
None == 0       \* no key, no claim: keys and claims are numbered from 1
NoDir == "none" \* a flow that installs nothing has no completion record

ASSUME ConstantsAssumption ==
    /\ Commands \subseteq Flows
    /\ Overwrites \subseteq BOOLEAN
    /\ NoDir \notin Dirs
    /\ MaxRuns \in Nat /\ MaxFaults \in Nat /\ MaxExpiries \in Nat

VARIABLES
    pclaim,     \* pending/inbox-claim: a claim key, or None
    pseq,       \* pending/receipt-<flow>: a sequence, or NoSeq
    context,    \* deliveries/<id>.json: the verified claim, or None
    files,      \* directories holding the delivery's installed files
    partials,   \* directories holding its .partial files
    run,        \* what each process is doing
    granted,    \* service: keys a claim was granted for (the claim's name)
    live,       \* service: the claim whose lease runs, or None
    accepted,   \* service: receipts it accepted
    sent,       \* history: receipts that may have reached the service
    acked,      \* history: receipts whose acceptance a run has seen
    keys,       \* idempotency keys drawn so far
    ids,        \* receipt IDs drawn so far
    runs, faults, expiries  \* counters behind the bounds

disk == <<pclaim, pseq, context, files, partials>>
service == <<granted, live, accepted>>
history == <<sent, acked>>
supply == <<keys, ids>>
bounds == <<runs, faults, expiries>>
vars == <<disk, run, service, history, supply, bounds>>

(***************************************************************************)
(* Receipts.  A sequence is the persisted record of a flow: the claim its  *)
(* receipts are bound to, the directory of its completion record, the ID   *)
(* of its first receipt and the number acknowledged.                       *)
(***************************************************************************)
ReceiptTypes == {"downloaded", "verified", "rejected", "processed"}
Receipt == [id : Nat, type : ReceiptTypes, claim : Nat]
Sequence == [claim : Nat, dir : Dirs \cup {NoDir}, first : Nat, next : Nat]
NoSeq == [claim |-> None, dir |-> NoDir, first |-> 0, next |-> 0]

Length(flow) == IF flow = "receive" THEN 2 ELSE 1

\* Mutant: the verdict is submitted first.
VerdictFirst(flow, i) ==
    CASE flow = "receive" /\ i = 0 -> "verified"
      [] flow = "receive" /\ i # 0 -> "downloaded"
      [] OTHER -> flow

TypeAt(flow, i) ==
    CASE flow = "receive" /\ i = 0 -> "downloaded"
      [] flow = "receive" /\ i # 0 -> "verified"
      [] OTHER -> flow

Submission(flow, s, i) ==
    [id |-> s.first + i, type |-> TypeAt(flow, i), claim |-> s.claim]

Submissions(flow, s) ==
    IF s = NoSeq THEN {} ELSE {Submission(flow, s, i) : i \in 0..(Length(flow) - 1)}

\* validPendingReceiptSequence and the checks of recoverCompletedInboxReceive:
\* a stored sequence is used only for the claim and directory it was made for.
Matches(s, claim, dir) == s.claim = claim /\ s.dir = dir

PCs == {"idle", "load", "saveclaim", "claim", "dropclaim", "recover", "download",
        "renew", "install", "loadseq", "saveseq", "submit", "saveprog",
        "context", "unclaim", "unseq", "mismatch"}

Idle == [pc |-> "idle", flow |-> "receive", dir |-> NoDir, ow |-> FALSE,
         key |-> None, tries |-> 0, seq |-> NoSeq]

\* Which commands reach which steps, with what in hand.
WellFormed(r) ==
    /\ r.pc \in {"recover", "download", "renew", "install", "context"} => r.flow = "receive"
    /\ r.pc # "idle" /\ r.flow = "receive" => r.dir \in Dirs
    /\ r.pc \notin {"idle", "load"} => r.key # None
    /\ r.pc \in {"load", "saveclaim", "claim", "dropclaim"} => r.flow # "processed"
    /\ r.pc \in {"load", "claim", "dropclaim"} => r.tries < 2
    /\ r.pc \in {"load", "saveclaim", "claim", "dropclaim", "recover", "download", "renew",
                "install"} => r.seq = NoSeq
    /\ r.pc = "loadseq" /\ r.seq # NoSeq => Matches(r.seq, r.key, r.dir) /\ r.seq.next = 0
    /\ r.pc \in {"saveseq", "submit"} => r.seq.next < Length(r.flow)
    /\ r.pc = "saveprog" => r.seq.next \in 1..Length(r.flow)
    /\ r.pc \in {"context", "unclaim", "unseq"} => r.seq.next = Length(r.flow)
    /\ r.pc \in {"saveseq", "submit", "saveprog", "context", "unclaim", "unseq"} =>
         r.seq # NoSeq /\ Matches(r.seq, r.key, r.dir)

Run == {r \in [pc : PCs, flow : Flows, dir : Dirs \cup {NoDir}, ow : BOOLEAN,
               key : Nat, tries : 0..2, seq : Sequence] : WellFormed(r)}

At(p, pc) == run[p].pc = pc
Goto(p, pc) == run' = [run EXCEPT ![p].pc = pc]
Stop(p) == run' = [run EXCEPT ![p] = Idle]

Settled == \E r \in accepted : r.type \in {"verified", "rejected"}

Init ==
    /\ pclaim = None /\ context = None
    /\ pseq = [f \in Flows |-> NoSeq]
    /\ files = {} /\ partials = {}
    /\ run = [p \in Procs |-> Idle]
    /\ granted = {} /\ live = None /\ accepted = {}
    /\ sent = {} /\ acked = {}
    /\ keys = 0 /\ ids = 0
    /\ runs = 0 /\ faults = 0 /\ expiries = 0

-----------------------------------------------------------------------------
(***************************************************************************)
(* Starting a command.  `processed` reads the saved context and goes       *)
(* straight to its receipt; the other two claim the delivery first.        *)
(***************************************************************************)
StartClaiming(p, flow, dir, ow) ==
    /\ At(p, "idle")
    /\ flow \in Commands \ {"processed"}
    /\ pclaim = None => runs < MaxRuns
    /\ IF flow = "receive" THEN dir \in Dirs ELSE dir = NoDir
    /\ run' = [run EXCEPT ![p] = [Idle EXCEPT !.pc = "load", !.flow = flow,
                                              !.dir = dir, !.ow = ow]]
    /\ runs' = IF pclaim = None THEN runs + 1 ELSE runs
    /\ UNCHANGED <<disk, service, history, supply, faults, expiries>>

StartProcessed(p) ==
    /\ At(p, "idle")
    /\ "processed" \in Commands
    /\ runs < MaxRuns
    /\ context # None
    /\ run' = [run EXCEPT ![p] = [Idle EXCEPT !.pc = "loadseq", !.flow = "processed",
                                              !.key = context]]
    /\ runs' = runs + 1
    /\ UNCHANGED <<disk, service, history, supply, faults, expiries>>

(***************************************************************************)
(* claimInbox: reuse the persisted key or draw and persist a fresh one,    *)
(* claim with it, and when the service replays a claim whose lease is over *)
(* drop the key and try once more with another.                            *)
(***************************************************************************)
LoadClaim(p) ==
    /\ At(p, "load")
    /\ \/ /\ pclaim # None
          /\ run' = [run EXCEPT ![p].pc = "claim", ![p].key = pclaim]
          /\ UNCHANGED keys
       \/ /\ pclaim = None
          /\ run' = [run EXCEPT ![p].pc = "saveclaim", ![p].key = keys + 1]
          /\ keys' = keys + 1
    /\ UNCHANGED <<disk, service, history, ids, bounds>>

SaveClaim(p) ==
    /\ At(p, "saveclaim")
    /\ pclaim' = run[p].key
    /\ IF run[p].tries < 2 THEN Goto(p, "claim") ELSE Stop(p)
    /\ UNCHANGED <<pseq, context, files, partials, service, history, supply, bounds>>

\* What the service does with a claim request: a known key is replayed, a new
\* one is granted when the delivery is undecided and no lease is running.
Grantable(key) == key \in granted \/ (~Settled /\ live = None)

Grant(key) ==
    IF key \in granted THEN UNCHANGED <<granted, live>>
                       ELSE granted' = granted \cup {key} /\ live' = key

Claim(p) ==
    /\ At(p, "claim")
    /\ Grantable(run[p].key)
    /\ Grant(run[p].key)
    /\ IF live' = run[p].key
       THEN Goto(p, IF run[p].flow = "receive" THEN "recover" ELSE "loadseq")
       ELSE Goto(p, "dropclaim")
    /\ UNCHANGED <<disk, accepted, history, supply, bounds>>

\* Mutant: a claim whose response is lost is forgotten.
ForgetLostClaim(p) ==
    /\ At(p, "claim")
    /\ Grantable(run[p].key)
    /\ faults < MaxFaults
    /\ Grant(run[p].key)
    /\ pclaim' = None
    /\ Stop(p)
    /\ faults' = faults + 1
    /\ UNCHANGED <<pseq, context, files, partials, accepted, history, supply, runs, expiries>>

ClaimResponseLost(p) ==
    /\ At(p, "claim")
    /\ Grantable(run[p].key)
    /\ faults < MaxFaults
    /\ Grant(run[p].key)
    /\ Stop(p)
    /\ faults' = faults + 1
    /\ UNCHANGED <<disk, accepted, history, supply, runs, expiries>>

ClaimRefused(p) ==
    /\ At(p, "claim")
    /\ ~Grantable(run[p].key)
    /\ Stop(p)
    /\ UNCHANGED <<disk, service, history, supply, bounds>>

DropClaim(p) ==
    /\ At(p, "dropclaim")
    /\ pclaim' = None
    /\ keys' = keys + 1
    /\ run' = [run EXCEPT ![p].pc = "saveclaim", ![p].key = keys + 1,
                          ![p].tries = run[p].tries + 1]
    /\ UNCHANGED <<pseq, context, files, partials, service, history, ids, bounds>>

\* Mutant: only a sequence without progress is recovered.
RecoverUntouched(p) ==
    LET s == pseq["receive"] IN
    /\ At(p, "recover")
    /\ IF s = NoSeq THEN Goto(p, "download")
       ELSE IF Matches(s, run[p].key, run[p].dir) /\ s.next = 0
       THEN run' = [run EXCEPT ![p].pc = "loadseq", ![p].seq = s]
       ELSE Goto(p, "mismatch")
    /\ UNCHANGED <<disk, service, history, supply, bounds>>

-----------------------------------------------------------------------------
(***************************************************************************)
(* inbox receive after the claim.  A persisted receive sequence means the  *)
(* files were installed by an earlier run: its receipts are submitted, or  *)
(* refused when they belong to another claim or directory.  Otherwise the  *)
(* bundle is fetched, verified and installed.                              *)
(***************************************************************************)
Recover(p) ==
    LET s == pseq["receive"] IN
    /\ At(p, "recover")
    /\ IF s = NoSeq THEN Goto(p, "download")
       ELSE IF Matches(s, run[p].key, run[p].dir)
       THEN run' = [run EXCEPT ![p].pc = "loadseq", ![p].seq = [s EXCEPT !.next = 0]]
       ELSE Goto(p, "mismatch")
    /\ UNCHANGED <<disk, service, history, supply, bounds>>

\* The destination is free: no .partial of another run, and no installed file
\* unless --overwrite was given.
Free(dir, ow) == dir \notin partials /\ (ow \/ dir \notin files)

Download(p) ==
    /\ At(p, "download")
    /\ live = run[p].key /\ ~Settled
    /\ Free(run[p].dir, run[p].ow)
    /\ partials' = partials \cup {run[p].dir}
    /\ Goto(p, "renew")
    /\ UNCHANGED <<pclaim, pseq, context, files, service, history, supply, bounds>>

DownloadRefused(p) ==
    /\ At(p, "download")
    /\ ~(live = run[p].key /\ ~Settled /\ Free(run[p].dir, run[p].ow))
    /\ Stop(p)
    /\ UNCHANGED <<disk, service, history, supply, bounds>>

\* Mutant: the receipts are signed before the files are moved into place.
SignBeforeInstall(p) ==
    /\ At(p, "renew")
    /\ live = run[p].key
    /\ Goto(p, "loadseq")
    /\ UNCHANGED <<disk, service, history, supply, bounds>>

\* The progress callback renews the lease when the last byte has arrived, and
\* its error abandons the bundle.
Renew(p) ==
    /\ At(p, "renew")
    /\ \/ /\ live = run[p].key
          /\ Goto(p, "install")
          /\ UNCHANGED partials
       \/ /\ live # run[p].key
          /\ partials' = partials \ {run[p].dir}
          /\ Stop(p)
    /\ UNCHANGED <<pclaim, pseq, context, files, service, history, supply, bounds>>

Install(p) ==
    /\ At(p, "install")
    /\ files' = files \cup {run[p].dir}
    /\ partials' = partials \ {run[p].dir}
    /\ Goto(p, "loadseq")
    /\ UNCHANGED <<pclaim, pseq, context, service, history, supply, bounds>>

-----------------------------------------------------------------------------
(***************************************************************************)
(* submitInboxReceiptSequence: use the stored sequence or store the one    *)
(* requested (just signed, or found by Recover), then submit its receipts  *)
(* in order, storing the progress after every acknowledgement.             *)
(***************************************************************************)
After(flow) == IF flow = "receive" THEN "context" ELSE "unseq"

Requested(r) ==
    IF r.seq # NoSeq THEN r.seq
    ELSE [claim |-> r.key, dir |-> r.dir, first |-> ids + 1, next |-> 0]

LoadSeq(p) ==
    LET r == run[p]
        s == pseq[r.flow]
    IN
    /\ At(p, "loadseq")
    /\ \/ /\ s = NoSeq
          /\ ids' = IF r.seq = NoSeq THEN ids + Length(r.flow) ELSE ids
          /\ run' = [run EXCEPT ![p].pc = "saveseq", ![p].seq = Requested(r)]
       \/ /\ s # NoSeq /\ Matches(s, r.key, r.dir)
          /\ run' = [run EXCEPT ![p].seq = s,
                       ![p].pc = IF s.next = Length(r.flow) THEN After(r.flow) ELSE "submit"]
          /\ UNCHANGED ids
       \/ /\ s # NoSeq /\ ~Matches(s, r.key, r.dir)
          /\ Goto(p, "mismatch")
          /\ UNCHANGED ids
    /\ UNCHANGED <<disk, service, history, keys, bounds>>

\* Mutant: the signed receipts are submitted without being stored.
SubmitUnsaved(p) ==
    /\ At(p, "saveseq")
    /\ Goto(p, "submit")
    /\ UNCHANGED <<disk, service, history, supply, bounds>>

SaveSeq(p) ==
    /\ At(p, "saveseq")
    /\ pseq' = [pseq EXCEPT ![run[p].flow] = run[p].seq]
    /\ Goto(p, "submit")
    /\ UNCHANGED <<pclaim, context, files, partials, service, history, supply, bounds>>

\* What the service does with a receipt: replay an accepted one, accept one
\* verdict (verified or rejected) and one receipt of the other types.
Acceptable(r) ==
    \/ r \in accepted
    \/ /\ r.claim \in granted
       /\ \A a \in accepted :
            IF r.type \in {"verified", "rejected"} THEN a.type \notin {"verified", "rejected"}
            ELSE a.type # r.type \/ a.claim # r.claim

Current(p) == Submission(run[p].flow, run[p].seq, run[p].seq.next)

Submit(p) ==
    /\ At(p, "submit")
    /\ sent' = sent \cup {Current(p)}
    /\ IF Acceptable(Current(p))
       THEN /\ accepted' = accepted \cup {Current(p)}
            /\ acked' = acked \cup {Current(p)}
            /\ run' = [run EXCEPT ![p].pc = "saveprog", ![p].seq.next = @ + 1]
       ELSE /\ Stop(p)
            /\ UNCHANGED <<accepted, acked>>
    /\ UNCHANGED <<disk, granted, live, supply, bounds>>

ReceiptResponseLost(p) ==
    /\ At(p, "submit")
    /\ Acceptable(Current(p))
    /\ faults < MaxFaults
    /\ sent' = sent \cup {Current(p)}
    /\ accepted' = accepted \cup {Current(p)}
    /\ Stop(p)
    /\ faults' = faults + 1
    /\ UNCHANGED <<disk, granted, live, acked, supply, runs, expiries>>

SaveProgress(p) ==
    /\ At(p, "saveprog")
    /\ pseq' = [pseq EXCEPT ![run[p].flow] = run[p].seq]
    /\ Goto(p, IF run[p].seq.next < Length(run[p].flow) THEN "submit"
               ELSE After(run[p].flow))
    /\ UNCHANGED <<pclaim, context, files, partials, service, history, supply, bounds>>

(***************************************************************************)
(* The end of a flow.  receive: save the context, forget the claim key,    *)
(* forget the sequence.  reject: forget the sequence, then the claim key.  *)
(* processed: forget the sequence.                                         *)
(***************************************************************************)
SaveContext(p) ==
    /\ At(p, "context")
    /\ context' = run[p].seq.claim
    /\ Goto(p, "unclaim")
    /\ UNCHANGED <<pclaim, pseq, files, partials, service, history, supply, bounds>>

RemoveClaim(p) ==
    /\ At(p, "unclaim")
    /\ pclaim' = None
    /\ IF run[p].flow = "receive" THEN Goto(p, "unseq") ELSE Stop(p)
    /\ UNCHANGED <<pseq, context, files, partials, service, history, supply, bounds>>

RemoveSeq(p) ==
    /\ At(p, "unseq")
    /\ pseq' = [pseq EXCEPT ![run[p].flow] = NoSeq]
    /\ IF run[p].flow = "rejected" THEN Goto(p, "unclaim") ELSE Stop(p)
    /\ UNCHANGED <<pclaim, context, files, partials, service, history, supply, bounds>>

\* The command reports that the stored receipts do not match and exits.
ReportMismatch(p) ==
    /\ At(p, "mismatch")
    /\ Stop(p)
    /\ UNCHANGED <<disk, service, history, supply, bounds>>

-----------------------------------------------------------------------------
(***************************************************************************)
(* Faults.  Abort is any error return (network, local I/O, a failed check, *)
(* an operator who answers no); Crash ends the process with no deferred or *)
(* explicit cleanup.  Only the .partial files tell the two apart.          *)
(***************************************************************************)
Abort(p) ==
    /\ ~At(p, "idle")
    /\ faults < MaxFaults
    /\ partials' = IF run[p].pc \in {"renew", "install"} THEN partials \ {run[p].dir}
                                                         ELSE partials
    /\ Stop(p)
    /\ faults' = faults + 1
    /\ UNCHANGED <<pclaim, pseq, context, files, service, history, supply, runs, expiries>>

Crash(p) ==
    /\ ~At(p, "idle")
    /\ faults < MaxFaults
    /\ Stop(p)
    /\ faults' = faults + 1
    /\ UNCHANGED <<disk, service, history, supply, runs, expiries>>

\* The operator deletes .partial files no run is writing.
Tidy(d) ==
    /\ d \in partials
    /\ \A p \in Procs : ~(run[p].pc \in {"renew", "install"} /\ run[p].dir = d)
    /\ partials' = partials \ {d}
    /\ UNCHANGED <<pclaim, pseq, context, files, run, service, history, supply, bounds>>

\* The service: the running lease ends.
LeaseExpires ==
    /\ live # None
    /\ expiries < MaxExpiries
    /\ live' = None
    /\ expiries' = expiries + 1
    /\ UNCHANGED <<disk, run, granted, accepted, history, supply, runs, faults>>

Claiming(p) ==
    \/ LoadClaim(p) \/ SaveClaim(p) \/ Claim(p) \/ ClaimResponseLost(p)
    \/ ClaimRefused(p) \/ DropClaim(p)

Receiving(p) ==
    \/ Recover(p) \/ Download(p) \/ DownloadRefused(p) \/ Renew(p) \/ Install(p)

Submitting(p) ==
    \/ LoadSeq(p) \/ SaveSeq(p) \/ Submit(p) \/ ReceiptResponseLost(p)
    \/ SaveProgress(p)

Finishing(p) ==
    \/ SaveContext(p) \/ RemoveClaim(p) \/ RemoveSeq(p) \/ ReportMismatch(p)

Starting(p) ==
    \/ \E f \in Commands, d \in Dirs \cup {NoDir}, ow \in Overwrites :
         StartClaiming(p, f, d, ow)
    \/ StartProcessed(p)

Next ==
    \/ \E p \in Procs : \/ Starting(p) \/ Claiming(p) \/ Receiving(p)
                        \/ Submitting(p) \/ Finishing(p) \/ Abort(p) \/ Crash(p)
    \/ \E d \in Dirs : Tidy(d)
    \/ LeaseExpires

Spec == Init /\ [][Next]_vars

(***************************************************************************)
(* Fairness: a running command keeps executing, and the operator comes     *)
(* back: the command is run again and stale .partial files are cleared     *)
(* away.  Every step is local or a call that waits for the headers of its  *)
(* answer no longer than HeaderTimeout; that a service which begins an     *)
(* answer also completes it is assumed, as the client reads the answer     *)
(* without a deadline (internal/api/client.go 517-532).                    *)
(***************************************************************************)
Progress(p) == Claiming(p) \/ Receiving(p) \/ Submitting(p) \/ Finishing(p)

FairSpec ==
    /\ Spec
    /\ \A p \in Procs : WF_vars(Progress(p)) /\ WF_vars(Starting(p))
    /\ \A d \in Dirs : WF_vars(Tidy(d))

-----------------------------------------------------------------------------
\* The promise this protocol makes, with claims seen through their receipts.
Promise == INSTANCE DeliveryPromise WITH
    NoClaim <- None,
    installed <- files # {},
    known <- {<<r.type, r.claim>> : r \in accepted},
    recorded <- context

\* Every run, restart and parallel run keeps the promise of DeliveryPromise.
KeepsPromise == Promise!Spec

TypeOK ==
    /\ pclaim \in Nat /\ context \in Nat /\ live \in Nat
    /\ pseq \in [Flows -> Sequence]
    /\ \A f \in Flows : pseq[f].next <= Length(f)
    /\ files \subseteq Dirs /\ partials \subseteq Dirs
    /\ run \in [Procs -> Run]
    /\ granted \subseteq Nat
    /\ accepted \subseteq Receipt /\ sent \subseteq Receipt /\ acked \subseteq Receipt
    /\ keys \in Nat /\ ids \in Nat
    /\ runs \in Nat /\ faults \in Nat /\ expiries \in Nat

\* The recipient signs for files only once they are in place: a stored receive
\* sequence names a directory that holds them, and no downloaded or verified
\* receipt leaves before some directory does (cmd/inbox.go installs the bundle
\* before it signs, and recovers across runs from the stored sequence alone).
ReceiptsFollowInstall ==
    /\ pseq["receive"] # NoSeq => pseq["receive"].dir \in files
    /\ \A r \in sent : r.type \in {"downloaded", "verified"} => files # {}

\* A verified receipt is never sent before the service accepted the downloaded
\* receipt of the same claim, across restarts and parallel runs.
VerifiedAfterDownloaded ==
    \A v \in sent : v.type = "verified" =>
        \E d \in accepted : d.type = "downloaded" /\ d.claim = v.claim

\* The saved context stands for a verified receipt the service holds, so a
\* processed receipt is only ever sent for a claim it knows to be verified.
ProcessedAfterVerified ==
    /\ context # None =>
         \E v \in accepted : v.type = "verified" /\ v.claim = context
    /\ \A r \in sent : r.type = "processed" =>
         \E v \in accepted : v.type = "verified" /\ v.claim = r.claim

\* With one process: whatever the service may have received and the CLI has not
\* seen acknowledged is still on disk, so the next run replays that very
\* receipt ("Exact signed ... receipt requests are persisted before submission").
NothingForgotten ==
    \A r \in sent : r \in acked \/ \E f \in Flows : r \in Submissions(f, pseq[f])

\* With one process: while a lease is running and no verdict was given under it,
\* the key that recovers the claim and its nonce is on disk.
ClaimRecoverable ==
    live # None =>
        \/ pclaim = live
        \/ \E r \in accepted : r.type \in {"verified", "rejected"} /\ r.claim = live

\* "A restart replays the same receipt ID, signature, claim nonce and
\* idempotency key until the service acknowledges it" (docs/CLI.md): a stored
\* sequence for the same directory is never turned away.
RestartReplaysReceipt ==
    \A p \in Procs : At(p, "mismatch") => run[p].dir # pseq[run[p].flow].dir

\* With the operator retrying `inbox receive --overwrite`, finitely many faults
\* and a lease that lasts, the delivery is verified and its context recorded.
EventuallyVerified == <>(context # None)
=============================================================================
