----------------------------- MODULE BundleInstall ----------------------------
(***************************************************************************)
(* internal/sealed/bundle.go: receiving a sealed bundle.  PreflightReceive *)
(* refuses occupied destinations; ReceiveBundle then downloads the chunks  *)
(* of every file into <name>.partial, resuming the body at a chunk         *)
(* boundary when it breaks, checks chunk tags, file digests and the        *)
(* aggregate digest, and only then moves the files into place, keeping     *)
(* what they replace under a backup name until every file is installed.    *)
(* Any local operation may fail and the process may stop at any point.     *)
(* Several receives, and other programs, may work in the same directory.   *)
(***************************************************************************)
EXTENDS Integers, FiniteSets

CONSTANTS
    Procs,      \* processes receiving a bundle into the directory
    NFiles,     \* files of a bundle
    Chunks,     \* chunks of each file
    Retries,    \* ReceiveOptions.Retries
    Overwrites, \* values of --overwrite the operator uses
    Flaws,      \* flaws of the manifests that are received (see NoFlaw)
    MaxRuns,    \* bound: receives begun without --overwrite, or of a flawed manifest
    MaxFaults,  \* bound: operations that fail, processes that stop
    MaxForeign  \* bound: files created by other programs

Files == 1..NFiles

\* What a manifest may get wrong: nothing, the digest of file 1..NFiles, the
\* length of the ciphertext, the aggregate digest.
NoFlaw == 0
Trailing == NFiles + 1
Aggregate == NFiles + 2

ASSUME BundleAssumption ==
    /\ NFiles \in Nat \ {0}
    /\ Chunks \in [Files -> Nat \ {0}]
    /\ Retries \in Nat
    /\ Overwrites \subseteq BOOLEAN
    /\ Flaws \subseteq 0..(NFiles + 2)
    /\ Procs \cap {"nobody", "earlier", "other"} = {}
    /\ MaxRuns \in Nat /\ MaxFaults \in Nat /\ MaxForeign \in Nat

VARIABLES
    final,    \* content of each destination name
    partial,  \* content of each .partial file
    saved,    \* what each running receive moved to a backup name
    orphans,  \* backups no running receive knows: <<file, content>>
    run,      \* what each receive is doing
    before,   \* history: the destinations when the receive began
    runs, faults, foreign

disk == <<final, partial, saved, orphans>>
bounds == <<runs, faults, foreign>>
vars == <<disk, run, before, bounds>>

\* A file is what somebody wrote: a receive its first chunks of a manifest with
\* some flaw, the directory's owner an earlier file, another program its own.
Content == [by : Procs \cup {"nobody", "earlier", "other"}, chunks : Nat, flaw : Nat]
Absent == [by |-> "nobody", chunks |-> 0, flaw |-> NoFlaw]
Earlier == [by |-> "earlier", chunks |-> 0, flaw |-> NoFlaw]
Other == [by |-> "other", chunks |-> 0, flaw |-> NoFlaw]

PCs == {"idle", "stat", "create", "open", "read", "verify", "trailing", "backup",
        "install", "discard", "undo", "restore", "cleanup"}

Results == {"none", "ok", "error", "stopped"}

\* targets[i].partial and targets[i].installed are the sets mine and installed;
\* offset counts verified chunks, body is the chunk the open body delivers next.
Run == [pc : PCs, ow : BOOLEAN, flaw : Nat, file : Nat, offset : Nat, body : Nat,
        attempt : Nat, mine : SUBSET Files, installed : SUBSET Files,
        result : Results, slipped : BOOLEAN]

Idle == [pc |-> "idle", ow |-> FALSE, flaw |-> NoFlaw, file |-> 1, offset |-> 0,
         body |-> 0, attempt |-> 0, mine |-> {}, installed |-> {},
         result |-> "none", slipped |-> FALSE]

At(p, pc) == run[p].pc = pc
Goto(p, pc) == run' = [run EXCEPT ![p].pc = pc]
Finish(p, result) ==
    run' = [run EXCEPT ![p] = [Idle EXCEPT !.result = result, !.slipped = run[p].slipped]]

First(S) == CHOOSE i \in S : \A j \in S : i <= j
Backups(p) == {i \in Files : saved[p][i] # Absent}

\* One more operation that fails.
Fault == faults < MaxFaults /\ faults' = faults + 1
NoFault == UNCHANGED faults

Init ==
    /\ final \in [Files -> {Absent, Earlier}]
    /\ partial = [i \in Files |-> Absent]
    /\ saved = [p \in Procs |-> [i \in Files |-> Absent]]
    /\ orphans = {}
    /\ run = [p \in Procs |-> Idle]
    /\ before = [p \in Procs |-> final]
    /\ runs = 0 /\ faults = 0 /\ foreign = 0

-----------------------------------------------------------------------------
\* PreflightReceive passes (a refusal changes nothing) and ReceiveBundle begins.  What it is
\* asked again and again is to receive a sound bundle with --overwrite: only faults bound that.
Start(p, ow, flaw) ==
    /\ At(p, "idle")
    /\ \/ ow /\ flaw = NoFlaw /\ UNCHANGED runs
       \/ ~(ow /\ flaw = NoFlaw) /\ runs < MaxRuns /\ runs' = runs + 1
    /\ \A i \in Files : partial[i] = Absent /\ (ow \/ final[i] = Absent)
    /\ run' = [run EXCEPT ![p] = [Idle EXCEPT !.pc = "stat", !.ow = ow, !.flaw = flaw]]
    /\ before' = [before EXCEPT ![p] = final]
    /\ UNCHANGED <<disk, faults, foreign>>

\* For each file: look at the destination, then create its .partial exclusively.
Stat(p) ==
    LET i == run[p].file IN
    /\ At(p, "stat")
    /\ \/ Goto(p, IF run[p].ow \/ final[i] = Absent THEN "create" ELSE "cleanup") /\ NoFault
       \/ Goto(p, "cleanup") /\ Fault
    /\ UNCHANGED <<disk, before, runs, foreign>>

CreatePartial(p) ==
    LET i == run[p].file IN
    /\ At(p, "create")
    /\ \/ /\ partial[i] = Absent
          /\ partial' = [partial EXCEPT ![i] = [by |-> p, chunks |-> 0, flaw |-> run[p].flaw]]
          /\ run' = [run EXCEPT ![p].pc = IF i = NFiles THEN "open" ELSE "stat",
                                ![p].file = IF i = NFiles THEN 1 ELSE i + 1,
                                ![p].mine = @ \cup {i}]
          /\ NoFault
       \/ /\ partial[i] # Absent
          /\ Goto(p, "cleanup")
          /\ NoFault
          /\ UNCHANGED partial
       \/ /\ Goto(p, "cleanup")
          /\ Fault
          /\ UNCHANGED partial
    /\ UNCHANGED <<final, saved, orphans, before, runs, foreign>>

\* Mutant: the body is reopened at the start.
OpenAtStart(p) ==
    /\ At(p, "open")
    /\ run' = [run EXCEPT ![p].pc = "read", ![p].body = 0]
    /\ UNCHANGED <<disk, before, bounds>>

\* openAtOffset: the body starts at the first chunk not yet verified.
Open(p) ==
    /\ At(p, "open")
    /\ \/ /\ run' = [run EXCEPT ![p].pc = "read", ![p].body = run[p].offset]
          /\ NoFault
       \/ Goto(p, "cleanup") /\ Fault
    /\ UNCHANGED <<disk, before, runs, foreign>>

\* A chunk arrives whole, and its tag proves it is the next one of this file: it
\* is written.  The last chunk of a file takes the file to its digest check.
ReadChunk(p) ==
    LET r == run[p]
        written == partial[r.file].chunks + 1
    IN
    /\ At(p, "read")
    /\ r.body = r.offset
    /\ partial' = [partial EXCEPT ![r.file].chunks = written]
    /\ run' = [run EXCEPT ![p].offset = @ + 1, ![p].body = @ + 1, ![p].attempt = 0,
                          ![p].pc = IF written = Chunks[r.file] THEN "verify" ELSE "read"]
    /\ UNCHANGED <<final, saved, orphans, before, bounds>>

\* The tag does not match: the chunk is another one, or was altered.
ChunkRefused(p) ==
    /\ At(p, "read")
    /\ IF run[p].body # run[p].offset THEN NoFault ELSE Fault
    /\ Goto(p, "cleanup")
    /\ UNCHANGED <<disk, before, runs, foreign>>

\* The body breaks inside a chunk: reopened at most Retries times for one chunk.
BodyBreaks(p) ==
    /\ At(p, "read")
    /\ Fault
    /\ IF run[p].attempt >= Retries
       THEN Goto(p, "cleanup")
       ELSE run' = [run EXCEPT ![p].pc = "open", ![p].attempt = @ + 1]
    /\ UNCHANGED <<disk, before, runs, foreign>>

\* The write fails after some bytes, the progress callback gives up (the claim
\* could not be renewed), or the command was cancelled.
ReadGivesUp(p) ==
    LET written == partial[run[p].file].chunks + 1 IN
    /\ At(p, "read")
    /\ Fault
    /\ \E n \in {written - 1, written} :
          partial' = [partial EXCEPT ![run[p].file].chunks = n]
    /\ Goto(p, "cleanup")
    /\ UNCHANGED <<final, saved, orphans, before, runs, foreign>>

\* The digest of a complete file, and its Sync and Close.
VerifyFile(p) ==
    LET i == run[p].file IN
    /\ At(p, "verify")
    /\ \/ /\ run[p].flaw # i
          /\ run' = [run EXCEPT ![p].pc = IF i = NFiles THEN "trailing" ELSE "read",
                                ![p].file = IF i = NFiles THEN 1 ELSE i + 1]
          /\ NoFault
       \/ run[p].flaw = i /\ Goto(p, "cleanup") /\ NoFault
       \/ Goto(p, "cleanup") /\ Fault
    /\ UNCHANGED <<disk, before, runs, foreign>>

\* Mutant: what follows the last file is not checked.
SkipAggregate(p) ==
    /\ At(p, "trailing")
    /\ Goto(p, IF run[p].ow THEN "backup" ELSE "install")
    /\ UNCHANGED <<disk, before, bounds>>

\* Mutant: what is replaced is not kept.
SkipBackup(p) ==
    /\ At(p, "trailing")
    /\ run[p].flaw \notin {Trailing, Aggregate}
    /\ Goto(p, "install")
    /\ UNCHANGED <<disk, before, bounds>>

\* The body ends where it should and the aggregate digest matches.
VerifyAll(p) ==
    /\ At(p, "trailing")
    /\ \/ /\ run[p].flaw \notin {Trailing, Aggregate}
          /\ Goto(p, IF run[p].ow THEN "backup" ELSE "install")
          /\ NoFault
       \/ run[p].flaw \in {Trailing, Aggregate} /\ Goto(p, "cleanup") /\ NoFault
       \/ Goto(p, "cleanup") /\ Fault
    /\ UNCHANGED <<disk, before, runs, foreign>>

-----------------------------------------------------------------------------
\* With --overwrite: move what is there to a backup name of its own.
BackUp(p) ==
    LET i == run[p].file IN
    /\ At(p, "backup")
    /\ \/ /\ saved' = [saved EXCEPT ![p][i] = final[i]]
          /\ final' = [final EXCEPT ![i] = Absent]
          /\ run' = [run EXCEPT ![p].pc = IF i = NFiles THEN "install" ELSE @,
                                ![p].file = IF i = NFiles THEN 1 ELSE i + 1]
          /\ NoFault
       \/ /\ Goto(p, "undo")
          /\ Fault
          /\ UNCHANGED <<final, saved>>
    /\ UNCHANGED <<partial, orphans, before, runs, foreign>>

\* Mutant: a failed rename is not rolled back.
InstallNoRollback(p) ==
    LET i == run[p].file IN
    /\ At(p, "install")
    /\ \/ /\ final' = [final EXCEPT ![i] = partial[i]]
          /\ partial' = [partial EXCEPT ![i] = Absent]
          /\ run' = [run EXCEPT ![p].pc = IF i = NFiles THEN "discard" ELSE @,
                                ![p].file = IF i = NFiles THEN 1 ELSE i + 1,
                                ![p].mine = @ \ {i}, ![p].installed = @ \cup {i}]
          /\ NoFault
       \/ /\ Goto(p, "cleanup")
          /\ Fault
          /\ UNCHANGED <<final, partial>>
    /\ UNCHANGED <<saved, orphans, before, runs, foreign>>

\* Rename .partial to its destination.  Rename replaces what is there.
InstallFile(p) ==
    LET i == run[p].file IN
    /\ At(p, "install")
    /\ \/ /\ final' = [final EXCEPT ![i] = partial[i]]
          /\ partial' = [partial EXCEPT ![i] = Absent]
          /\ run' = [run EXCEPT ![p].pc = IF i = NFiles THEN "discard" ELSE @,
                                ![p].file = IF i = NFiles THEN 1 ELSE i + 1,
                                ![p].mine = @ \ {i}, ![p].installed = @ \cup {i}]
          /\ NoFault
       \/ /\ Goto(p, "undo")
          /\ Fault
          /\ UNCHANGED <<final, partial>>
    /\ UNCHANGED <<saved, orphans, before, runs, foreign>>

\* Every file is in place: remove the backups.  One that cannot be removed stays.
Discard(p) ==
    LET i == First(Backups(p)) IN
    /\ At(p, "discard")
    /\ IF Backups(p) = {}
       THEN Finish(p, "ok") /\ NoFault /\ UNCHANGED <<saved, orphans>>
       ELSE /\ saved' = [saved EXCEPT ![p][i] = Absent]
            /\ \/ NoFault /\ UNCHANGED <<run, orphans>>
               \/ /\ Fault
                  /\ orphans' = orphans \cup {<<i, saved[p][i]>>}
                  /\ run' = [run EXCEPT ![p].slipped = TRUE]
    /\ UNCHANGED <<final, partial, before, runs, foreign>>

\* rollback: remove the installed files, then put the backups back, ignoring
\* errors; a backup that cannot be put back keeps its backup name.
Undo(p) ==
    LET i == First(run[p].installed) IN
    /\ At(p, "undo")
    /\ IF run[p].installed = {}
       THEN Goto(p, "restore") /\ NoFault /\ UNCHANGED final
       ELSE \/ /\ final' = [final EXCEPT ![i] = Absent]
               /\ run' = [run EXCEPT ![p].installed = @ \ {i}]
               /\ NoFault
            \/ /\ run' = [run EXCEPT ![p].installed = @ \ {i}, ![p].slipped = TRUE]
               /\ Fault
               /\ UNCHANGED final
    /\ UNCHANGED <<partial, saved, orphans, before, runs, foreign>>

Restore(p) ==
    LET i == First(Backups(p)) IN
    /\ At(p, "restore")
    /\ IF Backups(p) = {}
       THEN Goto(p, "cleanup") /\ NoFault /\ UNCHANGED <<final, saved, orphans>>
       ELSE /\ saved' = [saved EXCEPT ![p][i] = Absent]
            /\ \/ /\ final' = [final EXCEPT ![i] = saved[p][i]]
                  /\ NoFault
                  /\ UNCHANGED <<run, orphans>>
               \/ /\ orphans' = orphans \cup {<<i, saved[p][i]>>}
                  /\ run' = [run EXCEPT ![p].slipped = TRUE]
                  /\ Fault
                  /\ UNCHANGED final
    /\ UNCHANGED <<partial, before, runs, foreign>>

\* Mutant: the error is returned without a call of cleanup.
KeepPartials(p) ==
    /\ At(p, "cleanup")
    /\ Finish(p, "error")
    /\ UNCHANGED <<disk, before, bounds>>

\* cleanup: close and remove the .partial files that are left, ignoring errors.
CleanUp(p) ==
    LET i == First(run[p].mine) IN
    /\ At(p, "cleanup")
    /\ IF run[p].mine = {}
       THEN Finish(p, "error") /\ NoFault /\ UNCHANGED partial
       ELSE \/ /\ partial' = [partial EXCEPT ![i] = Absent]
               /\ run' = [run EXCEPT ![p].mine = @ \ {i}]
               /\ NoFault
            \/ /\ run' = [run EXCEPT ![p].mine = @ \ {i}, ![p].slipped = TRUE]
               /\ Fault
               /\ UNCHANGED partial
    /\ UNCHANGED <<final, saved, orphans, before, runs, foreign>>

-----------------------------------------------------------------------------
\* The process stops: nothing is cleaned up, its backups are known to nobody.
Crash(p) ==
    /\ ~At(p, "idle")
    /\ Fault
    /\ orphans' = orphans \cup {<<i, saved[p][i]>> : i \in Backups(p)}
    /\ saved' = [saved EXCEPT ![p] = [i \in Files |-> Absent]]
    /\ Finish(p, "stopped")
    /\ UNCHANGED <<final, partial, before, runs, foreign>>

\* The operator deletes a .partial file no receive owns.
Tidy(i) ==
    /\ partial[i] # Absent
    /\ \A p \in Procs : i \notin run[p].mine
    /\ partial' = [partial EXCEPT ![i] = Absent]
    /\ UNCHANGED <<final, saved, orphans, run, before, bounds>>

\* Another program creates a file under a destination name.
Foreign(i) ==
    /\ foreign < MaxForeign
    /\ final[i] = Absent
    /\ final' = [final EXCEPT ![i] = Other]
    /\ foreign' = foreign + 1
    /\ UNCHANGED <<partial, saved, orphans, run, before, runs, faults>>

Downloading(p) ==
    \/ Stat(p) \/ CreatePartial(p) \/ Open(p) \/ ReadChunk(p) \/ ChunkRefused(p)
    \/ BodyBreaks(p) \/ ReadGivesUp(p) \/ VerifyFile(p) \/ VerifyAll(p)

Installing(p) == BackUp(p) \/ InstallFile(p) \/ Discard(p)

Ending(p) == Undo(p) \/ Restore(p) \/ CleanUp(p)

Starting(p) == \E ow \in Overwrites, flaw \in Flaws : Start(p, ow, flaw)

Next ==
    \/ \E p \in Procs :
         Starting(p) \/ Downloading(p) \/ Installing(p) \/ Ending(p) \/ Crash(p)
    \/ \E i \in Files : Tidy(i) \/ Foreign(i)

Spec == Init /\ [][Next]_vars

Working(p) == Downloading(p) \/ Installing(p) \/ Ending(p)

\* .partial files are left when a receive is stopped or cannot remove them, and only then.
Leftover == \E p \in Procs : run[p].result = "stopped" \/ run[p].slipped

(***************************************************************************)
(* Fairness: a receive keeps executing, its operator runs it again, and    *)
(* clears stale .partial files, which block it, if something went wrong    *)
(* that could leave them.                                                  *)
(***************************************************************************)
FairSpec ==
    /\ Spec
    /\ \A p \in Procs : WF_vars(Working(p)) /\ WF_vars(Starting(p))
    /\ \A i \in Files : WF_vars(Leftover /\ Tidy(i))

-----------------------------------------------------------------------------
TypeOK ==
    /\ final \in [Files -> Content] /\ partial \in [Files -> Content]
    /\ \A i \in Files : partial[i].chunks <= Chunks[i]
    /\ saved \in [Procs -> [Files -> Content]]
    /\ orphans \subseteq Files \X Content
    /\ run \in [Procs -> Run] /\ \A p \in Procs : run[p].file \in Files
    /\ before \in [Procs -> [Files -> Content]]
    /\ runs \in Nat /\ faults \in Nat /\ foreign \in Nat

\* All of file i, from a manifest that is right about everything.
Verified(i, c) == c.by \in Procs => c.chunks = Chunks[i] /\ c.flaw = NoFlaw

\* "Destination names are installed only after every file verifies": whatever
\* receives run at once and wherever they stop, no destination (nor a backup of
\* one) ever holds a download that is not complete and verified to the last digest.
OnlyVerifiedInstalled ==
    /\ \A i \in Files : Verified(i, final[i])
    /\ \A p \in Procs, i \in Files : Verified(i, saved[p][i])

\* Two receives never write the same .partial file: the exclusive create is the
\* only lock there is, and it holds until the file is installed or removed.
PartialsExclusive ==
    \A p \in Procs : \A i \in run[p].mine :
        partial[i].by = p /\ \A q \in Procs \ {p} : i \notin run[q].mine

\* The chunks before file i.
ChunksBefore[i \in Files] == IF i = 1 THEN 0 ELSE ChunksBefore[i - 1] + Chunks[i - 1]

\* "A body failure is retried without repeating completed chunks": when a chunk is
\* read, after any number of reopened bodies, the body delivers the first chunk not
\* yet verified, and the .partial files hold exactly the chunks before it.
ResumesAtBoundary ==
    \A p \in Procs : At(p, "read") =>
        /\ run[p].body = run[p].offset
        /\ \A i \in Files :
             partial[i].chunks = IF i < run[p].file THEN Chunks[i]
                                 ELSE IF i = run[p].file THEN run[p].offset - ChunksBefore[i] ELSE 0

\* With one receive at a time: a receive that reports success has installed every
\* file; one that reports an error leaves every destination as it was, or with what
\* another program put there meanwhile, and no .partial file, unless an operation of
\* the rollback itself failed.
AllOrNothing ==
    \A p \in Procs : At(p, "idle") /\ ~run[p].slipped =>
        /\ run[p].result = "ok" => \A i \in Files : final[i].by = p
        /\ run[p].result = "error" =>
             \A i \in Files : /\ partial[i] = Absent
                              /\ \/ final[i] = before[p][i]
                                 \/ before[p][i] = Absent /\ final[i] = Other

\* With one receive at a time: until every file is installed, what a destination
\* held when the receive began is there or under a backup name, also when the
\* process stops in the middle or the rollback fails.
NothingLost ==
    \A p \in Procs, i \in Files :
        \/ before[p][i] \in {Absent, final[i], saved[p][i]}
        \/ <<i, before[p][i]>> \in orphans
        \/ (At(p, "discard") \/ run[p].result \in {"ok", "stopped"}) /\
             \A j \in Files : final[j].by = p

\* "Existing paths are rejected unless --overwrite is explicit" (docs/CLI.md:290):
\* only a receive with --overwrite changes or removes what a destination holds,
\* but for the files a receive that rolls back has installed itself.
NeverReplaces ==
    [][\A i \in Files : final[i] # Absent /\ final'[i] # final[i] =>
         \E p \in Procs : run[p].ow \/ i \in run[p].installed]_vars

\* File i of a verified bundle is there, under its own name or a backup name.
Whole(i, c) == c.by \in Procs /\ c.chunks = Chunks[i] /\ c.flaw = NoFlaw
Held(i) ==
    \/ Whole(i, final[i])
    \/ \E p \in Procs : Whole(i, saved[p][i])
    \/ \E o \in orphans : o[1] = i /\ Whole(i, o[2])

Stage == IF \E p \in Procs : At(p, "discard") THEN "placed"
         ELSE IF \E p \in Procs : ~At(p, "idle") THEN "fetching" ELSE "none"
PartsThere == \E i \in Files : partial[i] # Absent
AllHeld == \A i \in Files : Held(i)
Outcome == {run[p].result : p \in Procs}

Promise == INSTANCE BundlePromise
    WITH stage <- Stage, parts <- PartsThere, kept <- AllHeld, outcome <- Outcome

\* With one receive at a time: the many steps of a receive, its failures and its rollback
\* are to the commands that ask for it the few steps of BundlePromise.
KeepsPromise == Promise!Spec

\* No receive leaves the directory in a state that blocks the next ones (bundle.go 194-197,
\* 250-267): once faults stop, a receive that failed or was stopped is followed by one that
\* succeeds, whatever of its .partial files, backups and destinations it left, if the operator
\* runs it again with --overwrite and a sound manifest.  Only a stop, or a removal that
\* failed, ever asks that .partial files be removed by hand.
ReceivesRecover ==
    \A p \in Procs : run[p].result \in {"error", "stopped"} ~> \E q \in Procs : run[q].result = "ok"
=============================================================================
