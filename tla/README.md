# Verification of the aispace client

TLA+ models of the aispace command line client, configurations that check them
with TLC, and proofs that TLAPS checks. The reference is the code of this
repository; every definition that stands for code is listed with its lines in
`PROJECT.json` under `map`, and the comments in the modules name the functions.

The client is one Go program. Its commands are short-lived processes that talk
to an HTTP service which is not in this repository, and that leave private files
beside the configuration file for the next command. There is no daemon, no lock
on those files and no transaction across them: a command may end at any point,
an answer may be lost after the service has acted, and two commands may run at
the same time. Most of what is hard to get right here is what the *next* command
makes of what the previous one left, so that is what the models are about.

## 1. Inventory

| Component | State it keeps | Operations | Interacts with |
|---|---|---|---|
| Inbox delivery, `cmd/inbox.go` | `pending/inbox-claim-<id>`, `pending/receipt-<flow>-<id>`, `deliveries/<id>.json` | `receive`, `reject`, `processed`, `list` | service (claims, receipts), bundle receive, identity store |
| Bundle receive, `internal/sealed/bundle.go` | the output directory: destinations, `.partial` files, backups | `PreflightReceive`, `ReceiveBundle` | the download stream; both receive commands |
| Sealed upload, `cmd/transfer.go` | the sources, the owner ticket and `<ticket>.new` | `create`, `resume`, `revoke` | service (transfer, parts, manifest, delivery), recipient trust |
| Anonymous receive, `cmd/transfer.go` 600-773 | a claim while it runs, the output directory | `receive` | service (claims), bundle receive, pairing |
| Transfer watch, `internal/api/transfer.go` | two flags, a timer, a mutex per request | `start`, `touch`, `pause`, `expire`, `stop` | the goroutines of one HTTP request |
| Identity rotation, `cmd/identity.go` 243-371 | `identities/<id>.json`, `.pending-*`, `pending/rotation-<id>` | `rotate` | service (challenges, keys), identity store |
| Identity creation, `cmd/identity.go` 56-183 | `pending/identity-create-<handle>`, the identity | `create` | service, identity store |
| Recipient trust, `cmd/recipient.go` | `recipients.json`, pins at the service | `add`, `verify`, `remove`, resolution before a send | service (published keys and their history), upload |
| Pairing, `cmd/handoff.go`, `internal/handoff` | none on disk; a receiver key in memory | `offer`, `receive`, `encode` | service (pairing states), anonymous receive |
| API client, `internal/api` | cursors, one retry | every request | everything above |
| Files, `cmd/files.go`, `cmd/upload.go`, `cmd/crypto.go` | outputs, age identity files | `upload`, `download`, `ls`, `link`, `rm`, `decrypt` | API client |
| MCP server, `internal/mcp` | the allowed roots, under an RW mutex | ten tools | API client, local files |
| Formats and cryptography, `internal/sealed/format.go`, `crypto.go`, `internal/identity/crypto.go`, `canonical.go` | none | pure functions | everything that sends or receives |
| Adaptive policy, configuration, login, durations, completion, packaging | one file, or none | | |

What makes each of them hard, and what makes it correct:

* **Inbox delivery.** A delivery takes up to four requests and five writes, and
  any of them may be the last of a run. The service must never hear "verified"
  for files that are not installed, nor "processed" for a delivery without a
  verdict; a receipt that may have been sent must be on disk, and must be sent
  again as it was rather than signed anew; and running the command again must
  get there.
* **Bundle receive.** A download into a user's directory is all or nothing: no
  destination may hold unverified bytes, a failure after half the renames must
  put back what they replaced, and nothing that was there before may be lost.
  Bodies break and resume at a chunk boundary; other programs and other receives
  work in the same directory.
* **Sealed upload.** An upload is resumed by a process that knows only the ticket
  and the sources, which may have been edited. What becomes available must be
  one version of the sources; the ticket, the only capability to resume or
  revoke, must not be lost; resuming must finish.
* **Anonymous receive.** A link may be limited to N downloads. The claim must be
  committed only for verified files and given back otherwise, and the last
  progress report must precede the commit.
* **Transfer watch.** A timer that is reset on every byte, a goroutine that has
  fired but waits for the mutex, and two bodies on one watch: it must neither
  kill a transfer that moves nor let one that has stopped hang.
* **Identity rotation.** The private half of every key that the service accepted
  must survive: deliveries to it cannot be read otherwise. The request is
  persisted before it is sent and replayed until it is answered.
* **Recipient trust.** What may be encrypted to is decided by a local file that
  several commands read and write back whole, by pins at the service, and by keys
  the service publishes, which may be rotated, replaced or rolled back. A send
  must go to keys somebody vouched for or to their signed successors; no state
  of an entry may be a dead end.
* **Pairing.** Two devices that never talk to each other follow one room through
  polls and retried requests. The token may be sealed only for a receiver whose
  operator approved; a request that is repeated because its answer was lost must
  not count as a second receiver, nor make one side report a failure when the
  other succeeded; and both must stop when the room does.
* **Creation.** Every run generates keys of its own and replaces the identity's
  file, so a publication that may have been sent must be replayed and never signed
  anew; no file of an identity may be left that no run will publish; and running
  the command again must end what a stop left pending.
* **Uploads.** An upload with `--encrypt` generates the only identity that decrypts
  it. Whatever the answer and wherever the process stops, the identity must survive
  wherever the ciphertext may, and go only when the service refused the upload.
* **Listings and batches.** A listing is resumed call after call while files come
  and go, by a service that may hand out empty pages and repeat cursors: nothing may
  be skipped or told twice, and every call must end. A batch that reports success
  has done all of what it was asked.
* **Downloads.** A destination is checked before a download and used after it, by
  commands and tool calls at the same time: nothing that others put there may be
  replaced, nothing unverified may be published, no download may be charged twice,
  and what a tool writes must be inside the roots that hold when it is approved.

## 2. Modules

| Module | Stands for | Extended by |
|---|---|---|
| `DeliveryPromise` | abstract: what the inbox promises about one delivery | instantiated in `InboxDelivery` |
| `InboxDelivery` | `cmd/inbox.go` and the pending files of `internal/identity/store.go` | `InboxDeliveryProofs`, `MCInboxCrash` |
| `BundlePromise` | abstract: what the commands that receive bundles rely on | instantiated in `BundleInstall` |
| `BundleInstall` | `internal/sealed/bundle.go` | `BundleInstallProofs`, `MCBundle` |
| `SealedUpload` | `transfer create`, `resume`, `revoke` in `cmd/transfer.go` | `TransferProofs`, `MCUpload` |
| `TransferClaim` | `transfer receive` in `cmd/transfer.go` | `TransferClaimProofs`, `MCClaim` |
| `TransferWatch` | `internal/api/transfer.go` and its callers in `client.go`, `sealed.go` | `TransferProofs`, `MCWatch` |
| `IdentityRotation` | `identity rotate` in `cmd/identity.go` and the private-file writes of `store.go` | `IdentityRotationProofs`, `MCRotation` |
| `RecipientTrust` | `cmd/recipient.go` and `recipients.json` in `store.go` | `RecipientTrustProofs`, `MCTrust` |
| `HandoffPromise` | abstract: what a handoff promises its two devices | instantiated in `Pairing` |
| `Pairing` | `handoff offer` and `handoff receive` in `cmd/handoff.go` | `PairingProofs`, `MCPairing` |
| `IdentityCreate` | `identity create` in `cmd/identity.go` and the private-file writes of `store.go` | `ClientProofs`, `MCClient` |
| `FileUpload` | `upload` in `cmd/upload.go`, `cmd/crypto.go`; the tool `upload_file` | `ClientProofs`, `MCClient` |
| `FileListing` | `ls`, `rm` and the batches of `cmd/files.go`; `ListPage`, `WalkFilesFrom` in `internal/api/client.go` | `ClientProofs`, `MCClient` |
| `FileDownload` | `download`, `decrypt`; the tool `download_file` and the roots of `internal/mcp` | `ClientProofs`, `MCClient` |

`MC*` modules only name the sets the configurations use. `MCClient` does one thing
more: the four modules it extends share no state of the client (an identity's
files, the output of an upload, a listing and local destinations), so one run takes
any one of them (`family`), and what it checks of each is what the module's own
specification says.

### Conventions

* Every process has a record `run[p]` with a program counter `pc`; one action is
  the code between two points at which another process, the service or a stop
  can interfere: a file operation or a request. `Crash(p)` stops a process
  anywhere. An error return is an action of its own that does what the deferred
  calls and the clean-up do.
* A request that may be lost has two outcomes beside its success: the service
  refused or never got it, and the service acted but the answer was lost.
* The **service** is external. It is modelled from what the code in `src/`
  relies on: a request with an idempotency key it has answered is answered again
  without a new effect, a claim is exclusive and has a lease, a receipt is
  accepted once and in order, a key is accepted from its predecessor. Those
  definitions are marked `external` in the map.
* Bytes, names, signatures and keys are numbers or members of small sets. A
  digest is what it is computed from, so equal digests mean equal content.
* Every bound is a constant whose name starts with `Max` and occurs in a guard.
* Operators such as `VerdictFirst` or `SkipBackup`, each placed before the
  definition it alters, are plausible bugs. `PROJECT.json` lists under `mutants`
  which property each of them breaks; no specification uses them.
* The models are bounded and end when the bounds are used up and every command
  has ended, so the configurations switch deadlock checking off: a state without
  successor is "nobody runs a command any more". That no command gets stuck
  before is a liveness property of most modules (`EventuallyVerified`,
  `ReceivesRecover`, `UploadEnds`, `RotationEnds`, `SendsRecover`, `HandoffEnds`,
  `CreateEnds`, `LsEnds`). `TransferClaim` has a measure instead, proved for any
  instance (`ClaimShortens`): whether its requests return is the service's affair.
  `FileUpload` and `FileDownload` have no loop that waits:
  each of their steps ends in a bounded number of others.
  `TransferWatch` checks deadlock, since its clock always ticks.

### InboxDelivery

`pclaim`, `pseq` and `context` are the three private files, `files` and
`partials` the output directories, `granted`, `live` and `accepted` the service.
`sent` and `acked` are history: what may have reached the service and what a run
has seen accepted. A receive goes

    LoadClaim - SaveClaim - Claim - Recover - Download - Renew - Install -
    LoadSeq - SaveSeq - (Submit - SaveProgress)* - SaveContext - RemoveClaim - RemoveSeq

`reject` and `processed` share the receipt steps. `Recover` is
`recoverCompletedInboxReceive` with all of its refusals (`ReportMismatch`), and
`ClaimRefused` and `DropClaim` are the replacement of a stale claim key.
`BundleInstall` is summarised in `Download` and `Install`: it leaves either
every file, or nothing, or `.partial` files after a crash.

`DeliveryPromise` says the same in five lines: install, learn a receipt, record.
`KeepsPromise` is its refinement by `installed <- files # {}`,
`known <- {<<type, claim>> of accepted}`, `recorded <- context`.

### BundleInstall

`final`, `partial`, `saved` and `orphans` are the directory: destinations,
`.partial` files, backups a running receive remembers and backups nobody
remembers. Content is who wrote it, how many chunks and for which manifest; a
manifest has a flaw or none (the digest of one file, the length, the aggregate).
`Stat` and `CreatePartial` are the two loops before the download,
`ReadChunk`/`BodyBreaks`/`Open` the download with its retries, `VerifyFile` and
`VerifyAll` the checks, `BackUp`, `InstallFile`, `Undo`, `Restore`, `Discard`,
`CleanUp` the end with its rollback. `Foreign` is another program that creates a
file and `Tidy` the operator who removes a stale `.partial` file.

`BundlePromise` is what the two commands that receive bundles rely on, in seven actions:
begin, write `.partial` files, remove them, place every file at once, succeed, fail, stop.
`KeepsPromise` is its refinement, with one receive at a time: `kept` is that every file of
a verified bundle is at its destination or under a backup name (`AllHeld`), `parts` that
some `.partial` file is there, `outcome` what the receive has reported, and `stage` is
`placed` from the last rename on (`discard`, where only backups are removed), `fetching`
while it runs before that, the rollback included. `InboxDelivery` takes a receive as
`Download`, `Install`, `Abort` and `Crash`, `TransferClaim` as `Open`, `Receive`, `Install`,
`Discard` and `Crash`: these are the steps `Fill`, `Place`, `Clear` with `Fail`, and `Stop`.
An `Abort` whose clean-up fails leaves what a `Crash` there leaves. A stop between two
renames of a receive that overwrites its own earlier files leaves some of these under
backup names, and they still count as held.

### SealedUpload

`state`, `parts`, `manifest`, `delivery`, `finished`, `answered` are the service;
`source`, `ticket`, `leftover` the owner's disk. `StartCreate` to `WriteTicket`
and `Abandon` are `create`; `Resume` to `Complete` is `finishTransferUpload`, which
both commands run. `Edit` changes the sources between two commands, `past`
remembers the versions they had, so that an edit that is undone can be told
from one that is not (`Undone`).

### TransferClaim

`run`, `output` per receiver; `status` and `recorded` per claim at the service.
`Inspect` and the preflight, `Claim`, `Open`, `Receive`, `Renew` (every
32 MiB, after five minutes, and at the end), `Install`, `Commit`, `Release`. A request
that gets no answer is sent once more; a gateway's error ends it at once, with or without
its effect (`GiveUp`). A claim a command can no longer name is in `unreleased`, one whose
commit was left without an answer in `unclear`, and `told` are those whose command has
reported a verified download.

### TransferWatch

The watch's two flags are `mode`, its timer `timer` and `left`; `fired` counts
goroutines that `time.AfterFunc` has started and that wait for the mutex. Time
is a bounded clock (`Tick` up to `Timeout` quiet ticks). `Send`, `SendEnds`,
`Headers`, `NoResponse`, `Receive`, `ReceiveEnds`, `Close` are the calls of the
HTTP transport and of the reader. `Refusal` is an answer to a download that is no
200: its body is read without the watch, and it is retried once at most
(`RefusalEnds`). `touch`, `pause`, `stop`, `Expire` are the
methods of the same names.

### IdentityRotation

`identity`, `staged`, `pending` are the private files, `left` the temporary
files of `writePrivateJSON` that a stop leaves behind; `active`, `accepted`,
`expired` the service. `Begin` resolves the identity, `FindPending` and `FindNone`
look for a pending rotation, then `Challenge`, `Stage`, `StageDone`, `Save`,
`Publish`, `Promote` (or `PromoteMissing`), `Clear`.

### RecipientTrust

`recipients` is the file, `pins` and `published` the service. The keys of an
identity come in versions; `lineage` says which earlier versions one succeeds by
signatures (`ValidRotation` reads it the way the walk of a key chain does, with
its depth limit). A version stands for both keys and their fingerprint. `StartAdd`,
`FetchAdd`, `Compare` are `recipient add`, `StartVerify` is `verify`, `StartRemove`
and `Unpin` are `remove`; `StartSend` and then one of `Lift`, `Differ`, `PinSaved`,
`SendTrusted`, `RefuseSaved` are `resolveRecipient`. They share a tail: `PutPin`, and
`Load` and `Store` (or `StoreRemoved`), which are two steps because
`PutRecipient` reads the whole file and writes it back without a lock. `NewKeys` and
`Republish` are the service publishing other keys, or older ones again. `told`,
`vouched`, `lifted` and `sent` are history.

### Pairing

`room`, `holder`, `envelope` are the service's room: what it reports, who entered
first, and for whom it holds an envelope. `device` is `handoff offer`, `run[p]` a
`handoff receive`. A key stands for the receiver's key and its attempt nonce, which
are drawn once per command. `Offer`, `PollDevice` (with `devicePairingAction`, and
the sealing), `Bind`, `DeviceExpires` are the offer; `Start`, `Enter`, `Confirm` or
`Decline`, `Approve`, `PollAttempt` (with `attemptPairingAction`) the receive. Each of
the three requests that change the room has an action for its loss (`BindLost`,
`EnterLost`, `ApproveLost`), with or without its effect, and the retry loops end in
`GiveUp`. After `GoDown` no request arrives (`Unsent`, `BindUnsent`). The receiver's
deadline for the first request is its own, for the others the room's (`Over`).
`said`, `sealed`, `opened`, `gaveUp` are history.

`HandoffPromise` says what the two devices are promised: operators agree, the device
chooses one of those receivers, once; the service stores the token for that one; the
device tells of a success only after that, and only that receiver opens it.
`KeepsPromise` is the refinement by `agreed <- said`, `chosen <- sealed`,
`stored <- {envelope} \ {NoKey}`, `opened <- opened`, `told <- device.pc = "done"`. Polls,
retries, expiry, crowding and a request that is lost before it has its effect are stutters.

### IdentityCreate

`file` is `identities/<id>.json`, `draft` the pending file of the handle, `left` a
temporary file a stop leaves in `identities/`, `created` and `lapsed` the service.
Key pairs are numbers in the order they are generated. A creation goes

    BeginNew - SaveDraft - Challenge - Save - SaveDone - Record - Match - Publish - Clear

and the next run starts again at `Challenge` or, once a publication is recorded, at
`Match` (`BeginAgain`), which is where `publishPendingIdentityCreate` begins. Key i of
the challenge gets identity i from the service: two commands that find the same pending
challenge work on the same identity, each with keys of its own. `Rotate` is a whole
rotation of the published identity between two commands, which `IdentityRotation` models.

### FileUpload

`outFile` and `recovery` are the identity files of an upload, `shown` what was
printed, `stored` the service. An upload that generates an identity goes `WriteOut` or
`WriteRecovery`, `Encrypt`, and then one of `Send`, `SendRefused` (a 4xx) and
`SendUnclear` (anything else: stored or not). What follows is the point of the module:
`DiscardIdentity` after a refusal, `KeepIdentity` after an unclear answer, `Link`,
`PrintUpload`, `CleanUpUpload` after a success. `UploadCrash` may come anywhere.

### FileListing

`files` is the service's listing, `ls` the call at work with the cursors it has
seen, `resume` the cursor the last call reported, `listed` what calls have told so far.
An honest service scans on from cursor to cursor; one that is not sends any page with any
cursor, one it sent before or one it never did: two `Fresh` cursors stand for as many of
those as it likes. `ReadPage` is one request with everything the loop decides on its
answer (`FollowCursor`): the end, a repeated cursor, an empty page, enough. `rm` is a
batch, its IDs in any order, with and without `--continue`; `Appear` and `Lapse`
are everybody else. `revoke` uses the same batch.

### FileDownload

`disk` is what each destination holds and who wrote it, `op[c]` what each caller does.
A command creates its destination, fills it and removes it again when that
fails (`CreateOut`, `CopyBody`, `CheckDigest`, `RemoveOut`), unless the removal fails too,
which nothing reports (`Left`); a tool call checks the path, looks, fills a temporary file
with the right bytes or others, compares them and publishes what it has by a link or a
rename (`DownloadPath`, `Look`, `FillTemp`, `CheckTemp`, `LinkDest` or `Overwrite`, `Unlink`). Between are the requests:
`ReadMeta`, and `Ask`, whose one retry is only for a rate limit. `explicit` and `host` are
the roots policy; a root is the set of the places inside, so "inside" is membership and
the inner of two roots is the smaller set. Links are resolved before that check and
after it no more; an overwrite of a destination is the operator's word for it.

## 3. What is checked

Each run is a configuration in this directory; `tlc -config X.cfg M` repeats it.

| Run | Configuration | Question | Result |
|---|---|---|---|
| InboxCrash | `MCInboxCrash.cfg` | one operator, three commands, two directories, three claims, three faults, one expiry: do the receipts follow the disk? | holds |
| InboxRetry | `MCInboxRetry.cfg` | does running `receive --overwrite` again reach a verified delivery after any three faults? | holds |
| InboxLease | `MCInboxLease.cfg` | does a restart replay the persisted receipts? | **violated**, 4.1 |
| BundleOne | `MCBundleOne.cfg` | two receives in turn, all flaws, three faults: all or nothing, nothing lost, and after an error or a stop running the command again succeeds | holds |
| UploadResume | `MCUploadResume.cfg` | three parts, three faults, two edits: one version, a ticket, an end | holds |
| WatchEnds | `MCWatch.cfg` | request and response, early answers, four bytes, timeout three: does the timer fire only when quiet and end only what is being read, and do requests end? | holds |
| ClaimReceive | `MCClaim.cfg` | two receivers, cap two, three claims, three faults, one expiry: consumed only verified, committed only complete, given back otherwise, and success told exactly of what was consumed | holds |
| Rotation | `MCRotation.cfg` | both purposes, three keys, two stops, three losses, one expired challenge: keys kept, in step, ends | holds |
| RotationTwo | `MCRotationTwo.cfg` | are keys kept by two rotations at once? | **violated**, 4.2 |
| TrustOne | `MCTrust.cfg` | one operator, one identity, two aliases, two changes of keys, one fault: sends are grounded, trust was told, sends recover | holds |
| PairingHandoff | `MCPairing.cfg` | one offer, two receivers, three commands, two lost answers, a service that may go away: the promise is kept (one approved receiver, no success there is not), crowded by two only, no divided outcome, both commands end | holds |
| Client | `MCClient.cfg` | creations with two challenges and four faults; three uploads; listings over three positions with any cursors, old or fresh; a command and two tool calls at one destination: the eleven properties of the four modules | holds |

`Client` has 1,086,886 states, the sum of its four families. Further configurations,
not among the runs above, each violate the one property they name: see 4.3.
`BundleInstall`'s `KeepsPromise` is named by no run; it holds under `MCBundleOne.cfg` when
it is added there.

### Why the bounds are enough

* Three faults and two or three runs: a fault, a fault in the recovery from it,
  and one in the recovery from that. Every action that leaves something behind
  and every action that finds it happens within two runs.
* Two directories (inbox): what is left in one must not be taken for the other's.
* Two files of two and one chunks: a first file with a chunk boundary inside, a
  last file, a rollback that has both something to undo and something to restore.
* Three parts (upload): a part before, at and after the one a stop hits.
  Three versions: the original, an edit of the same size, an edit that grows.
* Three chunks with a renewal every two (claim): a renewal in the middle, one at
  the end that is not on the boundary. Cap two with three claims: used up and over.
* Timeout three (watch): a tick before, a tick after, a reset in between. Four
  moves of bytes: each direction twice.
* Three keys (rotation): each purpose once and a second time for one of them.
* Two changes of keys (trust): keys, a successor, and a successor of that or a
  replacement; with a chain limit of two keys, a rotation that is within it and one
  that is not. One entry in the file, since one identity only ever has one.
* A room of two ticks (pairing): before, at and after its end, with the own deadline of
  a receiver that starts late beyond it. Three commands of two receivers: one that
  enters again after it gave up, and a second one beside it; two lost answers: one
  that had its effect and one that had not, or both of one command.
* Two challenges and four faults (create): one creation that is cut short, a fault
  in its recovery, one in the recovery from that, and a second creation after
  it. Six pairs are more than those runs can generate.
* Three uploads: an identity file that is there already, one that is written, and one
  that finds either.
* Three positions and pages of two (listing): pages that are full, short and empty, with a
  last page of its own; limits zero to two are none, below and at the page size.
* One destination, one command and two tool calls (downloads): every pair of the
  ways to publish meets, with another program. Two directories that are apart and one above
  both make every relation of two roots.
* Two processes for races: the shared state is per delivery, directory, transfer
  or identity, and each race in the code is between a read of one command and a
  write of another. Where a property is proved the number does not matter.

### Fairness

* A command that runs takes its next step (`WF` of the step of each process). Its
  steps are local operations or requests, and every request also has a failing
  outcome. The client bounds connecting and the wait for the headers of an answer
  (`HeaderTimeout`), and, in a transfer, the time without a byte. It does not
  bound the reading of a JSON answer: `send` reads it without a deadline when there is
  no watch (`internal/api/client.go` 517-532). So every liveness property assumes
  that a service which begins such an answer also completes it; a service that
  stops in the middle of one holds the command until it is interrupted.
* The operator runs the command again (`WF` of starting it; `SF` per purpose in
  `IdentityRotation`, since the operator uses each purpose but not while another
  run is on). The documentation asks for exactly that after an interruption.
* The operator removes stale `.partial` files (`Tidy`): `CreatePartial` refuses
  to reuse one and the error names it. In `BundleInstall` that is asked only when a
  receive was stopped or a step of its clean-up failed (`Leftover`): after any other error
  the next receive must succeed without it.
* In `IdentityCreate` the operator runs a pending creation again (`SF`, since the
  file may be read as pending or not in between). In `FileListing` the service answers
  (`WF` of `ReadPage`), with whatever page and cursor it likes, fresh ones for ever included.
* In `TransferWatch` time passes, timers fire, their goroutines run, a reader
  returns when its context is cancelled, and the wait for headers is bounded by
  `HeaderTimeout`. Bytes are *not* assumed to move: the peer may stop for good.
* In `RecipientTrust` the operator keeps importing the current invitation,
  verifying the current fingerprint and sending (`SF`, since the same operator also
  does other things in between, and each needs an idle process).
* In `Pairing` time passes and both commands run. The service may go away between two
  answers (but, as above, not in the middle of one), and nothing is asked of the
  receiver's operator: `HandoffEnds` lets the prompt
  (`ask`) stay unanswered, where the code reads standard input without a limit.
* Faults have no fairness and are bounded: liveness means "once faults stop".

## 4. Where the code and its documentation disagree

1. **A lease that ends before the restart blocks the delivery** (`InboxLease`,
   `cmd/inbox.go` 573). Receipts are persisted with their claim. If the lease
   ends between a stop and the restart, `claimInbox` replaces the claim and
   `recoverCompletedInboxReceive` then refuses the stored receipts in every later
   run. docs/CLI.md 816-819 says a restart replays them.
2. **Two rotations lose a private key** (`RotationTwo`, `cmd/identity.go` 257,
   `store.go` 230). Each stages a copy of the identity it read before its
   challenge; the second rename drops the key the first one published.
   docs/CLI.md 797 says old encryption keys are retained.
3. Others, each with a configuration that shows it:
   * `MCTrustExpected` (`SendsExpected`, `cmd/recipient.go` 260): the branch of a valid
     rotation returns the new keys before `--recipient-fingerprint` is looked at;
     its help, `cmd/transfer.go` 126, says it pins exact current keys.
   * `MCUploadStuck` (`ResumeFinishes`, `cmd/transfer.go` 924): `<ticket>.new` is
     created exclusively and removed by nobody if the process stops before the
     rename, so every later resume fails. docs/CLI.md 270 says to rerun resume.
   * `MCRotation.cfg` with the PROPERTY `IdentityLoads` in place of its own
     (`store.go` 488): `.identity-*.json` ends in
     `.json`, so `ListIdentities` reads the temporary file a stop left behind, and
     every command that lists identities fails or finds the identity ambiguous.
     docs/CLI.md 795 says records are atomically written.
   * `MCTrustExpected.cfg` with the INVARIANT `VouchedOnly` in place of its own: an entry
     that was marked changed, or never
     verified, becomes trusted when a signed rotation of it is published;
     `recipient.go` 275 says sending is blocked until explicitly verified.
   * The same with the PROPERTY `SpansDepth`: a chain of 32 keys is 31 successors;
     docs/CLI.md 783 says up to 32.
   * `MCTrustAlias` (`Unambiguous`): `add --alias` with the alias of another
     identity replaces that identity's entry, or leaves two entries with one ID or
     one alias, which every command then refuses as ambiguous (`store.go` 388, 405).
   * `MCBundleClobber` (`NeverReplaces`): without `--overwrite` a file created
     by another program during the download is replaced: the check is made
     before, and the rename does not look.
   * `MCUploadRevert`, `MCUploadDelivery` (`ContentAlwaysMatches`,
     `DeliveryMatches`): an idempotency key is derived from content for parts and
     from the transfer for the delivery. If the service answers a repeated key
     from its record, an edit that is made, uploaded and undone, or a manifest
     that is rebuilt after a lost answer, leaves an older part or digest there.
     They depend on how the service treats such a key, which is not in this
     repository.
   * `MCUploadTwo` (`ContentMatches`, `cmd/transfer.go` 437): of two resumes one may store
     parts of edited sources before the other completes with its own manifest. No lock keeps them
     apart; completing names the digest of the ciphertext too, but whether the service
     compares it with the parts is not in this repository, and the model does not assume it.
   * `MCWatchEarly` (`StallsAreCancelled`), `MCWatchStale` (`NoFalseStall`): the end
     of an early response pauses the watch while the request body is still sent, and
     a timer that has fired but waits for the mutex ends a transfer whose bytes
     moved meanwhile.
   * `MCClaimCap` (`VerifiedCapped`): a receiver whose commit is refused or lost
     keeps the verified files, so more than `--max-downloads` receivers can hold them.
   * `MCRotationStuck` (`RotationRecovers`): a pending rotation whose challenge
     expired is refused for ever; nothing discards it.
   * `MCClientTwo` (`KeysHeld`, `cmd/identity.go` 95): two creations that find the same
     pending challenge generate keys each and replace each other's file; the
     identity may be published with the keys that are gone.
   * `MCClientOutput` (`Decryptable`, `cmd/upload.go` 230): when what is printed is
     lost without an error the recovery file goes all the same.
   * Three properties that `MCClient.cfg` refutes when it names them in place of its
     own: `CreateRecovers` (a pending publication whose challenge expired, or whose
     identity a rotation moved on, is refused in every later run; docs/CLI.md 799-802
     says running the command again recovers it), `ReportedKept` (`download_file` without
     overwrite takes back what is under the destination *by name* when it cannot
     remove its temporary file, and so may a command whose download fails),
     and `PublishedInside` (roots are checked when the call begins, and the host may
     change them before the file is published).

The properties that hold state the exceptions they need: `UploadEnds` excepts a
leftover ticket, a resized source and a reservation whose ticket was never
written; `ContentMatches` excepts an undone edit; `TransfersEnd` excepts
`Unwatched`; `RotationEnds` excepts `Blocked` and `CreateEnds` `Stuck`; `OthersKept`
excepts destinations an overwriting call was given; `VerifiedPublished` excepts, for a
command, a file it was cut short with or could not remove; `ResumesExactly` is about an
honest service; `LsEnds` is about any, and excepts an `ls` without `--limit` that is handed
cursors no answer had before without end; `ConsumedTold` excepts claims whose commit was
left without an answer;
`SendsGrounded` counts `lifted` as a ground, and `SendsRecover` excepts an operator who
vouches for older keys again and again.

## 5. What is proved

| Theorem | Says | For |
|---|---|---|
| `TypeCorrect` | types, including what a run at each step has in hand | any processes, directories, bounds |
| `InboxSafety` | `ReceiptsFollowInstall`, `VerifiedAfterDownloaded`, `ProcessedAfterVerified` | any processes and faults |
| `InboxKeepsPromise` | `InboxDelivery` implements `DeliveryPromise` | any processes and faults |
| `SingleProcessForgetsNothing`, `SingleProcessRecoversClaim` | `NothingForgotten`, `ClaimRecoverable` | one process at a time |
| `BundleTypes`, `BundleVerified`, `BundlePartials` | types; `OnlyVerifiedInstalled`; `PartialsExclusive` | any receives, files, chunks, flaws, faults, other programs |
| `BundleResumesAtBoundary` | `ResumesAtBoundary` | the same |
| `BundleReceivesShorten` | every step of a receive leaves less to do | the same |
| `BundleNothingLost`, `BundleAllOrNothing` | `NothingLost`, `AllOrNothing` | one receive at a time, the same |
| `BundleKeepsPromise` | `BundleInstall` implements `BundlePromise` | one receive at a time, the same |
| `SealedTypes`, `SealedOwnerKeepsTicket` | types; `OwnerKeepsTicket` | any processes, parts, versions, faults |
| `SealedContentMatches` | `ContentMatches` | one command at a time, any edits, stops, lost answers |
| `WatchTypes`, `WatchTimerTruthful` | types; `TimerTruthful` | any timeout |
| `ClaimTypes`, `ClaimConsumedVerified`, `ClaimCommitComplete`, `ClaimNothingLeft`, `ClaimConsumedTold` | types; the four invariants | any receivers, chunks, cap |
| `ClaimShortens` | every step of a command leaves it fewer | any receivers, chunks, cap, faults |
| `RotationTypes` | types | any processes |
| `RotationKeepsKeys`, `RotationInStep` | `KeysKept`, `InStep` | one process at a time |
| `TrustTypes`, `TrustSendsGrounded`, `TrustIsTold` | types; `SendsGrounded`, `TrustTold` | any processes, identities, versions, depth, faults |
| `PairingTypes`, `PairingApprovedBeforeSecret`, `PairingCrowdedByTwo`, `PairingLostAnswers` | types; the three invariants | any receivers, lifetime, faults |
| `PairingKeepsPromise` | `Pairing` implements `HandoffPromise` | any receivers, lifetime, faults |
| `CreateKeysHeld`, `CreateNoOrphan` | `KeysHeld`, `NoOrphan` | one process at a time, any faults |
| `ListBatchTold` | `BatchTold` | any files, faults, other keys |
| `ListTyped`, `ListShortens` | types; every answer to a limited call, every deletion, and every answer without a fresh cursor leaves less to do | any positions, page sizes, limits, any service |
| `ListResumesExactly` | `ResumesExactly` | the same, an honest service |
| `UploadDecryptable` | `Decryptable` | any uploads, output that is not lost silently |
| `DownloadVerified`, `DownloadChargedOnce` | `VerifiedPublished`, `ChargedOnce` | any commands, calls, destinations |
| `DownloadOthersKept`, `DownloadRootsHonoured` | the two action properties | the same, and any roots |

Assumptions: only the `ASSUME`s of the modules (the bounds are naturals, the
sets are what they are called), and, where the table says one process or one
receive at a time, the hypothesis `\A p, q \in Procs : p = q` or `Procs = {p}`. That
hypothesis is needed: `RotationTwo` refutes `KeysKept` without it, `MCClientTwo`
`KeysHeld`, `MCUploadTwo` `ContentMatches`, two inbox commands may remove each other's sequence, and two overwriting
receives into one directory back up and replace each other's files.

The inductive invariants, and why the properties alone are not enough:

* **Inbox** (`SafetyInv`). A stored sequence is *sound*: the receipts in it
  before `next` have been accepted, in order. A run's local copy is as sound as
  the file. Without this a run that resumes in the middle of a sequence
  could be about to submit "verified" with "downloaded" unknown. What the
  service accepts only grows (`sent`, `accepted` are monotone), which is why
  other processes cannot disturb it. `SingleInv` adds that a running command's
  sequence is the stored one. `HoldInv` follows the claim of the running lease through
  a run (`RunHolds`): its key is on disk, or a verdict under it was accepted, and the
  steps that drop the key come only after the second.
* **Bundle** (`BundleInv`). At each step of a receive, which `.partial` files
  are its own and how many chunks each holds (`SoundRun`); past a check the
  manifest has no such flaw. Exclusive creation keeps other receives
  away from those files, and only a complete, flawless set reaches `install`.
  `BoundaryInv` says how far a run has read: the chunks of the files before the one at work,
  and those in its `.partial` file. That `ChunksBefore`, a recursive function, is a natural
  number for every file is proved by the least file for which it is not
  (`NatLessThanWellFounded`), since the induction theorems are out of reach.
  `KeptInv` says, for one receive, what each destination holds compared with what it
  held before, and where the old content is meanwhile: untouched, under its backup
  name, or not yet put back, by the step and the file the installation or the rollback is at.
  For the promise, `PromiseInv` adds `RollbackInv`: while a receive may still roll back, the
  last file is not installed, so that one stands for all of "every file is there". If it
  is there all the same, an earlier receive left it, and that bundle is under backup names
  or in place where no rollback reaches (`Old`).
* **Upload** (`OwnerInv`, `SoleInv`). `OwnerInv` adds to `OwnerKeepsTicket` what a command at
  each step has in hand (`Fits`): past the ticket's step there is a ticket, and it
  is never removed. `SoleInv` follows one command's plan (`Follows`): the parts before the
  one at work are the plan's, what the service reported of the others is still so, and a
  key of the plan that was answered stands for a part the plan would store again. `Fresh`
  says the same of the sources as they are, which is what the next plan will be; an edit that is not
  undone brings a version no answered key names (`History`, by counting versions and edits).
* **Watch** (`WatchInv`). A running timer has at least as far to go as the
  quiet period lacks (`NotEarly`), a stopped watch stays stopped, and while the watch
  is active a body is being read or sent (`ActiveReads`).
* **Claim** (`ClaimInv`). Keys are drawn by one receiver only, and a run at
  `commit` has installed the files and has the total on record. With that, and since no
  two commands hold one claim, `ConsumedTold` is inductive.
* **Trust** (`TrustInv`). Every trusted entry is sound (its version has a ground,
  and the service was told), not only in the file but in each command's hand and
  in the copy of the file it is about to write back. Grounds and what was told
  only grow, so an entry that was sound when it was read is sound whenever it is
  written: that is why the missing lock does not break the two properties.
  `LineageInv` says that succession is transitive, which is what `Lift` needs.
* **Pairing** (`PairingInv`). The holder of a room never changes, a running command's
  key is drawn by it alone and is in `said` exactly from the prompt on, and the
  device binds for the holder only. A side fails only for a reason that lasts: the
  room's age, or a crowd (`DeviceInv`, `GaveUpInv`). That a bound room is neither is
  what makes lost answers harmless. For the promise, `HandoffInv` adds that the token is
  sealed for the holder only, and opened by nobody but who the envelope is for.
* **Rotation** (`RotationInv`). The pending request's key is in the identity or in a
  staged copy with the right predecessor; the service's current keys are those
  of the identity, or differ by the pending key exactly when it was accepted;
  a key number that was not drawn is used nowhere.
* **Creation** (`CreateInv`). A running command's identity is the pending one; from
  `record` on its keys are those in the file, so what it publishes is what the file
  holds; a draft with keys was signed for the keys in the file. A published identity
  leaves only a draft with its own keys behind, which is why its file is written no more.
* **Batch delete** (`BatchInv`). Every file the batch is through with is gone, and what
  is gone does not come back.
* **Listing** (`ListInv`). What calls have told, with what the call at work has got, is
  `Complete` up to the cursor: in order, nothing from beyond it, and no file missing that was
  there all along. A page is an interval of positions (`Between`), so it extends
  a listing that is complete up to where it begins (`PageExtends`).
* **Downloads** (`DownloadInv`). `PartsHeld` and `ToolsWhole`: a partial file has the
  command that will remove it at work, and no tool wrote anything but a whole one.
  `OwnedThere` and `OwnedAlone`: a caller that still owns its destination is the only
  one there, although everybody works by name. `NotYetCharged`: a call that may still
  ask has not been counted. `Places`: where each kind of caller can be, and that what a
  call comes to publish has been compared.

Each proof has the same layout: a lemma per group of actions under
`ASSUME Inv, Action PROVE Inv'`, one step per conjunct the action disturbs, and a
closing step with `PTL`.

The three theorems named `...Shorten(s)` are the part of termination that TLAPS can say. Each
gives a measure of what a command still has to do (`ToDo`: five numbers in lexicographic
order, since a rollback goes back over the files and a body that breaks is asked for again;
`StepsLeft`: a number; `PagesLeft`, `FilesWanted`, `IdsLeft`: cursors not seen, files wanted
and IDs left), which is well-founded, which each of its steps decreases, and which nothing but
a new command increases, whatever fails. The one step that need not: an answer with a cursor
no answer had before leaves a listing without a limit as far from its end as it was, and only a
service that is not honest gives one.

Types are proved for every module. That only verified files are installed, and
that `.partial` files have one owner (`PartialsExclusive`), is proved for concurrent receives;
the runs have receives in turn. `VerifiedAfterDownloaded`, `ProcessedAfterVerified` and
`ApprovedBeforeSecret` are proved and named by no run; `HandoffPromise` implies the last.

### Only model-checked

Liveness and everything that rests on fairness or `ENABLED` (`EventuallyVerified`,
`ReceivesRecover`, `UploadEnds`, `TransfersEnd`, `RotationEnds`,
`SendsRecover`, `HandoffEnds`, `CreateEnds`, `LsEnds`): outside the prover's reach. Every
invariant, action property and refinement that a passing run checks is proved, some with one process at a time as the table says.

## 6. Not modelled, and the plan

Left out for good: cryptography, encodings and JSON (pure functions over bytes
with test vectors), output and flag parsing, the configuration file, durations,
shell completion, packaging. Windows file semantics are left out: a rename
replaces its target, as on POSIX systems.

Left out because they are one request or one local file and its output: `link`,
`links`, `info`, `quota`, `keygen`, `transfer inspect`, `status` and `list`, `inbox list`,
`identity list`, `show`, `disable`, `revoke`, and the MCP tools other than `download_file`
and `upload_file`. Pure: `handoff encode`, the manifest's validation and the intent's codec.

Left to do, the most consequential first:

1. `Pairing` composed with `TransferClaim`, which its end starts, through their promises;
   the same for the commands that receive a bundle and `BundlePromise`.
2. `Layout`: chunk, part and ciphertext arithmetic of `internal/sealed/format.go` and
   `bundle.go` as functions, against a definition by enumeration; `Select` of the
   adaptive policy in the same way.
3. `IdentityCreate` composed with `IdentityRotation`, whose initial state it reaches
   and whose steps it has in one (`Rotate`).
4. Measures for the other commands that must end (`RotationEnds`, `CreateEnds`, `UploadEnds`,
   `TransfersEnd`, `HandoffEnds`), as for the three that have one.
