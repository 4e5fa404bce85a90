----------------------------- MODULE IdentityCreate -----------------------------
(***************************************************************************)
(* `identity create` (cmd/identity.go) for ONE handle, run any number of   *)
(* times, by one operator or by several at once, over the private files    *)
(* that survive a run (internal/identity/store.go):                        *)
(*   identities/<id>.json               the key pair generated for identity id *)
(*   identities/.identity-*.json        a private file being written       *)
(*   pending/identity-create-<handle>   the challenge's idempotency key,   *)
(*                                      and then the signed publication    *)
(* The service is external.  It reserves one identity ID for each key its  *)
(* challenge was asked with, so key i stands for identity i; it answers a  *)
(* publication it has accepted again and refuses another one for the same  *)
(* identity, for a handle that is taken, or after the challenge expired.   *)
(***************************************************************************)
EXTENDS Naturals

CONSTANTS
    Procs,    \* CLI processes that may be running at the same time
    MaxIds,   \* bound: creations begun without a pending one
    MaxPairs, \* bound: key pairs generated
    MaxFaults \* bound: runs cut short, answers lost and writes that fail

ASSUME CreateAssumption == MaxIds \in Nat /\ MaxPairs \in Nat /\ MaxFaults \in Nat

Ids == 1..MaxIds
Pairs == 1..MaxPairs
None == 0

VARIABLES
    file,    \* identities/<id>.json: the pair generated for the identity, or None
    moved,   \* identities whose file a rotation has moved on to newer keys
    left,    \* a run that was cut short left a temporary file in identities/
    draft,   \* pending/identity-create: the identity and, once signed, its pair
    run,     \* what each process is doing
    created, \* service: the pair each identity was published with, or None
    lapsed,  \* service: the identities whose challenge has expired
    ids, pairs, faults \* counters behind the bounds

service == <<created, lapsed>>
counters == <<ids, pairs, faults>>
createVars == <<file, moved, left, draft, run, service, counters>>

Draft == [id : Ids, pair : {None} \cup Pairs]
NoDraft == [id |-> None, pair |-> None]
RunSteps == {"idle", "draft", "ask", "save", "saving", "record", "match", "publish", "clear"}
Run == [pc : RunSteps, id : {None} \cup Ids, pair : {None} \cup Pairs, tries : 0..1]
Idle == [pc |-> "idle", id |-> None, pair |-> None, tries |-> 0]

At(p, pc) == run[p].pc = pc
Become(p, r) == run' = [run EXCEPT ![p] = r]
Goto(p, pc) == Become(p, [run[p] EXCEPT !.pc = pc, !.tries = 0])
EndRun(p) == Become(p, Idle)

\* ListIdentities reads every *.json in identities/, a half-written temporary file included.
Readable == ~left /\ \A p \in Procs : ~At(p, "saving")

Accepts(i, k) ==
    IF created[i] # None THEN created[i] = k
    ELSE i \notin lapsed /\ \A j \in Ids : created[j] = None

CreateInit ==
    /\ file = [i \in Ids |-> None] /\ moved = {} /\ left = FALSE /\ draft = NoDraft
    /\ run = [p \in Procs |-> Idle]
    /\ created = [i \in Ids |-> None] /\ lapsed = {}
    /\ ids = 0 /\ pairs = 0 /\ faults = 0

---------------------------------------------------------------------------
(* The command up to its publication *)

\* Nothing is pending: a challenge of its own, under a new idempotency key.
BeginNew(p) ==
    /\ At(p, "idle") /\ draft = NoDraft /\ ids < MaxIds
    /\ ids' = ids + 1
    /\ Become(p, [Idle EXCEPT !.pc = "draft", !.id = ids + 1])
    /\ UNCHANGED <<file, moved, left, draft, service, pairs, faults>>

\* Defect: BeginAgain: a pending publication is signed anew instead of being replayed.
BeginAfresh(p) ==
    /\ At(p, "idle") /\ draft # NoDraft
    /\ Become(p, [Idle EXCEPT !.pc = "ask", !.id = draft.id])
    /\ UNCHANGED <<file, moved, left, draft, service, counters>>

\* A creation is pending: its challenge is asked again, or its publication is sent again.
BeginAgain(p) ==
    /\ At(p, "idle") /\ draft # NoDraft
    /\ Become(p, [Idle EXCEPT !.pc = IF draft.pair = None THEN "ask" ELSE "match",
                              !.id = draft.id, !.pair = draft.pair])
    /\ UNCHANGED <<file, moved, left, draft, service, counters>>

\* Defect: SaveDraft: the challenge is asked before its idempotency key is saved.
SaveNoDraft(p) ==
    /\ At(p, "draft")
    /\ Goto(p, "ask")
    /\ UNCHANGED <<file, moved, left, draft, service, counters>>

\* SavePending before the request, so that the answer can be asked for again.
SaveDraft(p) ==
    /\ At(p, "draft")
    /\ draft' = [id |-> run[p].id, pair |-> None]
    /\ Goto(p, "ask")
    /\ UNCHANGED <<file, moved, left, service, counters>>

\* The same key gets the same challenge, and every run generates keys of its own for it.
Challenge(p) ==
    /\ At(p, "ask") /\ pairs < MaxPairs
    /\ pairs' = pairs + 1
    /\ Become(p, [run[p] EXCEPT !.pc = "save", !.pair = pairs + 1, !.tries = 0])
    /\ UNCHANGED <<file, moved, left, draft, service, ids, faults>>

\* SaveIdentity: a temporary file is created and filled, then takes the identity's name.
Save(p) ==
    /\ At(p, "save")
    /\ Goto(p, "saving")
    /\ UNCHANGED <<file, moved, left, draft, service, counters>>

SaveDone(p) ==
    /\ At(p, "saving")
    /\ file' = [file EXCEPT ![run[p].id] = run[p].pair]
    /\ moved' = moved \ {run[p].id}
    /\ Goto(p, "record")
    /\ UNCHANGED <<left, draft, service, counters>>

\* The signed request, its idempotency key and the path of the keys are saved, then sent.
Record(p) ==
    /\ At(p, "record")
    /\ draft' = [id |-> run[p].id, pair |-> run[p].pair]
    /\ Goto(p, "match")
    /\ UNCHANGED <<file, moved, left, service, counters>>

---------------------------------------------------------------------------
(* publishPendingIdentityCreate *)

\* The identity on disk must hold the keys of the request, or it is not sent.
Match(p) ==
    /\ At(p, "match")
    /\ IF Readable /\ file[run[p].id] = run[p].pair /\ run[p].id \notin moved
       THEN Goto(p, "publish")
       ELSE EndRun(p)
    /\ UNCHANGED <<file, moved, left, draft, service, counters>>

\* Defect: Publish: the answer to a publication that was accepted before is an error.
PublishOnce(p) ==
    /\ At(p, "publish") /\ Accepts(run[p].id, run[p].pair)
    /\ created' = [created EXCEPT ![run[p].id] = run[p].pair]
    /\ IF created[run[p].id] = None THEN Goto(p, "clear") ELSE EndRun(p)
    /\ UNCHANGED <<file, moved, left, draft, lapsed, counters>>

Publish(p) ==
    /\ At(p, "publish") /\ Accepts(run[p].id, run[p].pair)
    /\ created' = [created EXCEPT ![run[p].id] = run[p].pair]
    /\ Goto(p, "clear")
    /\ UNCHANGED <<file, moved, left, draft, lapsed, counters>>

PublishRefused(p) ==
    /\ At(p, "publish") /\ ~Accepts(run[p].id, run[p].pair)
    /\ EndRun(p)
    /\ UNCHANGED <<file, moved, left, draft, service, counters>>

\* RemovePending removes what is pending for the handle, whoever saved it.
Clear(p) ==
    /\ At(p, "clear")
    /\ draft' = NoDraft
    /\ EndRun(p)
    /\ UNCHANGED <<file, moved, left, service, counters>>

---------------------------------------------------------------------------
(* Faults, and what else touches the identity *)

Fault == faults < MaxFaults /\ faults' = faults + 1

\* A request or its answer is lost: doIdempotent asks once more, then the command ends.
Lose(p) ==
    /\ run[p].pc \in {"ask", "publish"} /\ Fault
    /\ \/ UNCHANGED created
       \/ /\ At(p, "publish") /\ Accepts(run[p].id, run[p].pair)
          /\ created' = [created EXCEPT ![run[p].id] = run[p].pair]
    /\ IF run[p].tries = 0 THEN Become(p, [run[p] EXCEPT !.tries = 1]) ELSE EndRun(p)
    /\ UNCHANGED <<file, moved, left, draft, lapsed, ids, pairs>>

\* A write fails, and its temporary file is removed; or the pending file cannot be removed.
WriteFails(p) ==
    /\ run[p].pc \in {"draft", "saving", "record", "clear"} /\ Fault
    /\ EndRun(p)
    /\ UNCHANGED <<file, moved, left, draft, service, ids, pairs>>

\* A run is cut short: the deferred removal of the temporary file does not happen.
Crash(p) ==
    /\ ~At(p, "idle") /\ Fault
    /\ left' = (left \/ At(p, "saving"))
    /\ EndRun(p)
    /\ UNCHANGED <<file, moved, draft, service, ids, pairs>>

Expire(i) ==
    /\ i <= ids /\ created[i] = None /\ i \notin lapsed
    /\ lapsed' = lapsed \cup {i}
    /\ UNCHANGED <<file, moved, left, draft, run, created, counters>>

\* A whole `identity rotate` of a published identity between two commands, as
\* IdentityRotation models it: the file keeps its pair and names newer keys.
Rotate(i) ==
    /\ Readable /\ \A p \in Procs : At(p, "idle")
    /\ created[i] # None /\ file[i] = created[i] /\ i \notin moved
    /\ moved' = moved \cup {i}
    /\ UNCHANGED <<file, left, draft, run, service, counters>>

Work(p) ==
    \/ SaveDraft(p) \/ Challenge(p) \/ Save(p) \/ SaveDone(p) \/ Record(p)
    \/ Match(p) \/ Publish(p) \/ PublishRefused(p) \/ Clear(p)

Step(p) == BeginNew(p) \/ BeginAgain(p) \/ Work(p) \/ Lose(p) \/ WriteFails(p) \/ Crash(p)

CreateNext == (\E p \in Procs : Step(p)) \/ (\E i \in Ids : Expire(i) \/ Rotate(i))

\* A command that runs takes its next step, if the service completes the answers it begins, which
\* are read without a deadline; and the operator runs it again while it is pending.
CreateFairness == \A p \in Procs : WF_createVars(Work(p)) /\ SF_createVars(BeginAgain(p))

CreateSpec == CreateInit /\ [][CreateNext]_createVars
CreateFairSpec == CreateSpec /\ CreateFairness

---------------------------------------------------------------------------
(* Properties *)

\* The private files, every run and the service's records are well formed.
CreateTypes ==
    /\ file \in [Ids -> {None} \cup Pairs] /\ moved \subseteq Ids /\ left \in BOOLEAN
    /\ draft \in {NoDraft} \cup Draft /\ run \in [Procs -> Run]
    /\ \A p \in Procs : ~At(p, "idle") => run[p].id \in Ids
    /\ \A p \in Procs : run[p].pc \in {"save", "saving", "record", "match", "publish", "clear"}
         => run[p].pair \in Pairs
    /\ created \in [Ids -> {None} \cup Pairs] /\ lapsed \subseteq Ids
    /\ ids \in 0..MaxIds /\ pairs \in 0..MaxPairs /\ faults \in Nat

\* With one process: the private halves of a published identity are in its file. Each run
\* generates keys of its own and replaces the file, so this stands on a publication being
\* replayed, never signed anew, once it may have been sent ("generated keys and exact replay
\* state were retained").
KeysHeld == \A i \in Ids : created[i] # None => file[i] = created[i]

\* With one process: wherever runs are cut short, an identity file that was never published is
\* the pending one, which running the command again goes on with. No run leaves private keys
\* under an ID that nothing will ever publish, because the challenge's idempotency key is saved
\* before the challenge is asked for.
NoOrphan == \A i \in Ids : file[i] # None /\ created[i] = None => draft.id = i

\* Running the command again does not end the creation that is pending: identities/ cannot be
\* read, the service refuses it, or a rotation has moved its file on.
Stuck == left \/ (draft # NoDraft /\ (~Accepts(draft.id, draft.pair) \/ draft.id \in moved))

\* Running the command again ends a creation that was cut short anywhere, unless it is stuck.
CreateEnds == draft # NoDraft ~> (draft = NoDraft \/ Stuck)

\* docs/CLI.md:799-802 - the replay state of identity publication is saved before the request,
\* and running the same command again recovers the answer: a pending creation always ends.
CreateRecovers == draft # NoDraft ~> draft = NoDraft

=============================================================================
