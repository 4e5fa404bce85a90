---------------------------- MODULE RecipientTrust ----------------------------
(***************************************************************************)
(* cmd/recipient.go: whom an addressed transfer may be encrypted to.       *)
(* `recipient add`, `verify` and `remove` and the resolution of a recipient*)
(* before a send (resolveRecipient) work on ONE private file,              *)
(* recipients.json, that PutRecipient and RemoveRecipient read, change and *)
(* write back (internal/identity/store.go), and on the pins the service    *)
(* keeps.  The keys of an identity come in versions, each of which may be  *)
(* signed by the one before it; a version stands for both keys and for     *)
(* their fingerprint.  The service is external: it publishes a version of  *)
(* each identity, and stores and removes pins.                             *)
(***************************************************************************)
EXTENDS Naturals, FiniteSets

CONSTANTS
    Procs,      \* CLI processes that may be running at the same time
    Ids,        \* identities the operator exchanges invitations with
    Aliases,    \* local aliases, in the order ListRecipients sorts them
    Depth,      \* maxRecipientRotationDepth: keys a walk of a chain visits
    MaxEntries, \* bound: entries of recipients.json
    MaxChanges, \* bound: times the service publishes another version
    MaxRemoves, \* bound: remove commands
    MaxFaults   \* bound: commands cut short, answers lost

\* The IDs are the service's: none is a name that an operator gives to another identity.
ASSUME TrustAssumption ==
    /\ Aliases \subseteq Nat /\ Depth \in Nat /\ Aliases \cap Ids = {}
    /\ MaxEntries \in Nat /\ MaxChanges \in Nat /\ MaxRemoves \in Nat /\ MaxFaults \in Nat

Versions == 0..MaxChanges
None == MaxChanges + 1 \* no expected fingerprint
Slots == 1..MaxEntries
TrustStates == {"unverified", "pinned", "rotated", "changed"}
Trusted == {"pinned", "rotated"}
Entry == [alias : Aliases, id : Ids, version : Versions, trust : TrustStates]
Nobody == [trust |-> "absent"]
List == [Slots -> Entry \cup {Nobody}]
Empty == [s \in Slots |-> Nobody]

VARIABLES
    recipients, \* recipients.json
    pins,       \* service: the operator's pin of each identity
    published,  \* service: the version of each identity it publishes
    lineage,    \* the versions a version succeeds by signatures, itself included
    versions,   \* the newest version of each identity
    run,        \* what each process is doing
    told,       \* history: <<id, version, trust>> of the trusting pins the service accepted
    vouched,    \* history: <<id, version>> the operator vouched for
    lifted,     \* history: <<id, version>> a rotation lifted to trust: see Lift
    sent,       \* history: what the last send was resolved to
    changes, removes, faults \* counters behind the bounds

keys == <<published, lineage, versions, changes>>
history == <<told, vouched, lifted, sent>>
bounds == <<removes, faults>>
vars == <<recipients, pins, keys, run, history, bounds>>

(* A command in progress: the entry it works on, where it goes on after the  *)
(* file is written, and the copy of the file PutRecipient has read.          *)
PCs == {"fetch", "compare", "pin", "unpin", "load", "store"}
Run == [pc : PCs, cmd : {"add", "verify", "send", "remove"}, entry : Entry,
        expect : Versions \cup {None}, tofu : BOOLEAN,
        then : {"done", "send", "fail"}, list : List]
Idle == [pc |-> "idle"]

At(p, pc) == run[p].pc = pc
Become(p, r) == run' = [run EXCEPT ![p] = r]
Goto(p, pc) == Become(p, [run[p] EXCEPT !.pc = pc])
End(p) == Become(p, Idle)
Begin(p, pc, cmd, e, expect, tofu) ==
    Become(p, [pc |-> pc, cmd |-> cmd, entry |-> e, expect |-> expect, tofu |-> tofu,
               then |-> "done", list |-> Empty])

\* What a send was resolved to.
Send(r) == [id |-> r.entry.id, version |-> r.entry.version, expect |-> r.expect]
NoSend == [id |-> "none"]

\* Store.Recipient: the entries a reference names; a command needs exactly one.
Named(ref) == {s \in Slots : recipients[s] # Nobody /\ ref \in {recipients[s].alias, recipients[s].id}}
Resolves(ref, e) == \E s \in Slots : Named(ref) = {s} /\ e = recipients[s]
Refs == Aliases \cup Ids

\* The slots PutRecipient may write an entry to: the first, by alias, with its alias or its
\* identity, or else a new one at the end.
Clashes(list, e) == {s \in Slots : list[s] # Nobody /\ (list[s].alias = e.alias \/ list[s].id = e.id)}
PutSlots(list, e) ==
    IF Clashes(list, e) = {} THEN {s \in Slots : list[s] = Nobody}
    ELSE {s \in Clashes(list, e) : \A t \in Clashes(list, e) : list[s].alias <= list[t].alias}

\* validRecipientRotation: both chains lead from the published keys back to the old ones,
\* every step is signed, and neither has more than Depth keys.
ValidRotation(i, old, new) ==
    /\ old # new /\ old \in lineage[i][new]
    /\ Cardinality({v \in lineage[i][new] : v >= old}) <= Depth
-----------------------------------------------------------------------------
Init ==
    /\ recipients = Empty
    /\ pins = [i \in Ids |-> Nobody]
    /\ published = [i \in Ids |-> 0]
    /\ lineage = [i \in Ids |-> [v \in Versions |-> {v}]]
    /\ versions = [i \in Ids |-> 0]
    /\ run = [p \in Procs |-> Idle]
    /\ told = {} /\ vouched = {} /\ lifted = {} /\ sent = NoSend
    /\ changes = 0 /\ removes = 0 /\ faults = 0
-----------------------------------------------------------------------------
(* The service *)

\* The identity's owner publishes new keys, signed by the ones before them or not.
NewKeys(i, signed) ==
    /\ changes < MaxChanges /\ changes' = changes + 1
    /\ LET v == versions[i] + 1 IN
       /\ versions' = [versions EXCEPT ![i] = v]
       /\ published' = [published EXCEPT ![i] = v]
       /\ lineage' = [lineage EXCEPT ![i][v] =
              {v} \cup (IF signed THEN lineage[i][published[i]] ELSE {})]
    /\ UNCHANGED <<recipients, pins, run, history, bounds>>

\* The service answers with a record that is not its newest.
Republish(i) ==
    /\ changes < MaxChanges /\ changes' = changes + 1
    /\ \E v \in 0..versions[i] : v # published[i] /\ published' = [published EXCEPT ![i] = v]
    /\ UNCHANGED <<recipients, pins, lineage, versions, run, history, bounds>>

\* It stores a pin.
Pin(e) ==
    /\ pins' = [pins EXCEPT ![e.id] = [version |-> e.version, trust |-> e.trust]]
    /\ told' = IF e.trust \in Trusted THEN told \cup {<<e.id, e.version, e.trust>>} ELSE told
-----------------------------------------------------------------------------
(* recipient add <invitation> [--alias] *)

\* The invitation names an identity and a fingerprint.
StartAdd(p, i, a, want) ==
    /\ At(p, "idle")
    /\ Begin(p, "fetch", "add", [alias |-> a, id |-> i, version |-> want, trust |-> "unverified"],
             want, FALSE)
    /\ UNCHANGED <<recipients, pins, keys, history, bounds>>

\* The published keys must be the ones of the invitation.
FetchAdd(p) ==
    /\ At(p, "fetch") /\ run[p].cmd = "add"
    /\ IF published[run[p].entry.id] = run[p].expect THEN Goto(p, "compare") ELSE End(p)
    /\ UNCHANGED <<recipients, pins, keys, history, bounds>>

\* Mutant: a recipient that was added again keeps the state changed.
CompareKeepsChanged(p) ==
    /\ At(p, "compare")
    /\ LET e == run[p].entry
           known == {s \in Named(e.id) : Named(e.id) = {s} /\ recipients[s].trust # "unverified"} IN
       \/ known = {} /\ Goto(p, "pin")
       \/ \E s \in known : recipients[s].version # e.version /\
             Become(p, [run[p] EXCEPT !.pc = "load", !.then = "fail",
                                      !.entry = [recipients[s] EXCEPT !.trust = "changed"]])
       \/ \E s \in known : recipients[s].version = e.version /\
             Become(p, [run[p] EXCEPT !.pc = "pin", !.entry.trust = recipients[s].trust])
    /\ UNCHANGED <<recipients, pins, keys, history, bounds>>

\* A trusted entry with these keys keeps its state; one with other keys is marked changed
\* and the command fails. Any other entry is replaced.
Compare(p) ==
    /\ At(p, "compare")
    /\ LET e == run[p].entry
           known == {s \in Named(e.id) : Named(e.id) = {s} /\ recipients[s].trust \in Trusted} IN
       \/ known = {} /\ Goto(p, "pin")
       \/ \E s \in known : recipients[s].version # e.version /\
             Become(p, [run[p] EXCEPT !.pc = "load", !.then = "fail",
                                      !.entry = [recipients[s] EXCEPT !.trust = "changed"]])
       \/ \E s \in known : recipients[s].version = e.version /\
             Become(p, [run[p] EXCEPT !.pc = "pin", !.entry.trust = recipients[s].trust])
    /\ UNCHANGED <<recipients, pins, keys, history, bounds>>
-----------------------------------------------------------------------------
(* recipient verify <recipient> --fingerprint *)

\* The fingerprint is compared with the imported keys, not with the published ones.
StartVerify(p, ref, e) ==
    /\ At(p, "idle") /\ Resolves(ref, e)
    /\ Begin(p, "pin", "verify", [e EXCEPT !.trust = "pinned"], e.version, FALSE)
    /\ vouched' = vouched \cup {<<e.id, e.version>>}
    /\ UNCHANGED <<recipients, pins, keys, told, lifted, sent, bounds>>
-----------------------------------------------------------------------------
(* resolveRecipient, for transfer create --to *)

\* An unverified recipient needs --recipient-fingerprint or --trust-on-first-use.
StartSend(p, ref, e, expect, tofu) ==
    /\ At(p, "idle") /\ Resolves(ref, e)
    /\ e.trust = "unverified" => tofu \/ expect # None
    /\ Begin(p, "fetch", "send", e, expect, tofu)
    /\ UNCHANGED <<recipients, pins, keys, history, bounds>>

\* The published keys succeed the saved ones: they are recorded as rotated, whatever the
\* state of the entry was and whatever fingerprint the operator expects. A rotation that
\* lifts an entry that was not trusted is noted in history.
Lift(p) ==
    /\ At(p, "fetch") /\ run[p].cmd = "send"
    /\ LET e == run[p].entry IN
       /\ ValidRotation(e.id, e.version, published[e.id])
       /\ Become(p, [run[p] EXCEPT !.pc = "pin", !.then = "send",
                         !.entry = [e EXCEPT !.version = published[e.id], !.trust = "rotated"]])
       /\ lifted' = IF e.trust \in Trusted THEN lifted ELSE lifted \cup {<<e.id, e.version>>}
    /\ UNCHANGED <<recipients, pins, keys, told, vouched, sent, bounds>>

\* They do not: the entry is marked changed and the send stops.
Differ(p) ==
    /\ At(p, "fetch") /\ run[p].cmd = "send"
    /\ LET e == run[p].entry IN
       /\ published[e.id] # e.version /\ ~ValidRotation(e.id, e.version, published[e.id])
       /\ Become(p, [run[p] EXCEPT !.pc = "load", !.then = "fail", !.entry.trust = "changed"])
    /\ UNCHANGED <<recipients, pins, keys, history, bounds>>

\* Mutant: the saved keys are pinned without a look at the expected fingerprint.
PinUncompared(p) ==
    LET e == run[p].entry IN
    /\ At(p, "fetch") /\ run[p].cmd = "send" /\ published[e.id] = e.version
    /\ run[p].expect # None \/ (run[p].tofu /\ e.trust = "unverified")
    /\ Become(p, [run[p] EXCEPT !.pc = "pin", !.then = "send", !.entry.trust = "pinned"])
    /\ vouched' = vouched \cup {<<e.id, IF run[p].expect = None THEN e.version ELSE run[p].expect>>}
    /\ UNCHANGED <<recipients, pins, keys, told, lifted, sent, bounds>>

\* The keys are the saved ones, and the operator vouches for them: by the fingerprint, or
\* on first use.
PinSaved(p) ==
    LET e == run[p].entry IN
    /\ At(p, "fetch") /\ run[p].cmd = "send" /\ published[e.id] = e.version
    /\ run[p].expect = e.version \/ (run[p].expect = None /\ run[p].tofu /\ e.trust = "unverified")
    /\ Become(p, [run[p] EXCEPT !.pc = "pin", !.then = "send", !.entry.trust = "pinned"])
    /\ vouched' = vouched \cup {<<e.id, e.version>>}
    /\ UNCHANGED <<recipients, pins, keys, told, lifted, sent, bounds>>

\* The keys are the saved ones, and trusted already.
SendTrusted(p) ==
    LET e == run[p].entry IN
    /\ At(p, "fetch") /\ run[p].cmd = "send" /\ published[e.id] = e.version
    /\ run[p].expect = None /\ e.trust \in Trusted
    /\ sent' = Send(run[p])
    /\ End(p)
    /\ UNCHANGED <<recipients, pins, keys, told, vouched, lifted, bounds>>

\* The keys are the saved ones, but another fingerprint is expected, or they were
\* marked changed.
RefuseSaved(p) ==
    LET e == run[p].entry IN
    /\ At(p, "fetch") /\ run[p].cmd = "send" /\ published[e.id] = e.version
    /\ \/ run[p].expect \notin {None, e.version}
       \/ run[p].expect = None /\ e.trust = "changed"
    /\ End(p)
    /\ UNCHANGED <<recipients, pins, keys, history, bounds>>
-----------------------------------------------------------------------------
(* recipient remove <recipient> *)

StartRemove(p, ref, e) ==
    /\ At(p, "idle") /\ Resolves(ref, e)
    /\ removes < MaxRemoves /\ removes' = removes + 1
    /\ Begin(p, "unpin", "remove", e, None, FALSE)
    /\ UNCHANGED <<recipients, pins, keys, history, faults>>

\* The service's pin goes first; one that is gone already is no error.
Unpin(p) ==
    /\ At(p, "unpin")
    /\ pins' = [pins EXCEPT ![run[p].entry.id] = Nobody]
    /\ Goto(p, "load")
    /\ UNCHANGED <<recipients, keys, history, bounds>>
-----------------------------------------------------------------------------
(* The tail every command shares: the pin, then the private file *)

\* Mutant: the file is written whether or not the service took the pin.
PinLater(p) ==
    /\ At(p, "pin")
    /\ Goto(p, "load")
    /\ UNCHANGED <<recipients, pins, keys, history, bounds>>

PutPin(p) ==
    /\ At(p, "pin")
    /\ Pin(run[p].entry)
    /\ Goto(p, "load")
    /\ UNCHANGED <<recipients, keys, vouched, lifted, sent, bounds>>

\* PutRecipient and RemoveRecipient read the file ...
Load(p) ==
    /\ At(p, "load")
    /\ Become(p, [run[p] EXCEPT !.pc = "store", !.list = recipients])
    /\ UNCHANGED <<recipients, pins, keys, history, bounds>>

\* ... and write what they read, with one entry changed. A send is then resolved.
Store(p) ==
    /\ At(p, "store") /\ run[p].cmd # "remove"
    /\ LET e == run[p].entry IN
       /\ \E s \in PutSlots(run[p].list, e) : recipients' = [run[p].list EXCEPT ![s] = e]
       /\ sent' = IF run[p].then = "send" THEN Send(run[p]) ELSE sent
    /\ End(p)
    /\ UNCHANGED <<pins, keys, told, vouched, lifted, bounds>>

\* Nothing is written when the entry is gone already.
StoreRemoved(p) ==
    /\ At(p, "store") /\ run[p].cmd = "remove"
    /\ LET out == {s \in Slots : run[p].list[s] # Nobody /\ run[p].list[s].id = run[p].entry.id} IN
       recipients' = IF out = {} THEN recipients
                     ELSE [s \in Slots |-> IF s \in out THEN Nobody ELSE run[p].list[s]]
    /\ End(p)
    /\ UNCHANGED <<pins, keys, history, bounds>>

\* A request or a write fails, the key history cannot be read, or the process stops: the
\* command ends where it is.
CutShort(p) ==
    /\ ~At(p, "idle")
    /\ faults < MaxFaults /\ faults' = faults + 1
    /\ End(p)
    /\ UNCHANGED <<recipients, pins, keys, history, removes>>

\* The service took the pin, or removed it, and its answer is lost.
AnswerLost(p) ==
    /\ faults < MaxFaults /\ faults' = faults + 1
    /\ \/ At(p, "pin") /\ Pin(run[p].entry)
       \/ At(p, "unpin") /\ pins' = [pins EXCEPT ![run[p].entry.id] = Nobody] /\ UNCHANGED told
    /\ End(p)
    /\ UNCHANGED <<recipients, keys, vouched, lifted, sent, removes>>
-----------------------------------------------------------------------------
Work(p) ==
    \/ FetchAdd(p) \/ Compare(p)
    \/ Lift(p) \/ Differ(p) \/ PinSaved(p) \/ SendTrusted(p) \/ RefuseSaved(p)
    \/ PutPin(p) \/ Unpin(p) \/ Load(p) \/ Store(p) \/ StoreRemoved(p)

Start(p) ==
    \/ \E i \in Ids, a \in Aliases : \E want \in 0..versions[i] : StartAdd(p, i, a, want)
    \/ \E ref \in Refs : \E s \in Slots :
         LET e == recipients[s] IN
         /\ e # Nobody
         /\ \/ StartVerify(p, ref, e) \/ StartRemove(p, ref, e)
            \/ \E expect \in 0..versions[e.id] \cup {None}, tofu \in BOOLEAN :
                 StartSend(p, ref, e, expect, tofu)

Next ==
    \/ \E p \in Procs : Start(p) \/ Work(p) \/ CutShort(p) \/ AnswerLost(p)
    \/ \E i \in Ids : Republish(i) \/ \E signed \in BOOLEAN : NewKeys(i, signed)

Spec == Init /\ [][Next]_vars

\* A command that runs takes its next step, if the service completes the answers it begins, which
\* are read without a deadline. The operator keeps importing the current
\* invitation, verifying the current fingerprint and sending.
Fairness == \A p \in Procs :
    /\ WF_vars(Work(p))
    /\ \A i \in Ids :
        /\ SF_vars(\E a \in Aliases : StartAdd(p, i, a, published[i]))
        /\ SF_vars(\E e \in Entry : e.version = published[i] /\ StartVerify(p, i, e))
        /\ SF_vars(\E e \in Entry : StartSend(p, i, e, None, FALSE))

FairSpec == Spec /\ Fairness
-----------------------------------------------------------------------------
TypeOK ==
    /\ recipients \in List
    /\ pins \in [Ids -> [version : Versions, trust : TrustStates] \cup {Nobody}]
    /\ published \in [Ids -> Versions] /\ versions \in [Ids -> Versions]
    /\ \A i \in Ids : published[i] <= versions[i] /\ versions[i] <= changes
    /\ lineage \in [Ids -> [Versions -> SUBSET Versions]]
    /\ run \in [Procs -> Run \cup {Idle}]
    /\ told \subseteq Ids \X Versions \X TrustStates
    /\ vouched \subseteq Ids \X Versions /\ lifted \subseteq Ids \X Versions
    /\ sent \in [id : Ids, version : Versions, expect : Versions \cup {None}] \cup {NoSend}
    /\ changes \in 0..MaxChanges /\ removes \in 0..MaxRemoves /\ faults \in 0..MaxFaults

\* Version v of identity i is, or succeeds by signatures, one the operator vouched for; or
\* one a rotation lifted to trust although nobody had (see VouchedOnly).
Grounded(i, v) == \E w \in lineage[i][v] : <<i, w>> \in vouched \cup lifted

\* "On each send, the CLI resolves the public record again and accepts only the pinned keys
\* or a complete predecessor-signed rotation chain" (SECURE_HANDOFFS.md 174): whatever
\* commands ran before, at once or cut short, and whatever the service published meanwhile.
SendsGrounded == sent # NoSend => Grounded(sent.id, sent.version)

\* What the local file trusts, the service was told: the pin is stored first in every
\* command (recipient.go 116, 160, 264, 285, 298), and a removal takes the pin first.
TrustTold ==
    \A s \in Slots : LET e == recipients[s] IN
        e.trust \in Trusted => <<e.id, e.version, e.trust>> \in told

\* An operator who imports and verifies the current keys gets to send to them, from
\* whatever state changes of keys, lost answers and earlier commands have left, unless
\* older keys are vouched for again and again.
SendsRecover == \A i \in Ids :
    \/ <>(sent.id = i /\ sent.version = published[i])
    \/ []<>(\E s \in Slots : LET e == recipients[s] IN
               e.trust \in Trusted /\ e.id = i /\ e.version # published[i])

\* "expected recipient fingerprint (pins exact current keys)" (transfer.go 126): a send
\* that expects a fingerprint goes to the keys that have it.
SendsExpected == sent # NoSend /\ sent.expect # None => sent.version = sent.expect

\* "sending is blocked until explicitly verified" (recipient.go 275): keys that were marked
\* changed, or never verified, are not lifted by a rotation.
VouchedOnly == lifted = {}

\* "span up to 32 historical successors" (docs/CLI.md 783): keys that Depth signed successors
\* lead to are not taken for a gap. The walk counts keys, the old ones included.
SpansDepth == [][\A p \in Procs : Differ(p) =>
    LET e == run[p].entry line == lineage[e.id][published[e.id]] IN
    e.version \in line => Cardinality({v \in line : v > e.version}) > Depth]_vars

\* Every entry can be named: no two have an alias or an identity in common.
Unambiguous ==
    \A s, t \in Slots : LET e == recipients[s] f == recipients[t] IN
        s # t /\ e # Nobody /\ f # Nobody => e.alias # f.alias /\ e.id # f.id
=============================================================================
