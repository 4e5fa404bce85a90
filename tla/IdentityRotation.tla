--------------------------- MODULE IdentityRotation ---------------------------
(***************************************************************************)
(* `identity rotate` (cmd/identity.go) for ONE identity, run any number of *)
(* times, by one operator or by several at once, over the private files    *)
(* that survive a run (internal/identity/store.go):                        *)
(*   identities/<id>.json                the identity and its private keys *)
(*   identities/.pending-<id>-<key>      the identity with one key more    *)
(*   identities/.identity-*.json         a private file being written      *)
(*   pending/rotation-<id>               the request that announces it     *)
(* The service is external: it answers a request it has accepted again, as *)
(* the idempotency key asks, and refuses a challenge that expired and a    *)
(* predecessor or a signer that is not the identity's current key.         *)
(***************************************************************************)
EXTENDS Naturals, FiniteSets

CONSTANTS
    Procs,      \* CLI processes that may be running at the same time
    Purposes,   \* the purposes the operator rotates
    MaxKeys,    \* bound: keys generated
    MaxCrashes, \* bound: runs cut short
    MaxLosses,  \* bound: requests or answers lost
    MaxExpiries \* bound: challenges that expire

AllPurposes == {"encryption", "signing"}

ASSUME RotationAssumption ==
    /\ Purposes \subseteq AllPurposes
    /\ MaxKeys \in Nat /\ MaxCrashes \in Nat /\ MaxLosses \in Nat /\ MaxExpiries \in Nat

\* Keys are numbered as they are generated; key 0 is the pair of `identity create`.
Keys == 0..MaxKeys
None == MaxKeys + 1
Local == [current : [AllPurposes -> Keys], keys : SUBSET Keys]
Request == [key : Keys, purpose : AllPurposes, predecessor : Keys, signer : Keys]
NoRequest == [key |-> None]

VARIABLES
    identity,  \* identities/<id>.json
    staged,    \* staged identities, each with the key it adds
    left,      \* keys whose temporary file a run that was cut short left behind
    pending,   \* pending/rotation: a request, or NoRequest
    run,       \* what each process is doing
    active,    \* service: the identity's current key for each purpose
    accepted,  \* service: the keys it accepted
    expired,   \* service: the keys whose challenge has expired
    keys,      \* keys generated so far
    crashes, losses, expiries \* counters behind the bounds

service == <<active, accepted, expired>>
bounds == <<crashes, losses, expiries>>
vars == <<identity, staged, left, pending, run, service, keys, bounds>>

PCs == {"idle", "pending", "challenge", "stage", "staging", "save", "publish", "promote",
        "clear"}
\* A run from its challenge on has a request in hand.
Asking == {"stage", "staging", "save", "publish", "promote", "clear"}
Run == {r \in [pc : PCs, purpose : AllPurposes, local : Local,
               request : Request \cup {NoRequest}, tries : 0..1] :
           r.pc \in Asking => r.request \in Request}

First == [current |-> [u \in AllPurposes |-> 0], keys |-> {0}]
Idle == [pc |-> "idle", purpose |-> "encryption", local |-> First, request |-> NoRequest,
         tries |-> 0]

At(p, pc) == run[p].pc = pc
Become(p, r) == run' = [run EXCEPT ![p] = r]
Goto(p, pc) == Become(p, [run[p] EXCEPT !.pc = pc])
End(p) == Become(p, Idle)

\* ListIdentities reads every *.json in identities/: a temporary file that is empty, cut
\* short or a second copy of the identity makes LoadIdentity fail.
Readable == left = {} /\ \A p \in Procs : ~At(p, "staging")

Staged(k) == {s \in staged : s.key = k}

Accepts(r) ==
    \/ r.key \in accepted
    \/ /\ r.key \notin expired
       /\ active[r.purpose] = r.predecessor
       /\ active["signing"] = r.signer

\* The service carries a request out once.
Serve(r) ==
    /\ accepted' = accepted \cup {r.key}
    /\ active' = IF r.key \in accepted THEN active ELSE [active EXCEPT ![r.purpose] = r.key]
    /\ UNCHANGED expired

Init ==
    /\ identity = First /\ staged = {} /\ left = {} /\ pending = NoRequest
    /\ run = [p \in Procs |-> Idle]
    /\ active = First.current /\ accepted = {0} /\ expired = {}
    /\ keys = 0 /\ crashes = 0 /\ losses = 0 /\ expiries = 0

---------------------------------------------------------------------------
(* The command *)

\* LoadIdentity comes first, whatever the command then finds to do.
Begin(p, u) ==
    /\ At(p, "idle") /\ Readable
    /\ Become(p, [Idle EXCEPT !.pc = "pending", !.purpose = u, !.local = identity])
    /\ UNCHANGED <<identity, staged, left, pending, service, keys, bounds>>

\* Defect: FindPending: the pending request is dropped when it is for the other purpose.
FindPendingDrop(p) ==
    /\ At(p, "pending") /\ pending # NoRequest
    /\ pending' = IF pending.purpose = run[p].purpose THEN pending ELSE NoRequest
    /\ IF pending.purpose = run[p].purpose
       THEN Become(p, [run[p] EXCEPT !.pc = "publish", !.request = pending])
       ELSE Goto(p, "challenge")
    /\ UNCHANGED <<identity, staged, left, service, keys, bounds>>

\* A pending rotation is published as it was recorded, for the purpose it was begun with.
FindPending(p) ==
    /\ At(p, "pending") /\ pending # NoRequest
    /\ IF pending.purpose = run[p].purpose
       THEN Become(p, [run[p] EXCEPT !.pc = "publish", !.request = pending])
       ELSE End(p)
    /\ UNCHANGED <<identity, staged, left, pending, service, keys, bounds>>

FindNone(p) ==
    /\ At(p, "pending") /\ pending = NoRequest
    /\ Goto(p, "challenge")
    /\ UNCHANGED <<identity, staged, left, pending, service, keys, bounds>>

\* Defect: WithKey: the new key replaces the list instead of being appended to it.
WithKeyOnly(l, u, k) == [current |-> [l.current EXCEPT ![u] = k], keys |-> {k}]

WithKey(l, u, k) == [current |-> [l.current EXCEPT ![u] = k], keys |-> l.keys \cup {k}]

\* A challenge, a key pair and the statement signed by the signing key LoadIdentity read.
Challenge(p) ==
    LET u == run[p].purpose
        l == run[p].local
        k == keys + 1
    IN /\ At(p, "challenge") /\ keys < MaxKeys
       /\ keys' = k
       /\ Become(p, [run[p] EXCEPT
              !.pc = "stage",
              !.local = WithKey(l, u, k),
              !.request = [key |-> k, purpose |-> u, predecessor |-> l.current[u],
                           signer |-> l.current["signing"]]])
       /\ UNCHANGED <<identity, staged, left, pending, service, bounds>>

ChallengeFails(p) ==
    /\ At(p, "challenge") /\ losses < MaxLosses
    /\ losses' = losses + 1
    /\ End(p)
    /\ UNCHANGED <<identity, staged, left, pending, service, keys, crashes, expiries>>

\* StageIdentity: writePrivateJSON creates a temporary file, fills it and renames it.
Stage(p) ==
    /\ At(p, "stage")
    /\ Goto(p, "staging")
    /\ UNCHANGED <<identity, staged, left, pending, service, keys, bounds>>

StageDone(p) ==
    /\ At(p, "staging")
    /\ staged' = staged \cup {[key |-> run[p].request.key, local |-> run[p].local]}
    /\ Goto(p, "save")
    /\ UNCHANGED <<identity, left, pending, service, keys, bounds>>

\* A write that fails removes its temporary file.
StageFails(p) ==
    /\ At(p, "staging")
    /\ End(p)
    /\ UNCHANGED <<identity, staged, left, pending, service, keys, bounds>>

\* SavePending replaces what is pending, if another process saved something meanwhile.
Save(p) ==
    /\ At(p, "save")
    /\ pending' = run[p].request
    /\ Goto(p, "publish")
    /\ UNCHANGED <<identity, staged, left, service, keys, bounds>>

SaveFails(p) ==
    /\ At(p, "save")
    /\ End(p)
    /\ UNCHANGED <<identity, staged, left, pending, service, keys, bounds>>

---------------------------------------------------------------------------
(* publishPendingRotation *)

Publish(p) ==
    /\ At(p, "publish") /\ Accepts(run[p].request)
    /\ Serve(run[p].request)
    /\ Goto(p, "promote")
    /\ UNCHANGED <<identity, staged, left, pending, keys, bounds>>

PublishRefused(p) ==
    /\ At(p, "publish") /\ ~Accepts(run[p].request)
    /\ End(p)
    /\ UNCHANGED <<identity, staged, left, pending, service, keys, bounds>>

\* The request or its answer is lost: doIdempotent asks once more, then the command ends.
Lose(p) ==
    /\ At(p, "publish") /\ losses < MaxLosses
    /\ losses' = losses + 1
    /\ \/ UNCHANGED service
       \/ Accepts(run[p].request) /\ Serve(run[p].request)
    /\ IF run[p].tries = 0 THEN Become(p, [run[p] EXCEPT !.tries = 1]) ELSE End(p)
    /\ UNCHANGED <<identity, staged, left, pending, keys, crashes, expiries>>

\* The staged identity takes the identity's place.
Promote(p) ==
    /\ At(p, "promote")
    /\ \E s \in Staged(run[p].request.key) :
           identity' = s.local /\ staged' = staged \ {s}
    /\ Goto(p, "clear")
    /\ UNCHANGED <<left, pending, service, keys, bounds>>

\* Defect: PromoteMissing: a staged identity that is gone is always an error.
PromoteMissingFails(p) ==
    /\ At(p, "promote") /\ Staged(run[p].request.key) = {}
    /\ End(p)
    /\ UNCHANGED <<identity, staged, left, pending, service, keys, bounds>>

\* It is gone: that is fine if the identity already has the new key.
PromoteMissing(p) ==
    LET r == run[p].request
    IN /\ At(p, "promote") /\ Staged(r.key) = {}
       /\ IF Readable /\ identity.current[r.purpose] = r.key THEN Goto(p, "clear") ELSE End(p)
       /\ UNCHANGED <<identity, staged, left, pending, service, keys, bounds>>

Clear(p) ==
    /\ At(p, "clear")
    /\ pending' = NoRequest
    /\ End(p)
    /\ UNCHANGED <<identity, staged, left, service, keys, bounds>>

---------------------------------------------------------------------------
(* The environment *)

\* A run is cut short: the deferred removal of the temporary file does not happen.
Crash(p) ==
    /\ ~At(p, "idle") /\ crashes < MaxCrashes
    /\ crashes' = crashes + 1
    /\ left' = IF At(p, "staging") THEN left \cup {run[p].request.key} ELSE left
    /\ End(p)
    /\ UNCHANGED <<identity, staged, pending, service, keys, losses, expiries>>

\* The challenge of a key that is not accepted yet expires.
Expire(k) ==
    /\ k \notin accepted \cup expired /\ expiries < MaxExpiries
    /\ expiries' = expiries + 1
    /\ expired' = expired \cup {k}
    /\ UNCHANGED <<identity, staged, left, pending, run, active, accepted, keys, crashes, losses>>

\* What a process that runs does next when nothing goes wrong.
Work(p) ==
    \/ FindPending(p) \/ FindNone(p) \/ Challenge(p) \/ Stage(p) \/ StageDone(p) \/ Save(p)
    \/ Publish(p) \/ PublishRefused(p) \/ Promote(p) \/ PromoteMissing(p) \/ Clear(p)

Step(p) ==
    \/ \E u \in Purposes : Begin(p, u)
    \/ Work(p)
    \/ ChallengeFails(p) \/ StageFails(p) \/ SaveFails(p) \/ Lose(p)
    \/ Crash(p)

Next == (\E p \in Procs : Step(p)) \/ (\E k \in 1..keys : Expire(k))

\* A command that runs takes its next step, and the operator runs the command again for
\* every purpose, as the message of a rotation that was cut short asks for. That the service
\* completes an answer it has begun is assumed: it is read without a deadline.
Fairness == \A p \in Procs :
    /\ WF_vars(Work(p))
    /\ \A u \in Purposes : SF_vars(Begin(p, u))

Spec == Init /\ [][Next]_vars
FairSpec == Spec /\ Fairness

---------------------------------------------------------------------------
(* Properties *)

\* The identity, its staged copies, the pending request and every run are well formed, and no
\* counter passes its bound.
TypeOK ==
    /\ identity \in Local
    /\ staged \subseteq [key : Keys, local : Local] /\ left \subseteq Keys
    /\ pending \in Request \cup {NoRequest}
    /\ run \in [Procs -> Run]
    /\ active \in [AllPurposes -> Keys] /\ accepted \subseteq Keys /\ expired \subseteq Keys
    /\ keys \in Keys
    /\ crashes \in 0..MaxCrashes /\ losses \in 0..MaxLosses /\ expiries \in 0..MaxExpiries

\* With one process: a key the service has accepted never loses its private half. It is in
\* the identity or in a staged copy of it, whichever step of a rotation is cut short
\* (StageIdentity before SavePending before RotateIdentityKey before PromoteStagedIdentity).
\* Otherwise nothing addressed to the key can be read again.
KeysKept == \A k \in accepted :
    k \in identity.keys \/ \E s \in staged : k \in s.local.keys

\* With one process: when no rotation is pending, the identity names the keys the service
\* calls current. A command that ends early never leaves an accepted key to be forgotten
\* (RemovePending is the last step).
InStep == pending = NoRequest => identity.current = active

\* A pending rotation that running the command again does not end: the service refuses it, or
\* the directory cannot be listed.
Blocked == left # {} \/ (pending # NoRequest /\ ~Accepts(pending))

\* Running the command again ends a rotation that was cut short anywhere, unless it is blocked.
RotationEnds == pending # NoRequest ~> (pending = NoRequest \/ Blocked)

\* docs/CLI.md:799 - the request is saved first, and running the same command again recovers
\* the answer and promotes the key. So a pending rotation always ends.
RotationRecovers == pending # NoRequest ~> pending = NoRequest

\* docs/CLI.md:795 - private records are written atomically. So whatever write is cut short,
\* the identities can be loaded again (LoadIdentity, which every identity command begins with).
IdentityLoads == []<>Readable

=============================================================================
