------------------------ MODULE IdentityRotationProofs ------------------------
(***************************************************************************)
(* Proofs about IdentityRotation with one process at a time, for any       *)
(* number of keys, crashes, losses and expired challenges.  What makes     *)
(* KeysKept and InStep inductive: the pending request and the staged copy  *)
(* belong together (HasKey), the service has accepted at most that one key *)
(* more than the identity holds (Followed), and what the command has in    *)
(* hand is what is on disk (RunSound).                                     *)
(***************************************************************************)
EXTENDS IdentityRotation, TLAPS

\* A request's key is staged, on top of the identity as it is, or already in the identity.
HasKey(q) ==
    /\ \A s \in Staged(q.key) : s.local = WithKey(identity, q.purpose, q.key)
    /\ Staged(q.key) = {} =>
         q.key \in identity.keys /\ identity.current[q.purpose] = q.key

Followed ==
    /\ pending = NoRequest => accepted \subseteq identity.keys /\ active = identity.current
    /\ pending # NoRequest =>
         /\ accepted \subseteq identity.keys \cup {pending.key}
         /\ pending.key \in accepted =>
              active = [identity.current EXCEPT ![pending.purpose] = pending.key]
         /\ pending.key \notin accepted => active = identity.current

\* No key number is used that has not been drawn.
Drawn ==
    /\ \A k \in accepted : k <= keys
    /\ \A s \in staged : s.key <= keys
    /\ pending # NoRequest => pending.key <= keys

RunSound(r) ==
    /\ r.pc \in {"pending", "challenge"} => r.local = identity
    /\ r.pc \in {"challenge", "stage", "staging", "save"} => pending = NoRequest
    /\ r.pc \in {"stage", "staging", "save"} =>
         /\ r.request \in Request /\ r.request.key = keys /\ keys \notin accepted
         /\ r.local = WithKey(identity, r.request.purpose, keys)
         /\ \A s \in Staged(keys) : s.local = r.local
    /\ r.pc = "save" => Staged(keys) # {}
    /\ r.pc \in {"publish", "promote", "clear"} => pending # NoRequest /\ r.request = pending
    /\ r.pc \in {"promote", "clear"} => pending.key \in accepted
    /\ r.pc = "clear" =>
         pending.key \in identity.keys /\ identity.current[pending.purpose] = pending.key

RotationInv ==
    /\ TypeOK
    /\ pending # NoRequest => HasKey(pending)
    /\ Followed
    /\ Drawn
    /\ \A p \in Procs : RunSound(run[p])

LEMMA RequestNotNone ==
    /\ NoRequest \notin Request
    /\ \A q \in Request \cup {NoRequest} : q # NoRequest => q \in Request
<1>1. MaxKeys + 1 \notin 0..MaxKeys
    BY RotationAssumption
<1>2. NoRequest.key = MaxKeys + 1
    BY DEF NoRequest, None
<1>3. \A q \in Request : q.key \in 0..MaxKeys
    BY DEF Request, Keys
<1>. QED
    BY <1>1, <1>2, <1>3

\* The identity with one key more.
LEMMA WithKeyFacts ==
    ASSUME NEW l \in Local, NEW u \in AllPurposes, NEW k \in Keys
    PROVE  /\ WithKey(l, u, k) \in Local
           /\ WithKey(l, u, k).keys = l.keys \cup {k}
           /\ WithKey(l, u, k).current = [l.current EXCEPT ![u] = k]
           /\ WithKey(l, u, k).current[u] = k
           /\ WithKey(WithKey(l, u, k), u, k) = WithKey(l, u, k)
<1>1. l.current \in [AllPurposes -> Keys] /\ l.keys \in SUBSET Keys
    BY DEF Local
<1>2. [l.current EXCEPT ![u] = k] \in [AllPurposes -> Keys] /\ l.keys \cup {k} \in SUBSET Keys
    BY <1>1
<1>3. [[l.current EXCEPT ![u] = k] EXCEPT ![u] = k] = [l.current EXCEPT ![u] = k]
    BY <1>1
<1>. QED
    BY <1>1, <1>2, <1>3 DEF WithKey, Local

LEMMA IdleFacts == Idle \in Run /\ Idle.pc = "idle" /\ First \in Local
<1>1. 0 \in Keys
    BY RotationAssumption DEF Keys
<1>2. First \in Local
    BY <1>1 DEF First, Local
<1>. QED
    BY <1>2 DEF Idle, Run, PCs, AllPurposes, Asking

LEMMA Fields ==
    ASSUME TypeOK, NEW p \in Procs
    PROVE  /\ run[p] \in Run /\ run[p].pc \in PCs /\ run[p].purpose \in AllPurposes
           /\ run[p].local \in Local /\ run[p].request \in Request \cup {NoRequest}
           /\ run[p].pc \in Asking => run[p].request \in Request
           /\ run[p].tries \in 0..1
           /\ identity \in Local /\ pending \in Request \cup {NoRequest}
    BY DEF TypeOK, Run

LEMMA Moves ==
    ASSUME TypeOK, NEW p \in Procs
    PROVE  /\ \A pc \in PCs :
                pc \in Asking /\ run[p].pc \in Asking => [run[p] EXCEPT !.pc = pc] \in Run
           /\ [run[p] EXCEPT !.pc = "challenge"] \in Run
           /\ [run[p] EXCEPT !.tries = 1] \in Run
           /\ \A u \in AllPurposes :
                [Idle EXCEPT !.pc = "pending", !.purpose = u, !.local = identity] \in Run
           /\ pending # NoRequest =>
                [run[p] EXCEPT !.pc = "publish", !.request = pending] \in Run
           /\ \A l \in Local, q \in Request :
                [run[p] EXCEPT !.pc = "stage", !.local = l, !.request = q] \in Run
<1>1. /\ \A pc \in PCs :
           pc \in Asking /\ run[p].pc \in Asking => [run[p] EXCEPT !.pc = pc] \in Run
      /\ [run[p] EXCEPT !.pc = "challenge"] \in Run
    BY Fields DEF Run, PCs, Asking
<1>2. [run[p] EXCEPT !.tries = 1] \in Run
    BY Fields DEF Run
<1>3. \A u \in AllPurposes :
        [Idle EXCEPT !.pc = "pending", !.purpose = u, !.local = identity] \in Run
    BY Fields, IdleFacts DEF Run, PCs, Asking
<1>4. pending # NoRequest => [run[p] EXCEPT !.pc = "publish", !.request = pending] \in Run
    BY Fields, RequestNotNone DEF Run, PCs
<1>5. \A l \in Local, q \in Request :
        [run[p] EXCEPT !.pc = "stage", !.local = l, !.request = q] \in Run
    BY Fields DEF Run, PCs
<1>. QED
    BY <1>1, <1>2, <1>3, <1>4, <1>5

LEMMA Becomes ==
    ASSUME TypeOK, NEW p \in Procs, NEW r \in Run, Become(p, r)
    PROVE  run' \in [Procs -> Run] /\ run'[p] = r /\ \A q \in Procs \ {p} : run'[q] = run[q]
    BY DEF TypeOK, Become

\* The request and the local copy a challenge leads to.
LEMMA ChallengeFacts ==
    ASSUME TypeOK, NEW p \in Procs, Challenge(p),
           NEW l, l = run[p].local, NEW u, u = run[p].purpose
    PROVE  /\ keys' \in Keys /\ keys' = keys + 1 /\ keys < keys'
           /\ [key |-> keys', purpose |-> u, predecessor |-> l.current[u],
               signer |-> l.current["signing"]] \in Request
           /\ WithKey(l, u, keys') \in Local
           /\ run'[p] = [run[p] EXCEPT !.pc = "stage", !.local = WithKey(l, u, keys'),
                  !.request = [key |-> keys', purpose |-> u, predecessor |-> l.current[u],
                               signer |-> l.current["signing"]]]
           /\ run' \in [Procs -> Run]
<1>1. keys' \in Keys /\ keys' = keys + 1 /\ keys < keys'
    BY RotationAssumption DEF Challenge, TypeOK, Keys
<1>2. l \in Local /\ u \in AllPurposes
    BY Fields
<1>3. l.current[u] \in Keys /\ l.current["signing"] \in Keys
    BY <1>2 DEF Local, AllPurposes
<1>4. [key |-> keys', purpose |-> u, predecessor |-> l.current[u],
       signer |-> l.current["signing"]] \in Request
    BY <1>1, <1>2, <1>3 DEF Request
<1>5. WithKey(l, u, keys') \in Local
    BY <1>1, <1>2, WithKeyFacts
<1>. DEFINE r == [run[p] EXCEPT !.pc = "stage", !.local = WithKey(l, u, keys'),
                  !.request = [key |-> keys', purpose |-> u, predecessor |-> l.current[u],
                               signer |-> l.current["signing"]]]
<1>6. Become(p, r)
    BY DEF Challenge
<1>7. r \in Run
    BY <1>4, <1>5, Moves
<1>8. run'[p] = r /\ run' \in [Procs -> Run]
    BY <1>6, <1>7, Becomes
<1>. QED
    BY <1>1, <1>4, <1>5, <1>8

LEMMA ServeTypes ==
    ASSUME TypeOK, NEW q \in Request, Serve(q)
    PROVE  active' \in [AllPurposes -> Keys] /\ accepted' \subseteq Keys /\ expired' = expired
    BY DEF TypeOK, Serve, Request

LEMMA InitTypes == Init => TypeOK
<1>. SUFFICES ASSUME Init PROVE TypeOK
    OBVIOUS
<1>1. Idle \in Run /\ First \in Local
    BY IdleFacts
<1>2. 0 \in Keys /\ First.current \in [AllPurposes -> Keys]
    BY <1>1, RotationAssumption DEF Keys, Local
<1>. QED
    BY <1>1, <1>2, RotationAssumption DEF Init, TypeOK

\* What the process of a step becomes is well formed, whatever the step.
LEMMA StepRuns ==
    ASSUME TypeOK, NEW p \in Procs, Step(p)
    PROVE  run' \in [Procs -> Run]
<1>1. ASSUME NEW u \in Purposes, Begin(p, u) PROVE run' \in [Procs -> Run]
    <2>1. u \in AllPurposes
        BY RotationAssumption
    <2>. QED
        BY <1>1, <2>1, Moves, Becomes DEF Begin
<1>2. CASE FindPending(p)
    BY <1>2, Moves, Becomes, IdleFacts DEF FindPending, End
<1>3. CASE Challenge(p)
    BY <1>3, ChallengeFacts
<1>4. CASE At(p, "pending") /\ Goto(p, "challenge")
    BY <1>4, Moves, Becomes DEF Goto
<1>5. ASSUME NEW pc \in Asking, run[p].pc \in Asking, Goto(p, pc) PROVE run' \in [Procs -> Run]
    BY <1>5, Moves, Becomes DEF Goto, PCs, Asking
<1>6. CASE End(p)
    BY <1>6, IdleFacts, Becomes DEF End
<1>7. CASE Lose(p)
    BY <1>7, Moves, Becomes, IdleFacts DEF Lose, End
<1>8. Work(p) =>
        \/ FindPending(p) \/ Challenge(p) \/ End(p)
        \/ At(p, "pending") /\ Goto(p, "challenge")
        \/ \E pc \in Asking : run[p].pc \in Asking /\ Goto(p, pc)
    BY DEF Work, FindNone, Stage, StageDone, Save, Publish, PublishRefused, Promote,
           PromoteMissing, Clear, Asking, At
<1>9. ChallengeFails(p) \/ StageFails(p) \/ SaveFails(p) \/ Crash(p) => End(p)
    BY DEF ChallengeFails, StageFails, SaveFails, Crash
<1>. QED
    BY <1>1, <1>2, <1>3, <1>4, <1>5, <1>6, <1>7, <1>8, <1>9 DEF Step

LEMMA StepTypes ==
    ASSUME TypeOK, NEW p \in Procs, Step(p)
    PROVE  TypeOK'
<1>1. run' \in [Procs -> Run]
    BY StepRuns
<1>2. CASE \/ \E u \in Purposes : Begin(p, u)
           \/ FindPending(p) \/ FindNone(p) \/ Stage(p) \/ PublishRefused(p)
           \/ PromoteMissing(p) \/ StageFails(p) \/ SaveFails(p)
    BY <1>1, <1>2 DEF TypeOK, Begin, FindPending, FindNone, Stage, PublishRefused,
           PromoteMissing, StageFails, SaveFails, service, bounds
<1>3. CASE Challenge(p)
    <2>1. keys' \in Keys
        BY <1>3, ChallengeFacts
    <2>. QED
        BY <1>1, <1>3, <2>1 DEF TypeOK, Challenge, service, bounds
<1>4. CASE ChallengeFails(p)
    BY <1>1, <1>4, RotationAssumption DEF TypeOK, ChallengeFails, service
<1>5. CASE StageDone(p)
    <2>1. run[p].request.key \in Keys
        BY <1>5, Fields DEF StageDone, At, Asking, Request
    <2>. QED
        BY <1>1, <1>5, <2>1, Fields DEF TypeOK, StageDone, service, bounds
<1>6. CASE Save(p) \/ Clear(p)
    BY <1>1, <1>6, Fields DEF TypeOK, Save, Clear, service, bounds
<1>7. CASE Publish(p)
    BY <1>1, <1>7, Fields, ServeTypes DEF TypeOK, Publish, bounds, At, Asking
<1>8. CASE Lose(p)
    <2>1. run[p].request \in Request
        BY <1>8, Fields DEF Lose, At, Asking
    <2>2. /\ active' \in [AllPurposes -> Keys] /\ accepted' \subseteq Keys
          /\ expired' \subseteq Keys
        BY <1>8, <2>1, ServeTypes DEF Lose, service, TypeOK
    <2>3. losses' \in 0..MaxLosses
        BY <1>8, RotationAssumption DEF Lose, TypeOK
    <2>. QED
        BY <1>1, <1>8, <2>2, <2>3 DEF TypeOK, Lose
<1>9. CASE Promote(p)
    <2>1. PICK s \in Staged(run[p].request.key) : identity' = s.local /\ staged' = staged \ {s}
        BY <1>9 DEF Promote
    <2>2. s.local \in Local
        BY <2>1 DEF TypeOK, Staged
    <2>. QED
        BY <1>1, <1>9, <2>1, <2>2 DEF TypeOK, Promote, service, bounds
<1>10. CASE Crash(p)
    <2>1. At(p, "staging") => run[p].request.key \in Keys
        BY Fields DEF At, Asking, Request
    <2>. QED
        BY <2>1, <1>1, <1>10, Fields, RotationAssumption DEF TypeOK, Crash, service
<1>. QED
    BY <1>2, <1>3, <1>4, <1>5, <1>6, <1>7, <1>8, <1>9, <1>10 DEF Step, Work

LEMMA NextTypes == TypeOK /\ [Next]_vars => TypeOK'
<1>. SUFFICES ASSUME TypeOK, [Next]_vars PROVE TypeOK'
    OBVIOUS
<1>1. ASSUME NEW k \in 1..keys, Expire(k) PROVE TypeOK'
    <2>1. k \in Keys
        BY RotationAssumption DEF TypeOK, Keys
    <2>. QED
        BY <1>1, <2>1, RotationAssumption DEF TypeOK, Expire
<1>2. CASE UNCHANGED vars
    BY <1>2 DEF TypeOK, vars, service, bounds
<1>. QED
    BY <1>1, <1>2, StepTypes DEF Next

\* Whatever is run, by however many processes, and wherever it is cut short, the private
\* files, the requests and the runs stay well formed (cmd/identity.go, store.go).
THEOREM RotationTypes == Spec => []TypeOK
<1>. QED
    BY InitTypes, NextTypes, PTL DEF Spec

-----------------------------------------------------------------------------
(* One process at a time. *)

LEMMA Alone ==
    ASSUME NEW p, Procs = {p}, Followed', Drawn', pending' # NoRequest => HasKey(pending)',
           TypeOK', RunSound(run[p])'
    PROVE  RotationInv'
    BY DEF RotationInv

\* A step that changes nothing but what the process does keeps the disk and the service.
LEMMA SameFiles ==
    ASSUME RotationInv, UNCHANGED <<identity, staged, pending, active, accepted, keys>>
    PROVE  Followed' /\ Drawn' /\ (pending' # NoRequest => HasKey(pending)')
    BY DEF RotationInv, Followed, Drawn, HasKey, Staged

LEMMA InitSound == Init => RotationInv
<1>. SUFFICES ASSUME Init PROVE RotationInv
    OBVIOUS
<1>1. \A p \in Procs : run[p].pc = "idle"
    BY IdleFacts DEF Init
<1>2. \A p \in Procs : RunSound(run[p])
    BY <1>1 DEF RunSound
<1>3. Followed /\ Drawn
    BY DEF Init, Followed, Drawn, First
<1>. QED
    BY <1>2, <1>3, InitTypes DEF RotationInv, Init

\* A run that ends.
LEMMA EndSound ==
    ASSUME RotationInv, NEW p, Procs = {p}, End(p), TypeOK',
           UNCHANGED <<identity, staged, pending, active, accepted, keys>>
    PROVE  RotationInv'
<1>1. run'[p].pc = "idle"
    BY IdleFacts, Becomes DEF RotationInv, End
<1>2. RunSound(run[p])'
    BY <1>1 DEF RunSound
<1>. QED
    BY <1>2, SameFiles, Alone

\* A run that only goes on, to a step for which it is still sound.
LEMMA GotoSound ==
    ASSUME RotationInv, NEW p, Procs = {p}, NEW pc, Goto(p, pc), TypeOK'
    PROVE  /\ run'[p].pc = pc /\ run'[p].local = run[p].local
           /\ run'[p].request = run[p].request
    BY Fields DEF RotationInv, Goto, Become, TypeOK, Run

\* The command finds what there is to do.
LEMMA BeginSound ==
    ASSUME RotationInv, NEW p, Procs = {p}, NEW u \in Purposes, Begin(p, u), TypeOK'
    PROVE  RotationInv'
<1>1. run'[p].pc = "pending" /\ run'[p].local = identity
    <2>1. u \in AllPurposes
        BY RotationAssumption
    <2>. DEFINE r == [Idle EXCEPT !.pc = "pending", !.purpose = u, !.local = identity]
    <2>2. r \in Run /\ run'[p] = r
        BY <2>1, Moves, Becomes DEF RotationInv, Begin
    <2>3. r.pc = "pending" /\ r.local = identity
        BY DEF Idle
    <2>. QED
        BY <2>2, <2>3
<1>2. UNCHANGED <<identity, staged, pending, active, accepted, keys>>
    BY DEF Begin, service
<1>3. RunSound(run[p])'
    BY <1>1, <1>2 DEF RunSound
<1>. QED
    BY <1>2, <1>3, SameFiles, Alone

LEMMA FindSound ==
    ASSUME RotationInv, NEW p, Procs = {p}, FindPending(p) \/ FindNone(p), TypeOK'
    PROVE  RotationInv'
<1>1. UNCHANGED <<identity, staged, pending, active, accepted, keys>>
    BY DEF FindPending, FindNone, service
<1>2. CASE FindNone(p)
    <2>1. run'[p].pc = "challenge" /\ run'[p].local = run[p].local
        BY <1>2, GotoSound DEF FindNone
    <2>2. run[p].local = identity /\ pending = NoRequest
        BY <1>2 DEF RotationInv, RunSound, FindNone, At
    <2>3. RunSound(run[p])'
        BY <1>1, <2>1, <2>2 DEF RunSound
    <2>. QED
        BY <1>1, <2>3, SameFiles, Alone
<1>3. CASE FindPending(p) /\ pending.purpose = run[p].purpose
    <2>1. run'[p] = [run[p] EXCEPT !.pc = "publish", !.request = pending]
        BY <1>3, Moves, Becomes DEF RotationInv, FindPending
    <2>2. run'[p].pc = "publish" /\ run'[p].request = pending /\ pending # NoRequest
        BY <1>3, <2>1, Fields DEF RotationInv, FindPending, Run
    <2>3. RunSound(run[p])'
        BY <1>1, <2>2 DEF RunSound
    <2>. QED
        BY <1>1, <2>3, SameFiles, Alone
<1>4. CASE FindPending(p) /\ pending.purpose # run[p].purpose
    BY <1>1, <1>4, EndSound DEF FindPending
<1>. QED
    BY <1>2, <1>3, <1>4

\* The new key's number is greater than any that was drawn.
LEMMA ChallengeSound ==
    ASSUME RotationInv, NEW p, Procs = {p}, Challenge(p), TypeOK'
    PROVE  RotationInv'
<1>. DEFINE l == run[p].local
            u == run[p].purpose
            q == [key |-> keys', purpose |-> u, predecessor |-> l.current[u],
                  signer |-> l.current["signing"]]
<1>1. l = identity /\ pending = NoRequest
    BY DEF RotationInv, RunSound, Challenge, At
<1>2. /\ keys' \in Keys /\ keys' = keys + 1 /\ keys < keys' /\ q \in Request
      /\ run'[p] = [run[p] EXCEPT !.pc = "stage", !.local = WithKey(l, u, keys'),
                       !.request = q]
    BY ChallengeFacts DEF RotationInv
<1>3. UNCHANGED <<identity, staged, pending, active, accepted>>
    BY DEF Challenge, service
<1>4. run'[p].pc = "stage" /\ run'[p].local = WithKey(l, u, keys') /\ run'[p].request = q
    BY <1>2, Fields DEF RotationInv, Run
<1>5. keys \in Nat /\ accepted \subseteq Nat /\ \A s \in staged : s.key \in Nat
    BY RotationAssumption DEF RotationInv, TypeOK, Keys
<1>6. Followed' /\ Drawn'
    BY <1>1, <1>2, <1>3, <1>5 DEF RotationInv, Followed, Drawn
<1>7. keys' \notin accepted /\ Staged(keys') = {}
    BY <1>2, <1>5 DEF RotationInv, Drawn, Staged
<1>8. q.key = keys' /\ q.purpose = u
    OBVIOUS
<1>. HIDE DEF q, l, u
<1>9. Staged(keys)' = {}
    BY <1>3, <1>7 DEF Staged
<1>10. RunSound(run[p])'
    <2>1. run'[p].local = WithKey(identity', run'[p].request.purpose, keys')
        BY <1>1, <1>3, <1>4, <1>8
    <2>2. pending' = NoRequest /\ run'[p].request \in Request /\ run'[p].request.key = keys'
        BY <1>1, <1>2, <1>3, <1>4, <1>8
    <2>3. keys' \notin accepted' /\ \A s \in Staged(keys)' : s.local = run'[p].local
        BY <1>3, <1>7, <1>9
    <2>. QED
        BY <1>4, <2>1, <2>2, <2>3 DEF RunSound
<1>. QED
    BY <1>1, <1>3, <1>6, <1>10, Alone

LEMMA StageSound ==
    ASSUME RotationInv, NEW p, Procs = {p}, Stage(p) \/ StageDone(p), TypeOK'
    PROVE  RotationInv'
<1>. DEFINE r == run[p]
<1>1. /\ r.pc \in {"stage", "staging"} /\ pending = NoRequest
      /\ r.request \in Request /\ r.request.key = keys /\ keys \notin accepted
      /\ r.local = WithKey(identity, r.request.purpose, keys)
      /\ \A s \in Staged(keys) : s.local = r.local
    BY DEF RotationInv, RunSound, Stage, StageDone, At
<1>2. UNCHANGED <<identity, pending, active, accepted, keys>>
    BY DEF Stage, StageDone, service
<1>3. run'[p].local = r.local /\ run'[p].request = r.request
    BY GotoSound DEF Stage, StageDone
<1>4. CASE Stage(p)
    <2>1. run'[p].pc = "staging" /\ staged' = staged
        BY <1>4, GotoSound DEF Stage
    <2>2. RunSound(run[p])'
        BY <1>1, <1>2, <1>3, <2>1 DEF RunSound, Staged
    <2>. QED
        BY <1>2, <2>1, <2>2, SameFiles, Alone
<1>5. CASE StageDone(p)
    <2>. DEFINE new == [key |-> keys, local |-> r.local]
    <2>1. run'[p].pc = "save" /\ staged' = staged \cup {new}
        BY <1>1, <1>5, GotoSound DEF StageDone
    <2>2. new.key = keys /\ new.local = r.local /\ keys \in Nat
        BY RotationAssumption DEF RotationInv, TypeOK, Keys
    <2>. HIDE DEF new
    <2>3. Staged(keys)' = Staged(keys) \cup {new}
        BY <1>2, <2>1, <2>2 DEF Staged
    <2>4. \A s \in Staged(keys)' : s.local = run'[p].local
        BY <1>1, <1>3, <2>2, <2>3
    <2>5. RunSound(run[p])'
        <3>. HIDE DEF r
        <3>1. WithKey(identity, run[p].request.purpose, keys)'
                = WithKey(identity, r.request.purpose, keys)
            BY <1>2, <1>3
        <3>. QED
            BY <1>1, <1>2, <1>3, <2>1, <2>3, <2>4, <3>1 DEF RunSound
    <2>6. Followed' /\ Drawn'
        BY <1>2, <2>1, <2>2 DEF RotationInv, Followed, Drawn
    <2>. QED
        BY <1>1, <1>2, <2>5, <2>6, Alone
<1>. QED
    BY <1>4, <1>5

\* The request that is saved is the one whose key is staged.
LEMMA SaveSound ==
    ASSUME RotationInv, NEW p, Procs = {p}, Save(p), TypeOK'
    PROVE  RotationInv'
<1>. DEFINE q == run[p].request
<1>1. /\ pending = NoRequest /\ q \in Request /\ q.key = keys /\ keys \notin accepted
      /\ run[p].local = WithKey(identity, q.purpose, keys)
      /\ \A s \in Staged(keys) : s.local = run[p].local
      /\ Staged(keys) # {}
    BY DEF RotationInv, RunSound, Save, At
<1>2. UNCHANGED <<identity, staged, active, accepted, keys>> /\ pending' = q
    BY DEF Save, service
<1>3. run'[p].pc = "publish" /\ run'[p].request = q
    BY GotoSound DEF Save
<1>4. q # NoRequest /\ keys \in Nat
    BY <1>1, RequestNotNone, RotationAssumption DEF RotationInv, TypeOK, Keys
<1>. HIDE DEF q
<1>5. HasKey(pending)'
    BY <1>1, <1>2 DEF HasKey, Staged
<1>6. Followed' /\ Drawn'
    BY <1>1, <1>2, <1>4 DEF RotationInv, Followed, Drawn
<1>7. RunSound(run[p])'
    BY <1>2, <1>3, <1>4 DEF RunSound
<1>. QED
    BY <1>5, <1>6, <1>7, Alone

\* The service carries out the pending request, for the first time or not.
LEMMA ServeSound ==
    ASSUME RotationInv, pending # NoRequest, Serve(pending),
           UNCHANGED <<identity, staged, pending, keys>>
    PROVE  Followed' /\ Drawn' /\ HasKey(pending)' /\ pending'.key \in accepted'
<1>1. HasKey(pending)'
    BY DEF RotationInv, HasKey, Staged
<1>2. accepted' = accepted \cup {pending.key}
    BY DEF Serve
<1>3. Drawn'
    BY <1>2 DEF RotationInv, Drawn
<1>4. active' = [identity.current EXCEPT ![pending.purpose] = pending.key]
    BY DEF RotationInv, Followed, Serve
<1>5. Followed'
    BY <1>2, <1>4 DEF RotationInv, Followed
<1>. QED
    BY <1>1, <1>2, <1>3, <1>5

LEMMA PublishSound ==
    ASSUME RotationInv, NEW p, Procs = {p}, Publish(p), TypeOK'
    PROVE  RotationInv'
<1>1. pending # NoRequest /\ run[p].request = pending
    BY DEF RotationInv, RunSound, Publish, At
<1>2. UNCHANGED <<identity, staged, pending, keys>>
    BY DEF Publish
<1>3. Followed' /\ Drawn' /\ HasKey(pending)' /\ pending'.key \in accepted'
    BY <1>1, <1>2, ServeSound DEF Publish
<1>4. run'[p].pc = "promote" /\ run'[p].request = pending
    BY <1>1, GotoSound DEF Publish
<1>5. RunSound(run[p])'
    BY <1>1, <1>2, <1>3, <1>4 DEF RunSound
<1>. QED
    BY <1>3, <1>5, Alone

LEMMA LoseSound ==
    ASSUME RotationInv, NEW p, Procs = {p}, Lose(p), TypeOK'
    PROVE  RotationInv'
<1>1. run[p].pc = "publish" /\ pending # NoRequest /\ run[p].request = pending
    BY DEF RotationInv, RunSound, Lose, At
<1>2. UNCHANGED <<identity, staged, pending, keys>>
    BY DEF Lose
<1>3. Followed' /\ Drawn' /\ HasKey(pending)'
    <2>1. CASE UNCHANGED service
        <3>1. UNCHANGED <<identity, staged, pending, active, accepted, keys>>
            BY <1>2, <2>1 DEF service
        <3>. QED
            BY <1>1, <1>2, <3>1, SameFiles
    <2>2. CASE Serve(pending)
        BY <1>1, <1>2, <2>2, ServeSound
    <2>. QED
        BY <1>1, <2>1, <2>2 DEF Lose
<1>4. \/ run'[p].pc = "idle"
      \/ run'[p].pc = "publish" /\ run'[p].request = pending
    <2>1. CASE End(p)
        BY <2>1, IdleFacts, Becomes DEF RotationInv, End
    <2>2. CASE Become(p, [run[p] EXCEPT !.tries = 1])
        <3>1. run'[p] = [run[p] EXCEPT !.tries = 1]
            BY <2>2, Moves, Becomes DEF RotationInv
        <3>. QED
            BY <1>1, <3>1, Fields DEF RotationInv, Run
    <2>. QED
        BY <2>1, <2>2 DEF Lose
<1>5. RunSound(run[p])'
    BY <1>1, <1>2, <1>4 DEF RunSound
<1>. QED
    BY <1>3, <1>5, Alone

\* The staged identity that takes the identity's place has one key more, and nothing less.
LEMMA PromoteSound ==
    ASSUME RotationInv, NEW p, Procs = {p}, Promote(p), TypeOK'
    PROVE  RotationInv'
<1>. DEFINE k == pending.key
            u == pending.purpose
            w == WithKey(identity, u, k)
<1>1. pending # NoRequest /\ run[p].request = pending /\ k \in accepted
    BY DEF RotationInv, RunSound, Promote, At
<1>2. UNCHANGED <<pending, active, accepted, keys>>
    BY DEF Promote, service
<1>3. PICK s \in Staged(k) : identity' = s.local /\ staged' = staged \ {s}
    BY <1>1 DEF Promote
<1>4. identity \in Local /\ k \in Keys /\ u \in AllPurposes
    BY <1>1, RequestNotNone DEF RotationInv, TypeOK, Request
<1>5. identity' = w
    BY <1>1, <1>3 DEF RotationInv, HasKey
<1>6. /\ w.keys = identity.keys \cup {k} /\ w.current[u] = k /\ WithKey(w, u, k) = w
      /\ w.current = [identity.current EXCEPT ![u] = k]
    BY <1>4, WithKeyFacts
<1>7. HasKey(pending)'
    <2>1. \A t \in Staged(k)' : t \in Staged(k)
        BY <1>2, <1>3 DEF Staged
    <2>2. \A t \in Staged(k) : t.local = w
        BY <1>1 DEF RotationInv, HasKey
    <2>3. \A t \in Staged(k)' : t.local = WithKey(identity', u, k)
        BY <1>5, <1>6, <2>1, <2>2
    <2>4. k \in identity'.keys /\ identity'.current[u] = k
        BY <1>5, <1>6
    <2>. QED
        BY <1>2, <2>3, <2>4 DEF HasKey
<1>8. Followed'
    <2>1. active = [identity.current EXCEPT ![u] = k]
        BY <1>1 DEF RotationInv, Followed
    <2>2. active' = [identity'.current EXCEPT ![u] = k]
        <3>1. identity.current \in [AllPurposes -> Keys]
            BY <1>4 DEF Local
        <3>. QED
            BY <1>2, <1>4, <1>5, <1>6, <2>1, <3>1
    <2>3. accepted' \subseteq identity'.keys \cup {k}
        BY <1>1, <1>2, <1>5, <1>6 DEF RotationInv, Followed
    <2>. HIDE DEF k, u, w
    <2>4. pending' = pending /\ k = pending.key /\ u = pending.purpose
        BY <1>2 DEF k, u
    <2>. QED
        BY <1>1, <1>2, <2>2, <2>3, <2>4 DEF Followed
<1>9. Drawn'
    BY <1>2, <1>3 DEF RotationInv, Drawn
<1>10. run'[p].pc = "clear" /\ run'[p].request = pending
    BY <1>1, GotoSound DEF Promote
<1>11. RunSound(run[p])'
    BY <1>1, <1>2, <1>5, <1>6, <1>10 DEF RunSound
<1>. QED
    BY <1>7, <1>8, <1>9, <1>11, Alone

LEMMA PromoteMissingSound ==
    ASSUME RotationInv, NEW p, Procs = {p}, PromoteMissing(p), TypeOK'
    PROVE  RotationInv'
<1>1. /\ pending # NoRequest /\ run[p].request = pending /\ pending.key \in accepted
      /\ Staged(pending.key) = {}
    BY DEF RotationInv, RunSound, PromoteMissing, At
<1>2. UNCHANGED <<identity, staged, pending, active, accepted, keys>>
    BY DEF PromoteMissing, service
<1>3. CASE Goto(p, "clear")
    <2>1. pending.key \in identity.keys /\ identity.current[pending.purpose] = pending.key
        BY <1>1 DEF RotationInv, HasKey
    <2>2. run'[p].pc = "clear" /\ run'[p].request = pending
        BY <1>1, <1>3, GotoSound
    <2>3. RunSound(run[p])'
        BY <1>1, <1>2, <2>1, <2>2 DEF RunSound
    <2>. QED
        BY <1>2, <2>3, SameFiles, Alone
<1>. QED
    BY <1>2, <1>3, EndSound DEF PromoteMissing

\* The pending request goes only when the identity has its key.
LEMMA ClearSound ==
    ASSUME RotationInv, NEW p, Procs = {p}, Clear(p), TypeOK'
    PROVE  RotationInv'
<1>1. /\ pending # NoRequest /\ pending.key \in accepted
      /\ pending.key \in identity.keys /\ identity.current[pending.purpose] = pending.key
    BY DEF RotationInv, RunSound, Clear, At
<1>2. UNCHANGED <<identity, staged, active, accepted, keys>> /\ pending' = NoRequest
    BY DEF Clear, service
<1>3. identity.current \in [AllPurposes -> Keys]
    BY DEF RotationInv, TypeOK, Local
<1>4. active = identity.current
    BY <1>1, <1>3 DEF RotationInv, Followed
<1>5. Followed' /\ Drawn'
    BY <1>1, <1>2, <1>4 DEF RotationInv, Followed, Drawn
<1>6. run'[p].pc = "idle"
    BY IdleFacts, Becomes DEF RotationInv, Clear, End
<1>7. RunSound(run[p])'
    BY <1>6 DEF RunSound
<1>. QED
    BY <1>2, <1>5, <1>7, Alone

LEMMA StepSound ==
    ASSUME RotationInv, NEW p, Procs = {p}, Step(p), TypeOK'
    PROVE  RotationInv'
<1>1. CASE \E u \in Purposes : Begin(p, u)
    BY <1>1, BeginSound
<1>2. CASE FindPending(p) \/ FindNone(p)
    BY <1>2, FindSound
<1>3. CASE Challenge(p)
    BY <1>3, ChallengeSound
<1>4. CASE Stage(p) \/ StageDone(p)
    BY <1>4, StageSound
<1>5. CASE Save(p)
    BY <1>5, SaveSound
<1>6. CASE Publish(p) \/ Lose(p)
    BY <1>6, PublishSound, LoseSound
<1>7. CASE Promote(p) \/ PromoteMissing(p)
    BY <1>7, PromoteSound, PromoteMissingSound
<1>8. CASE Clear(p)
    BY <1>8, ClearSound
<1>9. CASE PublishRefused(p) \/ ChallengeFails(p) \/ StageFails(p) \/ SaveFails(p) \/ Crash(p)
    BY <1>9, EndSound
    DEF PublishRefused, ChallengeFails, StageFails, SaveFails, Crash, service
<1>. QED
    BY <1>1, <1>2, <1>3, <1>4, <1>5, <1>6, <1>7, <1>8, <1>9 DEF Step, Work

LEMMA NextSound ==
    ASSUME NEW p, Procs = {p}
    PROVE  RotationInv /\ [Next]_vars => RotationInv'
<1>. SUFFICES ASSUME RotationInv, [Next]_vars PROVE RotationInv'
    OBVIOUS
<1>1. TypeOK'
    BY NextTypes DEF RotationInv
<1>2. ASSUME UNCHANGED <<identity, staged, pending, run, active, accepted, keys>>
      PROVE  RotationInv'
    <2>1. RunSound(run[p])'
        BY <1>2 DEF RotationInv, RunSound, Staged
    <2>. QED
        BY <1>1, <1>2, <2>1, SameFiles, Alone
<1>3. ASSUME NEW k \in 1..keys, Expire(k) PROVE RotationInv'
    BY <1>2, <1>3 DEF Expire
<1>4. CASE UNCHANGED vars
    BY <1>2, <1>4 DEF vars, service
<1>. QED
    BY <1>1, <1>3, <1>4, StepSound DEF Next

LEMMA SoundKeeps == RotationInv => KeysKept /\ InStep
<1>. SUFFICES ASSUME RotationInv PROVE KeysKept /\ InStep
    OBVIOUS
<1>1. InStep
    BY DEF RotationInv, Followed, InStep
<1>2. ASSUME NEW k \in accepted, k \notin identity.keys
      PROVE  \E s \in staged : k \in s.local.keys
    <2>1. pending # NoRequest /\ k = pending.key
        BY <1>2 DEF RotationInv, Followed
    <2>2. PICK s \in Staged(k) : s.local = WithKey(identity, pending.purpose, k)
        BY <1>2, <2>1 DEF RotationInv, HasKey
    <2>3. k \in s.local.keys
        BY <2>2 DEF WithKey
    <2>. QED
        BY <2>2, <2>3 DEF Staged
<1>. QED
    BY <1>1, <1>2 DEF KeysKept

\* With one process at a time, no crash, lost answer or expired challenge at any step of a
\* rotation takes away the private half of a key the service has accepted.
THEOREM RotationKeepsKeys ==
    ASSUME NEW p, Procs = {p}
    PROVE  Spec => []KeysKept
<1>. QED
    BY InitSound, NextSound, SoundKeeps, PTL DEF Spec

\* With one process at a time, the identity names the service's current keys whenever no
\* rotation is pending, whatever was cut short before.
THEOREM RotationInStep ==
    ASSUME NEW p, Procs = {p}
    PROVE  Spec => []InStep
<1>. QED
    BY InitSound, NextSound, SoundKeeps, PTL DEF Spec
=============================================================================
