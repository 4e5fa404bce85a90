-------------------------- MODULE TransferClaimProofs -------------------------
(***************************************************************************)
(* Proofs about TransferClaim, for any number of receivers, chunks, claims *)
(* and faults.  What makes the four properties inductive: no two commands *)
(* work under one claim (OwnKeys), and what a command has done so far is   *)
(* what the service has recorded and the output holds (SoundRun).          *)
(***************************************************************************)
EXTENDS TransferClaim, TLAPS

\* The claims commands work under are numbers drawn, and no two are the same.
OwnKeys ==
    /\ \A p \in Receivers : ~At(p, "idle") => run[p].key \in 1..keys
    /\ \A p, q \in Receivers :
         p # q /\ ~At(p, "idle") /\ ~At(q, "idle") => run[p].key # run[q].key
    /\ \A k \in Keys : k > keys => recorded[k] = 0

\* What a command r has done, has had recorded, and has verified.
SoundRun(r, rec, ver) ==
    /\ r.pc \in {"claim", "open"} => r.done = 0 /\ r.last = 0 /\ rec[r.key] = 0
    /\ r.pc = "download" => rec[r.key] = r.last /\ (r.done = Chunks => r.last = Chunks)
    /\ r.pc = "commit" => rec[r.key] = Chunks /\ r.key \in ver

ClaimInv ==
    /\ TypeOK
    /\ OwnKeys
    /\ \A p \in Receivers : SoundRun(run[p], recorded, verified)
    /\ ConsumedVerified
    /\ NothingLeftClaimed
    /\ ConsumedTold

LEMMA RunFields ==
    ASSUME TypeOK, NEW p \in Receivers
    PROVE  /\ run[p] \in Run /\ run[p].pc \in PCs /\ run[p].key \in Nat
           /\ run[p].tries \in 0..1
           /\ run[p].done \in 0..Chunks /\ run[p].last \in 0..Chunks
    BY DEF TypeOK, Run

LEMMA IdleMoves ==
    /\ Idle \in Run /\ Idle.pc = "idle"
    /\ \A k \in Nat : [Idle EXCEPT !.pc = "claim", !.key = k] \in Run
<1>1. Idle \in Run /\ Idle.pc = "idle"
    BY ClaimAssumption DEF Idle, Run, PCs
<1>. QED
    BY <1>1 DEF Run, PCs

LEMMA RunMoves ==
    ASSUME TypeOK, NEW p \in Receivers
    PROVE  /\ \A t \in 0..1 : [run[p] EXCEPT !.tries = t] \in Run
           /\ \A pc \in PCs, t \in 0..1 : [run[p] EXCEPT !.pc = pc, !.tries = t] \in Run
           /\ \A pc \in PCs, d \in 0..Chunks : [run[p] EXCEPT !.done = d, !.pc = pc] \in Run
           /\ \A pc \in PCs, l \in 0..Chunks : [run[p] EXCEPT !.pc = pc, !.last = l] \in Run
    BY RunFields DEF Run

\* A command's claim is one of the service's, and no other command's.
LEMMA OwnKey ==
    ASSUME ClaimInv, NEW p \in Receivers, ~At(p, "idle")
    PROVE  /\ run[p].key \in Keys
           /\ \A q \in Receivers \ {p} : ~At(q, "idle") => run[q].key # run[p].key
<1>1. run[p].key \in 1..keys /\ keys \in 0..MaxRuns
    BY DEF ClaimInv, OwnKeys, TypeOK
<1>2. run[p].key \in Keys
    BY <1>1, ClaimAssumption DEF Keys
<1>3. \A q \in Receivers \ {p} : ~At(q, "idle") => run[q].key # run[p].key
    BY DEF ClaimInv, OwnKeys
<1>. QED
    BY <1>2, <1>3

\* A step of command p, under its own claim, to r keeps the invariant if r is sound,
\* if the claim is committed only with its files verified, once and for all, and reported
\* so unless the command is still at it or left it unclear, and if a command that ends leaves
\* no claim but one that is accounted for.
LEMMA OwnStep ==
    ASSUME ClaimInv, NEW p \in Receivers, ~At(p, "idle"), NEW r \in Run, Become(p, r),
           r.pc = "idle" \/ r.key = run[p].key,
           output' \in [Receivers -> SUBSET {"partial", "files"}],
           status' \in [Keys -> {"free", "active", "released", "expired", "committed"}],
           recorded' \in [Keys -> 0..Chunks],
           keys' = keys, faults' \in Nat, expiries' \in Nat,
           \A k \in Keys \ {run[p].key} : status'[k] = status[k] /\ recorded'[k] = recorded[k],
           verified' \in {verified, verified \cup {run[p].key}},
           unreleased' \in {unreleased, unreleased \cup {run[p].key}},
           told' \in {told, told \cup {run[p].key}},
           unclear' \in {unclear, unclear \cup {run[p].key}},
           SoundRun(r, recorded', verified'),
           status[run[p].key] = "committed" => status'[run[p].key] = "committed",
           told' # told => status'[run[p].key] = "committed",
           status'[run[p].key] = "committed" =>
             \/ status[run[p].key] = "committed" /\ ~At(p, "commit")
             \/ run[p].key \in told' \cup unclear' \/ r.pc = "commit",
           status'[run[p].key] = "committed" => run[p].key \in verified',
           status'[run[p].key] = "active" /\ r.pc = "idle" => run[p].key \in unreleased'
    PROVE  ClaimInv'
<1>. DEFINE k == run[p].key
<1>1. k \in Keys /\ k \in 1..keys
    BY OwnKey DEF ClaimInv, OwnKeys
<1>2. run' \in [Receivers -> Run] /\ run'[p] = r /\ \A q \in Receivers \ {p} : run'[q] = run[q]
    BY DEF Become, ClaimInv, TypeOK
<1>3. \A q \in Receivers \ {p} : ~At(q, "idle") => run[q].key # k /\ run[q].key \in Keys
    BY OwnKey
<1>4. TypeOK'
    BY <1>1, <1>2 DEF ClaimInv, TypeOK
<1>5. OwnKeys'
    <2>1. \A q \in Receivers : run'[q].pc # "idle" => run[q].pc # "idle" /\ run'[q].key = run[q].key
        BY <1>2 DEF At
    <2>2. \A q \in Receivers : run'[q].pc # "idle" => run'[q].key \in 1..keys'
        BY <2>1 DEF ClaimInv, OwnKeys, At
    <2>3. \A q, s \in Receivers :
            q # s /\ run'[q].pc # "idle" /\ run'[s].pc # "idle" => run'[q].key # run'[s].key
        BY <2>1 DEF ClaimInv, OwnKeys, At
    <2>4. \A j \in Keys : j > keys' => recorded'[j] = 0
        <3>1. keys \in Nat /\ k \in Nat /\ k <= keys
            BY <1>1, ClaimAssumption DEF ClaimInv, TypeOK
        <3>. HIDE DEF k
        <3>2. SUFFICES ASSUME NEW j \in Keys, j > keys PROVE recorded'[j] = 0
            OBVIOUS
        <3>3. j # k
            BY <3>1, <3>2 DEF Keys
        <3>. QED
            BY <3>2, <3>3 DEF ClaimInv, OwnKeys, k
    <2>. QED
        BY <2>2, <2>3, <2>4 DEF OwnKeys, At
<1>6. \A q \in Receivers : SoundRun(run'[q], recorded', verified')
    <2>. SUFFICES ASSUME NEW q \in Receivers \ {p} PROVE SoundRun(run[q], recorded', verified')
        BY <1>2
    <2>1. SoundRun(run[q], recorded, verified)
        BY DEF ClaimInv
    <2>2. CASE At(q, "idle")
        BY <2>2 DEF At, SoundRun
    <2>3. CASE ~At(q, "idle")
        BY <2>1, <2>3, <1>3 DEF SoundRun
    <2>. QED
        BY <2>2, <2>3
<1>7. ConsumedVerified'
    BY <1>1 DEF ClaimInv, ConsumedVerified, Consumed, Keys
<1>8. NothingLeftClaimed'
    <2>. SUFFICES ASSUME NEW j \in Keys, status'[j] = "active", j \notin unreleased'
                  PROVE  \E q \in Receivers : run'[q].pc # "idle" /\ run'[q].key = j
        BY DEF NothingLeftClaimed, Active, At, Keys
    <2>1. CASE j = k
        BY <1>2, <2>1
    <2>2. CASE j # k
        <3>1. PICK q \in Receivers : ~At(q, "idle") /\ run[q].key = j
            BY <2>2 DEF ClaimInv, NothingLeftClaimed, Active
        <3>. QED
            BY <3>1, <2>2, <1>2 DEF At
    <2>. QED
        BY <2>1, <2>2
<1>9. ConsumedTold'
    <2>1. \A j \in Keys : status[j] = "committed" => status'[j] = "committed"
        BY <1>1
    <2>2. told' \subseteq Consumed'
        <3>1. CASE told' = told
            BY <2>1, <3>1 DEF ClaimInv, ConsumedTold, Consumed
        <3>2. CASE told' = told \cup {k} /\ told' # told
            BY <1>1, <2>1, <3>2 DEF ClaimInv, ConsumedTold, Consumed
        <3>. QED
            BY <3>1, <3>2
    <2>3. ASSUME NEW j \in Keys, status'[j] = "committed", j \notin told' \cup unclear'
          PROVE  \E q \in Receivers : run'[q].pc = "commit" /\ run'[q].key = j
        <3>1. told \subseteq told' /\ unclear \subseteq unclear'
            OBVIOUS
        <3>2. CASE j # k
            <4>1. PICK q \in Receivers : At(q, "commit") /\ run[q].key = j
                BY <2>3, <3>1, <3>2 DEF ClaimInv, ConsumedTold, Consumed
            <4>. QED
                BY <4>1, <3>2, <1>2 DEF At
        <3>3. CASE j = k /\ r.pc = "commit"
            BY <1>2, <3>3
        <3>4. CASE j = k /\ status[k] = "committed" /\ ~At(p, "commit")
            <4>1. PICK q \in Receivers : At(q, "commit") /\ run[q].key = k
                BY <1>1, <2>3, <3>1, <3>4 DEF ClaimInv, ConsumedTold, Consumed
            <4>. QED
                BY <4>1, <3>4, <1>3 DEF At
        <3>. QED
            BY <2>3, <3>2, <3>3, <3>4
    <2>. QED
        BY <2>2, <2>3 DEF ConsumedTold, Consumed, At
<1>. QED
    BY <1>4, <1>5, <1>6, <1>7, <1>8, <1>9 DEF ClaimInv

LEMMA InitKeeps == Init => ClaimInv
<1>. SUFFICES ASSUME Init PROVE ClaimInv
    OBVIOUS
<1>1. Idle \in Run /\ Idle.pc = "idle"
    BY IdleMoves
<1>2. TypeOK
    BY <1>1, ClaimAssumption DEF Init, TypeOK
<1>3. \A p \in Receivers : run[p].pc = "idle"
    BY <1>1 DEF Init
<1>4. OwnKeys
    BY <1>3 DEF Init, OwnKeys, At
<1>5. \A p \in Receivers : SoundRun(run[p], recorded, verified)
    BY <1>3 DEF SoundRun
<1>6. ConsumedVerified /\ NothingLeftClaimed /\ ConsumedTold
    BY DEF Init, ConsumedVerified, NothingLeftClaimed, ConsumedTold, Consumed, Active
<1>. QED
    BY <1>2, <1>4, <1>5, <1>6 DEF ClaimInv

\* A command begins with a number that no claim and no other command has.
LEMMA InspectKeeps ==
    ASSUME ClaimInv, NEW p \in Receivers, NEW ow \in Overwrites, Inspect(p, ow)
    PROVE  ClaimInv'
<1>. DEFINE r == [Idle EXCEPT !.pc = "claim", !.key = keys + 1]
<1>1. keys \in Nat /\ keys + 1 \in Keys
    BY ClaimAssumption DEF Inspect, ClaimInv, TypeOK, Keys
<1>2. r \in Run /\ r.pc = "claim" /\ r.key = keys + 1 /\ r.done = 0 /\ r.last = 0
    <2>1. r \in Run
        <3>1. keys + 1 \in Nat
            BY <1>1
        <3>. QED
            BY <3>1, IdleMoves
    <2>. QED
        BY <2>1 DEF Idle
<1>. HIDE DEF r
<1>3. /\ run' \in [Receivers -> Run] /\ run'[p] = r
      /\ \A q \in Receivers \ {p} : run'[q] = run[q]
    BY <1>2 DEF Inspect, Become, r, ClaimInv, TypeOK
<1>4. UNCHANGED <<output, status, recorded, verified, unreleased, told, unclear, faults, expiries>>
    BY DEF Inspect, service, history, reports
<1>5. keys' = keys + 1 /\ keys < MaxRuns
    BY DEF Inspect
<1>6. TypeOK'
    BY <1>1, <1>3, <1>4, <1>5, ClaimAssumption DEF ClaimInv, TypeOK
<1>7. OwnKeys'
    <2>1. \A q \in Receivers : run[q].pc # "idle" => run[q].key \in 1..keys
        BY DEF ClaimInv, OwnKeys, At
    <2>2. \A q \in Receivers : run'[q].pc # "idle" => run'[q].key \in 1..keys'
        BY <1>1, <1>2, <1>3, <1>5, <2>1
    <2>3. \A q, s \in Receivers :
            q # s /\ run'[q].pc # "idle" /\ run'[s].pc # "idle" => run'[q].key # run'[s].key
        <3>1. \A q \in Receivers \ {p} : run'[q].pc # "idle" => run'[q].key # run'[p].key
            BY <1>1, <1>2, <1>3, <2>1
        <3>2. \A q, s \in Receivers \ {p} :
                q # s /\ run'[q].pc # "idle" /\ run'[s].pc # "idle" => run'[q].key # run'[s].key
            BY <1>3 DEF ClaimInv, OwnKeys, At
        <3>. QED
            BY <3>1, <3>2
    <2>4. \A j \in Keys : j > keys' => recorded'[j] = 0
        BY <1>1, <1>4, <1>5 DEF ClaimInv, OwnKeys, Keys
    <2>. QED
        BY <2>2, <2>3, <2>4 DEF OwnKeys, At
<1>8. \A q \in Receivers : SoundRun(run'[q], recorded', verified')
    <2>1. recorded[keys + 1] = 0
        BY <1>1 DEF ClaimInv, OwnKeys
    <2>2. SoundRun(r, recorded, verified)
        BY <1>2, <2>1 DEF SoundRun
    <2>. QED
        BY <1>3, <1>4, <2>2 DEF ClaimInv
<1>9. ConsumedVerified'
    BY <1>4 DEF ClaimInv, ConsumedVerified, Consumed
<1>10. NothingLeftClaimed'
    BY <1>2, <1>3, <1>4 DEF ClaimInv, NothingLeftClaimed, Active, At, Inspect
<1>11. ConsumedTold'
    BY <1>3, <1>4 DEF ClaimInv, ConsumedTold, Consumed, At, Inspect
<1>. QED
    BY <1>6, <1>7, <1>8, <1>9, <1>10, <1>11 DEF ClaimInv

\* How a command's record may move on from a call, from the loop, or to its end.
LEMMA Moves ==
    ASSUME ClaimInv, NEW p \in Receivers, ~At(p, "idle")
    PROVE  /\ \A pc \in PCs : LET r == [run[p] EXCEPT !.pc = pc, !.tries = 0] IN
                /\ r \in Run /\ r.pc = pc /\ r.key = run[p].key
                /\ r.done = run[p].done /\ r.last = run[p].last
           /\ LET r == [run[p] EXCEPT !.tries = 1] IN
                /\ r \in Run /\ r.pc = run[p].pc /\ r.key = run[p].key
                /\ r.done = run[p].done /\ r.last = run[p].last
<1>1. 0 \in 0..1 /\ 1 \in 0..1 /\ TypeOK
    BY DEF ClaimInv
<1>2. /\ \A pc \in PCs : [run[p] EXCEPT !.pc = pc, !.tries = 0] \in Run
      /\ [run[p] EXCEPT !.tries = 1] \in Run
    BY <1>1, RunMoves
<1>3. run[p] \in Run
    BY <1>1, RunFields
<1>. QED
    BY <1>2, <1>3 DEF Run

\* A command that asks once more, or that ends, is sound as before.
LEMMA AgainOrEnd ==
    ASSUME ClaimInv, NEW p \in Receivers, ~At(p, "idle"), NEW rec, NEW ver
    PROVE  /\ SoundRun(run[p], rec, ver) => SoundRun([run[p] EXCEPT !.tries = 1], rec, ver)
           /\ SoundRun(Idle, rec, ver)
           /\ SoundRun([run[p] EXCEPT !.pc = "release", !.tries = 0], rec, ver)
    BY Moves, IdleMoves DEF SoundRun, PCs

\* The claim request: each of its outcomes is a step as OwnStep wants it.
LEMMA ClaimKeeps ==
    ASSUME ClaimInv, NEW p \in Receivers, Claim(p) \/ ClaimFails(p)
    PROVE  ClaimInv'
<1>. DEFINE k == run[p].key
<1>1. At(p, "claim") /\ ~At(p, "idle")
    BY DEF Claim, ClaimFails, At
<1>2. k \in Keys /\ SoundRun(run[p], recorded, verified)
    BY <1>1, OwnKey DEF ClaimInv
<1>3. /\ output' = output /\ recorded' = recorded /\ verified' = verified
      /\ told' = told /\ unclear' = unclear
      /\ keys' = keys /\ expiries' = expiries /\ faults' \in Nat
      /\ status' \in {status, [status EXCEPT ![k] = "active"]}
      /\ status' # status => status[k] # "committed"
    BY DEF Claim, ClaimFails, Again, GiveUp, Fault, ClaimInv, TypeOK, service, reports, Grantable
<1>4. ASSUME NEW r \in Run, Become(p, r), r.pc = "idle" \/ r.key = k,
             SoundRun(r, recorded, verified),
             unreleased' \in {unreleased, unreleased \cup {k}},
             r.pc = "idle" /\ status'[k] = "active" => k \in unreleased'
      PROVE  ClaimInv'
    <2>. HIDE DEF k
    <2>1. /\ status' \in [Keys -> {"free", "active", "released", "expired", "committed"}]
          /\ \A j \in Keys \ {k} : status'[j] = status[j]
          /\ status'[k] = "committed" <=> status[k] = "committed"
        BY <1>2, <1>3 DEF ClaimInv, TypeOK
    <2>2. status'[k] = "committed" => k \in verified'
        BY <1>2, <1>3, <2>1 DEF ClaimInv, ConsumedVerified, Consumed
    <2>. QED
        BY <1>1, <1>3, <1>4, <2>1, <2>2, OwnStep DEF ClaimInv, TypeOK, k, At
<1>5. CASE Goto(p, "open") /\ unreleased' = unreleased
    <2>. DEFINE r == [run[p] EXCEPT !.pc = "open", !.tries = 0]
    <2>1. r \in Run /\ r.pc = "open" /\ r.key = k /\ SoundRun(r, recorded, verified)
        BY <1>1, <1>2, Moves DEF PCs, SoundRun, At
    <2>. QED
        BY <1>4, <1>5, <2>1 DEF Goto
<1>6. CASE Again(p) /\ unreleased' = unreleased
    BY <1>1, <1>2, <1>4, <1>6, Moves, AgainOrEnd DEF Again, At
<1>7. CASE End(p) /\ unreleased' = unreleased \cup {k}
    BY <1>1, <1>4, <1>7, IdleMoves, AgainOrEnd DEF End
<1>8. CASE End(p) /\ unreleased' = unreleased /\ status' = status /\ ~Grantable(k)
    BY <1>1, <1>4, <1>8, IdleMoves, AgainOrEnd DEF End, Grantable
<1>. QED
    BY <1>5, <1>6, <1>7, <1>8 DEF Claim, ClaimFails, service

\* The steps of the download.
LEMMA DownloadKeeps ==
    ASSUME ClaimInv, NEW p \in Receivers,
           Open(p) \/ Receive(p) \/ Renew(p) \/ RenewFails(p) \/ ReceiveFails(p) \/ Install(p)
    PROVE  ClaimInv'
<1>. DEFINE k == run[p].key
<1>1. ~At(p, "idle") /\ k \in Keys /\ SoundRun(run[p], recorded, verified) /\ TypeOK
    <2>1. ~At(p, "idle")
        BY DEF Open, Receive, Renew, RenewFails, ReceiveFails, Install, At
    <2>. QED
        BY <2>1, OwnKey DEF ClaimInv
<1>2. /\ status' = status /\ unreleased' = unreleased /\ keys' = keys /\ expiries' = expiries
      /\ told' = told /\ unclear' = unclear /\ faults' \in Nat /\ ~At(p, "commit")
      /\ output' \in [Receivers -> SUBSET {"partial", "files"}]
    <2>1. output' \in {output, [output EXCEPT ![p] = @ \cup {"partial"}],
                      [output EXCEPT ![p] = @ \ {"partial"}], [output EXCEPT ![p] = {"files"}]}
        BY DEF Open, Receive, Renew, RenewFails, ReceiveFails, Install, Discard
    <2>2. output' \in [Receivers -> SUBSET {"partial", "files"}]
        BY <1>1, <2>1 DEF TypeOK
    <2>3. faults' \in {faults, faults + 1}
        BY DEF Open, Receive, Renew, RenewFails, ReceiveFails, Install, Fault, bounds
    <2>4. faults' \in Nat
        BY <1>1, <2>3 DEF TypeOK
    <2>. QED
        BY <2>2, <2>4
        DEF Open, Receive, Renew, RenewFails, ReceiveFails, Install, service, history, reports,
            bounds, At
<1>3. ASSUME NEW r \in Run, Become(p, r), r.pc # "idle", r.key = k,
             recorded' \in [Keys -> 0..Chunks],
             \A j \in Keys \ {k} : recorded'[j] = recorded[j],
             verified' \in {verified, verified \cup {k}},
             SoundRun(r, recorded', verified')
      PROVE  ClaimInv'
    <2>. HIDE DEF k
    <2>1. status'[k] = "committed" => k \in verified'
        BY <1>1, <1>2, <1>3 DEF ClaimInv, ConsumedVerified, Consumed
    <2>. QED
        BY <1>1, <1>2, <1>3, <2>1, OwnStep DEF TypeOK, k
<1>4. ASSUME Goto(p, "release"), verified' = verified, recorded' \in [Keys -> 0..Chunks],
             \A j \in Keys \ {k} : recorded'[j] = recorded[j]
      PROVE  ClaimInv'
    <2>. DEFINE r == [run[p] EXCEPT !.pc = "release", !.tries = 0]
    <2>1. r \in Run /\ r.pc = "release" /\ r.key = k
        BY <1>1, Moves DEF PCs
    <2>2. SoundRun(r, recorded', verified')
        BY <2>1 DEF SoundRun
    <2>. QED
        BY <1>3, <1>4, <2>1, <2>2 DEF Goto
<1>5. CASE Open(p)
    <2>. DEFINE r == [run[p] EXCEPT !.pc = "download", !.tries = 0]
    <2>1. /\ r \in Run /\ r.pc = "download" /\ r.key = k
          /\ r.done = run[p].done /\ r.last = run[p].last
        BY <1>1, Moves DEF PCs
    <2>2. recorded' = recorded /\ verified' = verified /\ Become(p, r)
        BY <1>5 DEF Open, Goto, service, history
    <2>3. SoundRun(r, recorded', verified')
        BY <1>1, <1>5, <2>1, <2>2 DEF SoundRun, Open, At
    <2>. QED
        BY <1>1, <1>3, <2>1, <2>2, <2>3 DEF TypeOK
<1>6. CASE Receive(p)
    <2>1. PICK renew \in BOOLEAN :
            /\ Due(run[p].done + 1, run[p].last) => renew
            /\ Become(p, [run[p] EXCEPT !.done = @ + 1,
                                        !.pc = IF renew THEN "renew" ELSE "download"])
        BY <1>6 DEF Receive
    <2>. DEFINE pc == IF renew THEN "renew" ELSE "download"
                d == run[p].done + 1
                r == [run[p] EXCEPT !.done = d, !.pc = pc]
    <2>2. d \in 0..Chunks /\ pc \in PCs
        <3>1. run[p].done \in 0..Chunks /\ run[p].done < Chunks
            BY <1>1, <1>6, RunFields DEF Receive
        <3>. QED
            BY <3>1, ClaimAssumption DEF PCs
    <2>3. /\ r \in Run /\ r.pc = pc /\ r.key = k
          /\ r.done = d /\ r.last = run[p].last
        BY <1>1, <2>2, RunMoves, RunFields DEF Run
    <2>4. recorded' = recorded /\ verified' = verified /\ Become(p, r)
        BY <1>6, <2>1 DEF Receive, service, history
    <2>5. SoundRun(r, recorded', verified')
        <3>1. pc = "download" => d # Chunks
            BY <2>1 DEF Due
        <3>. QED
            <4>1. recorded[k] = run[p].last
                BY <1>1, <1>6 DEF SoundRun, Receive, At
            <4>2. r.pc \in {"renew", "download"}
                BY <2>3
            <4>. HIDE DEF r, d
            <4>. QED
                BY <2>3, <2>4, <3>1, <4>1, <4>2 DEF SoundRun
    <2>6. r.pc # "idle"
        BY <2>3
    <2>. HIDE DEF r
    <2>. QED
        BY <1>1, <1>3, <2>3, <2>4, <2>5, <2>6 DEF TypeOK
<1>7. CASE Renew(p)
    <2>. DEFINE r == [run[p] EXCEPT !.pc = "download", !.last = run[p].done]
    <2>1. /\ r \in Run /\ r.pc = "download" /\ r.key = k
          /\ r.done = run[p].done /\ r.last = run[p].done
        <3>1. run[p].done \in 0..Chunks /\ run[p] \in Run /\ "download" \in PCs
            BY <1>1, RunFields DEF PCs
        <3>2. r \in Run
            BY <1>1, <3>1, RunMoves
        <3>. QED
            BY <3>1, <3>2 DEF Run
    <2>2. recorded' = [recorded EXCEPT ![k] = run[p].done] /\ verified' = verified /\ Become(p, r)
        BY <1>7 DEF Renew, history
    <2>3. recorded' \in [Keys -> 0..Chunks] /\ recorded'[k] = run[p].done
        BY <1>1, <2>2, RunFields DEF TypeOK
    <2>4. \A j \in Keys \ {k} : recorded'[j] = recorded[j]
        BY <1>1, <2>2 DEF TypeOK
    <2>5. SoundRun(r, recorded', verified')
        BY <2>1, <2>3 DEF SoundRun
    <2>. HIDE DEF r
    <2>. QED
        BY <1>3, <2>1, <2>2, <2>3, <2>4, <2>5
<1>8. CASE RenewFails(p)
    <2>1. Goto(p, "release") /\ verified' = verified
        BY <1>8 DEF RenewFails, Discard, history
    <2>2. recorded' \in {recorded, [recorded EXCEPT ![k] = run[p].done]}
        BY <1>8 DEF RenewFails
    <2>3. recorded' \in [Keys -> 0..Chunks] /\ \A j \in Keys \ {k} : recorded'[j] = recorded[j]
        BY <1>1, <2>2, RunFields DEF TypeOK
    <2>. QED
        BY <1>4, <2>1, <2>3
<1>9. CASE ReceiveFails(p)
    BY <1>1, <1>4, <1>9 DEF ReceiveFails, Discard, service, history, TypeOK
<1>10. CASE Install(p)
    <2>. DEFINE r == [run[p] EXCEPT !.pc = "commit", !.tries = 0]
    <2>1. r \in Run /\ r.pc = "commit" /\ r.key = k
        BY <1>1, Moves DEF PCs
    <2>2. recorded' = recorded /\ verified' = verified \cup {k} /\ Become(p, r)
        BY <1>10 DEF Install, Goto, service
    <2>3. SoundRun(r, recorded', verified')
        BY <1>1, <1>10, <2>1, <2>2 DEF SoundRun, Install, At
    <2>. HIDE DEF r
    <2>. QED
        BY <1>1, <1>3, <2>1, <2>2, <2>3 DEF TypeOK
<1>. QED
    BY <1>5, <1>6, <1>7, <1>8, <1>9, <1>10

\* The steps that end a command.
LEMMA EndingKeeps ==
    ASSUME ClaimInv, NEW p \in Receivers,
           Commit(p) \/ CommitFails(p) \/ Release(p) \/ Crash(p)
    PROVE  ClaimInv'
<1>. DEFINE k == run[p].key
<1>1. ~At(p, "idle") /\ k \in Keys /\ SoundRun(run[p], recorded, verified) /\ TypeOK
    <2>1. ~At(p, "idle")
        BY DEF Commit, CommitFails, Release, Crash, At
    <2>. QED
        BY <2>1, OwnKey DEF ClaimInv
<1>2. /\ output' = output /\ recorded' = recorded /\ verified' = verified
      /\ keys' = keys /\ expiries' = expiries /\ faults' \in {faults, faults + 1}
    BY DEF Commit, CommitFails, Release, Crash, Again, GiveUp, Fault, service, history
<1>3. faults' \in Nat /\ expiries' \in Nat
    BY <1>1, <1>2 DEF TypeOK
<1>4. ASSUME NEW r \in Run, Become(p, r), r.pc = "idle" \/ r.key = k,
             SoundRun(r, recorded, verified),
             NEW s \in {"released", "committed"},
             status' \in {status, [status EXCEPT ![k] = s]},
             status[k] = "committed" => status'[k] = "committed",
             s = "committed" => k \in verified,
             unreleased' \in {unreleased, unreleased \cup {k}},
             told' \in {told, told \cup {k}}, unclear' \in {unclear, unclear \cup {k}},
             told' # told => status'[k] = "committed",
             status'[k] = "committed" =>
               \/ status[k] = "committed" /\ ~At(p, "commit")
               \/ k \in told' \cup unclear' \/ r.pc = "commit",
             r.pc = "idle" /\ status'[k] = "active" => k \in unreleased'
      PROVE  ClaimInv'
    <2>. HIDE DEF k
    <2>1. /\ status' \in [Keys -> {"free", "active", "released", "expired", "committed"}]
          /\ \A j \in Keys \ {k} : status'[j] = status[j]
          /\ status'[k] \in {status[k], s}
        BY <1>1, <1>4 DEF TypeOK
    <2>2. status'[k] = "committed" => k \in verified'
        BY <1>1, <1>2, <1>4, <2>1 DEF ClaimInv, ConsumedVerified, Consumed
    <2>. QED
        BY <1>1, <1>2, <1>3, <1>4, <2>1, <2>2, OwnStep DEF TypeOK, k
<1>5. CASE Commit(p)
    <2>1. k \in verified /\ status' = [status EXCEPT ![k] = "committed"] /\ status'[k] = "committed"
          /\ unreleased' = unreleased
        BY <1>1, <1>5 DEF Commit, SoundRun, At, TypeOK
    <2>2. CASE End(p) /\ told' = told \cup {k} /\ unclear' = unclear
        BY <1>1, <1>4, <2>1, <2>2, IdleMoves, AgainOrEnd DEF End
    <2>3. CASE Again(p) /\ UNCHANGED reports
        <3>. DEFINE r == [run[p] EXCEPT !.tries = 1]
        <3>1. r \in Run /\ r.pc = "commit" /\ r.key = k
            BY <1>1, <1>5, Moves DEF Commit, At
        <3>2. Become(p, r) /\ told' = told /\ unclear' = unclear
            BY <2>3 DEF Again, reports
        <3>3. SoundRun(r, recorded, verified)
            BY <1>1, AgainOrEnd
        <3>. HIDE DEF r
        <3>. QED
            BY <1>4, <2>1, <3>1, <3>2, <3>3
    <2>4. CASE Goto(p, "release") /\ unclear' = unclear \cup {k} /\ told' = told
        BY <1>1, <1>4, <2>1, <2>4, Moves, AgainOrEnd DEF Goto, PCs
    <2>. QED
        BY <1>5, <2>2, <2>3, <2>4 DEF Commit
<1>6. CASE CommitFails(p)
    <2>1. status' = status /\ unreleased' = unreleased /\ told' = told /\ run[p].pc = "commit"
        BY <1>6 DEF CommitFails, service, At
    <2>2. CASE Again(p) /\ unclear' = unclear
        BY <1>1, <1>4, <2>1, <2>2, Moves, AgainOrEnd DEF Again
    <2>3. CASE Goto(p, "release") /\ unclear' = unclear \cup {k}
        BY <1>1, <1>4, <2>1, <2>3, Moves, AgainOrEnd DEF Goto, PCs
    <2>4. CASE Goto(p, "release") /\ unclear' = unclear /\ ~Committable(k)
        BY <1>1, <1>4, <2>1, <2>4, Moves, AgainOrEnd DEF Goto, PCs, Committable
    <2>. QED
        BY <1>6, <2>2, <2>3, <2>4 DEF CommitFails
<1>7. CASE Release(p)
    <2>1. /\ status' \in {status, [status EXCEPT ![k] = "released"]}
          /\ told' = told /\ unclear' = unclear /\ ~At(p, "commit")
        BY <1>7 DEF Release, TypeOK, ClaimInv, reports, At
    <2>4. status'[k] = "committed" <=> status[k] = "committed"
        BY <1>1, <1>7 DEF Release, TypeOK
    <2>2. status'[k] = "active" => unreleased' = unreleased \cup {k}
        BY <1>1, <1>7 DEF Release, TypeOK
    <2>3. unreleased' \in {unreleased, unreleased \cup {k}}
        BY <1>7 DEF Release
    <2>. QED
        BY <1>1, <1>4, <1>7, <2>1, <2>2, <2>3, <2>4, IdleMoves, AgainOrEnd DEF Release, End
<1>8. CASE Crash(p)
    <2>1. /\ status' = status /\ told' = told /\ unreleased' = unreleased \cup {k} /\ End(p)
          /\ unclear' \in {unclear, unclear \cup {k}} /\ (At(p, "commit") => k \in unclear')
        BY <1>8 DEF Crash, service
    <2>. QED
        BY <1>1, <1>4, <2>1, IdleMoves, AgainOrEnd DEF End
<1>. QED
    BY <1>5, <1>6, <1>7, <1>8

LEMMA ExpireKeeps ==
    ASSUME ClaimInv, NEW k \in Keys, Expire(k)
    PROVE  ClaimInv'
<1>1. UNCHANGED <<run, output, recorded, verified, unreleased, told, unclear, keys, faults>>
    BY DEF Expire, history, reports
<1>2. TypeOK'
    BY <1>1 DEF ClaimInv, TypeOK, Expire
<1>3. \A j \in Keys : \/ status'[j] = status[j]
                      \/ status'[j] = "expired" /\ status[j] = "active"
    BY DEF ClaimInv, TypeOK, Expire
<1>. QED
    BY <1>1, <1>2, <1>3
    DEF ClaimInv, OwnKeys, At, ConsumedVerified, Consumed, NothingLeftClaimed, Active, ConsumedTold

\* The inductive invariant of the claim protocol.
THEOREM ClaimInvariant == Spec => []ClaimInv
<1>1. ClaimInv /\ [Next]_vars => ClaimInv'
    <2>. SUFFICES ASSUME ClaimInv, [Next]_vars PROVE ClaimInv'
        OBVIOUS
    <2>1. CASE UNCHANGED vars
        BY <2>1 DEF vars, service, history, reports, bounds, ClaimInv, TypeOK, OwnKeys, At,
            ConsumedVerified, Consumed, NothingLeftClaimed, Active, ConsumedTold
    <2>2. ASSUME NEW p \in Receivers, Step(p) PROVE ClaimInv'
        BY <2>2, ClaimKeeps, DownloadKeeps, EndingKeeps DEF Step
    <2>. QED
        BY <2>1, <2>2, EndingKeeps, InspectKeeps, ExpireKeeps DEF Next
<1>. QED
    BY <1>1, InitKeeps, PTL DEF Spec

\* Every reachable state has its types.
THEOREM ClaimTypes == Spec => []TypeOK
    BY ClaimInvariant, PTL DEF ClaimInv

\* A limited download is consumed only by a receiver that verified and installed it.
THEOREM ClaimConsumedVerified == Spec => []ConsumedVerified
    BY ClaimInvariant, PTL DEF ClaimInv

\* A commit is asked for only when the service has recorded the whole download.
THEOREM ClaimCommitComplete == Spec => []CommitComplete
<1>1. ClaimInv => CommitComplete
    BY DEF ClaimInv, CommitComplete, SoundRun, At
<1>. QED
    BY <1>1, ClaimInvariant, PTL

\* A claim still active belongs to a running command or was lost by one.
THEOREM ClaimNothingLeft == Spec => []NothingLeftClaimed
    BY ClaimInvariant, PTL DEF ClaimInv

\* A download that was consumed is reported so, and only such a one, unless the commit was left
\* without an answer.
THEOREM ClaimConsumedTold == Spec => []ConsumedTold
    BY ClaimInvariant, PTL DEF ClaimInv

\* How many steps a command can still take.  A claim is asked for twice at most, each chunk is
\* read and renewed for once, a commit is asked for twice at most, a release once.
StepsLeft(p) ==
    LET r == run[p] IN
    CASE r.pc = "claim" -> 2 * Chunks + 8 - r.tries
      [] r.pc = "open" -> 2 * Chunks + 6
      [] r.pc = "download" -> 2 * (Chunks - r.done) + 4
      [] r.pc = "renew" -> 2 * (Chunks - r.done) + 5
      [] r.pc = "commit" -> 3 - r.tries
      [] r.pc = "release" -> 1
      [] r.pc = "idle" -> 0

LEMMA StepsLeftTyped ==
    TypeOK => \A p \in Receivers : /\ StepsLeft(p) \in 0..(2 * Chunks + 8)
                                   /\ ~At(p, "idle") => StepsLeft(p) > 0
<1>. SUFFICES ASSUME TypeOK, NEW p \in Receivers
              PROVE  /\ StepsLeft(p) \in 0..(2 * Chunks + 8)
                     /\ ~At(p, "idle") => StepsLeft(p) > 0
    OBVIOUS
<1>1. /\ run[p].pc \in PCs /\ run[p].tries \in 0..1 /\ run[p].done \in 0..Chunks
      /\ Chunks \in Nat
    BY RunFields, ClaimAssumption
<1>2. StepsLeft(p) \in 0..(2 * Chunks + 8)
    <2>1. CASE run[p].pc = "claim"
        BY <1>1, <2>1 DEF StepsLeft
    <2>2. CASE run[p].pc \in {"open", "release", "idle", "commit"}
        BY <1>1, <2>2 DEF StepsLeft
    <2>3. CASE run[p].pc \in {"download", "renew"}
        BY <1>1, <2>3 DEF StepsLeft
    <2>. QED
        BY <1>1, <2>1, <2>2, <2>3 DEF PCs
<1>3. ~At(p, "idle") => StepsLeft(p) > 0
    <2>1. CASE run[p].pc = "claim"
        BY <1>1, <2>1 DEF StepsLeft
    <2>2. CASE run[p].pc \in {"open", "release", "commit"}
        BY <1>1, <2>2 DEF StepsLeft
    <2>3. CASE run[p].pc \in {"download", "renew"}
        BY <1>1, <2>3 DEF StepsLeft
    <2>. QED
        BY <1>1, <2>1, <2>2, <2>3 DEF PCs, At
<1>. QED
    BY <1>2, <1>3

LEMMA StepsLeftNext ==
    TypeOK' => (\A p \in Receivers : StepsLeft(p) \in Nat)'
<1>1. TypeOK => \A p \in Receivers : StepsLeft(p) \in Nat
    BY StepsLeftTyped, ClaimAssumption
<1>. QED
    BY <1>1, PTL

LEMMA StepShortens ==
    ASSUME TypeOK, NEW p \in Receivers, Step(p)
    PROVE  StepsLeft(p)' < StepsLeft(p)
<1>1. /\ run \in [Receivers -> Run] /\ run[p] \in Run /\ run[p].pc \in PCs
      /\ run[p].tries \in 0..1 /\ run[p].done \in 0..Chunks /\ Chunks \in Nat
    BY RunFields, ClaimAssumption DEF TypeOK
<1>. USE <1>1
<1>2. CASE ~At(p, "idle") /\ (End(p) \/ (Goto(p, "release") /\ ~At(p, "release")))
    <2>1. run'[p].pc = "idle" \/ (run'[p].pc = "release" /\ run[p].pc \notin {"idle", "release"})
        <3>1. CASE End(p)
            BY <3>1 DEF End, Become, Idle
        <3>2. CASE Goto(p, "release") /\ ~At(p, "release")
            BY <1>2, <3>2 DEF Goto, Become, At, Run
        <3>. QED
            BY <1>2, <3>1, <3>2
    <2>2. CASE run'[p].pc = "idle"
        <3>1. StepsLeft(p)' = 0
            BY <2>2 DEF StepsLeft
        <3>. QED
            BY <1>2, <3>1, StepsLeftTyped
    <2>3. CASE run'[p].pc = "release" /\ run[p].pc \notin {"idle", "release"}
        <3>1. StepsLeft(p)' = 1
            BY <2>3 DEF StepsLeft
        <3>2. StepsLeft(p) > 1
            BY <2>3 DEF StepsLeft, PCs
        <3>. QED
            BY <3>1, <3>2
    <2>. QED
        BY <2>1, <2>2, <2>3
<1>3. CASE At(p, "claim") \/ At(p, "commit")
    <2>1. CASE Again(p)
        <3>1. run'[p].pc = run[p].pc /\ run[p].tries = 0 /\ run'[p].tries = 1
            BY <2>1 DEF Again, Become, Run
        <3>. QED
            BY <1>3, <3>1 DEF StepsLeft, At
    <2>2. CASE At(p, "claim") /\ Goto(p, "open")
        <3>1. run'[p].pc = "open"
            BY <2>2 DEF Goto, Become, Run
        <3>. QED
            BY <2>2, <3>1 DEF StepsLeft, At
    <2>. QED
        BY <1>2, <1>3, <2>1, <2>2 DEF Step, Claim, ClaimFails, Open, Receive, Renew, RenewFails,
            ReceiveFails, Install, Commit, CommitFails, Release, At
<1>4. CASE At(p, "open") \/ At(p, "download") \/ At(p, "renew")
    <2>1. CASE Discard(p)
        BY <1>2, <1>4, <2>1 DEF Discard, At
    <2>2. CASE Open(p)
        <3>1. run[p].pc = "open" /\ run'[p].pc = "download" /\ run'[p].done = run[p].done
            BY <2>2 DEF Open, Goto, Become, At, Run
        <3>. QED
            BY <3>1 DEF StepsLeft
    <2>3. CASE Receive(p)
        <3>1. /\ run[p].pc = "download" /\ run[p].done < Chunks
              /\ run'[p].pc \in {"download", "renew"} /\ run'[p].done = run[p].done + 1
            BY <2>3 DEF Receive, Become, At, Run
        <3>. QED
            BY <3>1 DEF StepsLeft
    <2>4. CASE Renew(p)
        <3>1. run[p].pc = "renew" /\ run'[p].pc = "download" /\ run'[p].done = run[p].done
            BY <2>4 DEF Renew, Become, At, Run
        <3>. QED
            BY <3>1 DEF StepsLeft
    <2>5. CASE Install(p)
        <3>1. run[p].pc = "download" /\ run'[p].pc = "commit" /\ run'[p].tries = 0
            BY <2>5 DEF Install, Goto, Become, At, Run
        <3>. QED
            BY <3>1 DEF StepsLeft
    <2>. QED
        BY <1>4, <2>1, <2>2, <2>3, <2>4, <2>5 DEF Step, Claim, ClaimFails, RenewFails,
            ReceiveFails, Commit, CommitFails, Release, At
<1>5. CASE At(p, "release")
    BY <1>2, <1>5 DEF Step, Claim, ClaimFails, Open, Receive, Renew, RenewFails,
        ReceiveFails, Install, Commit, CommitFails, Release, At
<1>. QED
    BY <1>3, <1>4, <1>5 DEF Step, Claim, ClaimFails, Open, Receive, Renew, RenewFails,
        ReceiveFails, Install, Commit, CommitFails, Release, At

\* `transfer receive` is over after at most as many steps as StepsLeft says when it begins,
\* whatever the service refuses, loses or lets expire, and whatever other receivers do: each step
\* leaves fewer, and only a new command has more.
THEOREM ClaimShortens ==
    Spec =>
        /\ [](\A p \in Receivers : /\ StepsLeft(p) \in 0..(2 * Chunks + 8)
                                   /\ ~At(p, "idle") => StepsLeft(p) > 0)
        /\ [][\A p \in Receivers :
                /\ Step(p) => StepsLeft(p)' < StepsLeft(p)
                /\ StepsLeft(p)' <= StepsLeft(p) \/ \E ow \in Overwrites : Inspect(p, ow)]_vars
<1>1. TypeOK => \A p \in Receivers : /\ StepsLeft(p) \in 0..(2 * Chunks + 8)
                                     /\ ~At(p, "idle") => StepsLeft(p) > 0
    BY StepsLeftTyped
<1>2. TypeOK /\ TypeOK' /\ [Next]_vars => \A p \in Receivers :
        /\ Step(p) => StepsLeft(p)' < StepsLeft(p)
        /\ StepsLeft(p)' <= StepsLeft(p) \/ \E ow \in Overwrites : Inspect(p, ow)
    <2>. SUFFICES ASSUME TypeOK, TypeOK', [Next]_vars, NEW p \in Receivers
                  PROVE  /\ Step(p) => StepsLeft(p)' < StepsLeft(p)
                         /\ StepsLeft(p)' <= StepsLeft(p) \/ \E ow \in Overwrites : Inspect(p, ow)
        OBVIOUS
    <2>1. run \in [Receivers -> Run] /\ StepsLeft(p) \in Nat /\ StepsLeft(p)' \in Nat
        BY StepsLeftTyped, StepsLeftNext, ClaimAssumption DEF TypeOK
    <2>2. CASE Step(p)
        BY <2>1, <2>2, StepShortens
    <2>3. CASE run'[p] = run[p] /\ ~Step(p)
        <3>1. StepsLeft(p)' = StepsLeft(p)
            BY <2>3 DEF StepsLeft
        <3>. QED
            BY <2>1, <2>3, <3>1
    <2>4. CASE Crash(p) /\ ~Step(p)
        <3>1. run'[p].pc = "idle"
            BY <2>1, <2>4 DEF Crash, End, Become, Idle
        <3>2. StepsLeft(p)' = 0
            BY <3>1 DEF StepsLeft
        <3>. QED
            BY <2>1, <2>4, <3>2
    <2>5. CASE \E q \in Receivers \ {p} :
                  Step(q) \/ Crash(q) \/ \E ow \in Overwrites : Inspect(q, ow)
        <3>1. run'[p] = run[p]
            BY <2>1, <2>5 DEF Step, Claim, ClaimFails, Open, Receive, Renew, RenewFails,
                ReceiveFails, Install, Commit, CommitFails, Release, Crash, Inspect, End, Goto,
                Again, GiveUp, Discard, Become
        <3>. QED
            BY <2>3, <2>2, <3>1
    <2>6. CASE UNCHANGED vars \/ \E k \in Keys : Expire(k)
        BY <2>3, <2>2, <2>6 DEF vars, Expire
    <2>. QED
        BY <2>2, <2>4, <2>5, <2>6 DEF Next
<1>. QED
    BY <1>1, <1>2, ClaimTypes, PTL DEF Spec
=============================================================================
