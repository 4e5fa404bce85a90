------------------------- MODULE InboxDeliveryProofs -------------------------
(* Theorems about InboxDelivery, for every set of processes, directories and  *)
(* commands and every bound.                                                  *)
EXTENDS InboxDelivery, TLAPS

LEMMA SubmissionIsReceipt ==
    ASSUME NEW f \in Flows, NEW s \in Sequence, NEW i \in Nat
    PROVE  Submission(f, s, i) \in Receipt
  BY DEF Submission, TypeAt, Receipt, ReceiptTypes, Flows, Sequence

LEMMA IdleIsRun == NoSeq \in Sequence /\ Idle \in Run
  BY DEF NoSeq, Sequence, None, NoDir, Idle, Run, PCs, Flows, WellFormed

\* The fields of a run, for the solvers.
LEMMA RunFields ==
    ASSUME TypeOK, NEW p \in Procs
    PROVE  /\ run[p] \in Run
           /\ run[p].pc \in PCs /\ run[p].flow \in Flows
           /\ run[p].dir \in Dirs \cup {NoDir} /\ run[p].ow \in BOOLEAN
           /\ run[p].key \in Nat /\ run[p].tries \in 0..2 /\ run[p].seq \in Sequence
           /\ WellFormed(run[p])
  BY DEF TypeOK, Run

\* Moving one run to another step, or ending it, keeps the type of run.
LEMMA StopTyped ==
    ASSUME TypeOK, NEW p \in Procs, Stop(p)
    PROVE  run' \in [Procs -> Run]
  BY IdleIsRun DEF Stop, TypeOK

LEMMA GotoTyped ==
    ASSUME TypeOK, NEW p \in Procs, NEW pc \in PCs, Goto(p, pc),
           WellFormed([run[p] EXCEPT !.pc = pc])
    PROVE  run' \in [Procs -> Run]
<1>1. [run[p] EXCEPT !.pc = pc] \in Run
  BY RunFields DEF Run
<1>2. run' = [run EXCEPT ![p] = [run[p] EXCEPT !.pc = pc]]
  BY DEF Goto
<1> QED BY <1>1, <1>2 DEF TypeOK

\* Every variable keeps its type, and every run is where its command allows.
THEOREM TypeCorrect == Spec => []TypeOK
<1> USE ConstantsAssumption
<1>1. Init => TypeOK
  BY IdleIsRun DEF Init, TypeOK, None, NoSeq, Length, Flows
<1>2. TypeOK /\ [Next]_vars => TypeOK'
  <2> SUFFICES ASSUME TypeOK, [Next]_vars PROVE TypeOK'
    OBVIOUS
  <2> USE DEF disk, service, history, supply, bounds
  <2>1. ASSUME NEW p \in Procs, Starting(p) PROVE TypeOK'
    <3>1. ASSUME NEW f \in Commands, NEW d \in Dirs \cup {NoDir}, NEW ow \in Overwrites,
                 StartClaiming(p, f, d, ow)
          PROVE  TypeOK'
      <4> DEFINE r == [Idle EXCEPT !.pc = "load", !.flow = f, !.dir = d, !.ow = ow]
      <4>0. WellFormed(r)
        BY <3>1 DEF Idle, WellFormed, StartClaiming
      <4>1. r \in Run
        BY <4>0, IdleIsRun DEF Idle, Run, PCs, None
      <4>2. run' = [run EXCEPT ![p] = r]
        BY <3>1 DEF StartClaiming
      <4> HIDE DEF r
      <4>3. run' \in [Procs -> Run]
        BY <4>1, <4>2 DEF TypeOK
      <4> QED BY <3>1, <4>3 DEF StartClaiming, TypeOK
    <3>2. CASE StartProcessed(p)
      <4> DEFINE r == [Idle EXCEPT !.pc = "loadseq", !.flow = "processed", !.key = context]
      <4>0. WellFormed(r)
        BY <3>2 DEF Idle, WellFormed, StartProcessed
      <4>1. r \in Run
        BY <4>0, IdleIsRun DEF Idle, Run, PCs, None, Flows, TypeOK
      <4>2. run' = [run EXCEPT ![p] = r]
        BY <3>2 DEF StartProcessed
      <4> HIDE DEF r
      <4>3. run' \in [Procs -> Run]
        BY <4>1, <4>2 DEF TypeOK
      <4> QED BY <3>2, <4>3 DEF StartProcessed, TypeOK
    <3> QED BY <2>1, <3>1, <3>2 DEF Starting
  <2>2. ASSUME NEW p \in Procs, Claiming(p) PROVE TypeOK'
    <3> USE RunFields
    <3>1. CASE LoadClaim(p)
      <4>1. ASSUME NEW k \in Nat \ {None}, NEW pc \in {"claim", "saveclaim"},
                   run' = [run EXCEPT ![p].pc = pc, ![p].key = k], At(p, "load")
            PROVE  run' \in [Procs -> Run]
        <5> DEFINE r == [run[p] EXCEPT !.pc = pc, !.key = k]
        <5>1. r \in Run BY <4>1 DEF Run, PCs, WellFormed, At
        <5>2. run' = [run EXCEPT ![p] = r] BY <4>1
        <5> HIDE DEF r
        <5> QED BY <5>1, <5>2 DEF TypeOK
      <4> QED BY <3>1, <4>1 DEF LoadClaim, TypeOK, None
    <3>2. CASE SaveClaim(p)
      <4>1. CASE ~(run[p].tries < 2)
        BY <3>2, <4>1, StopTyped DEF SaveClaim, TypeOK
      <4>2. CASE run[p].tries < 2
        <5>1. WellFormed([run[p] EXCEPT !.pc = "claim"])
          BY <3>2, <4>2 DEF WellFormed, SaveClaim, At, Run
        <5>2. run' \in [Procs -> Run]
          BY <3>2, <4>2, <5>1, GotoTyped DEF PCs, SaveClaim
        <5> QED BY <3>2, <5>2 DEF SaveClaim, TypeOK
      <4> QED BY <3>2, <4>1, <4>2 DEF SaveClaim
    <3>3. CASE Claim(p)
      <4>1. ASSUME NEW pc \in {"recover", "loadseq", "dropclaim"}, Goto(p, pc),
                   pc = "recover" => run[p].flow = "receive"
            PROVE  run' \in [Procs -> Run]
        <5>1. WellFormed([run[p] EXCEPT !.pc = pc])
          BY <3>3, <4>1 DEF WellFormed, Claim, At, Run
        <5> QED BY <4>1, <5>1, GotoTyped DEF PCs
      <4>2. run' \in [Procs -> Run] BY <3>3, <4>1 DEF Claim
      <4>3. granted' \subseteq Nat /\ live' \in Nat
        <5>1. run[p].key \in Nat OBVIOUS
        <5> QED BY <3>3, <5>1 DEF Claim, Grant, TypeOK
      <4> QED BY <3>3, <4>2, <4>3 DEF Claim, TypeOK
    <3>4. CASE ClaimResponseLost(p)
      <4>1. run' \in [Procs -> Run] BY <3>4, StopTyped DEF ClaimResponseLost
      <4>2. granted' \subseteq Nat /\ live' \in Nat
        <5>1. run[p].key \in Nat OBVIOUS
        <5> QED BY <3>4, <5>1 DEF ClaimResponseLost, Grant, TypeOK
      <4> QED BY <3>4, <4>1, <4>2 DEF ClaimResponseLost, TypeOK
    <3>5. CASE ClaimRefused(p) BY <3>5, StopTyped DEF ClaimRefused, TypeOK
    <3>6. CASE DropClaim(p)
      <4> DEFINE r == [run[p] EXCEPT !.pc = "saveclaim", !.key = keys + 1,
                                     !.tries = run[p].tries + 1]
      <4>0. run[p].tries + 1 \in 0..2
        BY <3>6 DEF DropClaim, WellFormed, At
      <4>1. r \in Run BY <3>6, <4>0 DEF Run, PCs, WellFormed, At, DropClaim, TypeOK, None
      <4>2. run' = [run EXCEPT ![p] = r] BY <3>6 DEF DropClaim
      <4> HIDE DEF r
      <4>3. run' \in [Procs -> Run] BY <4>1, <4>2 DEF TypeOK
      <4> QED BY <3>6, <4>3 DEF DropClaim, None, TypeOK
    <3> QED BY <2>2, <3>1, <3>2, <3>3, <3>4, <3>5, <3>6 DEF Claiming
  <2>3. ASSUME NEW p \in Procs, Receiving(p) PROVE TypeOK'
    <3> USE RunFields
    <3>0. ASSUME NEW pc \in PCs, Goto(p, pc), run[p].flow = "receive",
                 run[p].pc \in {"recover", "download", "renew", "install"},
                 pc \in {"download", "renew", "install", "loadseq", "mismatch"}
          PROVE  run' \in [Procs -> Run]
      <4>1. WellFormed([run[p] EXCEPT !.pc = pc])
        BY <3>0 DEF WellFormed, Run
      <4> QED BY <3>0, <4>1, GotoTyped
    <3>a. run[p].pc \in {"recover", "download", "renew", "install"}
             => run[p].flow = "receive" /\ run[p].dir \in Dirs
      BY DEF WellFormed
    <3>1. CASE Recover(p)
      <4> DEFINE s == pseq["receive"]
                 used == s # NoSeq /\ Matches(s, run[p].key, run[p].dir)
      <4>1. CASE ~used
        <5>1. run' \in [Procs -> Run] BY <3>0, <3>a, <3>1, <4>1 DEF Recover, At, PCs
        <5> QED BY <3>1, <5>1 DEF Recover, TypeOK
      <4>2. CASE used
        <5> DEFINE q == [s EXCEPT !.next = 0]
                   r == [run[p] EXCEPT !.pc = "loadseq", !.seq = q]
        <5>1. q \in Sequence /\ q.next = 0 /\ Matches(q, run[p].key, run[p].dir)
          BY <4>2 DEF TypeOK, Sequence, Flows, Matches
        <5>2. run' = [run EXCEPT ![p].pc = "loadseq", ![p].seq = q]
          BY <3>1, <4>2 DEF Recover
        <5> HIDE DEF q
        <5>3. run' = [run EXCEPT ![p] = r] BY <5>2
        <5>4. WellFormed(r)
          BY <3>1, <5>1, <3>a DEF Recover, At, WellFormed, Run
        <5>5. r \in Run BY <5>1, <5>4 DEF Run, PCs
        <5> HIDE DEF r
        <5>6. run' \in [Procs -> Run] BY <5>3, <5>5 DEF TypeOK
        <5> QED BY <3>1, <5>6 DEF Recover, TypeOK
      <4> QED BY <4>1, <4>2
    <3>2. CASE Download(p)
      <4>1. run' \in [Procs -> Run] BY <3>0, <3>a, <3>2 DEF Download, At, PCs
      <4> QED BY <3>2, <3>a, <4>1 DEF Download, TypeOK, At
    <3>3. CASE DownloadRefused(p) BY <3>3, StopTyped DEF DownloadRefused, TypeOK
    <3>4. CASE Renew(p)
      <4>1. run' \in [Procs -> Run] BY <3>0, <3>a, <3>4, StopTyped DEF Renew, At, PCs
      <4> QED BY <3>4, <4>1 DEF Renew, TypeOK
    <3>5. CASE Install(p)
      <4>1. run' \in [Procs -> Run] BY <3>0, <3>a, <3>5 DEF Install, At, PCs
      <4> QED BY <3>5, <3>a, <4>1 DEF Install, TypeOK, At
    <3> QED BY <2>3, <3>1, <3>2, <3>3, <3>4, <3>5 DEF Receiving
  <2>4. ASSUME NEW p \in Procs, Submitting(p) PROVE TypeOK'
    <3> USE RunFields
    <3>0. Length(run[p].flow) \in 1..2 BY DEF Length
    <3>1. CASE LoadSeq(p)
      <4> DEFINE s == pseq[run[p].flow]
                 used == Matches(s, run[p].key, run[p].dir)
      <4>1. CASE s # NoSeq /\ ~used
        <5>1. WellFormed([run[p] EXCEPT !.pc = "mismatch"])
          BY <3>1 DEF WellFormed, Run, LoadSeq, At
        <5> QED BY <3>1, <4>1, <5>1, GotoTyped DEF LoadSeq, TypeOK, PCs
      <4>2. ASSUME NEW q \in Sequence, NEW pc \in {"saveseq", "submit", "context", "unseq"},
                   q # NoSeq, Matches(q, run[p].key, run[p].dir), At(p, "loadseq"),
                   pc \in {"saveseq", "submit"} => q.next < Length(run[p].flow),
                   pc \in {"context", "unseq"} => q.next = Length(run[p].flow),
                   pc = "context" => run[p].flow = "receive",
                   run' = [run EXCEPT ![p].pc = pc, ![p].seq = q]
            PROVE  run' \in [Procs -> Run]
        <5> DEFINE r == [run[p] EXCEPT !.pc = pc, !.seq = q]
        <5>1. r \in Run BY <4>2 DEF Run, PCs, WellFormed, At
        <5>2. run' = [run EXCEPT ![p] = r] BY <4>2
        <5> HIDE DEF r
        <5> QED BY <5>1, <5>2 DEF TypeOK
      <4>3. CASE s = NoSeq
        <5> DEFINE new == Requested(run[p])
        <5>1. /\ new \in Sequence /\ new # NoSeq /\ new.next = 0
              /\ Matches(new, run[p].key, run[p].dir)
          <6>1. CASE run[p].seq = NoSeq
            BY <6>1 DEF Requested, Sequence, NoSeq, Matches, TypeOK
          <6>2. CASE run[p].seq # NoSeq
            BY <3>1, <6>2 DEF Requested, LoadSeq, At, WellFormed
          <6> QED BY <6>1, <6>2
        <5>0. new.next < Length(run[p].flow) BY <3>0, <5>1
        <5>2. /\ At(p, "loadseq")
              /\ run' = [run EXCEPT ![p].pc = "saveseq", ![p].seq = new]
              /\ ids' \in {ids, ids + Length(run[p].flow)}
              /\ UNCHANGED <<disk, service, history, keys, bounds>>
          BY <3>1, <4>3 DEF LoadSeq
        <5> HIDE DEF new
        <5>3. run' \in [Procs -> Run] BY <5>0, <5>1, <5>2, <4>2
        <5> QED BY <5>2, <5>3, <3>0 DEF TypeOK
      <4>4. CASE s # NoSeq /\ used
        <5> DEFINE pc == IF s.next = Length(run[p].flow) THEN After(run[p].flow) ELSE "submit"
        <5>1. s \in Sequence /\ s # NoSeq /\ s.next <= Length(run[p].flow) /\ s.next \in Nat
          BY <4>4 DEF TypeOK, Sequence
        <5>2. /\ At(p, "loadseq")
              /\ run' = [run EXCEPT ![p].pc = pc, ![p].seq = s]
              /\ Matches(s, run[p].key, run[p].dir)
              /\ UNCHANGED <<disk, service, history, supply, bounds>>
          BY <3>1, <4>4 DEF LoadSeq
        <5>3. /\ pc \in {"saveseq", "submit", "context", "unseq"}
              /\ pc \in {"saveseq", "submit"} => s.next < Length(run[p].flow)
              /\ pc \in {"context", "unseq"} => s.next = Length(run[p].flow)
              /\ pc = "context" => run[p].flow = "receive"
          BY <5>1, <3>0 DEF After
        <5> HIDE DEF s, pc
        <5>4. run' \in [Procs -> Run] BY <5>1, <5>2, <5>3, <4>2
        <5> QED BY <5>2, <5>4 DEF TypeOK
      <4> QED BY <4>1, <4>3, <4>4
    <3>2. CASE SaveSeq(p)
      <4>1. WellFormed([run[p] EXCEPT !.pc = "submit"])
        BY <3>2, <3>0 DEF WellFormed, Run, SaveSeq, At
      <4>2. run' \in [Procs -> Run] BY <3>2, <4>1, GotoTyped DEF SaveSeq, PCs
      <4>3. run[p].seq \in Sequence /\ run[p].seq.next <= Length(run[p].flow)
        BY <3>2, <3>0 DEF SaveSeq, At, WellFormed, Sequence
      <4> QED BY <3>2, <4>2, <4>3 DEF SaveSeq, TypeOK
    <3>3. Current(p) \in Receipt
      BY SubmissionIsReceipt DEF Current, Sequence
    <3>4. CASE Submit(p)
      <4>1. CASE Stop(p) BY <3>3, <3>4, <4>1, StopTyped DEF Submit, TypeOK
      <4>2. CASE ~Stop(p)
        <5> DEFINE r == [run[p] EXCEPT !.pc = "saveprog", !.seq.next = @ + 1]
        <5>1. run[p].seq.next \in Nat /\ run[p].seq.next < Length(run[p].flow)
          BY <3>4 DEF Submit, At, WellFormed, Sequence
        <5>2. r.seq = [run[p].seq EXCEPT !.next = run[p].seq.next + 1]
          BY DEF Run
        <5>3. r.seq \in Sequence /\ r.seq # NoSeq /\ r.seq.next \in 1..Length(r.flow)
          BY <5>1, <5>2, <3>0 DEF Sequence, NoSeq, Run
        <5>4. Matches(r.seq, r.key, r.dir)
          BY <3>4, <5>2 DEF Submit, At, WellFormed, Matches, Sequence, Run
        <5>5. r \in Run
          BY <3>4, <5>3, <5>4 DEF Submit, At, WellFormed, Run, PCs
        <5>6. run' = [run EXCEPT ![p] = r] BY <3>4, <4>2 DEF Submit
        <5> HIDE DEF r
        <5>7. run' \in [Procs -> Run] BY <5>5, <5>6 DEF TypeOK
        <5> QED BY <3>3, <3>4, <5>7 DEF Submit, TypeOK
      <4> QED BY <4>1, <4>2
    <3>5. CASE ReceiptResponseLost(p)
      BY <3>3, <3>5, StopTyped DEF ReceiptResponseLost, TypeOK
    <3>6. CASE SaveProgress(p)
      <4>0. run[p].seq.next \in Nat /\ run[p].seq.next <= Length(run[p].flow)
        BY <3>6, <3>0 DEF SaveProgress, At, WellFormed
      <4>1. ASSUME NEW pc \in {"submit", "context", "unseq"}, Goto(p, pc),
                   pc = "submit" => run[p].seq.next < Length(run[p].flow),
                   pc # "submit" => run[p].seq.next = Length(run[p].flow),
                   pc = "context" => run[p].flow = "receive"
            PROVE  run' \in [Procs -> Run]
        <5>1. WellFormed([run[p] EXCEPT !.pc = pc])
          BY <3>6, <4>1 DEF WellFormed, Run, SaveProgress, At
        <5> QED BY <4>1, <5>1, GotoTyped DEF PCs
      <4>2. run' \in [Procs -> Run]
        BY <3>6, <4>0, <4>1, <3>0 DEF SaveProgress, After
      <4> QED BY <3>6, <4>0, <4>2 DEF SaveProgress, TypeOK
    <3> QED BY <2>4, <3>1, <3>2, <3>4, <3>5, <3>6 DEF Submitting
  <2>5. ASSUME NEW p \in Procs, Finishing(p) PROVE TypeOK'
    <3> USE RunFields, IdleIsRun
    <3>1. CASE SaveContext(p)
      <4>1. WellFormed([run[p] EXCEPT !.pc = "unclaim"])
        BY <3>1 DEF WellFormed, Run, SaveContext, At
      <4>2. run' \in [Procs -> Run] BY <3>1, <4>1, GotoTyped DEF SaveContext, PCs
      <4>3. run[p].seq.claim \in Nat BY DEF Sequence
      <4> QED BY <3>1, <4>2, <4>3 DEF SaveContext, TypeOK
    <3>2. CASE RemoveClaim(p)
      <4>1. WellFormed([run[p] EXCEPT !.pc = "unseq"])
        BY <3>2 DEF WellFormed, Run, RemoveClaim, At
      <4>2. run' \in [Procs -> Run]
        BY <3>2, <4>1, GotoTyped, StopTyped DEF RemoveClaim, PCs
      <4> QED BY <3>2, <4>2 DEF RemoveClaim, TypeOK, None
    <3>3. CASE RemoveSeq(p)
      <4>1. WellFormed([run[p] EXCEPT !.pc = "unclaim"])
        BY <3>3 DEF WellFormed, Run, RemoveSeq, At
      <4>2. run' \in [Procs -> Run]
        BY <3>3, <4>1, GotoTyped, StopTyped DEF RemoveSeq, PCs
      <4> QED BY <3>3, <4>2 DEF RemoveSeq, TypeOK, NoSeq, Length
    <3>4. CASE ReportMismatch(p) BY <3>4, StopTyped DEF ReportMismatch, TypeOK
    <3> QED BY <2>5, <3>1, <3>2, <3>3, <3>4 DEF Finishing
  <2>6. ASSUME NEW p \in Procs, Abort(p) PROVE TypeOK'
    BY <2>6, StopTyped DEF Abort, TypeOK
  <2>7. ASSUME NEW p \in Procs, Crash(p) PROVE TypeOK'
    BY <2>7, StopTyped DEF Crash, TypeOK
  <2>8. ASSUME NEW d \in Dirs, Tidy(d) PROVE TypeOK'
    BY <2>8 DEF Tidy, TypeOK
  <2>9. CASE LeaseExpires
    BY <2>9 DEF LeaseExpires, None, TypeOK
  <2>10. CASE UNCHANGED vars
    BY <2>10 DEF vars, TypeOK
  <2> QED BY <2>1, <2>2, <2>3, <2>4, <2>5, <2>6, <2>7, <2>8, <2>9, <2>10 DEF Next
<1> QED BY <1>1, <1>2, PTL DEF Spec

-----------------------------------------------------------------------------
(***************************************************************************)
(* The safety argument.  What a sequence promises (files in place, earlier *)
(* receipts held by the service) holds of every sequence on disk and of    *)
(* every sequence a run works from, so it holds whichever of the two the   *)
(* next receipt is taken from.                                             *)
(***************************************************************************)
Holds(type, c) == \E r \in accepted : r.type = type /\ r.claim = c

SeqSound(f, s) ==
    /\ f = "receive" => /\ s.dir \in files
                        /\ s.next >= 1 => Holds("downloaded", s.claim)
                        /\ s.next >= 2 => Holds("verified", s.claim)
    /\ f = "processed" => context # None /\ Holds("verified", s.claim)

Working == {"saveseq", "submit", "saveprog", "context", "unclaim", "unseq"}

RunSound(p) ==
    /\ run[p].pc \in Working => SeqSound(run[p].flow, run[p].seq)
    /\ run[p].pc = "loadseq" =>
         /\ run[p].flow = "receive" => run[p].dir \in files
         /\ run[p].flow = "processed" => context # None /\ Holds("verified", run[p].key)

SafetyInv ==
    /\ \A f \in Flows : pseq[f] # NoSeq => SeqSound(f, pseq[f])
    /\ \A p \in Procs : RunSound(p)
    /\ context # None => Holds("verified", context)
    /\ \A r \in sent :
         /\ r.type \in {"downloaded", "verified"} => files # {}
         /\ r.type = "verified" => Holds("downloaded", r.claim)
         /\ r.type = "processed" => Holds("verified", r.claim)

\* What no step takes back.
Grows ==
    /\ accepted \subseteq accepted'
    /\ files \subseteq files'
    /\ context # None => context' # None

\* The step of one process leaves the runs of the others alone.
OnlyRun(p) == \A q \in Procs \ {p} : run'[q] = run[q]

LEMMA SoundStable ==
    ASSUME Grows, NEW f, NEW s, SeqSound(f, s)
    PROVE  SeqSound(f, s)'
  BY DEF Grows, SeqSound, Holds

LEMMA OthersSound ==
    ASSUME SafetyInv, Grows, NEW p \in Procs, OnlyRun(p), RunSound(p)'
    PROVE  \A q \in Procs : RunSound(q)'
<1> SUFFICES ASSUME NEW q \in Procs \ {p} PROVE RunSound(q)'
  OBVIOUS
<1>1. RunSound(q) /\ run'[q] = run[q]
  BY DEF SafetyInv, OnlyRun
<1> QED BY <1>1 DEF RunSound, SeqSound, Holds, Grows

\* Steps that touch neither a stored sequence, nor a sent receipt, nor the context.
LEMMA QuietStep ==
    ASSUME SafetyInv, Grows, UNCHANGED <<pseq, sent, context>>,
           \A q \in Procs : RunSound(q)'
    PROVE  SafetyInv'
  BY DEF SafetyInv, SeqSound, Holds, Grows

LEMMA StopOnly ==
    ASSUME TypeOK, NEW p \in Procs, Stop(p)
    PROVE  OnlyRun(p) /\ RunSound(p)'
  BY DEF Stop, OnlyRun, RunSound, Idle, Working, TypeOK

LEMMA GotoOnly ==
    ASSUME TypeOK, NEW p \in Procs, NEW pc, Goto(p, pc)
    PROVE  /\ OnlyRun(p)
           /\ run'[p].pc = pc /\ run'[p].flow = run[p].flow /\ run'[p].dir = run[p].dir
           /\ run'[p].key = run[p].key /\ run'[p].seq = run[p].seq
  BY DEF Goto, OnlyRun, TypeOK, Run

LEMMA ClaimingSafe ==
    ASSUME TypeOK, SafetyInv, NEW p \in Procs, Claiming(p)
    PROVE  SafetyInv'
<1> USE DEF disk, service, history, supply, bounds
<1>1. Grows /\ UNCHANGED <<pseq, sent, context>>
  BY DEF Grows, Claiming, LoadClaim, SaveClaim, Claim, ClaimResponseLost, ClaimRefused,
         DropClaim
<1>2. OnlyRun(p) /\ RunSound(p)'
  <2> USE DEF Working
  <2>1. CASE LoadClaim(p)
    <3>1. OnlyRun(p) BY <2>1 DEF LoadClaim, OnlyRun, TypeOK
    <3>2. run'[p].pc \in {"claim", "saveclaim"}
      BY <2>1 DEF LoadClaim, TypeOK, Run
    <3> QED BY <3>1, <3>2 DEF RunSound
  <2>2. CASE SaveClaim(p)
    BY <2>2, StopOnly, GotoOnly DEF SaveClaim, RunSound
  <2>3. CASE Claim(p)
    <3>1. run[p].flow # "processed"
      BY <2>3, RunFields DEF Claim, WellFormed, At
    <3> QED BY <2>3, <3>1, GotoOnly DEF Claim, RunSound
  <2>4. CASE ClaimResponseLost(p) BY <2>4, StopOnly DEF ClaimResponseLost
  <2>5. CASE ClaimRefused(p) BY <2>5, StopOnly DEF ClaimRefused
  <2>6. CASE DropClaim(p)
    BY <2>6, RunFields DEF DropClaim, OnlyRun, RunSound, TypeOK
  <2> QED BY <2>1, <2>2, <2>3, <2>4, <2>5, <2>6 DEF Claiming
<1> QED BY <1>1, <1>2, OthersSound, QuietStep

LEMMA ReceivingSafe ==
    ASSUME TypeOK, SafetyInv, NEW p \in Procs, Receiving(p)
    PROVE  SafetyInv'
<1> USE DEF disk, service, history, supply, bounds
<1>1. Grows /\ UNCHANGED <<pseq, sent, context>>
  BY DEF Grows, Receiving, Recover, Download, DownloadRefused, Renew, Install
<1>2. OnlyRun(p) /\ RunSound(p)'
  <2> USE DEF Working
  <2>1. CASE Recover(p)
    <3>1. CASE pseq["receive"] # NoSeq /\ Matches(pseq["receive"], run[p].key, run[p].dir)
      <4>1. PICK q : run' = [run EXCEPT ![p].pc = "loadseq", ![p].seq = q]
        BY <2>1, <3>1 DEF Recover
      <4>2. run[p].flow = "receive" BY <2>1, RunFields DEF Recover, At, WellFormed
      <4>3. run[p].dir \in files
        BY <3>1 DEF SafetyInv, SeqSound, Matches, Flows
      <4>4. /\ OnlyRun(p) /\ run'[p].pc = "loadseq" /\ run'[p].flow = "receive"
            /\ run'[p].dir = run[p].dir
        BY <4>1, <4>2 DEF OnlyRun, TypeOK, Run
      <4> QED BY <1>1, <4>3, <4>4 DEF RunSound, Grows
    <3>2. CASE ~(pseq["receive"] # NoSeq /\ Matches(pseq["receive"], run[p].key, run[p].dir))
      BY <2>1, <3>2, GotoOnly DEF Recover, RunSound
    <3> QED BY <3>1, <3>2
  <2>2. CASE Download(p) BY <2>2, GotoOnly DEF Download, RunSound
  <2>3. CASE DownloadRefused(p) BY <2>3, StopOnly DEF DownloadRefused
  <2>4. CASE Renew(p) BY <2>4, StopOnly, GotoOnly DEF Renew, RunSound
  <2>5. CASE Install(p)
    <3>1. run[p].flow = "receive" BY <2>5, RunFields DEF Install, At, WellFormed
    <3> QED BY <2>5, <3>1, GotoOnly DEF Install, RunSound
  <2> QED BY <2>1, <2>2, <2>3, <2>4, <2>5 DEF Receiving
<1> QED BY <1>1, <1>2, OthersSound, QuietStep

LEMMA SubmittingSafe ==
    ASSUME TypeOK, SafetyInv, NEW p \in Procs, Submitting(p)
    PROVE  SafetyInv'
<1> USE RunFields DEF disk, service, history, supply, bounds
<1>1. Grows /\ UNCHANGED context
  BY DEF Grows, Submitting, LoadSeq, SaveSeq, Submit, ReceiptResponseLost, SaveProgress
\* A run that picks up sequence s, sound for its flow, is sound.
<1>2. ASSUME NEW f, NEW s, SeqSound(f, s), OnlyRun(p), run'[p].pc \in Working,
             run'[p].flow = f, run'[p].seq = s
      PROVE  \A q \in Procs : RunSound(q)'
  <2>1. SeqSound(f, s)' BY <1>1, <1>2, SoundStable
  <2>2. RunSound(p)' BY <1>2, <2>1 DEF RunSound, Working
  <2> QED BY <1>1, <1>2, <2>2, OthersSound
<1>3. CASE LoadSeq(p)
  <2>1. UNCHANGED <<pseq, sent>> BY <1>3 DEF LoadSeq
  <2>2. RunSound(p) /\ run[p].pc = "loadseq" BY <1>3 DEF LoadSeq, At, SafetyInv
  <2>3. PICK f, s : f = run[p].flow /\ s = pseq[f]
    OBVIOUS
  <2>4. CASE s = NoSeq
    <3>1. PICK new : new = Requested(run[p])
      OBVIOUS
    <3>0. new.dir = run[p].dir /\ new.claim = run[p].key /\ new.next = 0
      BY <1>3, <3>1 DEF Requested, LoadSeq, At, WellFormed, Matches
    <3>2. run' = [run EXCEPT ![p].pc = "saveseq", ![p].seq = new]
      BY <1>3, <2>3, <2>4, <3>1 DEF LoadSeq
    <3>3. OnlyRun(p) /\ run'[p].pc = "saveseq" /\ run'[p].flow = f /\ run'[p].seq = new
      BY <2>3, <3>2 DEF OnlyRun, TypeOK, Run
    <3>4. SeqSound(f, new)
      BY <2>2, <2>3, <3>0 DEF RunSound, SeqSound
    <3>5. \A q \in Procs : RunSound(q)' BY <1>2, <3>3, <3>4 DEF Working
    <3> QED BY <1>1, <2>1, <3>5, QuietStep
  <2>5. CASE s # NoSeq /\ Matches(s, run[p].key, run[p].dir)
    <3>1. PICK pc \in {"submit", "context", "unseq"} :
             run' = [run EXCEPT ![p].seq = s, ![p].pc = pc]
      BY <1>3, <2>3, <2>5 DEF LoadSeq, After
    <3>2. OnlyRun(p) /\ run'[p].pc \in Working /\ run'[p].flow = f /\ run'[p].seq = s
      BY <2>3, <3>1 DEF OnlyRun, TypeOK, Run, Working
    <3>3. SeqSound(f, s) BY <2>3, <2>5 DEF SafetyInv
    <3>4. \A q \in Procs : RunSound(q)' BY <1>2, <3>2, <3>3
    <3> QED BY <1>1, <2>1, <3>4, QuietStep
  <2>6. CASE s # NoSeq /\ ~Matches(s, run[p].key, run[p].dir)
    <3>1. Goto(p, "mismatch") BY <1>3, <2>3, <2>6 DEF LoadSeq
    <3>2. OnlyRun(p) /\ RunSound(p)' BY <3>1, GotoOnly DEF RunSound, Working
    <3> QED BY <1>1, <2>1, <3>2, OthersSound, QuietStep
  <2> QED BY <2>4, <2>5, <2>6
\* Storing the sequence a run works from: pseq changes to a sound sequence.
<1>4. ASSUME NEW f \in Flows, NEW s, SeqSound(f, s), UNCHANGED sent,
             pseq' = [pseq EXCEPT ![f] = s], \A q \in Procs : RunSound(q)'
      PROVE  SafetyInv'
  <2>1. ASSUME NEW g \in Flows, pseq'[g] # NoSeq PROVE SeqSound(g, pseq[g])'
    <3>1. PICK t : t = pseq'[g] OBVIOUS
    <3>2. SeqSound(g, t) BY <1>4, <2>1, <3>1 DEF SafetyInv, TypeOK
    <3>3. SeqSound(g, t)' BY <1>1, <3>2, SoundStable
    <3> QED BY <3>1, <3>3 DEF SeqSound, Holds
  <2> QED BY <1>1, <1>4, <2>1 DEF SafetyInv, Holds, Grows
<1>5. CASE SaveSeq(p)
  <2>1. PICK f, s : f \in Flows /\ f = run[p].flow /\ s = run[p].seq OBVIOUS
  <2>2. SeqSound(f, s) BY <1>5, <2>1 DEF SaveSeq, At, SafetyInv, RunSound, Working
  <2>3. OnlyRun(p) /\ run'[p].pc = "submit" /\ run'[p].flow = f /\ run'[p].seq = s
    BY <1>5, <2>1, GotoOnly DEF SaveSeq
  <2>4. \A q \in Procs : RunSound(q)' BY <1>2, <2>2, <2>3 DEF Working
  <2> QED BY <1>4, <1>5, <2>1, <2>2, <2>4 DEF SaveSeq
<1>6. CASE SaveProgress(p)
  <2>1. PICK f, s : f \in Flows /\ f = run[p].flow /\ s = run[p].seq OBVIOUS
  <2>2. SeqSound(f, s) BY <1>6, <2>1 DEF SaveProgress, At, SafetyInv, RunSound, Working
  <2>3. PICK pc \in {"submit", "context", "unseq"} : Goto(p, pc)
    BY <1>6 DEF SaveProgress, After
  <2>4. OnlyRun(p) /\ run'[p].pc \in Working /\ run'[p].flow = f /\ run'[p].seq = s
    BY <2>1, <2>3, GotoOnly DEF Working
  <2>5. \A q \in Procs : RunSound(q)' BY <1>2, <2>2, <2>4
  <2> QED BY <1>4, <1>6, <2>1, <2>2, <2>5 DEF SaveProgress
\* Sending the current receipt of a sound sequence.
<1>7. ASSUME At(p, "submit"), sent' = sent \cup {Current(p)}, UNCHANGED pseq,
             \A q \in Procs : RunSound(q)'
      PROVE  SafetyInv'
  <2>1. PICK f \in Flows, s \in Sequence : f = run[p].flow /\ s = run[p].seq OBVIOUS
  <2>2. SeqSound(f, s) BY <1>7, <2>1 DEF At, SafetyInv, RunSound, Working
  <2>3. s.next \in Nat BY DEF Sequence
  <2>4. PICK r : r = Current(p) OBVIOUS
  <2>5. r.claim = s.claim /\ r.type = TypeAt(f, s.next)
    BY <2>1, <2>4 DEF Current, Submission
  <2>6. /\ r.type \in {"downloaded", "verified"} => files # {}
        /\ r.type = "verified" => Holds("downloaded", r.claim)
        /\ r.type = "processed" => Holds("verified", r.claim)
    BY <2>2, <2>3, <2>5 DEF SeqSound, TypeAt, Flows
  <2>7. \A f2 \in Flows : pseq'[f2] # NoSeq => SeqSound(f2, pseq[f2])'
    BY <1>1, <1>7 DEF SafetyInv, SeqSound, Holds, Grows
  <2>8. context' # None => Holds("verified", context)'
    BY <1>1 DEF SafetyInv, Holds, Grows
  <2>9. \A x \in sent' : /\ x.type \in {"downloaded", "verified"} => files' # {}
                         /\ x.type = "verified" => Holds("downloaded", x.claim)'
                         /\ x.type = "processed" => Holds("verified", x.claim)'
    BY <1>1, <1>7, <2>4, <2>6 DEF SafetyInv, Holds, Grows
  <2> QED BY <1>7, <2>7, <2>8, <2>9 DEF SafetyInv
<1>8. CASE ReceiptResponseLost(p)
  <2>1. \A q \in Procs : RunSound(q)'
    BY <1>1, <1>8, StopOnly, OthersSound DEF ReceiptResponseLost
  <2> QED BY <1>7, <1>8, <2>1 DEF ReceiptResponseLost
<1>9. CASE Submit(p)
  <2>1. CASE ~Acceptable(Current(p))
    <3>1. \A q \in Procs : RunSound(q)'
      BY <1>1, <1>9, <2>1, StopOnly, OthersSound DEF Submit
    <3> QED BY <1>7, <1>9, <3>1 DEF Submit
  <2>2. CASE Acceptable(Current(p))
    <3>1. PICK f \in Flows, s \in Sequence : f = run[p].flow /\ s = run[p].seq OBVIOUS
    <3>2. SeqSound(f, s) BY <1>9, <3>1 DEF Submit, At, SafetyInv, RunSound, Working
    <3>3. s.next \in Nat /\ s.next < Length(f)
      BY <1>9, <3>1 DEF Sequence, Submit, At, WellFormed
    <3>4. PICK t : t = [s EXCEPT !.next = s.next + 1] OBVIOUS
    <3>5. OnlyRun(p) /\ run'[p].pc = "saveprog" /\ run'[p].flow = f /\ run'[p].seq = t
      BY <1>9, <2>2, <3>1, <3>4 DEF Submit, OnlyRun, TypeOK, Run
    <3>6. PICK r : r = Current(p) OBVIOUS
    <3>7. r.claim = s.claim /\ r.type = TypeAt(f, s.next)
      BY <3>1, <3>6 DEF Current, Submission
    <3>8. r \in accepted' BY <1>9, <2>2, <3>6 DEF Submit
    <3>9. t.dir = s.dir /\ t.claim = s.claim /\ t.next = s.next + 1
      BY <3>4 DEF Sequence
    <3>10. SeqSound(f, s)' BY <1>1, <3>2, SoundStable
    <3>11. SeqSound(f, t)'
      BY <3>3, <3>7, <3>8, <3>9, <3>10 DEF SeqSound, Holds, TypeAt, Length
    <3>12. RunSound(p)' BY <3>5, <3>11 DEF RunSound, Working
    <3>13. \A q \in Procs : RunSound(q)' BY <1>1, <3>5, <3>12, OthersSound
    <3> QED BY <1>7, <1>9, <3>13 DEF Submit
  <2> QED BY <2>1, <2>2
<1> QED BY <1>3, <1>5, <1>6, <1>8, <1>9 DEF Submitting

LEMMA FinishingSafe ==
    ASSUME TypeOK, SafetyInv, NEW p \in Procs, Finishing(p)
    PROVE  SafetyInv'
<1> USE RunFields DEF disk, service, history, supply, bounds
<1>1. PICK f \in Flows, s \in Sequence : f = run[p].flow /\ s = run[p].seq OBVIOUS
<1>2. CASE SaveContext(p)
  <2>1. SeqSound(f, s) BY <1>1, <1>2 DEF SaveContext, At, SafetyInv, RunSound, Working
  <2>2. f = "receive" /\ s.next = 2 /\ s.claim # None
    BY <1>1, <1>2 DEF SaveContext, At, WellFormed, Length, Matches
  <2>3. Holds("verified", s.claim) BY <2>1, <2>2 DEF SeqSound
  <2>4. Grows /\ UNCHANGED <<pseq, sent>> /\ context' = s.claim
    BY <1>1, <1>2, <2>2 DEF SaveContext, Grows
  <2>5. SeqSound(f, s)' BY <2>1, <2>4, SoundStable
  <2>6. OnlyRun(p) /\ run'[p].pc = "unclaim" /\ run'[p].flow = f /\ run'[p].seq = s
    BY <1>1, <1>2, GotoOnly DEF SaveContext
  <2>7. RunSound(p)' BY <2>5, <2>6 DEF RunSound
  <2>8. \A q \in Procs : RunSound(q)' BY <2>4, <2>6, <2>7, OthersSound
  <2>9. \A g \in Flows : pseq'[g] # NoSeq => SeqSound(g, pseq[g])'
    BY <2>4 DEF SafetyInv, SeqSound, Holds, Grows
  <2>10. UNCHANGED accepted BY <1>2 DEF SaveContext
  <2> QED BY <2>3, <2>4, <2>8, <2>9, <2>10 DEF SafetyInv, Holds, Grows
<1>3. CASE RemoveClaim(p)
  <2>1. Grows /\ UNCHANGED <<pseq, sent, context>> BY <1>3 DEF RemoveClaim, Grows
  <2>2. CASE Goto(p, "unseq")
    <3>1. SeqSound(f, s) BY <1>1, <1>3 DEF RemoveClaim, At, SafetyInv, RunSound, Working
    <3>2. SeqSound(f, s)' BY <2>1, <3>1, SoundStable
    <3>3. OnlyRun(p) /\ run'[p].pc = "unseq" /\ run'[p].flow = f /\ run'[p].seq = s
      BY <1>1, <2>2, GotoOnly
    <3>4. RunSound(p)' BY <3>2, <3>3 DEF RunSound
    <3> QED BY <2>1, <3>3, <3>4, OthersSound, QuietStep
  <2>3. CASE Stop(p) BY <2>1, <2>3, StopOnly, OthersSound, QuietStep
  <2> QED BY <1>3, <2>2, <2>3 DEF RemoveClaim
<1>4. CASE RemoveSeq(p)
  <2>1. Grows /\ UNCHANGED <<sent, context>> BY <1>4 DEF RemoveSeq, Grows
  <2>2. OnlyRun(p) /\ RunSound(p)'
    <3>1. CASE Goto(p, "unclaim")
      <4>1. SeqSound(f, s) BY <1>1, <1>4 DEF RemoveSeq, At, SafetyInv, RunSound, Working
      <4>2. SeqSound(f, s)' BY <2>1, <4>1, SoundStable
      <4>3. OnlyRun(p) /\ run'[p].pc = "unclaim" /\ run'[p].flow = f /\ run'[p].seq = s
        BY <1>1, <3>1, GotoOnly
      <4> QED BY <4>2, <4>3 DEF RunSound
    <3>2. CASE Stop(p) BY <3>2, StopOnly
    <3> QED BY <1>4, <3>1, <3>2 DEF RemoveSeq
  <2>3. \A q \in Procs : RunSound(q)' BY <2>1, <2>2, OthersSound
  <2>4. \A g \in Flows : pseq'[g] # NoSeq => pseq'[g] = pseq[g]
    BY <1>4 DEF RemoveSeq, TypeOK
  <2>5. \A g \in Flows : pseq'[g] # NoSeq => SeqSound(g, pseq[g])'
    BY <2>1, <2>4 DEF SafetyInv, SeqSound, Holds, Grows
  <2> QED BY <2>1, <2>3, <2>5 DEF SafetyInv, Holds, Grows
<1>5. CASE ReportMismatch(p)
  <2>1. Grows /\ UNCHANGED <<pseq, sent, context>> BY <1>5 DEF ReportMismatch, Grows
  <2> QED BY <1>5, <2>1, StopOnly, OthersSound, QuietStep DEF ReportMismatch
<1> QED BY <1>2, <1>3, <1>4, <1>5 DEF Finishing

LEMMA StartingSafe ==
    ASSUME TypeOK, SafetyInv, NEW p \in Procs, Starting(p)
    PROVE  SafetyInv'
<1> USE DEF disk, service, history, supply, bounds
<1>1. Grows /\ UNCHANGED <<pseq, sent, context>>
  BY DEF Grows, Starting, StartClaiming, StartProcessed
<1>2. ASSUME NEW f, NEW d, NEW ow, StartClaiming(p, f, d, ow)
      PROVE  OnlyRun(p) /\ RunSound(p)'
  BY <1>2 DEF StartClaiming, OnlyRun, RunSound, Idle, Working, TypeOK
<1>3. CASE StartProcessed(p)
  <2>1. OnlyRun(p) /\ run'[p].pc = "loadseq" /\ run'[p].flow = "processed"
                   /\ run'[p].key = context
    BY <1>3 DEF StartProcessed, OnlyRun, Idle, TypeOK
  <2>2. context # None /\ Holds("verified", context)
    BY <1>3 DEF StartProcessed, SafetyInv
  <2>3. UNCHANGED <<context, accepted>> BY <1>3 DEF StartProcessed
  <2>4. RunSound(p)' BY <2>1, <2>2, <2>3 DEF RunSound, Working, Holds
  <2> QED BY <1>1, <2>1, <2>4, OthersSound, QuietStep
<1> QED BY <1>1, <1>2, <1>3, OthersSound, QuietStep DEF Starting

LEMMA SafetyInductive == Spec => []SafetyInv
<1>1. Init => SafetyInv
  BY DEF Init, SafetyInv, RunSound, Working, Idle
<1>2. TypeOK /\ SafetyInv /\ [Next]_vars => SafetyInv'
  <2> SUFFICES ASSUME TypeOK, SafetyInv, [Next]_vars PROVE SafetyInv'
    OBVIOUS
  <2> USE DEF disk, service, history, supply, bounds
  <2>1. ASSUME NEW p \in Procs, Abort(p) \/ Crash(p) PROVE SafetyInv'
    <3>1. Grows /\ UNCHANGED <<pseq, sent, context>> /\ Stop(p)
      BY <2>1 DEF Abort, Crash, Grows
    <3> QED BY <3>1, StopOnly, OthersSound, QuietStep
  <2>2. ASSUME Grows, UNCHANGED <<pseq, sent, context, run>> PROVE SafetyInv'
    <3>1. \A q \in Procs : RunSound(q)'
      BY <2>2 DEF SafetyInv, RunSound, SeqSound, Holds, Grows
    <3> QED BY <2>2, <3>1, QuietStep
  <2>3. ASSUME NEW d \in Dirs, Tidy(d) PROVE SafetyInv'
    BY <2>2, <2>3 DEF Tidy, Grows
  <2>4. CASE LeaseExpires BY <2>2, <2>4 DEF LeaseExpires, Grows
  <2>5. CASE UNCHANGED vars BY <2>2, <2>5 DEF vars, Grows
  <2> QED
    BY <2>1, <2>3, <2>4, <2>5, StartingSafe, ClaimingSafe, ReceivingSafe, SubmittingSafe,
       FinishingSafe DEF Next
<1> QED BY <1>1, <1>2, TypeCorrect, PTL DEF Spec

\* For any number of concurrent runs: receipts follow the installed files and
\* each other, and the context and the processed receipt follow the verdict.
THEOREM InboxSafety ==
    Spec => [](ReceiptsFollowInstall /\ VerifiedAfterDownloaded /\ ProcessedAfterVerified)
<1>1. SafetyInv => ReceiptsFollowInstall /\ VerifiedAfterDownloaded /\ ProcessedAfterVerified
  BY DEF SafetyInv, ReceiptsFollowInstall, VerifiedAfterDownloaded, ProcessedAfterVerified,
         SeqSound, Holds, Flows
<1> QED BY <1>1, SafetyInductive, PTL

-----------------------------------------------------------------------------
\* Every step of every run is a step of the promise or leaves it alone.
LEMMA PromiseStep ==
    ASSUME TypeOK, SafetyInv, [Next]_vars
    PROVE  [Promise!Next]_(Promise!vars)
<1> USE DEF disk, service, history, supply, bounds, Promise!vars
<1>1. ASSUME UNCHANGED <<files, accepted, context>> PROVE [Promise!Next]_(Promise!vars)
  BY <1>1
<1>2. ASSUME NEW p \in Procs, Install(p) PROVE [Promise!Next]_(Promise!vars)
  BY <1>2 DEF Install, Promise!Next, Promise!Install
<1>3. ASSUME NEW p \in Procs, SaveContext(p) PROVE [Promise!Next]_(Promise!vars)
  <2>1. PICK f \in Flows, s \in Sequence : f = run[p].flow /\ s = run[p].seq
    BY RunFields
  <2>2. SeqSound(f, s) BY <1>3, <2>1 DEF SaveContext, At, SafetyInv, RunSound, Working
  <2>3. f = "receive" /\ s.next = 2
    BY <1>3, <2>1, RunFields DEF SaveContext, At, WellFormed, Length
  <2>4. PICK v \in accepted : v.type = "verified" /\ v.claim = s.claim
    BY <2>2, <2>3 DEF SeqSound, Holds
  <2>5. context' = s.claim /\ UNCHANGED <<files, accepted>> BY <1>3, <2>1 DEF SaveContext
  <2> QED BY <2>4, <2>5 DEF Promise!Next, Promise!Record
<1>4. ASSUME NEW p \in Procs, At(p, "submit"), Acceptable(Current(p)),
             accepted' = accepted \cup {Current(p)}, UNCHANGED <<files, context>>
      PROVE  [Promise!Next]_(Promise!vars)
  <2>1. PICK f \in Flows, s \in Sequence : f = run[p].flow /\ s = run[p].seq
    BY RunFields
  <2>2. PICK r : r = Current(p) OBVIOUS
  <2>3. SeqSound(f, s) /\ s.next \in Nat
    BY <1>4, <2>1 DEF At, SafetyInv, RunSound, Working, Sequence
  <2>4. r.claim = s.claim /\ r.type = TypeAt(f, s.next)
    BY <2>1, <2>2 DEF Current, Submission
  <2>5. CASE r \in accepted
    BY <1>1, <1>4, <2>2, <2>5
  <2>6. CASE r \notin accepted
    <3> DEFINE known == {<<x.type, x.claim>> : x \in accepted}
               k == <<r.type, r.claim>>
    <3>1. {<<x.type, x.claim>> : x \in accepted'} = known \cup {k}
      BY <1>4, <2>2
    <3>2. r.type \in {"verified", "rejected"} =>
             \A x \in accepted : x.type \notin {"verified", "rejected"}
      BY <1>4, <2>2, <2>6 DEF Acceptable
    <3>3. CASE r.type = "downloaded"
      <4>1. files # {} BY <2>3, <2>4, <3>3 DEF SeqSound, TypeAt, Flows
      <4>2. Promise!Allowed(k[1], k[2]) BY <3>3, <4>1 DEF Promise!Allowed
      <4> QED BY <1>4, <3>1, <4>2 DEF Promise!Next, Promise!Learn
    <3>4. CASE r.type = "verified"
      <4>1. Holds("downloaded", s.claim) BY <2>3, <2>4, <3>4 DEF SeqSound, TypeAt, Flows
      <4>2. <<"downloaded", r.claim>> \in known BY <4>1, <2>4 DEF Holds
      <4>3. Promise!Allowed(k[1], k[2])
        BY <3>2, <3>4, <4>2 DEF Promise!Allowed, Promise!Verdicts
      <4> QED BY <1>4, <3>1, <4>3 DEF Promise!Next, Promise!Learn
    <3>5. CASE r.type = "rejected"
      <4>1. Promise!Allowed(k[1], k[2])
        BY <3>2, <3>5 DEF Promise!Allowed, Promise!Verdicts
      <4> QED BY <1>4, <3>1, <4>1 DEF Promise!Next, Promise!Learn
    <3>6. CASE r.type = "processed"
      <4>1. context # None /\ Holds("verified", s.claim)
        BY <2>3, <2>4, <3>6 DEF SeqSound, TypeAt, Flows
      <4>2. <<"verified", r.claim>> \in known BY <4>1, <2>4 DEF Holds
      <4>3. Promise!Allowed(k[1], k[2]) BY <3>6, <4>1, <4>2 DEF Promise!Allowed
      <4> QED BY <1>4, <3>1, <4>3 DEF Promise!Next, Promise!Learn
    <3> QED BY <2>4, <3>3, <3>4, <3>5, <3>6 DEF TypeAt, Flows
  <2> QED BY <2>5, <2>6
<1>5. ASSUME NEW p \in Procs, Submitting(p) PROVE [Promise!Next]_(Promise!vars)
  BY <1>1, <1>4, <1>5 DEF Submitting, LoadSeq, SaveSeq, Submit, ReceiptResponseLost, SaveProgress
<1>6. ASSUME NEW p \in Procs, Receiving(p) PROVE [Promise!Next]_(Promise!vars)
  BY <1>1, <1>2, <1>6 DEF Receiving, Recover, Download, DownloadRefused, Renew
<1>7. ASSUME NEW p \in Procs, Claiming(p) \/ Starting(p) \/ Abort(p) \/ Crash(p)
      PROVE  UNCHANGED <<files, accepted, context>>
  BY <1>7 DEF Claiming, LoadClaim, SaveClaim, Claim, ClaimResponseLost, ClaimRefused, DropClaim,
              Starting, StartClaiming, StartProcessed, Abort, Crash
<1>8. ASSUME NEW p \in Procs, Finishing(p) PROVE [Promise!Next]_(Promise!vars)
  BY <1>1, <1>3, <1>8 DEF Finishing, RemoveClaim, RemoveSeq, ReportMismatch
<1>9. ASSUME NEW d \in Dirs, Tidy(d) PROVE UNCHANGED <<files, accepted, context>>
  BY <1>9 DEF Tidy
<1>10. CASE LeaseExpires BY <1>1, <1>10 DEF LeaseExpires
<1>11. CASE UNCHANGED vars BY <1>1, <1>11 DEF vars
<1> QED BY <1>1, <1>5, <1>6, <1>7, <1>8, <1>9, <1>10, <1>11 DEF Next

\* The inbox commands implement the delivery promise.
THEOREM InboxKeepsPromise == Spec => KeepsPromise
<1>1. Init => Promise!Init
  BY DEF Init, Promise!Init
<1> QED
  BY <1>1, PromiseStep, TypeCorrect, SafetyInductive, PTL DEF Spec, KeepsPromise, Promise!Spec

-----------------------------------------------------------------------------
(***************************************************************************)
(* One process at a time.  The stored sequence is the one the run works    *)
(* from, and a receipt counted as acknowledged was seen acknowledged.      *)
(***************************************************************************)
Counted(f, s) ==
    \A i \in 0..(Length(f) - 1) : i < s.next => Submission(f, s, i) \in acked

Stored(f, s) ==
    /\ pseq[f] # NoSeq
    /\ pseq[f].first = s.first /\ pseq[f].claim = s.claim
    /\ Counted(f, s)

SingleInv ==
    /\ NothingForgotten
    /\ \A f \in Flows : Counted(f, pseq[f])
    /\ \A p \in Procs :
         LET r == run[p] IN
         /\ r.pc \in {"submit", "saveprog", "context", "unseq"} => Stored(r.flow, r.seq)
         /\ r.pc = "unclaim" /\ r.flow = "receive" => Stored(r.flow, r.seq)
         /\ r.pc = "saveseq" => pseq[r.flow] = NoSeq /\ r.seq.next = 0

RunStored(r) ==
    /\ r.pc \in {"submit", "saveprog", "context", "unseq"} => Stored(r.flow, r.seq)
    /\ r.pc = "unclaim" /\ r.flow = "receive" => Stored(r.flow, r.seq)
    /\ r.pc = "saveseq" => pseq[r.flow] = NoSeq /\ r.seq.next = 0

\* Steps that move the one run and leave sequences and receipts alone.
LEMMA SingleQuiet ==
    ASSUME NEW only, Procs = {only}, SingleInv, UNCHANGED <<pseq, sent, acked>>,
           RunStored(run[only])'
    PROVE  SingleInv'
  BY DEF SingleInv, RunStored, Stored, Counted, NothingForgotten, Submissions, Submission

LEMMA StoppedStored ==
    ASSUME TypeOK, NEW p \in Procs, Stop(p)
    PROVE  RunStored(run[p])'
  BY DEF Stop, RunStored, Idle, TypeOK

\* Two records of one sequence stand for the same receipts.
LEMMA SameSubmissions ==
    ASSUME NEW f, NEW s, NEW t, s # NoSeq, t # NoSeq, s.first = t.first, s.claim = t.claim
    PROVE  Submissions(f, s) = Submissions(f, t)
  BY DEF Submissions, Submission

LEMMA SingleStep ==
    ASSUME NEW only, Procs = {only}, TypeOK, SingleInv, [Next]_vars
    PROVE  SingleInv'
<1> DEFINE p == only
<1> p \in Procs OBVIOUS
<1> USE RunFields DEF disk, service, history, supply, bounds
<1> PICK f \in Flows, s \in Sequence : f = run[p].flow /\ s = run[p].seq OBVIOUS
<1>0. RunStored(run[p]) BY DEF SingleInv, RunStored
\* Storing sequence s of flow f, whose receipts are those stored before it, if any.
<1>1. ASSUME pseq' = [pseq EXCEPT ![f] = s], UNCHANGED <<sent, acked>>, s # NoSeq, Counted(f, s),
             pseq[f] # NoSeq => pseq[f].first = s.first /\ pseq[f].claim = s.claim,
             NEW pc \in {"submit", "context", "unseq"}, Goto(p, pc)
      PROVE  SingleInv'
  <2>1. pseq'[f] = s /\ \A g \in Flows \ {f} : pseq'[g] = pseq[g]
    BY <1>1 DEF TypeOK
  <2>2. Counted(f, s)' BY <1>1 DEF Counted
  <2>3. \A g \in Flows : Counted(g, pseq[g])'
    BY <1>1, <2>1, <2>2 DEF SingleInv, Counted
  <2>4. pseq[f] # NoSeq => Submissions(f, pseq[f]) = Submissions(f, s)
    BY <1>1, SameSubmissions
  <2>5. NothingForgotten'
    <3> SUFFICES ASSUME NEW r \in sent, r \notin acked
                 PROVE  \E g \in Flows : r \in Submissions(g, pseq'[g])
      BY <1>1 DEF NothingForgotten, Submissions, Submission
    <3>1. PICK g \in Flows : r \in Submissions(g, pseq[g])
      BY DEF SingleInv, NothingForgotten
    <3>2. g = f => pseq[f] # NoSeq BY <3>1 DEF Submissions
    <3> QED BY <2>1, <2>4, <3>1, <3>2
  <2>6. RunStored(run[p])'
    <3>1. run'[p].pc = pc /\ run'[p].flow = f /\ run'[p].seq = s
      BY <1>1, GotoOnly
    <3>2. Stored(f, s)' BY <1>1, <2>1, <2>2 DEF Stored
    <3> QED BY <3>1, <3>2 DEF RunStored
  <2> QED BY <2>3, <2>5, <2>6 DEF SingleInv, RunStored
<1>2. ASSUME Submitting(p) PROVE SingleInv'
  <2>1. CASE LoadSeq(p)
    <3>1. CASE pseq[f] = NoSeq
      <4>1. PICK new : new = Requested(run[p])
        OBVIOUS
      <4>0. new.next = 0
        BY <2>1, <4>1 DEF Requested, LoadSeq, At, WellFormed
      <4>2. run' = [run EXCEPT ![p].pc = "saveseq", ![p].seq = new]
        BY <2>1, <3>1, <4>1 DEF LoadSeq
      <4>3. run'[p].pc = "saveseq" /\ run'[p].flow = f /\ run'[p].seq = new
        BY <4>2 DEF TypeOK, Run
      <4>4. UNCHANGED <<pseq, sent, acked>> BY <2>1 DEF LoadSeq
      <4>5. RunStored(run[p])' BY <3>1, <4>0, <4>3, <4>4 DEF RunStored
      <4> QED BY <4>4, <4>5, SingleQuiet
    <3>2. CASE pseq[f] # NoSeq
      <4>1. UNCHANGED <<pseq, sent, acked>> BY <2>1 DEF LoadSeq
      <4>2. CASE Matches(pseq[f], run[p].key, run[p].dir)
        <5>1. PICK t : t = pseq[f] OBVIOUS
        <5>2. PICK pc \in {"submit", "context", "unseq"} :
                 run' = [run EXCEPT ![p].seq = t, ![p].pc = pc]
          BY <2>1, <3>2, <4>2, <5>1 DEF LoadSeq, After
        <5>3. run'[p].pc = pc /\ run'[p].flow = f /\ run'[p].seq = t
          BY <5>2 DEF TypeOK, Run
        <5>4. Stored(f, t)'
          BY <3>2, <4>1, <5>1 DEF Stored, SingleInv, Counted
        <5>5. RunStored(run[p])' BY <5>3, <5>4 DEF RunStored
        <5> QED BY <4>1, <5>5, SingleQuiet
      <4>3. CASE ~Matches(pseq[f], run[p].key, run[p].dir)
        <5>1. Goto(p, "mismatch") BY <2>1, <3>2, <4>3 DEF LoadSeq
        <5>2. RunStored(run[p])' BY <5>1, GotoOnly DEF RunStored
        <5> QED BY <4>1, <5>2, SingleQuiet
      <4> QED BY <4>2, <4>3
    <3> QED BY <3>1, <3>2
  <2>2. CASE SaveSeq(p)
    <3>1. s # NoSeq /\ s.next = 0 /\ pseq[f] = NoSeq
      BY <2>2, <1>0 DEF SaveSeq, At, WellFormed, RunStored
    <3>2. Counted(f, s) BY <3>1 DEF Counted
    <3> QED BY <1>1, <2>2, <3>1, <3>2 DEF SaveSeq
  <2>3. CASE SaveProgress(p)
    <3>1. Stored(f, s) /\ s # NoSeq
      BY <2>3, <1>0 DEF SaveProgress, At, WellFormed, RunStored
    <3>2. PICK pc \in {"submit", "context", "unseq"} : Goto(p, pc)
      BY <2>3 DEF SaveProgress, After
    <3> QED BY <1>1, <2>3, <3>1, <3>2 DEF SaveProgress, Stored
  \* Sending the current receipt, which is on disk.
  <2>4. ASSUME At(p, "submit") PROVE Current(p) \in Submissions(f, pseq[f])
    <3>1. Stored(f, s) /\ s.next \in 0..(Length(f) - 1)
      BY <2>4, <1>0 DEF At, WellFormed, RunStored, Sequence, Length
    <3>2. Submission(f, s, s.next) = Submission(f, pseq[f], s.next)
      BY <3>1 DEF Stored, Submission
    <3> QED BY <3>1, <3>2 DEF Current, Submissions, Stored
  <2>5. ASSUME At(p, "submit"), sent' = sent \cup {Current(p)}, acked \subseteq acked',
               UNCHANGED pseq
        PROVE  /\ NothingForgotten'
               /\ \A g \in Flows : Counted(g, pseq[g])'
    <3>1. NothingForgotten'
      <4> SUFFICES ASSUME NEW r \in sent', r \notin acked'
                   PROVE  \E g \in Flows : r \in Submissions(g, pseq[g])
        BY <2>5 DEF NothingForgotten, Submissions, Submission
      <4>1. CASE r \in sent BY <4>1, <2>5 DEF SingleInv, NothingForgotten
      <4>2. CASE r = Current(p) BY <4>2, <2>4, <2>5
      <4> QED BY <2>5, <4>1, <4>2
    <3>2. \A g \in Flows : Counted(g, pseq[g])' BY <2>5 DEF SingleInv, Counted
    <3> QED BY <3>1, <3>2
  <2>6. CASE ReceiptResponseLost(p)
    <3>1. RunStored(run[p])' BY <2>6, StoppedStored DEF ReceiptResponseLost
    <3> QED BY <2>5, <2>6, <3>1 DEF ReceiptResponseLost, SingleInv, RunStored
  <2>7. CASE Submit(p) /\ ~Acceptable(Current(p))
    <3>1. RunStored(run[p])' BY <2>7, StoppedStored DEF Submit
    <3> QED BY <2>5, <2>7, <3>1 DEF Submit, SingleInv, RunStored
  <2>8. CASE Submit(p) /\ Acceptable(Current(p))
    <3>1. Stored(f, s) /\ s.next \in Nat
      BY <2>8, <1>0 DEF Submit, At, RunStored, Sequence
    <3>2. PICK t : t = [s EXCEPT !.next = s.next + 1] OBVIOUS
    <3>3. run'[p].pc = "saveprog" /\ run'[p].flow = f /\ run'[p].seq = t
      BY <2>8, <3>2 DEF Submit, TypeOK, Run
    <3>4. t.first = s.first /\ t.claim = s.claim /\ t.next = s.next + 1
      BY <3>2 DEF Sequence
    <3>5. Submission(f, s, s.next) \in acked' /\ acked \subseteq acked'
      BY <2>8 DEF Submit, Current
    <3>6. Counted(f, t)'
      <4> SUFFICES ASSUME NEW i \in 0..(Length(f) - 1), i < t.next
                   PROVE  Submission(f, t, i) \in acked'
        BY DEF Counted, Submission
      <4>1. Submission(f, t, i) = Submission(f, s, i) BY <3>4 DEF Submission
      <4>2. i < s.next \/ i = s.next BY <3>1, <3>4 DEF Length
      <4> QED BY <3>1, <3>5, <4>1, <4>2 DEF Stored, Counted
    <3>7. Stored(f, t)' BY <2>8, <3>1, <3>4, <3>6 DEF Stored, Submit
    <3>8. RunStored(run[p])' BY <3>3, <3>7 DEF RunStored
    <3> QED BY <2>5, <2>8, <3>5, <3>8 DEF Submit, SingleInv, RunStored
  <2> QED BY <1>2, <2>1, <2>2, <2>3, <2>6, <2>7, <2>8 DEF Submitting
<1>3. ASSUME Finishing(p) PROVE SingleInv'
  <2>1. CASE SaveContext(p)
    <3>1. Stored(f, s) BY <2>1, <1>0 DEF SaveContext, At, RunStored
    <3>2. run'[p].pc = "unclaim" /\ run'[p].flow = f /\ run'[p].seq = s
      BY <2>1, GotoOnly DEF SaveContext
    <3>3. UNCHANGED <<pseq, sent, acked>> BY <2>1 DEF SaveContext
    <3>4. RunStored(run[p])' BY <3>1, <3>2, <3>3 DEF RunStored, Stored, Counted
    <3> QED BY <3>3, <3>4, SingleQuiet
  <2>2. CASE RemoveClaim(p)
    <3>1. UNCHANGED <<pseq, sent, acked>> BY <2>2 DEF RemoveClaim
    <3>2. RunStored(run[p])'
      <4>1. CASE f = "receive"
        <5>1. Stored(f, s) BY <2>2, <4>1, <1>0 DEF RemoveClaim, At, RunStored
        <5>2. run'[p].pc = "unseq" /\ run'[p].flow = f /\ run'[p].seq = s
          BY <2>2, <4>1, GotoOnly DEF RemoveClaim
        <5> QED BY <3>1, <5>1, <5>2 DEF RunStored, Stored, Counted
      <4>2. CASE f # "receive" BY <2>2, <4>2, StoppedStored DEF RemoveClaim
      <4> QED BY <4>1, <4>2
    <3> QED BY <3>1, <3>2, SingleQuiet
  <2>3. CASE RemoveSeq(p)
    <3>1. Stored(f, s) /\ s.next = Length(f)
      BY <2>3, <1>0 DEF RemoveSeq, At, RunStored, WellFormed
    <3>2. pseq'[f] = NoSeq /\ \A g \in Flows \ {f} : pseq'[g] = pseq[g]
      BY <2>3 DEF RemoveSeq, TypeOK
    <3>3. \A r \in Submissions(f, pseq[f]) : r \in acked
      <4>1. \A i \in 0..(Length(f) - 1) : Submission(f, s, i) \in acked
        BY <3>1 DEF Stored, Counted, Length
      <4>2. \A i \in 0..(Length(f) - 1) : Submission(f, pseq[f], i) = Submission(f, s, i)
        BY <3>1 DEF Stored, Submission
      <4> QED BY <4>1, <4>2 DEF Submissions
    <3>4. UNCHANGED <<sent, acked>> BY <2>3 DEF RemoveSeq
    <3>5. NothingForgotten'
      <4> SUFFICES ASSUME NEW r \in sent, r \notin acked
                   PROVE  \E g \in Flows : r \in Submissions(g, pseq'[g])
        BY <3>4 DEF NothingForgotten, Submissions, Submission
      <4>1. PICK g \in Flows : r \in Submissions(g, pseq[g])
        BY DEF SingleInv, NothingForgotten
      <4> QED BY <3>2, <3>3, <4>1
    <3>6. \A g \in Flows : Counted(g, pseq[g])'
      BY <3>2, <3>4 DEF SingleInv, Counted, NoSeq
    <3>7. RunStored(run[p])'
      <4>1. CASE f = "rejected"
        <5>1. run'[p].pc = "unclaim" /\ run'[p].flow = f
          BY <2>3, <4>1, GotoOnly DEF RemoveSeq
        <5> QED BY <4>1, <5>1 DEF RunStored
      <4>2. CASE f # "rejected" BY <2>3, <4>2, StoppedStored DEF RemoveSeq
      <4> QED BY <4>1, <4>2
    <3> QED BY <3>5, <3>6, <3>7 DEF SingleInv, RunStored
  <2>4. CASE ReportMismatch(p)
    BY <2>4, StoppedStored, SingleQuiet DEF ReportMismatch
  <2> QED BY <1>3, <2>1, <2>2, <2>3, <2>4 DEF Finishing
<1>4. ASSUME UNCHANGED <<pseq, sent, acked>>,
             \/ Stop(p) \/ UNCHANGED run
             \/ \E pc \in {"recover", "loadseq", "dropclaim", "download", "renew", "install",
                           "mismatch", "claim"} : Goto(p, pc)
      PROVE  SingleInv'
  <2>1. CASE Stop(p) BY <1>4, <2>1, StoppedStored, SingleQuiet
  <2>2. CASE UNCHANGED run
    <3>1. RunStored(run[p])' BY <1>0, <1>4, <2>2 DEF RunStored, Stored, Counted
    <3> QED BY <1>4, <3>1, SingleQuiet
  <2>3. ASSUME NEW pc \in {"recover", "loadseq", "dropclaim", "download", "renew", "install",
                           "mismatch", "claim"}, Goto(p, pc)
        PROVE  SingleInv'
    <3>1. RunStored(run[p])' BY <2>3, GotoOnly DEF RunStored
    <3> QED BY <1>4, <3>1, SingleQuiet
  <2> QED BY <1>4, <2>1, <2>2, <2>3
<1>5. ASSUME Claiming(p) PROVE SingleInv'
  <2>1. UNCHANGED <<pseq, sent, acked>>
    BY <1>5 DEF Claiming, LoadClaim, SaveClaim, Claim, ClaimResponseLost, ClaimRefused, DropClaim
  <2>2. CASE LoadClaim(p) \/ DropClaim(p)
    <3>1. run'[p].pc \in {"claim", "saveclaim"}
      BY <2>2 DEF LoadClaim, DropClaim, TypeOK, Run
    <3>2. RunStored(run[p])' BY <3>1 DEF RunStored
    <3> QED BY <2>1, <3>2, SingleQuiet
  <2>3. CASE SaveClaim(p) BY <1>4, <2>1, <2>3 DEF SaveClaim
  <2>4. CASE Claim(p) BY <1>4, <2>1, <2>4 DEF Claim
  <2>5. CASE ClaimResponseLost(p) BY <1>4, <2>1, <2>5 DEF ClaimResponseLost
  <2>6. CASE ClaimRefused(p) BY <1>4, <2>1, <2>6 DEF ClaimRefused
  <2> QED BY <1>5, <2>2, <2>3, <2>4, <2>5, <2>6 DEF Claiming
<1>6. ASSUME Receiving(p) PROVE SingleInv'
  <2>1. CASE Recover(p)
    <3>1. CASE run'[p].pc = "loadseq"
      <4>1. RunStored(run[p])' BY <3>1 DEF RunStored
      <4> QED BY <2>1, <4>1, SingleQuiet DEF Recover
    <3>2. CASE run'[p].pc # "loadseq"
      <4>1. \E pc \in {"download", "mismatch"} : Goto(p, pc)
        <5>1. ASSUME NEW q, run' = [run EXCEPT ![p].pc = "loadseq", ![p].seq = q]
              PROVE  FALSE
          BY <3>2, <5>1 DEF TypeOK, Run
        <5> QED BY <2>1, <5>1 DEF Recover
      <4> QED BY <1>4, <2>1, <4>1 DEF Recover
    <3> QED BY <3>1, <3>2
  <2>2. CASE Download(p) BY <1>4, <2>2 DEF Download
  <2>3. CASE DownloadRefused(p) BY <1>4, <2>3 DEF DownloadRefused
  <2>4. CASE Renew(p) BY <1>4, <2>4 DEF Renew
  <2>5. CASE Install(p) BY <1>4, <2>5 DEF Install
  <2> QED BY <1>6, <2>1, <2>2, <2>3, <2>4, <2>5 DEF Receiving
<1>7. ASSUME Starting(p) PROVE SingleInv'
  <2>1. UNCHANGED <<pseq, sent, acked>> /\ run'[p].pc \in {"load", "loadseq"}
    <3>1. ASSUME NEW c, NEW d, NEW ow, StartClaiming(p, c, d, ow)
          PROVE  UNCHANGED <<pseq, sent, acked>> /\ run'[p].pc = "load"
      BY <3>1 DEF StartClaiming, Idle, TypeOK
    <3>2. CASE StartProcessed(p)
      BY <3>2 DEF StartProcessed, Idle, TypeOK
    <3> QED BY <1>7, <3>1, <3>2 DEF Starting
  <2>2. RunStored(run[p])' BY <2>1 DEF RunStored
  <2> QED BY <2>1, <2>2, SingleQuiet
<1>8. CASE Abort(p) \/ Crash(p) BY <1>4, <1>8 DEF Abort, Crash
<1>9. CASE \E d \in Dirs : Tidy(d) BY <1>4, <1>9 DEF Tidy
<1>10. CASE LeaseExpires BY <1>4, <1>10 DEF LeaseExpires
<1>11. CASE UNCHANGED vars BY <1>4, <1>11 DEF vars
<1> QED BY <1>2, <1>3, <1>5, <1>6, <1>7, <1>8, <1>9, <1>10, <1>11 DEF Next

\* With one process at a time, whatever the service may have received without the
\* CLI knowing is on disk, whenever the run stops and however often it restarts.
THEOREM SingleProcessForgetsNothing ==
    ASSUME NEW only, Procs = {only}
    PROVE  Spec => []NothingForgotten
<1>1. Init => SingleInv
  BY DEF Init, SingleInv, NothingForgotten, Counted, NoSeq, Idle
<1>2. TypeOK /\ SingleInv /\ [Next]_vars => SingleInv'
  BY SingleStep
<1>3. SingleInv => NothingForgotten BY DEF SingleInv
<1> QED BY <1>1, <1>2, <1>3, TypeCorrect, PTL DEF Spec

-----------------------------------------------------------------------------
(***************************************************************************)
(* One process at a time, and the claim.  From the claim's key on disk to  *)
(* its removal the run holds that very key, and removes it after a verdict *)
(* the service has acknowledged.                                           *)
(***************************************************************************)
Decided(c) == \E r \in accepted : r.type \in {"verified", "rejected"} /\ r.claim = c

Holding(r) ==
    \/ /\ r.pc \in {"claim", "dropclaim", "recover", "download", "renew", "install", "loadseq",
                    "saveseq", "submit", "saveprog", "context"}
       /\ r.flow # "processed"
    \/ r.pc = "unseq" /\ r.flow = "rejected"
    \/ r.pc = "unclaim"

RunHolds(r) ==
    /\ Holding(r) => pclaim = r.key
    /\ r.pc = "saveclaim" => pclaim = None
    /\ r.pc = "dropclaim" => live = None \/ Decided(live)
    /\ r.pc = "unclaim" => Decided(r.key)

HoldInv ==
    /\ acked \subseteq accepted
    /\ live # None => pclaim = live \/ Decided(live)
    /\ \A p \in Procs : RunHolds(run[p])

\* Steps that leave the claim on disk alone, end no verdict and give no lease.
LEMMA HoldQuiet ==
    ASSUME NEW only, Procs = {only}, HoldInv, UNCHANGED pclaim, live' \in {live, None},
           accepted \subseteq accepted', acked' \subseteq accepted', RunHolds(run[only])'
    PROVE  HoldInv'
<1>1. \A c : Decided(c) => Decided(c)' BY DEF Decided
<1>2. live' # None => pclaim' = live' \/ Decided(live)'
  BY <1>1 DEF HoldInv, Decided
<1> QED BY <1>2 DEF HoldInv

LEMMA StoppedHolds ==
    ASSUME TypeOK, NEW p \in Procs, Stop(p)
    PROVE  RunHolds(run[p])'
  BY DEF Stop, RunHolds, Holding, Idle, TypeOK

\* A run that moves on with its claim in hand.
LEMMA MovedHolds ==
    ASSUME NEW p \in Procs, RunHolds(run[p]), UNCHANGED pclaim,
           run'[p].flow = run[p].flow, run'[p].key = run[p].key,
           run'[p].pc \notin {"dropclaim", "unclaim", "saveclaim"},
           Holding(run'[p]) => Holding(run[p])
    PROVE  RunHolds(run[p])'
  BY DEF RunHolds, Holding

LEMMA HoldStep ==
    ASSUME NEW only, Procs = {only}, TypeOK, SingleInv, HoldInv, [Next]_vars
    PROVE  HoldInv'
<1> DEFINE p == only
<1> p \in Procs OBVIOUS
<1> USE RunFields DEF disk, service, history, supply, bounds
<1>0. /\ RunHolds(run[p]) /\ acked \subseteq accepted /\ WellFormed(run[p])
      /\ live # None => pclaim = live \/ Decided(live)
  BY DEF HoldInv
\* Steps that end the run, or move it between two steps that both hold the claim.
<1>1. ASSUME UNCHANGED pclaim, live' \in {live, None}, accepted \subseteq accepted',
             acked' \subseteq accepted',
             \/ Stop(p)
             \/ run' = run
             \/ /\ run'[p].flow = run[p].flow /\ run'[p].key = run[p].key
                /\ run'[p].pc \notin {"dropclaim", "unclaim", "saveclaim"}
                /\ Holding(run'[p]) => Holding(run[p])
      PROVE  HoldInv'
  <2>1. CASE Stop(p) BY <1>1, <2>1, StoppedHolds, HoldQuiet
  <2>2. CASE run' = run
    <3>1. RunHolds(run[p])'
      BY <1>0, <1>1, <2>2 DEF RunHolds, Decided
    <3> QED BY <1>1, <3>1, HoldQuiet
  <2>3. CASE ~Stop(p) /\ run' # run
    <3>1. RunHolds(run[p])' BY <1>0, <1>1, <2>3, MovedHolds
    <3> QED BY <1>1, <3>1, HoldQuiet
  <2> QED BY <2>1, <2>2, <2>3
<1>2. ASSUME Claiming(p) PROVE HoldInv'
  <2>1. CASE LoadClaim(p)
    <3>1. UNCHANGED <<pclaim, live, accepted, acked>> BY <2>1 DEF LoadClaim
    <3>2. \/ pclaim # None /\ run'[p].pc = "claim" /\ run'[p].key = pclaim
          \/ pclaim = None /\ run'[p].pc = "saveclaim"
      BY <2>1 DEF LoadClaim, TypeOK, Run
    <3>3. RunHolds(run[p])' BY <3>1, <3>2 DEF RunHolds, Holding
    <3> QED BY <1>0, <3>1, <3>3, HoldQuiet
  <2>2. CASE SaveClaim(p)
    <3>1. pclaim = None /\ pclaim' = run[p].key /\ UNCHANGED <<live, accepted, acked>>
      BY <1>0, <2>2 DEF SaveClaim, RunHolds, At
    <3>2. Goto(p, "claim") \/ Stop(p) BY <2>2 DEF SaveClaim
    <3>3. RunHolds(run[p])'
      <4>1. CASE Goto(p, "claim")
        BY <3>1, <4>1, GotoOnly DEF RunHolds, Holding
      <4>2. CASE Stop(p) BY <4>2, StoppedHolds
      <4> QED BY <3>2, <4>1, <4>2
    <3>4. live' # None => Decided(live)' BY <1>0, <3>1 DEF Decided
    <3> QED BY <1>0, <3>1, <3>3, <3>4 DEF HoldInv
  <2>3. CASE Claim(p) \/ ClaimResponseLost(p)
    <3>1. /\ UNCHANGED <<pclaim, accepted, acked>> /\ run[p].pc = "claim"
          /\ run[p].flow # "processed" /\ Grant(run[p].key)
      BY <1>0, <2>3 DEF Claim, ClaimResponseLost, At, WellFormed
    <3>2. pclaim = run[p].key BY <1>0, <3>1 DEF RunHolds, Holding
    <3>3. live' = live \/ live' = run[p].key BY <3>1 DEF Grant
    <3>4. live' # None => pclaim' = live' \/ Decided(live)'
      BY <1>0, <3>1, <3>2, <3>3 DEF Decided
    <3>5. RunHolds(run[p])'
      <4>1. CASE ClaimResponseLost(p) BY <4>1, StoppedHolds DEF ClaimResponseLost
      <4>2. CASE Claim(p) /\ live' = run[p].key
        <5>1. PICK pc \in {"recover", "loadseq"} : Goto(p, pc) BY <4>2 DEF Claim
        <5> QED BY <3>1, <3>2, <5>1, GotoOnly DEF RunHolds, Holding
      <4>3. CASE Claim(p) /\ live' # run[p].key
        <5>1. Goto(p, "dropclaim") BY <4>3 DEF Claim
        <5>2. live' = None \/ Decided(live)' BY <3>1, <3>2, <3>4, <4>3
        <5> QED BY <3>1, <3>2, <5>1, <5>2, GotoOnly DEF RunHolds, Holding
      <4> QED BY <2>3, <4>1, <4>2, <4>3
    <3> QED BY <1>0, <3>1, <3>4, <3>5 DEF HoldInv
  <2>4. CASE ClaimRefused(p) BY <1>0, <1>1, <2>4 DEF ClaimRefused
  <2>5. CASE DropClaim(p)
    <3>1. /\ pclaim' = None /\ UNCHANGED <<live, accepted, acked>>
          /\ live = None \/ Decided(live)
      BY <1>0, <2>5 DEF DropClaim, RunHolds, At
    <3>2. run'[p].pc = "saveclaim" BY <2>5 DEF DropClaim, TypeOK, Run
    <3>3. RunHolds(run[p])' BY <3>1, <3>2 DEF RunHolds, Holding
    <3>4. live' # None => Decided(live)' BY <3>1 DEF Decided
    <3> QED BY <1>0, <3>1, <3>3, <3>4 DEF HoldInv
  <2> QED BY <1>2, <2>1, <2>2, <2>3, <2>4, <2>5 DEF Claiming
<1>3. ASSUME Receiving(p) PROVE HoldInv'
  <2>1. UNCHANGED <<pclaim, live, accepted, acked>>
    BY <1>3 DEF Receiving, Recover, Download, DownloadRefused, Renew, Install
  <2>2. run[p].pc \in {"recover", "download", "renew", "install"} /\ run[p].flow # "processed"
    BY <1>0, <1>3 DEF Receiving, Recover, Download, DownloadRefused, Renew, Install, At, WellFormed
  <2>3. CASE Recover(p)
    <3>1. /\ run'[p].flow = run[p].flow /\ run'[p].key = run[p].key
          /\ run'[p].pc \in {"download", "loadseq", "mismatch"}
      BY <2>3 DEF Recover, Goto, TypeOK, Run
    <3> QED BY <1>0, <1>1, <2>1, <2>2, <3>1 DEF Holding
  <2>4. CASE \/ Stop(p)
             \/ \E pc \in {"renew", "install", "loadseq"} : Goto(p, pc)
    <3>1. Stop(p) \/ /\ run'[p].flow = run[p].flow /\ run'[p].key = run[p].key
                     /\ run'[p].pc \in {"renew", "install", "loadseq"}
      BY <2>4, GotoOnly
    <3> QED BY <1>0, <1>1, <2>1, <2>2, <3>1 DEF Holding
  <2> QED BY <1>3, <2>3, <2>4 DEF Receiving, Download, DownloadRefused, Renew, Install
<1>4. ASSUME Submitting(p) PROVE HoldInv'
  <2>1. UNCHANGED <<pclaim, live>> /\ accepted \subseteq accepted' /\ acked' \subseteq accepted'
    BY <1>0, <1>4 DEF Submitting, LoadSeq, SaveSeq, Submit, ReceiptResponseLost, SaveProgress
  <2>2. run[p].pc \in {"loadseq", "saveseq", "submit", "saveprog"}
    BY <1>4 DEF Submitting, LoadSeq, SaveSeq, Submit, ReceiptResponseLost, SaveProgress, At
  <2>3. Stop(p) \/ /\ run'[p].flow = run[p].flow /\ run'[p].key = run[p].key
                   /\ run'[p].pc \in {"saveseq", "submit", "saveprog", "mismatch", "context", "unseq"}
    <3>1. CASE LoadSeq(p) BY <3>1 DEF LoadSeq, Goto, TypeOK, Run, After
    <3>2. CASE SaveSeq(p) \/ SaveProgress(p)
      BY <3>2 DEF SaveSeq, SaveProgress, Goto, TypeOK, Run, After
    <3>3. CASE Submit(p) \/ ReceiptResponseLost(p)
      BY <3>3 DEF Submit, ReceiptResponseLost, TypeOK, Run
    <3> QED BY <1>4, <3>1, <3>2, <3>3 DEF Submitting
  <2> QED BY <1>1, <2>1, <2>2, <2>3 DEF Holding
<1>5. ASSUME Finishing(p) PROVE HoldInv'
  <2>0. UNCHANGED <<live, accepted, acked>>
    BY <1>5 DEF Finishing, SaveContext, RemoveClaim, RemoveSeq, ReportMismatch
  \* The last receipt of a claiming flow is its verdict.
  <2>1. ASSUME Stored(run[p].flow, run[p].seq), run[p].flow # "processed",
               run[p].pc \in {"context", "unseq"}
        PROVE  Decided(run[p].key)
    <3>1. run[p].seq.next = Length(run[p].flow) /\ run[p].seq.claim = run[p].key
      BY <1>0, <2>1 DEF WellFormed, Matches
    <3> DEFINE i == Length(run[p].flow) - 1
               r == Submission(run[p].flow, run[p].seq, i)
    <3>2. i \in 0..(Length(run[p].flow) - 1) /\ i < run[p].seq.next
      BY <3>1 DEF Length
    <3>3. r \in accepted BY <1>0, <2>1, <3>2 DEF Stored, Counted
    <3>4. r.claim = run[p].key /\ r.type \in {"verified", "rejected"}
      BY <2>1, <3>1 DEF Submission, TypeAt, Length, Flows
    <3> QED BY <3>3, <3>4 DEF Decided
  <2>2. CASE SaveContext(p)
    <3>1. Stored(run[p].flow, run[p].seq) /\ run[p].flow = "receive" /\ run[p].pc = "context"
      BY <1>0, <2>2 DEF SingleInv, SaveContext, At, WellFormed
    <3>2. run'[p].pc = "unclaim" /\ run'[p].key = run[p].key /\ pclaim' = pclaim
      BY <2>2, GotoOnly DEF SaveContext
    <3>3. Decided(run[p].key) /\ pclaim = run[p].key
      BY <1>0, <2>1, <3>1 DEF RunHolds, Holding
    <3>4. RunHolds(run[p])' BY <2>0, <3>2, <3>3 DEF RunHolds, Holding, Decided
    <3> QED BY <1>0, <2>0, <3>2, <3>4, HoldQuiet
  <2>3. CASE RemoveClaim(p)
    <3>1. pclaim' = None /\ pclaim = run[p].key /\ Decided(run[p].key)
      BY <1>0, <2>3 DEF RemoveClaim, At, RunHolds, Holding
    <3>2. live' # None => Decided(live)' BY <1>0, <2>0, <3>1 DEF Decided
    <3>3. RunHolds(run[p])'
      <4>1. CASE Stop(p) BY <4>1, StoppedHolds
      <4>2. CASE run[p].flow = "receive" /\ Goto(p, "unseq")
        BY <4>2, GotoOnly DEF RunHolds, Holding
      <4> QED BY <2>3, <4>1, <4>2 DEF RemoveClaim
    <3> QED BY <1>0, <2>0, <3>2, <3>3 DEF HoldInv
  <2>4. CASE RemoveSeq(p)
    <3>1. pclaim' = pclaim BY <2>4 DEF RemoveSeq
    <3>2. CASE run[p].flow = "rejected"
      <4>1. Stored(run[p].flow, run[p].seq) /\ run[p].pc = "unseq"
        BY <2>4 DEF SingleInv, RemoveSeq, At
      <4>2. run'[p].pc = "unclaim" /\ run'[p].key = run[p].key
        BY <2>4, <3>2, GotoOnly DEF RemoveSeq
      <4>3. Decided(run[p].key) /\ pclaim = run[p].key
        BY <1>0, <2>1, <3>2, <4>1 DEF RunHolds, Holding
      <4>4. RunHolds(run[p])' BY <2>0, <3>1, <4>2, <4>3 DEF RunHolds, Holding, Decided
      <4> QED BY <1>0, <2>0, <3>1, <4>4, HoldQuiet
    <3>3. CASE run[p].flow # "rejected"
      BY <1>0, <1>1, <2>0, <2>4, <3>1, <3>3 DEF RemoveSeq
    <3> QED BY <3>2, <3>3
  <2>5. CASE ReportMismatch(p) BY <1>0, <1>1, <2>0, <2>5 DEF ReportMismatch
  <2> QED BY <1>5, <2>2, <2>3, <2>4, <2>5 DEF Finishing
<1>6. ASSUME Starting(p) PROVE HoldInv'
  <2>1. UNCHANGED <<pclaim, live, accepted, acked>>
        /\ (run'[p].pc = "load" \/ (run'[p].pc = "loadseq" /\ run'[p].flow = "processed"))
    <3>1. ASSUME NEW c, NEW d, NEW ow, StartClaiming(p, c, d, ow)
          PROVE  UNCHANGED <<pclaim, live, accepted, acked>> /\ run'[p].pc = "load"
      BY <3>1 DEF StartClaiming, Idle, TypeOK
    <3>2. CASE StartProcessed(p)
      BY <3>2 DEF StartProcessed, Idle, TypeOK
    <3> QED BY <1>6, <3>1, <3>2 DEF Starting
  <2>2. RunHolds(run[p])' BY <2>1 DEF RunHolds, Holding
  <2> QED BY <1>0, <2>1, <2>2, HoldQuiet
<1>7. CASE Abort(p) \/ Crash(p) BY <1>0, <1>1, <1>7 DEF Abort, Crash
<1>8. CASE \E d \in Dirs : Tidy(d) BY <1>0, <1>1, <1>8 DEF Tidy
<1>9. CASE LeaseExpires BY <1>0, <1>1, <1>9 DEF LeaseExpires
<1>10. CASE UNCHANGED vars BY <1>0, <1>1, <1>10 DEF vars
<1> QED BY <1>2, <1>3, <1>4, <1>5, <1>6, <1>7, <1>8, <1>9, <1>10 DEF Next

\* With one process at a time, the key that recovers a running lease, and with it the nonce
\* its receipts are signed for, is on disk until the lease has its verdict, whenever a run
\* stops and whichever answers are lost.
THEOREM SingleProcessRecoversClaim ==
    ASSUME NEW only, Procs = {only}
    PROVE  Spec => []ClaimRecoverable
<1>1. Init => SingleInv /\ HoldInv
  BY DEF Init, SingleInv, NothingForgotten, Counted, NoSeq, Idle, HoldInv, RunHolds, Holding
<1>2. TypeOK /\ SingleInv /\ HoldInv /\ [Next]_vars => SingleInv' /\ HoldInv'
  BY SingleStep, HoldStep
<1>3. HoldInv => ClaimRecoverable BY DEF HoldInv, ClaimRecoverable, Decided
<1> QED BY <1>1, <1>2, <1>3, TypeCorrect, PTL DEF Spec
=============================================================================
