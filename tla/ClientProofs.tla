----------------------------- MODULE ClientProofs -----------------------------
(***************************************************************************)
(* Proofs about IdentityCreate, FileUpload, FileListing and FileDownload.  *)
(* Each has an inductive invariant of its own.                             *)
(***************************************************************************)
EXTENDS IdentityCreate, FileUpload, FileListing, FileDownload, FiniteSetTheorems, SequenceTheorems,
        WellFoundedInduction, TLAPS

---------------------------------------------------------------------------
(* FileUpload *)

\* The generated identity of the upload at work is where its kind puts it, from the moment
\* the identity is written until the upload was refused or printed.
IdentityKept ==
    /\ up.pc \in {"encrypt", "send", "refused", "kept", "link", "print", "cleanup"}
         => (up.kind = "out" => outFile = uploads)
    /\ up.pc \in {"encrypt", "send", "refused", "kept", "link", "print"}
         => (up.kind = "recovery" => uploads \in recovery)
    /\ UpAt("cleanup") => (up.kind = "recovery" => uploads \in shown)

\* Nothing was stored for an upload that was not sent, or was refused.
NotYetStored ==
    /\ stored \subseteq 1..uploads
    /\ up.pc \in {"check", "identity", "encrypt", "send", "refused"} => uploads \notin stored

\* Only an upload of a generating kind is sealed to an identity of its own.
SealedByKind ==
    /\ ~UpAt("idle") => (uploads \in sealed <=> Generates(up.kind))
    /\ UpAt("check") => up.kind = "tool"

UploadInv == UploadTypes /\ IdentityKept /\ NotYetStored /\ SealedByKind /\ Decryptable

LEMMA UploadInductive ==
    ASSUME OutputFails = FALSE, UploadInv, [UploadNext]_uploadVars
    PROVE  UploadInv'
<1>. USE UploadAssumption DEF UploadInv, UploadTypes, IdentityKept, NotYetStored, SealedByKind,
        Decryptable, Uploads, Kinds, UpSteps, Nobody, Generates, UpAt, UpGoto
<1>1. ASSUME NEW kind \in Kinds, NEW link \in BOOLEAN, StartUpload(kind, link) PROVE UploadInv'
    BY <1>1 DEF StartUpload
<1>2. CASE CheckQuota BY <1>2 DEF CheckQuota
<1>19. CASE StartUploadFile BY <1>19 DEF StartUploadFile
<1>3. CASE WriteOut BY <1>3 DEF WriteOut
<1>4. CASE WriteRecovery BY <1>4 DEF WriteRecovery
<1>5. CASE WriteIdentityFails BY <1>5 DEF WriteIdentityFails
<1>6. CASE Encrypt BY <1>6 DEF Encrypt
<1>7. CASE EncryptFails BY <1>7 DEF EncryptFails, Forget
<1>8. CASE Send BY <1>8 DEF Send, Store
<1>9. CASE SendRefused BY <1>9 DEF SendRefused
<1>10. CASE SendUnclear BY <1>10 DEF SendUnclear, Store
<1>11. CASE KeepIdentity BY <1>11 DEF KeepIdentity
<1>12. CASE DiscardIdentity BY <1>12 DEF DiscardIdentity, Forget
<1>13. CASE Link BY <1>13 DEF Link
<1>14. CASE PrintUpload BY <1>14 DEF PrintUpload
<1>15. CASE CleanUpUpload BY <1>15 DEF CleanUpUpload
<1>16. CASE UploadCrash BY <1>16 DEF UploadCrash, Store
<1>17. CASE TidyIdentity BY <1>17 DEF TidyIdentity
<1>18. CASE UNCHANGED uploadVars BY <1>18 DEF uploadVars
<1>. QED
    BY <1>1, <1>2, <1>3, <1>4, <1>5, <1>6, <1>7, <1>8, <1>9, <1>10, <1>11, <1>12, <1>13, <1>14,
       <1>15, <1>16, <1>17, <1>18, <1>19 DEF UploadNext

\* When what is printed is not lost without an error: a ciphertext the service may hold can be
\* decrypted, for any number of uploads, failures and crashes.
THEOREM UploadDecryptable == ASSUME OutputFails = FALSE PROVE UploadSpec => []Decryptable
<1>1. UploadInit => UploadInv
    BY UploadAssumption DEF UploadInit, UploadInv, UploadTypes, IdentityKept, NotYetStored,
        SealedByKind, Decryptable, Uploads, Kinds, UpSteps, Nobody, UpAt, UpRest
<1>2. UploadInv /\ [UploadNext]_uploadVars => UploadInv'
    BY UploadInductive
<1>. QED
    BY <1>1, <1>2, PTL DEF UploadSpec, UploadInv

---------------------------------------------------------------------------
(* IdentityCreate, with one process at a time *)

LEMMA RunBecomes ==
    ASSUME NEW p \in Procs, run \in [Procs -> Run], NEW r \in Run, Become(p, r)
    PROVE  run' \in [Procs -> Run]
    BY DEF Become

LEMMA TriesReset == \A r \in Run : [r EXCEPT !.tries = 0] \in Run
    BY DEF Run

LEMMA RunGoesOn ==
    ASSUME NEW p \in Procs, run \in [Procs -> Run], NEW pc \in RunSteps, Goto(p, pc)
    PROVE  run' \in [Procs -> Run]
<1>1. [run[p] EXCEPT !.pc = pc] \in Run
    BY DEF Run
<1>2. [run[p] EXCEPT !.pc = pc, !.tries = 0] \in Run
    BY <1>1, TriesReset
<1>. QED
    BY <1>2, RunBecomes DEF Goto

\* A run begins for an identity, with or without its pair, and gets a pair of its own.
LEMMA RunBegins ==
    ASSUME NEW i \in Ids, NEW pc \in RunSteps, NEW k \in {None} \cup Pairs
    PROVE  /\ [Idle EXCEPT !.pc = pc, !.id = i] \in Run
           /\ [Idle EXCEPT !.pc = pc, !.id = i, !.pair = k] \in Run
<1>1. Idle \in Run
    BY DEF Run, Idle, RunSteps, None
<1>2. [Idle EXCEPT !.pc = pc] \in Run
    BY <1>1 DEF Run
<1>3. [Idle EXCEPT !.pc = pc, !.id = i] \in Run
    BY <1>2 DEF Run
<1>. QED
    BY <1>3 DEF Run

LEMMA RunPaired ==
    ASSUME NEW r \in Run, NEW k \in Pairs
    PROVE  [r EXCEPT !.pc = "save", !.pair = k, !.tries = 0] \in Run
<1>1. [r EXCEPT !.pc = "save"] \in Run
    BY DEF Run, RunSteps
<1>2. [r EXCEPT !.pc = "save", !.pair = k] \in Run
    BY <1>1 DEF Run
<1>. QED
    BY <1>2, TriesReset

LEMMA RunEnds ==
    ASSUME NEW p \in Procs, run \in [Procs -> Run], EndRun(p)
    PROVE  run' \in [Procs -> Run]
    BY DEF Become, EndRun, Run, Idle, RunSteps

\* Every step keeps the types, whoever takes it.
LEMMA CreateTypesKept ==
    ASSUME CreateTypes, [CreateNext]_createVars
    PROVE  CreateTypes'
<1>. USE CreateAssumption DEF CreateTypes, Ids, Pairs, None, At, service, counters
<1>1. ASSUME NEW p \in Procs, BeginNew(p) PROVE CreateTypes'
  <2>3. ids + 1 \in Ids
    BY <1>1 DEF BeginNew
  <2>1. [Idle EXCEPT !.pc = "draft", !.id = ids + 1] \in Run
    BY <2>3, RunBegins DEF RunSteps
  <2>2. run' \in [Procs -> Run] BY <1>1, <2>1, RunBecomes DEF BeginNew
  <2>. QED BY <1>1, <2>2 DEF BeginNew, Become, Goto, EndRun, Run, Idle, Draft, NoDraft
<1>2. ASSUME NEW p \in Procs, BeginAgain(p) PROVE CreateTypes'
  <2>1. draft.id \in Ids /\ draft.pair \in {None} \cup Pairs
    BY <1>2 DEF BeginAgain, Draft
  <2>3. [Idle EXCEPT !.pc = IF draft.pair = None THEN "ask" ELSE "match",
                     !.id = draft.id, !.pair = draft.pair] \in Run
    BY <2>1, RunBegins DEF RunSteps
  <2>2. run' \in [Procs -> Run] BY <1>2, <2>3, RunBecomes DEF BeginAgain
  <2>. QED BY <1>2, <2>2 DEF BeginAgain, Become, Goto, EndRun, Run, Idle, Draft, NoDraft
<1>3. ASSUME NEW p \in Procs, SaveDraft(p) PROVE CreateTypes'
  <2>2. run' \in [Procs -> Run] BY <1>3, RunGoesOn DEF SaveDraft, RunSteps
  <2>. QED BY <1>3, <2>2 DEF SaveDraft, Become, Goto, EndRun, Run, Idle, Draft, NoDraft
<1>4. ASSUME NEW p \in Procs, Challenge(p) PROVE CreateTypes'
  <2>3. pairs + 1 \in Pairs
    BY <1>4 DEF Challenge
  <2>1. [run[p] EXCEPT !.pc = "save", !.pair = pairs + 1, !.tries = 0] \in Run
    BY <2>3, RunPaired
  <2>2. run' \in [Procs -> Run] BY <1>4, <2>1, RunBecomes DEF Challenge
  <2>. QED BY <1>4, <2>2 DEF Challenge, Become, Goto, EndRun, Run, Idle, Draft, NoDraft
<1>5. ASSUME NEW p \in Procs, Save(p) PROVE CreateTypes'
  <2>2. run' \in [Procs -> Run] BY <1>5, RunGoesOn DEF Save, RunSteps
  <2>. QED BY <1>5, <2>2 DEF Save, Become, Goto, EndRun, Run, Idle, Draft, NoDraft
<1>6. ASSUME NEW p \in Procs, SaveDone(p) PROVE CreateTypes'
  <2>2. run' \in [Procs -> Run] BY <1>6, RunGoesOn DEF SaveDone, RunSteps
  <2>. QED BY <1>6, <2>2 DEF SaveDone, Become, Goto, EndRun, Run, Idle, Draft, NoDraft
<1>7. ASSUME NEW p \in Procs, Record(p) PROVE CreateTypes'
  <2>2. run' \in [Procs -> Run] BY <1>7, RunGoesOn DEF Record, RunSteps
  <2>. QED BY <1>7, <2>2 DEF Record, Become, Goto, EndRun, Run, Idle, Draft, NoDraft
<1>8. ASSUME NEW p \in Procs, Match(p) PROVE CreateTypes'
  <2>2. run' \in [Procs -> Run] BY <1>8, RunGoesOn, RunEnds DEF Match, RunSteps
  <2>3. CASE Goto(p, "publish") BY <1>8, <2>2, <2>3 DEF Match, Become, Goto, Run
  <2>4. CASE EndRun(p) BY <1>8, <2>2, <2>4 DEF Match, Become, EndRun, Idle
  <2>. QED BY <1>8, <2>3, <2>4 DEF Match
<1>9. ASSUME NEW p \in Procs, Publish(p) PROVE CreateTypes'
  <2>2. run' \in [Procs -> Run] BY <1>9, RunGoesOn DEF Publish, Accepts, RunSteps
  <2>. QED BY <1>9, <2>2 DEF Publish, Accepts, Become, Goto, EndRun, Run, Idle, Draft, NoDraft
<1>10. ASSUME NEW p \in Procs, PublishRefused(p) PROVE CreateTypes'
  <2>2. run' \in [Procs -> Run] BY <1>10, RunEnds DEF PublishRefused
  <2>. QED BY <1>10, <2>2 DEF PublishRefused, Become, Goto, EndRun, Run, Idle, Draft, NoDraft
<1>11. ASSUME NEW p \in Procs, Clear(p) PROVE CreateTypes'
  <2>2. run' \in [Procs -> Run] BY <1>11, RunEnds DEF Clear
  <2>. QED BY <1>11, <2>2 DEF Clear, Become, Goto, EndRun, Run, Idle, Draft, NoDraft
<1>12. ASSUME NEW p \in Procs, Lose(p) PROVE CreateTypes'
  <2>1. EndRun(p) \/ Become(p, [run[p] EXCEPT !.tries = 1]) BY <1>12 DEF Lose, Fault
  <2>3. [run[p] EXCEPT !.tries = 1] \in Run BY DEF Run
  <2>2. run' \in [Procs -> Run] BY <2>1, <2>3, RunEnds, RunBecomes
  <2>4. /\ created' \in [Ids -> {None} \cup Pairs]
        /\ UNCHANGED <<file, moved, left, draft, lapsed, ids, pairs>> /\ faults' \in Nat
    BY <1>12 DEF Lose, Fault, Accepts
  <2>5. CASE EndRun(p) BY <2>2, <2>4, <2>5 DEF Become, EndRun, Idle
  <2>6. CASE Become(p, [run[p] EXCEPT !.tries = 1]) BY <2>2, <2>4, <2>6 DEF Become, Run
  <2>. QED BY <2>1, <2>5, <2>6
<1>13. ASSUME NEW p \in Procs, WriteFails(p) PROVE CreateTypes'
  <2>2. run' \in [Procs -> Run] BY <1>13, RunEnds DEF WriteFails, Fault
  <2>. QED BY <1>13, <2>2 DEF WriteFails, Fault, Become, Goto, EndRun, Run, Idle, Draft, NoDraft
<1>14. ASSUME NEW p \in Procs, Crash(p) PROVE CreateTypes'
  <2>2. run' \in [Procs -> Run] BY <1>14, RunEnds DEF Crash, Fault
  <2>. QED BY <1>14, <2>2 DEF Crash, Fault, Become, Goto, EndRun, Run, Idle, Draft, NoDraft
<1>15. ASSUME NEW i \in Ids, Expire(i) \/ Rotate(i) PROVE CreateTypes'
    BY <1>15 DEF Expire, Rotate
<1>16. CASE UNCHANGED createVars
    BY <1>16 DEF createVars
<1>. QED
    BY <1>1, <1>2, <1>3, <1>4, <1>5, <1>6, <1>7, <1>8, <1>9, <1>10, <1>11, <1>12, <1>13, <1>14,
       <1>15, <1>16 DEF CreateNext, Step, Work

\* The pending file says what was published or may be: no keys of its identity are accepted
\* before it holds the signed request, and then those keys are in the identity's file.
DraftSound == draft # NoDraft =>
    /\ draft.id <= ids
    /\ draft.pair = None => created[draft.id] = None
    /\ draft.pair # None => file[draft.id] = draft.pair

\* Identities that were not begun have neither a file nor published keys.
Unbegun == \A i \in Ids : i > ids => file[i] = None /\ created[i] = None

\* What the command has in hand belongs to what is pending.
InHand(r) ==
    /\ r.pc = "draft" =>
         draft = NoDraft /\ r.id <= ids /\ file[r.id] = None /\ created[r.id] = None
    /\ r.pc \in {"ask", "save", "saving", "record"} =>
         draft # NoDraft /\ draft.id = r.id /\ draft.pair = None
    /\ r.pc = "record" => file[r.id] = r.pair
    /\ r.pc \in {"match", "publish", "clear"} =>
         draft # NoDraft /\ draft.id = r.id /\ draft.pair = r.pair
    /\ r.pc = "clear" => created[r.id] = r.pair

CreateInv ==
    /\ CreateTypes /\ DraftSound /\ Unbegun
    /\ \A p \in Procs : InHand(run[p])
    /\ KeysHeld /\ NoOrphan

LEMMA CreateInductive ==
    ASSUME NEW p, Procs = {p}, CreateInv, [CreateNext]_createVars
    PROVE  CreateInv'
<1>. DEFINE Hand == InHand(run[p])
<1>0. CreateTypes /\ DraftSound /\ Unbegun /\ Hand /\ KeysHeld /\ NoOrphan
    BY DEF CreateInv
<1>t. CreateTypes'
    BY CreateTypesKept DEF CreateInv
<1>. SUFFICES DraftSound' /\ Unbegun' /\ Hand' /\ KeysHeld' /\ NoOrphan'
    BY <1>t DEF CreateInv
<1>. USE CreateAssumption DEF CreateTypes, Ids, Pairs, None, NoDraft, Draft, At, Become, Goto, EndRun, Idle,
        service, counters
<1>1. CASE BeginNew(p)
  <2>. USE <1>1 DEF BeginNew
  <2>1. DraftSound' BY <1>0 DEF DraftSound, Unbegun, InHand, Run
  <2>2. Unbegun' BY <1>0 DEF Unbegun, InHand, DraftSound, Run
  <2>3. Hand' BY <1>0 DEF InHand, DraftSound, Unbegun, Run
  <2>4. KeysHeld' BY <1>0 DEF InHand, DraftSound, KeysHeld, Run
  <2>5. NoOrphan' BY <1>0 DEF InHand, DraftSound, Unbegun, NoOrphan, Run
  <2>. QED BY <2>1, <2>2, <2>3, <2>4, <2>5
<1>2. CASE BeginAgain(p)
  <2>. USE <1>2 DEF BeginAgain
  <2>1. DraftSound' BY <1>0 DEF DraftSound, Unbegun, InHand, Run
  <2>2. Unbegun' BY <1>0 DEF Unbegun, InHand, DraftSound, Run
  <2>3. Hand' BY <1>0 DEF InHand, DraftSound, Unbegun, Run
  <2>4. KeysHeld' BY <1>0 DEF InHand, DraftSound, KeysHeld, Run
  <2>5. NoOrphan' BY <1>0 DEF InHand, DraftSound, Unbegun, NoOrphan, Run
  <2>. QED BY <2>1, <2>2, <2>3, <2>4, <2>5
<1>3. CASE SaveDraft(p)
  <2>. USE <1>3 DEF SaveDraft
  <2>1. DraftSound' BY <1>0 DEF DraftSound, Unbegun, InHand, Run
  <2>2. Unbegun' BY <1>0 DEF Unbegun, InHand, DraftSound, Run
  <2>3. Hand' BY <1>0 DEF InHand, DraftSound, Unbegun, Run
  <2>4. KeysHeld' BY <1>0 DEF InHand, DraftSound, KeysHeld, Run
  <2>5. NoOrphan' BY <1>0 DEF InHand, DraftSound, Unbegun, NoOrphan, Run
  <2>. QED BY <2>1, <2>2, <2>3, <2>4, <2>5
<1>4. CASE Challenge(p)
  <2>. USE <1>4 DEF Challenge
  <2>1. DraftSound' BY <1>0 DEF DraftSound, Unbegun, InHand, Run
  <2>2. Unbegun' BY <1>0 DEF Unbegun, InHand, DraftSound, Run
  <2>3. Hand' BY <1>0 DEF InHand, DraftSound, Unbegun, Run
  <2>4. KeysHeld' BY <1>0 DEF InHand, DraftSound, KeysHeld, Run
  <2>5. NoOrphan' BY <1>0 DEF InHand, DraftSound, Unbegun, NoOrphan, Run
  <2>. QED BY <2>1, <2>2, <2>3, <2>4, <2>5
<1>5. CASE Save(p)
  <2>. USE <1>5 DEF Save
  <2>1. DraftSound' BY <1>0 DEF DraftSound, Unbegun, InHand, Run
  <2>2. Unbegun' BY <1>0 DEF Unbegun, InHand, DraftSound, Run
  <2>3. Hand' BY <1>0 DEF InHand, DraftSound, Unbegun, Run
  <2>4. KeysHeld' BY <1>0 DEF InHand, DraftSound, KeysHeld, Run
  <2>5. NoOrphan' BY <1>0 DEF InHand, DraftSound, Unbegun, NoOrphan, Run
  <2>. QED BY <2>1, <2>2, <2>3, <2>4, <2>5
<1>6. CASE SaveDone(p)
  <2>. USE <1>6 DEF SaveDone
  <2>1. DraftSound' BY <1>0 DEF DraftSound, Unbegun, InHand, Run
  <2>2. Unbegun' BY <1>0 DEF Unbegun, InHand, DraftSound, Run
  <2>3. Hand' BY <1>0 DEF InHand, DraftSound, Unbegun, Run
  <2>4. KeysHeld' BY <1>0 DEF InHand, DraftSound, KeysHeld, Run
  <2>5. NoOrphan' BY <1>0 DEF InHand, DraftSound, Unbegun, NoOrphan, Run
  <2>. QED BY <2>1, <2>2, <2>3, <2>4, <2>5
<1>7. CASE Record(p)
  <2>. USE <1>7 DEF Record
  <2>1. DraftSound' BY <1>0 DEF DraftSound, Unbegun, InHand, Run
  <2>2. Unbegun' BY <1>0 DEF Unbegun, InHand, DraftSound, Run
  <2>3. Hand' BY <1>0 DEF InHand, DraftSound, Unbegun, Run
  <2>4. KeysHeld' BY <1>0 DEF InHand, DraftSound, KeysHeld, Run
  <2>5. NoOrphan' BY <1>0 DEF InHand, DraftSound, Unbegun, NoOrphan, Run
  <2>. QED BY <2>1, <2>2, <2>3, <2>4, <2>5
<1>8. CASE Match(p)
  <2>. USE <1>8 DEF Match
  <2>1. DraftSound' BY <1>0 DEF DraftSound, Unbegun, InHand, Run
  <2>2. Unbegun' BY <1>0 DEF Unbegun, InHand, DraftSound, Run
  <2>3. Hand'
    <3>1. CASE Goto(p, "publish") BY <1>0, <3>1 DEF InHand, Run
    <3>2. CASE EndRun(p) BY <1>0, <3>2 DEF InHand, Run
    <3>. QED BY <3>1, <3>2
  <2>4. KeysHeld' BY <1>0 DEF InHand, DraftSound, KeysHeld, Run
  <2>5. NoOrphan' BY <1>0 DEF InHand, DraftSound, Unbegun, NoOrphan, Run
  <2>. QED BY <2>1, <2>2, <2>3, <2>4, <2>5
<1>9. CASE Publish(p)
  <2>. USE <1>9 DEF Publish, Accepts
  <2>1. DraftSound' BY <1>0 DEF DraftSound, Unbegun, InHand, Run
  <2>2. Unbegun' BY <1>0 DEF Unbegun, InHand, DraftSound, Run
  <2>3. Hand' BY <1>0 DEF InHand, DraftSound, Unbegun, Run
  <2>4. KeysHeld' BY <1>0 DEF InHand, DraftSound, KeysHeld, Run
  <2>5. NoOrphan' BY <1>0 DEF InHand, DraftSound, Unbegun, NoOrphan, Run
  <2>. QED BY <2>1, <2>2, <2>3, <2>4, <2>5
<1>10. CASE PublishRefused(p)
  <2>. USE <1>10 DEF PublishRefused
  <2>1. DraftSound' BY <1>0 DEF DraftSound, Unbegun, InHand, Run
  <2>2. Unbegun' BY <1>0 DEF Unbegun, InHand, DraftSound, Run
  <2>3. Hand' BY <1>0 DEF InHand, DraftSound, Unbegun, Run
  <2>4. KeysHeld' BY <1>0 DEF InHand, DraftSound, KeysHeld, Run
  <2>5. NoOrphan' BY <1>0 DEF InHand, DraftSound, Unbegun, NoOrphan, Run
  <2>. QED BY <2>1, <2>2, <2>3, <2>4, <2>5
<1>11. CASE Clear(p)
  <2>. USE <1>11 DEF Clear
  <2>1. DraftSound' BY <1>0 DEF DraftSound, Unbegun, InHand, Run
  <2>2. Unbegun' BY <1>0 DEF Unbegun, InHand, DraftSound, Run
  <2>3. Hand' BY <1>0 DEF InHand, DraftSound, Unbegun, Run
  <2>4. KeysHeld' BY <1>0 DEF InHand, DraftSound, KeysHeld, Run
  <2>5. NoOrphan' BY <1>0 DEF InHand, DraftSound, Unbegun, NoOrphan, Run
  <2>. QED BY <2>1, <2>2, <2>3, <2>4, <2>5
<1>12. CASE Lose(p)
  <2>. USE <1>12 DEF Lose, Fault, Accepts
  <2>1. DraftSound' BY <1>0 DEF DraftSound, Unbegun, InHand, Run
  <2>2. Unbegun' BY <1>0 DEF Unbegun, InHand, DraftSound, Run
  <2>3. Hand' BY <1>0 DEF InHand, DraftSound, Unbegun, Run
  <2>4. KeysHeld' BY <1>0 DEF InHand, DraftSound, KeysHeld, Run
  <2>5. NoOrphan' BY <1>0 DEF InHand, DraftSound, Unbegun, NoOrphan, Run
  <2>. QED BY <2>1, <2>2, <2>3, <2>4, <2>5
<1>13. CASE WriteFails(p)
  <2>. USE <1>13 DEF WriteFails, Fault
  <2>1. DraftSound' BY <1>0 DEF DraftSound, Unbegun, InHand, Run
  <2>2. Unbegun' BY <1>0 DEF Unbegun, InHand, DraftSound, Run
  <2>3. Hand' BY <1>0 DEF InHand, DraftSound, Unbegun, Run
  <2>4. KeysHeld' BY <1>0 DEF InHand, DraftSound, KeysHeld, Run
  <2>5. NoOrphan' BY <1>0 DEF InHand, DraftSound, Unbegun, NoOrphan, Run
  <2>. QED BY <2>1, <2>2, <2>3, <2>4, <2>5
<1>14. CASE Crash(p)
  <2>. USE <1>14 DEF Crash, Fault
  <2>1. DraftSound' BY <1>0 DEF DraftSound, Unbegun, InHand, Run
  <2>2. Unbegun' BY <1>0 DEF Unbegun, InHand, DraftSound, Run
  <2>3. Hand' BY <1>0 DEF InHand, DraftSound, Unbegun, Run
  <2>4. KeysHeld' BY <1>0 DEF InHand, DraftSound, KeysHeld, Run
  <2>5. NoOrphan' BY <1>0 DEF InHand, DraftSound, Unbegun, NoOrphan, Run
  <2>. QED BY <2>1, <2>2, <2>3, <2>4, <2>5
<1>15. CASE \E i \in Ids : Expire(i) \/ Rotate(i)
    BY <1>0, <1>15 DEF Expire, Rotate, DraftSound, Unbegun, InHand, KeysHeld, NoOrphan
<1>16. CASE UNCHANGED createVars
    BY <1>0, <1>16 DEF createVars, DraftSound, Unbegun, InHand, KeysHeld, NoOrphan
<1>. QED
    BY <1>1, <1>2, <1>3, <1>4, <1>5, <1>6, <1>7, <1>8, <1>9, <1>10, <1>11, <1>12, <1>13, <1>14,
       <1>15, <1>16 DEF CreateNext, Step, Work

LEMMA CreateTypesAtFirst == ASSUME CreateInit PROVE CreateTypes
<1>. USE CreateAssumption DEF CreateInit, Ids, Pairs, None, Idle
<1>1. Idle \in Run
    BY DEF Run, RunSteps
<1>2. run \in [Procs -> Run] /\ \A q \in Procs : run[q].pc = "idle"
    BY <1>1
<1>3. file \in [Ids -> {None} \cup Pairs] /\ created \in [Ids -> {None} \cup Pairs]
    OBVIOUS
<1>4. draft = NoDraft /\ draft \in {NoDraft} \cup Draft
    OBVIOUS
<1>5. ids = 0 /\ pairs = 0 /\ faults = 0 /\ left = FALSE /\ moved = {} /\ lapsed = {}
    OBVIOUS
<1>6. ids \in 0..MaxIds /\ pairs \in 0..MaxPairs /\ faults \in Nat
    BY <1>5
<1>7. moved \subseteq Ids /\ lapsed \subseteq Ids /\ left \in BOOLEAN
    BY <1>5
<1>. QED
    BY <1>2, <1>3, <1>4, <1>6, <1>7 DEF CreateTypes, At

LEMMA CreateInvariant == ASSUME NEW p, Procs = {p} PROVE CreateSpec => []CreateInv
<1>1. ASSUME CreateInit PROVE CreateInv
  <2>. USE <1>1, CreateAssumption DEF CreateInit, Ids, Pairs, None, Idle
  <2>1. CreateTypes
    BY CreateTypesAtFirst
  <2>. QED
    BY <2>1 DEF CreateInv, DraftSound, Unbegun, InHand, KeysHeld, NoOrphan
<1>2. CreateInv /\ [CreateNext]_createVars => CreateInv'
    BY CreateInductive
<1>. QED
    BY <1>1, <1>2, PTL DEF CreateSpec

\* With one process: the private halves of a published identity are in its file, wherever
\* commands are cut short and however often they are run again.
THEOREM CreateKeysHeld == ASSUME NEW p, Procs = {p} PROVE CreateSpec => []KeysHeld
    BY CreateInvariant, PTL DEF CreateInv

\* With one process: the keys of an identity nobody published are those of the pending one.
THEOREM CreateNoOrphan == ASSUME NEW p, Procs = {p} PROVE CreateSpec => []NoOrphan
    BY CreateInvariant, PTL DEF CreateInv

\* The files, the runs and the service's records are well formed, for any number of processes.
THEOREM CreateTypesHold == CreateSpec => []CreateTypes
<1>1. CreateInit => CreateTypes
    BY CreateTypesAtFirst
<1>2. CreateTypes /\ [CreateNext]_createVars => CreateTypes'
    BY CreateTypesKept
<1>. QED
    BY <1>1, <1>2, PTL DEF CreateSpec

---------------------------------------------------------------------------
(* FileDownload *)

File == {Absent, Other, Left} \cup [by : Callers, is : Held]
Op == [pc : OpSteps, kind : CommandKinds \cup ToolKinds, dest : Dests, tries : 0..1,
       charged : Nat, temp : {"none", "bad", "whole"}]

LEMMA RestIsOp == Rest \in Op
<1>1. (CHOOSE d \in Dests : TRUE) \in Dests
    BY DownloadAssumption
<1>. QED
    BY <1>1 DEF Rest, Op, OpSteps, CommandKinds, ToolKinds

LEMMA OpGoes == ASSUME op \in [Callers -> Op], NEW c \in Callers, NEW pc \in OpSteps, Go(c, pc)
                PROVE  op' \in [Callers -> Op]
    BY DEF Go, Op

LEMMA OpEnds == ASSUME op \in [Callers -> Op], NEW c \in Callers, Done(c)
                PROVE  op' \in [Callers -> Op]
    BY RestIsOp DEF Done

LEMMA OpBegins ==
    ASSUME op \in [Callers -> Op], NEW c \in Callers, NEW pc \in OpSteps,
           NEW kind \in CommandKinds \cup ToolKinds, NEW d \in Dests, Begin(c, pc, kind, d)
    PROVE  op' \in [Callers -> Op]
<1>1. [Rest EXCEPT !.pc = pc] \in Op
    BY RestIsOp DEF Op
<1>2. [Rest EXCEPT !.pc = pc, !.kind = kind] \in Op
    BY <1>1 DEF Op
<1>3. [Rest EXCEPT !.pc = pc, !.kind = kind, !.dest = d] \in Op
    BY <1>2 DEF Op
<1>. QED
    BY <1>3 DEF Begin

LEMMA OpServed ==
    ASSUME op \in [Callers -> Op], NEW c \in Callers, NEW pc \in OpSteps, Served(c, pc)
    PROVE  op' \in [Callers -> Op]
<1>. DEFINE charged == op[c].charged + 1
<1>1. charged \in Nat
    BY DEF Op
<1>2. [op[c] EXCEPT !.pc = pc] \in Op
    BY DEF Op
<1>3. [op EXCEPT ![c].pc = pc] \in [Callers -> Op] /\ [op EXCEPT ![c].pc = pc][c].charged + 1 \in Nat
    BY <1>2, <1>1 DEF Op
<1>4. [op EXCEPT ![c].pc = pc, ![c].charged = @ + 1] \in [Callers -> Op]
    BY <1>3 DEF Op
<1>. QED
    BY <1>4 DEF Op, Served

\* Which steps a command and a tool call can be at, and with what a call comes to publish.
Places == \A c \in Callers :
    /\ c \in Commands
         => op[c].pc \in {"idle", "meta", "ask", "open", "create", "fill", "check", "remove"}
    /\ c \in Tools => op[c].pc \in {"idle", "path", "look", "meta", "ask", "fill", "compare",
                                  "publish", "unlink"}
    /\ c \in Tools /\ ~In(c, "idle") => op[c].kind \in ToolKinds
    /\ c \in Tools /\ In(c, "publish") => op[c].temp = "whole"

\* A partial or corrupt file belongs to the command that is filling or removing it.
PartsHeld == \A c \in Commands, d \in Dests :
    /\ disk[d] = FileOf(c, "part") => op[c].dest = d /\ op[c].pc \in {"fill", "remove"}
    /\ disk[d] = FileOf(c, "bad") => op[c].dest = d /\ op[c].pc \in {"check", "remove"}

ToolsWhole == \A d \in Dests : disk[d].by \in Tools => disk[d].is = "whole"

\* The callers that may still remove what is under their destination.
Owns(c) == op[c].pc \in {"check", "remove", "unlink"} \/ (c \in Commands /\ In(c, "fill"))

Own(c) == IF c \in Commands THEN {FileOf(c, "part"), FileOf(c, "bad")} ELSE {FileOf(c, "whole")}

\* There is something under such a destination, their own file unless it was replaced ...
OwnedThere == \A c \in Callers : Owns(c) =>
    /\ disk[op[c].dest] \notin {Absent, Other}
    /\ op[c].dest \notin replaced => disk[op[c].dest] \in Own(c)

\* ... and nobody else is about to remove it.
OwnedAlone == \A c, e \in Callers : Owns(c) /\ Owns(e) /\ c # e => op[c].dest # op[e].dest

\* Before a download is answered nothing was charged for it.
NotYetCharged == \A c \in Callers :
    /\ op[c].charged <= 1
    /\ op[c].pc \in {"idle", "path", "look", "meta", "ask"} => op[c].charged = 0

DownloadInv ==
    /\ DownloadTypes /\ Places /\ PartsHeld /\ ToolsWhole /\ OwnedThere /\ OwnedAlone
    /\ NotYetCharged

LEMMA NoCallerApart == NoCaller \notin Commands /\ NoCaller \notin Tools
                       /\ Commands \cap Tools = {}
    BY CallerAssumption, DownloadAssumption DEF Callers

LEMMA TypesOf == DownloadTypes <=> /\ disk \in [Dests -> File] /\ op \in [Callers -> Op]
                                  /\ replaced \subseteq Dests /\ explicit \in RootSets
                                  /\ host \in [known : BOOLEAN, failed : BOOLEAN, roots : SUBSET Roots]
    BY DEF DownloadTypes, File, Op

CommandSteps == {"idle", "meta", "ask", "open", "create", "fill", "check", "remove"}
ToolSteps == {"idle", "path", "look", "meta", "ask", "fill", "compare", "publish", "unlink"}

\* A step that leaves the disk alone, and whose caller stops owning its destination or goes on
\* to remove what it owned.
LEMMA Quiet ==
    ASSUME DownloadInv, NEW c \in Callers, op' \in [Callers -> Op],
           \A e \in Callers : e # c => op'[e] = op[e], UNCHANGED <<disk, replaced, policy>>,
           c \in Commands => op'[c].pc \in CommandSteps,
           c \in Tools => op'[c].pc \in ToolSteps,
           c \in Tools /\ op'[c].pc # "idle" => op'[c].kind \in ToolKinds,
           c \in Tools /\ op'[c].pc = "publish" => op'[c].temp = "whole",
           op'[c].pc \in {"check", "unlink"} \/ (c \in Commands /\ op'[c].pc = "fill") => FALSE,
           op'[c].pc = "remove" => op'[c].dest = op[c].dest /\ c \in Commands /\ op[c].pc \in {"fill", "check"},
           c \in Commands /\ op[c].pc \in {"fill", "check", "remove"} => op'[c].pc = "remove",
           op'[c].charged <= 1 /\ (op'[c].pc \in {"idle", "path", "look", "meta", "ask"} => op'[c].charged = 0)
    PROVE  DownloadInv'
<1>1. DownloadTypes'
    BY TypesOf DEF DownloadInv, DownloadTypes, File, Op, policy
<1>2. Places'
    BY DEF Places, DownloadInv, In, CommandSteps, ToolSteps
<1>3. PartsHeld'
    BY DEF PartsHeld, DownloadInv, Callers
<1>4. ToolsWhole'
    BY DEF ToolsWhole, DownloadInv
<1>5. \A e \in Callers : Owns(e)' => Owns(e) /\ op'[e].dest = op[e].dest
    BY DEF Owns, In
<1>6. OwnedThere' /\ OwnedAlone'
    BY <1>5 DEF OwnedThere, OwnedAlone, DownloadInv
<1>7. NotYetCharged'
    BY DEF NotYetCharged, DownloadInv
<1>. QED
    BY <1>1, <1>2, <1>3, <1>4, <1>6, <1>7 DEF DownloadInv

LEMMA QuietEnd ==
    ASSUME DownloadInv, NEW c \in Callers, Done(c), UNCHANGED <<disk, replaced, policy>>,
           c \in Commands => op[c].pc \notin {"fill", "check", "remove"}
    PROVE  DownloadInv'
<1>1. op' \in [Callers -> Op] /\ \A e \in Callers : e # c => op'[e] = op[e]
    BY TypesOf, OpEnds DEF DownloadInv, Done
<1>2. op'[c] = Rest
    BY TypesOf DEF DownloadInv, Done
<1>. QED
    BY <1>1, <1>2, Quiet DEF Rest, CommandSteps, ToolSteps

LEMMA QuietGoes ==
    ASSUME DownloadInv, NEW c \in Callers, NEW pc \in OpSteps, Go(c, pc),
           UNCHANGED <<disk, replaced, policy>>,
           c \in Commands => pc \in CommandSteps,
           c \in Tools => pc \in ToolSteps /\ op[c].pc # "idle",
           c \in Tools /\ pc = "publish" => op[c].temp = "whole",
           pc \in {"check", "unlink"} \/ (c \in Commands /\ pc = "fill") => FALSE,
           pc = "remove" => c \in Commands /\ op[c].pc \in {"fill", "check"},
           c \in Commands /\ op[c].pc \in {"fill", "check", "remove"} => pc = "remove",
           pc \in {"idle", "path", "look", "meta", "ask"} => op[c].charged = 0
    PROVE  DownloadInv'
<1>1. op \in [Callers -> Op] /\ op[c].charged <= 1 /\ (c \in Tools => op[c].kind \in ToolKinds)
    BY TypesOf DEF DownloadInv, NotYetCharged, Places, In
<1>2. op' \in [Callers -> Op] /\ \A e \in Callers : e # c => op'[e] = op[e]
    BY <1>1, OpGoes DEF Go
<1>3. op'[c].pc = pc /\ op'[c].dest = op[c].dest /\ op'[c].kind = op[c].kind
      /\ op'[c].charged = op[c].charged /\ op'[c].temp = op[c].temp
    BY <1>1 DEF Op, Go
<1>. QED
    BY <1>1, <1>2, <1>3, Quiet

LEMMA QuietBegins ==
    ASSUME DownloadInv, NEW c \in Callers, NEW pc \in OpSteps, NEW d \in Dests,
           NEW kind \in CommandKinds \cup ToolKinds, Begin(c, pc, kind, d),
           pc \in {"path", "meta", "ask", "open"},
           c \in Commands => pc \in CommandSteps,
           c \in Tools => pc \in ToolSteps /\ kind \in ToolKinds
    PROVE  DownloadInv'
<1>1. op \in [Callers -> Op] /\ In(c, "idle") /\ UNCHANGED <<disk, replaced, policy>>
    BY TypesOf DEF DownloadInv, Begin
<1>2. op' \in [Callers -> Op] /\ \A e \in Callers : e # c => op'[e] = op[e]
    BY <1>1, OpBegins DEF Begin
<1>3. op'[c].pc = pc /\ op'[c].kind = kind /\ op'[c].charged = 0
    BY <1>1 DEF Begin, Rest
<1>. QED
    BY <1>1, <1>2, <1>3, Quiet DEF In

\* The steps of a command or a call that leave the disk alone.
LEMMA QuietSteps ==
    ASSUME DownloadInv, NEW c \in Callers,
           \/ \E d \in Dests : StartDownload(c, d) \/ StartDecrypt(c, d) \/ StartTool(c, d)
           \/ DownloadPath(c) \/ Look(c) \/ ReadMeta(c) \/ Ask(c) \/ AskLimited(c) \/ AskUnclear(c)
           \/ OpenInput(c) \/ CopyFails(c) \/ CheckDigest(c) \/ FillTemp(c) \/ CheckTemp(c)
           \/ PublishFails(c) \/ Unlink(c)
    PROVE  DownloadInv'
<1>. USE NoCallerApart DEF In
<1>1. /\ c \in Commands => op[c].pc \in CommandSteps
      /\ c \in Tools => op[c].pc \in ToolSteps
      /\ c \in Commands \/ c \in Tools
      /\ op[c].pc \in {"idle", "path", "look", "meta", "ask"} => op[c].charged = 0
    BY DEF DownloadInv, Places, NotYetCharged, CommandSteps, ToolSteps, Callers
<1>2. ASSUME NEW d \in Dests, StartDownload(c, d) PROVE DownloadInv'
    BY <1>2, QuietBegins DEF StartDownload, OpSteps, CommandSteps, CommandKinds
<1>3. ASSUME NEW d \in Dests, StartDecrypt(c, d) PROVE DownloadInv'
    BY <1>3, QuietBegins DEF StartDecrypt, OpSteps, CommandSteps, CommandKinds
<1>4. ASSUME NEW d \in Dests, StartTool(c, d) PROVE DownloadInv'
    BY <1>4, QuietBegins DEF StartTool, OpSteps, ToolSteps
<1>. USE <1>1 DEF CommandSteps, ToolSteps, OpSteps
<1>5. CASE DownloadPath(c)
    BY <1>5, QuietEnd, QuietGoes DEF DownloadPath
<1>6. CASE Look(c)
    BY <1>6, QuietEnd, QuietGoes DEF Look
<1>7. CASE ReadMeta(c)
    BY <1>7, QuietEnd, QuietGoes DEF ReadMeta
<1>8. CASE Ask(c)
  <2>. DEFINE pc == IF c \in Tools THEN "fill" ELSE "create"
  <2>1. op \in [Callers -> Op] /\ Served(c, pc) /\ UNCHANGED <<disk, replaced, policy>>
    BY <1>8, TypesOf DEF Ask, DownloadInv
  <2>2. op' \in [Callers -> Op] /\ \A e \in Callers : e # c => op'[e] = op[e]
    BY <2>1, OpServed DEF Served
  <2>3. op'[c].pc = pc /\ op'[c].charged = 1 /\ op'[c].kind = op[c].kind
    BY <2>1, <1>8 DEF Served, Op, Ask
  <2>4. c \in Tools => op[c].kind \in ToolKinds
    BY <1>8 DEF Ask, DownloadInv, Places
  <2>. QED
    BY <1>8, <2>1, <2>2, <2>3, <2>4, Quiet DEF Ask
<1>9. CASE AskLimited(c)
  <2>1. CASE Done(c)
    BY <1>9, <2>1, QuietEnd DEF AskLimited
  <2>2. CASE op' = [op EXCEPT ![c].tries = 1]
    <3>1. op \in [Callers -> Op] /\ UNCHANGED <<disk, replaced, policy>>
      BY <1>9, TypesOf DEF DownloadInv, AskLimited
    <3>2. op' \in [Callers -> Op] /\ \A e \in Callers : e # c => op'[e] = op[e]
      BY <2>2, <3>1 DEF Op
    <3>3. op'[c].pc = "ask" /\ op'[c].charged = 0 /\ op'[c].kind = op[c].kind
      BY <1>9, <2>2, <3>1 DEF Op, AskLimited
    <3>4. c \in Tools => op[c].kind \in ToolKinds
      BY <1>9 DEF AskLimited, DownloadInv, Places
    <3>. QED
      BY <1>9, <3>1, <3>2, <3>3, <3>4, Quiet DEF AskLimited
  <2>. QED
    BY <1>9, <2>1, <2>2 DEF AskLimited
<1>10. CASE AskUnclear(c)
    BY <1>10, QuietEnd DEF AskUnclear
<1>11. CASE OpenInput(c)
    BY <1>11, QuietEnd, QuietGoes DEF OpenInput
<1>12. CASE CopyFails(c)
    BY <1>12, QuietGoes DEF CopyFails
<1>13. CASE CheckDigest(c)
    BY <1>13, QuietGoes DEF CheckDigest
<1>14. CASE FillTemp(c)
  <2>1. CASE Done(c)
    BY <1>14, <2>1, QuietEnd DEF FillTemp
  <2>2. ASSUME NEW is \in {"whole", "bad"}, op' = [op EXCEPT ![c].temp = is, ![c].pc = "compare"]
        PROVE  DownloadInv'
    <3>1. op \in [Callers -> Op] /\ UNCHANGED <<disk, replaced, policy>>
      BY <1>14, TypesOf DEF DownloadInv, FillTemp
    <3>2. op' \in [Callers -> Op] /\ \A e \in Callers : e # c => op'[e] = op[e]
      BY <2>2, <3>1 DEF Op
    <3>3. op'[c].pc = "compare" /\ op'[c].charged = op[c].charged /\ op'[c].kind = op[c].kind
      BY <2>2, <3>1 DEF Op
    <3>4. c \in Tools /\ op[c].kind \in ToolKinds /\ op[c].charged <= 1
      BY <1>14 DEF FillTemp, DownloadInv, Places, NotYetCharged
    <3>. QED
      BY <3>1, <3>2, <3>3, <3>4, Quiet
  <2>. QED
    BY <1>14, <2>1, <2>2 DEF FillTemp
<1>17. CASE CheckTemp(c)
    BY <1>17, QuietEnd, QuietGoes DEF CheckTemp
<1>15. CASE PublishFails(c)
    BY <1>15, QuietEnd DEF PublishFails
<1>16. CASE Unlink(c)
    BY <1>16, QuietEnd DEF Unlink
<1>. QED
    BY <1>2, <1>3, <1>4, <1>5, <1>6, <1>7, <1>8, <1>9, <1>10, <1>11, <1>12, <1>13, <1>14, <1>15, <1>16, <1>17

\* What the steps that write or remove a destination have in common: only it changes, and
\* their caller keeps to its steps.
LEMMA Writing ==
    ASSUME DownloadInv, NEW c \in Callers, op' \in [Callers -> Op], disk' \in [Dests -> File],
           \A e \in Callers : e # c => op'[e] = op[e],
           \A d \in Dests : d # op[c].dest => disk'[d] = disk[d],
           replaced' \subseteq Dests, UNCHANGED policy,
           c \in Commands => op'[c].pc \in CommandSteps,
           c \in Tools => op'[c].pc \in ToolSteps,
           c \in Tools /\ op'[c].pc # "idle" => op'[c].kind \in ToolKinds,
           c \in Tools /\ op'[c].pc = "publish" => op'[c].temp = "whole",
           disk'[op[c].dest].by \in Tools => disk'[op[c].dest].is = "whole",
           op'[c].charged <= 1 /\ (op'[c].pc \in {"idle", "path", "look", "meta", "ask"} => op'[c].charged = 0)
    PROVE  DownloadTypes' /\ Places' /\ ToolsWhole' /\ NotYetCharged'
<1>1. DownloadTypes'
    BY TypesOf DEF DownloadInv, DownloadTypes, File, Op, policy
<1>2. Places'
    BY DEF Places, DownloadInv, In, CommandSteps, ToolSteps
<1>3. ToolsWhole'
    BY DEF ToolsWhole, DownloadInv
<1>4. NotYetCharged'
    BY DEF NotYetCharged, DownloadInv
<1>. QED
    BY <1>1, <1>2, <1>3, <1>4

LEMMA Facts ==
    ASSUME DownloadInv, NEW c \in Callers
    PROVE  /\ op \in [Callers -> Op] /\ disk \in [Dests -> File] /\ op[c].dest \in Dests
           /\ op[c].charged <= 1 /\ op[c].charged \in Nat
           /\ c \in Commands => op[c].pc \in CommandSteps
           /\ c \in Tools => op[c].pc \in ToolSteps
           /\ c \in Tools /\ op[c].pc # "idle" => op[c].kind \in ToolKinds
           /\ c \in Tools /\ op[c].pc = "publish" => op[c].temp = "whole"
           /\ c \in Commands \/ c \in Tools
           /\ replaced \subseteq Dests
    BY TypesOf DEF DownloadInv, Places, NotYetCharged, CommandSteps, ToolSteps, Callers, In, Op

\* A caller ends, and what is under its destination changes or goes.
LEMMA EndsWriting ==
    ASSUME DownloadInv, NEW c \in Callers, Done(c), NEW f \in File,
           disk' = [disk EXCEPT ![op[c].dest] = f],
           f.by \in Tools => f.is = "whole",
           f \notin {FileOf(e, "part") : e \in Commands} \cup {FileOf(e, "bad") : e \in Commands},
           \/ Owns(c) /\ UNCHANGED replaced
           \/ c \in Tools /\ f \notin {Absent, Other} /\ replaced' = replaced \cup {op[c].dest},
           UNCHANGED policy
    PROVE  DownloadInv'
<1>. USE Facts, NoCallerApart
<1>1. op' \in [Callers -> Op] /\ \A e \in Callers : e # c => op'[e] = op[e]
    BY OpEnds DEF Done
<1>2. op'[c].pc = "idle" /\ op'[c].charged = 0
    BY DEF Done, Rest
<1>3. disk' \in [Dests -> File] /\ disk'[op[c].dest] = f
      /\ \A d \in Dests : d # op[c].dest => disk'[d] = disk[d]
    OBVIOUS
<1>4. DownloadTypes' /\ Places' /\ ToolsWhole' /\ NotYetCharged'
    BY <1>1, <1>2, <1>3, Writing DEF CommandSteps, ToolSteps
<1>5. PartsHeld'
  <2>. SUFFICES ASSUME NEW e \in Commands, NEW d \in Dests, NEW is \in {"part", "bad"},
                       disk'[d] = FileOf(e, is)
                PROVE  e # c /\ disk[d] = FileOf(e, is)
    BY <1>1 DEF PartsHeld, DownloadInv, Callers
  <2>1. d # op[c].dest /\ disk[d] = FileOf(e, is)
    BY <1>3
  <2>2. ASSUME e = c PROVE FALSE
    <3>1. op[c].dest = d
      BY <2>1, <2>2 DEF PartsHeld, DownloadInv
    <3>. QED
      BY <2>1, <3>1
  <2>. QED
    BY <2>1, <2>2
<1>6. OwnedThere' /\ OwnedAlone'
  <2>1. \A e \in Callers : Owns(e)' => e # c /\ Owns(e) /\ op'[e].dest = op[e].dest
    BY <1>1, <1>2 DEF Owns, In
  <2>2. OwnedAlone'
    BY <2>1 DEF OwnedAlone, DownloadInv
  <2>3. ASSUME NEW e \in Callers, Owns(e)'
        PROVE  /\ disk'[op[e].dest] \notin {Absent, Other}
               /\ op[e].dest \notin replaced' => disk'[op[e].dest] \in Own(e)
    <3>1. e # c /\ Owns(e) /\ op[e].dest \in Dests
      BY <2>1, <2>3
    <3>2. /\ disk[op[e].dest] \notin {Absent, Other}
          /\ op[e].dest \notin replaced => disk[op[e].dest] \in Own(e)
      BY <3>1 DEF OwnedThere, DownloadInv
    <3>3. CASE Owns(c)
      BY <1>3, <3>1, <3>2, <3>3 DEF OwnedAlone, DownloadInv
    <3>4. CASE c \in Tools /\ f \notin {Absent, Other} /\ replaced' = replaced \cup {op[c].dest}
      BY <1>3, <3>1, <3>2, <3>4
    <3>. QED
      BY <3>3, <3>4
  <2>. QED
    BY <2>1, <2>2, <2>3 DEF OwnedThere, Own
<1>. QED
    BY <1>4, <1>5, <1>6 DEF DownloadInv

LEMMA FilesOf == /\ Absent \in File /\ Other \in File /\ Absent.by = NoCaller /\ Other.by = NoCaller
                 /\ \A c \in Callers, is \in Held : FileOf(c, is) \in File
                 /\ \A c \in Callers, is \in Held : FileOf(c, is).by = c /\ FileOf(c, is).is = is
                 /\ \A c \in Callers, is \in Held : FileOf(c, is) \notin {Absent, Other}
    BY CallerAssumption DEF File, FileOf, Absent, Other, Held

\* A command ends, and what it has not completed stays.
LEMMA LeavesBehind ==
    ASSUME DownloadInv, NEW c \in Commands, Done(c), disk' = LeftBehind(c),
           UNCHANGED <<replaced, policy>>
    PROVE  DownloadInv'
<1>0. c \in Callers
    BY DEF Callers
<1>. USE <1>0, Facts, NoCallerApart, FilesOf DEF In, CommandSteps, ToolSteps
<1>1. op' \in [Callers -> Op] /\ \A e \in Callers : e # c => op'[e] = op[e]
    BY OpEnds DEF Done
<1>2. op'[c].pc = "idle" /\ op'[c].charged = 0 
    BY DEF Done, Rest
<1>3. \A d \in Dests : disk'[d] = IF disk[d] \in {FileOf(c, "part"), FileOf(c, "bad")}
                                  THEN Left ELSE disk[d]
    BY DEF LeftBehind
<1>4. Left \in File /\ Left.by = NoCaller /\ Left \notin {Absent, Other}
    BY DEF Left, File, FileOf, Absent, Other
<1>5. disk' \in [Dests -> File]
    BY <1>4 DEF LeftBehind
<1>6. DownloadTypes'
    BY <1>1, <1>2, <1>5, TypesOf DEF DownloadInv, DownloadTypes, File, Op, policy
<1>7. Places' /\ NotYetCharged'
    BY <1>1, <1>2 DEF Places, NotYetCharged, DownloadInv
<1>8. ToolsWhole'
    BY <1>3, <1>4 DEF ToolsWhole, DownloadInv
<1>9. PartsHeld'
  <2>. SUFFICES ASSUME NEW e \in Commands, NEW d \in Dests, NEW is \in {"part", "bad"}, disk'[d] = FileOf(e, is)
                PROVE  e # c /\ disk[d] = FileOf(e, is)
    BY <1>1 DEF PartsHeld, DownloadInv, Callers
  <2>1. disk[d] = FileOf(e, is) /\ disk[d] \notin {FileOf(c, "part"), FileOf(c, "bad")}
    BY <1>3, <1>4 DEF FileOf
  <2>. QED
    BY <2>1
<1>10. \A e \in Callers : Owns(e)' => e # c /\ Owns(e) /\ op'[e] = op[e]
    BY <1>1, <1>2 DEF Owns
<1>11. OwnedAlone'
    BY <1>10 DEF OwnedAlone, DownloadInv
<1>12. OwnedThere'
  <2>1. ASSUME NEW e \in Callers, Owns(e)'
        PROVE  /\ disk'[op'[e].dest] \notin {Absent, Other}
               /\ op'[e].dest \notin replaced' => disk'[op'[e].dest] \in Own(e)
    <3>1. e # c /\ Owns(e) /\ op'[e] = op[e] /\ op[e].dest \in Dests
      BY <1>10, <2>1
    <3>2. /\ disk[op[e].dest] \notin {Absent, Other}
          /\ op[e].dest \notin replaced => disk[op[e].dest] \in Own(e)
      BY <3>1 DEF OwnedThere, DownloadInv
    <3>3. Own(e) \cap {FileOf(c, "part"), FileOf(c, "bad")} = {}
      BY <3>1, <1>2 DEF Own, FileOf
    <3>. QED
      BY <1>2, <1>3, <1>4, <3>1, <3>2, <3>3
  <2>. QED
    BY <2>1 DEF OwnedThere, Own
<1>. QED
    BY <1>6, <1>7, <1>8, <1>9, <1>11, <1>12 DEF DownloadInv

\* The removals, the replacement and the copies that end a command or a call.
LEMMA EndingSteps ==
    ASSUME DownloadInv, NEW c \in Callers,
           \/ RemoveOut(c) \/ UnlinkFails(c) \/ CommandStops(c) \/ Overwrite(c) \/ CopyPlain(c)
           \/ CopyBody(c) /\ Done(c)
    PROVE  DownloadInv'
<1>. USE Facts, NoCallerApart, FilesOf DEF In, CommandSteps, ToolSteps
<1>1. ASSUME RemoveOut(c) \/ UnlinkFails(c), disk' = [disk EXCEPT ![op[c].dest] = Absent]
      PROVE  DownloadInv'
  <2>1. Owns(c) /\ Done(c) /\ UNCHANGED <<replaced, policy>>
    BY <1>1 DEF RemoveOut, UnlinkFails, Owns
  <2>2. Absent \notin {FileOf(e, "part") : e \in Commands} \cup {FileOf(e, "bad") : e \in Commands}
    BY DEF Absent, FileOf
  <2>. QED
    BY <1>1, <2>1, <2>2, EndsWriting
<1>6. CASE RemoveOut(c)
  <2>1. c \in Commands /\ Done(c) /\ UNCHANGED <<replaced, policy>>
    BY <1>6 DEF RemoveOut
  <2>2. CASE disk' = LeftBehind(c)
    BY <2>1, <2>2, LeavesBehind
  <2>. QED
    BY <1>1, <1>6, <2>2 DEF RemoveOut
<1>7. CASE UnlinkFails(c)
  <2>1. c \in Tools /\ Done(c) /\ UNCHANGED <<replaced, policy>>
    BY <1>7 DEF UnlinkFails
  <2>2. CASE disk' = disk
    BY <2>1, <2>2, QuietEnd
  <2>. QED
    BY <1>1, <1>7, <2>2 DEF UnlinkFails
<1>8. CASE CommandStops(c)
    BY <1>8, LeavesBehind DEF CommandStops
<1>2. CASE Overwrite(c)
  <2>1. c \in Tools /\ Done(c) /\ disk' = [disk EXCEPT ![op[c].dest] = FileOf(c, "whole")]
        /\ replaced' = replaced \cup {op[c].dest} /\ UNCHANGED policy
    BY <1>2 DEF Overwrite, Put
  <2>2. FileOf(c, "whole") \notin {FileOf(e, "part") : e \in Commands} \cup {FileOf(e, "bad") : e \in Commands}
    BY DEF FileOf
  <2>3. FileOf(c, "whole") \in File /\ FileOf(c, "whole").is = "whole" /\ FileOf(c, "whole") \notin {Absent, Other}
    BY DEF Held
  <2>. QED
    BY <2>1, <2>2, <2>3, EndsWriting
<1>3. ASSUME NEW is \in {"unchecked", "whole"}, In(c, "fill"), c \in Commands, Fill(c, is), Done(c),
             UNCHANGED <<replaced, policy>>
      PROVE  DownloadInv'
  <2>1. Owns(c)
    BY <1>3 DEF Owns
  <2>2. CASE disk[op[c].dest] = FileOf(c, "part")
    <3>1. disk' = [disk EXCEPT ![op[c].dest] = FileOf(c, is)]
      BY <1>3, <2>2 DEF Fill, Put
    <3>2. FileOf(c, is) \in File /\ FileOf(c, is).by \notin Tools
      BY <1>3 DEF Held
    <3>3. FileOf(c, is) \notin {FileOf(e, "part") : e \in Commands} \cup {FileOf(e, "bad") : e \in Commands}
      BY <1>3 DEF FileOf
    <3>. QED
      BY <1>3, <2>1, <3>1, <3>2, <3>3, EndsWriting
  <2>3. CASE disk[op[c].dest] # FileOf(c, "part")
    <3>. DEFINE f == disk[op[c].dest]
    <3>1. disk' = [disk EXCEPT ![op[c].dest] = f] /\ f \in File
      BY <1>3, <2>3 DEF Fill
    <3>2. f.by \in Tools => f.is = "whole"
      BY DEF ToolsWhole, DownloadInv
    <3>3. ASSUME NEW e \in Commands, f = FileOf(e, "part") \/ f = FileOf(e, "bad") PROVE FALSE
      <4>1. op[e].dest = op[c].dest /\ op[e].pc \in {"fill", "check", "remove"}
        BY <3>3 DEF PartsHeld, DownloadInv
      <4>2. Owns(e) /\ e \in Callers
        BY <4>1 DEF Owns, Callers
      <4>3. e = c
        BY <2>1, <4>1, <4>2 DEF OwnedAlone, DownloadInv
      <4>. QED
        BY <1>3, <2>3, <3>3, <4>3 DEF PartsHeld, DownloadInv
    <3>4. f \notin {FileOf(e, "part") : e \in Commands} \cup {FileOf(e, "bad") : e \in Commands}
      BY <3>3
    <3>. HIDE DEF f
    <3>. QED
      BY <1>3, <2>1, <3>1, <3>2, <3>4, EndsWriting
  <2>. QED
    BY <2>2, <2>3
<1>4. CASE CopyPlain(c)
    BY <1>3, <1>4 DEF CopyPlain, ToolKinds
<1>5. CASE CopyBody(c) /\ Done(c)
  <2>1. c \in Commands
    BY <1>5 DEF CopyBody, ToolKinds
  <2>2. op'[c].pc = "idle"
    BY <1>5 DEF Done, Rest
  <2>3. ~Go(c, "check")
    BY <2>2 DEF Go, Op
  <2>. QED
    BY <1>3, <1>5, <2>1, <2>3 DEF CopyBody
<1>. QED
    BY <1>2, <1>4, <1>5, <1>6, <1>7, <1>8

\* A caller begins to own a destination that was free.
LEMMA BeginsToOwn ==
    ASSUME DownloadInv, NEW c \in Callers, NEW pc, NEW is, Go(c, pc), Put(c, is), Free(c),
           \/ pc = "fill" /\ c \in Commands /\ is = "part"
           \/ pc = "unlink" /\ c \in Tools /\ is = "whole" /\ op[c].pc # "idle",
           UNCHANGED <<replaced, policy>>
    PROVE  DownloadInv'
<1>. USE Facts, NoCallerApart, FilesOf DEF In, CommandSteps, ToolSteps
<1>1. op' \in [Callers -> Op] /\ \A e \in Callers : e # c => op'[e] = op[e]
  BY OpGoes DEF Go, OpSteps
<1>2. op'[c].pc = pc /\ op'[c].dest = op[c].dest /\ op'[c].kind = op[c].kind /\ op'[c].charged = op[c].charged
  BY DEF Go, Op
<1>3. FileOf(c, is) \in File
  BY DEF Held
<1>4. disk' \in [Dests -> File] /\ disk'[op[c].dest] = FileOf(c, is)
      /\ \A d \in Dests : d # op[c].dest => disk'[d] = disk[d]
  BY <1>3 DEF Put
<1>5. FileOf(c, is).by = c /\ FileOf(c, is).is = is /\ FileOf(c, is) \notin {Absent, Other}
  BY DEF Held
<1>6. DownloadTypes' /\ Places' /\ ToolsWhole' /\ NotYetCharged'
  BY <1>1, <1>2, <1>4, <1>5, Writing
<1>7. ASSUME NEW e \in Callers, Owns(e) PROVE op[e].dest # op[c].dest
  BY <1>7 DEF OwnedThere, DownloadInv, Free
<1>8. PartsHeld'
  <2>. SUFFICES ASSUME NEW e \in Commands, NEW d \in Dests
                PROVE  /\ disk'[d] = FileOf(e, "part") => op'[e].dest = d /\ op'[e].pc \in {"fill", "remove"}
                       /\ disk'[d] = FileOf(e, "bad") => op'[e].dest = d /\ op'[e].pc \in {"check", "remove"}
    BY DEF PartsHeld
  <2>1. CASE d = op[c].dest
    BY <1>2, <1>4, <2>1 DEF FileOf
  <2>2. CASE d # op[c].dest
    <3>1. disk'[d] = disk[d]
      BY <1>4, <2>2
    <3>2. disk[d] \in {FileOf(e, "part"), FileOf(e, "bad")} => e # c
      BY <2>2 DEF PartsHeld, DownloadInv
    <3>. QED
      BY <1>1, <3>1, <3>2 DEF PartsHeld, DownloadInv, Callers
  <2>. QED
    BY <2>1, <2>2
<1>9. \A e \in Callers : e # c /\ Owns(e)' => Owns(e) /\ op'[e].dest = op[e].dest /\ op[e].dest # op[c].dest
  BY <1>1, <1>7 DEF Owns
<1>10. OwnedAlone'
  BY <1>2, <1>9 DEF OwnedAlone, DownloadInv
<1>11. OwnedThere'
  <2>1. FileOf(c, is) \in Own(c)
    BY DEF Own
  <2>2. ASSUME NEW e \in Callers, Owns(e)', e # c
        PROVE  disk'[op'[e].dest] = disk[op[e].dest] /\ op'[e].dest = op[e].dest /\ Owns(e)
    BY <1>4, <1>9, <2>2
  <2>3. ASSUME NEW e \in Callers, Owns(e)'
        PROVE  /\ disk'[op'[e].dest] \notin {Absent, Other}
               /\ op'[e].dest \notin replaced' => disk'[op'[e].dest] \in Own(e)
    <3>1. CASE e = c
      BY <1>2, <1>4, <1>5, <2>1, <3>1
    <3>2. CASE e # c
      BY <2>2, <2>3, <3>2 DEF OwnedThere, DownloadInv
    <3>. QED
      BY <3>1, <3>2
  <2>. QED
    BY <2>3 DEF OwnedThere, Own
<1>. QED
    BY <1>6, <1>8, <1>10, <1>11 DEF DownloadInv

\* A command creates its destination, finds it corrupt, or a call publishes under it.
LEMMA OwningSteps ==
    ASSUME DownloadInv, NEW c \in Callers, CreateOut(c) \/ LinkDest(c) \/ (CopyBody(c) /\ Go(c, "check"))
    PROVE  DownloadInv'
<1>2. CASE CreateOut(c)
  <2>1. c \in Commands
    BY <1>2, Facts, NoCallerApart DEF CreateOut, ToolSteps, In
  <2>2. CASE Free(c)
    <3>1. Go(c, "fill") /\ Put(c, "part") /\ UNCHANGED <<replaced, policy>>
      BY <1>2, <2>2 DEF CreateOut
    <3>. QED
      BY <2>1, <2>2, <3>1, BeginsToOwn
  <2>3. CASE ~Free(c)
    <3>1. Done(c) /\ UNCHANGED <<disk, replaced, policy>> /\ op[c].pc = "create"
      BY <1>2, <2>3 DEF CreateOut, In
    <3>. QED
      BY <3>1, QuietEnd
  <2>. QED
    BY <2>2, <2>3
<1>3. CASE LinkDest(c)
  <2>1. c \in Tools /\ op[c].pc = "publish"
    BY <1>3, Facts DEF LinkDest, CommandSteps, In
  <2>2. CASE Free(c)
    <3>1. Go(c, "unlink") /\ Put(c, "whole") /\ UNCHANGED <<replaced, policy>>
      BY <1>3, <2>1, <2>2, Facts DEF LinkDest
    <3>. QED
      BY <2>1, <2>2, <3>1, BeginsToOwn
  <2>3. CASE ~Free(c)
    <3>1. Done(c) /\ UNCHANGED <<disk, replaced, policy>>
      BY <1>3, <2>3 DEF LinkDest
    <3>. QED
      BY <2>1, <3>1, NoCallerApart, QuietEnd
  <2>. QED
    BY <2>2, <2>3
<1>. USE Facts, NoCallerApart, FilesOf DEF In, CommandSteps, ToolSteps
<1>4. CASE CopyBody(c) /\ Go(c, "check")
  <2>. DEFINE d == op[c].dest
  <2>1. op' \in [Callers -> Op] /\ \A e \in Callers : e # c => op'[e] = op[e]
    BY <1>4, OpGoes DEF Go, OpSteps
  <2>2. op'[c].pc = "check" /\ op'[c].dest = d /\ op'[c].charged = op[c].charged
    BY <1>4 DEF Go, Op
  <2>3. c \in Commands /\ In(c, "fill") /\ Owns(c) /\ UNCHANGED <<replaced, policy>>
    BY <1>4 DEF CopyBody, ToolKinds, Owns
  <2>4. ~Done(c)
    BY <2>2 DEF Done, Rest
  <2>5. Fill(c, "bad")
    BY <1>4, <2>4 DEF CopyBody
  <2>6. FileOf(c, "bad") \in File /\ FileOf(c, "bad") \notin {Absent, Other} /\ FileOf(c, "bad").by \notin Tools
    BY <2>3 DEF Held
  <2>7. /\ disk' \in [Dests -> File] /\ \A x \in Dests : x # d => disk'[x] = disk[x]
        /\ disk'[d] = FileOf(c, "bad") \/ (disk'[d] = disk[d] /\ disk[d] # FileOf(c, "part"))
    BY <2>5, <2>6 DEF Fill, Put
  <2>8. DownloadTypes' /\ Places' /\ ToolsWhole' /\ NotYetCharged'
    <3>1. disk'[d].by \in Tools => disk'[d].is = "whole"
      BY <2>6, <2>7 DEF ToolsWhole, DownloadInv
    <3>. QED
      BY <2>1, <2>2, <2>3, <2>7, <3>1, Writing
  <2>9. \A e \in Callers : e # c /\ Owns(e)' => Owns(e) /\ op'[e] = op[e] /\ op[e].dest # d
    BY <2>1, <2>3 DEF Owns, OwnedAlone, DownloadInv
  <2>10. PartsHeld'
    <3>. SUFFICES ASSUME NEW e \in Commands, NEW x \in Dests
                  PROVE  /\ disk'[x] = FileOf(e, "part") => op'[e].dest = x /\ op'[e].pc \in {"fill", "remove"}
                         /\ disk'[x] = FileOf(e, "bad") => op'[e].dest = x /\ op'[e].pc \in {"check", "remove"}
      BY DEF PartsHeld
    <3>1. CASE e = c
      BY <2>2, <2>3, <2>7, <3>1 DEF PartsHeld, DownloadInv, FileOf
    <3>2. CASE e # c
      <4>1. disk'[x] \in {FileOf(e, "part"), FileOf(e, "bad")} => disk'[x] = disk[x]
        BY <2>7, <3>2 DEF FileOf
      <4>. QED
        BY <2>1, <3>2, <4>1 DEF PartsHeld, DownloadInv, Callers
    <3>. QED
      BY <3>1, <3>2
  <2>11. OwnedAlone'
    BY <2>2, <2>9 DEF OwnedAlone, DownloadInv
  <2>12. OwnedThere'
    <3>1. disk[d] \notin {Absent, Other} /\ (d \notin replaced => disk[d] \in Own(c))
      BY <2>3 DEF OwnedThere, DownloadInv
    <3>2. disk'[d] \notin {Absent, Other} /\ (d \notin replaced' => disk'[d] \in Own(c))
      BY <2>3, <2>6, <2>7, <3>1 DEF Own
    <3>3. ASSUME NEW e \in Callers, Owns(e)', e # c
          PROVE  disk'[op'[e].dest] = disk[op[e].dest] /\ op'[e].dest = op[e].dest /\ Owns(e)
      BY <2>7, <2>9, <3>3
    <3>. QED
      BY <2>2, <2>3, <3>2, <3>3 DEF OwnedThere, DownloadInv, Own
  <2>. QED
    BY <2>8, <2>10, <2>11, <2>12 DEF DownloadInv
<1>. QED
    BY <1>2, <1>3, <1>4

LEMMA ServerStopSteps == ASSUME DownloadInv, ServerStops PROVE DownloadInv'
<1>. USE NoCallerApart DEF In
<1>1. op \in [Callers -> Op] /\ op' = [c \in Callers |-> IF c \in Tools THEN Rest ELSE op[c]]
      /\ UNCHANGED <<disk, replaced, explicit>> /\ host' = HostUnknown
    BY TypesOf DEF ServerStops, DownloadInv
<1>2. op' \in [Callers -> Op] /\ \A c \in Callers : c \notin Tools => op'[c] = op[c]
    BY <1>1, RestIsOp
<1>3. \A c \in Callers : c \in Tools => op'[c].pc = "idle" /\ op'[c].charged = 0
    BY <1>1 DEF Rest
<1>4. DownloadTypes'
    BY <1>1, <1>2, TypesOf DEF DownloadInv, DownloadTypes, File, Op, HostUnknown
<1>5. Places' /\ NotYetCharged'
    BY <1>2, <1>3 DEF Places, NotYetCharged, DownloadInv
<1>6. PartsHeld' /\ ToolsWhole'
    BY <1>1, <1>2 DEF PartsHeld, ToolsWhole, DownloadInv, Callers
<1>7. \A c \in Callers : Owns(c)' => Owns(c) /\ op'[c] = op[c]
    BY <1>2, <1>3 DEF Owns
<1>8. OwnedThere' /\ OwnedAlone'
    BY <1>1, <1>7 DEF OwnedThere, OwnedAlone, DownloadInv, Own
<1>. QED
    BY <1>4, <1>5, <1>6, <1>8 DEF DownloadInv

LEMMA OtherSteps ==
    ASSUME DownloadInv,
           (\E roots \in RootSets : RefreshHost(roots)) \/ SetHostError \/ \E d \in Dests : OtherWrites(d)
    PROVE  DownloadInv'
<1>1. ASSUME UNCHANGED <<disk, op, replaced, explicit>>, host' \in [known : BOOLEAN, failed : BOOLEAN, roots : SUBSET Roots]
      PROVE  DownloadInv'
  <2>1. DownloadTypes'
    BY <1>1 DEF DownloadInv, DownloadTypes
  <2>2. Places' /\ PartsHeld' /\ ToolsWhole' /\ NotYetCharged'
    BY <1>1 DEF DownloadInv, Places, PartsHeld, ToolsWhole, NotYetCharged, In
  <2>3. \A c \in Callers : Owns(c)' <=> Owns(c)
    BY <1>1 DEF Owns, In
  <2>4. OwnedThere' /\ OwnedAlone'
    BY <1>1, <2>3 DEF DownloadInv, OwnedThere, OwnedAlone, Own
  <2>. QED
    BY <2>1, <2>2, <2>4 DEF DownloadInv
<1>2. ASSUME NEW roots \in RootSets, RefreshHost(roots) PROVE DownloadInv'
    BY <1>1, <1>2, DownloadAssumption DEF RefreshHost
<1>3. CASE SetHostError
    BY <1>1, <1>3 DEF SetHostError
<1>4. ASSUME NEW d \in Dests, OtherWrites(d) PROVE DownloadInv'
  <2>. USE NoCallerApart, FilesOf
  <2>1. disk \in [Dests -> File] /\ disk' = [disk EXCEPT ![d] = Other] /\ disk[d] = Absent
        /\ UNCHANGED <<op, replaced, policy>>
    BY <1>4, TypesOf DEF OtherWrites, DownloadInv
  <2>2. DownloadTypes'
    BY <2>1, TypesOf DEF DownloadInv, DownloadTypes, File, Op, policy
  <2>3. Places' /\ NotYetCharged' /\ OwnedAlone'
    BY <2>1 DEF Places, NotYetCharged, OwnedAlone, DownloadInv, In, Owns
  <2>4. PartsHeld' /\ ToolsWhole'
    BY <2>1 DEF PartsHeld, ToolsWhole, DownloadInv, FileOf, Other
  <2>5. OwnedThere'
    <3>1. ASSUME NEW c \in Callers, Owns(c) PROVE disk'[op[c].dest] = disk[op[c].dest]
      BY <2>1, <3>1, Facts DEF OwnedThere, DownloadInv
    <3>2. \A c \in Callers : Owns(c)' <=> Owns(c)
      BY <2>1 DEF Owns, In
    <3>. QED
      BY <2>1, <3>1, <3>2 DEF OwnedThere, DownloadInv, Own
  <2>. QED
    BY <2>2, <2>3, <2>4, <2>5 DEF DownloadInv
<1>. QED
    BY <1>2, <1>3, <1>4

LEMMA DownloadInductive == ASSUME DownloadInv, [DownloadNext]_downloadVars PROVE DownloadInv'
<1>1. ASSUME NEW c \in Callers, DownloadStep(c) PROVE DownloadInv'
  <2>1. CASE CopyBody(c)
    <3>1. Done(c) \/ Go(c, "check")
      BY <2>1 DEF CopyBody
    <3>. QED
      BY <2>1, <3>1, EndingSteps, OwningSteps
  <2>. QED
    BY <1>1, <2>1, QuietSteps, EndingSteps, OwningSteps DEF DownloadStep
<1>2. CASE UNCHANGED downloadVars
  <2>1. \A c \in Callers : Owns(c)' <=> Owns(c)
    BY <1>2 DEF downloadVars, Owns, In
  <2>2. DownloadTypes' /\ Places' /\ PartsHeld' /\ ToolsWhole' /\ NotYetCharged'
    BY <1>2 DEF DownloadInv, downloadVars, policy, DownloadTypes, Places, PartsHeld, ToolsWhole, NotYetCharged, In
  <2>3. OwnedThere' /\ OwnedAlone'
    BY <1>2, <2>1 DEF DownloadInv, downloadVars, OwnedThere, OwnedAlone, Own
  <2>. QED
    BY <2>2, <2>3 DEF DownloadInv
<1>. QED
    BY <1>1, <1>2, QuietSteps, ServerStopSteps, OtherSteps DEF DownloadNext

LEMMA DownloadInvariant == DownloadSpec => []DownloadInv
<1>1. DownloadInit => DownloadInv
  <2>. SUFFICES ASSUME DownloadInit PROVE DownloadInv
    OBVIOUS
  <2>. USE NoCallerApart, FilesOf DEF DownloadInit
  <2>1. disk \in [Dests -> File] /\ op \in [Callers -> Op]
    BY RestIsOp
  <2>2. \A c \in Callers : op[c].pc = "idle" /\ op[c].charged = 0
    BY DEF Rest
  <2>3. host \in [known : BOOLEAN, failed : BOOLEAN, roots : SUBSET Roots]
    BY DEF HostUnknown
  <2>4. DownloadTypes
    BY <2>1, <2>3, TypesOf
  <2>5. Places /\ OwnedThere /\ OwnedAlone /\ NotYetCharged
    BY <2>2 DEF Places, OwnedThere, OwnedAlone, NotYetCharged, Owns, In
  <2>6. \A d \in Dests : disk[d] \in {Absent, Other}
    OBVIOUS
  <2>7. PartsHeld /\ ToolsWhole
    BY <2>6 DEF PartsHeld, ToolsWhole, FileOf, Absent, Other
  <2>. QED
    BY <2>4, <2>5, <2>7 DEF DownloadInv
<1>2. DownloadInv /\ [DownloadNext]_downloadVars => DownloadInv'
    BY DownloadInductive
<1>. QED
    BY <1>1, <1>2, PTL DEF DownloadSpec

\* What a call publishes compared equal in size and digest, and a partial or corrupt file is one
\* its command is about to remove, was cut short with, or could not remove; for any commands and
\* calls at work on any destinations, whatever other programs write there.
THEOREM DownloadVerified == DownloadSpec => []VerifiedPublished
<1>1. DownloadInv => VerifiedPublished
  <2>. SUFFICES ASSUME DownloadInv, NEW d \in Dests
                PROVE  /\ disk[d].by \in Tools => disk[d].is = "whole"
                       /\ disk[d].by \in Commands /\ disk[d].is \in {"part", "bad"}
                            => op[disk[d].by].dest = d /\ op[disk[d].by].pc \in {"fill", "check", "remove"}
    BY DEF VerifiedPublished
  <2>1. disk[d].by \in Tools => disk[d].is = "whole"
    BY DEF DownloadInv, ToolsWhole
  <2>2. disk[d] = FileOf(disk[d].by, disk[d].is)
    BY TypesOf DEF DownloadInv, File, FileOf, Left, Absent, Other
  <2>. QED
    BY <2>1, <2>2 DEF DownloadInv, PartsHeld
<1>. QED
    BY <1>1, DownloadInvariant, PTL

\* No download is charged twice, however the service answers and wherever a call stops.
THEOREM DownloadChargedOnce == DownloadSpec => []ChargedOnce
<1>1. DownloadInv => ChargedOnce
    BY DEF DownloadInv, NotYetCharged, ChargedOnce
<1>. QED
    BY <1>1, DownloadInvariant, PTL

\* Whatever appears under a destination between the check and its use: a file of another
\* program or one a caller has reported stays, unless an overwriting call was given it.
THEOREM DownloadOthersKept == DownloadSpec => OthersKept
<1>1. ASSUME DownloadInv, [DownloadNext]_downloadVars, NEW d \in Dests, disk'[d] # disk[d]
      PROVE  /\ ~(Settled(d) /\ d \notin replaced')
             /\ (disk[d] = Other /\ disk'[d] # Other) => (disk'[d].by \in Tools /\ d \in replaced')
  <2>. USE NoCallerApart, FilesOf DEF In
  <2>1. \/ \E x \in Dests : OtherWrites(x)
        \/ \E c \in Callers : \/ CreateOut(c) \/ CopyBody(c) \/ CopyPlain(c) \/ RemoveOut(c)
                            \/ Overwrite(c) \/ LinkDest(c) \/ UnlinkFails(c) \/ CommandStops(c)
    <3>1. disk' # disk
      BY <1>1
    <3>2. \A c \in Callers : ~(DownloadPath(c) \/ Look(c) \/ ReadMeta(c) \/ Ask(c) \/ AskLimited(c) \/ AskUnclear(c))
      BY <3>1 DEF DownloadPath, Look, ReadMeta, Ask, AskLimited, AskUnclear
    <3>3. \A c \in Callers : ~(OpenInput(c) \/ CopyFails(c) \/ CheckDigest(c) \/ FillTemp(c) \/ CheckTemp(c)
                            \/ PublishFails(c) \/ Unlink(c))
      BY <3>1 DEF OpenInput, CopyFails, CheckDigest, FillTemp, CheckTemp, PublishFails, Unlink
    <3>4. \A c \in Callers, x \in Dests : ~(StartDownload(c, x) \/ StartDecrypt(c, x) \/ StartTool(c, x))
      BY <3>1 DEF StartDownload, StartDecrypt, StartTool, Begin
    <3>5. ~SetHostError /\ ~ServerStops /\ \A roots \in RootSets : ~RefreshHost(roots)
      BY <3>1 DEF RefreshHost, SetHostError, ServerStops
    <3>6. (\E c \in Callers : DownloadStep(c)) \/ \E x \in Dests : OtherWrites(x)
      BY <1>1, <3>1, <3>4, <3>5 DEF DownloadNext, downloadVars
    <3>7. CASE \E x \in Dests : OtherWrites(x)
      BY <3>7
    <3>8. ASSUME NEW c \in Callers, DownloadStep(c)
          PROVE  \/ CreateOut(c) \/ CopyBody(c) \/ CopyPlain(c) \/ RemoveOut(c) \/ Overwrite(c)
                 \/ LinkDest(c) \/ UnlinkFails(c) \/ CommandStops(c)
      BY <3>2, <3>3, <3>8 DEF DownloadStep
    <3>. QED
      BY <3>6, <3>7, <3>8
  <2>2. CASE \E x \in Dests : OtherWrites(x)
    <3>1. disk[d] = Absent
      BY <1>1, <2>2, TypesOf DEF OtherWrites, DownloadInv
    <3>. QED
      BY <3>1 DEF Settled, Absent, Other
  <2>3. ASSUME NEW c \in Callers,
               \/ CreateOut(c) \/ CopyBody(c) \/ CopyPlain(c) \/ RemoveOut(c)
               \/ Overwrite(c) \/ LinkDest(c) \/ UnlinkFails(c) \/ CommandStops(c)
        PROVE  /\ ~(Settled(d) /\ d \notin replaced')
               /\ (disk[d] = Other /\ disk'[d] # Other) => (disk'[d].by \in Tools /\ d \in replaced')
    <3>1. op \in [Callers -> Op] /\ disk \in [Dests -> File] /\ op[c].dest \in Dests
      BY <1>1, Facts
    <3>2. ASSUME disk[d] \in {Absent, FileOf(c, "part"), FileOf(c, "bad")}
          PROVE  ~Settled(d) /\ disk[d] # Other
      BY <3>2 DEF Settled, Absent, Other, FileOf
    <3>3. CASE CreateOut(c) \/ LinkDest(c)
      BY <1>1, <3>1, <3>2, <3>3 DEF CreateOut, LinkDest, Put, Free
    <3>4. CASE CopyBody(c) \/ CopyPlain(c)
      BY <1>1, <3>1, <3>2, <3>4 DEF CopyBody, CopyPlain, Fill, Put
    <3>5. CASE disk' = LeftBehind(c)
      BY <1>1, <3>1, <3>2, <3>5 DEF LeftBehind
    <3>6. CASE Overwrite(c)
      BY <1>1, <3>1, <3>6 DEF Overwrite, Put, DownloadInv, Places, Callers, Held
    <3>7. CASE (RemoveOut(c) \/ UnlinkFails(c)) /\ disk' # LeftBehind(c)
      <4>1. d = op[c].dest /\ Owns(c) /\ UNCHANGED replaced
        BY <1>1, <3>1, <3>7 DEF RemoveOut, UnlinkFails, Owns
      <4>2. disk[d] # Other /\ (d \notin replaced => disk[d] \in Own(c))
        BY <1>1, <4>1 DEF DownloadInv, OwnedThere
      <4>3. ASSUME c \in Tools, disk[d] = FileOf(c, "whole") PROVE ~Settled(d)
        <5>1. op[c].pc = "unlink"
          BY <1>1, <3>7, <4>3 DEF DownloadInv, Places, RemoveOut, UnlinkFails
        <5>. QED
          BY <4>1, <4>3, <5>1 DEF Settled, FileOf, Other
      <4>. QED
        BY <3>2, <4>1, <4>2, <4>3 DEF Own, Callers
    <3>. QED
      BY <2>3, <3>3, <3>4, <3>5, <3>6, <3>7 DEF CommandStops
  <2>. QED
    BY <2>1, <2>2, <2>3
<1>2. DownloadInv /\ [DownloadNext]_downloadVars =>
        [\A d \in Dests : /\ (Settled(d) /\ d \notin replaced') => disk'[d] = disk[d]
                          /\ (disk[d] = Other /\ disk'[d] # Other) => (disk'[d].by \in Tools /\ d \in replaced')
        ]_downloadVars
    BY <1>1
<1>. QED
    BY <1>2, DownloadInvariant, PTL DEF DownloadSpec, OthersKept

\* A destination is approved only inside both the configured roots and those the host named
\* last, for any roots and any sequence of changes.
THEOREM DownloadRootsHonoured == DownloadSpec => RootsHonoured
<1>1. ASSUME DownloadInv, NEW r \in Effective PROVE r \subseteq Allowed
  <2>1. explicit \in SUBSET Roots /\ WorkDir \in Roots
        /\ host \in [known : BOOLEAN, failed : BOOLEAN, roots : SUBSET Roots]
    BY <1>1, TypesOf, DownloadAssumption DEF DownloadInv
  <2>2. CASE host.known /\ explicit = {}
    BY <1>1, <2>1, <2>2 DEF Effective, Allowed
  <2>3. CASE host.known /\ explicit # {}
    BY <1>1, <2>1, <2>3 DEF Effective, Allowed
  <2>4. CASE ~host.known
    BY <1>1, <2>1, <2>4 DEF Effective, Allowed
  <2>. QED
    BY <2>2, <2>3, <2>4
<1>2. ASSUME DownloadInv, [DownloadNext]_downloadVars, NEW c \in Tools, In(c, "path"), op'[c].pc = "look"
      PROVE  DownloadPath(c)
  <2>. USE NoCallerApart DEF In
  <2>1. c \in Callers /\ op \in [Callers -> Op]
    BY <1>2, TypesOf DEF DownloadInv, Callers
  <2>2. ASSUME NEW e \in Callers, DownloadStep(e) PROVE e = c
    BY <1>2, <2>1, <2>2 DEF DownloadStep, DownloadPath, Look, ReadMeta, Ask, AskLimited, AskUnclear, Served,
       OpenInput, CreateOut, CopyBody, CopyPlain, CopyFails, CheckDigest, RemoveOut, FillTemp, CheckTemp,
       Overwrite, LinkDest, PublishFails, Unlink, UnlinkFails, CommandStops, Go, Done
  <2>3. ~\E e \in Callers, d \in Dests : StartDownload(e, d) \/ StartDecrypt(e, d) \/ StartTool(e, d)
    <3>. SUFFICES ASSUME NEW e \in Callers, NEW d \in Dests,
                         StartDownload(e, d) \/ StartDecrypt(e, d) \/ StartTool(e, d)
                  PROVE  FALSE
      OBVIOUS
    <3>1. e # c /\ op'[c] = op[c]
      BY <1>2, <2>1 DEF StartDownload, StartDecrypt, StartTool, Begin
    <3>. QED
      BY <1>2, <3>1
  <2>4. op' # op /\ op'[c].pc # "idle"
    BY <1>2
  <2>5. ~SetHostError /\ ~ServerStops /\ ~(\E roots \in RootSets : RefreshHost(roots))
        /\ ~(\E d \in Dests : OtherWrites(d)) /\ ~UNCHANGED downloadVars
    BY <2>1, <2>4 DEF SetHostError, ServerStops, RefreshHost, OtherWrites, downloadVars, Rest
  <2>6. DownloadStep(c)
    BY <1>2, <2>2, <2>3, <2>5 DEF DownloadNext
  <2>. QED
    BY <1>2, <2>1, <2>6 DEF DownloadStep, Look, ReadMeta, Ask, AskLimited, AskUnclear, OpenInput, CreateOut, CopyBody,
       CopyPlain, CopyFails, CheckDigest, RemoveOut, FillTemp, CheckTemp, Overwrite, LinkDest, PublishFails, Unlink,
       UnlinkFails,
       CommandStops, DownloadInv, Places
<1>3. DownloadInv /\ [DownloadNext]_downloadVars =>
        [\A c \in Tools : (In(c, "path") /\ op'[c].pc = "look") => op[c].dest \in Allowed]_downloadVars
  <2>. SUFFICES ASSUME DownloadInv, [DownloadNext]_downloadVars, NEW c \in Tools, In(c, "path"), op'[c].pc = "look"
                PROVE  op[c].dest \in Allowed
    OBVIOUS
  <2>1. DownloadPath(c) /\ ~Done(c)
    BY <1>2, TypesOf DEF DownloadInv, Done, Rest, Callers
  <2>2. PICK r \in Effective : op[c].dest \in r
    BY <2>1 DEF DownloadPath
  <2>. QED
    BY <1>1, <2>2
<1>. QED
    BY <1>3, DownloadInvariant, PTL DEF DownloadSpec, RootsHonoured

---------------------------------------------------------------------------
(* FileListing *)

\* What a batch that has not failed has done so far: every ID it is through with is deleted,
\* and what was deleted does not come back.
BatchInv ==
    /\ files \cap gone = {}
    /\ rm.pc = "next" /\ ~rm.failed => rm.named \ rm.todo \subseteq gone
    /\ rm.pc = "done" => rm.named \subseteq gone
    /\ rm \in [pc : {"idle", "next", "failed", "done"}, named : SUBSET Files,
               todo : SUBSET Files, goOn : BOOLEAN, failed : BOOLEAN]

\* A batch that reports success has deleted every file it was given, for any listing, any
\* number of failures and whatever other keys do.
THEOREM ListBatchTold == ListSpec => []BatchTold
<1>1. ListInit => BatchInv BY DEF ListInit, BatchInv, RmRest
<1>2. BatchInv /\ [ListNext]_listVars => BatchInv'
  <2> SUFFICES ASSUME BatchInv, [ListNext]_listVars PROVE BatchInv' OBVIOUS
  <2> USE DEF BatchInv
  <2>1. ASSUME NEW limit \in Limits, StartLs(limit) PROVE BatchInv'
    BY <2>1 DEF StartLs, RmRest
  <2>2. CASE ReadPage \/ PageFails BY <2>2 DEF ReadPage, PageFails
  <2>3. ASSUME NEW batch \in SUBSET Files, NEW goOn \in BOOLEAN, StartRm(batch, goOn) PROVE BatchInv'
    BY <2>3 DEF StartRm
  <2>4. CASE RemoveHopeless \/ EndRm BY <2>4 DEF RemoveHopeless, EndRm
  <2>5. ASSUME NEW f \in Files, RemoveFile(f) PROVE BatchInv'
    BY <2>5 DEF RemoveFile, Vanish
  <2>6. ASSUME NEW f \in Files, RemoveMissing(f) \/ RemoveUnclear(f) PROVE BatchInv'
    BY <2>6 DEF RemoveMissing, RemoveUnclear, Vanish, AfterFailure
  <2>7. ASSUME NEW f \in Files, Appear(f) \/ Lapse(f) PROVE BatchInv'
    BY <2>7 DEF Appear, Lapse, Vanish
  <2>8. CASE UNCHANGED listVars BY <2>8 DEF listVars
  <2> QED BY <2>1, <2>2, <2>3, <2>4, <2>5, <2>6, <2>7, <2>8 DEF ListNext
<1>3. BatchInv => BatchTold BY DEF BatchInv, BatchTold
<1> QED BY <1>1, <1>2, <1>3, PTL DEF ListSpec

\* A sequence of listed files in the service's order: no file twice.
Ordered(s) == \A i, j \in DOMAIN s : i < j => s[i] < s[j]

\* A page in order with exactly the files of S on it.
PageOf(page, n, S) == page \in [1..n -> S] /\ Ordered(page) /\ \A f \in S : \E i \in 1..n : page[i] = f

Span(from, to) == {f \in files : from < f /\ f <= to}

\* The listing can be put in order up to any position.
LEMMA SpanOrdered ==
    ASSUME files \subseteq Files, NEW from \in Nat, NEW to \in Nat
    PROVE  \E n \in Nat : \E page : PageOf(page, n, Span(from, to))
<1> DEFINE R == {ss \in Nat \X Nat : ss[1] < ss[2]}
           Can(k) == \E n \in Nat : \E page : PageOf(page, n, Span(from, k))
           Bad == {k \in Nat : ~Can(k)}
<1>1. IsWellFoundedOn(R, Nat) BY NatLessThanWellFounded, Zenon DEF OpToRel
<1> SUFFICES ASSUME Bad # {} PROVE FALSE OBVIOUS
<1>2. Bad \subseteq Nat OBVIOUS
<1> HIDE DEF R
<1>3. PICK m \in Bad : \A k \in Bad : <<k, m>> \notin R
  <2> HIDE DEF Bad
  <2> QED BY <1>1, <1>2, WFMin
<1>4. m \in Nat /\ ~Can(m) OBVIOUS
<1> HIDE DEF Can
<1>a. \A f \in files : f \in Nat /\ f > 0 BY ListingAssumption DEF Files
<1> HIDE DEF Bad
<1>5. CASE m = 0
  <2>1. Span(from, 0) = {} BY <1>a DEF Span
  <2>2. PageOf([i \in 1..0 |-> 0], 0, {}) BY DEF PageOf, Ordered
  <2> QED BY <1>4, <1>5, <2>1, <2>2 DEF Can
<1>6. CASE m # 0
  <2>1. m - 1 \in Nat /\ m - 1 < m BY <1>4, <1>6
  <2>2. <<m - 1, m>> \in R BY <1>4, <2>1 DEF R
  <2>3. Can(m - 1) BY <1>3, <2>1, <2>2 DEF Bad
  <2>4. PICK n \in Nat : \E page : PageOf(page, n, Span(from, m - 1)) BY <2>3 DEF Can
  <2>5. PICK page : PageOf(page, n, Span(from, m - 1)) BY <2>4
  <2>b. \A f \in files : f <= m <=> f <= m - 1 \/ f = m BY <1>4, <1>a
  <2>6. CASE m \in files /\ from < m
    <3> DEFINE longer == [i \in 1..(n + 1) |-> IF i = n + 1 THEN m ELSE page[i]]
    <3>1. Span(from, m) = Span(from, m - 1) \cup {m} BY <1>4, <2>b, <2>6 DEF Span
    <3>2. \A f \in Span(from, m - 1) : f \in Nat /\ f < m BY <1>4, <1>a, <2>1 DEF Span
    <3>3. \A i \in 1..n : page[i] \in Span(from, m - 1) /\ i \in 1..(n + 1) /\ i # n + 1
      BY <2>5 DEF PageOf
    <3>4. longer \in [1..(n + 1) -> Span(from, m)] BY <3>1, <3>3
    <3>5. Ordered(longer)
      <4>1. DOMAIN longer = 1..(n + 1) /\ DOMAIN page = 1..n BY <2>5 DEF PageOf
      <4>2. \A i, j \in 1..n : i < j => page[i] < page[j] BY <2>5, <4>1 DEF PageOf, Ordered
      <4>3. \A i \in 1..n : page[i] < m BY <3>2, <3>3
      <4> QED BY <4>1, <4>2, <4>3 DEF Ordered
    <3>6. \A f \in Span(from, m) : \E i \in 1..(n + 1) : longer[i] = f
      <4>1. longer[n + 1] = m /\ n + 1 \in 1..(n + 1) OBVIOUS
      <4>2. \A f \in Span(from, m - 1) : \E i \in 1..n : page[i] = f BY <2>5 DEF PageOf
      <4> QED BY <3>1, <3>3, <4>1, <4>2
    <3>7. PageOf(longer, n + 1, Span(from, m)) BY <3>4, <3>5, <3>6 DEF PageOf
    <3> QED BY <1>4, <3>7 DEF Can
  <2>7. CASE ~(m \in files /\ from < m)
    <3>1. Span(from, m) = Span(from, m - 1) BY <2>b, <2>7 DEF Span
    <3> QED BY <1>4, <2>5, <3>1 DEF Can
  <2> QED BY <2>6, <2>7
<1> QED BY <1>5, <1>6

\* Between(from, to): the files listed between two positions, each once and in order.
LEMMA BetweenFacts ==
    ASSUME files \subseteq Files, NEW from \in Nat, NEW to \in Nat
    PROVE  /\ Between(from, to) \in Seq(Files)
           /\ Ordered(Between(from, to))
           /\ ToSet(Between(from, to)) = Span(from, to)
<1> DEFINE S == Span(from, to)
           c == Cardinality(S)
<1>0. S \subseteq Files BY DEF Span
<1>1. PICK n \in Nat : \E page : PageOf(page, n, S) BY SpanOrdered
<1>2. PICK page : PageOf(page, n, S) BY <1>1
<1>3. page \in [1..n -> S] /\ DOMAIN page = 1..n BY <1>2 DEF PageOf
<1>4. \A i, j \in 1..n : i # j => page[i] # page[j]
  <2> SUFFICES ASSUME NEW i \in 1..n, NEW j \in 1..n, i < j PROVE page[i] # page[j] 
    OBVIOUS
  <2>1. page[i] < page[j] BY <1>2, <1>3 DEF PageOf, Ordered
  <2>2. page[i] \in Nat /\ page[j] \in Nat BY <1>0, <1>3, ListingAssumption DEF Files
  <2> QED BY <2>1, <2>2
<1> HIDE DEF S
<1>5. page \in Bijection(1..n, S)
  <2>1. IsInjective(page) BY <1>3, <1>4 DEF IsInjective
  <2>2. \A f \in S : \E i \in 1..n : page[i] = f BY <1>2 DEF PageOf
  <2> QED BY <1>3, <2>1, <2>2 DEF Bijection, Injection, Surjection
<1>6. c = n BY <1>5, FS_CountingElements DEF ExistsBijection
<1>7. page \in SetToSeqs(S) BY <1>3, <1>4, <1>6 DEF SetToSeqs
<1> DEFINE b == Between(from, to)
<1>8. b = CHOOSE p \in SetToSeqs(S) : Ordered(p) BY DEF Between, S, Span, Ordered
<1> HIDE DEF b
<1>9. b \in SetToSeqs(S) /\ Ordered(b) BY <1>2, <1>7, <1>8 DEF PageOf
<1>10. b \in [1..n -> S] /\ \A i, j \in 1..n : i # j => b[i] # b[j] BY <1>6, <1>9 DEF SetToSeqs
<1>11. b \in Seq(Files) BY <1>0, <1>10
<1>12. ToSet(b) = S
  <2>1. b \in Injection(1..n, S)
    BY <1>10 DEF Injection, IsInjective
  <2>2. Cardinality(1..n) = n /\ IsFiniteSet(1..n) BY FS_Interval
  <2>3. IsFiniteSet(S) BY <1>5, <2>2, FS_Bijection DEF ExistsBijection
  <2>4. b \in Surjection(1..n, S) BY <1>6, <2>1, <2>2, <2>3, FS_Injection
  <2> QED BY <1>10, <2>4 DEF Surjection, ToSet
<1> QED BY <1>9, <1>11, <1>12 DEF b, S

\* Sequences of files joined end to end.
LEMMA JoinFacts ==
    ASSUME NEW s \in Seq(Files), NEW t \in Seq(Files)
    PROVE  /\ s \o t \in Seq(Files)
           /\ DOMAIN (s \o t) = 1..(Len(s) + Len(t))
           /\ \A i \in 1..(Len(s) + Len(t)) :
                (s \o t)[i] = IF i <= Len(s) THEN s[i] ELSE t[i - Len(s)]
           /\ ToSet(s \o t) = ToSet(s) \cup ToSet(t)
           /\ s \o <<>> = s
<1>1. s \o t \in Seq(Files) /\ DOMAIN (s \o t) = 1..(Len(s) + Len(t)) /\ s \o <<>> = s
  OBVIOUS
<1>2. \A i \in 1..(Len(s) + Len(t)) : (s \o t)[i] = IF i <= Len(s) THEN s[i] ELSE t[i - Len(s)]
  OBVIOUS
<1>3. Len(s) \in Nat /\ Len(t) \in Nat /\ DOMAIN s = 1..Len(s) /\ DOMAIN t = 1..Len(t)
  OBVIOUS
<1>4. ToSet(s \o t) \subseteq ToSet(s) \cup ToSet(t)
  <2> SUFFICES ASSUME NEW i \in 1..(Len(s) + Len(t))
               PROVE  (s \o t)[i] \in ToSet(s) \cup ToSet(t)
    BY <1>1 DEF ToSet
  <2>1. i <= Len(s) => i \in DOMAIN s BY <1>3
  <2>2. ~(i <= Len(s)) => i - Len(s) \in DOMAIN t BY <1>3
  <2> QED BY <1>2, <2>1, <2>2 DEF ToSet
<1>5. ToSet(s) \subseteq ToSet(s \o t)
  <2> SUFFICES ASSUME NEW i \in DOMAIN s PROVE s[i] \in ToSet(s \o t) BY DEF ToSet
  <2>1. i \in 1..(Len(s) + Len(t)) /\ i <= Len(s) BY <1>3
  <2> QED BY <1>1, <1>2, <2>1 DEF ToSet
<1>6. ToSet(t) \subseteq ToSet(s \o t)
  <2> SUFFICES ASSUME NEW i \in DOMAIN t PROVE t[i] \in ToSet(s \o t) BY DEF ToSet
  <2>1. i + Len(s) \in 1..(Len(s) + Len(t)) /\ ~(i + Len(s) <= Len(s)) /\ (i + Len(s)) - Len(s) = i
    BY <1>3
  <2> QED BY <1>1, <1>2, <2>1 DEF ToSet
<1> QED BY <1>1, <1>2, <1>4, <1>5, <1>6

LEMMA JoinsAssociate ==
    ASSUME NEW s \in Seq(Files), NEW t \in Seq(Files), NEW u \in Seq(Files)
    PROVE  (s \o t) \o u = s \o (t \o u)
BY ConcatAssociative

\* s is the listing up to position c: in order, nothing from beyond c, and no file missing that
\* was there all along.
Complete(s, c) ==
    /\ Ordered(s)
    /\ \A i \in DOMAIN s : s[i] <= c
    /\ \A f \in steady : f <= c => f \in ToSet(s)

\* A page that starts where a complete listing ends extends it.
LEMMA PageExtends ==
    ASSUME files \subseteq Files, steady \subseteq files, NEW s \in Seq(Files),
           NEW c \in Nat, NEW to \in Nat, c <= to, Complete(s, c)
    PROVE  Complete(s \o Between(c, to), to)
<1> DEFINE page == Between(c, to)
           all == s \o page
<1>1. page \in Seq(Files) /\ Ordered(page) /\ ToSet(page) = Span(c, to) BY BetweenFacts
<1>2. \A i \in DOMAIN page : c < page[i] /\ page[i] <= to BY <1>1 DEF ToSet, Span
<1> HIDE DEF page
<1>3. \A f \in Files : f \in Nat BY ListingAssumption DEF Files
<1>4. /\ DOMAIN all = 1..(Len(s) + Len(page))
      /\ \A i \in DOMAIN all : all[i] = IF i <= Len(s) THEN s[i] ELSE page[i - Len(s)]
      /\ ToSet(all) = ToSet(s) \cup ToSet(page)
  BY <1>1, JoinFacts
<1>5. DOMAIN s = 1..Len(s) /\ DOMAIN page = 1..Len(page) /\ Len(s) \in Nat /\ Len(page) \in Nat
  BY <1>1
<1>6. \A i \in 1..Len(s) : s[i] \in Nat /\ s[i] <= c BY <1>3, <1>5 DEF Complete
<1>7. \A i \in 1..Len(page) : page[i] \in Nat BY <1>1, <1>3, <1>5
<1>8. Ordered(all)
  <2> SUFFICES ASSUME NEW i \in DOMAIN all, NEW j \in DOMAIN all, i < j PROVE all[i] < all[j]
    BY DEF Ordered
  <2> HIDE DEF all
  <2>1. CASE j <= Len(s)
    <3>1. i \in DOMAIN s /\ j \in DOMAIN s /\ i <= Len(s) BY <1>4, <1>5, <2>1
    <3> QED BY <1>4, <2>1, <3>1 DEF Complete, Ordered
  <2>2. CASE i <= Len(s) /\ ~(j <= Len(s))
    <3>1. i \in DOMAIN s /\ j - Len(s) \in DOMAIN page BY <1>4, <1>5, <2>2
    <3>2. s[i] <= c /\ c < page[j - Len(s)] BY <1>2, <1>5, <1>6, <3>1
    <3>3. s[i] \in Nat /\ page[j - Len(s)] \in Nat BY <1>5, <1>6, <1>7, <3>1
    <3>4. all[i] = s[i] /\ all[j] = page[j - Len(s)] BY <1>4, <2>2
    <3> QED BY <3>2, <3>3, <3>4
  <2>3. CASE ~(i <= Len(s)) /\ ~(j <= Len(s))
    <3>1. i - Len(s) \in DOMAIN page /\ j - Len(s) \in DOMAIN page /\ i - Len(s) < j - Len(s)
      BY <1>4, <1>5, <2>3
    <3>2. page[i - Len(s)] < page[j - Len(s)] BY <1>1, <3>1 DEF Ordered
    <3> QED BY <1>4, <2>3, <3>2
  <2> QED BY <1>4, <1>5, <2>1, <2>2, <2>3
<1>9. \A i \in DOMAIN all : all[i] <= to
  <2> SUFFICES ASSUME NEW i \in DOMAIN all PROVE all[i] <= to OBVIOUS
  <2> HIDE DEF all
  <2>1. CASE i <= Len(s) BY <1>4, <1>5, <1>6, <2>1
  <2>2. CASE ~(i <= Len(s))
    <3>1. i - Len(s) \in DOMAIN page BY <1>4, <1>5, <2>2
    <3> QED BY <1>2, <1>4, <2>2, <3>1
  <2> QED BY <2>1, <2>2
<1>10. \A f \in steady : f <= to => f \in ToSet(all)
  <2> SUFFICES ASSUME NEW f \in steady, f <= to PROVE f \in ToSet(all) OBVIOUS
  <2>1. f \in Nat /\ f \in files BY <1>3
  <2>2. CASE f <= c BY <1>4, <2>2 DEF Complete
  <2>3. CASE ~(f <= c)
    <3>1. f \in Span(c, to) BY <2>1, <2>3 DEF Span
    <3> QED BY <1>1, <1>4, <3>1 DEF page
  <2> QED BY <2>2, <2>3
<1> QED BY <1>8, <1>9, <1>10 DEF Complete, page

\* Where nothing more is listed, the listing is complete to its end.
LEMMA NothingBeyond ==
    ASSUME files \subseteq Files, steady \subseteq files, NEW s \in Seq(Files),
           NEW c \in 0..End, Complete(s, c), Between(c, End) = <<>>
    PROVE  Complete(s, End)
<1>0. MaxFile \in Nat /\ End \in Nat /\ c \in Nat /\ c <= End BY ListingAssumption DEF End
<1>1. Complete(s \o Between(c, End), End) BY <1>0, PageExtends
<1> QED BY <1>1, JoinFacts

LsRecord == [pc : {"idle", "ask"}, limit : {0} \cup Limits, cursor : {Start} \cup Cursors,
             seen : SUBSET Files, got : Seq(Files)]

LsType == ls \in LsRecord

RmType ==
    rm \in [pc : {"idle", "next", "failed", "done"}, named : SUBSET Files, todo : SUBSET Files,
            goOn : BOOLEAN, failed : BOOLEAN]

ListShape ==
    /\ honest \in BOOLEAN /\ files \subseteq Files /\ steady \subseteq files /\ gone \subseteq Files
    /\ LsType /\ RmType
    /\ resume \in {Start, End} \cup Cursors /\ listed \in Seq(Files)

\* The listing is complete up to where it resumes, and with what the call at work has got, up to
\* that call's cursor; and a limited call that asks still wants something.
ListInv ==
    /\ ListShape
    /\ honest => Complete(listed, resume)
    /\ honest /\ ls.pc = "ask" => Complete(listed \o ls.got, ls.cursor)
    /\ ls.pc = "ask" /\ ls.limit # 0 => Len(ls.got) < ls.limit

LEMMA CursorFacts ==
    /\ MaxFile \in Nat /\ Start \in Nat /\ End \in Nat /\ Cursors \subseteq Nat /\ Files \subseteq Nat
    /\ Files \subseteq Cursors /\ Fresh \subseteq Cursors /\ End \notin Cursors
    /\ Files \cap Fresh = {} /\ Cursors \ Fresh = Files
BY ListingAssumption DEF Start, End, Cursors, Files, Fresh

LEMMA RestIsLs == LsRest \in LsRecord
BY DEF LsRest, LsRecord

LEMMA LsFacts ==
    ASSUME ListInv
    PROVE  /\ ls \in LsRecord /\ ls.seen \subseteq Files /\ ls.got \in Seq(Files)
           /\ ls.limit \in Nat /\ Len(ls.got) \in Nat
<1>1. ls \in LsRecord BY DEF ListInv, ListShape, LsType
<1>2. ls.seen \subseteq Files /\ ls.got \in Seq(Files) /\ ls.limit \in {0} \cup Limits
  BY <1>1 DEF LsRecord
<1>3. Len(ls.got) \in Nat BY <1>2
<1>4. {0} \cup Limits \subseteq Nat BY ListingAssumption
<1> HIDE DEF ListInv
<1> QED BY <1>1, <1>2, <1>3, <1>4

\* What a call does with a page of files, whoever answers.
LEMMA FollowShape ==
    ASSUME ListShape, NEW page \in Seq(Files), NEW next \in Cursors \cup {End},
           FollowCursor(ls.got \o page, page, next), UNCHANGED <<honest, files, steady, gone, rm>>
    PROVE  ListShape'
<1>1. ls.got \o page \in Seq(Files)
  <2>1. ls.got \in Seq(Files) BY DEF ListShape, LsType, LsRecord
  <2> QED BY <2>1, JoinFacts
<1> DEFINE got == ls.got \o page
<1> HIDE DEF got
<1>3. listed \o got \in Seq(Files) BY <1>1, JoinFacts DEF ListShape, got
<1>4. ASSUME NEW to \in Cursors \cup {End}, Report(got, to) PROVE ListShape'
  BY RestIsLs, <1>3, <1>4 DEF Report, ListShape, LsType, RmType
<1>5. CASE Fail BY RestIsLs, <1>5 DEF Fail, ListShape, LsType, RmType
<1>6. ASSUME Continue(got, next), next # End PROVE ListShape'
  <2>1. next \in Cursors /\ {next} \ Fresh \subseteq Files BY <1>6, CursorFacts
  <2>2. Counted(got) \in Seq(Files) BY <1>1 DEF Counted, got
  <2>3. ls' \in LsRecord
    BY <1>6, <2>1, <2>2 DEF Continue, ListShape, LsType, LsRecord
  <2> QED BY <1>6, <2>3 DEF Continue, ListShape, LsType, RmType
<1> QED BY <1>4, <1>5, <1>6 DEF FollowCursor, got

LEMMA AnswersTyped ==
    ASSUME files \subseteq Files, NEW page \in Answers
    PROVE  page \in Seq(Files)
<1>1. PICK from \in {Start} \cup Files, to \in Files : page = Between(from, to) BY DEF Answers
<1>2. from \in Nat /\ to \in Nat BY ListingAssumption DEF Files, Start
<1> QED BY <1>1, <1>2, BetweenFacts

LEMMA ReadPageKeeps ==
    ASSUME ListInv, ReadPage
    PROVE  ListInv'
<1>1. PICK page \in Answers, next \in Cursors \cup {End} :
        /\ ls.pc = "ask" /\ Answer(page, next)
        /\ Fail \/ FollowCursor(ls.got \o page, page, next)
        /\ UNCHANGED <<honest, files, steady, gone, rm>>
  BY DEF ReadPage
<1>2. /\ ListShape /\ files \subseteq Files /\ steady \subseteq files /\ listed \in Seq(Files)
      /\ ls.got \in Seq(Files) /\ ls.cursor \in Nat /\ ls \in LsRecord
  BY CursorFacts DEF ListInv, ListShape, LsType, LsRecord
<1>3. page \in Seq(Files) BY <1>1, <1>2, AnswersTyped
<1>4. CASE Fail
  <2>1. ListShape'
    BY <1>1, <1>2, <1>4, RestIsLs DEF Fail, ListShape, LsType, RmType
  <2> QED BY <1>1, <1>4, <2>1 DEF ListInv, Fail, LsRest, Complete
<1>5. CASE FollowCursor(ls.got \o page, page, next)
  <2>1. ListShape' BY <1>1, <1>2, <1>3, <1>5, FollowShape
  <2> DEFINE got == ls.got \o page
             all == listed \o got
  <2>2. all = (listed \o ls.got) \o page /\ got \in Seq(Files) /\ all \in Seq(Files)
    <3>1. got \in Seq(Files) BY <1>2, <1>3, JoinFacts
    <3>2. all \in Seq(Files) BY <1>2, <3>1, JoinFacts
    <3>3. (listed \o ls.got) \o page = listed \o (ls.got \o page)
      BY <1>2, <1>3, JoinsAssociate
    <3> QED BY <3>1, <3>2, <3>3
  <2>3. honest => Complete(all, next)
    <3> SUFFICES ASSUME honest PROVE Complete(all, next) OBVIOUS
    <3>1. PICK to \in (ls.cursor + 1)..End :
            page = Between(ls.cursor, to) /\ (next = to \/ (next = End /\ Between(to, End) = <<>>))
      BY <1>1 DEF Answer, HonestAnswer
    <3>2. ls.cursor \in Nat /\ to \in Nat /\ to \in 0..End /\ ls.cursor <= to
      BY <1>2, <3>1, ListingAssumption DEF Start, Files, End
    <3>3. listed \o ls.got \in Seq(Files) BY <1>2
    <3>4. Complete(listed \o ls.got, ls.cursor) BY <1>1 DEF ListInv
    <3>5. Complete(all, to) BY <1>2, <2>2, <3>1, <3>2, <3>3, <3>4, PageExtends
    <3>6. next = End /\ Between(to, End) = <<>> => Complete(all, End)
      BY <1>2, <2>2, <3>2, <3>5, NothingBeyond
    <3> QED BY <3>1, <3>5, <3>6
  <2> HIDE DEF got
  <2>4. UNCHANGED <<honest, steady, files>> BY <1>1
  <2>5. honest /\ resume # resume' => listed' = all /\ resume' = next
    BY <1>5 DEF FollowCursor, Report, Fail, Continue, got
  <2>a. CASE Fail BY <2>1, <2>4, <2>a DEF ListInv, Fail, LsRest, Complete
  <2>b. CASE Report(got, next)
    BY <2>1, <2>3, <2>4, <2>b DEF ListInv, Report, LsRest, Complete
  <2>c. CASE Continue(got, next) /\ ~(ls.limit # 0 /\ (page = <<>> \/ Len(got) >= ls.limit))
    <3>1. /\ ls'.cursor = next /\ UNCHANGED <<resume, listed>>
          /\ ls'.got = Counted(got) /\ ls'.limit = ls.limit
      BY <1>2, <2>c DEF Continue, LsRecord
    <3>2. honest => ls'.got = got BY <3>1 DEF Counted
    <3>3. ls'.limit # 0 => Len(ls'.got) < ls'.limit
      <4>1. Len(got) \in Nat /\ ls.limit \in Nat BY <2>2, LsFacts
      <4>2. ls.limit # 0 => ~(Len(got) >= ls.limit)
        BY <2>c
      <4> QED BY <3>1, <4>1, <4>2 DEF Counted
    <3> QED BY <2>1, <2>3, <2>4, <3>1, <3>2, <3>3 DEF ListInv, Complete
  <2> QED BY <1>5, <2>a, <2>b, <2>c DEF FollowCursor, got
<1> QED BY <1>1, <1>4, <1>5

\* What other keys and `rm` do to the listing takes nothing from what was listed: a file that is
\* deleted was not there all along.
LEMMA OthersKeepList ==
    ASSUME ListInv, ListShape', UNCHANGED <<honest, ls, resume, listed>>, steady' \subseteq steady
    PROVE  ListInv'
BY DEF ListInv, Complete

LEMMA ListSteps == ListInv /\ [ListNext]_listVars => ListInv'
<1> SUFFICES ASSUME ListInv, [ListNext]_listVars PROVE ListInv' OBVIOUS
<1>1. ListShape BY DEF ListInv
<1>2. ASSUME NEW limit \in Limits, StartLs(limit) PROVE ListInv'
  <2>a. LsType'
    <3>1. resume \in {Start} \cup Cursors BY <1>1, <1>2 DEF StartLs, ListShape
    <3> QED BY <1>2, <3>1, RestIsLs DEF StartLs, LsType, LsRecord
  <2>1. ListShape' BY <1>1, <1>2, <2>a DEF StartLs, ListShape, RmType, RmRest
  <2>2. listed \in Seq(Files) /\ ls'.got = <<>> /\ ls'.cursor = resume
        /\ UNCHANGED <<honest, files, steady, listed, resume>>
    BY <1>1, <1>2 DEF StartLs, LsRest, ListShape
  <2>3. listed \o <<>> = listed BY <2>2
  <2>4. ls'.limit = limit /\ (limit # 0 => 0 < limit)
    BY <1>2, ListingAssumption DEF StartLs, LsRest
  <2> QED BY <2>1, <2>2, <2>3, <2>4 DEF ListInv, Complete
<1>3. CASE ReadPage BY <1>3, ReadPageKeeps
<1>4. CASE PageFails
  <2>1. ListShape'
    BY <1>1, <1>4, RestIsLs DEF PageFails, Fail, ListShape, LsType, RmType
  <2> QED BY <1>4, <2>1 DEF PageFails, Fail, ListInv, LsRest, Complete
<1>5. ASSUME NEW batch \in SUBSET Files, NEW goOn \in BOOLEAN, StartRm(batch, goOn) PROVE ListInv'
  <2>1. ListShape' BY <1>1, <1>5 DEF StartRm, ListShape, LsType, RmType
  <2> QED BY <1>5, <2>1, OthersKeepList DEF StartRm
<1>6. CASE RemoveHopeless \/ EndRm
  <2>1. ListShape' BY <1>1, <1>6 DEF RemoveHopeless, EndRm, ListShape, LsType, RmType
  <2> QED BY <1>6, <2>1, OthersKeepList DEF RemoveHopeless, EndRm
<1>7. ASSUME NEW f \in Files, RemoveFile(f) \/ RemoveMissing(f) \/ RemoveUnclear(f) PROVE ListInv'
  <2>1. ListShape'
    BY <1>1, <1>7 DEF RemoveFile, RemoveMissing, RemoveUnclear, Vanish, AfterFailure, ListShape,
       LsType, RmType
  <2> QED BY <1>7, <2>1, OthersKeepList DEF RemoveFile, RemoveMissing, RemoveUnclear, Vanish
<1>8. ASSUME NEW f \in Files, Appear(f) \/ Lapse(f) PROVE ListInv'
  <2>1. ListShape' BY <1>1, <1>8 DEF Appear, Lapse, Vanish, ListShape, LsType, RmType
  <2> QED BY <1>8, <2>1, OthersKeepList DEF Appear, Lapse, Vanish
<1>9. CASE UNCHANGED listVars
  <2>1. ListShape' BY <1>1, <1>9 DEF listVars, ListShape, LsType, RmType
  <2> QED BY <1>9, <2>1, OthersKeepList DEF listVars
<1> QED BY <1>2, <1>3, <1>4, <1>5, <1>6, <1>7, <1>8, <1>9 DEF ListNext

LEMMA ListStarts == ListInit => ListInv
<1> SUFFICES ASSUME ListInit PROVE ListInv OBVIOUS
<1>1. ListShape
  BY ListingAssumption, RestIsLs DEF ListInit, ListShape, LsType, RmType, RmRest
<1>2. Complete(<<>>, Start)
  BY ListingAssumption DEF ListInit, Complete, Ordered, Start, Files, ToSet
<1> QED BY <1>1, <1>2 DEF ListInit, ListInv, LsRest

\* Every record of the listing and of the batch stays well formed, whoever answers.
THEOREM ListTyped == ListSpec => []ListTypes
<1>1. ListInv => ListTypes
  BY DEF ListInv, ListShape, LsType, LsRecord, RmType, ListTypes
<1> QED BY <1>1, ListStarts, ListSteps, PTL DEF ListSpec

\* docs/CLI.md:577 for any listing, any page size, any limits and any number of calls: calls
\* that resume one another report no file twice, and when the listing is exhausted they have
\* reported every file that was there all along.
THEOREM ListResumesExactly == ListSpec => []ResumesExactly
<1>1. ListInv => ResumesExactly
  <2> SUFFICES ASSUME ListInv, honest
               PROVE  IsInjective(listed) /\ (resume = End => steady \subseteq ToSet(listed))
    BY DEF ResumesExactly
  <2>1. Complete(listed, resume) /\ listed \in Seq(Files) /\ steady \subseteq Files
    BY DEF ListInv, ListShape
  <2>2. \A f \in Files : f \in Nat /\ f <= End BY ListingAssumption DEF Files, End
  <2>3. \A i \in DOMAIN listed : i \in Nat /\ listed[i] \in Nat BY <2>1, <2>2
  <2>4. IsInjective(listed)
    <3> SUFFICES ASSUME NEW i \in DOMAIN listed, NEW j \in DOMAIN listed, i < j
                 PROVE  listed[i] # listed[j]
      BY <2>3 DEF IsInjective
    <3>1. listed[i] < listed[j] BY <2>1 DEF Complete, Ordered
    <3> QED BY <2>3, <3>1
  <2>5. resume = End => steady \subseteq ToSet(listed) BY <2>1, <2>2 DEF Complete
  <2> QED BY <2>4, <2>5
<1> QED BY <1>1, ListStarts, ListSteps, PTL DEF ListSpec

\* How many more answers with no fresh cursor a call can take, how many files a limited call
\* still wants, and how many IDs a batch has left.
PagesLeft == IF ls.pc = "ask" THEN 1 + Cardinality(Files \ ls.seen) ELSE 0
FilesWanted == IF ls.pc = "ask" /\ ls.limit # 0 THEN ls.limit - Len(ls.got) ELSE 0
IdsLeft == IF rm.pc = "next" THEN 1 + Cardinality(rm.todo) ELSE 0

LEMMA FilesFinite ==
    ASSUME NEW S \in SUBSET Files
    PROVE  /\ IsFiniteSet(S) /\ Cardinality(S) \in 0..MaxFile
           /\ \A f \in S : Cardinality(S \ {f}) + 1 = Cardinality(S)
<1>1. IsFiniteSet(Files) /\ Cardinality(Files) = MaxFile
  BY ListingAssumption, FS_Interval DEF Files
<1>2. IsFiniteSet(S) /\ Cardinality(S) <= MaxFile BY <1>1, FS_Subset
<1>3. Cardinality(S) \in Nat BY <1>2, FS_CardinalityType
<1>4. ASSUME NEW f \in S PROVE Cardinality(S \ {f}) + 1 = Cardinality(S)
  <2>1. Cardinality(S \ {f}) = Cardinality(S) - 1 BY <1>2, <1>4, FS_RemoveElement
  <2> QED BY <1>3, <2>1
<1> QED BY <1>2, <1>3, <1>4, ListingAssumption

LEMMA LeftTyped ==
    ListInv => PagesLeft \in 0..(MaxFile + 1) /\ FilesWanted \in Nat /\ IdsLeft \in 0..(MaxFile + 1)
<1> SUFFICES ASSUME ListInv
             PROVE  /\ PagesLeft \in 0..(MaxFile + 1) /\ FilesWanted \in Nat
                    /\ IdsLeft \in 0..(MaxFile + 1)
  OBVIOUS
<1>1. Files \ ls.seen \in SUBSET Files /\ rm.todo \in SUBSET Files
  BY DEF ListInv, ListShape, LsType, LsRecord, RmType
<1>2. Cardinality(Files \ ls.seen) \in 0..MaxFile /\ Cardinality(rm.todo) \in 0..MaxFile
  BY <1>1, FilesFinite
<1>3. FilesWanted \in Nat
  <2>1. Len(ls.got) \in Nat /\ ls.limit \in Nat BY LsFacts
  <2> QED BY <2>1 DEF ListInv, FilesWanted
<1> QED BY <1>2, <1>3, ListingAssumption DEF PagesLeft, IdsLeft

\* Some answer of the service had a cursor none had before, and the call goes on with it.
GoesOnFresh == ~honest /\ ls'.pc = "ask" /\ ls'.cursor \in Fresh

LEMMA AnswerShortens ==
    ASSUME ListInv, ReadPage
    PROVE  /\ PagesLeft' < PagesLeft \/ (PagesLeft' = PagesLeft /\ GoesOnFresh)
           /\ FilesWanted' < FilesWanted \/ (FilesWanted' = FilesWanted /\ ls.limit = 0)
<1>1. PICK page \in Answers, next \in Cursors \cup {End} :
        /\ ls.pc = "ask" /\ Answer(page, next)
        /\ Fail \/ FollowCursor(ls.got \o page, page, next)
  BY DEF ReadPage
<1>2. ls \in LsRecord /\ ls.seen \subseteq Files /\ ls.limit \in Nat /\ ls.got \in Seq(Files)
  BY LsFacts
<1>3. Cardinality(Files \ ls.seen) \in Nat BY <1>2, FilesFinite
<1>4. FilesWanted \in Nat /\ (ls.limit # 0 => FilesWanted > 0 /\ FilesWanted = ls.limit - Len(ls.got))
      /\ (ls.limit = 0 => FilesWanted = 0)
  <2>1. Len(ls.got) \in Nat BY <1>2
  <2> QED BY <1>1, <1>2, <2>1 DEF ListInv, FilesWanted
<1>5. CASE ls' = LsRest
  BY <1>1, <1>3, <1>4, <1>5 DEF PagesLeft, FilesWanted, LsRest
<1>6. CASE /\ ls' = [ls EXCEPT !.cursor = next, !.seen = @ \cup ({next} \ Fresh),
                             !.got = Counted(ls.got \o page)]
           /\ next \in Cursors \ ls.seen
           /\ ~(ls.limit # 0 /\ (page = <<>> \/ Len(ls.got \o page) >= ls.limit))
  <2>1. /\ ls'.pc = "ask" /\ ls'.cursor = next /\ ls'.limit = ls.limit
        /\ ls'.seen = ls.seen \cup ({next} \ Fresh) /\ ls'.got = Counted(ls.got \o page)
    BY <1>1, <1>2, <1>6 DEF LsRecord
  <2>2. PagesLeft' < PagesLeft \/ (PagesLeft' = PagesLeft /\ GoesOnFresh)
    <3>1. CASE next \in Fresh
      <4>1. ~honest
        <5> SUFFICES ASSUME honest PROVE next \notin Fresh BY <3>1
        <5>1. next \in 0..End
          BY <1>1, <1>2, CursorFacts DEF Answer, HonestAnswer, LsRecord
        <5> QED BY <5>1, CursorFacts DEF Fresh
      <4>2. ls'.seen = ls.seen BY <2>1, <3>1
      <4> QED BY <1>1, <2>1, <3>1, <4>1, <4>2 DEF PagesLeft, GoesOnFresh
    <3>2. CASE next \notin Fresh
      <4>1. next \in Files \ ls.seen BY <1>6, <3>2, CursorFacts
      <4>2. Files \ ls'.seen = (Files \ ls.seen) \ {next} BY <2>1, <3>2
      <4>3. Cardinality(Files \ ls'.seen) + 1 = Cardinality(Files \ ls.seen)
        BY <1>2, <4>1, <4>2, FilesFinite
      <4>4. Cardinality(Files \ ls'.seen) \in Nat BY <4>2, FilesFinite
      <4> QED BY <1>1, <1>3, <2>1, <4>3, <4>4 DEF PagesLeft
    <3> QED BY <3>1, <3>2
  <2>3. FilesWanted' < FilesWanted \/ (FilesWanted' = FilesWanted /\ ls.limit = 0)
    <3>1. CASE ls.limit = 0
      BY <1>4, <2>1, <3>1 DEF FilesWanted
    <3>2. CASE ls.limit # 0
      <4>1. page \in Seq(Files) /\ page # <<>>
        <5>1. files \subseteq Files BY DEF ListInv, ListShape
        <5> QED BY <1>1, <1>6, <3>2, <5>1, AnswersTyped
      <4>2. Len(ls.got \o page) = Len(ls.got) + Len(page) /\ Len(page) > 0 /\ Len(page) \in Nat
            /\ Len(ls.got) \in Nat
        BY <1>2, <4>1
      <4>3. FilesWanted' = ls.limit - Len(ls.got \o page)
        BY <2>1, <3>2 DEF FilesWanted, Counted
      <4> QED BY <1>2, <1>4, <3>2, <4>2, <4>3
    <3> QED BY <3>1, <3>2
  <2> QED BY <2>2, <2>3
<1> QED BY <1>1, <1>2, <1>5, <1>6 DEF FollowCursor, Report, Fail, Continue

LEMMA DeletionShortens ==
    ASSUME ListInv,
           RemoveHopeless \/ EndRm
             \/ \E f \in Files : RemoveFile(f) \/ RemoveMissing(f) \/ RemoveUnclear(f)
    PROVE  IdsLeft' < IdsLeft
<1>1. rm.todo \subseteq Files /\ rm \in [pc : {"idle", "next", "failed", "done"}, named : SUBSET Files,
          todo : SUBSET Files, goOn : BOOLEAN, failed : BOOLEAN]
  BY DEF ListInv, ListShape, RmType
<1>2. Cardinality(rm.todo) \in Nat BY <1>1, FilesFinite
<1>3. CASE RemoveHopeless \/ EndRm
  BY <1>1, <1>2, <1>3 DEF RemoveHopeless, EndRm, IdsLeft
<1>4. ASSUME NEW f \in Files, RemoveFile(f) \/ RemoveMissing(f) \/ RemoveUnclear(f)
      PROVE  IdsLeft' < IdsLeft
  <2>1. rm.pc = "next" /\ f \in rm.todo /\ rm'.todo = rm.todo \ {f}
    BY <1>1, <1>4 DEF RemoveFile, RemoveMissing, RemoveUnclear, AfterFailure
  <2>2. Cardinality(rm'.todo) + 1 = Cardinality(rm.todo) BY <1>1, <2>1, FilesFinite
  <2>3. Cardinality(rm'.todo) \in Nat BY <1>1, <2>1, FilesFinite
  <2> QED BY <1>2, <2>1, <2>2, <2>3 DEF IdsLeft
<1> QED BY <1>3, <1>4

\* Whatever pages and cursors the service sends, and however the deletions go: each answer with
\* no fresh cursor, and each deletion, brings its command nearer to the end; a limited call comes
\* nearer with every answer; only a dishonest service keeps any other call as far from its end as
\* it was; and nobody else takes a command further from it.
THEOREM ListShortens ==
    ListSpec =>
        /\ [](/\ PagesLeft \in 0..(MaxFile + 1) /\ FilesWanted \in Nat
              /\ IdsLeft \in 0..(MaxFile + 1))
        /\ [][/\ ReadPage => PagesLeft' < PagesLeft \/ (PagesLeft' = PagesLeft /\ GoesOnFresh)
              /\ ReadPage /\ ls.limit # 0 => FilesWanted' < FilesWanted
              /\ PagesLeft' > PagesLeft \/ FilesWanted' > FilesWanted
                   => \E limit \in Limits : StartLs(limit)
              /\ rm.pc = "next" /\ rm' # rm => IdsLeft' < IdsLeft]_listVars
<1>1. ListInv => /\ PagesLeft \in 0..(MaxFile + 1) /\ FilesWanted \in Nat
                 /\ IdsLeft \in 0..(MaxFile + 1)
  BY LeftTyped
<1>2. ASSUME ListInv, ListInv', ListNext
      PROVE  /\ ReadPage => PagesLeft' < PagesLeft \/ (PagesLeft' = PagesLeft /\ GoesOnFresh)
             /\ ReadPage /\ ls.limit # 0 => FilesWanted' < FilesWanted
             /\ PagesLeft' > PagesLeft \/ FilesWanted' > FilesWanted
                  => \E limit \in Limits : StartLs(limit)
             /\ rm.pc = "next" /\ rm' # rm => IdsLeft' < IdsLeft
  <2>1. PagesLeft \in Nat /\ PagesLeft' \in Nat /\ FilesWanted \in Nat /\ FilesWanted' \in Nat
    <3>1. PagesLeft \in 0..(MaxFile + 1) /\ FilesWanted \in Nat BY <1>1, <1>2
    <3>2. ListInv' => (PagesLeft \in 0..(MaxFile + 1))' /\ (FilesWanted \in Nat)'
      BY LeftTyped, PTL
    <3> QED BY <1>2, <3>1, <3>2, ListingAssumption
  <2>2. CASE \E limit \in Limits : StartLs(limit)
    BY <2>2 DEF StartLs, ReadPage
  <2>3. CASE ReadPage BY <1>2, <2>1, <2>3, AnswerShortens DEF ReadPage
  <2>4. CASE PageFails
    <3>1. PagesLeft' = 0 /\ FilesWanted' = 0
      BY <2>4 DEF PageFails, Fail, LsRest, PagesLeft, FilesWanted
    <3>2. rm' = rm BY <2>4 DEF PageFails
    <3> QED BY <1>2, <2>1, <3>1, <3>2, AnswerShortens
  <2>5. CASE ls' = ls /\ ~ReadPage
    <3>1. PagesLeft' = PagesLeft /\ FilesWanted' = FilesWanted BY <2>5 DEF PagesLeft, FilesWanted
    <3>3. rm.pc = "next" /\ rm' # rm =>
            RemoveHopeless \/ EndRm
              \/ \E f \in Files : RemoveFile(f) \/ RemoveMissing(f) \/ RemoveUnclear(f)
      BY <1>2, <2>5 DEF ListNext, StartLs, PageFails, StartRm, Appear, Lapse
    <3> QED BY <1>2, <2>1, <2>5, <3>1, <3>3, DeletionShortens
  <2> QED
    BY <1>2, <2>2, <2>3, <2>4, <2>5
    DEF ListNext, StartRm, RemoveHopeless, EndRm, RemoveFile, RemoveMissing, RemoveUnclear, Appear, Lapse
<1>3. ListInv /\ [ListNext]_listVars => ListInv' BY ListSteps
<1> QED BY <1>1, <1>2, <1>3, ListStarts, PTL DEF ListSpec
=============================================================================
