------------------------- MODULE BundleInstallProofs -------------------------
(* Theorems about BundleInstall, for any number of receives in the directory, *)
(* any bundle, any manifest flaws, any faults and any other programs.         *)
EXTENDS BundleInstall, FiniteSetTheorems, WellFoundedInduction, TLAPS

(***************************************************************************)
(* What a receive at r, with .partial files part, may rely on: the files   *)
(* it counts as its own are its own, and hold as many verified chunks as   *)
(* the loop over files and chunks says.                                    *)
(***************************************************************************)
SoundRun(p, r, part) ==
    /\ r.file \in Files /\ r.flaw \in 0..(NFiles + 2)
    /\ \A i \in r.mine : part[i].by = p /\ part[i].flaw = r.flaw
    /\ r.pc = "idle" => r.mine = {}
    /\ r.pc \in {"stat", "create"} =>
         /\ r.mine = 1..(r.file - 1)
         /\ \A i \in r.mine : part[i].chunks = 0
    /\ r.pc \in {"open", "read", "verify"} =>
         /\ r.mine = Files
         /\ \A i \in r.mine :
              /\ i < r.file => part[i].chunks = Chunks[i] /\ r.flaw # i
              /\ i > r.file => part[i].chunks = 0
    /\ r.pc \in {"open", "read"} =>
         \A i \in r.mine : i = r.file => part[i].chunks < Chunks[i]
    /\ r.pc = "verify" =>
         \A i \in r.mine : i = r.file => part[i].chunks = Chunks[i]
    /\ r.pc = "trailing" =>
         /\ r.mine = Files /\ r.flaw \notin Files /\ r.file = 1
         /\ \A i \in r.mine : part[i].chunks = Chunks[i]
    /\ r.pc = "backup" => r.mine = Files
    /\ r.pc = "install" => r.mine = r.file..NFiles
    /\ r.pc \in {"backup", "install"} =>
         r.flaw = NoFlaw /\ \A i \in r.mine : part[i].chunks = Chunks[i]
    /\ r.pc = "discard" => r.mine = {}

BundleInv ==
    /\ TypeOK
    /\ \A p \in Procs : SoundRun(p, run[p], partial)
    /\ OnlyVerifiedInstalled

LEMMA RunFields ==
    ASSUME TypeOK, NEW p \in Procs
    PROVE  /\ run[p] \in Run /\ run[p].file \in Files /\ run[p].file \in Nat
           /\ run[p].pc \in PCs /\ run[p].ow \in BOOLEAN /\ run[p].flaw \in Nat
           /\ run[p].offset \in Nat /\ run[p].body \in Nat /\ run[p].attempt \in Nat
           /\ run[p].mine \subseteq Files /\ run[p].installed \subseteq Files
           /\ run[p].result \in Results /\ run[p].slipped \in BOOLEAN
  BY BundleAssumption DEF TypeOK, Run, Files

LEMMA IdleIsRun ==
    ASSUME NEW res \in Results, NEW s \in BOOLEAN
    PROVE  [Idle EXCEPT !.result = res, !.slipped = s] \in Run
  BY DEF Idle, Run, PCs, Results, NoFlaw

LEMMA ContentFacts ==
    /\ Absent \in Content /\ Earlier \in Content /\ Other \in Content
    /\ \A i \in Files : Verified(i, Absent) /\ Verified(i, Earlier) /\ Verified(i, Other)
    /\ \A p \in Procs : p # Absent.by
  BY BundleAssumption DEF Absent, Earlier, Other, Content, Verified, NoFlaw

\* Moving a run to another step, another file, and its counters on.
LEMMA RunMoves ==
    ASSUME TypeOK, NEW p \in Procs, NEW pc \in PCs, NEW f \in Nat, NEW o \in Nat, NEW b \in Nat,
           NEW a \in Nat
    PROVE  /\ [run[p] EXCEPT !.pc = pc] \in Run
           /\ [run[p] EXCEPT !.pc = pc, !.file = f] \in Run
           /\ [run[p] EXCEPT !.pc = pc, !.attempt = a] \in Run
           /\ [run[p] EXCEPT !.offset = o, !.body = b, !.attempt = a, !.pc = pc] \in Run
  BY RunFields DEF Run

LEMMA InstallMoves ==
    ASSUME TypeOK, NEW p \in Procs, NEW pc \in PCs, NEW f \in Nat,
           NEW m \in SUBSET Files, NEW d \in SUBSET Files
    PROVE  [run[p] EXCEPT !.pc = pc, !.file = f, !.mine = m, !.installed = d] \in Run
  BY RunFields DEF Run

LEMMA RunChanges ==
    ASSUME TypeOK, NEW p \in Procs, NEW r \in Run, run' = [run EXCEPT ![p] = r]
    PROVE  /\ run' \in [Procs -> Run]
           /\ run'[p] = r
           /\ \A q \in Procs \ {p} : run'[q] = run[q]
  BY DEF TypeOK

\* A receive changes the .partial files it owns and creates those that are absent,
\* so what every other receive relies on stays true.
LEMMA OthersSound ==
    ASSUME BundleInv, NEW p \in Procs,
           \A q \in Procs \ {p} : run'[q] = run[q],
           \A i \in Files : partial'[i] # partial[i] =>
               i \in run[p].mine \/ partial[i] = Absent,
           SoundRun(p, run'[p], partial')
    PROVE  \A q \in Procs : SoundRun(q, run'[q], partial')
<1> SUFFICES ASSUME NEW q \in Procs \ {p} PROVE SoundRun(q, run[q], partial')
  OBVIOUS
<1>1. SoundRun(q, run[q], partial) /\ SoundRun(p, run[p], partial)
  BY DEF BundleInv
<1>2. run[q].mine \subseteq Files BY RunFields DEF BundleInv
<1>3. ASSUME NEW i \in run[q].mine PROVE partial'[i] = partial[i]
  <2>1. partial[i].by = q BY <1>1 DEF SoundRun
  <2>2. i \notin run[p].mine BY <1>1, <2>1 DEF SoundRun
  <2>3. partial[i] # Absent BY <2>1, ContentFacts
  <2> QED BY <1>2, <2>2, <2>3
<1> QED BY <1>1, <1>3 DEF SoundRun

\* A step of receive p to r that leaves the invariant's parts in order keeps it.
LEMMA StepKeeps ==
    ASSUME BundleInv, NEW p \in Procs, NEW r \in Run, run' = [run EXCEPT ![p] = r],
           final' \in [Files -> Content], partial' \in [Files -> Content],
           \A i \in Files : partial'[i].chunks <= Chunks[i],
           saved' \in [Procs -> [Files -> Content]], orphans' \subseteq Files \X Content,
           before' \in [Procs -> [Files -> Content]],
           runs' \in Nat, faults' \in Nat, foreign' \in Nat,
           \A i \in Files : partial'[i] # partial[i] =>
               i \in run[p].mine \/ partial[i] = Absent,
           SoundRun(p, r, partial'),
           OnlyVerifiedInstalled'
    PROVE  BundleInv'
<1>1. /\ run' \in [Procs -> Run] /\ run'[p] = r
      /\ \A q \in Procs \ {p} : run'[q] = run[q]
  BY RunChanges DEF BundleInv
<1>2. \A q \in Procs : SoundRun(q, run'[q], partial')
  BY <1>1, OthersSound
<1>3. \A q \in Procs : run'[q].file \in Files
  BY <1>2 DEF SoundRun
<1> QED BY <1>1, <1>2, <1>3 DEF BundleInv, TypeOK

\* The same for a step that touches no file.
LEMMA ControlStep ==
    ASSUME BundleInv, NEW p \in Procs, NEW r \in Run, run' = [run EXCEPT ![p] = r],
           UNCHANGED <<disk, before, runs, foreign>>, faults' \in Nat,
           SoundRun(p, r, partial)
    PROVE  BundleInv'
<1>1. UNCHANGED <<final, partial, saved, orphans>> BY DEF disk
<1>2. OnlyVerifiedInstalled' BY <1>1 DEF BundleInv, OnlyVerifiedInstalled, Verified
<1> QED BY <1>1, <1>2, StepKeeps DEF BundleInv, TypeOK

LEMMA CountersNat ==
    ASSUME TypeOK
    PROVE  /\ runs \in Nat /\ faults \in Nat /\ foreign \in Nat
           /\ Fault => faults' \in Nat
           /\ NoFault => faults' \in Nat
  BY DEF TypeOK, Fault, NoFault

\* Going to cleanup, and every rollback step, asks for ownership alone.
LEMMA CleanUpSound ==
    ASSUME BundleInv, NEW p \in Procs, NEW r \in Run, NEW part,
           r.pc \in {"undo", "restore", "cleanup"}, r.mine \subseteq run[p].mine,
           r.file = run[p].file, r.flaw = run[p].flaw,
           \A i \in r.mine : part[i].by = partial[i].by /\ part[i].flaw = partial[i].flaw
    PROVE  SoundRun(p, r, part)
<1>1. SoundRun(p, run[p], partial) BY DEF BundleInv
<1> QED BY <1>1 DEF SoundRun

LEMMA ToCleanUp ==
    ASSUME BundleInv, NEW p \in Procs, NEW pc \in {"cleanup", "undo", "restore"}, Goto(p, pc),
           UNCHANGED <<disk, before, runs, foreign>>, faults' \in Nat
    PROVE  BundleInv'
<1> DEFINE r == [run[p] EXCEPT !.pc = pc]
<1>1. r \in Run BY RunFields DEF BundleInv, Run, PCs
<1>2. run' = [run EXCEPT ![p] = r] BY DEF Goto
<1>3. r.pc = pc /\ r.mine = run[p].mine /\ r.file = run[p].file /\ r.flaw = run[p].flaw
  BY RunFields DEF BundleInv, Run
<1> HIDE DEF r
<1>4. SoundRun(p, r, partial) BY <1>1, <1>3, CleanUpSound
<1> QED BY <1>1, <1>2, <1>4, ControlStep

LEMMA DownloadingKeeps ==
    ASSUME BundleInv, NEW p \in Procs, Downloading(p)
    PROVE  BundleInv'
<1> USE BundleAssumption
<1>0. /\ TypeOK /\ SoundRun(p, run[p], partial)
      /\ run[p].file \in Nat /\ run[p].mine \subseteq Files
  BY RunFields DEF BundleInv
<1>1. CASE Stat(p)
  <2>0. UNCHANGED <<disk, before, runs, foreign>> /\ faults' \in Nat
    BY <1>0, <1>1, CountersNat DEF Stat
  <2>1. CASE Goto(p, "cleanup") BY <2>0, <2>1, ToCleanUp
  <2>2. CASE Goto(p, "create")
    <3> DEFINE r == [run[p] EXCEPT !.pc = "create"]
    <3>1. r \in Run BY <1>0, RunFields DEF Run, PCs
    <3>2. run' = [run EXCEPT ![p] = r] BY <2>2 DEF Goto
    <3>3. SoundRun(p, r, partial) BY <1>0, <1>1, RunFields DEF SoundRun, Stat, At, Run
    <3> HIDE DEF r
    <3> QED BY <2>0, <3>1, <3>2, <3>3, ControlStep
  <2> QED BY <1>1, <2>1, <2>2 DEF Stat
<1>2. CASE CreatePartial(p)
  <2>1. CASE Goto(p, "cleanup") /\ UNCHANGED partial
    BY <1>0, <1>2, <2>1, CountersNat, ToCleanUp DEF CreatePartial, disk
  <2>2. CASE ~(Goto(p, "cleanup") /\ UNCHANGED partial)
    <3> PICK i \in Files : i = run[p].file BY <1>0 DEF SoundRun
    <3> DEFINE new == [by |-> p, chunks |-> 0, flaw |-> run[p].flaw]
               r == [run[p] EXCEPT !.pc = IF i = NFiles THEN "open" ELSE "stat",
                                   !.file = IF i = NFiles THEN 1 ELSE i + 1,
                                   !.mine = @ \cup {i}]
    <3>1. /\ partial[i] = Absent /\ partial' = [partial EXCEPT ![i] = new]
          /\ run' = [run EXCEPT ![p] = r] /\ NoFault
          /\ UNCHANGED <<final, saved, orphans, before, runs, foreign>>
          /\ run[p].pc = "create"
      BY <1>2, <2>2 DEF CreatePartial, At
    <3>2. r \in Run
      <4>1. /\ (IF i = NFiles THEN "open" ELSE "stat") \in PCs
            /\ (IF i = NFiles THEN 1 ELSE i + 1) \in Nat
            /\ run[p].mine \cup {i} \subseteq Files
        BY <1>0 DEF PCs, Files
      <4> QED BY <1>0, <4>1, RunFields DEF Run
    <3>3. new \in Content BY <1>0, RunFields DEF Content
    <3>4. /\ partial' \in [Files -> Content]
          /\ \A j \in Files : partial'[j].chunks <= Chunks[j]
          /\ \A j \in Files : j # i => partial'[j] = partial[j]
          /\ partial'[i] = new
      BY <1>0, <3>1, <3>3 DEF TypeOK
    <3>5. SoundRun(p, r, partial')
      <4>1. i \in 1..NFiles /\ run[p].mine = 1..(i - 1)
        BY <1>0, <3>1 DEF SoundRun, Files
      <4>2. r.mine = 1..i BY <4>1, RunFields, <1>0 DEF Run
      <4>3. \A j \in r.mine : partial'[j].by = p /\ partial'[j].flaw = run[p].flaw
                                /\ partial'[j].chunks = 0
        BY <1>0, <3>1, <3>4, <4>1, <4>2 DEF SoundRun, Files
      <4>4. r.flaw = run[p].flaw /\ r.flaw \in 0..(NFiles + 2)
            /\ r.file = (IF i = NFiles THEN 1 ELSE i + 1)
            /\ r.pc = (IF i = NFiles THEN "open" ELSE "stat")
        BY <1>0, RunFields DEF SoundRun, Run
      <4> HIDE DEF r
      <4>5. CASE i = NFiles
        BY <4>1, <4>2, <4>3, <4>4, <4>5 DEF SoundRun, Files
      <4>6. CASE i # NFiles
        <5>1. i + 1 \in Files BY <4>1, <4>6 DEF Files
        <5>2. 1..i = 1..(r.file - 1) BY <4>1, <4>4, <4>6
        <5> QED BY <4>2, <4>3, <4>4, <4>6, <5>1, <5>2 DEF SoundRun
      <4> QED BY <4>5, <4>6
    <3>6. OnlyVerifiedInstalled' BY <3>1 DEF BundleInv, OnlyVerifiedInstalled
    <3> HIDE DEF r, new
    <3> QED BY <1>0, <3>1, <3>2, <3>4, <3>5, <3>6, CountersNat, StepKeeps DEF TypeOK
  <2> QED BY <2>1, <2>2
<1>3. CASE Open(p)
  <2>0. UNCHANGED <<disk, before, runs, foreign>> /\ faults' \in Nat
    BY <1>0, <1>3, CountersNat DEF Open
  <2>1. CASE Goto(p, "cleanup") BY <2>0, <2>1, ToCleanUp
  <2>2. CASE ~Goto(p, "cleanup")
    <3> DEFINE r == [run[p] EXCEPT !.pc = "read", !.body = run[p].offset]
    <3>1. r \in Run BY <1>0, RunFields DEF Run, PCs
    <3>2. run' = [run EXCEPT ![p] = r] BY <1>3, <2>2 DEF Open
    <3>3. SoundRun(p, r, partial) BY <1>0, <1>3, RunFields DEF SoundRun, Open, At, Run
    <3> HIDE DEF r
    <3> QED BY <2>0, <3>1, <3>2, <3>3, ControlStep
  <2> QED BY <2>1, <2>2
<1>4. ASSUME NEW n \in Nat, NEW r \in Run, At(p, "read"),
             n <= Chunks[run[p].file], run' = [run EXCEPT ![p] = r], faults' \in Nat,
             partial' = [partial EXCEPT ![run[p].file].chunks = n],
             SoundRun(p, r, partial'),
             UNCHANGED <<final, saved, orphans, before, runs, foreign>>
      PROVE  BundleInv'
  <2> PICK i \in Files : i = run[p].file BY <1>0 DEF SoundRun
  <2>1. /\ partial' \in [Files -> Content]
        /\ \A j \in Files : partial'[j].chunks <= Chunks[j]
        /\ \A j \in Files : j # i => partial'[j] = partial[j]
    BY <1>0, <1>4 DEF TypeOK, Content
  <2>2. i \in run[p].mine BY <1>0, <1>4 DEF SoundRun, At
  <2>3. OnlyVerifiedInstalled' BY <1>4 DEF BundleInv, OnlyVerifiedInstalled
  <2>4. \A j \in Files : partial'[j] # partial[j] => j \in run[p].mine \/ partial[j] = Absent
    BY <2>1, <2>2
  <2>5. /\ final' \in [Files -> Content] /\ saved' \in [Procs -> [Files -> Content]]
        /\ orphans' \subseteq Files \X Content /\ before' \in [Procs -> [Files -> Content]]
        /\ runs' \in Nat /\ foreign' \in Nat
    BY <1>0, <1>4 DEF TypeOK
  <2> QED BY <1>4, <2>1, <2>3, <2>4, <2>5, StepKeeps
<1> DEFINE k == run[p].file
           written == partial[k].chunks + 1
<1>5. ASSUME At(p, "read")
      PROVE  /\ k \in Files /\ run[p].mine = Files /\ written \in Nat
             /\ written <= Chunks[k] /\ partial[k].chunks \in Nat
             /\ Chunks[k] \in Nat
  BY <1>0, <1>5 DEF SoundRun, At, TypeOK, Content
<1>6. CASE ReadChunk(p)
  <2> PICK pc \in {"verify", "read"} : pc = IF written = Chunks[k] THEN "verify" ELSE "read"
    OBVIOUS
  <2> DEFINE r == [run[p] EXCEPT !.offset = @ + 1, !.body = @ + 1, !.attempt = 0, !.pc = pc]
  <2>0. At(p, "read") BY <1>6 DEF ReadChunk
  <2>1. r \in Run
    <3>1. pc \in PCs /\ run[p].offset + 1 \in Nat /\ run[p].body + 1 \in Nat
      BY <1>0, RunFields DEF PCs
    <3> QED BY <1>0, <3>1, RunMoves
  <2>2. run' = [run EXCEPT ![p] = r] BY <1>6 DEF ReadChunk
  <2>3. partial' = [partial EXCEPT ![k].chunks = written] BY <1>6 DEF ReadChunk
  <2>4. SoundRun(p, r, partial')
    <3>1. /\ r.mine = Files /\ r.file = k /\ r.flaw = run[p].flaw
          /\ r.pc = IF written = Chunks[k] THEN "verify" ELSE "read"
      BY <1>0, <1>5, <2>0, RunFields DEF Run
    <3>2. \A j \in Files : /\ partial'[j].by = partial[j].by
                           /\ partial'[j].flaw = partial[j].flaw
                           /\ partial'[j].chunks = IF j = k THEN written ELSE partial[j].chunks
      BY <1>0, <2>3 DEF TypeOK, Content
    <3> HIDE DEF r
    <3> QED BY <1>0, <1>5, <2>0, <3>1, <3>2 DEF SoundRun, At
  <2> HIDE DEF r
  <2> QED BY <1>0, <1>4, <1>5, <1>6, <2>0, <2>1, <2>2, <2>3, <2>4 DEF ReadChunk, bounds, TypeOK
<1>7. CASE ChunkRefused(p)
  BY <1>0, <1>7, CountersNat, ToCleanUp DEF ChunkRefused
<1>8. CASE BodyBreaks(p)
  <2>0. UNCHANGED <<disk, before, runs, foreign>> /\ faults' \in Nat
    BY <1>0, <1>8, CountersNat DEF BodyBreaks
  <2>1. CASE Goto(p, "cleanup") BY <2>0, <2>1, ToCleanUp
  <2>2. CASE ~Goto(p, "cleanup")
    <3> DEFINE r == [run[p] EXCEPT !.pc = "open", !.attempt = @ + 1]
    <3>1. r \in Run
      <4>1. "open" \in PCs /\ run[p].attempt + 1 \in Nat BY <1>0, RunFields DEF PCs
      <4> QED BY <1>0, <4>1, RunMoves
    <3>2. run' = [run EXCEPT ![p] = r] BY <1>8, <2>2 DEF BodyBreaks
    <3>3. SoundRun(p, r, partial) BY <1>0, <1>8, RunFields DEF SoundRun, BodyBreaks, At, Run
    <3> HIDE DEF r
    <3> QED BY <2>0, <3>1, <3>2, <3>3, ControlStep
  <2> QED BY <2>1, <2>2
<1>9. CASE ReadGivesUp(p)
  <2> DEFINE r == [run[p] EXCEPT !.pc = "cleanup"]
  <2>0. At(p, "read") BY <1>9 DEF ReadGivesUp
  <2> PICK n \in {written - 1, written} : partial' = [partial EXCEPT ![k].chunks = n]
    BY <1>9 DEF ReadGivesUp
  <2>1. n \in Nat /\ n <= Chunks[k] BY <1>5, <2>0
  <2>2. r \in Run
    <3>1. "cleanup" \in PCs BY DEF PCs
    <3> QED BY <1>0, <3>1, RunMoves
  <2>3. run' = [run EXCEPT ![p] = r] BY <1>9 DEF ReadGivesUp, Goto
  <2>4. /\ r.pc = "cleanup" /\ r.mine = run[p].mine /\ r.file = run[p].file
        /\ r.flaw = run[p].flaw
    BY <1>0, RunFields DEF Run
  <2>5. \A j \in Files : partial'[j].by = partial[j].by /\ partial'[j].flaw = partial[j].flaw
    BY <1>0 DEF TypeOK, Content
  <2> HIDE DEF r
  <2>6. SoundRun(p, r, partial')
    <3>1. \A j \in r.mine : partial'[j].by = partial[j].by /\ partial'[j].flaw = partial[j].flaw
      BY <1>0, <2>4, <2>5
    <3> QED BY <1>0, <2>4, <3>1 DEF SoundRun
  <2> QED BY <1>0, <1>4, <1>9, <2>0, <2>1, <2>2, <2>3, <2>6, CountersNat DEF ReadGivesUp
<1>10. CASE VerifyFile(p)
  <2>0. UNCHANGED <<disk, before, runs, foreign>> /\ faults' \in Nat
    BY <1>0, <1>10, CountersNat DEF VerifyFile
  <2>1. CASE Goto(p, "cleanup") BY <2>0, <2>1, ToCleanUp
  <2>2. CASE ~Goto(p, "cleanup")
    <3> DEFINE r == [run[p] EXCEPT !.pc = IF k = NFiles THEN "trailing" ELSE "read",
                                   !.file = IF k = NFiles THEN 1 ELSE k + 1]
    <3>0. /\ (IF k = NFiles THEN "trailing" ELSE "read") \in PCs
          /\ (IF k = NFiles THEN 1 ELSE k + 1) \in Nat
      BY <1>0 DEF PCs
    <3>1. r \in Run BY <1>0, <3>0, RunMoves
    <3>2. run' = [run EXCEPT ![p] = r] /\ run[p].flaw # k /\ run[p].pc = "verify"
      BY <1>10, <2>2 DEF VerifyFile, At
    <3>3. /\ r.mine = Files /\ r.flaw = run[p].flaw
          /\ r.file = (IF k = NFiles THEN 1 ELSE k + 1)
          /\ r.pc = (IF k = NFiles THEN "trailing" ELSE "read")
      BY <1>0, <3>2, RunFields DEF Run, SoundRun
    <3>4. /\ k \in 1..NFiles /\ run[p].mine = Files
          /\ \A j \in Files : j <= k => partial[j].chunks = Chunks[j] /\ r.flaw # j
          /\ \A j \in Files : j > k => partial[j].chunks = 0
          /\ \A j \in Files : partial[j].by = p /\ partial[j].flaw = r.flaw
          /\ r.flaw \in 0..(NFiles + 2)
      BY <1>0, <3>2, <3>3 DEF SoundRun, Files
    <3> HIDE DEF r
    <3>5. SoundRun(p, r, partial)
      <4>1. CASE k = NFiles
        <5>1. \A j \in Files : j <= k BY <4>1 DEF Files
        <5>2. 1 \in Files BY DEF Files
        <5> QED BY <3>3, <3>4, <4>1, <5>1, <5>2 DEF SoundRun
      <4>2. CASE k # NFiles
        <5>1. k + 1 \in Files BY <3>4, <4>2 DEF Files
        <5>2. \A j \in Files : (j < k + 1 <=> j <= k) /\ (j > k + 1 => j > k) /\ k + 1 > k
          BY <3>4 DEF Files
        <5>3. Chunks[k + 1] > 0 BY <5>1
        <5>4. partial[k + 1].chunks = 0 BY <3>4, <5>1, <5>2
        <5> QED BY <3>3, <3>4, <4>2, <5>1, <5>2, <5>3, <5>4 DEF SoundRun
      <4> QED BY <4>1, <4>2
    <3> QED BY <2>0, <3>1, <3>2, <3>5, ControlStep
  <2> QED BY <2>1, <2>2
<1>11. CASE VerifyAll(p)
  <2>0. UNCHANGED <<disk, before, runs, foreign>> /\ faults' \in Nat
    BY <1>0, <1>11, CountersNat DEF VerifyAll
  <2>1. CASE Goto(p, "cleanup") BY <2>0, <2>1, ToCleanUp
  <2>2. CASE ~Goto(p, "cleanup")
    <3> PICK pc \in {"backup", "install"} : Goto(p, pc) /\ run[p].flaw \notin {Trailing, Aggregate}
      BY <1>11, <2>2 DEF VerifyAll
    <3> DEFINE r == [run[p] EXCEPT !.pc = pc]
    <3>1. r \in Run BY <1>0, RunFields DEF Run, PCs
    <3>2. run' = [run EXCEPT ![p] = r] BY DEF Goto
    <3>3. run[p].flaw = NoFlaw
      <4>1. run[p].flaw \in 0..(NFiles + 2) /\ run[p].flaw \notin 1..NFiles
        BY <1>0, <1>11 DEF SoundRun, VerifyAll, At, Files
      <4> QED BY <4>1 DEF Trailing, Aggregate, NoFlaw
    <3>4. SoundRun(p, r, partial)
      BY <1>0, <1>11, <3>3, RunFields DEF SoundRun, VerifyAll, At, Run, Files
    <3> HIDE DEF r
    <3> QED BY <2>0, <3>1, <3>2, <3>4, ControlStep
  <2> QED BY <2>1, <2>2
<1> QED BY <1>1, <1>2, <1>3, <1>6, <1>7, <1>8, <1>9, <1>10, <1>11 DEF Downloading

\* The .partial files stay as they are: what remains of StepKeeps.
LEMMA DestinationStep ==
    ASSUME BundleInv, NEW p \in Procs, NEW r \in Run, run' = [run EXCEPT ![p] = r],
           final' \in [Files -> Content], saved' \in [Procs -> [Files -> Content]],
           orphans' \subseteq Files \X Content, faults' \in Nat,
           UNCHANGED <<partial, before, runs, foreign>>,
           SoundRun(p, r, partial), OnlyVerifiedInstalled'
    PROVE  BundleInv'
<1>1. /\ partial' \in [Files -> Content] /\ \A i \in Files : partial'[i].chunks <= Chunks[i]
      /\ \A i \in Files : partial'[i] = partial[i]
      /\ before' \in [Procs -> [Files -> Content]] /\ runs' \in Nat /\ foreign' \in Nat
      /\ SoundRun(p, r, partial')
  BY DEF BundleInv, TypeOK
<1> QED BY <1>1, StepKeeps

LEMMA FirstIsLeast ==
    ASSUME NEW S \in SUBSET Files, S # {}
    PROVE  First(S) \in S /\ \A j \in S : First(S) <= j
<1> DEFINE R == {ss \in Nat \X Nat : ss[1] < ss[2]}
<1>1. S \subseteq Nat BY DEF Files
<1>2. IsWellFoundedOn(R, Nat) BY NatLessThanWellFounded DEF OpToRel
<1> HIDE DEF R
<1>3. \E i \in S : \A j \in S : <<j, i>> \notin R BY <1>1, <1>2, WFMin
<1>4. PICK i \in S : \A j \in S : <<j, i>> \notin R BY <1>3
<1>5. ASSUME NEW j \in S PROVE i <= j
  <2>1. i \in Nat /\ j \in Nat BY <1>1
  <2>2. j < i => <<j, i>> \in R
    <3>1. <<j, i>> \in Nat \X Nat /\ <<j, i>>[1] = j /\ <<j, i>>[2] = i BY <2>1
    <3> QED BY <3>1 DEF R
  <2> QED BY <1>4, <2>1, <2>2
<1> QED BY <1>5 DEF First

LEMMA FirstIn ==
    ASSUME NEW S \in SUBSET Files, S # {}
    PROVE  First(S) \in S
BY FirstIsLeast

\* Noting that an operation failed leaves what the receive relies on.
LEMMA SlipSound ==
    ASSUME BundleInv, NEW p \in Procs, NEW s \in BOOLEAN
    PROVE  /\ [run[p] EXCEPT !.slipped = s] \in Run
           /\ SoundRun(p, [run[p] EXCEPT !.slipped = s], partial)
           /\ run[p].slipped \in BOOLEAN
           /\ run = [run EXCEPT ![p] = [run[p] EXCEPT !.slipped = run[p].slipped]]
<1>1. run[p] \in Run /\ run[p].slipped \in BOOLEAN /\ SoundRun(p, run[p], partial)
      /\ run \in [Procs -> Run]
  BY RunFields DEF BundleInv, TypeOK
<1> DEFINE r == [run[p] EXCEPT !.slipped = s]
<1>2. r \in Run /\ r.pc = run[p].pc /\ r.mine = run[p].mine /\ r.file = run[p].file
      /\ r.flaw = run[p].flaw
  BY <1>1 DEF Run
<1>3. [run[p] EXCEPT !.slipped = run[p].slipped] = run[p]
  BY <1>1 DEF Run
<1>4. run = [run EXCEPT ![p] = run[p]] BY <1>1
<1> HIDE DEF r
<1>5. SoundRun(p, r, partial) BY <1>1, <1>2 DEF SoundRun
<1> QED BY <1>1, <1>2, <1>3, <1>4, <1>5 DEF r

LEMMA InstallingKeeps ==
    ASSUME BundleInv, NEW p \in Procs, Installing(p)
    PROVE  BundleInv'
<1> USE BundleAssumption
<1>0. /\ TypeOK /\ SoundRun(p, run[p], partial) /\ OnlyVerifiedInstalled
      /\ run[p].file \in Nat /\ run[p].mine \subseteq Files
  BY RunFields DEF BundleInv
<1> PICK i \in Files : i = run[p].file BY <1>0 DEF SoundRun
<1> DEFINE past == IF i = NFiles THEN 1 ELSE i + 1
<1>a. past \in Files /\ i \in 1..NFiles /\ past \in Nat BY DEF Files
<1>1. CASE BackUp(p)
  <2>1. CASE Goto(p, "undo") /\ UNCHANGED <<final, saved>>
    BY <1>0, <1>1, <2>1, CountersNat, ToCleanUp DEF BackUp, disk
  <2>2. CASE ~(Goto(p, "undo") /\ UNCHANGED <<final, saved>>)
    <3> PICK pc \in {"install", "backup"} : pc = IF i = NFiles THEN "install" ELSE "backup"
      OBVIOUS
    <3> DEFINE r == [run[p] EXCEPT !.pc = pc, !.file = past]
    <3>1. /\ saved' = [saved EXCEPT ![p][i] = final[i]]
          /\ final' = [final EXCEPT ![i] = Absent]
          /\ run' = [run EXCEPT ![p] = r]
          /\ NoFault /\ run[p].pc = "backup"
          /\ UNCHANGED <<partial, orphans, before, runs, foreign>>
      BY <1>1, <2>2 DEF BackUp, At
    <3>2. r \in Run
      <4>1. pc \in PCs BY DEF PCs
      <4> QED BY <1>0, <1>a, <4>1, RunMoves
    <3>3. /\ final' \in [Files -> Content] /\ saved' \in [Procs -> [Files -> Content]]
      BY <1>0, <3>1, ContentFacts DEF TypeOK
    <3>4. OnlyVerifiedInstalled'
      <4>1. \A j \in Files : final'[j] \in {final[j], Absent}
        BY <1>0, <3>1 DEF TypeOK
      <4>2. \A q \in Procs, j \in Files : saved'[q][j] \in {saved[q][j], final[j]}
        BY <1>0, <3>1 DEF TypeOK
      <4> QED BY <1>0, <4>1, <4>2, ContentFacts DEF OnlyVerifiedInstalled, Verified
    <3>5. SoundRun(p, r, partial)
      <4>1. r.pc = pc /\ r.file = past /\ r.mine = run[p].mine /\ r.flaw = run[p].flaw
        BY <1>0, RunFields DEF Run
      <4>2. run[p].mine = Files /\ run[p].flaw = NoFlaw
        BY <1>0, <3>1 DEF SoundRun
      <4>3. pc = "install" => run[p].mine = past..NFiles BY <1>a, <4>2 DEF Files
      <4> HIDE DEF r, past
      <4> QED BY <1>0, <1>a, <3>1, <4>1, <4>2, <4>3 DEF SoundRun
    <3>6. UNCHANGED <<partial, before, runs, foreign>> /\ orphans' \subseteq Files \X Content
          /\ faults' \in Nat
      BY <1>0, <3>1, CountersNat DEF TypeOK
    <3> HIDE DEF r
    <3> QED BY <1>0, <3>1, <3>2, <3>3, <3>4, <3>5, <3>6, DestinationStep
  <2> QED BY <2>1, <2>2
<1>2. CASE InstallFile(p)
  <2>1. CASE Goto(p, "undo") /\ UNCHANGED <<final, partial>>
    BY <1>0, <1>2, <2>1, CountersNat, ToCleanUp DEF InstallFile, disk
  <2>2. CASE ~(Goto(p, "undo") /\ UNCHANGED <<final, partial>>)
    <3> PICK pc \in {"discard", "install"} : pc = IF i = NFiles THEN "discard" ELSE "install"
      OBVIOUS
    <3> DEFINE r == [run[p] EXCEPT !.pc = pc, !.file = past, !.mine = @ \ {i},
                                   !.installed = @ \cup {i}]
    <3>0. At(p, "install") /\ ~(Goto(p, "undo") /\ Fault /\ UNCHANGED <<final, partial>>)
      BY <1>2, <2>2 DEF InstallFile
    <3>1. /\ final' = [final EXCEPT ![i] = partial[i]]
          /\ partial' = [partial EXCEPT ![i] = Absent]
          /\ run' = [run EXCEPT ![p] = r]
          /\ NoFault /\ run[p].pc = "install"
          /\ UNCHANGED <<saved, orphans, before, runs, foreign>>
      <4>1. pc = IF i = NFiles THEN "discard" ELSE run[p].pc BY <3>0 DEF At
      <4>2. /\ final' = [final EXCEPT ![i] = partial[i]]
            /\ partial' = [partial EXCEPT ![i] = Absent]
            /\ run' = [run EXCEPT ![p].pc = IF i = NFiles THEN "discard" ELSE @,
                                  ![p].file = IF i = NFiles THEN 1 ELSE i + 1,
                                  ![p].mine = @ \ {i}, ![p].installed = @ \cup {i}]
            /\ NoFault
            /\ UNCHANGED <<saved, orphans, before, runs, foreign>>
        BY <1>2, <3>0, Zenon DEF InstallFile
      <4>3. run' = [run EXCEPT ![p] = r]
        <5>1. CASE i = NFiles BY <1>0, <4>1, <4>2, <5>1 DEF TypeOK
        <5>2. CASE i # NFiles BY <1>0, <4>1, <4>2, <5>2 DEF TypeOK
        <5> QED BY <5>1, <5>2
      <4> QED BY <3>0, <4>2, <4>3 DEF At
    <3>2. r \in Run
      <4>1. /\ pc \in PCs /\ run[p].mine \ {i} \subseteq Files
            /\ run[p].installed \cup {i} \subseteq Files
        BY <1>0, RunFields DEF PCs
      <4> HIDE DEF past
      <4> QED BY <1>0, <1>a, <4>1, InstallMoves
    <3>3. /\ run[p].mine = i..NFiles /\ run[p].flaw = NoFlaw /\ i \in run[p].mine
          /\ partial[i].chunks = Chunks[i] /\ partial[i].flaw = NoFlaw
      <4>1. run[p].mine = i..NFiles /\ run[p].flaw = NoFlaw
            /\ \A j \in run[p].mine : partial[j].chunks = Chunks[j] /\ partial[j].flaw = run[p].flaw
        BY <1>0, <3>1 DEF SoundRun
      <4>2. i \in i..NFiles BY <1>a
      <4> QED BY <4>1, <4>2
    <3>4. /\ final' \in [Files -> Content] /\ partial' \in [Files -> Content]
          /\ \A j \in Files : j # i => partial'[j] = partial[j]
          /\ partial'[i] = Absent
      BY <1>0, <3>1, ContentFacts DEF TypeOK
    <3>5. \A j \in Files : partial'[j].chunks <= Chunks[j]
      BY <1>0, <3>4 DEF TypeOK, Absent
    <3>6. OnlyVerifiedInstalled'
      <4>1. \A j \in Files : j # i => final'[j] = final[j]
        BY <1>0, <3>1 DEF TypeOK
      <4>2. Verified(i, final'[i])
        BY <1>0, <3>1, <3>3 DEF TypeOK, Verified
      <4> QED BY <1>0, <3>1, <4>1, <4>2 DEF OnlyVerifiedInstalled, Verified
    <3>7. SoundRun(p, r, partial')
      <4>1. /\ r.pc = pc /\ r.file = past /\ r.mine = run[p].mine \ {i}
            /\ r.flaw = run[p].flaw
        BY <1>0, RunFields DEF Run
      <4>2. pc = "install" => r.mine = past..NFiles BY <1>a, <3>3, <4>1
      <4>3. pc = "discard" => r.mine = {} BY <1>a, <3>3, <4>1
      <4>4. \A j \in r.mine : partial'[j] = partial[j] /\ j \in run[p].mine
        BY <1>0, <3>4, <4>1
      <4> HIDE DEF r, past
      <4> QED BY <1>0, <1>a, <3>1, <3>3, <4>1, <4>2, <4>3, <4>4 DEF SoundRun
    <3>8. /\ saved' \in [Procs -> [Files -> Content]] /\ orphans' \subseteq Files \X Content
          /\ before' \in [Procs -> [Files -> Content]]
          /\ runs' \in Nat /\ foreign' \in Nat /\ faults' \in Nat
      BY <1>0, <3>1, CountersNat DEF TypeOK
    <3>9. \A j \in Files : partial'[j] # partial[j] => j \in run[p].mine \/ partial[j] = Absent
      BY <3>3, <3>4
    <3> HIDE DEF r
    <3> QED BY <1>0, <3>1, <3>2, <3>4, <3>5, <3>6, <3>7, <3>8, <3>9, StepKeeps
  <2> QED BY <2>1, <2>2
<1>3. CASE Discard(p)
  <2>1. CASE Backups(p) = {}
    <3> DEFINE r == [Idle EXCEPT !.result = "ok", !.slipped = run[p].slipped]
    <3>1. r \in Run BY <1>0, RunFields, IdleIsRun DEF Results
    <3>2. run' = [run EXCEPT ![p] = r] BY <1>3, <2>1 DEF Discard, Finish
    <3>3. SoundRun(p, r, partial) BY DEF SoundRun, Idle, NoFlaw, Files
    <3>4. UNCHANGED <<disk, before, runs, foreign>> /\ faults' \in Nat
      BY <1>0, <1>3, <2>1, CountersNat DEF Discard, disk
    <3> HIDE DEF r
    <3> QED BY <3>1, <3>2, <3>3, <3>4, ControlStep
  <2>2. CASE Backups(p) # {}
    <3> PICK b \in Files : b = First(Backups(p))
      <4>1. Backups(p) \in SUBSET Files BY DEF Backups
      <4> QED BY <2>2, <4>1, FirstIn
    <3> PICK s \in BOOLEAN : run' = [run EXCEPT ![p] = [run[p] EXCEPT !.slipped = s]]
      BY <1>3, <2>2, SlipSound DEF Discard
    <3> DEFINE r == [run[p] EXCEPT !.slipped = s]
    <3>1. r \in Run /\ SoundRun(p, r, partial) BY SlipSound
    <3>2. /\ saved' = [saved EXCEPT ![p][b] = Absent] /\ faults' \in Nat
          /\ orphans' \subseteq orphans \cup {<<b, saved[p][b]>>}
          /\ UNCHANGED <<final, partial, before, runs, foreign>>
      BY <1>0, <1>3, <2>2, CountersNat DEF Discard
    <3> HIDE DEF r
    <3>3. saved[p][b] \in Content BY <1>0 DEF TypeOK
    <3>4. /\ final' \in [Files -> Content] /\ saved' \in [Procs -> [Files -> Content]]
          /\ orphans' \subseteq Files \X Content
      BY <1>0, <3>2, <3>3, ContentFacts DEF TypeOK
    <3>5. OnlyVerifiedInstalled'
      <4>1. \A q \in Procs, j \in Files : saved'[q][j] \in {saved[q][j], Absent}
        BY <1>0, <3>2 DEF TypeOK
      <4> QED BY <1>0, <3>2, <4>1, ContentFacts DEF OnlyVerifiedInstalled, Verified
    <3> QED BY <3>1, <3>2, <3>4, <3>5, DestinationStep DEF r
  <2> QED BY <2>1, <2>2
<1> QED BY <1>1, <1>2, <1>3 DEF Installing

LEMMA EndingKeeps ==
    ASSUME BundleInv, NEW p \in Procs, Ending(p)
    PROVE  BundleInv'
<1> USE BundleAssumption
<1>0. /\ TypeOK /\ SoundRun(p, run[p], partial) /\ OnlyVerifiedInstalled
      /\ run[p] \in Run /\ run[p].mine \subseteq Files /\ run[p].installed \subseteq Files
  BY RunFields DEF BundleInv
<1>1. CASE Undo(p)
  <2>1. CASE run[p].installed = {}
    BY <1>0, <1>1, <2>1, CountersNat, ToCleanUp DEF Undo, disk
  <2>2. CASE run[p].installed # {}
    <3> PICK i \in Files : i = First(run[p].installed) BY <1>0, <2>2, FirstIn
    <3>1. PICK s \in BOOLEAN :
            run' = [run EXCEPT ![p].installed = @ \ {i}, ![p].slipped = s]
      <4>1. CASE run' = [run EXCEPT ![p].installed = @ \ {i}]
        <5> DEFINE s == run[p].slipped
        <5>1. [run[p] EXCEPT !.installed = @ \ {i}, !.slipped = s] = [run[p] EXCEPT !.installed = @ \ {i}]
          BY <1>0 DEF Run
        <5>2. s \in BOOLEAN BY <1>0, RunFields
        <5> QED BY <4>1, <5>1, <5>2
      <4> QED BY <1>1, <2>2, <4>1 DEF Undo
    <3> DEFINE r == [run[p] EXCEPT !.installed = @ \ {i}, !.slipped = s]
    <3>2. /\ r \in Run /\ r.pc = "undo" /\ r.mine = run[p].mine /\ r.file = run[p].file
          /\ r.flaw = run[p].flaw
      BY <1>0, <1>1 DEF Run, Undo, At
    <3>3. run' = [run EXCEPT ![p] = r] BY <3>1
    <3> HIDE DEF r
    <3>4. SoundRun(p, r, partial) BY <3>2, CleanUpSound
    <3>5. /\ final' = final \/ final' = [final EXCEPT ![i] = Absent]
          /\ UNCHANGED <<partial, saved, orphans, before, runs, foreign>> /\ faults' \in Nat
      BY <1>0, <1>1, <2>2, CountersNat DEF Undo
    <3>6. /\ final' \in [Files -> Content]
          /\ \A j \in Files : final'[j] \in {final[j], Absent}
      BY <1>0, <3>5, ContentFacts DEF TypeOK
    <3>7. OnlyVerifiedInstalled'
      BY <1>0, <3>5, <3>6, ContentFacts DEF OnlyVerifiedInstalled, Verified
    <3>8. saved' \in [Procs -> [Files -> Content]] /\ orphans' \subseteq Files \X Content
      BY <1>0, <3>5 DEF TypeOK
    <3> QED BY <3>2, <3>3, <3>4, <3>5, <3>6, <3>7, <3>8, DestinationStep
  <2> QED BY <2>1, <2>2
<1>2. CASE Restore(p)
  <2>1. CASE Backups(p) = {}
    BY <1>0, <1>2, <2>1, CountersNat, ToCleanUp DEF Restore, disk
  <2>2. CASE Backups(p) # {}
    <3> PICK b \in Files : b = First(Backups(p))
      <4>1. Backups(p) \in SUBSET Files BY DEF Backups
      <4> QED BY <2>2, <4>1, FirstIn
    <3> PICK s \in BOOLEAN : run' = [run EXCEPT ![p] = [run[p] EXCEPT !.slipped = s]]
      BY <1>2, <2>2, SlipSound DEF Restore
    <3> DEFINE r == [run[p] EXCEPT !.slipped = s]
    <3>1. r \in Run /\ SoundRun(p, r, partial) BY SlipSound
    <3>2. /\ saved' = [saved EXCEPT ![p][b] = Absent] /\ faults' \in Nat
          /\ orphans' \subseteq orphans \cup {<<b, saved[p][b]>>}
          /\ final' = final \/ final' = [final EXCEPT ![b] = saved[p][b]]
          /\ UNCHANGED <<partial, before, runs, foreign>>
      BY <1>0, <1>2, <2>2, CountersNat DEF Restore
    <3> HIDE DEF r
    <3>3. saved[p][b] \in Content BY <1>0 DEF TypeOK
    <3>4. /\ final' \in [Files -> Content] /\ saved' \in [Procs -> [Files -> Content]]
          /\ orphans' \subseteq Files \X Content
      BY <1>0, <3>2, <3>3, ContentFacts DEF TypeOK
    <3>5. OnlyVerifiedInstalled'
      <4>1. \A q \in Procs, j \in Files : saved'[q][j] \in {saved[q][j], Absent}
        BY <1>0, <3>2 DEF TypeOK
      <4>2. \A j \in Files : final'[j] \in {final[j], saved[p][j]}
        BY <1>0, <3>2 DEF TypeOK
      <4> QED BY <1>0, <4>1, <4>2, ContentFacts DEF OnlyVerifiedInstalled, Verified
    <3> QED BY <3>1, <3>2, <3>4, <3>5, DestinationStep DEF r
  <2> QED BY <2>1, <2>2
<1>3. CASE CleanUp(p)
  <2>1. CASE run[p].mine = {}
    <3> DEFINE r == [Idle EXCEPT !.result = "error", !.slipped = run[p].slipped]
    <3>1. r \in Run BY <1>0, RunFields, IdleIsRun DEF Results
    <3>2. run' = [run EXCEPT ![p] = r] BY <1>3, <2>1 DEF CleanUp, Finish
    <3>3. SoundRun(p, r, partial) BY DEF SoundRun, Idle, NoFlaw, Files
    <3>4. UNCHANGED <<disk, before, runs, foreign>> /\ faults' \in Nat
      BY <1>0, <1>3, <2>1, CountersNat DEF CleanUp, disk
    <3> HIDE DEF r
    <3> QED BY <3>1, <3>2, <3>3, <3>4, ControlStep
  <2>2. CASE run[p].mine # {}
    <3> PICK i \in Files : i = First(run[p].mine) /\ i \in run[p].mine
      BY <1>0, <2>2, FirstIn
    <3>1. PICK s \in BOOLEAN : run' = [run EXCEPT ![p].mine = @ \ {i}, ![p].slipped = s]
      <4>1. CASE run' = [run EXCEPT ![p].mine = @ \ {i}]
        <5> DEFINE s == run[p].slipped
        <5>1. [run[p] EXCEPT !.mine = @ \ {i}, !.slipped = s] = [run[p] EXCEPT !.mine = @ \ {i}]
          BY <1>0 DEF Run
        <5>2. s \in BOOLEAN BY <1>0, RunFields
        <5> QED BY <4>1, <5>1, <5>2
      <4> QED BY <1>3, <2>2, <4>1 DEF CleanUp
    <3> DEFINE r == [run[p] EXCEPT !.mine = @ \ {i}, !.slipped = s]
    <3>2. /\ r \in Run /\ r.pc = "cleanup" /\ r.mine = run[p].mine \ {i}
          /\ r.file = run[p].file /\ r.flaw = run[p].flaw
      BY <1>0, <1>3 DEF Run, CleanUp, At
    <3>3. run' = [run EXCEPT ![p] = r] BY <3>1
    <3> HIDE DEF r
    <3>4. /\ partial' = partial \/ partial' = [partial EXCEPT ![i] = Absent]
          /\ UNCHANGED <<final, saved, orphans, before, runs, foreign>> /\ faults' \in Nat
      BY <1>0, <1>3, <2>2, CountersNat DEF CleanUp
    <3>5. /\ partial' \in [Files -> Content]
          /\ \A j \in Files : j # i => partial'[j] = partial[j]
          /\ \A j \in Files : partial'[j].chunks <= Chunks[j]
      <4>1. partial \in [Files -> Content] /\ \A j \in Files : partial[j].chunks <= Chunks[j]
        BY <1>0 DEF TypeOK
      <4>2. Absent \in Content /\ Absent.chunks <= Chunks[i] BY ContentFacts DEF Absent
      <4>3. CASE partial' = partial BY <4>1, <4>3
      <4>4. CASE partial' = [partial EXCEPT ![i] = Absent] BY <4>1, <4>2, <4>4
      <4> QED BY <3>4, <4>3, <4>4
    <3>6. SoundRun(p, r, partial') BY <1>0, <3>2, <3>5, CleanUpSound
    <3>7. OnlyVerifiedInstalled' BY <1>0, <3>4 DEF OnlyVerifiedInstalled
    <3>8. \A j \in Files : partial'[j] # partial[j] => j \in run[p].mine \/ partial[j] = Absent
      BY <3>5
    <3>9. /\ final' \in [Files -> Content] /\ saved' \in [Procs -> [Files -> Content]]
          /\ orphans' \subseteq Files \X Content /\ before' \in [Procs -> [Files -> Content]]
          /\ runs' \in Nat /\ foreign' \in Nat
      BY <1>0, <3>4 DEF TypeOK
    <3> QED BY <3>2, <3>3, <3>4, <3>5, <3>6, <3>7, <3>8, <3>9, StepKeeps
  <2> QED BY <2>1, <2>2
<1> QED BY <1>1, <1>2, <1>3 DEF Ending

LEMMA StartKeeps ==
    ASSUME BundleInv, NEW p \in Procs, Starting(p)
    PROVE  BundleInv'
<1> USE BundleAssumption
<1>0. TypeOK /\ OnlyVerifiedInstalled BY DEF BundleInv
<1> PICK ow \in Overwrites, flaw \in Flaws : Start(p, ow, flaw) BY DEF Starting
<1> DEFINE r == [Idle EXCEPT !.pc = "stat", !.ow = ow, !.flaw = flaw]
<1>1. r \in Run
  <2>1. flaw \in Nat /\ ow \in BOOLEAN OBVIOUS
  <2> QED BY <2>1 DEF Run, Idle, PCs, Results, NoFlaw
<1>2. run' = [run EXCEPT ![p] = r] BY DEF Start
<1>3. SoundRun(p, r, partial) BY DEF SoundRun, Idle, NoFlaw, Files
<1> HIDE DEF r
<1>4. UNCHANGED <<final, partial, saved, orphans, faults, foreign>> BY DEF Start, disk
<1>5. before' \in [Procs -> [Files -> Content]] /\ runs' \in Nat
  BY <1>0 DEF TypeOK, Start
<1>6. OnlyVerifiedInstalled' BY <1>0, <1>4 DEF OnlyVerifiedInstalled
<1>7. /\ partial' \in [Files -> Content] /\ \A i \in Files : partial'[i].chunks <= Chunks[i]
      /\ \A i \in Files : partial'[i] = partial[i] /\ SoundRun(p, r, partial')
      /\ final' \in [Files -> Content] /\ saved' \in [Procs -> [Files -> Content]]
      /\ orphans' \subseteq Files \X Content /\ faults' \in Nat /\ foreign' \in Nat
      /\ SoundRun(p, r, partial')
  BY <1>0, <1>3, <1>4 DEF TypeOK
<1> QED BY <1>1, <1>2, <1>5, <1>6, <1>7, StepKeeps

LEMMA CrashKeeps ==
    ASSUME BundleInv, NEW p \in Procs, Crash(p)
    PROVE  BundleInv'
<1> USE BundleAssumption
<1>0. TypeOK /\ OnlyVerifiedInstalled BY DEF BundleInv
<1> DEFINE r == [Idle EXCEPT !.result = "stopped", !.slipped = run[p].slipped]
<1>1. r \in Run BY <1>0, RunFields, IdleIsRun DEF Results
<1>2. run' = [run EXCEPT ![p] = r] BY DEF Crash, Finish
<1>3. SoundRun(p, r, partial) BY DEF SoundRun, Idle, NoFlaw, Files
<1> HIDE DEF r
<1>4. /\ UNCHANGED <<final, partial, before, runs, foreign>> /\ faults' \in Nat
      /\ saved' = [saved EXCEPT ![p] = [i \in Files |-> Absent]]
      /\ orphans' = orphans \cup {<<i, saved[p][i]>> : i \in Backups(p)}
  BY <1>0, CountersNat DEF Crash
<1>5. /\ final' \in [Files -> Content] /\ saved' \in [Procs -> [Files -> Content]]
      /\ \A q \in Procs, i \in Files : saved'[q][i] \in {saved[q][i], Absent}
  BY <1>0, <1>4, ContentFacts DEF TypeOK
<1>6. orphans' \subseteq Files \X Content
  <2>1. \A i \in Backups(p) : <<i, saved[p][i]>> \in Files \X Content
    BY <1>0 DEF TypeOK, Backups
  <2> QED BY <1>0, <1>4, <2>1 DEF TypeOK
<1>7. OnlyVerifiedInstalled'
  BY <1>0, <1>4, <1>5, ContentFacts DEF OnlyVerifiedInstalled, Verified
<1> QED BY <1>1, <1>2, <1>3, <1>4, <1>5, <1>6, <1>7, DestinationStep

LEMMA OutsideKeeps ==
    ASSUME BundleInv, NEW i \in Files, Tidy(i) \/ Foreign(i)
    PROVE  BundleInv'
<1> USE BundleAssumption
<1>0. /\ TypeOK /\ OnlyVerifiedInstalled
      /\ \A p \in Procs : SoundRun(p, run[p], partial) /\ run[p].mine \subseteq Files
  BY RunFields DEF BundleInv
<1>1. CASE Tidy(i)
  <2>1. /\ partial' = [partial EXCEPT ![i] = Absent]
        /\ \A p \in Procs : i \notin run[p].mine
        /\ UNCHANGED <<final, saved, orphans, run, before, runs, faults, foreign>>
    BY <1>1 DEF Tidy, bounds
  <2>2. \A p \in Procs : \A j \in run[p].mine : partial'[j] = partial[j]
    BY <1>0, <2>1 DEF TypeOK
  <2>3. \A p \in Procs : SoundRun(p, run[p], partial')
    BY <1>0, <2>2 DEF SoundRun
  <2>4. TypeOK' BY <1>0, <2>1, ContentFacts DEF TypeOK, Absent
  <2> QED BY <1>0, <2>1, <2>3, <2>4 DEF BundleInv, OnlyVerifiedInstalled
<1>2. CASE Foreign(i)
  <2>1. /\ final' = [final EXCEPT ![i] = Other] /\ foreign' = foreign + 1
        /\ UNCHANGED <<partial, saved, orphans, run, before, runs, faults>>
    BY <1>2 DEF Foreign
  <2>2. TypeOK' BY <1>0, <2>1, ContentFacts DEF TypeOK
  <2>3. \A j \in Files : final'[j] \in {final[j], Other} BY <1>0, <2>1 DEF TypeOK
  <2>4. OnlyVerifiedInstalled'
    BY <1>0, <2>1, <2>3, ContentFacts DEF OnlyVerifiedInstalled, Verified
  <2> QED BY <1>0, <2>1, <2>2, <2>4 DEF BundleInv
<1> QED BY <1>1, <1>2

LEMMA InitKeeps == Init => BundleInv
<1> SUFFICES ASSUME Init PROVE BundleInv OBVIOUS
<1> USE BundleAssumption
<1>1. Idle \in Run /\ Idle.pc = "idle" /\ Idle.mine = {} /\ Idle.file = 1 /\ Idle.flaw = 0
  BY DEF Idle, Run, PCs, Results, NoFlaw
<1>2. 1 \in Files BY DEF Files
<1>3. TypeOK
  <2>1. final \in [Files -> Content] /\ before \in [Procs -> [Files -> Content]]
    BY ContentFacts DEF Init
  <2>2. saved \in [Procs -> [Files -> Content]] /\ orphans \subseteq Files \X Content
    BY ContentFacts DEF Init
  <2>3. partial \in [Files -> Content] /\ \A i \in Files : partial[i].chunks <= Chunks[i]
    BY ContentFacts DEF Init, Absent
  <2>4. run \in [Procs -> Run] /\ \A p \in Procs : run[p].file \in Files
    BY <1>1, <1>2 DEF Init
  <2> QED BY <2>1, <2>2, <2>3, <2>4 DEF Init, TypeOK
<1>4. \A p \in Procs : SoundRun(p, run[p], partial)
  BY <1>1, <1>2 DEF Init, SoundRun
<1>5. OnlyVerifiedInstalled BY ContentFacts DEF Init, OnlyVerifiedInstalled
<1> QED BY <1>3, <1>4, <1>5 DEF BundleInv

LEMMA StepsKeep == BundleInv /\ [Next]_vars => BundleInv'
<1> SUFFICES ASSUME BundleInv, [Next]_vars PROVE BundleInv' OBVIOUS
<1>1. CASE UNCHANGED vars
  <2>1. UNCHANGED <<final, partial, saved, orphans, run, before, runs, faults, foreign>>
    BY <1>1 DEF vars, disk, bounds
  <2> QED BY <2>1 DEF BundleInv, TypeOK, OnlyVerifiedInstalled
<1>2. CASE Next
  BY <1>2, StartKeeps, DownloadingKeeps, InstallingKeeps, EndingKeeps, CrashKeeps, OutsideKeeps
     DEF Next
<1> QED BY <1>1, <1>2

\* Every state of every run has well-typed files and receives.
THEOREM BundleTypes == Spec => []TypeOK
<1>1. BundleInv => TypeOK BY DEF BundleInv
<1> QED BY <1>1, InitKeeps, StepsKeep, PTL DEF Spec

\* ReceiveBundle (bundle.go 360-405) never leaves a file at a destination, or under
\* the backup name of one, that did not pass every check, whatever other receives
\* and programs do in the directory and wherever receives fail or stop.
THEOREM BundleVerified == Spec => []OnlyVerifiedInstalled
<1>1. BundleInv => OnlyVerifiedInstalled BY DEF BundleInv
<1> QED BY <1>1, InitKeeps, StepsKeep, PTL DEF Spec

\* The exclusive create of bundle.go 263 is lock enough: of any number of receives
\* no two ever own the same .partial file.
THEOREM BundlePartials == Spec => []PartialsExclusive
<1>1. BundleInv => PartialsExclusive
  <2> SUFFICES ASSUME BundleInv, NEW p \in Procs, NEW i \in run[p].mine
               PROVE  partial[i].by = p /\ \A q \in Procs \ {p} : i \notin run[q].mine
    BY DEF PartialsExclusive
  <2>1. \A q \in Procs : i \in run[q].mine => partial[i].by = q
    BY DEF BundleInv, SoundRun
  <2> QED BY <2>1
<1> QED BY <1>1, InitKeeps, StepsKeep, PTL DEF Spec

(***************************************************************************)
(* Where the body of each receive resumes.                                 *)
(***************************************************************************)

\* The counts of chunks before each of the first n files: the loop of ReceiveBundle over files.
Sums(g, n) == g = [i \in 1..n |-> IF i = 1 THEN 0 ELSE g[i - 1] + Chunks[i - 1]]

LEMMA SumsExist ==
    ASSUME NEW n \in Files
    PROVE  \E g \in [1..n -> Nat] : Sums(g, n)
<1> USE BundleAssumption
<1> DEFINE Bad == {k \in Files : ~ \E g \in [1..k -> Nat] : Sums(g, k)}
<1> SUFFICES ASSUME Bad # {} PROVE FALSE OBVIOUS
<1> DEFINE m == First(Bad)
<1>1. m \in Bad /\ \A k \in Bad : m <= k BY FirstIsLeast
<1> HIDE DEF m
<1>2. m \in 1..NFiles BY <1>1 DEF Files
<1>3. CASE m = 1
  <2>1. [i \in 1..1 |-> 0] \in [1..1 -> Nat] /\ Sums([i \in 1..1 |-> 0], 1) BY DEF Sums
  <2> QED BY <1>1, <1>3, <2>1
<1>4. CASE m # 1
  <2>1. m - 1 \in Files /\ m - 1 \in Nat /\ ~(m <= m - 1) BY <1>2, <1>4 DEF Files
  <2>2. PICK g \in [1..(m - 1) -> Nat] : Sums(g, m - 1) BY <1>1, <2>1
  <2> DEFINE h == [i \in 1..m |-> IF i = 1 THEN 0 ELSE g[i - 1] + Chunks[i - 1]]
  <2>3. \A i \in 1..(m - 1) : h[i] = g[i]
    <3>1. \A i \in 1..(m - 1) : g[i] = IF i = 1 THEN 0 ELSE g[i - 1] + Chunks[i - 1]
      BY <2>2, Zenon DEF Sums
    <3> QED BY <1>2, <3>1
  <2>4. \A i \in 1..m : i # 1 => i - 1 \in 1..(m - 1) /\ Chunks[i - 1] \in Nat /\ g[i - 1] \in Nat
    BY <1>2, <2>2 DEF Files
  <2>5. h \in [1..m -> Nat] BY <2>4
  <2>6. \A i \in 1..m : h[i] = IF i = 1 THEN 0 ELSE h[i - 1] + Chunks[i - 1] BY <2>3, <2>4
  <2> HIDE DEF h
  <2>7. h = [i \in 1..m |-> IF i = 1 THEN 0 ELSE h[i - 1] + Chunks[i - 1]] BY <2>5, <2>6
  <2> QED BY <1>1, <2>5, <2>7 DEF Sums
<1> QED BY <1>3, <1>4

LEMMA ChunksBeforeDef ==
    \A i \in Files : /\ ChunksBefore[i] \in Nat
                     /\ ChunksBefore[i] = IF i = 1 THEN 0 ELSE ChunksBefore[i - 1] + Chunks[i - 1]
<1> USE BundleAssumption
<1>1. NFiles \in Files BY DEF Files
<1>2. PICK g \in [1..NFiles -> Nat] : Sums(g, NFiles) BY <1>1, SumsExist
<1>3. \E f : f = [i \in Files |-> IF i = 1 THEN 0 ELSE f[i - 1] + Chunks[i - 1]]
  BY <1>2, Zenon DEF Sums, Files
<1>4. ChunksBefore = [i \in Files |-> IF i = 1 THEN 0 ELSE ChunksBefore[i - 1] + Chunks[i - 1]]
  BY <1>3, Zenon DEF ChunksBefore
<1> DEFINE P == [i \in Files |-> IF i = 1 THEN 0 ELSE ChunksBefore[i - 1] + Chunks[i - 1]]
<1>5. \A i \in Files : ChunksBefore[i] = IF i = 1 THEN 0 ELSE ChunksBefore[i - 1] + Chunks[i - 1]
  <2> SUFFICES ASSUME NEW i \in Files
               PROVE ChunksBefore[i] = IF i = 1 THEN 0 ELSE ChunksBefore[i - 1] + Chunks[i - 1]
    OBVIOUS
  <2>1. P[i] = IF i = 1 THEN 0 ELSE ChunksBefore[i - 1] + Chunks[i - 1] BY Zenon
  <2>2. ChunksBefore[i] = P[i] BY <1>4, Zenon
  <2> QED BY <2>1, <2>2, Zenon
<1> DEFINE Bad == {k \in Files : ChunksBefore[k] \notin Nat}
<1>6. ASSUME Bad # {} PROVE FALSE
  <2> DEFINE m == First(Bad)
  <2>1. m \in Bad /\ \A k \in Bad : m <= k BY <1>6, FirstIsLeast
  <2> HIDE DEF m
  <2>2. m \in 1..NFiles /\ ChunksBefore[m] \notin Nat BY <2>1 DEF Files
  <2>3. m # 1 => m - 1 \in Files /\ ~(m <= m - 1) BY <2>2 DEF Files
  <2>4. m # 1 => ChunksBefore[m - 1] \in Nat /\ Chunks[m - 1] \in Nat BY <2>1, <2>3
  <2> QED BY <1>5, <2>1, <2>2, <2>4
<1> QED BY <1>5, <1>6

\* offset counts the chunks of the files before the one at work and those of its own .partial
\* file, and an open body is as far as offset.
Boundary(r, part) ==
    /\ r.pc \in {"stat", "create"} => r.offset = 0
    /\ r.pc \in {"open", "read", "verify"} =>
         r.offset = ChunksBefore[r.file] + part[r.file].chunks
    /\ r.pc \in {"read", "verify"} => r.body = r.offset

BoundaryInv ==
    /\ BundleInv
    /\ \A p \in Procs : Boundary(run[p], partial)

\* A receive leaves alone what another one is doing and the .partial files it owns.
LEMMA OthersStay ==
    ASSUME BundleInv, NEW p \in Procs, NEW q \in Procs \ {p},
           Starting(p) \/ Downloading(p) \/ Installing(p) \/ Ending(p) \/ Crash(p)
    PROVE  run'[q] = run[q] /\ \A i \in run[q].mine : partial'[i] = partial[i]
<1>1. /\ TypeOK /\ SoundRun(p, run[p], partial) /\ SoundRun(q, run[q], partial)
      /\ run[q].mine \subseteq Files /\ run[p].mine \subseteq Files
  BY RunFields DEF BundleInv
<1>2. run \in [Procs -> Run] /\ partial \in [Files -> Content] BY <1>1 DEF TypeOK
<1>3. run'[q] = run[q]
  <2>1. CASE Starting(p) BY <1>2, <2>1 DEF Starting, Start
  <2>2. CASE Downloading(p)
    BY <1>2, <2>2 DEF Downloading, Stat, CreatePartial, Open, ReadChunk, ChunkRefused, BodyBreaks,
       ReadGivesUp, VerifyFile, VerifyAll, Goto
  <2>3. CASE Installing(p)
    BY <1>2, <2>3 DEF Installing, BackUp, InstallFile, Discard, Goto, Finish
  <2>4. CASE Ending(p) BY <1>2, <2>4 DEF Ending, Undo, Restore, CleanUp, Goto, Finish
  <2>5. CASE Crash(p) BY <1>2, <2>5 DEF Crash, Finish
  <2> QED BY <2>1, <2>2, <2>3, <2>4, <2>5
<1>4. \A i \in Files : partial'[i] # partial[i] => i \in run[p].mine \/ partial[i] = Absent
  <2>1. CASE partial' = partial BY <2>1
  <2>2. CASE CreatePartial(p) BY <1>2, <2>2 DEF CreatePartial
  <2>3. CASE ReadChunk(p) BY <1>1, <1>2, <2>3 DEF ReadChunk, SoundRun, At
  <2>4. CASE ReadGivesUp(p) BY <1>1, <1>2, <2>4 DEF ReadGivesUp, SoundRun, At
  <2>5. CASE InstallFile(p)
    <3>1. run[p].file \in 1..NFiles /\ run[p].mine = run[p].file..NFiles
      <4>1. At(p, "install") BY <2>5 DEF InstallFile
      <4> QED BY <1>1, <4>1 DEF SoundRun, At, Files
    <3>2. run[p].file \in run[p].mine BY <3>1, BundleAssumption
    <3> QED BY <1>2, <2>5, <3>2 DEF InstallFile
  <2>6. CASE CleanUp(p)
    <3>1. run[p].mine # {} => First(run[p].mine) \in run[p].mine BY <1>1, FirstIn
    <3> QED BY <1>2, <2>6, <3>1 DEF CleanUp
  <2> QED
    BY <2>1, <2>2, <2>3, <2>4, <2>5, <2>6 DEF Starting, Start, Downloading, Stat, Open, ChunkRefused,
       BodyBreaks, VerifyFile, VerifyAll, Installing, BackUp, Discard, Ending, Undo, Restore, Crash,
       disk
<1>5. ASSUME NEW i \in run[q].mine PROVE partial'[i] = partial[i]
  <2>1. partial[i].by = q BY <1>1, <1>5 DEF SoundRun
  <2>2. i \notin run[p].mine BY <1>1, <2>1 DEF SoundRun
  <2>3. partial[i] # Absent BY <2>1, ContentFacts
  <2> QED BY <1>1, <1>4, <1>5, <2>2, <2>3
<1> QED BY <1>3, <1>5

\* A step that changes a receive neither to reading nor towards it asks nothing.
LEMMA BoundaryDownloading ==
    ASSUME BoundaryInv, NEW p \in Procs, Downloading(p)
    PROVE  Boundary(run'[p], partial')
<1> USE BundleAssumption
<1>0. /\ TypeOK /\ SoundRun(p, run[p], partial) /\ Boundary(run[p], partial)
      /\ run \in [Procs -> Run] /\ partial \in [Files -> Content]
      /\ run[p] \in Run /\ run[p].offset \in Nat /\ run[p].file \in 1..NFiles
  BY RunFields DEF BoundaryInv, BundleInv, TypeOK, Files
<1> DEFINE k == run[p].file
<1>a. ASSUME NEW pc \in {"cleanup", "trailing", "backup", "install"}, run'[p].pc = pc
      PROVE  Boundary(run'[p], partial')
  BY <1>a DEF Boundary
<1>b. ASSUME Goto(p, "cleanup") PROVE Boundary(run'[p], partial')
  BY <1>0, <1>a, <1>b DEF Goto, Run
<1>1. CASE Stat(p)
  <2>1. CASE Goto(p, "cleanup") BY <1>b, <2>1
  <2>2. CASE Goto(p, "create")
    BY <1>0, <1>1, <2>2 DEF Goto, Stat, At, Boundary, Run
  <2> QED BY <1>1, <2>1, <2>2 DEF Stat
<1>2. CASE CreatePartial(p)
  <2>1. CASE Goto(p, "cleanup") BY <1>b, <2>1
  <2>2. CASE ~Goto(p, "cleanup")
    <3> DEFINE new == [by |-> p, chunks |-> 0, flaw |-> run[p].flaw]
    <3>1. /\ run[p].pc = "create" /\ partial' = [partial EXCEPT ![k] = new]
          /\ run' = [run EXCEPT ![p].pc = IF k = NFiles THEN "open" ELSE "stat",
                                ![p].file = IF k = NFiles THEN 1 ELSE k + 1,
                                ![p].mine = @ \cup {k}]
      BY <1>2, <2>2 DEF CreatePartial, At
    <3>2. /\ run'[p].offset = 0 /\ run'[p].pc \in {"open", "stat"}
          /\ run'[p].pc = "open" => k = NFiles /\ run'[p].file = 1
      BY <1>0, <3>1 DEF Boundary, Run
    <3>3. k = NFiles => partial'[1].chunks = 0
      <4>1. k = NFiles /\ k # 1 => partial[1].chunks = 0 BY <1>0, <3>1 DEF SoundRun
      <4> QED BY <1>0, <3>1, <4>1 DEF Files
    <3>4. ChunksBefore[1] = 0 BY ChunksBeforeDef DEF Files
    <3> QED BY <3>2, <3>3, <3>4 DEF Boundary
  <2> QED BY <2>1, <2>2
<1>3. CASE Open(p)
  <2>1. CASE Goto(p, "cleanup") BY <1>b, <2>1
  <2>2. CASE ~Goto(p, "cleanup")
    <3>1. /\ run' = [run EXCEPT ![p].pc = "read", ![p].body = run[p].offset]
          /\ run[p].pc = "open" /\ partial' = partial
      BY <1>3, <2>2 DEF Open, At, disk
    <3>2. /\ run'[p].pc = "read" /\ run'[p].body = run[p].offset
          /\ run'[p].offset = run[p].offset /\ run'[p].file = k
      BY <1>0, <3>1 DEF Run
    <3> QED BY <1>0, <3>1, <3>2 DEF Boundary
  <2> QED BY <2>1, <2>2
<1>4. CASE ReadChunk(p)
  <2>1. /\ run[p].pc = "read" /\ run[p].body = run[p].offset
        /\ partial' = [partial EXCEPT ![k].chunks = partial[k].chunks + 1]
        /\ run' = [run EXCEPT ![p].offset = @ + 1, ![p].body = @ + 1, ![p].attempt = 0,
                     ![p].pc = IF partial[k].chunks + 1 = Chunks[k] THEN "verify" ELSE "read"]
    BY <1>4 DEF ReadChunk, At
  <2>2. /\ run'[p].pc \in {"verify", "read"} /\ run'[p].offset = run[p].offset + 1
        /\ run'[p].body = run[p].body + 1 /\ run'[p].file = k
    BY <1>0, <2>1 DEF Run
  <2>3. partial'[k].chunks = partial[k].chunks + 1 /\ partial[k].chunks \in Nat
    BY <1>0, <2>1 DEF Content, Files
  <2>4. ChunksBefore[k] \in Nat BY <1>0, ChunksBeforeDef DEF Files
  <2>5. run[p].offset = ChunksBefore[k] + partial[k].chunks BY <1>0, <2>1 DEF Boundary
  <2>6. run'[p].offset = ChunksBefore[k] + partial'[k].chunks BY <2>2, <2>3, <2>4, <2>5
  <2> QED BY <2>1, <2>2, <2>6 DEF Boundary
<1>5. CASE ChunkRefused(p) BY <1>b, <1>5 DEF ChunkRefused
<1>6. CASE BodyBreaks(p)
  <2>1. CASE Goto(p, "cleanup") BY <1>b, <2>1
  <2>2. CASE ~Goto(p, "cleanup")
    <3>1. /\ run' = [run EXCEPT ![p].pc = "open", ![p].attempt = @ + 1]
          /\ run[p].pc = "read" /\ partial' = partial
      BY <1>6, <2>2 DEF BodyBreaks, At, disk
    <3>2. /\ run'[p].pc = "open" /\ run'[p].offset = run[p].offset /\ run'[p].file = k
      BY <1>0, <3>1 DEF Run
    <3> QED BY <1>0, <3>1, <3>2 DEF Boundary
  <2> QED BY <2>1, <2>2
<1>7. CASE ReadGivesUp(p) BY <1>b, <1>7 DEF ReadGivesUp
<1>8. CASE VerifyFile(p)
  <2>1. CASE Goto(p, "cleanup") BY <1>b, <2>1
  <2>2. CASE ~Goto(p, "cleanup")
    <3>1. /\ run' = [run EXCEPT ![p].pc = IF k = NFiles THEN "trailing" ELSE "read",
                                ![p].file = IF k = NFiles THEN 1 ELSE k + 1]
          /\ run[p].pc = "verify" /\ partial' = partial
      BY <1>8, <2>2 DEF VerifyFile, At, disk
    <3>2. CASE k = NFiles BY <1>0, <1>a, <3>1, <3>2 DEF Run
    <3>3. CASE k # NFiles
      <4>1. /\ run'[p].pc = "read" /\ run'[p].file = k + 1 /\ run'[p].offset = run[p].offset
            /\ run'[p].body = run[p].body
        BY <1>0, <3>1, <3>3 DEF Run
      <4>2. k \in Files /\ k + 1 \in Files /\ k + 1 # 1 /\ k + 1 > k /\ (k + 1) - 1 = k
        BY <1>0, <3>3 DEF Files
      <4>3. run[p].mine = Files BY <1>0, <3>1 DEF SoundRun
      <4>4. partial[k].chunks = Chunks[k] BY <1>0, <3>1, <4>2, <4>3 DEF SoundRun
      <4>5. partial[k + 1].chunks = 0 BY <1>0, <3>1, <4>2, <4>3 DEF SoundRun
      <4>6. ChunksBefore[k + 1] = ChunksBefore[k] + Chunks[k] /\ ChunksBefore[k + 1] \in Nat
        BY <4>2, ChunksBeforeDef
      <4>7. run[p].offset = ChunksBefore[k] + partial[k].chunks /\ run[p].body = run[p].offset
        BY <1>0, <3>1 DEF Boundary
      <4>8. run[p].offset = ChunksBefore[k + 1] + partial[k + 1].chunks
        BY <4>4, <4>5, <4>6, <4>7
      <4> QED BY <3>1, <4>1, <4>7, <4>8 DEF Boundary
    <3> QED BY <3>2, <3>3
  <2> QED BY <2>1, <2>2
<1>9. CASE VerifyAll(p)
  BY <1>0, <1>9, <1>a, <1>b DEF VerifyAll, Goto, Run
<1> QED BY <1>1, <1>2, <1>3, <1>4, <1>5, <1>6, <1>7, <1>8, <1>9 DEF Downloading

LEMMA BoundarySteps == BoundaryInv /\ [Next]_vars => BoundaryInv'
<1> SUFFICES ASSUME BoundaryInv, [Next]_vars PROVE BoundaryInv' OBVIOUS
<1> USE BundleAssumption
<1>1. BundleInv' BY StepsKeep DEF BoundaryInv
<1>2. BundleInv /\ run \in [Procs -> Run] /\ partial \in [Files -> Content]
  BY DEF BoundaryInv, BundleInv, TypeOK
<1>3. ASSUME NEW q \in Procs, run'[q] = run[q],
             \A i \in run[q].mine : partial'[i] = partial[i]
      PROVE  Boundary(run'[q], partial')
  <2>1. Boundary(run[q], partial) /\ SoundRun(q, run[q], partial) BY DEF BoundaryInv, BundleInv
  <2>2. run[q].pc \in {"open", "read", "verify"} => run[q].file \in run[q].mine
    BY <2>1 DEF SoundRun
  <2> QED BY <1>3, <2>1, <2>2 DEF Boundary
<1>4. CASE UNCHANGED vars
  <2>1. run' = run /\ partial' = partial BY <1>4 DEF vars, disk
  <2> QED BY <1>1, <1>3, <2>1 DEF BoundaryInv
<1>5. ASSUME NEW p \in Procs,
             Starting(p) \/ Downloading(p) \/ Installing(p) \/ Ending(p) \/ Crash(p)
      PROVE  BoundaryInv'
  <2>1. \A q \in Procs \ {p} : Boundary(run'[q], partial') BY <1>2, <1>3, <1>5, OthersStay
  <2>2. Boundary(run'[p], partial')
    <3>1. CASE Starting(p)
      <4>1. run'[p].pc = "stat" /\ run'[p].offset = 0
        BY <1>2, <3>1 DEF Starting, Start, Idle
      <4> QED BY <4>1 DEF Boundary
    <3>2. CASE Downloading(p) BY <3>2, BoundaryDownloading
    <3>3. CASE Installing(p)
      <4>1. run'[p].pc \in {"install", "backup", "undo", "discard", "idle"}
        <5>1. CASE BackUp(p)
          BY <1>2, <5>1 DEF BackUp, Goto, At, Run
        <5>2. CASE InstallFile(p)
          BY <1>2, <5>2 DEF InstallFile, Goto, At, Run
        <5>3. CASE Discard(p)
          <6>1. CASE Finish(p, "ok") BY <1>2, <6>1 DEF Finish, Idle
          <6>2. CASE UNCHANGED run BY <5>3, <6>2 DEF Discard, At
          <6>3. CASE run' = [run EXCEPT ![p].slipped = TRUE]
            BY <1>2, <5>3, <6>3 DEF Discard, At, Run
          <6> QED BY <5>3, <6>1, <6>2, <6>3 DEF Discard
        <5> QED BY <3>3, <5>1, <5>2, <5>3 DEF Installing
      <4> QED BY <4>1 DEF Boundary
    <3>4. CASE Ending(p)
      <4>1. run'[p].pc \in {"undo", "restore", "cleanup", "idle"}
        <5>1. CASE Undo(p)
          BY <1>2, <5>1 DEF Undo, Goto, At, Run
        <5>2. CASE Restore(p)
          BY <1>2, <5>2 DEF Restore, Goto, At, Run
        <5>3. CASE CleanUp(p)
          <6>1. CASE Finish(p, "error") BY <1>2, <6>1 DEF Finish, Idle
          <6>2. CASE ~Finish(p, "error") BY <1>2, <5>3, <6>2 DEF CleanUp, At, Run
          <6> QED BY <6>1, <6>2
        <5> QED BY <3>4, <5>1, <5>2, <5>3 DEF Ending
      <4> QED BY <4>1 DEF Boundary
    <3>5. CASE Crash(p)
      <4>1. run'[p].pc = "idle" BY <1>2, <3>5 DEF Crash, Finish, Idle
      <4> QED BY <4>1 DEF Boundary
    <3> QED BY <1>5, <3>1, <3>2, <3>3, <3>4, <3>5
  <2> QED BY <1>1, <2>1, <2>2 DEF BoundaryInv
<1>6. ASSUME NEW i \in Files, Tidy(i) \/ Foreign(i) PROVE BoundaryInv'
  <2>1. \A q \in Procs : run'[q] = run[q] /\ \A j \in run[q].mine : partial'[j] = partial[j]
    <3>1. \A q \in Procs : run[q].mine \subseteq Files BY <1>2, RunFields DEF BundleInv
    <3> QED BY <1>2, <1>6, <3>1 DEF Tidy, Foreign
  <2> QED BY <1>1, <1>3, <2>1 DEF BoundaryInv
<1> QED BY <1>4, <1>5, <1>6 DEF Next

\* readChunk and openAtOffset (bundle.go): whatever breaks and however often, and whatever other
\* receives do, a chunk is read at the boundary the .partial files are at, so that no completed
\* chunk is fetched or written twice and none is skipped.
THEOREM BundleResumesAtBoundary == Spec => []ResumesAtBoundary
<1>1. Init => BoundaryInv
  <2> SUFFICES ASSUME Init PROVE \A p \in Procs : Boundary(run[p], partial)
    BY InitKeeps DEF BoundaryInv
  <2> QED BY DEF Init, Idle, Boundary
<1>2. BoundaryInv => ResumesAtBoundary
  <2> SUFFICES ASSUME BoundaryInv, NEW p \in Procs, run[p].pc = "read"
               PROVE  /\ run[p].body = run[p].offset
                      /\ \A i \in Files :
                           partial[i].chunks =
                             IF i < run[p].file THEN Chunks[i]
                             ELSE IF i = run[p].file THEN run[p].offset - ChunksBefore[i] ELSE 0
    BY DEF ResumesAtBoundary, At
  <2>1. Boundary(run[p], partial) /\ SoundRun(p, run[p], partial) /\ run[p].file \in Files
    BY DEF BoundaryInv, BundleInv, SoundRun
  <2>2. ChunksBefore[run[p].file] \in Nat BY <2>1, ChunksBeforeDef
  <2>3. partial[run[p].file].chunks \in Nat BY <2>1 DEF BoundaryInv, BundleInv, TypeOK, Content
  <2>4. \A i \in Files : i < run[p].file \/ i = run[p].file \/ i > run[p].file
    BY <2>1, BundleAssumption DEF Files
  <2>5. run[p].mine = Files BY <2>1 DEF SoundRun
  <2>6. run[p].body = run[p].offset BY <2>1 DEF Boundary
  <2>7. run[p].offset = ChunksBefore[run[p].file] + partial[run[p].file].chunks
    BY <2>1 DEF Boundary
  <2>8. partial[run[p].file].chunks = run[p].offset - ChunksBefore[run[p].file]
    BY <2>2, <2>3, <2>7
  <2>9. \A i \in Files : /\ i < run[p].file => partial[i].chunks = Chunks[i]
                         /\ i > run[p].file => partial[i].chunks = 0
    BY <2>1, <2>5 DEF SoundRun
  <2> QED BY <2>1, <2>4, <2>6, <2>8, <2>9, BundleAssumption DEF Files
<1> QED BY <1>1, <1>2, BoundarySteps, PTL DEF Spec

(***************************************************************************)
(* A receive ends: every step it takes leaves less to do, in lexicographic  *)
(* order, and nobody else's step leaves it more.                            *)
(***************************************************************************)

\* What a receive has before it: the phase it is in, the files left in it (or names left to
\* roll back), the chunks left of the file, the retries left for the chunk, a body to open.
ToDo(p) ==
    LET r == run[p] IN
    CASE r.pc = "stat" -> <<8, NFiles - r.file, 1, 0, 0>>
      [] r.pc = "create" -> <<8, NFiles - r.file, 0, 0, 0>>
      [] r.pc \in {"open", "read", "verify"} ->
            <<7, NFiles - r.file, Chunks[r.file] - partial[r.file].chunks,
              Retries - r.attempt, IF r.pc = "open" THEN 1 ELSE 0>>
      [] r.pc = "trailing" -> <<6, 0, 0, 0, 0>>
      [] r.pc = "backup" -> <<5, NFiles - r.file, 0, 0, 0>>
      [] r.pc = "install" -> <<4, NFiles - r.file, 0, 0, 0>>
      [] r.pc = "undo" -> <<3, Cardinality(r.installed), 0, 0, 0>>
      [] r.pc = "discard" -> <<3, Cardinality(Backups(p)), 0, 0, 0>>
      [] r.pc = "restore" -> <<2, Cardinality(Backups(p)), 0, 0, 0>>
      [] r.pc = "cleanup" -> <<1, Cardinality(r.mine), 0, 0, 0>>
      [] r.pc = "idle" -> <<0, 0, 0, 0, 0>>

Less(a, b) ==
    \/ a[1] < b[1]
    \/ a[1] = b[1] /\ a[2] < b[2]
    \/ a[1] = b[1] /\ a[2] = b[2] /\ a[3] < b[3]
    \/ a[1] = b[1] /\ a[2] = b[2] /\ a[3] = b[3] /\ a[4] < b[4]
    \/ a[1] = b[1] /\ a[2] = b[2] /\ a[3] = b[3] /\ a[4] = b[4] /\ a[5] < b[5]

EndInv == BundleInv /\ \A p \in Procs : run[p].attempt <= Retries

LEMMA SetsShrink ==
    /\ IsFiniteSet(Files)
    /\ \A S \in SUBSET Files : IsFiniteSet(S) /\ Cardinality(S) \in Nat
    /\ \A S \in SUBSET Files : \A i \in S : Cardinality(S \ {i}) < Cardinality(S)
<1>1. IsFiniteSet(Files) BY FS_Interval, BundleAssumption DEF Files
<1>2. ASSUME NEW S \in SUBSET Files PROVE IsFiniteSet(S) /\ Cardinality(S) \in Nat
  BY <1>1, FS_Subset, FS_CardinalityType
<1>3. ASSUME NEW S \in SUBSET Files, NEW i \in S PROVE Cardinality(S \ {i}) < Cardinality(S)
  <2>1. Cardinality(S \ {i}) = Cardinality(S) - 1 BY <1>2, FS_RemoveElement
  <2> QED BY <1>2, <2>1
<1> QED BY <1>1, <1>2, <1>3

\* Every component of what is to do is a natural number: nothing shrinks for ever.
LEMMA ToDoTyped ==
    ASSUME EndInv, NEW p \in Procs
    PROVE  ToDo(p) \in Nat \X Nat \X Nat \X Nat \X Nat
<1> USE BundleAssumption
<1>1. /\ TypeOK /\ run[p].pc \in PCs /\ run[p].attempt \in Nat /\ run[p].attempt <= Retries
      /\ run[p].file \in 1..NFiles /\ run[p].installed \subseteq Files /\ run[p].mine \subseteq Files
  BY RunFields DEF EndInv, BundleInv, Files
<1>2. NFiles - run[p].file \in Nat /\ Retries - run[p].attempt \in Nat BY <1>1
<1>3. Chunks[run[p].file] - partial[run[p].file].chunks \in Nat
  <2>1. ASSUME NEW i \in Files PROVE Chunks[i] - partial[i].chunks \in Nat
    <3>1. partial[i] \in Content /\ partial[i].chunks <= Chunks[i] BY <1>1 DEF TypeOK
    <3>2. Chunks[i] \in Nat BY DEF Files
    <3> QED BY <3>1, <3>2 DEF Content
  <2> QED BY <1>1, <2>1 DEF Files
<1>4. /\ Cardinality(run[p].installed) \in Nat /\ Cardinality(run[p].mine) \in Nat
      /\ Cardinality(Backups(p)) \in Nat
  <2>1. Backups(p) \subseteq Files BY DEF Backups
  <2> QED BY <1>1, <2>1, SetsShrink
<1> QED BY <1>1, <1>2, <1>3, <1>4 DEF ToDo, PCs

LEMMA DownloadShortens ==
    ASSUME EndInv, NEW p \in Procs, Downloading(p)
    PROVE  Less(ToDo(p)', ToDo(p)) /\ run'[p].attempt <= Retries
<1> USE BundleAssumption
<1> DEFINE k == run[p].file
<1>0. /\ TypeOK /\ SoundRun(p, run[p], partial) /\ run \in [Procs -> Run] /\ run[p] \in Run
      /\ run[p].attempt \in Nat /\ run[p].attempt <= Retries /\ k \in 1..NFiles
      /\ partial \in [Files -> Content]
  BY RunFields DEF EndInv, BundleInv, TypeOK, Files
<1>1. ASSUME run'[p].pc = "cleanup",
             run[p].pc \in {"stat", "create", "open", "read", "verify", "trailing"}
      PROVE  Less(ToDo(p)', ToDo(p))
  <2>1. ToDo(p)'[1] = 1 BY <1>1 DEF ToDo
  <2>2. ToDo(p)[1] \in {6, 7, 8} BY <1>1 DEF ToDo
  <2> QED BY <2>1, <2>2 DEF Less
<1>2. CASE Goto(p, "cleanup")
  <2>1. run'[p].pc = "cleanup" /\ run'[p].attempt = run[p].attempt BY <1>0, <1>2 DEF Goto, Run
  <2>2. run[p].pc \in {"stat", "create", "open", "read", "verify", "trailing"}
    BY DEF Downloading, Stat, CreatePartial, Open, ReadChunk, ChunkRefused, BodyBreaks,
           ReadGivesUp, VerifyFile, VerifyAll, At
  <2> QED BY <1>0, <1>1, <2>1, <2>2
<1>3. CASE Stat(p) /\ Goto(p, "create")
  <2>1. /\ run[p].pc = "stat" /\ run'[p].pc = "create" /\ run'[p].file = k
        /\ run'[p].attempt = run[p].attempt
    BY <1>0, <1>3 DEF Stat, Goto, At, Run
  <2>2. ToDo(p) = <<8, NFiles - k, 1, 0, 0>> /\ ToDo(p)' = <<8, NFiles - k, 0, 0, 0>>
    BY <2>1 DEF ToDo
  <2> QED BY <1>0, <2>1, <2>2 DEF Less
<1>4. CASE CreatePartial(p) /\ ~Goto(p, "cleanup")
  <2>1. /\ run[p].pc = "create" /\ run'[p].pc = IF k = NFiles THEN "open" ELSE "stat"
        /\ run'[p].file = IF k = NFiles THEN 1 ELSE k + 1
        /\ run'[p].attempt = run[p].attempt
    BY <1>0, <1>4 DEF CreatePartial, At, Run
  <2>2. ToDo(p) = <<8, NFiles - k, 0, 0, 0>> BY <2>1 DEF ToDo
  <2>3. CASE k = NFiles
    <3>1. ToDo(p)'[1] = 7 BY <2>1, <2>3 DEF ToDo
    <3> QED BY <1>0, <2>1, <2>2, <3>1 DEF Less
  <2>4. CASE k # NFiles
    <3>1. ToDo(p)'[1] = 8 /\ ToDo(p)'[2] = NFiles - (k + 1) BY <2>1, <2>4 DEF ToDo
    <3> QED BY <1>0, <2>1, <2>2, <3>1 DEF Less
  <2> QED BY <2>3, <2>4
<1>5. CASE Open(p) /\ ~Goto(p, "cleanup")
  <2>1. /\ run[p].pc = "open" /\ run'[p].pc = "read" /\ run'[p].file = k
        /\ run'[p].attempt = run[p].attempt /\ partial' = partial
    BY <1>0, <1>5 DEF Open, At, Run, disk
  <2>2. ToDo(p) = <<7, NFiles - k, Chunks[k] - partial[k].chunks, Retries - run[p].attempt, 1>>
    BY <2>1 DEF ToDo
  <2>3. ToDo(p)' = <<7, NFiles - k, Chunks[k] - partial[k].chunks, Retries - run[p].attempt, 0>>
    BY <2>1 DEF ToDo
  <2> QED BY <1>0, <2>1, <2>2, <2>3 DEF Less
<1>6. CASE ReadChunk(p)
  <2>1. /\ run[p].pc = "read" /\ run'[p].pc \in {"read", "verify"} /\ run'[p].file = k
        /\ run'[p].attempt = 0 /\ partial' = [partial EXCEPT ![k].chunks = @ + 1]
    BY <1>0, <1>6 DEF ReadChunk, At, Run
  <2>2. partial'[k].chunks = partial[k].chunks + 1 /\ partial[k].chunks \in Nat /\ Chunks[k] \in Nat
    BY <1>0, <2>1 DEF Content, Files
  <2>3. /\ ToDo(p)[1] = 7 /\ ToDo(p)[2] = NFiles - k
        /\ ToDo(p)[3] = Chunks[k] - partial[k].chunks
    BY <2>1 DEF ToDo
  <2>4. /\ ToDo(p)'[1] = 7 /\ ToDo(p)'[2] = NFiles - k
        /\ ToDo(p)'[3] = Chunks[k] - partial'[k].chunks
    BY <2>1 DEF ToDo
  <2>5. ToDo(p)'[3] < ToDo(p)[3] BY <2>2, <2>3, <2>4
  <2> QED BY <2>1, <2>3, <2>4, <2>5 DEF Less
<1>7. CASE BodyBreaks(p) /\ ~Goto(p, "cleanup")
  <2>1. /\ run[p].pc = "read" /\ run'[p].pc = "open" /\ run'[p].file = k /\ partial' = partial
        /\ run'[p].attempt = run[p].attempt + 1 /\ run[p].attempt < Retries
    BY <1>0, <1>7 DEF BodyBreaks, At, Run, disk
  <2>2. ToDo(p) = <<7, NFiles - k, Chunks[k] - partial[k].chunks, Retries - run[p].attempt, 0>>
    BY <2>1 DEF ToDo
  <2>3. ToDo(p)' =
          <<7, NFiles - k, Chunks[k] - partial[k].chunks, Retries - (run[p].attempt + 1), 1>>
    BY <2>1 DEF ToDo
  <2> QED BY <1>0, <2>1, <2>2, <2>3 DEF Less
<1>8. CASE VerifyFile(p) /\ ~Goto(p, "cleanup")
  <2>1. /\ run[p].pc = "verify" /\ run'[p].pc = IF k = NFiles THEN "trailing" ELSE "read"
        /\ run'[p].file = IF k = NFiles THEN 1 ELSE k + 1
        /\ run'[p].attempt = run[p].attempt
    BY <1>0, <1>8 DEF VerifyFile, At, Run
  <2>2. ToDo(p)[1] = 7 /\ ToDo(p)[2] = NFiles - k BY <2>1 DEF ToDo
  <2>3. CASE k = NFiles
    <3>1. ToDo(p)'[1] = 6 BY <2>1, <2>3 DEF ToDo
    <3> QED BY <1>0, <2>1, <2>2, <3>1 DEF Less
  <2>4. CASE k # NFiles
    <3>1. ToDo(p)'[1] = 7 /\ ToDo(p)'[2] = NFiles - (k + 1) BY <2>1, <2>4 DEF ToDo
    <3> QED BY <1>0, <2>1, <2>2, <3>1 DEF Less
  <2> QED BY <2>3, <2>4
<1>9. CASE VerifyAll(p) /\ ~Goto(p, "cleanup")
  <2>1. /\ run[p].pc = "trailing" /\ run'[p].pc \in {"backup", "install"}
        /\ run'[p].attempt = run[p].attempt
    BY <1>0, <1>9 DEF VerifyAll, Goto, At, Run
  <2>2. ToDo(p)[1] = 6 /\ ToDo(p)'[1] \in {4, 5} BY <2>1 DEF ToDo
  <2> QED BY <1>0, <2>1, <2>2 DEF Less
<1>10. CASE ChunkRefused(p) \/ ReadGivesUp(p)
  BY <1>2, <1>10 DEF ChunkRefused, ReadGivesUp
<1> QED BY <1>2, <1>3, <1>4, <1>5, <1>6, <1>7, <1>8, <1>9, <1>10 DEF Downloading, Stat

LEMMA EndingShortens ==
    ASSUME EndInv, NEW p \in Procs, Installing(p) \/ Ending(p)
    PROVE  Less(ToDo(p)', ToDo(p)) /\ run'[p].attempt <= Retries
<1> USE BundleAssumption
<1> DEFINE k == run[p].file
<1>0. /\ TypeOK /\ run \in [Procs -> Run] /\ run[p] \in Run
      /\ run[p].attempt \in Nat /\ run[p].attempt <= Retries /\ k \in 1..NFiles
      /\ saved[p] \in [Files -> Content] /\ DOMAIN saved = Procs
      /\ run[p].installed \subseteq Files /\ run[p].mine \subseteq Files /\ Backups(p) \subseteq Files
  BY RunFields DEF EndInv, BundleInv, TypeOK, Files, Backups
<1>1. CASE BackUp(p) \/ InstallFile(p)
  <2>1. CASE Goto(p, "undo")
    <3>1. run[p].pc \in {"backup", "install"} BY <1>1 DEF BackUp, InstallFile, At
    <3>2. run'[p].pc = "undo" /\ run'[p].attempt = run[p].attempt BY <1>0, <2>1 DEF Goto, Run
    <3>3. ToDo(p)[1] \in {4, 5} /\ ToDo(p)'[1] = 3 BY <3>1, <3>2 DEF ToDo
    <3> QED BY <1>0, <3>2, <3>3 DEF Less
  <2>2. CASE BackUp(p) /\ ~Goto(p, "undo")
    <3>1. /\ run[p].pc = "backup" /\ run'[p].attempt = run[p].attempt
          /\ run'[p].pc = IF k = NFiles THEN "install" ELSE "backup"
          /\ run'[p].file = IF k = NFiles THEN 1 ELSE k + 1
      BY <1>0, <2>2 DEF BackUp, At, Run
    <3>2. ToDo(p)[1] = 5 /\ ToDo(p)[2] = NFiles - k BY <3>1 DEF ToDo
    <3>3. CASE k = NFiles
      <4>1. ToDo(p)'[1] = 4 BY <3>1, <3>3 DEF ToDo
      <4> QED BY <1>0, <3>1, <3>2, <4>1 DEF Less
    <3>4. CASE k # NFiles
      <4>1. ToDo(p)'[1] = 5 /\ ToDo(p)'[2] = NFiles - (k + 1) BY <3>1, <3>4 DEF ToDo
      <4> QED BY <1>0, <3>1, <3>2, <4>1 DEF Less
    <3> QED BY <3>3, <3>4
  <2>3. CASE InstallFile(p) /\ ~Goto(p, "undo")
    <3>1. /\ run[p].pc = "install" /\ run'[p].attempt = run[p].attempt
          /\ run'[p].pc = IF k = NFiles THEN "discard" ELSE "install"
          /\ run'[p].file = IF k = NFiles THEN 1 ELSE k + 1
      BY <1>0, <2>3 DEF InstallFile, At, Run
    <3>2. ToDo(p)[1] = 4 /\ ToDo(p)[2] = NFiles - k BY <3>1 DEF ToDo
    <3>3. CASE k = NFiles
      <4>1. ToDo(p)'[1] = 3 BY <3>1, <3>3 DEF ToDo
      <4> QED BY <1>0, <3>1, <3>2, <4>1 DEF Less
    <3>4. CASE k # NFiles
      <4>1. ToDo(p)'[1] = 4 /\ ToDo(p)'[2] = NFiles - (k + 1) BY <3>1, <3>4 DEF ToDo
      <4> QED BY <1>0, <3>1, <3>2, <4>1 DEF Less
    <3> QED BY <3>3, <3>4
  <2> QED BY <1>1, <2>1, <2>2, <2>3
<1>2. ASSUME NEW result \in Results, Finish(p, result), run[p].pc \in {"discard", "cleanup"}
      PROVE  Less(ToDo(p)', ToDo(p)) /\ run'[p].attempt <= Retries
  <2>1. run'[p].pc = "idle" /\ run'[p].attempt = 0 BY <1>0, <1>2 DEF Finish, Idle
  <2>2. ToDo(p)'[1] = 0 /\ ToDo(p)[1] \in {1, 3} BY <1>2, <2>1 DEF ToDo
  <2> QED BY <2>1, <2>2 DEF Less
\* Forgetting a backup name leaves one less to put back or to remove.
<1>3. ASSUME NEW f, f = First(Backups(p)), Backups(p) # {},
             saved' = [saved EXCEPT ![p][f] = Absent]
      PROVE  Cardinality(Backups(p)') < Cardinality(Backups(p))
  <2>1. f \in Backups(p) BY <1>0, <1>3, FirstIn
  <2>2. Backups(p)' = Backups(p) \ {f} BY <1>0, <1>3, <2>1 DEF Backups
  <2> QED BY <1>0, <2>1, <2>2, SetsShrink
<1>4. CASE Discard(p)
  <2>1. run[p].pc = "discard" BY <1>4 DEF Discard, At
  <2>2. CASE Backups(p) = {} BY <1>2, <1>4, <2>1, <2>2 DEF Discard, Results
  <2>3. CASE Backups(p) # {}
    <3>1. run'[p].pc = "discard" /\ run'[p].attempt = run[p].attempt
      BY <1>0, <1>4, <2>1, <2>3 DEF Discard, Run
    <3>2. Cardinality(Backups(p)') < Cardinality(Backups(p)) BY <1>3, <1>4, <2>3 DEF Discard
    <3>3. ToDo(p)[1] = 3 /\ ToDo(p)[2] = Cardinality(Backups(p)) BY <2>1 DEF ToDo
    <3>4. ToDo(p)'[1] = 3 /\ ToDo(p)'[2] = Cardinality(Backups(p)') BY <3>1 DEF ToDo
    <3> QED BY <1>0, <3>1, <3>2, <3>3, <3>4 DEF Less
  <2> QED BY <2>2, <2>3
<1>5. CASE Restore(p)
  <2>1. run[p].pc = "restore" BY <1>5 DEF Restore, At
  <2>2. ToDo(p)[1] = 2 /\ ToDo(p)[2] = Cardinality(Backups(p)) BY <2>1 DEF ToDo
  <2>3. CASE Backups(p) = {}
    <3>1. run'[p].pc = "cleanup" /\ run'[p].attempt = run[p].attempt
      BY <1>0, <1>5, <2>3 DEF Restore, Goto, Run
    <3>2. ToDo(p)'[1] = 1 BY <3>1 DEF ToDo
    <3> QED BY <1>0, <2>2, <3>1, <3>2 DEF Less
  <2>4. CASE Backups(p) # {}
    <3>1. run'[p].pc = "restore" /\ run'[p].attempt = run[p].attempt
      BY <1>0, <1>5, <2>1, <2>4 DEF Restore, Run
    <3>2. Cardinality(Backups(p)') < Cardinality(Backups(p)) BY <1>3, <1>5, <2>4 DEF Restore
    <3>3. ToDo(p)'[1] = 2 /\ ToDo(p)'[2] = Cardinality(Backups(p)') BY <3>1 DEF ToDo
    <3> QED BY <1>0, <2>2, <3>1, <3>2, <3>3 DEF Less
  <2> QED BY <2>3, <2>4
<1>6. CASE Undo(p)
  <2>1. run[p].pc = "undo" BY <1>6 DEF Undo, At
  <2>2. ToDo(p)[1] = 3 /\ ToDo(p)[2] = Cardinality(run[p].installed) BY <2>1 DEF ToDo
  <2>3. CASE run[p].installed = {}
    <3>1. run'[p].pc = "restore" /\ run'[p].attempt = run[p].attempt
      BY <1>0, <1>6, <2>3 DEF Undo, Goto, Run
    <3>2. ToDo(p)'[1] = 2 BY <3>1 DEF ToDo
    <3> QED BY <1>0, <2>2, <3>1, <3>2 DEF Less
  <2>4. CASE run[p].installed # {}
    <3> DEFINE f == First(run[p].installed)
    <3>1. /\ run'[p].pc = "undo" /\ run'[p].attempt = run[p].attempt
          /\ run'[p].installed = run[p].installed \ {f}
      BY <1>0, <1>6, <2>1, <2>4 DEF Undo, Run
    <3>2. Cardinality(run'[p].installed) < Cardinality(run[p].installed)
      BY <1>0, <2>4, <3>1, FirstIn, SetsShrink
    <3>3. ToDo(p)'[1] = 3 /\ ToDo(p)'[2] = Cardinality(run'[p].installed) BY <3>1 DEF ToDo
    <3> QED BY <1>0, <2>2, <3>1, <3>2, <3>3 DEF Less
  <2> QED BY <2>3, <2>4
<1>7. CASE CleanUp(p)
  <2>1. run[p].pc = "cleanup" BY <1>7 DEF CleanUp, At
  <2>2. CASE run[p].mine = {} BY <1>2, <1>7, <2>1, <2>2 DEF CleanUp, Results
  <2>3. CASE run[p].mine # {}
    <3> DEFINE f == First(run[p].mine)
    <3>1. /\ run'[p].pc = "cleanup" /\ run'[p].attempt = run[p].attempt
          /\ run'[p].mine = run[p].mine \ {f}
      BY <1>0, <1>7, <2>1, <2>3 DEF CleanUp, Run
    <3>2. Cardinality(run'[p].mine) < Cardinality(run[p].mine)
      BY <1>0, <2>3, <3>1, FirstIn, SetsShrink
    <3>3. ToDo(p)[1] = 1 /\ ToDo(p)[2] = Cardinality(run[p].mine) BY <2>1 DEF ToDo
    <3>4. ToDo(p)'[1] = 1 /\ ToDo(p)'[2] = Cardinality(run'[p].mine) BY <3>1 DEF ToDo
    <3> QED BY <1>0, <3>1, <3>2, <3>3, <3>4 DEF Less
  <2> QED BY <2>2, <2>3
<1> QED BY <1>1, <1>4, <1>5, <1>6, <1>7 DEF Installing, Ending

\* What the operator and other programs do leaves a receive as much to do as it had.
LEMMA OutsideQuiet ==
    ASSUME EndInv, NEW p \in Procs, NEW i \in Files, Tidy(i) \/ Foreign(i)
    PROVE  ToDo(p)' = ToDo(p) /\ run' = run
<1>1. UNCHANGED <<saved, run>> BY DEF Tidy, Foreign, bounds
<1>2. SoundRun(p, run[p], partial) /\ run[p].file \in Files BY DEF EndInv, BundleInv, SoundRun
<1>3. run[p].pc \in {"open", "read", "verify"} => partial'[run[p].file] = partial[run[p].file]
  BY <1>2 DEF SoundRun, Tidy, Foreign
<1> QED BY <1>1, <1>3 DEF ToDo, Backups

\* Nor does another receive.
LEMMA OthersQuiet ==
    ASSUME EndInv, NEW p \in Procs, NEW q \in Procs \ {p},
           Starting(p) \/ Downloading(p) \/ Installing(p) \/ Ending(p) \/ Crash(p)
    PROVE  ToDo(q)' = ToDo(q) /\ run'[q] = run[q]
<1>1. run'[q] = run[q] /\ \A i \in run[q].mine : partial'[i] = partial[i]
  BY OthersStay DEF EndInv
<1>2. saved'[q] = saved[q]
  <2>1. saved \in [Procs -> [Files -> Content]] BY DEF EndInv, BundleInv, TypeOK
  <2>2. saved' = saved \/ \E new : saved' = [saved EXCEPT ![p] = new]
    <3>1. CASE Starting(p) BY <3>1 DEF Starting, Start, disk
    <3>2. CASE Downloading(p)
      BY <3>2 DEF Downloading, Stat, CreatePartial, Open, ReadChunk, ChunkRefused, BodyBreaks,
         ReadGivesUp, VerifyFile, VerifyAll, disk
    <3>3. CASE Installing(p) BY <3>3 DEF Installing, BackUp, InstallFile, Discard
    <3>4. CASE Ending(p) BY <3>4 DEF Ending, Undo, Restore, CleanUp
    <3>5. CASE Crash(p) BY <3>5 DEF Crash
    <3> QED BY <3>1, <3>2, <3>3, <3>4, <3>5
  <2> QED BY <2>1, <2>2
<1>3. SoundRun(q, run[q], partial) /\ run[q].file \in Files BY DEF EndInv, BundleInv, SoundRun
<1>4. run[q].pc \in {"open", "read", "verify"} => partial'[run[q].file] = partial[run[q].file]
  BY <1>1, <1>3 DEF SoundRun
<1> QED BY <1>1, <1>2, <1>4 DEF ToDo, Backups

LEMMA CrashShortens ==
    ASSUME EndInv, NEW p \in Procs, Crash(p)
    PROVE  Less(ToDo(p)', ToDo(p)) /\ run'[p].attempt = 0
<1>1. run[p].pc \in PCs \ {"idle"} /\ run'[p].pc = "idle" /\ run'[p].attempt = 0
  BY RunFields DEF EndInv, BundleInv, TypeOK, Crash, Finish, Idle, At
<1>2. ToDo(p)'[1] = 0 /\ ToDo(p)[1] \in 1..8 BY <1>1 DEF ToDo, PCs
<1> QED BY <1>1, <1>2 DEF Less

LEMMA EndSteps ==
    EndInv /\ [Next]_vars =>
        /\ EndInv'
        /\ \A p \in Procs :
             /\ Working(p) => Less(ToDo(p)', ToDo(p))
             /\ ~At(p, "idle") => ToDo(p)' = ToDo(p) \/ Less(ToDo(p)', ToDo(p))
<1> SUFFICES ASSUME EndInv, [Next]_vars, NEW p \in Procs
             PROVE  /\ run'[p].attempt <= Retries
                    /\ Working(p) => Less(ToDo(p)', ToDo(p))
                    /\ ~At(p, "idle") => ToDo(p)' = ToDo(p) \/ Less(ToDo(p)', ToDo(p))
  BY StepsKeep DEF EndInv
<1>1. run[p].attempt <= Retries BY DEF EndInv
<1>2. CASE Working(p) BY <1>2, DownloadShortens, EndingShortens DEF Working
<1>3. CASE ~Working(p)
  <2>1. CASE UNCHANGED vars
    <3>1. UNCHANGED <<run, saved, partial>> BY <2>1 DEF vars, disk
    <3> QED BY <1>1, <1>3, <3>1 DEF ToDo, Backups
  <2>2. CASE Starting(p)
    <3>1. At(p, "idle") /\ run'[p].attempt = 0
      <4>1. run \in [Procs -> Run] BY DEF EndInv, BundleInv, TypeOK
      <4> QED BY <2>2, <4>1 DEF Starting, Start, Idle
    <3> QED BY <1>3, <3>1, BundleAssumption
  <2>3. CASE Crash(p) BY <1>3, <2>3, CrashShortens, BundleAssumption
  <2>4. CASE \E q \in Procs \ {p} :
               Starting(q) \/ Downloading(q) \/ Installing(q) \/ Ending(q) \/ Crash(q)
    BY <1>1, <1>3, <2>4, OthersQuiet
  <2>5. CASE \E i \in Files : Tidy(i) \/ Foreign(i) BY <1>1, <1>3, <2>5, OutsideQuiet
  <2> QED BY <1>3, <2>1, <2>2, <2>3, <2>4, <2>5 DEF Next, Working
<1> QED BY <1>2, <1>3

\* ReceiveBundle (bundle.go) cannot go round for ever, however many bodies break, operations
\* fail and other receives work beside it: each of its steps brings it nearer to its end, and
\* nothing else takes it further away.
THEOREM BundleReceivesShorten ==
    Spec =>
        /\ [](\A p \in Procs : ToDo(p) \in Nat \X Nat \X Nat \X Nat \X Nat)
        /\ [][\A p \in Procs :
                /\ Working(p) => Less(ToDo(p)', ToDo(p))
                /\ ~At(p, "idle") => ToDo(p)' = ToDo(p) \/ Less(ToDo(p)', ToDo(p))]_vars
<1>1. Init => EndInv
  BY InitKeeps, BundleAssumption DEF EndInv, Init, Idle
<1>2. EndInv => \A p \in Procs : ToDo(p) \in Nat \X Nat \X Nat \X Nat \X Nat BY ToDoTyped
<1> QED BY <1>1, <1>2, EndSteps, PTL DEF Spec

(***************************************************************************)
(* One receive at a time: what happened so far to destination i, compared   *)
(* with what it held when receive p began.                                  *)
(***************************************************************************)

\* It holds that, or a file another program put there since.
Untouched(p, i) ==
    \/ final[i] = before[p][i]
    \/ before[p][i] = Absent /\ final[i] = Other

\* What it held, if anything, is under a backup name the receive knows.
BackedUp(p, i) ==
    \/ saved[p][i] = before[p][i]
    \/ before[p][i] = Absent /\ saved[p][i] = Other

Vacant(i) == final[i] \in {Absent, Other}

\* What it held, if anything, is under a backup name nobody knows.
Remembered(p, i) == before[p][i] = Absent \/ <<i, before[p][i]>> \in orphans

\* The rollback is through with it.
Back(p, i) == Untouched(p, i) \/ (run[p].slipped /\ Remembered(p, i))

AllMine(p) == \A j \in Files : final[j].by = p

FileKept(p, i) ==
    LET r == run[p] IN
    /\ r.pc \in {"stat", "create", "open", "read", "verify", "trailing"} =>
         /\ Untouched(p, i) /\ saved[p][i] = Absent /\ i \notin r.installed
         /\ r.ow \/ before[p][i] = Absent
    /\ r.pc = "backup" =>
         /\ i \notin r.installed
         /\ IF i < r.file THEN BackedUp(p, i) /\ Vacant(i)
            ELSE saved[p][i] = Absent /\ Untouched(p, i)
    /\ r.pc = "install" =>
         /\ BackedUp(p, i)
         /\ IF i < r.file THEN final[i].by = p /\ i \in r.installed
            ELSE Vacant(i) /\ i \notin r.installed
    /\ r.pc = "undo" =>
         \/ saved[p][i] = Absent /\ i \notin r.installed /\ Untouched(p, i)
         \/ BackedUp(p, i) /\ (i \in r.installed \/ r.slipped \/ Vacant(i))
    /\ r.pc = "restore" =>
         \/ saved[p][i] = Absent /\ Back(p, i)
         \/ saved[p][i] # Absent /\ BackedUp(p, i)
    /\ r.pc = "cleanup" => saved[p][i] = Absent /\ Back(p, i)
    /\ r.pc = "discard" => AllMine(p)
    /\ r.pc = "idle" =>
         /\ saved[p][i] = Absent
         /\ r.result = "ok" => AllMine(p)
         /\ r.result \in {"none", "error"} => Back(p, i)
         /\ r.result = "stopped" => AllMine(p) \/ Untouched(p, i) \/ Remembered(p, i)

\* A .partial file is the receive's own, unless it could not be removed or a stop left it.
NoneLeft(p) ==
    ~run[p].slipped /\ (~At(p, "idle") \/ run[p].result = "error") =>
        \A i \in Files : partial[i] # Absent => i \in run[p].mine

KeptInv(p) == NoneLeft(p) /\ \A i \in Files : FileKept(p, i)

\* What the arguments below need of the types: receive p's fields and the files it sees.
LEMMA KeptTypes ==
    ASSUME TypeOK, NEW p \in Procs
    PROVE  /\ run[p] \in Run /\ run[p].file \in Files /\ run[p].mine \subseteq Files
           /\ run[p].installed \subseteq Files /\ run[p].ow \in BOOLEAN
           /\ run[p].slipped \in BOOLEAN /\ run[p].result \in Results
           /\ final \in [Files -> Content] /\ partial \in [Files -> Content]
           /\ saved[p] \in [Files -> Content] /\ before[p] \in [Files -> Content]
           /\ DOMAIN run = Procs /\ DOMAIN saved = Procs /\ DOMAIN before = Procs
  BY RunFields DEF TypeOK

\* A step that moves the receive on and touches no file: the invariant's view of it is the
\* run's step, file, installed, slipped and result.
LEMMA KeptControl ==
    ASSUME TypeOK, NEW p \in Procs, KeptInv(p),
           UNCHANGED <<final, partial, saved, orphans, before>>,
           run[p].pc \in {"stat", "create", "open", "read", "verify", "trailing"},
           run'[p].pc \in {"stat", "create", "open", "read", "verify", "trailing", "cleanup"},
           run'[p].ow = run[p].ow, run'[p].installed = run[p].installed,
           run'[p].slipped = run[p].slipped, run'[p].mine = run[p].mine
    PROVE  KeptInv(p)'
<1>1. NoneLeft(p)' BY DEF KeptInv, NoneLeft, At
<1>2. ASSUME NEW i \in Files PROVE FileKept(p, i)'
  <2>1. /\ Untouched(p, i) /\ saved[p][i] = Absent /\ i \notin run[p].installed
        /\ run[p].ow \/ before[p][i] = Absent
    BY DEF KeptInv, FileKept
  <2> QED BY <2>1 DEF FileKept, Untouched, Back
<1> QED BY <1>1, <1>2 DEF KeptInv

LEMMA KeptDownloading ==
    ASSUME BundleInv, NEW p \in Procs, KeptInv(p), Downloading(p)
    PROVE  KeptInv(p)'
<1>0. TypeOK /\ SoundRun(p, run[p], partial) BY DEF BundleInv
<1> USE <1>0, KeptTypes
<1>1. CASE Stat(p)
  <2>1. UNCHANGED <<final, partial, saved, orphans, before>> /\ At(p, "stat")
    BY <1>1 DEF Stat, disk
  <2>2. \E pc \in {"create", "cleanup"} : run' = [run EXCEPT ![p].pc = pc]
    BY <1>1 DEF Stat, Goto
  <2>3. /\ run'[p].pc \in {"create", "cleanup"} /\ run'[p].ow = run[p].ow
        /\ run'[p].installed = run[p].installed /\ run'[p].mine = run[p].mine
        /\ run'[p].slipped = run[p].slipped
    BY <2>2 DEF Run
  <2> QED BY <2>1, <2>3, KeptControl DEF At
<1>2. CASE Open(p) \/ ChunkRefused(p) \/ BodyBreaks(p) \/ VerifyFile(p)
  <2>1. UNCHANGED <<final, partial, saved, orphans, before>>
        /\ run[p].pc \in {"open", "read", "verify"}
    BY <1>2 DEF Open, ChunkRefused, BodyBreaks, VerifyFile, disk, At
  <2>2. /\ run'[p].pc \in {"open", "read", "trailing", "cleanup"} /\ run'[p].ow = run[p].ow
        /\ run'[p].installed = run[p].installed /\ run'[p].mine = run[p].mine
        /\ run'[p].slipped = run[p].slipped
    BY <1>2 DEF Open, ChunkRefused, BodyBreaks, VerifyFile, Goto, Run
  <2> QED BY <2>1, <2>2, KeptControl
<1>3. CASE CreatePartial(p) \/ ReadChunk(p) \/ ReadGivesUp(p)
  <2>1. UNCHANGED <<final, saved, orphans, before>> /\ run[p].pc \in {"create", "read"}
    BY <1>3 DEF CreatePartial, ReadChunk, ReadGivesUp, At
  <2>2. /\ run'[p].pc \in {"stat", "open", "read", "verify", "cleanup"}
        /\ run'[p].ow = run[p].ow /\ run'[p].installed = run[p].installed
        /\ run'[p].slipped = run[p].slipped
    BY <1>3 DEF CreatePartial, ReadChunk, ReadGivesUp, Goto, Run
  <2>3. /\ run[p].mine \subseteq run'[p].mine
        /\ \A i \in Files : partial'[i] # partial[i] => i \in run'[p].mine
    <3>1. CASE CreatePartial(p) BY <3>1 DEF CreatePartial, Goto, Run
    <3>2. CASE ReadChunk(p) \/ ReadGivesUp(p)
      <4>1. run'[p].mine = run[p].mine BY <3>2 DEF ReadChunk, ReadGivesUp, Goto, Run
      <4>2. run[p].mine = Files BY <3>2 DEF ReadChunk, ReadGivesUp, At, SoundRun
      <4> QED BY <4>1, <4>2
    <3> QED BY <1>3, <3>1, <3>2
  <2>4. NoneLeft(p)'
    <3> SUFFICES ASSUME ~run[p].slipped, NEW i \in Files, partial'[i] # Absent
                 PROVE  i \in run'[p].mine
      BY <2>2 DEF NoneLeft
    <3>1. partial[i] # Absent => i \in run[p].mine
      BY <2>1 DEF KeptInv, NoneLeft, At
    <3> QED BY <2>3, <3>1
  <2>5. ASSUME NEW i \in Files PROVE FileKept(p, i)'
    <3>1. /\ Untouched(p, i) /\ saved[p][i] = Absent /\ i \notin run[p].installed
          /\ run[p].ow \/ before[p][i] = Absent
      BY <2>1 DEF KeptInv, FileKept
    <3> QED BY <2>1, <2>2, <3>1 DEF FileKept, Untouched, Back
  <2> QED BY <2>4, <2>5 DEF KeptInv
<1>4. CASE VerifyAll(p)
  <2>1. UNCHANGED <<final, partial, saved, orphans, before>> /\ At(p, "trailing")
    BY <1>4 DEF VerifyAll, disk
  <2>2. \E pc \in {"backup", "install", "cleanup"} :
           run' = [run EXCEPT ![p].pc = pc] /\ (pc = "install" => ~run[p].ow)
    BY <1>4 DEF VerifyAll, Goto
  <2>3. /\ run'[p].pc \in {"backup", "install", "cleanup"} /\ run'[p].ow = run[p].ow
        /\ run'[p].pc = "install" => ~run[p].ow
        /\ run'[p].installed = run[p].installed /\ run'[p].mine = run[p].mine
        /\ run'[p].slipped = run[p].slipped /\ run'[p].file = 1
    BY <2>1, <2>2 DEF Run, At, SoundRun
  <2>4. NoneLeft(p)' BY <2>1, <2>3 DEF KeptInv, NoneLeft, At
  <2>5. ASSUME NEW i \in Files PROVE FileKept(p, i)'
    <3>1. /\ Untouched(p, i) /\ saved[p][i] = Absent /\ i \notin run[p].installed
          /\ run[p].ow \/ before[p][i] = Absent
      BY <2>1 DEF KeptInv, FileKept, At
    <3>2. ~(i < 1) BY DEF Files
    <3> QED BY <2>1, <2>3, <3>1, <3>2 DEF FileKept, Untouched, Back, BackedUp, Vacant
  <2> QED BY <2>4, <2>5 DEF KeptInv
<1> QED BY <1>1, <1>2, <1>3, <1>4 DEF Downloading

LEMMA KeptInstalling ==
    ASSUME BundleInv, NEW p \in Procs, KeptInv(p), Installing(p)
    PROVE  KeptInv(p)'
<1>0. TypeOK /\ SoundRun(p, run[p], partial) BY DEF BundleInv
<1> USE <1>0, KeptTypes, BundleAssumption
<1>1. CASE BackUp(p)
  <2> DEFINE f == run[p].file
  <2>1. /\ UNCHANGED <<partial, orphans, before>> /\ run[p].pc = "backup"
        /\ run[p].mine = Files
    BY <1>1 DEF BackUp, At, SoundRun
  <2>2. /\ run'[p].ow = run[p].ow /\ run'[p].installed = run[p].installed
        /\ run'[p].slipped = run[p].slipped /\ run'[p].mine = run[p].mine
        /\ run'[p].pc \in {"backup", "install", "undo"}
    BY <1>1 DEF BackUp, Goto, Run, At
  <2>3. NoneLeft(p)' BY <2>1, <2>2 DEF NoneLeft
  <2>4. ASSUME NEW i \in Files PROVE FileKept(p, i)'
    <3>1. /\ i \notin run[p].installed
          /\ i < f => BackedUp(p, i) /\ Vacant(i)
          /\ ~(i < f) => saved[p][i] = Absent /\ Untouched(p, i)
      BY <2>1 DEF KeptInv, FileKept
    <3>2. CASE run'[p].pc = "undo"
      <4>1. UNCHANGED <<final, saved>> BY <1>1, <2>1, <3>2 DEF BackUp, Run, At
      <4> QED BY <2>1, <2>2, <3>1, <3>2, <4>1 DEF FileKept, Untouched, BackedUp, Vacant
    <3>3. CASE run'[p].pc # "undo"
      <4>1. /\ saved' = [saved EXCEPT ![p][f] = final[f]]
            /\ final' = [final EXCEPT ![f] = Absent]
            /\ run' = [run EXCEPT ![p].pc = IF f = NFiles THEN "install" ELSE @,
                                  ![p].file = IF f = NFiles THEN 1 ELSE f + 1]
        BY <1>1, <3>3 DEF BackUp, Goto, Run
      <4>2. /\ final'[f] = Absent /\ saved'[p][f] = final[f]
            /\ i # f => final'[i] = final[i] /\ saved'[p][i] = saved[p][i]
        BY <4>1
      <4>3. i <= f => BackedUp(p, i)' /\ Vacant(i)'
        <5>1. CASE i = f BY <2>1, <3>1, <4>2, <5>1 DEF BackedUp, Vacant, Untouched, Files
        <5>2. CASE i < f BY <2>1, <3>1, <4>2, <5>2 DEF BackedUp, Vacant, Files
        <5> QED BY <5>1, <5>2 DEF Files
      <4>4. i > f => saved'[p][i] = Absent /\ Untouched(p, i)'
        BY <2>1, <3>1, <4>2 DEF Untouched, Files
      <4>5. IF f = NFiles THEN run'[p].pc = "install" /\ run'[p].file = 1
            ELSE run'[p].pc = "backup" /\ run'[p].file = f + 1
        BY <2>1, <4>1 DEF Run
      <4>6. CASE f = NFiles
        <5>1. i <= f /\ ~(i < 1) BY <4>6 DEF Files
        <5> QED BY <2>2, <3>1, <4>3, <4>5, <4>6, <5>1 DEF FileKept
      <4>7. CASE f # NFiles
        <5>1. (i < f + 1 <=> i <= f) /\ (~(i < f + 1) <=> i > f) BY DEF Files
        <5> QED BY <2>2, <3>1, <4>3, <4>4, <4>5, <4>7, <5>1 DEF FileKept
      <4> QED BY <4>6, <4>7
    <3> QED BY <3>2, <3>3
  <2> QED BY <2>3, <2>4 DEF KeptInv
<1>2. CASE InstallFile(p)
  <2> DEFINE f == run[p].file
  <2>1. /\ UNCHANGED <<saved, orphans, before>> /\ run[p].pc = "install"
        /\ run[p].mine = f..NFiles
    BY <1>2 DEF InstallFile, At, SoundRun
  <2>2. /\ run'[p].slipped = run[p].slipped
        /\ run'[p].pc \in {"install", "discard", "undo"}
    BY <1>2 DEF InstallFile, Goto, Run, At
  <2>3. CASE run'[p].pc = "undo"
    <3>1. UNCHANGED <<final, partial>> /\ run'[p].installed = run[p].installed
          /\ run'[p].mine = run[p].mine
      BY <1>2, <2>1, <2>3 DEF InstallFile, Goto, Run, At
    <3>2. NoneLeft(p)' BY <2>1, <2>2, <3>1 DEF KeptInv, NoneLeft, At
    <3>3. ASSUME NEW i \in Files PROVE FileKept(p, i)'
      BY <2>1, <2>2, <2>3, <3>1 DEF KeptInv, FileKept, BackedUp, Vacant
    <3> QED BY <3>2, <3>3 DEF KeptInv
  <2>4. CASE run'[p].pc # "undo"
    <3>1. /\ final' = [final EXCEPT ![f] = partial[f]]
          /\ partial' = [partial EXCEPT ![f] = Absent]
          /\ run' = [run EXCEPT ![p].pc = IF f = NFiles THEN "discard" ELSE @,
                                ![p].file = IF f = NFiles THEN 1 ELSE f + 1,
                                ![p].mine = @ \ {f}, ![p].installed = @ \cup {f}]
      <4>1. ~Goto(p, "undo") BY <2>4 DEF Goto, Run
      <4> QED BY <1>2, <4>1 DEF InstallFile
    <3>2. /\ run'[p].mine = run[p].mine \ {f} /\ run'[p].installed = run[p].installed \cup {f}
          /\ IF f = NFiles THEN run'[p].pc = "discard" /\ run'[p].file = 1
             ELSE run'[p].pc = "install" /\ run'[p].file = f + 1
      BY <2>1, <3>1 DEF Run
    <3>3. partial[f].by = p
      <4>1. f \in run[p].mine BY <2>1 DEF Files
      <4> QED BY <4>1 DEF SoundRun
    <3>4. \A i \in Files : /\ i <= f => final'[i].by = p /\ i \in run'[p].installed
                           /\ i > f => final'[i] = final[i] /\ i \notin run'[p].installed
      <4> SUFFICES ASSUME NEW i \in Files
                   PROVE  /\ i <= f => final'[i].by = p /\ i \in run'[p].installed
                          /\ i > f => final'[i] = final[i] /\ i \notin run'[p].installed
        OBVIOUS
      <4>1. i < f => final[i].by = p /\ i \in run[p].installed
        BY <2>1 DEF KeptInv, FileKept
      <4>2. i > f => i \notin run[p].installed
        BY <2>1 DEF KeptInv, FileKept, Files
      <4>3. (i = f => final'[i] = partial[f]) /\ (i # f => final'[i] = final[i])
        BY <3>1
      <4>4. i < f \/ i = f \/ i > f BY DEF Files
      <4> QED BY <3>2, <3>3, <4>1, <4>2, <4>3, <4>4 DEF Files
    <3>5. NoneLeft(p)'
      <4> SUFFICES ASSUME ~run[p].slipped, NEW i \in Files, partial'[i] # Absent
                   PROVE  i \in run'[p].mine
        BY <2>2 DEF NoneLeft
      <4>1. partial[i] # Absent => i \in run[p].mine BY <2>1 DEF KeptInv, NoneLeft, At
      <4>2. i # f /\ partial'[i] = partial[i] BY <3>1
      <4> QED BY <3>2, <4>1, <4>2
    <3>6. ASSUME NEW i \in Files PROVE FileKept(p, i)'
      <4>1. BackedUp(p, i) /\ (~(i < f) => Vacant(i)) BY <2>1 DEF KeptInv, FileKept
      <4>2. CASE f = NFiles
        <5>1. \A j \in Files : j <= f BY <4>2 DEF Files
        <5>2. AllMine(p)' BY <3>4, <5>1 DEF AllMine
        <5> QED BY <3>2, <4>2, <5>2 DEF FileKept
      <4>3. CASE f # NFiles
        <5>1. (i < f + 1 <=> i <= f) /\ (~(i < f + 1) <=> i > f) BY DEF Files
        <5>2. i > f => Vacant(i)' BY <3>4, <4>1 DEF Vacant, Files
        <5>3. BackedUp(p, i)' BY <2>1, <4>1 DEF BackedUp
        <5> QED BY <3>2, <3>4, <4>3, <5>1, <5>2, <5>3 DEF FileKept
      <4> QED BY <4>2, <4>3
    <3> QED BY <3>5, <3>6 DEF KeptInv
  <2> QED BY <2>3, <2>4
<1>3. CASE Discard(p)
  <2>1. UNCHANGED <<final, partial, before>> /\ run[p].pc = "discard" /\ run[p].mine = {}
    BY <1>3 DEF Discard, At, SoundRun
  <2>2. AllMine(p)' /\ AllMine(p) BY <2>1 DEF KeptInv, FileKept, AllMine, Files
  <2>3. CASE Backups(p) = {}
    <3>1. run'[p] = [Idle EXCEPT !.result = "ok", !.slipped = run[p].slipped] /\ saved' = saved
      BY <1>3, <2>3 DEF Discard, Finish
    <3>2. run'[p].pc = "idle" /\ run'[p].result = "ok" BY <3>1 DEF Idle
    <3>3. \A i \in Files : saved'[p][i] = Absent BY <2>3, <3>1 DEF Backups
    <3>4. NoneLeft(p)' BY <3>2 DEF NoneLeft, At
    <3> QED BY <2>2, <3>2, <3>3, <3>4 DEF KeptInv, FileKept
  <2>4. CASE Backups(p) # {}
    <3>1. /\ run'[p].pc = "discard" /\ run'[p].mine = {}
          /\ run[p].slipped => run'[p].slipped
      BY <1>3, <2>1, <2>4 DEF Discard, Run
    <3>2. NoneLeft(p)' BY <2>1, <3>1 DEF KeptInv, NoneLeft, At
    <3> QED BY <2>2, <3>1, <3>2 DEF KeptInv, FileKept
  <2> QED BY <2>3, <2>4
<1> QED BY <1>1, <1>2, <1>3 DEF Installing

LEMMA KeptEnding ==
    ASSUME BundleInv, NEW p \in Procs, KeptInv(p), Ending(p)
    PROVE  KeptInv(p)'
<1>0. TypeOK /\ SoundRun(p, run[p], partial) BY DEF BundleInv
<1> USE <1>0, KeptTypes, BundleAssumption
<1>1. CASE Undo(p)
  <2> DEFINE f == First(run[p].installed)
  <2>1. UNCHANGED <<partial, saved, orphans, before>> /\ run[p].pc = "undo"
    BY <1>1 DEF Undo, At
  <2>2. CASE run[p].installed = {}
    <3>1. /\ final' = final /\ run'[p].pc = "restore" /\ run'[p].slipped = run[p].slipped
          /\ run'[p].mine = run[p].mine
      BY <1>1, <2>2 DEF Undo, Goto, Run
    <3>2. NoneLeft(p)' BY <2>1, <3>1 DEF KeptInv, NoneLeft, At
    <3>3. ASSUME NEW i \in Files PROVE FileKept(p, i)'
      <4>1. \/ saved[p][i] = Absent /\ Untouched(p, i)
            \/ BackedUp(p, i) /\ (run[p].slipped \/ Vacant(i))
        BY <2>1, <2>2 DEF KeptInv, FileKept
      <4>2. \/ saved[p][i] = Absent /\ Back(p, i)
            \/ saved[p][i] # Absent /\ BackedUp(p, i)
        BY <4>1, ContentFacts DEF BackedUp, Back, Remembered, Untouched, Vacant, Absent, Other
      <4> QED BY <2>1, <3>1, <4>2 DEF FileKept, Back, BackedUp, Remembered, Untouched
    <3> QED BY <3>2, <3>3 DEF KeptInv
  <2>3. CASE run[p].installed # {}
    <3>1. /\ run'[p].pc = "undo" /\ run'[p].mine = run[p].mine
          /\ run'[p].installed = run[p].installed \ {f}
          /\ run[p].slipped => run'[p].slipped
      BY <1>1, <2>1, <2>3 DEF Undo, Run
    <3>2. \/ final' = [final EXCEPT ![f] = Absent]
          \/ final' = final /\ run'[p].slipped
      BY <1>1, <2>3 DEF Undo, Run
    <3>3. NoneLeft(p)' BY <2>1, <3>1 DEF KeptInv, NoneLeft, At
    <3>4. ASSUME NEW i \in Files PROVE FileKept(p, i)'
      <4>1. \/ saved[p][i] = Absent /\ i \notin run[p].installed /\ Untouched(p, i)
            \/ BackedUp(p, i) /\ (i \in run[p].installed \/ run[p].slipped \/ Vacant(i))
        BY <2>1 DEF KeptInv, FileKept
      <4>2. f \in run[p].installed BY <2>3, FirstIn
      <4>3. i # f => final'[i] = final[i] BY <3>2
      <4>4. i = f => run'[p].slipped \/ Vacant(i)' BY <3>2 DEF Vacant
      <4>5. i \in run[p].installed => BackedUp(p, i)' BY <2>1, <4>1 DEF BackedUp
      <4>6. i \notin run[p].installed =>
               \/ saved'[p][i] = Absent /\ i \notin run'[p].installed /\ Untouched(p, i)'
               \/ BackedUp(p, i)' /\ (run'[p].slipped \/ Vacant(i)')
        BY <2>1, <3>1, <4>1, <4>2, <4>3 DEF BackedUp, Untouched, Vacant
      <4> HIDE DEF f
      <4> QED BY <3>1, <4>2, <4>4, <4>5, <4>6 DEF FileKept
    <3> QED BY <3>3, <3>4 DEF KeptInv
  <2> QED BY <2>2, <2>3
<1>2. CASE Restore(p)
  <2> DEFINE f == First(Backups(p))
  <2>1. UNCHANGED <<partial, before>> /\ run[p].pc = "restore"
    BY <1>2 DEF Restore, At
  <2>2. CASE Backups(p) = {}
    <3>1. /\ UNCHANGED <<final, saved, orphans>> /\ run'[p].pc = "cleanup"
          /\ run'[p].slipped = run[p].slipped /\ run'[p].mine = run[p].mine
      BY <1>2, <2>2 DEF Restore, Goto, Run
    <3>2. NoneLeft(p)' BY <2>1, <3>1 DEF KeptInv, NoneLeft, At
    <3>3. ASSUME NEW i \in Files PROVE FileKept(p, i)'
      <4>1. saved[p][i] = Absent /\ Back(p, i) BY <2>1, <2>2 DEF KeptInv, FileKept, Backups
      <4> QED BY <2>1, <3>1, <4>1 DEF FileKept, Back, Remembered, Untouched
    <3> QED BY <3>2, <3>3 DEF KeptInv
  <2>3. CASE Backups(p) # {}
    <3>0. f \in Backups(p) /\ f \in Files
      <4>1. Backups(p) \subseteq Files BY DEF Backups
      <4> QED BY <2>3, <4>1, FirstIn
    <3>1. /\ run'[p].pc = "restore" /\ run'[p].mine = run[p].mine
          /\ run[p].slipped => run'[p].slipped
      BY <1>2, <2>1, <2>3 DEF Restore, Run
    <3>2. /\ saved' = [saved EXCEPT ![p][f] = Absent]
          /\ orphans \subseteq orphans'
          /\ \/ final' = [final EXCEPT ![f] = saved[p][f]]
             \/ final' = final /\ run'[p].slipped /\ <<f, saved[p][f]>> \in orphans'
      BY <1>2, <2>3 DEF Restore, Run
    <3>3. NoneLeft(p)' BY <2>1, <3>1 DEF KeptInv, NoneLeft, At
    <3>4. ASSUME NEW i \in Files PROVE FileKept(p, i)'
      <4>1. \/ saved[p][i] = Absent /\ Back(p, i)
            \/ saved[p][i] # Absent /\ BackedUp(p, i)
        BY <2>1 DEF KeptInv, FileKept
      <4> HIDE DEF f
      <4>2. CASE i = f
        <5>1. saved'[p][i] = Absent BY <3>2, <4>2
        <5>2. BackedUp(p, i) BY <3>0, <4>1, <4>2 DEF Backups
        <5>3. final'[i] = saved[p][i] \/ (run'[p].slipped /\ <<i, saved[p][i]>> \in orphans')
          BY <3>2, <4>2
        <5>4. Back(p, i)' BY <2>1, <5>2, <5>3 DEF Back, BackedUp, Untouched, Remembered
        <5> QED BY <3>1, <5>1, <5>4 DEF FileKept
      <4>3. CASE i # f
        <5>1. saved'[p][i] = saved[p][i] /\ final'[i] = final[i] BY <3>2, <4>3
        <5>2. Back(p, i) => Back(p, i)'
          BY <2>1, <3>1, <3>2, <5>1 DEF Back, Untouched, Remembered
        <5>3. BackedUp(p, i) => BackedUp(p, i)' BY <2>1, <5>1 DEF BackedUp
        <5> QED BY <3>1, <4>1, <5>1, <5>2, <5>3 DEF FileKept
      <4> QED BY <4>2, <4>3
    <3> QED BY <3>3, <3>4 DEF KeptInv
  <2> QED BY <2>2, <2>3
<1>3. CASE CleanUp(p)
  <2> DEFINE f == First(run[p].mine)
  <2>1. UNCHANGED <<final, saved, orphans, before>> /\ run[p].pc = "cleanup"
    BY <1>3 DEF CleanUp, At
  <2>2. \A i \in Files : saved[p][i] = Absent /\ Back(p, i)
    BY <2>1 DEF KeptInv, FileKept
  <2>3. \A i \in Files : partial[i] # Absent => run[p].slipped \/ i \in run[p].mine
    BY <2>1 DEF KeptInv, NoneLeft, At
  <2>4. CASE run[p].mine = {}
    <3>1. /\ run'[p].pc = "idle" /\ run'[p].result = "error" /\ partial' = partial
          /\ run'[p].slipped = run[p].slipped
      <4>1. run'[p] = [Idle EXCEPT !.result = "error", !.slipped = run[p].slipped]
            /\ partial' = partial
        BY <1>3, <2>4 DEF CleanUp, Finish
      <4> QED BY <4>1 DEF Idle
    <3>2. NoneLeft(p)' BY <2>3, <2>4, <3>1 DEF NoneLeft
    <3>3. \A i \in Files : Back(p, i)'
      BY <2>1, <2>2, <3>1 DEF Back, Untouched, Remembered
    <3> QED BY <2>1, <2>2, <3>1, <3>2, <3>3 DEF KeptInv, FileKept
  <2>5. CASE run[p].mine # {}
    <3>1. /\ run'[p].pc = "cleanup" /\ run'[p].mine = run[p].mine \ {f}
          /\ run[p].slipped => run'[p].slipped
      BY <1>3, <2>1, <2>5 DEF CleanUp, Run
    <3>2. \/ partial' = [partial EXCEPT ![f] = Absent]
          \/ partial' = partial /\ run'[p].slipped
      BY <1>3, <2>5 DEF CleanUp, Run
    <3> HIDE DEF f
    <3>3. NoneLeft(p)'
      <4> SUFFICES ASSUME ~run'[p].slipped, NEW i \in Files, partial'[i] # Absent
                   PROVE  i \in run'[p].mine
        BY DEF NoneLeft
      <4>1. partial'[i] = partial[i] /\ i # f BY <3>2
      <4> QED BY <2>3, <3>1, <4>1
    <3>4. \A i \in Files : Back(p, i)'
      BY <2>1, <2>2, <3>1 DEF Back, Untouched, Remembered
    <3> QED BY <2>1, <2>2, <3>1, <3>3, <3>4 DEF KeptInv, FileKept
  <2> QED BY <2>4, <2>5
<1> QED BY <1>1, <1>2, <1>3 DEF Ending

LEMMA KeptCrash ==
    ASSUME BundleInv, NEW p \in Procs, KeptInv(p), Crash(p)
    PROVE  KeptInv(p)'
<1>0. TypeOK /\ SoundRun(p, run[p], partial) BY DEF BundleInv
<1> USE <1>0, KeptTypes, BundleAssumption
<1>1. /\ UNCHANGED <<final, partial, before>> /\ run[p].pc # "idle"
      /\ run'[p].pc = "idle" /\ run'[p].result = "stopped"
  BY DEF Crash, Finish, Idle, At
<1>2. /\ \A i \in Files : saved'[p][i] = Absent
      /\ orphans \subseteq orphans'
      /\ \A i \in Files : saved[p][i] # Absent => <<i, saved[p][i]>> \in orphans'
  BY DEF Crash, Backups
<1>3. NoneLeft(p)' BY <1>1 DEF NoneLeft, At
<1>4. ASSUME NEW i \in Files PROVE FileKept(p, i)'
  <2>1. BackedUp(p, i) => Remembered(p, i)'
    BY <1>1, <1>2 DEF BackedUp, Remembered
  <2>2. Untouched(p, i) => Untouched(p, i)' BY <1>1 DEF Untouched
  <2>3. Remembered(p, i) => Remembered(p, i)' BY <1>1, <1>2 DEF Remembered
  <2>4. AllMine(p) => AllMine(p)' BY <1>1 DEF AllMine
  <2>5. run[p].pc \in PCs \ {"idle"} BY <1>1 DEF Run
  <2>6. Untouched(p, i) \/ BackedUp(p, i) \/ Remembered(p, i) \/ AllMine(p)
    BY <2>5 DEF KeptInv, FileKept, PCs, Back
  <2> QED BY <1>1, <1>2, <2>1, <2>2, <2>3, <2>4, <2>6 DEF FileKept
<1> QED BY <1>3, <1>4 DEF KeptInv

LEMMA KeptOutside ==
    ASSUME BundleInv, NEW p \in Procs, KeptInv(p), NEW j \in Files, Tidy(j) \/ Foreign(j)
    PROVE  KeptInv(p)'
<1>0. TypeOK BY DEF BundleInv
<1> USE <1>0, KeptTypes, BundleAssumption
<1>1. UNCHANGED <<saved, orphans, run, before>> BY DEF Tidy, Foreign, bounds
<1>2. CASE Tidy(j)
  <2>1. final' = final /\ partial' = [partial EXCEPT ![j] = Absent] BY <1>2 DEF Tidy
  <2>2. NoneLeft(p)' BY <1>1, <2>1 DEF KeptInv, NoneLeft, At
  <2>3. \A i \in Files : FileKept(p, i)'
    BY <1>1, <2>1 DEF KeptInv, FileKept, AllMine, Untouched, BackedUp, Vacant, Remembered, Back
  <2> QED BY <2>2, <2>3 DEF KeptInv
<1>3. CASE Foreign(j)
  <2>1. /\ partial' = partial /\ final[j] = Absent /\ final'[j] = Other
        /\ \A i \in Files : i # j => final'[i] = final[i]
    BY <1>3 DEF Foreign
  <2>2. NoneLeft(p)' BY <1>1, <2>1 DEF KeptInv, NoneLeft, At
  <2>3. ASSUME NEW i \in Files PROVE FileKept(p, i)'
    <3>1. /\ Untouched(p, i) => Untouched(p, i)'
          /\ Vacant(i) => Vacant(i)'
          /\ BackedUp(p, i) => BackedUp(p, i)'
          /\ Remembered(p, i) => Remembered(p, i)'
      BY <1>1, <2>1 DEF Untouched, Vacant, BackedUp, Remembered
    <3>2. Back(p, i) => Back(p, i)' BY <1>1, <3>1 DEF Back
    <3>3. ~AllMine(p) BY <2>1, ContentFacts DEF AllMine
    <3>4. final[i].by = p => final'[i].by = p BY <2>1, ContentFacts
    <3> QED BY <1>1, <3>1, <3>2, <3>3, <3>4 DEF KeptInv, FileKept
  <2> QED BY <2>2, <2>3 DEF KeptInv
<1> QED BY <1>2, <1>3

LEMMA KeptStarting ==
    ASSUME BundleInv, NEW p \in Procs, KeptInv(p), Starting(p)
    PROVE  KeptInv(p)'
<1>0. TypeOK BY DEF BundleInv
<1> USE <1>0, KeptTypes, BundleAssumption
<1> PICK ow \in Overwrites, flaw \in Flaws : Start(p, ow, flaw) BY DEF Starting
<1>1. /\ UNCHANGED <<final, partial, saved, orphans>> /\ run[p].pc = "idle"
      /\ before'[p] = final
      /\ \A i \in Files : partial[i] = Absent /\ (ow \/ final[i] = Absent)
  BY DEF Start, disk, At
<1>2. /\ run'[p].pc = "stat" /\ run'[p].ow = ow /\ run'[p].installed = {}
  BY DEF Start, Idle
<1>3. NoneLeft(p)' BY <1>1 DEF NoneLeft
<1>4. \A i \in Files : FileKept(p, i)'
  BY <1>1, <1>2 DEF KeptInv, FileKept, Untouched
<1> QED BY <1>3, <1>4 DEF KeptInv

LEMMA KeptInit == ASSUME NEW p \in Procs, Init PROVE KeptInv(p)
<1>1. run[p] = Idle /\ before[p] = final /\ \A i \in Files : saved[p][i] = Absent
  BY DEF Init
<1>2. Idle.pc = "idle" /\ Idle.result = "none" BY DEF Idle
<1> QED BY <1>1, <1>2 DEF KeptInv, NoneLeft, At, FileKept, Back, Untouched

LEMMA KeptSteps ==
    ASSUME NEW p, Procs = {p}
    PROVE  BundleInv /\ KeptInv(p) /\ [Next]_vars => KeptInv(p)'
<1> SUFFICES ASSUME BundleInv, KeptInv(p), [Next]_vars PROVE KeptInv(p)' OBVIOUS
<1>0. p \in Procs /\ \A q \in Procs : q = p OBVIOUS
<1>1. CASE UNCHANGED vars
  <2>1. UNCHANGED <<final, partial, saved, orphans, run, before>> BY <1>1 DEF vars, disk
  <2> QED BY <2>1 DEF KeptInv, NoneLeft, At, FileKept, AllMine, Untouched, BackedUp, Vacant,
                      Remembered, Back
<1>2. CASE Next
  BY <1>0, <1>2, KeptStarting, KeptDownloading, KeptInstalling, KeptEnding, KeptCrash, KeptOutside
     DEF Next
<1> QED BY <1>1, <1>2

\* One receive at a time: what a destination held when the receive began is there, or under a
\* backup name, until every file is installed, wherever the rollback fails or the process stops.
THEOREM BundleNothingLost == ASSUME NEW p, Procs = {p} PROVE Spec => []NothingLost
<1>0. p \in Procs /\ \A q \in Procs : q = p OBVIOUS
<1>1. BundleInv /\ KeptInv(p) => NothingLost
  <2> SUFFICES ASSUME BundleInv, KeptInv(p), NEW i \in Files,
                      before[p][i] \notin {Absent, final[i], saved[p][i]},
                      <<i, before[p][i]>> \notin orphans
               PROVE  (At(p, "discard") \/ run[p].result \in {"ok", "stopped"}) /\ AllMine(p)
    BY <1>0 DEF NothingLost, AllMine
  <2>1. run[p].pc \in PCs /\ run[p].result \in Results BY <1>0, RunFields DEF BundleInv
  <2>2. ~Untouched(p, i) /\ ~BackedUp(p, i) /\ ~Remembered(p, i) /\ ~Back(p, i)
    BY DEF Untouched, BackedUp, Remembered, Back
  <2>3. FileKept(p, i) BY DEF KeptInv
  <2> QED BY <2>1, <2>2, <2>3 DEF FileKept, PCs, Results, At
<1> QED BY <1>0, <1>1, InitKeeps, StepsKeep, KeptInit, KeptSteps, PTL DEF Spec

\* One receive at a time: success means every file is installed, and an error that everything
\* is as it was, unless an operation of the rollback failed itself.
THEOREM BundleAllOrNothing == ASSUME NEW p, Procs = {p} PROVE Spec => []AllOrNothing
<1>0. p \in Procs /\ \A q \in Procs : q = p OBVIOUS
<1>1. BundleInv /\ KeptInv(p) => AllOrNothing
  <2> SUFFICES ASSUME BundleInv, KeptInv(p), At(p, "idle"), ~run[p].slipped
               PROVE  /\ run[p].result = "ok" => AllMine(p)
                      /\ run[p].result = "error" =>
                           \A i \in Files : partial[i] = Absent /\ Untouched(p, i)
    BY <1>0 DEF AllOrNothing, AllMine, Untouched
  <2>1. run[p].mine = {} BY <1>0 DEF BundleInv, SoundRun, At
  <2>2. run[p].result = "error" => \A i \in Files : partial[i] = Absent
    BY <2>1 DEF KeptInv, NoneLeft
  <2>3. 1 \in Files BY BundleAssumption DEF Files
  <2> QED BY <2>2, <2>3 DEF KeptInv, FileKept, At, Back
<1> QED BY <1>0, <1>1, InitKeeps, StepsKeep, KeptInit, KeptSteps, PTL DEF Spec
(***************************************************************************)
(* One receive at a time keeps BundlePromise.  Files are installed one by   *)
(* one, and the promise says at once: the last one stands for all of them.  *)
(* Until then a bundle counts as there only if an earlier receive left it,  *)
(* and each file of it is where no rollback reaches.                        *)
(***************************************************************************)

\* What an earlier receive left of file i is under a backup name, or in place for good.
Old(p, i) ==
    \/ Whole(i, saved[p][i])
    \/ \E o \in orphans : o[1] = i /\ Whole(i, o[2])
    \/ saved[p][i] = Absent /\ i \notin run[p].installed /\ Whole(i, final[i])

\* No operation of a rollback fails before there is one; it never undoes the last file, and
\* what it puts back replaces no file of a bundle.
RollbackInv(p) ==
    LET r == run[p] IN
    /\ r.pc \in {"stat", "create", "open", "read", "verify", "trailing", "backup", "install"}
          => ~r.slipped
    /\ r.pc = "undo" => NFiles \notin r.installed
    /\ r.pc = "restore" => r.installed = {}
    /\ r.pc \in {"undo", "restore"} /\ saved[p][NFiles] # Absent => Vacant(NFiles)

PromiseInv(p) ==
    /\ BundleInv /\ KeptInv(p) /\ RollbackInv(p)
    /\ run[p].pc # "discard" /\ Held(NFiles) => \A i \in Files : Old(p, i)

LEMMA LastFile == NFiles \in Files /\ \A i \in Files : i <= NFiles
  BY BundleAssumption DEF Files

LEMMA NotWhole ==
    /\ \A i \in Files : ~Whole(i, Absent) /\ ~Whole(i, Other)
    /\ \A i \in Files : Vacant(i) => ~Whole(i, final[i])
  BY BundleAssumption DEF Whole, Vacant, Absent, Other

\* Being there is a matter of the last file, and of all of them once it is in place.
LEMMA LastStandsForAll ==
    ASSUME NEW p, Procs = {p}
    PROVE  PromiseInv(p) => /\ AllHeld <=> Held(NFiles)
                            /\ run[p].pc = "discard" => AllHeld
<1> SUFFICES ASSUME PromiseInv(p)
             PROVE  (AllHeld <=> Held(NFiles)) /\ (run[p].pc = "discard" => AllHeld)
  OBVIOUS
<1>1. \A i \in Files : Old(p, i) => Held(i) BY DEF Old, Held
<1>2. run[p].pc = "discard" => AllHeld
  <2> SUFFICES ASSUME run[p].pc = "discard", NEW i \in Files PROVE Held(i) BY DEF AllHeld
  <2>1. final[i].by = p BY DEF PromiseInv, KeptInv, FileKept, AllMine
  <2>2. Verified(i, final[i]) BY DEF PromiseInv, BundleInv, OnlyVerifiedInstalled
  <2> QED BY <2>1, <2>2 DEF Held, Whole, Verified
<1> QED BY <1>1, <1>2, LastFile DEF AllHeld, PromiseInv

LEMMA LastStandsNext ==
    ASSUME NEW p, Procs = {p}
    PROVE  (PromiseInv(p) => /\ AllHeld <=> Held(NFiles)
                             /\ run[p].pc = "discard" => AllHeld)'
  BY LastStandsForAll, PTL

\* A step that installs no last file and keeps what is old keeps the invariant, and what the
\* promise says of the files.
LEMMA HeldStays ==
    ASSUME NEW p, Procs = {p}, PromiseInv(p), BundleInv', KeptInv(p)', RollbackInv(p)',
           run[p].pc # "discard",
           Held(NFiles)' => Held(NFiles),
           \A i \in Files : Old(p, i) => Old(p, i)'
    PROVE  PromiseInv(p)' /\ AllHeld' = AllHeld
<1>1. PromiseInv(p)' BY DEF PromiseInv
<1>2. AllHeld => Held(NFiles)'
  <2>1. AllHeld => \A i \in Files : Old(p, i)' BY LastStandsForAll DEF PromiseInv
  <2>2. Old(p, NFiles)' => Held(NFiles)' BY DEF Old, Held
  <2> QED BY <2>1, <2>2, LastFile
<1>3. Held(NFiles)' => AllHeld BY LastStandsForAll
<1>4. AllHeld' <=> Held(NFiles)' BY <1>1, LastStandsNext
<1>5. AllHeld \in BOOLEAN /\ AllHeld' \in BOOLEAN BY DEF AllHeld
<1> QED BY <1>1, <1>2, <1>3, <1>4, <1>5

\* A step that moves no file to or from a name the promise looks at.
LEMMA OldStays ==
    ASSUME NEW p, Procs = {p}, UNCHANGED <<final, saved, orphans>>, NEW i \in Files,
           run'[p].installed = run[p].installed \/ run'[p].installed = {}
    PROVE  /\ Old(p, i) => Old(p, i)'
           /\ Held(i)' <=> Held(i)
  BY DEF Old, Held, Whole
LEMMA ViewOf ==
    ASSUME NEW p, Procs = {p}
    PROVE  /\ Stage = IF run[p].pc = "discard" THEN "placed"
                      ELSE IF run[p].pc # "idle" THEN "fetching" ELSE "none"
           /\ Outcome = {run[p].result}
  BY DEF Stage, Outcome, At

LEMMA ViewOfNext ==
    ASSUME NEW p, Procs = {p}
    PROVE  (/\ Stage = IF run[p].pc = "discard" THEN "placed"
                       ELSE IF run[p].pc # "idle" THEN "fetching" ELSE "none"
            /\ Outcome = {run[p].result})'
  BY ViewOf, PTL

\* What the promise sees of a step while files are fetched, or while a receive is undone.
Quiet == UNCHANGED <<Stage, PartsThere, AllHeld, Outcome>>

LEMMA QuietWhen ==
    ASSUME NEW p, Procs = {p}, run[p].pc \notin {"idle", "discard"},
           run'[p].pc \notin {"idle", "discard"}, run'[p].result = run[p].result,
           PartsThere' = PartsThere, AllHeld' = AllHeld
    PROVE  Quiet
<1>1. Stage = "fetching" /\ Stage' = "fetching" /\ Outcome' = Outcome BY ViewOf, ViewOfNext
<1> QED BY <1>1 DEF Quiet

LEMMA PromiseDownloading ==
    ASSUME NEW p, Procs = {p}, PromiseInv(p), BundleInv', KeptInv(p)', Downloading(p)
    PROVE  PromiseInv(p)' /\ (Promise!Fill \/ Quiet)
<1>0. p \in Procs /\ TypeOK /\ SoundRun(p, run[p], partial) BY DEF PromiseInv, BundleInv
<1> USE <1>0, KeptTypes
<1> DEFINE Reading == {"stat", "create", "open", "read", "verify", "trailing"}
<1>1. /\ UNCHANGED <<final, saved, orphans>> /\ run[p].pc \in Reading
      /\ run'[p].pc \in Reading \cup {"backup", "install", "cleanup"}
      /\ run'[p].installed = run[p].installed
      /\ run'[p].slipped = run[p].slipped /\ run'[p].result = run[p].result
  <2>1. CASE Stat(p) \/ Open(p) \/ ChunkRefused(p) \/ BodyBreaks(p)
    <3>1. UNCHANGED <<final, saved, orphans>> /\ run[p].pc \in Reading
      BY <2>1 DEF Stat, Open, ChunkRefused, BodyBreaks, disk, At
    <3> QED BY <2>1, <3>1 DEF Stat, Open, ChunkRefused, BodyBreaks, Goto, Run
  <2>2. CASE CreatePartial(p) \/ ReadChunk(p) \/ ReadGivesUp(p)
    <3>1. UNCHANGED <<final, saved, orphans>> /\ run[p].pc \in Reading
      BY <2>2 DEF CreatePartial, ReadChunk, ReadGivesUp, At
    <3> QED BY <2>2, <3>1 DEF CreatePartial, ReadChunk, ReadGivesUp, Goto, Run
  <2>3. CASE VerifyFile(p) \/ VerifyAll(p)
    <3>1. UNCHANGED <<final, saved, orphans>> /\ run[p].pc \in Reading
      BY <2>3 DEF VerifyFile, VerifyAll, disk, At
    <3> QED BY <2>3, <3>1 DEF VerifyFile, VerifyAll, Goto, Run
  <2> QED BY <2>1, <2>2, <2>3 DEF Downloading
<1>2. RollbackInv(p)' BY <1>1 DEF PromiseInv, RollbackInv
<1>3. PromiseInv(p)' /\ AllHeld' = AllHeld BY <1>1, <1>2, OldStays, HeldStays, LastFile
<1>4. Stage = "fetching" /\ Stage' = "fetching" /\ Outcome' = Outcome
  BY <1>1, ViewOf, ViewOfNext
<1>5. CASE partial' = partial
  <2>1. PartsThere' = PartsThere BY <1>5 DEF PartsThere
  <2> QED BY <1>3, <1>4, <2>1 DEF Quiet
<1>6. CASE partial' # partial
  <2>1. PartsThere'
    <3> SUFFICES \E i \in Files : partial'[i].by = p BY ContentFacts DEF PartsThere
    <3>1. run[p].file \in Files /\ SoundRun(p, run'[p], partial')
      BY DEF BundleInv
    <3>2. run[p].file \in run'[p].mine
      <4>1. CASE CreatePartial(p) BY <1>6, <4>1 DEF CreatePartial, Run
      <4>2. CASE ReadChunk(p) \/ ReadGivesUp(p)
        <5>1. run'[p].mine = run[p].mine BY <4>2 DEF ReadChunk, ReadGivesUp, Goto, Run
        <5>2. run[p].mine = Files BY <4>2 DEF ReadChunk, ReadGivesUp, At, SoundRun
        <5> QED BY <5>1, <5>2
      <4> QED BY <1>6, <4>1, <4>2 DEF Downloading, Stat, Open, ChunkRefused, BodyBreaks,
                                      VerifyFile, VerifyAll, disk
    <3> QED BY <3>1, <3>2 DEF SoundRun
  <2>2. PartsThere' = TRUE BY <2>1 DEF PartsThere
  <2> QED BY <1>3, <1>4, <2>2 DEF Promise!Fill
<1> QED BY <1>5, <1>6

LEMMA PromiseBackUp ==
    ASSUME NEW p, Procs = {p}, PromiseInv(p), BundleInv', KeptInv(p)', BackUp(p)
    PROVE  PromiseInv(p)' /\ Quiet
<1>0. p \in Procs /\ TypeOK /\ SoundRun(p, run[p], partial) BY DEF PromiseInv, BundleInv
<1> USE <1>0, KeptTypes
<1> DEFINE f == run[p].file
<1>1. /\ UNCHANGED <<partial, orphans>> /\ run[p].pc = "backup" /\ ~run[p].slipped
      /\ NFiles \notin run[p].installed
      /\ \A i \in Files : ~(i < f) => saved[p][i] = Absent
  BY LastFile DEF BackUp, At, PromiseInv, RollbackInv, KeptInv, FileKept
<1>2. /\ run'[p].pc \in {"backup", "install", "undo"} /\ run'[p].slipped = run[p].slipped
      /\ run'[p].installed = run[p].installed /\ run'[p].result = run[p].result
  BY <1>1 DEF BackUp, Goto, Run
<1>3. \/ /\ saved' = [saved EXCEPT ![p][f] = final[f]]
         /\ final' = [final EXCEPT ![f] = Absent] /\ run'[p].pc # "undo"
      \/ run'[p].pc = "undo" /\ UNCHANGED <<final, saved>>
  BY <1>1 DEF BackUp, Goto, Run
<1>4. CASE run'[p].pc = "undo" /\ UNCHANGED <<final, saved>>
  <2>1. ~(NFiles < f) BY LastFile, BundleAssumption DEF Files
  <2>2. saved'[p][NFiles] = Absent BY <1>1, <1>4, <2>1, LastFile
  <2>3. RollbackInv(p)' BY <1>1, <1>2, <1>4, <2>2 DEF RollbackInv
  <2>4. PromiseInv(p)' /\ AllHeld' = AllHeld
    BY <1>1, <1>2, <1>4, <2>3, OldStays, HeldStays, LastFile
  <2>5. PartsThere' = PartsThere BY <1>1 DEF PartsThere
  <2> QED BY <1>1, <1>2, <1>4, <2>4, <2>5, QuietWhen
<1>5. CASE /\ saved' = [saved EXCEPT ![p][f] = final[f]]
           /\ final' = [final EXCEPT ![f] = Absent] /\ run'[p].pc # "undo"
  <2>1. RollbackInv(p)' BY <1>1, <1>2, <1>5 DEF RollbackInv
  <2>2. ASSUME NEW i \in Files PROVE (Old(p, i) => Old(p, i)') /\ (Held(i)' => Held(i))
    <3>1. CASE i = f
      <4>1. saved[p][i] = Absent /\ saved'[p][i] = final[i] /\ final'[i] = Absent
        BY <1>1, <1>5, <3>1 DEF Files
      <4> QED BY <1>1, <4>1, NotWhole DEF Old, Held, Whole
    <3>2. CASE i # f
      <4>1. saved'[p][i] = saved[p][i] /\ final'[i] = final[i] BY <1>5, <3>2
      <4> QED BY <1>1, <1>2, <4>1 DEF Old, Held, Whole
    <3> QED BY <3>1, <3>2
  <2>3. PromiseInv(p)' /\ AllHeld' = AllHeld BY <1>1, <2>1, <2>2, HeldStays, LastFile
  <2>4. PartsThere' = PartsThere BY <1>1 DEF PartsThere
  <2> QED BY <1>1, <1>2, <1>5, <2>3, <2>4, QuietWhen
<1> QED BY <1>2, <1>3, <1>4, <1>5

LEMMA PromiseInstall ==
    ASSUME NEW p, Procs = {p}, PromiseInv(p), BundleInv', KeptInv(p)', InstallFile(p)
    PROVE  PromiseInv(p)' /\ (Promise!Place \/ Quiet)
<1>0. p \in Procs /\ TypeOK /\ SoundRun(p, run[p], partial) BY DEF PromiseInv, BundleInv
<1> USE <1>0, KeptTypes
<1> DEFINE f == run[p].file
<1>1. /\ UNCHANGED <<saved, orphans>> /\ run[p].pc = "install" /\ ~run[p].slipped
      /\ run[p].mine = f..NFiles
      /\ \A i \in Files : ~(i < f) => Vacant(i) /\ i \notin run[p].installed
  BY DEF InstallFile, At, PromiseInv, RollbackInv, KeptInv, FileKept, SoundRun
<1>2. f \in Files /\ f \in Nat /\ ~(NFiles < f) /\ ~(f < f)
  BY LastFile, BundleAssumption DEF Files
<1>3. CASE run' = [run EXCEPT ![p].pc = "undo"] /\ UNCHANGED <<final, partial>>
  <2>1. /\ run'[p].pc = "undo" /\ run'[p].slipped = run[p].slipped
        /\ run'[p].installed = run[p].installed /\ run'[p].result = run[p].result
    BY <1>3 DEF Run
  <2>2. Vacant(NFiles)' BY <1>1, <1>2, <1>3, LastFile DEF Vacant
  <2>3. RollbackInv(p)' BY <1>1, <1>2, <2>1, <2>2, LastFile DEF RollbackInv
  <2>4. PromiseInv(p)' /\ AllHeld' = AllHeld
    BY <1>1, <1>3, <2>1, <2>3, OldStays, HeldStays, LastFile
  <2>5. PartsThere' = PartsThere BY <1>3 DEF PartsThere
  <2> QED BY <1>1, <1>3, <2>1, <2>4, <2>5, QuietWhen
<1>4. CASE ~(run' = [run EXCEPT ![p].pc = "undo"] /\ UNCHANGED <<final, partial>>)
  <2>1. /\ final' = [final EXCEPT ![f] = partial[f]]
        /\ partial' = [partial EXCEPT ![f] = Absent]
        /\ run'[p].pc = IF f = NFiles THEN "discard" ELSE "install"
        /\ run'[p].mine = run[p].mine \ {f} /\ run'[p].installed = run[p].installed \cup {f}
        /\ run'[p].slipped = run[p].slipped /\ run'[p].result = run[p].result
    BY <1>1, <1>4 DEF InstallFile, Goto, Run
  <2>2. RollbackInv(p)' BY <1>1, <2>1 DEF RollbackInv
  <2>3. CASE f # NFiles
    <3>1. ASSUME NEW i \in Files PROVE Old(p, i) => Old(p, i)'
      <4>1. CASE i = f BY <1>1, <1>2, <4>1, NotWhole DEF Old, Whole
      <4>2. CASE i # f BY <1>1, <2>1, <4>2 DEF Old, Whole
      <4> QED BY <4>1, <4>2
    <3>2. Held(NFiles)' => Held(NFiles) BY <1>1, <2>1, <2>3, LastFile DEF Held, Whole
    <3>3. PromiseInv(p)' /\ AllHeld' = AllHeld BY <1>1, <2>2, <3>1, <3>2, HeldStays
    <3>4. NFiles \in run[p].mine /\ partial'[NFiles] = partial[NFiles]
      BY <1>1, <1>2, <2>1, <2>3, LastFile, BundleAssumption
    <3>5. partial[NFiles] # Absent BY <3>4, ContentFacts DEF SoundRun
    <3>6. PartsThere' = PartsThere BY <3>4, <3>5, LastFile DEF PartsThere
    <3> QED BY <1>1, <2>1, <2>3, <3>3, <3>6, QuietWhen
  <2>4. CASE f = NFiles
    <3>1. PromiseInv(p)' BY <2>1, <2>2, <2>4 DEF PromiseInv
    <3>2. AllHeld' = TRUE BY <2>1, <2>4, <3>1, LastStandsNext DEF AllHeld
    <3>3. run[p].mine = {f} BY <1>1, <1>2, <2>4
    <3>4. partial[f] # Absent BY <3>3, ContentFacts DEF SoundRun
    <3>5. PartsThere = TRUE BY <1>2, <3>4 DEF PartsThere
    <3>6. PartsThere' = FALSE BY <1>1, <2>1, <2>4, <3>3 DEF PartsThere, KeptInv, NoneLeft, At
    <3> QED BY <1>1, <2>1, <2>4, <3>1, <3>2, <3>5, <3>6, ViewOf, ViewOfNext DEF Promise!Place
  <2> QED BY <2>3, <2>4
<1> QED BY <1>3, <1>4

\* A receive that has installed every file: each is in place for good.
LEMMA PlacedForGood ==
    ASSUME NEW p, Procs = {p}, PromiseInv(p), run[p].pc = "discard", final' = final,
           run'[p].pc = "idle", run'[p].installed = {},
           \A i \in Files : saved'[p][i] = Absent,
           BundleInv', KeptInv(p)'
    PROVE  PromiseInv(p)' /\ AllHeld = TRUE /\ AllHeld' = TRUE
<1>1. \A i \in Files : Whole(i, final[i])
  <2>1. \A i \in Files : final[i].by = p /\ Verified(i, final[i])
    BY DEF PromiseInv, KeptInv, FileKept, AllMine, BundleInv, OnlyVerifiedInstalled
  <2> QED BY <2>1 DEF Whole, Verified
<1>2. \A i \in Files : Old(p, i)' BY <1>1 DEF Old, Whole
<1>3. RollbackInv(p)' BY DEF RollbackInv
<1>4. AllHeld /\ AllHeld' BY <1>1 DEF AllHeld, Held, Whole
<1> QED BY <1>2, <1>3, <1>4 DEF PromiseInv, AllHeld

LEMMA PromiseDiscard ==
    ASSUME NEW p, Procs = {p}, PromiseInv(p), BundleInv', KeptInv(p)', Discard(p)
    PROVE  PromiseInv(p)' /\ (Promise!Succeed \/ Quiet)
<1>0. p \in Procs /\ TypeOK BY DEF PromiseInv, BundleInv
<1> USE <1>0, KeptTypes
<1>1. UNCHANGED <<final, partial>> /\ run[p].pc = "discard" BY DEF Discard, At
<1>2. PartsThere' = PartsThere BY <1>1 DEF PartsThere
<1>3. CASE Backups(p) = {}
  <2>1. run' = [run EXCEPT ![p] = [Idle EXCEPT !.result = "ok", !.slipped = run[p].slipped]]
        /\ saved' = saved
    BY <1>3 DEF Discard, Finish
  <2>2. run'[p].pc = "idle" /\ run'[p].installed = {} /\ run'[p].result = "ok"
    BY <2>1 DEF Idle
  <2>3. \A i \in Files : saved'[p][i] = Absent BY <1>3, <2>1 DEF Backups
  <2>4. PromiseInv(p)' /\ AllHeld' = AllHeld BY <1>1, <2>2, <2>3, PlacedForGood
  <2>5. Stage = "placed" /\ Stage' = "none" /\ Outcome' = {"ok"}
    BY <1>1, <2>2, ViewOf, ViewOfNext
  <2> QED BY <1>2, <2>4, <2>5 DEF Promise!Succeed
<1>4. CASE Backups(p) # {}
  <2>1. run'[p].pc = "discard" /\ run'[p].result = run[p].result
    BY <1>1, <1>4 DEF Discard, Run
  <2>2. PromiseInv(p)' BY <2>1 DEF PromiseInv, RollbackInv
  <2>3. AllHeld /\ AllHeld' BY <1>1, <2>1, <2>2, LastStandsForAll, LastStandsNext
  <2>4. AllHeld' = AllHeld BY <2>3 DEF AllHeld
  <2>5. Stage' = Stage /\ Outcome' = Outcome BY <1>1, <2>1, ViewOf, ViewOfNext
  <2> QED BY <1>2, <2>2, <2>4, <2>5 DEF Quiet
<1> QED BY <1>3, <1>4

LEMMA PromiseUndo ==
    ASSUME NEW p, Procs = {p}, PromiseInv(p), BundleInv', KeptInv(p)', Undo(p)
    PROVE  PromiseInv(p)' /\ Quiet
<1>0. p \in Procs /\ TypeOK BY DEF PromiseInv, BundleInv
<1> USE <1>0, KeptTypes
<1> DEFINE f == First(run[p].installed)
<1>1. /\ UNCHANGED <<partial, saved, orphans>> /\ run[p].pc = "undo"
      /\ NFiles \notin run[p].installed
      /\ saved[p][NFiles] # Absent => Vacant(NFiles)
  BY DEF Undo, At, PromiseInv, RollbackInv
<1>2. PartsThere' = PartsThere BY <1>1 DEF PartsThere
<1>3. CASE run[p].installed = {}
  <2>1. /\ final' = final /\ run'[p].pc = "restore" /\ run'[p].installed = {}
        /\ run'[p].result = run[p].result
    BY <1>3 DEF Undo, Goto, Run
  <2>2. RollbackInv(p)' BY <1>1, <2>1 DEF RollbackInv, Vacant
  <2>3. PromiseInv(p)' /\ AllHeld' = AllHeld
    BY <1>1, <2>1, <2>2, OldStays, HeldStays, LastFile
  <2> QED BY <1>1, <1>2, <2>1, <2>3, QuietWhen
<1>4. CASE run[p].installed # {}
  <2>1. /\ run'[p].pc = "undo" /\ run'[p].installed = run[p].installed \ {f}
        /\ run'[p].result = run[p].result
    BY <1>1, <1>4 DEF Undo, Run
  <2>2. f \in run[p].installed BY <1>4, FirstIn
  <2>3. final' = final \/ final' = [final EXCEPT ![f] = Absent] BY <1>4 DEF Undo
  <2> HIDE DEF f
  <2>4. final'[NFiles] = final[NFiles]
    <3>1. f # NFiles BY <1>1, <2>2
    <3> QED BY <2>3, <3>1, LastFile
  <2>5. RollbackInv(p)' BY <1>1, <2>1, <2>4 DEF RollbackInv, Vacant
  <2>6. ASSUME NEW i \in Files PROVE Old(p, i) => Old(p, i)'
    <3>1. i \notin run[p].installed => final'[i] = final[i] BY <2>2, <2>3
    <3> QED BY <1>1, <2>1, <3>1 DEF Old, Whole
  <2>7. Held(NFiles)' => Held(NFiles) BY <1>1, <2>4 DEF Held, Whole
  <2>8. PromiseInv(p)' /\ AllHeld' = AllHeld BY <1>1, <2>5, <2>6, <2>7, HeldStays
  <2> QED BY <1>1, <1>2, <2>1, <2>8, QuietWhen
<1> QED BY <1>3, <1>4

LEMMA PromiseRestore ==
    ASSUME NEW p, Procs = {p}, PromiseInv(p), BundleInv', KeptInv(p)', Restore(p)
    PROVE  PromiseInv(p)' /\ Quiet
<1>0. p \in Procs /\ TypeOK BY DEF PromiseInv, BundleInv
<1> USE <1>0, KeptTypes
<1> DEFINE f == First(Backups(p))
<1>1. /\ partial' = partial /\ run[p].pc = "restore" /\ run[p].installed = {}
      /\ saved[p][NFiles] # Absent => Vacant(NFiles)
  BY DEF Restore, At, PromiseInv, RollbackInv
<1>2. PartsThere' = PartsThere BY <1>1 DEF PartsThere
<1>3. CASE Backups(p) = {}
  <2>1. /\ UNCHANGED <<final, saved, orphans>> /\ run'[p].pc = "cleanup"
        /\ run'[p].installed = {} /\ run'[p].result = run[p].result
    BY <1>1, <1>3 DEF Restore, Goto, Run
  <2>2. RollbackInv(p)' BY <2>1 DEF RollbackInv
  <2>3. PromiseInv(p)' /\ AllHeld' = AllHeld
    BY <1>1, <2>1, <2>2, OldStays, HeldStays, LastFile
  <2> QED BY <1>1, <1>2, <2>1, <2>3, QuietWhen
<1>4. CASE Backups(p) # {}
  <2>0. f \in Files /\ saved[p][f] # Absent
    <3>1. Backups(p) \subseteq Files BY DEF Backups
    <3>2. f \in Backups(p) BY <1>4, <3>1, FirstIn
    <3> QED BY <3>2 DEF Backups
  <2>1. /\ run'[p].pc = "restore" /\ run'[p].installed = {} /\ run'[p].result = run[p].result
    BY <1>1, <1>4 DEF Restore, Run
  <2>2. /\ saved' = [saved EXCEPT ![p][f] = Absent]
        /\ \/ final' = [final EXCEPT ![f] = saved[p][f]] /\ orphans' = orphans
           \/ final' = final /\ orphans' = orphans \cup {<<f, saved[p][f]>>}
    BY <1>4 DEF Restore
  <2> HIDE DEF f
  <2>3. ASSUME NEW i \in Files, i # f
        PROVE  saved'[p][i] = saved[p][i] /\ final'[i] = final[i]
    BY <2>2, <2>3
  <2>4. saved'[p][f] = Absent BY <2>0, <2>2
  <2>5. RollbackInv(p)' BY <1>1, <2>1, <2>3, <2>4, LastFile DEF RollbackInv, Vacant
  <2>6. ASSUME NEW i \in Files, Old(p, i) PROVE Old(p, i)'
    <3>1. CASE i # f BY <1>1, <2>1, <2>2, <2>3, <2>6, <3>1 DEF Old, Whole
    <3>2. CASE i = f
      <4>1. Whole(f, saved[p][f]) \/ \E o \in orphans : o[1] = f /\ Whole(f, o[2])
        BY <2>0, <2>6, <3>2 DEF Old
      <4>2. CASE final' = [final EXCEPT ![f] = saved[p][f]] /\ orphans' = orphans
        <5>1. final'[f] = saved[p][f] BY <2>0, <4>2
        <5> QED BY <2>1, <2>4, <3>2, <4>1, <4>2, <5>1 DEF Old, Whole
      <4>3. CASE orphans' = orphans \cup {<<f, saved[p][f]>>}
        <5>1. \E o \in orphans' : o[1] = f /\ Whole(f, o[2])
          <6>1. <<f, saved[p][f]>> \in orphans' BY <4>3
          <6>2. <<f, saved[p][f]>>[1] = f /\ <<f, saved[p][f]>>[2] = saved[p][f] OBVIOUS
          <6>3. orphans \subseteq orphans' BY <4>3
          <6> QED BY <4>1, <6>1, <6>2, <6>3
        <5> QED BY <3>2, <5>1 DEF Old, Whole
      <4> QED BY <2>2, <4>2, <4>3
    <3> QED BY <3>1, <3>2
  <2>7. Held(NFiles)' => Held(NFiles)
    <3>1. CASE NFiles # f
      <4>1. saved'[p][NFiles] = saved[p][NFiles] /\ final'[NFiles] = final[NFiles]
        BY <2>3, <3>1, LastFile
      <4>2. \A o \in orphans' : o[1] = NFiles => o \in orphans BY <2>2, <3>1
      <4> QED BY <4>1, <4>2 DEF Held, Whole
    <3>2. CASE NFiles = f
      <4>1. final'[f] \in {final[f], saved[p][f]} BY <2>0, <2>2
      <4>2. \A o \in orphans' : o \in orphans \/ o[2] = saved[p][f] BY <2>2
      <4> QED BY <2>4, <3>2, <4>1, <4>2, NotWhole, LastFile DEF Held, Whole
    <3> QED BY <3>1, <3>2
  <2>8. PromiseInv(p)' /\ AllHeld' = AllHeld BY <1>1, <2>5, <2>6, <2>7, HeldStays
  <2> QED BY <1>1, <1>2, <2>1, <2>8, QuietWhen
<1> QED BY <1>3, <1>4

\* Removing .partial files, by the receive that failed or by the operator, is what Clear is for.
LEMMA ClearsOrQuiet ==
    ASSUME NEW p, Procs = {p}, Stage' = Stage, Outcome' = Outcome, AllHeld' = AllHeld,
           \A i \in Files : partial'[i] \in {partial[i], Absent}
    PROVE  Promise!Clear \/ Quiet
<1>1. PartsThere \in BOOLEAN /\ PartsThere' \in BOOLEAN BY DEF PartsThere
<1>2. PartsThere' => PartsThere BY DEF PartsThere
<1>3. CASE PartsThere' = FALSE BY <1>3 DEF Promise!Clear
<1>4. CASE PartsThere' = PartsThere BY <1>4 DEF Quiet
<1> QED BY <1>1, <1>2, <1>3, <1>4

LEMMA PromiseCleanUp ==
    ASSUME NEW p, Procs = {p}, PromiseInv(p), BundleInv', KeptInv(p)', CleanUp(p)
    PROVE  PromiseInv(p)' /\ (Promise!Fail \/ Promise!Clear \/ Quiet)
<1>0. p \in Procs /\ TypeOK BY DEF PromiseInv, BundleInv
<1> USE <1>0, KeptTypes
<1>1. UNCHANGED <<final, saved, orphans>> /\ run[p].pc = "cleanup" BY DEF CleanUp, At
<1>2. CASE run[p].mine = {}
  <2>1. run' = [run EXCEPT ![p] = [Idle EXCEPT !.result = "error", !.slipped = run[p].slipped]]
        /\ partial' = partial
    BY <1>2 DEF CleanUp, Finish
  <2>2. run'[p].pc = "idle" /\ run'[p].installed = {} /\ run'[p].result = "error"
    BY <2>1 DEF Idle
  <2>3. RollbackInv(p)' BY <2>2 DEF RollbackInv
  <2>4. PromiseInv(p)' /\ AllHeld' = AllHeld
    BY <1>1, <2>2, <2>3, OldStays, HeldStays, LastFile
  <2>5. Stage = "fetching" /\ Stage' = "none" /\ Outcome' = {"error"}
    BY <1>1, <2>2, ViewOf, ViewOfNext
  <2>6. PartsThere' = PartsThere BY <2>1 DEF PartsThere
  <2> QED BY <2>4, <2>5, <2>6 DEF Promise!Fail
<1>3. CASE run[p].mine # {}
  <2>1. /\ run'[p].pc = "cleanup" /\ run'[p].installed = run[p].installed
        /\ run'[p].result = run[p].result
        /\ \A i \in Files : partial'[i] \in {partial[i], Absent}
    BY <1>1, <1>3 DEF CleanUp, Run
  <2>2. RollbackInv(p)' BY <2>1 DEF RollbackInv
  <2>3. PromiseInv(p)' /\ AllHeld' = AllHeld
    BY <1>1, <2>1, <2>2, OldStays, HeldStays, LastFile
  <2>4. Stage' = Stage /\ Outcome' = Outcome BY <1>1, <2>1, ViewOf, ViewOfNext
  <2> QED BY <2>1, <2>3, <2>4, ClearsOrQuiet
<1> QED BY <1>2, <1>3

LEMMA PromiseCrash ==
    ASSUME NEW p, Procs = {p}, PromiseInv(p), BundleInv', KeptInv(p)', Crash(p)
    PROVE  PromiseInv(p)' /\ Promise!Stop
<1>0. p \in Procs /\ TypeOK BY DEF PromiseInv, BundleInv
<1> USE <1>0, KeptTypes
<1>1. /\ UNCHANGED <<final, partial>> /\ run[p].pc # "idle"
      /\ run' = [run EXCEPT ![p] = [Idle EXCEPT !.result = "stopped", !.slipped = run[p].slipped]]
      /\ orphans' = orphans \cup {<<i, saved[p][i]>> : i \in Backups(p)}
      /\ \A i \in Files : saved'[p][i] = Absent
  BY DEF Crash, Finish, At
<1>2. run'[p].pc = "idle" /\ run'[p].installed = {} /\ run'[p].result = "stopped"
  BY <1>1 DEF Idle
<1>3. PromiseInv(p)' /\ AllHeld' = AllHeld
  <2>1. CASE run[p].pc = "discard" BY <1>1, <1>2, <2>1, PlacedForGood
  <2>2. CASE run[p].pc # "discard"
    <3>1. RollbackInv(p)' BY <1>2 DEF RollbackInv
    <3>2. ASSUME NEW i \in Files, Whole(i, saved[p][i])
          PROVE  \E o \in orphans' : o[1] = i /\ Whole(i, o[2])
      <4>1. i \in Backups(p) BY <3>2, NotWhole DEF Backups
      <4>2. <<i, saved[p][i]>> \in orphans' BY <1>1, <4>1
      <4>3. <<i, saved[p][i]>>[1] = i /\ <<i, saved[p][i]>>[2] = saved[p][i] OBVIOUS
      <4> QED BY <3>2, <4>2, <4>3
    <3>3. ASSUME NEW i \in Files, Old(p, i) PROVE Old(p, i)'
      <4>1. orphans \subseteq orphans' BY <1>1
      <4> QED BY <1>1, <1>2, <3>2, <3>3, <4>1 DEF Old, Whole
    <3>4. Held(NFiles)' => Held(NFiles)
      <4>1. \A o \in orphans' : o \in orphans \/ \E i \in Files : o[1] = i /\ o[2] = saved[p][i]
        BY <1>1 DEF Backups
      <4>2. ~Whole(NFiles, saved'[p][NFiles]) BY <1>1, NotWhole, LastFile
      <4> QED BY <1>1, <4>1, <4>2, LastFile DEF Held, Whole
    <3> QED BY <2>2, <3>1, <3>3, <3>4, HeldStays
  <2> QED BY <2>1, <2>2
<1>4. Stage # "none" /\ Stage' = "none" /\ Outcome' = {"stopped"}
  BY <1>1, <1>2, ViewOf, ViewOfNext
<1>5. PartsThere' = PartsThere BY <1>1 DEF PartsThere
<1> QED BY <1>3, <1>4, <1>5 DEF Promise!Stop

LEMMA PromiseOutside ==
    ASSUME NEW p, Procs = {p}, PromiseInv(p), BundleInv', KeptInv(p)',
           NEW j \in Files, Tidy(j) \/ Foreign(j)
    PROVE  PromiseInv(p)' /\ (Promise!Clear \/ Quiet)
<1>0. p \in Procs /\ TypeOK BY DEF PromiseInv, BundleInv
<1> USE <1>0, KeptTypes
<1>1. UNCHANGED <<saved, orphans, run>> BY DEF Tidy, Foreign, bounds
<1>2. Stage' = Stage /\ Outcome' = Outcome BY <1>1, ViewOf, ViewOfNext
<1>3. \/ final' = final
      \/ final[j] = Absent /\ final' = [final EXCEPT ![j] = Other]
  BY DEF Tidy, Foreign
<1>4. \A i \in Files : partial'[i] \in {partial[i], Absent} BY DEF Tidy, Foreign
<1>5. \A i \in Files : \/ final'[i] = final[i]
                       \/ final[i] = Absent /\ final'[i] = Other
  BY <1>3
<1>6. RollbackInv(p)' BY <1>1, <1>5, LastFile DEF PromiseInv, RollbackInv, Vacant
<1>7. ASSUME NEW i \in Files PROVE (Old(p, i) => Old(p, i)') /\ (Held(i)' => Held(i))
  <2>1. Whole(i, final'[i]) <=> Whole(i, final[i]) BY <1>5, NotWhole
  <2> QED BY <1>1, <2>1 DEF Old, Held, Whole
<1>8. PromiseInv(p)' /\ AllHeld' = AllHeld
  <2>1. CASE run[p].pc # "discard" BY <1>6, <1>7, <2>1, HeldStays, LastFile
  <2>2. CASE run[p].pc = "discard"
    <3>1. PromiseInv(p)' BY <1>1, <1>6, <2>2 DEF PromiseInv
    <3>2. AllHeld /\ AllHeld' BY <1>1, <2>2, <3>1, LastStandsForAll, LastStandsNext
    <3> QED BY <3>1, <3>2 DEF AllHeld
  <2> QED BY <2>1, <2>2
<1> QED BY <1>2, <1>4, <1>8, ClearsOrQuiet

LEMMA PromiseStarting ==
    ASSUME NEW p, Procs = {p}, PromiseInv(p), BundleInv', KeptInv(p)', Starting(p)
    PROVE  PromiseInv(p)' /\ Promise!Begin
<1>0. p \in Procs /\ TypeOK BY DEF PromiseInv, BundleInv
<1> USE <1>0, KeptTypes
<1> PICK ow \in Overwrites, flaw \in Flaws : Start(p, ow, flaw) BY DEF Starting
<1>1. /\ UNCHANGED <<final, partial, saved, orphans>> /\ run[p].pc = "idle"
      /\ \A i \in Files : partial[i] = Absent
  BY DEF Start, disk, At
<1>2. /\ run'[p].pc = "stat" /\ run'[p].installed = {} /\ run'[p].result = "none"
      /\ ~run'[p].slipped
  BY DEF Start, Idle
<1>3. RollbackInv(p)' BY <1>2 DEF RollbackInv
<1>4. PromiseInv(p)' /\ AllHeld' = AllHeld
  BY <1>1, <1>2, <1>3, OldStays, HeldStays, LastFile
<1>5. Stage = "none" /\ Stage' = "fetching" /\ Outcome' = {"none"}
  BY <1>1, <1>2, ViewOf, ViewOfNext
<1>6. PartsThere = FALSE /\ PartsThere' = FALSE BY <1>1 DEF PartsThere
<1> QED BY <1>4, <1>5, <1>6 DEF Promise!Begin

LEMMA PromiseSteps ==
    ASSUME NEW p, Procs = {p}
    PROVE  PromiseInv(p) /\ [Next]_vars => PromiseInv(p)' /\ [Promise!Next]_(Promise!vars)
<1> SUFFICES ASSUME PromiseInv(p), [Next]_vars
             PROVE  PromiseInv(p)' /\ [Promise!Next]_(Promise!vars)
  OBVIOUS
<1>0. p \in Procs /\ \A q \in Procs : q = p OBVIOUS
<1>1. BundleInv' /\ KeptInv(p)' BY StepsKeep, KeptSteps DEF PromiseInv
<1>2. Quiet => UNCHANGED Promise!vars BY DEF Quiet, Promise!vars
<1>3. CASE UNCHANGED vars
  <2>1. UNCHANGED <<final, partial, saved, orphans, run>> BY <1>3 DEF vars, disk
  <2>2. PromiseInv(p)'
    BY <1>1, <2>1 DEF PromiseInv, RollbackInv, Vacant, Held, Old, Whole
  <2>3. Quiet BY <2>1 DEF Quiet, Stage, At, PartsThere, AllHeld, Held, Whole, Outcome
  <2> QED BY <1>2, <2>2, <2>3
<1>4. CASE Next
  <2>1. CASE Starting(p) BY <1>1, <2>1, PromiseStarting DEF Promise!Next
  <2>2. CASE Downloading(p) BY <1>1, <1>2, <2>2, PromiseDownloading DEF Promise!Next
  <2>3. CASE Installing(p)
    BY <1>1, <1>2, <2>3, PromiseBackUp, PromiseInstall, PromiseDiscard
       DEF Installing, Promise!Next
  <2>4. CASE Ending(p)
    BY <1>1, <1>2, <2>4, PromiseUndo, PromiseRestore, PromiseCleanUp DEF Ending, Promise!Next
  <2>5. CASE Crash(p) BY <1>1, <2>5, PromiseCrash DEF Promise!Next
  <2>6. CASE \E i \in Files : Tidy(i) \/ Foreign(i)
    BY <1>1, <1>2, <2>6, PromiseOutside DEF Promise!Next
  <2> QED BY <1>0, <1>4, <2>1, <2>2, <2>3, <2>4, <2>5, <2>6 DEF Next
<1> QED BY <1>3, <1>4

LEMMA PromiseInit == ASSUME NEW p, Procs = {p} PROVE Init => PromiseInv(p) /\ Promise!Init
<1> SUFFICES ASSUME Init PROVE PromiseInv(p) /\ Promise!Init OBVIOUS
<1>1. /\ run[p] = Idle /\ orphans = {}
      /\ \A i \in Files : /\ saved[p][i] = Absent /\ partial[i] = Absent
                          /\ final[i] \in {Absent, Earlier}
  BY DEF Init
<1>2. run[p].pc = "idle" /\ run[p].result = "none" BY <1>1 DEF Idle
<1>3. \A i \in Files : ~Held(i)
  BY <1>1, BundleAssumption DEF Held, Whole, Absent, Earlier
<1>4. PromiseInv(p)
  BY <1>2, <1>3, InitKeeps, KeptInit, LastFile DEF PromiseInv, RollbackInv
<1>5. AllHeld = FALSE /\ PartsThere = FALSE BY <1>1, <1>3, LastFile DEF AllHeld, PartsThere
<1> QED BY <1>2, <1>4, <1>5, ViewOf DEF Promise!Init

\* ReceiveBundle (bundle.go), one receive at a time, is what InboxDelivery and TransferClaim take
\* it for: every file of the bundle at once or none, reported as what it is, whatever fails in
\* between and wherever the process stops.
THEOREM BundleKeepsPromise == ASSUME NEW p, Procs = {p} PROVE Spec => KeepsPromise
<1>1. Init => PromiseInv(p) /\ Promise!Init BY PromiseInit
<1>2. PromiseInv(p) /\ [Next]_vars => PromiseInv(p)' /\ [Promise!Next]_(Promise!vars)
  BY PromiseSteps
<1> QED BY <1>1, <1>2, PTL DEF Spec, KeepsPromise, Promise!Spec
=============================================================================
