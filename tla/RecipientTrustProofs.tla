------------------------- MODULE RecipientTrustProofs -------------------------
(***************************************************************************)
(* Proofs about RecipientTrust, for any number of processes, identities,   *)
(* aliases and versions: commands read and write recipients.json without a *)
(* lock, and what the file trusts is still grounded.  What makes it so is  *)
(* that trust only grows on the side nobody takes back (Grounded and told  *)
(* are monotone), so that an entry that was sound when a command read it   *)
(* is sound whenever it writes it.                                         *)
(***************************************************************************)
EXTENDS RecipientTrust, TLAPS

\* A version succeeds itself, only earlier ones, and what those succeed; one that is not
\* in use yet succeeds no other.
LineageInv == \A i \in Ids, v \in Versions :
    /\ v \in lineage[i][v]
    /\ \A w \in lineage[i][v] : w <= v /\ lineage[i][w] \subseteq lineage[i][v]
    /\ v > versions[i] => lineage[i][v] = {v}

\* A trusted entry is of a version with a ground, and the service has been told.
GroundedEntry(e) == e.trust \in Trusted => Grounded(e.id, e.version)
ToldEntry(e) == e.trust \in Trusted => <<e.id, e.version, e.trust>> \in told
SoundEntry(e) == GroundedEntry(e) /\ ToldEntry(e)
SoundList(list) == \A s \in Slots : SoundEntry(list[s])

\* What a command has in hand.
SoundRun(r) ==
    /\ r.pc \in {"fetch", "compare"} /\ r.cmd = "add" => r.entry.trust = "unverified"
    /\ r.pc \in {"fetch", "compare", "unpin"} => r.then = "done"
    /\ r.pc = "compare" => r.cmd = "add"
    /\ r.pc \in {"fetch", "unpin", "load", "store"} => SoundEntry(r.entry)
    /\ r.pc = "pin" => GroundedEntry(r.entry)
    /\ r.pc # "idle" /\ r.then = "send" => r.entry.trust \in Trusted
    /\ r.pc = "store" => SoundList(r.list)

TrustInv ==
    /\ TypeOK
    /\ LineageInv
    /\ SoundList(recipients)
    /\ \A p \in Procs : SoundRun(run[p])
    /\ SendsGrounded
-----------------------------------------------------------------------------
\* What a step may do to the keys and to the history.
Grows ==
    /\ \A i \in Ids, v \in Versions : lineage[i][v] \subseteq lineage'[i][v]
    /\ vouched \subseteq vouched' /\ lifted \subseteq lifted' /\ told \subseteq told'

LEMMA RunFields ==
    ASSUME TypeOK, NEW p \in Procs, ~At(p, "idle")
    PROVE  /\ run[p] \in Run /\ run[p].entry \in Entry /\ run[p].list \in List
           /\ run[p].entry.id \in Ids /\ run[p].entry.version \in Versions
           /\ run[p].entry.alias \in Aliases /\ run[p].entry.trust \in TrustStates
           /\ run[p].expect \in Versions \cup {None}
    BY DEF TypeOK, Run, Idle, At, Entry

LEMMA EntryMoves ==
    ASSUME NEW e \in Entry
    PROVE  /\ \A t \in TrustStates : [e EXCEPT !.trust = t] \in Entry
           /\ \A v \in Versions, t \in TrustStates :
                [e EXCEPT !.version = v, !.trust = t] \in Entry
    BY DEF Entry

LEMMA RunMoves ==
    ASSUME NEW r \in Run
    PROVE  /\ \A pc \in PCs : [r EXCEPT !.pc = pc] \in Run
           /\ \A pc \in PCs, e \in Entry : [r EXCEPT !.pc = pc, !.entry = e] \in Run
           /\ \A pc \in PCs, e \in Entry, t \in {"done", "send", "fail"} :
                [r EXCEPT !.pc = pc, !.then = t, !.entry = e] \in Run
           /\ \A pc \in PCs, l \in List : [r EXCEPT !.pc = pc, !.list = l] \in Run
           /\ \A pc \in PCs, t \in TrustStates : [r EXCEPT !.pc = pc, !.entry.trust = t] \in Run
           /\ \A pc \in PCs, t \in TrustStates, n \in {"done", "send", "fail"} :
                [r EXCEPT !.pc = pc, !.then = n, !.entry.trust = t] \in Run
<1>1. r.entry \in Entry
    BY DEF Run
<1>2. \A t \in TrustStates : [r.entry EXCEPT !.trust = t] \in Entry
    BY <1>1, EntryMoves
<1>. QED
    BY <1>1, <1>2 DEF Run

\* What a command starts with.
LEMMA BeginRun ==
    ASSUME NEW pc \in PCs, NEW cmd \in {"add", "verify", "send", "remove"}, NEW e \in Entry,
           NEW expect \in Versions \cup {None}, NEW tofu \in BOOLEAN
    PROVE  [pc |-> pc, cmd |-> cmd, entry |-> e, expect |-> expect, tofu |-> tofu,
            then |-> "done", list |-> Empty] \in Run
<1>1. Empty \in List
    BY DEF Empty, List
<1>. QED
    BY <1>1 DEF Run

LEMMA Resolved ==
    ASSUME TypeOK, NEW ref, NEW e, Resolves(ref, e)
    PROVE  e \in Entry /\ \E s \in Slots : e = recipients[s]
    BY DEF TypeOK, Resolves, Named, List

\* Trust that is grounded, or told, stays so.
LEMMA SoundKept ==
    ASSUME Grows
    PROVE  /\ \A e \in Entry \cup {Nobody} : GroundedEntry(e) => GroundedEntry(e)'
           /\ \A e \in Entry \cup {Nobody} : SoundEntry(e) => SoundEntry(e)'
           /\ \A l \in List : SoundList(l) => SoundList(l)'
           /\ \A r \in Run \cup {Idle} : SoundRun(r) => SoundRun(r)'
<1>1. \A i \in Ids, v \in Versions : Grounded(i, v) => Grounded(i, v)'
    BY DEF Grows, Grounded
<1>2. ASSUME NEW e \in Entry \cup {Nobody}
      PROVE  /\ GroundedEntry(e) => GroundedEntry(e)'
             /\ SoundEntry(e) => SoundEntry(e)'
  <2>1. CASE e = Nobody
      BY <2>1 DEF GroundedEntry, ToldEntry, SoundEntry, Nobody, Trusted
  <2>2. CASE e \in Entry
    <3>1. e.id \in Ids /\ e.version \in Versions
        BY <2>2 DEF Entry
    <3>2. GroundedEntry(e) => GroundedEntry(e)'
        BY <1>1, <3>1 DEF GroundedEntry
    <3>3. ToldEntry(e) => ToldEntry(e)'
        BY DEF ToldEntry, Grows
    <3>. QED
        BY <3>2, <3>3 DEF SoundEntry
  <2>. QED
      BY <2>1, <2>2
<1>3. \A l \in List : SoundList(l) => SoundList(l)'
    BY <1>2 DEF SoundList, List
<1>4. ASSUME NEW r \in Run \cup {Idle}, SoundRun(r)
      PROVE  SoundRun(r)'
  <2>1. CASE r = Idle
      BY <2>1 DEF SoundRun, Idle
  <2>2. CASE r \in Run
    <3>1. r.entry \in Entry /\ r.list \in List
        BY <2>2 DEF Run
    <3>. QED
        BY <3>1, <1>2, <1>3, <1>4 DEF SoundRun
  <2>. QED
      BY <1>4, <2>1, <2>2
<1>. QED
    BY <1>2, <1>3, <1>4

\* A step of command p to r keeps the invariant if r is sound, and what it writes and what
\* it sends to is.
LEMMA OwnStep ==
    ASSUME TrustInv, TypeOK', LineageInv', Grows,
           NEW p \in Procs, NEW r \in Run \cup {Idle}, Become(p, r), SoundRun(r)',
           recipients' = recipients \/ SoundList(recipients)',
           sent' = sent \/ Grounded(sent.id, sent.version)'
    PROVE  TrustInv'
<1>1. SoundList(recipients)'
  <2>1. CASE recipients' = recipients
    <3>1. recipients \in List /\ SoundList(recipients)
        BY DEF TrustInv, TypeOK
    <3>2. \A s \in Slots : recipients[s] \in Entry \cup {Nobody} /\ SoundEntry(recipients[s])
        BY <3>1 DEF List, SoundList
    <3>3. \A s \in Slots : SoundEntry(recipients[s])'
      <4> TAKE s \in Slots
      <4>1. PICK e \in Entry \cup {Nobody} : e = recipients[s]
          BY <3>2
      <4>2. SoundEntry(e)'
          BY <4>1, <3>2, SoundKept
      <4>3. e = recipients'[s]
          BY <4>1, <2>1
      <4>. QED
          BY <4>2, <4>3 DEF SoundEntry, GroundedEntry, ToldEntry, Grounded
    <3>. QED
        BY <3>3 DEF SoundList
  <2>. QED
      BY <2>1
<1>2. \A q \in Procs : SoundRun(run[q])'
  <2> TAKE q \in Procs
  <2>1. run' = [run EXCEPT ![p] = r] /\ run \in [Procs -> Run \cup {Idle}] /\ SoundRun(run[q])
      BY DEF Become, TrustInv, TypeOK
  <2>2. PICK x \in Run \cup {Idle} : x = run'[q] /\ SoundRun(x)'
    <3>1. CASE q = p
        BY <3>1, <2>1
    <3>2. CASE q # p
      <4>1. PICK x \in Run \cup {Idle} : x = run[q]
          BY <2>1
      <4>. QED
          BY <4>1, <3>2, <2>1, SoundKept
    <3>. QED
        BY <3>1, <3>2
  <2>. QED
      BY <2>2 DEF SoundRun, SoundList, SoundEntry, GroundedEntry, ToldEntry, Grounded
<1>3. SendsGrounded'
  <2>1. CASE sent' = sent /\ sent # NoSend
    <3>1. sent.id \in Ids /\ sent.version \in Versions /\ Grounded(sent.id, sent.version)
        BY <2>1 DEF TrustInv, TypeOK, SendsGrounded
    <3>. QED
        BY <2>1, <3>1 DEF SendsGrounded, Grounded, Grows
  <2>. QED
      BY <2>1 DEF SendsGrounded
<1>. QED
    BY <1>1, <1>2, <1>3 DEF TrustInv

PinStates == [Ids -> [version : Versions, trust : TrustStates] \cup {Nobody}]
Sends == [id : Ids, version : Versions, expect : Versions \cup {None}]

\* The same for a step that leaves the keys alone: types and grounds follow.
LEMMA CommandStep ==
    ASSUME TrustInv, UNCHANGED keys,
           NEW p \in Procs, NEW r \in Run \cup {Idle}, Become(p, r), SoundRun(r)',
           recipients' \in List, pins' \in PinStates,
           told \subseteq told', told' \subseteq Ids \X Versions \X TrustStates,
           vouched \subseteq vouched', vouched' \subseteq Ids \X Versions,
           lifted \subseteq lifted', lifted' \subseteq Ids \X Versions,
           removes' \in 0..MaxRemoves, faults' \in 0..MaxFaults,
           recipients' = recipients \/ SoundList(recipients)',
           sent' = sent \/ (sent' \in Sends /\ Grounded(sent.id, sent.version)')
    PROVE  TrustInv'
<1>1. LineageInv' /\ Grows
  <2>1. published' = published /\ lineage' = lineage /\ versions' = versions
      BY DEF keys
  <2>. QED
      BY <2>1 DEF TrustInv, LineageInv, Grows
<1>2. run' \in [Procs -> Run \cup {Idle}]
    BY DEF TrustInv, TypeOK, Become
<1>3. sent' \in Sends \cup {NoSend}
    BY DEF TrustInv, TypeOK, Sends
<1>4. TypeOK'
    BY <1>2, <1>3 DEF TrustInv, TypeOK, keys, PinStates, Sends
<1>. QED
    BY <1>1, <1>4, OwnStep

\* The same for a step that only changes what the command is doing.
LEMMA QuietStep ==
    ASSUME TrustInv, UNCHANGED <<recipients, pins, keys, history>>,
           removes' \in 0..MaxRemoves, faults' \in 0..MaxFaults,
           NEW p \in Procs, NEW r \in Run \cup {Idle}, Become(p, r), SoundRun(r)
    PROVE  TrustInv'
<1>1. SoundRun(r)'
    BY DEF SoundRun, SoundList, SoundEntry, GroundedEntry, ToldEntry, Grounded, keys, history
<1>2. /\ recipients' = recipients /\ pins' = pins /\ sent' = sent
      /\ told' = told /\ vouched' = vouched /\ lifted' = lifted
    BY DEF history
<1>. QED
    BY <1>1, <1>2, CommandStep DEF TrustInv, TypeOK, PinStates

LEMMA IdleIsSound == Idle \in Run \cup {Idle} /\ SoundRun(Idle)
    BY DEF Idle, SoundRun

LEMMA BoundsStay ==
    ASSUME TypeOK
    PROVE  /\ removes \in 0..MaxRemoves /\ faults \in 0..MaxFaults
           /\ removes < MaxRemoves => removes + 1 \in 0..MaxRemoves
           /\ faults < MaxFaults => faults + 1 \in 0..MaxFaults
    BY TrustAssumption DEF TypeOK

\* What the file holds is sound.
LEMMA StoredSound ==
    ASSUME TrustInv, NEW ref, NEW e, Resolves(ref, e)
    PROVE  e \in Entry /\ SoundEntry(e)
    BY Resolved DEF TrustInv, SoundList

LEMMA EndStep ==
    ASSUME TrustInv, NEW p \in Procs, End(p), UNCHANGED <<recipients, pins, keys, history>>,
           removes' \in 0..MaxRemoves, faults' \in 0..MaxFaults
    PROVE  TrustInv'
    BY IdleIsSound, QuietStep DEF End
-----------------------------------------------------------------------------
LEMMA StartAddKeeps ==
    ASSUME TrustInv, NEW p \in Procs, NEW i \in Ids, NEW a \in Aliases,
           NEW want \in 0..versions[i], StartAdd(p, i, a, want)
    PROVE  TrustInv'
<1> DEFINE e == [alias |-> a, id |-> i, version |-> want, trust |-> "unverified"]
           r == [pc |-> "fetch", cmd |-> "add", entry |-> e, expect |-> want, tofu |-> FALSE,
                 then |-> "done", list |-> Empty]
<1>1. want \in Versions
    BY TrustAssumption DEF TrustInv, TypeOK, Versions
<1>2. e \in Entry
    BY <1>1 DEF Entry, TrustStates
<1>3. r \in Run
    BY <1>1, <1>2, BeginRun DEF PCs
<1>4. SoundRun(r)
    BY DEF SoundRun, SoundEntry, GroundedEntry, ToldEntry, Trusted
<1>5. Become(p, r) /\ removes' = removes /\ faults' = faults
    BY DEF StartAdd, Begin, bounds
<1>. QED
    BY <1>3, <1>4, <1>5, QuietStep, BoundsStay DEF StartAdd, TrustInv

LEMMA FetchAddKeeps ==
    ASSUME TrustInv, NEW p \in Procs, FetchAdd(p)
    PROVE  TrustInv'
<1>1. CASE End(p)
    BY <1>1, EndStep, BoundsStay DEF FetchAdd, TrustInv, bounds
<1>2. CASE Goto(p, "compare")
  <2>1. run[p] \in Run /\ SoundRun(run[p]) /\ run[p].pc = "fetch" /\ run[p].cmd = "add"
      BY RunFields DEF TrustInv, FetchAdd, At
  <2>2. [run[p] EXCEPT !.pc = "compare"] \in Run
      BY <2>1, RunMoves DEF PCs
  <2>3. SoundRun([run[p] EXCEPT !.pc = "compare"])
      BY <2>1 DEF SoundRun, Run
  <2>. QED
      BY <1>2, <2>2, <2>3, QuietStep, BoundsStay DEF FetchAdd, TrustInv, Goto, bounds
<1>. QED
    BY <1>1, <1>2 DEF FetchAdd

LEMMA CompareKeeps ==
    ASSUME TrustInv, NEW p \in Procs, Compare(p)
    PROVE  TrustInv'
<1> DEFINE e == run[p].entry
<1>1. /\ run[p] \in Run /\ SoundRun(run[p]) /\ run[p].pc = "compare" /\ run[p].cmd = "add"
      /\ e \in Entry /\ e.trust = "unverified" /\ run[p].then = "done"
    BY RunFields DEF TrustInv, Compare, At, SoundRun
<1>2. UNCHANGED <<recipients, pins, keys, history>> /\ removes' \in 0..MaxRemoves /\ faults' \in 0..MaxFaults
    BY BoundsStay DEF Compare, TrustInv, bounds
<1>3. CASE Goto(p, "pin")
  <2>1. [run[p] EXCEPT !.pc = "pin"] \in Run
      BY <1>1, RunMoves DEF PCs
  <2>2. SoundRun([run[p] EXCEPT !.pc = "pin"])
      BY <1>1 DEF SoundRun, Run, GroundedEntry, Trusted
  <2>. QED
      BY <1>2, <1>3, <2>1, <2>2, QuietStep DEF Goto
<1>4. ASSUME NEW s \in Named(e.id), recipients[s].trust \in Trusted, recipients[s].version # e.version,
             Become(p, [run[p] EXCEPT !.pc = "load", !.then = "fail",
                                      !.entry = [recipients[s] EXCEPT !.trust = "changed"]])
      PROVE  TrustInv'
  <2> DEFINE c == [recipients[s] EXCEPT !.trust = "changed"]
             r == [run[p] EXCEPT !.pc = "load", !.then = "fail", !.entry = c]
  <2>1. recipients[s] \in Entry
      BY <1>4 DEF TrustInv, TypeOK, List, Named
  <2>2. c \in Entry /\ c.trust = "changed"
      BY <2>1, EntryMoves DEF TrustStates, Entry
  <2>. HIDE DEF c
  <2>3. r \in Run
      BY <1>1, <2>2, RunMoves DEF PCs
  <2>4. SoundRun(r)
      BY <1>1, <2>2 DEF SoundRun, Run, SoundEntry, GroundedEntry, ToldEntry, Trusted
  <2>5. Become(p, r)
      BY <1>4 DEF c
  <2>. QED
      BY <1>2, <2>3, <2>4, <2>5, QuietStep
<1>5. ASSUME NEW s \in Named(e.id), recipients[s].trust \in Trusted, recipients[s].version = e.version,
             Become(p, [run[p] EXCEPT !.pc = "pin", !.entry.trust = recipients[s].trust])
      PROVE  TrustInv'
  <2> DEFINE r == [run[p] EXCEPT !.pc = "pin", !.entry.trust = recipients[s].trust]
  <2>1. /\ recipients[s] \in Entry /\ e.id \in {recipients[s].alias, recipients[s].id}
        /\ SoundEntry(recipients[s])
      BY <1>5 DEF TrustInv, TypeOK, List, Named, SoundList
  <2>2. e.id = recipients[s].id
      BY <1>1, <2>1, TrustAssumption DEF Entry
  <2>3. r \in Run
      BY <1>1, <2>1, RunMoves DEF PCs, Entry
  <2>4. r.entry.id = e.id /\ r.entry.version = e.version /\ r.pc = "pin" /\ r.then = "done"
      BY <1>1 DEF Run, Entry
  <2>5. Grounded(e.id, e.version)
      BY <1>5, <2>1, <2>2 DEF SoundEntry, GroundedEntry
  <2>6. SoundRun(r)
      BY <2>4, <2>5 DEF SoundRun, GroundedEntry
  <2>. QED
      BY <1>2, <1>5, <2>3, <2>6, QuietStep
<1>. QED
    BY <1>3, <1>4, <1>5 DEF Compare
-----------------------------------------------------------------------------
LEMMA StartVerifyKeeps ==
    ASSUME TrustInv, NEW p \in Procs, NEW ref, NEW e, StartVerify(p, ref, e)
    PROVE  TrustInv'
<1> DEFINE c == [e EXCEPT !.trust = "pinned"]
           r == [pc |-> "pin", cmd |-> "verify", entry |-> c, expect |-> e.version,
                 tofu |-> FALSE, then |-> "done", list |-> Empty]
<1>1. e \in Entry /\ e.id \in Ids /\ e.version \in Versions
    BY StoredSound DEF StartVerify, Entry
<1>2. c \in Entry /\ c.id = e.id /\ c.version = e.version
    BY <1>1, EntryMoves DEF Entry, TrustStates
<1>3. r \in Run
    BY <1>1, <1>2, BeginRun DEF PCs
<1>4. <<e.id, e.version>> \in vouched' /\ e.version \in lineage'[e.id][e.version]
    BY <1>1 DEF StartVerify, TrustInv, LineageInv, keys
<1>. HIDE DEF c
<1>5. GroundedEntry(c)'
    BY <1>2, <1>4 DEF GroundedEntry, Grounded
<1>6. SoundRun(r)'
    BY <1>5 DEF SoundRun
<1>7. Become(p, r)
    BY DEF StartVerify, Begin, c
<1>8. /\ vouched \subseteq vouched' /\ vouched' \subseteq Ids \X Versions
      /\ recipients' = recipients /\ pins' = pins /\ UNCHANGED keys /\ told' = told
      /\ lifted' = lifted /\ sent' = sent /\ removes' = removes /\ faults' = faults
    BY <1>1 DEF StartVerify, TrustInv, TypeOK, bounds
<1>. QED
    BY <1>3, <1>6, <1>7, <1>8, CommandStep DEF TrustInv, TypeOK, PinStates

LEMMA StartSendKeeps ==
    ASSUME TrustInv, NEW p \in Procs, NEW ref, NEW e, NEW expect \in Versions \cup {None},
           NEW tofu \in BOOLEAN, StartSend(p, ref, e, expect, tofu)
    PROVE  TrustInv'
<1> DEFINE r == [pc |-> "fetch", cmd |-> "send", entry |-> e, expect |-> expect, tofu |-> tofu,
                 then |-> "done", list |-> Empty]
<1>1. e \in Entry /\ SoundEntry(e)
    BY StoredSound DEF StartSend
<1>2. r \in Run
    BY <1>1, BeginRun DEF PCs
<1>3. SoundRun(r)
    BY <1>1 DEF SoundRun
<1>4. Become(p, r) /\ removes' = removes /\ faults' = faults
    BY DEF StartSend, Begin, bounds
<1>. QED
    BY <1>2, <1>3, <1>4, QuietStep, BoundsStay DEF StartSend, TrustInv

LEMMA StartRemoveKeeps ==
    ASSUME TrustInv, NEW p \in Procs, NEW ref, NEW e, StartRemove(p, ref, e)
    PROVE  TrustInv'
<1> DEFINE r == [pc |-> "unpin", cmd |-> "remove", entry |-> e, expect |-> None, tofu |-> FALSE,
                 then |-> "done", list |-> Empty]
<1>1. e \in Entry /\ SoundEntry(e)
    BY StoredSound DEF StartRemove
<1>2. r \in Run
    BY <1>1, BeginRun DEF PCs
<1>3. SoundRun(r)
    BY <1>1 DEF SoundRun
<1>4. Become(p, r) /\ removes' \in 0..MaxRemoves /\ faults' = faults
    BY BoundsStay DEF StartRemove, Begin, TrustInv
<1>. QED
    BY <1>2, <1>3, <1>4, QuietStep, BoundsStay DEF StartRemove, TrustInv

\* A command that sends has read a sound entry, and works on it.
LEMMA Sending ==
    ASSUME TrustInv, NEW p \in Procs, At(p, "fetch")
    PROVE  /\ run[p] \in Run /\ run[p].pc = "fetch" /\ run[p].entry \in Entry
           /\ run[p].entry.id \in Ids /\ run[p].entry.version \in Versions
           /\ SoundEntry(run[p].entry) /\ run[p].then = "done"
    BY RunFields DEF TrustInv, At, SoundRun

LEMMA LiftKeeps ==
    ASSUME TrustInv, NEW p \in Procs, Lift(p)
    PROVE  TrustInv'
<1>1. PICK e \in Entry : e = run[p].entry /\ SoundEntry(e) /\ run[p] \in Run
    BY Sending DEF Lift
<1>2. e.id \in Ids /\ e.version \in Versions
    BY DEF Entry
<1>3. PICK new \in Versions : new = published[e.id] /\ e.version \in lineage[e.id][new]
    BY <1>1, <1>2 DEF Lift, ValidRotation, TrustInv, TypeOK
<1>4. PICK c \in Entry : /\ c = [e EXCEPT !.version = new, !.trust = "rotated"]
                         /\ c.id = e.id /\ c.version = new /\ c.trust = "rotated"
  <2>1. [e EXCEPT !.version = new, !.trust = "rotated"] \in Entry
      BY EntryMoves DEF TrustStates
  <2>. QED
      BY <2>1 DEF Entry
<1>5. PICK r \in Run : Become(p, r) /\ r.pc = "pin" /\ r.then = "send" /\ r.entry = c
  <2> DEFINE x == [run[p] EXCEPT !.pc = "pin", !.then = "send", !.entry = c]
  <2>1. x \in Run
      BY <1>1, RunMoves DEF PCs
  <2>2. x.pc = "pin" /\ x.then = "send" /\ x.entry = c
      BY <1>1 DEF Run
  <2>3. Become(p, x)
      BY <1>1, <1>3, <1>4 DEF Lift
  <2>. QED
      BY <2>1, <2>2, <2>3
<1>6. /\ recipients' = recipients /\ pins' = pins /\ UNCHANGED keys /\ told' = told
      /\ vouched' = vouched /\ sent' = sent /\ removes' = removes /\ faults' = faults
      /\ lifted \subseteq lifted' /\ lifted' \subseteq Ids \X Versions
    BY <1>1, <1>2 DEF Lift, TrustInv, TypeOK, bounds
<1>7. \E w \in lineage[e.id][e.version] : <<e.id, w>> \in vouched \cup lifted'
  <2>1. CASE e.trust \in Trusted
      BY <2>1, <1>1, <1>6 DEF SoundEntry, GroundedEntry, Grounded
  <2>2. CASE e.trust \notin Trusted
    <3>1. e.version \in lineage[e.id][e.version] /\ <<e.id, e.version>> \in lifted'
        BY <2>2, <1>1, <1>2 DEF Lift, TrustInv, LineageInv
    <3>. QED
        BY <3>1
  <2>. QED
      BY <2>1, <2>2
<1>8. lineage[e.id][e.version] \subseteq lineage[e.id][new]
    BY <1>2, <1>3 DEF TrustInv, LineageInv
<1>9. GroundedEntry(c)'
    BY <1>4, <1>6, <1>7, <1>8 DEF GroundedEntry, Grounded, keys
<1>10. SoundRun(r)'
    BY <1>4, <1>5, <1>9 DEF SoundRun, Trusted
<1>. QED
    BY <1>5, <1>6, <1>10, CommandStep DEF TrustInv, TypeOK, PinStates

LEMMA DifferKeeps ==
    ASSUME TrustInv, NEW p \in Procs, Differ(p)
    PROVE  TrustInv'
<1> DEFINE r == [run[p] EXCEPT !.pc = "load", !.then = "fail", !.entry.trust = "changed"]
<1>1. run[p] \in Run /\ run[p].entry \in Entry
    BY Sending DEF Differ
<1>2. r \in Run
    BY <1>1, RunMoves DEF PCs, TrustStates
<1>3. r.pc = "load" /\ r.then = "fail" /\ r.entry.trust = "changed"
    BY <1>1 DEF Run, Entry
<1>4. SoundRun(r)
    BY <1>3 DEF SoundRun, SoundEntry, GroundedEntry, ToldEntry, Trusted
<1>. QED
    BY <1>2, <1>4, QuietStep, BoundsStay DEF Differ, TrustInv, bounds

LEMMA PinSavedKeeps ==
    ASSUME TrustInv, NEW p \in Procs, PinSaved(p)
    PROVE  TrustInv'
<1>1. PICK e \in Entry : e = run[p].entry /\ run[p] \in Run
    BY Sending DEF PinSaved
<1>2. e.id \in Ids /\ e.version \in Versions
    BY DEF Entry
<1>3. PICK r \in Run : /\ Become(p, r) /\ r.pc = "pin" /\ r.then = "send"
                       /\ r.entry.trust = "pinned"
                       /\ r.entry.id = e.id /\ r.entry.version = e.version
  <2> DEFINE x == [run[p] EXCEPT !.pc = "pin", !.then = "send", !.entry.trust = "pinned"]
  <2>1. x \in Run
      BY <1>1, RunMoves DEF PCs, TrustStates
  <2>2. /\ x.pc = "pin" /\ x.then = "send" /\ x.entry.trust = "pinned"
        /\ x.entry.id = e.id /\ x.entry.version = e.version
      BY <1>1 DEF Run, Entry
  <2>3. Become(p, x)
      BY DEF PinSaved
  <2>. QED
      BY <2>1, <2>2, <2>3
<1>4. /\ recipients' = recipients /\ pins' = pins /\ UNCHANGED keys /\ told' = told
      /\ lifted' = lifted /\ sent' = sent /\ removes' = removes /\ faults' = faults
      /\ vouched \subseteq vouched' /\ vouched' \subseteq Ids \X Versions
    BY <1>1, <1>2 DEF PinSaved, TrustInv, TypeOK, bounds
<1>5. <<e.id, e.version>> \in vouched' /\ e.version \in lineage'[e.id][e.version]
    BY <1>1, <1>2, <1>4 DEF PinSaved, TrustInv, LineageInv, keys
<1>6. GroundedEntry(r.entry)'
    BY <1>3, <1>5 DEF GroundedEntry, Grounded
<1>7. SoundRun(r)'
    BY <1>3, <1>6 DEF SoundRun, Trusted
<1>. QED
    BY <1>3, <1>4, <1>7, CommandStep DEF TrustInv, TypeOK, PinStates

\* What a send is resolved to, once its entry is grounded.
LEMMA SendIsGrounded ==
    ASSUME NEW r \in Run, Grounded(r.entry.id, r.entry.version)
    PROVE  Send(r) \in Sends /\ Send(r).id = r.entry.id /\ Send(r).version = r.entry.version
    BY DEF Send, Sends, Run, Entry

LEMMA SendTrustedKeeps ==
    ASSUME TrustInv, NEW p \in Procs, SendTrusted(p)
    PROVE  TrustInv'
<1>1. run[p] \in Run /\ Grounded(run[p].entry.id, run[p].entry.version)
    BY Sending DEF SendTrusted, SoundEntry, GroundedEntry
<1>2. /\ recipients' = recipients /\ pins' = pins /\ UNCHANGED keys /\ told' = told
      /\ lifted' = lifted /\ vouched' = vouched /\ removes' = removes /\ faults' = faults
      /\ sent' = Send(run[p]) /\ Become(p, Idle)
    BY DEF SendTrusted, End, bounds
<1>3. sent' \in Sends /\ Grounded(sent'.id, sent'.version)
    BY <1>1, <1>2, SendIsGrounded
<1>4. Grounded(sent.id, sent.version)'
    BY <1>2, <1>3 DEF Grounded, keys
<1>5. SoundRun(Idle)'
    BY DEF Idle, SoundRun
<1>. QED
    BY <1>2, <1>3, <1>4, <1>5, CommandStep DEF TrustInv, TypeOK, PinStates

LEMMA RefuseSavedKeeps ==
    ASSUME TrustInv, NEW p \in Procs, RefuseSaved(p)
    PROVE  TrustInv'
    BY EndStep, BoundsStay DEF RefuseSaved, TrustInv, bounds
-----------------------------------------------------------------------------
LEMMA UnpinKeeps ==
    ASSUME TrustInv, NEW p \in Procs, Unpin(p)
    PROVE  TrustInv'
<1>1. PICK r \in Run : Become(p, r) /\ SoundRun(r)
  <2> DEFINE x == [run[p] EXCEPT !.pc = "load"]
  <2>1. run[p] \in Run /\ SoundRun(run[p]) /\ run[p].pc = "unpin"
      BY RunFields DEF TrustInv, Unpin, At
  <2>2. x \in Run
      BY <2>1, RunMoves DEF PCs
  <2>3. SoundRun(x)
      BY <2>1 DEF SoundRun, Run
  <2>. QED
      BY <2>2, <2>3 DEF Unpin, Goto
<1>2. run[p].entry.id \in Ids
    BY RunFields DEF TrustInv, Unpin, At
<1>3. pins' \in PinStates
    BY <1>2 DEF Unpin, TrustInv, TypeOK, PinStates
<1>4. /\ recipients' = recipients /\ UNCHANGED keys /\ told' = told /\ vouched' = vouched
      /\ lifted' = lifted /\ sent' = sent /\ removes' = removes /\ faults' = faults
    BY DEF Unpin, history, bounds
<1>5. SoundRun(r)'
    BY <1>1, <1>4 DEF SoundRun, SoundList, SoundEntry, GroundedEntry, ToldEntry, Grounded, keys
<1>. QED
    BY <1>1, <1>3, <1>4, <1>5, CommandStep DEF TrustInv, TypeOK

\* The service takes a pin: it is told of a trusted one.
LEMMA PinTells ==
    ASSUME TypeOK, NEW e \in Entry, Pin(e)
    PROVE  /\ pins' \in PinStates /\ told \subseteq told'
           /\ told' \subseteq Ids \X Versions \X TrustStates /\ ToldEntry(e)'
<1>1. e.id \in Ids /\ e.version \in Versions /\ e.trust \in TrustStates
    BY DEF Entry
<1>. QED
    BY <1>1 DEF Pin, TypeOK, PinStates, ToldEntry

LEMMA PutPinKeeps ==
    ASSUME TrustInv, NEW p \in Procs, PutPin(p)
    PROVE  TrustInv'
<1>1. PICK e \in Entry : e = run[p].entry /\ run[p] \in Run /\ GroundedEntry(e)
    BY RunFields DEF TrustInv, PutPin, At, SoundRun
<1>2. /\ pins' \in PinStates /\ told \subseteq told'
      /\ told' \subseteq Ids \X Versions \X TrustStates /\ ToldEntry(e)'
    BY <1>1, PinTells DEF PutPin, TrustInv
<1>3. /\ recipients' = recipients /\ UNCHANGED keys /\ vouched' = vouched
      /\ lifted' = lifted /\ sent' = sent /\ removes' = removes /\ faults' = faults
    BY DEF PutPin, bounds
<1>4. PICK r \in Run : /\ Become(p, r) /\ r.pc = "load" /\ r.entry = e
                       /\ (r.then = "send" => e.trust \in Trusted)
  <2> DEFINE x == [run[p] EXCEPT !.pc = "load"]
  <2>1. SoundRun(run[p]) /\ run[p].pc = "pin"
      BY DEF TrustInv, PutPin, At
  <2>2. x \in Run
      BY <1>1, RunMoves DEF PCs
  <2>3. x.pc = "load" /\ x.entry = e /\ (x.then = "send" => e.trust \in Trusted)
      BY <1>1, <2>1 DEF SoundRun, Run
  <2>. QED
      BY <2>2, <2>3 DEF PutPin, Goto
<1>5. SoundEntry(e)'
    BY <1>1, <1>2, <1>3 DEF SoundEntry, GroundedEntry, Grounded, keys
<1>6. SoundRun(r)'
    BY <1>4, <1>5 DEF SoundRun
<1>. QED
    BY <1>2, <1>3, <1>4, <1>6, CommandStep DEF TrustInv, TypeOK

LEMMA LoadKeeps ==
    ASSUME TrustInv, NEW p \in Procs, Load(p)
    PROVE  TrustInv'
<1> DEFINE r == [run[p] EXCEPT !.pc = "store", !.list = recipients]
<1>1. run[p] \in Run /\ SoundRun(run[p]) /\ run[p].pc = "load" /\ recipients \in List
    BY RunFields DEF TrustInv, TypeOK, Load, At
<1>2. r \in Run
    BY <1>1, RunMoves DEF PCs
<1>3. SoundRun(r)
    BY <1>1 DEF SoundRun, Run, TrustInv
<1>. QED
    BY <1>2, <1>3, QuietStep, BoundsStay DEF Load, TrustInv, bounds

\* What a command writes: what it read, with its own entry in one place.
LEMMA StoreKeeps ==
    ASSUME TrustInv, NEW p \in Procs, Store(p)
    PROVE  TrustInv'
<1>1. PICK e \in Entry, l \in List :
        e = run[p].entry /\ l = run[p].list /\ SoundEntry(e) /\ SoundList(l) /\ run[p] \in Run
    BY RunFields DEF TrustInv, Store, At, SoundRun
<1>2. /\ pins' = pins /\ UNCHANGED keys /\ told' = told /\ vouched' = vouched
      /\ lifted' = lifted /\ removes' = removes /\ faults' = faults /\ Become(p, Idle)
    BY DEF Store, End, bounds
<1>3. PICK s \in Slots : recipients' = [l EXCEPT ![s] = e]
    BY <1>1 DEF Store, PutSlots, Clashes
<1>4. recipients' \in List
    BY <1>3 DEF List
<1>5. SoundEntry(e)' /\ SoundList(l)'
    BY <1>1, <1>2 DEF SoundList, SoundEntry, GroundedEntry, ToldEntry, Grounded, keys
<1>6. SoundList(recipients)'
  <2> SUFFICES ASSUME NEW t \in Slots PROVE SoundEntry(recipients[t])'
      BY DEF SoundList
  <2>1. PICK x : x = recipients'[t] /\ SoundEntry(x)'
    <3>1. CASE t = s
        BY <3>1, <1>3, <1>5 DEF List
    <3>2. CASE t # s
      <4>1. PICK x : x = l[t]
          OBVIOUS
      <4>2. SoundEntry(x)'
          BY <4>1, <1>5 DEF SoundList
      <4>3. x = recipients'[t]
          BY <4>1, <3>2, <1>3 DEF List
      <4>. QED
          BY <4>2, <4>3
    <3>. QED
        BY <3>1, <3>2
  <2>. QED
      BY <2>1 DEF SoundEntry, GroundedEntry, ToldEntry, Grounded
<1>7. sent' = sent \/ (sent' \in Sends /\ Grounded(sent.id, sent.version)')
  <2>1. CASE run[p].then = "send"
    <3>1. Grounded(run[p].entry.id, run[p].entry.version)
        BY <2>1, <1>1 DEF TrustInv, Store, At, SoundRun, SoundEntry, GroundedEntry
    <3>2. sent' = Send(run[p])
        BY <2>1 DEF Store
    <3>3. sent' \in Sends /\ Grounded(sent'.id, sent'.version)
        BY <3>1, <3>2, <1>1, SendIsGrounded
    <3>. QED
        BY <3>3, <1>2 DEF Grounded, keys
  <2>2. CASE run[p].then # "send"
      BY <2>2 DEF Store
  <2>. QED
      BY <2>1, <2>2
<1>8. SoundRun(Idle)'
    BY DEF Idle, SoundRun
<1>. QED
    BY <1>2, <1>4, <1>6, <1>7, <1>8, CommandStep DEF TrustInv, TypeOK, PinStates

LEMMA StoreRemovedKeeps ==
    ASSUME TrustInv, NEW p \in Procs, StoreRemoved(p)
    PROVE  TrustInv'
<1>1. PICK l \in List : l = run[p].list /\ SoundList(l)
    BY RunFields DEF TrustInv, StoreRemoved, At, SoundRun
<1>2. /\ pins' = pins /\ UNCHANGED keys /\ told' = told /\ vouched' = vouched /\ sent' = sent
      /\ lifted' = lifted /\ removes' = removes /\ faults' = faults /\ Become(p, Idle)
    BY DEF StoreRemoved, End, history, bounds
<1>3. \/ recipients' = recipients
      \/ \E out \in SUBSET Slots : recipients' = [s \in Slots |-> IF s \in out THEN Nobody ELSE l[s]]
    BY <1>1 DEF StoreRemoved
<1>4. recipients' \in List
    BY <1>3 DEF List, TrustInv, TypeOK
<1>5. recipients' = recipients \/ SoundList(recipients)'
  <2> SUFFICES ASSUME NEW out \in SUBSET Slots,
                      recipients' = [s \in Slots |-> IF s \in out THEN Nobody ELSE l[s]],
                      NEW s \in Slots
               PROVE  SoundEntry(recipients[s])'
      BY <1>3 DEF SoundList
  <2>1. PICK x : x = recipients'[s] /\ (x = Nobody \/ x = l[s])
      OBVIOUS
  <2>2. SoundEntry(x)
      BY <2>1, <1>1 DEF SoundList, SoundEntry, GroundedEntry, ToldEntry, Nobody, Trusted
  <2>. QED
      BY <2>1, <2>2, <1>2 DEF SoundEntry, GroundedEntry, ToldEntry, Grounded, keys
<1>6. SoundRun(Idle)'
    BY DEF Idle, SoundRun
<1>. QED
    BY <1>2, <1>4, <1>5, <1>6, CommandStep DEF TrustInv, TypeOK, PinStates

LEMMA CutShortKeeps ==
    ASSUME TrustInv, NEW p \in Procs, CutShort(p)
    PROVE  TrustInv'
    BY EndStep, BoundsStay DEF CutShort, TrustInv

LEMMA AnswerLostKeeps ==
    ASSUME TrustInv, NEW p \in Procs, AnswerLost(p)
    PROVE  TrustInv'
<1>1. /\ recipients' = recipients /\ UNCHANGED keys /\ vouched' = vouched /\ sent' = sent
      /\ lifted' = lifted /\ removes' = removes /\ faults' \in 0..MaxFaults /\ Become(p, Idle)
    BY BoundsStay DEF AnswerLost, End, TrustInv
<1>2. run[p].entry \in Entry /\ run[p].entry.id \in Ids
    BY RunFields DEF TrustInv, AnswerLost, At
<1>3. pins' \in PinStates /\ told \subseteq told' /\ told' \subseteq Ids \X Versions \X TrustStates
  <2>1. CASE Pin(run[p].entry)
      BY <2>1, <1>2, PinTells DEF TrustInv
  <2>2. CASE pins' = [pins EXCEPT ![run[p].entry.id] = Nobody] /\ UNCHANGED told
      BY <2>2, <1>2 DEF TrustInv, TypeOK, PinStates
  <2>. QED
      BY <2>1, <2>2 DEF AnswerLost
<1>4. SoundRun(Idle)'
    BY DEF Idle, SoundRun
<1>. QED
    BY <1>1, <1>3, <1>4, CommandStep DEF TrustInv, TypeOK
-----------------------------------------------------------------------------
\* The service's steps leave the file and the commands alone, and grounds only grow.
LEMMA ServiceStep ==
    ASSUME TrustInv, TypeOK', LineageInv', Grows, UNCHANGED <<recipients, run, sent>>
    PROVE  TrustInv'
<1>1. SoundList(recipients)'
  <2>1. PICK l \in List : l = recipients
      BY DEF TrustInv, TypeOK
  <2>2. SoundList(l)'
      BY <2>1, SoundKept DEF TrustInv
  <2>. QED
      BY <2>1, <2>2 DEF SoundList, SoundEntry, GroundedEntry, ToldEntry, Grounded
<1>2. \A q \in Procs : SoundRun(run[q])'
  <2> TAKE q \in Procs
  <2>1. PICK x \in Run \cup {Idle} : x = run[q] /\ SoundRun(x)
      BY DEF TrustInv, TypeOK
  <2>2. SoundRun(x)'
      BY <2>1, SoundKept
  <2>. QED
      BY <2>1, <2>2 DEF SoundRun, SoundList, SoundEntry, GroundedEntry, ToldEntry, Grounded
<1>3. SendsGrounded'
  <2>1. CASE sent # NoSend
    <3>1. sent.id \in Ids /\ sent.version \in Versions /\ Grounded(sent.id, sent.version)
        BY <2>1 DEF TrustInv, TypeOK, SendsGrounded
    <3>. QED
        BY <3>1 DEF SendsGrounded, Grounded, Grows
  <2>. QED
      BY <2>1 DEF SendsGrounded
<1>. QED
    BY <1>1, <1>2, <1>3 DEF TrustInv

LEMMA NewKeysKeeps ==
    ASSUME TrustInv, NEW i \in Ids, NEW signed \in BOOLEAN, NewKeys(i, signed)
    PROVE  TrustInv'
<1> DEFINE v == versions[i] + 1
           old == IF signed THEN lineage[i][published[i]] ELSE {}
<1>1. /\ v \in Versions /\ published[i] \in Versions /\ published[i] < v
      /\ versions[i] \in Nat /\ changes + 1 \in 0..MaxChanges /\ v <= changes + 1
    BY TrustAssumption DEF NewKeys, TrustInv, TypeOK, Versions
<1>2. /\ versions' = [versions EXCEPT ![i] = v] /\ published' = [published EXCEPT ![i] = v]
      /\ lineage' = [lineage EXCEPT ![i][v] = {v} \cup old] /\ changes' = changes + 1
      /\ UNCHANGED <<recipients, run, sent>> /\ UNCHANGED <<pins, told, vouched, lifted, bounds>>
    BY DEF NewKeys, history
<1>3. lineage \in [Ids -> [Versions -> SUBSET Versions]] /\ old \subseteq Versions
    BY <1>1 DEF TrustInv, TypeOK
<1>4. \A w \in old : w < v /\ lineage[i][w] \subseteq old
    BY <1>1, <1>3 DEF TrustInv, LineageInv, Versions
<1>5. lineage' \in [Ids -> [Versions -> SUBSET Versions]]
    BY <1>1, <1>2, <1>3
<1>6. /\ lineage'[i][v] = {v} \cup old
      /\ \A j \in Ids, w \in Versions : j # i \/ w # v => lineage'[j][w] = lineage[j][w]
    BY <1>1, <1>2, <1>3
<1>7. TypeOK'
  <2>1. published' \in [Ids -> Versions] /\ versions' \in [Ids -> Versions]
      BY <1>1, <1>2 DEF TrustInv, TypeOK
  <2>2. changes' \in 0..MaxChanges
      BY <1>1, <1>2
  <2>3. \A j \in Ids : published'[j] <= versions'[j] /\ versions'[j] <= changes'
      BY <1>1, <1>2, TrustAssumption DEF TrustInv, TypeOK, Versions
  <2>. QED
      BY <1>2, <1>5, <2>1, <2>2, <2>3 DEF TrustInv, TypeOK, bounds
<1>8. Grows
  <2>1. lineage[i][v] = {v}
      BY <1>1 DEF TrustInv, LineageInv, Versions
  <2>. QED
      BY <1>2, <1>6, <2>1 DEF Grows
<1>9. LineageInv'
  <2> SUFFICES ASSUME NEW j \in Ids, NEW u \in Versions
               PROVE  /\ u \in lineage'[j][u]
                      /\ \A w \in lineage'[j][u] : w <= u /\ lineage'[j][w] \subseteq lineage'[j][u]
                      /\ u > versions'[j] => lineage'[j][u] = {u}
      BY DEF LineageInv
  <2>1. CASE j = i /\ u = v
    <3>1. \A w \in old : w <= v /\ lineage'[i][w] = lineage[i][w]
        BY <1>1, <1>3, <1>4, <1>6 DEF Versions
    <3>2. versions'[i] = v
        BY <1>2 DEF TrustInv, TypeOK
    <3>. QED
        BY <2>1, <3>1, <3>2, <1>1, <1>4, <1>6 DEF Versions
  <2>2. CASE j # i \/ u # v
    <3>1. lineage'[j][u] = lineage[j][u] /\ lineage[j][u] \subseteq Versions
        BY <2>2, <1>3, <1>6
    <3>2. \A w \in lineage[j][u] : j # i \/ w # v
        BY <2>2, <1>1 DEF TrustInv, LineageInv, Versions
    <3>3. \A w \in lineage[j][u] : lineage'[j][w] = lineage[j][w]
        BY <3>1, <3>2, <1>6
    <3>4. u > versions'[j] => u > versions[j]
        BY <1>1, <1>2 DEF TrustInv, TypeOK, Versions
    <3>. QED
        BY <3>1, <3>3, <3>4 DEF TrustInv, LineageInv
  <2>. QED
      BY <2>1, <2>2
<1>. QED
    BY <1>2, <1>7, <1>8, <1>9, ServiceStep

LEMMA RepublishKeeps ==
    ASSUME TrustInv, NEW i \in Ids, Republish(i)
    PROVE  TrustInv'
<1>1. PICK v \in 0..versions[i] : published' = [published EXCEPT ![i] = v]
    BY DEF Republish
<1>2. /\ UNCHANGED <<recipients, pins, lineage, versions, run, history, bounds>>
      /\ changes' = changes + 1 /\ changes < MaxChanges
    BY DEF Republish
<1>3. v \in Versions /\ v <= versions[i] /\ changes + 1 \in 0..MaxChanges
    BY <1>2, TrustAssumption DEF TrustInv, TypeOK, Versions
<1>4. published' \in [Ids -> Versions]
    BY <1>1, <1>3 DEF TrustInv, TypeOK
<1>5. \A j \in Ids : published'[j] <= versions'[j] /\ versions'[j] <= changes'
    BY <1>1, <1>2, <1>3, TrustAssumption DEF TrustInv, TypeOK, Versions
<1>6. TypeOK'
    BY <1>2, <1>3, <1>4, <1>5 DEF TrustInv, TypeOK, history, bounds
<1>7. LineageInv' /\ Grows
    BY <1>2 DEF TrustInv, LineageInv, Grows, history
<1>. QED
    BY <1>2, <1>6, <1>7, ServiceStep DEF history
-----------------------------------------------------------------------------
LEMMA StartKeeps ==
    ASSUME TrustInv, NEW p \in Procs, Start(p)
    PROVE  TrustInv'
<1>1. CASE \E i \in Ids, a \in Aliases : \E want \in 0..versions[i] : StartAdd(p, i, a, want)
    BY <1>1, StartAddKeeps
<1>2. ASSUME NEW ref \in Refs, NEW s \in Slots, NEW e, e = recipients[s], e # Nobody,
             \/ StartVerify(p, ref, e) \/ StartRemove(p, ref, e)
             \/ \E expect \in 0..versions[e.id] \cup {None}, tofu \in BOOLEAN :
                  StartSend(p, ref, e, expect, tofu)
      PROVE  TrustInv'
  <2>1. e.id \in Ids
      BY <1>2 DEF TrustInv, TypeOK, List, Entry
  <2>2. 0..versions[e.id] \subseteq Versions
      BY <2>1, TrustAssumption DEF TrustInv, TypeOK, Versions
  <2>. QED
      BY <1>2, <2>2, StartVerifyKeeps, StartRemoveKeeps, StartSendKeeps
<1>. QED
    BY <1>1, <1>2 DEF Start

LEMMA WorkKeeps ==
    ASSUME TrustInv, NEW p \in Procs, Work(p)
    PROVE  TrustInv'
    BY FetchAddKeeps, CompareKeeps, LiftKeeps, DifferKeeps, PinSavedKeeps, SendTrustedKeeps,
       RefuseSavedKeeps, PutPinKeeps, UnpinKeeps, LoadKeeps, StoreKeeps, StoreRemovedKeeps
    DEF Work

LEMMA NextKeeps ==
    ASSUME TrustInv, Next
    PROVE  TrustInv'
    BY StartKeeps, WorkKeeps, CutShortKeeps, AnswerLostKeeps, NewKeysKeeps, RepublishKeeps
    DEF Next

LEMMA StutterKeeps ==
    ASSUME TrustInv, UNCHANGED vars
    PROVE  TrustInv'
<1>1. /\ UNCHANGED <<recipients, pins, run, sent, told, vouched, lifted, removes, faults>>
      /\ UNCHANGED <<published, lineage, versions, changes>>
    BY DEF vars, keys, history, bounds
<1>2. TypeOK' /\ LineageInv' /\ Grows
    BY <1>1 DEF TrustInv, TypeOK, LineageInv, Grows
<1>. QED
    BY <1>1, <1>2, ServiceStep

LEMMA InitTrust == Init => TrustInv
<1> SUFFICES ASSUME Init PROVE TrustInv
    OBVIOUS
<1>1. TypeOK
    BY TrustAssumption, IdleIsSound
    DEF Init, TypeOK, List, Empty, Versions, NoSend
<1>2. LineageInv
    BY TrustAssumption DEF Init, LineageInv, Versions
<1>3. SoundList(recipients)
    BY DEF Init, SoundList, Empty, SoundEntry, GroundedEntry, ToldEntry, Nobody, Trusted
<1>4. \A p \in Procs : SoundRun(run[p])
    BY DEF Init, SoundRun, Idle
<1>5. SendsGrounded
    BY DEF Init, SendsGrounded
<1>. QED
    BY <1>1, <1>2, <1>3, <1>4, <1>5 DEF TrustInv

LEMMA TrustInvariant == Spec => []TrustInv
<1>1. TrustInv /\ [Next]_vars => TrustInv'
    BY NextKeeps, StutterKeeps
<1>. QED
    BY InitTrust, <1>1, PTL DEF Spec

\* recipients.json, the pins and every command's own copies keep their types.
THEOREM TrustTypes == Spec => []TypeOK
<1>1. TrustInv => TypeOK
    BY DEF TrustInv
<1>. QED
    BY <1>1, TrustInvariant, PTL

\* A send goes to keys the operator vouched for or to their signed successors, or to keys
\* that a signed rotation lifted; however many commands run at once, and wherever they stop.
THEOREM TrustSendsGrounded == Spec => []SendsGrounded
<1>1. TrustInv => SendsGrounded
    BY DEF TrustInv
<1>. QED
    BY <1>1, TrustInvariant, PTL

\* What recipients.json trusts was pinned at the service before.
THEOREM TrustIsTold == Spec => []TrustTold
<1>1. TrustInv => TrustTold
    BY DEF TrustInv, TrustTold, SoundList, SoundEntry, ToldEntry
<1>. QED
    BY <1>1, TrustInvariant, PTL
=============================================================================
