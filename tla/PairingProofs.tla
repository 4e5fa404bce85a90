---------------------------- MODULE PairingProofs -----------------------------
(***************************************************************************)
(* Proofs about Pairing, for any receivers, lifetime and faults.  What     *)
(* makes the properties inductive: the receiver that entered the room      *)
(* first stays its holder, a command's key is its own, and a room that has *)
(* been approved is bound by the device alone.                             *)
(***************************************************************************)
EXTENDS Pairing, TLAPS

Drawn == 1..drawn

\* The room: who holds it, and how it got there.
RoomInv ==
    /\ room \in {"none", "pending"} <=> holder = NoKey
    /\ holder # NoKey => holder \in Drawn
    /\ room \in {"approved", "bound"} => holder \in said
    /\ room = "bound" <=> envelope # NoKey
    /\ envelope # NoKey => envelope = holder /\ envelope \in sealed

\* The device: it binds for the holder only, and fails for a reason that lasts.
DeviceInv ==
    /\ device.pc = "idle" <=> room = "none"
    /\ device.pc = "bind" => device.attempt = holder /\ holder \in sealed /\ room \in {"approved", "crowded"}
    /\ device.pc = "failed" => Over \/ room = "crowded"

\* A command: its key is its own, and approved from the prompt on.
RunInv ==
    /\ \A p \in Receivers : ~At(p, "idle") =>
         /\ room # "none" /\ run[p].key \in Drawn \ gaveUp /\ run[p].deadline >= Life
         /\ run[p].pc \in {"approve", "poll"} <=> run[p].key \in said
    /\ \A p, q \in Receivers : p # q /\ ~At(p, "idle") /\ ~At(q, "idle") => run[p].key # run[q].key

\* A command that gave up did so for a reason that lasts.
GaveUpInv == \A k \in gaveUp : Over \/ room = "crowded" \/ k # holder

PairingInv ==
    /\ TypeOK
    /\ RoomInv /\ DeviceInv /\ RunInv /\ GaveUpInv
    /\ started = drawn /\ said \cup gaveUp \subseteq Drawn
    /\ ApprovedBeforeSecret /\ CrowdedByTwo
-----------------------------------------------------------------------------
LEMMA RunFields ==
    ASSUME PairingInv, NEW p \in Receivers, ~At(p, "idle")
    PROVE  /\ run[p] \in Run /\ run[p].key \in Drawn \ gaveUp /\ run[p].key \in Keys
           /\ run[p].deadline \in Times /\ run[p].deadline >= Life /\ room # "none"
           /\ run[p].pc \in {"approve", "poll"} <=> run[p].key \in said
<1>1. run[p] \in Run
    BY DEF PairingInv, TypeOK, At, Idle
<1>2. run[p].key \in Keys /\ run[p].deadline \in Times
    BY <1>1 DEF Run
<1>. QED
    BY <1>1, <1>2 DEF PairingInv, RunInv

LEMMA OverLasts ==
    ASSUME TypeOK, now' = now \/ now' = now + 1
    PROVE  Over => Over'
    BY PairingAssumption DEF TypeOK, Over, Times

\* What the service does to the room when a running command's key enters it.
LEMMA EnterRoom ==
    ASSUME PairingInv, NEW k \in Drawn \ gaveUp, k \in Keys, room # "none",
           Enters(k) \/ UNCHANGED service,
           UNCHANGED <<now, device, counters, said, sealed>>
    PROVE  /\ room' \in {"pending", "attempted", "approved", "bound", "crowded"}
           /\ holder' \in Keys \cup {NoKey} /\ envelope' \in Keys \cup {NoKey}
           /\ RoomInv' /\ DeviceInv' /\ CrowdedByTwo' /\ GaveUpInv
           /\ \A j \in gaveUp : Over \/ room' = "crowded" \/ j # holder'
           /\ Enters(k) /\ ~Entered(k) /\ k \notin said => Over \/ room' = "crowded" \/ k # holder'
<1>1. /\ holder \in Keys \cup {NoKey} /\ envelope \in Keys \cup {NoKey} /\ drawn \in Nat
      /\ room \in {"pending", "attempted", "approved", "bound", "crowded"} /\ k # NoKey
    BY DEF PairingInv, TypeOK, Keys, NoKey
<1>2. RoomInv /\ DeviceInv /\ GaveUpInv /\ CrowdedByTwo /\ started = drawn
    BY DEF PairingInv
<1>3. /\ now' = now /\ device' = device /\ drawn' = drawn /\ started' = started
      /\ said' = said /\ sealed' = sealed
    BY DEF counters
<1>4. CASE UNCHANGED service
  <2>1. room' = room /\ holder' = holder /\ envelope' = envelope
      BY <1>4 DEF service
  <2>2. RoomInv' /\ DeviceInv' /\ CrowdedByTwo'
      BY <1>2, <1>3, <2>1 DEF RoomInv, DeviceInv, CrowdedByTwo, Over, Drawn
  <2>3. ~Entered(k) /\ k \notin said => Over \/ room = "crowded" \/ k # holder
      BY <1>1, <1>2 DEF Entered, State, RoomInv
  <2>. QED
      BY <1>1, <1>2, <2>1, <2>2, <2>3 DEF GaveUpInv
<1>5. CASE Enters(k) /\ State = "pending"
  <2>1. room = "pending" /\ room' = "attempted" /\ holder' = k /\ envelope' = envelope
      BY <1>5 DEF Enters, State
  <2>2. RoomInv' /\ DeviceInv' /\ CrowdedByTwo'
      BY <1>1, <1>2, <1>3, <2>1 DEF RoomInv, DeviceInv, CrowdedByTwo, Over, Drawn
  <2>3. Entered(k)
      BY <1>5 DEF Entered
  <2>. QED
      BY <1>1, <1>2, <2>1, <2>2, <2>3
<1>6. CASE Enters(k) /\ State \in {"attempted", "approved"} /\ holder # k
  <2>1. /\ room \in {"attempted", "approved"} /\ room' = "crowded"
        /\ holder' = holder /\ envelope' = envelope
      BY <1>6 DEF Enters, State
  <2>2. holder \in Drawn /\ started > 1
      BY <1>1, <1>2, <1>6, <2>1 DEF RoomInv, Drawn
  <2>3. RoomInv' /\ DeviceInv' /\ CrowdedByTwo'
      BY <1>1, <1>2, <1>3, <2>1, <2>2 DEF RoomInv, DeviceInv, CrowdedByTwo, Over, Drawn
  <2>. QED
      BY <1>1, <1>2, <2>1, <2>3
<1>. QED
    BY <1>4, <1>5, <1>6 DEF Enters

\* And when an approval arrives whose operator has said yes.
LEMMA ApproveRoom ==
    ASSUME PairingInv, NEW k \in said, room # "none",
           Approves(k) \/ UNCHANGED service,
           UNCHANGED <<now, device, counters, said, sealed>>
    PROVE  /\ room' \in {"pending", "attempted", "approved", "bound", "crowded"}
           /\ holder' = holder /\ envelope' = envelope
           /\ room = "crowded" => room' = "crowded"
           /\ RoomInv' /\ DeviceInv' /\ CrowdedByTwo'
           /\ ~Approved(k) => Over \/ room' = "crowded" \/ k # holder'
<1>1. /\ drawn \in Nat /\ room \in {"pending", "attempted", "approved", "bound", "crowded"}
      /\ k # NoKey /\ RoomInv /\ DeviceInv /\ CrowdedByTwo
    BY DEF PairingInv, TypeOK, Keys, NoKey
<1>2. /\ now' = now /\ device' = device /\ drawn' = drawn /\ started' = started
      /\ said' = said /\ sealed' = sealed
    BY DEF counters
<1>3. \/ room' = room /\ holder' = holder /\ envelope' = envelope
      \/ room = "attempted" /\ holder = k /\ room' = "approved" /\ holder' = holder /\ envelope' = envelope
    BY DEF Approves, State, service
<1>4. RoomInv' /\ DeviceInv' /\ CrowdedByTwo'
    BY <1>1, <1>2, <1>3 DEF RoomInv, DeviceInv, CrowdedByTwo, Over, Drawn
<1>5. ~Approved(k) => Over \/ room = "crowded" \/ k # holder
    BY <1>1 DEF Approved, State, RoomInv
<1>. QED
    BY <1>1, <1>3, <1>4, <1>5

\* A step of receiver p to r, which may leave the room further on and let its key give up,
\* or be approved, keeps the invariant.
LEMMA ReceiverStep ==
    ASSUME PairingInv, NEW p \in Receivers, ~At(p, "idle"),
           NEW r \in Run \cup {Idle}, Become(p, r),
           r.pc # "idle" => r.key = run[p].key /\ r.deadline = run[p].deadline,
           UNCHANGED <<now, device, counters, sealed>>,
           down' = down, faults' \in 0..MaxFaults,
           room' \in {"pending", "attempted", "approved", "bound", "crowded"},
           holder' \in Keys \cup {NoKey}, envelope' \in Keys \cup {NoKey},
           RoomInv', DeviceInv', CrowdedByTwo',
           said' \in {said, said \cup {run[p].key}},
           r.pc # "idle" => (r.pc \in {"approve", "poll"} <=> run[p].key \in said'),
           opened' \in {opened, opened \cup {run[p].key}},
           opened' # opened => run[p].key \in sealed,
           \A j \in gaveUp : Over \/ room' = "crowded" \/ j # holder',
           \/ gaveUp' = gaveUp
           \/ /\ gaveUp' = gaveUp \cup {run[p].key} /\ r.pc = "idle"
              /\ Over \/ room' = "crowded" \/ run[p].key # holder'
    PROVE  PairingInv'
<1>1. /\ run[p] \in Run /\ run[p].key \in Drawn \ gaveUp /\ run[p].key \in Keys
      /\ run[p].deadline >= Life
    BY RunFields
<1>2. /\ now' = now /\ device' = device /\ drawn' = drawn /\ started' = started /\ sealed' = sealed
    BY DEF counters
<1>3. run' = [run EXCEPT ![p] = r] /\ run \in [Receivers -> Run \cup {Idle}]
    BY DEF Become, PairingInv, TypeOK
<1>4. TypeOK'
    BY <1>1, <1>2, <1>3 DEF PairingInv, TypeOK
<1>5. ASSUME NEW q \in Receivers, run'[q].pc # "idle"
      PROVE  /\ ~At(q, "idle") /\ run'[q].key = run[q].key /\ run'[q].deadline = run[q].deadline
             /\ q # p => run'[q].pc = run[q].pc /\ run[q].key # run[p].key
             /\ q = p => run'[q] = r
    BY <1>3, <1>5 DEF At, PairingInv, RunInv
<1>6. RunInv'
  <2>1. ASSUME NEW q \in Receivers, run'[q].pc # "idle"
        PROVE  /\ room' # "none" /\ run'[q].key \in Drawn \ gaveUp' /\ run'[q].deadline >= Life
               /\ run'[q].pc \in {"approve", "poll"} <=> run'[q].key \in said'
    <3>1. /\ run[q].key \in Drawn \ gaveUp /\ run[q].deadline >= Life
          /\ run[q].pc \in {"approve", "poll"} <=> run[q].key \in said
        BY <2>1, <1>5 DEF PairingInv, RunInv
    <3>2. CASE q = p
        BY <3>1, <3>2, <2>1, <1>5
    <3>3. CASE q # p
        BY <3>1, <3>3, <2>1, <1>5
    <3>. QED
        BY <3>2, <3>3
  <2>2. ASSUME NEW q \in Receivers, NEW q2 \in Receivers, q # q2,
               run'[q].pc # "idle", run'[q2].pc # "idle"
        PROVE  run'[q].key # run'[q2].key
      BY <2>2, <1>5 DEF PairingInv, RunInv
  <2>3. Drawn' = Drawn
      BY <1>2 DEF Drawn
  <2>. QED
      BY <2>1, <2>2, <2>3 DEF RunInv, At
<1>7. GaveUpInv'
    BY <1>2 DEF GaveUpInv, Over
<1>8. /\ started' = drawn' /\ said' \cup gaveUp' \subseteq Drawn'
      /\ ApprovedBeforeSecret'
    BY <1>1, <1>2 DEF PairingInv, ApprovedBeforeSecret, Drawn
<1>. QED
    BY <1>4, <1>6, <1>7, <1>8 DEF PairingInv

LEMMA StutterKeeps ==
    ASSUME PairingInv, UNCHANGED vars
    PROVE  PairingInv'
<1>1. /\ room' = room /\ holder' = holder /\ envelope' = envelope /\ now' = now /\ down' = down
      /\ device' = device /\ run' = run /\ drawn' = drawn /\ started' = started /\ said' = said
      /\ sealed' = sealed /\ opened' = opened /\ gaveUp' = gaveUp /\ faults' = faults
    BY DEF vars, service, counters
<1>2. TypeOK' /\ RoomInv' /\ DeviceInv' /\ GaveUpInv'
    BY <1>1 DEF PairingInv, TypeOK, RoomInv, DeviceInv, GaveUpInv, Over, Drawn
<1>3. RunInv'
    BY <1>1, ZenonT(30) DEF PairingInv, RunInv, Drawn, At
<1>4. ApprovedBeforeSecret' /\ CrowdedByTwo'
    BY <1>1 DEF PairingInv, ApprovedBeforeSecret, CrowdedByTwo
<1>. QED
    BY <1>1, <1>2, <1>3, <1>4 DEF PairingInv, Drawn

\* Time, and the loss of the service, only make a lasting reason last.
LEMMA ClockKeeps ==
    ASSUME PairingInv, Tick \/ GoDown
    PROVE  PairingInv'
<1>1. /\ room' = room /\ holder' = holder /\ envelope' = envelope
      /\ device' = device /\ run' = run /\ drawn' = drawn /\ started' = started /\ said' = said
      /\ sealed' = sealed /\ opened' = opened /\ gaveUp' = gaveUp /\ faults' = faults
    BY DEF Tick, GoDown, service, counters
<1>2. TypeOK /\ now' \in Times /\ down' \in BOOLEAN /\ (now' = now \/ now' = now + 1)
  <2>1. TypeOK /\ now \in Times /\ down \in BOOLEAN
      BY DEF PairingInv, TypeOK
  <2>2. CASE Tick
      BY <2>1, <2>2, PairingAssumption DEF Tick, Times
  <2>3. CASE GoDown
      BY <2>1, <2>3 DEF GoDown
  <2>. QED
      BY <2>2, <2>3
<1>3. Over => Over'
    BY <1>2, OverLasts
<1>4. TypeOK'
    BY <1>1, <1>2 DEF TypeOK
<1>5. RoomInv' /\ RunInv' /\ CrowdedByTwo' /\ ApprovedBeforeSecret'
    BY <1>1 DEF PairingInv, RoomInv, RunInv, CrowdedByTwo, ApprovedBeforeSecret, Drawn, At
<1>6. DeviceInv' /\ GaveUpInv'
    BY <1>1, <1>3 DEF PairingInv, DeviceInv, GaveUpInv
<1>. QED
    BY <1>1, <1>4, <1>5, <1>6 DEF PairingInv, Drawn

\* A step of the device, which may take an approved room to bound.
LEMMA DeviceStep ==
    ASSUME PairingInv, device' \in Device, faults' \in 0..MaxFaults,
           UNCHANGED <<now, down, run, counters, said, opened, gaveUp>>,
           sealed \subseteq sealed', sealed' \subseteq said,
           holder' = holder,
           \/ room' = room /\ envelope' = envelope
           \/ room = "none" /\ room' = "pending" /\ envelope' = envelope
           \/ room = "approved" /\ room' = "bound" /\ envelope' = holder /\ holder \in sealed,
           DeviceInv'
    PROVE  PairingInv'
<1>1. /\ now' = now /\ down' = down /\ run' = run /\ drawn' = drawn /\ started' = started
      /\ said' = said /\ opened' = opened /\ gaveUp' = gaveUp
    BY DEF counters
<1>2. TypeOK'
    BY <1>1 DEF PairingInv, TypeOK
<1>3. RoomInv' /\ CrowdedByTwo' /\ ApprovedBeforeSecret'
    BY <1>1 DEF PairingInv, RoomInv, CrowdedByTwo, ApprovedBeforeSecret, TypeOK, Drawn, Keys, NoKey
<1>4. RunInv' /\ GaveUpInv'
    BY <1>1 DEF PairingInv, RunInv, GaveUpInv, Over, Drawn, At
<1>. QED
    BY <1>1, <1>2, <1>3, <1>4 DEF PairingInv, Drawn

LEMMA DeviceKeeps ==
    ASSUME PairingInv, Offer \/ DeviceWork \/ BindLost \/ DeviceStops
    PROVE  PairingInv'
<1>1. /\ device \in Device /\ TypeOK /\ RoomInv /\ DeviceInv /\ ApprovedBeforeSecret
      /\ holder \in Keys \cup {NoKey} /\ MaxFaults \in Nat /\ faults \in 0..MaxFaults
    BY PairingAssumption DEF PairingInv, TypeOK
<1>2. CASE Offer
  <2>1. /\ room = "none" /\ room' = "pending" /\ holder' = holder /\ envelope' = envelope
        /\ device' = [device EXCEPT !.pc = "poll"] /\ now' = now
      BY <1>1, <1>2 DEF Offer, DeviceGoto, DeviceInv
  <2>2. device' \in Device /\ DeviceInv'
      BY <1>1, <2>1 DEF Device, DeviceInv
  <2>. QED
      BY <1>1, <1>2, <2>1, <2>2, DeviceStep DEF Offer, ApprovedBeforeSecret
<1>3. CASE PollDevice
  <2>1. /\ device.pc = "poll" /\ ~Over /\ UNCHANGED service /\ now' = now /\ room # "none"
        /\ UNCHANGED <<down, run, counters, said, opened, gaveUp, faults>>
      BY <1>1, <1>3 DEF PollDevice, DeviceInv
  <2>2. CASE DeviceAction(State) = "bind"
    <3>1. room = "approved" /\ holder \in said /\ holder \in Keys
        BY <1>1, <2>1, <2>2 DEF DeviceAction, State, RoomInv, Keys, NoKey
    <3>2. device' = [pc |-> "bind", attempt |-> holder] /\ sealed' = sealed \cup {holder}
        BY <1>3, <2>2 DEF PollDevice
    <3>3. device' \in Device /\ DeviceInv'
        BY <3>1, <3>2, <2>1 DEF Device, DeviceInv, service
    <3>. QED
        BY <1>1, <2>1, <3>1, <3>2, <3>3, DeviceStep DEF service, ApprovedBeforeSecret
  <2>3. CASE DeviceAction(State) # "bind"
    <3>1. PICK pc \in {"poll", "done", "failed"} : device' = [device EXCEPT !.pc = pc] /\ sealed' = sealed
                /\ (pc = "failed" => DeviceAction(State) = "fail")
        BY <1>3, <2>1, <2>3 DEF PollDevice, DeviceAction
    <3>2. DeviceAction(State) = "fail" => room = "crowded"
        BY <1>1, <2>1 DEF DeviceAction, State, TypeOK
    <3>3. device' \in Device /\ device'.pc = pc /\ device'.attempt = device.attempt
        BY <1>1, <3>1 DEF Device
    <3>4. DeviceInv'
        BY <3>1, <3>2, <3>3, <2>1 DEF DeviceInv, service, Over
    <3>. QED
        BY <1>1, <2>1, <3>1, <3>3, <3>4, DeviceStep DEF service, ApprovedBeforeSecret
  <2>. QED
      BY <2>2, <2>3
<1>4. ASSUME device.pc = "bind", Binds(device.attempt) \/ UNCHANGED service
      PROVE  /\ room # "none" /\ holder' = holder
             /\ \/ room' = room /\ envelope' = envelope
                \/ room = "approved" /\ room' = "bound" /\ envelope' = holder /\ holder \in sealed
             /\ Binds(device.attempt) /\ ~Bindable(device.attempt) => Over \/ room' = "crowded"
    BY <1>1, <1>4 DEF DeviceInv, Binds, Bindable, State, service
<1>5. CASE Bind
  <2>1. PICK pc \in {"done", "failed"} : device' = [device EXCEPT !.pc = pc]
              /\ (pc = "failed" => ~Bindable(device.attempt))
      BY <1>5 DEF Bind, DeviceGoto
  <2>2. device' \in Device /\ device'.pc = pc
      BY <1>1, <2>1 DEF Device
  <2>3. DeviceInv'
      BY <1>4, <1>5, <2>1, <2>2 DEF Bind, DeviceInv, Over
  <2>. QED
      BY <1>1, <1>4, <1>5, <2>2, <2>3, DeviceStep DEF Bind, ApprovedBeforeSecret
<1>6. CASE BindLost
  <2>1. device' \in Device /\ device'.pc = "poll" /\ faults' \in 0..MaxFaults
      BY <1>1, <1>6 DEF BindLost, DeviceGoto, Device
  <2>2. DeviceInv'
      BY <1>4, <1>6, <2>1 DEF BindLost, DeviceInv, Over
  <2>. QED
      BY <1>1, <1>4, <1>6, <2>1, <2>2, DeviceStep DEF BindLost, ApprovedBeforeSecret
<1>7. CASE BindUnsent \/ DeviceExpires \/ DeviceStops
  <2>1. PICK pc \in {"poll", "failed", "stopped"} : device' = [device EXCEPT !.pc = pc]
              /\ (pc = "failed" => Over)
      BY <1>7 DEF BindUnsent, DeviceExpires, DeviceStops, DeviceGoto
  <2>2. /\ device.pc # "idle" /\ UNCHANGED <<service, now, down, run, counters, said, opened, gaveUp>>
        /\ sealed' = sealed /\ faults' = faults
      BY <1>7 DEF BindUnsent, DeviceExpires, DeviceStops
  <2>3. device' \in Device /\ device'.pc = pc
      BY <1>1, <2>1 DEF Device
  <2>4. DeviceInv'
      BY <1>1, <2>1, <2>2, <2>3 DEF DeviceInv, Over, service
  <2>. QED
      BY <1>1, <2>2, <2>3, <2>4, DeviceStep DEF service, ApprovedBeforeSecret
<1>. QED
    BY <1>2, <1>3, <1>5, <1>6, <1>7 DEF DeviceWork

\* A receiver's request, sent, or lost on either way.
LEMMA EnterKeeps ==
    ASSUME PairingInv, NEW p \in Receivers, Enter(p) \/ EnterLost(p)
    PROVE  PairingInv'
<1>1. ~At(p, "idle") /\ run[p].pc = "attempt"
    BY DEF Enter, EnterLost, At
<1>2. PICK k : k = run[p].key
    OBVIOUS
<1>3. /\ run[p] \in Run /\ k \in Drawn \ gaveUp /\ k \in Keys /\ room # "none" /\ k \notin said
      /\ faults \in 0..MaxFaults /\ MaxFaults \in Nat
    BY <1>1, <1>2, RunFields, PairingAssumption DEF PairingInv, TypeOK
<1>4. /\ Enters(k) \/ UNCHANGED service
      /\ UNCHANGED <<now, device, counters, said, sealed>> /\ down' = down /\ opened' = opened
    BY <1>2 DEF Enter, EnterLost
<1>5. /\ room' \in {"pending", "attempted", "approved", "bound", "crowded"}
      /\ holder' \in Keys \cup {NoKey} /\ envelope' \in Keys \cup {NoKey}
      /\ RoomInv' /\ DeviceInv' /\ CrowdedByTwo'
      /\ \A j \in gaveUp : Over \/ room' = "crowded" \/ j # holder'
      /\ Enters(k) /\ ~Entered(k) => Over \/ room' = "crowded" \/ k # holder'
    BY <1>3, <1>4, EnterRoom
<1>6. CASE Enter(p) /\ Entered(k)
  <2>1. PICK r : r = [run[p] EXCEPT !.pc = "ask", !.failed = FALSE]
      OBVIOUS
  <2>2. /\ r \in Run /\ r.pc = "ask" /\ r.key = run[p].key /\ r.deadline = run[p].deadline
      BY <1>3, <2>1 DEF Run
  <2>3. Become(p, r) /\ gaveUp' = gaveUp /\ faults' = faults
      BY <1>2, <1>6, <2>1 DEF Enter, Answered, Goto
  <2>. QED
      BY <1>1, <1>2, <1>3, <1>4, <1>5, <2>2, <2>3, ReceiverStep
<1>7. CASE Enter(p) /\ ~Entered(k)
  <2>1. Become(p, Idle) /\ gaveUp' = gaveUp \cup {run[p].key} /\ faults' = faults /\ Enters(k)
      BY <1>2, <1>7 DEF Enter, Answered, End
  <2>2. Idle.pc = "idle" /\ Idle \in Run \cup {Idle}
      BY DEF Idle
  <2>. QED
      BY <1>1, <1>2, <1>3, <1>4, <1>5, <1>7, <2>1, <2>2, ReceiverStep
<1>8. CASE EnterLost(p)
  <2>1. PICK r : r = [run[p] EXCEPT !.failed = TRUE]
      OBVIOUS
  <2>2. /\ r \in Run /\ r.pc = "attempt" /\ r.key = run[p].key /\ r.deadline = run[p].deadline
      BY <1>1, <1>3, <2>1 DEF Run
  <2>3. Become(p, r) /\ gaveUp' = gaveUp /\ faults' \in 0..MaxFaults
      BY <1>3, <1>8, <2>1 DEF EnterLost
  <2>. QED
      BY <1>1, <1>2, <1>3, <1>4, <1>5, <2>2, <2>3, ReceiverStep
<1>. QED
    BY <1>6, <1>7, <1>8

LEMMA ApproveKeeps ==
    ASSUME PairingInv, NEW p \in Receivers, Approve(p) \/ ApproveLost(p)
    PROVE  PairingInv'
<1>1. ~At(p, "idle") /\ run[p].pc = "approve"
    BY DEF Approve, ApproveLost, At
<1>2. PICK k : k = run[p].key
    OBVIOUS
<1>3. /\ run[p] \in Run /\ k \in said /\ k \in Keys /\ room # "none"
      /\ faults \in 0..MaxFaults /\ MaxFaults \in Nat
      /\ holder \in Keys \cup {NoKey} /\ envelope \in Keys \cup {NoKey} /\ GaveUpInv
    BY <1>1, <1>2, RunFields, PairingAssumption DEF PairingInv, TypeOK
<1>4. /\ Approves(k) \/ UNCHANGED service
      /\ UNCHANGED <<now, device, counters, said, sealed>> /\ down' = down /\ opened' = opened
      /\ said' = said
    BY <1>2 DEF Approve, ApproveLost
<1>5. /\ room' \in {"pending", "attempted", "approved", "bound", "crowded"}
      /\ holder' = holder /\ envelope' = envelope /\ (room = "crowded" => room' = "crowded")
      /\ RoomInv' /\ DeviceInv' /\ CrowdedByTwo'
      /\ ~Approved(k) => Over \/ room' = "crowded" \/ k # holder'
    BY <1>3, <1>4, ApproveRoom
<1>6. \A j \in gaveUp : Over \/ room' = "crowded" \/ j # holder'
    BY <1>3, <1>5 DEF GaveUpInv
<1>7. CASE Approve(p) /\ Approved(k)
  <2>1. PICK r : r = [run[p] EXCEPT !.pc = "poll", !.failed = FALSE]
      OBVIOUS
  <2>2. /\ r \in Run /\ r.pc = "poll" /\ r.key = run[p].key /\ r.deadline = run[p].deadline
      BY <1>3, <2>1 DEF Run
  <2>3. Become(p, r) /\ gaveUp' = gaveUp /\ faults' = faults
      BY <1>2, <1>7, <2>1 DEF Approve, Answered, Goto
  <2>. QED
      BY <1>1, <1>2, <1>3, <1>4, <1>5, <1>6, <2>2, <2>3, ReceiverStep
<1>8. CASE Approve(p) /\ ~Approved(k)
  <2>1. Become(p, Idle) /\ gaveUp' = gaveUp \cup {run[p].key} /\ faults' = faults
      BY <1>2, <1>8 DEF Approve, Answered, End
  <2>2. Idle.pc = "idle" /\ Idle \in Run \cup {Idle}
      BY DEF Idle
  <2>. QED
      BY <1>1, <1>2, <1>3, <1>4, <1>5, <1>6, <1>8, <2>1, <2>2, ReceiverStep
<1>9. CASE ApproveLost(p)
  <2>1. PICK r : r = [run[p] EXCEPT !.failed = TRUE]
      OBVIOUS
  <2>2. /\ r \in Run /\ r.pc = "approve" /\ r.key = run[p].key /\ r.deadline = run[p].deadline
      BY <1>1, <1>3, <2>1 DEF Run
  <2>3. Become(p, r) /\ gaveUp' = gaveUp /\ faults' \in 0..MaxFaults
      BY <1>3, <1>9, <2>1 DEF ApproveLost
  <2>. QED
      BY <1>1, <1>2, <1>3, <1>4, <1>5, <1>6, <2>2, <2>3, ReceiverStep
<1>. QED
    BY <1>7, <1>8, <1>9

\* The steps of a receiver that leave the room as it is.
LEMMA AloneKeeps ==
    ASSUME PairingInv, NEW p \in Receivers,
           Confirm(p) \/ Decline(p) \/ PollAttempt(p) \/ Unsent(p) \/ GiveUp(p) \/ Stop(p)
    PROVE  PairingInv'
<1>1. ~At(p, "idle")
    BY DEF Confirm, Decline, PollAttempt, Unsent, GiveUp, Stop, At
<1>2. PICK k : k = run[p].key
    OBVIOUS
<1>3. /\ run[p] \in Run /\ k \in Drawn \ gaveUp /\ k \in Keys /\ run[p].deadline >= Life
      /\ run[p].deadline \in Times /\ (run[p].pc \in {"approve", "poll"} <=> k \in said)
    BY <1>1, <1>2, RunFields
<1>4. /\ room' = room /\ holder' = holder /\ envelope' = envelope /\ now' = now /\ down' = down
      /\ device' = device /\ drawn' = drawn /\ started' = started /\ sealed' = sealed /\ faults' = faults
    BY DEF Confirm, Decline, PollAttempt, Unsent, GiveUp, Stop, service, counters
<1>5. UNCHANGED <<now, device, counters, sealed>>
    BY <1>4 DEF counters
<1>6. RoomInv /\ DeviceInv /\ GaveUpInv /\ TypeOK /\ CrowdedByTwo /\ room # "none"
    BY <1>1, RunFields DEF PairingInv
<1>7. /\ holder \in Keys \cup {NoKey} /\ envelope \in Keys \cup {NoKey} /\ faults \in 0..MaxFaults
      /\ room \in {"pending", "attempted", "approved", "bound", "crowded"} /\ now \in Times
    BY <1>6 DEF TypeOK
<1>8. ASSUME said' = said \/ said' = said \cup {k}
      PROVE  RoomInv' /\ DeviceInv' /\ CrowdedByTwo'
    BY <1>4, <1>6, <1>8 DEF RoomInv, DeviceInv, CrowdedByTwo, Over, Drawn
<1>9. \A j \in gaveUp : Over \/ room' = "crowded" \/ j # holder'
    BY <1>4, <1>6 DEF GaveUpInv
<1>10. Idle.pc = "idle" /\ Idle \in Run \cup {Idle}
    BY DEF Idle
<1>11. CASE Confirm(p)
  <2>1. PICK r : r = [run[p] EXCEPT !.pc = "approve", !.failed = FALSE]
      OBVIOUS
  <2>2. r \in Run /\ r.pc = "approve" /\ r.key = run[p].key /\ r.deadline = run[p].deadline
      BY <1>3, <2>1 DEF Run
  <2>3. Become(p, r) /\ gaveUp' = gaveUp /\ opened' = opened /\ said' = said \cup {k}
      BY <1>2, <1>11, <2>1 DEF Confirm, Goto
  <2>. QED
      BY <1>1, <1>2, <1>3, <1>4, <1>5, <1>7, <1>8, <1>9, <2>2, <2>3, ReceiverStep
<1>12. CASE Decline(p) \/ Stop(p)
  <2>1. Become(p, Idle) /\ gaveUp' = gaveUp /\ opened' = opened /\ said' = said
      BY <1>12 DEF Decline, Stop, End
  <2>. QED
      BY <1>1, <1>2, <1>3, <1>4, <1>5, <1>7, <1>8, <1>9, <1>10, <2>1, ReceiverStep
<1>13. CASE Unsent(p)
  <2>1. PICK r : r = [run[p] EXCEPT !.failed = TRUE]
      OBVIOUS
  <2>2. r \in Run /\ r.pc = run[p].pc /\ r.key = run[p].key /\ r.deadline = run[p].deadline
      BY <1>3, <2>1 DEF Run
  <2>3. Become(p, r) /\ gaveUp' = gaveUp /\ opened' = opened /\ said' = said
      BY <1>13, <2>1 DEF Unsent
  <2>. QED
      BY <1>1, <1>2, <1>3, <1>4, <1>5, <1>7, <1>8, <1>9, <2>2, <2>3, ReceiverStep
<1>14. CASE GiveUp(p)
  <2>1. Over
      BY <1>3, <1>7, <1>14, PairingAssumption DEF GiveUp, At, Over, Times
  <2>2. Become(p, Idle) /\ gaveUp' = gaveUp \cup {k} /\ opened' = opened /\ said' = said
      BY <1>2, <1>14 DEF GiveUp, End
  <2>. QED
      BY <1>1, <1>2, <1>3, <1>4, <1>5, <1>7, <1>8, <1>9, <1>10, <2>1, <2>2, ReceiverStep
<1>15. CASE PollAttempt(p)
  <2>1. /\ said' = said /\ ~Over /\ run[p].pc = "poll"
        /\ opened' = IF AttemptAction(State) = "open" /\ envelope = k THEN opened \cup {k} ELSE opened
        /\ gaveUp' = IF AttemptAction(State) = "fail" \/ (AttemptAction(State) = "open" /\ envelope # k)
                     THEN gaveUp \cup {k} ELSE gaveUp
        /\ IF AttemptAction(State) = "wait" THEN UNCHANGED run ELSE Become(p, Idle)
      BY <1>2, <1>15 DEF PollAttempt, At, End
  <2>2. \/ AttemptAction(State) = "wait"
        \/ AttemptAction(State) = "open" /\ room = "bound"
        \/ AttemptAction(State) = "fail" /\ room \in {"pending", "crowded"}
      BY <1>7, <2>1 DEF AttemptAction, State
  <2>3. CASE AttemptAction(State) = "wait"
    <3>1. PICK r : r = run[p]
        OBVIOUS
    <3>2. Become(p, r)
        BY <1>6, <2>1, <2>3, <3>1 DEF Become, TypeOK
    <3>3. r \in Run /\ r.pc = "poll" /\ r.key = run[p].key /\ r.deadline = run[p].deadline /\ k \in said
        BY <1>3, <2>1, <3>1
    <3>4. opened' = opened /\ gaveUp' = gaveUp
        BY <2>1, <2>3
    <3>. QED
        BY <1>1, <1>2, <1>3, <1>4, <1>5, <1>7, <1>8, <1>9, <2>1, <3>2, <3>3, <3>4, ReceiverStep
  <2>4. CASE AttemptAction(State) = "open" /\ room = "bound" /\ envelope = k
    <3>1. k \in sealed
        BY <1>6, <2>4, <1>3 DEF RoomInv, Keys, NoKey
    <3>2. Become(p, Idle) /\ opened' = opened \cup {k} /\ gaveUp' = gaveUp
        BY <2>1, <2>4
    <3>. QED
        BY <1>1, <1>2, <1>3, <1>4, <1>5, <1>7, <1>8, <1>9, <1>10, <2>1, <3>1, <3>2, ReceiverStep
  <2>5. CASE \/ AttemptAction(State) = "open" /\ room = "bound" /\ envelope # k
             \/ AttemptAction(State) = "fail" /\ room \in {"pending", "crowded"}
    <3>1. Over \/ room' = "crowded" \/ k # holder'
        BY <1>3, <1>4, <1>6, <2>5 DEF RoomInv, Keys, NoKey
    <3>2. Become(p, Idle) /\ opened' = opened /\ gaveUp' = gaveUp \cup {k}
        BY <2>1, <2>5
    <3>. QED
        BY <1>1, <1>2, <1>3, <1>4, <1>5, <1>7, <1>8, <1>9, <1>10, <2>1, <3>1, <3>2, ReceiverStep
  <2>. QED
      BY <2>2, <2>3, <2>4, <2>5
<1>. QED
    BY <1>11, <1>12, <1>13, <1>14, <1>15

\* A command draws a key nobody has had.
LEMMA StartKeeps ==
    ASSUME PairingInv, NEW p \in Receivers, Start(p)
    PROVE  PairingInv'
<1>1. PICK k : k = drawn + 1
    OBVIOUS
<1>2. PICK r : r = [pc |-> "attempt", key |-> k, deadline |-> now + Life, failed |-> FALSE]
    OBVIOUS
<1>3. /\ drawn \in Nat /\ now \in Times /\ started \in 0..MaxRuns /\ MaxRuns \in Nat
      /\ Life \in Nat \ {0} /\ started = drawn /\ said \cup gaveUp \subseteq Drawn
      /\ run \in [Receivers -> Run \cup {Idle}] /\ RunInv
    BY PairingAssumption DEF PairingInv, TypeOK
<1>4. /\ room' = room /\ holder' = holder /\ envelope' = envelope /\ now' = now /\ down' = down
      /\ device' = device /\ said' = said /\ sealed' = sealed /\ opened' = opened
      /\ gaveUp' = gaveUp /\ faults' = faults
    BY DEF Start, service
<1>5. /\ drawn' = k /\ started' = started + 1 /\ started < MaxRuns /\ room # "none" /\ ~Over
      /\ run' = [run EXCEPT ![p] = r] /\ At(p, "idle")
    BY <1>1, <1>2 DEF Start, Become
<1>6. r \in Run /\ k \in Keys /\ r.key = k /\ r.pc = "attempt" /\ r.deadline >= Life
  <2>1. k \in Keys /\ now + Life \in Times /\ now + Life >= Life
      BY <1>1, <1>3, <1>5 DEF Keys, Times, Over
  <2>. QED
      BY <1>2, <2>1 DEF Run
<1>7. TypeOK'
    BY <1>1, <1>3, <1>4, <1>5, <1>6 DEF PairingInv, TypeOK
<1>8. Drawn' = Drawn \cup {k} /\ k \notin Drawn
    BY <1>1, <1>3, <1>5 DEF Drawn
<1>9. RoomInv' /\ DeviceInv' /\ GaveUpInv' /\ CrowdedByTwo' /\ ApprovedBeforeSecret'
    BY <1>3, <1>4, <1>5, <1>8 DEF PairingInv, RoomInv, DeviceInv, GaveUpInv, CrowdedByTwo,
                                  ApprovedBeforeSecret, Over
<1>10. RunInv'
  <2>1. ASSUME NEW q \in Receivers
        PROVE  run'[q] = IF q = p THEN r ELSE run[q]
      BY <1>3, <1>5
  <2>2. ASSUME NEW q \in Receivers, run'[q].pc # "idle"
        PROVE  /\ room' # "none" /\ run'[q].key \in Drawn' \ gaveUp' /\ run'[q].deadline >= Life
               /\ run'[q].pc \in {"approve", "poll"} <=> run'[q].key \in said'
    <3>1. CASE q = p
        BY <2>1, <3>1, <1>3, <1>4, <1>5, <1>6, <1>8
    <3>2. CASE q # p
        BY <2>1, <2>2, <3>2, <1>3, <1>4, <1>8 DEF RunInv, At
    <3>. QED
        BY <3>1, <3>2
  <2>3. ASSUME NEW q \in Receivers, NEW q2 \in Receivers, q # q2,
               run'[q].pc # "idle", run'[q2].pc # "idle"
        PROVE  run'[q].key # run'[q2].key
      BY <2>1, <2>3, <1>3, <1>6, <1>8 DEF RunInv, At
  <2>. QED
      BY <2>2, <2>3 DEF RunInv, At
<1>. QED
    BY <1>1, <1>3, <1>4, <1>5, <1>7, <1>8, <1>9, <1>10 DEF PairingInv

LEMMA NextKeeps ==
    ASSUME PairingInv, Next
    PROVE  PairingInv'
<1>1. CASE Tick \/ GoDown
    BY <1>1, ClockKeeps
<1>2. CASE Offer \/ DeviceWork \/ BindLost \/ DeviceStops
    BY <1>2, DeviceKeeps
<1>3. ASSUME NEW p \in Receivers,
             \/ Start(p) \/ Work(p) \/ Confirm(p) \/ Decline(p)
             \/ EnterLost(p) \/ ApproveLost(p) \/ Stop(p)
      PROVE  PairingInv'
    BY <1>3, StartKeeps, EnterKeeps, ApproveKeeps, AloneKeeps DEF Work
<1>. QED
    BY <1>1, <1>2, <1>3 DEF Next

LEMMA InitPairing == Init => PairingInv
<1>. SUFFICES ASSUME Init PROVE PairingInv
    OBVIOUS
<1>1. run = [p \in Receivers |-> Idle] /\ Idle.pc = "idle"
    BY DEF Init, Idle
<1>2. TypeOK
  <2>1. run \in [Receivers -> Run \cup {Idle}]
      BY <1>1
  <2>2. device \in Device /\ holder \in Keys \cup {NoKey} /\ envelope \in Keys \cup {NoKey}
      BY DEF Init, Device
  <2>3. now \in Times /\ drawn \in Nat /\ started \in 0..MaxRuns /\ faults \in 0..MaxFaults
      BY PairingAssumption DEF Init, Times
  <2>. QED
      BY <2>1, <2>2, <2>3 DEF Init, TypeOK
<1>3. RunInv
    BY <1>1 DEF RunInv, At
<1>4. RoomInv /\ DeviceInv /\ GaveUpInv
    BY DEF Init, RoomInv, DeviceInv, GaveUpInv
<1>. QED
    BY <1>2, <1>3, <1>4 DEF Init, PairingInv, ApprovedBeforeSecret, CrowdedByTwo

\* PairingInv holds in every reachable state.
THEOREM PairingInvariant == Spec => []PairingInv
<1>1. PairingInv /\ [Next]_vars => PairingInv'
    BY NextKeeps, StutterKeeps
<1>. QED
    BY InitPairing, <1>1, PTL DEF Spec
-----------------------------------------------------------------------------
\* Types of a handoff, for any number of receivers.
THEOREM PairingTypes == Spec => []TypeOK
<1>1. PairingInv => TypeOK
    BY DEF PairingInv
<1>. QED
    BY PairingInvariant, <1>1, PTL

\* The token is sealed for approved receivers only, and opened by them only.
THEOREM PairingApprovedBeforeSecret == Spec => []ApprovedBeforeSecret
<1>1. PairingInv => ApprovedBeforeSecret
    BY DEF PairingInv
<1>. QED
    BY PairingInvariant, <1>1, PTL

\* A room is crowded by two receive commands and never by one that repeats its request.
THEOREM PairingCrowdedByTwo == Spec => []CrowdedByTwo
<1>1. PairingInv => CrowdedByTwo
    BY DEF PairingInv
<1>. QED
    BY PairingInvariant, <1>1, PTL

\* No number of lost answers makes a side of a bound room report a failure while it lives.
THEOREM PairingLostAnswers == Spec => []LostAnswersDivideNobody
<1>1. PairingInv => LostAnswersDivideNobody
    BY DEF PairingInv, RoomInv, DeviceInv, GaveUpInv, LostAnswersDivideNobody
<1>. QED
    BY PairingInvariant, <1>1, PTL
-----------------------------------------------------------------------------
(***************************************************************************)
(* The handoff implements HandoffPromise.  The token is sealed for the     *)
(* holder of the room and opened with the key the service relayed it for,  *)
(* so neither has a second member.                                         *)
(***************************************************************************)
HandoffInv ==
    /\ PairingInv
    /\ sealed \subseteq {holder} /\ opened \subseteq {envelope}

\* Whatever receiver enters or approves: a room keeps its holder, and what is relayed in it.
LEMMA HolderStays ==
    ASSUME RoomInv, NEW k, Enters(k) \/ Approves(k) \/ UNCHANGED service
    PROVE  envelope' = envelope /\ (holder # NoKey => holder' = holder)
BY DEF RoomInv, Enters, Approves, State, service

\* A step that leaves the secret where it is.
LEMMA SecretStays ==
    ASSUME HandoffInv, UNCHANGED <<envelope, sealed, opened>>, holder # NoKey => holder' = holder
    PROVE  sealed' \subseteq {holder'} /\ opened' \subseteq {envelope'}
BY DEF HandoffInv, PairingInv, TypeOK, Keys, NoKey

\* The operators' approvals aside, it is a stutter of the promise, or a report of success.
LEMMA QuietStep ==
    ASSUME UNCHANGED <<said, envelope, sealed, opened>>,
           device'.pc = "done" <=> device.pc = "done"
    PROVE  UNCHANGED Promise!vars
BY DEF Promise!vars

LEMMA DevicePromise ==
    ASSUME HandoffInv, Offer \/ DeviceWork \/ BindLost \/ DeviceStops
    PROVE  /\ sealed' \subseteq {holder'} /\ opened' \subseteq {envelope'}
           /\ [Promise!Next]_Promise!vars
<1>1. /\ device \in Device /\ RoomInv /\ DeviceInv /\ said \subseteq Keys /\ sealed \subseteq {holder}
      /\ opened \subseteq {envelope} /\ opened \subseteq sealed /\ sealed \subseteq said
      /\ holder \in Keys \cup {NoKey} /\ NoKey \notin Keys
    BY DEF HandoffInv, PairingInv, TypeOK, ApprovedBeforeSecret, Keys, NoKey
<1>2. CASE Offer \/ BindUnsent \/ DeviceExpires \/ DeviceStops
  <2>1. /\ UNCHANGED <<said, sealed, opened, envelope, holder>>
        /\ device.pc # "done" /\ \E pc \in {"poll", "failed", "stopped"} : device' = [device EXCEPT !.pc = pc]
      BY <1>2 DEF Offer, BindUnsent, DeviceExpires, DeviceStops, DeviceGoto, service
  <2>2. device'.pc # "done"
      BY <1>1, <2>1 DEF Device
  <2>. QED
      BY <2>1, <2>2, SecretStays, QuietStep
<1>3. CASE PollDevice
  <2>1. UNCHANGED <<said, opened, envelope, holder>> /\ device.pc = "poll" /\ ~Over
      BY <1>3 DEF PollDevice, service
  <2>2. CASE DeviceAction(State) = "bind"
    <3>1. /\ sealed' = {holder} /\ holder \in said
          /\ device' = [pc |-> "bind", attempt |-> holder]
        BY <1>1, <1>3, <2>1, <2>2 DEF PollDevice, DeviceAction, State, RoomInv
    <3>2. CASE sealed = {}
      <4>1. (device'.pc = "done") = (device.pc = "done")
          BY <2>1, <3>1
      <4>. QED
          BY <1>1, <2>1, <3>1, <3>2, <4>1 DEF Promise!Next, Promise!Choose
    <3>3. CASE sealed # {}
        BY <1>1, <2>1, <3>1, <3>3, QuietStep
    <3>. QED
        BY <3>2, <3>3
  <2>3. CASE DeviceAction(State) = "done"
    <3>1. /\ sealed' = sealed /\ device' = [device EXCEPT !.pc = "done"] /\ envelope # NoKey
        BY <1>1, <1>3, <2>1, <2>3 DEF PollDevice, DeviceAction, State, RoomInv
    <3>2. device'.pc = "done"
        BY <1>1, <3>1 DEF Device
    <3>3. (device'.pc = "done") = TRUE
        BY <3>2
    <3>. QED
        BY <1>1, <2>1, <3>1, <3>3, SecretStays DEF Promise!Next, Promise!Tell
  <2>4. CASE DeviceAction(State) \in {"wait", "fail"}
    <3>1. /\ sealed' = sealed /\ \E pc \in {"poll", "failed"} : device' = [device EXCEPT !.pc = pc]
        BY <1>3, <2>1, <2>4 DEF PollDevice
    <3>2. device'.pc # "done"
        BY <1>1, <3>1 DEF Device
    <3>. QED
        BY <2>1, <3>1, <3>2, SecretStays, QuietStep
  <2>. QED
      BY <2>2, <2>3, <2>4 DEF DeviceAction
<1>4. ASSUME device.pc = "bind", Binds(device.attempt) \/ UNCHANGED service, ~(UNCHANGED service)
      PROVE  /\ envelope = NoKey /\ envelope' = holder /\ holder' = holder /\ holder # NoKey
             /\ sealed = {holder} /\ opened = {} /\ Bindable(device.attempt)
  <2>1. /\ State = "approved" /\ room = "approved" /\ device.attempt = holder
        /\ envelope' = holder /\ holder' = holder
      BY <1>1, <1>4 DEF Binds, State, DeviceInv
  <2>2. envelope = NoKey /\ holder # NoKey /\ sealed = {holder}
      BY <1>1, <1>4, <2>1 DEF RoomInv, DeviceInv
  <2>3. opened = {}
      BY <1>1, <2>2
  <2>. QED
      BY <2>1, <2>2, <2>3 DEF Bindable
<1>5. ASSUME device.pc = "bind", Binds(device.attempt) \/ UNCHANGED service,
             UNCHANGED <<said, sealed, opened>>, device'.pc = "done" => Bindable(device.attempt) /\ Binds(device.attempt)
      PROVE  /\ sealed' \subseteq {holder'} /\ opened' \subseteq {envelope'}
             /\ [Promise!Next]_Promise!vars
  <2>1. CASE UNCHANGED service
    <3>1. device'.pc # "done"
      <4>1. SUFFICES ASSUME Bindable(device.attempt), Binds(device.attempt) PROVE FALSE
          BY <1>5
      <4>2. room = "approved" /\ room' = "bound"
          BY <4>1 DEF Bindable, Binds, State
      <4>. QED
          BY <2>1, <4>2 DEF service
    <3>. QED
        BY <1>5, <2>1, <3>1, SecretStays, QuietStep DEF service
  <2>2. CASE ~(UNCHANGED service)
    <3>1. /\ envelope = NoKey /\ envelope' = holder /\ holder' = holder /\ holder # NoKey
          /\ sealed = {holder} /\ opened = {}
        BY <1>4, <1>5, <2>2
    <3>2. {envelope} \ {NoKey} = {} /\ {envelope'} \ {NoKey} = sealed
        BY <3>1
    <3>3. (device.pc = "done") = FALSE /\ (device'.pc = "done") \in {FALSE, TRUE}
        BY <1>5
    <3>4. Promise!Store
        BY <1>5, <3>1, <3>2, <3>3 DEF Promise!Store
    <3>. QED
        BY <1>5, <3>1, <3>4 DEF Promise!Next
  <2>. QED
      BY <2>1, <2>2
<1>6. CASE Bind
  <2>1. /\ device.pc = "bind" /\ Binds(device.attempt) /\ UNCHANGED <<said, sealed, opened>>
        /\ device' = [device EXCEPT !.pc = IF Bindable(device.attempt) THEN "done" ELSE "failed"]
      BY <1>6 DEF Bind, DeviceGoto
  <2>2. device'.pc = "done" => Bindable(device.attempt)
      BY <1>1, <2>1 DEF Device
  <2>. QED
      BY <1>5, <2>1, <2>2
<1>7. CASE BindLost
  <2>1. /\ device.pc = "bind"
        /\ Binds(device.attempt) \/ UNCHANGED service
        /\ UNCHANGED <<said, sealed, opened>> /\ device' = [device EXCEPT !.pc = "poll"]
      BY <1>7 DEF BindLost, DeviceGoto
  <2>2. device'.pc # "done"
      BY <1>1, <2>1 DEF Device
  <2>. QED
      BY <1>5, <2>1, <2>2
<1>. QED
    BY <1>2, <1>3, <1>6, <1>7 DEF DeviceWork

LEMMA ReceiverPromise ==
    ASSUME HandoffInv, NEW p \in Receivers,
           \/ Start(p) \/ Work(p) \/ Confirm(p) \/ Decline(p)
           \/ EnterLost(p) \/ ApproveLost(p) \/ Stop(p)
    PROVE  /\ sealed' \subseteq {holder'} /\ opened' \subseteq {envelope'}
           /\ [Promise!Next]_Promise!vars
<1>1. /\ RoomInv /\ opened \subseteq {envelope} /\ sealed \subseteq {holder}
    BY DEF HandoffInv, PairingInv
<1>2. CASE \/ Start(p) \/ Enter(p) \/ EnterLost(p) \/ Decline(p) \/ Approve(p) \/ ApproveLost(p)
           \/ Unsent(p) \/ GiveUp(p) \/ Stop(p)
  <2>1. /\ UNCHANGED <<said, sealed, opened, device>>
        /\ Enters(run[p].key) \/ Approves(run[p].key) \/ UNCHANGED service
      BY <1>2 DEF Start, Enter, EnterLost, Decline, Approve, ApproveLost, Unsent, GiveUp, Stop
  <2>2. envelope' = envelope /\ (holder # NoKey => holder' = holder)
      BY <1>1, <2>1, HolderStays
  <2>. QED
      BY <2>1, <2>2, SecretStays, QuietStep
<1>3. CASE Confirm(p)
  <2>1. /\ said' = said \cup {run[p].key} /\ UNCHANGED <<sealed, opened, device, envelope, holder>>
      BY <1>3 DEF Confirm, service
  <2>2. Promise!Agree
      BY <2>1 DEF Promise!Agree
  <2>. QED
      BY <2>1, <2>2, SecretStays DEF Promise!Next
<1>4. CASE PollAttempt(p)
  <2>1. /\ UNCHANGED <<said, sealed, device, envelope, holder>> /\ At(p, "poll") /\ ~Over
      BY <1>4 DEF PollAttempt, service
  <2>2. CASE opened' = opened
      BY <2>1, <2>2, SecretStays, QuietStep
  <2>3. CASE opened' # opened
    <3>1. /\ AttemptAction(State) = "open" /\ opened' = opened \cup {envelope}
        BY <1>4, <2>3 DEF PollAttempt
    <3>2. envelope # NoKey
        BY <1>1, <2>1, <3>1 DEF AttemptAction, State, RoomInv
    <3>3. opened' = {envelope} \ {NoKey} /\ {envelope} \ {NoKey} # {}
        BY <1>1, <3>1, <3>2
    <3>4. Promise!Open
        BY <2>1, <3>3 DEF Promise!Open
    <3>. QED
        BY <1>1, <2>1, <3>1, <3>4 DEF Promise!Next
  <2>. QED
      BY <2>2, <2>3
<1>. QED
    BY <1>2, <1>3, <1>4 DEF Work

\* Every step of the handoff is a step of the promise, or none at all, and keeps the invariant.
LEMMA HandoffStep ==
    ASSUME HandoffInv, [Next]_vars
    PROVE  HandoffInv' /\ [Promise!Next]_Promise!vars
<1>1. PairingInv'
    BY NextKeeps, StutterKeeps DEF HandoffInv
<1>2. CASE Tick \/ GoDown \/ UNCHANGED vars
  <2>1. UNCHANGED <<said, sealed, opened, device, envelope, holder>>
      BY <1>2 DEF Tick, GoDown, vars, service
  <2>. QED
      BY <1>1, <2>1, SecretStays, QuietStep DEF HandoffInv
<1>3. CASE Offer \/ DeviceWork \/ BindLost \/ DeviceStops
    BY <1>1, <1>3, DevicePromise DEF HandoffInv
<1>4. ASSUME NEW p \in Receivers,
             \/ Start(p) \/ Work(p) \/ Confirm(p) \/ Decline(p)
             \/ EnterLost(p) \/ ApproveLost(p) \/ Stop(p)
      PROVE  HandoffInv' /\ [Promise!Next]_Promise!vars
    BY <1>1, <1>4, ReceiverPromise DEF HandoffInv
<1>. QED
    BY <1>2, <1>3, <1>4 DEF Next

\* The two commands and the service implement the promise of a handoff, for any number of
\* receivers, lifetime of the room and lost answers: the token goes to one approved receiver.
THEOREM PairingKeepsPromise == Spec => KeepsPromise
<1>1. Init => HandoffInv
    BY InitPairing DEF Init, HandoffInv
<1>2. Init => Promise!Init
    BY DEF Init, Promise!Init
<1>3. HandoffInv /\ [Next]_vars => HandoffInv'
    BY HandoffStep
<1>4. HandoffInv /\ [Next]_vars => [Promise!Next]_Promise!vars
    BY HandoffStep
<1>. QED
    BY <1>1, <1>2, <1>3, <1>4, PTL DEF Spec, KeepsPromise, Promise!Spec
=============================================================================
