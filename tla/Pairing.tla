------------------------------- MODULE Pairing --------------------------------
(***************************************************************************)
(* cmd/handoff.go: `handoff offer` and `handoff receive`.  The offering    *)
(* device opens a room with a short code and polls it; a receiver enters   *)
(* the room, its operator approves, and the device seals the transfer's    *)
(* token for the receiver's key, which the service relays.  The service    *)
(* (external) keeps one room: a second distinct receiver invalidates it,   *)
(* and so does its age.  Both commands retry what failed for a transient   *)
(* reason, until the room's time is over.                                  *)
(***************************************************************************)
EXTENDS Naturals, FiniteSets

CONSTANTS
    Receivers,  \* processes that run `handoff receive`
    Life,       \* ticks a room lives: pairingAttemptLifetime
    MaxRuns,    \* bound: receive commands
    MaxFaults   \* bound: answers lost

ASSUME PairingAssumption ==
    Life \in Nat \ {0} /\ MaxRuns \in Nat /\ MaxFaults \in Nat

Keys == Nat \ {0} \* a receiver's key with its attempt nonce
NoKey == 0
Times == 0..2 * Life

VARIABLES
    room,     \* the service's state of the room
    holder,   \* the receiver key that entered it first
    envelope, \* the key the service holds an envelope for
    now,      \* ticks since the room was opened
    down,     \* no request reaches the service any more
    device,   \* the offering command
    run,      \* the receiving commands
    drawn,    \* receiver keys drawn
    started,  \* history: receive commands started
    said,     \* history: keys whose operator approved
    sealed,   \* history: keys the token was sealed for
    opened,   \* history: keys that opened it
    gaveUp,   \* history: keys whose command ended by itself without the token
    faults    \* counter behind MaxFaults

service == <<room, holder, envelope>>
counters == <<drawn, started>>
vars == <<service, now, down, device, run, counters, said, sealed, opened, gaveUp, faults>>

Idle == [pc |-> "idle"]
Run == [pc : {"attempt", "ask", "approve", "poll"}, key : Keys, deadline : Times, failed : BOOLEAN]
Device == [pc : {"idle", "poll", "bind", "done", "failed", "stopped"}, attempt : Keys \cup {NoKey}]

At(p, pc) == run[p].pc = pc
Become(p, r) == run' = [run EXCEPT ![p] = r]
Goto(p, pc) == Become(p, [run[p] EXCEPT !.pc = pc, !.failed = FALSE])
End(p) == Become(p, Idle)
DeviceGoto(pc) == device' = [device EXCEPT !.pc = pc]

Over == now >= Life
\* What the service says of the room.
State == IF Over THEN "expired" ELSE room

\* devicePairingAction.
DeviceBindsEarly(state) == \* Mutant: the token is sealed before the receiver's operator approves.
    IF state = "pending" THEN "wait"
    ELSE IF state \in {"attempted", "approved"} THEN "bind"
    ELSE IF state = "bound" THEN "done" ELSE "fail"

DeviceAction(state) ==
    IF state \in {"pending", "attempted"} THEN "wait"
    ELSE IF state = "approved" THEN "bind"
    ELSE IF state = "bound" THEN "done" ELSE "fail"

\* attemptPairingAction.
AttemptAction(state) ==
    IF state \in {"attempted", "approved"} THEN "wait"
    ELSE IF state = "bound" THEN "open" ELSE "fail"
-----------------------------------------------------------------------------
(* The service's answers *)

\* Key k enters the room: first, again with the same key, or as a second receiver.
Enters(k) ==
    IF State = "pending" THEN room' = "attempted" /\ holder' = k /\ UNCHANGED envelope
    ELSE IF State \in {"attempted", "approved"} /\ holder # k
         THEN room' = "crowded" /\ UNCHANGED <<holder, envelope>>
         ELSE UNCHANGED service
Entered(k) == State = "pending" \/ (State = "attempted" /\ holder = k)

Approves(k) ==
    IF State = "attempted" /\ holder = k THEN room' = "approved" /\ UNCHANGED <<holder, envelope>>
    ELSE UNCHANGED service
Approved(k) == State \in {"attempted", "approved", "bound"} /\ holder = k

Binds(k) ==
    IF State = "approved" /\ holder = k THEN room' = "bound" /\ envelope' = k /\ UNCHANGED holder
    ELSE UNCHANGED service
Bindable(k) == State = "approved" /\ holder = k
-----------------------------------------------------------------------------
Init ==
    /\ room = "none" /\ holder = NoKey /\ envelope = NoKey
    /\ now = 0 /\ down = FALSE
    /\ device = [pc |-> "idle", attempt |-> NoKey]
    /\ run = [p \in Receivers |-> Idle]
    /\ drawn = 0 /\ started = 0 /\ faults = 0
    /\ said = {} /\ sealed = {} /\ opened = {} /\ gaveUp = {}

Tick ==
    /\ room # "none" /\ now < 2 * Life /\ now' = now + 1
    /\ UNCHANGED <<service, down, device, run, counters, said, sealed, opened, gaveUp, faults>>

GoDown ==
    /\ ~down /\ down' = TRUE
    /\ UNCHANGED <<service, now, device, run, counters, said, sealed, opened, gaveUp, faults>>
-----------------------------------------------------------------------------
(* handoff offer *)

Offer ==
    /\ device.pc = "idle" /\ ~down
    /\ room' = "pending" /\ UNCHANGED <<holder, envelope>>
    /\ DeviceGoto("poll")
    /\ UNCHANGED <<now, down, run, counters, said, sealed, opened, gaveUp, faults>>

\* An approved room's receiver is the one the token is sealed for.
PollDevice ==
    /\ device.pc = "poll" /\ ~Over /\ ~down
    /\ LET act == DeviceAction(State) IN
       /\ device' = IF act = "bind" THEN [pc |-> "bind", attempt |-> holder]
                    ELSE [device EXCEPT !.pc = IF act = "wait" THEN @
                                               ELSE IF act = "done" THEN "done" ELSE "failed"]
       /\ sealed' = IF act = "bind" THEN sealed \cup {holder} ELSE sealed
    /\ UNCHANGED <<service, now, down, run, counters, said, opened, gaveUp, faults>>

Bind ==
    /\ device.pc = "bind" /\ ~down
    /\ Binds(device.attempt)
    /\ DeviceGoto(IF Bindable(device.attempt) THEN "done" ELSE "failed")
    /\ UNCHANGED <<now, down, run, counters, said, sealed, opened, gaveUp, faults>>

\* Mutant: a bind whose answer is lost is taken for one that was refused.
BindLostFails ==
    /\ device.pc = "bind" /\ ~down /\ faults < MaxFaults /\ faults' = faults + 1
    /\ Binds(device.attempt) \/ UNCHANGED service
    /\ DeviceGoto("failed")
    /\ UNCHANGED <<now, down, run, counters, said, sealed, opened, gaveUp>>

\* The bind, or its answer, is lost: the device asks the room again.
BindLost ==
    /\ device.pc = "bind" /\ ~down /\ faults < MaxFaults /\ faults' = faults + 1
    /\ Binds(device.attempt) \/ UNCHANGED service
    /\ DeviceGoto("poll")
    /\ UNCHANGED <<now, down, run, counters, said, sealed, opened, gaveUp>>

BindUnsent ==
    /\ device.pc = "bind" /\ down
    /\ DeviceGoto("poll")
    /\ UNCHANGED <<service, now, down, run, counters, said, sealed, opened, gaveUp, faults>>

DeviceExpires ==
    /\ device.pc = "poll" /\ Over
    /\ DeviceGoto("failed")
    /\ UNCHANGED <<service, now, down, run, counters, said, sealed, opened, gaveUp, faults>>

DeviceStops ==
    /\ device.pc \in {"poll", "bind"}
    /\ DeviceGoto("stopped")
    /\ UNCHANGED <<service, now, down, run, counters, said, sealed, opened, gaveUp, faults>>
-----------------------------------------------------------------------------
(* handoff receive *)

\* One key and one nonce for the whole command, and its own deadline for the first request.
Start(p) ==
    /\ At(p, "idle") /\ room # "none" /\ ~Over /\ started < MaxRuns
    /\ started' = started + 1 /\ drawn' = drawn + 1
    /\ Become(p, [pc |-> "attempt", key |-> drawn', deadline |-> now + Life, failed |-> FALSE])
    /\ UNCHANGED <<service, now, down, device, said, sealed, opened, gaveUp, faults>>

\* The command goes on if ok and ends without the token if not.
Answered(p, ok, pc) ==
    IF ok THEN Goto(p, pc) /\ UNCHANGED gaveUp
    ELSE End(p) /\ gaveUp' = gaveUp \cup {run[p].key}

Enter(p) ==
    /\ At(p, "attempt") /\ ~down
    /\ Enters(run[p].key) /\ Answered(p, Entered(run[p].key), "ask")
    /\ UNCHANGED <<now, down, device, counters, said, sealed, opened, faults>>

\* Mutant: every try draws a key and a nonce of its own.
EnterAnew(p) ==
    /\ At(p, "attempt") /\ ~down /\ faults < MaxFaults /\ faults' = faults + 1
    /\ Enters(run[p].key) \/ UNCHANGED service
    /\ drawn' = drawn + 1
    /\ Become(p, [run[p] EXCEPT !.failed = TRUE, !.key = drawn'])
    /\ UNCHANGED <<now, down, device, started, said, sealed, opened, gaveUp>>

\* The request or its answer is lost, and the same request will be sent again.
EnterLost(p) ==
    /\ At(p, "attempt") /\ ~down /\ faults < MaxFaults /\ faults' = faults + 1
    /\ Enters(run[p].key) \/ UNCHANGED service
    /\ Become(p, [run[p] EXCEPT !.failed = TRUE])
    /\ UNCHANGED <<now, down, device, counters, said, sealed, opened, gaveUp>>

\* The operator sees the summary and approves, or does not.
Confirm(p) ==
    /\ At(p, "ask")
    /\ said' = said \cup {run[p].key} /\ Goto(p, "approve")
    /\ UNCHANGED <<service, now, down, device, counters, sealed, opened, gaveUp, faults>>

\* Also when the room turns out to be for another service, and the prompt is never shown.
Decline(p) ==
    /\ At(p, "ask") /\ End(p)
    /\ UNCHANGED <<service, now, down, device, counters, said, sealed, opened, gaveUp, faults>>

Approve(p) ==
    /\ At(p, "approve") /\ ~down
    /\ Approves(run[p].key) /\ Answered(p, Approved(run[p].key), "poll")
    /\ UNCHANGED <<now, down, device, counters, said, sealed, opened, faults>>

ApproveLost(p) ==
    /\ At(p, "approve") /\ ~down /\ faults < MaxFaults /\ faults' = faults + 1
    /\ Approves(run[p].key) \/ UNCHANGED service
    /\ Become(p, [run[p] EXCEPT !.failed = TRUE])
    /\ UNCHANGED <<now, down, device, counters, said, sealed, opened, gaveUp>>

\* The envelope of a bound room is opened with the key it was sealed for, and the transfer
\* received (TransferClaim).
PollAttempt(p) ==
    /\ At(p, "poll") /\ ~Over /\ ~down
    /\ LET act == AttemptAction(State) k == run[p].key IN
       /\ opened' = IF act = "open" /\ envelope = k THEN opened \cup {k} ELSE opened
       /\ gaveUp' = IF act = "fail" \/ (act = "open" /\ envelope # k) THEN gaveUp \cup {k} ELSE gaveUp
       /\ IF act = "wait" THEN UNCHANGED run ELSE End(p)
    /\ UNCHANGED <<service, now, down, device, counters, said, sealed, faults>>

\* A request that cannot be sent is tried again ...
Unsent(p) ==
    /\ run[p].pc \in {"attempt", "approve"} /\ down /\ ~run[p].failed
    /\ Become(p, [run[p] EXCEPT !.failed = TRUE])
    /\ UNCHANGED <<service, now, down, device, counters, said, sealed, opened, gaveUp, faults>>

\* Mutant: the loop that waits for the device has no end of its own.
GiveUpAsking(p) ==
    /\ \/ At(p, "attempt") /\ run[p].failed /\ now >= run[p].deadline
       \/ At(p, "approve") /\ run[p].failed /\ Over
    /\ End(p) /\ gaveUp' = gaveUp \cup {run[p].key}
    /\ UNCHANGED <<service, now, down, device, counters, said, sealed, opened, faults>>

\* ... until the time is over.
GiveUp(p) ==
    /\ \/ At(p, "attempt") /\ run[p].failed /\ now >= run[p].deadline
       \/ At(p, "approve") /\ run[p].failed /\ Over
       \/ At(p, "poll") /\ Over
    /\ End(p) /\ gaveUp' = gaveUp \cup {run[p].key}
    /\ UNCHANGED <<service, now, down, device, counters, said, sealed, opened, faults>>

Stop(p) ==
    /\ ~At(p, "idle") /\ End(p)
    /\ UNCHANGED <<service, now, down, device, counters, said, sealed, opened, gaveUp, faults>>
-----------------------------------------------------------------------------
DeviceWork == PollDevice \/ Bind \/ BindUnsent \/ DeviceExpires
Work(p) == Enter(p) \/ Approve(p) \/ PollAttempt(p) \/ Unsent(p) \/ GiveUp(p)

Next ==
    \/ Tick \/ GoDown
    \/ Offer \/ DeviceWork \/ BindLost \/ DeviceStops
    \/ \E p \in Receivers :
         \/ Start(p) \/ Work(p) \/ Confirm(p) \/ Decline(p)
         \/ EnterLost(p) \/ ApproveLost(p) \/ Stop(p)

Spec == Init /\ [][Next]_vars

\* Time passes and the commands run; the operator may leave the prompt unanswered. The service may
\* go away before an answer; that it completes one it has begun is assumed, as an answer is read
\* without a deadline (internal/api/client.go 517-532).
Fairness == WF_vars(Tick) /\ WF_vars(DeviceWork) /\ \A p \in Receivers : WF_vars(Work(p))

FairSpec == Spec /\ Fairness
-----------------------------------------------------------------------------
TypeOK ==
    /\ room \in {"none", "pending", "attempted", "approved", "bound", "crowded"}
    /\ holder \in Keys \cup {NoKey} /\ envelope \in Keys \cup {NoKey}
    /\ now \in Times /\ down \in BOOLEAN
    /\ device \in Device
    /\ run \in [Receivers -> Run \cup {Idle}]
    /\ drawn \in Nat /\ started \in 0..MaxRuns /\ faults \in 0..MaxFaults
    /\ said \subseteq Keys /\ sealed \subseteq Keys /\ opened \subseteq Keys /\ gaveUp \subseteq Keys

\* "After approval, the sender encrypts the canonical intent to a one-use P-256 receiver key"
\* (docs/CLI.md 741): the token is sealed for, and opened by, nobody whose operator has not
\* approved, whatever is lost and whoever else enters the room.
ApprovedBeforeSecret == sealed \subseteq said /\ opened \subseteq sealed

\* The handoff keeps its promise: one receiver, approved by its operator, is sent the token, and
\* nobody reports a success there is not.
Promise == INSTANCE HandoffPromise
    WITH agreed <- said, chosen <- sealed, stored <- {envelope} \ {NoKey}, opened <- opened,
         told <- device.pc = "done"

KeepsPromise == Promise!Spec

\* Only a second receiver invalidates a room: a receiver that repeats a request whose answer
\* was lost does not crowd itself out.
CrowdedByTwo == room = "crowded" => started > 1

\* While the room lives, lost answers divide nobody: when the envelope was accepted, the
\* device does not report a failure, and neither does the receiver it is for.
LostAnswersDivideNobody ==
    room = "bound" /\ ~Over => device.pc # "failed" /\ envelope \notin gaveUp

\* Both commands end, also when the service cannot be reached any more, unless the receiver's
\* operator leaves the prompt unanswered.
HandoffEnds ==
    /\ [](device.pc \in {"poll", "bind"} => <>(device.pc \in {"done", "failed", "stopped"}))
    /\ \A p \in Receivers : []<>(run[p].pc \in {"idle", "ask"})
=============================================================================
