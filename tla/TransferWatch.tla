----------------------------- MODULE TransferWatch ----------------------------
(***************************************************************************)
(* internal/api/transfer.go: the inactivity watch of one request, with the *)
(* goroutines that use it: the one that reads the request body, the one    *)
(* that reads the response, and those that time.AfterFunc starts.  They    *)
(* exclude each other by the watch's mutex only, so that a timer that has  *)
(* fired may get the mutex after bytes have moved again.                   *)
(***************************************************************************)
EXTENDS Integers

CONSTANTS
    Timeout,  \* InactivityTimeout, in ticks of the clock
    Uploads,  \* whether the request has a body: the possible answers
    Early,    \* the service may answer before it has read the whole body
    MaxBytes  \* bound: times bytes move in one direction

ASSUME WatchAssumption == Timeout \in Nat \ {0} /\ MaxBytes \in Nat
ASSUME PeerAssumption == Uploads \subseteq BOOLEAN /\ Early \in BOOLEAN

VARIABLES
    mode,     \* the watch's flags: "idle", "active" or "stopped"
    timer,    \* its timer: "off" or "running" ...
    left,     \* ... and ticks until it fires
    fired,    \* goroutines running expire that still wait for the mutex
    cause,    \* why the request's context was cancelled
    request,  \* the request body: none, begun (nothing read yet), being read, read
    response, \* the response: awaited, refused, being read, read, closed
    retried,  \* a download was asked for again after a rate limit
    bytes,    \* times bytes have moved
    quiet     \* history: ticks since bytes moved, up to Timeout

watch == <<mode, timer, left, fired, cause>>
peers == <<request, response, retried, bytes>>
watchVars == <<watch, peers, quiet>>

\* startTransferWatch makes a watch without a timer.
WatchInit ==
    /\ mode = "idle" /\ timer = "off" /\ left = Timeout
    /\ fired = 0 /\ cause = "none"
    /\ request \in {IF upload THEN "begun" ELSE "none" : upload \in Uploads}
    /\ response = "awaited" /\ retried = FALSE
    /\ bytes = 0 /\ quiet = 0

-----------------------------------------------------------------------------
\* Mutant: a timer that exists is left running.
TouchOnce ==
    /\ mode # "stopped"
    /\ mode' = "active" /\ timer' = "running"
    /\ left' = IF timer = "running" THEN left ELSE Timeout
    /\ UNCHANGED <<fired, cause>>

\* Mutant: a timer that was stopped is not started again.
TouchPaused ==
    /\ mode # "stopped"
    /\ mode' = "active"
    /\ timer' = IF mode = "idle" /\ bytes > 0 THEN "off" ELSE "running"
    /\ left' = Timeout
    /\ UNCHANGED <<fired, cause>>

touch ==
    \/ mode = "stopped" /\ UNCHANGED watch
    \/ /\ mode # "stopped"
       /\ mode' = "active" /\ timer' = "running" /\ left' = Timeout
       /\ UNCHANGED <<fired, cause>>

pause ==
    /\ mode' = IF mode = "active" THEN "idle" ELSE mode
    /\ timer' = "off"
    /\ UNCHANGED <<left, fired, cause>>

stop ==
    \/ mode = "stopped" /\ UNCHANGED watch
    \/ /\ mode # "stopped"
       /\ mode' = "stopped" /\ timer' = "off"
       /\ cause' = IF cause = "none" THEN "ended" ELSE cause
       /\ UNCHANGED <<left, fired>>

\* The timer fires: AfterFunc's goroutine begins.
Fire ==
    /\ timer = "running" /\ left = 0
    /\ timer' = "off"
    /\ fired' = fired + 1
    /\ UNCHANGED <<mode, left, cause, peers, quiet>>

\* Mutant: expire does not ask whether bytes are waited for.
ExpirePaused ==
    /\ fired > 0
    /\ fired' = fired - 1
    /\ \/ /\ mode # "stopped" /\ mode' = "idle"
          /\ cause' = IF cause = "none" THEN "stalled" ELSE cause
       \/ mode = "stopped" /\ UNCHANGED <<mode, cause>>
    /\ UNCHANGED <<timer, left, peers, quiet>>

\* expire: that goroutine gets the mutex.
Expire ==
    /\ fired > 0
    /\ fired' = fired - 1
    /\ \/ /\ mode = "active" /\ mode' = "idle"
          /\ cause' = IF cause = "none" THEN "stalled" ELSE cause
       \/ mode # "active" /\ UNCHANGED <<mode, cause>>
    /\ UNCHANGED <<timer, left, peers, quiet>>

-----------------------------------------------------------------------------
\* progressReader.Read: the transport reads some of the request body ...
Send ==
    /\ request \in {"begun", "reading"}
    /\ response # "closed"
    /\ cause = "none" /\ bytes < MaxBytes
    /\ bytes' = bytes + 1
    /\ request' = "reading"
    /\ quiet' = 0
    /\ touch
    /\ UNCHANGED <<response, retried>>

\* ... or its end, or fails.
SendEnds ==
    /\ request \in {"begun", "reading"}
    /\ request' = "read"
    /\ pause
    /\ UNCHANGED <<response, retried, bytes, quiet>>

\* The headers of an answer to be read under the watch arrive, which begins with the answer:
\* any answer to a request with a body, the content to one without.
Headers ==
    /\ response = "awaited"
    /\ cause = "none"
    /\ request \in {"none", "read"} \/ Early
    /\ response' = "reading"
    /\ quiet' = 0
    /\ touch
    /\ UNCHANGED <<request, retried, bytes>>

\* The headers of any other answer to a download: what it says is read without the watch ...
Refusal ==
    /\ response = "awaited" /\ request = "none"
    /\ cause = "none"
    /\ response' = "refused"
    /\ quiet' = 0
    /\ UNCHANGED <<watch, request, retried, bytes>>

\* ... and ends the request, or has it repeated, once, after a rate limit.
RefusalEnds ==
    /\ response = "refused"
    /\ \/ response' = "closed" /\ stop /\ UNCHANGED retried
       \/ response' = "awaited" /\ ~retried /\ retried' = TRUE /\ UNCHANGED watch
    /\ UNCHANGED <<request, bytes, quiet>>

\* No headers within HeaderTimeout, or the context was cancelled: no response.
NoResponse ==
    /\ response = "awaited"
    /\ request \in {"none", "read"} \/ cause # "none"
    /\ response' = "closed"
    /\ stop
    /\ UNCHANGED <<request, retried, bytes, quiet>>

\* watchedBody.Read: some of the response, its end or an error ...
Receive ==
    /\ response = "reading"
    /\ cause = "none" /\ bytes < MaxBytes
    /\ bytes' = bytes + 1
    /\ quiet' = 0
    /\ touch
    /\ UNCHANGED <<request, response, retried>>

ReceiveEnds ==
    /\ response = "reading"
    /\ response' = "read"
    /\ pause
    /\ UNCHANGED <<request, retried, bytes, quiet>>

\* ... and Close.
Close ==
    /\ response = "read"
    /\ response' = "closed"
    /\ stop
    /\ UNCHANGED <<request, retried, bytes, quiet>>

Tick ==
    /\ left' = IF timer = "running" /\ left > 0 THEN left - 1 ELSE left
    /\ quiet' = IF quiet < Timeout THEN quiet + 1 ELSE quiet
    /\ UNCHANGED <<mode, timer, fired, cause, peers>>

WatchNext ==
    \/ Fire \/ Expire \/ Send \/ SendEnds \/ Headers \/ Refusal \/ RefusalEnds
    \/ NoResponse \/ Receive \/ ReceiveEnds \/ Close \/ Tick

WatchSpec == WatchInit /\ [][WatchNext]_watchVars

(***************************************************************************)
(* Fairness: time passes, timers fire and their goroutines run, a reader   *)
(* returns once the context is cancelled, and the wait for headers is      *)
(* bounded by HeaderTimeout.  The peer may stop moving bytes for good,     *)
(* which nothing bounds in an answer that is read without the watch.       *)
(***************************************************************************)
WatchFairSpec ==
    /\ WatchSpec
    /\ WF_watchVars(Tick) /\ WF_watchVars(Fire) /\ WF_watchVars(Expire)
    /\ WF_watchVars(cause # "none" /\ (SendEnds \/ ReceiveEnds))
    /\ WF_watchVars(NoResponse) /\ WF_watchVars(Close)

-----------------------------------------------------------------------------
WatchTypeOK ==
    /\ mode \in {"idle", "active", "stopped"} /\ timer \in {"off", "running"}
    /\ left \in 0..Timeout /\ quiet \in 0..Timeout
    /\ fired \in Nat /\ bytes \in Nat
    /\ cause \in {"none", "stalled", "ended"}
    /\ request \in {"none", "begun", "reading", "read"} /\ retried \in BOOLEAN
    /\ response \in {"awaited", "refused", "reading", "read", "closed"}

\* What the timer makes of a transfer is true of it (transfer.go 33-70): it never fires before
\* Timeout has passed without a byte, however often it was stopped, reset and started again in
\* between, and whenever its goroutine then gets the mutex, the request is cancelled as stalled
\* only while one of its bodies is being read, not between them or after its end.
TimerTruthful ==
    [][/\ fired' > fired => quiet = Timeout
       /\ cause' = "stalled" /\ cause # "stalled" =>
            request = "reading" \/ response = "reading"]_watchVars

\* A response that is read with its watch paused: the request body ended, or failed, after
\* the headers came (transfer.go 99).
Unwatched == response = "reading" /\ mode = "idle" /\ cause = "none"

\* Once a body has begun to move the request ends, also when the peer stops for good after
\* any byte, unless its response is left unwatched (client.go 35, transfer.go 33-70).
TransfersEnd ==
    request = "reading" \/ response = "reading" ~> response = "closed" \/ Unwatched

\* The same without the exception: "cancels an upload or download when no body bytes move
\* for this long" (client.go 35). It fails when the service answers early.
StallsAreCancelled ==
    request = "reading" \/ response = "reading" ~> response = "closed"

\* "It resets whenever progress is made" (client.go 36): only a request whose bytes
\* have not moved for Timeout is cancelled as stalled.
NoFalseStall == [][cause' = "stalled" /\ cause # "stalled" => quiet = Timeout]_watchVars
=============================================================================
