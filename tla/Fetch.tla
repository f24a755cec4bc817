------------------------------- MODULE Fetch -------------------------------
(***************************************************************************)
(* One call of Fetcher.Fetch: the attempts at a request, the waits between *)
(* them, and the tick that reports the outcome.  The steps that put a body *)
(* on disk are those of RawStore; here a body is captured in one step.     *)
(* Durations are integers of Width bits, as time.Duration is one of 64,    *)
(* because the shift of the backoff and the product of Retry-After wrap.   *)
(***************************************************************************)
EXTENDS Integers

CONSTANTS
    Attempts,        \* http.retry.attempts
    Timeout,         \* request_timeout of the stream
    Interval,        \* interval of the stream
    InitialBackoff, MaxBackoff,
    Second,          \* durations of a second
    Width,           \* bits of a duration
    Status,          \* the codes servers answer with
    RetryAfters,     \* the seconds of a Retry-After header, 0 where there is none
    Cancellable      \* fetch-once is interrupted by a signal, a scheduled fetch is not

Durations == 0..(2^(Width - 1) - 1)

\* Validate, EffectiveTimeout.
ASSUME FetchAssumption ==
    /\ Attempts \in Nat /\ Attempts >= 1
    /\ Width \in Nat \ {0} /\ 2^(Width - 1) \in Nat /\ 2^Width = 2 * 2^(Width - 1)
    /\ \A k \in 1..Attempts : 2^(k - 1) \in Nat
    /\ Timeout \in Durations \ {0} /\ Interval \in Durations \ {0}
    /\ InitialBackoff \in Durations /\ MaxBackoff \in Durations /\ InitialBackoff <= MaxBackoff
    /\ Second \in Durations \ {0}
    /\ Status \subseteq 100..599 /\ RetryAfters \subseteq Nat
    /\ Cancellable \in BOOLEAN

VARIABLES
    step,      \* where Fetch is
    attempt,   \* the loop variable
    tick,      \* the row: its result, its category and its attempts
    left,      \* what is left of the wait
    elapsed,   \* history: time since Fetch was called
    requests,  \* history: requests sent
    asked,     \* history: the duration the last answer asked for, 0 for none
    idle       \* history: time since the last answer

vars == <<step, attempt, tick, left, elapsed, requests, asked, idle>>

NoTick == [result |-> "none", category |-> "none", attempts |-> 0]
Running == [result |-> "running", category |-> "none", attempts |-> 0]
Network == {"timeout", "dns", "tls", "connect", "network"}
Result == {"none", "running", "failed", "cancelled", "captured", "captured_invalid"}
Category ==
    Network \cup {"none", "cancelled", "configuration", "http_status", "local_storage", "body_too_large"}

Longer(a, b) == IF a > b THEN a ELSE b

Init ==
    /\ step = "called" /\ attempt = 0 /\ tick = NoTick /\ left = 0
    /\ elapsed = 0 /\ requests = 0 /\ asked = 0 /\ idle = 0

-----------------------------------------------------------------------------
(* Waiting.                                                                *)

Wrap(n) == ((n + 2^(Width - 1)) % 2^Width) - 2^(Width - 1)

Uncapped(k) == Wrap(InitialBackoff * 2^(k - 1))  \* mutant
Ceiling(k) ==
    IF Wrap(InitialBackoff * 2^(k - 1)) > MaxBackoff
    THEN MaxBackoff ELSE Wrap(InitialBackoff * 2^(k - 1))

\* A timer of a negative duration fires at once.
IgnoreOverride(k, override) == 0..Ceiling(k)  \* mutant
Waits(k, override) ==
    IF override > 0 THEN {override}
    ELSE IF Ceiling(k) > 0 THEN 0..Ceiling(k) ELSE {0}

RetryAfter(seconds) ==
    IF Wrap(seconds * Second) <= Interval THEN Wrap(seconds * Second) ELSE Interval

RetryableStatus(s) == s \in {408, 425, 429} \/ s >= 500

MayRetry(k) == k < Attempts

-----------------------------------------------------------------------------
(* The tick.                                                               *)

\* A state transaction that fails leaves the row as it was.
Record(row) == tick' = row \/ tick' = tick

CountAttempt(category) == attempt + 1  \* mutant
AttemptsMade(category) == attempt

FinishFailure(category) ==
    /\ step' = "returned"
    /\ Record([result |-> IF category = "cancelled" THEN "cancelled" ELSE "failed",
               category |-> category, attempts |-> AttemptsMade(category)])
    /\ UNCHANGED <<attempt, left>>

RecordTick ==
    /\ step = "called"
    /\ \/ tick' = Running /\ step' = "resolving"
       \/ tick' = tick /\ step' = "returned"
    /\ UNCHANGED <<attempt, left, elapsed, requests, asked, idle>>

\* resolveRequest reads the secrets of the stream.
ResolveRequest ==
    /\ step = "resolving"
    /\ \/ /\ step' = "requesting" /\ attempt' = 1 /\ requests' = 1
          /\ UNCHANGED <<tick, left>>
       \/ FinishFailure("configuration") /\ UNCHANGED requests
    /\ UNCHANGED <<elapsed, asked, idle>>

\* A request that cannot be built is not sent, but counts as an attempt.  The next
\* one would be the same, so it is the first.
Unbuilt == [result |-> "failed", category |-> "configuration", attempts |-> 1]
InvalidRequest ==
    /\ step = "resolving"
    /\ step' = "returned" /\ attempt' = 1 /\ Record(Unbuilt)
    /\ UNCHANGED <<left, elapsed, requests, asked, idle>>

Wait(override) ==
    /\ step' = "waiting"
    /\ left' \in Waits(attempt, override)
    /\ UNCHANGED <<attempt, tick>>

Takes(d) == elapsed' = elapsed + d /\ idle' = 0 /\ UNCHANGED requests

\* No answer: the attempt's own timeout bounds it.
RequestFails(category) ==
    /\ step = "requesting"
    /\ \E d \in 0..Timeout : Takes(d)
    /\ asked' = 0
    /\ \/ MayRetry(attempt) /\ Wait(0)
       \/ ~MayRetry(attempt) /\ FinishFailure(category)

\* A redirect is an answer like any other (CheckRedirect).
Refused(status, seconds) ==
    /\ step = "requesting" /\ status \notin 200..299
    /\ \E d \in 0..Timeout : Takes(d)
    /\ asked' = seconds * Second
    /\ \/ MayRetry(attempt) /\ RetryableStatus(status) /\ Wait(RetryAfter(seconds))
       \/ ~(MayRetry(attempt) /\ RetryableStatus(status)) /\ FinishFailure("http_status")

\* captureResponse: a body cut short is a capture too, an invalid one.
CaptureResponse(outcome) ==
    /\ step = "requesting" /\ Status \cap 200..299 # {}
    /\ \E d \in 0..Timeout : Takes(d)
    /\ asked' = 0
    /\ \/ /\ outcome \in {"captured", "captured_invalid"}
          /\ step' = "returned"
          /\ Record([result |-> outcome, category |-> "none", attempts |-> attempt])
          /\ UNCHANGED <<attempt, left>>
       \/ outcome \in {"local_storage", "body_too_large"} /\ FinishFailure(outcome)

BackoffElapses ==
    /\ step = "waiting" /\ left = 0
    /\ step' = "requesting" /\ attempt' = attempt + 1 /\ requests' = requests + 1
    /\ UNCHANGED <<tick, left, elapsed, asked, idle>>

TimePasses ==
    /\ step = "waiting" /\ left > 0
    /\ left' = left - 1 /\ elapsed' = elapsed + 1 /\ idle' = idle + 1
    /\ UNCHANGED <<step, attempt, tick, requests, asked>>

Cancel ==
    /\ Cancellable /\ step \in {"requesting", "waiting"}
    /\ FinishFailure("cancelled")
    /\ UNCHANGED <<elapsed, requests, asked, idle>>

Next ==
    \/ RecordTick \/ ResolveRequest \/ InvalidRequest
    \/ \E category \in Network : RequestFails(category)
    \/ \E status \in Status, seconds \in RetryAfters : Refused(status, seconds)
    \/ \E outcome \in {"captured", "captured_invalid", "local_storage", "body_too_large"} :
            CaptureResponse(outcome)
    \/ BackoffElapses \/ TimePasses \/ Cancel

Spec == Init /\ [][Next]_vars

-----------------------------------------------------------------------------
TypeOK ==
    /\ step \in {"called", "resolving", "requesting", "waiting", "returned"}
    /\ attempt \in 0..Attempts
    /\ tick \in [result : Result, category : Category, attempts : 0..Attempts]
    /\ left \in Nat /\ elapsed \in Nat /\ requests \in Nat /\ asked \in Nat /\ idle \in Nat

\* A fetch holds its slots no longer than its attempts and the longest waits
\* between them take, whatever a server asks for and however the arithmetic of
\* durations wraps (waitBackoff, retryAfter).
LongestWait == Longer(MaxBackoff, Interval)
FetchEndsInTime == elapsed + left <= Attempts * Timeout + (Attempts - 1) * LongestWait

\* A server that asks to be left alone is left alone that long, up to one
\* interval, unless the duration it names overflows (retryAfter, waitBackoff).
Shorter(a, b) == IF a < b THEN a ELSE b
RetryAfterIsHonoured ==
    [][(requests' > requests /\ requests > 0 /\ asked \in Durations)
        => idle >= Shorter(asked, Interval)]_vars

\* The attempts a tick reports are the requests that were sent, but for the one that
\* could not be built (finishFailure, SaveCapture).
AttemptsAreRequests ==
    /\ tick.result \notin {"none", "running"} =>
         tick.attempts = requests \/ (tick = Unbuilt /\ requests = 0)
    /\ step \in {"requesting", "waiting"} => attempt = requests
=============================================================================
