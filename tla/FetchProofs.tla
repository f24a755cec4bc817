----------------------------- MODULE FetchProofs -----------------------------
(***************************************************************************)
(* What Fetch promises for every number of attempts, every timeout, every  *)
(* backoff and every width of the integers.  The invariant is a budget: by *)
(* the attempt it is at, a fetch has used up at most so many timeouts and  *)
(* longest waits.                                                          *)
(***************************************************************************)
EXTENDS Fetch, TLAPS

Modulus == 2^Width
Half == 2^(Width - 1)

\* A duration in the type's range is what it is (time.Duration).
LEMMA WrapFacts ==
    ASSUME NEW n \in Int
    PROVE  Wrap(n) \in Int /\ (n \in Durations => Wrap(n) = n)
<1> DEFINE M == 2^Width
           H == 2^(Width - 1)
<1>1. H \in Nat /\ M = 2 * H /\ H > 0
  BY FetchAssumption DEF Durations
<1>2. Wrap(n) = ((n + H) % M) - H
  BY DEF Wrap
<1>3. n \in Durations => n >= 0 /\ n < H
  BY <1>1 DEF Durations
<1> HIDE DEF M, H
<1>4. (n + H) % M \in Int
  BY <1>1
<1>5. n >= 0 /\ n < H => (n + H) % M = n + H
  BY <1>1
<1> QED
  BY <1>1, <1>2, <1>3, <1>4, <1>5

\* No wait between two attempts is longer than the longest backoff or the
\* interval, and none is negative (waitBackoff, retryAfter).
LEMMA WaitsAreBounded ==
    ASSUME NEW k \in 1..Attempts, NEW seconds \in Nat, NEW d,
           d \in Waits(k, 0) \/ d \in Waits(k, RetryAfter(seconds))
    PROVE  d \in Nat /\ d <= LongestWait
<1>1. LongestWait \in Nat /\ MaxBackoff <= LongestWait /\ Interval <= LongestWait
     /\ MaxBackoff \in Nat /\ Interval \in Nat
  BY FetchAssumption DEF LongestWait, Longer, Durations
<1>2. Ceiling(k) \in Int /\ Ceiling(k) <= MaxBackoff
  <2>1. InitialBackoff \in Nat /\ 2^(k - 1) \in Nat /\ MaxBackoff \in Nat
    BY FetchAssumption DEF Durations
  <2>2. InitialBackoff * 2^(k - 1) \in Int
    BY <2>1
  <2>3. Wrap(InitialBackoff * 2^(k - 1)) \in Int
    BY <2>2, WrapFacts
  <2> QED
    BY <2>1, <2>3 DEF Ceiling
<1>3. RetryAfter(seconds) \in Int /\ RetryAfter(seconds) <= Interval
  <2>1. Second \in Nat /\ Interval \in Nat
    BY FetchAssumption DEF Durations
  <2>2. Wrap(seconds * Second) \in Int
    BY <2>1, WrapFacts
  <2> QED
    BY <2>1, <2>2 DEF RetryAfter
<1>4. ASSUME NEW override \in Int, override <= Interval, d \in Waits(k, override)
      PROVE  d \in Nat /\ d <= LongestWait
  <2>1. CASE override > 0
    BY <1>1, <1>4, <2>1 DEF Waits
  <2>2. CASE ~(override > 0) /\ Ceiling(k) > 0
    BY <1>1, <1>2, <1>4, <2>2 DEF Waits
  <2>3. CASE ~(override > 0) /\ ~(Ceiling(k) > 0)
    BY <1>1, <1>4, <2>3 DEF Waits
  <2> QED
    BY <2>1, <2>2, <2>3
<1>5. 0 \in Int /\ 0 <= Interval
  BY FetchAssumption DEF Durations
<1>6. CASE d \in Waits(k, 0)
  BY <1>4, <1>5, <1>6
<1>7. CASE d \in Waits(k, RetryAfter(seconds))
  BY <1>3, <1>4, <1>7
<1> QED
  BY <1>6, <1>7

\* A duration a server names that does not overflow is waited for, up to one
\* interval (retryAfter).
LEMMA RetryAfterWaits ==
    ASSUME NEW seconds \in Nat, NEW k, NEW d \in Waits(k, RetryAfter(seconds)),
           seconds * Second \in Durations, seconds * Second > 0
    PROVE  d = Shorter(seconds * Second, Interval)
<1>1. seconds * Second \in Int /\ Interval \in Nat \ {0}
  BY FetchAssumption DEF Durations
<1>2. Wrap(seconds * Second) = seconds * Second
  BY <1>1, WrapFacts
<1>3. RetryAfter(seconds) = Shorter(seconds * Second, Interval)
  BY <1>1, <1>2 DEF RetryAfter, Shorter
<1>4. RetryAfter(seconds) > 0
  BY <1>1, <1>3 DEF Shorter
<1> QED
  BY <1>3, <1>4 DEF Waits

-----------------------------------------------------------------------------
Round == Timeout + LongestWait

\* The row is final only once Fetch has returned, and requests are counted from
\* the first attempt on.
Stages ==
    /\ step # "returned" => tick.result \in {"none", "running"}
    /\ step \in {"called", "resolving"} => attempt = 0 /\ requests = 0 /\ elapsed = 0 /\ left = 0
    /\ step \in {"requesting", "waiting"} => attempt \in 1..Attempts
    /\ step = "requesting" => left = 0
    /\ step = "waiting" => attempt < Attempts

\* The time an attempt has cost the fetch so far.
Budget ==
    /\ step = "requesting" => elapsed <= (attempt - 1) * Round
    /\ step = "waiting" => elapsed + left <= attempt * Round

\* What is waited and what is left of the wait make up what was asked for.
Patience ==
    step = "waiting" /\ asked \in Durations => idle + left >= Shorter(asked, Interval)

IInv == TypeOK /\ Stages /\ Budget /\ Patience /\ FetchEndsInTime /\ AttemptsAreRequests

LEMMA RoundFacts ==
    /\ Round \in Nat /\ LongestWait \in Nat /\ Timeout \in Nat /\ Interval \in Nat \ {0}
    /\ Attempts \in Nat /\ Attempts >= 1
    /\ Round = Timeout + LongestWait
    /\ Attempts * Timeout + (Attempts - 1) * LongestWait = (Attempts - 1) * Round + Timeout
  BY FetchAssumption DEF Round, LongestWait, Longer, Durations

\* Multiplication by a natural number is monotonic.
LEMMA TimesGrows ==
    ASSUME NEW m \in Nat, NEW n \in Nat, NEW r \in Nat, m <= n
    PROVE  m * r <= n * r /\ (m + 1) * r = m * r + r /\ m * r \in Nat
<1>1. n * r = m * r + (n - m) * r
  OBVIOUS
<1>2. m * r \in Nat /\ (n - m) \in Nat
  OBVIOUS
<1>3. (n - m) * r \in Nat
  BY <1>2
<1>4. (m + 1) * r = m * r + r
  OBVIOUS
<1> QED
  BY <1>1, <1>2, <1>3, <1>4

\* The rounds of fewer attempts take no longer.
LEMMA RoundsGrow ==
    ASSUME NEW m \in Nat, NEW n \in Nat, m <= n
    PROVE  m * Round <= n * Round /\ (m + 1) * Round = m * Round + Round /\ m * Round \in Nat
<1>1. Round \in Nat
  BY RoundFacts
<1> QED
  BY <1>1, TimesGrows

\* The results and categories the code writes.
LEMMA CategoryFacts ==
    /\ "none" \in Result /\ "running" \in Result /\ "failed" \in Result /\ "cancelled" \in Result
    /\ "captured" \in Result /\ "captured_invalid" \in Result
    /\ "none" \in Category /\ "cancelled" \in Category /\ "configuration" \in Category
    /\ "http_status" \in Category /\ "local_storage" \in Category /\ "body_too_large" \in Category
    /\ \A category \in Network : category \in Category
  BY DEF Result, Category

\* Fetch is called with its clock at zero (Init).
LEMMA InitIInv == Init => IInv
<1> SUFFICES ASSUME Init PROVE IInv
  OBVIOUS
<1>1. TypeOK
  <2>1. tick \in [result : Result, category : Category, attempts : 0..Attempts]
    BY CategoryFacts, RoundFacts DEF Init, NoTick
  <2> QED
    BY <2>1, RoundFacts DEF Init, TypeOK
<1>4. Stages /\ Budget /\ Patience /\ AttemptsAreRequests
  BY DEF Init, Stages, Budget, Patience, AttemptsAreRequests, NoTick
<1>2. 0 <= Attempts * Timeout + (Attempts - 1) * LongestWait
  <2>1. Attempts * Timeout \in Nat /\ (Attempts - 1) * LongestWait \in Nat
    BY RoundFacts
  <2> QED
    BY <2>1
<1>3. FetchEndsInTime
  <2>1. elapsed + left = 0
    BY DEF Init
  <2> QED
    BY <1>2, <2>1 DEF FetchEndsInTime
<1> QED
  BY <1>1, <1>3, <1>4 DEF IInv

\* The budget of the attempt a fetch is at keeps it within its time.
LEMMA BudgetIsEnough ==
    ASSUME TypeOK, Stages, Budget, step # "returned"
    PROVE  /\ FetchEndsInTime
           /\ step = "requesting" => elapsed + Timeout <= Attempts * Timeout + (Attempts - 1) * LongestWait
<1> DEFINE T == Attempts * Timeout + (Attempts - 1) * LongestWait
<1>1. T = (Attempts - 1) * Round + Timeout /\ (Attempts - 1) * Round \in Nat /\ Timeout \in Nat /\ Attempts - 1 \in Nat
  BY RoundFacts
<1>2. attempt \in Nat /\ elapsed \in Nat /\ left \in Nat
  BY RoundFacts DEF TypeOK
<1> HIDE DEF T
<1>3. CASE step \in {"called", "resolving"}
  <2>1. elapsed + left <= T
    BY <1>1, <1>2, <1>3 DEF Stages
  <2> QED
    BY <2>1, <1>3 DEF FetchEndsInTime, T
<1>4. CASE step = "requesting"
  <2>1. attempt - 1 \in Nat /\ attempt - 1 <= Attempts - 1 /\ left = 0
    BY <1>2, <1>4, RoundFacts DEF Stages
  <2>2. (attempt - 1) * Round <= (Attempts - 1) * Round /\ (attempt - 1) * Round \in Nat
    BY <1>1, <2>1, RoundsGrow
  <2>3. elapsed <= (attempt - 1) * Round
    BY <1>4 DEF Budget
  <2>4. elapsed + Timeout <= T /\ elapsed + left <= T
    BY <1>1, <1>2, <2>1, <2>2, <2>3
  <2> QED
    BY <2>4 DEF FetchEndsInTime, T
<1>5. CASE step = "waiting"
  <2>1. attempt <= Attempts - 1
    BY <1>2, <1>5, RoundFacts DEF Stages
  <2>2. attempt * Round <= (Attempts - 1) * Round /\ attempt * Round \in Nat
    BY <1>1, <1>2, <2>1, RoundsGrow
  <2>3. elapsed + left <= attempt * Round
    BY <1>5 DEF Budget
  <2>4. elapsed + left <= T
    BY <1>1, <1>2, <2>2, <2>3
  <2> QED
    BY <2>4, <1>5 DEF FetchEndsInTime, T
<1> QED
  BY <1>3, <1>4, <1>5 DEF TypeOK

\* An attempt that is over leaves the fetch waiting, within the budget of the
\* next one (Fetch).
LEMMA AttemptsFit ==
    ASSUME TypeOK, Stages, Budget, step = "requesting",
           NEW d \in 0..Timeout, NEW w \in Nat, w <= LongestWait
    PROVE  (elapsed + d) + w <= attempt * Round
<1>1. attempt - 1 \in Nat /\ attempt \in Nat /\ elapsed \in Nat
  BY RoundFacts DEF TypeOK, Stages
<1>2. ((attempt - 1) + 1) * Round = (attempt - 1) * Round + Round /\ (attempt - 1) * Round \in Nat
  BY <1>1, RoundsGrow
<1>3. attempt * Round = (attempt - 1) * Round + Round
  BY <1>1, <1>2
<1>4. elapsed <= (attempt - 1) * Round
  BY DEF Budget
<1> HIDE DEF Round
<1> QED
  BY <1>1, <1>2, <1>3, <1>4, RoundFacts

-----------------------------------------------------------------------------
Allowed == Attempts * Timeout + (Attempts - 1) * LongestWait

\* What a final row says is true of it when it is written (finishFailure).
LEMMA FailuresAreTold ==
    ASSUME IInv, NEW category, FinishFailure(category), step # "returned",
           requests' = requests,
           category \in Category,
           attempt = requests
    PROVE  /\ step' = "returned" /\ attempt' \in 0..Attempts /\ left' = left
           /\ tick' \in [result : Result, category : Category, attempts : 0..Attempts]
           /\ Stages' /\ Budget' /\ Patience' /\ AttemptsAreRequests'
<1>1. attempt \in 0..Attempts /\ attempt' = attempt /\ left' = left /\ step' = "returned"
  BY DEF IInv, TypeOK, FinishFailure
<1>2. \/ tick.result \in {"none", "running"} /\ tick' = tick
      \/ tick' = [result |-> IF category = "cancelled" THEN "cancelled" ELSE "failed",
                  category |-> category, attempts |-> attempt]
  BY DEF IInv, Stages, FinishFailure, Record, AttemptsMade
<1>3. Stages' /\ Budget' /\ Patience'
  BY <1>1 DEF Stages, Budget, Patience
<1>4. AttemptsAreRequests'
  BY <1>1, <1>2 DEF AttemptsAreRequests
<1> QED
  BY <1>1, <1>2, <1>3, <1>4 DEF IInv, TypeOK, Result

\* The time a request took, with the fetch over after it.
LEMMA LastRequest ==
    ASSUME IInv, step = "requesting", NEW d \in 0..Timeout, Takes(d), left' = left
    PROVE  /\ elapsed' \in Nat /\ idle' \in Nat /\ requests' = requests /\ requests \in Nat
           /\ left' \in Nat /\ FetchEndsInTime'
<1>1. elapsed + Timeout <= Allowed
  BY BudgetIsEnough DEF IInv, Allowed
<1>2. elapsed \in Nat /\ left = 0 /\ requests \in Nat /\ Timeout \in Nat
  BY RoundFacts DEF IInv, TypeOK, Stages
<1>3. elapsed' = elapsed + d /\ idle' = 0 /\ requests' = requests /\ d \in Nat
  BY <1>2 DEF Takes
<1>4. Allowed \in Int
  <2>1. Attempts * Timeout \in Nat /\ (Attempts - 1) * LongestWait \in Nat
    BY RoundFacts
  <2> QED
    BY <2>1 DEF Allowed
<1>5. elapsed' + left' <= Allowed
  BY <1>1, <1>2, <1>3, <1>4
<1>6. FetchEndsInTime'
  BY <1>5 DEF FetchEndsInTime, Allowed
<1> QED
  BY <1>2, <1>3, <1>6

\* A request that is tried again leaves the fetch waiting within its budget.
LEMMA NextAttempt ==
    ASSUME IInv, step = "requesting", MayRetry(attempt),
           NEW d \in 0..Timeout, Takes(d), NEW override, Wait(override),
           left' \in Nat, left' <= LongestWait, asked' \in Nat,
           asked' \in Durations => left' >= Shorter(asked', Interval)
    PROVE  IInv'
<1>1. /\ step' = "waiting" /\ attempt' = attempt /\ tick' = tick /\ requests' = requests
      /\ elapsed' = elapsed + d /\ idle' = 0 /\ d \in Nat /\ attempt < Attempts
  BY RoundFacts DEF Takes, Wait, MayRetry
<1>2. TypeOK'
  BY <1>1 DEF IInv, TypeOK
<1>3. Stages'
  BY <1>1 DEF IInv, Stages
<1>4. Budget'
  BY <1>1, AttemptsFit DEF IInv, Budget
<1>5. Patience'
  BY <1>1 DEF Patience
<1>6. AttemptsAreRequests'
  BY <1>1 DEF IInv, AttemptsAreRequests
<1>7. FetchEndsInTime'
  <2>1. (TypeOK /\ Stages /\ Budget /\ step # "returned" => FetchEndsInTime)'
    BY BudgetIsEnough, PTL
  <2> QED
    BY <1>1, <1>2, <1>3, <1>4, <2>1
<1> QED
  BY <1>2, <1>3, <1>4, <1>5, <1>6, <1>7 DEF IInv

\* A fetch that ends in the middle keeps what it promised (finishFailure).
LEMMA LastAttempt ==
    ASSUME IInv, step = "requesting", NEW d \in 0..Timeout, Takes(d),
           NEW category \in Category, FinishFailure(category), asked' \in Nat
    PROVE  IInv'
<1>1. elapsed' \in Nat /\ idle' \in Nat /\ requests' = requests /\ requests \in Nat
  BY LastRequest DEF FinishFailure
<1>2. left' \in Nat /\ FetchEndsInTime'
  BY LastRequest DEF FinishFailure
<1>3. attempt = requests
  BY DEF IInv, AttemptsAreRequests
<1> QED
  BY <1>1, <1>2, <1>3, FailuresAreTold DEF IInv, TypeOK

\* Every step of a fetch keeps its types, its stages, its budget and the waits
\* it owes (Next).
LEMMA NextIInv == IInv /\ [Next]_vars => IInv'
<1> SUFFICES ASSUME IInv, [Next]_vars PROVE IInv'
  OBVIOUS
<1>1. CASE UNCHANGED vars
  BY <1>1 DEF vars, IInv, TypeOK, Stages, Budget, Patience, FetchEndsInTime, AttemptsAreRequests
<1>2. CASE RecordTick
  <2>1. /\ step' \in {"resolving", "returned"} /\ attempt' = 0 /\ left' = 0 /\ elapsed' = 0
        /\ requests' = 0 /\ asked' = asked /\ idle' = idle
    BY <1>2 DEF RecordTick, IInv, Stages
  <2>2. tick' \in [result : Result, category : Category, attempts : 0..Attempts]
        /\ tick'.result \in {"none", "running"}
    <3>1. tick' = tick \/ tick' = Running
      BY <1>2 DEF RecordTick
    <3>2. tick \in [result : Result, category : Category, attempts : 0..Attempts]
          /\ tick.result \in {"none", "running"}
      BY <1>2 DEF RecordTick, IInv, TypeOK, Stages
    <3>3. Running \in [result : Result, category : Category, attempts : 0..Attempts]
          /\ Running.result = "running"
      BY CategoryFacts, RoundFacts DEF Running
    <3> QED
      BY <3>1, <3>2, <3>3
  <2>3. FetchEndsInTime'
    BY <1>2 DEF RecordTick, IInv, FetchEndsInTime
  <2> QED
    BY <2>1, <2>2, <2>3, RoundFacts
    DEF IInv, TypeOK, Stages, Budget, Patience, AttemptsAreRequests
<1>3. CASE ResolveRequest
  <2>1. step = "resolving" /\ attempt = 0 /\ left = 0 /\ elapsed = 0 /\ requests = 0
        /\ elapsed' = elapsed /\ asked' = asked /\ idle' = idle
    BY <1>3 DEF ResolveRequest, IInv, Stages
  <2>2. CASE step' = "requesting" /\ attempt' = 1 /\ requests' = 1 /\ UNCHANGED <<tick, left>>
    <3>1. FetchEndsInTime'
      BY <2>1, <2>2 DEF IInv, FetchEndsInTime
    <3>2. (attempt' - 1) * Round = 0
      BY <2>2, RoundFacts
    <3> QED
      BY <2>1, <2>2, <3>1, <3>2, RoundFacts
      DEF IInv, TypeOK, Stages, Budget, Patience, AttemptsAreRequests
  <2>3. CASE FinishFailure("configuration") /\ UNCHANGED requests
    <3>1. FetchEndsInTime'
      BY <2>1, <2>3 DEF IInv, FetchEndsInTime, FinishFailure
    <3> QED
      BY <2>1, <2>3, <3>1, FailuresAreTold, CategoryFacts DEF IInv, TypeOK
  <2> QED
    BY <1>3, <2>2, <2>3 DEF ResolveRequest
<1>10. CASE InvalidRequest
  <2>1. /\ step = "resolving" /\ attempt = 0 /\ left = 0 /\ elapsed = 0 /\ requests = 0
        /\ tick.result \in {"none", "running"}
        /\ step' = "returned" /\ attempt' = 1 /\ tick' \in {tick, Unbuilt}
        /\ UNCHANGED <<left, elapsed, requests, asked, idle>>
    BY <1>10 DEF InvalidRequest, Record, IInv, Stages
  <2>2. Unbuilt \in [result : Result, category : Category, attempts : 0..Attempts]
    BY CategoryFacts, FetchAssumption DEF Unbuilt, Result
  <2>3. FetchEndsInTime'
    BY <2>1 DEF IInv, FetchEndsInTime
  <2> QED
    BY <2>1, <2>2, <2>3, RoundFacts, FetchAssumption
    DEF IInv, TypeOK, Stages, Budget, Patience, AttemptsAreRequests
<1>4. ASSUME NEW category \in Network, RequestFails(category) PROVE IInv'
  <2>1. PICK d \in 0..Timeout : Takes(d)
    BY <1>4 DEF RequestFails
  <2>2. step = "requesting" /\ asked' = 0
    BY <1>4 DEF RequestFails
  <2>3. CASE MayRetry(attempt) /\ Wait(0)
    <3>1. attempt \in 1..Attempts /\ left' \in Waits(attempt, 0)
      BY <2>2, <2>3 DEF IInv, Stages, Wait
    <3>2. left' \in Nat /\ left' <= LongestWait
      BY <3>1, WaitsAreBounded
    <3>3. left' >= Shorter(asked', Interval)
      BY <2>2, <3>2, RoundFacts DEF Shorter
    <3> QED
      BY <2>1, <2>2, <2>3, <3>2, <3>3, NextAttempt
  <2>4. CASE FinishFailure(category)
    BY <2>1, <2>2, <2>4, LastAttempt, CategoryFacts
  <2> QED
    BY <1>4, <2>3, <2>4 DEF RequestFails
<1>5. ASSUME NEW status \in Status, NEW seconds \in RetryAfters, Refused(status, seconds) PROVE IInv'
  <2>1. PICK d \in 0..Timeout : Takes(d)
    BY <1>5 DEF Refused
  <2>2. step = "requesting" /\ asked' = seconds * Second /\ seconds \in Nat /\ Second \in Nat
    BY <1>5, FetchAssumption DEF Refused, Durations
  <2>3. asked' \in Nat
    BY <2>2
  <2>4. CASE MayRetry(attempt) /\ Wait(RetryAfter(seconds))
    <3>1. attempt \in 1..Attempts /\ left' \in Waits(attempt, RetryAfter(seconds))
      BY <2>2, <2>4 DEF IInv, Stages, Wait
    <3>2. left' \in Nat /\ left' <= LongestWait
      BY <2>2, <3>1, WaitsAreBounded
    <3>3. asked' \in Durations => left' >= Shorter(asked', Interval)
      <4>1. CASE asked' = 0
        BY <3>2, <4>1, RoundFacts DEF Shorter
      <4>2. CASE asked' > 0
        <5>1. asked' \in Durations => left' = Shorter(asked', Interval)
          BY <2>2, <3>1, <4>2, RetryAfterWaits
        <5>2. Shorter(asked', Interval) \in Nat
          BY <2>3, RoundFacts DEF Shorter
        <5> QED
          BY <5>1, <5>2
      <4> QED
        BY <2>3, <4>1, <4>2
    <3> QED
      BY <2>1, <2>2, <2>3, <2>4, <3>2, <3>3, NextAttempt
  <2>5. CASE FinishFailure("http_status")
    BY <2>1, <2>2, <2>3, <2>5, LastAttempt, CategoryFacts
  <2> QED
    BY <1>5, <2>4, <2>5 DEF Refused
<1>6. ASSUME NEW outcome \in {"captured", "captured_invalid", "local_storage", "body_too_large"},
             CaptureResponse(outcome)
      PROVE  IInv'
  <2>1. PICK d \in 0..Timeout : Takes(d)
    BY <1>6 DEF CaptureResponse
  <2>2. step = "requesting" /\ asked' = 0
    BY <1>6 DEF CaptureResponse
  <2>3. CASE /\ outcome \in {"captured", "captured_invalid"}
             /\ step' = "returned"
             /\ Record([result |-> outcome, category |-> "none", attempts |-> attempt])
             /\ UNCHANGED <<attempt, left>>
    <3>1. /\ elapsed' \in Nat /\ idle' \in Nat /\ requests' = requests /\ requests \in Nat
          /\ left' \in Nat /\ FetchEndsInTime'
      BY <2>1, <2>2, <2>3, LastRequest
    <3>2. attempt \in 0..Attempts /\ attempt = requests
      BY <2>2 DEF IInv, TypeOK, AttemptsAreRequests
    <3>3. \/ tick' = tick /\ tick.result \in {"none", "running"}
          \/ tick' = [result |-> outcome, category |-> "none", attempts |-> attempt]
      BY <2>2, <2>3 DEF IInv, Stages, Record
    <3>4. tick' \in [result : Result, category : Category, attempts : 0..Attempts]
      BY <2>3, <3>2, <3>3, CategoryFacts DEF IInv, TypeOK
    <3>5. AttemptsAreRequests'
      <4>1. tick'.result \notin {"none", "running"} => tick'.attempts = requests'
        BY <2>3, <3>1, <3>2, <3>3
      <4> QED
        BY <2>3, <4>1 DEF AttemptsAreRequests
    <3> QED
      BY <2>2, <2>3, <3>1, <3>2, <3>4, <3>5 DEF IInv, TypeOK, Stages, Budget, Patience
  <2>4. CASE FinishFailure(outcome) /\ outcome \in {"local_storage", "body_too_large"}
    BY <2>1, <2>2, <2>4, LastAttempt, CategoryFacts
  <2> QED
    BY <1>6, <2>3, <2>4 DEF CaptureResponse
<1>7. CASE BackoffElapses
  <2>1. /\ step = "waiting" /\ left = 0 /\ step' = "requesting" /\ attempt' = attempt + 1
        /\ requests' = requests + 1 /\ UNCHANGED <<tick, left, elapsed, asked, idle>>
    BY <1>7 DEF BackoffElapses
  <2>2. attempt \in 1..Attempts /\ attempt < Attempts /\ attempt = requests /\ elapsed \in Nat
        /\ elapsed + left <= attempt * Round
    BY <2>1 DEF IInv, TypeOK, Stages, Budget, AttemptsAreRequests
  <2>3. attempt' \in 1..Attempts /\ attempt' - 1 = attempt /\ attempt' = requests' /\ requests' \in Nat
    BY <2>1, <2>2, RoundFacts
  <2>4. attempt * Round \in Nat
    BY <2>2, RoundFacts, RoundsGrow
  <2>5. elapsed' <= (attempt' - 1) * Round
    BY <2>1, <2>2, <2>3, <2>4
  <2>6. FetchEndsInTime'
    BY <2>1 DEF IInv, FetchEndsInTime
  <2> QED
    BY <2>1, <2>3, <2>5, <2>6, RoundFacts
    DEF IInv, TypeOK, Stages, Budget, Patience, AttemptsAreRequests
<1>8. CASE TimePasses
  <2>1. /\ step = "waiting" /\ left > 0 /\ left' = left - 1 /\ elapsed' = elapsed + 1
        /\ idle' = idle + 1 /\ UNCHANGED <<step, attempt, tick, requests, asked>>
    BY <1>8 DEF TimePasses
  <2>2. left \in Nat /\ elapsed \in Nat /\ idle \in Nat /\ asked \in Nat
    BY DEF IInv, TypeOK
  <2>3. left' \in Nat /\ elapsed' \in Nat /\ idle' \in Nat /\ elapsed' + left' = elapsed + left
        /\ idle' + left' = idle + left
    BY <2>1, <2>2
  <2>4. FetchEndsInTime'
    BY <2>1, <2>3 DEF IInv, FetchEndsInTime
  <2>5. Budget' /\ Patience'
    BY <2>1, <2>3 DEF IInv, Budget, Patience
  <2> QED
    BY <2>1, <2>2, <2>3, <2>4, <2>5 DEF IInv, TypeOK, Stages, AttemptsAreRequests
<1>9. CASE Cancel
  <2>1. /\ step \in {"requesting", "waiting"} /\ FinishFailure("cancelled")
        /\ UNCHANGED <<elapsed, requests, asked, idle>>
    BY <1>9 DEF Cancel
  <2>2. attempt = requests /\ step # "returned"
    BY <2>1 DEF IInv, AttemptsAreRequests
  <2>3. FetchEndsInTime'
    BY <2>1 DEF IInv, FetchEndsInTime, FinishFailure
  <2> QED
    BY <2>1, <2>2, <2>3, FailuresAreTold, CategoryFacts DEF IInv, TypeOK
<1> QED
  BY <1>1, <1>2, <1>3, <1>4, <1>5, <1>6, <1>7, <1>8, <1>9, <1>10 DEF Next

\* IInv holds in every reachable state.
THEOREM SpecIInv == Spec => []IInv
  BY InitIInv, NextIInv, PTL DEF Spec

\* The row, the clocks and the counts of a fetch stay within their types (Fetch).
THEOREM SpecTypeOK == Spec => []TypeOK
  BY SpecIInv, PTL DEF IInv

\* No server and no overflow holds a fetch beyond its attempts and the longest
\* waits between them (waitBackoff, retryAfter).
THEOREM SpecFetchEndsInTime == Spec => []FetchEndsInTime
  BY SpecIInv, PTL DEF IInv

\* A tick reports as many attempts as requests were sent (finishFailure).
THEOREM SpecAttemptsAreRequests == Spec => []AttemptsAreRequests
  BY SpecIInv, PTL DEF IInv

\* Retry-After is waited for, up to one interval (retryAfter, waitBackoff).
THEOREM SpecRetryAfterIsHonoured == Spec => RetryAfterIsHonoured
<1>1. ASSUME IInv, [Next]_vars, requests' > requests, requests > 0, asked \in Durations
      PROVE  idle >= Shorter(asked, Interval)
  <2>1. requests \in Nat /\ left \in Nat /\ idle \in Nat
    BY <1>1 DEF IInv, TypeOK
  <2>2. BackoffElapses
    <3>1. requests' # requests
      BY <1>1, <2>1
    <3>2. ~RecordTick /\ ~TimePasses /\ ~Cancel /\ ~UNCHANGED vars
      BY <3>1 DEF RecordTick, TimePasses, Cancel, vars
    <3>3. ~ResolveRequest /\ ~InvalidRequest
      BY <1>1, <3>1 DEF ResolveRequest, InvalidRequest, IInv, Stages
    <3>4. \A category \in Network : ~RequestFails(category)
      BY <3>1 DEF RequestFails, Takes
    <3>5. \A status \in Status, seconds \in RetryAfters : ~Refused(status, seconds)
      BY <3>1 DEF Refused, Takes
    <3>6. \A outcome : ~CaptureResponse(outcome)
      BY <3>1 DEF CaptureResponse, Takes
    <3> QED
      BY <1>1, <3>2, <3>3, <3>4, <3>5, <3>6 DEF Next
  <2>3. step = "waiting" /\ left = 0
    BY <2>2 DEF BackoffElapses
  <2> QED
    BY <1>1, <2>1, <2>3 DEF IInv, Patience
<1>2. IInv /\ [Next]_vars =>
        [(requests' > requests /\ requests > 0 /\ asked \in Durations)
            => idle >= Shorter(asked, Interval)]_vars
  BY <1>1
<1> QED
  BY <1>2, SpecIInv, PTL DEF Spec, RetryAfterIsHonoured
=============================================================================
