----------------------------- MODULE Scheduler -----------------------------
(***************************************************************************)
(* The scheduler: one goroutine per stream that waits for its next tick,   *)
(* skips it when it is late or the disk is too full, and otherwise takes a *)
(* slot of the global and then of the per-host semaphore before it         *)
(* fetches; the disk monitor that pauses fetching; and the shutdown.       *)
(*                                                                         *)
(* lag is the time since a stream's next tick, negative before it.  A      *)
(* stream's steps take no time; time passes while all streams wait or      *)
(* fetch, and a stall lets it pass while they have work to do.             *)
(***************************************************************************)
EXTENDS Integers, FiniteSets

CONSTANTS
    Stream, Host,
    HostOf,      \* the host of each stream's URL
    Interval,    \* of each stream
    Configured,  \* max_start_lateness of each stream
    FetchSlots,  \* runtime.fetch_concurrency
    HostSlots,   \* runtime.per_host_concurrency
    MaxFetch,    \* bound on the lag at which a fetch has ended
    MaxStall, MaxStalls  \* bounds on the length and the number of stalls

\* Config.Validate: intervals of at least a second, positive lateness and
\* concurrency.  A unit of time is half the smallest difference of interest.
ASSUME SchedulerAssumption ==
    /\ IsFiniteSet(Stream)
    /\ HostOf \in [Stream -> Host]
    /\ Interval \in [Stream -> Nat \ {0, 1}] /\ Configured \in [Stream -> Nat \ {0}]
    /\ FetchSlots \in Nat \ {0} /\ HostSlots \in Nat \ {0}
    /\ MaxFetch \in Nat /\ MaxStall \in Nat /\ MaxStalls \in Nat

VARIABLES
    pc,         \* where the stream's goroutine is
    lag,        \* time since its next tick
    global,     \* slots taken of the global semaphore
    perHost,    \* slots taken of each host's semaphore
    cancelled,  \* the context of the scheduler is done
    disk,       \* used space: below the resume threshold, between, above the pause threshold
    paused,     \* Monitor.paused
    stalls,     \* stalls so far
    stalled     \* time of the stalls since each stream began to wait for its slots

slots == <<global, perHost>>
environment == <<cancelled, disk, paused, stalls>>
vars == <<pc, lag, slots, environment, stalled>>

\* Go's remainder has the sign of the dividend.
Rem(value, divisor) == IF value < 0 THEN -((-value) % divisor) ELSE value % divisor

FloorMod(value, divisor) ==
    LET r == Rem(value, divisor) IN IF r < 0 THEN r + divisor ELSE r

NextTick(now, interval, phase) ==
    LET base == now - FloorMod(now - phase, interval) IN
    IF base <= now THEN base + interval ELSE base

EffectiveLateness(configured, interval) ==
    IF configured >= interval THEN interval \div 2 ELSE configured

Lateness(s) == EffectiveLateness(Configured[s], Interval[s])

MaxLag == LET ends == {MaxFetch} \cup {Lateness(s) : s \in Stream} IN
          (CHOOSE m \in ends : \A x \in ends : x <= m) + MaxStall * MaxStalls

TypeOK ==
    /\ pc \in [Stream -> {"loop", "waiting", "global", "host", "acquired", "fetching", "stopped"}]
    /\ \A s \in Stream : lag[s] \in -Interval[s]..MaxLag
    /\ global \in 0..FetchSlots /\ perHost \in [Host -> 0..HostSlots]
    /\ cancelled \in BOOLEAN /\ paused \in BOOLEAN
    /\ disk \in {"low", "between", "high"}
    /\ stalls \in 0..MaxStalls
    /\ stalled \in [Stream -> 0..MaxStall * MaxStalls]

\* Any clock reading and any phase: StablePhase is a hash modulo the interval.
Init ==
    /\ pc = [s \in Stream |-> "loop"]
    /\ \E now \in -1..1, phase \in [Stream -> 0..1] :
         lag = [s \in Stream |-> now - NextTick(now, Interval[s], phase[s])]
    /\ global = 0 /\ perHost = [h \in Host |-> 0]
    /\ cancelled = FALSE /\ disk = "low" /\ paused = FALSE
    /\ stalls = 0 /\ stalled = [s \in Stream |-> 0]

-----------------------------------------------------------------------------
(* A stream *)

Goes(s, to) == pc' = [pc EXCEPT ![s] = to]
SameTick(s) == UNCHANGED lag  \* mutant
NextInterval(s) == lag' = [lag EXCEPT ![s] = @ - Interval[s]]

TakeHost(s) == perHost' = [perHost EXCEPT ![HostOf[s]] = @ + 1]
ReturnHost(s) == perHost' = [perHost EXCEPT ![HostOf[s]] = @ - 1]

\* waitUntil returns at once when the tick is due, whatever the context says.
Due(s) == pc[s] \in {"loop", "waiting"} /\ lag[s] >= 0

WaitUntil(s) ==
    /\ pc[s] = "loop" /\ lag[s] < 0
    /\ Goes(s, "waiting")
    /\ UNCHANGED <<lag, slots, environment, stalled>>

StopWaiting(s) ==
    /\ pc[s] = "waiting" /\ cancelled
    /\ Goes(s, "stopped")
    /\ UNCHANGED <<lag, slots, environment, stalled>>

\* The tick is recorded as skipped: "late", "disk_pressure", or, with its deadline
\* reached before it could queue for a slot, "global_concurrency".
Skip(s) ==
    /\ Due(s) /\ (lag[s] >= Lateness(s) \/ paused)
    /\ Goes(s, "loop") /\ NextInterval(s)
    /\ UNCHANGED <<slots, environment, stalled>>

Queue(s) ==
    /\ Due(s) /\ lag[s] < Lateness(s) /\ ~paused
    /\ Goes(s, "global")
    /\ UNCHANGED <<lag, slots, environment, stalled>>

\* Both slots are waited for until the one deadline of the tick.
DeadlineEach(s) == IF pc[s] = "host" THEN 2 * Lateness(s) ELSE Lateness(s)  \* mutant
Deadline(s) == Lateness(s)

\* A timer is set for the time that was left a moment before, so a stall in
\* between lets it fire late, by no more than the stall.
Fires(s) == lag[s] >= Deadline(s)
HasFired(s) == lag[s] >= Deadline(s) + stalled[s]
EndsWait(s) == stalled' = [stalled EXCEPT ![s] = 0]

\* select chooses among the channels that are ready: a free slot may be taken when
\* the context is done or the timer has fired.  For the global slot that comes to
\* a skip: the wait for the host finds the deadline passed and returns it.
AcquireGlobal(s) ==
    /\ pc[s] = "global" /\ lag[s] < Deadline(s) /\ global < FetchSlots
    /\ Goes(s, "host") /\ global' = global + 1
    /\ UNCHANGED <<lag, perHost, environment, stalled>>

SkipGlobal(s) ==
    /\ pc[s] = "global" /\ (Fires(s) \/ cancelled)
    /\ Goes(s, "loop") /\ NextInterval(s) /\ EndsWait(s)
    /\ UNCHANGED <<slots, environment>>

AcquireHost(s) ==
    /\ pc[s] = "host" /\ perHost[HostOf[s]] < HostSlots
    /\ Goes(s, "acquired") /\ TakeHost(s) /\ EndsWait(s)
    /\ UNCHANGED <<lag, global, environment>>

Kept == UNCHANGED global  \* mutant
ReturnGlobal == global' = global - 1

\* The tick that waited for the host has the global slot only.
NoHostSlot(s) == UNCHANGED perHost

SkipHost(s) ==
    /\ pc[s] = "host" /\ (Fires(s) \/ cancelled)
    /\ Goes(s, "loop") /\ NextInterval(s) /\ EndsWait(s)
    /\ ReturnGlobal /\ NoHostSlot(s)
    /\ UNCHANGED environment

\* The context may have been done while the slots were taken.
StartFetch(s) ==
    /\ pc[s] = "acquired" /\ ~cancelled
    /\ Goes(s, "fetching")
    /\ UNCHANGED <<lag, slots, environment, stalled>>

StopAcquired(s) ==
    /\ pc[s] = "acquired" /\ cancelled
    /\ Goes(s, "stopped")
    /\ ReturnHost(s) /\ ReturnGlobal
    /\ UNCHANGED <<lag, environment, stalled>>

\* Fetch runs with a context of its own; its timeouts end it.
FetchEnds(s) ==
    /\ pc[s] = "fetching"
    /\ Goes(s, "loop") /\ NextInterval(s)
    /\ ReturnHost(s) /\ ReturnGlobal
    /\ UNCHANGED <<environment, stalled>>

-----------------------------------------------------------------------------
(* The monitor, the shutdown and the clock *)

DiskChanges ==
    /\ disk' \in {"low", "between", "high"} \ {disk}
    /\ UNCHANGED <<pc, lag, slots, cancelled, paused, stalls, stalled>>

\* Monitor.Check: pause at one threshold, resume at a lower one.
Check ==
    /\ paused' = CASE ~paused /\ disk = "high" -> TRUE
                   [] paused /\ disk = "low" -> FALSE
                   [] OTHER -> paused
    /\ paused' # paused
    /\ UNCHANGED <<pc, lag, slots, cancelled, disk, stalls, stalled>>

Cancel ==
    /\ ~cancelled /\ cancelled' = TRUE
    /\ UNCHANGED <<pc, lag, slots, disk, paused, stalls, stalled>>

\* Nothing for the stream to do but wait: for its tick, a slot, or its fetch.
Waits(s) ==
    \/ pc[s] = "stopped"
    \/ pc[s] = "waiting" /\ lag[s] < 0 /\ ~cancelled
    \/ pc[s] = "global" /\ ~HasFired(s) /\ ~cancelled /\ global = FetchSlots
    \/ pc[s] = "host" /\ ~HasFired(s) /\ ~cancelled /\ perHost[HostOf[s]] = HostSlots
    \/ pc[s] = "fetching" /\ lag[s] < MaxFetch

\* Once a stream has stopped its lag means nothing.
Later(d) == lag' = [s \in Stream |-> IF pc[s] = "stopped" THEN lag[s] ELSE lag[s] + d]

Tick ==
    /\ \A s \in Stream : Waits(s)
    /\ \E s \in Stream : pc[s] # "stopped"
    /\ Later(1)
    /\ UNCHANGED <<pc, slots, environment, stalled>>

Waiting(s) == pc[s] \in {"global", "host"}

Stall ==
    /\ stalls < MaxStalls
    /\ \E d \in 1..MaxStall :
         /\ Later(d)
         /\ stalled' = [s \in Stream |-> IF Waiting(s) THEN stalled[s] + d ELSE stalled[s]]
    /\ stalls' = stalls + 1
    /\ UNCHANGED <<pc, slots, cancelled, disk, paused>>

AllStopped == \A s \in Stream : pc[s] = "stopped"

\* The scheduler has returned.
Done == AllStopped /\ UNCHANGED vars

-----------------------------------------------------------------------------
RunStream(s) ==
    \/ WaitUntil(s) \/ StopWaiting(s) \/ Skip(s) \/ Queue(s)
    \/ AcquireGlobal(s) \/ SkipGlobal(s) \/ AcquireHost(s) \/ SkipHost(s)
    \/ StartFetch(s) \/ StopAcquired(s) \/ FetchEnds(s)

Next ==
    \/ \E s \in Stream : RunStream(s)
    \/ DiskChanges \/ Check \/ Cancel \/ Tick \/ Stall \/ Done

Spec == Init /\ [][Next]_vars

\* Goroutines run, timeouts end fetches, and time passes.
Fairness == WF_vars(Tick) /\ \A s \in Stream : WF_vars(RunStream(s))

LiveSpec == Spec /\ Fairness

-----------------------------------------------------------------------------
(* Properties *)

\* Every slot taken is held by one stream and given back on each way out of
\* runStream: skips, shutdown and the end of a fetch.
SlotsAreHeld ==
    /\ global = Cardinality({s \in Stream : pc[s] \in {"host", "acquired", "fetching"}})
    /\ \A h \in Host : perHost[h] =
         Cardinality({s \in Stream : HostOf[s] = h /\ pc[s] \in {"acquired", "fetching"}})

\* However long the two semaphores are waited for together, a fetch is let through
\* within the one lateness of its stream, but for the time the machine stalled
\* during these waits: then a slot may be granted beside a timer that has fired
\* (acquireUntil's select).
SlotsInTime ==
    [][\A s \in Stream :
        pc[s] = "host" /\ pc'[s] = "acquired" => lag[s] <= Lateness(s) + stalled[s]]_vars

\* Unless the disk stays full or the service stops, there is always another fetch
\* (runStream).
FetchingGoesOn == []<><<\E s \in Stream : StartFetch(s)>>_vars \/ []<>paused \/ <>cancelled

\* Scheduler.Run returns after a shutdown, also with ticks overdue.
ShutdownEnds == cancelled ~> AllStopped
=============================================================================
