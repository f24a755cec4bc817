----------------------------- MODULE StreamDays -----------------------------
(***************************************************************************)
(* The rows of several streams over several days: how a tick, a capture, a *)
(* revision and a summary are assigned to a day, and the summary pass that *)
(* ends a day.  A capture carries its archive_date, computed from its      *)
(* scheduled time in the stream's time zone; a tick has no date and is     *)
(* assigned by comparing the text of scheduled_at with the bounds of the   *)
(* day.  The steps inside a compaction, an upload and the removal of the   *)
(* files are those of Archive; here each is one step.                      *)
(***************************************************************************)
EXTENDS Timestamps, FiniteSets, Functions

CONSTANTS
    Stream,      \* natural numbers, in the order of their ids
    Interval,    \* [Stream -> Nat], in fractions of a second
    Phases,      \* [Stream -> SUBSET Nat], where a stream's phase may be
    DaySeconds,  \* seconds of a day
    LastDay,     \* bound: ticks fall on the days 0..LastDay
    Horizon,     \* bound on the clock
    Zones,       \* the offsets of local midnight, in seconds, of the zones used
    URLs,        \* the sanitized feed URLs used
    MaxEdits,    \* bound on the edits of the configuration
    CloseDelay, RawRetention, MetadataRetention   \* fractions of a second

ASSUME StreamDaysAssumption ==
    /\ Stream \subseteq Nat /\ IsFiniteSet(Stream)
    /\ Interval \in [Stream -> Nat \ {0}]
    /\ Phases \in [Stream -> SUBSET Nat]
    /\ \A s \in Stream : \A p \in Phases[s] : p < Interval[s]
    /\ DaySeconds \in Nat \ {0}
    /\ LastDay \in Nat /\ Horizon \in Nat
    /\ Zones \subseteq 0..(DaySeconds - 1) /\ MaxEdits \in Nat
    /\ CloseDelay \in Nat /\ RawRetention \in Nat /\ MetadataRetention \in Nat

VARIABLES
    now,        \* the clock
    phase,      \* StablePhase of each stream
    zone,       \* the zone of the running configuration
    url,        \* the sanitized URL of each stream in the running configuration
    edits,      \* the edits of the configuration so far
    ticks,      \* ticks rows of a stream: scheduled times
    captures,   \* captures rows of a stream: scheduled time, archive_date, sanitized_url,
                \* raw file live
    revision,   \* the newest revision of a stream-day
    summary,    \* the daily_summaries row of a stream-day
    todo,       \* the summary candidates the running pass has left
    recorded    \* history: every tick ever recorded, with its local date

vars == <<now, phase, zone, url, edits, ticks, captures, revision, summary, todo, recorded>>
config == <<phase, zone, url>>
tables == <<ticks, captures, revision, summary, recorded>>

\* West of UTC the first ticks still belong to the day before.
Day == -1..LastDay
Unpublished == -1
NoRevision == [inputs |-> {}, ticks |-> -1, published |-> Unpublished]
NoSummary == [ticks |-> -1, captures |-> -1]

DayLength == DaySeconds * Fractions
Start(d) == d * DayLength + zone * Fractions
LocalDate(t) == (t - zone * Fractions) \div DayLength

InRangeToMidnight(t, d) == ~Before(t, Start(d)) /\ ~Before(Start(d + 1), t)  \* mutant
InRange(t, d) == ~Before(t, Start(d)) /\ Before(t, Start(d + 1))

TicksOf(s, d) == {t \in ticks[s] : InRange(t, d)}
CapturesOf(s, d) == {c \in captures[s] : c.day = d}

TypeOK ==
    /\ now \in -1..Horizon
    /\ phase \in [Stream -> Nat] /\ zone \in Zones /\ url \in [Stream -> URLs] /\ edits \in 0..MaxEdits
    /\ ticks \in [Stream -> SUBSET (0..Horizon)]
    /\ captures \in [Stream -> SUBSET [at : 0..Horizon, day : Day, url : URLs, live : BOOLEAN]]
    /\ \A s \in Stream, d \in Day :
        /\ revision[s][d] \in [inputs : SUBSET (0..Horizon), ticks : Int, published : Int]
        /\ summary[s][d] \in [ticks : Int, captures : Int]
    /\ todo \subseteq Stream \X Day
    /\ recorded \in [Stream -> SUBSET [at : 0..Horizon, day : Day, captured : BOOLEAN]]

Init ==
    /\ now = -1  \* just before the first midnight
    /\ phase \in [Stream -> UNION {Phases[s] : s \in Stream}]
    /\ \A s \in Stream : phase[s] \in Phases[s]
    /\ zone \in Zones /\ url \in [Stream -> URLs] /\ edits = 0
    /\ ticks = [s \in Stream |-> {}] /\ captures = [s \in Stream |-> {}]
    /\ revision = [s \in Stream |-> [d \in Day |-> NoRevision]]
    /\ summary = [s \in Stream |-> [d \in Day |-> NoSummary]]
    /\ todo = {}
    /\ recorded = [s \in Stream |-> {}]

-----------------------------------------------------------------------------
(* Ticks.  A fetch is over long before its day is compacted, so the tick   *)
(* row and the capture row appear at the scheduled instant.                *)

Due(t) == {s \in Stream : t % Interval[s] = phase[s] /\ t < (LastDay + 1) * DayLength}

TimePasses ==
    /\ now < Horizon
    /\ now' = now + 1
    /\ \E outcome \in [Due(now') -> {"captured", "failed", "down"}] :
        LET Recorded(s) == s \in Due(now') /\ outcome[s] # "down"
            Captured(s) == s \in Due(now') /\ outcome[s] = "captured"
        IN /\ ticks' = [s \in Stream |-> IF Recorded(s) THEN ticks[s] \cup {now'} ELSE ticks[s]]
           /\ captures' = [s \in Stream |->
                IF Captured(s)
                THEN captures[s] \cup {[at |-> now', day |-> LocalDate(now'), url |-> url[s], live |-> TRUE]}
                ELSE captures[s]]
           /\ recorded' = [s \in Stream |->
                IF Recorded(s)
                THEN recorded[s] \cup {[at |-> now', day |-> LocalDate(now'), captured |-> Captured(s)]}
                ELSE recorded[s]]
    /\ UNCHANGED <<config, edits, revision, summary, todo>>

\* The operator stops the service, edits the time zone and starts it again.
EditZone ==
    /\ edits < MaxEdits /\ edits' = edits + 1
    /\ zone' \in Zones \ {zone}
    /\ todo' = {}
    /\ UNCHANGED <<now, phase, url, tables>>

\* The operator changes the path of a stream's feed URL while it is stopped.
EditURL(s) ==
    /\ edits < MaxEdits /\ edits' = edits + 1
    /\ url' \in {[url EXCEPT ![s] = u] : u \in URLs \ {url[s]}}
    /\ todo' = {}
    /\ UNCHANGED <<now, phase, zone, tables>>

-----------------------------------------------------------------------------
(* Compaction and publication.  archiveMu keeps the compactor out while a  *)
(* retention pass runs.                                                    *)

EarliestTick(s) == CHOOSE t \in ticks[s] : \A u \in ticks[s] : ~Before(u, t)

EligibleAfterFirst(s, d) ==  \* mutant
    ticks[s] # {} /\ d > LocalDate(EarliestTick(s)) /\ now >= Start(d + 1) + CloseDelay
Eligible(s, d) ==
    /\ ticks[s] # {}
    /\ d >= LocalDate(EarliestTick(s))
    /\ now >= Start(d + 1) + CloseDelay

DayNeedsCompaction(s, d) ==
    /\ summary[s][d] = NoSummary
    /\ TicksOf(s, d) # {}
    /\ \/ revision[s][d] = NoRevision
       \/ revision[s][d].inputs # {c.at : c \in CapturesOf(s, d)}

\* The manifest pins one URL for the publication path of the day.
URLsAgree(s, d) == \A b, c \in CapturesOf(s, d) : b.url = c.url

CompactDay(s, d) ==
    /\ todo = {}
    /\ Eligible(s, d) /\ DayNeedsCompaction(s, d) /\ URLsAgree(s, d)
    /\ revision' = [revision EXCEPT ![s][d] =
            [inputs |-> {c.at : c \in CapturesOf(s, d)},
             ticks |-> Cardinality(TicksOf(s, d)),
             published |-> Unpublished]]
    /\ UNCHANGED <<now, config, edits, ticks, captures, summary, todo, recorded>>

\* The last required destination verifies the revisions of the day.
PublishDay(s, d) ==
    /\ revision[s][d] # NoRevision /\ revision[s][d].published = Unpublished
    /\ revision' = [revision EXCEPT ![s][d].published = now]
    /\ UNCHANGED <<now, config, edits, ticks, captures, summary, todo, recorded>>

-----------------------------------------------------------------------------
(* The retention pass: the raw files of every due capture are removed, and *)
(* then the due days are summarized one transaction at a time.             *)

PublishedFor(s, d, retention) ==
    /\ revision[s][d] # NoRevision /\ revision[s][d].published # Unpublished
    /\ ~Before(now - retention, revision[s][d].published)

RawRetentionCandidate(s, c) ==
    PublishedFor(s, c.day, RawRetention) /\ c.at \in revision[s][c.day].inputs

SummaryCandidates ==
    {job \in Stream \X Day :
        /\ PublishedFor(job[1], job[2], MetadataRetention)
        /\ summary[job[1]][job[2]] = NoSummary}

Cleanup ==
    /\ todo = {}
    /\ captures' = [s \in Stream |->
            {[c EXCEPT !.live = @ /\ ~RawRetentionCandidate(s, c)] : c \in captures[s]}]
    /\ todo' = SummaryCandidates
    /\ UNCHANGED <<now, config, edits, ticks, revision, summary, recorded>>

\* GROUP BY source_id, stream_id, archive_date is answered in this order.
FirstOf(S) == CHOOSE x \in S : \A y \in S : x[1] < y[1] \/ (x[1] = y[1] /\ x[2] <= y[2])

LiveRaw(s, d) == \E c \in CapturesOf(s, d) : c.live

SkipDay(s, d) ==
    /\ LiveRaw(s, d)
    /\ todo' = todo \ {<<s, d>>}
    /\ UNCHANGED tables

\* PRAGMA foreign_keys=ON: a tick cannot go while a capture of it stays.
ForeignKeysHold(s, d) == \A c \in captures[s] \ CapturesOf(s, d) : c.at \notin TicksOf(s, d)

CountCaptured(s, d) ==  \* mutant
    [ticks |-> Cardinality(CapturesOf(s, d)), captures |-> Cardinality(CapturesOf(s, d))]
DailySummary(s, d) ==
    [ticks |-> Cardinality(TicksOf(s, d)), captures |-> Cardinality(CapturesOf(s, d))]

CommitSummary(s, d) ==
    /\ ~LiveRaw(s, d) /\ ForeignKeysHold(s, d)
    /\ summary' = [summary EXCEPT ![s][d] = DailySummary(s, d)]
    /\ captures' = [captures EXCEPT ![s] = @ \ CapturesOf(s, d)]
    /\ ticks' = [ticks EXCEPT ![s] = @ \ TicksOf(s, d)]
    /\ todo' = todo \ {<<s, d>>}
    /\ UNCHANGED <<revision, recorded>>

\* The transaction is rolled back and its error ends the whole pass.
AbortSummaries(s, d) ==
    /\ ~LiveRaw(s, d) /\ ~ForeignKeysHold(s, d)
    /\ todo' = {}
    /\ UNCHANGED tables

SummarizeDay ==
    /\ todo # {}
    /\ LET s == FirstOf(todo)[1]
           d == FirstOf(todo)[2]
       IN SkipDay(s, d) \/ CommitSummary(s, d) \/ AbortSummaries(s, d)
    /\ UNCHANGED <<now, config, edits>>

-----------------------------------------------------------------------------
Next ==
    \/ TimePasses
    \/ EditZone
    \/ \E s \in Stream : EditURL(s)
    \/ \E s \in Stream, d \in Day : CompactDay(s, d) \/ PublishDay(s, d)
    \/ Cleanup
    \/ SummarizeDay

Spec == Init /\ [][Next]_vars

\* The compaction loop and the retention loop run again and again, archiveMu
\* is handed to the loop that waits for it (a Go mutex does not starve a
\* waiter), and the destinations are reachable in the end.
Fairness ==
    /\ WF_vars(TimePasses)
    /\ \A s \in Stream, d \in Day : SF_vars(CompactDay(s, d)) /\ WF_vars(PublishDay(s, d))
    /\ WF_vars(Cleanup)
    /\ WF_vars(SummarizeDay)

LiveSpec == Spec /\ Fairness

-----------------------------------------------------------------------------
SummarizedDays(s) == {d \in Day : summary[s][d] # NoSummary}
SummedTicks(s) == SumFunction([d \in SummarizedDays(s) |-> summary[s][d].ticks])
SummedCaptures(s) == SumFunction([d \in SummarizedDays(s) |-> summary[s][d].captures])

\* A capture row never outlives its tick row, whatever the day either was
\* assigned to (captures.tick_id REFERENCES ticks, SummarizeDay).
CapturesKeepTheirTick == \A s \in Stream : \A c \in captures[s] : c.at \in ticks[s]

\* The summaries of a stream and its remaining rows account for every tick and
\* every capture exactly once: SummarizeDay counts what it deletes, even where
\* the bounds of its day put a tick on another day (SummarizeDay, RecordTick).
EveryTickCountedOnce ==
    \A s \in Stream :
        /\ Cardinality(recorded[s]) = Cardinality(ticks[s]) + SummedTicks(s)
        /\ Cardinality({r \in recorded[s] : r.captured}) =
             Cardinality(captures[s]) + SummedCaptures(s)

\* What the comment on manifestSanitizedURL says: the captures of one stream and
\* day always agree on the URL (manifestSanitizedURL).
CapturesOfADayAgree == \A s \in Stream, d \in Day : URLsAgree(s, d)

\* The row of a capture whose raw file is still on disk is never deleted
\* (SummarizeDay's count of live raw paths).
LiveRowsStay ==
    [][\A s \in Stream : \A c \in captures[s] :
        c.live => \E e \in captures'[s] : e.at = c.at]_vars

\* The summary that replaces a day's rows repeats the tick count of the
\* manifest published for the day (DayStats, SummarizeDay).
SummaryAgreesWithManifest ==
    \A s \in Stream, d \in Day :
        summary[s][d] # NoSummary => summary[s][d].ticks = revision[s][d].ticks

\* No tick of the stream fell into the first second of a day, but on midnight
\* itself, and nobody has edited the configuration.
Regular(s) ==
    /\ edits = 0
    /\ \A r \in recorded[s] : r.at - Start(r.day) \notin 1..(Fractions - 1)

\* The summary of a day counts the ticks of that day (SummarizeDay).
SummaryCountsItsDay ==
    \A s \in Stream, d \in Day :
        Regular(s) /\ summary[s][d] # NoSummary =>
            summary[s][d].ticks = Cardinality({r \in recorded[s] : r.day = d})

DueForSummary(s, d) == <<s, d>> \in SummaryCandidates /\ PublishedFor(s, d, RawRetention)

\* A day whose two retentions have elapsed does not stay unsummarized, whatever
\* the day and the phase of its stream (Cleanup, SummarizeDay).
DueDaysAreSummarized ==
    \A s \in Stream, d \in Day : []<>~DueForSummary(s, d)

\* So it is where the ticks keep clear of the first second of the days (Cleanup,
\* SummarizeDay).
RegularDaysAreSummarized ==
    \A s \in Stream, d \in Day : []<>~(Regular(s) /\ DueForSummary(s, d))

Uncompacted(s, d) ==
    \E c \in CapturesOf(s, d) : revision[s][d] = NoRevision \/ c.at \notin revision[s][d].inputs

\* Every capture of a closed day gets into a revision of that day
\* (compactEligible, DayNeedsCompaction).
ClosedDaysAreCompacted ==
    \A s \in Stream, d \in Day :
        (Regular(s) /\ now >= Start(d + 1) + CloseDelay /\ Uncompacted(s, d))
            ~> ~(Regular(s) /\ Uncompacted(s, d))
=============================================================================
