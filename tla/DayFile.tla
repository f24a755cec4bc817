------------------------------- MODULE DayFile -------------------------------
(***************************************************************************)
(* One compaction from the inside: the writer reads the raw body of every  *)
(* capture of the day, leaves out what it cannot verify and appends the    *)
(* rows of the rest; the validator then reads the raw bodies again and     *)
(* walks the rows of the finished file.  A trip_update stream gets one row *)
(* per stop time update (the flattened layout), the other kinds one row    *)
(* per capture (the nested layout).  What happens to the file once it is   *)
(* valid is in Archive.  Where StreamDays, which counts the rows around    *)
(* the file, has a definition of the same name, the one here is the one    *)
(* "of the file": DayProofs reasons about both.                            *)
(***************************************************************************)
EXTENDS SequencesExt

CONSTANTS
    Captures,    \* the number of captures of the day
    Messages,    \* decoded feeds: a sequence of entities, each the number of its
                 \* stop time updates, or NoTripUpdate
    NoTripUpdate,
    Layouts,     \* subset of {"flattened", "nested"}
    GroupRows,   \* tripUpdateRowGroupRows
    MaxFaults    \* bound on damaged raw files, faults of the file and interruptions

ASSUME DayFileAssumption ==
    /\ Captures \in Nat \ {0} /\ GroupRows \in Nat \ {0} /\ MaxFaults \in Nat
    /\ NoTripUpdate \in Nat /\ Messages \subseteq Seq(Nat)
    /\ Layouts \subseteq {"flattened", "nested"}

Capture == 1..Captures
Reason == {"raw_missing", "hash_mismatch", "read_error"}
Undecodable == [decodes |-> FALSE, entities |-> <<>>]
Body == {Undecodable} \cup {[decodes |-> TRUE, entities |-> m] : m \in Messages}

VARIABLES
    layout,      \* of the stream
    body,        \* the recorded body of each capture
    raw,         \* "intact", or how reading the raw file of a capture fails
    compaction,  \* its phase
    next,        \* the capture the writer turns to
    included,    \* the captures in the file, in order
    excluded,    \* reasons of the captures left out
    file,        \* the rows of the staged file
    groups,      \* sizes of the finished row groups
    open,        \* rows in the writer's unfinished row group
    rowsInGroup, \* the compactor's own count of them, for flattened rows
    stops,       \* stopTimeUpdateTotal
    expected,    \* the validator's row counts, per included capture
    seen,        \* rows walked
    group,       \* captureIdx: the included capture the walk is in
    left,        \* rowsLeftInCapture
    faults

day == <<layout, body>>
output == <<next, included, excluded, file, groups, open, rowsInGroup, stops>>
cursor == <<expected, seen, group, left>>
fileVars == <<day, raw, compaction, output, cursor, faults>>

-----------------------------------------------------------------------------
(* The rows of a capture.                                                  *)

Times(n, x) == [i \in 1..n |-> x]
Row(c, e, s) == [capture |-> c, entity |-> e, stop |-> s]
TripUpdates(b) == {e \in DOMAIN b.entities : b.entities[e] # NoTripUpdate}

\* An entity without stop time updates keeps one base row.
EntityRows(c, e, n) == IF n = 0 THEN <<Row(c, e, 0)>> ELSE [s \in 1..n |-> Row(c, e, s)]
ProjectTripUpdateStops(c, b) ==
    FlattenSeq([e \in DOMAIN b.entities |->
        IF e \in TripUpdates(b) THEN EntityRows(c, e, b.entities[e]) ELSE <<>>])

CountStopTimeUpdates(b) == SumFunctionOnSet(b.entities, TripUpdates(b))
CountProjectedTripUpdateRows(b) ==
    CountStopTimeUpdates(b) + Cardinality({e \in TripUpdates(b) : b.entities[e] = 0})

RowsOf(c) == IF layout = "flattened" THEN ProjectTripUpdateStops(c, body[c]) ELSE <<Row(c, 0, 0)>>

-----------------------------------------------------------------------------
(* The writer.                                                             *)

Faulty == faults < MaxFaults /\ faults' = faults + 1

FileInit ==
    /\ layout \in Layouts /\ body \in [Capture -> Body]
    /\ raw = [c \in Capture |-> "intact"]
    /\ compaction = "writing" /\ faults = 0
    /\ next = 1 /\ included = <<>> /\ excluded = <<>>
    /\ file = <<>> /\ groups = <<>> /\ open = 0 /\ rowsInGroup = 0 /\ stops = 0
    /\ expected = <<>> /\ seen = 0 /\ group = 0 /\ left = 0

\* parquet-go closes a row group when it is full, whatever the compactor counts.
Closed(n) == (open + n) \div GroupRows
FullGroups(n) == Times(Closed(n), GroupRows)
Unfinished(n) == open + n - Closed(n) * GroupRows
Group(n) == IF n = 0 THEN <<>> ELSE <<n>>

SkipUndeclared ==  \* mutant
    /\ raw[next] # "intact"
    /\ UNCHANGED <<included, excluded, file, groups, open, rowsInGroup, stops>>
Exclude ==
    /\ raw[next] # "intact"
    /\ excluded' = Append(excluded, [id |-> next, reason |-> raw[next]])
    /\ UNCHANGED <<included, file, groups, open, rowsInGroup, stops>>

\* The compactor flushes between captures: flattened rows by its own count of
\* them, nested rows by the bytes of their bodies.
Flushes(n) == IF layout = "flattened" THEN {rowsInGroup + n >= GroupRows} ELSE BOOLEAN
Include ==
    LET n == Len(RowsOf(next)) IN
    /\ raw[next] = "intact"
    /\ included' = Append(included, next)
    /\ file' = file \o RowsOf(next)
    /\ stops' = stops + CountStopTimeUpdates(body[next])
    /\ \E flush \in Flushes(n) :
        /\ groups' = groups \o FullGroups(n) \o Group(IF flush THEN Unfinished(n) ELSE 0)
        /\ open' = IF flush THEN 0 ELSE Unfinished(n)
        /\ rowsInGroup' = IF flush \/ layout = "nested" THEN 0 ELSE rowsInGroup + n
    /\ UNCHANGED excluded

WriteCapture ==
    /\ compaction = "writing" /\ next \in Capture
    /\ next' = next + 1
    /\ Exclude \/ Include
    /\ UNCHANGED <<day, raw, compaction, cursor, faults>>

\* What is read back may not be what was written: a row is lost, repeated or
\* changes places with its neighbour.
Damaged(rows) ==
    {RemoveAt(rows, i) : i \in DOMAIN rows}
    \cup {InsertAt(rows, i, rows[i]) : i \in DOMAIN rows}
    \cup {[rows EXCEPT ![i] = rows[i + 1], ![i + 1] = rows[i]] : i \in 1..(Len(rows) - 1)}

CloseFile ==
    /\ compaction = "writing" /\ next \notin Capture
    /\ compaction' = "recounting"
    /\ groups' = groups \o Group(open) /\ open' = 0
    /\ \/ UNCHANGED <<file, faults>>
       \/ Faulty /\ file' \in Damaged(file)
    /\ UNCHANGED <<day, raw, next, included, excluded, rowsInGroup, stops, cursor>>

-----------------------------------------------------------------------------
(* The validator.  The walk over nested rows is the one over flattened     *)
(* rows with one row expected of every capture; the columns it compares    *)
(* besides the capture's id are left out.                                  *)

ExpectedRows(c) == IF layout = "flattened" THEN CountProjectedTripUpdateRows(body[c]) ELSE 1

\* The raw files are only read again for the flattened layout.
Recount ==
    LET c == included[Len(expected) + 1] IN
    /\ compaction = "recounting" /\ Len(expected) < Len(included)
    /\ IF layout = "flattened" /\ raw[c] # "intact"
       THEN compaction' = "failed" /\ UNCHANGED expected
       ELSE expected' = Append(expected, ExpectedRows(c)) /\ UNCHANGED compaction
    /\ UNCHANGED <<day, raw, output, seen, group, left, faults>>

StartWalk ==
    /\ compaction = "recounting" /\ Len(expected) = Len(included)
    /\ compaction' = "walking"
    /\ UNCHANGED <<day, raw, output, cursor, faults>>

NextInTurn == {g \in DOMAIN expected : g = group + 1}  \* mutant
\* A capture without rows is passed over.
Following ==
    {g \in DOMAIN expected :
        g > group /\ expected[g] > 0 /\ \A h \in (group + 1)..(g - 1) : expected[h] = 0}
RowBelongs(g) == file[seen + 1].capture = included[g]

WalkRow ==
    /\ compaction = "walking" /\ seen < Len(file)
    /\ \/ /\ left > 0 /\ RowBelongs(group)
          /\ left' = left - 1 /\ seen' = seen + 1
          /\ UNCHANGED <<group, compaction>>
       \/ \E g \in Following :
          /\ left = 0 /\ RowBelongs(g)
          /\ group' = g /\ left' = expected[g] - 1 /\ seen' = seen + 1
          /\ UNCHANGED compaction
       \/ /\ IF left > 0 THEN ~RowBelongs(group) ELSE \A g \in Following : ~RowBelongs(g)
          /\ compaction' = "failed"
          /\ UNCHANGED <<seen, group, left>>
    /\ UNCHANGED <<day, raw, output, expected, faults>>

AtLeastOneRow == seen > 0  \* mutant
EveryRowSeen == seen = SumFunction(expected)
EndOfFile ==
    /\ compaction = "walking" /\ seen = Len(file)
    /\ compaction' = IF EveryRowSeen /\ included # <<>> THEN "valid" ELSE "failed"
    /\ UNCHANGED <<day, raw, output, cursor, faults>>

-----------------------------------------------------------------------------
(* Failures.                                                               *)

\* The raw file of a capture is lost or damaged.
DamageRaw ==
    /\ compaction # "valid" /\ Faulty
    /\ \E c \in Capture, r \in Reason : raw[c] = "intact" /\ raw' = [raw EXCEPT ![c] = r]
    /\ UNCHANGED <<day, compaction, output, cursor>>

\* The context is cancelled, or a write, a sync or a read of the file fails.
Interrupt ==
    /\ compaction \in {"writing", "recounting", "walking"} /\ Faulty
    /\ compaction' = "failed"
    /\ UNCHANGED <<day, raw, output, cursor>>

\* The work directory is removed, and the next pass finds the day uncompacted.
Retry ==
    /\ compaction = "failed" /\ compaction' = "writing"
    /\ next' = 1 /\ included' = <<>> /\ excluded' = <<>>
    /\ file' = <<>> /\ groups' = <<>> /\ open' = 0 /\ rowsInGroup' = 0 /\ stops' = 0
    /\ expected' = <<>> /\ seen' = 0 /\ group' = 0 /\ left' = 0
    /\ UNCHANGED <<day, raw, faults>>

FileNext ==
    \/ WriteCapture \/ CloseFile
    \/ Recount \/ StartWalk \/ WalkRow \/ EndOfFile
    \/ DamageRaw \/ Interrupt \/ Retry

FileSpec == FileInit /\ [][FileNext]_fileVars

\* A compaction runs on, and the loop comes back to a day it could not compact.
FileFairness ==
    /\ WF_fileVars(WriteCapture) /\ WF_fileVars(CloseFile)
    /\ WF_fileVars(Recount) /\ WF_fileVars(StartWalk) /\ WF_fileVars(WalkRow) /\ WF_fileVars(EndOfFile)
    /\ WF_fileVars(Retry)

FileLiveSpec == FileSpec /\ FileFairness

-----------------------------------------------------------------------------
FileTypeOK ==
    /\ layout \in Layouts /\ body \in [Capture -> Body]
    /\ raw \in [Capture -> {"intact"} \cup Reason]
    /\ compaction \in {"writing", "recounting", "walking", "valid", "failed"}
    /\ next \in 1..(Captures + 1)
    /\ included \in Seq(Capture) /\ excluded \in Seq([id : Capture, reason : Reason])
    /\ file \in Seq([capture : Capture, entity : Nat, stop : Nat])
    /\ groups \in Seq(Nat \ {0}) /\ open \in 0..(GroupRows - 1) /\ rowsInGroup \in 0..(GroupRows - 1)
    /\ stops \in Nat /\ expected \in Seq(Nat) /\ Len(expected) <= Len(included)
    /\ seen \in 0..Len(file) /\ group \in 0..Len(included) /\ left \in Nat
    /\ faults \in 0..MaxFaults

Excluded == {excluded[i].id : i \in DOMAIN excluded}

\* A file that passes the validator holds the rows of every capture of the day
\* that is not declared excluded, as many as the capture has, captures in order
\* and none of them divided, whatever was read back (validateTripUpdateParquet,
\* validateParquet).
ValidFileHoldsTheDay ==
    compaction = "valid" =>
        [i \in DOMAIN file |-> file[i].capture] =
            FlattenSeq([c \in Capture |->
                IF c \in Excluded THEN <<>> ELSE Times(Len(RowsOf(c)), c)])

\* Every capture of a valid file is either included or declared excluded for a
\* reason its raw file has, and the file is not that of an empty day (Compact,
\* exclusionReason).
ExclusionsAreDeclared ==
    compaction = "valid" =>
        /\ included # <<>>
        /\ Len(included) + Len(excluded) = Captures
        /\ Capture = {included[i] : i \in DOMAIN included} \cup Excluded
        /\ \A i \in DOMAIN excluded : raw[excluded[i].id] = excluded[i].reason

\* No row group is larger than the limit, although the compactor's count and the
\* one of the library part ways at every group the library closes
\* (tripUpdateRowGroupRows).
RowGroupsAreBounded == \A i \in DOMAIN groups : groups[i] <= GroupRows

\* The total in the manifest is the number of written rows that carry a stop
\* time update; base rows are left out (CountStopTimeUpdates,
\* expectedArtifactRows).
StopsAreCounted ==
    layout = "flattened" /\ compaction = "writing" =>
        stops = Cardinality({i \in DOMAIN file : file[i].stop > 0})

\* A day keeps failing only while none of its raw files can be read: a capture
\* damaged between the writer and the validator fails that attempt, and the
\* next one excludes it (Compact, compactEligible).
ReadableDayIsCompacted == <>(compaction = "valid" \/ \A c \in Capture : raw[c] # "intact")
=============================================================================
