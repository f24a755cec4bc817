# A TLA+ model of gtfs-rt-archiver

gtfs-rt-archiver polls GTFS-Realtime feeds, keeps every response body it receives,
compacts each stream's day, in the stream's own time zone, into one immutable Parquet
revision with a manifest, uploads the revisions to rclone destinations and, once every
required destination has verified a revision, removes the local copies. The promise of
the program is about data: nothing that was durably captured disappears locally before
it was delivered, whatever crashes, races or failures come between. These modules state
that promise, check it with TLC on small instances, and prove the most important part of
it with TLAPS for every instance.

Run the tools in this directory: `tlc -config MCArchive_two.cfg MCArchive`,
`tlapm ArchiveProofs.tla`. The runs below name their configurations, a file
`MC<module>_<instance>.cfg`; `<module>Proofs.tla` holds the theorems about a module.

## The system

| component | source | state it keeps | operations |
|---|---|---|---|
| scheduler | `internal/scheduler` | one goroutine per stream, global and per-host semaphores | wait for the tick, skip it (late, paused, no slot in time), fetch, stop |
| fetcher | `internal/fetch` | one call's attempt counter, the `ticks` row it writes | RecordTick, requests with retries, Stage, Commit, SaveCapture, finishFailure |
| raw store | `internal/rawstore` | `.staging/` and `raw/` directories, storage lock | Stage, Commit, Abort, Reconcile, RemoveExpiredStaging |
| state store | `internal/state` | SQLite: ticks, captures, compactions, compaction_inputs, uploads, daily_summaries | one transaction per operation |
| compactor | `internal/compact` | revision directories `parquet/.../revision=NNNN` | Compact, VerifyDirectory |
| uploader, Hive layout | `internal/upload` | hard-linked remote directories, the rclone remote | ProcessPending, publish, category |
| retention | `internal/lifecycle` | none of its own | Cleanup: raw, Parquet, summaries |
| reconciliation | `internal/reconcile` | none | register captures, adopt revisions |
| maintenance service | `internal/service` | `archiveMu`, worker pools | compaction, upload and retention loops |
| commands | `internal/app`, `cmd` | storage lock | run, fetch-once, compact, upload, verify, repair, retire-destination, status |
| disk monitor, metrics | `internal/observability` | `paused` | Check, health |
| configuration | `internal/config` | the configuration | Load, Validate |
| decoder, projection, model, version | `internal/gtfsrt`, `projection`, `model`, `version` | none | parsing and column mapping |

How they interact. The scheduler calls the fetcher, which writes files through the
raw store and rows through the state store. The compactor reads capture rows and
payloads and writes a directory, then rows. The uploader reads pending uploads
and the revision directory and writes the remote, then the upload's status; the
transaction that stores a verification also decides whether the revision is now
published. Retention acts on `published_at` and removes files, then marks rows.
Compaction and retention exclude each other by `Maintenance.archiveMu`; fetchers and
uploaders take no common lock. The files are the truth and the database an index
of them: at every start of the service reconciliation finishes interrupted
renames, registers captures and adopts revisions that have no rows.

What is hard, and what makes each part correct:

* *Capture*: two files and a row, made durable in this order, with a crash or a
  power loss between any two. A capture must be registered with its files intact or
  left so that the next start repairs it.
* *Compaction*: captures may be registered late, be damaged, or be gone; the
  revision number comes from a database that may be lost. A number must never be
  reused, and a newer revision must not lose what an older one held.
* *Upload*: snapshots of the queue, unlocked races with retention and with the
  other destinations, faults at every transfer. The remote manifest comes last, a
  verified row means a complete remote, a published revision stays settled.
* *Retention*: removes data. It must act only on what was delivered, be repeatable
  after a stop at any step, and never forget a capture that is still on disk.
* *Scheduling*: two nested semaphores under one deadline, each left on several
  paths; slots must be neither leaked nor returned twice, and a shutdown must end.
* *Fetching*: retries, backoff and Retry-After stretch a fetch that holds its slots;
  durations overflow; every way out must report what was sent.
* *Days*: ticks, captures, revisions and summaries are assigned to days in three ways
  (a stored date, a comparison of texts, a time zone that may be edited); each row
  must be counted once, and every day must end.
* *The pool of the maintenance service*: locks, an unbuffered channel, a semaphore and
  two wait groups under one context; nobody may wait for ever, no compaction may run
  beside retention.
* *The file of a day*: raw files read twice, captures left out, rows counted in two
  ways; a file that validates must be the day.
* *Processes*: a shutdown that gives up on its workers, a next service that starts, an
  operator's command, `SIGKILL`; rows need the lock and files need a row.

`PROJECT.json` lists these hazards with the source line where each bites and the
properties that would catch it.

## The modules

| module | what it is |
|---|---|
| `Archive` | one stream-day from capture to summary: compactor, uploaders, retention, startup, commands, crashes |
| `RawStore` | one fetch as file operations, and the recovery of what a crash left |
| `CaptureLog` | what the raw store promises, abstractly: captures are stored at once and then registered |
| `Scheduler` | streams, semaphores, disk monitor, clock, shutdown |
| `Fetch` | one call of `Fetcher.Fetch`: attempts, waits, outcomes |
| `Timestamps` | the order of the texts in which SQLite compares instants |
| `StreamDays` | several streams over several days: which row counts for which day, the summaries |
| `Publication` | several revisions of several streams on their way to one destination: backoff, error classes, shared directories |
| `Maintenance` | the goroutines of `Maintenance.Run` and all they wait on |
| `DayFile` | one compaction from the inside: writer, exclusions, row groups, validator |
| `Service` | the archiver as operating system processes with one lock file and one database |
| `ArchiveProofs`, `RawStoreProofs`, `SchedulerProofs`, `FetchProofs`, `PublicationProofs`, `MaintenanceProofs`, `ServiceProofs` | theorems about the module they are named after |
| `DayProofs` | theorems about `StreamDays` and `DayFile`, and about the sums and flattened sequences both count with |
| `MC...` | instances for TLC |

The modules divide the system by question, and each says where the rest is. `Archive`
has the interleavings of the components on one stream-day and treats as one step what
`RawStore` (a capture), `DayFile` (a file), `Publication` (the queue of a destination)
and `StreamDays` (the days of a row) look into; `Maintenance` justifies the locks that
`Archive` takes as given, `Service` the one process at a time, `Scheduler` and `Fetch`
the ticks and their results.

### Archive

State, grouped as in the module. *Disk*: `payload[c]` is the `.pb`/`.json` pair of a
capture, `dir[r]` the files left in a revision directory, `manifest[r]` what its
manifest lists (`inputs`), holds (`content`) and was configured for (`dests`).
*Database*: `row`, `ticked`, `summarized`, `compaction`, `listed`, `published`,
`age`, `upload` are the tables. *Remote*: the files each destination holds.
*Processes*: `phase` is who has the storage lock (`registering` and `adopting` are the
two halves of reconciliation, `cli` is an operator's command), the `c...` variables
are the compactor's locals, `r...` the retention pass, `u...`/`queue` one upload worker
per destination. *History*: `unreadable` and `abandoned` are never read by an action;
they let properties say "could not be read then" and "given up by an operator".

One action is one file operation or one SQL transaction, so the interleavings are
those of the program: `CompactSelect`, `CompactRead`, `CommitRevision`,
`SaveCompaction` are the steps of `Compact`; `PendingUploads`, `PrepareRemoteDir`,
`MarkUploadAttempt`, `CopyData`, `CopyManifest`, `MarkUploadVerified` /
`MarkUploadFailed` those of `ProcessPending`; `CleanupRaw`, `RemoveCapture`,
`MarkCaptureRetained`, `CleanupParquet`, `RemoveArtifact`, `MarkParquetRetained`,
`CleanupSummaries`, `SummarizeDay` those of `Cleanup`. `Faults` says which
disturbances an instance admits: `operator` (stops, commands), `crash`, `dbloss`,
`damage` (payloads rot), `statefail` (state and file operations fail), `remote`
(destinations fail or lose a transfer). An upload may fail with a retryable error in
every instance, also when its manifest has been sent: the comparison of its hash is one
more call of rclone.

Simplifications, each deliberate:

* The pair of files is one item here; `RawStore` has the detail.
* `DayNeedsCompaction`, `NextRevision` and `CapturesForDay` are three reads in the
  code; they are one step, because the compactor is the only writer of revisions
  and a capture that appears between them is caught by the next pass. `Compact`
  refuses any revision number but the next, so `compact --revision` adds nothing.
* `compactions.rows` enters only through the comparison that detects late captures,
  where it is the number of the manifest's inputs.
* Time is `age`, steps of the retention durations since publication, saturated at
  the longest. Captures of a day are made before any of its revisions has aged by
  one (`DayIsRecent`), and no step of age passes while a fetch is between its
  rename and its transaction: retention is in days, a fetch in seconds.
* `next_attempt_at` and the backoff are left out, a retry may come at any time; they are
  in `Publication`.
* A destination that was not configured appears through `Configs`, the sets of
  destinations a configuration may name; `required` is fixed per destination.
* Local Parquet files and manifests are not damaged, only removed (`Publication` damages
  them); the operator who repairs a payload is outside the program.
* All captures of a stream-day share one sanitized URL and `manifestSanitizedURL` never
  fails; `StreamDays` lets the URL be edited.

### RawStore and CaptureLog

Per capture: where the payload is (`raw`), where its sidecar is (`side`), and where each
may be after a power loss (`rawKeeps`, `sideKeeps`), which a directory sync narrows
to one place. The steps are those of `Fetch`, `Stage`, `Commit` (sidecar staged,
staging synced, payload renamed, its directory synced, sidecar renamed, synced again),
`SaveCapture`, and of `Reconcile`: `finishInterruptedCommits`, the walk that registers,
`RemoveExpiredStaging`. A killed process loses its steps, a power loss also chooses
for every file one of the places it may be in. Errors take the code's two exits:
before the payload's rename everything is undone, after it everything is left.

`CaptureLog` is the promise: captures become stored, and stored captures become
registered; nothing stored or registered goes back. `RawStore` implements it with
*stored* = both files durably in place, *registered* = the row exists.

Simplifications: the retry loop of the fetcher is one step (a response arrives or the
fetch fails; `Fetch` has the loop); renames are atomic; `FinishRaw` renames and syncs in
one step, because an interruption between the two leaves a state that its own two
outcomes cover when processes are killed without a power loss or lose power at once (the
combination is a finding, below); `todo` entries are finished in any order; the age of
staging files is chosen freely when they are swept; the hour and day directories are
taken as durable once created, which journaling file systems provide and the code relies
on, since it syncs only the innermost one; a result of `captured_invalid` counts as
captured, `cancelled` as failed. Under `statefail` every transaction may fail: without
its tick a fetch does not begin, and one whose failure cannot be recorded leaves its tick
running. The branch for a final sidecar that already exists is
not reachable, since capture ids are unique.

### Scheduler

`pc[s]` is the place of the stream's goroutine in `runStream`, `lag[s]` the time since its
next tick (negative before it). `NextTick`, `floorMod` (with Go's signed remainder) and
`EffectiveLateness` are translated as arithmetic. Steps take no time; `Tick` lets a unit
pass when every goroutine waits, `Stall` lets more pass while some have work to do
(a suspended machine, a slow disk), which is how ticks become late. `stalled[s]` is how
long the machine has stalled since the stream began to wait for its slots. A timer is
set for the time that was left a moment before, so the timer of a wait fires at the
deadline at the earliest (`Fires`) and at the deadline plus these stalls at the latest
(`HasFired`); and since `select` chooses at random among what is ready, a slot may be
granted beside a timer that has fired. `AcquireHost` has no guard on the deadline for
this reason; a global slot granted so late is returned at once, because the wait for the
host begins with `time.Until(deadline) <= 0`. `lag` counts to `MaxLag`; `MaxFetch` bounds a fetch, `MaxStall` and
`MaxStalls` the stalls. The labels of skipped ticks are left out.

### Fetch

`step`, `attempt`, `left` are the locals of `Fetch` and `waitBackoff`; `tick` is the row
that `RecordTick` writes and `finishFailure` or `SaveCapture` completes, each of which
may fail and leave it. `InvalidRequest` is a request that cannot be built, which is reported as one attempt
though none was sent; `RequestFails` is an attempt without an answer, `Refused` one
with a status outside 200..299 (a redirect is one, `CheckRedirect`), `CaptureResponse`
one that reaches the raw store. Durations are integers of `Width` bits, because the
shift of the backoff and the product of Retry-After wrap; `Wrap` is Go's arithmetic.
`elapsed`, `requests`, `asked` and `idle` are history. A scheduled fetch has no context
that is cancelled, `fetch-once` has (`Cancellable`). Left out: a Retry-After that is a
date (it is cut to 0..interval like a number), jitter within a step, the headers that
are recorded.

### Timestamps and StreamDays

`Timestamps` is the layout `time.RFC3339Nano` in UTC, which drops the zeros at the end of
the fraction and a zero fraction with its point; `Before` is SQL's comparison of two
texts. Two digits of base `Base` stand for the nine of base ten: the texts have all
three forms (no fraction, a shorter one, a full one).

In `StreamDays` `TimePasses` moves the clock and lets every stream that is due record a
tick, with a capture, as failed, or not at all (the service is down). `LocalDate` is the
`archive_date` of a capture, `InRange` the bounds by which `DayNeedsCompaction`,
`DayStats` and `SummarizeDay` find the ticks of a day. `CompactDay`, `PublishDay` and
`Cleanup` are one step each, their inside is in `Archive`; `SummarizeDay` is one
transaction with its three ends: rows whose payload is live (`SkipDay`), committed, or
rolled back by the foreign key of `captures.tick_id` and with it the whole pass
(`AbortSummaries`). `EditZone` and `EditURL` are an operator's edits between a stop and
a start. `recorded` is history. A day has no change to or from summer time; a fetch ends
long before the close delay.

### Publication

`status`, `category`, `attempts`, `wait`, `remoteDir` are the columns of `uploads`; `data`
and `manifest` the files at the remote, where `HiveDir` computes the directory from what
the manifest pins. The steps of `ProcessPending` are `PendingUploads` (the snapshot of the
queue), `NextItem` (the destination may be missing from the configuration), `Prepare`
(`prepareRemoteDir`, `MarkUploadAttempt`), `VerifyDirectory`, `ReadManifest` (the second
read, whose hash is the `expected` one), a copy and the comparison of hashes for each of
the two files, `MarkUploadVerified`; every error goes through
`MarkUploadFailed`, which decides by `IsPermanent`. A delay is drawn from 0 to twice the
last bound, by the attempts that the snapshot of the queue had. An outage is one of the
categories an operator or time repairs; while it lasts, every call of rclone fails, but
the file may have been written. `Restart` is a crash, a shutdown or an edit of the
configuration, `Repair` the start with everything configured again. `MaxDoublings` is
the 6 of `backoff`; its further bound of six hours is never reached, since the exponent
stops at 64 times five minutes, and is left out. `Archive` has several destinations.

The disk may damage the local files between any two steps. The data file has its hash in
the manifest and in the database, so a damage of it is always noticed. The manifest has
no hash anywhere, and what happens depends on what the damage does (`ManifestDamage`):

| damage | who notices |
|---|---|
| `unparsable`: it is no JSON | `prepareRemoteDir`, `local_integrity` |
| `unmappable`: `hiveDir` finds no directory for it | `hiveDir`, `dataset_invalid`; `VerifyDirectory` perhaps, when it comes after the preparation |
| `inconsistent`: a version, an identity, a count, a destination or the hash of the data file | `VerifyDirectory`, `local_integrity` |
| `misdirected`: another kind or URL of the stream, hence another directory of the same date and revision | `VerifyDirectory` perhaps, since it looks at `expected_kind` only to count rows and never at the URL |
| `altered`: any other field, such as the payload hash of a capture or a header | nobody |

What is damaged before `ReadManifest` and passes is uploaded and marked verified; damaged
after it, the manifest that is sent differs from the `expected` one and the row fails for
good.

### Maintenance

Every goroutine of `Run` and everything it blocks on: `mutex` is `archiveMu`, `todo` and
`closed` the unbuffered queue, `streamLock` the mutex of each stream, `uploader` the
goroutines that wait for or hold a slot of `uploadSlots`. `HandOver` is the rendezvous
of sender and receiver. `StartCompaction` finds any set of jobs; the order of the jobs
is left open. What a compaction, an upload or a cleanup does is in `Archive`; here it
takes a while.

### DayFile

`WriteCapture` reads the raw body of one capture, excludes it with a reason or appends
its rows; `CloseFile` ends the file, which may be read back with a row lost, repeated or
swapped; `Recount` reads the raw bodies again, `WalkRow` is `rowsLeftInCapture` and
`captureIdx`. The flattened layout (`trip_update`) has one row per stop time update, or
one base row; the nested layout one row per capture. `groups`, `open` are parquet-go's
row groups, `rowsInGroup` the compactor's own count. A body is a sequence of entities,
each the number of its stop time updates; an undecodable body has no flattened rows. The
columns of a row other than the capture are left out.

The module's variable `compaction` is the phase of the one compaction, from writing over
recounting and walking to valid or failed, and its `FileInit`, `FileNext`, `FileSpec`, `FileTypeOK` carry the prefix so
that `DayProofs` can extend it together with `StreamDays`.

### Service

The phases of `Run` from the start to the exit, for services and for the commands that
take the lock. `database` is who can start a statement, `workers` the goroutines that
still run, `unsaved` the processes that have put a raw file down without its row.
`begun` the processes in the middle of the transaction that saves a capture, which
closing the database (`sql.DB.Close`) neither ends nor awaits. `DeadlinePasses` is
`shutdown_timeout`; after it the main goroutine closes the database and releases the lock
while workers run on, and with them a transaction already begun. `Kill` may come in any phase.

## The runs

The standing runs, which `PROJECT.json` lists with their properties and, for each
property, a plausible bug that breaks it (the definitions marked *mutant* in the modules):

| run | configuration | question | instance |
|---|---|---|---|
| `archive_two` | `MCArchive_two` | is anything removed undelivered or forgotten, is a number reused, do uploads to two destinations, retention and commands keep remote and rows consistent? | 1 capture, 1 revision, a required and an optional destination, every configuration, local-only cleanup allowed; every fault |
| `archive_live` | `MCArchive_live` | does a newer revision ever lose content, does every capture get published, does every day end? | 2 captures, 3 revisions, 1 destination, retryable uploads |
| `rawstore_power` | `MCRawStore_power` | is a capture stored at once or not at all under power loss; does the code implement `CaptureLog`; is a sidecar published only over a durable payload? | 2 captures; power, statefail |
| `rawstore_io` | `MCRawStore_io` | do files, tick and row agree after kills, I/O errors and failing transactions? | 2 captures; io, kill, damage, statefail |
| `scheduler_streams` | `MCScheduler_streams` | are slots leaked, returned twice or granted too late, does fetching go on, does a shutdown end? | 3 streams, 2 hosts, 2+1 slots, a stall of up to 3 units at any point, disk pressure, shutdown |
| `days` | `MCStreamDays_days` | is every row counted once, wherever in the second ticks fall and whatever an operator edits; is every closed day compacted, every due day summarized? | 1 stream, a day and the one before it, 2 zones, 2 URLs, 1 edit |
| `days_firstsecond` | `MCStreamDays_firstsecond` | is every due day summarized? (violated) | a phase within the first second of the day |
| `publication` | `MCPublication_shared` | does a verified row stand for its own revision, does a row fail for good without a wrong file, is every revision that has its directory to itself published in the end? | 2 streams that share a directory, outage, restart, edits, one damage of the data file and one of the manifest (`unparsable`, `unmappable` or `altered`) |
| `fetch_waits` | `MCFetch_waits` | does a fetch end in time, wait as it was asked to, and report its attempts? | 5 attempts, durations of 5 bits |
| `maintenance` | `MCMaintenance_stream` | does anyone wait for ever, overlap with retention, share a stream, lose or repeat a job; does every loop come round, does `Run` return? | 2 workers, 1 stream of 2 days, 2 destinations, 1 slot |
| `dayfile` | `MCDayFile_day` | is a file that validates the day, does a damaged capture cost more than a repetition? | 3 captures, 5 feeds, both layouts, row groups of 2, 2 faults |
| `service_processes` | `MCService_processes` | who writes rows, also with a transaction begun before the database is closed, which files are left behind, does a stopped service exit? | 2 services, 1 command |

Further instances lie beside them: larger ones, the type invariants, and the behaviours described under *Findings*:

| configuration | what it checks |
|---|---|
| `MCArchive_day` | `TypeOK`, `SummaryForgetsNothing` and `RevisionsKeepContent` with 2 captures, 2 revisions, an operator, crashes and failing state operations |
| `MCArchive_rebuild` | `RetainedIsArchived`, `ExpiredIsDelivered`, `RevisionsImmutable`, `RevisionsKeepContent` and its invariant `ContentInv` with 2 captures and 2 revisions, crashes, a lost database, damage |
| `MCScheduler_safe` | `TypeOK` and the safety properties with longer fetches and stalls |
| `MCStreamDays_zones` | `TypeOK`, `CapturesKeepTheirTick`, `EveryTickCountedOnce` and `LiveRowsStay` over two days with any phase and an edited zone |
| `MCStreamDays_streams` | `EveryTickCountedOnce` with two streams, of which one may end the pass for the other |
| `MCStreamDays_phases` | `SummaryAgreesWithManifest`, any phase, one zone, two URLs |
| `MCStreamDays_live` | `SummaryCountsItsDay` and the liveness properties over two days |
| `MCPublication_faults` | `TypeOK`, `ManifestHasData`, `VerifiedIsOwn` and `PermanentHasCause` with every damage of a manifest and longer backoffs |
| `MCPublication_misdirected` | the same and `EveryOwnRevisionIsVerified` where a damaged manifest may name the directory of another stream |
| `MCPublication_live` | `EveryRevisionIsVerified` where each revision has a directory of its own |
| `MCMaintenance_pool` | the safety properties with two streams of two days, three destinations and two slots |
| `MCDayFile_faults` | `FileTypeOK`, `RowGroupsAreBounded` and `StopsAreCounted` beside the safety properties |
| `MCArchive_backfill`, `MCArchive_adopt`, `MCRawStore_unsynced`, `MCStreamDays_urledit`, `MCPublication_queries`, `MCPublication_altered` | one statement each that does not hold of the code (*Findings*) |

### The bounds

The interesting cases of a day need a capture that comes after a revision was taken (2
captures), a revision that supersedes another one (2 revisions), and two destinations
that finish in either order (2). `archive_live` has 3 revisions because the rows of the
second may be outdated by the last capture only once more. `archive_two` has one
capture and one revision, which is what two workers, retention and a command need to
meet over; `MCArchive_day` and `MCArchive_rebuild` have two of each with one
destination, and the proofs below hold for every number. All durations are 1: retention
compares, and equal durations make the three parts of a pass possible in one pass, the
case with the most interleavings. Captures of one day are interchangeable, so permuting
them is a sound symmetry; the liveness runs do not use it. For the raw store, captures
share no state but the pass of reconciliation: two are enough. For the scheduler, three
streams over two hosts give a stream that waits for its host while holding a global
slot and another host that needs one. The stall of `scheduler_streams` is longer than a
lateness, so that timers fire late and slots are granted beside them.

`Fetch`: five attempts reach the shift at which three times the backoff overflows five
bits, and the headers contain one within the interval, one beyond it, one whose product
turns negative and one whose product wraps to a small number. Small widths overflow
sooner than 64 bits, and the proof holds for every width.

`StreamDays`: a day has two seconds of four fractions. `days` has two ticks a day, on
the second or half-way into it, and midnight at either of two seconds, so that ticks
fall on midnight, into the first second of a day and outside it; the edit of the zone
moves midnight over ticks already recorded. `AnyPhase` in the further instances has
every phase. The raw retention is longer than the one of the metadata, so that a day may
be due while payloads of it are on disk. `Horizon` ends the clock; it is late enough
that the days it covers can be compacted, published and summarized, which is what the
liveness properties speak of. They except the days of a stream with a tick in the first
second of a day (`Regular`), which are the finding, and a configuration that was edited.

`Publication`: two revisions are what a queue, a shared directory and an order need; the
first has a manifest without a URL, so that a configuration without its stream matters.
`MaxDoublings` is 1 or 2, enough for delays that differ and stop growing. One outage and
one restart may fall into any step of either upload, and so may one damage of each of
the first revision's files; `shared` has a kind of damage for each of the two outcomes of
`Prepare` and one that nobody notices, `faults` and `misdirected` have the others.

`Maintenance`: two workers and two days of one stream are the least at which a worker
waits for the lock of the stream while the other one holds it; two destinations and one
slot the least at which one waits. With two streams the fairness of so many goroutines
is out of TLC's reach; `MCMaintenance_pool` has them for safety, and the proofs hold for
all.

`DayFile`: three captures put a capture without rows before, between and after others;
groups of two rows are smaller than a capture of three, so that the library closes a
group by itself. Two faults are a damaged raw file and an interruption, or two raw
files, or one of them and a file read back wrong.

`Service`: two services and a command are all pairs that can meet. A third process would
only wait for the same lock; the proof holds for any number.

Deadlock is checked where the system goes on for ever. It is not for `Publication`, whose
queue may be done, nor for `Fetch`, whose call returns, nor for `DayFile`, whose
compaction ends. When the scheduler and the maintenance service have returned they
stutter (`Done`, `Returned`), so that any other stop is a deadlock.

### Fairness

`Archive!Fairness`: the loops of `Maintenance.Run` tick for ever and a step that has begun
ends, hence weak fairness of each step. Compaction and retention contend for a
Go mutex, whose starvation mode hands over to a waiter, hence strong fairness for
entering it. A retried upload succeeds now and then, hence strong fairness of the
transfers that `UploadFails` competes with, and of the mark after the last comparison of
hashes, with which it competes too. No fairness for ticks, captures,
operators or faults: a stream need not produce captures, and the properties are
conditional on what was captured. Liveness is checked without faults: a crash may
recur for ever, and a permanent upload failure waits for an operator by design.

`Scheduler!Fairness`: goroutines run, time passes, and a fetch ends because its context
has a timeout. `FetchingGoesOn` is weak on purpose (some stream fetches, not each):
semaphores are not fair to a stream.

`StreamDays!Fairness`: time passes, the loops come round, `archiveMu` is handed to the
compaction loop when it waits (strong fairness of `CompactDay`, which a pass of
retention disables in between), and destinations are reachable in the end. None for
edits.

`Publication!Fairness`: one upload loop per destination takes its next step, time
passes, outages end, and an operator configures what is missing. Weak fairness of the
whole of `ProcessPending` is enough, since one goroutine does all of it.

`Maintenance!Fairness`: a runnable goroutine runs, hence weak fairness of its steps;
mutexes, channels and semaphores serve their waiters in turn, hence strong fairness of
the steps that acquire; `LoopStops` is strong because the `select` over a due tick and a
done context chooses at random. Nothing makes `Cancel` happen.

`DayFile!FileFairness`: a compaction takes its steps, and the loop comes back to a day that
failed. Faults are bounded in number, the property excepts a day none of whose raw files
can be read.

`Service!Fairness`: only the main goroutine of a service runs on; nothing is assumed of the
workers, which is why the deadline is needed.

## What is proved

`ArchiveProofs` proves, for any number of captures, destinations and revisions, any
durations and any faults, under `ArchiveAssumption` alone (the types of the
constants; required destinations are destinations):

| theorem | property |
|---|---|
| `Invariance` | `Spec => []IInv` |
| `TypeCorrect` | `TypeOK` |
| `RetentionIsSafe` | `RetainedIsArchived`: a payload is removed only when a delivered revision holds it, or excluded it as unreadable |
| `ExpiryIsSafe` | `ExpiredIsDelivered`: local files of a revision go only after its delivery |
| `ManifestIsLast` | `ManifestLast`: no reader of a remote sees a manifest before its data file |
| `UploadsAreSafe` | `VerifiedIsRemote` |
| `PublicationIsFinal` | `PublishedIsSettled` |
| `Immutability` | `RevisionsImmutable` |
| `SummaryIsSafe` | `SummaryForgetsNothing` |
| `RevisionsGrow` | `RevisionsKeepContent`: a new revision holds what an older one holds and can still be read |

The argument. `RetainedIsArchived` relates a file that is gone to the contents of a remote,
and the code never looks at both, so it is far from inductive. What connects them:
a pass removes `c` only if some published revision lists it (`RetentionInv`); what a
revision lists is among its manifest's inputs (`RevisionInv`), even if the rows were
adopted from disk; an input is in the content, or was unreadable, or its payload is
already gone (`CaptureInv`) -- and if it is gone the property held before. A published
revision has every required upload verified or retired (`PublishedIsSettled`), verified
means complete at the remote (`VerifiedIsRemote`), retired means abandoned by an
operator (`RemoteInv`); together the revision is delivered. That uploads stay settled
needs `UploaderInv`: a worker acts on a stale snapshot, and blind status updates
(`MarkUploadAttempt`, `MarkUploadFailed`) are harmless only because no one else verifies
or retires an upload while it is in a worker's hands -- the verifying worker is its own,
and `RetireDestination` runs only when the service is down. Remotes never lose files
because directories are immutable, and they are, even after the loss of the database,
because `Compact` refuses an existing directory and its number stays free until its
rename (`ProcessInv`, by `archiveMu` and the storage lock).

`IInv` is the conjunction of these parts. `ArchiveProofs` has a lemma per group of
conjuncts and actions; action properties follow from `IInv` and the step.

`RevisionsKeepContent` needs more, `ContentInv`: numbers are given out in order, each
directory holds what the ones below it hold (but for what was unreadable or is gone), and
a revision has its rows only together with those of its captures. The step that matters
is the choice of the next number. It is the latest number in the database plus one, and
its directory must be free; since directories have no gaps, the latest revision in the
database is then the newest on disk, and the rows of its captures are there to be read
again. So the property needs no hypothesis on the faults: after a lost database a
compaction either finds the newest directory adopted, with the rows that adoption
demanded, or finds its number taken and does nothing. TLC checked `ContentInv` with 2
captures and 2 revisions under every fault, and with 3 revisions under a lost database,
damage and failing operations.

`SchedulerProofs` proves, under `SchedulerAssumption` (finitely many streams, each with a
host, positive intervals and limits), for any number of streams and hosts:

| theorem | what |
|---|---|
| `SlotsAreKept` | `SlotsAreHeld`: each semaphore counts exactly the streams that hold its slots |
| `SlotsBounded` | the counts stay within `fetch_concurrency` and `per_host_concurrency` |
| `SpecTypeOK` | `TypeOK`, among it the largest lag a stream can have |
| `SlotsComeInTime` | `SlotsInTime`: both slots are granted within the one lateness of the stream, but for the stalls during these waits |
| `NextTickIsNext` | `NextTick` is a point of the grid phase + k * interval, after now, at most one interval away |

`SlotsAreHeld` with the types of its variables is inductive (`SlotsInv`): a stream
that returns a slot is one of its holders, so a count never falls below zero.
`NextTickIsNext` rests on two lemmas about `FloorMod`, whose case of a negative remainder is
the one a careless translation loses. The bound on the lag is inductive only as `LagInv`
has it: the longest wait or fetch plus the stalls *so far*, and never below zero while a
tick is worked on, so that moving to the next tick stays within one interval.
`SlotsInTime` is about a step that has no guard on the time. It follows from `WaitInv`: a
stream in a wait lags behind its tick by no more than its lateness and the stalls since
the wait began, because time passes a waiting stream by only while its timer cannot have
fired, and a stall adds the same to both sides.

`FetchProofs` proves, under `FetchAssumption` (at least one attempt, durations the type
can hold; the two facts about powers of two that the provers do not know are among it),
for any number of attempts, durations and widths:

| theorem | what |
|---|---|
| `SpecTypeOK` | `TypeOK`, among it that there are never more attempts than configured |
| `SpecFetchEndsInTime` | `FetchEndsInTime`: the timeouts and the longest waits between them bound the time a fetch takes |
| `SpecAttemptsAreRequests` | `AttemptsAreRequests`: every way out reports the requests sent, but for one that cannot be built |
| `SpecRetryAfterIsHonoured` | `RetryAfterIsHonoured`: between an answer with a Retry-After and the next request lies that time, or an interval |

The bound on the time says nothing of where in the loop a fetch is, so it is not
inductive. `Budget` is: before attempt *k* a fetch has used up *k* - 1 rounds (one
timeout and one longest wait), and what is left of a wait counts as used. `Patience` ties
what the server asked for to what is left of the wait and what was waited already.
`WrapFacts` and `WaitsAreBounded` carry the arithmetic of overflow: a
ceiling may wrap below zero, and the wait is then none.

`MaintenanceProofs` proves, under `MaintenanceAssumption` (finite sets, positive
limits), for any streams, days, workers and destinations:

| theorem | what |
|---|---|
| `SpecTypeOK` | `TypeOK`, among it that a pass compacts no job twice |
| `SpecArchiveAlone` | `ArchiveAlone`: no worker compacts while retention runs |
| `SpecStreamAlone` | `StreamAlone`: two workers never compact one stream |
| `SpecEveryJobOnce` | `EveryJobOnce`: a pass that was not cancelled compacts each of its jobs |

`ArchiveAlone` speaks of workers, but the mutex is the loop's. `Mutexes` connects them: a
worker exists only while the compaction loop is between its lock and its `Wait`.
`Hands` says what a worker holds in which state, hence the lock of its stream while it
compacts; `Jobs` that every job of the pass is in the queue, in one worker's hand, or done.

`ServiceProofs` proves, under `ServiceAssumption` (services and commands are different
processes), for any number of processes:

| theorem | what |
|---|---|
| `SpecTypeOK` | `TypeOK` |
| `SpecRowsNeedTheLock` | `RowsNeedTheLock`: who can begin a transaction holds the lock; without it runs only one that a late worker had begun |
| `SpecOnlyLateWorkersOverlap` | `OnlyLateWorkersOverlap`: workers of two processes meet only where one outlived its shutdown deadline, and has no database any more |
| `SpecServicesLeaveNoFileBehind` | `ServicesLeaveNoFileBehind`: a working service finds no unregistered file of another but from workers that outlived theirs |

All follow from one `Table`: in which phases of its life a process holds the lock, may
have the database open, may have workers and may be in a transaction.

`RawStoreProofs` proves, for any number of captures, under `RawStoreAssumption` and, where
the claim is not true of every fault, under a named hypothesis on `Faults`:

| theorem | hypothesis | what |
|---|---|---|
| `SpecTypeOK` | | `TypeOK` |
| `SpecTickTellsRow` | | `TickTellsRow`: the tick of a registered capture says so |
| `SpecReconciledIsRegistered` | `NoMixture`: no power losses beside kills or I/O errors | `ReconciledIsRegistered`: a start registers every complete pair |
| `SpecNoOrphanPayload` | `NoKill` | `NoOrphanPayload` |
| `SpecFirstHalfDurable` | `NoLeftovers`: neither kills nor I/O errors | `FirstHalfDurable`: a sidecar is published only over a durable payload |
| `SpecStoredAtOnce` | `PowerOnly`: power losses and failing transactions | `StoredAtOnce`: the refinement of `CaptureLog` |

Each hypothesis is what the code needs. With less, TLC has a counterexample: a killed
process or an I/O error after the payload's rename leaves half a pair, which the next
start completes without syncing the directory of that half; a power loss may then take
it back (the finding of `MCRawStore_unsynced`, of which `SpecFirstHalfDurable` is the
positive side). The inductive invariant says of every file which places it may be in
after a power loss, at each step of `Commit` and of the recovery, and what each step may
take for granted; its parts that need no hypothesis carry `TickTellsRow` alone. TLC
checked it for each combination of faults the hypotheses tell apart, for 1 and 2
captures, and that every step from any state that satisfies it keeps it, for 1.

`PublicationProofs` proves, under `PublicationAssumption`, for any streams, revisions,
configurations, outages and restarts:

| theorem | property |
|---|---|
| `SpecVerifiedIsOwn` | `VerifiedIsOwn`: a verified row stands for its own revision, even in a shared directory: the data as compacted, the manifest as compacted or as the local one was damaged, in its directory unless the manifest was misdirected |
| `SpecManifestHasData` | `ManifestHasData`: a manifest in the remote has the data of its revision, intact |
| `SpecPermanentHasCause` | `PermanentHasCause`: a row fails for good only over a wrong file |

A row is marked long after its files were compared, the directory may be shared, and the
local files may be damaged after every look at them. `SeenStep` says what the worker has
derived, read and compared at each step and that it still stands, because the remote
only grows: from the comparison of the data file on the remote holds it as the manifest
of the database names it, and the manifest there is the one read in `ReadManifest`.
`OwnData` and `OwnManifest` say that a remote file is the revision's, or damaged as its
local one is. Nothing more can be said of a manifest, since nothing records its hash.

`DayProofs` proves, under the assumptions of `StreamDays` and `DayFile` alone, for any
number of streams, ticks, days, captures, entities, and any limit of a row group:

| theorem | what |
|---|---|
| `SpecTypeOK` | `StreamDays!TypeOK` |
| `SpecCapturesKeepTheirTick` | `CapturesKeepTheirTick`: a capture never outlives its tick, which the foreign key enforces |
| `SpecEveryTickCountedOnce` | `EveryTickCountedOnce`: journal, rows and summaries agree in number, ticks and captures |
| `SpecLiveRowsStay` | `LiveRowsStay` (an action property): no step deletes the row of a live payload |
| `SpecFileTypeOK` | `FileTypeOK` |
| `SpecValidFileHoldsTheDay` | `ValidFileHoldsTheDay`: a file that validates is the day, but for the excluded captures |
| `SpecExclusionsAreDeclared` | `ExclusionsAreDeclared` |
| `SpecRowGroupsAreBounded` | `RowGroupsAreBounded`: every row group stays within the limit, whichever way it was closed |

Both modules count with folds of the library over finite sets, in an order no one knows.
`SumOf` names what such a fold computes, and the lemmas on it -- existence, uniqueness,
adding and removing an element, sums that differ in one place, a sum as a part of another
-- are what the two proofs share; `Concats` is the same for flattened sequences of rows.
The induction theorems of the library take a predicate as a parameter, which the provers
cannot instantiate; `FiniteInduction` and `IndexInduction` state them with the *set* of what
has the property instead, and are proved from well-founded orders.

`EveryTickCountedOnce` is inductive with the types and `CapturesKeepTheirTick`: a row is
counted until the step that writes it into a summary deletes it, and the two
subtractions of that step cancel, because the summary takes its counts from the very rows
it deletes (where it would not, the foreign key refuses and the whole step is rolled
back). `ValidFileHoldsTheDay` compares two things the code never compares, since the
validator walks the file with a cursor over counts of its own. `InStep` is the invariant
of the walk: the rows seen, with those still owed, are the rows of the captures up to the
cursor; `Written`, `Recounted` and `Finished` say what is known before and after it. TLC
checked the invariants beforehand, that of `DayFile` with 3 captures and 2 faults, that of
`StreamDays` in the instances `days` and `zones`.

But for the hypotheses of `RawStoreProofs`, every theorem holds under the named
assumptions on the constants alone, which TLC evaluates in each run.

## What is only model-checked

* Liveness, under fairness, and anything that needs ENABLED: out of the prover's reach.
* `Publication!TypeOK`, for the bound of the waits: it compares powers of two, about which
  the provers know nothing. `PublicationProofs` has the types without it (`Typed`).
* `StopsAreCounted` of `DayFile`: the sum over the entities of one capture, a second level of
  sums below the rows.
* The violated claims under *Findings*, which cannot be proved.

Every safety property of a standing run, invariant or action property, is a theorem.

## Findings

One is a standing run:

* `days_firstsecond`: timestamps are compared as texts in which a whole second has no
  fraction, so a time within the first second of a day sorts before its midnight. A
  stream whose phase falls there has a tick that counts for the day before and a capture
  that counts for its own day; the summary of the day before deletes the tick, the
  foreign key refuses, and the error ends the retention pass, again and again. The
  phase of a stream is derived from a hash of its name, with nanoseconds.

Five more claims of comments or of the README are not met by the code; each is a
property in its module, and TLC finds the counterexample with the configuration named:

* `MCArchive_backfill`, `BackfillsDoNotGate`: `MarkUploadVerified` (state/store.go:708)
  sets `published_at` again when an optional backfill is verified, so the revision's
  retention starts over, although "adding a destination must not retroactively gate
  retention" (store.go:717-719).
* `MCArchive_adopt`, `OrphansAdoptable`: after raw retention has removed payloads and
  the database was lost, `AdoptCompaction` (store.go:587) fails for want of capture
  rows, and the service does not start, although "Reconciliation can safely adopt it
  later" (compact.go:299-300).
* `MCRawStore_unsynced`, `FirstHalfDurable`: `finishInterruptedCommits`
  (rawstore/store.go:401) does not sync the directory of a payload that an earlier,
  killed process has already renamed, before it publishes the sidecar; compare
  rawstore/store.go:202-203. The standing runs of `RawStore` have either kills or power
  losses, not both: the combination is this.
* `MCStreamDays_urledit`, `CapturesOfADayAgree`: when the path of a stream's URL is
  edited during a day its captures disagree and the day is never compacted, although
  "captures of one stream/day always agree" (compact.go:900-902).
* `MCPublication_queries`, `EveryRevisionIsVerified`: two streams of one kind that
  differ only in the query of their URL, as those of the example configuration do, share
  a remote directory (upload/hive.go:45); the second upload fails for good. The standing
  run shows that no other revision does (`EveryOwnRevisionIsVerified`).

One more instance shows a behaviour about which the repository claims nothing, and which
bounds what `VerifiedIsOwn` can say: `MCPublication_altered`, `VerifiedIsCompacted`. The
hash of `manifest.json` is recorded nowhere, and the remote copy is compared with the
file as `publish` has just read it (upload/upload.go:183, 194). A manifest that was
damaged on the disk, but still parses and agrees with the database, with itself and with
the data file (compact/compact.go:710-814), is uploaded and marked verified.

## What is not modelled

The Protobuf decoder but for its verdict, the generated column mapping of the Parquet
projection, argument parsing, YAML and secrets, metrics and health output, identifiers
and build information: data layout, input and output without control. Of
`VerifyDirectory` only the verdict, by the kind of damage; of a row of the day's file only the capture and the
stop it stands for. The state store's schema migrations and audit table. A change to or
from summer time within a day. The durability of the hour and day directories that
`Commit` creates is assumed, see `RawStore`.

## Plan

Done: every component with control is modelled, and every safety property the standing
runs check is proved. Next:

1. `Archive` as an implementation of an abstract delivery log, of which `RetainedIsArchived`
   is the central step.
2. `SummaryCountsItsDay` and `SummaryAgreesWithManifest` of `StreamDays`, under the hypotheses
   on phases and edits with which TLC checks them.
3. `BackfillsDoNotGate` and its kind in their positive form: which revisions do keep their
   publication time.
4. `StopsAreCounted`, from the lemmas on sums.
5. Days of 23 and 25 hours in `StreamDays`.
