------------------------------ MODULE Archive ------------------------------
(***************************************************************************)
(* The life of one stream-day in the archive: from the captured payloads   *)
(* on disk, over the immutable revisions compacted from them and the       *)
(* uploads that publish a revision, to the retention pass that removes the *)
(* local copies, with the SQLite rows that tie them together.              *)
(*                                                                         *)
(* The processes are those of the service: fetchers that store captures,   *)
(* the compaction worker and the retention pass (which exclude each other  *)
(* by Maintenance.archiveMu), one upload worker per destination (which     *)
(* takes no lock), startup reconciliation, and the operator's commands,    *)
(* which run only while the service is down because both take the storage  *)
(* lock.  A step is one file operation or one SQL transaction.             *)
(***************************************************************************)
EXTENDS Integers, FiniteSets

CONSTANTS
    Capture,        \* the captures of this stream-day
    Destination,    \* the rclone destinations
    Required,       \* those configured with required: true
    Configs,        \* the sets of destinations a configuration may name
    LocalOnly,      \* storage.allow_local_only_cleanup
    MaxRevision,    \* bound on the revisions of the day
    RawAge,         \* raw_retention_after_upload, in steps of age
    ParquetAge,     \* parquet_retention_after_upload
    MetadataAge,    \* metadata_retention
    Faults          \* the disturbances this instance admits, see FaultKinds

FaultKinds == {"operator", "crash", "dbloss", "damage", "statefail", "remote"}

ASSUME ArchiveAssumption ==
    /\ Required \subseteq Destination
    /\ Configs \subseteq SUBSET Destination
    /\ LocalOnly \in BOOLEAN
    /\ MaxRevision \in Nat
    /\ RawAge \in Nat /\ ParquetAge \in Nat /\ MetadataAge \in Nat
    /\ Faults \subseteq FaultKinds

Revision == 1..MaxRevision

\* Retention only compares an age with the three durations, so ages saturate at
\* the longest of them.
MaxAge == CHOOSE m \in {RawAge, ParquetAge, MetadataAge} :
            m >= RawAge /\ m >= ParquetAge /\ m >= MetadataAge

NoManifest == [inputs |-> {}, content |-> {}, dests |-> {}]

VARIABLES
    (* the data volume *)
    payload,     \* the .pb/.json pair of a capture
    dir,         \* the files left in a revision directory
    manifest,    \* what the manifest of a revision says, fixed once it exists
    (* the state database *)
    row,         \* the captures row: none, live path, or @retained/ path
    ticked,      \* the day has a row in ticks
    summarized,  \* the day has a row in daily_summaries
    compaction,  \* the compactions row: none, local paths, or blank paths
    listed,      \* compaction_inputs of a revision
    published,   \* the revisions whose published_at is not null
    age,         \* time since published_at
    upload,      \* uploads.status of a revision at a destination
    (* the remotes *)
    remote,      \* the files of a revision that a destination holds
    (* the processes: none of this survives a crash *)
    phase,       \* the process that holds the storage lock and what it does
    config,      \* the destinations of the running configuration
    saving,      \* captures committed to disk whose SaveCapture has not run
    cstep, crev, ccaps, cread,  \* the compaction worker
    rstep, rawTodo, revTodo,    \* the retention pass
    ustep, urev, queue,         \* the upload worker of each destination
    (* history *)
    unreadable,  \* captures some compaction failed to read from disk
    abandoned    \* destinations an operator has retired

diskVars == <<payload, dir, manifest>>
captureRows == <<row, ticked, summarized>>
revisionRows == <<compaction, listed, published, age, upload>>
compactorVars == <<cstep, crev, ccaps, cread>>
retentionVars == <<rstep, rawTodo, revTodo>>
uploaderVars == <<ustep, urev, queue>>
processVars == <<phase, config, saving, compactorVars, retentionVars, uploaderVars>>
historyVars == <<unreadable, abandoned>>
vars == <<diskVars, captureRows, revisionRows, remote, processVars, historyVars>>

UploadStatus == {"none", "pending", "uploading", "retry", "permanent_failure",
                 "verified", "retired", "expired"}

TypeOK ==
    /\ payload \in [Capture -> {"none", "intact", "damaged", "removed"}]
    /\ dir \in [Revision -> {"none", "whole", "nodata", "empty"}]
    /\ manifest \in [Revision -> [inputs : SUBSET Capture,
                                  content : SUBSET Capture,
                                  dests : SUBSET Destination]]
    /\ row \in [Capture -> {"none", "live", "retained"}]
    /\ ticked \in BOOLEAN /\ summarized \in BOOLEAN
    /\ compaction \in [Revision -> {"none", "local", "expired"}]
    /\ listed \in [Revision -> SUBSET Capture]
    /\ published \in SUBSET Revision
    /\ age \in [Revision -> 0..MaxAge]
    /\ upload \in [Revision -> [Destination -> UploadStatus]]
    /\ remote \in [Destination -> [Revision -> SUBSET {"data", "manifest"}]]
    /\ phase \in {"down", "registering", "adopting", "running", "cli"}
    /\ config \in SUBSET Destination
    /\ saving \in SUBSET Capture
    /\ cstep \in {"idle", "selected", "read", "renamed"}
    /\ crev \in Revision \cup {0}
    /\ ccaps \in SUBSET Capture /\ cread \in SUBSET Capture
    /\ rstep \in {"idle", "raw", "parquet", "summary"}
    /\ rawTodo \in SUBSET Capture /\ revTodo \in SUBSET Revision
    /\ ustep \in [Destination -> {"idle", "opened", "started", "data", "sent",
                                  "retry", "permanent_failure"}]
    /\ urev \in [Destination -> Revision \cup {0}]
    /\ queue \in [Destination -> SUBSET Revision]
    /\ unreadable \in SUBSET Capture /\ abandoned \in SUBSET Destination

IdleProcesses ==
    /\ saving = {}
    /\ cstep = "idle" /\ crev = 0 /\ ccaps = {} /\ cread = {}
    /\ rstep = "idle" /\ rawTodo = {} /\ revTodo = {}
    /\ ustep = [d \in Destination |-> "idle"]
    /\ urev = [d \in Destination |-> 0]
    /\ queue = [d \in Destination |-> {}]

EmptyDatabase ==
    /\ row = [c \in Capture |-> "none"]
    /\ ticked = FALSE /\ summarized = FALSE
    /\ compaction = [r \in Revision |-> "none"]
    /\ listed = [r \in Revision |-> {}]
    /\ published = {}
    /\ age = [r \in Revision |-> 0]
    /\ upload = [r \in Revision |-> [d \in Destination |-> "none"]]

Init ==
    /\ payload = [c \in Capture |-> "none"]
    /\ dir = [r \in Revision |-> "none"]
    /\ manifest = [r \in Revision |-> NoManifest]
    /\ remote = [d \in Destination |-> [r \in Revision |-> {}]]
    /\ EmptyDatabase
    /\ phase = "down" /\ config = {}
    /\ IdleProcesses
    /\ unreadable = {} /\ abandoned = {}

-----------------------------------------------------------------------------
(* What the rows and the directories say *)

Rows == {c \in Capture : row[c] # "none"}
Revisions == {r \in Revision : compaction[r] # "none"}
RequiredOf(r) == manifest[r].dests \cap Required
Excluded(r) == manifest[r].inputs \ manifest[r].content

\* A day without captures has a manifest and no data file.
Files(r) == IF manifest[r].content = {} THEN {"manifest"} ELSE {"data", "manifest"}
ManifestPresent(r) == dir[r] \in {"whole", "nodata"}

\* VerifyDirectory: the manifest and the data file it names are there and agree.
DirectoryVerifies(r) == dir[r] = "whole"

Latest == CHOOSE r \in Revisions : \A x \in Revisions : x <= r
NextRevision == IF Revisions = {} THEN 1 ELSE Latest + 1

DayNeedsCompaction ==
    /\ ~summarized
    /\ ticked
    /\ \A r \in Revisions : r = Latest =>
         \/ Cardinality(manifest[r].inputs) # Cardinality(Rows)
         \/ \E c \in Rows : c \notin listed[r]

\* The statuses that still hold back publication are those of required uploads
\* neither verified nor retired.
SettledLoosely(up, r) == \A d \in RequiredOf(r) : up[r][d] # "pending"  \* mutant
Settled(up, r) == \A d \in RequiredOf(r) : up[r][d] \in {"verified", "retired"}

UploadersIdle == \A d \in Destination : ustep[d] = "idle" /\ queue[d] = {}

-----------------------------------------------------------------------------
(* Capturing *)

\* Fetches belong to the day itself and the minutes after it, over before any
\* revision of the day has aged by a step of the retention durations.
DayIsRecent == ~summarized /\ \A r \in Revision : age[r] = 0

\* A tick of this day is recorded: a skip, a failure, or the "running" row a
\* fetch writes before its first attempt.
RecordTick ==
    /\ phase = "running" /\ ~ticked /\ DayIsRecent
    /\ ticked' = TRUE
    /\ UNCHANGED <<diskVars, row, summarized, revisionRows, remote, processVars, historyVars>>

\* rawstore.Store.Commit has put the pair of files in place.
Commit(c) ==
    /\ phase = "running" /\ ticked /\ payload[c] = "none" /\ DayIsRecent
    /\ payload' = [payload EXCEPT ![c] = "intact"]
    /\ saving' = saving \cup {c}
    /\ UNCHANGED <<dir, manifest, captureRows, revisionRows, remote, phase, config,
                   compactorVars, retentionVars, uploaderVars, historyVars>>

SaveCapture(c) ==
    /\ c \in saving
    /\ saving' = saving \ {c}
    /\ row' = [row EXCEPT ![c] = "live"]
    /\ ticked' = TRUE
    /\ UNCHANGED <<diskVars, summarized, revisionRows, remote, phase, config,
                   compactorVars, retentionVars, uploaderVars, historyVars>>

\* The state transaction fails: the fetch ends, the files stay without a row.
SaveCaptureFails(c) ==
    /\ "statefail" \in Faults /\ c \in saving
    /\ saving' = saving \ {c}
    /\ UNCHANGED <<diskVars, captureRows, revisionRows, remote, phase, config,
                   compactorVars, retentionVars, uploaderVars, historyVars>>

-----------------------------------------------------------------------------
(* Compaction.  archiveMu keeps it and the retention pass apart. *)

\* Compact refuses a revision whose directory is already there.
DirectoryUnchecked(r) == TRUE  \* mutant
DirectoryFree(r) == dir[r] = "none"

\* readVerifiedCapture succeeds.
ReadableOnce(c) == payload[c] = "intact" /\ \A r \in Revisions : c \notin listed[r]  \* mutant
Readable(c) == payload[c] = "intact"

\* compactEligible finds that the day needs a revision, or the operator asks
\* for one, and Compact reads the next revision number and the capture rows.  An
\* occupied directory ends the attempt without a trace.
CompactSelect ==
    /\ cstep = "idle" /\ rstep = "idle"
    /\ \/ phase = "running" /\ DayNeedsCompaction
       \/ phase = "cli" /\ UploadersIdle
    /\ NextRevision \in Revision /\ DirectoryFree(NextRevision)
    /\ cstep' = "selected" /\ crev' = NextRevision /\ ccaps' = Rows
    /\ UNCHANGED <<diskVars, captureRows, revisionRows, remote, phase, config, saving, cread,
                   retentionVars, uploaderVars, historyVars>>

\* The payloads are read one after the other; the ones that are gone or do not
\* match their hash are left out.  A day whose captures are all left out fails.
CompactRead ==
    /\ cstep = "selected"
    /\ LET good == {c \in ccaps : Readable(c)}
           lost == {c \in ccaps : payload[c] = "damaged"} IN
       IF ccaps # {} /\ good = {}
         THEN /\ cstep' = "idle" /\ crev' = 0 /\ ccaps' = {} /\ cread' = {}
              /\ UNCHANGED unreadable
         ELSE /\ cstep' = "read" /\ cread' = good
              /\ unreadable' = unreadable \cup lost
              /\ UNCHANGED <<crev, ccaps>>
    /\ UNCHANGED <<diskVars, captureRows, revisionRows, remote, phase, config, saving,
                   retentionVars, uploaderVars, abandoned>>

\* The staged directory becomes the revision directory in one rename.
CommitRevision ==
    /\ cstep = "read"
    /\ cstep' = "renamed"
    /\ dir' = [dir EXCEPT ![crev] = "whole"]
    /\ manifest' = [manifest EXCEPT ![crev] =
                       [inputs |-> ccaps, content |-> cread, dests |-> config]]
    /\ UNCHANGED <<payload, captureRows, revisionRows, remote, phase, config, saving,
                   crev, ccaps, cread, retentionVars, uploaderVars, historyVars>>

CompactorIdle == cstep' = "idle" /\ crev' = 0 /\ ccaps' = {} /\ cread' = {}

\* Nothing to wait for: no destination is required and cleaning up without one is
\* allowed.
PublishedLocally(r) == LocalOnly /\ RequiredOf(r) = {}

\* The rows of revision r as SaveCompaction and AdoptCompaction insert them:
\* one upload per destination of the manifest, and published at once when there
\* is nothing to wait for.
InsertCompaction(r, inputs, a) ==
    /\ compaction' = [compaction EXCEPT ![r] = "local"]
    /\ listed' = [listed EXCEPT ![r] = inputs]
    /\ published' = IF PublishedLocally(r) THEN published \cup {r} ELSE published \ {r}
    /\ age' = [age EXCEPT ![r] = IF PublishedLocally(r) THEN a ELSE 0]
    /\ upload' = [upload EXCEPT ![r] = [d \in Destination |->
                     IF d \in manifest[r].dests THEN "pending" ELSE "none"]]

SaveCompaction ==
    /\ cstep = "renamed"
    /\ InsertCompaction(crev, ccaps, 0)
    /\ CompactorIdle
    /\ UNCHANGED <<diskVars, captureRows, remote, phase, config, saving,
                   retentionVars, uploaderVars, historyVars>>

\* "files left for repair": the directory stays without its rows.
SaveCompactionFails ==
    /\ "statefail" \in Faults /\ cstep = "renamed"
    /\ CompactorIdle
    /\ UNCHANGED <<diskVars, captureRows, revisionRows, remote, phase, config, saving,
                   retentionVars, uploaderVars, historyVars>>

-----------------------------------------------------------------------------
(* Uploading: one worker per destination, no lock shared with retention *)

UploaderGoes(d, step, r) ==
    /\ ustep' = [ustep EXCEPT ![d] = step]
    /\ urev' = [urev EXCEPT ![d] = r]

FirstTries(d) == {r \in Revisions : upload[r][d] = "pending"}  \* mutant
Pending(d) == {r \in Revisions : upload[r][d] \in {"pending", "retry", "uploading"}}

\* ProcessPending works from a snapshot of the queue.
PendingUploads(d) ==
    /\ phase = "running" \/ (phase = "cli" /\ cstep = "idle")
    /\ d \in config
    /\ ustep[d] = "idle" /\ queue[d] = {} /\ Pending(d) # {}
    /\ queue' = [queue EXCEPT ![d] = Pending(d)]
    /\ UNCHANGED <<diskVars, captureRows, revisionRows, remote, phase, config, saving,
                   compactorVars, retentionVars, ustep, urev, historyVars>>

\* CompactionByID and prepareRemoteDir: the row gives the manifest's path, blank
\* once the revision is expired, and the manifest is read.
PrepareRemoteDir(d, r) ==
    /\ ustep[d] = "idle" /\ r \in queue[d]
    /\ queue' = [queue EXCEPT ![d] = @ \ {r}]
    /\ UploaderGoes(d, IF compaction[r] = "local" /\ ManifestPresent(r)
                       THEN "opened" ELSE "permanent_failure", r)
    /\ UNCHANGED <<diskVars, captureRows, revisionRows, remote, phase, config, saving,
                   compactorVars, retentionVars, historyVars>>

SetUpload(r, d, status) == upload' = [upload EXCEPT ![r][d] = status]

MarkUploadAttempt(d) ==
    /\ ustep[d] = "opened"
    /\ SetUpload(urev[d], d, "uploading")
    /\ UploaderGoes(d, "started", urev[d])
    /\ UNCHANGED <<diskVars, captureRows, compaction, listed, published, age, remote, phase,
                   config, saving, compactorVars, retentionVars, queue, historyVars>>

SendSwapped(d, file) ==  \* mutant
    remote' = [remote EXCEPT ![d][urev[d]] = @ \cup (Files(urev[d]) \ {file})]
Send(d, file) == remote' = [remote EXCEPT ![d][urev[d]] = @ \cup {file}]

\* publish verifies the directory, then copies and checks the data file.
CopyData(d) ==
    /\ ustep[d] = "started"
    /\ IF DirectoryVerifies(urev[d])
         THEN /\ IF "data" \in Files(urev[d]) THEN Send(d, "data") ELSE UNCHANGED remote
              /\ UploaderGoes(d, "data", urev[d])
         ELSE UploaderGoes(d, "permanent_failure", urev[d]) /\ UNCHANGED remote
    /\ UNCHANGED <<diskVars, captureRows, revisionRows, phase, config, saving,
                   compactorVars, retentionVars, queue, historyVars>>

CopyManifest(d) ==
    /\ ustep[d] = "data" /\ ManifestPresent(urev[d])
    /\ Send(d, "manifest")
    /\ UploaderGoes(d, "sent", urev[d])
    /\ UNCHANGED <<diskVars, captureRows, revisionRows, phase, config, saving,
                   compactorVars, retentionVars, queue, historyVars>>

\* A failure of rclone that is not permanent.
Swallowed == "sent"  \* mutant
Transient == "retry"

\* The stream is no longer configured, or rclone fails: a network error, a source
\* file that has just been removed, or, for good, a remote file that differs from
\* the one to be written.  The manifest's hash is asked for when it has been sent.
UploadFails(d) ==
    /\ \/ /\ ustep[d] \in {"opened", "started", "data", "sent"}
          /\ UploaderGoes(d, Transient, urev[d])
       \/ /\ ustep[d] \in {"started", "data", "sent"} /\ "remote" \in Faults
          /\ UploaderGoes(d, "permanent_failure", urev[d])
    /\ UNCHANGED <<diskVars, captureRows, revisionRows, remote, phase, config, saving,
                   compactorVars, retentionVars, queue, historyVars>>

\* The last required upload to be settled publishes the revision; so does every
\* upload verified after that, an optional one included.
MarkUploadVerified(d) ==
    /\ ustep[d] = "sent"
    /\ LET r == urev[d]
           publish == Settled([upload EXCEPT ![r][d] = "verified"], r) IN
       /\ SetUpload(r, d, "verified")
       /\ published' = IF publish THEN published \cup {r} ELSE published
       /\ age' = [age EXCEPT ![r] = IF publish THEN 0 ELSE @]
    /\ UploaderGoes(d, "idle", 0)
    /\ UNCHANGED <<diskVars, captureRows, compaction, listed, remote, phase,
                   config, saving, compactorVars, retentionVars, queue, historyVars>>

\* The status and the error category are two neighbouring string arguments.
FailureStatus(d) == ustep[d]

MarkUploadFailed(d) ==
    /\ ustep[d] \in {"retry", "permanent_failure"}
    /\ SetUpload(urev[d], d, FailureStatus(d))
    /\ UploaderGoes(d, "idle", 0)
    /\ UNCHANGED <<diskVars, captureRows, compaction, listed, published, age, remote, phase,
                   config, saving, compactorVars, retentionVars, queue, historyVars>>

\* A state operation fails: ProcessPending returns and drops what it has not done.
ProcessPendingFails(d) ==
    /\ "statefail" \in Faults /\ ustep[d] \notin {"started", "data"}
    /\ ustep[d] # "idle" \/ queue[d] # {}
    /\ UploaderGoes(d, "idle", 0)
    /\ queue' = [queue EXCEPT ![d] = {}]
    /\ UNCHANGED <<diskVars, captureRows, revisionRows, remote, phase, config, saving,
                   compactorVars, retentionVars, historyVars>>

-----------------------------------------------------------------------------
(* Retention.  Each of the three parts of a pass works from its own snapshot of *)
(* candidates, taken when the part before it is done.                          *)

\* Without required destinations nothing is removed unless that is allowed.
CleanupAllowed == config \cap Required # {} \/ LocalOnly

\* published_at lies before the cutoff; a revision that is not published has none.
OldWhenNull(r, retention) == r \in published => age[r] >= retention  \* mutant
PublishedFor(r, retention) == r \in published /\ age[r] >= retention

RawRetentionCandidates ==
    {c \in Capture :
        LET in == {r \in Revisions : c \in listed[r]} IN
        row[c] = "live" /\ in # {} /\ \A r \in in : PublishedFor(r, RawAge)}

ParquetRetentionCandidates ==
    {r \in Revisions : PublishedFor(r, ParquetAge) /\ compaction[r] = "local"}

SummaryCandidate ==
    /\ ~summarized /\ Revisions # {}
    /\ \A r \in Revisions : PublishedFor(r, MetadataAge)

CleanupRaw ==
    /\ phase = "running" /\ cstep = "idle" /\ rstep = "idle" /\ CleanupAllowed
    /\ rstep' = "raw" /\ rawTodo' = RawRetentionCandidates
    /\ UNCHANGED <<diskVars, captureRows, revisionRows, remote, phase, config, saving,
                   compactorVars, revTodo, uploaderVars, historyVars>>

\* The files of one candidate go before its row is marked, one candidate at a
\* time; a file that is already gone is no error.
RemoveCapture(c) ==
    /\ rstep = "raw" /\ c \in rawTodo /\ payload[c] \in {"intact", "damaged"}
    /\ \A x \in rawTodo : payload[x] # "removed"
    /\ payload' = [payload EXCEPT ![c] = "removed"]
    /\ UNCHANGED <<dir, manifest, captureRows, revisionRows, remote, processVars, historyVars>>

MarkCaptureRetained(c) ==
    /\ rstep = "raw" /\ c \in rawTodo /\ payload[c] = "removed"
    /\ rawTodo' = rawTodo \ {c}
    /\ row' = [row EXCEPT ![c] = "retained"]
    /\ UNCHANGED <<diskVars, ticked, summarized, revisionRows, remote, phase, config, saving,
                   compactorVars, rstep, revTodo, uploaderVars, historyVars>>

CleanupParquet ==
    /\ rstep = "raw" /\ rawTodo = {}
    /\ rstep' = "parquet" /\ revTodo' = ParquetRetentionCandidates
    /\ UNCHANGED <<diskVars, captureRows, revisionRows, remote, phase, config, saving,
                   compactorVars, rawTodo, uploaderVars, historyVars>>

RemoveArtifact(r) ==
    /\ rstep = "parquet" /\ r \in revTodo /\ ManifestPresent(r)
    /\ \A x \in revTodo \ {r} : dir[x] = "whole"
    /\ dir' = [dir EXCEPT ![r] =
                  IF @ = "whole" /\ "data" \in Files(r) THEN "nodata" ELSE "empty"]
    /\ UNCHANGED <<payload, manifest, captureRows, revisionRows, remote, processVars, historyVars>>

\* Optional uploads that have not been verified will never find the files again.
MarkParquetRetained(r) ==
    /\ rstep = "parquet" /\ r \in revTodo /\ dir[r] = "empty"
    /\ revTodo' = revTodo \ {r}
    /\ compaction' = [compaction EXCEPT ![r] = "expired"]
    /\ upload' = [upload EXCEPT ![r] = [d \in Destination |->
                     IF d \notin RequiredOf(r) /\ @[d] \notin {"none", "verified"}
                       THEN "expired" ELSE @[d]]]
    /\ UNCHANGED <<diskVars, captureRows, listed, published, age, remote, phase, config, saving,
                   compactorVars, rstep, rawTodo, uploaderVars, historyVars>>

CleanupSummaries ==
    /\ rstep = "parquet" /\ revTodo = {}
    /\ rstep' = IF SummaryCandidate THEN "summary" ELSE "idle"
    /\ UNCHANGED <<diskVars, captureRows, revisionRows, remote, phase, config, saving,
                   compactorVars, rawTodo, revTodo, uploaderVars, historyVars>>

AnyRow == FALSE  \* mutant
RowsLeft == \E c \in Capture : row[c] # "none"  \* mutant
LiveRaw == \E c \in Capture : row[c] = "live"

\* One transaction: nothing happens while a capture of the day is still live,
\* otherwise the day's captures, inputs and ticks give way to a summary.
SummarizeDay ==
    /\ rstep = "summary"
    /\ rstep' = "idle"
    /\ IF LiveRaw
         THEN UNCHANGED <<captureRows, listed>>
         ELSE /\ row' = [c \in Capture |-> "none"]
              /\ listed' = [r \in Revision |-> {}]
              /\ ticked' = FALSE /\ summarized' = TRUE
    /\ UNCHANGED <<diskVars, compaction, published, age, upload, remote, phase, config, saving,
                   compactorVars, rawTodo, revTodo, uploaderVars, historyVars>>

\* A file or a state operation fails: Cleanup returns, between the removal of a
\* candidate's files and its mark too.
CleanupFails ==
    /\ "statefail" \in Faults /\ rstep # "idle"
    /\ rstep' = "idle" /\ rawTodo' = {} /\ revTodo' = {}
    /\ UNCHANGED <<diskVars, captureRows, revisionRows, remote, phase, config, saving,
                   compactorVars, uploaderVars, historyVars>>

-----------------------------------------------------------------------------
(* Startup, the operator's commands, and the environment *)

Start ==
    /\ phase = "down"
    /\ phase' = "registering" /\ config' \in Configs
    /\ UNCHANGED <<diskVars, captureRows, revisionRows, remote, saving,
                   compactorVars, retentionVars, uploaderVars, historyVars>>

Unregistered == {c \in Capture : payload[c] = "intact" /\ row[c] = "none"}

\* rawstore.Store.Reconcile: a pair whose hash matches gets the rows it lacks.
Register(c) ==
    /\ phase = "registering" /\ c \in Unregistered
    /\ row' = [row EXCEPT ![c] = "live"] /\ ticked' = TRUE
    /\ UNCHANGED <<diskVars, summarized, revisionRows, remote, processVars, historyVars>>

RegisterDone ==
    /\ phase = "registering" /\ Unregistered = {}
    /\ phase' = "adopting"
    /\ UNCHANGED <<diskVars, captureRows, revisionRows, remote, config, saving,
                   compactorVars, retentionVars, uploaderVars, historyVars>>

\* Manifests whose directory verifies and that have no rows yet.
Orphans == {r \in Revision : DirectoryVerifies(r) /\ compaction[r] = "none"}

\* An input needs its capture row, unless the manifest excluded it.
Adoptable(r) == \A c \in manifest[r].inputs : row[c] # "none" \/ c \in Excluded(r)

AdoptCompaction(r) ==
    /\ phase = "adopting" /\ r \in Orphans /\ Adoptable(r)
    /\ \E a \in 0..MaxAge : InsertCompaction(r, manifest[r].inputs \cap Rows, a)
    /\ UNCHANGED <<diskVars, captureRows, remote, processVars, historyVars>>

\* reconcile.All returns the error and the command that called it ends.
AdoptCompactionFails(r) ==
    /\ phase = "adopting" /\ r \in Orphans /\ ~Adoptable(r)
    /\ phase' = "down"
    /\ UNCHANGED <<diskVars, captureRows, revisionRows, remote, config, saving,
                   compactorVars, retentionVars, uploaderVars, historyVars>>

AdoptDone ==
    /\ phase = "adopting" /\ Orphans = {}
    /\ phase' = "running"
    /\ UNCHANGED <<diskVars, captureRows, revisionRows, remote, config, saving,
                   compactorVars, retentionVars, uploaderVars, historyVars>>

\* The service stops with nothing in flight; a stop that interrupts its workers
\* is a Crash.
Stop ==
    /\ "operator" \in Faults
    /\ phase = "running" /\ saving = {} /\ cstep = "idle" /\ rstep = "idle" /\ UploadersIdle
    /\ phase' = "down"
    /\ UNCHANGED <<diskVars, captureRows, revisionRows, remote, config, saving,
                   compactorVars, retentionVars, uploaderVars, historyVars>>

\* compact, upload and retire-destination take the storage lock and do not
\* reconcile first.
Command ==
    /\ "operator" \in Faults /\ phase = "down"
    /\ phase' = "cli" /\ config' \in Configs
    /\ UNCHANGED <<diskVars, captureRows, revisionRows, remote, saving,
                   compactorVars, retentionVars, uploaderVars, historyVars>>

CommandDone ==
    /\ phase = "cli" /\ cstep = "idle" /\ UploadersIdle
    /\ phase' = "down"
    /\ UNCHANGED <<diskVars, captureRows, revisionRows, remote, config, saving,
                   compactorVars, retentionVars, uploaderVars, historyVars>>

\* upload --destination d: every revision still on disk without an upload to d
\* gets an optional one.
EnsureDestinationBackfill(d) ==
    /\ phase = "cli" /\ cstep = "idle" /\ UploadersIdle /\ d \in config
    /\ upload' = [r \in Revision |->
                     IF compaction[r] = "local" /\ upload[r][d] = "none"
                       THEN [upload[r] EXCEPT ![d] = "pending"] ELSE upload[r]]
    /\ UNCHANGED <<diskVars, captureRows, compaction, listed, published, age, remote,
                   processVars, historyVars>>

\* upload without --destination: an upload to a destination that is not
\* configured waits for the configuration to name it again.
DestinationNotConfigured(r, d) ==
    /\ phase = "cli" /\ cstep = "idle" /\ d \notin config /\ r \in Pending(d)
    /\ SetUpload(r, d, "retry")
    /\ UNCHANGED <<diskVars, captureRows, compaction, listed, published, age, remote,
                   processVars, historyVars>>

RetireDestination(d) ==
    /\ phase = "cli" /\ cstep = "idle" /\ UploadersIdle
    /\ LET hit == {r \in Revisions : d \in RequiredOf(r) /\ upload[r][d] # "verified"}
           up == [r \in Revision |-> IF r \in hit THEN [upload[r] EXCEPT ![d] = "retired"]
                                                  ELSE upload[r]]
           now == {r \in hit : r \notin published /\ Settled(up, r)} IN
       /\ upload' = up
       /\ published' = published \cup now
       /\ age' = [r \in Revision |-> IF r \in now THEN 0 ELSE age[r]]
    /\ abandoned' = abandoned \cup {d}
    /\ UNCHANGED <<diskVars, captureRows, compaction, listed, remote, processVars, unreadable>>

\* The process dies; files and database keep what was synced and committed.
Crash ==
    /\ "crash" \in Faults /\ phase # "down"
    /\ phase' = "down"
    /\ config' = config
    /\ saving' = {} /\ CompactorIdle
    /\ rstep' = "idle" /\ rawTodo' = {} /\ revTodo' = {}
    /\ ustep' = [d \in Destination |-> "idle"] /\ urev' = [d \in Destination |-> 0]
    /\ queue' = [d \in Destination |-> {}]
    /\ UNCHANGED <<diskVars, captureRows, revisionRows, remote, historyVars>>

\* The state database is lost and the next process creates an empty one.
LoseDatabase ==
    /\ "dbloss" \in Faults /\ phase = "down"
    /\ row' = [c \in Capture |-> "none"]
    /\ ticked' = FALSE /\ summarized' = FALSE
    /\ compaction' = [r \in Revision |-> "none"]
    /\ listed' = [r \in Revision |-> {}]
    /\ published' = {}
    /\ age' = [r \in Revision |-> 0]
    /\ upload' = [r \in Revision |-> [d \in Destination |-> "none"]]
    /\ UNCHANGED <<diskVars, remote, processVars, historyVars>>

\* A payload rots on disk; an operator puts a good copy back.
Damage(c) ==
    /\ "damage" \in Faults /\ payload[c] = "intact"
    /\ payload' = [payload EXCEPT ![c] = "damaged"]
    /\ UNCHANGED <<dir, manifest, captureRows, revisionRows, remote, processVars, historyVars>>

Repair(c) ==
    /\ payload[c] = "damaged"
    /\ payload' = [payload EXCEPT ![c] = "intact"]
    /\ UNCHANGED <<dir, manifest, captureRows, revisionRows, remote, processVars, historyVars>>

Older(r) == IF r \in published /\ age[r] < MaxAge THEN age[r] + 1 ELSE age[r]

\* The retention durations are days: a step of age never passes while a fetch
\* waits for its state transaction.
TimePasses ==
    /\ saving = {}
    /\ \E r \in Revision : Older(r) # age[r]
    /\ age' = [r \in Revision |-> Older(r)]
    /\ UNCHANGED <<diskVars, captureRows, compaction, listed, published, upload, remote,
                   processVars, historyVars>>

-----------------------------------------------------------------------------
CaptureNext ==
    \/ RecordTick
    \/ \E c \in Capture : Commit(c) \/ SaveCapture(c) \/ SaveCaptureFails(c)

CompactNext ==
    CompactSelect \/ CompactRead \/ CommitRevision \/ SaveCompaction \/ SaveCompactionFails

UploadNext(d) ==
    \/ PendingUploads(d)
    \/ \E r \in Revision : PrepareRemoteDir(d, r)
    \/ MarkUploadAttempt(d)
    \/ CopyData(d) \/ CopyManifest(d) \/ UploadFails(d)
    \/ MarkUploadVerified(d) \/ MarkUploadFailed(d) \/ ProcessPendingFails(d)

RetentionNext ==
    \/ CleanupRaw \/ CleanupParquet \/ CleanupSummaries \/ SummarizeDay \/ CleanupFails
    \/ \E c \in Capture : RemoveCapture(c) \/ MarkCaptureRetained(c)
    \/ \E r \in Revision : RemoveArtifact(r) \/ MarkParquetRetained(r)

StartupNext ==
    \/ Start \/ RegisterDone \/ AdoptDone \/ Stop
    \/ \E c \in Capture : Register(c)
    \/ \E r \in Revision : AdoptCompaction(r) \/ AdoptCompactionFails(r)

OperatorNext ==
    \/ Command \/ CommandDone
    \/ \E d \in Destination : EnsureDestinationBackfill(d) \/ RetireDestination(d)
    \/ \E r \in Revision, d \in Destination : DestinationNotConfigured(r, d)

EnvironmentNext ==
    \/ Crash \/ LoseDatabase \/ TimePasses
    \/ \E c \in Capture : Damage(c) \/ Repair(c)

Next ==
    \/ CaptureNext \/ CompactNext \/ RetentionNext \/ StartupNext
    \/ OperatorNext \/ EnvironmentNext
    \/ \E d \in Destination : UploadNext(d)

Spec == Init /\ [][Next]_vars

\* Every loop of the service runs again (compactionLoop, uploadLoop and
\* retentionLoop tick for ever) and a step that has begun ends.  Compaction and
\* retention contend for archiveMu, a mutex that hands over to the one that has
\* waited, hence strong fairness; a remote that is retried for ever works now
\* and then, hence strong fairness for the steps rclone can fail.
Fairness ==
    /\ WF_vars(Start) /\ WF_vars(RegisterDone) /\ WF_vars(AdoptDone)
    /\ WF_vars(\E c \in Capture : Register(c))
    /\ WF_vars(\E r \in Revision : AdoptCompaction(r))
    /\ \A c \in Capture : WF_vars(SaveCapture(c))
    /\ SF_vars(CompactSelect)
    /\ WF_vars(CompactRead \/ CommitRevision \/ SaveCompaction)
    /\ SF_vars(CleanupRaw)
    /\ WF_vars(\E c \in Capture : RemoveCapture(c) \/ MarkCaptureRetained(c))
    /\ WF_vars(\E r \in Revision : RemoveArtifact(r) \/ MarkParquetRetained(r))
    /\ WF_vars(CleanupParquet) /\ WF_vars(CleanupSummaries) /\ WF_vars(SummarizeDay)
    /\ \A d \in Destination :
        /\ WF_vars(PendingUploads(d))
        /\ \A r \in Revision : WF_vars(PrepareRemoteDir(d, r))
        /\ SF_vars(MarkUploadAttempt(d)) /\ SF_vars(CopyData(d)) /\ SF_vars(CopyManifest(d))
        /\ SF_vars(MarkUploadVerified(d)) /\ WF_vars(MarkUploadFailed(d))
    /\ WF_vars(TimePasses)

LiveSpec == Spec /\ Fairness

-----------------------------------------------------------------------------
(* Safety *)

\* Every destination the revision requires holds it whole, or an operator has
\* given that destination up.
Delivered(r) ==
    \A d \in RequiredOf(r) : remote[d][r] = Files(r) \/ d \in abandoned

\* The archive's promise: retention (Retention.Cleanup) removes a payload only
\* when a delivered revision holds the capture, or lists it as excluded because
\* its payload could not be read when that revision was made.
RetainedIsArchived ==
    \A c \in Capture : payload[c] = "removed" =>
        \E r \in Revision : /\ c \in manifest[r].inputs
                           /\ c \in manifest[r].content \cup unreadable
                           /\ Delivered(r)

\* Retention removes the local copy of a revision only after its delivery.
ExpiredIsDelivered ==
    \A r \in Revision : dir[r] \in {"nodata", "empty"} => Delivered(r)

\* A reader of a remote never sees a manifest before the data file it names
\* (publish copies the data files first and the manifest last).
ManifestLast ==
    \A d \in Destination, r \in Revision :
        "manifest" \in remote[d][r] => remote[d][r] = Files(r)

\* What the uploads table calls verified is whole at the remote, through every
\* interleaving of uploads, retention, crashes and loss of the database.
VerifiedIsRemote ==
    \A d \in Destination, r \in Revision :
        upload[r][d] = "verified" => remote[d][r] = Files(r)

\* A published revision has no required upload left to do, and none is reopened
\* (MarkUploadFailed and MarkUploadAttempt overwrite the status blindly).
PublishedIsSettled ==
    \A r \in Revision : r \in published =>
        \A d \in RequiredOf(r) : upload[r][d] \in {"verified", "retired"}

\* A revision directory is immutable: no later compaction, not even one that
\* starts over from an empty database, writes to a number that has been used.
RevisionsImmutable ==
    [][\A r \in Revision : dir[r] # "none" => manifest'[r] = manifest[r] /\ dir'[r] # "none"]_vars

\* A new revision (Compact) holds every capture an older one holds, as long as
\* the payload is still there to be read.
RevisionsKeepContent ==
    [][\A r \in Revision : dir[r] = "none" /\ dir'[r] = "whole" =>
         \A x \in Revision : \A c \in manifest[x].content :
            payload[c] = "intact" => c \in manifest'[r].content \cup unreadable]_vars

\* SummarizeDay never deletes the row of a capture whose payload is still on
\* disk, even when that row appeared after the candidates were chosen.
SummaryForgetsNothing ==
    [][~summarized /\ summarized' => \A c \in Capture : row[c] # "none" => payload[c] = "removed"]_vars

\* EnsureDestinationBackfill: an upload to a destination that a revision did not
\* record must not gate the retention of that revision, so no step of such an
\* upload changes when the revision was published.
BackfillsDoNotGate ==
    [][\A r \in Revision, d \in Destination :
         r \in published /\ d \notin manifest[r].dests /\ upload'[r][d] = "verified"
           => r \in published' /\ age'[r] >= age[r]]_vars

\* Startup reconciliation can adopt every complete revision that has no rows, as
\* Compact promises where it leaves the files of a failed SaveCompaction.
OrphansAdoptable ==
    phase = "adopting" => \A r \in Orphans : Adoptable(r)

-----------------------------------------------------------------------------
(* Liveness, under LiveSpec *)

\* A payload that is durably stored gets into a revision that is published.
CapturesArePublished ==
    \A c \in Capture : payload[c] = "intact" ~>
        \E r \in Revision : r \in published /\ c \in manifest[r].content

\* The local copies of a day are removed in the end and its rows give way to a
\* summary: uploads and retention never block each other for good.
DayEnds == ticked ~> (summarized /\ \A r \in Revision : dir[r] \in {"none", "empty"})

-----------------------------------------------------------------------------
(* The inductive invariant behind the safety properties *)

\* The compactor and the retention pass exclude each other, work only while a
\* process holds the lock, and leave nothing behind when they are done; the
\* compactor's revision number is free until it renames its directory.
ProcessInv ==
    /\ cstep = "idle" \/ rstep = "idle"
    /\ cstep # "idle" => phase \in {"running", "cli"} /\ crev \in Revision
    /\ rstep # "idle" => phase = "running"
    /\ phase # "running" => saving = {}
    /\ phase \in {"down", "registering", "adopting"} => UploadersIdle
    /\ cstep \in {"selected", "read"} => dir[crev] = "none"
    /\ cstep = "renamed" => dir[crev] # "none" /\ ccaps = manifest[crev].inputs
    /\ rstep # "raw" => rawTodo = {}
    /\ rstep # "parquet" => revTodo = {}

\* Rows speak of directories that have existed, and only of what they hold.
RevisionInv ==
    \A r \in Revision :
        /\ dir[r] = "none" => manifest[r] = NoManifest /\ compaction[r] = "none"
        /\ compaction[r] = "none" =>
             /\ listed[r] = {} /\ r \notin published
             /\ \A d \in Destination : upload[r][d] = "none"
        /\ listed[r] \subseteq manifest[r].inputs

\* An upload worker holds uploads that are still open, of revisions that have
\* rows; it has sent what its step says.
UploaderInv ==
    \A d \in Destination :
        /\ queue[d] \subseteq Revisions
        /\ ustep[d] # "idle" => urev[d] \in Revisions /\ urev[d] \notin queue[d]
        /\ \A r \in Revision :
             r \in queue[d] \/ (ustep[d] # "idle" /\ urev[d] = r)
               => upload[r][d] \notin {"verified", "retired"}
        /\ ustep[d] \in {"data", "sent"} => Files(urev[d]) \ {"manifest"} \subseteq remote[d][urev[d]]
        /\ ustep[d] = "sent" => "manifest" \in remote[d][urev[d]]

\* Remotes hold only files of revisions that exist, data before manifest.
RemoteInv ==
    \A d \in Destination, r \in Revision :
        /\ remote[d][r] \subseteq Files(r)
        /\ remote[d][r] # {} => dir[r] # "none"
        /\ upload[r][d] = "retired" => d \in abandoned

\* A capture with a row or in a fetcher's hands has, or had, its payload; one that
\* is marked retained has it no more.
CaptureInv ==
    /\ \A c \in Capture : payload[c] = "none" => row[c] = "none" /\ c \notin saving /\ c \notin ccaps
    /\ \A c \in Capture : row[c] = "retained" => payload[c] = "removed"
    /\ \A r \in Revision : \A c \in manifest[r].inputs :
         c \in manifest[r].content \cup unreadable \/ payload[c] = "removed"
    /\ cstep = "read" => \A c \in ccaps : c \in cread \cup unreadable \/ payload[c] = "removed"

\* What the retention pass is about to remove has been published.
RetentionInv ==
    /\ \A c \in rawTodo : \E r \in Revisions : r \in published /\ c \in listed[r]
    /\ \A r \in revTodo : r \in Revisions /\ r \in published

IInv ==
    /\ TypeOK
    /\ ProcessInv /\ RevisionInv /\ UploaderInv /\ RemoteInv /\ CaptureInv /\ RetentionInv
    /\ ManifestLast /\ VerifiedIsRemote /\ PublishedIsSettled
    /\ ExpiredIsDelivered /\ RetainedIsArchived

\* Revision numbers are given out in order and a newer directory holds what an older
\* one holds, so the newest speaks for all.  A revision has its rows only with those of
\* its captures, even when it was adopted, and Compact starts from the rows of the
\* newest directory: hence RevisionsKeepContent.
ContentInv ==
    /\ \A r, x \in Revision : x < r /\ dir[r] # "none" =>
         /\ dir[x] # "none"
         /\ \A c \in manifest[x].content :
              c \in manifest[r].content \cup unreadable \/ payload[c] = "removed"
    /\ \A r \in Revision : manifest[r].content \subseteq manifest[r].inputs
    /\ \A r \in Revisions : \A c \in manifest[r].content :
         row[c] # "none" \/ payload[c] = "removed"
    /\ cstep # "idle" => \A c \in ccaps : row[c] # "none"
    /\ cstep \in {"read", "renamed"} => cread \subseteq ccaps
    /\ cstep \in {"selected", "read"} =>
         /\ \A x \in Revision : x < crev => dir[x] # "none"
         /\ \A r \in Revision : \A c \in manifest[r].content :
              c \in ccaps \cup unreadable \/ payload[c] = "removed"
=============================================================================
