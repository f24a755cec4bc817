---------------------------- MODULE Publication ----------------------------
(***************************************************************************)
(* Publishing the revisions of several streams to one destination.         *)
(* Archive follows the revisions of one stream-day; here the streams meet: *)
(* every revision has a remote directory derived from its manifest, the    *)
(* uploads rows wait for their next_attempt_at under an exponential        *)
(* backoff, and an error is classified as worth a retry or as final.  The  *)
(* remote is reached through rclone, which can fail before or after it has *)
(* written a file.  The local files may be damaged at any time: the data   *)
(* file has its hash in the manifest and in the database, the manifest has *)
(* none, so what a damage does to it decides who notices.  Times count in  *)
(* steps of five minutes.                                                  *)
(***************************************************************************)
EXTENDS Integers, FiniteSets

CONSTANTS
    Item,         \* compactions.id of the revisions
    Dataset,      \* [Item -> [stream, date, revision, legacy]], from their manifests
    Kind,         \* [streams -> expected_kind]
    URL,          \* [streams -> [site, query]]
    Configs,      \* configurations: [destination : BOOLEAN, streams : SUBSET streams]
    Damageable,   \* what the disk may do to the local files: revisions with a Damage
    MaxDoublings, \* 6 in backoff: the exponent stops growing there
    MaxRestarts, MaxOutages  \* bounds on the faults

File == {"data", "manifest"}
\* What the disk may do to a manifest, in the order in which it is noticed: it
\* does not parse; it has no directory; it contradicts the database, the data
\* file or itself; its directory is another; none of that, as with the payload
\* hash of a capture or a header.
ManifestDamage == {"unparsable", "unmappable", "inconsistent", "misdirected", "altered"}
Damage == {"data"} \cup ManifestDamage
Stream == {Dataset[i].stream : i \in Item}
FeedType == [k \in {"vehicle_position", "trip_update", "alert", "mixed", "auto"} |->
    CASE k = "vehicle_position" -> "vehicle_positions"
      [] k = "trip_update" -> "trip_updates"
      [] k = "alert" -> "service_alerts"
      [] OTHER -> "mixed"]

ASSUME PublicationAssumption ==
    /\ Item \subseteq Nat \ {0} /\ IsFiniteSet(Item)
    /\ Dataset \in [Item -> [stream : Stream, date : Nat, revision : Nat \ {0}, legacy : BOOLEAN]]
    /\ Kind \in [Stream -> DOMAIN FeedType]
    /\ DOMAIN URL = Stream
    /\ Configs \subseteq [destination : BOOLEAN, streams : SUBSET Stream]
    /\ Damageable \subseteq Item \X Damage
    /\ MaxDoublings \in Nat /\ MaxRestarts \in Nat /\ MaxOutages \in Nat

VARIABLES
    status, category, attempts, wait,  \* uploads rows: wait is the time to next_attempt_at
    remoteDir,   \* their remote_path, once there is one
    damaged,     \* what has happened to the local files
    data,        \* the data files of a remote directory, named by their revision's hash
    manifest,    \* the manifest.json of a remote directory
    outage,      \* what every call of rclone fails with
    config,      \* the running configuration
    queue, item, step,   \* ProcessPending: its snapshot and the revision in hand
    expected,            \* publish: the manifest it has read, whose hash it will compare
    restarts, outages    \* the faults so far

rows == <<status, category, attempts, wait, remoteDir>>
remote == <<data, manifest>>
worker == <<queue, item, step, expected>>
faults == <<restarts, outages>>
vars == <<rows, damaged, remote, outage, config, worker, faults>>

Repairable == {"authentication", "permission", "timeout", "network"}
None == "none"
Idle == "idle"
Nothing == 0        \* no revision
NoDirectory == <<>>
Intact == "intact"

\* The sanitized URL has neither userinfo nor fragment nor query.
SanitizedURL(u) == u.site

\* A manifest of an older version carries no URL: the configured one stands in.
Mapped(i) == Dataset[i].legacy => Dataset[i].stream \in config.streams

HiveDir(i) ==
    LET d == Dataset[i]
    IN <<FeedType[Kind[d.stream]], d.date, SanitizedURL(URL[d.stream]), d.revision>>
Directory == {HiveDir(i) : i \in Item}

\* A file is of a revision, as the compactor wrote it or damaged in some way.
Content(i, form) == [of |-> i, form |-> form]
Compacted(i) == Content(i, Intact)
NoFile == Content(Nothing, None)
Contents == {NoFile} \cup {Content(i, f) : i \in Item, f \in Damage \cup {Intact}}

OpenUnlessStarted == {"pending", "retry"}  \* mutant
Open == {"pending", "retry", "uploading"}
Steps == {"prepare", "verify", "read", "data", "manifest", "verified"}

TypeOK ==
    /\ status \in [Item -> Open \cup {"verified", "permanent_failure"}]
    /\ category \in [Item -> Repairable \cup {None, "destination_not_configured",
                        "stream_not_configured", "dataset_invalid", "local_integrity", "remote_integrity"}]
    /\ attempts \in [Item -> 0..(MaxDoublings + 1)]
    /\ wait \in [Item -> 0..2^MaxDoublings]
    /\ remoteDir \in [Item -> Directory \cup {NoDirectory}]
    /\ damaged \subseteq Damageable
    /\ data \in [Directory -> [Item -> Contents]]
    /\ manifest \in [Directory -> Contents]
    /\ outage \in Repairable \cup {None}
    /\ config \in Configs
    /\ queue \subseteq Item /\ item \in Item \cup {Nothing}
    /\ step \in Steps \cup {Idle} /\ (step = Idle <=> item = Nothing)
    /\ expected \in Contents
    /\ restarts \in 0..MaxRestarts /\ outages \in 0..MaxOutages

\* Every revision is in the database with its row (SaveCompaction).
Init ==
    /\ status = [i \in Item |-> "pending"] /\ category = [i \in Item |-> None]
    /\ attempts = [i \in Item |-> 0] /\ wait = [i \in Item |-> 0]
    /\ remoteDir = [i \in Item |-> NoDirectory]
    /\ damaged = {}
    /\ data = [k \in Directory |-> [i \in Item |-> NoFile]]
    /\ manifest = [k \in Directory |-> NoFile]
    /\ outage = None
    /\ config \in Configs
    /\ queue = {} /\ item = Nothing /\ step = Idle /\ expected = NoFile
    /\ restarts = 0 /\ outages = 0

Goes(i, s) == item' = i /\ step' = s /\ UNCHANGED expected
LetGo == item' = Nothing /\ step' = Idle /\ expected' = NoFile

-----------------------------------------------------------------------------
(* Errors.                                                                 *)

AtMost(a, b) == IF a < b THEN a ELSE b
Backoff(a) == 0..2^AtMost(a, MaxDoublings)   \* attempt a + 1, in units of five minutes

PermanentUnlessRclone(c) == c \notin Repairable  \* mutant
IsPermanent(c) == c \in {"local_integrity", "remote_integrity", "dataset_invalid"}

\* A permanent failure is put off by a hundred years.  The delay follows from
\* a, the attempts when the queue was read.
MarkUploadFailed(i, c, a) ==
    /\ category' = [category EXCEPT ![i] = c]
    /\ status' = [status EXCEPT ![i] = IF IsPermanent(c) THEN "permanent_failure" ELSE "retry"]
    /\ IF IsPermanent(c)
       THEN wait' = wait
       ELSE \E delay \in Backoff(a) : wait' = [wait EXCEPT ![i] = delay]
    /\ UNCHANGED <<attempts, remoteDir>>

-----------------------------------------------------------------------------
(* ProcessPending.                                                         *)

PendingUploads ==
    /\ item = Nothing /\ queue = {}
    /\ queue' = {i \in Item : status[i] \in Open /\ wait[i] = 0}
    /\ queue' # {}
    /\ UNCHANGED <<rows, damaged, remote, outage, config, item, step, expected, faults>>

NextItem(i) ==
    /\ item = Nothing /\ i \in queue
    /\ queue' = queue \ {i}
    /\ IF config.destination
       THEN Goes(i, "prepare") /\ UNCHANGED rows
       ELSE MarkUploadFailed(i, "destination_not_configured", attempts[i]) 
            /\ UNCHANGED <<item, step, expected>>
    /\ UNCHANGED <<damaged, remote, outage, config, faults>>

Whole(i) == \A d \in Damage : <<i, d>> \notin damaged
Form(i) ==
    IF \E d \in ManifestDamage : <<i, d>> \in damaged
    THEN CHOOSE d \in ManifestDamage : <<i, d>> \in damaged
    ELSE Intact

\* Before and after MarkUploadAttempt has counted the attempt in hand.
Reject(c) == MarkUploadFailed(item, c, attempts[item]) /\ LetGo
Fail(c) == MarkUploadFailed(item, c, attempts[item] - 1) /\ LetGo

\* The directory follows from the manifest as it is read; with another
\* expected_kind or URL it is any directory of this date and revision.
Derived(i) ==
    IF Form(i) = "misdirected"
    THEN {k \in Directory : k[2] = HiveDir(i)[2] /\ k[4] = HiveDir(i)[4]}
    ELSE {HiveDir(i)}

MarkUploadAttempt(k) ==
    /\ status' = [status EXCEPT ![item] = "uploading"]
    /\ category' = [category EXCEPT ![item] = None]
    /\ attempts' = [attempts EXCEPT ![item] = AtMost(@ + 1, MaxDoublings + 1)]
    /\ wait' = [wait EXCEPT ![item] = 0]
    /\ remoteDir' = [remoteDir EXCEPT ![item] = k]

\* prepareRemoteDir reads the manifest and derives the directory from it, then
\* MarkUploadAttempt counts the attempt.
Prepare ==
    /\ step = "prepare"
    /\ \/ Form(item) = "unparsable" /\ Reject("local_integrity")
       \/ Form(item) = "unmappable" /\ Reject("dataset_invalid")
       \/ /\ Form(item) \notin {"unparsable", "unmappable"}
          /\ ~Mapped(item) /\ Reject("stream_not_configured")
       \/ /\ Form(item) \notin {"unparsable", "unmappable"} /\ Mapped(item)
          /\ \E k \in Derived(item) : MarkUploadAttempt(k)
          /\ Goes(item, "verify")
    /\ UNCHANGED <<damaged, remote, outage, config, queue, faults>>

\* What compact.VerifyDirectory certainly refuses, and what it may let pass: it
\* looks at expected_kind only to count rows, and never at the URL.
Contradicts(i) == <<i, "data">> \in damaged \/ Form(i) \in {"unparsable", "inconsistent"}
Unusual(i) == Form(i) \in {"unmappable", "misdirected"}

VerifyDirectory ==
    /\ step = "verify"
    /\ \/ (Contradicts(item) \/ Unusual(item)) /\ Fail("local_integrity")
       \/ ~Contradicts(item) /\ Goes(item, "read") /\ UNCHANGED rows
    /\ UNCHANGED <<damaged, remote, outage, config, queue, faults>>

\* publish reads the manifest once more.  There is no record of its hash: what
\* is read now is what the remote will be compared with.
ReadManifest ==
    /\ step = "read"
    /\ item' = item /\ step' = "data" /\ expected' = Content(item, Form(item))
    /\ UNCHANGED <<rows, damaged, remote, outage, config, queue, faults>>

\* copyto --immutable --checksum: a file is sent only where there is none.
Overwritten(found, sent) == sent  \* mutant
Immutably(found, sent) == IF found = NoFile THEN sent ELSE found

Local(i, file) ==
    IF file = "manifest" THEN Content(i, Form(i))
    ELSE Content(i, IF <<i, "data">> \in damaged THEN "data" ELSE Intact)

Copy(file) ==
    LET k == remoteDir[item] IN
    IF file = "data"
    THEN data' = [data EXCEPT ![k][item] = Immutably(@, Local(item, file))] /\ UNCHANGED manifest
    ELSE manifest' = [manifest EXCEPT ![k] = Immutably(@, Local(item, file))] /\ UNCHANGED data

Found(file) ==
    IF file = "data" THEN data'[remoteDir[item]][item] ELSE manifest'[remoteDir[item]]
\* The hash of the data file is the one its manifest names.
Expected(file) == IF file = "data" THEN Compacted(item) ELSE expected

NextStep(file) == IF file = "data" THEN "manifest" ELSE "verified"

\* rclone refuses to change a file that differs, and the hash of what is there
\* afterwards must be the expected one.
Matches(file) == Found(file) = Local(item, file) /\ Found(file) = Expected(file)

CopyAndVerify(file) ==
    /\ step = file /\ outage = None
    /\ Copy(file)
    /\ \/ Matches(file) /\ Goes(item, NextStep(file)) /\ UNCHANGED rows
       \/ ~Matches(file) /\ Fail("remote_integrity")
    /\ UNCHANGED <<damaged, outage, config, queue, faults>>

\* rclone fails, is killed after process_timeout or by a shutdown, perhaps when
\* it has written the file already.
CopyFails(file) ==
    /\ step = file /\ outage # None
    /\ Copy(file) \/ UNCHANGED remote
    /\ Fail(outage)
    /\ UNCHANGED <<damaged, outage, config, queue, faults>>

MarkUploadVerified ==
    /\ step = "verified"
    /\ status' = [status EXCEPT ![item] = "verified"]
    /\ category' = [category EXCEPT ![item] = None]
    /\ LetGo
    /\ UNCHANGED <<attempts, wait, remoteDir, damaged, remote, outage, config, queue, faults>>

-----------------------------------------------------------------------------
(* Time and faults.                                                        *)

TimePasses ==
    /\ \E i \in Item : wait[i] > 0
    /\ wait' = [i \in Item |-> IF wait[i] > 0 THEN wait[i] - 1 ELSE 0]
    /\ UNCHANGED <<status, category, attempts, remoteDir, damaged, remote, outage, config, worker, faults>>

OutageBegins(c) ==
    /\ outage = None /\ outages < MaxOutages
    /\ outage' = c /\ outages' = outages + 1
    /\ UNCHANGED <<rows, damaged, remote, config, worker, restarts>>

OutageEnds ==
    /\ outage # None /\ outage' = None
    /\ UNCHANGED <<rows, damaged, remote, config, worker, faults>>

\* A manifest is damaged at most once.
DiskDamage(i, d) ==
    /\ <<i, d>> \in Damageable \ damaged
    /\ d \in ManifestDamage => Form(i) = Intact
    /\ damaged' = damaged \cup {<<i, d>>}
    /\ UNCHANGED <<rows, remote, outage, config, worker, faults>>

\* The process ends in whatever step it is, and starts with another
\* configuration.  A shutdown cancels the state transactions of the worker but
\* for MarkUploadFailed, which is the same end or a CopyFails before it.
Restart ==
    /\ restarts < MaxRestarts /\ restarts' = restarts + 1
    /\ config' \in Configs
    /\ queue' = {} /\ LetGo
    /\ UNCHANGED <<rows, damaged, remote, outage, outages>>

\* The operator starts the service with everything configured again.
Repair ==
    /\ config # [destination |-> TRUE, streams |-> Stream]
    /\ config' = [destination |-> TRUE, streams |-> Stream]
    /\ queue' = {} /\ LetGo
    /\ UNCHANGED <<rows, damaged, remote, outage, faults>>

ProcessPending ==
    \/ PendingUploads
    \/ \E i \in Item : NextItem(i)
    \/ Prepare \/ VerifyDirectory \/ ReadManifest
    \/ \E file \in File : CopyAndVerify(file) \/ CopyFails(file)
    \/ MarkUploadVerified

Next ==
    \/ ProcessPending
    \/ TimePasses
    \/ \E c \in Repairable : OutageBegins(c)
    \/ OutageEnds
    \/ \E i \in Item, d \in Damage : DiskDamage(i, d)
    \/ Restart \/ Repair

Spec == Init /\ [][Next]_vars

\* One uploadLoop works for the destination; operators repair the remote and
\* the configuration in the end.
Fairness ==
    WF_vars(ProcessPending) /\ WF_vars(TimePasses) /\ WF_vars(OutageEnds) /\ WF_vars(Repair)

LiveSpec == Spec /\ Fairness
-----------------------------------------------------------------------------
\* A verified row stands for a remote directory with this very revision's data
\* and manifest, whichever streams share the directory and whatever happens to
\* the local files.  It is the directory the layout demands, and the manifest is
\* the one the compactor wrote, but for a damage of the local manifest, which
\* nothing but its content can give away (publish, copyAndVerify, hiveDir).
Explained(i, form) == form = Intact \/ <<i, form>> \in damaged
VerifiedIsOwn ==
    \A i \in Item : status[i] = "verified" =>
        LET k == remoteDir[i] IN
        /\ data[k][i] = Compacted(i)
        /\ manifest[k].of = i /\ Explained(i, manifest[k].form)
        /\ k = HiveDir(i) \/ <<i, "misdirected">> \in damaged

\* A manifest in the remote is never without the data of its revision, also when
\* the upload that wrote it was cut off or classified as failed (publish).
ManifestHasData ==
    \A k \in Directory : manifest[k] # NoFile =>
        LET i == manifest[k].of IN data[k][i] = Compacted(i)

\* A verified row stands for the manifest the compactor wrote.  Not so: a damage
\* that leaves the manifest readable is published and verified (publish).
VerifiedIsCompacted ==
    \A i \in Item : status[i] = "verified" => manifest[remoteDir[i]] = Compacted(i)

\* A row fails for good only because of files that are wrong: outages,
\* timeouts, restarts and configurations never do it (errorCategory,
\* isPermanent).
Conflict(i) == manifest[HiveDir(i)].of \notin {i, Nothing}
PermanentHasCause ==
    \A i \in Item : status[i] = "permanent_failure" => ~Whole(i) \/ Conflict(i)

\* Every revision whose files stay intact is published in the end, however often
\* its uploads failed before (PendingUploads, backoff, isPermanent).
EveryRevisionIsVerified ==
    \A i \in Item : <>(status[i] = "verified" \/ ~Whole(i))

\* So it is unless its directory belongs to another revision (PendingUploads,
\* backoff, isPermanent).
EveryOwnRevisionIsVerified ==
    \A i \in Item : <>(status[i] = "verified" \/ ~Whole(i) \/ Conflict(i))
=============================================================================
