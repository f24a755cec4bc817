--------------------------- MODULE ArchiveProofs ---------------------------
(***************************************************************************)
(* Proofs about Archive, for every value of its constants: the inductive   *)
(* invariant IInv, the safety invariants it contains, and two action       *)
(* properties that follow from it.                                         *)
(***************************************************************************)
EXTENDS Archive, FiniteSetTheorems, TLAPS

\* MaxAge is one of the three retention durations.
LEMMA MaxAgeNat == MaxAge \in Nat
  <1>1. \E m \in {RawAge, ParquetAge, MetadataAge} :
          m >= RawAge /\ m >= ParquetAge /\ m >= MetadataAge
    BY ArchiveAssumption
  <1>2. MaxAge \in {RawAge, ParquetAge, MetadataAge}
    BY <1>1 DEF MaxAge
  <1> QED
    BY <1>2, ArchiveAssumption

USE DEF diskVars, captureRows, revisionRows, compactorVars, retentionVars, uploaderVars,
        processVars, historyVars

\* The rows of a revision have the types of their columns.
LEMMA InsertType ==
  ASSUME TypeOK, NEW r \in Revision, NEW inputs \in SUBSET Capture, NEW a \in 0..MaxAge,
         InsertCompaction(r, inputs, a)
  PROVE  /\ compaction' \in [Revision -> {"none", "local", "expired"}]
         /\ listed' \in [Revision -> SUBSET Capture]
         /\ published' \in SUBSET Revision
         /\ age' \in [Revision -> 0..MaxAge]
         /\ upload' \in [Revision -> [Destination -> UploadStatus]]
  <1>1. PublishedLocally(r) \in BOOLEAN
    BY Zenon DEF PublishedLocally
  <1>2. published' \in SUBSET Revision
    BY DEF TypeOK, InsertCompaction
  <1>3. age' \in [Revision -> 0..MaxAge]
    <2>1. 0 \in 0..MaxAge
      BY MaxAgeNat
    <2>2. PICK x \in 0..MaxAge : age' = [age EXCEPT ![r] = x]
      BY <1>1, <2>1, Zenon DEF InsertCompaction
    <2> QED
      BY <2>2 DEF TypeOK
  <1>4. [d \in Destination |-> IF d \in manifest[r].dests THEN "pending" ELSE "none"]
          \in [Destination -> UploadStatus]
    BY DEF UploadStatus
  <1>5. upload' \in [Revision -> [Destination -> UploadStatus]]
    BY <1>4 DEF TypeOK, InsertCompaction
  <1> QED
    BY <1>2, <1>3, <1>5 DEF TypeOK, InsertCompaction

\* A worker that is busy holds a revision that has rows, and the revision's upload
\* is still open.
LEMMA UploaderBusy ==
  ASSUME IInv, NEW d \in Destination, ustep[d] # "idle"
  PROVE  /\ urev[d] \in Revision /\ compaction[urev[d]] # "none"
         /\ upload[urev[d]][d] \notin {"verified", "retired"}
  BY DEF IInv, UploaderInv, Revisions

\* Setting one status, or sending one file, changes one entry of its table.
LEMMA SetUploadType ==
  ASSUME TypeOK, NEW r \in Revision, NEW d \in Destination, NEW s \in UploadStatus, SetUpload(r, d,
        s)
  PROVE  upload' \in [Revision -> [Destination -> UploadStatus]]
  BY DEF TypeOK, SetUpload

\* Sending a file leaves the remotes sets of files.
LEMMA SendType ==
  ASSUME TypeOK, NEW d \in Destination, urev[d] \in Revision, NEW f \in {"data", "manifest"},
        Send(d, f)
  PROVE  remote' \in [Destination -> [Revision -> SUBSET {"data", "manifest"}]]
  BY DEF TypeOK, Send

\* Only configured destinations are required; what a revision requires and what
\* files it has are told by its manifest alone.
LEMMA RequiredDestination == \A r \in Revision : RequiredOf(r) \subseteq Destination
  BY ArchiveAssumption DEF RequiredOf

\* Files and RequiredOf are read from the manifest alone.
LEMMA ManifestFrame ==
  ASSUME UNCHANGED manifest
  PROVE  \A r \in Revision : Files(r)' = Files(r) /\ RequiredOf(r)' = RequiredOf(r)
  BY DEF Files, RequiredOf

\* What one entry of a table becomes, and that the others stay.
LEMMA SetUploadEffect ==
  ASSUME TypeOK, NEW r \in Revision, NEW d \in Destination, NEW s, SetUpload(r, d, s)
  PROVE  \A x \in Revision, e \in Destination :
           upload'[x][e] = IF x = r /\ e = d THEN s ELSE upload[x][e]
  BY DEF TypeOK, SetUpload

\* A copy adds one file at one remote.
LEMMA SendEffect ==
  ASSUME TypeOK, NEW d \in Destination, urev[d] \in Revision, NEW f, Send(d, f)
  PROVE  \A e \in Destination, x \in Revision :
           remote'[e][x] = IF e = d /\ x = urev[d] THEN remote[e][x] \cup {f} ELSE remote[e][x]
  BY DEF TypeOK, Send

\* Inserting the rows of a revision leaves the other revisions' rows alone.
LEMMA InsertEffect ==
  ASSUME TypeOK, NEW r \in Revision, NEW inputs, NEW a, InsertCompaction(r, inputs, a)
  PROVE  /\ \A x \in Revision \ {r} :
              /\ compaction'[x] = compaction[x] /\ listed'[x] = listed[x]
              /\ upload'[x] = upload[x] /\ (x \in published' <=> x \in published)
         /\ compaction'[r] = "local" /\ listed'[r] = inputs
         /\ \A d \in Destination :
              upload'[r][d] = IF d \in manifest[r].dests THEN "pending" ELSE "none"
         /\ r \in published' => RequiredOf(r) = {}
  <1>1. PICK p \in BOOLEAN : p = PublishedLocally(r)
    BY Zenon DEF PublishedLocally
  <1>2. published' = IF p THEN published \cup {r} ELSE published \ {r}
    BY <1>1, Zenon DEF InsertCompaction
  <1>3. p => RequiredOf(r) = {}
    BY <1>1, Zenon DEF PublishedLocally
  <1> QED
    BY <1>2, <1>3 DEF TypeOK, InsertCompaction

\* The revision that is renamed into place is new to every table, and only its
\* directory and its manifest change.
LEMMA CommitEffect ==
  ASSUME IInv, CommitRevision
  PROVE  /\ crev \in Revision
         /\ dir[crev] = "none" /\ manifest[crev] = NoManifest /\ compaction[crev] = "none"
         /\ listed[crev] = {} /\ crev \notin published
         /\ \A d \in Destination :
              /\ upload[crev][d] = "none" /\ remote[d][crev] = {}
              /\ crev \notin queue[d] /\ (ustep[d] # "idle" => urev[d] # crev)
         /\ dir'[crev] = "whole"
         /\ manifest'[crev] = [inputs |-> ccaps, content |-> cread, dests |-> config]
         /\ \A x \in Revision \ {crev} : dir'[x] = dir[x] /\ manifest'[x] = manifest[x]
  <1>1. crev \in Revision /\ dir[crev] = "none"
    BY DEF IInv, ProcessInv, CommitRevision
  <1>2. manifest[crev] = NoManifest /\ compaction[crev] = "none"
    BY <1>1 DEF IInv, RevisionInv
  <1>3. listed[crev] = {} /\ crev \notin published
    BY <1>1, <1>2 DEF IInv, RevisionInv
  <1>4. ASSUME NEW d \in Destination
        PROVE  /\ upload[crev][d] = "none" /\ remote[d][crev] = {}
               /\ crev \notin queue[d] /\ (ustep[d] # "idle" => urev[d] # crev)
    <2>1. upload[crev][d] = "none"
      BY <1>1, <1>2 DEF IInv, RevisionInv
    <2>2. remote[d][crev] = {}
      BY <1>1 DEF IInv, RemoteInv
    <2> QED
      BY <1>2, <2>1, <2>2 DEF IInv, UploaderInv, Revisions
  <1>5. /\ dir'[crev] = "whole"
        /\ manifest'[crev] = [inputs |-> ccaps, content |-> cread, dests |-> config]
        /\ \A x \in Revision \ {crev} : dir'[x] = dir[x] /\ manifest'[x] = manifest[x]
    BY <1>1 DEF IInv, TypeOK, CommitRevision
  <1> QED
    BY <1>1, <1>2, <1>3, <1>4, <1>5

\* SaveCompaction inserts the rows of the directory that has just been renamed.
LEMMA SaveEffect ==
  ASSUME IInv, SaveCompaction
  PROVE  /\ crev \in Revision /\ dir[crev] # "none" /\ ccaps = manifest[crev].inputs
         /\ InsertCompaction(crev, ccaps, 0)
         /\ rstep = "idle" /\ rawTodo = {} /\ revTodo = {}
  BY DEF IInv, ProcessInv, SaveCompaction

\* AdoptCompaction inserts the rows of a directory that has none.
LEMMA AdoptEffect ==
  ASSUME IInv, NEW r \in Revision, AdoptCompaction(r)
  PROVE  /\ dir[r] = "whole" /\ compaction[r] = "none"
         /\ \E a \in 0..MaxAge : InsertCompaction(r, manifest[r].inputs \cap Rows, a)
         /\ rawTodo = {} /\ revTodo = {}
         /\ \A d \in Destination : ustep[d] = "idle" /\ queue[d] = {}
  BY DEF IInv, ProcessInv, AdoptCompaction, Orphans, DirectoryVerifies,
        UploadersIdle

\* Retiring a destination settles its open required uploads and publishes the
\* revisions that waited for nothing else.
LEMMA RetireEffect ==
  ASSUME IInv, NEW d \in Destination, RetireDestination(d)
  PROVE  /\ \A x \in Revision, e \in Destination :
              upload'[x][e] # upload[x][e] =>
                e = d /\ compaction[x] # "none" /\ upload'[x][e] = "retired" /\ upload[x][e] # "verified"
         /\ published \subseteq published'
         /\ \A x \in published' \ published :
              x \in Revisions /\ \A e \in RequiredOf(x) : upload'[x][e] \in {"verified", "retired"}
         /\ abandoned' = abandoned \cup {d}
         /\ \A e \in Destination : ustep[e] = "idle" /\ queue[e] = {}
  <1> DEFINE hit == {r \in Revisions : d \in RequiredOf(r) /\ upload[r][d] # "verified"}
             up == [r \in Revision |-> IF r \in hit THEN [upload[r] EXCEPT ![d] = "retired"]
                                                    ELSE upload[r]]
             now == {r \in hit : r \notin published /\ Settled(up, r)}
  <1>1. upload' = up /\ published' = published \cup now /\ abandoned' = abandoned \cup {d}
    BY Zenon DEF RetireDestination
  <1>2. ASSUME NEW x \in Revision, NEW e \in Destination, upload'[x][e] # upload[x][e]
        PROVE  e = d /\ compaction[x] # "none" /\ upload'[x][e] = "retired" /\ upload[x][e] # "verified"
    BY <1>1, <1>2 DEF IInv, TypeOK, Revisions
  <1>3. ASSUME NEW x \in published' \ published
        PROVE  x \in Revisions /\ \A e \in RequiredOf(x) : upload'[x][e] \in {"verified", "retired"}
    BY <1>1, <1>3, Zenon DEF Settled
  <1>4. \A e \in Destination : ustep[e] = "idle" /\ queue[e] = {}
    BY DEF RetireDestination, UploadersIdle
  <1> QED
    BY <1>1, <1>2, <1>3, <1>4

\* A copy adds a file of the revision, and the manifest only to a remote that has
\* the rest.
LEMMA CopyEffect ==
  ASSUME IInv, NEW d \in Destination, CopyData(d) \/ CopyManifest(d)
  PROVE  /\ \A e \in Destination, x \in Revision :
              /\ remote'[e][x] \subseteq Files(x)
              /\ remote[e][x] = Files(x) => remote'[e][x] = Files(x)
              /\ "manifest" \in remote'[e][x] => remote'[e][x] = Files(x)
              /\ remote'[e][x] # remote[e][x] => dir[x] # "none"
         /\ \A e \in Destination :
              /\ ustep'[e] # "idle" => ustep[e] # "idle" /\ urev'[e] = urev[e]
              /\ ustep'[e] \in {"data", "sent"} => Files(urev[e]) \ {"manifest"} \subseteq
                    remote'[e][urev[e]]
              /\ ustep'[e] = "sent" => "manifest" \in remote'[e][urev[e]]
  <1> DEFINE u == urev[d]
  <1>1. u \in Revision /\ ustep[d] # "idle"
    BY UploaderBusy DEF CopyData, CopyManifest
  <1>2. \A e \in Destination, x \in Revision :
          remote[e][x] \subseteq Files(x) /\ ("manifest" \in remote[e][x] => remote[e][x] = Files(x))
    BY DEF IInv, RemoteInv, ManifestLast
  <1>3. PICK f \in {{}, {"data"}, {"manifest"}}, s \in {"data", "sent", "permanent_failure"} :
          /\ \A e \in Destination, x \in Revision :
               remote'[e][x] = IF e = d /\ x = u THEN remote[e][x] \cup f ELSE remote[e][x]
          /\ UploaderGoes(d, s, u) /\ f \subseteq Files(u)
          /\ f # {} => dir[u] # "none"
          /\ s \in {"data", "sent"} => Files(u) \ {"manifest"} \subseteq remote[d][u] \cup f
          /\ s = "sent" <=> f = {"manifest"}
    <2>1. CASE CopyManifest(d)
      <3>1. PICK m : m = "manifest" /\ Send(d, m)
        BY <2>1 DEF CopyManifest
      <3>2. \A e \in Destination, x \in Revision :
              remote'[e][x] = IF e = d /\ x = u THEN remote[e][x] \cup {m} ELSE remote[e][x]
        BY <1>1, <3>1, SendEffect DEF IInv
      <3>3. /\ UploaderGoes(d, "sent", u) /\ dir[u] # "none"
            /\ Files(u) \ {m} \subseteq remote[d][u] /\ m \in Files(u)
        BY <2>1, <3>1 DEF IInv, UploaderInv, CopyManifest, ManifestPresent, Files
      <3> QED
        BY <3>1, <3>2, <3>3
    <2>2. CASE CopyData(d) /\ dir[u] = "whole" /\ "data" \in Files(u)
      <3>1. Send(d, "data") /\ UploaderGoes(d, "data", u)
        BY <2>2, Zenon DEF CopyData, DirectoryVerifies
      <3>2. \A e \in Destination, x \in Revision :
              remote'[e][x] = IF e = d /\ x = u THEN remote[e][x] \cup {"data"} ELSE remote[e][x]
        BY <1>1, <3>1, SendEffect DEF IInv
      <3>3. Files(u) \ {"manifest"} \subseteq {"data"}
        BY DEF Files
      <3> QED
        BY <2>2, <3>1, <3>2, <3>3
    <2>3. CASE CopyData(d) /\ dir[u] = "whole" /\ "data" \notin Files(u)
      <3>1. UNCHANGED remote /\ UploaderGoes(d, "data", u)
        BY <2>3, Zenon DEF CopyData, DirectoryVerifies
      <3>2. Files(u) \ {"manifest"} = {}
        BY <2>3 DEF Files
      <3> QED
        BY <3>1, <3>2
    <2>4. CASE CopyData(d) /\ dir[u] # "whole"
      <3>1. UNCHANGED remote /\ UploaderGoes(d, "permanent_failure", u)
        BY <2>4, Zenon DEF CopyData, DirectoryVerifies
      <3> QED
        BY <3>1
    <2> QED
      BY <2>1, <2>2, <2>3, <2>4
  <1> HIDE DEF u
  <1>4. ASSUME NEW e \in Destination, NEW x \in Revision
        PROVE  /\ remote'[e][x] \subseteq Files(x)
               /\ remote[e][x] = Files(x) => remote'[e][x] = Files(x)
               /\ "manifest" \in remote'[e][x] => remote'[e][x] = Files(x)
               /\ remote'[e][x] # remote[e][x] => dir[x] # "none"
    <2>1. CASE e = d /\ x = u
      <3>1. "manifest" \in f => s = "sent"
        BY <1>3
      <3>2. "manifest" \in f => Files(x) = remote[e][x] \cup f
        BY <1>2, <1>3, <2>1, <3>1
      <3>3. remote'[e][x] = remote[e][x] \cup f
        BY <1>3, <2>1
      <3>4. remote'[e][x] \subseteq Files(x)
        BY <1>2, <1>3, <2>1, <3>3
      <3>5. remote[e][x] = Files(x) => remote'[e][x] = Files(x)
        BY <1>3, <2>1, <3>3
      <3>6. "manifest" \in remote'[e][x] => remote'[e][x] = Files(x)
        BY <1>2, <3>2, <3>3, <3>5
      <3>7. remote'[e][x] # remote[e][x] => dir[x] # "none"
        BY <1>3, <2>1, <3>3
      <3> QED
        BY <3>4, <3>5, <3>6, <3>7
    <2>2. CASE ~(e = d /\ x = u)
      BY <1>2, <1>3, <2>2
    <2> QED
      BY <2>1, <2>2
  <1>5. /\ ustep' = [ustep EXCEPT ![d] = s] /\ urev' = urev
    BY <1>3 DEF IInv, TypeOK, UploaderGoes, u
  <1>6. ASSUME NEW e \in Destination
        PROVE  /\ ustep'[e] # "idle" => ustep[e] # "idle" /\ urev'[e] = urev[e]
               /\ ustep'[e] \in {"data", "sent"} => Files(urev[e]) \ {"manifest"} \subseteq
                     remote'[e][urev[e]]
               /\ ustep'[e] = "sent" => "manifest" \in remote'[e][urev[e]]
    <2>1. CASE e = d
      <3>1. ustep'[e] = s /\ urev[e] = u /\ remote'[e][u] = remote[d][u] \cup f
        BY <1>1, <1>3, <1>5, <2>1 DEF IInv, TypeOK, u
      <3> QED
        BY <1>1, <1>3, <1>5, <2>1, <3>1
    <2>2. CASE e # d
      <3>1. ustep'[e] = ustep[e] /\ \A x \in Revision : remote'[e][x] = remote[e][x]
        BY <1>3, <1>5, <2>2 DEF IInv, TypeOK
      <3>2. ustep[e] # "idle" => urev[e] \in Revision
        BY UploaderBusy
      <3> QED
        BY <1>5, <3>1, <3>2 DEF IInv, UploaderInv
    <2> QED
      BY <2>1, <2>2
  <1> QED
    BY <1>4, <1>6

\* What is published is delivered: its required uploads are verified, hence whole
\* at the remote, or retired, hence given up.
LEMMA PublishedIsDelivered ==
  ASSUME IInv, NEW r \in Revision, r \in published
  PROVE  Delivered(r)
  BY RequiredDestination DEF IInv, PublishedIsSettled, VerifiedIsRemote, RemoteInv, Delivered

-----------------------------------------------------------------------------
(* One lemma per part of the inductive invariant, one step per action that touches it *)

\* Every action respects the types; the upload workers' steps need UploaderInv, which
\* says that a busy worker has a revision.
LEMMA TypeStep == IInv /\ Next => TypeOK'
  <1> SUFFICES ASSUME IInv, Next PROVE TypeOK'
    OBVIOUS
  <1>1. CASE RecordTick
    BY <1>1 DEF IInv, TypeOK, RecordTick
  <1>2. ASSUME NEW c \in Capture, Commit(c) PROVE TypeOK'
    BY <1>2 DEF IInv, TypeOK, Commit
  <1>3. ASSUME NEW c \in Capture, SaveCapture(c) PROVE TypeOK'
    BY <1>3 DEF IInv, TypeOK, SaveCapture
  <1>4. ASSUME NEW c \in Capture, SaveCaptureFails(c) PROVE TypeOK'
    BY <1>4 DEF IInv, TypeOK, SaveCaptureFails
  <1>5. CASE CompactSelect
    BY <1>5 DEF IInv, TypeOK, CompactSelect, Rows
  <1>6. CASE CompactRead
    BY <1>6 DEF IInv, TypeOK, CompactRead
  <1>7. CASE CommitRevision
    BY <1>7 DEF IInv, TypeOK, CommitRevision
  <1>8. CASE SaveCompaction
    <2>1. ccaps \in SUBSET Capture /\ 0 \in 0..MaxAge /\ crev \in Revision
      BY <1>8, MaxAgeNat DEF IInv, TypeOK, ProcessInv, SaveCompaction
    <2> QED
      BY <1>8, <2>1, InsertType DEF IInv, TypeOK, SaveCompaction, CompactorIdle
  <1>9. CASE SaveCompactionFails
    BY <1>9 DEF IInv, TypeOK, SaveCompactionFails, CompactorIdle
  <1>10. ASSUME NEW d \in Destination, PendingUploads(d) PROVE TypeOK'
    BY <1>10 DEF IInv, TypeOK, PendingUploads, Pending, Revisions
  <1>11. ASSUME NEW d \in Destination, NEW r \in Revision, PrepareRemoteDir(d, r) PROVE TypeOK'
    BY <1>11 DEF IInv, TypeOK, PrepareRemoteDir, UploaderGoes
  <1>12. ASSUME NEW d \in Destination, MarkUploadAttempt(d) PROVE TypeOK'
    <2>1. urev[d] \in Revision
      BY <1>12, UploaderBusy DEF MarkUploadAttempt
    <2>2. upload' \in [Revision -> [Destination -> UploadStatus]]
      BY <1>12, <2>1, SetUploadType DEF IInv, MarkUploadAttempt, UploadStatus
    <2> QED
      BY <1>12, <2>1, <2>2 DEF IInv, TypeOK, MarkUploadAttempt, UploaderGoes
  <1>13. ASSUME NEW d \in Destination, CopyData(d) PROVE TypeOK'
    <2>1. urev[d] \in Revision
      BY <1>13, UploaderBusy DEF CopyData
    <2>2. remote' \in [Destination -> [Revision -> SUBSET {"data", "manifest"}]]
      BY <1>13, <2>1, SendType DEF IInv, TypeOK, CopyData
    <2>3. PICK s \in {"data", "permanent_failure"} : UploaderGoes(d, s, urev[d])
      BY <1>13, Zenon DEF CopyData
    <2>4. UNCHANGED <<diskVars, captureRows, revisionRows, phase, config, saving,
                    compactorVars, retentionVars, queue, historyVars>>
      BY <1>13, Zenon DEF CopyData
    <2> QED
      BY <2>1, <2>2, <2>3, <2>4 DEF IInv, TypeOK, UploaderGoes
  <1>14. ASSUME NEW d \in Destination, CopyManifest(d) PROVE TypeOK'
    <2>1. urev[d] \in Revision
      BY <1>14, UploaderBusy DEF CopyManifest
    <2>2. remote' \in [Destination -> [Revision -> SUBSET {"data", "manifest"}]]
      BY <1>14, <2>1, SendType DEF IInv, CopyManifest
    <2> QED
      BY <1>14, <2>1, <2>2 DEF IInv, TypeOK, CopyManifest, UploaderGoes
  <1>15. ASSUME NEW d \in Destination, UploadFails(d) PROVE TypeOK'
    <2>1. urev[d] \in Revision
      BY <1>15, UploaderBusy DEF UploadFails
    <2>2. PICK s \in {"retry", "permanent_failure"} : UploaderGoes(d, s, urev[d])
      BY <1>15, Zenon DEF UploadFails, Transient
    <2>3. UNCHANGED <<diskVars, captureRows, revisionRows, remote, phase, config, saving,
                    compactorVars, retentionVars, queue, historyVars>>
      BY <1>15, Zenon DEF UploadFails
    <2> QED
      BY <2>1, <2>2, <2>3 DEF IInv, TypeOK, UploaderGoes
  <1>16. ASSUME NEW d \in Destination, MarkUploadVerified(d) PROVE TypeOK'
    <2>1. urev[d] \in Revision
      BY <1>16, UploaderBusy DEF MarkUploadVerified
    <2>2. upload' \in [Revision -> [Destination -> UploadStatus]]
      BY <1>16, <2>1, SetUploadType DEF IInv, MarkUploadVerified, UploadStatus
    <2>3. PICK p \in BOOLEAN :
            /\ published' = IF p THEN published \cup {urev[d]} ELSE published
            /\ age' = [age EXCEPT ![urev[d]] = IF p THEN 0 ELSE @]
      BY <1>16, Zenon DEF MarkUploadVerified, Settled
    <2>4. published' \in SUBSET Revision /\ age' \in [Revision -> 0..MaxAge]
      BY <2>1, <2>3, MaxAgeNat DEF IInv, TypeOK
    <2> QED
      BY <1>16, <2>1, <2>2, <2>4 DEF IInv, TypeOK, MarkUploadVerified, UploaderGoes
  <1>17. ASSUME NEW d \in Destination, MarkUploadFailed(d) PROVE TypeOK'
    <2>1. urev[d] \in Revision
      BY <1>17, UploaderBusy DEF MarkUploadFailed
    <2>2. upload' \in [Revision -> [Destination -> UploadStatus]]
      BY <1>17, <2>1, SetUploadType DEF IInv, MarkUploadFailed, FailureStatus, UploadStatus
    <2> QED
      BY <1>17, <2>1, <2>2 DEF IInv, TypeOK, MarkUploadFailed, UploaderGoes
  <1>18. CASE CleanupRaw
    BY <1>18 DEF IInv, TypeOK, CleanupRaw, RawRetentionCandidates
  <1>19. CASE CleanupParquet
    BY <1>19 DEF IInv, TypeOK, CleanupParquet, ParquetRetentionCandidates, Revisions
  <1>20. CASE CleanupSummaries
    BY <1>20 DEF IInv, TypeOK, CleanupSummaries
  <1>21. CASE SummarizeDay
    BY <1>21 DEF IInv, TypeOK, SummarizeDay
  <1>22. ASSUME NEW c \in Capture, RemoveCapture(c) PROVE TypeOK'
    BY <1>22 DEF IInv, TypeOK, RemoveCapture
  <1>23. ASSUME NEW c \in Capture, MarkCaptureRetained(c) PROVE TypeOK'
    BY <1>23 DEF IInv, TypeOK, MarkCaptureRetained
  <1>24. ASSUME NEW r \in Revision, RemoveArtifact(r) PROVE TypeOK'
    BY <1>24 DEF IInv, TypeOK, RemoveArtifact
  <1>25. ASSUME NEW r \in Revision, MarkParquetRetained(r) PROVE TypeOK'
    <2>1. [x \in Destination |-> IF x \notin RequiredOf(r) /\ upload[r][x] \notin {"none",
          "verified"}
                                    THEN "expired" ELSE upload[r][x]] \in [Destination -> UploadStatus]
      BY DEF IInv, TypeOK, UploadStatus
    <2>2. upload' \in [Revision -> [Destination -> UploadStatus]]
      BY <1>25, <2>1 DEF IInv, TypeOK, MarkParquetRetained
    <2> QED
      BY <1>25, <2>2 DEF IInv, TypeOK, MarkParquetRetained
  <1>26. CASE Start
    BY <1>26, ArchiveAssumption DEF IInv, TypeOK, Start
  <1>27. CASE RegisterDone
    BY <1>27 DEF IInv, TypeOK, RegisterDone
  <1>28. CASE AdoptDone
    BY <1>28 DEF IInv, TypeOK, AdoptDone
  <1>29. CASE Stop
    BY <1>29 DEF IInv, TypeOK, Stop
  <1>30. ASSUME NEW c \in Capture, Register(c) PROVE TypeOK'
    BY <1>30 DEF IInv, TypeOK, Register
  <1>31. ASSUME NEW r \in Revision, AdoptCompaction(r) PROVE TypeOK'
    <2>1. PICK a \in 0..MaxAge : InsertCompaction(r, manifest[r].inputs \cap Rows, a)
      BY <1>31 DEF AdoptCompaction
    <2>2. manifest[r].inputs \cap Rows \in SUBSET Capture
      BY DEF Rows
    <2> QED
      BY <1>31, <2>1, <2>2, InsertType DEF IInv, TypeOK, AdoptCompaction
  <1>32. ASSUME NEW r \in Revision, AdoptCompactionFails(r) PROVE TypeOK'
    BY <1>32 DEF IInv, TypeOK, AdoptCompactionFails
  <1>33. CASE Command
    BY <1>33, ArchiveAssumption DEF IInv, TypeOK, Command
  <1>34. CASE CommandDone
    BY <1>34 DEF IInv, TypeOK, CommandDone
  <1>35. ASSUME NEW d \in Destination, EnsureDestinationBackfill(d) PROVE TypeOK'
    <2>1. upload' \in [Revision -> [Destination -> UploadStatus]]
      BY <1>35 DEF IInv, TypeOK, EnsureDestinationBackfill, UploadStatus
    <2> QED
      BY <1>35, <2>1 DEF IInv, TypeOK, EnsureDestinationBackfill
  <1>36. ASSUME NEW d \in Destination, RetireDestination(d) PROVE TypeOK'
    <2> DEFINE hit == {r \in Revisions : d \in RequiredOf(r) /\ upload[r][d] # "verified"}
               up == [r \in Revision |-> IF r \in hit THEN [upload[r] EXCEPT ![d] = "retired"]
                                                      ELSE upload[r]]
               now == {r \in hit : r \notin published /\ Settled(up, r)}
    <2>1. /\ upload' = up
          /\ published' = published \cup now
          /\ age' = [r \in Revision |-> IF r \in now THEN 0 ELSE age[r]]
      BY <1>36, Zenon DEF RetireDestination
    <2>2. now \subseteq Revision
      BY DEF Revisions
    <2> HIDE DEF now
    <2>3. published' \in SUBSET Revision /\ age' \in [Revision -> 0..MaxAge]
      BY <2>1, <2>2, MaxAgeNat DEF IInv, TypeOK
    <2>4. upload' \in [Revision -> [Destination -> UploadStatus]]
      BY <2>1 DEF IInv, TypeOK, UploadStatus
    <2> QED
      BY <1>36, <2>3, <2>4 DEF IInv, TypeOK, RetireDestination
  <1>37. ASSUME NEW r \in Revision, NEW d \in Destination, DestinationNotConfigured(r, d) PROVE
        TypeOK'
    BY <1>37, SetUploadType DEF IInv, TypeOK, DestinationNotConfigured, UploadStatus
  <1>38. CASE Crash
    BY <1>38 DEF IInv, TypeOK, Crash, CompactorIdle
  <1>39. CASE LoseDatabase
    <2>1. age' \in [Revision -> 0..MaxAge]
      BY <1>39, MaxAgeNat DEF LoseDatabase
    <2>2. upload' \in [Revision -> [Destination -> UploadStatus]]
      BY <1>39 DEF LoseDatabase, UploadStatus
    <2> QED
      BY <1>39, <2>1, <2>2 DEF IInv, TypeOK, LoseDatabase
  <1>40. CASE TimePasses
    <2>1. age' \in [Revision -> 0..MaxAge]
      BY <1>40, MaxAgeNat DEF IInv, TypeOK, TimePasses, Older
    <2> QED
      BY <1>40, <2>1 DEF IInv, TypeOK, TimePasses
  <1>41. ASSUME NEW c \in Capture, Damage(c) PROVE TypeOK'
    BY <1>41 DEF IInv, TypeOK, Damage
  <1>42. ASSUME NEW c \in Capture, Repair(c) PROVE TypeOK'
    BY <1>42 DEF IInv, TypeOK, Repair
  <1>43. ASSUME NEW d \in Destination, ProcessPendingFails(d) PROVE TypeOK'
    BY <1>43 DEF IInv, TypeOK, ProcessPendingFails, UploaderGoes
  <1>44. CASE CleanupFails
    BY <1>44 DEF IInv, TypeOK, CleanupFails
  <1> QED
    BY <1>1, <1>2, <1>3, <1>4, <1>5, <1>6, <1>7, <1>8, <1>9, <1>10, <1>11, <1>12, <1>13, <1>14,
      <1>15, <1>16, <1>17, <1>18, <1>19, <1>20, <1>21, <1>22, <1>23, <1>24, <1>25, <1>26, <1>27,
      <1>28, <1>29, <1>30, <1>31, <1>32, <1>33, <1>34, <1>35, <1>36, <1>37, <1>38, <1>39, <1>40,
      <1>41, <1>42, <1>43, <1>44 DEF Next, CaptureNext, CompactNext, UploadNext, RetentionNext,
      StartupNext, OperatorNext, EnvironmentNext

\* Who works when: the compactor and the retention pass start only beside an idle other,
\* and a process gives the lock up only with nothing in flight.
LEMMA ProcessStep == IInv /\ Next => ProcessInv'
  <1> SUFFICES ASSUME IInv, Next PROVE ProcessInv'
    OBVIOUS
  <1>0. ASSUME UNCHANGED <<cstep, rstep, phase, crev, saving, ustep, queue, dir, ccaps, manifest,
        rawTodo, revTodo>> PROVE ProcessInv'
    BY <1>0 DEF IInv, TypeOK, ProcessInv, UploadersIdle
  <1>1. ASSUME NEW c \in Capture, Commit(c) PROVE ProcessInv'
    BY <1>1 DEF IInv, TypeOK, ProcessInv, UploadersIdle, Commit
  <1>2. ASSUME NEW c \in Capture, SaveCapture(c) PROVE ProcessInv'
    BY <1>2 DEF IInv, TypeOK, ProcessInv, UploadersIdle, SaveCapture
  <1>3. ASSUME NEW c \in Capture, SaveCaptureFails(c) PROVE ProcessInv'
    BY <1>3 DEF IInv, TypeOK, ProcessInv, UploadersIdle, SaveCaptureFails
  <1>4. CASE CompactSelect
    BY <1>4 DEF IInv, TypeOK, ProcessInv, UploadersIdle, CompactSelect, DirectoryFree
  <1>5. CASE CompactRead
    BY <1>5 DEF IInv, TypeOK, ProcessInv, UploadersIdle, CompactRead
  <1>6. CASE CommitRevision
    BY <1>6 DEF IInv, TypeOK, ProcessInv, UploadersIdle, CommitRevision
  <1>7. CASE SaveCompaction
    BY <1>7 DEF IInv, TypeOK, ProcessInv, UploadersIdle, SaveCompaction, CompactorIdle
  <1>8. CASE SaveCompactionFails
    BY <1>8 DEF IInv, TypeOK, ProcessInv, UploadersIdle, SaveCompactionFails, CompactorIdle
  <1>9. ASSUME NEW d \in Destination, PendingUploads(d) PROVE ProcessInv'
    BY <1>9 DEF IInv, TypeOK, ProcessInv, UploadersIdle, PendingUploads
  <1>10. ASSUME NEW d \in Destination, NEW r \in Revision, PrepareRemoteDir(d, r) PROVE ProcessInv'
    BY <1>10 DEF IInv, TypeOK, ProcessInv, UploadersIdle, PrepareRemoteDir, UploaderGoes
  <1>11. ASSUME NEW d \in Destination, MarkUploadAttempt(d) PROVE ProcessInv'
    BY <1>11 DEF IInv, TypeOK, ProcessInv, UploadersIdle, MarkUploadAttempt, UploaderGoes, SetUpload
  <1>12. ASSUME NEW d \in Destination, CopyData(d) PROVE ProcessInv'
    BY <1>12 DEF IInv, TypeOK, ProcessInv, UploadersIdle, CopyData, UploaderGoes, Send
  <1>13. ASSUME NEW d \in Destination, CopyManifest(d) PROVE ProcessInv'
    BY <1>13 DEF IInv, TypeOK, ProcessInv, UploadersIdle, CopyManifest, UploaderGoes, Send
  <1>14. ASSUME NEW d \in Destination, UploadFails(d) PROVE ProcessInv'
    BY <1>14 DEF IInv, TypeOK, ProcessInv, UploadersIdle, UploadFails, UploaderGoes
  <1>15. ASSUME NEW d \in Destination, MarkUploadVerified(d) PROVE ProcessInv'
    BY <1>15 DEF IInv, TypeOK, ProcessInv, UploadersIdle, MarkUploadVerified, UploaderGoes,
      SetUpload
  <1>16. ASSUME NEW d \in Destination, MarkUploadFailed(d) PROVE ProcessInv'
    BY <1>16 DEF IInv, TypeOK, ProcessInv, UploadersIdle, MarkUploadFailed, UploaderGoes, SetUpload
  <1>17. CASE CleanupRaw
    BY <1>17 DEF IInv, TypeOK, ProcessInv, UploadersIdle, CleanupRaw
  <1>18. CASE CleanupParquet
    BY <1>18 DEF IInv, TypeOK, ProcessInv, UploadersIdle, CleanupParquet
  <1>19. CASE CleanupSummaries
    BY <1>19 DEF IInv, TypeOK, ProcessInv, UploadersIdle, CleanupSummaries
  <1>20. CASE SummarizeDay
    BY <1>20 DEF IInv, TypeOK, ProcessInv, UploadersIdle, SummarizeDay
  <1>21. ASSUME NEW c \in Capture, MarkCaptureRetained(c) PROVE ProcessInv'
    BY <1>21 DEF IInv, TypeOK, ProcessInv, UploadersIdle, MarkCaptureRetained
  <1>22. ASSUME NEW r \in Revision, RemoveArtifact(r) PROVE ProcessInv'
    BY <1>22 DEF IInv, TypeOK, ProcessInv, UploadersIdle, RemoveArtifact
  <1>23. ASSUME NEW r \in Revision, MarkParquetRetained(r) PROVE ProcessInv'
    BY <1>23 DEF IInv, TypeOK, ProcessInv, UploadersIdle, MarkParquetRetained
  <1>24. CASE Start
    BY <1>24 DEF IInv, TypeOK, ProcessInv, UploadersIdle, Start
  <1>25. CASE RegisterDone
    BY <1>25 DEF IInv, TypeOK, ProcessInv, UploadersIdle, RegisterDone
  <1>26. CASE AdoptDone
    BY <1>26 DEF IInv, TypeOK, ProcessInv, UploadersIdle, AdoptDone
  <1>27. CASE Stop
    BY <1>27 DEF IInv, TypeOK, ProcessInv, UploadersIdle, Stop
  <1>28. ASSUME NEW r \in Revision, AdoptCompactionFails(r) PROVE ProcessInv'
    BY <1>28 DEF IInv, TypeOK, ProcessInv, UploadersIdle, AdoptCompactionFails
  <1>29. CASE Command
    BY <1>29 DEF IInv, TypeOK, ProcessInv, UploadersIdle, Command
  <1>30. CASE CommandDone
    BY <1>30 DEF IInv, TypeOK, ProcessInv, UploadersIdle, CommandDone
  <1>31. CASE Crash
    BY <1>31 DEF IInv, TypeOK, ProcessInv, UploadersIdle, Crash, CompactorIdle
  <1>32. ASSUME NEW d \in Destination, ProcessPendingFails(d) PROVE ProcessInv'
    BY <1>32 DEF IInv, TypeOK, ProcessInv, UploadersIdle, ProcessPendingFails,
      UploaderGoes
  <1>33. CASE CleanupFails
    BY <1>33 DEF IInv, TypeOK, ProcessInv, UploadersIdle, CleanupFails
  <1> QED
    BY <1>0, <1>1, <1>2, <1>3, <1>4, <1>5, <1>6, <1>7, <1>8, <1>9, <1>10, <1>11, <1>12, <1>13,
      <1>14, <1>15, <1>16, <1>17, <1>18, <1>19, <1>20, <1>21, <1>22, <1>23, <1>24, <1>25, <1>26,
      <1>27, <1>28, <1>29, <1>30, <1>31, <1>32, <1>33 DEF Next, CaptureNext, CompactNext, UploadNext,
      RetentionNext,
      StartupNext, OperatorNext, EnvironmentNext, RecordTick, RemoveCapture, Register,
            AdoptCompaction, EnsureDestinationBackfill, RetireDestination, DestinationNotConfigured,
            LoseDatabase, TimePasses, Damage, Repair

\* Rows appear only for directories that exist, and never list more than the manifest.
LEMMA RevisionStep == IInv /\ Next => RevisionInv'
  <1> SUFFICES ASSUME IInv, Next PROVE RevisionInv'
    OBVIOUS
  <1>0. ASSUME UNCHANGED <<dir, manifest, compaction, listed, published, upload>> PROVE RevisionInv'
    BY <1>0 DEF IInv, TypeOK, RevisionInv
  <1>1. CASE CommitRevision
    BY <1>1, CommitEffect DEF IInv, RevisionInv, CommitRevision
  <1>2. CASE SaveCompaction
    BY <1>2, SaveEffect, InsertEffect DEF IInv, TypeOK, RevisionInv, SaveCompaction
  <1>3. ASSUME NEW d \in Destination, MarkUploadAttempt(d) PROVE RevisionInv'
    <2>1. urev[d] \in Revision
      BY <1>3, UploaderBusy DEF MarkUploadAttempt
    <2> QED
      BY <1>3, <2>1, UploaderBusy, SetUploadEffect DEF IInv, RevisionInv, MarkUploadAttempt,
        UploaderGoes
  <1>4. ASSUME NEW d \in Destination, MarkUploadVerified(d) PROVE RevisionInv'
    <2>1. urev[d] \in Revision
      BY <1>4, UploaderBusy DEF MarkUploadVerified
    <2> QED
      BY <1>4, <2>1, UploaderBusy, SetUploadEffect DEF IInv, RevisionInv, MarkUploadVerified,
        UploaderGoes
  <1>5. ASSUME NEW d \in Destination, MarkUploadFailed(d) PROVE RevisionInv'
    <2>1. urev[d] \in Revision
      BY <1>5, UploaderBusy DEF MarkUploadFailed
    <2> QED
      BY <1>5, <2>1, UploaderBusy, SetUploadEffect DEF IInv, RevisionInv, MarkUploadFailed,
        UploaderGoes
  <1>6. CASE SummarizeDay
    BY <1>6 DEF IInv, TypeOK, RevisionInv, SummarizeDay
  <1>7. ASSUME NEW r \in Revision, RemoveArtifact(r) PROVE RevisionInv'
    BY <1>7 DEF IInv, TypeOK, RevisionInv, RemoveArtifact
  <1>8. ASSUME NEW r \in Revision, MarkParquetRetained(r) PROVE RevisionInv'
    BY <1>8 DEF IInv, TypeOK, RevisionInv, MarkParquetRetained
  <1>9. ASSUME NEW r \in Revision, AdoptCompaction(r) PROVE RevisionInv'
    <2>1. PICK a \in 0..MaxAge : InsertCompaction(r, manifest[r].inputs \cap Rows, a)
      BY <1>9, AdoptEffect
    <2>2. UNCHANGED <<dir, manifest>> /\ dir[r] = "whole"
      BY <1>9, AdoptEffect DEF AdoptCompaction
    <2> QED
      BY <2>1, <2>2, InsertEffect DEF IInv, RevisionInv
  <1>10. ASSUME NEW d \in Destination, EnsureDestinationBackfill(d) PROVE RevisionInv'
    BY <1>10 DEF IInv, TypeOK, RevisionInv, EnsureDestinationBackfill
  <1>11. ASSUME NEW d \in Destination, RetireDestination(d) PROVE RevisionInv'
    BY <1>11, RetireEffect DEF IInv, RevisionInv, Revisions, RetireDestination
  <1>12. ASSUME NEW r \in Revision, NEW d \in Destination, DestinationNotConfigured(r, d) PROVE
        RevisionInv'
    BY <1>12, SetUploadEffect DEF IInv, RevisionInv, DestinationNotConfigured, Pending, Revisions
  <1>13. CASE LoseDatabase
    BY <1>13 DEF IInv, TypeOK, RevisionInv, LoseDatabase
  <1> QED
    BY <1>0, <1>1, <1>2, <1>3, <1>4, <1>5, <1>6, <1>7, <1>8, <1>9, <1>10, <1>11, <1>12, <1>13 DEF
      Next, CaptureNext, CompactNext, UploadNext, RetentionNext,
      StartupNext, OperatorNext, EnvironmentNext, RecordTick, Commit, SaveCapture, SaveCaptureFails,
            CompactSelect, CompactRead, SaveCompactionFails, PendingUploads, PrepareRemoteDir,
            CopyData, CopyManifest, UploadFails, CleanupRaw, CleanupParquet, CleanupSummaries,
            CleanupFails, ProcessPendingFails,
            RemoveCapture, MarkCaptureRetained, Start, RegisterDone, AdoptDone, Stop, Register,
            AdoptCompactionFails, Command, CommandDone, Crash, TimePasses, Damage, Repair

\* No step of another process verifies or retires an upload a worker holds.
LEMMA UploaderStep == IInv /\ Next => UploaderInv'
  <1> SUFFICES ASSUME IInv, Next PROVE UploaderInv'
    OBVIOUS
  <1>0. ASSUME UNCHANGED <<queue, ustep, urev, upload, compaction, manifest, remote>> PROVE
        UploaderInv'
    BY <1>0 DEF IInv, TypeOK, UploaderInv, Revisions, Files
  <1>1. CASE CommitRevision
    <2>1. \A x \in Revision \ {crev} : Files(x)' = Files(x)
      BY <1>1, CommitEffect DEF Files
    <2>2. UNCHANGED <<queue, ustep, urev, upload, compaction, remote>>
      BY <1>1 DEF CommitRevision
    <2> QED
      BY <1>1, <2>1, <2>2, CommitEffect DEF IInv, UploaderInv, Revisions
  <1>2. CASE SaveCompaction
    <2>1. \A x \in Revision : Files(x)' = Files(x) /\ RequiredOf(x)' = RequiredOf(x)
      BY <1>2, ManifestFrame DEF SaveCompaction
    <2>2. InsertCompaction(crev, ccaps, 0) /\ crev \in Revision
      BY <1>2, SaveEffect
    <2>3. UNCHANGED <<dir, remote, abandoned, queue, ustep, urev>>
      BY <1>2 DEF SaveCompaction
    <2> QED
      BY <2>1, <2>2, <2>3, InsertEffect, RequiredDestination DEF IInv, UploaderInv, Revisions
  <1>3. ASSUME NEW d \in Destination, PendingUploads(d) PROVE UploaderInv'
    BY <1>3 DEF IInv, TypeOK, UploaderInv, Revisions, Files, PendingUploads, Pending
  <1>4. ASSUME NEW d \in Destination, NEW r \in Revision, PrepareRemoteDir(d, r) PROVE UploaderInv'
    BY <1>4 DEF IInv, TypeOK, UploaderInv, Revisions, Files, PrepareRemoteDir, UploaderGoes
  <1>5. ASSUME NEW d \in Destination, MarkUploadAttempt(d) PROVE UploaderInv'
    BY <1>5 DEF IInv, TypeOK, UploaderInv, Revisions, Files, MarkUploadAttempt, UploaderGoes,
      SetUpload
  <1>6. ASSUME NEW d \in Destination, CopyData(d) PROVE UploaderInv'
    <2>1. \A x \in Revision : Files(x)' = Files(x) /\ RequiredOf(x)' = RequiredOf(x)
      BY <1>6, ManifestFrame DEF CopyData
    <2>2. UNCHANGED <<queue, upload, compaction>> /\ ustep[d] # "idle"
      BY <1>6 DEF CopyData
    <2> QED
      BY <1>6, <2>1, <2>2, CopyEffect, UploaderBusy DEF IInv, UploaderInv, Revisions
  <1>7. ASSUME NEW d \in Destination, CopyManifest(d) PROVE UploaderInv'
    <2>1. \A x \in Revision : Files(x)' = Files(x) /\ RequiredOf(x)' = RequiredOf(x)
      BY <1>7, ManifestFrame DEF CopyManifest
    <2>2. UNCHANGED <<queue, upload, compaction>> /\ ustep[d] # "idle"
      BY <1>7 DEF CopyManifest
    <2> QED
      BY <1>7, <2>1, <2>2, CopyEffect, UploaderBusy DEF IInv, UploaderInv, Revisions
  <1>8. ASSUME NEW d \in Destination, UploadFails(d) PROVE UploaderInv'
    <2>1. \A x \in Revision : Files(x)' = Files(x) /\ RequiredOf(x)' = RequiredOf(x)
      BY <1>8, ManifestFrame DEF UploadFails
    <2>2. urev[d] \in Revision
      BY <1>8, UploaderBusy DEF UploadFails
    <2>3. PICK s \in {"retry", "permanent_failure"} : UploaderGoes(d, s, urev[d])
      BY <1>8, Zenon DEF UploadFails, Transient
    <2>4. ustep[d] # "idle" /\ UNCHANGED <<upload, manifest, compaction, remote, queue>>
      BY <1>8 DEF UploadFails
    <2> QED
      BY <2>1, <2>2, <2>3, <2>4 DEF IInv, TypeOK, UploaderInv, Revisions, UploaderGoes
  <1>9. ASSUME NEW d \in Destination, MarkUploadVerified(d) PROVE UploaderInv'
    BY <1>9 DEF IInv, TypeOK, UploaderInv, Revisions, Files, MarkUploadVerified, UploaderGoes,
      SetUpload
  <1>10. ASSUME NEW d \in Destination, MarkUploadFailed(d) PROVE UploaderInv'
    BY <1>10 DEF IInv, TypeOK, UploaderInv, Revisions, Files, MarkUploadFailed, UploaderGoes,
      SetUpload
  <1>11. ASSUME NEW r \in Revision, MarkParquetRetained(r) PROVE UploaderInv'
    BY <1>11 DEF IInv, TypeOK, UploaderInv, Revisions, Files, MarkParquetRetained
  <1>12. ASSUME NEW r \in Revision, AdoptCompaction(r) PROVE UploaderInv'
    <2>1. \A x \in Revision : Files(x)' = Files(x) /\ RequiredOf(x)' = RequiredOf(x)
      BY <1>12, ManifestFrame DEF AdoptCompaction
    <2>2. PICK a \in 0..MaxAge : InsertCompaction(r, manifest[r].inputs \cap Rows, a)
      BY <1>12, AdoptEffect
    <2>3. UNCHANGED <<dir, remote, abandoned, queue, ustep, urev>>
      BY <1>12 DEF AdoptCompaction
    <2> QED
      BY <2>1, <2>2, <2>3, InsertEffect, RequiredDestination DEF IInv, UploaderInv, Revisions
  <1>13. ASSUME NEW d \in Destination, EnsureDestinationBackfill(d) PROVE UploaderInv'
    BY <1>13 DEF IInv, TypeOK, UploaderInv, Revisions, Files, EnsureDestinationBackfill
  <1>14. ASSUME NEW d \in Destination, RetireDestination(d) PROVE UploaderInv'
    <2>1. \A e \in Destination : ustep[e] = "idle" /\ queue[e] = {}
      BY <1>14, RetireEffect
    <2> QED
      BY <1>14, <2>1 DEF IInv, UploaderInv, RetireDestination
  <1>15. ASSUME NEW r \in Revision, NEW d \in Destination, DestinationNotConfigured(r, d) PROVE
        UploaderInv'
    BY <1>15 DEF IInv, TypeOK, UploaderInv, Revisions, Files, DestinationNotConfigured, SetUpload
  <1>16. CASE Crash
    BY <1>16 DEF IInv, TypeOK, UploaderInv, Revisions, Files, Crash, CompactorIdle
  <1>17. CASE LoseDatabase
    BY <1>17 DEF IInv, UploaderInv, ProcessInv, UploadersIdle, LoseDatabase
  <1>18. ASSUME NEW d \in Destination, ProcessPendingFails(d) PROVE UploaderInv'
    BY <1>18 DEF IInv, TypeOK, UploaderInv, Revisions, Files, ProcessPendingFails,
      UploaderGoes
  <1> QED
    BY <1>0, <1>1, <1>2, <1>3, <1>4, <1>5, <1>6, <1>7, <1>8, <1>9, <1>10, <1>11, <1>12, <1>13,
      <1>14, <1>15, <1>16, <1>17, <1>18 DEF Next, CaptureNext, CompactNext, UploadNext, RetentionNext,
      StartupNext, OperatorNext, EnvironmentNext, RecordTick, Commit, SaveCapture, SaveCaptureFails,
            CompactSelect, CompactRead, SaveCompactionFails, CleanupRaw, CleanupParquet,
            CleanupSummaries, CleanupFails, SummarizeDay, RemoveCapture, MarkCaptureRetained, RemoveArtifact,
            Start, RegisterDone, AdoptDone, Stop, Register, AdoptCompactionFails, Command,
            CommandDone, TimePasses, Damage, Repair

\* Remotes get only files of the revision, and retiring an upload gives its destination up.
LEMMA RemoteStep == IInv /\ Next => RemoteInv'
  <1> SUFFICES ASSUME IInv, Next PROVE RemoteInv'
    OBVIOUS
  <1>0. ASSUME UNCHANGED <<remote, manifest, dir, upload, abandoned>> PROVE RemoteInv'
    BY <1>0 DEF IInv, TypeOK, RemoteInv, Files
  <1>1. CASE CommitRevision
    BY <1>1, CommitEffect DEF IInv, RemoteInv, Files, CommitRevision
  <1>2. CASE SaveCompaction
    <2>1. \A x \in Revision : Files(x)' = Files(x) /\ RequiredOf(x)' = RequiredOf(x)
      BY <1>2, ManifestFrame DEF SaveCompaction
    <2>2. InsertCompaction(crev, ccaps, 0) /\ crev \in Revision
      BY <1>2, SaveEffect
    <2>3. UNCHANGED <<dir, remote, abandoned, queue, ustep, urev>>
      BY <1>2 DEF SaveCompaction
    <2> QED
      BY <2>1, <2>2, <2>3, InsertEffect, RequiredDestination DEF IInv, RemoteInv, Revisions
  <1>3. ASSUME NEW d \in Destination, MarkUploadAttempt(d) PROVE RemoteInv'
    BY <1>3 DEF IInv, TypeOK, RemoteInv, Files, MarkUploadAttempt, UploaderGoes, SetUpload
  <1>4. ASSUME NEW d \in Destination, CopyData(d) PROVE RemoteInv'
    <2>1. \A x \in Revision : Files(x)' = Files(x) /\ RequiredOf(x)' = RequiredOf(x)
      BY <1>4, ManifestFrame DEF CopyData
    <2> QED
      BY <1>4, <2>1, CopyEffect, RequiredDestination DEF IInv, RemoteInv, CopyData
  <1>5. ASSUME NEW d \in Destination, CopyManifest(d) PROVE RemoteInv'
    <2>1. \A x \in Revision : Files(x)' = Files(x) /\ RequiredOf(x)' = RequiredOf(x)
      BY <1>5, ManifestFrame DEF CopyManifest
    <2> QED
      BY <1>5, <2>1, CopyEffect, RequiredDestination DEF IInv, RemoteInv, CopyManifest
  <1>6. ASSUME NEW d \in Destination, MarkUploadVerified(d) PROVE RemoteInv'
    BY <1>6 DEF IInv, TypeOK, RemoteInv, Files, MarkUploadVerified, UploaderGoes, SetUpload
  <1>7. ASSUME NEW d \in Destination, MarkUploadFailed(d) PROVE RemoteInv'
    <2>1. urev[d] \in Revision
      BY <1>7, UploaderBusy DEF MarkUploadFailed
    <2> QED
      BY <1>7, <2>1, UploaderBusy, SetUploadEffect DEF IInv, RemoteInv, Files, FailureStatus,
        MarkUploadFailed, UploaderGoes
  <1>8. ASSUME NEW r \in Revision, RemoveArtifact(r) PROVE RemoteInv'
    BY <1>8 DEF IInv, TypeOK, RemoteInv, Files, RemoveArtifact
  <1>9. ASSUME NEW r \in Revision, MarkParquetRetained(r) PROVE RemoteInv'
    BY <1>9 DEF IInv, TypeOK, RemoteInv, Files, MarkParquetRetained
  <1>10. ASSUME NEW r \in Revision, AdoptCompaction(r) PROVE RemoteInv'
    <2>1. \A x \in Revision : Files(x)' = Files(x) /\ RequiredOf(x)' = RequiredOf(x)
      BY <1>10, ManifestFrame DEF AdoptCompaction
    <2>2. PICK a \in 0..MaxAge : InsertCompaction(r, manifest[r].inputs \cap Rows, a)
      BY <1>10, AdoptEffect
    <2>3. UNCHANGED <<dir, remote, abandoned, queue, ustep, urev>>
      BY <1>10 DEF AdoptCompaction
    <2> QED
      BY <2>1, <2>2, <2>3, InsertEffect, RequiredDestination DEF IInv, RemoteInv, Revisions
  <1>11. ASSUME NEW d \in Destination, EnsureDestinationBackfill(d) PROVE RemoteInv'
    BY <1>11 DEF IInv, TypeOK, RemoteInv, Files, EnsureDestinationBackfill
  <1>12. ASSUME NEW d \in Destination, RetireDestination(d) PROVE RemoteInv'
    BY <1>12 DEF IInv, TypeOK, RemoteInv, Files, RetireDestination
  <1>13. ASSUME NEW r \in Revision, NEW d \in Destination, DestinationNotConfigured(r, d) PROVE
        RemoteInv'
    BY <1>13 DEF IInv, TypeOK, RemoteInv, Files, DestinationNotConfigured, SetUpload
  <1>14. CASE LoseDatabase
    BY <1>14 DEF IInv, TypeOK, RemoteInv, Files, LoseDatabase
  <1> QED
    BY <1>0, <1>1, <1>2, <1>3, <1>4, <1>5, <1>6, <1>7, <1>8, <1>9, <1>10, <1>11, <1>12, <1>13, <1>14
      DEF Next, CaptureNext, CompactNext, UploadNext, RetentionNext,
      StartupNext, OperatorNext, EnvironmentNext, RecordTick, Commit, SaveCapture, SaveCaptureFails,
            CompactSelect, CompactRead, SaveCompactionFails, PendingUploads, PrepareRemoteDir,
            UploadFails, CleanupRaw, CleanupParquet, CleanupSummaries, CleanupFails,
            ProcessPendingFails, SummarizeDay, RemoveCapture,
            MarkCaptureRetained, Start, RegisterDone, AdoptDone, Stop, Register,
            AdoptCompactionFails, Command, CommandDone, Crash, TimePasses, Damage, Repair

\* A compactor leaves out only what is damaged or already removed.
LEMMA CaptureStep == IInv /\ Next => CaptureInv'
  <1> SUFFICES ASSUME IInv, Next PROVE CaptureInv'
    OBVIOUS
  <1>0. ASSUME UNCHANGED <<payload, row, saving, ccaps, manifest, unreadable, cstep, cread>> PROVE
        CaptureInv'
    BY <1>0 DEF IInv, TypeOK, CaptureInv
  <1>1. ASSUME NEW c \in Capture, Commit(c) PROVE CaptureInv'
    BY <1>1 DEF IInv, TypeOK, CaptureInv, Commit
  <1>2. ASSUME NEW c \in Capture, SaveCapture(c) PROVE CaptureInv'
    BY <1>2 DEF IInv, TypeOK, CaptureInv, SaveCapture
  <1>3. ASSUME NEW c \in Capture, SaveCaptureFails(c) PROVE CaptureInv'
    BY <1>3 DEF IInv, TypeOK, CaptureInv, SaveCaptureFails
  <1>4. CASE CompactSelect
    BY <1>4 DEF IInv, TypeOK, CaptureInv, CompactSelect, Rows
  <1>5. CASE CompactRead
    BY <1>5 DEF IInv, TypeOK, CaptureInv, CompactRead, Readable
  <1>6. CASE CommitRevision
    BY <1>6 DEF IInv, TypeOK, CaptureInv, CommitRevision
  <1>7. CASE SaveCompaction
    BY <1>7 DEF IInv, TypeOK, CaptureInv, SaveCompaction, CompactorIdle
  <1>8. CASE SaveCompactionFails
    BY <1>8 DEF IInv, TypeOK, CaptureInv, SaveCompactionFails, CompactorIdle
  <1>9. CASE SummarizeDay
    BY <1>9 DEF IInv, TypeOK, CaptureInv, SummarizeDay
  <1>10. ASSUME NEW c \in Capture, RemoveCapture(c) PROVE CaptureInv'
    BY <1>10 DEF IInv, TypeOK, CaptureInv, RemoveCapture
  <1>11. ASSUME NEW c \in Capture, MarkCaptureRetained(c) PROVE CaptureInv'
    BY <1>11 DEF IInv, TypeOK, CaptureInv, MarkCaptureRetained
  <1>12. ASSUME NEW c \in Capture, Register(c) PROVE CaptureInv'
    BY <1>12 DEF IInv, TypeOK, CaptureInv, Register, Unregistered
  <1>13. CASE Crash
    BY <1>13 DEF IInv, TypeOK, CaptureInv, Crash, CompactorIdle
  <1>14. CASE LoseDatabase
    BY <1>14 DEF IInv, TypeOK, CaptureInv, LoseDatabase
  <1>15. ASSUME NEW c \in Capture, Damage(c) PROVE CaptureInv'
    BY <1>15 DEF IInv, TypeOK, CaptureInv, Damage
  <1>16. ASSUME NEW c \in Capture, Repair(c) PROVE CaptureInv'
    BY <1>16 DEF IInv, TypeOK, CaptureInv, Repair
  <1> QED
    BY <1>0, <1>1, <1>2, <1>3, <1>4, <1>5, <1>6, <1>7, <1>8, <1>9, <1>10, <1>11, <1>12, <1>13,
      <1>14, <1>15, <1>16 DEF Next, CaptureNext, CompactNext, UploadNext, RetentionNext,
      StartupNext, OperatorNext, EnvironmentNext, RecordTick, PendingUploads, PrepareRemoteDir,
            MarkUploadAttempt, CopyData, CopyManifest, UploadFails, MarkUploadVerified,
            MarkUploadFailed, CleanupRaw, CleanupParquet, CleanupSummaries, CleanupFails,
            ProcessPendingFails, RemoveArtifact,
            MarkParquetRetained, Start, RegisterDone, AdoptDone, Stop, AdoptCompaction,
            AdoptCompactionFails, Command, CommandDone, EnsureDestinationBackfill,
            RetireDestination, DestinationNotConfigured, TimePasses

\* What the retention pass has chosen stays published while the pass runs: the compactor,
\* which could insert rows, is kept out.
LEMMA RetentionStep == IInv /\ Next => RetentionInv'
  <1> SUFFICES ASSUME IInv, Next PROVE RetentionInv'
    OBVIOUS
  <1>0. ASSUME UNCHANGED <<rawTodo, revTodo, compaction, published, listed>> PROVE RetentionInv'
    BY <1>0 DEF IInv, TypeOK, RetentionInv, Revisions
  <1>1. CASE SaveCompaction
    BY <1>1, SaveEffect, InsertEffect DEF IInv, TypeOK, RetentionInv, Revisions, SaveCompaction
  <1>2. ASSUME NEW d \in Destination, MarkUploadVerified(d) PROVE RetentionInv'
    BY <1>2 DEF IInv, TypeOK, RetentionInv, Revisions, MarkUploadVerified, UploaderGoes, SetUpload
  <1>3. CASE CleanupRaw
    BY <1>3 DEF IInv, TypeOK, RetentionInv, Revisions, CleanupRaw, RawRetentionCandidates,
      PublishedFor
  <1>4. CASE CleanupParquet
    BY <1>4 DEF IInv, TypeOK, RetentionInv, Revisions, CleanupParquet, ParquetRetentionCandidates,
      PublishedFor
  <1>5. CASE SummarizeDay
    BY <1>5 DEF IInv, TypeOK, RetentionInv, ProcessInv, SummarizeDay
  <1>6. ASSUME NEW c \in Capture, MarkCaptureRetained(c) PROVE RetentionInv'
    BY <1>6 DEF IInv, TypeOK, RetentionInv, Revisions, MarkCaptureRetained
  <1>7. ASSUME NEW r \in Revision, MarkParquetRetained(r) PROVE RetentionInv'
    BY <1>7 DEF IInv, TypeOK, RetentionInv, Revisions, MarkParquetRetained
  <1>8. ASSUME NEW r \in Revision, AdoptCompaction(r) PROVE RetentionInv'
    <2>1. PICK a \in 0..MaxAge : InsertCompaction(r, manifest[r].inputs \cap Rows, a)
      BY <1>8, AdoptEffect
    <2> QED
      BY <1>8, <2>1, AdoptEffect, InsertEffect DEF IInv, TypeOK, RetentionInv, Revisions,
        AdoptCompaction
  <1>9. ASSUME NEW d \in Destination, RetireDestination(d) PROVE RetentionInv'
    BY <1>9 DEF IInv, TypeOK, RetentionInv, Revisions, RetireDestination
  <1>10. CASE Crash
    BY <1>10 DEF IInv, TypeOK, RetentionInv, Revisions, Crash, CompactorIdle
  <1>11. CASE LoseDatabase
    BY <1>11 DEF IInv, RetentionInv, ProcessInv, LoseDatabase
  <1>12. CASE CleanupFails
    BY <1>12 DEF IInv, RetentionInv, CleanupFails
  <1> QED
    BY <1>0, <1>1, <1>2, <1>3, <1>4, <1>5, <1>6, <1>7, <1>8, <1>9, <1>10, <1>11, <1>12 DEF Next,
      CaptureNext, CompactNext, UploadNext, RetentionNext,
      StartupNext, OperatorNext, EnvironmentNext, RecordTick, Commit, SaveCapture, SaveCaptureFails,
            CompactSelect, CompactRead, CommitRevision, SaveCompactionFails, PendingUploads,
            PrepareRemoteDir, MarkUploadAttempt, CopyData, CopyManifest, UploadFails,
            MarkUploadFailed, ProcessPendingFails, CleanupSummaries, RemoveCapture, RemoveArtifact, Start, RegisterDone,
            AdoptDone, Stop, Register, AdoptCompactionFails, Command, CommandDone,
            EnsureDestinationBackfill, DestinationNotConfigured, TimePasses, Damage, Repair

\* The manifest joins the data file at a remote, never the other way round.
LEMMA ManifestLastStep == IInv /\ Next => ManifestLast'
  <1> SUFFICES ASSUME IInv, Next PROVE ManifestLast'
    OBVIOUS
  <1>0. ASSUME UNCHANGED <<remote, manifest>> PROVE ManifestLast'
    BY <1>0 DEF IInv, TypeOK, ManifestLast, Files
  <1>1. CASE CommitRevision
    BY <1>1, CommitEffect DEF IInv, ManifestLast, Files, CommitRevision
  <1>2. ASSUME NEW d \in Destination, CopyData(d) PROVE ManifestLast'
    <2>1. \A x \in Revision : Files(x)' = Files(x) /\ RequiredOf(x)' = RequiredOf(x)
      BY <1>2, ManifestFrame DEF CopyData
    <2> QED
      BY <1>2, <2>1, CopyEffect, RequiredDestination DEF IInv, ManifestLast, CopyData
  <1>3. ASSUME NEW d \in Destination, CopyManifest(d) PROVE ManifestLast'
    <2>1. \A x \in Revision : Files(x)' = Files(x) /\ RequiredOf(x)' = RequiredOf(x)
      BY <1>3, ManifestFrame DEF CopyManifest
    <2> QED
      BY <1>3, <2>1, CopyEffect, RequiredDestination DEF IInv, ManifestLast, CopyManifest
  <1> QED
    BY <1>0, <1>1, <1>2, <1>3 DEF Next, CaptureNext, CompactNext, UploadNext, RetentionNext,
      StartupNext, OperatorNext, EnvironmentNext, RecordTick, Commit, SaveCapture, SaveCaptureFails,
            CompactSelect, CompactRead, SaveCompaction, SaveCompactionFails, PendingUploads,
            PrepareRemoteDir, MarkUploadAttempt, UploadFails, MarkUploadVerified, MarkUploadFailed,
            CleanupRaw, CleanupParquet, CleanupSummaries, CleanupFails, ProcessPendingFails,
            SummarizeDay, RemoveCapture,
            MarkCaptureRetained, RemoveArtifact, MarkParquetRetained, Start, RegisterDone,
            AdoptDone, Stop, Register, AdoptCompaction, AdoptCompactionFails, Command, CommandDone,
            EnsureDestinationBackfill, RetireDestination, DestinationNotConfigured, Crash,
            LoseDatabase, TimePasses, Damage, Repair

\* Verified uploads stay whole: a revision's rows may come and go, its remote files stay.
LEMMA VerifiedIsRemoteStep == IInv /\ Next => VerifiedIsRemote'
  <1> SUFFICES ASSUME IInv, Next PROVE VerifiedIsRemote'
    OBVIOUS
  <1>0. ASSUME UNCHANGED <<upload, remote, manifest>> PROVE VerifiedIsRemote'
    BY <1>0 DEF IInv, TypeOK, VerifiedIsRemote, Files
  <1>1. CASE CommitRevision
    BY <1>1, CommitEffect DEF IInv, VerifiedIsRemote, Files, CommitRevision
  <1>2. CASE SaveCompaction
    <2>1. \A x \in Revision : Files(x)' = Files(x) /\ RequiredOf(x)' = RequiredOf(x)
      BY <1>2, ManifestFrame DEF SaveCompaction
    <2>2. InsertCompaction(crev, ccaps, 0) /\ crev \in Revision
      BY <1>2, SaveEffect
    <2>3. UNCHANGED <<dir, remote, abandoned, queue, ustep, urev>>
      BY <1>2 DEF SaveCompaction
    <2> QED
      BY <2>1, <2>2, <2>3, InsertEffect, RequiredDestination DEF IInv, VerifiedIsRemote, Revisions
  <1>3. ASSUME NEW d \in Destination, MarkUploadAttempt(d) PROVE VerifiedIsRemote'
    BY <1>3 DEF IInv, TypeOK, VerifiedIsRemote, Files, MarkUploadAttempt, UploaderGoes, SetUpload
  <1>4. ASSUME NEW d \in Destination, CopyData(d) PROVE VerifiedIsRemote'
    <2>1. \A x \in Revision : Files(x)' = Files(x) /\ RequiredOf(x)' = RequiredOf(x)
      BY <1>4, ManifestFrame DEF CopyData
    <2> QED
      BY <1>4, <2>1, CopyEffect, RequiredDestination DEF IInv, VerifiedIsRemote, CopyData
  <1>5. ASSUME NEW d \in Destination, CopyManifest(d) PROVE VerifiedIsRemote'
    <2>1. \A x \in Revision : Files(x)' = Files(x) /\ RequiredOf(x)' = RequiredOf(x)
      BY <1>5, ManifestFrame DEF CopyManifest
    <2> QED
      BY <1>5, <2>1, CopyEffect, RequiredDestination DEF IInv, VerifiedIsRemote, CopyManifest
  <1>6. ASSUME NEW d \in Destination, MarkUploadVerified(d) PROVE VerifiedIsRemote'
    <2>1. urev[d] \in Revision
      BY <1>6, UploaderBusy DEF MarkUploadVerified
    <2>2. remote[d][urev[d]] = Files(urev[d])
      BY <1>6, <2>1 DEF IInv, UploaderInv, ManifestLast, MarkUploadVerified
    <2> QED
      BY <1>6, <2>1, <2>2, SetUploadEffect DEF IInv, VerifiedIsRemote, Files, MarkUploadVerified
  <1>7. ASSUME NEW d \in Destination, MarkUploadFailed(d) PROVE VerifiedIsRemote'
    <2>1. urev[d] \in Revision
      BY <1>7, UploaderBusy DEF MarkUploadFailed
    <2> QED
      BY <1>7, <2>1, UploaderBusy, SetUploadEffect DEF IInv, VerifiedIsRemote, Files, FailureStatus,
        MarkUploadFailed, UploaderGoes
  <1>8. ASSUME NEW r \in Revision, MarkParquetRetained(r) PROVE VerifiedIsRemote'
    BY <1>8 DEF IInv, TypeOK, VerifiedIsRemote, Files, MarkParquetRetained
  <1>9. ASSUME NEW r \in Revision, AdoptCompaction(r) PROVE VerifiedIsRemote'
    <2>1. \A x \in Revision : Files(x)' = Files(x) /\ RequiredOf(x)' = RequiredOf(x)
      BY <1>9, ManifestFrame DEF AdoptCompaction
    <2>2. PICK a \in 0..MaxAge : InsertCompaction(r, manifest[r].inputs \cap Rows, a)
      BY <1>9, AdoptEffect
    <2>3. UNCHANGED <<dir, remote, abandoned, queue, ustep, urev>>
      BY <1>9 DEF AdoptCompaction
    <2> QED
      BY <2>1, <2>2, <2>3, InsertEffect, RequiredDestination DEF IInv, VerifiedIsRemote, Revisions
  <1>10. ASSUME NEW d \in Destination, EnsureDestinationBackfill(d) PROVE VerifiedIsRemote'
    BY <1>10 DEF IInv, TypeOK, VerifiedIsRemote, Files, EnsureDestinationBackfill
  <1>11. ASSUME NEW d \in Destination, RetireDestination(d) PROVE VerifiedIsRemote'
    BY <1>11 DEF IInv, TypeOK, VerifiedIsRemote, Files, RetireDestination
  <1>12. ASSUME NEW r \in Revision, NEW d \in Destination, DestinationNotConfigured(r, d) PROVE
        VerifiedIsRemote'
    BY <1>12 DEF IInv, TypeOK, VerifiedIsRemote, Files, DestinationNotConfigured, SetUpload
  <1>13. CASE LoseDatabase
    BY <1>13 DEF IInv, TypeOK, VerifiedIsRemote, Files, LoseDatabase
  <1> QED
    BY <1>0, <1>1, <1>2, <1>3, <1>4, <1>5, <1>6, <1>7, <1>8, <1>9, <1>10, <1>11, <1>12, <1>13 DEF
      Next, CaptureNext, CompactNext, UploadNext, RetentionNext,
      StartupNext, OperatorNext, EnvironmentNext, RecordTick, Commit, SaveCapture, SaveCaptureFails,
            CompactSelect, CompactRead, SaveCompactionFails, PendingUploads, PrepareRemoteDir,
            UploadFails, CleanupRaw, CleanupParquet, CleanupSummaries, CleanupFails,
            ProcessPendingFails, SummarizeDay, RemoveCapture,
            MarkCaptureRetained, RemoveArtifact, Start, RegisterDone, AdoptDone, Stop, Register,
            AdoptCompactionFails, Command, CommandDone, Crash, TimePasses, Damage, Repair

\* Nothing reopens a required upload of a published revision.
LEMMA PublishedIsSettledStep == IInv /\ Next => PublishedIsSettled'
  <1> SUFFICES ASSUME IInv, Next PROVE PublishedIsSettled'
    OBVIOUS
  <1>0. ASSUME UNCHANGED <<published, manifest, upload>> PROVE PublishedIsSettled'
    BY <1>0 DEF IInv, TypeOK, PublishedIsSettled, RequiredOf
  <1>1. CASE CommitRevision
    BY <1>1, CommitEffect DEF IInv, PublishedIsSettled, RequiredOf, CommitRevision
  <1>2. CASE SaveCompaction
    <2>1. \A x \in Revision : Files(x)' = Files(x) /\ RequiredOf(x)' = RequiredOf(x)
      BY <1>2, ManifestFrame DEF SaveCompaction
    <2>2. InsertCompaction(crev, ccaps, 0) /\ crev \in Revision
      BY <1>2, SaveEffect
    <2>3. UNCHANGED <<dir, remote, abandoned, queue, ustep, urev>>
      BY <1>2 DEF SaveCompaction
    <2> QED
      BY <2>1, <2>2, <2>3, InsertEffect, RequiredDestination DEF IInv, PublishedIsSettled, Revisions
  <1>3. ASSUME NEW d \in Destination, MarkUploadAttempt(d) PROVE PublishedIsSettled'
    <2>1. \A x \in Revision : Files(x)' = Files(x) /\ RequiredOf(x)' = RequiredOf(x)
      BY <1>3, ManifestFrame DEF MarkUploadAttempt
    <2>2. urev[d] \in Revision
      BY <1>3, UploaderBusy DEF MarkUploadAttempt
    <2>3. \A x \in Revision, e \in Destination : upload[x][e] \in {"verified", "retired"} =>
          upload'[x][e] = upload[x][e]
      BY <1>3, <2>2, UploaderBusy, SetUploadEffect DEF IInv, MarkUploadAttempt
    <2> QED
      BY <1>3, <2>1, <2>3, RequiredDestination DEF IInv, PublishedIsSettled, MarkUploadAttempt
  <1>4. ASSUME NEW d \in Destination, MarkUploadVerified(d) PROVE PublishedIsSettled'
    <2>1. \A x \in Revision : Files(x)' = Files(x) /\ RequiredOf(x)' = RequiredOf(x)
      BY <1>4, ManifestFrame DEF MarkUploadVerified
    <2>2. urev[d] \in Revision
      BY <1>4, UploaderBusy DEF MarkUploadVerified
    <2>3. \A x \in Revision, e \in Destination : upload[x][e] \in {"verified", "retired"} =>
          upload'[x][e] = upload[x][e]
      BY <1>4, <2>2, UploaderBusy, SetUploadEffect DEF IInv, MarkUploadVerified
    <2>4. \A x \in published' \ published : x \in Revision /\ Settled(upload', x)
      BY <1>4, <2>2, Zenon DEF MarkUploadVerified, SetUpload
    <2> QED
      BY <2>1, <2>3, <2>4, RequiredDestination DEF IInv, PublishedIsSettled, Settled
  <1>5. ASSUME NEW d \in Destination, MarkUploadFailed(d) PROVE PublishedIsSettled'
    <2>1. \A x \in Revision : Files(x)' = Files(x) /\ RequiredOf(x)' = RequiredOf(x)
      BY <1>5, ManifestFrame DEF MarkUploadFailed
    <2>2. urev[d] \in Revision
      BY <1>5, UploaderBusy DEF MarkUploadFailed
    <2>3. \A x \in Revision, e \in Destination : upload[x][e] \in {"verified", "retired"} =>
          upload'[x][e] = upload[x][e]
      BY <1>5, <2>2, UploaderBusy, SetUploadEffect DEF IInv, MarkUploadFailed
    <2> QED
      BY <1>5, <2>1, <2>3, RequiredDestination DEF IInv, PublishedIsSettled, MarkUploadFailed
  <1>6. ASSUME NEW r \in Revision, MarkParquetRetained(r) PROVE PublishedIsSettled'
    BY <1>6 DEF IInv, TypeOK, PublishedIsSettled, RequiredOf, MarkParquetRetained
  <1>7. ASSUME NEW r \in Revision, AdoptCompaction(r) PROVE PublishedIsSettled'
    <2>1. \A x \in Revision : Files(x)' = Files(x) /\ RequiredOf(x)' = RequiredOf(x)
      BY <1>7, ManifestFrame DEF AdoptCompaction
    <2>2. PICK a \in 0..MaxAge : InsertCompaction(r, manifest[r].inputs \cap Rows, a)
      BY <1>7, AdoptEffect
    <2>3. UNCHANGED <<dir, remote, abandoned, queue, ustep, urev>>
      BY <1>7 DEF AdoptCompaction
    <2> QED
      BY <2>1, <2>2, <2>3, InsertEffect, RequiredDestination DEF IInv, PublishedIsSettled, Revisions
  <1>8. ASSUME NEW d \in Destination, EnsureDestinationBackfill(d) PROVE PublishedIsSettled'
    BY <1>8 DEF IInv, TypeOK, PublishedIsSettled, RequiredOf, EnsureDestinationBackfill
  <1>9. ASSUME NEW d \in Destination, RetireDestination(d) PROVE PublishedIsSettled'
    <2>1. \A x \in Revision : Files(x)' = Files(x) /\ RequiredOf(x)' = RequiredOf(x)
      BY <1>9, ManifestFrame DEF RetireDestination
    <2>2. \A x \in published' \ published : \A e \in RequiredOf(x) : upload'[x][e] \in {"verified",
          "retired"}
      BY <1>9, RetireEffect
    <2>3. \A x \in Revision, e \in Destination : upload[x][e] \in {"verified", "retired"} =>
          upload'[x][e] \in {"verified", "retired"}
      BY <1>9, RetireEffect
    <2> QED
      BY <1>9, <2>1, <2>2, <2>3, RequiredDestination DEF IInv, PublishedIsSettled
  <1>10. ASSUME NEW r \in Revision, NEW d \in Destination, DestinationNotConfigured(r, d) PROVE
        PublishedIsSettled'
    <2>1. \A x \in Revision : Files(x)' = Files(x) /\ RequiredOf(x)' = RequiredOf(x)
      BY <1>10, ManifestFrame DEF DestinationNotConfigured
    <2>2. \A x \in Revision, e \in Destination : upload[x][e] \in {"verified", "retired"} =>
          upload'[x][e] = upload[x][e]
      BY <1>10, SetUploadEffect DEF IInv, DestinationNotConfigured, Pending
    <2> QED
      BY <1>10, <2>1, <2>2, RequiredDestination DEF IInv, PublishedIsSettled,
        DestinationNotConfigured
  <1>11. CASE LoseDatabase
    BY <1>11 DEF IInv, TypeOK, PublishedIsSettled, RequiredOf, LoseDatabase
  <1> QED
    BY <1>0, <1>1, <1>2, <1>3, <1>4, <1>5, <1>6, <1>7, <1>8, <1>9, <1>10, <1>11 DEF Next,
      CaptureNext, CompactNext, UploadNext, RetentionNext,
      StartupNext, OperatorNext, EnvironmentNext, RecordTick, Commit, SaveCapture, SaveCaptureFails,
            CompactSelect, CompactRead, SaveCompactionFails, PendingUploads, PrepareRemoteDir,
            CopyData, CopyManifest, UploadFails, CleanupRaw, CleanupParquet, CleanupSummaries,
            CleanupFails, ProcessPendingFails,
            SummarizeDay, RemoveCapture, MarkCaptureRetained, RemoveArtifact, Start, RegisterDone,
            AdoptDone, Stop, Register, AdoptCompactionFails, Command, CommandDone, Crash,
            TimePasses, Damage, Repair

\* Only RemoveArtifact removes a local file, of a revision that is delivered.
LEMMA ExpiredIsDeliveredStep == IInv /\ Next => ExpiredIsDelivered'
  <1> SUFFICES ASSUME IInv, Next PROVE ExpiredIsDelivered'
    OBVIOUS
  <1>0. ASSUME UNCHANGED <<dir, manifest, remote, abandoned>> PROVE ExpiredIsDelivered'
    BY <1>0 DEF IInv, TypeOK, ExpiredIsDelivered, Delivered, RequiredOf, Files
  <1>1. CASE CommitRevision
    BY <1>1 DEF IInv, TypeOK, ExpiredIsDelivered, Delivered, RequiredOf, Files, CommitRevision
  <1>2. ASSUME NEW d \in Destination, CopyData(d) PROVE ExpiredIsDelivered'
    <2>1. \A x \in Revision : Files(x)' = Files(x) /\ RequiredOf(x)' = RequiredOf(x)
      BY <1>2, ManifestFrame DEF CopyData
    <2> QED
      BY <1>2, <2>1, CopyEffect, RequiredDestination DEF IInv, ExpiredIsDelivered, Delivered,
        CopyData
  <1>3. ASSUME NEW d \in Destination, CopyManifest(d) PROVE ExpiredIsDelivered'
    <2>1. \A x \in Revision : Files(x)' = Files(x) /\ RequiredOf(x)' = RequiredOf(x)
      BY <1>3, ManifestFrame DEF CopyManifest
    <2> QED
      BY <1>3, <2>1, CopyEffect, RequiredDestination DEF IInv, ExpiredIsDelivered, Delivered,
        CopyManifest
  <1>4. ASSUME NEW r \in Revision, RemoveArtifact(r) PROVE ExpiredIsDelivered'
    <2>1. Delivered(r)
      BY <1>4, PublishedIsDelivered DEF IInv, RetentionInv, Revisions, RemoveArtifact
    <2> QED
      BY <1>4, <2>1 DEF IInv, TypeOK, ExpiredIsDelivered, Delivered, RequiredOf, Files,
        RemoveArtifact
  <1>5. ASSUME NEW d \in Destination, RetireDestination(d) PROVE ExpiredIsDelivered'
    BY <1>5 DEF IInv, TypeOK, ExpiredIsDelivered, Delivered, RequiredOf, Files, RetireDestination
  <1> QED
    BY <1>0, <1>1, <1>2, <1>3, <1>4, <1>5 DEF Next, CaptureNext, CompactNext, UploadNext,
      RetentionNext,
      StartupNext, OperatorNext, EnvironmentNext, RecordTick, Commit, SaveCapture, SaveCaptureFails,
            CompactSelect, CompactRead, SaveCompaction, SaveCompactionFails, PendingUploads,
            PrepareRemoteDir, MarkUploadAttempt, UploadFails, MarkUploadVerified, MarkUploadFailed,
            CleanupRaw, CleanupParquet, CleanupSummaries, CleanupFails, ProcessPendingFails,
            SummarizeDay, RemoveCapture,
            MarkCaptureRetained, MarkParquetRetained, Start, RegisterDone, AdoptDone, Stop,
            Register, AdoptCompaction, AdoptCompactionFails, Command, CommandDone,
            EnsureDestinationBackfill, DestinationNotConfigured, Crash, LoseDatabase, TimePasses,
            Damage, Repair

\* Only RemoveCapture removes a payload, of a capture that a delivered revision lists.
LEMMA RetainedIsArchivedStep == IInv /\ Next => RetainedIsArchived'
  <1> SUFFICES ASSUME IInv, Next PROVE RetainedIsArchived'
    OBVIOUS
  <1>0. ASSUME UNCHANGED <<payload, manifest, unreadable, remote, abandoned>> PROVE
        RetainedIsArchived'
    BY <1>0 DEF IInv, TypeOK, RetainedIsArchived, Delivered, RequiredOf, Files
  <1>1. ASSUME NEW c \in Capture, Commit(c) PROVE RetainedIsArchived'
    BY <1>1 DEF IInv, TypeOK, RetainedIsArchived, Delivered, RequiredOf, Files, Commit
  <1>2. CASE CompactRead
    BY <1>2 DEF IInv, TypeOK, RetainedIsArchived, Delivered, RequiredOf, Files, CompactRead
  <1>3. CASE CommitRevision
    <2>1. \A x \in Revision \ {crev} : /\ manifest'[x] = manifest[x]
                                           /\ Files(x)' = Files(x) /\ RequiredOf(x)' = RequiredOf(x)
      BY <1>3, CommitEffect DEF Files, RequiredOf
    <2>2. crev \in Revision /\ manifest[crev].inputs = {}
      BY <1>3, CommitEffect DEF NoManifest
    <2>3. UNCHANGED <<payload, remote, unreadable, abandoned>>
      BY <1>3 DEF CommitRevision
    <2> QED
      BY <2>1, <2>2, <2>3 DEF IInv, RetainedIsArchived, Delivered
  <1>4. ASSUME NEW d \in Destination, CopyData(d) PROVE RetainedIsArchived'
    <2>1. \A x \in Revision : Files(x)' = Files(x) /\ RequiredOf(x)' = RequiredOf(x)
      BY <1>4, ManifestFrame DEF CopyData
    <2> QED
      BY <1>4, <2>1, CopyEffect, RequiredDestination DEF IInv, RetainedIsArchived, Delivered,
        CopyData
  <1>5. ASSUME NEW d \in Destination, CopyManifest(d) PROVE RetainedIsArchived'
    <2>1. \A x \in Revision : Files(x)' = Files(x) /\ RequiredOf(x)' = RequiredOf(x)
      BY <1>5, ManifestFrame DEF CopyManifest
    <2> QED
      BY <1>5, <2>1, CopyEffect, RequiredDestination DEF IInv, RetainedIsArchived, Delivered,
        CopyManifest
  <1>6. ASSUME NEW c \in Capture, RemoveCapture(c) PROVE RetainedIsArchived'
    <2>1. PICK r \in Revisions : r \in published /\ c \in listed[r]
      BY <1>6 DEF IInv, RetentionInv, RemoveCapture
    <2>2. c \in manifest[r].inputs
      BY <2>1 DEF IInv, RevisionInv, Revisions
    <2>3. c \in manifest[r].content \cup unreadable
      BY <1>6, <2>1, <2>2 DEF IInv, CaptureInv, RemoveCapture, Revisions
    <2>4. Delivered(r)
      BY <2>1, PublishedIsDelivered DEF Revisions
    <2> QED
      BY <1>6, <2>1, <2>2, <2>3, <2>4 DEF IInv, TypeOK, RetainedIsArchived, Delivered, RequiredOf,
        Files, RemoveCapture, Revisions
  <1>7. ASSUME NEW d \in Destination, RetireDestination(d) PROVE RetainedIsArchived'
    BY <1>7 DEF IInv, TypeOK, RetainedIsArchived, Delivered, RequiredOf, Files, RetireDestination
  <1>8. ASSUME NEW c \in Capture, Damage(c) PROVE RetainedIsArchived'
    BY <1>8 DEF IInv, TypeOK, RetainedIsArchived, Delivered, RequiredOf, Files, Damage
  <1>9. ASSUME NEW c \in Capture, Repair(c) PROVE RetainedIsArchived'
    BY <1>9 DEF IInv, TypeOK, RetainedIsArchived, Delivered, RequiredOf, Files, Repair
  <1> QED
    BY <1>0, <1>1, <1>2, <1>3, <1>4, <1>5, <1>6, <1>7, <1>8, <1>9 DEF Next, CaptureNext,
      CompactNext, UploadNext, RetentionNext,
      StartupNext, OperatorNext, EnvironmentNext, RecordTick, SaveCapture, SaveCaptureFails,
            CompactSelect, SaveCompaction, SaveCompactionFails, PendingUploads, PrepareRemoteDir,
            MarkUploadAttempt, UploadFails, MarkUploadVerified, MarkUploadFailed, CleanupRaw,
            CleanupParquet, CleanupSummaries, CleanupFails, ProcessPendingFails, SummarizeDay,
            MarkCaptureRetained, RemoveArtifact,
            MarkParquetRetained, Start, RegisterDone, AdoptDone, Stop, Register, AdoptCompaction,
            AdoptCompactionFails, Command, CommandDone, EnsureDestinationBackfill,
            DestinationNotConfigured, Crash, LoseDatabase, TimePasses

-----------------------------------------------------------------------------
(* The theorems *)

\* An empty data volume and an empty database satisfy every part of the invariant.
LEMMA InitInv == Init => IInv
  <1> SUFFICES ASSUME Init PROVE IInv
    OBVIOUS
  <1> USE DEF Init, EmptyDatabase, IdleProcesses
  <1>1. TypeOK
    <2>1. age \in [Revision -> 0..MaxAge]
      BY MaxAgeNat
    <2>2. upload \in [Revision -> [Destination -> UploadStatus]]
      BY DEF UploadStatus
    <2>3. manifest \in [Revision -> [inputs : SUBSET Capture, content : SUBSET Capture,
                                     dests : SUBSET Destination]]
      BY DEF NoManifest
    <2> QED
      BY <2>1, <2>2, <2>3 DEF TypeOK
  <1>2. ProcessInv /\ RevisionInv
    BY DEF ProcessInv, UploadersIdle, RevisionInv, NoManifest
  <1>3. UploaderInv /\ RemoteInv
    BY DEF UploaderInv, RemoteInv, Revisions, Files
  <1>4. CaptureInv /\ RetentionInv
    BY DEF CaptureInv, RetentionInv, NoManifest
  <1>5. ManifestLast /\ VerifiedIsRemote /\ PublishedIsSettled
    BY DEF ManifestLast, VerifiedIsRemote, PublishedIsSettled
  <1>6. ExpiredIsDelivered /\ RetainedIsArchived
    BY DEF ExpiredIsDelivered, RetainedIsArchived
  <1> QED
    BY <1>1, <1>2, <1>3, <1>4, <1>5, <1>6 DEF IInv

\* The parts of the invariant are preserved together.
LEMMA StepInv == IInv /\ [Next]_vars => IInv'
  <1>1. IInv /\ Next => IInv'
    BY TypeStep, ProcessStep, RevisionStep, UploaderStep, RemoteStep, CaptureStep, RetentionStep,
      ManifestLastStep, VerifiedIsRemoteStep, PublishedIsSettledStep, ExpiredIsDeliveredStep,
      RetainedIsArchivedStep DEF IInv
  <1>2. IInv /\ UNCHANGED vars => IInv'
    <2> SUFFICES ASSUME IInv, UNCHANGED vars PROVE IInv'
      OBVIOUS
    <2> USE DEF vars, processVars
    <2>1. TypeOK' /\ ProcessInv' /\ RevisionInv' /\ CaptureInv' /\ RetentionInv'
      BY DEF IInv, TypeOK, ProcessInv, UploadersIdle, RevisionInv, CaptureInv, RetentionInv,
        Revisions
    <2>2. UploaderInv' /\ RemoteInv' /\ ManifestLast' /\ VerifiedIsRemote' /\ PublishedIsSettled'
      BY DEF IInv, UploaderInv, Revisions, RemoteInv, ManifestLast, VerifiedIsRemote,
             PublishedIsSettled, Files, RequiredOf
    <2>3. ExpiredIsDelivered' /\ RetainedIsArchived'
      BY DEF IInv, ExpiredIsDelivered, RetainedIsArchived, Delivered, RequiredOf, Files
    <2> QED
      BY <2>1, <2>2, <2>3 DEF IInv
  <1> QED
    BY <1>1, <1>2

\* The inductive invariant holds in every reachable state.
THEOREM Invariance == Spec => []IInv
  BY InitInv, StepInv, PTL DEF Spec

\* Every variable keeps its type, for any captures, destinations and bounds.
THEOREM TypeCorrect == Spec => []TypeOK
  <1>1. IInv => TypeOK
    BY DEF IInv
  <1> QED
    BY <1>1, Invariance, PTL

\* Retention.Cleanup removes a payload only when a delivered revision holds the capture
\* or excluded it as unreadable, whatever crashes, database losses, damage, operator
\* commands and racing uploads have happened before.
THEOREM RetentionIsSafe == Spec => []RetainedIsArchived
  <1>1. IInv => RetainedIsArchived
    BY DEF IInv
  <1> QED
    BY <1>1, Invariance, PTL

\* The local Parquet files of a revision are removed only after its delivery.
THEOREM ExpiryIsSafe == Spec => []ExpiredIsDelivered
  <1>1. IInv => ExpiredIsDelivered
    BY DEF IInv
  <1> QED
    BY <1>1, Invariance, PTL

\* A reader of a remote never sees a manifest before the data file it names
\* (Uploader.publish copies the data files first).
THEOREM ManifestIsLast == Spec => []ManifestLast
  <1>1. IInv => ManifestLast
    BY DEF IInv
  <1> QED
    BY <1>1, Invariance, PTL

\* A verified upload in the database stands for a complete revision at its remote
\* (MarkUploadVerified).
THEOREM UploadsAreSafe == Spec => []VerifiedIsRemote
  <1>1. IInv => VerifiedIsRemote
    BY DEF IInv
  <1> QED
    BY <1>1, Invariance, PTL

\* No interleaving of uploads, retention and operator commands reopens a required
\* upload of a published revision.
THEOREM PublicationIsFinal == Spec => []PublishedIsSettled
  <1>1. IInv => PublishedIsSettled
    BY DEF IInv
  <1> QED
    BY <1>1, Invariance, PTL

\* Compact and startup reconciliation never touch a revision number that is in use.
THEOREM Immutability == Spec => RevisionsImmutable
  <1> DEFINE A == \A r \in Revision : dir[r] # "none" => manifest'[r] = manifest[r] /\ dir'[r] # "none"
  <1>1. IInv /\ [Next]_vars => [A]_vars
    <2> SUFFICES ASSUME IInv, Next PROVE A
      BY Zenon
    <2>1. CASE CommitRevision
      BY <2>1, CommitEffect
    <2>2. ASSUME NEW r \in Revision, RemoveArtifact(r) PROVE A
      BY <2>2 DEF IInv, TypeOK, RemoveArtifact
    <2>3. ASSUME UNCHANGED <<dir, manifest>> PROVE A
      BY <2>3
    <2> QED
      BY <2>1, <2>2, <2>3 DEF Next, CaptureNext, CompactNext, UploadNext, RetentionNext,
        StartupNext, OperatorNext, EnvironmentNext, RecordTick, Commit, SaveCapture,
              SaveCaptureFails, CompactSelect, CompactRead, SaveCompaction, SaveCompactionFails,
              PendingUploads, PrepareRemoteDir, MarkUploadAttempt, CopyData, CopyManifest,
              UploadFails, MarkUploadVerified, MarkUploadFailed, CleanupRaw, CleanupParquet,
              CleanupSummaries, CleanupFails, ProcessPendingFails, SummarizeDay, RemoveCapture,
              MarkCaptureRetained,
              MarkParquetRetained, Start, RegisterDone, AdoptDone, Stop, Register, AdoptCompaction,
              AdoptCompactionFails, Command, CommandDone, EnsureDestinationBackfill,
              RetireDestination, DestinationNotConfigured, Crash, LoseDatabase, TimePasses, Damage,
              Repair
  <1> QED
    BY <1>1, Invariance, PTL DEF Spec, RevisionsImmutable

\* SummarizeDay deletes capture rows only when every one of them has lost its payload.
THEOREM SummaryIsSafe == Spec => SummaryForgetsNothing
  <1> DEFINE A == ~summarized /\ summarized' => \A c \in Capture : row[c] # "none" => payload[c] = "removed"
  <1>1. IInv /\ [Next]_vars => [A]_vars
    <2> SUFFICES ASSUME IInv, Next PROVE A
      BY Zenon
    <2>1. CASE SummarizeDay
      BY <2>1 DEF IInv, TypeOK, CaptureInv, SummarizeDay, LiveRaw
    <2>2. ASSUME summarized' \in {FALSE, summarized} PROVE A
      BY <2>2
    <2> QED
      BY <2>1, <2>2 DEF Next, CaptureNext, CompactNext, UploadNext, RetentionNext,
        StartupNext, OperatorNext, EnvironmentNext, RecordTick, Commit, SaveCapture,
              SaveCaptureFails, CompactSelect, CompactRead, CommitRevision, SaveCompaction,
              SaveCompactionFails, PendingUploads, PrepareRemoteDir, MarkUploadAttempt, CopyData,
              CopyManifest, UploadFails, MarkUploadVerified, MarkUploadFailed, CleanupRaw,
              CleanupParquet, CleanupSummaries, CleanupFails, ProcessPendingFails, RemoveCapture,
              MarkCaptureRetained, RemoveArtifact,
              MarkParquetRetained, Start, RegisterDone, AdoptDone, Stop, Register, AdoptCompaction,
              AdoptCompactionFails, Command, CommandDone, EnsureDestinationBackfill,
              RetireDestination, DestinationNotConfigured, Crash, LoseDatabase, TimePasses, Damage,
              Repair
  <1> QED
    BY <1>1, Invariance, PTL DEF Spec, SummaryForgetsNothing
-----------------------------------------------------------------------------
(* Newer revisions hold what older ones hold *)

\* A finite set of numbers has a largest one: the fewest numbers lie above it.
LEMMA FiniteMaximum ==
  ASSUME NEW S, IsFiniteSet(S), S \subseteq Int, S # {}
  PROVE  \E m \in S : \A x \in S : x <= m
  <1> DEFINE Up(x) == {y \in S : y >= x}
             F == {Up(x) : x \in S}
  <1>1. FiniteSubsetsOf(S) = SUBSET S
    BY FS_FiniteSubsetsOfFinite
  <1>2. IsWellFoundedOn(StrictSubsetOrdering(S), SUBSET S)
    BY <1>1, FS_StrictSubsetOrderingWellFounded
  <1>3. F \subseteq SUBSET S /\ F # {}
    OBVIOUS
  <1>4. PICK T \in F : \A U \in F : ~(<<U, T>> \in StrictSubsetOrdering(S))
    <2> HIDE DEF F
    <2> QED
      BY <1>2, <1>3, WFMin, Zenon
  <1>5. PICK m \in S : T = Up(m)
    OBVIOUS
  <1>6. ASSUME NEW x \in S, x > m PROVE FALSE
    <2>1. Up(x) \in F /\ Up(x) \subseteq S /\ T \subseteq S
      BY <1>5
    <2>2. Up(x) \subseteq T /\ Up(x) # T
      <3>1. (\A y \in S : y >= x => y >= m) /\ m >= m /\ ~(m >= x)
        BY <1>6
      <3> QED
        BY <1>5, <3>1
    <2>3. <<Up(x), T>> \in StrictSubsetOrdering(S)
      BY <2>1, <2>2 DEF StrictSubsetOrdering
    <2> QED
      BY <1>4, <2>1, <2>3
  <1> QED
    BY <1>6

\* The revision a compaction starts from: none, or the newest directory, whose rows
\* are there.
LEMMA NewestIsLatest ==
  ASSUME IInv, ContentInv, CompactSelect
  PROVE  /\ \A x \in Revision : x < NextRevision => dir[x] # "none"
         /\ \A r \in Revision : \A c \in manifest[r].content :
              c \in Rows \cup unreadable \/ payload[c] = "removed"
  <1>1. NextRevision \in Revision /\ dir[NextRevision] = "none"
    BY DEF CompactSelect, DirectoryFree
  <1>2. Revisions \subseteq Revision /\ \A r \in Revisions : dir[r] # "none"
    BY DEF IInv, RevisionInv, Revisions
  <1>3. \A r \in Revision : dir[r] # "none" => \A x \in Revision : x < r => dir[x] # "none"
    BY DEF ContentInv
  <1>4. \A r \in Revision : dir[r] # "none" => r < NextRevision
    BY <1>1, <1>3 DEF Revision
  <1>5. ASSUME NEW r \in Revision, NEW c \in manifest[r].content
        PROVE  dir[r] # "none"
    BY <1>5 DEF IInv, RevisionInv, NoManifest
  <1>6. CASE Revisions = {}
    <2>1. NextRevision = 1
      BY <1>6 DEF NextRevision
    <2> QED
      BY <1>4, <1>5, <2>1 DEF Revision
  <1>7. CASE Revisions # {}
    <2>1. NextRevision = Latest + 1
      BY <1>7 DEF NextRevision
    <2>2. Latest \in Revisions
      <3>1. IsFiniteSet(Revisions)
        <4>1. IsFiniteSet(1..MaxRevision)
          BY ArchiveAssumption, FS_Interval
        <4> QED
          BY <1>2, <4>1, FS_Subset DEF Revision
      <3>2. PICK m \in Revisions : \A x \in Revisions : x <= m
        <4>1. Revisions \subseteq Int
          BY <1>2 DEF Revision
        <4> QED
          BY <1>7, <3>1, <4>1, FiniteMaximum
      <3> QED
        BY <3>2 DEF Latest
    <2>3. ASSUME NEW x \in Revision, x < NextRevision PROVE dir[x] # "none"
      BY <1>2, <1>3, <2>1, <2>2, <2>3 DEF Revision
    <2>4. ASSUME NEW r \in Revision, NEW c \in manifest[r].content
          PROVE  c \in Rows \cup unreadable \/ payload[c] = "removed"
      <3>1. r = Latest \/ r < Latest
        BY <1>2, <1>4, <1>5, <2>1, <2>2, <2>4 DEF Revision
      <3>2. c \in Capture
        BY <2>4 DEF IInv, TypeOK
      <3>3. c \in manifest[Latest].content \cup unreadable \/ payload[c] = "removed"
        BY <1>2, <2>2, <2>4, <3>1 DEF ContentInv
      <3>4. c \in manifest[Latest].content => row[c] # "none" \/ payload[c] = "removed"
        BY <2>2 DEF ContentInv
      <3> QED
        BY <3>2, <3>3, <3>4 DEF Rows
    <2> QED
      BY <2>3, <2>4
  <1> QED
    BY <1>6, <1>7

\* The renamed directory is the newest and holds all that is not unreadable or gone.
LEMMA CommitKeepsContent ==
  ASSUME IInv, ContentInv, CommitRevision
  PROVE  ContentInv'
  <1>1. /\ crev \in Revision
        /\ dir[crev] = "none" /\ manifest[crev] = NoManifest /\ compaction[crev] = "none"
        /\ dir'[crev] = "whole"
        /\ manifest'[crev] = [inputs |-> ccaps, content |-> cread, dests |-> config]
        /\ \A x \in Revision \ {crev} : dir'[x] = dir[x] /\ manifest'[x] = manifest[x]
    BY CommitEffect
  <1>2. manifest'[crev].content = cread /\ manifest'[crev].inputs = ccaps
    BY <1>1
  <1>3. UNCHANGED <<payload, row, compaction, unreadable, ccaps, cread, crev>> /\ cstep' = "renamed" /\ cstep = "read"
    BY DEF CommitRevision
  <1>4. cread \subseteq ccaps /\ \A c \in ccaps : row[c] # "none"
    BY <1>3 DEF ContentInv
  <1>5. \A r \in Revision : crev < r => dir[r] = "none"
    BY <1>1 DEF ContentInv
  <1>6. ASSUME NEW x \in Revision, NEW c \in manifest[x].content
        PROVE  c \in cread \cup unreadable \/ payload[c] = "removed"
    BY <1>3, <1>6 DEF IInv, CaptureInv, ContentInv
  <1>7. ASSUME NEW r \in Revision, NEW x \in Revision, x < r, dir'[r] # "none"
        PROVE  /\ dir'[x] # "none"
               /\ \A c \in manifest'[x].content :
                    c \in manifest'[r].content \cup unreadable' \/ payload'[c] = "removed"
    <2>1. x # crev
      BY <1>1, <1>5, <1>7 DEF Revision
    <2>2. CASE r = crev
      BY <1>1, <1>2, <1>3, <1>6, <1>7, <2>1, <2>2 DEF ContentInv
    <2>3. CASE r # crev
      BY <1>1, <1>3, <1>7, <2>1, <2>3 DEF ContentInv
    <2> QED
      BY <2>2, <2>3
  <1>8. \A r \in Revision : manifest'[r].content \subseteq manifest'[r].inputs
    BY <1>1, <1>2, <1>4 DEF ContentInv
  <1>9. ASSUME NEW r \in Revisions', NEW c \in manifest'[r].content
        PROVE  row'[c] # "none" \/ payload'[c] = "removed"
    <2>1. r \in Revisions /\ r # crev
      BY <1>1, <1>3, <1>9 DEF Revisions
    <2>2. r \in Revision /\ manifest'[r] = manifest[r]
      BY <1>1, <2>1 DEF Revisions
    <2> QED
      BY <1>3, <1>9, <2>1, <2>2 DEF ContentInv
  <1> QED
    BY <1>3, <1>4, <1>7, <1>8, <1>9 DEF ContentInv

\* Rows inserted for a directory come with those of the captures it holds.
LEMMA InsertKeepsContent ==
  ASSUME IInv, ContentInv, NEW r \in Revision, NEW inputs, NEW a \in 0..MaxAge,
         InsertCompaction(r, inputs, a),
         \A c \in manifest[r].content : row[c] # "none" \/ payload[c] = "removed",
         UNCHANGED <<payload, dir, manifest, row, unreadable>>,
         cstep' = "idle"
  PROVE  ContentInv'
  <1>1. \A x \in Revision \ {r} : compaction'[x] = compaction[x]
    BY InsertEffect DEF IInv
  <1>2. Revisions' \subseteq Revisions \cup {r}
    BY <1>1 DEF Revisions
  <1> QED
    BY <1>2 DEF ContentInv

\* Everything else leaves the directories alone but for files that retention removes,
\* no payload comes back, and rows go only with the payload or with every row.
LEMMA ContentFrame ==
  ASSUME IInv, ContentInv, UNCHANGED manifest,
         \A r \in Revision : dir'[r] = "none" <=> dir[r] = "none",
         Revisions' \subseteq Revisions,
         unreadable \subseteq unreadable',
         \A c \in Capture : payload[c] = "removed" => payload'[c] = "removed",
         Revisions' # {} => \A c \in Capture : row[c] # "none" => row'[c] # "none" \/ payload'[c] = "removed",
         \/ cstep' = "idle"
         \/ /\ UNCHANGED <<cstep, crev, ccaps, cread>>
            /\ \A c \in Capture : row[c] # "none" => row'[c] # "none"
  PROVE  ContentInv'
  <1>1. \A r \in Revision : manifest[r].content \subseteq Capture
    BY DEF IInv, TypeOK
  <1>2. ccaps \subseteq Capture /\ Revisions \subseteq Revision
    BY DEF IInv, TypeOK, Revisions
  <1>3. \A r, x \in Revision : x < r /\ dir'[r] # "none" =>
         /\ dir'[x] # "none"
         /\ \A c \in manifest'[x].content :
              c \in manifest'[r].content \cup unreadable' \/ payload'[c] = "removed"
    BY <1>1 DEF ContentInv
  <1>4. \A r \in Revisions' : \A c \in manifest'[r].content :
         row'[c] # "none" \/ payload'[c] = "removed"
    BY <1>1, <1>2 DEF ContentInv
  <1>5. /\ cstep' # "idle" => \A c \in ccaps' : row'[c] # "none"
        /\ cstep' \in {"read", "renamed"} => cread' \subseteq ccaps'
    BY <1>2 DEF ContentInv
  <1>6. cstep' \in {"selected", "read"} =>
         /\ \A x \in Revision : x < crev' => dir'[x] # "none"
         /\ \A r \in Revision : \A c \in manifest'[r].content :
              c \in ccaps' \cup unreadable' \/ payload'[c] = "removed"
    <2>1. CASE cstep' = "idle"
      BY <2>1
    <2>2. CASE UNCHANGED <<cstep, crev, ccaps, cread>>
      <3>1. crev \in Int
        BY DEF IInv, TypeOK, Revision
      <3> QED
      BY <1>1, <2>2, <3>1 DEF ContentInv
    <2> QED
      BY <2>1, <2>2
  <1>7. \A r \in Revision : manifest'[r].content \subseteq manifest'[r].inputs
    BY DEF ContentInv
  <1> QED
    BY <1>3, <1>4, <1>5, <1>6, <1>7 DEF ContentInv
\* The parts of ContentInv are preserved together.
LEMMA ContentStep == IInv /\ ContentInv /\ [Next]_vars => ContentInv'
  <1> SUFFICES ASSUME IInv, ContentInv, [Next]_vars PROVE ContentInv'
    OBVIOUS
  <1>0. ASSUME UNCHANGED <<payload, dir, manifest, row, compaction, unreadable>>,
               cstep' = "idle" \/ UNCHANGED <<cstep, crev, ccaps, cread>>
        PROVE  ContentInv'
    <2>1. Revisions' = Revisions
      BY <1>0 DEF Revisions
    <2> QED
      BY <1>0, <2>1, ContentFrame
  <1>1. ASSUME NEW c \in Capture, Commit(c) PROVE ContentInv'
    <2>1. Revisions' = Revisions /\ \A x \in Capture : payload[x] = "removed" => payload'[x] = "removed"
      BY <1>1 DEF Commit, Revisions, IInv, TypeOK
    <2> QED
      BY <1>1, <2>1, ContentFrame DEF Commit
  <1>2. ASSUME NEW c \in Capture, SaveCapture(c) \/ Register(c) PROVE ContentInv'
    <2>1. Revisions' = Revisions /\ \A x \in Capture : row[x] # "none" => row'[x] # "none"
      BY <1>2 DEF SaveCapture, Register, Revisions, IInv, TypeOK
    <2> QED
      BY <1>2, <2>1, ContentFrame DEF SaveCapture, Register
  <1>3. CASE CompactSelect
    <2>1. /\ \A x \in Revision : x < NextRevision => dir[x] # "none"
          /\ \A r \in Revision : \A c \in manifest[r].content :
               c \in Rows \cup unreadable \/ payload[c] = "removed"
      BY <1>3, NewestIsLatest
    <2>2. Revisions' = Revisions
      BY <1>3 DEF CompactSelect, Revisions
    <2> QED
      BY <1>3, <2>1, <2>2 DEF CompactSelect, ContentInv, Rows
  <1>4. CASE CompactRead
    <2>1. Revisions' = Revisions /\ unreadable \subseteq unreadable'
      BY <1>4 DEF CompactRead, Revisions
    <2>2. CASE cstep' = "idle"
      BY <1>4, <2>1, <2>2, ContentFrame DEF CompactRead
    <2>3. CASE cstep' = "read"
      <3>1. UNCHANGED <<payload, dir, manifest, row, compaction, crev, ccaps>> /\ cread' \subseteq ccaps
        BY <1>4, <2>3 DEF CompactRead
      <3>2. cstep = "selected"
        BY <1>4 DEF CompactRead
      <3> QED
        BY <2>1, <2>3, <3>1, <3>2 DEF ContentInv
    <2> QED
      BY <1>4, <2>2, <2>3 DEF CompactRead
  <1>5. CASE CommitRevision
    BY <1>5, CommitKeepsContent
  <1>6. CASE SaveCompaction
    <2>1. crev \in Revision /\ ccaps = manifest[crev].inputs /\ InsertCompaction(crev, ccaps, 0)
      BY <1>6, SaveEffect
    <2>2. \A c \in manifest[crev].content : row[c] # "none"
      BY <1>6, <2>1 DEF ContentInv, SaveCompaction
    <2>3. 0 \in 0..MaxAge
      BY MaxAgeNat
    <2> QED
      BY <1>6, <2>1, <2>2, <2>3, InsertKeepsContent DEF SaveCompaction, CompactorIdle
  <1>7. ASSUME NEW r \in Revision, AdoptCompaction(r) PROVE ContentInv'
    <2>1. PICK a \in 0..MaxAge : InsertCompaction(r, manifest[r].inputs \cap Rows, a)
      BY <1>7, AdoptEffect
    <2>2. \A c \in manifest[r].content : row[c] # "none"
      BY <1>7 DEF AdoptCompaction, Adoptable, Excluded, ContentInv
    <2>3. cstep' = "idle"
      BY <1>7 DEF AdoptCompaction, IInv, TypeOK, ProcessInv
    <2> QED
      BY <1>7, <2>1, <2>2, <2>3, InsertKeepsContent DEF AdoptCompaction
  <1>8. ASSUME NEW c \in Capture, RemoveCapture(c) \/ Damage(c) \/ Repair(c) PROVE ContentInv'
    <2>1. Revisions' = Revisions /\ \A x \in Capture : payload[x] = "removed" => payload'[x] = "removed"
      BY <1>8 DEF RemoveCapture, Damage, Repair, Revisions, IInv, TypeOK
    <2> QED
      BY <1>8, <2>1, ContentFrame DEF RemoveCapture, Damage, Repair
  <1>9. ASSUME NEW c \in Capture, MarkCaptureRetained(c) PROVE ContentInv'
    <2>1. Revisions' = Revisions /\ \A x \in Capture : row[x] # "none" => row'[x] # "none"
      BY <1>9 DEF MarkCaptureRetained, Revisions, IInv, TypeOK
    <2> QED
      BY <1>9, <2>1, ContentFrame DEF MarkCaptureRetained
  <1>10. ASSUME NEW r \in Revision, RemoveArtifact(r) PROVE ContentInv'
    <2>1. Revisions' = Revisions /\ \A x \in Revision : dir'[x] = "none" <=> dir[x] = "none"
      BY <1>10 DEF RemoveArtifact, Revisions, IInv, TypeOK, ManifestPresent
    <2> QED
      BY <1>10, <2>1, ContentFrame DEF RemoveArtifact
  <1>11. ASSUME NEW r \in Revision, MarkParquetRetained(r) PROVE ContentInv'
    <2>1. r \in Revisions
      BY <1>11 DEF MarkParquetRetained, IInv, RetentionInv
    <2>2. Revisions' \subseteq Revisions
      BY <1>11, <2>1 DEF MarkParquetRetained, Revisions, IInv, TypeOK
    <2> QED
      BY <1>11, <2>2, ContentFrame DEF MarkParquetRetained
  <1>12. CASE SummarizeDay
    <2>1. Revisions' = Revisions
      BY <1>12 DEF SummarizeDay, Revisions
    <2>2. \A c \in Capture : row[c] # "none" => row'[c] # "none" \/ payload'[c] = "removed"
      BY <1>12 DEF SummarizeDay, LiveRaw, IInv, TypeOK, CaptureInv
    <2>3. cstep' = "idle"
      BY <1>12 DEF SummarizeDay, IInv, ProcessInv
    <2> QED
      BY <1>12, <2>1, <2>2, <2>3, ContentFrame DEF SummarizeDay
  <1>13. CASE LoseDatabase
    <2>1. Revisions' = {}
      BY <1>13 DEF LoseDatabase, Revisions
    <2>2. cstep' = "idle"
      BY <1>13 DEF LoseDatabase, IInv, TypeOK, ProcessInv
    <2> QED
      BY <1>13, <2>1, <2>2, ContentFrame DEF LoseDatabase
  <1> QED
    BY <1>0, <1>1, <1>2, <1>3, <1>4, <1>5, <1>6, <1>7, <1>8, <1>9, <1>10, <1>11, <1>12, <1>13 DEF
      vars, Next, CaptureNext, CompactNext, UploadNext, RetentionNext,
      StartupNext, OperatorNext, EnvironmentNext, RecordTick, SaveCaptureFails,
            SaveCompactionFails, CompactorIdle, PendingUploads, PrepareRemoteDir,
            MarkUploadAttempt, CopyData, CopyManifest, UploadFails, MarkUploadVerified,
            MarkUploadFailed, CleanupRaw, CleanupParquet, CleanupSummaries, CleanupFails,
            ProcessPendingFails, Start, RegisterDone, AdoptDone, Stop,
            AdoptCompactionFails, Command, CommandDone, EnsureDestinationBackfill,
            RetireDestination, DestinationNotConfigured, Crash, TimePasses

\* The invariant of the revisions, for every reachable state.
LEMMA ContentInvariance == Spec => []ContentInv
  <1>1. Init => ContentInv
    BY DEF Init, EmptyDatabase, IdleProcesses, ContentInv, NoManifest, Revisions
  <1> QED
    BY <1>1, ContentStep, Invariance, PTL DEF Spec

\* A new revision (Compact) holds every capture an older one holds as long as its payload
\* can be read, also after damage, repairs, adoptions, commands and a lost database.
THEOREM RevisionsGrow == Spec => RevisionsKeepContent
  <1> DEFINE A == \A r \in Revision : dir[r] = "none" /\ dir'[r] = "whole" =>
                    \A x \in Revision : \A c \in manifest[x].content :
                       payload[c] = "intact" => c \in manifest'[r].content \cup unreadable
  <1>1. IInv /\ ContentInv /\ [Next]_vars => [A]_vars
    <2> SUFFICES ASSUME IInv, ContentInv, Next PROVE A
      BY Zenon
    <2>1. CASE CommitRevision
      <3>1. ASSUME NEW x \in Revision, NEW c \in manifest[x].content, payload[c] = "intact"
            PROVE  c \in cread \cup unreadable
        BY <2>1, <3>1 DEF CommitRevision, ContentInv, IInv, CaptureInv
      <3>2. crev \in Revision /\ manifest'[crev].content = cread
        BY <2>1, CommitEffect
      <3>3. \A r \in Revision \ {crev} : dir'[r] = dir[r]
        BY <2>1, CommitEffect
      <3> QED
        BY <3>1, <3>2, <3>3
    <2>2. ASSUME NEW r \in Revision, RemoveArtifact(r) PROVE A
      BY <2>2 DEF IInv, TypeOK, RemoveArtifact
    <2>3. ASSUME UNCHANGED dir PROVE A
      BY <2>3
    <2> QED
      BY <2>1, <2>2, <2>3 DEF Next, CaptureNext, CompactNext, UploadNext, RetentionNext,
        StartupNext, OperatorNext, EnvironmentNext, RecordTick, Commit, SaveCapture,
              SaveCaptureFails, CompactSelect, CompactRead, SaveCompaction, SaveCompactionFails,
              PendingUploads, PrepareRemoteDir, MarkUploadAttempt, CopyData, CopyManifest,
              UploadFails, MarkUploadVerified, MarkUploadFailed, CleanupRaw, CleanupParquet,
              CleanupSummaries, CleanupFails, ProcessPendingFails, SummarizeDay, RemoveCapture,
              MarkCaptureRetained,
              MarkParquetRetained, Start, RegisterDone, AdoptDone, Stop, Register, AdoptCompaction,
              AdoptCompactionFails, Command, CommandDone, EnsureDestinationBackfill,
              RetireDestination, DestinationNotConfigured, Crash, LoseDatabase, TimePasses, Damage,
              Repair
  <1> QED
    BY <1>1, Invariance, ContentInvariance, PTL DEF Spec, RevisionsKeepContent
=============================================================================
