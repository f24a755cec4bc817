-------------------------- MODULE PublicationProofs --------------------------
(***************************************************************************)
(* What Publication promises for any revisions, directories and faults.    *)
(* The remote only grows, so what a step of the worker has seen there      *)
(* still holds when the row is marked (SeenStep); a remote file differs    *)
(* from its revision's only when the local one is damaged (OwnData,        *)
(* OwnManifest).                                                           *)
(***************************************************************************)
EXTENDS Publication, TLAPS

\* TypeOK without the bounds of attempts and wait, which no property here uses.
Typed ==
    /\ status \in [Item -> Open \cup {"verified", "permanent_failure"}]
    /\ remoteDir \in [Item -> Directory \cup {NoDirectory}]
    /\ damaged \subseteq Damageable
    /\ data \in [Directory -> [Item -> Contents]]
    /\ manifest \in [Directory -> Contents]
    /\ outage \in Repairable \cup {None}
    /\ item \in Item \cup {Nothing} /\ queue \subseteq Item
    /\ step \in Steps \cup {Idle} /\ (step = Idle <=> item = Nothing)
    /\ expected \in Contents

\* The directory of a revision's row, once the attempt is marked.
OwnDirectory(i) ==
    /\ remoteDir[i] \in Directory
    /\ remoteDir[i] = HiveDir(i) \/ <<i, "misdirected">> \in damaged

\* What the worker has derived, read and verified before it goes on to the next
\* step.
SeenStep ==
    /\ step \in {"verify", "read", "data", "manifest", "verified"} => OwnDirectory(item)
    /\ step \in {"data", "manifest", "verified"} =>
        expected.of = item /\ Explained(item, expected.form)
    /\ step \in {"manifest", "verified"} => data[remoteDir[item]][item] = Compacted(item)
    /\ step = "verified" => manifest[remoteDir[item]] = expected

\* A remote data file is the revision's, or the local one was damaged.
OwnData ==
    \A k \in Directory : \A i \in Item : data[k][i] \in {NoFile, Compacted(i)} \/ ~Whole(i)

\* A remote manifest is as the compactor wrote it, or damaged as the local one is.
OwnManifest ==
    \A k \in Directory : manifest[k] # NoFile =>
        manifest[k].of \in Item /\ Explained(manifest[k].of, manifest[k].form)

\* A verified row has a directory.
VerifiedDir == \A i \in Item : status[i] = "verified" => remoteDir[i] \in Directory

IInv == Typed /\ SeenStep /\ OwnData /\ OwnManifest /\ VerifiedDir
        /\ VerifiedIsOwn /\ ManifestHasData /\ PermanentHasCause

-----------------------------------------------------------------------------
(* The parts of a step. *)

\* The directory of a revision is one of the directories (hiveDir).
LEMMA HiveDirType == \A i \in Item : HiveDir(i) \in Directory
  BY DEF Directory

\* An item is not the value for none, and its files are not the missing one.
LEMMA ItemFacts ==
  /\ Nothing \notin Item /\ NoFile \in Contents /\ NoFile.of = Nothing
  /\ \A i \in Item : Compacted(i) \in Contents /\ Compacted(i) # NoFile
                     /\ Compacted(i).of = i /\ Compacted(i).form = Intact
  BY PublicationAssumption DEF Nothing, NoFile, Compacted, Content, Contents

\* What is known of the local files of a revision (VerifyDirectory).
LEMMA LocalFacts ==
  ASSUME NEW i \in Item
  PROVE /\ Explained(i, Form(i)) /\ Content(i, Form(i)) \in Contents
        /\ Whole(i) => /\ Local(i, "data") = Compacted(i)
                       /\ Local(i, "manifest") = Compacted(i)
        /\ \A f : Explained(i, f) /\ Whole(i) /\ f \in Damage \cup {Intact} => f = Intact
        /\ \A file \in File : Local(i, file) \in Contents /\ Local(i, file) # NoFile
                              /\ Local(i, file).of = i
        /\ Explained(i, Local(i, "manifest").form)
<1>1. Form(i) \in ManifestDamage \cup {Intact} /\ Explained(i, Form(i))
  BY DEF Form, Explained
<1>2. Content(i, Form(i)) \in Contents
  BY <1>1 DEF Contents, Damage
<1>3. Whole(i) => Form(i) = Intact
  BY DEF Whole, Form, Damage
<1>4. \A f : Explained(i, f) /\ Whole(i) /\ f \in Damage \cup {Intact} => f = Intact
  BY DEF Explained, Whole
<1>5. Whole(i) => Local(i, "data") = Compacted(i) /\ Local(i, "manifest") = Compacted(i)
  BY <1>3 DEF Local, Compacted, Whole, Damage
<1>6. /\ Local(i, "manifest") = Content(i, Form(i))
      /\ Local(i, "data") \in {Content(i, "data"), Content(i, Intact)}
  BY DEF Local
<1>7. Content(i, "data") \in Contents /\ Content(i, Intact) \in Contents
  BY DEF Contents, Damage
<1>8. \A f : Content(i, f).of = i /\ Content(i, f).form = f /\ Content(i, f) # NoFile
  BY PublicationAssumption DEF Content, NoFile, Nothing
<1> QED
  BY <1>1, <1>2, <1>4, <1>5, <1>6, <1>7, <1>8 DEF File

\* A file is what it is of and its form.
LEMMA ContentsDiffer ==
  ASSUME NEW i \in Item, NEW c \in Contents, c # NoFile, c.of = i, c.form = Intact
  PROVE c = Compacted(i)
  BY DEF Contents, Compacted, Content

\* The forms of what there is.
LEMMA FormType == \A c \in Contents : c # NoFile => c.form \in Damage \cup {Intact} /\ c.of \in Item
  BY DEF Contents, Content

\* What a step may do to the remote: add the file the worker is at.
RemoteGrows ==
    /\ \A k \in Directory : \A i \in Item : data'[k][i] = data[k][i] \/ data[k][i] = NoFile
    /\ \A k \in Directory : manifest'[k] = manifest[k] \/ manifest[k] = NoFile

\* copyto --immutable adds the data file of the revision in hand, or nothing.
LEMMA CopyData ==
  ASSUME Typed, item \in Item, remoteDir[item] \in Directory, Copy("data")
  PROVE /\ RemoteGrows /\ manifest' = manifest
        /\ data' \in [Directory -> [Item -> Contents]]
        /\ \A k \in Directory : \A i \in Item :
            k # remoteDir[item] \/ i # item => data'[k][i] = data[k][i]
        /\ data[remoteDir[item]][item] = NoFile =>
            data'[remoteDir[item]][item] = Local(item, "data")
<1> DEFINE sent == Local(item, "data")
<1>1. sent \in Contents
  BY LocalFacts DEF File
<1>2. PICK k \in Directory : k = remoteDir[item]
  OBVIOUS
<1>3. /\ manifest' = manifest
      /\ data' = [data EXCEPT ![k][item] = IF data[k][item] = NoFile THEN sent ELSE data[k][item]]
  BY <1>2 DEF Copy, Immutably
<1> HIDE DEF sent
<1>4. PICK v : v = IF data[k][item] = NoFile THEN sent ELSE data[k][item]
  OBVIOUS
<1>5. v \in Contents
  BY <1>1, <1>2, <1>4 DEF Typed
<1>6. data' = [data EXCEPT ![k] = [data[k] EXCEPT ![item] = v]]
  BY <1>2, <1>3, <1>4 DEF Typed
<1>7. /\ data' \in [Directory -> [Item -> Contents]]
      /\ \A j \in Directory : \A i \in Item : j # k \/ i # item => data'[j][i] = data[j][i]
      /\ data'[k][item] = v
  BY <1>2, <1>5, <1>6 DEF Typed
<1>8. RemoteGrows
  <2>1. \A j \in Directory : \A i \in Item : data'[j][i] = data[j][i] \/ data[j][i] = NoFile
    BY <1>2, <1>4, <1>7
  <2> QED
    BY <1>3, <2>1 DEF RemoteGrows
<1> QED
  BY <1>2, <1>3, <1>4, <1>7, <1>8 DEF sent

\* So it is with the manifest, in the revision's directory.
LEMMA CopyManifest ==
  ASSUME Typed, item \in Item, remoteDir[item] \in Directory, Copy("manifest")
  PROVE /\ RemoteGrows /\ data' = data
        /\ manifest' \in [Directory -> Contents]
        /\ \A k \in Directory \ {remoteDir[item]} : manifest'[k] = manifest[k]
        /\ manifest[remoteDir[item]] = NoFile =>
            manifest'[remoteDir[item]] = Local(item, "manifest")
<1>1. Local(item, "manifest") \in Contents
  BY LocalFacts DEF File
<1>2. /\ data' = data
      /\ manifest' = [manifest EXCEPT ![remoteDir[item]] =
            IF manifest[remoteDir[item]] = NoFile THEN Local(item, "manifest") ELSE @]
  BY DEF Copy, Immutably
<1> QED
  BY <1>1, <1>2 DEF Typed, RemoteGrows

\* A row whose status a step leaves alone, opens, or sets for a cause it has seen
\* keeps its promises on a remote that only grows (MarkUploadVerified,
\* MarkUploadFailed).
LEMMA RowsKeep ==
  ASSUME IInv, RemoteGrows, damaged \subseteq damaged',
         \A i \in Item :
            \/ status'[i] = status[i] /\ remoteDir'[i] = remoteDir[i]
            \/ status'[i] \in Open
            \/ /\ status'[i] = "verified" /\ remoteDir'[i] = remoteDir[i]
               /\ OwnDirectory(i) /\ data[remoteDir[i]][i] = Compacted(i)
               /\ manifest[remoteDir[i]].of = i /\ Explained(i, manifest[remoteDir[i]].form)
            \/ status'[i] = "permanent_failure" /\ (~Whole(i)' \/ Conflict(i)')
  PROVE VerifiedDir' /\ VerifiedIsOwn' /\ PermanentHasCause'
<1>1. ASSUME NEW i \in Item, status'[i] = "verified"
      PROVE /\ remoteDir'[i] = remoteDir[i] /\ OwnDirectory(i)
            /\ data[remoteDir[i]][i] = Compacted(i)
            /\ manifest[remoteDir[i]].of = i /\ Explained(i, manifest[remoteDir[i]].form)
  <2>1. status[i] = "verified" =>
            /\ OwnDirectory(i) /\ data[remoteDir[i]][i] = Compacted(i)
            /\ manifest[remoteDir[i]].of = i /\ Explained(i, manifest[remoteDir[i]].form)
    BY DEF IInv, VerifiedIsOwn, VerifiedDir, OwnDirectory
  <2> QED
    BY <1>1, <2>1 DEF Open
<1>2. ASSUME NEW i \in Item, NEW f, Explained(i, f) PROVE Explained(i, f)'
  BY <1>2 DEF Explained
<1>3. ASSUME NEW k \in Directory, manifest[k] # NoFile PROVE manifest'[k] = manifest[k]
  BY <1>3 DEF RemoteGrows
<1>4. ASSUME NEW i \in Item, status'[i] = "verified"
      PROVE /\ remoteDir'[i] \in Directory
            /\ data'[remoteDir'[i]][i] = Compacted(i)
            /\ manifest'[remoteDir'[i]].of = i
            /\ Explained(i, manifest[remoteDir[i]].form)'
            /\ remoteDir'[i] = HiveDir(i) \/ <<i, "misdirected">> \in damaged'
  <2>1. PICK k \in Directory : k = remoteDir[i]
    BY <1>1, <1>4 DEF OwnDirectory
  <2>2. /\ remoteDir'[i] = k /\ data[k][i] = Compacted(i)
        /\ manifest[k].of = i /\ Explained(i, manifest[k].form)
        /\ k = HiveDir(i) \/ <<i, "misdirected">> \in damaged
    BY <1>1, <1>4, <2>1 DEF OwnDirectory
  <2>3. manifest'[k] = manifest[k]
    BY <1>3, <2>2, ItemFacts
  <2>4. data'[k][i] = Compacted(i)
    BY <2>2, ItemFacts DEF RemoteGrows
  <2>5. Explained(i, manifest[remoteDir[i]].form)'
    BY <2>2, <2>3 DEF Explained
  <2> QED
    BY <2>1, <2>2, <2>3, <2>4, <2>5
<1>5. VerifiedDir' /\ VerifiedIsOwn'
  BY <1>4 DEF VerifiedDir, VerifiedIsOwn
<1>6. \A i \in Item : ~Whole(i) => ~Whole(i)'
  BY DEF Whole
<1>7. ASSUME NEW i \in Item, Conflict(i) PROVE Conflict(i)'
  <2>1. manifest[HiveDir(i)] # NoFile
    BY <1>7, ItemFacts DEF Conflict
  <2> QED
    BY <1>3, <1>7, <2>1, HiveDirType DEF Conflict
<1>8. \A i \in Item : status'[i] = "permanent_failure" => ~Whole(i)' \/ Conflict(i)'
  BY <1>6, <1>7 DEF IInv, PermanentHasCause, Open
<1> QED
  BY <1>5, <1>8 DEF PermanentHasCause

\* A failed attempt opens the row again or, for an error of the files' hashes,
\* closes it (MarkUploadFailed, isPermanent).
LEMMA FailedRow ==
  ASSUME Typed, NEW i \in Item, NEW c, NEW a, MarkUploadFailed(i, c, a)
  PROVE /\ status' \in [Item -> Open \cup {"verified", "permanent_failure"}]
        /\ remoteDir' = remoteDir
        /\ \A j \in Item \ {i} : status'[j] = status[j]
        /\ status'[i] = IF IsPermanent(c) THEN "permanent_failure" ELSE "retry"
  BY DEF Typed, MarkUploadFailed, Open

\* An outage, a rejected configuration or a killed rclone is not permanent.
LEMMA RepairableIsNot ==
  /\ \A c \in Repairable : ~IsPermanent(c)
  /\ ~IsPermanent("destination_not_configured") /\ ~IsPermanent("stream_not_configured")
  BY DEF Repairable, IsPermanent

\* A step that leaves the remote alone keeps what is known of it.
LEMMA StillRemote ==
  ASSUME IInv, UNCHANGED remote, damaged \subseteq damaged'
  PROVE OwnData' /\ OwnManifest' /\ ManifestHasData' /\ RemoteGrows
<1>1. OwnData'
  BY DEF IInv, OwnData, Whole, remote
<1>2. OwnManifest'
  BY DEF IInv, OwnManifest, Explained, remote
<1>3. ManifestHasData' /\ RemoteGrows
  BY DEF IInv, ManifestHasData, remote, RemoteGrows
<1> QED
  BY <1>1, <1>2, <1>3

\* The worker has seen nothing before it is at a step, and keeps what it has seen.
LEMMA StillSeen ==
  ASSUME IInv, UNCHANGED remote, damaged \subseteq damaged',
         \/ step' \in {Idle, "prepare"}
         \/ UNCHANGED <<item, step, expected>> /\ (item \in Item => remoteDir'[item] = remoteDir[item])
  PROVE SeenStep'
<1>1. CASE step' \in {Idle, "prepare"}
  BY <1>1 DEF SeenStep, Idle
<1>2. CASE /\ UNCHANGED <<item, step, expected>>
           /\ item \in Item => remoteDir'[item] = remoteDir[item]
  <2>1. step \in Steps => item \in Item
    BY DEF IInv, Typed, Steps, Idle
  <2>2. ASSUME step \in Steps, OwnDirectory(item) PROVE OwnDirectory(item)'
    BY <1>2, <2>1, <2>2 DEF OwnDirectory
  <2>3. ASSUME Explained(item, expected.form) PROVE Explained(item, expected.form)'
    BY <1>2, <2>3 DEF Explained
  <2>4. step \in Steps => remoteDir'[item'] = remoteDir[item]
    BY <1>2, <2>1
  <2> QED
    BY <1>2, <2>2, <2>3, <2>4 DEF IInv, SeenStep, remote, Steps
<1> QED
  BY <1>1, <1>2

-----------------------------------------------------------------------------
(* The steps. *)

\* Reading the queue and taking a revision from it (ProcessPending).
LEMMA QueueSteps ==
  ASSUME IInv, PendingUploads \/ \E i \in Item : NextItem(i)
  PROVE IInv'
<1>1. UNCHANGED <<damaged, remote, outage>>
  BY DEF PendingUploads, NextItem
<1>2. OwnData' /\ OwnManifest' /\ ManifestHasData' /\ RemoteGrows
  BY <1>1, StillRemote
<1>3. CASE PendingUploads
  <2>1. Typed'
    BY <1>1, <1>3 DEF IInv, Typed, PendingUploads, rows, remote
  <2>2. SeenStep'
    BY <1>1, <1>3, StillSeen DEF PendingUploads, rows
  <2>3. VerifiedDir' /\ VerifiedIsOwn' /\ PermanentHasCause'
    BY <1>1, <1>2, <1>3, RowsKeep DEF PendingUploads, rows
  <2> QED
    BY <1>2, <2>1, <2>2, <2>3 DEF IInv
<1>4. ASSUME NEW i \in Item, NextItem(i) PROVE IInv'
  <2>1. CASE config.destination
    <3>1. /\ item' = i /\ step' = "prepare" /\ UNCHANGED <<status, remoteDir, expected>>
          /\ queue' = queue \ {i}
      BY <1>4, <2>1 DEF NextItem, Goes, rows
    <3>2. Typed'
      BY <1>1, <3>1, ItemFacts DEF IInv, Typed, remote, Steps, Idle
    <3>3. SeenStep'
      BY <1>1, <3>1, StillSeen
    <3>4. VerifiedDir' /\ VerifiedIsOwn' /\ PermanentHasCause'
      BY <1>1, <1>2, <3>1, RowsKeep
    <3> QED
      BY <1>2, <3>2, <3>3, <3>4 DEF IInv
  <2>2. CASE ~config.destination
    <3>1. UNCHANGED <<item, step, expected>> /\ queue' = queue \ {i}
      BY <1>4, <2>2 DEF NextItem
    <3>2. MarkUploadFailed(i, "destination_not_configured", attempts[i])
      BY <1>4, <2>2 DEF NextItem
    <3>3. /\ status' \in [Item -> Open \cup {"verified", "permanent_failure"}]
          /\ remoteDir' = remoteDir
          /\ \A j \in Item \ {i} : status'[j] = status[j]
          /\ status'[i] = "retry"
      BY <3>2, FailedRow, RepairableIsNot DEF IInv
    <3>4. Typed'
      BY <1>1, <3>1, <3>3 DEF IInv, Typed, remote
    <3>5. SeenStep'
      BY <1>1, <3>1, <3>3, StillSeen
    <3>6. VerifiedDir' /\ VerifiedIsOwn' /\ PermanentHasCause'
      BY <1>1, <1>2, <3>3, RowsKeep DEF Open
    <3> QED
      BY <1>2, <3>4, <3>5, <3>6 DEF IInv
  <2> QED
    BY <2>1, <2>2
<1> QED
  BY <1>3, <1>4

\* The worker has a revision in hand whenever it is at a step (processOne).
LEMMA InHand == ASSUME Typed, step \in Steps PROVE item \in Item /\ step # Idle
  BY DEF Typed, Steps, Idle

\* Fail and Reject let go of the revision and say how its row ends.
LEMMA Failing ==
  ASSUME Typed, item \in Item, NEW c, Fail(c) \/ Reject(c)
  PROVE /\ item' = Nothing /\ step' = Idle /\ expected' = NoFile
        /\ status' \in [Item -> Open \cup {"verified", "permanent_failure"}]
        /\ remoteDir' = remoteDir
        /\ \A j \in Item \ {item} : status'[j] = status[j]
        /\ status'[item] = IF IsPermanent(c) THEN "permanent_failure" ELSE "retry"
<1>1. LetGo /\ \E a : MarkUploadFailed(item, c, a)
  BY DEF Fail, Reject
<1> QED
  BY <1>1, FailedRow DEF LetGo

\* A step that gives up keeps everything if, where the error is for good, it has
\* the cause (errorCategory, isPermanent).
LEMMA GivesUp ==
  ASSUME IInv, step \in Steps, UNCHANGED <<damaged, outage, queue>>,
         RemoteGrows, OwnData', OwnManifest', ManifestHasData',
         data' \in [Directory -> [Item -> Contents]], manifest' \in [Directory -> Contents],
         NEW c, Fail(c) \/ Reject(c),
         IsPermanent(c) => ~Whole(item) \/ manifest'[HiveDir(item)].of \notin {item, Nothing}
  PROVE IInv'
<1>1. /\ item' = Nothing /\ step' = Idle /\ expected' = NoFile /\ item \in Item
      /\ status' \in [Item -> Open \cup {"verified", "permanent_failure"}]
      /\ remoteDir' = remoteDir
      /\ \A j \in Item \ {item} : status'[j] = status[j]
      /\ status'[item] = IF IsPermanent(c) THEN "permanent_failure" ELSE "retry"
  BY Failing, InHand DEF IInv
<1>2. Typed'
  BY <1>1, ItemFacts DEF IInv, Typed
<1>3. SeenStep'
  BY <1>1 DEF SeenStep, Idle
<1>4. \A i \in Item : \/ status'[i] = status[i] /\ remoteDir'[i] = remoteDir[i]
                      \/ status'[i] \in Open
                      \/ status'[i] = "permanent_failure" /\ (~Whole(i)' \/ Conflict(i)')
  <2>1. \A i \in Item : ~Whole(i) => ~Whole(i)'
    BY DEF Whole
  <2>2. \A i \in Item : manifest'[HiveDir(i)].of \notin {i, Nothing} => Conflict(i)'
    BY DEF Conflict
  <2> QED
    BY <1>1, <2>1, <2>2 DEF Open
<1>5. VerifiedDir' /\ VerifiedIsOwn' /\ PermanentHasCause'
  BY <1>4, RowsKeep
<1> QED
  BY <1>2, <1>3, <1>5 DEF IInv

\* The same before anything was sent.
LEMMA GivesUpEarly ==
  ASSUME IInv, step \in Steps, UNCHANGED <<damaged, outage, queue, remote>>,
         NEW c, Fail(c) \/ Reject(c), IsPermanent(c) => ~Whole(item)
  PROVE IInv'
<1>1. OwnData' /\ OwnManifest' /\ ManifestHasData' /\ RemoteGrows
  BY StillRemote
<1>2. data' \in [Directory -> [Item -> Contents]] /\ manifest' \in [Directory -> Contents]
  BY DEF IInv, Typed, remote
<1> QED
  BY <1>1, <1>2, GivesUp

\* A manifest that names another directory, or none, is damaged (hiveDir).
LEMMA DerivedDirectory ==
  ASSUME NEW i \in Item, NEW k \in Derived(i)
  PROVE k \in Directory /\ (k = HiveDir(i) \/ <<i, "misdirected">> \in damaged)
<1>1. Form(i) = "misdirected" => <<i, "misdirected">> \in damaged
  BY LocalFacts DEF Explained, Intact
<1> QED
  BY <1>1, HiveDirType DEF Derived

\* A revision whose manifest or data is found wrong is not whole (VerifyDirectory).
LEMMA WrongIsNotWhole ==
  ASSUME NEW i \in Item, Form(i) # Intact \/ <<i, "data">> \in damaged
  PROVE ~Whole(i)
<1>1. Form(i) # Intact => \E d \in ManifestDamage : <<i, d>> \in damaged
  BY DEF Form
<1> QED
  BY <1>1 DEF Whole, Damage

\* The directory is derived and the attempt counted (prepareRemoteDir,
\* MarkUploadAttempt).
LEMMA PrepareStep == ASSUME IInv, Prepare PROVE IInv'
<1>1. UNCHANGED <<damaged, remote, outage, queue>> /\ step = "prepare"
  BY DEF Prepare
<1>2. step \in Steps /\ item \in Item
  BY <1>1, InHand DEF IInv, Steps
<1>3. CASE \E c : Reject(c) /\ (IsPermanent(c) => ~Whole(item))
  BY <1>1, <1>2, <1>3, GivesUpEarly
<1>4. ASSUME NEW k \in Derived(item), MarkUploadAttempt(k), Goes(item, "verify") PROVE IInv'
  <2>1. k \in Directory /\ (k = HiveDir(item) \/ <<item, "misdirected">> \in damaged)
    BY <1>2, DerivedDirectory
  <2>2. /\ item' = item /\ step' = "verify" /\ expected' = expected
        /\ status' = [status EXCEPT ![item] = "uploading"]
        /\ remoteDir' = [remoteDir EXCEPT ![item] = k]
    BY <1>4 DEF MarkUploadAttempt, Goes
  <2>3. Typed'
    BY <1>1, <1>2, <2>1, <2>2, ItemFacts DEF IInv, Typed, remote, Steps, Idle, Open
  <2>4. OwnData' /\ OwnManifest' /\ ManifestHasData' /\ RemoteGrows
    BY <1>1, StillRemote
  <2>5. SeenStep'
    <3>1. remoteDir'[item'] = k /\ damaged' = damaged
      BY <1>1, <1>2, <2>2 DEF IInv, Typed
    <3>2. OwnDirectory(item)'
      BY <2>1, <2>2, <3>1 DEF OwnDirectory, HiveDir, Directory
    <3> QED
      BY <2>2, <3>2 DEF SeenStep
  <2>6. \A i \in Item : (status'[i] = status[i] /\ remoteDir'[i] = remoteDir[i]) \/ status'[i] \in Open
    BY <1>2, <2>2 DEF IInv, Typed, Open
  <2>7. VerifiedDir' /\ VerifiedIsOwn' /\ PermanentHasCause'
    BY <1>1, <2>4, <2>6, RowsKeep
  <2> QED
    BY <2>3, <2>4, <2>5, <2>7 DEF IInv
<1>5. CASE Form(item) \in {"unparsable", "unmappable"}
  <2>1. ~Whole(item)
    BY <1>2, <1>5, WrongIsNotWhole DEF Intact
  <2> QED
    BY <1>3, <1>5, <2>1 DEF Prepare
<1>6. CASE Form(item) \notin {"unparsable", "unmappable"}
  BY <1>3, <1>4, <1>6, RepairableIsNot DEF Prepare
<1> QED
  BY <1>5, <1>6

\* The local files are checked, and the manifest is read once more (publish).
LEMMA CheckSteps == ASSUME IInv, VerifyDirectory \/ ReadManifest PROVE IInv'
<1>1. UNCHANGED <<damaged, remote, outage, queue>> /\ step \in {"verify", "read"}
  BY DEF VerifyDirectory, ReadManifest
<1>2. step \in Steps /\ item \in Item
  BY <1>1, InHand DEF IInv, Steps
<1>3. OwnData' /\ OwnManifest' /\ ManifestHasData' /\ RemoteGrows
  BY <1>1, StillRemote
<1>4. ASSUME item' = item, step' \in {"read", "data"}, UNCHANGED rows,
             expected' \in Contents,
             step' = "data" => expected'.of = item /\ Explained(item, expected'.form)
      PROVE IInv'
  <2>1. Typed'
    BY <1>1, <1>2, <1>4, ItemFacts DEF IInv, Typed, remote, rows, Steps, Idle
  <2>2. OwnDirectory(item)'
    BY <1>1, <1>4 DEF IInv, SeenStep, OwnDirectory, rows
  <2>3. step' = "data" => expected'.of = item' /\ Explained(item, expected.form)'
    BY <1>1, <1>4 DEF Explained
  <2>4. SeenStep'
    BY <1>4, <2>2, <2>3 DEF SeenStep
  <2>5. VerifiedDir' /\ VerifiedIsOwn' /\ PermanentHasCause'
    BY <1>1, <1>3, <1>4, RowsKeep DEF rows
  <2> QED
    BY <1>3, <2>1, <2>4, <2>5 DEF IInv
<1>5. CASE VerifyDirectory /\ (Contradicts(item) \/ Unusual(item)) /\ Fail("local_integrity")
  <2>1. ~Whole(item)
    BY <1>2, <1>5, WrongIsNotWhole DEF Contradicts, Unusual, Intact
  <2> QED
    BY <1>1, <1>2, <1>5, <2>1, GivesUpEarly
<1>6. CASE VerifyDirectory /\ Goes(item, "read") /\ UNCHANGED rows
  <2>1. expected' = expected /\ item' = item /\ step' = "read" /\ UNCHANGED rows
    BY <1>6 DEF Goes
  <2>2. expected' \in Contents
    BY <2>1 DEF IInv, Typed
  <2> QED
    BY <1>4, <2>1, <2>2
<1>7. CASE ReadManifest
  <2>1. /\ item' = item /\ step' = "data" /\ expected' = Content(item, Form(item))
        /\ UNCHANGED rows
    BY <1>7 DEF ReadManifest
  <2>2. expected' \in Contents /\ expected'.of = item /\ Explained(item, expected'.form)
    <3>1. Content(item, Form(item)).of = item /\ Content(item, Form(item)).form = Form(item)
      BY DEF Content
    <3> QED
      BY <1>2, <2>1, <3>1, LocalFacts
  <2> QED
    BY <1>4, <2>1, <2>2
<1> QED
  BY <1>5, <1>6, <1>7 DEF VerifyDirectory

\* What a copy leaves at the remote keeps data and manifests in their order
\* (publish copies the data file before the manifest and verifies it).
LEMMA CopyKeeps ==
  ASSUME IInv, NEW file \in File, step = file, Copy(file), UNCHANGED damaged
  PROVE /\ item \in Item /\ remoteDir[item] \in Directory
        /\ RemoteGrows /\ OwnData' /\ OwnManifest' /\ ManifestHasData'
        /\ data' \in [Directory -> [Item -> Contents]]
        /\ manifest' \in [Directory -> Contents]
        /\ file = "data" => data'[remoteDir[item]][item] = Compacted(item) \/ ~Whole(item)
        /\ file = "manifest" => /\ data'[remoteDir[item]][item] = Compacted(item)
                                /\ manifest'[remoteDir[item]] # NoFile
<1>1. item \in Item
  BY InHand DEF IInv, File, Steps
<1>2. PICK k \in Directory : k = remoteDir[item]
  BY DEF IInv, SeenStep, OwnDirectory, File
<1>3. CASE file = "data"
  <2>1. /\ RemoteGrows /\ manifest' = manifest
        /\ data' \in [Directory -> [Item -> Contents]]
        /\ \A j \in Directory : \A i \in Item : j # k \/ i # item => data'[j][i] = data[j][i]
        /\ data[k][item] = NoFile => data'[k][item] = Local(item, "data")
    BY <1>1, <1>2, <1>3, CopyData DEF IInv
  <2>2. data'[k][item] = Compacted(item) \/ ~Whole(item)
    <3>1. data[k][item] # NoFile => data'[k][item] = data[k][item]
      BY <1>1, <2>1 DEF RemoteGrows
    <3>2. data[k][item] \in {NoFile, Compacted(item)} \/ ~Whole(item)
      BY <1>1 DEF IInv, OwnData
    <3> QED
      BY <1>1, <2>1, <3>1, <3>2, LocalFacts
  <2>3. OwnData'
    <3>1. \A j \in Directory : \A i \in Item : data'[j][i] \in {NoFile, Compacted(i)} \/ ~Whole(i)
      BY <1>1, <2>1, <2>2 DEF IInv, OwnData
    <3> QED
      BY <3>1 DEF OwnData, Whole
  <2>4. OwnManifest'
    BY <2>1 DEF IInv, OwnManifest, Explained
  <2>5. ManifestHasData'
    <3>1. ASSUME NEW j \in Directory, manifest[j] # NoFile
          PROVE data'[j][manifest[j].of] = Compacted(manifest[j].of)
      <4>1. PICK i \in Item : i = manifest[j].of
        BY <3>1 DEF IInv, OwnManifest
      <4>2. data[j][i] = Compacted(i)
        BY <3>1, <4>1 DEF IInv, ManifestHasData
      <4> QED
        BY <2>1, <4>1, <4>2, ItemFacts DEF RemoteGrows
    <3> QED
      BY <2>1, <3>1 DEF ManifestHasData
  <2> QED
    BY <1>1, <1>2, <1>3, <2>1, <2>2, <2>3, <2>4, <2>5 DEF IInv, Typed
<1>4. CASE file = "manifest"
  <2>1. /\ RemoteGrows /\ data' = data
        /\ manifest' \in [Directory -> Contents]
        /\ \A j \in Directory \ {k} : manifest'[j] = manifest[j]
        /\ manifest[k] = NoFile => manifest'[k] = Local(item, "manifest")
    BY <1>1, <1>2, <1>4, CopyManifest DEF IInv
  <2>2. data[k][item] = Compacted(item)
    BY <1>2, <1>4 DEF IInv, SeenStep
  <2>3. manifest[k] # NoFile => manifest'[k] = manifest[k]
    BY <2>1 DEF RemoteGrows
  <2>4. /\ Local(item, "manifest") # NoFile /\ Local(item, "manifest").of = item
        /\ Explained(item, Local(item, "manifest").form)
    BY <1>1, LocalFacts DEF File
  <2>5. manifest'[k] # NoFile
    BY <2>1, <2>3, <2>4
  <2>6. OwnData'
    BY <2>1 DEF IInv, OwnData, Whole
  <2>7. OwnManifest'
    <3>1. \A j \in Directory : manifest'[j] # NoFile =>
            manifest'[j].of \in Item /\ Explained(manifest'[j].of, manifest'[j].form)
      BY <1>1, <2>1, <2>3, <2>4 DEF IInv, OwnManifest
    <3> QED
      BY <3>1 DEF OwnManifest, Explained
  <2>8. ManifestHasData'
    BY <2>1, <2>2, <2>3, <2>4 DEF IInv, ManifestHasData
  <2> QED
    BY <1>1, <1>2, <1>4, <2>1, <2>2, <2>5, <2>6, <2>7, <2>8 DEF IInv, Typed
<1> QED
  BY <1>3, <1>4 DEF File

\* A copy that differs from what it should be has a wrong file for its cause
\* (copyAndVerify).
LEMMA MismatchHasCause ==
  ASSUME IInv, NEW file \in File, step = file, Copy(file), UNCHANGED damaged, ~Matches(file)
  PROVE ~Whole(item) \/ manifest'[HiveDir(item)].of \notin {item, Nothing}
<1> SUFFICES ASSUME Whole(item) PROVE manifest'[HiveDir(item)].of \notin {item, Nothing}
  OBVIOUS
<1>1. item \in Item
  BY CopyKeeps
<1>2. Local(item, file) = Compacted(item)
  BY <1>1, LocalFacts DEF File
<1>3. CASE file = "data"
  <2>1. data'[remoteDir[item]][item] = Compacted(item)
    BY <1>3, CopyKeeps
  <2> QED
    BY <1>2, <1>3, <2>1 DEF Matches, Found, Expected
<1>4. CASE file = "manifest"
  <2>1. remoteDir[item] = HiveDir(item) /\ HiveDir(item) \in Directory
    BY <1>1, <1>4, HiveDirType DEF IInv, SeenStep, OwnDirectory, Whole, Damage, ManifestDamage
  <2>2. expected = Compacted(item)
    <3>1. expected \in Contents /\ expected.of = item /\ Explained(item, expected.form)
      BY <1>4 DEF IInv, Typed, SeenStep
    <3>2. expected # NoFile /\ expected.form \in Damage \cup {Intact}
      BY <1>1, <3>1, ItemFacts, FormType
    <3>3. expected.form = Intact
      BY <1>1, <3>1, <3>2, LocalFacts
    <3> QED
      BY <1>1, <3>1, <3>2, <3>3, ContentsDiffer
  <2>3. PICK c \in Contents : c = manifest'[HiveDir(item)]
    BY <2>1, CopyKeeps
  <2>4. c # NoFile /\ c # Compacted(item)
    BY <1>2, <1>4, <2>1, <2>2, <2>3, CopyKeeps DEF Matches, Found, Expected
  <2>5. c.of \in Item /\ c.form \in Damage \cup {Intact}
    BY <2>4, FormType
  <2>6. Explained(c.of, c.form)
    BY <2>1, <2>3, <2>4, CopyKeeps DEF OwnManifest, Explained
  <2>7. c.of # item
    <3> SUFFICES ASSUME c.of = item PROVE FALSE
      OBVIOUS
    <3>1. c.form = Intact
      BY <1>1, <2>5, <2>6, LocalFacts
    <3> QED
      BY <1>1, <2>4, <3>1, ContentsDiffer
  <2> QED
    BY <2>3, <2>5, <2>7, ItemFacts
<1> QED
  BY <1>3, <1>4 DEF File

\* One file is sent, or found, and compared, or rclone fails (copyAndVerify).
LEMMA CopySteps ==
  ASSUME IInv, NEW file \in File, CopyAndVerify(file) \/ CopyFails(file)
  PROVE IInv'
<1>1. /\ step = file /\ UNCHANGED <<damaged, queue>> /\ outage' = outage
      /\ Copy(file) \/ UNCHANGED remote
  BY DEF CopyAndVerify, CopyFails
<1>2. item \in Item /\ step \in Steps
  BY <1>1, InHand DEF IInv, File, Steps
<1>3. /\ RemoteGrows /\ OwnData' /\ OwnManifest' /\ ManifestHasData'
      /\ data' \in [Directory -> [Item -> Contents]]
      /\ manifest' \in [Directory -> Contents]
  <2>1. CASE Copy(file)
    BY <1>1, <2>1, CopyKeeps
  <2>2. CASE UNCHANGED remote
    BY <1>1, <2>2, StillRemote DEF IInv, Typed, remote
  <2> QED
    BY <1>1, <2>1, <2>2
<1>4. CASE CopyAndVerify(file) /\ Matches(file) /\ Goes(item, NextStep(file)) /\ UNCHANGED rows
  <2>1. /\ item' = item /\ step' = NextStep(file) /\ expected' = expected
        /\ UNCHANGED <<status, remoteDir>> /\ Copy(file)
    BY <1>4 DEF Goes, rows, CopyAndVerify
  <2>2. Typed'
    BY <1>1, <1>2, <1>3, <2>1, ItemFacts DEF IInv, Typed, NextStep, Steps, Idle, File
  <2>3. SeenStep'
    <3>1. OwnDirectory(item)'
      BY <1>1, <2>1 DEF IInv, SeenStep, OwnDirectory, File
    <3>2. expected'.of = item' /\ Explained(item, expected.form)'
      BY <1>1, <2>1 DEF IInv, SeenStep, Explained, File
    <3>3. CASE file = "data"
      <4>1. data'[remoteDir'[item']][item'] = Compacted(item') /\ step' = "manifest"
        BY <1>4, <2>1, <3>3 DEF Matches, Found, Expected, NextStep
      <4> QED
        BY <2>1, <3>1, <3>2, <4>1 DEF SeenStep
    <3>4. CASE file = "manifest"
      <4>1. data'[remoteDir'[item']][item'] = Compacted(item')
        BY <1>1, <2>1, <3>4, CopyKeeps
      <4>2. manifest'[remoteDir'[item']] = expected' /\ step' = "verified"
        BY <1>4, <2>1, <3>4 DEF Matches, Found, Expected, NextStep
      <4> QED
        BY <2>1, <3>1, <3>2, <4>1, <4>2 DEF SeenStep
    <3> QED
      BY <3>3, <3>4 DEF File
  <2>4. VerifiedDir' /\ VerifiedIsOwn' /\ PermanentHasCause'
    BY <1>1, <1>3, <2>1, RowsKeep
  <2> QED
    BY <1>3, <2>2, <2>3, <2>4 DEF IInv
<1>5. CASE CopyAndVerify(file) /\ ~Matches(file) /\ Fail("remote_integrity")
  <2>1. ~Whole(item) \/ manifest'[HiveDir(item)].of \notin {item, Nothing}
    BY <1>1, <1>5, MismatchHasCause DEF CopyAndVerify
  <2> QED
    BY <1>1, <1>2, <1>3, <1>5, <2>1, GivesUp
<1>6. CASE CopyFails(file)
  <2>1. Fail(outage) /\ outage \in Repairable
    BY <1>6 DEF CopyFails, IInv, Typed
  <2> QED
    BY <1>1, <1>2, <1>3, <2>1, GivesUp, RepairableIsNot
<1> QED
  BY <1>4, <1>5, <1>6 DEF CopyAndVerify

\* The row is marked for what the two copies have verified (MarkUploadVerified).
LEMMA MarkStep == ASSUME IInv, MarkUploadVerified PROVE IInv'
<1>1. /\ UNCHANGED <<damaged, remote, outage, queue, remoteDir>> /\ step = "verified"
      /\ status' = [status EXCEPT ![item] = "verified"]
      /\ item' = Nothing /\ step' = Idle /\ expected' = NoFile
  BY DEF MarkUploadVerified, LetGo
<1>2. /\ item \in Item /\ OwnDirectory(item)
      /\ data[remoteDir[item]][item] = Compacted(item)
      /\ manifest[remoteDir[item]].of = item
      /\ Explained(item, manifest[remoteDir[item]].form)
  BY <1>1, InHand DEF IInv, SeenStep, Steps
<1>3. Typed'
  BY <1>1, <1>2, ItemFacts DEF IInv, Typed, remote
<1>4. OwnData' /\ OwnManifest' /\ ManifestHasData' /\ RemoteGrows
  BY <1>1, StillRemote
<1>5. SeenStep'
  BY <1>1, StillSeen
<1>6. VerifiedDir' /\ VerifiedIsOwn' /\ PermanentHasCause'
  <2>1. \A i \in Item : status'[i] = IF i = item THEN "verified" ELSE status[i]
    BY <1>1 DEF IInv, Typed
  <2> QED
    BY <1>1, <1>2, <1>4, <2>1, RowsKeep
<1> QED
  BY <1>3, <1>4, <1>5, <1>6 DEF IInv

\* Time, outages, damage and restarts touch neither rows' status nor the remote.
LEMMA OtherSteps ==
  ASSUME IInv,
         \/ TimePasses \/ OutageEnds \/ Restart \/ Repair \/ UNCHANGED vars
         \/ \E c \in Repairable : OutageBegins(c)
         \/ \E i \in Item, d \in Damage : DiskDamage(i, d)
  PROVE IInv'
<1>1. /\ UNCHANGED <<status, remoteDir, remote>>
      /\ damaged \subseteq damaged' /\ damaged' \subseteq Damageable
      /\ outage' \in Repairable \cup {None}
      /\ \/ UNCHANGED <<queue, item, step, expected>>
         \/ queue' = {} /\ item' = Nothing /\ step' = Idle /\ expected' = NoFile
  BY DEF TimePasses, OutageEnds, Restart, Repair, OutageBegins, DiskDamage, IInv, Typed, vars, rows,
    worker, remote, LetGo
<1>2. Typed'
  BY <1>1, ItemFacts DEF IInv, Typed, remote
<1>3. OwnData' /\ OwnManifest' /\ ManifestHasData' /\ RemoteGrows
  BY <1>1, StillRemote
<1>4. SeenStep'
  BY <1>1, StillSeen
<1>5. VerifiedDir' /\ VerifiedIsOwn' /\ PermanentHasCause'
  BY <1>1, <1>3, RowsKeep
<1> QED
  BY <1>2, <1>3, <1>4, <1>5 DEF IInv

\* Nothing is at the remote and every row is pending (SaveCompaction).
LEMMA InitIInv == Init => IInv
<1> SUFFICES ASSUME Init PROVE IInv
  OBVIOUS
<1>1. Typed
  BY ItemFacts DEF Init, Typed, Open
<1>2. SeenStep /\ OwnData /\ OwnManifest
  BY DEF Init, SeenStep, OwnData, OwnManifest, Idle
<1>3. VerifiedDir /\ VerifiedIsOwn /\ PermanentHasCause
  BY DEF Init, VerifiedDir, VerifiedIsOwn, PermanentHasCause
<1>4. ManifestHasData
  BY DEF Init, ManifestHasData
<1> QED
  BY <1>1, <1>2, <1>3, <1>4 DEF IInv

\* Every step of the worker and of its environment keeps IInv.
LEMMA NextIInv == IInv /\ [Next]_vars => IInv'
  BY QueueSteps, PrepareStep, CheckSteps, CopySteps, MarkStep, OtherSteps DEF Next, ProcessPending

\* IInv holds in every reachable state.
THEOREM SpecIInv == Spec => []IInv
  BY InitIInv, NextIInv, PTL DEF Spec

\* A verified row stands for a remote directory with this very revision's data and
\* manifest, however many revisions share it; that it is another directory, or
\* another manifest than the compactor's, has a damage of the local manifest for
\* its only cause (copyAndVerify, hiveDir).
THEOREM SpecVerifiedIsOwn == Spec => []VerifiedIsOwn
  BY SpecIInv, PTL DEF IInv

\* A manifest in the remote is never without the data of its revision, also after
\* an upload that was cut off (publish).
THEOREM SpecManifestHasData == Spec => []ManifestHasData
  BY SpecIInv, PTL DEF IInv

\* Only files that are wrong make a row fail for good, never an outage, a restart
\* or a configuration (errorCategory, isPermanent).
THEOREM SpecPermanentHasCause == Spec => []PermanentHasCause
  BY SpecIInv, PTL DEF IInv
=============================================================================
