---------------------------- MODULE RawStoreProofs ----------------------------
(***************************************************************************)
(* What RawStore promises for any set of captures.  The invariant follows  *)
(* a capture's two files: while its fetch is under way they are where the  *)
(* last step left them (Underway), a name a file may be found under after  *)
(* a power loss is never ahead of the name it has (Kept), a start leaves   *)
(* no pair half done (Finished).  The rest depends on the disturbances:    *)
(* what holds unless the process is killed (Paired), unless a power loss   *)
(* can meet files that a kill or an I/O error left unsynced (Ordered), and *)
(* with neither kills nor I/O errors (Durable).                            *)
(***************************************************************************)
EXTENDS RawStore, TLAPS

\* Every end of the process is a power loss or a regular stop: the files of an
\* unfinished Commit have been through a power loss before a start sees them.
NoKill == "kill" \notin Faults
NoLeftovers == NoKill /\ "io" \notin Faults

\* No power loss meets files that were left unsynced.
NoMixture == "power" \notin Faults \/ NoLeftovers

Files(c, place, keeps, sidePlace, sideMay) ==
    raw[c] = place /\ rawKeeps[c] = keeps /\ side[c] = sidePlace /\ sideKeeps[c] = sideMay

AtRest(c) == step[c] \in {"failing", "done"}

\* Fetches are under way only in a running process, and what they have written
\* is a function of how far they have come (Stage, Commit).
Underway(c) ==
    /\ step[c] \notin {"idle", "done"} => phase = "running"
    /\ step[c] \in {"idle", "requesting"} => Files(c, "none", {"none"}, "none", {"none"})
    /\ step[c] = "temp" => Files(c, "temp", {"none", "temp"}, "none", {"none"})
    /\ step[c] = "named" => Files(c, "staged", {"none", "temp", "staged"}, "none", {"none"})
    /\ step[c] = "written" =>
        Files(c, "staged", {"none", "temp", "staged"}, "staged", {"none", "torn", "staged"})
    /\ step[c] = "synced" => Files(c, "staged", {"staged"}, "staged", {"staged"})
    /\ step[c] = "renamed" => Files(c, "final", {"staged", "final"}, "staged", {"staged"})
    /\ step[c] = "rawSynced" => Files(c, "final", {"final"}, "staged", {"staged"})
    /\ step[c] = "sideRenamed" => Files(c, "final", {"final"}, "final", {"staged", "final"})
    /\ step[c] = "committed" => Files(c, "final", {"final"}, "final", {"final"})

\* A fetch that is not over has no row (SaveCapture, Reconcile).
Rows(c) == (row[c] <=> tick[c] = "captured") /\ (row[c] => step[c] = "done")

\* A file that may be found in place is in place: no rename leads out of it.
Kept(c) ==
    /\ raw[c] \in rawKeeps[c] /\ side[c] \in sideKeeps[c]
    /\ "final" \in rawKeeps[c] => raw[c] = "final"
    /\ "final" \in sideKeeps[c] => side[c] = "final"

\* finishInterruptedCommits leaves no sidecar in staging whose payload is there,
\* and walkAndRegister no pair without its row.
Finished(c) ==
    /\ c \in todo => side[c] # "none"
    /\ /\ phase \in {"walking", "sweeping"} \/ (phase = "finishing" /\ c \notin todo)
       /\ c \in sound /\ raw[c] \in {"staged", "final"}
       => side[c] # "staged"
    /\ phase = "sweeping" => c \notin Unregistered

\* Commit writes and syncs the sidecar before it renames the payload.
Paired(c) ==
    NoKill /\ c \in sound =>
        /\ raw[c] = "final" =>
            side[c] \in {"staged", "final"} /\ sideKeeps[c] \subseteq {"staged", "final"}
        /\ AtRest(c) /\ raw[c] = "staged" /\ side[c] = "staged" => sideKeeps[c] = {"staged"}

\* A sidecar in place has its payload beside it.
Ordered(c) == NoMixture => (side[c] = "final" => raw[c] = "final")

\* What a start finds in place is there for good.
Durable(c) ==
    NoLeftovers =>
        /\ "damage" \in Faults \/ c \in sound
        /\ step[c] = "failing" => Files(c, "none", {"none"}, "none", {"none"})
        /\ AtRest(c) /\ raw[c] = "final" => rawKeeps[c] = {"final"}
        /\ side[c] = "final" => rawKeeps[c] = {"final"}
        /\ row[c] => raw[c] = "final"

CaptureInv(c) ==
    Underway(c) /\ Rows(c) /\ Kept(c) /\ Finished(c) /\ Paired(c) /\ Ordered(c) /\ Durable(c)

IInv ==
    /\ TypeOK
    /\ phase # "finishing" => todo = {}
    /\ \A c \in Capture : CaptureInv(c)

-----------------------------------------------------------------------------
(* The parts of a step. *)

\* What a fetch or a reconciliation does to one capture leaves the others alone.
Same(d) ==
    /\ raw'[d] = raw[d] /\ rawKeeps'[d] = rawKeeps[d]
    /\ side'[d] = side[d] /\ sideKeeps'[d] = sideKeeps[d]
    /\ step'[d] = step[d] /\ tick'[d] = tick[d] /\ row'[d] = row[d]
    /\ (d \in sound') = (d \in sound)

\* A capture that a step leaves alone keeps its invariant, as long as the
\* process stays in its phase (no step of another capture touches its files).
LEMMA SameKeeps ==
  ASSUME IInv, NEW d \in Capture, Same(d), phase' = phase, (d \in todo') = (d \in todo)
  PROVE CaptureInv(d)'
<1>1. Underway(d)'
  BY DEF IInv, CaptureInv, Underway, Same, Files
<1>2. Rows(d)'
  BY Zenon DEF IInv, CaptureInv, Rows, Same
<1>3. Kept(d)'
  BY DEF IInv, CaptureInv, Kept, Same
<1>4. Finished(d)'
  BY DEF IInv, CaptureInv, Finished, Same, Unregistered
<1>5. Paired(d)' /\ Ordered(d)' /\ Durable(d)'
  BY DEF IInv, CaptureInv, Paired, Ordered, Durable, Same, AtRest, Files, NoKill, NoLeftovers, NoMixture
<1> QED
  BY <1>1, <1>2, <1>3, <1>4, <1>5 DEF CaptureInv

\* A step of one fetch: the capture's own invariant is all there is to show
\* (scheduler.executeOne is the only one to touch its files).
LEMMA FetchKeeps ==
  ASSUME IInv, NEW c \in Capture, Fetch(c)
  PROVE /\ phase = "running" /\ phase' = "running" /\ todo' = {} /\ todo = {} /\ sound' = sound
        /\ \A d \in Capture \ {c} : CaptureInv(d)'
<1>1. phase = "running" /\ UNCHANGED <<phase, todo, sound>>
  BY DEF Fetch, Goes, files, database, RecordTick, RequestFails, Stage, NameStaged, WriteSidecar,
    SyncStaging, RenameRaw, SyncRaw, RenameSidecar, SyncSidecar, SaveCapture, SaveCaptureFails,
    CommitUndone, CommitLeft, FinishFailure
<1>2. ASSUME NEW d \in Capture \ {c} PROVE Same(d)
  BY <1>1 DEF IInv, TypeOK, Same, Fetch, Goes, files, database, RecordTick, RequestFails, Stage, NameStaged,
    WriteSidecar, SyncStaging, RenameRaw, SyncRaw, RenameSidecar, SyncSidecar, SaveCapture,
    SaveCaptureFails, CommitUndone, CommitLeft, FinishFailure, MoveRaw, MoveSide, BothStaged,
    RawSynced, Registered
<1> QED
  BY <1>1, <1>2, SameKeeps DEF IInv

\* A fetch keeps the variables within their types.
LEMMA FetchTypes == ASSUME IInv, NEW c \in Capture, Fetch(c) PROVE TypeOK'
<1> USE DEF IInv, TypeOK, Goes, MoveRaw, MoveSide, files, database, RawPlace, SidePlace
<1>1. CASE RecordTick(c) \/ RequestFails(c) \/ SaveCaptureFails(c) \/ CommitLeft(c) \/ FinishFailure(c)
  BY <1>1 DEF RecordTick, RequestFails, SaveCaptureFails, CommitLeft, FinishFailure, FailureResult
<1>2. CASE Stage(c) \/ NameStaged(c) \/ RenameRaw(c)
  BY <1>2 DEF Stage, NameStaged, RenameRaw, BeforeRename, RawCommitted
<1>3. CASE WriteSidecar(c) \/ RenameSidecar(c)
  BY <1>3 DEF WriteSidecar, RenameSidecar, BeforeRename, RawCommitted
<1>4. CASE SyncStaging(c) \/ SyncRaw(c) \/ SyncSidecar(c)
  BY <1>4 DEF SyncStaging, SyncRaw, SyncSidecar, BothStaged, RawSynced, BeforeRename, RawCommitted
<1>5. CASE SaveCapture(c)
  BY <1>5 DEF SaveCapture, Registered
<1>6. CASE CommitUndone(c)
  BY <1>6 DEF CommitUndone
<1> QED
  BY <1>1, <1>2, <1>3, <1>4, <1>5, <1>6 DEF Fetch

\* Each step of a fetch keeps its own capture's invariant (executeOne, Commit,
\* SaveCapture, finishFailure).
LEMMA FetchStep == ASSUME IInv, NEW c \in Capture, Fetch(c) PROVE IInv'
<1> SUFFICES CaptureInv(c)'
  BY FetchTypes, FetchKeeps DEF IInv
<1>0. TypeOK /\ CaptureInv(c) /\ phase = "running" /\ phase' = "running" /\ todo' = {} /\ sound' = sound
  BY FetchKeeps DEF IInv
<1> USE <1>0 DEF CaptureInv, TypeOK, Goes, MoveRaw, MoveSide, Files, AtRest,
       Underway, Rows, Kept, Finished, Paired, Ordered, Durable, Unregistered, files, database
<1>1. CASE RecordTick(c)
  BY <1>1 DEF RecordTick
<1>2. CASE RequestFails(c)
  BY <1>2 DEF RequestFails
<1>3. CASE Stage(c)
  BY <1>3 DEF Stage
<1>4. CASE NameStaged(c)
  BY <1>4 DEF NameStaged
<1>5. CASE WriteSidecar(c)
  BY <1>5 DEF WriteSidecar
<1>6. CASE SyncStaging(c)
  BY <1>6 DEF SyncStaging, BothStaged
<1>7. CASE RenameRaw(c)
  BY <1>7 DEF RenameRaw
<1>8. CASE SyncRaw(c)
  BY <1>8 DEF SyncRaw, RawSynced
<1>9. CASE RenameSidecar(c)
  BY <1>9 DEF RenameSidecar
<1>10. CASE SyncSidecar(c)
  BY <1>10 DEF SyncSidecar
<1>11. CASE SaveCapture(c)
  BY <1>11 DEF SaveCapture, Registered
<1>12. CASE SaveCaptureFails(c)
  BY <1>12 DEF SaveCaptureFails
<1>13. CASE CommitUndone(c)
  BY <1>13 DEF CommitUndone, BeforeRename, NoLeftovers
<1>14. CASE CommitLeft(c)
  BY <1>14 DEF CommitLeft, RawCommitted, NoLeftovers
<1>15. CASE FinishFailure(c)
  BY <1>15 DEF FinishFailure, FailureResult
<1> QED
  BY <1>1, <1>2, <1>3, <1>4, <1>5, <1>6, <1>7, <1>8, <1>9, <1>10, <1>11, <1>12, <1>13,
     <1>14, <1>15 DEF Fetch

\* A start works on one capture after the other (finishInterruptedCommits,
\* walkAndRegister).
LEMMA ReconcileOne ==
  ASSUME IInv, NEW c \in Capture,
         FinishRaw(c) \/ FinishSidecar(c) \/ FinishSync(c) \/ FinishSkips(c) \/ Register(c)
  PROVE IInv'
<1>1. phase' = phase /\ sound' = sound /\ todo' \subseteq todo /\ todo \ todo' \subseteq {c}
  BY DEF FinishRaw, FinishSidecar, FinishSync, FinishSkips, Register, files, database
<1>2. ASSUME NEW d \in Capture \ {c} PROVE CaptureInv(d)'
  <2>1. Same(d)
    BY DEF IInv, TypeOK, Same, FinishRaw, FinishSidecar, FinishSync, FinishSkips, Register, MoveRaw,
      MoveSide, Registered, files, database
  <2> QED
    BY <1>1, <2>1, SameKeeps
<1>3. TypeOK'
  <2> USE DEF IInv, TypeOK, MoveRaw, MoveSide, files, database, RawPlace, SidePlace
  <2>1. CASE FinishRaw(c)
    BY <2>1 DEF FinishRaw
  <2>2. CASE FinishSidecar(c)
    BY <2>2 DEF FinishSidecar
  <2>3. CASE FinishSync(c)
    BY <2>3 DEF FinishSync
  <2>4. CASE FinishSkips(c) \/ Register(c)
    BY <2>4 DEF FinishSkips, Register, Registered
  <2> QED
    BY <2>1, <2>2, <2>3, <2>4
<1>4. CaptureInv(c)'
  <2>0. TypeOK /\ CaptureInv(c) /\ step[c] \in {"idle", "done"} /\ step' = step
    BY DEF files, IInv, CaptureInv, Underway, FinishRaw, FinishSidecar, FinishSync, FinishSkips, Register
  <2> USE <2>0, <1>1 DEF TypeOK, CaptureInv, MoveRaw, MoveSide, Files, AtRest, Underway, Rows, Kept,
        Finished, Paired, Ordered, Durable, Unregistered, files, database, Finishable
  <2>1. CASE FinishRaw(c)
    BY <2>1 DEF FinishRaw
  <2>2. CASE FinishSidecar(c)
    BY <2>2 DEF FinishSidecar, NoMixture
  <2>3. CASE FinishSync(c)
    BY <2>3 DEF FinishSync
  <2>4. CASE FinishSkips(c)
    BY <2>4 DEF FinishSkips
  <2>5. CASE Register(c)
    BY <2>5 DEF Register, Registered
  <2> QED
    BY <2>1, <2>2, <2>3, <2>4, <2>5
<1> QED
  BY <1>1, <1>2, <1>3, <1>4 DEF IInv

\* A start takes the process from phase to phase; its last one removes what lies
\* in staging (Reconcile, RemoveExpiredStaging).
LEMMA ReconcileStep == ASSUME IInv, Reconcile PROVE IInv'
<1>1. CASE Start \/ FinishDone \/ RegisterDone \/ StartFails
  <2>1. /\ UNCHANGED <<raw, rawKeeps, side, sideKeeps, sound, step, tick, row>>
        /\ phase # "running" /\ phase' # "running" /\ TypeOK' /\ (phase' # "finishing" => todo' = {})
    BY <1>1 DEF IInv, TypeOK, Start, FinishDone, RegisterDone, StartFails, files, database
  <2>2. ASSUME NEW c \in Capture PROVE CaptureInv(c)'
    <3>0. CaptureInv(c)
      BY DEF IInv
    <3>1. Underway(c)'
      BY <2>1, <3>0 DEF CaptureInv, Underway, Files
    <3>2. Rows(c)'
      BY <2>1, <3>0, Zenon DEF CaptureInv, Rows
    <3>3. Kept(c)' /\ Paired(c)' /\ Ordered(c)' /\ Durable(c)'
      BY <2>1, <3>0 DEF CaptureInv, Kept, Paired, Ordered, Durable, Files, AtRest, NoKill, NoMixture, NoLeftovers
    <3>4. Finished(c)'
      BY <2>1, <3>0, <1>1 DEF CaptureInv, Finished, Unregistered, Start, FinishDone, RegisterDone, StartFails
    <3> QED
      BY <3>1, <3>2, <3>3, <3>4 DEF CaptureInv
  <2> QED
    BY <2>1, <2>2 DEF IInv
<1>2. CASE RemoveExpiredStaging
  <2>1. /\ phase = "sweeping" /\ phase' = "running" /\ UNCHANGED <<sound, step, tick, row, todo>>
        /\ TypeOK' /\ todo' = {}
    BY <1>2 DEF RemoveExpiredStaging, IInv, TypeOK, database, RawPlace, SidePlace
  <2>2. ASSUME NEW c \in Capture PROVE CaptureInv(c)'
    <3>0. CaptureInv(c) /\ TypeOK /\ step[c] \in {"idle", "done"} /\ step'[c] = step[c]
      BY <2>1 DEF IInv, CaptureInv, Underway
    <3>1. /\ raw'[c] = raw[c] \/ (raw[c] \in {"temp", "staged"} /\ raw'[c] = "none")
          /\ side'[c] = side[c] \/ (side[c] \in {"torn", "staged"} /\ side'[c] = "none")
          /\ rawKeeps'[c] = rawKeeps[c] \cup {raw'[c]}
          /\ sideKeeps'[c] = sideKeeps[c] \cup {side'[c]}
      <4>1. PICK oldRaw \in SUBSET {b \in Capture : raw[b] \in {"temp", "staged"}},
                 oldSide \in SUBSET {b \in Capture : side[b] \in {"torn", "staged"}} :
              /\ raw' = [b \in Capture |-> IF b \in oldRaw THEN "none" ELSE raw[b]]
              /\ rawKeeps' = [b \in Capture |-> rawKeeps[b] \cup {raw'[b]}]
              /\ side' = [b \in Capture |-> IF b \in oldSide THEN "none" ELSE side[b]]
              /\ sideKeeps' = [b \in Capture |-> sideKeeps[b] \cup {side'[b]}]
        BY <1>2, Zenon DEF RemoveExpiredStaging
      <4>2. raw'[c] = (IF c \in oldRaw THEN "none" ELSE raw[c]) /\ rawKeeps'[c] = rawKeeps[c] \cup {raw'[c]}
        BY <4>1
      <4>3. side'[c] = (IF c \in oldSide THEN "none" ELSE side[c]) /\ sideKeeps'[c] = sideKeeps[c] \cup {side'[c]}
        BY <4>1
      <4>4. (c \in oldRaw => raw[c] \in {"temp", "staged"}) /\ (c \in oldSide => side[c] \in {"torn", "staged"})
        BY <4>1
      <4> QED
        BY <4>2, <4>3, <4>4
    <3>2. Underway(c)'
      BY <2>1, <3>0, <3>1 DEF CaptureInv, Underway, Files
    <3>3. Rows(c)'
      BY <2>1, <3>0, Zenon DEF CaptureInv, Rows
    <3>4. Kept(c)' /\ Finished(c)'
      BY <2>1, <3>0, <3>1 DEF CaptureInv, Kept, Finished
    <3>5. Paired(c)'
      BY <2>1, <3>0, <3>1 DEF CaptureInv, Paired, AtRest, Finished, Kept, NoKill
    <3>6. Ordered(c)' /\ Durable(c)'
      BY <2>1, <3>0, <3>1 DEF CaptureInv, Ordered, Durable, AtRest, Files, NoMixture, NoLeftovers
    <3> QED
      BY <3>2, <3>3, <3>4, <3>5, <3>6 DEF CaptureInv
  <2> QED
    BY <2>1, <2>2 DEF IInv
<1> QED
  BY <1>1, <1>2, ReconcileOne DEF Reconcile

\* The process ends, by itself or not, and a power loss decides where every file
\* is; a disk damages a payload.
LEMMA EnvironmentStep == ASSUME IInv, Environment PROVE IInv'
<1>1. CASE Kill \/ Stop
  <2>1. /\ UNCHANGED <<raw, rawKeeps, side, sideKeeps, sound, tick, row>>
        /\ phase # "down" /\ phase' = "down" /\ todo' = {} /\ TypeOK'
    BY <1>1 DEF IInv, TypeOK, Kill, Stop, ProcessEnds, files, database
  <2>2. ASSUME NEW c \in Capture PROVE CaptureInv(c)'
    <3>0. CaptureInv(c) /\ TypeOK
      BY DEF IInv
    <3>1. \/ step'[c] = step[c] /\ step[c] \in {"idle", "done"}
          \/ step'[c] = "done" /\ step[c] # "idle" /\ "kill" \in Faults
      BY <1>1 DEF Kill, Stop, ProcessEnds, IInv, TypeOK
    <3>2. Underway(c)' /\ Kept(c)' /\ Finished(c)'
      BY <2>1, <3>0, <3>1 DEF CaptureInv, Underway, Kept, Finished, Files
    <3>3. Rows(c)'
      <4>1. row[c] => step'[c] = "done"
        BY <3>0, <3>1 DEF CaptureInv, Rows
      <4> QED
        BY <2>1, <3>0, <4>1, Zenon DEF CaptureInv, Rows
    <3>4. Paired(c)' /\ Ordered(c)' /\ Durable(c)'
      BY <2>1, <3>0, <3>1 DEF CaptureInv, Paired, Ordered, Durable, Files, AtRest, NoKill, NoMixture, NoLeftovers
    <3> QED
      BY <3>2, <3>3, <3>4 DEF CaptureInv
  <2> QED
    BY <2>1, <2>2 DEF IInv
<1>2. CASE PowerLoss
  <2>1. /\ UNCHANGED <<sound, tick, row>>
        /\ phase # "down" /\ phase' = "down" /\ todo' = {} /\ "power" \in Faults
    BY <1>2 DEF PowerLoss, ProcessEnds, database
  <2>2. TypeOK'
    BY <1>2 DEF IInv, TypeOK, PowerLoss, ProcessEnds, database
  <2>3. ASSUME NEW c \in Capture PROVE CaptureInv(c)'
    <3>0. CaptureInv(c) /\ TypeOK
      BY DEF IInv
    <3>1. /\ raw'[c] \in rawKeeps[c] /\ rawKeeps'[c] = {raw'[c]}
          /\ side'[c] \in sideKeeps[c] /\ sideKeeps'[c] = {side'[c]}
      BY <1>2 DEF PowerLoss
    <3>2. step'[c] = IF step[c] = "idle" THEN "idle" ELSE "done"
      BY <1>2 DEF PowerLoss, ProcessEnds
    <3>3. Underway(c)' /\ Kept(c)' /\ Finished(c)'
      BY <2>1, <3>0, <3>1, <3>2 DEF CaptureInv, Underway, Kept, Finished, Files
    <3>4. Rows(c)'
      <4>1. row[c] => step'[c] = "done"
        BY <3>0, <3>2 DEF CaptureInv, Rows
      <4> QED
        BY <2>1, <3>0, <4>1, Zenon DEF CaptureInv, Rows
    <3>5. Paired(c)'
      BY <2>1, <3>0, <3>1, <3>2 DEF CaptureInv, Paired, Kept, Underway, Files, AtRest, NoKill
    <3>6. Ordered(c)' /\ Durable(c)'
      BY <2>1, <3>0, <3>1, <3>2
      DEF CaptureInv, Ordered, Durable, Underway, Rows, Kept, Files, AtRest, NoMixture, NoLeftovers
    <3> QED
      BY <3>3, <3>4, <3>5, <3>6 DEF CaptureInv
  <2> QED
    BY <2>1, <2>2, <2>3 DEF IInv
<1>3. ASSUME NEW b \in Capture, Damage(b) PROVE IInv'
  <2>1. /\ UNCHANGED <<raw, rawKeeps, side, sideKeeps, step, tick, row, phase, todo>>
        /\ "damage" \in Faults /\ sound' \subseteq sound
    BY <1>3 DEF Damage, database
  <2>2. ASSUME NEW c \in Capture PROVE CaptureInv(c)'
    <3>0. CaptureInv(c)
      BY DEF IInv
    <3>1. Rows(c)'
      BY <2>1, <3>0, Zenon DEF CaptureInv, Rows
    <3>2. Underway(c)' /\ Kept(c)' /\ Ordered(c)' /\ Durable(c)'
      BY <2>1, <3>0 DEF CaptureInv, Underway, Kept, Ordered, Durable, Files, AtRest, NoMixture, NoLeftovers
    <3>3. Finished(c)' /\ Paired(c)'
      BY <2>1, <3>0 DEF CaptureInv, Finished, Unregistered, Paired, AtRest, NoKill
    <3> QED
      BY <3>1, <3>2, <3>3 DEF CaptureInv
  <2> QED
    BY <2>1, <2>2 DEF IInv, TypeOK
<1> QED
  BY <1>1, <1>2, <1>3 DEF Environment

\* No file and no row exists before the first fetch (Init).
LEMMA InitIInv == Init => IInv
<1> SUFFICES ASSUME Init PROVE IInv
  OBVIOUS
<1>1. TypeOK
  BY DEF Init, TypeOK, RawPlace, SidePlace
<1>2. ASSUME NEW c \in Capture PROVE CaptureInv(c)
  BY DEF Init, CaptureInv, Underway, Rows, Kept, Finished, Paired, Ordered, Durable, Files, AtRest
<1> QED
  BY <1>1, <1>2 DEF IInv, Init

\* Every step of the process and of its environment keeps IInv.
LEMMA NextIInv == IInv /\ [Next]_vars => IInv'
<1> SUFFICES ASSUME IInv, [Next]_vars PROVE IInv'
  OBVIOUS
<1>1. CASE UNCHANGED vars
  <2>1. ASSUME NEW c \in Capture PROVE CaptureInv(c)'
    BY <1>1, SameKeeps DEF vars, files, database, Same
  <2> QED
    BY <1>1, <2>1 DEF IInv, TypeOK, vars, files, database
<1> QED
  BY <1>1, FetchStep, ReconcileStep, EnvironmentStep DEF Next

\* IInv holds in every reachable state.
THEOREM SpecIInv == Spec => []IInv
  BY InitIInv, NextIInv, PTL DEF Spec

-----------------------------------------------------------------------------
(* What follows from the invariant. *)

\* The variables stay within their types (RawStore.TypeOK).
THEOREM SpecTypeOK == Spec => []TypeOK
  BY SpecIInv, PTL DEF IInv

\* Whatever goes wrong, the tick of a capture and its row tell the same: also
\* when the fetch had already recorded a failure (SaveCapture, finishFailure).
THEOREM SpecTickTellsRow == Spec => []TickTellsRow
<1>1. IInv => TickTellsRow
  BY Zenon DEF IInv, CaptureInv, Rows, TickTellsRow
<1> QED
  BY <1>1, SpecIInv, PTL

\* When a start has reconciled, every sound pair of files has its row, as long as
\* no power loss meets files that a kill or an I/O error left unsynced (Reconcile).
THEOREM SpecReconciledIsRegistered ==
  ASSUME NoMixture PROVE Spec => []ReconciledIsRegistered
<1>1. IInv => ReconciledIsRegistered
  BY DEF IInv, TypeOK, CaptureInv, Finished, Ordered, Unregistered, ReconciledIsRegistered
<1> QED
  BY <1>1, SpecIInv, PTL

\* Unless a kill leaves an unsynced sidecar behind, a payload that may be found in
\* place has its sidecar, also through I/O errors and damage (Commit).
THEOREM SpecNoOrphanPayload ==
  ASSUME NoKill PROVE Spec => []NoOrphanPayload
<1>1. IInv => NoOrphanPayload
  BY DEF IInv, TypeOK, CaptureInv, Kept, Paired, NoOrphanPayload
<1> QED
  BY <1>1, SpecIInv, PTL

\* With power losses, damage and failing transactions, but neither kills nor I/O
\* errors, a sidecar is renamed only when its payload is durable in place (Commit,
\* finishInterruptedCommits): what a kill or an I/O error breaks is the order of a
\* later start, not that of Commit.
THEOREM SpecFirstHalfDurable ==
  ASSUME NoLeftovers PROVE Spec => FirstHalfDurable
<1> DEFINE A == \A c \in Capture : side[c] # "final" /\ side'[c] = "final" => rawKeeps[c] = {"final"}
<1>1. IInv /\ [Next]_vars => [A]_vars
  <2> SUFFICES ASSUME IInv, Next, NEW c \in Capture, side[c] # "final", side'[c] = "final"
               PROVE rawKeeps[c] = {"final"}
    BY Zenon
  <2>0. TypeOK /\ CaptureInv(c)
    BY DEF IInv
  <2>1. ASSUME NEW b \in Capture, Fetch(b) PROVE rawKeeps[c] = {"final"}
    BY <2>0, <2>1 DEF TypeOK, CaptureInv, Underway, Files, Fetch, Goes, files, database, RecordTick,
      RequestFails, Stage, NameStaged, WriteSidecar, SyncStaging, RenameRaw, SyncRaw, RenameSidecar,
      SyncSidecar, SaveCapture, SaveCaptureFails, CommitUndone, CommitLeft, FinishFailure, MoveRaw,
      MoveSide, BothStaged, RawSynced, Registered
  <2>2. ASSUME NEW b \in Capture, FinishSidecar(b) PROVE rawKeeps[c] = {"final"}
    <3>1. b = c /\ phase = "finishing" /\ c \in todo /\ raw[c] = "final"
      BY <2>0, <2>2 DEF TypeOK, FinishSidecar, MoveSide
    <3> QED
      BY <2>0, <3>1 DEF TypeOK, CaptureInv, Underway, Files, Finished, Durable, AtRest
  <2>3. CASE Reconcile /\ ~\E b \in Capture : FinishSidecar(b)
    BY <2>0, <2>3 DEF TypeOK, Reconcile, Start, FinishDone, RegisterDone, StartFails,
      RemoveExpiredStaging, FinishRaw, FinishSync, FinishSkips, Register, MoveRaw, files, database
  <2>4. CASE Environment
    BY <2>0, <2>4 DEF TypeOK, CaptureInv, Kept, Environment, Kill, PowerLoss, Stop, Damage,
      files, database
  <2> QED
    BY <2>1, <2>2, <2>3, <2>4 DEF Next, Reconcile
<1> QED
  BY <1>1, SpecIInv, PTL DEF Spec, FirstHalfDurable

-----------------------------------------------------------------------------
(* RawStore implements CaptureLog. *)

Stored(c) == rawKeeps[c] = {"final"} /\ sideKeeps[c] \subseteq {"staged", "final"}

\* Power losses and failing transactions are all that happens.
PowerOnly == Faults \subseteq {"power", "statefail"}

\* The start finds both files of a stored capture, with the right hash.
LEMMA StoredIsThere ==
  ASSUME IInv, PowerOnly, NEW c \in Capture, Stored(c)
  PROVE /\ raw[c] = "final" /\ c \in sound
        /\ side[c] \in {"staged", "final"}
        /\ step[c] \in {"rawSynced", "sideRenamed", "committed", "done"}
        /\ phase \in {"walking", "sweeping"} => side[c] = "final"
  BY DEF IInv, TypeOK, CaptureInv, Stored, PowerOnly, Kept, Underway, Durable, Paired, Finished, Files,
    BeforeRename, RawCommitted, NoKill, NoLeftovers

\* Once the payload's directory is synced, no step of a fetch, of a start or of the
\* environment undoes it (Commit, Reconcile).
LEMMA StoredStays ==
  ASSUME IInv, Next, PowerOnly, NEW c \in Capture, Stored(c)
  PROVE Stored(c)'
<1>0. TypeOK /\ CaptureInv(c)
  BY DEF IInv
<1>1. ASSUME NEW b \in Capture, Fetch(b) PROVE Stored(c)'
  <2>1. CASE b = c
    BY <1>0, <1>1, <2>1, StoredIsThere DEF TypeOK, Stored, PowerOnly, CaptureInv, Underway, Files, Fetch, Goes, files, database,
      RecordTick, RequestFails, Stage, NameStaged, WriteSidecar, SyncStaging, RenameRaw, SyncRaw,
      RenameSidecar, SyncSidecar, SaveCapture, SaveCaptureFails, CommitUndone, CommitLeft, FinishFailure,
      MoveRaw, MoveSide, BothStaged, RawSynced, Registered
  <2>2. CASE b # c
    BY <1>0, <1>1, <2>2 DEF TypeOK, Stored, Fetch, Goes, files, database,
      RecordTick, RequestFails, Stage, NameStaged, WriteSidecar, SyncStaging, RenameRaw, SyncRaw,
      RenameSidecar, SyncSidecar, SaveCapture, SaveCaptureFails, CommitUndone, CommitLeft, FinishFailure,
      MoveRaw, MoveSide, BothStaged, RawSynced, Registered
  <2> QED
    BY <2>1, <2>2
<1>2. CASE Reconcile /\ ~RemoveExpiredStaging
  BY <1>0, <1>2, StoredIsThere DEF TypeOK, Stored, Reconcile, Start, FinishDone, RegisterDone, StartFails,
    FinishRaw, FinishSidecar, FinishSync, FinishSkips, Register, MoveRaw, MoveSide, Registered, files, database
<1>3. CASE RemoveExpiredStaging
  <2>1. raw[c] = "final" /\ side[c] = "final"
    BY <1>3, StoredIsThere DEF RemoveExpiredStaging
  <2>2. /\ raw'[c] = "final" /\ rawKeeps'[c] = rawKeeps[c] \cup {raw'[c]}
        /\ side'[c] = "final" /\ sideKeeps'[c] = sideKeeps[c] \cup {side'[c]}
    BY <1>3, <2>1 DEF RemoveExpiredStaging
  <2> QED
    BY <2>2 DEF Stored
<1>4. CASE Environment
  BY <1>0, <1>4, StoredIsThere DEF PowerOnly, Stored, Environment, Kill, PowerLoss, Stop, Damage, files
<1> QED
  BY <1>1, <1>2, <1>3, <1>4 DEF Next

\* Rows are written for stored captures alone, one at a time, and never deleted here
\* (SaveCapture, walkAndRegister).
LEMMA RowStep ==
  ASSUME IInv, Next, PowerOnly
  PROVE \/ row' = row
        \/ \E c \in Capture : /\ Stored(c) /\ UNCHANGED <<rawKeeps, sideKeeps>>
                              /\ row' = [row EXCEPT ![c] = TRUE]
<1>1. ASSUME NEW c \in Capture, SaveCapture(c) \/ Register(c)
      PROVE /\ Stored(c) /\ UNCHANGED <<rawKeeps, sideKeeps>>
            /\ row' = [row EXCEPT ![c] = TRUE]
  <2>1. UNCHANGED <<rawKeeps, sideKeeps>> /\ row' = [row EXCEPT ![c] = TRUE]
    BY <1>1 DEF SaveCapture, Register, Registered, files
  <2>2. CASE SaveCapture(c)
    <3>1. step[c] = "committed" /\ CaptureInv(c)
      BY <2>2 DEF SaveCapture, Goes, IInv
    <3> QED
      BY <2>1, <3>1 DEF CaptureInv, Underway, Files, Stored
  <2>3. CASE Register(c)
    <3>1. phase = "walking" /\ c \in sound /\ raw[c] = "final" /\ side[c] = "final" /\ CaptureInv(c)
      BY <2>3 DEF Register, Unregistered, IInv
    <3>2. NoKill /\ NoLeftovers
      BY DEF PowerOnly, NoKill, NoLeftovers
    <3> QED
      BY <2>1, <3>1, <3>2 DEF CaptureInv, Durable, Paired, Stored
  <2> QED
    BY <1>1, <2>1, <2>2, <2>3
<1>2. ASSUME ~\E c \in Capture : SaveCapture(c) \/ Register(c) PROVE row' = row
  BY <1>2 DEF Next, Fetch, Reconcile, Environment, Goes, files, database,
      RecordTick, RequestFails, Stage, NameStaged, WriteSidecar, SyncStaging, RenameRaw, SyncRaw,
      RenameSidecar, SyncSidecar, SaveCaptureFails, CommitUndone, CommitLeft, FinishFailure,
      Start, FinishDone, RegisterDone, StartFails, RemoveExpiredStaging,
      FinishRaw, FinishSidecar, FinishSync, FinishSkips, Kill, PowerLoss, Stop, Damage
<1> QED
  BY <1>1, <1>2

\* A capture is stored at once, when the payload's directory is synced or a power
\* loss happens to have kept both files, and only what is stored gets a row: the
\* files and rows of RawStore implement CaptureLog.
THEOREM SpecStoredAtOnce == ASSUME PowerOnly PROVE Spec => StoredAtOnce
<1> DEFINE St == {c \in Capture : rawKeeps[c] = {"final"} /\ sideKeeps[c] \subseteq {"staged", "final"}}
           Reg == {c \in Capture : row[c]}
<1>1. Init => Log!Init
  BY DEF Init, Log!Init
<1>2. IInv /\ [Next]_vars => [Log!Next]_<<St, Reg>>
  <2> SUFFICES ASSUME IInv, [Next]_vars PROVE Log!Next \/ UNCHANGED <<St, Reg>>
    OBVIOUS
  <2>1. CASE UNCHANGED vars
    BY <2>1 DEF vars, files, database
  <2>2. CASE Next /\ row' = row
    <3>1. St \subseteq St'
      BY <2>2, StoredStays DEF Stored
    <3> QED
      BY <2>2, <3>1 DEF Log!Next, Log!Store
  <2>3. ASSUME NEW c \in Capture, Stored(c), UNCHANGED <<rawKeeps, sideKeeps>>,
               row' = [row EXCEPT ![c] = TRUE]
        PROVE Log!Next
    <3>1. c \in St /\ St' = St
      BY <2>3 DEF Stored
    <3>2. \A d \in Capture : row'[d] = (row[d] \/ d = c)
      <4> TAKE d \in Capture
      <4>1. row \in [Capture -> BOOLEAN]
        BY DEF IInv, TypeOK
      <4>2. CASE d = c
        BY <2>3, <4>1, <4>2, Zenon
      <4>3. CASE d # c
        BY <2>3, <4>1, <4>3, Zenon
      <4> QED
        BY <4>2, <4>3
    <3>3. Reg' = Reg \cup {c}
      BY <3>2, Zenon
    <3> QED
      BY <3>1, <3>3 DEF Log!Next, Log!Register
  <2> QED
    BY <2>1, <2>2, <2>3, RowStep
<1> QED
  BY <1>1, <1>2, SpecIInv, PTL DEF Spec, StoredAtOnce, Log!Spec
=============================================================================
