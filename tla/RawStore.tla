------------------------------ MODULE RawStore ------------------------------
(***************************************************************************)
(* How one fetch turns a response body into a capture: the payload (.pb)   *)
(* and its sidecar (.json) are staged, renamed into place one after the    *)
(* other with the directories synced in between, and then registered in    *)
(* the state database; and how the next start finishes what a crash or an  *)
(* I/O error left half done (rawstore.Store.Commit and Reconcile).         *)
(*                                                                         *)
(* A file is in one place, a rename moves it.  What has not been synced is *)
(* open: rawKeeps and sideKeeps are the places a file may be found in      *)
(* after a power loss, which chooses for each file on its own.  A process  *)
(* that is killed loses nothing but its steps.                             *)
(***************************************************************************)
EXTENDS FiniteSets

CONSTANTS
    Capture,  \* each is the one capture of a fetch, named by its id
    Faults    \* the disturbances this instance admits, see FaultKinds

FaultKinds == {"io", "statefail", "kill", "power", "damage"}

ASSUME RawStoreAssumption == Faults \subseteq FaultKinds

VARIABLES
    raw, rawKeeps,    \* the payload: where it is, where it may be after a power loss
    side, sideKeeps,  \* the sidecar
    sound,            \* the captures whose payload still matches its hash
    step,             \* how far the fetch has come
    tick, row,        \* ticks.result and the captures row
    phase,            \* the process
    todo              \* sidecars finishInterruptedCommits has listed

files == <<raw, rawKeeps, side, sideKeeps, sound>>
database == <<tick, row>>
vars == <<files, step, database, phase, todo>>

\* "torn": a sidecar whose content did not make it to the disk.
RawPlace == {"none", "temp", "staged", "final"}
SidePlace == {"none", "torn", "staged", "final"}

\* rawCommitted in Commit: the deferred removal of the sidecar is off.
RawCommitted == {"renamed", "rawSynced", "sideRenamed"}
BeforeRename == {"temp", "named", "written", "synced"}

TypeOK ==
    /\ raw \in [Capture -> RawPlace] /\ rawKeeps \in [Capture -> SUBSET RawPlace]
    /\ side \in [Capture -> SidePlace] /\ sideKeeps \in [Capture -> SUBSET SidePlace]
    /\ sound \in SUBSET Capture
    /\ step \in [Capture -> {"idle", "requesting", "failing", "committed", "done"}
                            \cup BeforeRename \cup RawCommitted]
    /\ tick \in [Capture -> {"none", "running", "failed", "captured"}]
    /\ row \in [Capture -> BOOLEAN]
    /\ phase \in {"down", "finishing", "walking", "sweeping", "running"}
    /\ todo \in SUBSET Capture

Init ==
    /\ raw = [c \in Capture |-> "none"] /\ rawKeeps = [c \in Capture |-> {"none"}]
    /\ side = [c \in Capture |-> "none"] /\ sideKeeps = [c \in Capture |-> {"none"}]
    /\ sound = Capture
    /\ step = [c \in Capture |-> "idle"]
    /\ tick = [c \in Capture |-> "none"] /\ row = [c \in Capture |-> FALSE]
    /\ phase = "down" /\ todo = {}

-----------------------------------------------------------------------------
(* One fetch *)

Goes(c, from, to) == phase = "running" /\ step[c] = from /\ step' = [step EXCEPT ![c] = to]

MoveRaw(c, place, keeps) ==
    raw' = [raw EXCEPT ![c] = place] /\ rawKeeps' = [rawKeeps EXCEPT ![c] = keeps]

MoveSide(c, place, keeps) ==
    side' = [side EXCEPT ![c] = place] /\ sideKeeps' = [sideKeeps EXCEPT ![c] = keeps]

\* Without a tick there is no fetch.
RecordTick(c) ==
    /\ \/ Goes(c, "idle", "requesting") /\ tick' = [tick EXCEPT ![c] = "running"]
       \/ "statefail" \in Faults /\ Goes(c, "idle", "done") /\ UNCHANGED tick
    /\ UNCHANGED <<files, row, phase, todo>>

\* All attempts of the retry loop fail, the body is too large, or Stage fails and
\* removes its file.
RequestFails(c) ==
    /\ Goes(c, "requesting", "failing")
    /\ UNCHANGED <<files, database, phase, todo>>

\* The body of a 2xx response, complete or not, is in a synced temporary file.
Stage(c) ==
    /\ Goes(c, "requesting", "temp")
    /\ MoveRaw(c, "temp", {"none", "temp"})
    /\ UNCHANGED <<side, sideKeeps, sound, database, phase, todo>>

NameStaged(c) ==
    /\ Goes(c, "temp", "named")
    /\ MoveRaw(c, "staged", {"none", "temp", "staged"})
    /\ UNCHANGED <<side, sideKeeps, sound, database, phase, todo>>

WriteSidecar(c) ==
    /\ Goes(c, "named", "written")
    /\ MoveSide(c, "staged", {"none", "torn", "staged"})
    /\ UNCHANGED <<raw, rawKeeps, sound, database, phase, todo>>

\* The sidecar's content, then the staging directory.
SidecarOnly(c) == sideKeeps' = [sideKeeps EXCEPT ![c] = {"none", "staged"}] /\ UNCHANGED rawKeeps  \* mutant
BothStaged(c) ==
    /\ rawKeeps' = [rawKeeps EXCEPT ![c] = {"staged"}]
    /\ sideKeeps' = [sideKeeps EXCEPT ![c] = {"staged"}]

SyncStaging(c) ==
    /\ Goes(c, "written", "synced")
    /\ BothStaged(c)
    /\ UNCHANGED <<raw, side, sound, database, phase, todo>>

RenameRaw(c) ==
    /\ Goes(c, "synced", "renamed")
    /\ MoveRaw(c, "final", rawKeeps[c] \cup {"final"})
    /\ UNCHANGED <<side, sideKeeps, sound, database, phase, todo>>

NotSynced(c) == UNCHANGED rawKeeps  \* mutant
RawSynced(c) == rawKeeps' = [rawKeeps EXCEPT ![c] = {"final"}]

SyncRaw(c) ==
    /\ Goes(c, "renamed", "rawSynced")
    /\ RawSynced(c)
    /\ UNCHANGED <<raw, side, sideKeeps, sound, database, phase, todo>>

RenameSidecarEarly(c) ==  \* mutant
    /\ Goes(c, "renamed", "sideRenamed")
    /\ MoveSide(c, "final", sideKeeps[c] \cup {"final"})
    /\ UNCHANGED <<raw, rawKeeps, sound, database, phase, todo>>
RenameSidecar(c) ==
    /\ Goes(c, "rawSynced", "sideRenamed")
    /\ MoveSide(c, "final", sideKeeps[c] \cup {"final"})
    /\ UNCHANGED <<raw, rawKeeps, sound, database, phase, todo>>

SyncSidecar(c) ==
    /\ Goes(c, "sideRenamed", "committed")
    /\ sideKeeps' = [sideKeeps EXCEPT ![c] = {"final"}]
    /\ UNCHANGED <<raw, rawKeeps, side, sound, database, phase, todo>>

\* One transaction, for the fetch and for reconciliation alike: the capture row,
\* and the tick row overwritten.
RowOnly(c) == row' = [row EXCEPT ![c] = TRUE] /\ UNCHANGED tick  \* mutant
Registered(c) ==
    /\ row' = [row EXCEPT ![c] = TRUE]
    /\ tick' = [tick EXCEPT ![c] = "captured"]

SaveCapture(c) ==
    /\ Goes(c, "committed", "done")
    /\ Registered(c)
    /\ UNCHANGED <<files, phase, todo>>

\* "capture files committed but state update failed": the tick stays running.
SaveCaptureFails(c) ==
    /\ "statefail" \in Faults
    /\ Goes(c, "committed", "done")
    /\ UNCHANGED <<files, database, phase, todo>>

\* Commit fails before the payload is renamed: the sidecar is removed by Commit, the
\* payload by Abort, neither durably.
CommitUndone(c) ==
    /\ "io" \in Faults /\ step[c] \in BeforeRename
    /\ Goes(c, step[c], "failing")
    /\ MoveRaw(c, "none", rawKeeps[c] \cup {"none"})
    /\ MoveSide(c, "none", sideKeeps[c] \cup {"none"})
    /\ UNCHANGED <<sound, database, phase, todo>>

\* Commit fails after that: the files stay as they are, for the next start.
CommitLeft(c) ==
    /\ "io" \in Faults /\ step[c] \in RawCommitted
    /\ Goes(c, step[c], "failing")
    /\ UNCHANGED <<files, database, phase, todo>>

\* finishFailure records the result and, beside it, an error category.
FailureResult == "failed"

\* Where that transaction fails as well, the tick stays running.
FinishFailure(c) ==
    /\ Goes(c, "failing", "done")
    /\ \/ tick' = [tick EXCEPT ![c] = FailureResult]
       \/ "statefail" \in Faults /\ UNCHANGED tick
    /\ UNCHANGED <<files, row, phase, todo>>

-----------------------------------------------------------------------------
(* Startup *)

Start ==
    /\ phase = "down"
    /\ phase' = "finishing"
    /\ todo' = {c \in Capture : side[c] \in {"staged", "torn"}}
    /\ UNCHANGED <<files, step, database>>

\* A staged sidecar can be finished when its payload is found, in place or in
\* staging, with the right hash.
InPlaceOnly(c) == side[c] = "staged" /\ raw[c] = "final" /\ c \in sound  \* mutant
Finishable(c) == side[c] = "staged" /\ raw[c] \in {"staged", "final"} /\ c \in sound

\* finishInterruptedCommits takes one entry after the other; they do not touch each
\* other's files.
FinishRaw(c) ==
    /\ phase = "finishing" /\ c \in todo /\ Finishable(c) /\ raw[c] = "staged"
    /\ MoveRaw(c, "final", {"final"})
    /\ UNCHANGED <<side, sideKeeps, sound, step, database, phase, todo>>

FinishSidecar(c) ==
    /\ phase = "finishing" /\ c \in todo /\ Finishable(c) /\ raw[c] = "final"
    /\ MoveSide(c, "final", sideKeeps[c] \cup {"final"})
    /\ UNCHANGED <<raw, rawKeeps, sound, step, database, phase, todo>>

\* The payload and the sidecar are in the same directory.
FinishSync(c) ==
    /\ phase = "finishing" /\ c \in todo /\ side[c] = "final"
    /\ rawKeeps' = [rawKeeps EXCEPT ![c] = {raw[c]}]
    /\ sideKeeps' = [sideKeeps EXCEPT ![c] = {"final"}]
    /\ todo' = todo \ {c}
    /\ UNCHANGED <<raw, side, sound, step, database, phase>>

\* Counted as corrupt and left where it is.
FinishSkips(c) ==
    /\ phase = "finishing" /\ c \in todo /\ side[c] # "final" /\ ~Finishable(c)
    /\ todo' = todo \ {c}
    /\ UNCHANGED <<files, step, database, phase>>

FinishDone ==
    /\ phase = "finishing" /\ todo = {}
    /\ phase' = "walking"
    /\ UNCHANGED <<files, step, database, todo>>

Unregistered == {c \in Capture : side[c] = "final" /\ raw[c] = "final" /\ c \in sound /\ ~row[c]}

Register(c) ==
    /\ phase = "walking" /\ c \in Unregistered
    /\ Registered(c)
    /\ UNCHANGED <<files, step, phase, todo>>

RegisterDone ==
    /\ phase = "walking" /\ Unregistered = {}
    /\ phase' = "sweeping"
    /\ UNCHANGED <<files, step, database, todo>>

\* A rename, a directory sync or the state transaction fails: so does the start.
StartFails ==
    /\ \/ "io" \in Faults /\ phase = "finishing" /\ todo # {}
       \/ "statefail" \in Faults /\ phase = "walking" /\ Unregistered # {}
    /\ phase' = "down" /\ todo' = {}
    /\ UNCHANGED <<files, step, database>>

\* RemoveExpiredStaging removes what has lain in staging for a day.
RemoveExpiredStaging ==
    /\ phase = "sweeping"
    /\ \E oldRaw \in SUBSET {c \in Capture : raw[c] \in {"temp", "staged"}},
          oldSide \in SUBSET {c \in Capture : side[c] \in {"torn", "staged"}} :
         /\ raw' = [c \in Capture |-> IF c \in oldRaw THEN "none" ELSE raw[c]]
         /\ rawKeeps' = [c \in Capture |-> rawKeeps[c] \cup {raw'[c]}]
         /\ side' = [c \in Capture |-> IF c \in oldSide THEN "none" ELSE side[c]]
         /\ sideKeeps' = [c \in Capture |-> sideKeeps[c] \cup {side'[c]}]
    /\ phase' = "running"
    /\ UNCHANGED <<sound, step, database, todo>>

-----------------------------------------------------------------------------
(* The environment *)

\* Fetches in flight end with the process.
ProcessEnds ==
    /\ phase # "down"
    /\ phase' = "down" /\ todo' = {}
    /\ step' = [c \in Capture |-> IF step[c] = "idle" THEN "idle" ELSE "done"]

Kill ==
    /\ "kill" \in Faults
    /\ ProcessEnds
    /\ UNCHANGED <<files, database>>

\* SQLite commits with synchronous=FULL, so the rows are safe.
PowerLoss ==
    /\ "power" \in Faults
    /\ ProcessEnds
    /\ raw' \in {f \in [Capture -> RawPlace] : \A c \in Capture : f[c] \in rawKeeps[c]}
    /\ side' \in {f \in [Capture -> SidePlace] : \A c \in Capture : f[c] \in sideKeeps[c]}
    /\ rawKeeps' = [c \in Capture |-> {raw'[c]}]
    /\ sideKeeps' = [c \in Capture |-> {side'[c]}]
    /\ UNCHANGED <<sound, database>>

Stop ==
    /\ phase = "running" /\ \A c \in Capture : step[c] \in {"idle", "done"}
    /\ phase' = "down"
    /\ UNCHANGED <<files, step, database, todo>>

Damage(c) ==
    /\ "damage" \in Faults /\ raw[c] # "none"
    /\ sound' = sound \ {c}
    /\ UNCHANGED <<raw, rawKeeps, side, sideKeeps, step, database, phase, todo>>

-----------------------------------------------------------------------------
Fetch(c) ==
    \/ RecordTick(c) \/ RequestFails(c) \/ Stage(c) \/ NameStaged(c) \/ WriteSidecar(c)
    \/ SyncStaging(c) \/ RenameRaw(c) \/ SyncRaw(c) \/ RenameSidecar(c) \/ SyncSidecar(c)
    \/ SaveCapture(c) \/ SaveCaptureFails(c) \/ CommitUndone(c) \/ CommitLeft(c) \/ FinishFailure(c)

Reconcile ==
    \/ Start \/ FinishDone \/ RegisterDone \/ StartFails \/ RemoveExpiredStaging
    \/ \E c \in Capture : FinishRaw(c) \/ FinishSidecar(c) \/ FinishSync(c) \/ FinishSkips(c) \/ Register(c)

Environment == Kill \/ PowerLoss \/ Stop \/ \E c \in Capture : Damage(c)

Next == Reconcile \/ Environment \/ \E c \in Capture : Fetch(c)

Spec == Init /\ [][Next]_vars

-----------------------------------------------------------------------------
(* Properties *)

\* A payload that is in place, or may be found there after a power loss, always
\* has its sidecar, in place or in staging where the next start finds it: it is
\* never an orphan nobody can register.
NoOrphanPayload ==
    \A c \in sound : "final" \in rawKeeps[c] => sideKeeps[c] \subseteq {"staged", "final"}

\* When a start has reconciled, and before it removes old staging files, every
\* sound pair of files has its row, wherever the crash or the I/O error hit.
ReconciledIsRegistered ==
    phase = "sweeping" => \A c \in sound :
        raw[c] \in {"staged", "final"} /\ side[c] \in {"staged", "final"} => row[c]

\* The tick of a registered capture says so, also when the fetch had already
\* recorded it as failed (Commit failed, the next start finished it).
TickTellsRow == \A c \in Capture : row[c] <=> tick[c] = "captured"

\* The payload is durable in its place before the sidecar that points at it is
\* published, by Commit or by the start that finishes it after a power loss.
FirstHalfDurable ==
    [][\A c \in Capture : side[c] # "final" /\ side'[c] = "final" => rawKeeps[c] = {"final"}]_vars

\* The commit point is the sync of the payload's directory: from then on the
\* capture is stored, and only stored captures are registered.
Log == INSTANCE CaptureLog WITH
    stored <- {c \in Capture : rawKeeps[c] = {"final"} /\ sideKeeps[c] \subseteq {"staged", "final"}},
    registered <- {c \in Capture : row[c]}

StoredAtOnce == Log!Spec
=============================================================================
