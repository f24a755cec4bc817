------------------------------- MODULE Service -------------------------------
(***************************************************************************)
(* The archiver as operating system processes: services (`run`), of which  *)
(* a deployment may start the next one before the last one has gone, and   *)
(* the commands an operator runs beside them.  They share one storage root *)
(* with its lock file and one state database.  status and verify take no   *)
(* lock and write nothing; they are left out.                              *)
(***************************************************************************)
EXTENDS FiniteSets

CONSTANTS
    Archiver,   \* processes that run the service
    Command,    \* processes that run fetch-once, compact, upload, repair or retire
    Nobody      \* holds the lock file nobody has locked

ASSUME ServiceAssumption == Archiver \cap Command = {} /\ Nobody \notin Archiver \cup Command

Process == Archiver \cup Command
Worker == {"monitor", "maintenance", "scheduler"}
Phase == {"exited", "starting", "locked", "open", "working", "stopping", "closing", "closed", "released"}

VARIABLES
    phase,      \* of each process
    holder,     \* who holds the lock file
    database,   \* the processes that have the state database open
    begun,      \* the processes in the middle of a transaction that saves a capture
    workers,    \* the goroutines of a process that still run
    unsaved,    \* the processes that have put down a raw file without its row
    late        \* history: processes that put a file down after their own shutdown

vars == <<phase, holder, database, begun, workers, unsaved, late>>

TypeOK ==
    /\ phase \in [Process -> Phase]
    /\ holder \in Process \cup {Nobody}
    /\ database \subseteq Process /\ begun \subseteq Process
    /\ workers \in [Process -> SUBSET (Worker \cup {"command"})]
    /\ unsaved \subseteq Process /\ late \subseteq unsaved
    /\ \A p \in Process : phase[p] \in {"exited", "starting"} => workers[p] = {}

Init ==
    /\ phase = [p \in Process |-> "exited"]
    /\ holder = Nobody /\ database = {} /\ begun = {}
    /\ workers = [p \in Process |-> {}]
    /\ unsaved = {} /\ late = {}

Moves(p, from, to) == phase[p] = from /\ phase' = [phase EXCEPT ![p] = to]

-----------------------------------------------------------------------------
(* Starting.                                                               *)

Start(p) ==
    /\ Moves(p, "exited", "starting")
    /\ UNCHANGED <<holder, database, begun, workers, unsaved, late>>

\* LOCK_NB: a process that finds the lock taken gives up.
NeverTaken == TRUE  \* mutant
LockIsFree == holder = Nobody
AcquireLock(p) ==
    /\ \/ LockIsFree /\ Moves(p, "starting", "locked") /\ holder' = p
       \/ ~LockIsFree /\ Moves(p, "starting", "exited") /\ UNCHANGED holder
    /\ UNCHANGED <<database, begun, workers, unsaved, late>>

OpenState(p) ==
    /\ \/ Moves(p, "locked", "open") /\ database' = database \cup {p}
       \/ Moves(p, "locked", "closed") /\ UNCHANGED database
    /\ UNCHANGED <<holder, begun, workers, unsaved, late>>

\* Preflight, reconciliation and the removal of old staging files come before
\* the first worker.
SkipReconcile == unsaved  \* mutant
Reconciled == {}
StartWorkers(p) ==
    /\ p \in Archiver /\ Moves(p, "open", "working")
    /\ unsaved' = Reconciled /\ late' = late \cap Reconciled
    /\ workers' = [workers EXCEPT ![p] = Worker]
    /\ UNCHANGED <<holder, database, begun>>

StartCommand(p) ==
    /\ p \in Command /\ Moves(p, "open", "working")
    /\ workers' = [workers EXCEPT ![p] = {"command"}]
    /\ UNCHANGED <<holder, database, begun, unsaved, late>>

\* The preflight or the reconciliation fails.
GiveUp(p) ==
    /\ Moves(p, "open", "closing")
    /\ UNCHANGED <<holder, database, begun, workers, unsaved, late>>

-----------------------------------------------------------------------------
(* Working.  A fetch puts its raw file down first and saves the row next,  *)
(* in a transaction that closing the database neither ends nor awaits.     *)

Captures(p) == workers[p] \cap {"scheduler", "command"} # {}

PutFile(p) ==
    /\ Captures(p) /\ p \notin unsaved \cup begun
    /\ unsaved' = unsaved \cup {p}
    /\ late' = IF phase[p] \in {"working", "stopping"} THEN late ELSE late \cup {p}
    /\ UNCHANGED <<phase, holder, database, begun, workers>>

BeginRow(p) ==
    /\ Captures(p) /\ p \in unsaved /\ p \in database \ begun
    /\ begun' = begun \cup {p}
    /\ UNCHANGED <<phase, holder, database, workers, unsaved, late>>

SaveRow(p) ==
    /\ p \in begun /\ begun' = begun \ {p}
    /\ unsaved' = unsaved \ {p} /\ late' = late \ {p}
    /\ UNCHANGED <<phase, holder, database, workers>>

\* The transaction fails and is rolled back.
SaveRowFails(p) ==
    /\ p \in begun /\ begun' = begun \ {p}
    /\ UNCHANGED <<phase, holder, database, workers, unsaved, late>>

\* A signal arrives or the health server fails.
Stop(p) ==
    /\ Moves(p, "working", "stopping")
    /\ UNCHANGED <<holder, database, begun, workers, unsaved, late>>

\* The monitor and the maintenance return when their context is cancelled, the
\* scheduler when its fetches, which are not cancelled, are over; a command also
\* when it is done.
Busy(p) == IF p \in begun THEN {"scheduler", "command"} ELSE {}
WorkerEnds(p) ==
    /\ phase[p] = "stopping" \/ (phase[p] = "working" /\ p \in Command)
    /\ \E w \in workers[p] \ Busy(p) : workers' = [workers EXCEPT ![p] = @ \ {w}]
    /\ UNCHANGED <<phase, holder, database, begun, unsaved, late>>

-----------------------------------------------------------------------------
(* Stopping.                                                               *)

Joined(p) == workers[p] = {}
Finish(p) ==
    /\ Joined(p)
    /\ Moves(p, "stopping", "closing") \/ (p \in Command /\ Moves(p, "working", "closing"))
    /\ UNCHANGED <<holder, database, begun, workers, unsaved, late>>

NoDeadline(p) == FALSE  \* mutant
\* shutdown_timeout: the service no longer waits for its workers.
DeadlinePasses(p) ==
    /\ p \in Archiver /\ ~Joined(p)
    /\ Moves(p, "stopping", "closing")
    /\ UNCHANGED <<holder, database, begun, workers, unsaved, late>>

LeaveOpen(p) ==  \* mutant
    /\ Moves(p, "closing", "closed")
    /\ UNCHANGED <<holder, database, begun, workers, unsaved, late>>
CloseState(p) ==
    /\ Moves(p, "closing", "closed")
    /\ database' = database \ {p}
    /\ UNCHANGED <<holder, begun, workers, unsaved, late>>

ReleaseLock(p) ==
    /\ Moves(p, "closed", "released")
    /\ holder' = Nobody
    /\ UNCHANGED <<database, begun, workers, unsaved, late>>

Gone(p) ==
    /\ workers' = [workers EXCEPT ![p] = {}]
    /\ database' = database \ {p} /\ begun' = begun \ {p}
    /\ UNCHANGED <<unsaved, late>>

Exit(p) ==
    /\ Moves(p, "released", "exited")
    /\ Gone(p) /\ UNCHANGED holder

\* SIGKILL after the grace period, or a crash: the kernel drops the lock.
Kill(p) ==
    /\ phase[p] # "exited" /\ phase' = [phase EXCEPT ![p] = "exited"]
    /\ holder' = IF holder = p THEN Nobody ELSE holder
    /\ Gone(p)

-----------------------------------------------------------------------------
Next == \E p \in Process :
    \/ Start(p) \/ AcquireLock(p) \/ OpenState(p)
    \/ StartWorkers(p) \/ StartCommand(p) \/ GiveUp(p)
    \/ PutFile(p) \/ BeginRow(p) \/ SaveRow(p) \/ SaveRowFails(p) \/ Stop(p) \/ WorkerEnds(p)
    \/ Finish(p) \/ DeadlinePasses(p) \/ CloseState(p) \/ ReleaseLock(p)
    \/ Exit(p) \/ Kill(p)

Spec == Init /\ [][Next]_vars

\* The main goroutine runs on; nothing is assumed of the workers.
Fairness == \A p \in Process :
    /\ WF_vars(Finish(p)) /\ WF_vars(DeadlinePasses(p))
    /\ WF_vars(CloseState(p)) /\ WF_vars(ReleaseLock(p)) /\ WF_vars(Exit(p))

LiveSpec == Spec /\ Fairness

-----------------------------------------------------------------------------
\* Only the process that holds the lock can begin a transaction, also while it starts
\* and after it has given up on its workers; what runs on without the lock is a
\* transaction of such a worker, until its service is gone (openRuntime, Close).
RowsNeedTheLock ==
    /\ \A p \in database : holder = p
    /\ \A p \in begun : holder = p \/ (p \in Archiver /\ phase[p] = "released")

\* The workers of two processes run together only where one of them gave up
\* waiting for its own, and then without a database to begin anything in
\* (runService, Close).
OnlyLateWorkersOverlap ==
    \A p, q \in Process :
        p # q /\ workers[p] # {} /\ workers[q] # {} =>
            \E r \in {p, q} : phase[r] = "released" /\ r \notin database

\* Once a service works, the files other processes left without a row are those
\* of commands that ended since, and of workers that outlived the shutdown of
\* their service (reconcile.All before the first worker).
ServicesLeaveNoFileBehind ==
    \A p, q \in Archiver :
        p # q /\ phase[p] = "working" /\ q \in unsaved => q \in late

\* A service that is told to stop is gone in the end, although a worker may
\* hang (shutdown_timeout).
StoppedServiceExits ==
    \A p \in Archiver : phase[p] = "stopping" ~> phase[p] = "exited"
=============================================================================
