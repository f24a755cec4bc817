---------------------------- MODULE ServiceProofs ----------------------------
(***************************************************************************)
(* What Service promises for any number of processes.  The argument is one *)
(* table: in which phases a process holds the lock, may use the database   *)
(* and may have workers (Table).  Everything else follows from it.         *)
(***************************************************************************)
EXTENDS Service, TLAPS

Holding == {"locked", "open", "working", "stopping", "closing", "closed"}
Connected == {"open", "working", "stopping", "closing"}
Manned == {"working", "stopping", "closing", "closed", "released"}

\* The lock is held exactly in the phases between taking and releasing it, the
\* database is open in part of them, and the workers of a service may outlive both;
\* a transaction belongs to a worker that still runs.
Table ==
    /\ \A p \in Process : holder = p <=> phase[p] \in Holding
    /\ \A p \in database : phase[p] \in Connected
    /\ \A p \in Process : workers[p] # {} => phase[p] \in Manned
    /\ \A p \in Command : workers[p] # {} => phase[p] \in {"working", "stopping"}
    /\ \A p \in begun : Captures(p)

IInv == TypeOK /\ Table /\ ServicesLeaveNoFileBehind

\* Nothing runs at first (Init).
LEMMA InitIInv == Init => IInv
  BY ServiceAssumption DEF Init, IInv, TypeOK, Table, ServicesLeaveNoFileBehind, Phase, Holding, Process

\* Every step keeps the types, the table and the files accounted for (Next).
LEMMA NextIInv == IInv /\ [Next]_vars => IInv'
<1> SUFFICES ASSUME IInv, [Next]_vars PROVE IInv'
  OBVIOUS
<1> USE ServiceAssumption DEF IInv, Process
<1> USE DEF TypeOK, Table, ServicesLeaveNoFileBehind, Phase, Holding, Connected, Manned, Moves, Worker, Captures
<1>1. CASE UNCHANGED vars
  BY <1>1 DEF vars
<1>2. ASSUME NEW p \in Process, Start(p) PROVE IInv'
  BY <1>2 DEF Start
<1>3. ASSUME NEW p \in Process, AcquireLock(p) PROVE IInv'
  BY <1>3 DEF AcquireLock, LockIsFree
<1>4. ASSUME NEW p \in Process, OpenState(p) PROVE IInv'
  BY <1>4 DEF OpenState
<1>5. ASSUME NEW p \in Process, StartWorkers(p) PROVE IInv'
  BY <1>5 DEF StartWorkers, Reconciled
<1>6. ASSUME NEW p \in Process, StartCommand(p) PROVE IInv'
  BY <1>6 DEF StartCommand
<1>7. ASSUME NEW p \in Process, GiveUp(p) PROVE IInv'
  BY <1>7 DEF GiveUp
<1>8. ASSUME NEW p \in Process, PutFile(p) PROVE IInv'
  BY <1>8 DEF PutFile
<1>9. ASSUME NEW p \in Process, SaveRow(p) PROVE IInv'
  BY <1>9 DEF SaveRow
<1>10. ASSUME NEW p \in Process, Stop(p) PROVE IInv'
  BY <1>10 DEF Stop
<1>11. ASSUME NEW p \in Process, WorkerEnds(p) PROVE IInv'
  BY <1>11 DEF WorkerEnds, Busy
<1>12. ASSUME NEW p \in Process, Finish(p) PROVE IInv'
  BY <1>12 DEF Finish, Joined
<1>13. ASSUME NEW p \in Process, DeadlinePasses(p) PROVE IInv'
  BY <1>13 DEF DeadlinePasses, Joined
<1>14. ASSUME NEW p \in Process, CloseState(p) PROVE IInv'
  BY <1>14 DEF CloseState
<1>15. ASSUME NEW p \in Process, ReleaseLock(p) PROVE IInv'
  BY <1>15 DEF ReleaseLock
<1>16. ASSUME NEW p \in Process, Exit(p) PROVE IInv'
  BY <1>16 DEF Exit, Gone
<1>17. ASSUME NEW p \in Process, Kill(p) PROVE IInv'
  BY <1>17 DEF Kill, Gone
<1>18. ASSUME NEW p \in Process, BeginRow(p) PROVE IInv'
  BY <1>18 DEF BeginRow
<1>19. ASSUME NEW p \in Process, SaveRowFails(p) PROVE IInv'
  BY <1>19 DEF SaveRowFails
<1>20. QED
  BY <1>1, <1>2, <1>3, <1>4, <1>5, <1>6, <1>7, <1>8, <1>9, <1>10, <1>11, <1>12, <1>13,
     <1>14, <1>15, <1>16, <1>17, <1>18, <1>19 DEF Next

\* IInv holds in every reachable state.
THEOREM SpecIInv == Spec => []IInv
  BY InitIInv, NextIInv, PTL DEF Spec

\* The variables stay within their types, and a process that is not there has
\* no workers (Service.TypeOK).
THEOREM SpecTypeOK == Spec => []TypeOK
  BY SpecIInv, PTL DEF IInv

\* Only the process that holds the lock can begin a transaction on the state database,
\* and only one of a worker that outlived its service's deadline runs on without the
\* lock (openRuntime, Close).
THEOREM SpecRowsNeedTheLock == Spec => []RowsNeedTheLock
<1>1. IInv => RowsNeedTheLock
  BY DEF IInv, TypeOK, Table, RowsNeedTheLock, Holding, Connected, Manned, Captures, Process
<1> QED
  BY <1>1, SpecIInv, PTL

\* Two processes have workers at once only while one of them, its database
\* closed and its lock released, is about to exit (runService, Close).
THEOREM SpecOnlyLateWorkersOverlap == Spec => []OnlyLateWorkersOverlap
<1>1. IInv => OnlyLateWorkersOverlap
  <2> SUFFICES ASSUME IInv, NEW p \in Process, NEW q \in Process, p # q,
                      workers[p] # {}, workers[q] # {}
               PROVE \E r \in {p, q} : phase[r] = "released" /\ r \notin database
    BY DEF OnlyLateWorkersOverlap
  <2>1. phase[p] \in Manned /\ phase[q] \in Manned
    BY DEF IInv, Table
  <2>2. ~(phase[p] \in Holding /\ phase[q] \in Holding)
    BY DEF IInv, Table
  <2>3. PICK r \in {p, q} : phase[r] = "released"
    BY <2>1, <2>2 DEF Manned, Holding
  <2>4. r \notin database
    BY <2>3 DEF IInv, Table, Connected
  <2> QED
    BY <2>3, <2>4
<1> QED
  BY <1>1, SpecIInv, PTL

\* A working service has registered every raw file of the services before it,
\* but those of workers that outlived their shutdown (reconcile.All).
THEOREM SpecServicesLeaveNoFileBehind == Spec => []ServicesLeaveNoFileBehind
  BY SpecIInv, PTL DEF IInv
=============================================================================
