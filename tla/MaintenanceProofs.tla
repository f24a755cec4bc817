-------------------------- MODULE MaintenanceProofs --------------------------
(***************************************************************************)
(* What Maintenance promises for any number of streams, days, workers and  *)
(* destinations.  The invariant has three parts: who holds archiveMu in    *)
(* which state of the loops (Mutexes), what a worker holds in which state  *)
(* (Hands), and where every job of the running pass is (Jobs).             *)
(***************************************************************************)
EXTENDS Maintenance, TLAPS

Feeding == loop["compaction"] \in {"feeding", "joining"}

\* archiveMu is the loop's; a pool only exists while the compaction loop has it.
Mutexes ==
    /\ Feeding <=> mutex = "compaction"
    /\ loop["retention"] = "cleaning" <=> mutex = "retention"
    /\ ~Feeding => \A w \in Worker : worker[w] = "none"
    /\ loop["compaction"] # "feeding" => todo = {}
    /\ loop["compaction"] # "cleaning"

\* A worker has a job from the hand-over on, and the lock of its stream while
\* it is locked or compacting.
Hands ==
    /\ \A w \in Worker : worker[w] \in {"none", "receiving"} <=> hand[w] = <<>>
    /\ \A w \in Worker : hand[w] # <<>> => hand[w] \in Job
    /\ \A w \in Worker :
        worker[w] \in {"locked", "compacting"} => streamLock[StreamOf(w)] = w

\* A job is in one place; none is lost while the service runs.
Jobs ==
    /\ \A w \in Worker : hand[w] # <<>> => hand[w] \notin todo /\ compacted[hand[w]] = 0
    /\ \A v, w \in Worker : v # w /\ hand[v] # <<>> => hand[v] # hand[w]
    /\ \A j \in todo : compacted[j] = 0
    /\ ~cancelled => \A j \in jobs : j \in todo \/ compacted[j] = 1 \/ \E w \in Worker : hand[w] = j

IInv == TypeOK /\ Mutexes /\ Hands /\ Jobs

\* A job is a pair, never the empty hand.
LEMMA JobFacts == \A j \in Job : j # <<>> /\ j[1] \in Stream
  BY DEF Job

\* The loops start with their first pass, and nothing is held (Init).
LEMMA InitIInv == Init => IInv
<1> SUFFICES ASSUME Init PROVE IInv
  OBVIOUS
<1>1. loop["compaction"] = "locking" /\ loop["retention"] = "locking"
  BY DEF Init, Loop
<1>2. TypeOK
  <2>1. compacted \in [Job -> 0..1]
    BY DEF Init
  <2>2. loop \in [Loop -> {"ticking", "locking"}]
    BY DEF Init
  <2>3. hand \in [Worker -> Job \cup {<<>>}]
    BY DEF Init
  <2>4. worker \in [Worker -> {"none"}] /\ uploader \in [Destination -> {"none"}]
    BY DEF Init
  <2>5. streamLock \in [Stream -> Worker \cup {NoWorker}]
    BY DEF Init
  <2> QED
    BY <2>1, <2>2, <2>3, <2>4, <2>5 DEF Init, TypeOK
<1>3. Mutexes
  BY <1>1 DEF Init, Mutexes, Feeding, Nobody
<1>4. Hands
  BY DEF Init, Hands
<1>5. Jobs
  BY DEF Init, Jobs
<1> QED
  BY <1>2, <1>3, <1>4, <1>5 DEF IInv

\* The steps of the loops (Run, compactEligible, cleanup, uploadAll).
LEMMA LoopSteps ==
    ASSUME IInv, NEW l \in Loop,
           \/ NextPass(l) \/ LoopStops(l) \/ Cancel
           \/ StartCleanup \/ EndCleanup \/ StartUploads \/ EndUploads
    PROVE  IInv'
<1> USE DEF IInv, TypeOK, Mutexes, Hands, Jobs, Feeding, Loop, LoopGoes, Nobody, pool, StreamOf
<1>1. CASE NextPass(l)
  BY <1>1 DEF NextPass
<1>2. CASE LoopStops(l)
  BY <1>2 DEF LoopStops
<1>3. CASE Cancel
  BY <1>3 DEF Cancel
<1>4. CASE StartCleanup
  BY <1>4 DEF StartCleanup
<1>5. CASE EndCleanup
  BY <1>5 DEF EndCleanup
<1>6. CASE StartUploads
  BY <1>6 DEF StartUploads
<1>7. CASE EndUploads
  BY <1>7 DEF EndUploads
<1> QED
  BY <1>1, <1>2, <1>3, <1>4, <1>5, <1>6, <1>7

\* The steps of the goroutine of a destination (uploadAll).
LEMMA UploaderSteps ==
    ASSUME IInv, NEW d \in Destination, AcquireUploadSlot(d) \/ UploaderReturns(d)
    PROVE  IInv'
<1> USE DEF IInv, TypeOK, Mutexes, Hands, Jobs, Feeding, Loop, Nobody, pool, StreamOf
<1>1. CASE AcquireUploadSlot(d)
  BY <1>1 DEF AcquireUploadSlot
<1>2. CASE UploaderReturns(d)
  BY <1>2 DEF UploaderReturns
<1> QED
  BY <1>1, <1>2

\* A pass of the compaction loop: its start, the hand-overs, the close of the
\* queue and the wait for the workers (compactEligible).
LEMMA PassSteps ==
    ASSUME IInv,
           \/ \E found \in SUBSET Job : StartCompaction(found)
           \/ \E w \in Worker, j \in Job : HandOver(w, j)
           \/ CloseQueue \/ EndCompaction
    PROVE  IInv'
<1>1. ASSUME NEW found \in SUBSET Job, StartCompaction(found) PROVE IInv'
  <2>1. CASE found = {}
    BY <1>1, <2>1
    DEF StartCompaction, IInv, TypeOK, Mutexes, Hands, Jobs, Feeding, Loop, LoopGoes, Nobody, pool, StreamOf
  <2>2. CASE found # {}
    <3>1. /\ LoopGoes("compaction", "locking", "feeding")
          /\ mutex = Nobody /\ mutex' = "compaction"
          /\ todo' = found /\ jobs' = found /\ closed' = FALSE
          /\ worker' \in [Worker -> {"none", "receiving"}]
          /\ compacted' = [j \in Job |-> 0]
          /\ UNCHANGED <<hand, streamLock, cancelled, uploader>>
      BY <1>1, <2>2 DEF StartCompaction
    <3>2. \A w \in Worker : worker[w] = "none" /\ hand[w] = <<>>
      BY <3>1 DEF IInv, Mutexes, Hands, Feeding, LoopGoes
    <3>3. TypeOK'
      <4>1. compacted' \in [Job -> 0..1]
        BY <3>1
      <4>2. worker' \in [Worker -> {"none", "receiving", "received", "locking", "locked", "compacting"}]
        BY <3>1
      <4> QED
        BY <3>1, <4>1, <4>2 DEF IInv, TypeOK, LoopGoes
    <3>4. Mutexes'
      BY <3>1 DEF IInv, TypeOK, Mutexes, Feeding, Loop, LoopGoes, Nobody
    <3>5. Hands'
      BY <3>1, <3>2 DEF Hands
    <3>6. Jobs'
      BY <3>1, <3>2 DEF Jobs
    <3> QED
      BY <3>3, <3>4, <3>5, <3>6 DEF IInv
  <2> QED
    BY <2>1, <2>2
<1>2. ASSUME NEW w \in Worker, NEW j \in Job, HandOver(w, j) PROVE IInv'
  <2>1. /\ loop["compaction"] = "feeding" /\ j \in todo /\ worker[w] = "receiving"
        /\ worker' = [worker EXCEPT ![w] = "received"]
        /\ todo' = todo \ {j} /\ hand' = [hand EXCEPT ![w] = j]
        /\ UNCHANGED <<cancelled, loop, mutex, closed, streamLock, compacted, jobs, uploader>>
    BY <1>2 DEF HandOver, WorkerGoes, Remaining
  <2>2. hand[w] = <<>> /\ j # <<>>
    BY <2>1, JobFacts DEF IInv, Hands
  <2>3. TypeOK'
    BY <2>1 DEF IInv, TypeOK
  <2>4. Mutexes'
    BY <2>1 DEF IInv, TypeOK, Mutexes, Feeding
  <2>5. Hands'
    BY <2>1, <2>2 DEF IInv, TypeOK, Hands, StreamOf
  <2>6. Jobs'
    <3>1. hand \in [Worker -> Job \cup {<<>>}] /\ jobs \subseteq Job
      BY DEF IInv, TypeOK
    <3>2. hand'[w] = j /\ \A v \in Worker : v # w => hand'[v] = hand[v]
      BY <2>1, <3>1
    <3>3. \A v \in Worker : hand'[v] # <<>> => hand'[v] \notin todo' /\ compacted'[hand'[v]] = 0
      BY <2>1, <3>2 DEF IInv, Jobs
    <3>4. \A u, v \in Worker : u # v /\ hand'[u] # <<>> => hand'[u] # hand'[v]
      BY <2>1, <2>2, <3>2 DEF IInv, Jobs
    <3>5. ASSUME ~cancelled', NEW i \in jobs'
          PROVE  i \in todo' \/ compacted'[i] = 1 \/ \E v \in Worker : hand'[v] = i
      <4>1. i # <<>> /\ (i \in todo \/ compacted[i] = 1 \/ \E v \in Worker : hand[v] = i)
        BY <2>1, <3>1, <3>5, JobFacts DEF IInv, Jobs
      <4> QED
        BY <2>1, <2>2, <3>2, <4>1
    <3> QED
      BY <2>1, <3>3, <3>4, <3>5 DEF IInv, Jobs
  <2> QED
    BY <2>3, <2>4, <2>5, <2>6 DEF IInv
<1>3. CASE CloseQueue
  BY <1>3 DEF CloseQueue, AllSent, JoinWorkers, IInv, TypeOK, Mutexes, Hands, Jobs, Feeding, Loop,
     LoopGoes, Nobody, StreamOf
<1>4. CASE EndCompaction
  BY <1>4 DEF EndCompaction, IInv, TypeOK, Mutexes, Hands, Jobs, Feeding, Loop, LoopGoes, Nobody,
     pool, StreamOf
<1> QED
  BY <1>1, <1>2, <1>3, <1>4

\* The steps of a worker of the pool (compactEligible).
LEMMA WorkerSteps ==
    ASSUME IInv, NEW w \in Worker, WorkerNext(w)
    PROVE  IInv'
<1>1. CASE QueueEnds(w)
  BY <1>1 DEF QueueEnds, WorkerGoes, StreamOf, IInv, TypeOK, Mutexes, Hands, Jobs, Feeding
<1>2. CASE CheckContext(w)
  BY <1>2 DEF CheckContext, WorkerGoes, StreamOf, IInv, TypeOK, Mutexes, Hands, Jobs, Feeding, Drops
<1>3. CASE LockStream(w)
  <2>1. /\ worker[w] = "locking" /\ worker' = [worker EXCEPT ![w] = "locked"]
        /\ streamLock[StreamOf(w)] = NoWorker
        /\ streamLock' = [streamLock EXCEPT ![StreamOf(w)] = w]
        /\ UNCHANGED <<cancelled, loop, mutex, todo, closed, hand, compacted, jobs, uploader>>
    BY <1>3 DEF LockStream, WorkerGoes, StreamFree
  <2>2. hand[w] \in Job /\ StreamOf(w) \in Stream
    BY <2>1, JobFacts DEF IInv, TypeOK, Hands, StreamOf
  <2>3. TypeOK'
    BY <2>1, <2>2 DEF IInv, TypeOK
  <2>4. Mutexes'
    BY <2>1 DEF IInv, TypeOK, Mutexes, Feeding
  <2>5. Hands'
    <3>1. ASSUME NEW v \in Worker, worker'[v] \in {"locked", "compacting"}
          PROVE  streamLock'[hand[v][1]] = v
      <4>1. CASE v = w
        BY <2>1, <2>2, <4>1 DEF IInv, TypeOK, StreamOf
      <4>2. CASE v # w
        <5>1. worker[v] \in {"locked", "compacting"}
          BY <2>1, <3>1, <4>2 DEF IInv, TypeOK
        <5>2. streamLock[hand[v][1]] = v /\ hand[v] \in Job
          BY <5>1 DEF IInv, Hands, StreamOf
        <5>3. hand[v][1] \in Stream /\ v # NoWorker
          BY <5>2, JobFacts, MaintenanceAssumption DEF Worker, NoWorker
        <5> QED
          BY <2>1, <5>2, <5>3 DEF IInv, TypeOK
      <4> QED
        BY <4>1, <4>2
    <3> QED
      BY <2>1, <3>1 DEF IInv, TypeOK, Hands, StreamOf
  <2>6. Jobs'
    BY <2>1 DEF IInv, Jobs
  <2> QED
    BY <2>3, <2>4, <2>5, <2>6 DEF IInv
<1>4. ASSUME worker[w] \in {"locked", "compacting"}, UnlockStream(w), Drops(w),
             NEW to \in {"none", "receiving"}, worker' = [worker EXCEPT ![w] = to]
      PROVE  Hands' /\ hand' \in [Worker -> Job \cup {<<>>}]
             /\ streamLock' \in [Stream -> Worker \cup {NoWorker}]
             /\ worker' \in [Worker -> {"none", "receiving", "received", "locking", "locked", "compacting"}]
  <2>1. hand[w] \in Job /\ StreamOf(w) \in Stream /\ streamLock[StreamOf(w)] = w
    BY <1>4, JobFacts DEF IInv, TypeOK, Hands, StreamOf
  <2>2. /\ hand' = [hand EXCEPT ![w] = <<>>]
        /\ streamLock' = [streamLock EXCEPT ![StreamOf(w)] = NoWorker]
    BY <1>4 DEF UnlockStream, Drops
  <2>3. ASSUME NEW v \in Worker, worker'[v] \in {"locked", "compacting"}
        PROVE  streamLock'[hand'[v][1]] = v
    <3>1. v # w /\ worker[v] \in {"locked", "compacting"} /\ hand'[v] = hand[v]
      BY <1>4, <2>2, <2>3 DEF IInv, TypeOK
    <3>2. streamLock[hand[v][1]] = v /\ hand[v] \in Job /\ hand[v][1] \in Stream
      BY <3>1, JobFacts DEF IInv, Hands, StreamOf
    <3>3. hand[v][1] # StreamOf(w)
      BY <2>1, <3>1, <3>2
    <3> QED
      BY <2>2, <3>1, <3>2, <3>3 DEF IInv, TypeOK
  <2>4. Hands'
    BY <1>4, <2>2, <2>3 DEF IInv, TypeOK, Hands, StreamOf
  <2> QED
    BY <1>4, <2>1, <2>2, <2>4 DEF IInv, TypeOK
<1>5. CASE CheckAgain(w)
  <2>1. CASE cancelled
    <3>1. /\ worker[w] = "locked" /\ worker' = [worker EXCEPT ![w] = "none"]
          /\ UnlockStream(w) /\ Drops(w)
          /\ UNCHANGED <<cancelled, loop, mutex, todo, closed, compacted, jobs, uploader>>
      BY <1>5, <2>1 DEF CheckAgain, WorkerGoes
    <3>2. TypeOK' /\ Hands'
      BY <1>4, <3>1 DEF IInv, TypeOK
    <3>3. Mutexes'
      BY <3>1 DEF IInv, TypeOK, Mutexes, Feeding
    <3>4. Jobs'
      BY <2>1, <3>1 DEF IInv, TypeOK, Jobs, Drops
    <3> QED
      BY <3>2, <3>3, <3>4 DEF IInv
  <2>2. CASE ~cancelled
    BY <1>5, <2>2 DEF CheckAgain, WorkerGoes, StreamOf, IInv, TypeOK, Mutexes, Hands, Jobs, Feeding
  <2> QED
    BY <2>1, <2>2
<1>6. CASE Compacted(w)
  <2>1. /\ worker[w] = "compacting" /\ worker' = [worker EXCEPT ![w] = "receiving"]
        /\ UnlockStream(w) /\ Drops(w)
        /\ compacted' = [compacted EXCEPT ![hand[w]] = @ + 1]
        /\ UNCHANGED <<cancelled, loop, mutex, todo, closed, jobs, uploader>>
    BY <1>6 DEF Compacted, WorkerGoes
  <2>2. hand[w] \in Job /\ hand[w] # <<>> /\ compacted[hand[w]] = 0 /\ hand[w] \notin todo
    BY <2>1, JobFacts DEF IInv, TypeOK, Hands, Jobs
  <2>3. compacted' \in [Job -> 0..1] /\ compacted'[hand[w]] = 1
        /\ \A j \in Job : j # hand[w] => compacted'[j] = compacted[j]
    BY <2>1, <2>2 DEF IInv, TypeOK
  <2>4. TypeOK' /\ Hands'
    BY <1>4, <2>1, <2>3 DEF IInv, TypeOK
  <2>5. Mutexes'
    BY <2>1 DEF IInv, TypeOK, Mutexes, Feeding
  <2>6. Jobs'
    <3>1. hand' = [hand EXCEPT ![w] = <<>>] /\ hand \in [Worker -> Job \cup {<<>>}]
          /\ todo \subseteq Job /\ jobs \subseteq Job
      BY <2>1 DEF Drops, IInv, TypeOK
    <3>2. hand'[w] = <<>> /\ \A v \in Worker : v # w => hand'[v] = hand[v]
      BY <3>1
    <3>3. \A v \in Worker : hand'[v] # <<>> => hand'[v] \in Job /\ hand'[v] # hand[w] /\ hand'[v] = hand[v]
      BY <2>2, <3>1, <3>2 DEF IInv, Jobs
    <3>4. \A v \in Worker : hand'[v] # <<>> => hand'[v] \notin todo' /\ compacted'[hand'[v]] = 0
      BY <2>1, <2>3, <3>3 DEF IInv, Jobs
    <3>5. \A u, v \in Worker : u # v /\ hand'[u] # <<>> => hand'[u] # hand'[v]
      BY <3>2, <3>3 DEF IInv, Jobs
    <3>6. \A j \in todo' : compacted'[j] = 0
      BY <2>1, <2>2, <2>3, <3>1 DEF IInv, Jobs
    <3>7. ASSUME ~cancelled', NEW i \in jobs'
          PROVE  i \in todo' \/ compacted'[i] = 1 \/ \E v \in Worker : hand'[v] = i
      <4>1. i \in Job /\ (i \in todo \/ compacted[i] = 1 \/ \E v \in Worker : hand[v] = i)
        BY <2>1, <3>1, <3>7 DEF IInv, Jobs
      <4> QED
        BY <2>1, <2>3, <3>2, <4>1
    <3> QED
      BY <3>4, <3>5, <3>6, <3>7 DEF Jobs
  <2> QED
    BY <2>4, <2>5, <2>6 DEF IInv
<1> QED
  BY <1>1, <1>2, <1>3, <1>5, <1>6 DEF WorkerNext

\* Every step keeps the invariant (Next).
LEMMA NextIInv == IInv /\ [Next]_vars => IInv'
<1> SUFFICES ASSUME IInv, [Next]_vars PROVE IInv'
  OBVIOUS
<1>1. CASE UNCHANGED vars
  BY <1>1 DEF vars, pool, IInv, TypeOK, Mutexes, Hands, Jobs, Feeding, StreamOf
<1>2. CASE Next
  <2>1. "upload" \in Loop
    BY DEF Loop
  <2> QED
    BY <1>1, <1>2, <2>1, LoopSteps, UploaderSteps, PassSteps, WorkerSteps DEF Next, Returned
<1> QED
  BY <1>1, <1>2

\* IInv holds in every reachable state.
THEOREM SpecIInv == Spec => []IInv
  BY InitIInv, NextIInv, PTL DEF Spec

\* The loops, the workers and what they hold stay within their types (Run).
THEOREM SpecTypeOK == Spec => []TypeOK
  BY SpecIInv, PTL DEF IInv

\* A retention pass never runs while a worker compacts (archiveMu).
THEOREM SpecArchiveAlone == Spec => []ArchiveAlone
<1>1. IInv => ArchiveAlone
  BY DEF IInv, Mutexes, Feeding, ArchiveAlone, Compacting
<1> QED
  BY <1>1, SpecIInv, PTL

\* No two workers compact the same stream (streamLocks).
THEOREM SpecStreamAlone == Spec => []StreamAlone
<1>1. IInv => StreamAlone
  BY DEF IInv, Hands, StreamAlone, Compacting
<1> QED
  BY <1>1, SpecIInv, PTL

\* A pass that ends while the service runs has compacted every job it found
\* exactly once (compactEligible).
THEOREM SpecEveryJobOnce == Spec => []EveryJobOnce
<1>1. IInv => EveryJobOnce
  <2> SUFFICES ASSUME IInv, loop["compaction"] = "ticking", ~cancelled, NEW j \in jobs
               PROVE  compacted[j] = 1
    BY DEF EveryJobOnce
  <2>1. todo = {} /\ \A w \in Worker : hand[w] = <<>>
    BY DEF IInv, Mutexes, Hands, Feeding
  <2>2. j \in Job /\ j # <<>>
    BY JobFacts DEF IInv, TypeOK
  <2> QED
    BY <2>1, <2>2 DEF IInv, Jobs
<1> QED
  BY <1>1, SpecIInv, PTL
=============================================================================
