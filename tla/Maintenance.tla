---------------------------- MODULE Maintenance ----------------------------
(***************************************************************************)
(* The goroutines of Maintenance.Run: the compaction loop with its pool of *)
(* workers, the upload loop with one goroutine per destination, and the    *)
(* retention loop, with everything they wait on: archiveMu, the unbuffered *)
(* queue and its close, the lock of each stream, the upload semaphore, the *)
(* two wait groups and the context.  What a compaction, an upload or a     *)
(* retention pass does is in Archive; here each takes a while and returns. *)
(***************************************************************************)
EXTENDS Integers, FiniteSets

CONSTANTS
    Stream, Day,           \* a job is the day of a stream
    CompactionConcurrency,
    Destination,
    UploadConcurrency

ASSUME MaintenanceAssumption ==
    /\ IsFiniteSet(Stream) /\ IsFiniteSet(Day) /\ IsFiniteSet(Destination)
    /\ CompactionConcurrency \in Nat \ {0} /\ UploadConcurrency \in Nat \ {0}

Job == Stream \X Day
Worker == 1..CompactionConcurrency
Loop == {"compaction", "retention", "upload"}
Nobody == "nobody"
NoWorker == 0

VARIABLES
    cancelled,   \* the context is done
    loop,        \* what each loop does
    mutex,       \* the loop that holds archiveMu
    todo,        \* the jobs the compaction loop still has to hand over
    closed,      \* the queue is closed
    worker,      \* what a worker of the pool does
    hand,        \* the job a worker has received
    streamLock,  \* the worker that holds the lock of a stream
    uploader,    \* what the goroutine of a destination does
    compacted,   \* history: how often the running pass has compacted a job
    jobs         \* history: the jobs of the running pass

pool == <<todo, closed, worker, hand, streamLock, compacted, jobs>>
vars == <<cancelled, loop, mutex, pool, uploader>>

TypeOK ==
    /\ cancelled \in BOOLEAN
    /\ loop \in [Loop -> {"ticking", "locking", "feeding", "joining", "cleaning",
                          "uploading", "stopped"}]
    /\ mutex \in {"compaction", "retention", Nobody}
    /\ todo \subseteq Job /\ jobs \subseteq Job /\ closed \in BOOLEAN
    /\ worker \in [Worker -> {"none", "receiving", "received", "locking", "locked", "compacting"}]
    /\ hand \in [Worker -> Job \cup {<<>>}]
    /\ streamLock \in [Stream -> Worker \cup {NoWorker}]
    /\ uploader \in [Destination -> {"none", "waiting", "processing"}]
    /\ compacted \in [Job -> 0..1]

\* Each loop begins with a pass before its first tick.
Init ==
    /\ cancelled = FALSE
    /\ loop = [l \in Loop |-> IF l = "upload" THEN "ticking" ELSE "locking"]
    /\ mutex = Nobody
    /\ todo = {} /\ jobs = {} /\ closed = FALSE
    /\ worker = [w \in Worker |-> "none"] /\ hand = [w \in Worker |-> <<>>]
    /\ streamLock = [s \in Stream |-> NoWorker]
    /\ uploader = [d \in Destination |-> "none"]
    /\ compacted = [j \in Job |-> 0]

LoopGoes(l, from, to) == loop[l] = from /\ loop' = [loop EXCEPT ![l] = to]
WorkerGoes(w, from, to) == worker[w] = from /\ worker' = [worker EXCEPT ![w] = to]

-----------------------------------------------------------------------------
(* The tickers.  When the context is done and a tick is due, the select of *)
(* the loop may take either.                                               *)

NextPass(l) ==
    /\ LoopGoes(l, "ticking", "locking")
    /\ l # "upload"
    /\ UNCHANGED <<cancelled, mutex, pool, uploader>>

LoopStops(l) ==
    /\ cancelled /\ LoopGoes(l, "ticking", "stopped")
    /\ UNCHANGED <<cancelled, mutex, pool, uploader>>

Cancel ==
    /\ ~cancelled /\ cancelled' = TRUE
    /\ UNCHANGED <<loop, mutex, pool, uploader>>

-----------------------------------------------------------------------------
(* compactEligible.                                                        *)

\* Between the lock and the first job only the database is read, and the pass
\* returns when the context is done before the last stream.
StartCompaction(found) ==
    /\ mutex = Nobody
    /\ cancelled => found = {}
    /\ IF found = {}
       THEN LoopGoes("compaction", "locking", "ticking") /\ UNCHANGED <<mutex, pool>>
       ELSE /\ LoopGoes("compaction", "locking", "feeding")
            /\ mutex' = "compaction"
            /\ todo' = found /\ jobs' = found /\ closed' = FALSE
            /\ worker' = [w \in Worker |->
                    IF w <= Cardinality(found) THEN "receiving" ELSE "none"]
            /\ compacted' = [j \in Job |-> 0]
            /\ UNCHANGED <<hand, streamLock>>
    /\ UNCHANGED <<cancelled, uploader>>

\* The queue has no buffer: a job is sent when a worker receives it.
Remaining(j) == todo \ {j}

HandOver(w, j) ==
    /\ loop["compaction"] = "feeding" /\ j \in todo
    /\ WorkerGoes(w, "receiving", "received")
    /\ todo' = Remaining(j) /\ hand' = [hand EXCEPT ![w] = j]
    /\ UNCHANGED <<cancelled, loop, mutex, closed, streamLock, compacted, jobs, uploader>>

\* After the last job, or instead of a job when the context is done.
GiveUpAtOnce == LoopGoes("compaction", "feeding", "ticking") /\ mutex' = Nobody  \* mutant
JoinWorkers == LoopGoes("compaction", "feeding", "joining") /\ UNCHANGED mutex

AllButOneSent == Cardinality(todo) <= 1  \* mutant
AllSent == todo = {}

CloseQueue ==
    /\ AllSent \/ cancelled
    /\ JoinWorkers
    /\ todo' = {} /\ closed' = TRUE
    /\ UNCHANGED <<cancelled, worker, hand, streamLock, compacted, jobs, uploader>>

EndCompaction ==
    /\ \A w \in Worker : worker[w] = "none"
    /\ LoopGoes("compaction", "joining", "ticking")
    /\ mutex' = Nobody
    /\ UNCHANGED <<cancelled, pool, uploader>>

-----------------------------------------------------------------------------
(* The workers.                                                            *)

StreamOf(w) == hand[w][1]
Drops(w) == hand' = [hand EXCEPT ![w] = <<>>]

\* The range over a closed queue ends.
QueueEnds(w) ==
    /\ closed /\ WorkerGoes(w, "receiving", "none")
    /\ UNCHANGED <<cancelled, loop, mutex, todo, closed, hand, streamLock, compacted, jobs, uploader>>

\* The worker looks at the context before it waits for the stream, and again
\* when it has it.
CheckContext(w) ==
    /\ IF cancelled
       THEN WorkerGoes(w, "received", "none") /\ Drops(w)
       ELSE WorkerGoes(w, "received", "locking") /\ UNCHANGED hand
    /\ UNCHANGED <<cancelled, loop, mutex, todo, closed, streamLock, compacted, jobs, uploader>>

AnyStream(s) == TRUE  \* mutant
StreamFree(s) == streamLock[s] = NoWorker

LockStream(w) ==
    /\ WorkerGoes(w, "locking", "locked")
    /\ StreamFree(StreamOf(w))
    /\ streamLock' = [streamLock EXCEPT ![StreamOf(w)] = w]
    /\ UNCHANGED <<cancelled, loop, mutex, todo, closed, hand, compacted, jobs, uploader>>

KeepLock(w) == UNCHANGED streamLock  \* mutant
UnlockStream(w) == streamLock' = [streamLock EXCEPT ![StreamOf(w)] = NoWorker]

CheckAgain(w) ==
    /\ IF cancelled
       THEN WorkerGoes(w, "locked", "none") /\ UnlockStream(w) /\ Drops(w)
       ELSE WorkerGoes(w, "locked", "compacting") /\ UNCHANGED <<streamLock, hand>>
    /\ UNCHANGED <<cancelled, loop, mutex, todo, closed, compacted, jobs, uploader>>

\* Whether the compaction succeeded or failed, the worker takes the next job.
Compacted(w) ==
    /\ WorkerGoes(w, "compacting", "receiving")
    /\ UnlockStream(w)
    /\ compacted' = [compacted EXCEPT ![hand[w]] = @ + 1]
    /\ Drops(w)
    /\ UNCHANGED <<cancelled, loop, mutex, todo, closed, jobs, uploader>>

-----------------------------------------------------------------------------
(* cleanup and uploadAll.                                                  *)

StartCleanup ==
    /\ mutex = Nobody
    /\ LoopGoes("retention", "locking", "cleaning")
    /\ mutex' = "retention"
    /\ UNCHANGED <<cancelled, pool, uploader>>

EndCleanup ==
    /\ LoopGoes("retention", "cleaning", "ticking")
    /\ mutex' = Nobody
    /\ UNCHANGED <<cancelled, pool, uploader>>

StartUploads ==
    /\ LoopGoes("upload", "ticking", "uploading")
    /\ uploader' = [d \in Destination |-> "waiting"]
    /\ UNCHANGED <<cancelled, mutex, pool>>

Processing == {d \in Destination : uploader[d] = "processing"}

UploadSlotFree == Cardinality(Processing) < UploadConcurrency

AcquireUploadSlot(d) ==
    /\ uploader[d] = "waiting" /\ UploadSlotFree
    /\ uploader' = [uploader EXCEPT ![d] = "processing"]
    /\ UNCHANGED <<cancelled, loop, mutex, pool>>

UploaderReturns(d) ==
    /\ uploader[d] = "processing" \/ (uploader[d] = "waiting" /\ cancelled)
    /\ uploader' = [uploader EXCEPT ![d] = "none"]
    /\ UNCHANGED <<cancelled, loop, mutex, pool>>

EndUploads ==
    /\ \A d \in Destination : uploader[d] = "none"
    /\ LoopGoes("upload", "uploading", "ticking")
    /\ UNCHANGED <<cancelled, mutex, pool, uploader>>

-----------------------------------------------------------------------------
Stopped == \A l \in Loop : loop[l] = "stopped"

\* Run returns, and nothing of it goes on.
Returned == Stopped /\ UNCHANGED vars

WorkerNext(w) ==
    QueueEnds(w) \/ CheckContext(w) \/ LockStream(w) \/ CheckAgain(w) \/ Compacted(w)

Next ==
    \/ \E l \in Loop : NextPass(l) \/ LoopStops(l)
    \/ Cancel
    \/ \E found \in SUBSET Job : StartCompaction(found)
    \/ \E w \in Worker, j \in Job : HandOver(w, j)
    \/ CloseQueue \/ EndCompaction
    \/ \E w \in Worker : WorkerNext(w)
    \/ StartCleanup \/ EndCleanup
    \/ StartUploads \/ EndUploads
    \/ \E d \in Destination : AcquireUploadSlot(d) \/ UploaderReturns(d)
    \/ Returned

Spec == Init /\ [][Next]_vars

\* A runnable goroutine runs.  A Go mutex and a channel serve those that wait
\* in turn, so who waits again and again for a lock or a slot gets it; and a
\* compaction, an upload round and a retention pass return, because each step
\* of theirs ends or times out.
Fairness ==
    /\ \A l \in Loop : WF_vars(NextPass(l)) /\ SF_vars(LoopStops(l))
    /\ SF_vars(\E found \in SUBSET Job : StartCompaction(found))
    /\ \A w \in Worker :
        /\ WF_vars(\E j \in Job : HandOver(w, j))
        /\ WF_vars(QueueEnds(w)) /\ WF_vars(CheckContext(w)) /\ SF_vars(LockStream(w))
        /\ WF_vars(CheckAgain(w)) /\ WF_vars(Compacted(w))
    /\ WF_vars(CloseQueue) /\ WF_vars(EndCompaction)
    /\ SF_vars(StartCleanup) /\ WF_vars(EndCleanup)
    /\ WF_vars(StartUploads) /\ WF_vars(EndUploads)
    /\ \A d \in Destination : SF_vars(AcquireUploadSlot(d)) /\ WF_vars(UploaderReturns(d))

LiveSpec == Spec /\ Fairness

-----------------------------------------------------------------------------
Compacting(w) == worker[w] = "compacting"

\* Compaction and retention never overlap, although archiveMu is held by the
\* loop and not by the workers of its pool (compactEligible, cleanup).
ArchiveAlone == loop["retention"] = "cleaning" => \A w \in Worker : ~Compacting(w)

\* Two workers never compact days of the same stream at once, so the next
\* revision number is not taken twice (streamLocks, NextRevision).
StreamAlone ==
    \A v, w \in Worker : v # w /\ Compacting(v) /\ Compacting(w) => StreamOf(v) # StreamOf(w)

\* A pass that ends while the service runs has compacted every job it found once
\* (compactEligible).
EveryJobOnce ==
    loop["compaction"] = "ticking" /\ ~cancelled => \A j \in jobs : compacted[j] = 1

\* Until the service stops, compaction and retention both come round again and
\* so does the turn of every destination.
MaintenanceGoesOn ==
    \/ <>cancelled
    \/ /\ []<>(loop["compaction"] = "ticking") /\ []<>(loop["retention"] = "cleaning")
       /\ \A d \in Destination : []<>(uploader[d] = "processing")

\* A shutdown ends: no loop, worker or destination is left waiting.
RunReturns == cancelled ~> (Stopped /\ \A w \in Worker : worker[w] = "none")
=============================================================================
