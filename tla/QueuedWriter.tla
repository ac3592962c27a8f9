----------------------------- MODULE QueuedWriter -----------------------------
(***************************************************************************)
(* _QueuedWriter of policyengine_observability/delivery.py: one bounded    *)
(* queue, the daemon worker thread that drains it into a log writer, the   *)
(* application threads that call enqueue and the thread that calls close.  *)
(*                                                                         *)
(* Every call of enqueue is identified with the record it carries, and any *)
(* two calls may run concurrently; calls made one after the other by one   *)
(* thread are among the interleavings.  close is called by one thread at a *)
(* time (runtime.shutdown holds a lock), possibly more than once.  The     *)
(* writer is external code: build_writer, write_many, write and close may  *)
(* return, raise an Exception or, in the specifications without fairness   *)
(* for the worker, never return.                                           *)
(***************************************************************************)
EXTENDS Naturals, Sequences, SequencesExt

CONSTANTS Records,      \* the records of the enqueue calls
          Stop,         \* the _STOP sentinel
          Capacity,     \* queue capacity, after the clamp to at least 1
          BatchSize,    \* batch size, after the clamp to at least 1
          MaxCloses     \* bound: number of calls of close

ASSUME QueueAssumption ==
    /\ Stop \notin Records
    /\ Capacity \in Nat \ {0}
    /\ BatchSize \in Nat \ {0}
    /\ MaxCloses \in Nat

VARIABLES queue,        \* contents of self._queue, oldest first
          unfinished,   \* unfinished_tasks of self._queue
          closed,       \* self._closed
          fate,         \* progress of each enqueue call, then of its record
          pc,           \* where the worker thread is in _run
          batch,        \* records of the batch being gathered or written
          stopping,     \* stop_after_batch: the sentinel has been consumed
          writer,       \* self._writer: "none" until built
          closer,       \* where the calling thread is in close
          calls,        \* calls of close so far
          timeouts,     \* diagnostics counter logs.shutdown_timeout
          racing        \* history: records put while the worker might not look

vars == <<queue, unfinished, closed, fate, pc, batch, stopping, writer,
          closer, calls, timeouts, racing>>

Fates == {"new", "checked", "queued", "written", "failed",
          "droppedClosed", "droppedFull"}

WorkerPc == {"get", "empty", "gather", "deliver", "closing", "exited"}

TypeOK ==
    /\ queue \in Seq(Records \cup {Stop})
    /\ Len(queue) <= Capacity
    /\ unfinished \in Nat
    /\ closed \in BOOLEAN
    /\ fate \in [Records -> Fates]
    /\ pc \in WorkerPc
    /\ batch \in Seq(Records)
    /\ Len(batch) <= BatchSize
    /\ stopping \in BOOLEAN
    /\ writer \in {"none", "open", "closed"}
    /\ closer \in {"idle", "stop", "join"}
    /\ calls \in 0..MaxCloses
    /\ timeouts \in Nat
    /\ racing \in SUBSET Records

Init ==
    /\ queue = <<>>
    /\ unfinished = 0
    /\ closed = FALSE
    /\ fate = [r \in Records |-> "new"]
    /\ pc = "get"
    /\ batch = <<>>
    /\ stopping = FALSE
    /\ writer = "none"
    /\ closer = "idle"
    /\ calls = 0
    /\ timeouts = 0
    /\ racing = {}

workerVars == <<pc, batch, stopping, writer>>
closeVars  == <<closed, closer, calls, timeouts>>
-------------------------------------------------------------------------------
(* enqueue *)

\* Mutant: one item more than the capacity.
HasRoomOffByOne == Len(queue) <= Capacity

HasRoom == Len(queue) < Capacity

\* self._closed.is_set(): a closed destination drops and counts the record.
CheckClosed(r) ==
    /\ fate[r] = "new"
    /\ fate' = [fate EXCEPT ![r] = IF closed THEN "droppedClosed" ELSE "checked"]
    /\ UNCHANGED <<queue, unfinished, racing, workerVars, closeVars>>

\* put_nowait succeeds.  The flag read by CheckClosed may be stale by now.
\* racing remembers the puts that happen when the destination is already
\* closed, or between the worker's timed out get and its look at the flag.
Put(r) ==
    /\ fate[r] = "checked"
    /\ HasRoom
    /\ queue' = Append(queue, r)
    /\ unfinished' = unfinished + 1
    /\ fate' = [fate EXCEPT ![r] = "queued"]
    /\ racing' = IF closed \/ pc = "empty" THEN racing \cup {r} ELSE racing
    /\ UNCHANGED <<workerVars, closeVars>>

\* Mutant: put waits for room.
PutWaits(r) == Put(r)

\* put_nowait raises queue.Full: the newest record is dropped and counted.
PutFull(r) ==
    /\ fate[r] = "checked"
    /\ ~HasRoom
    /\ fate' = [fate EXCEPT ![r] = "droppedFull"]
    /\ UNCHANGED <<queue, unfinished, racing, workerVars, closeVars>>

FinishEnqueue(r) == Put(r) \/ PutFull(r)
-------------------------------------------------------------------------------
(* close *)

\* Mutant: close does not look at the flag.
NeverClosed == FALSE

AlreadyClosed == closed

\* A destination that is already closed returns at once.
CloseAgain ==
    /\ closer = "idle"
    /\ AlreadyClosed
    /\ calls < MaxCloses
    /\ calls' = calls + 1
    /\ UNCHANGED <<queue, unfinished, fate, racing, workerVars,
                   closed, closer, timeouts>>

CloseBegin ==
    /\ closer = "idle"
    /\ ~AlreadyClosed
    /\ calls < MaxCloses
    /\ closed' = TRUE
    /\ closer' = "stop"
    /\ calls' = calls + 1
    /\ UNCHANGED <<queue, unfinished, fate, racing, workerVars, timeouts>>

\* The sentinel is put if there is room; queue.Full is ignored.
PutStop ==
    /\ closer = "stop"
    /\ IF HasRoom
       THEN queue' = Append(queue, Stop) /\ unfinished' = unfinished + 1
       ELSE UNCHANGED <<queue, unfinished>>
    /\ closer' = "join"
    /\ UNCHANGED <<fate, racing, workerVars, closed, calls, timeouts>>

\* Mutant: a worker that is late goes unreported.
NeverLate == FALSE

\* is_alive, once join has returned.
WorkerLate == pc # "exited"

\* join returns because the worker has ended or because the timeout passed,
\* which can be at any moment; a late worker is counted.
JoinReturns ==
    /\ closer = "join"
    /\ timeouts' = IF WorkerLate THEN timeouts + 1 ELSE timeouts
    /\ closer' = "idle"
    /\ UNCHANGED <<queue, unfinished, fate, racing, workerVars, closed, calls>>

FinishClose == PutStop \/ JoinReturns
-------------------------------------------------------------------------------
(* _run *)

\* self._queue.get returns an item.  The sentinel ends the batch at once.
Get ==
    /\ pc = "get"
    /\ queue # <<>>
    /\ queue' = Tail(queue)
    /\ IF Head(queue) = Stop
       THEN /\ stopping' = TRUE
            /\ pc' = "deliver"
            /\ UNCHANGED batch
       ELSE /\ batch' = <<Head(queue)>>
            /\ pc' = "gather"
            /\ UNCHANGED stopping
    /\ UNCHANGED <<unfinished, fate, racing, writer, closeVars>>

\* Mutant: the flag ends the loop before the queue is drained.
NothingOrClosed == queue = <<>> \/ closed

NothingToGet == queue = <<>>

\* get raises queue.Empty after 0.2 seconds without an item ...
GetTimesOut ==
    /\ pc = "get"
    /\ NothingToGet
    /\ pc' = "empty"
    /\ UNCHANGED <<queue, unfinished, fate, racing, batch, stopping, writer,
                   closeVars>>

\* Mutant: only the sentinel ends the loop.
NeverLeave == FALSE

MayLeave == closed

\* ... and only then does the worker look at the flag.
AfterTimeout ==
    /\ pc = "empty"
    /\ pc' = IF MayLeave THEN "closing" ELSE "get"
    /\ UNCHANGED <<queue, unfinished, fate, racing, batch, stopping, writer,
                   closeVars>>

\* Mutant: the batch is gathered newest first.
GatheredReversed == <<Head(queue)>> \o batch

Gathered == Append(batch, Head(queue))

\* One round of the get_nowait loop that fills the batch.
GatherOne ==
    /\ pc = "gather"
    /\ ~stopping
    /\ Len(batch) < BatchSize
    /\ queue # <<>>
    /\ queue' = Tail(queue)
    /\ IF Head(queue) = Stop
       THEN stopping' = TRUE /\ UNCHANGED batch
       ELSE batch' = Gathered /\ UNCHANGED stopping
    /\ UNCHANGED <<unfinished, fate, racing, pc, writer, closeVars>>

GatherDone ==
    /\ pc = "gather"
    /\ stopping \/ Len(batch) = BatchSize \/ queue = <<>>
    /\ pc' = "deliver"
    /\ UNCHANGED <<queue, unfinished, fate, racing, batch, stopping, writer,
                   closeVars>>

\* Mutant: the sentinel is not among the consumed items.
ConsumedRecords == Len(batch)

\* Len(consumed): the records of the batch and the sentinel.
Consumed == Len(batch) + (IF stopping THEN 1 ELSE 0)

\* The finally clause and what follows it: one task_done per consumed item,
\* then the worker leaves the loop if it consumed the sentinel; a batch without
\* records returns whatever it consumed.
EndBatch ==
    /\ unfinished' = unfinished - Consumed
    /\ batch' = <<>>
    /\ pc' = IF stopping \/ batch = <<>> THEN "closing" ELSE "get"
    /\ UNCHANGED <<queue, racing, stopping, closeVars>>

\* The writer has taken the first k records of the batch and not the others.
Settle(k) ==
    fate' = [r \in Records |->
                IF \E i \in 1..k : batch[i] = r THEN "written"
                ELSE IF \E i \in (k + 1)..Len(batch) : batch[i] = r THEN "failed"
                ELSE fate[r]]

\* Mutant: the sentinel ends the worker before its batch is written.
NothingOrStopping == batch = <<>> \/ stopping

NothingToWrite == batch = <<>>

\* The sentinel came alone: return without touching the writer.
DeliverNothing ==
    /\ pc = "deliver"
    /\ NothingToWrite
    /\ UNCHANGED <<fate, writer>>
    /\ EndBatch

\* build_writer raises; the next batch tries again.
BuildFails ==
    /\ pc = "deliver"
    /\ ~NothingToWrite
    /\ writer = "none"
    /\ Settle(0)
    /\ UNCHANGED writer
    /\ EndBatch

\* The writer, built now if this is the first batch, gets the batch.  When it
\* raises, a prefix of the batch has reached it: write_many may fail before or
\* after storing anything, and the loop over write stops at the first error.
Write ==
    /\ pc = "deliver"
    /\ ~NothingToWrite
    /\ writer' = "open"
    /\ \E k \in 0..Len(batch) : Settle(k)
    /\ EndBatch

Deliver == DeliverNothing \/ BuildFails \/ Write

\* Mutant: the thread ends and leaves its writer open.
LeftOpen(w) == w

\* A writer that was built is closed, whatever its close raises.
Released(w) == IF w = "none" THEN "none" ELSE "closed"

\* The outer finally clause, and the thread ends.
CloseWriter ==
    /\ pc = "closing"
    /\ writer' = Released(writer)
    /\ pc' = "exited"
    /\ UNCHANGED <<queue, unfinished, fate, racing, batch, stopping, closeVars>>

Worker ==
    \/ Get
    \/ GetTimesOut
    \/ AfterTimeout
    \/ GatherOne
    \/ GatherDone
    \/ Deliver
    \/ CloseWriter
-------------------------------------------------------------------------------
Next ==
    \/ \E r \in Records : CheckClosed(r) \/ FinishEnqueue(r)
    \/ CloseAgain
    \/ CloseBegin
    \/ FinishClose
    \/ Worker

Spec == Init /\ [][Next]_vars

\* Threads inside enqueue or close keep running; nobody is obliged to call
\* either, and nothing is assumed of the worker or of the writer it calls.
CallersRun ==
    /\ \A r \in Records : WF_vars(FinishEnqueue(r))
    /\ WF_vars(FinishClose)

\* Callers run; the writer may block for ever.
BlockingSpec == Spec /\ CallersRun

\* The worker thread is scheduled and every call of the writer returns.
WorkerRuns == WF_vars(Worker)
-------------------------------------------------------------------------------
(* Safety *)

InQueue(r) == \E i \in DOMAIN queue : queue[i] = r

\* The worker calls task_done once for every item it took, the sentinel
\* included, and never more often: one call too many raises ValueError in the
\* finally clause and ends the thread while the destination is still open.
TaskAccounting ==
    unfinished = Len(queue) + Len(batch)
                 + (IF stopping /\ pc \in {"gather", "deliver"} THEN 1 ELSE 0)

\* Once the worker has decided to end, a record it leaves in the queue was put
\* there after close had set the flag, or in the gap between a timed out get
\* and the look at the flag.  A record put before close began, at any other
\* moment, has been handed to the writer.
StrandedOnlyIfRacing ==
    pc \in {"closing", "exited"} =>
        \A r \in Records : fate[r] = "queued" => r \in racing

\* A close that returns without reporting a timeout has seen the worker end:
\* the writer is closed and every record put in time was handed to it.
CleanCloseMeansDrained ==
    (closed /\ closer = "idle" /\ timeouts = 0) =>
        /\ pc = "exited"
        /\ writer # "open"
        /\ \A r \in Records \ racing : fate[r] # "queued"

\* Repeated calls of close report the same blocked worker only once.
TimeoutReportedOnce == timeouts <= 1

\* The worker does not end with an open writer, nor while the destination is
\* still open to new records, and a closed writer gets no more batches.
WriterClosedAtExit ==
    /\ pc = "exited" => writer # "open" /\ closed
    /\ writer = "closed" => pc = "exited" /\ batch = <<>>
-------------------------------------------------------------------------------
(* Liveness *)

\* The application thread gets out of enqueue and of close even if the writer
\* never returns: neither waits for room in the queue, and join is bounded.
CallersReturn ==
    /\ \A r \in Records : fate[r] = "checked" ~> fate[r] # "checked"
    /\ closer # "idle" ~> closer = "idle"

\* A closed destination stops its worker, if the writer returns, even when the
\* queue was full and the sentinel could not be put.
WorkerStops == WorkerRuns => (closed ~> pc = "exited")

\* If the writer returns, a record that was put in time is eventually written or
\* counted as failed.
QueuedIsSettled ==
    WorkerRuns =>
        \A r \in Records :
            fate[r] = "queued" ~> (fate[r] \in {"written", "failed"} \/ r \in racing)
-------------------------------------------------------------------------------
(* Refinement *)

\* A queue without the sentinel, which is in it at most once.
WithoutStop(items) ==
    IF \E i \in 1..Len(items) : items[i] = Stop
    THEN RemoveAt(items, CHOOSE i \in 1..Len(items) : items[i] = Stop)
    ELSE items

SinkFate(f) ==
    CASE f = "checked" -> "offered"
      [] f = "queued" -> "pending"
      [] f \in {"droppedClosed", "droppedFull"} -> "refused"
      [] OTHER -> f

Sink == INSTANCE RecordSink WITH
            pending <- batch \o WithoutStop(queue),
            fate <- [r \in Records |-> SinkFate(fate[r])],
            open <- ~closed,
            active <- pc # "exited"

\* The queue, the sentinel and the worker loop implement the destination that
\* the emitting code relies on.
ImplementsSink == Sink!SinkSpec
===============================================================================
