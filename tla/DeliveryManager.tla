---------------------------- MODULE DeliveryManager ---------------------------
(***************************************************************************)
(* DeliveryManager of policyengine_observability/delivery.py: the fan-out  *)
(* of each record to the inline destinations and to the queued ones, the   *)
(* disabling of an inline destination whose writes keep failing, and the   *)
(* shutdown that closes everything before one shared deadline.             *)
(*                                                                         *)
(* Any number of application threads emit at the same time, and one more   *)
(* thread calls close, one call after the other.  self._inline is not      *)
(* locked: each operation on the list is atomic and everything between two *)
(* of them can interleave.  A queued destination is QueuedWriter seen from *)
(* outside: its worker may end once it is closed, and may also never end.  *)
(***************************************************************************)
EXTENDS Naturals, Sequences, FiniteSets, SequencesExt

CONSTANTS Emitters,     \* the application threads
          Configured,   \* number of configured inline destinations
          MaxQueued,    \* number of configured queued destinations
          Closeable,    \* inline destinations whose writer has a close method
          Limit,        \* DESTINATION_FAILURE_LIMIT
          MaxEmits,     \* bound: number of records emitted by one thread
          MaxFallbacks, \* bound: number of standard-output fallbacks
          MaxCloses     \* bound: number of calls of close

\* Inline destinations are numbered: the configured ones first, then the
\* standard-output fallbacks, whose writer has no close method.
Inline == 1..(Configured + MaxFallbacks)

ASSUME ManagerAssumption ==
    /\ Configured \in Nat
    /\ MaxQueued \in Nat
    /\ Closeable \in SUBSET (1..Configured)
    /\ Limit \in Nat \ {0}
    /\ MaxEmits \in Nat
    /\ MaxFallbacks \in Nat \ {0}
    /\ MaxCloses \in Nat

VARIABLES built,      \* number of inline destinations that could be built
          queued,     \* length of self._queued
          inline,     \* self._inline
          fallbacks,  \* standard-output destinations built so far
          failures,   \* failures of each inline destination
          tasks,      \* self._cleanup_tasks, and whether each thread still runs
          worker,     \* of each queued destination, seen from outside
          timeouts,   \* diagnostics counter logs.shutdown_timeout
          em,         \* the local state of each emitting thread
          cl          \* the local state of the closing thread

\* History: the writes of each destination that failed in a row, the
\* destinations for which they ever reached Limit, those written by one thread
\* before another had counted its write, those whose cleanup thread could not
\* start (a reported failure), and the workers reported for a timeout.
VARIABLES streak, tripped, raced, unstarted, blamed

config  == <<built, queued>>
list    == <<inline, fallbacks>>
writes  == <<failures, streak, tripped, raced>>
cleanup == <<tasks, unstarted>>
queues  == <<worker, blamed>>

vars == <<config, list, writes, cleanup, queues, timeouts, em, cl>>

\* An emitter: its copy of self._inline, its position in that copy, the destination
\* it has written to and not yet counted (or 0), the count it has read, its list
\* `disabled`, its position in self._inline when it removes one of those, the
\* number of its emits and, as history, the destinations it has written to in
\* this one.
Emitter == [pc : {"idle", "write", "reset", "read", "add", "check", "disable",
                  "cleanup", "count", "fallback"},
            copy : Seq(Inline), pos : Nat \ {0}, wrote : Inline \cup {0}, seen : Nat,
            disabled : Seq(Inline), scan : Nat \ {0},
            emits : 0..MaxEmits, tried : SUBSET Inline]

\* The closer: what is left of its copy of self._inline, its position in the
\* list of queued destinations and then of tasks, the length of its copy of the
\* task list, whether the deadline has passed, and the number of its calls.
Closer == [pc : {"idle", "clear", "cleanup", "queued", "worker", "join"},
           left : Seq(Inline), pos : Nat \ {0}, tasks : Nat,
           expired : BOOLEAN, calls : 0..MaxCloses]

Task == [dest : Closeable, busy : BOOLEAN, told : BOOLEAN]

TypeOK ==
    /\ built \in 0..Configured
    /\ queued \in 0..MaxQueued
    /\ inline \in Seq(Inline)
    /\ fallbacks \in 0..MaxFallbacks
    /\ failures \in [Inline -> Nat]
    /\ tasks \in Seq(Task)
    /\ worker \in [1..queued -> {"open", "closing", "ended"}]
    /\ timeouts \in Nat
    /\ em \in [Emitters -> Emitter]
    /\ cl \in Closer
    /\ streak \in [Inline -> Nat]
    /\ tripped \in SUBSET Inline
    /\ raced \in SUBSET Inline
    /\ unstarted \in SUBSET Closeable
    /\ blamed \in SUBSET (1..queued)

\* _configure: a destination whose writer or worker could not be built is left
\* out and not numbered; standard output stands in when none is left.
Init ==
    /\ built \in 0..Configured
    /\ queued \in 0..MaxQueued
    /\ IF built + queued = 0
       THEN inline = <<Configured + 1>> /\ fallbacks = 1
       ELSE inline = [i \in 1..built |-> i] /\ fallbacks = 0
    /\ failures = [d \in Inline |-> 0]
    /\ tasks = <<>>
    /\ worker = [q \in 1..queued |-> "open"]
    /\ timeouts = 0
    /\ em = [e \in Emitters |-> [pc |-> "idle", copy |-> <<>>, pos |-> 1, wrote |-> 0,
                                 seen |-> 0, disabled |-> <<>>, scan |-> 1,
                                 emits |-> 0, tried |-> {}]]
    /\ cl = [pc |-> "idle", left |-> <<>>, pos |-> 1, tasks |-> 0,
             expired |-> FALSE, calls |-> 0]
    /\ streak = [d \in Inline |-> 0]
    /\ tripped = {}
    /\ raced = {}
    /\ unstarted = {}
    /\ blamed = {}
-------------------------------------------------------------------------------
(* _start_writer_cleanup *)

\* Mutant: a disabled destination is dropped without closing its writer.
NoCleanup(d) == UNCHANGED cleanup

NewTask(d) == [dest |-> d, busy |-> TRUE, told |-> FALSE]

\* A writer without close needs nothing.  The cleanup thread is started and
\* its task listed under one lock, or the thread cannot start and no task is
\* listed.  The thread then runs close on its own, for as long as that takes.
StartWriterCleanup(d) ==
    \/ d \notin Closeable /\ UNCHANGED cleanup
    \/ d \in Closeable /\ tasks' = Append(tasks, NewTask(d)) /\ UNCHANGED unstarted
    \/ d \in Closeable /\ unstarted' = unstarted \cup {d} /\ UNCHANGED tasks

CleanupEnds(i) ==
    /\ tasks[i].busy
    /\ tasks' = [tasks EXCEPT ![i].busy = FALSE]
    /\ UNCHANGED <<config, list, writes, unstarted, queues, timeouts, em, cl>>

\* A worker ends only after its destination was closed (QueuedWriter).
WorkerEnds(q) ==
    /\ worker[q] = "closing"
    /\ worker' = [worker EXCEPT ![q] = "ended"]
    /\ UNCHANGED <<config, list, writes, cleanup, blamed, timeouts, em, cl>>
-------------------------------------------------------------------------------
(* emit *)

EmitBegin(e) ==
    /\ em[e].pc = "idle"
    /\ em[e].emits < MaxEmits
    /\ em' = [em EXCEPT ![e] = [pc |-> "write", copy |-> inline, pos |-> 1, wrote |-> 0,
                                seen |-> 0, disabled |-> <<>>, scan |-> 1,
                                emits |-> em[e].emits + 1, tried |-> {}]]
    /\ UNCHANGED <<config, list, writes, cleanup, queues, timeouts, cl>>

\* Mutant: emit walks self._inline itself and not a copy.
LiveList(e) == inline

\* The list whose destinations the emitter writes to, one by one.
Walked(e) == em[e].copy

Target(e) == Walked(e)[em[e].pos]

AtTarget(e) == em[e].pc = "write" /\ em[e].pos <= Len(Walked(e))

\* Another thread has written to d and not yet reset or raised its count.
Uncounted(e, d) == em[e].wrote = d /\ em[e].pc \in {"reset", "read", "add"}
RacedAt(e, d) == \E f \in Emitters \ {e} : Uncounted(f, d)

\* e has written to its target, and is at pc with it.
Wrote(e, pc) ==
    LET d == Target(e)
    IN  /\ AtTarget(e)
        /\ em' = [em EXCEPT ![e].tried = @ \cup {d}, ![e].wrote = d, ![e].pc = pc]
        /\ raced' = raced \cup {x \in {d} : RacedAt(e, x)}
        /\ UNCHANGED <<config, list, failures, cleanup, queues, timeouts, cl>>

\* The write returns ...
Write(e) ==
    /\ Wrote(e, "reset")
    /\ streak' = [streak EXCEPT ![Target(e)] = 0]
    /\ UNCHANGED tripped

\* Mutant: a success leaves the count of failures alone.
KeepFailures(d) == failures[d]

FailuresAfterSuccess(d) == 0

\* ... and the count is reset, without a lock, as it is below.
ResetFailures(e) ==
    LET d == em[e].wrote
    IN  /\ em[e].pc = "reset"
        /\ failures' = [failures EXCEPT ![d] = FailuresAfterSuccess(d)]
        /\ em' = [em EXCEPT ![e].pc = "write", ![e].pos = @ + 1, ![e].wrote = 0]
        /\ UNCHANGED <<config, list, streak, tripped, raced, cleanup, queues, timeouts, cl>>

\* The write raises ...
WriteFails(e) ==
    /\ Wrote(e, "read")
    /\ streak' = [streak EXCEPT ![Target(e)] = @ + 1]
    /\ tripped' = tripped \cup {d \in {Target(e)} : streak[d] + 1 >= Limit}

\* ... and the count is read, and stored one higher.
ReadFailures(e) ==
    /\ em[e].pc = "read"
    /\ em' = [em EXCEPT ![e].pc = "add", ![e].seen = failures[em[e].wrote]]
    /\ UNCHANGED <<config, list, writes, cleanup, queues, timeouts, cl>>

AddFailure(e) ==
    /\ em[e].pc = "add"
    /\ failures' = [failures EXCEPT ![em[e].wrote] = em[e].seen + 1]
    /\ em' = [em EXCEPT ![e].pc = "check", ![e].seen = 0]
    /\ UNCHANGED <<config, list, streak, tripped, raced, cleanup, queues, timeouts, cl>>

\* The count is read again after the diagnostics calls: another thread may
\* have changed it in the meantime.
CheckLimit(e) ==
    /\ em[e].pc = "check"
    /\ em' = [em EXCEPT ![e].pc = "write", ![e].pos = @ + 1, ![e].wrote = 0,
                        ![e].disabled = IF failures[em[e].wrote] >= Limit
                                        THEN Append(@, em[e].wrote) ELSE @]
    /\ UNCHANGED <<config, list, writes, cleanup, queues, timeouts, cl>>

LoopEnds(e) ==
    /\ em[e].pc = "write"
    /\ em[e].pos > Len(Walked(e))
    /\ em' = [em EXCEPT ![e].pc = "disable"]
    /\ UNCHANGED <<config, list, writes, cleanup, queues, timeouts, cl>>

\* The record goes to the queue of each queued destination, which accepts it
\* or drops and counts it (QueuedWriter), and emit returns.
FanOut(e) ==
    /\ em[e].pc = "disable"
    /\ em[e].disabled = <<>>
    /\ em' = [em EXCEPT ![e].pc = "idle"]
    /\ UNCHANGED <<config, list, writes, cleanup, queues, timeouts, cl>>
-------------------------------------------------------------------------------
(* _disable_inline *)

Attached(d) == d \in ToSet(inline)

\* list.remove goes by position and compares: the destination itself is found and
\* removed at once, but another is compared by the __eq__ of the dataclass, during
\* which other threads run and the list may change.
Scanning(e) == em[e].pc = "disable" /\ em[e].disabled # <<>>
Found(e) == inline[em[e].scan] = Head(em[e].disabled)

Compare(e) ==
    /\ Scanning(e)
    /\ em[e].scan <= Len(inline)
    /\ ~Found(e)
    /\ em' = [em EXCEPT ![e].scan = @ + 1]
    /\ UNCHANGED <<config, list, writes, cleanup, queues, timeouts, cl>>

RemoveInline(e) ==
    /\ Scanning(e)
    /\ em[e].scan <= Len(inline)
    /\ Found(e)
    /\ inline' = RemoveAt(inline, em[e].scan)
    /\ em' = [em EXCEPT ![e].pc = "cleanup", ![e].scan = 1]
    /\ UNCHANGED <<config, fallbacks, writes, cleanup, queues, timeouts, cl>>

\* Mutant: a destination that is not found is cleaned up like one that is.
CleanedUpAnyway(s) == [s EXCEPT !.pc = "cleanup", !.scan = 1]

\* Mutant: a destination that is not found is looked for again.
LookedForAgain(s) == [s EXCEPT !.scan = 1]

GivenUp(s) == [s EXCEPT !.disabled = Tail(@), !.scan = 1]

\* ValueError: another thread has removed it, or close has emptied the list, or it
\* has moved to a position that had been passed.
NotFound(e) ==
    /\ Scanning(e)
    /\ em[e].scan > Len(inline)
    /\ em' = [em EXCEPT ![e] = GivenUp(em[e])]
    /\ UNCHANGED <<config, list, writes, cleanup, queues, timeouts, cl>>

CleanupDisabled(e) ==
    /\ em[e].pc = "cleanup"
    /\ StartWriterCleanup(Head(em[e].disabled))
    /\ em' = [em EXCEPT ![e].pc = "count"]
    /\ UNCHANGED <<config, list, writes, queues, timeouts, cl>>

\* Mutant: what is left is judged by the copy made when emit began.
CopyLeft(e) == Len(em[e].copy) > 1 \/ queued > 0

AnyLeft(e) == inline # <<>> \/ queued > 0

\* Is any destination left?  The answer may be stale when it is used.
CountLeft(e) ==
    /\ em[e].pc = "count"
    /\ em' = IF AnyLeft(e)
             THEN [em EXCEPT ![e].pc = "disable", ![e].disabled = Tail(@)]
             ELSE [em EXCEPT ![e].pc = "fallback"]
    /\ UNCHANGED <<config, list, writes, cleanup, queues, timeouts, cl>>

AddFallback(e) ==
    /\ em[e].pc = "fallback"
    /\ fallbacks < MaxFallbacks
    /\ inline' = Append(inline, Configured + fallbacks + 1)
    /\ fallbacks' = fallbacks + 1
    /\ em' = [em EXCEPT ![e].pc = "disable", ![e].disabled = Tail(@)]
    /\ UNCHANGED <<config, writes, cleanup, queues, timeouts, cl>>

EmitStep(e) ==
    \/ Write(e) \/ ResetFailures(e)
    \/ WriteFails(e) \/ ReadFailures(e) \/ AddFailure(e) \/ CheckLimit(e)
    \/ LoopEnds(e)
    \/ Compare(e) \/ RemoveInline(e) \/ NotFound(e) \/ CleanupDisabled(e)
    \/ CountLeft(e) \/ AddFallback(e) \/ FanOut(e)
-------------------------------------------------------------------------------
(* close *)

CloseBegin ==
    /\ cl.pc = "idle"
    /\ cl.calls < MaxCloses
    /\ cl' = [cl EXCEPT !.pc = "clear", !.left = inline, !.expired = FALSE,
                        !.calls = @ + 1]
    /\ UNCHANGED <<config, list, writes, cleanup, queues, timeouts, em>>

\* The deadline can pass at any moment of the call.
DeadlinePasses ==
    /\ cl.pc # "idle"
    /\ ~cl.expired
    /\ cl' = [cl EXCEPT !.expired = TRUE]
    /\ UNCHANGED <<config, list, writes, cleanup, queues, timeouts, em>>

Clear ==
    /\ cl.pc = "clear"
    /\ inline' = <<>>
    /\ cl' = [cl EXCEPT !.pc = "cleanup"]
    /\ UNCHANGED <<config, fallbacks, writes, cleanup, queues, timeouts, em>>

CleanupInline ==
    /\ cl.pc = "cleanup"
    /\ cl.left # <<>>
    /\ StartWriterCleanup(Head(cl.left))
    /\ cl' = [cl EXCEPT !.left = Tail(@)]
    /\ UNCHANGED <<config, list, writes, queues, timeouts, em>>

CleanupDone ==
    /\ cl.pc = "cleanup"
    /\ cl.left = <<>>
    /\ cl' = [cl EXCEPT !.pc = "queued", !.pos = 1]
    /\ UNCHANGED <<config, list, writes, cleanup, queues, timeouts, em>>

\* Mutant: a destination whose turn comes after the deadline is skipped.
SkipQueuedLate(q) == worker[q] # "open" \/ cl.expired

SkipQueued(q) == worker[q] # "open"

\* _QueuedWriter.close: one that is already closed returns at once ...
CloseQueued ==
    /\ cl.pc = "queued"
    /\ cl.pos <= queued
    /\ IF SkipQueued(cl.pos)
       THEN cl' = [cl EXCEPT !.pos = @ + 1] /\ UNCHANGED worker
       ELSE /\ cl' = [cl EXCEPT !.pc = "worker"]
            /\ worker' = [worker EXCEPT ![cl.pos] = "closing"]
    /\ UNCHANGED <<config, list, writes, cleanup, blamed, timeouts, em>>

\* Mutant: join without a timeout.
JoinEndsOnExit(alive) == ~alive

JoinEnds(alive) == ~alive \/ cl.expired

\* ... and the others wait for the worker as long as the deadline allows.
JoinWorker ==
    /\ cl.pc = "worker"
    /\ JoinEnds(worker[cl.pos] # "ended")
    /\ IF worker[cl.pos] = "ended"
       THEN UNCHANGED <<timeouts, blamed>>
       ELSE timeouts' = timeouts + 1 /\ blamed' = blamed \cup {cl.pos}
    /\ cl' = [cl EXCEPT !.pc = "queued", !.pos = @ + 1]
    /\ UNCHANGED <<config, list, writes, cleanup, worker, em>>

\* The task list is copied only now, under its lock.
CopyTasks ==
    /\ cl.pc = "queued"
    /\ cl.pos > queued
    /\ cl' = [cl EXCEPT !.pc = "join", !.pos = 1, !.tasks = Len(tasks)]
    /\ UNCHANGED <<config, list, writes, cleanup, queues, timeouts, em>>

\* Mutant: a task is reported by every close that finds it unfinished.
ReportAgain(task) == task.busy

\* The test made under the lock once join has returned.
ReportTask(task) == task.busy /\ ~task.told

JoinTask ==
    /\ cl.pc = "join"
    /\ cl.pos <= cl.tasks
    /\ JoinEnds(tasks[cl.pos].busy)
    /\ IF ReportTask(tasks[cl.pos])
       THEN timeouts' = timeouts + 1 /\ tasks' = [tasks EXCEPT ![cl.pos].told = TRUE]
       ELSE UNCHANGED <<timeouts, tasks>>
    /\ cl' = [cl EXCEPT !.pos = @ + 1]
    /\ UNCHANGED <<config, list, writes, unstarted, queues, em>>

CloseReturns ==
    /\ cl.pc = "join"
    /\ cl.pos > cl.tasks
    /\ cl' = [cl EXCEPT !.pc = "idle"]
    /\ UNCHANGED <<config, list, writes, cleanup, queues, timeouts, em>>

CloseStep ==
    \/ Clear \/ CleanupInline \/ CleanupDone \/ CloseQueued \/ JoinWorker
    \/ CopyTasks \/ JoinTask \/ CloseReturns
-------------------------------------------------------------------------------
Next ==
    \/ \E e \in Emitters : EmitBegin(e) \/ EmitStep(e)
    \/ CloseBegin
    \/ CloseStep
    \/ DeadlinePasses
    \/ \E i \in 1..Len(tasks) : CleanupEnds(i)
    \/ \E q \in 1..queued : WorkerEnds(q)

Spec == Init /\ [][Next]_vars

\* The threads that are inside emit or close keep running, inline writers
\* return and time passes.  The workers and the cleanup threads may hang.
FairSpec ==
    /\ Spec
    /\ \A e \in Emitters : WF_vars(EmitStep(e))
    /\ WF_vars(CloseStep)
    /\ WF_vars(DeadlinePasses)
-------------------------------------------------------------------------------
(* Safety *)

\* As long as close has not begun, records have somewhere to go, except while
\* some thread is busy replacing the last destination it has removed: however
\* the removals interleave, the thread that removes last sees an empty list.
NoBlackout ==
    (cl.calls = 0 /\ \A e \in Emitters : em[e].pc \notin {"cleanup", "count", "fallback"}) =>
        inline # <<>> \/ queued > 0

\* Each emit writes to every destination that was attached when it began, even
\* if other threads remove destinations while it is in its loop.
EveryDestinationTried ==
    \A e \in Emitters :
        em[e].pc \in {"disable", "cleanup", "count", "fallback"} =>
            ToSet(em[e].copy) \subseteq em[e].tried

\* Some thread has still to start the cleanup of d.
CleanupDue(d) ==
    \/ \E e \in Emitters : em[e].pc = "cleanup" /\ Head(em[e].disabled) = d
    \/ cl.pc \in {"clear", "cleanup"} /\ d \in ToSet(cl.left)

\* A destination that has left the list, disabled or cleared by close, has had
\* its writer's cleanup started, or the failure to start it was reported.
RemovedIsCleanedUp ==
    \A d \in Closeable \cap 1..built :
        Attached(d) \/ CleanupDue(d) \/ d \in unstarted
        \/ \E i \in 1..Len(tasks) : tasks[i].dest = d

\* Threads that disable a destination at the same time close its writer once.
DisabledOnce ==
    cl.calls = 0 => \A i, j \in 1..Len(tasks) : tasks[i].dest = tasks[j].dest => i = j

\* When close returns, every worker that still runs and every cleanup among
\* those it waited for has been reported as late, now or by an earlier close.
CloseAccountsForAll ==
    (cl.pc = "idle" /\ cl.calls > 0) =>
        /\ \A q \in 1..queued : worker[q] = "ended" \/ q \in blamed
        /\ \A i \in 1..cl.tasks : tasks[i].busy => tasks[i].told

\* The counter of late shutdowns counts each worker and each cleanup once,
\* however often close is called.
LateCountedOnce ==
    timeouts = Cardinality({i \in 1..Len(tasks) : tasks[i].told}) + Cardinality(blamed)

\* Only close, or Limit failed writes in a row, remove a destination, unless two
\* threads ever wrote to it so close together that one had not counted its write.
DisabledAfterStreak ==
    [][\A d \in Inline :
        Attached(d) /\ ~Attached(d)' =>
            d \in tripped \cup raced \/ (cl.pc = "clear" /\ cl.pc' = "cleanup")]_vars

\* CHANGELOG.md:107 says that a destination is disabled after repeated consecutive
\* failures: before close, one that is gone has failed Limit times in a row.
DisabledOnlyAfterStreak ==
    cl.calls = 0 => \A d \in 1..built : Attached(d) \/ d \in tripped

\* The writer of an inline destination is closed at most once.
WriterClosedOnce == \A i, j \in 1..Len(tasks) : tasks[i].dest = tasks[j].dest => i = j

\* Standard output is restored only if no destination is left, so that two
\* fallbacks never print the same records.
OneFallback ==
    Cardinality({i \in DOMAIN inline : inline[i] > Configured}) <= 1
-------------------------------------------------------------------------------
(* Liveness *)

\* An emit returns although the cleanup of what it disables hangs.
EmitReturns == \A e \in Emitters : em[e].pc # "idle" ~> em[e].pc = "idle"

\* close returns although workers and cleanups hang.
CloseIsBounded == cl.pc # "idle" ~> cl.pc = "idle"
===============================================================================
