# Verification of policyengine-observability

TLA+ specifications of `policyengine_observability`, the TLC runs that check
them on small instances, and TLAPS proofs. Paths below are relative to the
repository; `delivery.py` stands for `policyengine_observability/delivery.py`
and so on.

## 1. Inventory

An application builds one `ObservabilityRuntime`. Application threads (and
asyncio tasks) open requests and operations on it, which emit log records,
spans and metrics. Records go to a `DeliveryManager`, which writes them to
inline destinations in the emitting thread and puts them in the queue of every
queued destination, whose own worker thread talks to the provider. OpenTelemetry
is reached through a controller with lazily built exporters. Failures inside the
library are counted and printed by `Diagnostics` and never reach the application.

| Component | State | Operations | What is hard | What makes it correct |
| --- | --- | --- | --- | --- |
| `_QueuedWriter` (`delivery.py` 225-354) | bounded queue, closed flag, worker thread, writer | `enqueue`, `close`, `_run` | flag read before the put; sentinel dropped on a full queue; timed out get; writer that raises half way or hangs; repeated close | records handed over at most once and in order; nothing put in time is lost at shutdown unless reported; the callers never block |
| `DeliveryManager` (`delivery.py` 37-222) | unlocked list of inline destinations, failure counts, cleanup tasks | `emit`, `_disable_inline`, `close` | several threads disable at once; close copies and clears the list in two steps; one deadline shared by everything | no time without a destination; every removed writer is closed, once; close is bounded and reports what is late |
| `Diagnostics` (`diagnostics.py`) | counters, listeners, last print of each operation | `report`, `increment`, `add_listener`, `restart_after_process_duplication` | clock read before the lock; listeners called outside it, and reporting in turn | counters exact, at most one line per interval, first failure of a process shown |
| Runtime lifecycle (`runtime.py` 55-160, 463-517, 755-775, 952-986) | closed flag, shutdown lock, handlers on the logger | constructor, `instrument_logging`, `shutdown`, `restart_after_snapshot`, `_run_bounded` | concurrent shutdowns, hanging providers, process copied with locks held | closed once and completely, bounded, a copy uses nothing of its parent |
| Requests and operations (`runtime.py` 199-447, 519-850) | two context variables, tokens, state objects | `begin_request`, `end_request`, `operation`, decorators, `set_context`, `record_exception`, `capture_context` | nesting, child tasks, tokens of other contexts, shared scope objects | one completion each, context restored, right identifiers |
| OTel controller (`otel.py`) | providers, lazily built exporters, atexit hook | `export`, `force_flush`, `shutdown`; spans and metrics | double-checked creation under concurrent first exports; failures that are reported through the metrics that fail; failures that are returned and not raised | one delegate per exporter, each exception counted once, no call stuck |
| Process identity (`identity.py`) | table of identifiers by process, service and platform instance | `process_instance_id` | first use by two threads, fork, restored snapshot | one identifier per process, another for each other process |
| Adapters (`adapters/`) | per request middleware state; Flask's callback registries | FastAPI ASGI call, Flask callbacks, `instrument_flask` | answer sent from another task, disconnect, exception after start; registration that fails half way | one completion that tells what was sent; current routes; thread left clean; installed whole or not at all |
| Configuration (`config.py`) | none | validation, `from_env` | two validators for each setting, and clamps where it is used | what the environment gives is accepted, what is accepted is used as it is |
| HTTPX integration, schema, destination strategies, Google credentials | none shared | pure functions and provider calls | - | - |

How they interact: adapters call requests and operations in the context of the
framework; these emit through `DeliveryManager`, whose inline writers run in the
caller and whose queued ones run in `_QueuedWriter` threads; all of them report to
`Diagnostics`, whose listener is a method of the runtime that records OTel
metrics; `shutdown` closes delivery and then the providers, on a daemon thread
of its own; `restart_after_snapshot` rebuilds all of it in a copied process.

The hazards of this code, each at its line and with the property that covers it,
are in `PROJECT.json`.

## 2. Modules

- `QueuedWriter` - the whole of `_QueuedWriter`. Its state is the queue, its
  count of unfinished tasks, the closed flag, the worker's program counter,
  batch and writer, and the place of the thread inside `close`. Each call of
  `enqueue` is named after its record and has two steps, `CheckClosed` and
  `Put` or `PutFull`, because the flag is read before the put. `close` has
  three: `CloseBegin`, `PutStop`, `JoinReturns`. The worker is `Get` or
  `GetTimesOut`, the look at the flag `AfterTimeout`, the gathering loop
  `GatherOne` and `GatherDone`, one of `DeliverNothing`, `BuildFails` and
  `Write`, and `CloseWriter`.
- `RecordSink` - what a queued destination promises: accepted records are handed
  over at most once, oldest first, in batches, until it stops; a writer that
  raises has taken a prefix of its batch. `QueuedWriter!Sink` is the refinement
  mapping: the sentinel is taken out of the queue and the batch under
  construction still counts as pending.
- `DeliveryManager` - `_configure`, `emit`, `_disable_inline`, `close` and
  `_start_writer_cleanup`, with any number of emitting threads and one closing thread.
  A write and the change of the failure count after it are separate steps (`Write`,
  `ResetFailures`; `WriteFails`, `ReadFailures`, `AddFailure`, `CheckLimit`), and
  `list.remove` is a scan (`Compare`, `RemoveInline`, `NotFound`). A queued
  destination is what `QueuedWriter` shows of itself: its worker ends after close, or
  never (`WriterClosedAtExit` is the theorem that it does not end before).
- `ContextScopes` - requests and operations. `requestState` and `operationState`
  are the two context variables, one value per task or thread; `req` and `op` are
  the state objects they point to, which a child task shares with its parent;
  `held` is `_ScopeManager.state`; `ctx` has the open `with` blocks of each
  context. There is one action per call: `BeginRequest`, `UpdateRequestStatus`,
  `EndRequest`, `EnterOperation`, `CallDecorated`, `EnterFails`, `ExitScope`,
  `SetContext`, `RecordException`, `CaptureContext`. `Copy` and `Start` are what
  Python does when a task or a thread begins. A captured context stays available
  forever, so it can be delivered late, twice, or not at all.
- `Diagnostics` - counters, listener and rate limiter, for any number of threads.
  A thread has a *stack* of calls, because the listener can fail to record a
  metric and reports that from inside the call. The actions follow the code
  between the lock, the clock and the listener: `LockAndRead`, `Add`, `Listen` or
  `ListenerFails`, `ReadClock`, `LockAndLook`, `Decide`, and `WriteLine`, which prints
  the line at any time after the lock was released. `Duplicate` is a fork or
  a restored snapshot; `RestartDiagnostics` is
  `restart_after_process_duplication`. It is composed with the next module and
  with `RuntimeLifecycle`.
- `LazyExporter` - `_LazySpanExporter` and `LazyMetricExporter`, called by threads
  of the OpenTelemetry SDK: `Look`, `Lock`, `LookAgain`, `Build` or `BuildFails`
  are `_get`; `ExportDone`, `ExportRefused` and `ExportFails` are the delegate that
  succeeds, returns `FAILURE` and raises; `CountFailure` and the report go through
  `Diagnostics`.
- `ProcessIdentity` - `process_instance_id` in a process and its copies. A fork
  has a process identifier of its own; a snapshot restored in a fresh container
  may have the one it was taken with.
- `RuntimeLifecycle` - `Diagnostics` and `ProcessIdentity` composed with the
  runtime: the constructor, logging handlers and their locks, `shutdown`,
  `_run_bounded` and its daemon, and `restart_after_snapshot`. Each routine is the
  sequence of its steps (`Configuring`, `ShuttingDown`, `Restarting` ...) and each
  thread has what is left of the one it is in; a report or an increment on the way
  is a call of `Diagnostics` that must return before the next step. After a
  copy the model follows the copied process, with every lock as it was.
- `RequestAdapters` - the FastAPI middleware, the Flask callbacks and
  `instrument_flask`, composed with `ContextScopes` through `INSTANCE`: `Begin`,
  `End` and `UpdateRequestStatus` are its actions, taken in the context in which the
  framework calls. It has the routes too, which `ContextScopes` leaves out: the
  stored route, the reader, and what a record written now would carry.
- `Configuration` - validation of every dataclass and `from_env`, as operators on
  typed values, and what the queues, the sampler, the span processor, the metric
  reader and the shutdown are finally given.
- `MCDeliveryManager`, `MCContextScopes`, `MCLazyExporter`,
  `MCRuntimeLifecycle`, `MCRequestAdapters` - extend the specifications for TLC.
- `QueuedWriterProofs`, `DeliveryManagerProofs`, `ContextScopesProofs`,
  `DiagnosticsProofs`, `LazyExporterProofs`, `RuntimeLifecycleProofs` (which has
  those about `ProcessIdentity` as well), `RequestAdaptersProofs`,
  `ConfigurationProofs` - theorems.

A definition whose comment says *Mutant* is a plausible bug in the definition
below it. It is used by no specification; `PROJECT.json` names, for each
property, the mutant that breaks it.

### Abstractions

- Records are model values. The copies made for each destination are left out.
- `close` is called by one thread at a time: its only caller, `shutdown`, holds
  a lock (`runtime.py` 464). It may be called again.
- Time is a choice: the worker's `get` can time out whenever the queue is empty,
  `join` can time out at any moment, and in `DeliveryManager` the shared deadline
  passes once, at any moment of the call.
- A copy of a list, an append, and the removal of an item that was found are one
  step each; this is what the interpreter lock gives. Between two of them anything
  can happen, and so it can between the reading and the storing of a failure count,
  and during the comparisons of `list.remove`, which call the `__eq__` of the
  dataclass. An item that moves to a position already passed is not found.
- A writer returns, raises an `Exception` having taken a prefix of its batch, or
  hangs. An exception that is not an `Exception` (`SystemExit` in the worker) and
  a strategy whose `batch_size` is not a number are not modelled.
- In `DeliveryManager`, standard output can always be rebuilt, and the numbers
  of the inline destinations stand for their objects: two destinations compare
  equal only if they share a writer, which the strategies never do.
- In `ContextScopes` a call is one step: none of them awaits anything, so the tasks
  of an event loop interleave only between calls. Two plain threads that use the
  *same* request object within one call are not modelled; a thread that runs in a
  copy of its parent's context while the parent waits is. `with` blocks are left
  in the context that entered them, innermost first; a request may be ended
  by any context that sees it (a response can be streamed by a child task).
  Routes, spans, durations and the contents of records are left out. An attribute
  is a text, an integer or boolean, or a finite float, the kinds that
  `normalize_attributes` lets through; `capture_context` writes numbers as text
  (`Written`) and leaves floats out (`Captured`).
- In `RuntimeLifecycle` time stands still (the limiter's distances are proved in
  `DiagnosticsProofs`); process identifiers are not reused; the reported failures
  are those named in `Operations`, and another failure is taken as no event. A record
  can come to any handler on the logger, registered or not. CPython renews the locks
  of all handlers in a forked child by itself, but a restored snapshot has them as
  they were, so that the model renews none but those of `restart_after_snapshot`. Left
  out are the constructor's warnings about a configuration, handlers that others
  put on the logger, and two calls of `instrument_logging` at the same time. A
  runtime that was shut down is restarted in the same process only when its daemon
  has ended (`restart_after_snapshot` is for a single-threaded callback).
- In `RequestAdapters` an application is either of FastAPI or of Flask. A FastAPI
  step ends where the middleware awaits. A send that raises is one only for the last
  part of the body: after a start message that raised, the middleware has done what it
  does when one was sent. A rollback restores a registry, leaves it as it is, or
  leaves it empty when `clear` succeeds and the refilling raises; at most `MaxBroken`
  registries stay broken in an installation. Two Flask cases are let off by `Untold`:
  a teardown callback of the application that raises before ours, so that ours is
  never called, and an installation whose rollback failed as well. The statuses that
  a handler for 500 of the application may choose, the contents of response
  headers, and other `BaseException`s are left out. `ThreadIsClean` is claimed of
  Flask alone: when a child task of FastAPI sends the last part of the body,
  `end_request` runs in the child and the variable of the middleware's own context
  keeps the completed request until the task ends, which `README.md:239-240`
  ("clear context-local state") does not mention. Nothing uses it: a completed
  request is not active.
- In `Configuration` a number is an integer or a count of millionths, a text is
  blank or a word, and a text that `float` or `int` takes is that number. The values
  inside headers, the authentication mode and its audience are left out, as are
  numbers finer than a millionth.

## 3. Runs

| Run | Configuration | What it shows |
| --- | --- | --- |
| `queue` | `QueuedWriter.cfg`: 3 records, capacity 2, batch 2, 2 closes (53 000 states) | what may be left behind at shutdown, what a silent close guarantees, accounting of tasks and timeouts; that `QueuedWriter` implements `RecordSink`; `enqueue` and `close` return although the worker may hang; if it does not, a closed destination stops even when the sentinel found no room, and records put in time are settled |
| `delivery_emit` | `DeliveryEmit.cfg`: 2 threads, 2 emits each, 2 destinations, limit 2 (809 000 states) | concurrent disabling: never without a destination, none skipped, none cleaned twice, none disabled without a streak unless writes raced |
| `delivery_close` | `DeliveryClose.cfg`: 1 emitter, 2 closeable destinations, 1 queue, 2 closes (359 000 states) | what close accounts for when it returns; `emit` and `close` return although cleanups and workers hang |
| `scopes` | `ContextScopes.cfg`: 2 contexts, 1 request, 2 operations, 1 decorator, 1 attribute, 2 captured contexts (1 273 000 states) | one completion each, the right scope active, no identifier or exception of other work |
| `scopes_dispatch` | `ContextScopesDispatch.cfg`: 2 contexts, 3 operations, 1 dispatch key that may hold a number or a float, 2 captured contexts (1 594 000 states) | restored dispatch attributes survive nesting, child tasks and a second hop, unless a float was put over them |
| `exporters` | `LazyExporter.cfg`: 2 threads, the span exporter, 2 exports, 1 flush or shutdown, clock 0-2, interval 2 (206 000 states) | one delegate, exceptions counted once, exact counters, lines rationed, no call stuck in a lock or in the listener's own failure |
| `lifecycle` | `RuntimeLifecycle.cfg`: 2 threads and the daemon, 1 handler, 2 calls, 1 copy, 1 restart (162 000 states) | what a returned shutdown means, independence of a copy, the first failure of each process shown, one identifier per process, every routine returns; and that `RuntimeLifecycle` implements `Diagnostics` and `ProcessIdentity` |
| `adapters` | `RequestAdapters.cfg`: 2 FastAPI calls, 2 Flask calls, statuses 200 and 500, 2 installations, 1 broken registry (174 000 states, up to the symmetry of equal calls) | one completion that tells the answer, current routes, a clean thread, atomic installation; and that `RequestAdapters` implements `ContextScopes` |
| `delivery_double_close` | `DeliveryDoubleClose.cfg` | violation: a writer closed twice |
| `delivery_double_fallback` | `DeliveryDoubleFallback.cfg` | violation: standard output restored twice |
| `delivery_streak` | `DeliveryStreak.cfg` | violation: a destination disabled that has not failed so often in a row |
| `lifecycle_identity` | `RuntimeIdentity.cfg` | violation: a restarted copy publishes under its parent's identifier |

`Configuration` has no run: its ranges, in millionths, leave TLC's 32-bit
integers. It has theorems only, for all values.

Deadlock is not checked: every one of these systems may stop, once the worker
has ended and the bounded number of calls has been made.

Bounds. Three records against a queue of two and batches of two give a full queue in
front of a worker that is writing, a full batch with a record still behind it, a batch
that ends because the queue is empty, a sentinel in front of late records, and a
sentinel that found no room. The second call of `close` is the one that could repeat a
report. In `DeliveryManager` the limit is two (one in the runs about shutdown) instead
of three: two is the least that tells failures in a row from failures; with it, two
emits of each thread are enough for a success between failures and for each race on
the count. `MaxFallbacks` is large enough that no emitter ever stops at it; the
liveness run would fail if one did.

In `ContextScopes` one request is enough for confusion between requests: the other
context either works for it or does not, and history (`Past`) tells which. Two
operations give nesting, two calls of one decorated function, and a worker's
operation with one nested in it; two captured contexts give a second hop. The run
about dispatch attributes has no request, so that a third operation and three kinds
of values fit; that a request's attributes are dispatched as well is proved
(`DispatchAttributesReachEveryHop`).

Two threads and two exports give the race of two first exports, a retry after a
factory that failed, and a flush before or during it; the clock reaches the
interval, so that a line is suppressed and a later one is not. In
`RuntimeLifecycle` two application threads can shut down at the same time or log
while the other does, the process is copied with any of its locks held, and one
restart follows, or one shutdown and one restart in the same process. A third
thread would only repeat the part of the second. In `RequestAdapters` a second
call is what finds a context left behind by the first, and a second installation is
what finds a first one that failed half way.

Fairness. `CallersRun` (in `BlockingSpec`) and the `EmitStep`/`CloseStep`
conditions say that a thread inside a call keeps running: no lock is held across
a blocking step. `WorkerRuns`, the premise of `WorkerStops` and
`QueuedIsSettled`, adds that the worker is scheduled and that the writer's calls
return; without it only `CallersReturn` is claimed. `DeadlinePasses` is fair
because time passes. In `LazyExporter` threads inside a call go on, and the factory
and the delegate return (they have timeouts of their own, which the settings
bound: `RequestTimeout`). In `RuntimeLifecycle` nothing is assumed of the
providers: `DaemonStep` has no fairness, and `shutdown` returns all the same. Weak
fairness is enough everywhere: a step that is enabled stays so until its
thread takes it or another step of the same thread, or, for a lock, until one of
the bounded number of other calls has taken it.

### What the violations show

- `WriterClosedOnce`. `close` copies `self._inline` (line 160) and empties it in
  the next statement (161). A thread that disables a destination in between
  removes it and starts its cleanup; `close` has it in its copy and starts a
  second one. `tests/test_delivery.py:287` asserts one call.
- `OneFallback`. The test for what is left (138) and the append of the fallback
  (143) are two steps. Two threads that have removed the last two destinations
  both append one, and every record is printed twice afterwards. `CHANGELOG.md:107`
  promises standard output "if none remain".
- `DisabledOnlyAfterStreak`. A thread writes successfully (`delivery.py` 104);
  before it resets the count (105) another one fails, raises the count of the failures
  from before that write (107) and finds the limit reached (115). The destination is
  disabled after a success and a single failure. `CHANGELOG.md:107` speaks of
  "repeated consecutive emit failures". `DisabledAfterStreak` shows that this race
  is the only way to it.
- `OneProcessPerIdentity`. The identifier is asked for once, when the configuration
  is written, and the configuration is frozen. `restart_after_snapshot` (493-517)
  builds the new `OTelRuntime` from it, and its resource takes `service.instance.id`
  from there (`otel.py:199`): a forked worker that is restarted as documented
  publishes metrics under the identifier of its parent. `README.md:363-365` says that
  a child process receives a new value on its first call; that call is never made.
  `IdentityPerProcess` shows that it would have been answered correctly after a fork.

### What else does not hold

Four more statements of the documents are written down next to the properties and do
not hold. They have no run of their own; as an `INVARIANT` of the configuration that
is named, TLC finds each of them violated within seconds.

- `CapturedRequestId` (`ContextScopes.cfg`). `_start_operation` (575-577) takes the
  identifier from the remote context or else from the active request, never from the
  enclosing operation. A worker has no request, so anything dispatched from an
  operation nested in the remote one carries no request identifier, while its dispatch
  attributes survive (`DispatchAttributesSurvive`). `README.md:327` lists the active
  request identifier among what `capture_context` includes.
- `RestoredAreCaptured` (`ContextScopesDispatch.cfg`). `normalize_attributes` lets a
  finite float through (`schema.py` 161-162) and `capture_context` takes strings and
  integers only (`runtime.py` 442). A restored dispatch attribute over which
  `set_context` puts a float is missing from the next captured context, where
  `README.md:327-331` promises the "scalar attributes named by
  `dispatch_attribute_keys`".
- `ErrorsCounted` (`LazyExporter.cfg`). The wrappers return what the delegate returns
  (`otel.py` 452, 509-513) and count exceptions only; the exporters of the SDK give up
  by returning `FAILURE`. `README.md:381-383` says that exporter errors produce
  rate-limited diagnostics on standard error.
- `ContainersToldApart` (`RuntimeLifecycle.cfg`). The table of identifiers is keyed by
  the process identifier (`identity.py` 31) and a snapshot contains it. A process
  restored in a container of its own under the same process identifier is answered
  with the identifier of the process it was taken from, from which `identity.py:19-20`
  says the UUID distinguishes it.

## 4. Proofs

All theorems hold for every value of the constants that satisfies the named
assumption of the module. Each proof module begins with the argument; every
inductive invariant has been checked with TLC before it was proved.

`QueuedWriterProofs` (`QueueAssumption`) proves every safety property of
`queue`: `TypeOK`, `TaskAccounting`, `StrandedOnlyIfRacing`,
`CleanCloseMeansDrained`, `WriterClosedAtExit`, and `TimeoutReportedOnce`. None of
the interesting ones is inductive: they say what is left in the queue when the
worker ends, and that depends on where the sentinel was. `Inv` adds: the sentinel
is put only after the flag is set and is never in the queue twice (`FlagInv`,
`SentinelInv`); whatever is behind it was put while racing (`SentinelInv`);
whatever is left when the worker has seen it, or has found the queue empty, was
put while racing (`LeftoverInv`); a queued record is in the queue or in the batch
(`FateInv`); the worker's batch is empty outside the loop body (`BatchInv`); a
timeout is counted at most once (`ReportInv`). `SinkImplemented` is the refinement of
`RecordSink`, step by step: `CheckClosed` offers or refuses, `Put` accepts,
`PutFull` refuses, a delivered batch is a `HandOver` of what is oldest
(`DeliverSink`), and every other step shows nothing, `Get` and `GatherOne` because
what they take from the queue is the next of the batch (`TakeSink`). There is one
sentinel at most, because whatever is behind one is a record (`SentinelInv`), so
that taking it out (`WithoutStop`) is the removal of one item, about which
`WithRecord`, `WithStop` and `WithoutHead` say what is needed.

`DeliveryManagerProofs` (`ManagerAssumption`) proves every safety property of
`delivery_emit` and `delivery_close`, the action property `DisabledAfterStreak`
included, for any number of threads that share the unlocked list. `NoBlackout` is
kept because the thread that empties the list is between its removal and its look
at what is left. `DisabledOnce` needs to know where each writer is before `close`:
in the list once, at the head of one thread's work, or in one task (`OnceInv`);
`list.remove` is what makes the second thread fail. `RemovedIsCleanedUp` has to
survive the two steps in which `close` copies and clears: what is in the list when
it clears is in its copy (`CopyInv`). `CloseAccountsForAll` follows each worker and
task that `close` has passed (`WorkerInv`, `TaskInv`), and `LateCountedOnce` counts
two finite sets that grow by one element with each report. `StreakInv` relates the
failures to the histories `tripped`, the destinations that have failed in a row as
often as the limit, and `raced`, those written to by one thread while another had
still to count its own write: of any other destination the count is that of the
streak, up to the one write under way (`CountInv`). `TriedInv` relates the position
in the copy to what has been tried.

`DiagnosticsProofs` (`DiagnosticsAssumption`) proves `CountsExact`, `LinesRationed`
and `FirstFailureShown`. A thread that has read a counter holds the lock and what
it has read is current (`TopInv`), also when it is inside a listener that reports
(`ShapeInv`: every call below the top waits with its own part done). The distance of
two printed lines has no lower bound, because a line is printed after the lock is
released: what holds is that the n-th line of an operation is not printed before
n - 1 intervals have passed. A report is admitted only if its own time is far enough
behind the one stored, so that the time stored last is not before that moment
(`LastInv`), and the clock is past it when the line is printed.

`LazyExporterProofs` (`ExporterAssumption`) proves `OneDelegate`, `FailuresCounted` and
the types, and that inside the exporters `Diagnostics` keeps all of its invariants:
each step of an exporter is an `Enter` of `Diagnostics` or leaves it alone, which is
also stated as a refinement (`ExportersUseDiagnostics`). Only the
holder of the lock builds, after a second look (`LockInv`, `DelegateInv`). A counter
is ahead of the reported failures by the threads that have counted theirs and not
yet reported it (`CountInv`, on the cardinality of that set); this needs the two
wrappers to count under different names, as those of the two classes do
(`Exporters` is a subset of `{"spans", "metrics"}`).

`ContextScopesProofs` (`ScopesAssumption`) proves every invariant of `scopes` and
`scopes_dispatch`, for any number of contexts, requests, operations and captured
contexts. What is active in a context is the end of a chain. Its requests that have
not ended lead, each to the one that was active before it, to the request the context
was given, and no two of them remember the same one (`RequestChains`): that is why a
request that is ended restores one that is the context's own or its parent's.
Operations lead to each other in the order of the open blocks, past blocks that failed
to open (`OperationChains`, `Around`); `held`, the state a scope object shares between
the calls of one decorator, is that of its open block (`FramesInv`). What was given is
known where the context comes from (`GivenInv`), so that identifiers and exceptions
stay there (`ErrorsInv`), and dispatch attributes grow along the blocks
(`RestoredInv`).

`RequestAdaptersProofs` (`AdaptersAssumption`) proves every invariant of `adapters`.
The two frameworks need different arguments. A call of FastAPI is alone in its two
contexts, and both have its request until one of them has ended it
(`FastAPICall`). The calls of Flask share a thread: one that is under way has its
request there, and what it found there, or what is found when none is under way,
are requests whose end the adapter was not told (`FlaskCall`, `ThreadInv`). What a
call finds in the registries at its end is what it found when it began, because
`instrument_flask` runs before the first call (`HooksInv`, which says what the
registries hold at each step of an installation). The assumption that `Thread` is
none of the FastAPI contexts says no more than that these are pairs of a task and
a call, which the thread is not.

`AdaptersUseRuntime` is the refinement of `ContextScopes`. Without operations and
captured contexts, each step of a framework, an adapter or the application is one
call of the runtime (`RuntimeCall`), in a context that is alive (`AliveInv`: the
thread and the tasks of the server from the start, a child before it sends), or
changes nothing of the runtime (`StepCalls`, by way of one lemma per framework). The
adapters and `ContextScopes` agree on the initial state, because `ContextScopes`
begins with any set of living contexts. So `ContextScopesProofs` is instantiated for
the adapters and its invariants hold in them without a second proof
(`AdaptersKeepRequestsApart`): one completion for each request, no identifier or
exception of another call, whatever number of tasks and threads serve them.

`RuntimeLifecycleProofs` (`IdentityAssumption`, `DiagnosticsAssumption`,
`LifecycleAssumption`) proves every invariant of `lifecycle`. About
`ProcessIdentity` alone: the table never loses an entry, no two entries are equal,
and each result given out is still in it (`TableInv`), on both sides of a copy.
About the runtime, `RuntimeInv`: what is left of a routine is one of a few suffixes
(`PlacesInv`), so that a thread is described by the step it is about to take
(`Doing`). A constructor, and a restart, is alone in its process (`BirthInv`,
`RestartingInv`) and has replaced all that was inherited when it ends, and until
the new OTel is there no thread has a count that would be passed on to one
(`OwnInv`); this is `CopyIsIndependent`. Of the threads in `shutdown` one has the lock
(`LockInv`), and the one in `Closing` is the first: no other call has returned
before it has left (`ClosedInv`). Until then each handler that is to be removed is
ahead of its loop, or its failure is counted or about to be (`RemovalInv`), which
needs that each handler is in the list once, put there by the thread that made it
(`HandlersInv`). `ComponentsKept` is the composition: every step of the runtime is a
step of `Diagnostics` or of `ProcessIdentity`, or leaves them alone, or is the copy
or the restart of all, and keeps the invariants of both. `RuntimeUsesComponents` says
more than that, of each step: `DiagSpec` and `IdentitySpec` are implemented. A thread
at a step of a routine reports to diagnostics that are not inherited
(`ReporterFacts`), because in a copied process the first routine is the restart, and
its second step makes them anew while no other thread is in a call. What a
process does to `Diagnostics` without a call of it - a copy made before the
constructor, the daemon of a shutdown - is `ThreadsChange`.

Two conjuncts of `LifecycleAssumption` are about names. The counter and the report of
a late shutdown are among those that are followed. The two failures that can be
reported before a restarted process has its new OTel, `delivery.configure` and
`process.logging_handler_lock`, have none of the words in their names for which
`_record_diagnostic_metric` (`runtime.py` 150-154) turns to OTel: with a name
that had one, a restart would call the OTel of its parent, and
`CopyIsIndependent` would be false.

`ConfigurationProofs` has no state. `EnvironmentIsAccepted`: what `from_env` makes
of any environment, unless a helper rejected it, has no validation errors, so that
the two sets of limits agree. `QueuesAsAccepted`, `OTelAsAccepted`: the clamps where
a setting is used leave an accepted one as it is. `SpanBatchFits`: the span
processor never gets a batch larger than its queue, which it would refuse.
`ShutdownIsBounded`: whatever is passed as a timeout, shutdown waits between
nothing and a minute, except for an integer that no float can hold
(`FloatLimit`): `float` then raises `OverflowError`, which `_bounded_shutdown_timeout`
does not catch. An accepted configuration has no such timeout.

Every invariant, every action property and each of the three refinements that a passing
run checks is the subject of a theorem. The type invariants of `DeliveryManager`,
`LazyExporter`, `RuntimeLifecycle` and `RequestAdapters` are proved and not checked by a
run. Only model-checked are the liveness properties (`CallersReturn`, `WorkerStops`,
`QueuedIsSettled`, `EmitReturns`, `CloseIsBounded`, `CallsReturn`, `RoutinesReturn`),
because neither fairness nor `ENABLED` is within the prover's reach.

## 5. Plan

Spans in `ContextScopes`: the current span is a third context variable, and
ending a request while an operation of the same context is open detaches it out
of order.

### Not modelled

- Construction of providers, samplers, readers and instruments, and what a span
  records: calls into the OpenTelemetry SDK whose effect is inside it.
- Writers of the destinations, Google authentication and credentials, the HTTPX
  hook: I/O and library calls without shared state. That they return, raise or hang
  is a choice in the modules that call them.
- The record schema, redaction and the format of printed lines: text, which no
  property is about.
- Release automation and packaging: not part of the running system.
