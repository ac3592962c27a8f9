----------------------------- MODULE LazyExporter -----------------------------
(***************************************************************************)
(* The lazily built OTLP exporters of policyengine_observability/otel.py:  *)
(* _LazySpanExporter and LazyMetricExporter.  The OpenTelemetry SDK calls  *)
(* export, force_flush and shutdown from threads of its own; the delegate  *)
(* is built by the first export.  Failures are counted and reported through*)
(* Diagnostics, whose listener records the count as a metric.              *)
(***************************************************************************)
EXTENDS Diagnostics

CONSTANTS Exporters,     \* the wrappers in use, of "spans" and "metrics"
          MaxExports,    \* bound: calls of export, per wrapper
          MaxOthers      \* bound: calls of force_flush and shutdown, per wrapper

\* The names under which a wrapper counts and reports its failures.
SpanNames ==
    [count |-> "spans.export_failure", export |-> "otel.span_export",
     flush |-> "otel.span_flush", shutdown |-> "otel.span_exporter_shutdown"]
MetricNames ==
    [count |-> "metrics.export_failure", export |-> "otel.metric_export",
     flush |-> "otel.metric_flush", shutdown |-> "otel.metric_exporter_shutdown"]
NamesOf(x) == IF x = "spans" THEN SpanNames ELSE MetricNames

ASSUME ExporterAssumption ==
    /\ Exporters \subseteq {"spans", "metrics"}
    /\ None \notin Exporters
    /\ \A x \in Exporters :
          /\ NamesOf(x).count \in Counters
          /\ {NamesOf(x)[what] : what \in {"export", "flush", "shutdown"}} \subseteq Operations
    /\ MaxExports \in Nat
    /\ MaxOthers \in Nat

VARIABLES delegate,   \* self._delegate
          building,   \* self._lock: the thread that holds it
          at,         \* where each thread is in a call of a wrapper
          begun,      \* history: calls of export, calls of the rest
          failed,     \* history: exports that returned FAILURE, something having raised
          refused,    \* history: exports whose delegate returned FAILURE
          built,      \* history: delegates the factory has returned
          used        \* history: the delegates that were called

exporterVars == <<delegate, building, at, begun, failed, refused, built, used>>
vars == <<diagVars, exporterVars>>

Away == [pc |-> "away", exporter |-> None]
Places == {"look", "wait", "again", "build", "export", "count", "report",
           "flush", "shutdown", "reported"}

ExporterTypeOK ==
    /\ DiagTypeOK
    /\ delegate \in [Exporters -> Nat \cup {None}]
    /\ building \in [Exporters -> Threads \cup {None}]
    /\ at \in [Threads -> [pc : Places, exporter : Exporters] \cup {Away}]
    /\ begun \in [Exporters -> [export : 0..MaxExports, other : 0..MaxOthers]]
    /\ failed \in [Exporters -> Nat]
    /\ refused \in [Exporters -> Nat]
    /\ built \in [Exporters -> 0..1]
    /\ used \in [Exporters -> SUBSET Nat]

Init ==
    /\ DiagInit
    /\ delegate = [x \in Exporters |-> None]
    /\ building = [x \in Exporters |-> None]
    /\ at = [t \in Threads |-> Away]
    /\ begun = [x \in Exporters |-> [export |-> 0, other |-> 0]]
    /\ failed = [x \in Exporters |-> 0]
    /\ refused = [x \in Exporters |-> 0]
    /\ built = [x \in Exporters |-> 0]
    /\ used = [x \in Exporters |-> {}]

In(t, pc) == at[t].pc = pc /\ Idle(t)
Go(t, pc) == at' = [at EXCEPT ![t].pc = pc]
Leave(t) == at' = [at EXCEPT ![t] = Away]
Arrive(t, x, pc) ==
    at[t] = Away /\ Idle(t) /\ at' = [at EXCEPT ![t] = [pc |-> pc, exporter |-> x]]
-------------------------------------------------------------------------------
(* export and _get *)

Export(t, x) ==
    /\ begun[x].export < MaxExports
    /\ Arrive(t, x, "look")
    /\ begun' = [begun EXCEPT ![x].export = @ + 1]
    /\ UNCHANGED <<diagVars, delegate, building, failed, refused, built, used>>

\* The first look, without the lock.
Look(t) ==
    /\ In(t, "look")
    /\ Go(t, IF delegate[at[t].exporter] = None THEN "wait" ELSE "export")
    /\ UNCHANGED <<diagVars, delegate, building, begun, failed, refused, built, used>>

Lock(t) ==
    /\ In(t, "wait")
    /\ building[at[t].exporter] = None
    /\ building' = [building EXCEPT ![at[t].exporter] = t]
    /\ Go(t, "again")
    /\ UNCHANGED <<diagVars, delegate, begun, failed, refused, built, used>>

\* Mutant: no second look.
AlwaysMissing(x) == TRUE

StillMissing(x) == delegate[x] = None

LookAgain(t) ==
    LET x == at[t].exporter
    IN  /\ In(t, "again")
        /\ IF StillMissing(x) THEN Go(t, "build") /\ UNCHANGED building
           ELSE Go(t, "export") /\ building' = [building EXCEPT ![x] = None]
        /\ UNCHANGED <<diagVars, delegate, begun, failed, refused, built, used>>

Build(t) ==
    LET x == at[t].exporter
    IN  /\ In(t, "build")
        /\ built' = [built EXCEPT ![x] = @ + 1]
        /\ delegate' = [delegate EXCEPT ![x] = built'[x]]
        /\ building' = [building EXCEPT ![x] = None]
        /\ Go(t, "export")
        /\ UNCHANGED <<diagVars, begun, failed, refused, used>>

\* Mutant: the lock stays taken when the factory raises.
StayLocked(x) == building

Unlocked(x) == [building EXCEPT ![x] = None]

\* The factory raises: the next export tries again.
BuildFails(t) ==
    /\ In(t, "build")
    /\ building' = Unlocked(at[t].exporter)
    /\ Go(t, "count")
    /\ UNCHANGED <<diagVars, delegate, begun, failed, refused, built, used>>

\* self._delegate, read once more by _get, is called.
CallDelegate(t) ==
    used' = [used EXCEPT ![at[t].exporter] = @ \cup {delegate[at[t].exporter]}]

ExportDone(t) ==
    /\ In(t, "export")
    /\ CallDelegate(t)
    /\ Leave(t)
    /\ UNCHANGED <<diagVars, delegate, building, begun, failed, refused, built>>

\* The delegate returns FAILURE, as the exporters of the SDK do once they have
\* given up: that is passed on, and neither counted nor reported.
ExportRefused(t) ==
    /\ In(t, "export")
    /\ CallDelegate(t)
    /\ refused' = [refused EXCEPT ![at[t].exporter] = @ + 1]
    /\ Leave(t)
    /\ UNCHANGED <<diagVars, delegate, building, begun, failed, built>>

ExportFails(t) ==
    /\ In(t, "export")
    /\ CallDelegate(t)
    /\ Go(t, "count")
    /\ UNCHANGED <<diagVars, delegate, building, begun, failed, refused, built>>

\* Mutant: a failed export is only reported.
NotCounted(t) == UNCHANGED diagVars

CountFailure(t) == Increment(t, NamesOf(at[t].exporter).count)

FailureCounted(t) ==
    /\ In(t, "count")
    /\ CountFailure(t)
    /\ Go(t, "report")
    /\ UNCHANGED <<delegate, building, begun, failed, refused, built, used>>

FailureReported(t) ==
    /\ In(t, "report")
    /\ Report(t, NamesOf(at[t].exporter).export)
    /\ failed' = [failed EXCEPT ![at[t].exporter] = @ + 1]
    /\ Go(t, "reported")
    /\ UNCHANGED <<delegate, building, begun, refused, built, used>>
-------------------------------------------------------------------------------
(* force_flush and shutdown: a delegate that was never built is not needed. *)

Begin(t, x, what) ==
    /\ begun[x].other < MaxOthers
    /\ Arrive(t, x, what)
    /\ begun' = [begun EXCEPT ![x].other = @ + 1]
    /\ UNCHANGED <<diagVars, delegate, building, failed, refused, built, used>>

Finish(t, what) ==
    /\ In(t, what)
    /\ IF delegate[at[t].exporter] = None THEN UNCHANGED used ELSE CallDelegate(t)
    /\ Leave(t)
    /\ UNCHANGED <<diagVars, delegate, building, begun, failed, refused, built>>

\* The delegate raises, which is reported.
FinishFails(t, what) ==
    /\ In(t, what)
    /\ delegate[at[t].exporter] # None
    /\ CallDelegate(t)
    /\ Report(t, NamesOf(at[t].exporter)[what])
    /\ Go(t, "reported")
    /\ UNCHANGED <<delegate, building, begun, failed, refused, built>>

Reported(t) ==
    /\ In(t, "reported")
    /\ Leave(t)
    /\ UNCHANGED <<diagVars, delegate, building, begun, failed, refused, built, used>>
-------------------------------------------------------------------------------
ExporterStep(t) ==
    \/ Look(t) \/ Lock(t) \/ LookAgain(t)
    \/ Build(t) \/ BuildFails(t)
    \/ ExportDone(t) \/ ExportRefused(t) \/ ExportFails(t)
    \/ FailureCounted(t) \/ FailureReported(t)
    \/ \E what \in {"flush", "shutdown"} : Finish(t, what) \/ FinishFails(t, what)
    \/ Reported(t)

ThreadStep(t) == ExporterStep(t) \/ (DiagStep(t) /\ UNCHANGED exporterVars)

Next ==
    \/ \E t \in Threads :
          \/ \E x \in Exporters :
                Export(t, x) \/ \E what \in {"flush", "shutdown"} : Begin(t, x, what)
          \/ ThreadStep(t)
    \/ (AddListener \/ Tick) /\ UNCHANGED exporterVars

Spec == Init /\ [][Next]_vars

\* Threads inside a call go on, and the factory and the delegate return.  The
\* calls are bounded, so a thread does not lose a lock to the others for ever.
FairSpec == Spec /\ \A t \in Threads : WF_vars(ThreadStep(t))
-------------------------------------------------------------------------------
(* Properties *)

\* Concurrent first exports build one delegate, and every export, flush and
\* shutdown goes to that one; a factory that failed leaves room for a retry.
OneDelegate ==
    \A x \in Exporters : used[x] \subseteq {delegate[x]} \ {None}

\* No thread has counted a failure of x that it has yet to report.
Settled(x) ==
    \A t \in Threads : at[t].exporter = x => at[t].pc \notin {"report", "reported"}

\* Each export that returned FAILURE because the factory or the delegate raised is
\* counted exactly once, and nothing else is.
FailuresCounted ==
    \A x \in Exporters : Settled(x) =>
        counts[Count(NamesOf(x).count)] = failed[x]

\* README.md:381-383 says that exporter errors produce rate-limited diagnostics on
\* standard error: each export that returned FAILURE was counted.  This does not
\* hold of those whose delegate returned it.
ErrorsCounted ==
    \A x \in Exporters : Settled(x) =>
        counts[Count(NamesOf(x).count)] = failed[x] + refused[x]

\* Every call returns to the SDK although the failure is counted by a listener
\* that records a metric, which can fail and be reported in turn: no lock is
\* held across the calls of another component that could come back.
CallsReturn == \A t \in Threads : at[t] # Away ~> at[t] = Away
===============================================================================
