------------------------------ MODULE Diagnostics ------------------------------
(***************************************************************************)
(* Diagnostics of policyengine_observability/diagnostics.py: the counters, *)
(* the listener that feeds them to OpenTelemetry metrics and the rate      *)
(* limiter of the lines printed on standard error, called by any thread.   *)
(*                                                                         *)
(* A thread has a stack of calls because the listener can fail to record a *)
(* metric, and that failure is itself reported (OTelRuntime._safe_metric). *)
(* When the process is copied the model goes on with the copy, in which    *)
(* only the thread that asked for the copy runs.                           *)
(***************************************************************************)
EXTENDS Integers, Sequences

CONSTANTS Threads,
          Operations,    \* what is reported: the argument of report
          Counters,      \* what is only counted: the argument of increment
          Metered,       \* the names that the listener passes on to metrics
          MetricRecord,  \* the operation "otel.metric_record"
          Interval,      \* seconds between two lines, after the clamp to 1
          MaxTime,       \* bound: the last second
          None

ASSUME DiagnosticsAssumption ==
    /\ MetricRecord \in Operations \ Metered
    /\ Interval \in Nat \ {0}
    /\ MaxTime \in Nat
    /\ None \notin Threads \cup Operations \cup Nat

VARIABLES clock,      \* time.monotonic, in seconds
          alive,      \* the threads of this process
          inherited,  \* the process is a copy that has not been restarted
          listening,  \* add_listener has been called
          lock,       \* self._lock: the thread that holds it
          counts,     \* self._counts
          last,       \* self._last_report
          stack,      \* the calls each thread is in, innermost first
          made,       \* history: increments of each name in this process
          lines       \* history: the lines of each operation, numbered as admitted

diagVars == <<clock, alive, inherited, listening, lock, counts, last, stack,
              made, lines>>

\* The name that increment gets: from the caller, or from report.
Count(c) == <<"count", c>>
Failure(o) == <<"failure", o>>
Names == ({"count"} \X Counters) \cup ({"failure"} \X Operations)

Call(name, op) ==
    [name |-> name, op |-> op, pc |-> "count", now |-> 0, seen |-> None, line |-> 0]
IncrementCall(c) == Call(Count(c), None)
ReportCall(o) == Call(Failure(o), o)

CallPc == {"count", "add", "listen", "clock", "limit", "decide", "print"}
Calls ==
    [name : Names, op : Operations \cup {None}, pc : CallPc, now : Nat,
     seen : Nat \cup {None}, line : Nat]

\* Since when lines are rationed, how many were admitted and which were printed.
Lines ==
    [since : Nat, admitted : [Operations -> Nat], printed : [Operations -> SUBSET Nat]]
NoLines(now) ==
    [since |-> now, admitted |-> [o \in Operations |-> 0],
     printed |-> [o \in Operations |-> {}]]

DiagTypeOK ==
    /\ clock \in Nat
    /\ alive \in SUBSET Threads
    /\ inherited \in BOOLEAN
    /\ listening \in BOOLEAN
    /\ lock \in Threads \cup {None}
    /\ counts \in [Names -> Nat]
    /\ last \in [Operations -> Nat \cup {None}]
    /\ stack \in [Threads -> Seq(Calls)]
    /\ made \in [Names -> Nat]
    /\ lines \in Lines

DiagInit ==
    /\ clock = 0
    /\ alive = Threads
    /\ inherited = FALSE
    /\ listening = FALSE
    /\ lock = None
    /\ counts = [n \in Names |-> 0]
    /\ last = [o \in Operations |-> None]
    /\ stack = [t \in Threads |-> <<>>]
    /\ made = [n \in Names |-> 0]
    /\ lines = NoLines(0)
-------------------------------------------------------------------------------
(* Calls *)

Idle(t) == stack[t] = <<>>
Top(t) == Head(stack[t])
At(t, pc) == ~Idle(t) /\ Top(t).pc = pc

\* The innermost call goes on, or returns.
Becomes(t, call) == stack' = [stack EXCEPT ![t] = <<call>> \o Tail(@)]
Return(t) == stack' = [stack EXCEPT ![t] = Tail(@)]

\* A thread of the application or of a component calls increment or report.
Enter(t, call) ==
    /\ t \in alive
    /\ Idle(t)
    /\ stack' = [stack EXCEPT ![t] = <<call>>]
    /\ UNCHANGED <<clock, alive, inherited, listening, lock, counts, last,
                   made, lines>>

Increment(t, c) == Enter(t, IncrementCall(c))
Report(t, o) == Enter(t, ReportCall(o))

\* Mutant: the lock is not waited for.
NoLock(t) == TRUE

LockFree(t) == lock = None
-------------------------------------------------------------------------------
(* increment *)

\* With the lock taken, the counter is read ...
LockAndRead(t) ==
    /\ At(t, "count")
    /\ LockFree(t)
    /\ lock' = t
    /\ Becomes(t, [Top(t) EXCEPT !.pc = "add", !.seen = counts[Top(t).name]])
    /\ UNCHANGED <<clock, alive, inherited, listening, counts, last, made,
                   lines>>

\* Mutant: the listener is called with the lock held.
LockUntilReturn(t) == lock

LockAfterAdd(t) == None

\* ... and stored; the lock is released before any listener is called.
Add(t) ==
    LET call == Top(t)
    IN  /\ At(t, "add")
        /\ counts' = [counts EXCEPT ![call.name] = call.seen + 1]
        /\ made' = [made EXCEPT ![call.name] = @ + 1]
        /\ lock' = LockAfterAdd(t)
        /\ Becomes(t, [call EXCEPT !.pc = "listen"])
        /\ UNCHANGED <<clock, alive, inherited, listening, last, lines>>

\* Mutant: every name is passed on.
AnyName(name) == TRUE

\* _record_diagnostic_metric looks for parts of the name; the prefix "failure."
\* holds none of them.
Forwarded(name) == name[2] \in Metered

\* What is left of the stack when the listener has returned: increment returns,
\* to its caller or to report.
AfterListener(t) ==
    IF Top(t).op = None THEN Tail(stack[t])
    ELSE <<[Top(t) EXCEPT !.pc = "clock"]>> \o Tail(stack[t])

\* No listener yet, a name that is not passed on, or a metric recorded.
Listen(t) ==
    /\ At(t, "listen")
    /\ stack' = [stack EXCEPT ![t] = AfterListener(t)]
    /\ UNCHANGED <<clock, alive, inherited, listening, lock, counts, last,
                   made, lines>>

\* The metric cannot be recorded, which is reported from inside the listener.
ListenerFails(t) ==
    /\ At(t, "listen")
    /\ listening
    /\ Forwarded(Top(t).name)
    /\ stack' = [stack EXCEPT ![t] =
                    <<ReportCall(MetricRecord)>> \o AfterListener(t)]
    /\ UNCHANGED <<clock, alive, inherited, listening, lock, counts, last,
                   made, lines>>
-------------------------------------------------------------------------------
(* report, after its increment *)

\* The clock is read before the lock is taken: by the time the limiter looks,
\* another thread may have stored a later time.
ReadClock(t) ==
    /\ At(t, "clock")
    /\ Becomes(t, [Top(t) EXCEPT !.pc = "limit", !.now = clock])
    /\ UNCHANGED <<clock, alive, inherited, listening, lock, counts, last,
                   made, lines>>

LockAndLook(t) ==
    /\ At(t, "limit")
    /\ LockFree(t)
    /\ lock' = t
    /\ Becomes(t, [Top(t) EXCEPT !.pc = "decide", !.seen = last[Top(t).op]])
    /\ UNCHANGED <<clock, alive, inherited, listening, counts, last, made,
                   lines>>

\* Mutant: a time before that of the last line is not recent.
RecentlyBefore(now, previous) ==
    previous # None /\ now - previous >= 0 /\ now - previous < Interval

Recent(now, previous) == previous # None /\ now - previous < Interval

\* The report is suppressed, or its time is stored; the lock is released.
Decide(t) ==
    LET call == Top(t)
        line == lines.admitted[call.op] + 1
    IN  /\ At(t, "decide")
        /\ lock' = None
        /\ \/ /\ Recent(call.now, call.seen)
              /\ Return(t)
              /\ UNCHANGED <<last, lines>>
           \/ /\ ~Recent(call.now, call.seen)
              /\ last' = [last EXCEPT ![call.op] = call.now]
              /\ lines' = [lines EXCEPT !.admitted[call.op] = line]
              /\ Becomes(t, [call EXCEPT !.pc = "print", !.now = 0, !.seen = None,
                                         !.line = line])
        /\ UNCHANGED <<clock, alive, inherited, listening, counts, made>>

\* Any time later the line is stamped and handed to standard error, which may
\* refuse it.
WriteLine(t) ==
    /\ At(t, "print")
    /\ lines' = [lines EXCEPT !.printed[Top(t).op] = @ \cup {Top(t).line}]
    /\ Return(t)
    /\ UNCHANGED <<clock, alive, inherited, listening, lock, counts, last, made>>

DiagStep(t) ==
    \/ LockAndRead(t)
    \/ Add(t)
    \/ Listen(t) \/ ListenerFails(t)
    \/ ReadClock(t)
    \/ LockAndLook(t)
    \/ Decide(t)
    \/ WriteLine(t)
-------------------------------------------------------------------------------
(* The listener, time and processes *)

AddListener ==
    /\ lock = None
    /\ ~listening
    /\ listening' = TRUE
    /\ UNCHANGED <<clock, alive, inherited, lock, counts, last, stack, made,
                   lines>>

Tick ==
    /\ clock < MaxTime
    /\ clock' = clock + 1
    /\ UNCHANGED <<alive, inherited, listening, lock, counts, last, stack, made,
                   lines>>

\* os.fork, or a restored snapshot: memory is copied as it is, and the calls of
\* the other threads are never continued.
Duplicate(t) ==
    /\ t \in alive
    /\ Idle(t)
    /\ alive' = {t}
    /\ inherited' = TRUE
    /\ stack' = [u \in Threads |-> <<>>]
    /\ UNCHANGED <<clock, listening, lock, counts, last, made, lines>>

\* Mutant: the times of the last lines are kept.
KeptTimes == last

ForgottenTimes == [o \in Operations |-> None]

\* restart_after_process_duplication; the listeners stay.
RestartDiagnostics ==
    /\ lock' = None
    /\ last' = ForgottenTimes
    /\ counts' = [n \in Names |-> 0]
    /\ inherited' = FALSE
    /\ made' = [n \in Names |-> 0]
    /\ lines' = NoLines(clock)
    /\ UNCHANGED <<clock, alive, listening, stack>>

\* Threads are started, and end in no call; also when the process is copied before
\* it has diagnostics.
ThreadsChange ==
    /\ \A t \in alive \ alive' : Idle(t)
    /\ UNCHANGED <<clock, inherited, listening, lock, counts, last, stack, made,
                   lines>>
-------------------------------------------------------------------------------
\* In a copied process the restart comes before any call, and no restart comes
\* during one.
DiagNext ==
    \/ \E t \in Threads :
          \/ /\ ~inherited
             /\ (\E c \in Counters : Increment(t, c)) \/ \E o \in Operations : Report(t, o)
          \/ DiagStep(t)
          \/ Duplicate(t)
    \/ AddListener
    \/ Tick
    \/ alive' \in SUBSET Threads /\ ThreadsChange
    \/ (\A t \in Threads : Idle(t)) /\ RestartDiagnostics

DiagSpec == DiagInit /\ [][DiagNext]_diagVars
-------------------------------------------------------------------------------
(* Properties *)

\* No increment is lost: a counter holds the number of increments made in this
\* process since it began or was restarted, however threads interleave.
CountsExact == \A n \in Names : counts[n] = made[n]

\* The earliest time for the n-th line of an operation.
Earliest(n) == lines.since + (n - 1) * Interval

\* Standard error is never flooded: of one operation at most one line per Interval
\* is printed, counted from the start or the restart, although the limiter compares
\* times that may be older than what it has stored, and a line may be printed long
\* after it was admitted.
LinesRationed ==
    \A o \in Operations : \A n \in lines.printed[o] : Earliest(n) <= clock

\* Some call for o has been counted and has not returned.
Undecided(o) ==
    \E t \in Threads : \E i \in 1..Len(stack[t]) : stack[t][i].op = o

\* The first failure of an operation in a process shows: once a report of it has
\* been counted and none is under way, a line of it has been printed, also in a
\* copied process whose parent had just printed one.
FirstFailureShown ==
    \A o \in Operations :
        counts[Failure(o)] > 0 /\ ~inherited /\ ~Undecided(o) => lines.printed[o] # {}
===============================================================================
