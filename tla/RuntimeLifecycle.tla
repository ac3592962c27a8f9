--------------------------- MODULE RuntimeLifecycle ---------------------------
(***************************************************************************)
(* The life of an ObservabilityRuntime (policyengine_observability/        *)
(* runtime.py): construction, logging handlers, shutdown from any thread,  *)
(* and restart_after_snapshot in a process copied by a fork or a snapshot. *)
(* It is composed with Diagnostics and ProcessIdentity, whose memory is    *)
(* copied with the process; the model goes on with the copy.               *)
(*                                                                         *)
(* Each thread has the steps left of the routine it is in.  Delivery is    *)
(* what DeliveryManager shows of itself: its close returns.  The shutdown  *)
(* of the OpenTelemetry providers may hang for ever.                       *)
(***************************************************************************)
EXTENDS Diagnostics, ProcessIdentity, SequencesExt

CONSTANTS Daemon,        \* the thread that _run_bounded starts
          MaxHandlers,   \* bound: logging handlers made
          MaxRoutines,   \* bound: calls of the runtime by the application
          MaxRestarts    \* bound: restarts

\* A late shutdown is always looked at; the failures of a restart before it has an
\* OTel have no part in their names that _record_diagnostic_metric looks for.
ASSUME LifecycleAssumption ==
    /\ Daemon \in Threads
    /\ Callers = Threads \ {Daemon}
    /\ "shutdown.timeout" \in Counters
    /\ "otel.shutdown_deadline" \in Operations
    /\ {"delivery.configure", "process.logging_handler_lock"} \cap Metered = {}
    /\ MaxHandlers \in Nat
    /\ MaxRoutines \in Nat
    /\ MaxRestarts \in Nat

VARIABLES steps,     \* the steps left of the routine of each thread
          self,      \* the attributes of the runtime
          logger,    \* the handlers on the logger and in the runtime's list
          history    \* what the properties remember

runtimeVars == <<steps, self, logger, history>>
vars == <<diagVars, identityVars, runtimeVars>>

Handlers == 1..MaxHandlers

\* The names of the steps, in the order of the actions below.
Steps ==
    {"delivery", "otel", "listener", "scan", "attach", "register", "handle", "handled",
     "enter", "check", "close", "start", "wait", "deadline", "detach", "clear", "leave",
     "tracer", "meter", "set", "lock", "diagnostics", "contexts", "relock", "open"}

\* The attributes of the runtime, its handlers, and what the properties remember.
Attributes ==
    [lock : Threads \cup {None},               \* _shutdown_lock
     closed : BOOLEAN,
     instance : Nat \cup {NoIdentity},         \* the frozen instance_id
     contexts : 0..MaxProcesses,               \* who made the variables
     delivery : 0..MaxProcesses,               \* who built _delivery
     otel : 0..MaxProcesses,                   \* who built _otel
     completed : BOOLEAN]                      \* event of _run_bounded
HandlerState ==
    [attached : SUBSET Handlers,               \* ours, on the logger
     registered : Seq(Handlers),               \* _logging_handlers
     cursor : 0..MaxHandlers,                  \* of the loop over it
     busy : [Handlers -> Threads \cup {None}], \* handler locks
     mine : [Threads -> 0..MaxHandlers],       \* used by each thread
     made : 0..MaxHandlers]
Memory ==
    [restarts : 0..MaxRestarts,
     routines : 0..MaxRoutines,
     returned : BOOLEAN,                       \* some call of shutdown has
     closes : 0..1,                            \* of this _delivery
     shutdowns : 0..1,                         \* of this _otel
     touched : SUBSET (1..MaxProcesses),       \* used an inherited _otel
     published : SUBSET [process : 1..MaxProcesses, id : Nat],
     installed : SUBSET Handlers]              \* when shutdown began

LifecycleTypeOK ==
    /\ DiagTypeOK
    /\ IdentityTypeOK
    /\ steps \in [Threads -> Seq(Steps)]
    /\ self \in Attributes
    /\ logger \in HandlerState
    /\ history \in Memory

Init ==
    /\ DiagInit
    /\ IdentityInit
    /\ steps = [t \in Threads |-> <<>>]
    /\ self = [lock |-> None, closed |-> FALSE, instance |-> NoIdentity,
               contexts |-> 0, delivery |-> 0, otel |-> 0, completed |-> FALSE]
    /\ logger = [attached |-> {}, registered |-> <<>>, cursor |-> 0,
                 busy |-> [h \in Handlers |-> None],
                 mine |-> [t \in Threads |-> 0], made |-> 0]
    /\ history = [restarts |-> 0, routines |-> 0, returned |-> FALSE, closes |-> 0,
                  shutdowns |-> 0, touched |-> {}, published |-> {},
                  installed |-> {}]
-------------------------------------------------------------------------------
(* Routines and their steps *)

Configuring == <<"delivery", "otel", "listener", "scan", "attach", "register">>
Instrumenting == <<"scan", "attach", "register">>
Logging == <<"handle", "handled">>

\* Mutant: a closed runtime is recognised before the lock is taken.
CheckFirst ==
    <<"check", "enter", "close", "start", "wait", "detach", "clear", "leave">>

ShuttingDown ==
    <<"enter", "check", "close", "start", "wait", "detach", "clear", "leave">>

BoundedShutdown == <<"tracer", "meter", "set">>

\* Mutant: the handlers are repaired before the diagnostics they report to.
RelockFirst ==
    <<"lock", "contexts", "relock", "diagnostics", "delivery", "otel", "open">>

Restarting ==
    <<"lock", "diagnostics", "contexts", "relock", "delivery", "otel", "open">>

Away(t) == t \in alive /\ Idle(t) /\ steps[t] = <<>>
Rest(t, routine) == steps' = [steps EXCEPT ![t] = routine]

\* A thread that is in no call of Diagnostics is at step s, or takes it.
AtStep(t, s) == Idle(t) /\ steps[t] # <<>> /\ Head(steps[t]) = s
Takes(t, s) == AtStep(t, s) /\ Rest(t, Tail(steps[t])) /\ UNCHANGED identityVars

\* A step that changes one part of the state.
Sets(s) == self' = s /\ UNCHANGED <<diagVars, logger, history>>
Logger(l) == logger' = l /\ UNCHANGED <<diagVars, self, history>>
Nothing == UNCHANGED <<diagVars, identityVars, self, logger, history>>

\* A failure is reported.  Operations are the failures an instance looks at.
Fails(t, o) == o \in Operations /\ Report(t, o)
MayFail(t, o) == UNCHANGED diagVars \/ Fails(t, o)

\* The constructor has returned and no restart is due or under way.
Ready ==
    /\ listening
    /\ ~inherited
    /\ \A t \in Threads : ~Contains(steps[t], "listener") /\ ~Contains(steps[t], "open")

\* The application calls the runtime, or logs.
Begins(t, routine) ==
    /\ Away(t)
    /\ Ready
    /\ history.routines < MaxRoutines
    /\ history' = [history EXCEPT !.routines = @ + 1]
    /\ Rest(t, routine)
    /\ UNCHANGED <<diagVars, identityVars, self>>

Begin(t, routine) == Begins(t, routine) /\ UNCHANGED logger
-------------------------------------------------------------------------------
(* Construction, of which the restart repeats a part *)

\* The application asks for an identifier and puts it in the configuration.
Configure(t) ==
    /\ Away(t)
    /\ self.instance = NoIdentity
    /\ \E g \in {h \in given : h.process = process} :
          Sets([self EXCEPT !.instance = g.id, !.contexts = process])
    /\ Rest(t, Configuring)
    /\ UNCHANGED identityVars

\* _new_delivery: when it fails, one with standard output alone is built.
NewDelivery(t) ==
    /\ Takes(t, "delivery")
    /\ self' = [self EXCEPT !.delivery = process]
    /\ history' = [history EXCEPT !.closes = 0]
    /\ MayFail(t, "delivery.configure")
    /\ UNCHANGED logger

\* _new_otel: the resource has the identifier of the configuration; when it
\* fails, a disabled one is built, which publishes nothing.
NewOtel(t) ==
    LET live == [process |-> process, id |-> self.instance]
    IN  /\ Takes(t, "otel")
        /\ self' = [self EXCEPT !.otel = process]
        /\ \/ /\ history' = [history EXCEPT !.shutdowns = 0,
                                            !.published = @ \cup {live}]
              /\ UNCHANGED diagVars
           \/ /\ Fails(t, "otel.runtime")
              /\ history' = [history EXCEPT !.shutdowns = 0]
        /\ UNCHANGED logger

Listener(t) ==
    Takes(t, "listener") /\ AddListener /\ UNCHANGED <<self, logger, history>>
-------------------------------------------------------------------------------
(* Logging handlers *)

\* A logger that has a handler of this runtime keeps it.
Scan(t) ==
    /\ AtStep(t, "scan")
    /\ Rest(t, IF logger.attached = {} THEN Tail(steps[t]) ELSE <<>>)
    /\ Nothing

Attach(t) ==
    LET h == logger.made + 1
    IN  /\ h \in Handlers
        /\ Takes(t, "attach")
        /\ Logger([logger EXCEPT !.made = h, !.mine[t] = h, !.attached = @ \cup {h}])

\* addHandler raises: the constructor reports it, another caller gets it.
AttachFails(t) ==
    /\ AtStep(t, "attach")
    /\ MayFail(t, "logging.handler_install")
    /\ Rest(t, <<>>)
    /\ UNCHANGED <<identityVars, self, logger, history>>

Register(t) ==
    /\ Takes(t, "register")
    /\ Logger([logger EXCEPT !.registered = Append(@, logger.mine[t]), !.mine[t] = 0])

\* A record of the application comes to a handler: to any on the logger, also to
\* one that is not registered yet or that no shutdown has reached.
Log(t) ==
    /\ Begins(t, Logging)
    /\ \E h \in logger.attached : logger' = [logger EXCEPT !.mine[t] = h]

\* The logging module calls emit with the lock of the handler held.
Handle(t) ==
    LET h == logger.mine[t]
    IN  /\ Takes(t, "handle")
        /\ logger.busy[h] = None
        /\ logger' = [logger EXCEPT !.busy[h] = t]
        /\ MayFail(t, "logging.handler_emit")
        /\ UNCHANGED <<self, history>>

Handled(t) ==
    /\ Takes(t, "handled")
    /\ Logger([logger EXCEPT !.busy[logger.mine[t]] = None, !.mine[t] = 0])
-------------------------------------------------------------------------------
(* shutdown *)

TakeLock(t) ==
    Takes(t, "enter") /\ self.lock = None /\ Sets([self EXCEPT !.lock = t])

\* The first call closes the runtime; the others leave at once.
Check(t) ==
    /\ AtStep(t, "check")
    /\ Rest(t, IF self.closed THEN <<"leave">> ELSE Tail(steps[t]))
    /\ self' = [self EXCEPT !.closed = TRUE]
    /\ history' = IF self.closed THEN history
                  ELSE [history EXCEPT !.installed = ToSet(logger.registered)]
    /\ UNCHANGED <<diagVars, identityVars, logger>>

CloseDelivery(t) ==
    /\ Takes(t, "close")
    /\ history' = [history EXCEPT !.closes = @ + 1]
    /\ MayFail(t, "logging.shutdown")
    /\ UNCHANGED <<self, logger>>

\* _run_bounded gives the providers a thread of their own ...
StartDaemon(t) ==
    /\ AtStep(t, "start")
    /\ steps' = [steps EXCEPT ![t] = Tail(@), ![Daemon] = BoundedShutdown]
    /\ self' = [self EXCEPT !.completed = FALSE]
    /\ alive' = alive \cup {Daemon}
    /\ UNCHANGED <<clock, inherited, listening, lock, counts, last, stack, made,
                   lines, identityVars, logger, history>>

\* ... which may be impossible.
StartFails(t) ==
    /\ AtStep(t, "start")
    /\ Fails(t, "otel.shutdown")
    /\ Rest(t, Tail(Tail(steps[t])))
    /\ UNCHANGED <<identityVars, self, logger, history>>

\* OTelRuntime.shutdown: the second provider gets its turn whatever the first
\* one raises.
ShutTracer(t) ==
    /\ Takes(t, "tracer")
    /\ history' = [history EXCEPT !.shutdowns = @ + 1]
    /\ MayFail(t, "otel.trace_shutdown")
    /\ UNCHANGED <<self, logger>>

ShutMeter(t) ==
    /\ Takes(t, "meter")
    /\ MayFail(t, "otel.metric_shutdown")
    /\ UNCHANGED <<self, logger, history>>

SetCompleted(t) == Takes(t, "set") /\ Sets([self EXCEPT !.completed = TRUE])

\* Mutant: the wait has no timeout.
OnlyCompleted == self.completed

CompletedOrLate == TRUE

\* The event is set or the timeout has passed; if it is not set then, that is
\* counted and reported.
Wait(t) ==
    /\ AtStep(t, "wait")
    /\ CompletedOrLate
    /\ \/ /\ self.completed
          /\ Rest(t, Tail(steps[t]))
          /\ UNCHANGED diagVars
       \/ /\ ~self.completed
          /\ Rest(t, <<"deadline">> \o Tail(steps[t]))
          /\ Increment(t, "shutdown.timeout")
    /\ UNCHANGED <<identityVars, self, logger, history>>

Deadline(t) ==
    /\ Takes(t, "deadline")
    /\ Report(t, "otel.shutdown_deadline")
    /\ UNCHANGED <<self, logger, history>>

\* The loop of _remove_logging_handlers goes by position: a handler registered
\* meanwhile is reached too.
Detach(t) ==
    LET h == logger.registered[logger.cursor + 1]
    IN  /\ AtStep(t, "detach")
        /\ logger.cursor < Len(logger.registered)
        /\ \/ /\ logger' = [logger EXCEPT !.cursor = @ + 1, !.attached = @ \ {h}]
              /\ UNCHANGED diagVars
           \/ /\ logger' = [logger EXCEPT !.cursor = @ + 1]
              /\ Fails(t, "logging.handler_remove")
        /\ UNCHANGED <<steps, identityVars, self, history>>

DetachDone(t) ==
    /\ logger.cursor = Len(logger.registered)
    /\ Takes(t, "detach")
    /\ UNCHANGED <<diagVars, self, logger, history>>

Clear(t) ==
    /\ Takes(t, "clear")
    /\ Logger([logger EXCEPT !.registered = <<>>, !.cursor = 0])

Leave(t) ==
    /\ Takes(t, "leave")
    /\ self' = [self EXCEPT !.lock = IF @ = t THEN None ELSE @]
    /\ history' = [history EXCEPT !.returned = TRUE]
    /\ UNCHANGED <<diagVars, logger>>
-------------------------------------------------------------------------------
(* Copies of the process, and restart_after_snapshot *)

\* os.fork or the restoration of a snapshot, by a thread outside the library.
CopyBy(t) ==
    /\ Away(t)
    /\ ForkProcess \/ RestoreProcess
    /\ \/ /\ self.instance = NoIdentity
          /\ alive' = {t}
          /\ UNCHANGED <<clock, inherited, listening, lock, counts, last, stack,
                         made, lines>>
       \/ Ready /\ Duplicate(t)
    /\ steps' = [u \in Threads |-> <<>>]
    /\ logger' = [logger EXCEPT !.cursor = 0, !.mine = [u \in Threads |-> 0]]
    /\ UNCHANGED <<self, history>>

\* The lifecycle callback of a copied process, or a restart after a shutdown;
\* nothing else runs.
Restart(t) ==
    /\ Away(t)
    /\ \A u \in Threads : Idle(u) /\ steps[u] = <<>>
    /\ inherited \/ (Ready /\ self.closed)
    /\ history.restarts < MaxRestarts
    /\ history' = [history EXCEPT !.restarts = @ + 1]
    /\ Rest(t, Restarting)
    /\ UNCHANGED <<diagVars, identityVars, self, logger>>

NewLock(t) == Takes(t, "lock") /\ Sets([self EXCEPT !.lock = None])

NewDiagnostics(t) ==
    Takes(t, "diagnostics") /\ RestartDiagnostics /\ UNCHANGED <<self, logger, history>>

NewContexts(t) == Takes(t, "contexts") /\ Sets([self EXCEPT !.contexts = process])

\* createLock of each registered handler.
Relock(t) ==
    /\ Takes(t, "relock")
    /\ \/ /\ logger' = [logger EXCEPT !.busy = [h \in Handlers |->
                           IF Contains(logger.registered, h) THEN None ELSE @[h]]]
          /\ UNCHANGED diagVars
       \/ /\ logger.registered # <<>>
          /\ Fails(t, "process.logging_handler_lock")
          /\ UNCHANGED logger
    /\ UNCHANGED <<self, history>>

Open(t) ==
    /\ Takes(t, "open")
    /\ self' = [self EXCEPT !.closed = FALSE]
    /\ history' = [history EXCEPT !.returned = FALSE]
    /\ UNCHANGED <<diagVars, logger>>
-------------------------------------------------------------------------------
\* A step inside Diagnostics; its listener records to the OTel of the runtime.
InDiagnostics(t) ==
    /\ DiagStep(t)
    /\ history' =
          IF At(t, "listen") /\ listening /\ Forwarded(Top(t).name) /\ self.otel # process
          THEN [history EXCEPT !.touched = @ \cup {process}] ELSE history
    /\ UNCHANGED <<identityVars, steps, self, logger>>

RoutineStep(t) ==
    \/ NewDelivery(t) \/ NewOtel(t) \/ Listener(t)
    \/ Scan(t) \/ Attach(t) \/ AttachFails(t) \/ Register(t)
    \/ Handle(t) \/ Handled(t)
    \/ TakeLock(t) \/ Check(t) \/ CloseDelivery(t) \/ StartDaemon(t) \/ StartFails(t)
    \/ Wait(t) \/ Deadline(t) \/ Detach(t) \/ DetachDone(t) \/ Clear(t) \/ Leave(t)
    \/ NewLock(t) \/ NewDiagnostics(t) \/ NewContexts(t) \/ Relock(t) \/ Open(t)

DaemonStep == ShutTracer(Daemon) \/ ShutMeter(Daemon) \/ SetCompleted(Daemon)

\* Another component counts what a metric is about.
Work(t) ==
    /\ Away(t)
    /\ Ready
    /\ history.routines < MaxRoutines
    /\ history' = [history EXCEPT !.routines = @ + 1]
    /\ \E c \in Counters \cap Metered : Increment(t, c)
    /\ UNCHANGED <<identityVars, steps, self, logger>>

\* The application asks for its identifier when it builds its configuration, and
\* in the callback of a copied process.
Identify(t) ==
    /\ Away(t)
    /\ self.instance = NoIdentity \/ inherited
    /\ Ask(t) \/ Store(t)
    /\ UNCHANGED <<diagVars, runtimeVars>>

Next ==
    \/ \E t \in Callers :
          \/ Identify(t)
          \/ Configure(t)
          \/ Begin(t, Instrumenting) \/ Begin(t, ShuttingDown)
          \/ Log(t)
          \/ Work(t)
          \/ CopyBy(t)
          \/ Restart(t)
          \/ RoutineStep(t)
    \/ DaemonStep
    \/ \E t \in Threads : InDiagnostics(t)

Spec == Init /\ [][Next]_vars

\* Threads inside a call go on.  Nothing is assumed of the providers: DaemonStep
\* may never be taken.
FairSpec ==
    /\ Spec
    /\ \A t \in Callers : WF_vars(RoutineStep(t))
    /\ \A t \in Threads : WF_vars(InDiagnostics(t))
-------------------------------------------------------------------------------
(* Properties *)

\* A call of shutdown that returns leaves a runtime that is shut down, whichever
\* thread did it: delivery has been closed, and every handler registered in time
\* is off the logger, or its failure was counted.
ShutdownMeansClosed ==
    Ready /\ history.returned =>
        /\ history.closes = 1
        /\ \/ logger.attached \cap history.installed = {}
           \/ counts[Failure("logging.handler_remove")] > 0

\* A copied process works with what it has built itself: once it is restarted it
\* has its own context variables, delivery and OTel, and before that nothing it
\* reports reaches the OTel of its parent, whose locks may be held for ever.
CopyIsIndependent ==
    /\ history.touched = {}
    /\ Ready => {self.contexts, self.delivery, self.otel} = {process}

\* README.md:363-365 says that separate workers and containers cannot publish
\* under the same resource identity.
OneProcessPerIdentity ==
    \A a, b \in history.published : a.id = b.id => a.process = b.process

\* A thread that was not copied holds the lock of a handler that is on the logger
\* and not in the list the restart goes by.
LockLost ==
    \E h \in logger.attached \ ToSet(logger.registered) :
        logger.busy[h] \notin alive \cup {None}

\* Every call of the runtime returns, in the process and in its restarted copies:
\* shutdown although the providers hang, records although the lock of a registered
\* handler was held when the process was copied, and the restart itself; except
\* where a lock could not be made anew, which is counted, or was not known of.
RoutinesReturn ==
    \A t \in Callers : steps[t] # <<>> ~>
        \/ steps[t] = <<>>
        \/ counts[Failure("process.logging_handler_lock")] > 0
        \/ LockLost

\* Whatever the runtime does in this and in copied processes, diagnostics and
\* identities see only what their own specifications allow: in a copied process
\* nothing is counted or reported before the restart has made the diagnostics anew,
\* and no restart makes them anew during a call.
ComponentsImplemented == DiagSpec /\ IdentitySpec
===============================================================================
