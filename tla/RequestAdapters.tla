---------------------------- MODULE RequestAdapters ----------------------------
(***************************************************************************)
(* The adapters of policyengine_observability/adapters: the middleware for *)
(* FastAPI and the callbacks for Flask, with their installation, composed  *)
(* with the requests of ContextScopes.                                     *)
(*                                                                         *)
(* A FastAPI call is a task of the server; the application may answer from *)
(* a task that it makes.  Its steps end where the middleware awaits.  The  *)
(* Flask calls follow one another on one thread, whose context variables   *)
(* outlive them.                                                           *)
(***************************************************************************)
EXTENDS Naturals, Sequences, FiniteSets

CONSTANTS FastAPICalls, FlaskCalls,
          Thread,        \* the context of the Flask thread
          Statuses,      \* of the responses; 500 is the one for an exception
          MaxInstalls,   \* bound: calls of instrument_flask
          MaxBroken,     \* bound: registries that one rollback fails to restore
          None

Calls == FastAPICalls \cup FlaskCalls
Contexts == {Thread} \cup ({"task", "child"} \X FastAPICalls)

ASSUME AdaptersAssumption ==
    /\ FastAPICalls \cap FlaskCalls = {}
    /\ 500 \in Statuses /\ Statuses \subseteq Nat
    /\ MaxInstalls \in Nat
    /\ MaxBroken \in Nat
    /\ Thread \notin {"task", "child"} \X FastAPICalls
    /\ None \notin Contexts \cup Calls \cup Statuses

VARIABLES requestState, req, ctx,  \* of ContextScopes; a call is its request
          route,      \* state.route is the matched template
          reader,     \* state.route_reader is set
          call,       \* what the framework and the adapter keep of each call
          hooks,      \* the callback registries of the Flask application
          installer,  \* instrument_flask
          records     \* history: each record and whether its route was right

scopes == <<requestState, req, ctx>>
flask == <<hooks, installer>>
vars == <<scopes, route, reader, call, flask, records>>

Runtime == INSTANCE ContextScopes WITH
    Requests <- Calls, Operations <- {}, Decorators <- {}, Supplied <- {},
    Keys <- {}, DispatchKeys <- {}, Texts <- {}, Numbers <- {}, Floats <- {}, MaxMessages <- 0,
    operationState <- [c \in Contexts |-> None], op <- <<>>, held <- <<>>,
    messages <- {}

Registries == {"before_request_funcs", "after_request_funcs", "teardown_request_funcs"}
Before == "before_request_funcs"
After == "after_request_funcs"
TearDown == "teardown_request_funcs"

\* A registry holds a callback of the application, and ours.
NotInstalled == [r \in Registries |-> <<"app">>]
Installed == [r \in Registries |->
                 IF r = TearDown THEN <<"app", "ours">> ELSE <<"ours", "app">>]
Hooked(r) == \E i \in 1..Len(hooks[r]) : hooks[r][i] = "ours"

Init ==
    /\ requestState = [c \in Contexts |-> None]
    /\ req = [k \in Calls |->
                [stage |-> "unused", ctx |-> None, old |-> None, rid |-> None,
                 attrs |-> <<>>, error |-> None, status |-> None, log |-> <<>>,
                 ender |-> None]]
    /\ ctx = [c \in Contexts |->
                [Runtime!NewContext(c) EXCEPT !.alive = c \notin {"child"} \X FastAPICalls]]
    /\ route = [k \in Calls |-> FALSE]
    /\ reader = [k \in Calls |-> FALSE]
    /\ call = [k \in Calls |->
                [pc |-> "away", status |-> None, raised |-> FALSE, matched |-> FALSE,
                 sending |-> None, last |-> FALSE, completed |-> FALSE,
                 skipped |-> FALSE]]
    /\ hooks = NotInstalled
    /\ installer = [pc |-> "idle", saved |-> NotInstalled, marked |-> FALSE,
                    dirty |-> FALSE, calls |-> 0]
    /\ records = {}

At(k, pc) == call[k].pc = pc
Main(k) == IF k \in FlaskCalls THEN Thread ELSE <<"task", k>>
Child(k) == <<"child", k>>

\* An application is of one of the frameworks.
IsFastAPI == \E k \in FastAPICalls : ~At(k, "away")
IsFlask == installer.calls > 0 \/ \E k \in FlaskCalls : ~At(k, "away")
-------------------------------------------------------------------------------
(* Calls of the runtime by the adapters, in a context *)

\* The request that a call of the runtime is about: none that is completed.
Active(c) ==
    {r \in Calls : requestState[c] = r /\ ~Runtime!Completed(req[r])}

\* Mutant: the request begins in a task that was not made from the middleware's.
BeginElsewhere(k) ==
    Runtime!BeginRequest(IF k \in FlaskCalls THEN Thread ELSE Child(k), k, k)

Begin(k) == Runtime!BeginRequest(Main(k), k, k)

UpdateRoute(c, k) ==
    route' = [r \in Calls |-> IF r \in Active(c) /\ call[k].matched THEN TRUE ELSE route[r]]

\* Mutant: the route is not looked at again.
RouteAtStart(c, k) == UNCHANGED route

UpdateRouteAtEnd(c, k) == UpdateRoute(c, k)

Record(r, isMatched) == [call |-> r, right |-> isMatched = call[r].matched]

End(c, status, raised) ==
    IF Active(c) = {} THEN UNCHANGED <<scopes, records>>
    ELSE /\ Runtime!EndRequest(c, status, raised)
         /\ records' = records \cup {Record(r, route'[r]) : r \in Active(c)}

\* Mutant: records have the route stored with the request.
StoredRoute(r) == route[r]

CurrentRoute(r) == IF reader[r] /\ call[r].matched THEN TRUE ELSE route[r]

\* The application writes a record.
Log(c) ==
    /\ \E r \in Calls :
          /\ requestState[c] = r
          /\ records' = records \cup {Record(r, CurrentRoute(r))}
    /\ UNCHANGED <<scopes, route, reader, call, flask>>
-------------------------------------------------------------------------------
(* The FastAPI middleware *)

\* The request begins before its route is matched; it may fail, is reported, and
\* the call goes on without.
FastAPIBegin(k) ==
    /\ At(k, "away")
    /\ ~IsFlask
    /\ call' = [call EXCEPT ![k].pc = "app"]
    /\ \/ Begin(k) /\ reader' = [reader EXCEPT ![k] = TRUE]
       \/ UNCHANGED <<scopes, reader>>
    /\ UNCHANGED <<route, flask, records>>

Match(k) ==
    /\ At(k, "app")
    /\ call' = [call EXCEPT ![k].matched = TRUE]
    /\ UNCHANGED <<scopes, route, reader, flask, records>>

Spawn(k) ==
    /\ At(k, "app")
    /\ ~ctx[Child(k)].alive
    /\ Runtime!Copy(Main(k), Child(k))
    /\ UNCHANGED <<route, reader, call, flask, records>>

Speaks(k, c) ==
    /\ At(k, "app")
    /\ c = Main(k) \/ (c = Child(k) /\ ctx[c].alive)
    /\ call[k].sending = None

\* The status is stored before the send, which may raise: it is then up to the
\* application how it ends.
SendStart(k, c, status) ==
    /\ Speaks(k, c)
    /\ call[k].status = None
    /\ call' = [call EXCEPT ![k].status = status]
    /\ UpdateRoute(c, k)
    /\ UNCHANGED <<scopes, reader, flask, records>>

\* The last part of the body: send is awaited, and other tasks run meanwhile.
SendLast(k, c) ==
    /\ Speaks(k, c)
    /\ call[k].status # None
    /\ ~call[k].last
    /\ call' = [call EXCEPT ![k].sending = c, ![k].last = TRUE]
    /\ UNCHANGED <<scopes, route, reader, flask, records>>

\* The server took it, also if the application has ended in the meantime.
Sent(k) ==
    LET c == call[k].sending
    IN  /\ c # None
        /\ UpdateRouteAtEnd(c, k)
        /\ End(c, call[k].status, FALSE)
        /\ call' = [call EXCEPT ![k].sending = None, ![k].completed = TRUE]
        /\ UNCHANGED <<reader, flask>>

\* The client is gone, or the task is cancelled.
SendFails(k) ==
    /\ call[k].sending # None
    /\ call' = [call EXCEPT ![k].sending = None]
    /\ UNCHANGED <<scopes, route, reader, flask, records>>

\* Mutant: an exception is a status 500 whatever has been sent.
ErrorStatus(k, raised) == IF raised THEN 500 ELSE call[k].status

FinalStatus(k, raised) ==
    IF call[k].status # None THEN call[k].status ELSE IF raised THEN 500 ELSE None

\* The application returns, is cancelled, or raises an exception.
AppEnds(k, raised) ==
    /\ At(k, "app")
    /\ call[k].sending # Main(k)
    /\ call' = [call EXCEPT ![k].pc = "over",
                            ![k].raised = raised /\ ~call[k].completed]
    /\ IF call[k].completed THEN UNCHANGED <<scopes, route, records>>
       ELSE /\ UpdateRouteAtEnd(Main(k), k)
            /\ End(Main(k), FinalStatus(k, raised), raised)
    /\ UNCHANGED <<reader, flask>>
-------------------------------------------------------------------------------
(* The Flask callbacks *)

FlaskIdle == \A k \in FlaskCalls : call[k].pc \in {"away", "over"}

\* Flask has matched the route, or found none, before the callbacks run.
FlaskBegin(k) ==
    /\ At(k, "away")
    /\ ~IsFastAPI
    /\ FlaskIdle
    /\ installer.pc = "idle"
    /\ \E matched \in BOOLEAN :
          /\ call' = [call EXCEPT ![k].pc = "handling", ![k].matched = matched]
          /\ \/ Hooked(Before) /\ Begin(k) /\ route' = [route EXCEPT ![k] = matched]
             \/ UNCHANGED <<scopes, route>>
    /\ UNCHANGED <<reader, flask, records>>

\* A response of the application, or of one of its error handlers.
Respond(k, status) ==
    /\ At(k, "handling")
    /\ call' = [call EXCEPT ![k].pc = "after", ![k].status = status]
    /\ UNCHANGED <<scopes, route, reader, flask, records>>

\* An exception that no handler takes: Flask answers with 500, or raises it.
Raise(k) ==
    /\ At(k, "handling")
    /\ \E pc \in {"after", "teardown"} :
          call' = [call EXCEPT ![k].pc = pc, ![k].status = 500, ![k].raised = TRUE]
    /\ UNCHANGED <<scopes, route, reader, flask, records>>

FinishObserved(k) ==
    /\ At(k, "after")
    /\ call' = [call EXCEPT ![k].pc = "teardown"]
    /\ IF Hooked(After) /\ Active(Thread) # {}
       THEN /\ UpdateRoute(Thread, k)
            /\ Runtime!UpdateRequestStatus(Thread, call[k].status)
       ELSE UNCHANGED <<scopes, route>>
    /\ UNCHANGED <<reader, flask, records>>

\* The application's callback raises before ours: Flask answers with 500 and
\* calls the callbacks once more, and does not mind a second exception.
AfterFails(k) ==
    /\ At(k, "after")
    /\ call' = [call EXCEPT ![k].pc = IF call[k].raised THEN "teardown" ELSE @,
                            ![k].status = 500, ![k].raised = TRUE]
    /\ UNCHANGED <<scopes, route, reader, flask, records>>

\* Mutant: a call that raised is left to somebody else.
NotRaised(k) == ~call[k].raised

Closes(k) == Hooked(TearDown)

CloseObserved(k) ==
    /\ At(k, "teardown")
    /\ call' = [call EXCEPT ![k].pc = "over"]
    /\ UNCHANGED <<route, reader, flask>>
    /\ IF Closes(k)
       THEN End(Thread, IF call[k].raised THEN 500 ELSE None, call[k].raised)
       ELSE UNCHANGED <<scopes, records>>

\* The application's callback raises before ours, which is then not called.
TeardownFails(k) ==
    /\ At(k, "teardown")
    /\ call' = [call EXCEPT ![k].pc = "over", ![k].skipped = TRUE]
    /\ UNCHANGED <<scopes, route, reader, flask, records>>
-------------------------------------------------------------------------------
(* instrument_flask, before the application serves *)

Install ==
    /\ ~IsFastAPI
    /\ installer.pc = "idle"
    /\ installer.calls < MaxInstalls
    /\ \A k \in FlaskCalls : At(k, "away")
    /\ installer' = [installer EXCEPT !.calls = @ + 1,
                                      !.pc = IF installer.marked THEN "idle" ELSE "snapshot"]
    /\ UNCHANGED <<scopes, route, reader, call, hooks, records>>

Steps(pc, next) ==
    /\ installer.pc = pc
    /\ installer' = [installer EXCEPT !.pc = next]
    /\ UNCHANGED <<scopes, route, reader, call, records>>

Snapshot ==
    /\ installer.pc = "snapshot"
    /\ installer' = [installer EXCEPT !.saved = hooks, !.pc = Before]
    /\ UNCHANGED <<scopes, route, reader, call, hooks, records>>

Register(r, next) ==
    Steps(r, next) /\ hooks' = [hooks EXCEPT ![r] = Append(@, "ours")]

MoveToStart(pc, r, next) ==
    /\ Steps(pc, next)
    /\ hooks' = [hooks EXCEPT ![r] = <<"ours">> \o SubSeq(@, 1, Len(@) - 1)]

Mark ==
    /\ installer.pc = "mark"
    /\ installer' = [installer EXCEPT !.marked = TRUE, !.pc = "idle"]
    /\ UNCHANGED <<scopes, route, reader, call, hooks, records>>

\* Any of these raises; without a snapshot there is nothing to restore.
InstallFails ==
    /\ installer.pc \notin {"idle", "rollback"}
    /\ Steps(installer.pc, IF installer.pc = "snapshot" THEN "idle" ELSE "rollback")
    /\ UNCHANGED hooks

\* Mutant: the snapshot shares the lists of the application.
SharedList(r) == hooks[r]

Restored(r) == installer.saved[r]

\* A registry that cannot be restored is reported and does not stop the rest: it is
\* kept as it is, or left empty.  The mark was the last to be set: whether it can be
\* taken back makes no difference.
Rollback ==
    /\ installer.pc = "rollback"
    /\ \E kept, emptied \in SUBSET Registries :
          /\ Cardinality(kept \cup emptied) <= MaxBroken
          /\ hooks' = [r \in Registries |-> IF r \in emptied THEN <<>>
                                            ELSE IF r \in kept THEN hooks[r]
                                            ELSE Restored(r)]
          /\ installer' = [installer EXCEPT !.pc = "idle", !.marked = FALSE,
                                            !.dirty = @ \/ kept \cup emptied # {}]
    /\ UNCHANGED <<scopes, route, reader, call, records>>

InstallStep ==
    \/ Install \/ Snapshot
    \/ Register(Before, "before first") \/ MoveToStart("before first", Before, After)
    \/ Register(After, "after first") \/ MoveToStart("after first", After, TearDown)
    \/ Register(TearDown, "mark") \/ Mark
    \/ InstallFails \/ Rollback
-------------------------------------------------------------------------------
FastAPIStep(k) ==
    \/ FastAPIBegin(k) \/ Match(k) \/ Spawn(k)
    \/ \E c \in {Main(k), Child(k)} :
          (\E s \in Statuses : SendStart(k, c, s)) \/ SendLast(k, c)
    \/ Sent(k) \/ SendFails(k)
    \/ \E raised \in BOOLEAN : AppEnds(k, raised)

FlaskStep(k) ==
    \/ FlaskBegin(k) \/ (\E s \in Statuses : Respond(k, s)) \/ Raise(k)
    \/ FinishObserved(k) \/ AfterFails(k)
    \/ CloseObserved(k) \/ TeardownFails(k)

Next ==
    \/ \E k \in FastAPICalls : FastAPIStep(k)
    \/ \E k \in FlaskCalls : FlaskStep(k)
    \/ \E c \in Contexts : Log(c)
    \/ InstallStep

Spec == Init /\ [][Next]_vars
-------------------------------------------------------------------------------
(* Properties *)

\* instrument_flask leaves all callbacks in place, its own before those of the
\* application, or none, and a later call can try again; unless the rollback
\* itself failed.
InstallIsAtomic ==
    installer.pc = "idle" /\ ~installer.dirty =>
        hooks = IF installer.marked THEN Installed ELSE NotInstalled

\* Calls whose end the adapter is not told of: another teardown callback raised,
\* or the callbacks are those of a failed rollback.
Untold(k) == call[k].skipped \/ (k \in FlaskCalls /\ installer.dirty)

\* What the client was sent, or is sent by the server for an exception.
Answer(k) ==
    IF call[k].raised /\ call[k].status = None THEN 500 ELSE call[k].status

\* A call that is over has one completion record, with the status that was sent
\* and as an error exactly if that status is one or the answer was cut short by
\* an exception: although two tasks and two places end it, in any order, and the
\* last part of the body may still be on its way when the application ends.
RecordTellsAnswer ==
    \A k \in Calls : At(k, "over") /\ req[k].stage # "unused" /\ ~Untold(k) =>
        /\ Len(req[k].log) = 1
        /\ req[k].status = Answer(k)
        /\ req[k].log[1].outcome = Runtime!Outcome(Answer(k), call[k].raised)

\* Each record of a request carries the route that is matched when it is written,
\* although the request begins, and may end, where no route is known; but for
\* requests that were never ended and are found again by the next call.
RoutesAreCurrent == \A x \in records : x.right \/ Untold(x.call)

\* A Flask thread is left as it was found, so that what it does next is not
\* counted with a request that is over.
ThreadIsClean ==
    FlaskIdle /\ (\A k \in FlaskCalls : ~Untold(k)) => requestState[Thread] = None

\* Whatever the frameworks and the adapters do, of the runtime's state they do
\* only what its calls do, one call at a time, each in a context that is alive.
ImplementsRuntime == Runtime!Spec
===============================================================================
