----------------------------- MODULE ContextScopes ----------------------------
(***************************************************************************)
(* Requests and operations of policyengine_observability/runtime.py: the   *)
(* two context variables that hold the active request and the active       *)
(* operation, the scope objects and decorators that open and finish        *)
(* operations, and the context captured for other processes.               *)
(*                                                                         *)
(* A context is a task or a thread.  A task gets a copy of the variables   *)
(* of the task that made it, and so shares its state objects; a plain      *)
(* thread starts with none.  No call of the runtime awaits anything, so    *)
(* the calls of the tasks of an event loop interleave only as wholes: each *)
(* call is a step.                                                         *)
(***************************************************************************)
EXTENDS Naturals, Sequences, FiniteSets, SequencesExt

CONSTANTS Contexts,     \* tasks and threads
          Requests,     \* _RequestState objects
          Operations,   \* _OperationState objects
          Decorators,   \* scope objects applied to functions
          Supplied,     \* valid identifiers that callers send in the header
          Keys,         \* attribute keys
          DispatchKeys, \* config.dispatch_attribute_keys
          Texts,        \* attribute values: strings,
          Numbers,      \* integers and booleans, and
          Floats,       \* finite floats
          Statuses,     \* HTTP status codes
          MaxMessages,  \* bound: number of distinct captured contexts
          None

\* str() of a number, which is a string from then on.
Written(n) == [text |-> n]

Values == Texts \cup Numbers \cup Floats \cup {Written(n) : n \in Numbers}

ASSUME ScopesAssumption ==
    /\ DispatchKeys \subseteq Keys
    /\ Statuses \subseteq Nat
    /\ MaxMessages \in Nat
    /\ None \notin Contexts \cup Requests \cup Operations \cup Supplied \cup Statuses
    /\ None \notin Values

VARIABLES requestState,   \* self._request_state, per context
          operationState, \* self._operation_state, per context
          req,            \* the _RequestState objects
          op,             \* the _OperationState objects
          held,           \* _ScopeManager.state of each scope object
          ctx,            \* the contexts: their open with blocks, and history
          messages        \* the contexts captured so far

vars == <<requestState, operationState, req, op, held, ctx, messages>>

\* The identifier made for a request whose header is missing or malformed is
\* written as the request itself.
RequestIds == Requests \cup Supplied

Attributes == [Keys -> Values \cup {None}]
NoAttributes == [k \in Keys |-> None]

\* A context captured by capture_context.  History: the identifiers of the
\* requests that led to it, the keys restored in the work that captured it, and
\* those that had a float when it was captured.
Message == [rid : RequestIds \cup {None}, attrs : Attributes,
            past : SUBSET RequestIds, restored : SUBSET DispatchKeys,
            floats : SUBSET DispatchKeys]

\* remote_context is absent, or nothing in it is valid.
NoMessage == [rid |-> None, attrs |-> NoAttributes, past |-> {}, restored |-> {},
              floats |-> {}]

Stage == {"unused", "open", "completed"}

\* An exception is named by the context it was raised or recorded in.
\* History: the completion records, and the context that ended the request.
Request == [stage : Stage, ctx : Contexts \cup {None},
            old : Requests \cup {None}, rid : RequestIds \cup {None},
            attrs : Attributes, error : Contexts \cup {None},
            status : Statuses \cup {None},
            log : Seq([outcome : {"success", "client_error", "error"},
                       error : Contexts \cup {None}]),
            ender : Contexts \cup {None}]

Operation == [stage : Stage, ctx : Contexts \cup {None},
              old : Operations \cup {None}, rid : RequestIds \cup {None},
              attrs : Attributes, error : Contexts \cup {None},
              log : Seq(Contexts \cup {None}),
              past : SUBSET RequestIds, restored : SUBSET DispatchKeys]

\* An open with block: its scope object and, as history, the operation it opened.
Frame == [manager : Operations \cup Decorators, op : Operations \cup {None}]

\* The open with blocks of a context, the innermost last.  History: the context
\* it descends from, and what it got from the context that made it.
Context == [alive : BOOLEAN, frames : Seq(Frame), from : SUBSET Contexts,
            request : Requests \cup {None}, operation : Operations \cup {None},
            past : SUBSET RequestIds, restored : SUBSET DispatchKeys]

TypeOK ==
    /\ requestState \in [Contexts -> Requests \cup {None}]
    /\ operationState \in [Contexts -> Operations \cup {None}]
    /\ req \in [Requests -> Request]
    /\ op \in [Operations -> Operation]
    /\ held \in [Operations \cup Decorators -> Operations \cup {None}]
    /\ ctx \in [Contexts -> Context]
    /\ messages \subseteq Message

NewContext(c) ==
    [alive |-> FALSE, frames |-> <<>>, from |-> {c}, request |-> None,
     operation |-> None, past |-> {}, restored |-> {}]

Init ==
    /\ requestState = [c \in Contexts |-> None]
    /\ operationState = [c \in Contexts |-> None]
    /\ req = [r \in Requests |->
                [stage |-> "unused", ctx |-> None, old |-> None, rid |-> None,
                 attrs |-> NoAttributes, error |-> None, status |-> None,
                 log |-> <<>>, ender |-> None]]
    /\ op = [o \in Operations |->
                [stage |-> "unused", ctx |-> None, old |-> None, rid |-> None,
                 attrs |-> NoAttributes, error |-> None, log |-> <<>>,
                 past |-> {}, restored |-> {}]]
    /\ held = [m \in Operations \cup Decorators |-> None]
    /\ \E alive \in SUBSET Contexts :
          ctx = [c \in Contexts |-> [NewContext(c) EXCEPT !.alive = c \in alive]]
    /\ messages = {}

-----------------------------------------------------------------------------
(* What the code computes.                                                 *)

\* A context variable is set in the running context only.
\* Mutant: the variable is an attribute of the runtime, seen by everyone.
AssignForAll(var, c, x) == [d \in Contexts |-> x]
Assign(var, c, x) == [var EXCEPT ![c] = x]

\* ContextVar.reset(token) raises in another context than the one that made the
\* token; the caller reports that and leaves the variable.
\* Mutant: the variable is cleared instead of restored.
ResetToNone(var, c, state) == [var EXCEPT ![c] = None]
Reset(var, c, state) ==
    IF state.ctx = c THEN [var EXCEPT ![c] = state.old] ELSE var

\* {**a, **b}
Merge(a, b) == [k \in Keys |-> IF b[k] = None THEN a[k] ELSE b[k]]
KeysOf(a) == {k \in Keys : a[k] # None}

Dispatched(a) == [k \in Keys |-> IF k \in DispatchKeys THEN a[k] ELSE None]

\* The attributes of the request and of the operation active in a context.
ActiveAttributes(c) ==
    LET r == requestState[c]
        o == operationState[c]
    IN  Merge(IF r = None THEN NoAttributes ELSE req[r].attrs,
              IF o = None THEN NoAttributes ELSE op[o].attrs)

\* Mutant: the active dispatch attributes of local work are not inherited.
NoActiveDispatchAttributes(c) == NoAttributes
ActiveDispatchAttributes(c) == Dispatched(ActiveAttributes(c))

\* What capture_context makes of attributes: an integer is written as text, and a
\* float is left out.
Captured(a) ==
    [k \in Keys |-> IF a[k] \in Floats THEN None
                    ELSE IF a[k] \in Numbers THEN Written(a[k]) ELSE a[k]]
Floating(a) == {k \in DispatchKeys : a[k] \in Floats}

\* The request identifier of records, outgoing headers and captured contexts.
\* Mutant: a missing identifier is written as text.
TextRequestId(c) ==
    LET r == requestState[c]
        o == operationState[c]
    IN  IF r # None THEN req[r].rid
        ELSE IF o # None /\ op[o].rid # None THEN op[o].rid ELSE "None"
ActiveRequestId(c) ==
    LET r == requestState[c]
        o == operationState[c]
    IN  IF r # None THEN req[r].rid ELSE IF o # None THEN op[o].rid ELSE None

Outcome(status, raised) ==
    IF raised \/ (status # None /\ status >= 500) THEN "error"
    ELSE IF status # None /\ status >= 400 THEN "client_error" ELSE "success"

\* The recorded exception that the completion of a request carries if the
\* application raised none: one that was handled does not count.
\* Mutant: the last recorded exception counts whatever the outcome.
AnyRecordedError(state, outcome) == state.error
RecordedError(state, outcome) == IF outcome = "error" THEN state.error ELSE None

\* The scope object that a call of a decorated function enters: a copy made for
\* the operation of that call.
\* Mutant: every call enters the decorator's own scope object.
SharedScope(d, o) == d
ScopeCopy(d, o) == o

\* The early returns of end_request and _finish_operation.
Completed(state) == state.stage = "completed"

\* History: the identifiers of the requests that the work of a context comes
\* from, and the keys restored for it.  A request that another context ended is
\* still the one this context works for.
OwnRequests(c) == {r \in Requests : req[r].ctx = c /\ req[r].ender # c}
OpenOperations(c) == {f.op : f \in ToSet(ctx[c].frames)} \ {None}
Past(c) ==
    ctx[c].past \cup {req[r].rid : r \in OwnRequests(c)}
                \cup UNION {op[o].past : o \in OpenOperations(c)}
Restored(c) ==
    ctx[c].restored \cup UNION {op[o].restored : o \in OpenOperations(c)}

-----------------------------------------------------------------------------
(* Contexts.                                                               *)

\* The application makes a task, or a thread that runs in a copied context.
Copy(c, d) ==
    /\ requestState' = [requestState EXCEPT ![d] = requestState[c]]
    /\ operationState' = [operationState EXCEPT ![d] = operationState[c]]
    /\ ctx' = [ctx EXCEPT ![d] =
                  [@ EXCEPT !.alive = TRUE, !.from = {d} \cup ctx[c].from,
                            !.request = requestState[c],
                            !.operation = operationState[c],
                            !.past = Past(c), !.restored = Restored(c)]]
    /\ UNCHANGED <<req, op, held, messages>>

\* Another process, or a plain thread: the variables have their defaults.
Start(d) ==
    /\ ctx' = [ctx EXCEPT ![d].alive = TRUE]
    /\ UNCHANGED <<requestState, operationState, req, op, held, messages>>

-----------------------------------------------------------------------------
(* Requests.                                                               *)

\* begin_request: the header has a valid identifier, or one is made.
BeginRequest(c, r, rid) ==
    /\ req[r].stage = "unused"
    /\ req' = [req EXCEPT ![r] = [@ EXCEPT !.stage = "open", !.ctx = c,
                                           !.old = requestState[c], !.rid = rid]]
    /\ requestState' = Assign(requestState, c, r)
    /\ UNCHANGED <<operationState, op, held, ctx, messages>>

UpdateRequestStatus(c, status) ==
    LET r == requestState[c]
    IN  /\ r # None
        /\ ~Completed(req[r])
        /\ req' = [req EXCEPT ![r].status = status]
        /\ UNCHANGED <<requestState, operationState, op, held, ctx, messages>>

\* end_request, with the status the adapter knows and whether the application
\* raised; it can run in another context than begin_request.
EndRequest(c, status, raised) ==
    LET r == requestState[c]
        final == IF status # None THEN status ELSE req[r].status
        outcome == Outcome(final, raised)
        error == IF raised THEN c ELSE RecordedError(req[r], outcome)
    IN  /\ r # None
        /\ ~Completed(req[r])
        /\ req' = [req EXCEPT ![r] =
                      [@ EXCEPT !.stage = "completed", !.status = final,
                                !.error = error, !.ender = c,
                                !.log = Append(req[r].log, [outcome |-> outcome,
                                                            error |-> error])]]
        /\ requestState' = Reset(requestState, c, req[r])
        /\ UNCHANGED <<operationState, op, held, ctx, messages>>

-----------------------------------------------------------------------------
(* Operations.                                                             *)

\* _ScopeManager.__enter__ and _start_operation: attributes given by the caller
\* win over those of the remote context, and the active ones over both.
EnterScope(c, o, manager, remote, own) ==
    LET given == Merge(Dispatched(remote.attrs), own)
        r == requestState[c]
    IN  /\ op[o].stage = "unused"
        /\ op' = [op EXCEPT ![o] =
              [@ EXCEPT !.stage = "open", !.ctx = c, !.old = operationState[c],
                        !.rid = IF remote.rid # None THEN remote.rid
                                ELSE IF r # None THEN req[r].rid ELSE None,
                        !.attrs = Merge(given, ActiveDispatchAttributes(c)),
                        !.past = remote.past \cup Past(c),
                        !.restored = KeysOf(remote.attrs) \cup Restored(c)]]
        /\ operationState' = Assign(operationState, c, o)
        /\ held' = [held EXCEPT ![manager] = o]
        /\ ctx' = [ctx EXCEPT ![c].frames =
                      Append(@, [manager |-> manager, op |-> o])]
        /\ UNCHANGED <<requestState, req, messages>>

\* with runtime.operation(name, attributes=..., remote_context=...).  A captured
\* context can be delivered to several workers, and more than once.
EnterOperation(c, o, remote, own) == EnterScope(c, o, o, remote, own)

\* A call of a function decorated with runtime.operation(name).
CallDecorated(c, o, d) ==
    EnterScope(c, o, ScopeCopy(d, o), NoMessage, NoAttributes)

\* _start_operation raises (remote_context is not a mapping): the block runs
\* without an operation.  The operation of this call is never made.
EnterFails(c, o) ==
    /\ op[o].stage = "unused"
    /\ op' = [op EXCEPT ![o].stage = "completed"]
    /\ held' = [held EXCEPT ![o] = None]
    /\ ctx' = [ctx EXCEPT ![c].frames =
                  Append(@, [manager |-> o, op |-> None])]
    /\ UNCHANGED <<requestState, operationState, req, messages>>

\* __exit__ of the innermost block of a context, and _finish_operation.
ExitScope(c, raised) ==
    LET frame == Last(ctx[c].frames)
        o == held[frame.manager]
        error == IF raised THEN c ELSE op[o].error
    IN  /\ ctx[c].frames # <<>>
        /\ ctx' = [ctx EXCEPT ![c].frames = Front(@)]
        /\ IF o = None \/ (o # None /\ Completed(op[o]))
              THEN UNCHANGED <<op, operationState>>
              ELSE /\ op' = [op EXCEPT ![o] =
                                [@ EXCEPT !.stage = "completed", !.error = error,
                                          !.log = Append(op[o].log, error)]]
                   /\ operationState' = Reset(operationState, c, op[o])
        /\ UNCHANGED <<requestState, req, held, messages>>

-----------------------------------------------------------------------------
(* Calls inside requests and operations.                                   *)

\* set_context: the operation if there is one, else the request.
SetContext(c, k, v) ==
    LET r == requestState[c]
        o == operationState[c]
    IN  /\ IF o # None
              THEN /\ op' = [op EXCEPT ![o].attrs[k] = v]
                   /\ UNCHANGED req
              ELSE /\ r # None
                   /\ req' = [req EXCEPT ![r].attrs[k] = v]
                   /\ UNCHANGED op
        /\ UNCHANGED <<requestState, operationState, held, ctx, messages>>

\* record_exception.
RecordException(c, status) ==
    LET r == requestState[c]
        o == operationState[c]
    IN  /\ r # None \/ o # None
        /\ req' = IF r = None THEN req
                  ELSE [req EXCEPT ![r].error = c,
                                   ![r].status = IF status = None THEN @ ELSE status]
        /\ op' = IF o = None THEN op ELSE [op EXCEPT ![o].error = c]
        /\ UNCHANGED <<requestState, operationState, held, ctx, messages>>

\* capture_context.
CaptureContext(c) ==
    /\ messages' = messages \cup
          {[rid |-> ActiveRequestId(c), attrs |-> Captured(Dispatched(ActiveAttributes(c))),
            past |-> Past(c), restored |-> Restored(c),
            floats |-> Floating(ActiveAttributes(c))]}
    /\ Cardinality(messages') <= MaxMessages
    /\ UNCHANGED <<requestState, operationState, req, op, held, ctx>>

-----------------------------------------------------------------------------
Call(c) ==
    \/ \E d \in Contexts : ~ctx[d].alive /\ Copy(c, d)
    \/ \E r \in Requests : \E rid \in Supplied \cup {r} : BeginRequest(c, r, rid)
    \/ \E s \in Statuses : UpdateRequestStatus(c, s)
    \/ \E s \in Statuses \cup {None}, raised \in BOOLEAN : EndRequest(c, s, raised)
    \/ \E o \in Operations, m \in messages \cup {NoMessage}, own \in Attributes :
          EnterOperation(c, o, m, own)
    \/ \E o \in Operations, d \in Decorators : CallDecorated(c, o, d)
    \/ \E o \in Operations : EnterFails(c, o)
    \/ \E raised \in BOOLEAN : ExitScope(c, raised)
    \/ \E k \in Keys, v \in Values : SetContext(c, k, v)
    \/ \E s \in Statuses \cup {None} : RecordException(c, s)
    \/ CaptureContext(c)

Next == \/ \E d \in Contexts : ~ctx[d].alive /\ Start(d)
        \/ \E c \in Contexts : ctx[c].alive /\ Call(c)

Spec == Init /\ [][Next]_vars

-----------------------------------------------------------------------------
(* Properties.                                                             *)

\* Every request and operation has one completion record, however many adapters
\* and contexts try to end it, and an operation is finished exactly when the
\* block that opened it is left, not when another call of the same function is.
CompletedOnce ==
    /\ \A r \in Requests : Len(req[r].log) = (IF req[r].stage = "completed" THEN 1 ELSE 0)
    /\ \A o \in Operations :
          /\ Len(op[o].log) <= 1
          /\ op[o].stage = "open" <=> \E c \in Contexts : o \in OpenOperations(c)

\* The active operation of a context is the innermost one it has open, or the
\* one it was started with: leaving a block restores what was active before.
InnermostActive ==
    \A c \in Contexts :
        LET frames == ctx[c].frames
            open == {i \in 1..Len(frames) : frames[i].op # None}
        IN  /\ open = {} => operationState[c] = ctx[c].operation
            /\ \A i \in open :
                  (\A j \in open : j <= i) => operationState[c] = frames[i].op

\* Nothing a context logs, opens or dispatches carries the identifier of a
\* request it does not work for: not that of a concurrent request, and not that
\* of one it has ended.
NoForeignRequestId ==
    /\ \A c \in Contexts : ActiveRequestId(c) \in Past(c) \cup {None}
    /\ \A o \in Operations : op[o].rid \in op[o].past \cup {None}
    /\ \A m \in messages : m.rid \in m.past \cup {None}

\* A dispatch attribute restored from a captured context is among the attributes of
\* the work it was restored for, nested operations and child tasks included, and in
\* every context that this work captures, unless it was a float by then.
DispatchAttributesSurvive ==
    /\ \A c \in Contexts : Restored(c) \subseteq KeysOf(ActiveAttributes(c))
    /\ \A m \in messages : m.restored \subseteq KeysOf(m.attrs) \cup m.floats

\* README.md:327-331 says that capture_context includes the scalar attributes named
\* by dispatch_attribute_keys, and that restored ones remain available to nested
\* calls of it.  This does not hold of one that has become a float.
RestoredAreCaptured == \A m \in messages : m.restored \subseteq KeysOf(m.attrs)

\* An exception shows in the completion of a request or operation only if it
\* was raised or recorded by the context that opened it or by one made from it,
\* and in that of a request only if its outcome is an error: one that a handler
\* recorded and answered without a server error leaves no trace.
ErrorsStayInFlow ==
    /\ \A r \in Requests : \A i \in 1..Len(req[r].log) :
          LET e == req[r].log[i].error
          IN  e # None => /\ req[r].ctx \in ctx[e].from
                          /\ req[r].log[i].outcome = "error"
    /\ \A o \in Operations : \A i \in 1..Len(op[o].log) :
          LET e == op[o].log[i] IN e # None => op[o].ctx \in ctx[e].from

\* README.md:327 says that a captured context includes the active request
\* identifier.  Work restored from a captured context that led back to a request
\* (recognised by the attributes restored with it) never captures one without.  This
\* does not hold in an operation nested in that of a worker.
CapturedRequestId ==
    \A m \in messages : m.past # {} /\ m.restored # {} => m.rid # None
===============================================================================
