-------------------------- MODULE ContextScopesProofs --------------------------
(***************************************************************************)
(* Proofs about ContextScopes, for any number of contexts, requests and    *)
(* operations.                                                             *)
(*                                                                         *)
(* What is active in a context is at the end of a chain: each request and  *)
(* operation remembers what was active before it, and ending it makes that *)
(* active again.  The proofs rest on the shape of these chains: they lead  *)
(* through requests and operations of the context itself to what the       *)
(* context was given when it was made (RequestChains, OperationChains), no *)
(* two of a context's requests remember the same one, and the operations   *)
(* in a chain are those of the open with blocks, in their order.           *)
(***************************************************************************)
EXTENDS ContextScopes, SequenceTheorems, TLAPS

\* Only attributes under the dispatch keys are captured, all that were restored but
\* for floats among them, and only the identifier of a request that led there.
MessagesInv ==
    \A m \in messages :
        /\ KeysOf(m.attrs) \subseteq DispatchKeys
        /\ m.restored \subseteq KeysOf(m.attrs) \cup m.floats
        /\ m.rid \in m.past \cup {None}

\* A context descends from itself, and has done nothing before it is made.
ContextsInv ==
    \A c \in Contexts :
        /\ c \in ctx[c].from
        /\ ~ctx[c].alive =>
              /\ ctx[c].from = {c}
              /\ ctx[c].frames = <<>>
              /\ \A r \in Requests : req[r].ctx # c

\* The stages of a request.
RequestsInv ==
    \A r \in Requests :
        /\ req[r].stage = "unused" => req[r].ctx = None /\ req[r].error = None
        /\ req[r].stage # "unused" => req[r].ctx \in Contexts /\ req[r].rid # None
        /\ req[r].stage # "completed" => req[r].ender = None
        /\ Len(req[r].log) = (IF req[r].stage = "completed" THEN 1 ELSE 0)

\* The requests that a context has begun and not ended form a chain from the
\* active one to what the context was given.
RequestChains ==
    \A c \in Contexts :
        /\ requestState[c] \in OwnRequests(c) \cup {ctx[c].request}
        /\ \A r \in OwnRequests(c) :
              /\ req[r].old \in OwnRequests(c) \cup {ctx[c].request}
              /\ req[r].old \in OwnRequests(c) =>
                    /\ req[r].old # requestState[c]
                    /\ \A s \in OwnRequests(c) : req[s].old = req[r].old => s = r

RestoredBy(o) == IF o = None THEN {} ELSE op[o].restored

\* What a context was given is known where it comes from.
GivenInv ==
    \A c \in Contexts :
        /\ ctx[c].request # None =>
              /\ req[ctx[c].request].rid \in ctx[c].past
              /\ req[ctx[c].request].ctx \in ctx[c].from
        /\ ctx[c].operation # None =>
              /\ op[ctx[c].operation].stage # "unused"
              /\ op[ctx[c].operation].rid \in ctx[c].past \cup {None}
              /\ op[ctx[c].operation].ctx \in ctx[c].from
        /\ ctx[c].restored \subseteq RestoredBy(ctx[c].operation)

\* The stages of an operation, and what it was made from.
OperationsInv ==
    \A o \in Operations :
        /\ op[o].stage = "unused" => op[o].error = None
        /\ op[o].stage # "completed" => op[o].log = <<>>
        /\ Len(op[o].log) <= 1
        /\ op[o].stage = "open" => \E c \in Contexts : o \in OpenOperations(c)
        /\ op[o].rid \in op[o].past \cup {None}
        /\ op[o].restored \subseteq KeysOf(op[o].attrs)

\* An open block has a scope object of its own, whose operation it finishes.
FramesInv ==
    \A c \in Contexts : \A i \in 1..Len(ctx[c].frames) :
        LET f == ctx[c].frames[i]
        IN  /\ f.manager \in Operations /\ f.op \in {None, f.manager}
            /\ held[f.manager] = f.op
            /\ op[f.manager].stage # "unused"
            /\ f.op # None =>
                  /\ op[f.op].stage = "open" /\ op[f.op].ctx = c
                  /\ \A j \in 1..Len(ctx[c].frames) : ctx[c].frames[j].op = f.op => j = i

\* v is the operation around block i of a list: that of the nearest block before
\* it that has one, or the one that was given.
Around(frames, given, i, v) ==
    \/ /\ v = given
       /\ \A k \in 1..(i - 1) : frames[k].op = None
    \/ /\ v # None
       /\ \E j \in 1..(i - 1) :
             /\ frames[j].op = v
             /\ \A k \in (j + 1)..(i - 1) : frames[k].op = None

OperationChains ==
    \A c \in Contexts :
        LET frames == ctx[c].frames
        IN  /\ Around(frames, ctx[c].operation, Len(frames) + 1, operationState[c])
            /\ \A i \in 1..Len(frames) : frames[i].op # None =>
                  Around(frames, ctx[c].operation, i, op[frames[i].op].old)

\* An operation has all that was restored for those around it.
RestoredInv ==
    \A c \in Contexts :
        LET frames == ctx[c].frames
        IN  \A i \in 1..Len(frames) : frames[i].op # None =>
                /\ ctx[c].restored \subseteq op[frames[i].op].restored
                /\ \A j \in 1..(i - 1) : frames[j].op # None =>
                      op[frames[j].op].restored \subseteq op[frames[i].op].restored

\* The errors that the completions will carry.
ErrorsInv ==
    /\ \A r \in Requests : req[r].error # None => req[r].ctx \in ctx[req[r].error].from
    /\ \A o \in Operations : op[o].error # None => op[o].ctx \in ctx[op[o].error].from

ScopesInv ==
    /\ TypeOK /\ MessagesInv /\ ContextsInv
    /\ RequestsInv /\ RequestChains /\ GivenInv
    /\ OperationsInv /\ FramesInv /\ OperationChains /\ RestoredInv
    /\ ErrorsInv /\ ErrorsStayInFlow
-------------------------------------------------------------------------------
(* Types *)

LEMMA AttributeFacts ==
    /\ NoAttributes \in Attributes
    /\ \A a, b \in Attributes : Merge(a, b) \in Attributes
    /\ \A a \in Attributes : Dispatched(a) \in Attributes
    /\ \A a \in Attributes : KeysOf(Dispatched(a)) \subseteq DispatchKeys
    /\ \A a, b \in Attributes : KeysOf(Merge(a, b)) = KeysOf(a) \cup KeysOf(b)
    /\ \A a \in Attributes : KeysOf(Dispatched(a)) = KeysOf(a) \cap DispatchKeys
    /\ KeysOf(NoAttributes) = {}
  BY DEF NoAttributes, Attributes, Merge, Dispatched, KeysOf

\* Open blocks.
LEMMA FrameFacts ==
    ASSUME NEW s \in Context
    PROVE  /\ s.frames \in Seq(Frame) /\ Len(s.frames) \in Nat
           /\ \A f \in Frame :
                /\ Append(s.frames, f) \in Seq(Frame)
                /\ Len(Append(s.frames, f)) = Len(s.frames) + 1
                /\ Append(s.frames, f)[Len(s.frames) + 1] = f
                /\ \A i \in 1..Len(s.frames) : Append(s.frames, f)[i] = s.frames[i]
           /\ s.frames # <<>> =>
                /\ Len(s.frames) \in Nat \ {0}
                /\ Last(s.frames) = s.frames[Len(s.frames)] /\ Last(s.frames) \in Frame
                /\ Front(s.frames) \in Seq(Frame)
                /\ Len(Front(s.frames)) = Len(s.frames) - 1
                /\ \A i \in 1..(Len(s.frames) - 1) : Front(s.frames)[i] = s.frames[i]
           /\ \A l \in Seq(Frame) :
                /\ [s EXCEPT !.frames = l] \in Context
                /\ [s EXCEPT !.frames = l].frames = l
                /\ [s EXCEPT !.frames = l].alive = s.alive
                /\ [s EXCEPT !.frames = l].from = s.from
                /\ [s EXCEPT !.frames = l].request = s.request
                /\ [s EXCEPT !.frames = l].operation = s.operation
                /\ [s EXCEPT !.frames = l].past = s.past
                /\ [s EXCEPT !.frames = l].restored = s.restored
  <1>1. s.frames \in Seq(Frame) /\ Len(s.frames) \in Nat
    BY LenProperties DEF Context
  <1>2. ASSUME NEW f \in Frame
        PROVE  /\ Append(s.frames, f) \in Seq(Frame)
               /\ Len(Append(s.frames, f)) = Len(s.frames) + 1
               /\ Append(s.frames, f)[Len(s.frames) + 1] = f
               /\ \A i \in 1..Len(s.frames) : Append(s.frames, f)[i] = s.frames[i]
    BY <1>1, AppendProperties
  <1>3. ASSUME s.frames # <<>>
        PROVE  /\ Len(s.frames) \in Nat \ {0}
               /\ Last(s.frames) = s.frames[Len(s.frames)] /\ Last(s.frames) \in Frame
               /\ Front(s.frames) \in Seq(Frame)
               /\ Len(Front(s.frames)) = Len(s.frames) - 1
               /\ \A i \in 1..(Len(s.frames) - 1) : Front(s.frames)[i] = s.frames[i]
    <2>1. Len(s.frames) \in Nat \ {0}
      BY <1>1, <1>3, EmptySeq
    <2>2. Last(s.frames) = s.frames[Len(s.frames)] /\ Last(s.frames) \in Frame
      BY <1>1, <2>1, ElementOfSeq DEF Last
    <2>3. \A i \in 1..(Len(s.frames) - 1) : s.frames[i] \in Frame
      BY <1>1, <2>1, ElementOfSeq
    <2>4. /\ SubSeq(s.frames, 1, Len(s.frames) - 1) \in Seq(Frame)
          /\ Len(SubSeq(s.frames, 1, Len(s.frames) - 1)) = Len(s.frames) - 1
          /\ \A i \in 1..(Len(s.frames) - 1) :
                SubSeq(s.frames, 1, Len(s.frames) - 1)[i] = s.frames[i]
      BY <1>1, <2>1, <2>3, SubSeqProperties
    <2> QED
      BY <2>1, <2>2, <2>4 DEF Front
  <1>4. ASSUME NEW l \in Seq(Frame)
        PROVE  /\ [s EXCEPT !.frames = l] \in Context
               /\ [s EXCEPT !.frames = l].frames = l
               /\ [s EXCEPT !.frames = l].alive = s.alive
               /\ [s EXCEPT !.frames = l].from = s.from
               /\ [s EXCEPT !.frames = l].request = s.request
               /\ [s EXCEPT !.frames = l].operation = s.operation
               /\ [s EXCEPT !.frames = l].past = s.past
               /\ [s EXCEPT !.frames = l].restored = s.restored
    BY <1>4 DEF Context
  <1> QED
    BY <1>1, <1>2, <1>3, <1>4

\* The operations of open blocks.
LEMMA FrameOperations ==
    ASSUME NEW s \in Context
    PROVE  \A o : o \in {f.op : f \in ToSet(s.frames)} \ {None} <=>
                    /\ o # None /\ o \in Operations
                    /\ \E i \in 1..Len(s.frames) : s.frames[i].op = o
  <1>1. s.frames \in Seq(Frame)
    BY FrameFacts
  <1>2. DOMAIN s.frames = 1..Len(s.frames)
    BY <1>1, LenProperties
  <1>3. ASSUME NEW i \in 1..Len(s.frames)
        PROVE  s.frames[i].op \in Operations \cup {None}
    <2>1. s.frames[i] \in Frame
      BY <1>1, ElementOfSeq
    <2> QED
      BY <2>1 DEF Frame
  <1> QED
    BY <1>2, <1>3 DEF ToSet

LEMMA OpenFacts ==
    ASSUME NEW c \in Contexts, ctx[c] \in Context
    PROVE  /\ OpenOperations(c) \subseteq Operations
           /\ \A o : o \in OpenOperations(c) <=>
                o # None /\ \E i \in 1..Len(ctx[c].frames) : ctx[c].frames[i].op = o
  <1>1. ctx[c].frames \in Seq(Frame)
    BY FrameFacts
  <1>2. ASSUME NEW i \in 1..Len(ctx[c].frames)
        PROVE  ctx[c].frames[i].op \in Operations \cup {None}
    <2>1. ctx[c].frames[i] \in Frame
      BY <1>1, ElementOfSeq
    <2> QED
      BY <2>1 DEF Frame
  <1>3. \A o : o \in OpenOperations(c) <=>
                 /\ o # None /\ o \in Operations
                 /\ \E i \in 1..Len(ctx[c].frames) : ctx[c].frames[i].op = o
    BY FrameOperations DEF OpenOperations
  <1> QED
    BY <1>2, <1>3

\* What a context has active, computes and remembers.
LEMMA ActiveFacts ==
    ASSUME TypeOK, RequestsInv, NEW c \in Contexts
    PROVE  /\ requestState[c] \in Requests \cup {None}
           /\ operationState[c] \in Operations \cup {None}
           /\ ActiveAttributes(c) \in Attributes
           /\ ActiveDispatchAttributes(c) \in Attributes
           /\ ActiveRequestId(c) \in RequestIds \cup {None}
           /\ Past(c) \in SUBSET RequestIds
           /\ Restored(c) \in SUBSET DispatchKeys
  <1>1. requestState[c] \in Requests \cup {None} /\ operationState[c] \in Operations \cup {None}
    BY DEF TypeOK
  <1>2. /\ \A r \in Requests : req[r] \in Request
        /\ \A o \in Operations : op[o] \in Operation
        /\ ctx[c] \in Context
    BY DEF TypeOK
  <1>3. ActiveAttributes(c) \in Attributes
    <2>1. (IF requestState[c] = None THEN NoAttributes ELSE req[requestState[c]].attrs) \in Attributes
      BY <1>1, <1>2, AttributeFacts DEF Request
    <2>2. (IF operationState[c] = None THEN NoAttributes ELSE op[operationState[c]].attrs) \in Attributes
      BY <1>1, <1>2, AttributeFacts DEF Operation
    <2> QED
      BY <2>1, <2>2, AttributeFacts DEF ActiveAttributes
  <1>4. ActiveDispatchAttributes(c) \in Attributes
    BY <1>3, AttributeFacts DEF ActiveDispatchAttributes
  <1>5. ActiveRequestId(c) \in RequestIds \cup {None}
    BY <1>1, <1>2 DEF ActiveRequestId, Request, Operation
  <1>6. \A o \in OpenOperations(c) : o \in Operations
    BY <1>2, OpenFacts
  <1>7. Past(c) \in SUBSET RequestIds
    <2>1. ctx[c].past \subseteq RequestIds
      BY <1>2 DEF Context
    <2>2. \A r \in OwnRequests(c) : req[r].ctx = c /\ r \in Requests
      BY DEF OwnRequests
    <2>3. \A r \in OwnRequests(c) : req[r].rid \in RequestIds
      BY <1>2, <2>2, ScopesAssumption DEF Request, RequestsInv
    <2>4. \A o \in OpenOperations(c) : op[o].past \subseteq RequestIds
      BY <1>2, <1>6 DEF Operation
    <2> QED
      BY <2>1, <2>3, <2>4 DEF Past
  <1>8. Restored(c) \in SUBSET DispatchKeys
    BY <1>2, <1>6 DEF Restored, Context, Operation
  <1> QED
    BY <1>1, <1>3, <1>4, <1>5, <1>7, <1>8
-------------------------------------------------------------------------------
(* What the actions do *)

LEMMA CopyFacts ==
    ASSUME TypeOK, RequestsInv, NEW c \in Contexts, NEW d \in Contexts, Copy(c, d)
    PROVE  /\ TypeOK'
           /\ UNCHANGED <<req, op, held, messages>>
           /\ requestState'[d] = requestState[c] /\ operationState'[d] = operationState[c]
           /\ ctx'[d].alive /\ ctx'[d].frames = ctx[d].frames
           /\ ctx'[d].from = {d} \cup ctx[c].from
           /\ ctx'[d].request = requestState[c] /\ ctx'[d].operation = operationState[c]
           /\ ctx'[d].past = Past(c) /\ ctx'[d].restored = Restored(c)
           /\ \A e \in Contexts \ {d} :
                 /\ requestState'[e] = requestState[e]
                 /\ operationState'[e] = operationState[e]
                 /\ ctx'[e] = ctx[e]
  <1> DEFINE n == [ctx[d] EXCEPT !.alive = TRUE, !.from = {d} \cup ctx[c].from,
                                 !.request = requestState[c], !.operation = operationState[c],
                                 !.past = Past(c), !.restored = Restored(c)]
  <1>1. /\ requestState' = [requestState EXCEPT ![d] = requestState[c]]
        /\ operationState' = [operationState EXCEPT ![d] = operationState[c]]
        /\ ctx' = [ctx EXCEPT ![d] = n]
        /\ UNCHANGED <<req, op, held, messages>>
    BY DEF Copy, TypeOK
  <1>2. {d} \cup ctx[c].from \in SUBSET Contexts /\ ctx[d] \in Context
    BY DEF TypeOK, Context
  <1>3. /\ n \in Context
        /\ n.alive /\ n.from = {d} \cup ctx[c].from /\ n.request = requestState[c]
        /\ n.operation = operationState[c] /\ n.past = Past(c) /\ n.restored = Restored(c)
        /\ n.frames = ctx[d].frames
    BY <1>2, ActiveFacts DEF Context
  <1> HIDE DEF n
  <1>4. TypeOK'
    BY <1>1, <1>3, ActiveFacts DEF TypeOK
  <1> QED
    BY <1>1, <1>3, <1>4 DEF TypeOK

LEMMA StartFacts ==
    ASSUME TypeOK, NEW d \in Contexts, Start(d)
    PROVE  /\ TypeOK'
           /\ UNCHANGED <<requestState, operationState, req, op, held, messages>>
           /\ ctx'[d].frames = ctx[d].frames /\ ctx'[d].from = ctx[d].from
           /\ ctx'[d].request = ctx[d].request /\ ctx'[d].operation = ctx[d].operation
           /\ ctx'[d].past = ctx[d].past /\ ctx'[d].restored = ctx[d].restored
           /\ ctx'[d].alive
           /\ \A e \in Contexts \ {d} : ctx'[e] = ctx[e]
  <1> DEFINE n == [ctx[d] EXCEPT !.alive = TRUE]
  <1>1. /\ ctx' = [ctx EXCEPT ![d] = n]
        /\ UNCHANGED <<requestState, operationState, req, op, held, messages>>
    BY DEF Start, TypeOK
  <1>2. ctx[d] \in Context
    BY DEF TypeOK
  <1>3. /\ n \in Context
        /\ n.alive /\ n.from = ctx[d].from /\ n.request = ctx[d].request
        /\ n.operation = ctx[d].operation /\ n.past = ctx[d].past
        /\ n.restored = ctx[d].restored /\ n.frames = ctx[d].frames
    BY <1>2 DEF Context
  <1> HIDE DEF n
  <1>4. TypeOK'
    BY <1>1, <1>3 DEF TypeOK
  <1> QED
    BY <1>1, <1>3, <1>4 DEF TypeOK

LEMMA BeginRequestFacts ==
    ASSUME TypeOK, NEW c \in Contexts, NEW r \in Requests, NEW rid \in Supplied \cup {r},
           BeginRequest(c, r, rid)
    PROVE  /\ TypeOK'
           /\ UNCHANGED <<operationState, op, held, ctx, messages>>
           /\ req[r].stage = "unused"
           /\ req'[r].stage = "open" /\ req'[r].ctx = c /\ req'[r].old = requestState[c]
           /\ req'[r].rid = rid /\ req'[r].rid # None
           /\ req'[r].error = req[r].error /\ req'[r].log = req[r].log
           /\ req'[r].ender = req[r].ender
           /\ \A s \in Requests \ {r} : req'[s] = req[s]
           /\ requestState'[c] = r
           /\ \A d \in Contexts \ {c} : requestState'[d] = requestState[d]
  <1> DEFINE n == [req[r] EXCEPT !.stage = "open", !.ctx = c,
                                 !.old = requestState[c], !.rid = rid]
  <1>1. /\ req' = [req EXCEPT ![r] = n] /\ req[r].stage = "unused"
        /\ requestState' = [requestState EXCEPT ![c] = r]
        /\ UNCHANGED <<operationState, op, held, ctx, messages>>
    BY DEF BeginRequest, TypeOK, Assign
  <1>2. /\ req[r] \in Request /\ rid \in RequestIds /\ rid # None
        /\ requestState[c] \in Requests \cup {None}
    BY ScopesAssumption DEF TypeOK, RequestIds
  <1>3. /\ n \in Request
        /\ n.stage = "open" /\ n.ctx = c /\ n.old = requestState[c] /\ n.rid = rid
        /\ n.error = req[r].error /\ n.log = req[r].log /\ n.ender = req[r].ender
    BY <1>2 DEF Request, Stage
  <1> HIDE DEF n
  <1>4. TypeOK'
    BY <1>1, <1>3 DEF TypeOK
  <1> QED
    BY <1>1, <1>2, <1>3, <1>4 DEF TypeOK

\* A step that leaves all of a request but its attributes, and perhaps its status
\* and its last error, as it was.
SameRequest(r) ==
    /\ req'[r].stage = req[r].stage /\ req'[r].ctx = req[r].ctx
    /\ req'[r].old = req[r].old /\ req'[r].rid = req[r].rid
    /\ req'[r].log = req[r].log /\ req'[r].ender = req[r].ender

LEMMA UpdateRequestStatusFacts ==
    ASSUME TypeOK, NEW c \in Contexts, NEW status \in Statuses,
           UpdateRequestStatus(c, status)
    PROVE  /\ TypeOK'
           /\ UNCHANGED <<requestState, operationState, op, held, ctx, messages>>
           /\ \A r \in Requests : SameRequest(r) /\ req'[r].error = req[r].error
  <1> DEFINE r == requestState[c]
             n == [req[r] EXCEPT !.status = status]
  <1>1. /\ r \in Requests /\ req' = [req EXCEPT ![r] = n]
        /\ UNCHANGED <<requestState, operationState, op, held, ctx, messages>>
    BY DEF UpdateRequestStatus, TypeOK
  <1>2. /\ n \in Request
        /\ n.stage = req[r].stage /\ n.ctx = req[r].ctx /\ n.old = req[r].old
        /\ n.rid = req[r].rid /\ n.error = req[r].error /\ n.log = req[r].log
        /\ n.ender = req[r].ender
    BY <1>1, ZenonT(60) DEF TypeOK, Request
  <1> HIDE DEF n, r
  <1>3. TypeOK'
    BY <1>1, <1>2 DEF TypeOK
  <1> QED
    BY <1>1, <1>2, <1>3 DEF TypeOK, SameRequest

LEMMA OutcomeFacts ==
    \A status, raised : /\ Outcome(status, raised) \in {"success", "client_error", "error"}
                        /\ raised => Outcome(status, raised) = "error"
  BY DEF Outcome

\* A context ends a request.
Ended(r, c, outcome, error) ==
    /\ TypeOK'
    /\ UNCHANGED <<operationState, op, held, ctx, messages>>
    /\ r \in Requests /\ req[r].stage # "completed"
    /\ error \in {None, c, req[r].error} /\ (error # None => outcome = "error")
    /\ req'[r].stage = "completed" /\ req'[r].ender = c
    /\ req'[r].error = error
    /\ req'[r].log = Append(req[r].log, [outcome |-> outcome, error |-> error])
    /\ req'[r].ctx = req[r].ctx /\ req'[r].old = req[r].old
    /\ req'[r].rid = req[r].rid
    /\ \A s \in Requests \ {r} : req'[s] = req[s]
    /\ requestState'[c] = IF req[r].ctx = c THEN req[r].old ELSE requestState[c]
    /\ \A d \in Contexts \ {c} : requestState'[d] = requestState[d]

LEMMA EndRequestFacts ==
    ASSUME TypeOK, NEW c \in Contexts, NEW status \in Statuses \cup {None},
           NEW raised \in BOOLEAN, EndRequest(c, status, raised)
    PROVE  \E outcome \in {"success", "client_error", "error"},
              error \in Contexts \cup {None} : Ended(requestState[c], c, outcome, error)
  <1> DEFINE r == requestState[c]
             final == IF status # None THEN status ELSE req[r].status
             outcome == Outcome(final, raised)
             error == IF raised THEN c ELSE RecordedError(req[r], outcome)
             n == [req[r] EXCEPT !.stage = "completed", !.status = final,
                                 !.error = error, !.ender = c,
                                 !.log = Append(req[r].log, [outcome |-> outcome, error |-> error])]
  <1>1. /\ r # None /\ ~Completed(req[r])
        /\ req' = [req EXCEPT ![r] = n]
        /\ requestState' = Reset(requestState, c, req[r])
        /\ UNCHANGED <<operationState, op, held, ctx, messages>>
    <2>1. r # None /\ ~Completed(req[r])
      BY DEF EndRequest
    <2>2. req' = [req EXCEPT ![r] = n]
      BY DEF EndRequest
    <2>3. requestState' = Reset(requestState, c, req[r])
      BY DEF EndRequest
    <2>4. UNCHANGED <<operationState, op, held, ctx, messages>>
      BY DEF EndRequest
    <2> QED
      BY <2>1, <2>2, <2>3, <2>4
  <1>2. /\ r \in Requests /\ req[r].stage # "completed" /\ req[r] \in Request
        /\ requestState' = IF req[r].ctx = c THEN [requestState EXCEPT ![c] = req[r].old]
                           ELSE requestState
    BY <1>1 DEF TypeOK, Completed, Reset
  <1>3. /\ outcome \in {"success", "client_error", "error"}
        /\ raised => outcome = "error"
    BY OutcomeFacts
  <1>4. final \in Statuses \cup {None}
    BY <1>2 DEF Request
  <1> HIDE DEF final, outcome
  <1>5. /\ error \in Contexts \cup {None} /\ error \in {None, c, req[r].error}
        /\ error # None => outcome = "error"
    BY <1>2, <1>3 DEF RecordedError, Request
  <1> HIDE DEF error
  <1>6. /\ n \in Request
        /\ n.stage = "completed" /\ n.ender = c /\ n.error = error
        /\ n.log = Append(req[r].log, [outcome |-> outcome, error |-> error])
        /\ n.ctx = req[r].ctx /\ n.old = req[r].old /\ n.rid = req[r].rid
    <2>1. Append(req[r].log, [outcome |-> outcome, error |-> error]) \in
             Seq([outcome : {"success", "client_error", "error"},
                  error : Contexts \cup {None}])
      BY <1>2, <1>3, <1>5, AppendProperties DEF Request
    <2> QED
      BY <1>2, <1>4, <1>5, <2>1, ZenonT(60) DEF Request, Stage
  <1> HIDE DEF n
  <1>7. req[r].old \in Requests \cup {None}
    BY <1>2 DEF Request
  <1>8. TypeOK'
    BY <1>1, <1>2, <1>6, <1>7 DEF TypeOK
  <1>9. /\ requestState'[c] = IF req[r].ctx = c THEN req[r].old ELSE requestState[c]
        /\ \A d \in Contexts \ {c} : requestState'[d] = requestState[d]
    BY <1>2 DEF TypeOK
  <1>10. req'[r] = n /\ \A s \in Requests \ {r} : req'[s] = req[s]
    BY <1>1, <1>2 DEF TypeOK
  <1>11. Ended(r, c, outcome, error)
    BY <1>1, <1>2, <1>5, <1>6, <1>8, <1>9, <1>10 DEF Ended
  <1> QED
    BY <1>3, <1>5, <1>11

\* An operation is entered with a scope object of its own.
Entered(c, o, remote) ==
    /\ TypeOK'
    /\ UNCHANGED <<requestState, req, messages>>
    /\ op[o].stage = "unused"
    /\ op'[o].stage = "open" /\ op'[o].ctx = c /\ op'[o].old = operationState[c]
    /\ op'[o].rid = IF remote.rid # None THEN remote.rid
                    ELSE IF requestState[c] # None THEN req[requestState[c]].rid
                    ELSE None
    /\ op'[o].past = remote.past \cup Past(c)
    /\ op'[o].restored = KeysOf(remote.attrs) \cup Restored(c)
    /\ KeysOf(remote.attrs) \cup (KeysOf(ActiveAttributes(c)) \cap DispatchKeys)
          \subseteq KeysOf(op'[o].attrs)
    /\ op'[o].error = op[o].error /\ op'[o].log = op[o].log
    /\ \A p \in Operations \ {o} : op'[p] = op[p]
    /\ operationState'[c] = o
    /\ \A d \in Contexts \ {c} : operationState'[d] = operationState[d]
    /\ held'[o] = o /\ \A m \in Operations \ {o} : held'[m] = held[m]
    /\ ctx' = [ctx EXCEPT ![c].frames = Append(@, [manager |-> o, op |-> o])]

LEMMA EnterScopeFacts ==
    ASSUME TypeOK, RequestsInv, MessagesInv, NEW c \in Contexts, NEW o \in Operations,
           NEW remote \in messages \cup {NoMessage}, NEW own \in Attributes,
           EnterScope(c, o, o, remote, own)
    PROVE  Entered(c, o, remote)
  <1> DEFINE r == requestState[c]
             rid == IF remote.rid # None THEN remote.rid
                    ELSE IF r # None THEN req[r].rid ELSE None
             given == Merge(Dispatched(remote.attrs), own)
             attrs == Merge(given, ActiveDispatchAttributes(c))
             past == remote.past \cup Past(c)
             restored == KeysOf(remote.attrs) \cup Restored(c)
             n == [op[o] EXCEPT !.stage = "open", !.ctx = c, !.old = operationState[c],
                                !.rid = rid, !.attrs = attrs, !.past = past,
                                !.restored = restored]
  <1>1. op[o].stage = "unused" /\ op' = [op EXCEPT ![o] = n]
    BY DEF EnterScope
  <1>2. /\ operationState' = [operationState EXCEPT ![c] = o]
        /\ held' = [held EXCEPT ![o] = o]
        /\ ctx' = [ctx EXCEPT ![c].frames = Append(@, [manager |-> o, op |-> o])]
        /\ UNCHANGED <<requestState, req, messages>>
    BY DEF EnterScope, Assign
  <1>3. /\ remote.rid \in RequestIds \cup {None} /\ remote.attrs \in Attributes
        /\ remote.past \in SUBSET RequestIds /\ KeysOf(remote.attrs) \subseteq DispatchKeys
    <2>1. CASE remote \in messages
      BY <2>1 DEF TypeOK, Message, MessagesInv
    <2>2. CASE remote = NoMessage
      BY <2>2, AttributeFacts DEF NoMessage
    <2> QED
      BY <2>1, <2>2
  <1>4. /\ op[o] \in Operation /\ operationState[c] \in Operations \cup {None}
        /\ (r # None => req[r] \in Request) /\ ctx[c] \in Context
    BY DEF TypeOK
  <1>5. /\ attrs \in Attributes
        /\ KeysOf(remote.attrs) \cup (KeysOf(ActiveAttributes(c)) \cap DispatchKeys)
              \subseteq KeysOf(attrs)
    <2>1. /\ given \in Attributes /\ Dispatched(remote.attrs) \in Attributes
          /\ ActiveAttributes(c) \in Attributes
          /\ ActiveDispatchAttributes(c) = Dispatched(ActiveAttributes(c))
          /\ ActiveDispatchAttributes(c) \in Attributes
      BY <1>3, ActiveFacts, AttributeFacts DEF ActiveDispatchAttributes
    <2>2. KeysOf(given) = KeysOf(Dispatched(remote.attrs)) \cup KeysOf(own)
      BY <2>1, AttributeFacts
    <2>3. KeysOf(attrs) = KeysOf(given) \cup KeysOf(ActiveDispatchAttributes(c))
      BY <2>1, AttributeFacts
    <2>4. KeysOf(Dispatched(remote.attrs)) = KeysOf(remote.attrs)
      BY <1>3, AttributeFacts
    <2>5. KeysOf(ActiveDispatchAttributes(c)) = KeysOf(ActiveAttributes(c)) \cap DispatchKeys
      BY <2>1, AttributeFacts
    <2>6. attrs \in Attributes
      BY <2>1, AttributeFacts
    <2> QED
      BY <2>2, <2>3, <2>4, <2>5, <2>6
  <1>6. rid \in RequestIds \cup {None}
    BY <1>3, <1>4 DEF Request
  <1>7. past \in SUBSET RequestIds /\ restored \in SUBSET DispatchKeys
    BY <1>3, ActiveFacts
  <1> HIDE DEF rid, attrs, past, restored
  <1>8. /\ n \in Operation
        /\ n.stage = "open" /\ n.ctx = c /\ n.old = operationState[c] /\ n.rid = rid
        /\ n.attrs = attrs /\ n.past = past /\ n.restored = restored
        /\ n.error = op[o].error /\ n.log = op[o].log
    BY <1>4, <1>5, <1>6, <1>7 DEF Operation, Stage
  <1> HIDE DEF n
  <1>9. op'[o] = n /\ \A p \in Operations \ {o} : op'[p] = op[p]
    BY <1>1 DEF TypeOK
  <1>10. /\ operationState'[c] = o
         /\ \A d \in Contexts \ {c} : operationState'[d] = operationState[d]
         /\ held'[o] = o /\ \A m \in Operations \ {o} : held'[m] = held[m]
    BY <1>2 DEF TypeOK
  <1>11. ctx' \in [Contexts -> Context]
    <2>1. [manager |-> o, op |-> o] \in Frame
      BY DEF Frame
    <2>2. Append(ctx[c].frames, [manager |-> o, op |-> o]) \in Seq(Frame)
      BY <1>4, <2>1, FrameFacts
    <2>3. [ctx[c] EXCEPT !.frames = Append(ctx[c].frames, [manager |-> o, op |-> o])] \in Context
      BY <1>4, <2>2, FrameFacts
    <2>4. ctx' = [ctx EXCEPT ![c] =
                     [ctx[c] EXCEPT !.frames = Append(ctx[c].frames, [manager |-> o, op |-> o])]]
      BY <1>2 DEF TypeOK
    <2> QED
      BY <2>3, <2>4 DEF TypeOK
  <1>12. TypeOK'
    BY <1>1, <1>2, <1>8, <1>11 DEF TypeOK
  <1>13. op'[o].rid = IF remote.rid # None THEN remote.rid
                      ELSE IF requestState[c] # None THEN req[requestState[c]].rid ELSE None
    BY <1>8, <1>9 DEF rid
  <1> QED
    <2>1. /\ op'[o].past = remote.past \cup Past(c)
          /\ op'[o].restored = KeysOf(remote.attrs) \cup Restored(c)
      BY <1>8, <1>9 DEF past, restored
    <2> QED
      BY <1>1, <1>2, <1>5, <1>8, <1>9, <1>10, <1>12, <1>13, <2>1 DEF Entered

LEMMA EnterFailsFacts ==
    ASSUME TypeOK, NEW c \in Contexts, NEW o \in Operations, EnterFails(c, o)
    PROVE  /\ TypeOK'
           /\ UNCHANGED <<requestState, operationState, req, messages>>
           /\ op[o].stage = "unused" /\ op'[o].stage = "completed"
           /\ op'[o].ctx = op[o].ctx /\ op'[o].old = op[o].old /\ op'[o].rid = op[o].rid
           /\ op'[o].attrs = op[o].attrs /\ op'[o].past = op[o].past
           /\ op'[o].restored = op[o].restored
           /\ op'[o].error = op[o].error /\ op'[o].log = op[o].log
           /\ \A p \in Operations \ {o} : op'[p] = op[p]
           /\ held'[o] = None /\ \A m \in Operations \ {o} : held'[m] = held[m]
           /\ ctx' = [ctx EXCEPT ![c].frames = Append(@, [manager |-> o, op |-> None])]
  <1> DEFINE n == [op[o] EXCEPT !.stage = "completed"]
  <1>1. /\ op[o].stage = "unused" /\ op' = [op EXCEPT ![o] = n]
        /\ held' = [held EXCEPT ![o] = None]
        /\ ctx' = [ctx EXCEPT ![c].frames = Append(@, [manager |-> o, op |-> None])]
        /\ UNCHANGED <<requestState, operationState, req, messages>>
    BY DEF EnterFails, TypeOK
  <1>2. op[o] \in Operation /\ ctx[c] \in Context
    BY DEF TypeOK
  <1>3. /\ n \in Operation
        /\ n.stage = "completed" /\ n.ctx = op[o].ctx /\ n.old = op[o].old
        /\ n.rid = op[o].rid /\ n.attrs = op[o].attrs /\ n.past = op[o].past
        /\ n.restored = op[o].restored /\ n.error = op[o].error /\ n.log = op[o].log
    BY <1>2 DEF Operation, Stage
  <1> HIDE DEF n
  <1>4. ctx' \in [Contexts -> Context]
    <2>1. [manager |-> o, op |-> None] \in Frame
      BY DEF Frame
    <2>2. Append(ctx[c].frames, [manager |-> o, op |-> None]) \in Seq(Frame)
      BY <1>2, <2>1, FrameFacts
    <2>3. [ctx[c] EXCEPT !.frames = Append(ctx[c].frames, [manager |-> o, op |-> None])]
             \in Context
      BY <1>2, <2>2, FrameFacts
    <2>4. ctx' = [ctx EXCEPT ![c] =
             [ctx[c] EXCEPT !.frames = Append(ctx[c].frames, [manager |-> o, op |-> None])]]
      BY <1>1 DEF TypeOK
    <2> QED
      BY <2>3, <2>4 DEF TypeOK
  <1>5. op'[o] = n /\ \A p \in Operations \ {o} : op'[p] = op[p]
    BY <1>1 DEF TypeOK
  <1>6. held'[o] = None /\ \A m \in Operations \ {o} : held'[m] = held[m]
    BY <1>1 DEF TypeOK
  <1>7. TypeOK'
    BY <1>1, <1>3, <1>4 DEF TypeOK
  <1> QED
    BY <1>1, <1>3, <1>5, <1>6, <1>7

\* A context leaves its innermost block, whose scope object holds o.
Left(o, c, error) ==
    /\ TypeOK'
    /\ UNCHANGED <<requestState, req, held, messages>>
    /\ ctx[c].frames # <<>> /\ ctx' = [ctx EXCEPT ![c].frames = Front(@)]
    /\ o \in Operations \cup {None}
    /\ o # None => error \in {c, op[o].error}
    /\ IF o = None \/ op[o].stage = "completed" THEN UNCHANGED <<op, operationState>>
       ELSE /\ op'[o].stage = "completed" /\ op'[o].error = error
            /\ op'[o].log = Append(op[o].log, error)
            /\ op'[o].ctx = op[o].ctx /\ op'[o].old = op[o].old
            /\ op'[o].rid = op[o].rid /\ op'[o].attrs = op[o].attrs
            /\ op'[o].past = op[o].past /\ op'[o].restored = op[o].restored
            /\ \A p \in Operations \ {o} : op'[p] = op[p]
            /\ operationState'[c] = IF op[o].ctx = c THEN op[o].old ELSE operationState[c]
            /\ \A d \in Contexts \ {c} : operationState'[d] = operationState[d]

LEMMA ExitScopeFacts ==
    ASSUME TypeOK, NEW c \in Contexts, NEW raised \in BOOLEAN, ExitScope(c, raised)
    PROVE  \E error \in Contexts \cup {None} :
              Left(held[Last(ctx[c].frames).manager], c, error)
  <1> DEFINE frame == Last(ctx[c].frames)
             o == held[frame.manager]
             error == IF raised THEN c ELSE op[o].error
             n == [op[o] EXCEPT !.stage = "completed", !.error = error,
                                !.log = Append(op[o].log, error)]
  <1>1. /\ ctx[c].frames # <<>> /\ ctx' = [ctx EXCEPT ![c].frames = Front(@)]
        /\ UNCHANGED <<requestState, req, held, messages>>
    BY SMTT(60) DEF ExitScope
  <1>2. IF o = None \/ op[o].stage = "completed" THEN UNCHANGED <<op, operationState>>
        ELSE op' = [op EXCEPT ![o] = n] /\ operationState' = Reset(operationState, c, op[o])
    BY DEF ExitScope, Completed
  <1>3. ctx[c] \in Context /\ frame.manager \in Operations \cup Decorators
    <2>1. ctx[c] \in Context
      BY DEF TypeOK
    <2>2. frame \in Frame
      BY <1>1, <2>1, FrameFacts
    <2> QED
      BY <2>1, <2>2 DEF Frame
  <1>4. o \in Operations \cup {None}
    BY <1>3 DEF TypeOK
  <1>5. ctx' \in [Contexts -> Context]
    <2>1. [ctx[c] EXCEPT !.frames = Front(ctx[c].frames)] \in Context
      BY <1>1, <1>3, FrameFacts
    <2>2. ctx' = [ctx EXCEPT ![c] = [ctx[c] EXCEPT !.frames = Front(ctx[c].frames)]]
      BY <1>1 DEF TypeOK
    <2> QED
      BY <2>1, <2>2 DEF TypeOK
  <1>9. held[Last(ctx[c].frames).manager] = o
    OBVIOUS
  <1> HIDE DEF o
  <1>6. CASE o = None
    <2>1. TypeOK'
      BY <1>1, <1>2, <1>5, <1>6 DEF TypeOK
    <2>2. Left(o, c, None)
      BY <1>1, <1>2, <1>4, <1>6, <2>1 DEF Left
    <2> QED
      BY <1>9, <2>2
  <1>7. CASE o \in Operations /\ op[o].stage = "completed"
    <2>1. TypeOK' /\ op[o].error \in Contexts \cup {None}
      <3>1. op[o] \in Operation
        BY <1>7 DEF TypeOK
      <3> QED
        BY <1>1, <1>2, <1>5, <1>7, <3>1 DEF TypeOK, Operation
    <2>2. Left(o, c, op[o].error)
      BY <1>1, <1>2, <1>4, <1>7, <2>1 DEF Left
    <2> QED
      BY <1>9, <2>1, <2>2
  <1>8. CASE o \in Operations /\ op[o].stage # "completed"
    <2>1. op[o] \in Operation /\ o # None
      BY <1>8, ScopesAssumption DEF TypeOK
    <2>2. error \in Contexts \cup {None} /\ error \in {c, op[o].error}
      BY <2>1 DEF Operation
    <2> HIDE DEF error
    <2>3. Append(op[o].log, error) \in Seq(Contexts \cup {None})
      BY <2>1, <2>2, AppendProperties DEF Operation
    <2>4. /\ n \in Operation
          /\ n.stage = "completed" /\ n.error = error /\ n.log = Append(op[o].log, error)
          /\ n.ctx = op[o].ctx /\ n.old = op[o].old /\ n.rid = op[o].rid
          /\ n.attrs = op[o].attrs /\ n.past = op[o].past /\ n.restored = op[o].restored
      BY <2>1, <2>2, <2>3 DEF Operation, Stage
    <2>5. op' = [op EXCEPT ![o] = n] /\ operationState' = Reset(operationState, c, op[o])
      BY <1>2, <1>8, <2>1
    <2> HIDE DEF n
    <2>6. op'[o] = n /\ \A p \in Operations \ {o} : op'[p] = op[p]
      BY <1>8, <2>5 DEF TypeOK
    <2>7. op[o].old \in Operations \cup {None}
      BY <2>1 DEF Operation
    <2>8. /\ operationState' \in [Contexts -> Operations \cup {None}]
          /\ operationState'[c] = IF op[o].ctx = c THEN op[o].old ELSE operationState[c]
          /\ \A d \in Contexts \ {c} : operationState'[d] = operationState[d]
      BY <2>5, <2>7 DEF TypeOK, Reset
    <2>9. TypeOK'
      BY <1>1, <1>5, <1>8, <2>4, <2>5, <2>8 DEF TypeOK
    <2> HIDE DEF frame
    <2>10. Left(o, c, error)
      BY <1>1, <1>4, <1>8, <2>1, <2>2, <2>4, <2>6, <2>8, <2>9 DEF Left
    <2> QED
      BY <1>9, <2>2, <2>10
  <1> QED
    BY <1>4, <1>6, <1>7, <1>8, SMTT(60)

\* A step that leaves all of an operation but its attributes and its last error.
SameOperation(o) ==
    /\ op'[o].stage = op[o].stage /\ op'[o].ctx = op[o].ctx
    /\ op'[o].old = op[o].old /\ op'[o].rid = op[o].rid
    /\ op'[o].log = op[o].log /\ op'[o].past = op[o].past
    /\ op'[o].restored = op[o].restored

LEMMA SetContextFacts ==
    ASSUME TypeOK, NEW c \in Contexts, NEW k \in Keys, NEW v \in Values, SetContext(c, k, v)
    PROVE  /\ TypeOK'
           /\ UNCHANGED <<requestState, operationState, held, ctx, messages>>
           /\ \A r \in Requests : SameRequest(r) /\ req'[r].error = req[r].error
           /\ \A o \in Operations :
                 /\ SameOperation(o) /\ op'[o].error = op[o].error
                 /\ KeysOf(op[o].attrs) \subseteq KeysOf(op'[o].attrs)
  <1>1. UNCHANGED <<requestState, operationState, held, ctx, messages>>
    BY DEF SetContext
  <1>2. \A a \in Attributes : /\ [a EXCEPT ![k] = v] \in Attributes
                              /\ KeysOf(a) \subseteq KeysOf([a EXCEPT ![k] = v])
    BY ScopesAssumption DEF Attributes, KeysOf
  <1>3. CASE operationState[c] # None
    <2> DEFINE o == operationState[c]
               n == [op[o] EXCEPT !.attrs = [op[o].attrs EXCEPT ![k] = v]]
    <2>1. op' = [op EXCEPT ![o].attrs[k] = v] /\ UNCHANGED req
      BY <1>3 DEF SetContext
    <2>2. o \in Operations /\ op[o] \in Operation
      BY <1>3 DEF TypeOK
    <2>3. op' = [op EXCEPT ![o] = n]
      BY <2>1, <2>2 DEF TypeOK
    <2>4. op[o].attrs \in Attributes
      BY <2>2 DEF Operation
    <2>5. /\ n \in Operation
          /\ n.stage = op[o].stage /\ n.ctx = op[o].ctx /\ n.old = op[o].old
          /\ n.rid = op[o].rid /\ n.log = op[o].log /\ n.past = op[o].past
          /\ n.restored = op[o].restored /\ n.error = op[o].error
          /\ n.attrs = [op[o].attrs EXCEPT ![k] = v]
      BY <1>2, <2>2, <2>4 DEF Operation
    <2>6. KeysOf(op[o].attrs) \subseteq KeysOf(n.attrs)
      BY <1>2, <2>4, <2>5
    <2> HIDE DEF n, o
    <2>7. op'[o] = n /\ \A p \in Operations \ {o} : op'[p] = op[p]
      BY <2>2, <2>3 DEF TypeOK
    <2>8. TypeOK'
      BY <1>1, <2>1, <2>2, <2>3, <2>5 DEF TypeOK
    <2> QED
      BY <1>1, <2>1, <2>5, <2>6, <2>7, <2>8 DEF SameRequest, SameOperation
  <1>4. CASE operationState[c] = None
    <2> DEFINE r == requestState[c]
               n == [req[r] EXCEPT !.attrs = [req[r].attrs EXCEPT ![k] = v]]
    <2>1. r # None /\ req' = [req EXCEPT ![r].attrs[k] = v] /\ UNCHANGED op
      BY <1>4 DEF SetContext
    <2>2. r \in Requests /\ req[r] \in Request
      BY <2>1 DEF TypeOK
    <2>3. req' = [req EXCEPT ![r] = n]
      BY <2>1, <2>2 DEF TypeOK
    <2>4. req[r].attrs \in Attributes
      BY <2>2 DEF Request
    <2>5. /\ n \in Request
          /\ n.stage = req[r].stage /\ n.ctx = req[r].ctx /\ n.old = req[r].old
          /\ n.rid = req[r].rid /\ n.log = req[r].log /\ n.ender = req[r].ender
          /\ n.error = req[r].error
      BY <1>2, <2>2, <2>4 DEF Request
    <2> HIDE DEF n, r
    <2>6. req'[r] = n /\ \A s \in Requests \ {r} : req'[s] = req[s]
      BY <2>2, <2>3 DEF TypeOK
    <2>7. TypeOK'
      BY <1>1, <2>1, <2>2, <2>3, <2>5 DEF TypeOK
    <2> QED
      BY <1>1, <2>1, <2>5, <2>6, <2>7 DEF SameRequest, SameOperation
  <1> QED
    BY <1>3, <1>4

LEMMA RecordExceptionFacts ==
    ASSUME TypeOK, NEW c \in Contexts, NEW status \in Statuses \cup {None},
           RecordException(c, status)
    PROVE  /\ TypeOK'
           /\ UNCHANGED <<requestState, operationState, held, ctx, messages>>
           /\ \A r \in Requests :
                 /\ SameRequest(r)
                 /\ req'[r].error = IF r = requestState[c] THEN c ELSE req[r].error
           /\ \A o \in Operations :
                 /\ SameOperation(o) /\ op'[o].attrs = op[o].attrs
                 /\ op'[o].error = IF o = operationState[c] THEN c ELSE op[o].error
  <1> DEFINE r == requestState[c]
             o == operationState[c]
  <1>1. UNCHANGED <<requestState, operationState, held, ctx, messages>>
    BY DEF RecordException
  <1>2. r \in Requests \cup {None} /\ o \in Operations \cup {None}
    BY DEF TypeOK
  <1>3. /\ req' \in [Requests -> Request]
        /\ \A s \in Requests : /\ SameRequest(s)
                               /\ req'[s].error = IF s = r THEN c ELSE req[s].error
    <2>1. CASE r = None
      BY <2>1, ScopesAssumption DEF RecordException, TypeOK, SameRequest
    <2>2. CASE r # None
      <3> DEFINE new == IF status = None THEN req[r].status ELSE status
                 n == [req[r] EXCEPT !.error = c, !.status = new]
      <3>1. r \in Requests /\ req[r] \in Request
        BY <1>2, <2>2 DEF TypeOK
      <3>2. req' = [req EXCEPT ![r].error = c,
                               ![r].status = IF status = None THEN @ ELSE status]
        BY <2>2 DEF RecordException
      <3>3. req' = [req EXCEPT ![r] = n]
        BY <3>1, <3>2 DEF TypeOK, Request
      <3>4. new \in Statuses \cup {None}
        BY <3>1 DEF Request
      <3> HIDE DEF new
      <3>5. /\ n \in Request
            /\ n.stage = req[r].stage /\ n.ctx = req[r].ctx /\ n.old = req[r].old
            /\ n.rid = req[r].rid /\ n.log = req[r].log /\ n.ender = req[r].ender
            /\ n.error = c
        BY <3>1, <3>4 DEF Request
      <3> HIDE DEF n, r
      <3>6. req'[r] = n /\ \A s \in Requests \ {r} : req'[s] = req[s]
        BY <3>1, <3>3 DEF TypeOK
      <3> QED
        BY <3>1, <3>3, <3>5, <3>6 DEF TypeOK, SameRequest
    <2> QED
      BY <2>1, <2>2
  <1>4. /\ op' \in [Operations -> Operation]
        /\ \A p \in Operations : /\ SameOperation(p) /\ op'[p].attrs = op[p].attrs
                                 /\ op'[p].error = IF p = o THEN c ELSE op[p].error
    <2>1. CASE o = None
      BY <2>1, ScopesAssumption DEF RecordException, TypeOK, SameOperation
    <2>2. CASE o # None
      <3> DEFINE n == [op[o] EXCEPT !.error = c]
      <3>1. o \in Operations /\ op[o] \in Operation
        BY <1>2, <2>2 DEF TypeOK
      <3>2. op' = [op EXCEPT ![o] = n]
        BY <2>2, <3>1 DEF RecordException, TypeOK
      <3>3. /\ n \in Operation
            /\ n.stage = op[o].stage /\ n.ctx = op[o].ctx /\ n.old = op[o].old
            /\ n.rid = op[o].rid /\ n.log = op[o].log /\ n.past = op[o].past
            /\ n.restored = op[o].restored /\ n.attrs = op[o].attrs /\ n.error = c
        BY <3>1 DEF Operation
      <3> HIDE DEF n, o
      <3>4. op'[o] = n /\ \A p \in Operations \ {o} : op'[p] = op[p]
        BY <3>1, <3>2 DEF TypeOK
      <3> QED
        BY <3>1, <3>2, <3>3, <3>4 DEF TypeOK, SameOperation
    <2> QED
      BY <2>1, <2>2
  <1>5. TypeOK'
    BY <1>1, <1>3, <1>4 DEF TypeOK
  <1> QED
    BY <1>1, <1>3, <1>4, <1>5

\* What a message m has of the attributes a: all under the dispatch keys but floats.
CapturedIn(m, a) ==
    /\ KeysOf(m.attrs) \subseteq DispatchKeys
    /\ KeysOf(a) \cap DispatchKeys \subseteq KeysOf(m.attrs) \cup m.floats

LEMMA CapturedFacts ==
    ASSUME NEW a \in Attributes
    PROVE  /\ Captured(Dispatched(a)) \in Attributes
           /\ Floating(a) \in SUBSET DispatchKeys
           /\ KeysOf(Captured(Dispatched(a))) \subseteq DispatchKeys
           /\ KeysOf(a) \cap DispatchKeys \subseteq
                 KeysOf(Captured(Dispatched(a))) \cup Floating(a)
  <1> DEFINE e == Dispatched(a)
  <1>1. e \in Attributes /\ KeysOf(e) = KeysOf(a) \cap DispatchKeys
    BY AttributeFacts
  <1>2. \A k \in DispatchKeys : k \in Keys /\ e[k] = a[k]
    BY ScopesAssumption DEF Dispatched
  <1> HIDE DEF e
  <1>3. /\ \A n \in Numbers : Written(n) \in Values /\ Written(n) # None
        /\ None \notin Numbers
    BY ScopesAssumption DEF Values
  <1>4. Captured(e) \in Attributes
    <2>1. \A k \in Keys : e[k] \in Values \cup {None}
      BY <1>1 DEF Attributes
    <2>2. \A k \in Keys : Captured(e)[k] \in Values \cup {None}
      BY <1>3, <2>1 DEF Captured
    <2> QED
      BY <2>2 DEF Captured, Attributes
  <1>5. \A k \in Keys : Captured(e)[k] = None <=> e[k] = None \/ e[k] \in Floats
    BY <1>1, <1>3 DEF Captured
  <1>6. KeysOf(Captured(e)) \subseteq KeysOf(e)
    BY <1>5 DEF KeysOf
  <1>7. KeysOf(e) \subseteq KeysOf(Captured(e)) \cup {k \in Keys : e[k] \in Floats}
    BY <1>5 DEF KeysOf
  <1>8. Floating(a) \in SUBSET DispatchKeys
    BY DEF Floating
  <1>9. KeysOf(a) \cap DispatchKeys \subseteq KeysOf(Captured(e)) \cup Floating(a)
    BY <1>1, <1>2, <1>7 DEF Floating
  <1> QED
    BY <1>1, <1>4, <1>6, <1>8, <1>9 DEF e

LEMMA CaptureContextFacts ==
    ASSUME TypeOK, RequestsInv, NEW c \in Contexts, CaptureContext(c)
    PROVE  /\ TypeOK'
           /\ UNCHANGED <<requestState, operationState, req, op, held, ctx>>
           /\ \A m \in messages' : m \notin messages =>
                 /\ m.rid = ActiveRequestId(c) /\ m.past = Past(c)
                 /\ m.restored = Restored(c)
                 /\ CapturedIn(m, ActiveAttributes(c))
  <1> DEFINE n == [rid |-> ActiveRequestId(c),
                   attrs |-> Captured(Dispatched(ActiveAttributes(c))),
                   past |-> Past(c), restored |-> Restored(c),
                   floats |-> Floating(ActiveAttributes(c))]
  <1>1. /\ messages' = messages \cup {n}
        /\ UNCHANGED <<requestState, operationState, req, op, held, ctx>>
    BY DEF CaptureContext
  <1>2. /\ ActiveAttributes(c) \in Attributes
        /\ Captured(Dispatched(ActiveAttributes(c))) \in Attributes
        /\ Floating(ActiveAttributes(c)) \in SUBSET DispatchKeys
    BY ActiveFacts, CapturedFacts
  <1>3. n \in Message
    BY <1>2, ActiveFacts DEF Message
  <1>4. /\ n.rid = ActiveRequestId(c) /\ n.past = Past(c) /\ n.restored = Restored(c)
        /\ CapturedIn(n, ActiveAttributes(c))
    BY <1>2, CapturedFacts DEF CapturedIn
  <1> HIDE DEF n
  <1>5. TypeOK'
    BY <1>1, <1>3 DEF TypeOK
  <1> QED
    BY <1>1, <1>4, <1>5
-------------------------------------------------------------------------------
(* What is active *)

\* The active request is one that the context has begun, or was given.
LEMMA ActiveRequestKnown ==
    ASSUME TypeOK, ContextsInv, RequestsInv, RequestChains, GivenInv, NEW c \in Contexts,
           requestState[c] # None
    PROVE  /\ requestState[c] \in Requests
           /\ req[requestState[c]].stage # "unused"
           /\ req[requestState[c]].rid \in Past(c)
           /\ req[requestState[c]].ctx \in ctx[c].from
  <1> DEFINE r == requestState[c]
  <1>1. r \in Requests /\ r \in OwnRequests(c) \cup {ctx[c].request}
    BY DEF TypeOK, RequestChains
  <1>2. CASE r \in OwnRequests(c)
    <2>1. req[r].ctx = c
      BY <1>2 DEF OwnRequests
    <2>2. req[r].rid \in Past(c)
      BY <1>2 DEF Past
    <2>3. c \in ctx[c].from /\ c # None
      BY ScopesAssumption DEF ContextsInv
    <2>4. req[r].stage # "unused"
      BY <1>1, <2>1, <2>3 DEF RequestsInv
    <2> QED
      BY <1>1, <2>1, <2>2, <2>3, <2>4
  <1>3. CASE r = ctx[c].request
    <2>1. req[r].rid \in ctx[c].past /\ req[r].ctx \in ctx[c].from
      BY <1>3 DEF GivenInv
    <2>2. ctx[c].from \subseteq Contexts
      BY DEF TypeOK, Context
    <2>3. req[r].stage # "unused"
      BY <1>1, <2>1, <2>2, ScopesAssumption DEF RequestsInv
    <2> QED
      BY <1>1, <2>1, <2>3 DEF Past
  <1> QED
    BY <1>1, <1>2, <1>3

\* The active operation is that of the innermost block, or the one given.
LEMMA ActiveOperationPlace ==
    ASSUME TypeOK, OperationChains, NEW c \in Contexts
    PROVE  LET frames == ctx[c].frames
               o == operationState[c]
           IN  \/ o = ctx[c].operation /\ \A i \in 1..Len(frames) : frames[i].op = None
               \/ \E j \in 1..Len(frames) :
                     /\ o # None /\ frames[j].op = o
                     /\ \A k \in (j + 1)..Len(frames) : frames[k].op = None
  <1>1. Len(ctx[c].frames) \in Nat
    BY FrameFacts DEF TypeOK
  <1>2. Around(ctx[c].frames, ctx[c].operation, Len(ctx[c].frames) + 1, operationState[c])
    BY DEF OperationChains
  <1>3. (Len(ctx[c].frames) + 1) - 1 = Len(ctx[c].frames)
    BY <1>1
  <1> QED
    BY <1>2, <1>3 DEF Around

LEMMA ActiveOperationKnown ==
    ASSUME TypeOK, ContextsInv, GivenInv, OperationsInv, FramesInv, OperationChains,
           RestoredInv, NEW c \in Contexts
    PROVE  /\ operationState[c] # None =>
                /\ operationState[c] \in Operations
                /\ op[operationState[c]].stage # "unused"
                /\ op[operationState[c]].rid \in Past(c) \cup {None}
                /\ op[operationState[c]].ctx \in ctx[c].from
           /\ Restored(c) \subseteq RestoredBy(operationState[c])
  <1> DEFINE o == operationState[c]
             frames == ctx[c].frames
  <1>1. ctx[c] \in Context /\ Len(frames) \in Nat
    BY FrameFacts DEF TypeOK
  <1>2. \A p : p \in OpenOperations(c) <=> p # None /\ \E i \in 1..Len(frames) : frames[i].op = p
    BY <1>1, OpenFacts
  <1>3. CASE o = ctx[c].operation /\ \A i \in 1..Len(frames) : frames[i].op = None
    <2>1. OpenOperations(c) = {}
      BY <1>2, <1>3
    <2>2. Restored(c) = ctx[c].restored /\ ctx[c].past \subseteq Past(c)
      BY <2>1 DEF Restored, Past
    <2>3. o \in Operations \cup {None}
      BY DEF TypeOK
    <2> QED
      BY <1>3, <2>2, <2>3 DEF GivenInv
  <1>4. ASSUME NEW j \in 1..Len(frames), o # None, frames[j].op = o,
               \A k \in (j + 1)..Len(frames) : frames[k].op = None
        PROVE  /\ o \in Operations /\ op[o].stage # "unused"
               /\ op[o].rid \in Past(c) \cup {None} /\ op[o].ctx \in ctx[c].from
               /\ Restored(c) \subseteq op[o].restored
    <2>1. o \in Operations
      BY <1>4 DEF TypeOK
    <2>2. op[o].stage = "open" /\ op[o].ctx = c
      BY <1>4 DEF FramesInv
    <2>3. o \in OpenOperations(c)
      BY <1>2, <1>4
    <2>4. op[o].rid \in Past(c) \cup {None}
      BY <2>1, <2>3 DEF Past, OperationsInv
    <2>5. ASSUME NEW p \in OpenOperations(c) PROVE op[p].restored \subseteq op[o].restored
      <3>1. PICK i \in 1..Len(frames) : frames[i].op = p /\ p # None
        BY <1>2, <2>5
      <3>2. i \notin (j + 1)..Len(frames)
        BY <1>4, <3>1
      <3>3. i = j \/ i \in 1..(j - 1)
        BY <1>1, <1>4, <3>2
      <3> QED
        BY <1>4, <3>1, <3>3 DEF RestoredInv
    <2>6. ctx[c].restored \subseteq op[o].restored
      BY <1>4 DEF RestoredInv
    <2>7. Restored(c) \subseteq op[o].restored
      BY <2>5, <2>6 DEF Restored
    <2> QED
      BY <2>1, <2>2, <2>4, <2>7 DEF ContextsInv
  <1> QED
    BY <1>3, <1>4, ActiveOperationPlace DEF RestoredBy

\* What a context writes and captures: no identifier but one it works for, and
\* all that was restored for it.
LEMMA ActiveKnown ==
    ASSUME ScopesInv, NEW c \in Contexts
    PROVE  /\ ActiveRequestId(c) \in Past(c) \cup {None}
           /\ Restored(c) \subseteq KeysOf(ActiveAttributes(c)) \cap DispatchKeys
  <1>1. ActiveRequestId(c) \in Past(c) \cup {None}
    BY ActiveRequestKnown, ActiveOperationKnown DEF ScopesInv, ActiveRequestId
  <1>2. Restored(c) \subseteq RestoredBy(operationState[c]) /\ Restored(c) \subseteq DispatchKeys
    BY ActiveOperationKnown, ActiveFacts DEF ScopesInv
  <1>3. Restored(c) \subseteq KeysOf(ActiveAttributes(c))
    <2>1. CASE operationState[c] = None
      BY <1>2, <2>1 DEF RestoredBy
    <2>2. CASE operationState[c] # None
      <3> DEFINE o == operationState[c]
                 r == requestState[c]
                 a == IF r = None THEN NoAttributes ELSE req[r].attrs
      <3>1. o \in Operations /\ op[o].attrs \in Attributes
        BY <2>2 DEF ScopesInv, TypeOK, Operation
      <3>2. a \in Attributes
        BY AttributeFacts DEF ScopesInv, TypeOK, Request
      <3>3. ActiveAttributes(c) = Merge(a, op[o].attrs)
        BY <2>2 DEF ActiveAttributes
      <3> HIDE DEF a, o
      <3>4. KeysOf(op[o].attrs) \subseteq KeysOf(ActiveAttributes(c))
        BY <3>1, <3>2, <3>3, AttributeFacts
      <3>5. op[o].restored \subseteq KeysOf(op[o].attrs)
        BY <3>1 DEF ScopesInv, OperationsInv
      <3> QED
        BY <1>2, <2>2, <3>4, <3>5 DEF RestoredBy, o
    <2> QED
      BY <2>1, <2>2
  <1> QED
    BY <1>1, <1>2, <1>3
-------------------------------------------------------------------------------
(* Steps that touch little *)

\* What is known only of requests, or only of operations.
RequestPart == RequestsInv /\ RequestChains
OperationPart == OperationsInv /\ FramesInv /\ OperationChains /\ RestoredInv

\* The chains of requests do not depend on the rest.
LEMMA RequestPartStep ==
    ASSUME RequestPart, UNCHANGED <<requestState, req>>,
           \A c \in Contexts : ctx'[c].request = ctx[c].request
    PROVE  RequestPart'
  <1>1. \A c \in Contexts : OwnRequests(c)' = OwnRequests(c)
    BY DEF OwnRequests
  <1>2. RequestsInv'
    BY DEF RequestPart, RequestsInv
  <1> QED
    BY <1>1, <1>2 DEF RequestPart, RequestChains

LEMMA OperationPartStep ==
    ASSUME OperationPart, UNCHANGED <<operationState, op, held>>,
           \A c \in Contexts : /\ ctx'[c].frames = ctx[c].frames
                               /\ ctx'[c].operation = ctx[c].operation
                               /\ ctx'[c].restored = ctx[c].restored
    PROVE  OperationPart'
  <1>1. \A c \in Contexts : OpenOperations(c)' = OpenOperations(c)
    BY DEF OpenOperations
  <1>2. OperationsInv'
    BY <1>1, SMTT(60) DEF OperationPart, OperationsInv
  <1>3. FramesInv'
    BY SMTT(30) DEF OperationPart, FramesInv
  <1>4. OperationChains'
    BY DEF OperationPart, OperationChains
  <1>5. RestoredInv'
    BY ZenonT(60) DEF OperationPart, RestoredInv
  <1> QED
    BY <1>2, <1>3, <1>4, <1>5 DEF OperationPart

LEMMA ErrorTypes ==
    ASSUME TypeOK
    PROVE  /\ \A r \in Requests : \A i \in 1..Len(req[r].log) :
                 req[r].log[i].error \in Contexts \cup {None}
           /\ \A o \in Operations : \A i \in 1..Len(op[o].log) :
                 op[o].log[i] \in Contexts \cup {None}
           /\ \A r \in Requests : req[r].error \in Contexts \cup {None}
           /\ \A o \in Operations : op[o].error \in Contexts \cup {None}
  <1>1. \A r \in Requests : \A i \in 1..Len(req[r].log) :
           req[r].log[i].error \in Contexts \cup {None}
    <2> SUFFICES ASSUME NEW r \in Requests, NEW i \in 1..Len(req[r].log)
                 PROVE  req[r].log[i].error \in Contexts \cup {None}
      OBVIOUS
    <2>1. req[r].log \in Seq([outcome : {"success", "client_error", "error"},
                              error : Contexts \cup {None}])
      BY DEF TypeOK, Request
    <2>2. req[r].log[i] \in [outcome : {"success", "client_error", "error"},
                             error : Contexts \cup {None}]
      BY <2>1, ElementOfSeq
    <2> QED
      BY <2>2
  <1>2. \A o \in Operations : \A i \in 1..Len(op[o].log) :
           op[o].log[i] \in Contexts \cup {None}
    BY ElementOfSeq DEF TypeOK, Operation
  <1>3. /\ \A r \in Requests : req[r].error \in Contexts \cup {None}
        /\ \A o \in Operations : op[o].error \in Contexts \cup {None}
    BY DEF TypeOK, Request, Operation
  <1> QED
    BY <1>1, <1>2, <1>3

\* The errors of contexts that keep what they descend from.
LEMMA ErrorPartStep ==
    ASSUME TypeOK, ErrorsInv, ErrorsStayInFlow, UNCHANGED <<req, op>>,
           \A c \in Contexts : ctx[c].from \subseteq ctx'[c].from
    PROVE  ErrorsInv' /\ ErrorsStayInFlow'
  <1>1. ErrorsInv'
    BY ErrorTypes DEF ErrorsInv
  <1>2. ErrorsStayInFlow'
    BY ErrorTypes, SMTT(60) DEF ErrorsStayInFlow
  <1> QED
    BY <1>1, <1>2

\* A step that changes at most statuses, attributes and last errors.
LEMMA QuietStep ==
    ASSUME ScopesInv, TypeOK', UNCHANGED <<requestState, operationState, held, ctx, messages>>,
           \A r \in Requests :
              /\ SameRequest(r)
              /\ \/ req'[r].error = req[r].error
                 \/ /\ req[r].stage # "unused"
                    /\ req[r].ctx \in ctx[req'[r].error].from,
           \A o \in Operations :
              /\ SameOperation(o)
              /\ KeysOf(op[o].attrs) \subseteq KeysOf(op'[o].attrs)
              /\ \/ op'[o].error = op[o].error
                 \/ /\ op[o].stage # "unused"
                    /\ op[o].ctx \in ctx[op'[o].error].from
    PROVE  ScopesInv'
  <1>1. /\ \A c \in Contexts : OwnRequests(c)' = OwnRequests(c)
        /\ \A c \in Contexts : OpenOperations(c)' = OpenOperations(c)
    BY DEF OwnRequests, OpenOperations, SameRequest
  <1>2. MessagesInv' /\ ContextsInv'
    BY DEF ScopesInv, MessagesInv, ContextsInv, SameRequest
  <1>3. RequestsInv'
    BY DEF ScopesInv, RequestsInv, SameRequest
  <1>4. RequestChains'
    <2>1. \A c \in Contexts : OwnRequests(c) \subseteq Requests
      BY DEF OwnRequests
    <2>2. \A r \in Requests : req'[r].old = req[r].old
      BY DEF SameRequest
    <2> QED
      BY <1>1, <2>1, <2>2 DEF ScopesInv, RequestChains
  <1>5. GivenInv'
    <2>1. \A c \in Contexts : ctx[c].request \in Requests \cup {None}
                              /\ ctx[c].operation \in Operations \cup {None}
      BY DEF ScopesInv, TypeOK, Context
    <2> QED
      BY <2>1 DEF ScopesInv, GivenInv, RestoredBy, SameRequest, SameOperation
  <1>6. OperationsInv'
    <2> SUFFICES ASSUME NEW o \in Operations
                 PROVE  /\ op'[o].stage = "unused" => op'[o].error = None
                        /\ op'[o].stage # "completed" => op'[o].log = <<>>
                        /\ Len(op'[o].log) <= 1
                        /\ op'[o].stage = "open" => \E c \in Contexts : o \in OpenOperations(c)'
                        /\ op'[o].rid \in op'[o].past \cup {None}
                        /\ op'[o].restored \subseteq KeysOf(op'[o].attrs)
      BY DEF OperationsInv
    <2> QED
      BY <1>1 DEF ScopesInv, OperationsInv, SameOperation
  <1>7. /\ \A c \in Contexts : \A i \in 1..Len(ctx[c].frames) :
              /\ ctx[c].frames[i].manager \in Operations
              /\ ctx[c].frames[i].op \in Operations \cup {None}
    BY SMTT(60) DEF ScopesInv, FramesInv
  <1>8. FramesInv'
    BY <1>7, SMTT(30) DEF ScopesInv, FramesInv, SameOperation
  <1>9. OperationChains'
    BY <1>7 DEF ScopesInv, OperationChains, SameOperation
  <1>10. RestoredInv'
    <2>1. \A o \in Operations : op'[o].restored = op[o].restored
      BY DEF SameOperation
    <2>2. \A c \in Contexts : \A i \in 1..Len(ctx[c].frames) : \A j \in 1..(i - 1) :
             ctx[c].frames[j].op \in Operations \cup {None}
      <3> SUFFICES ASSUME NEW c \in Contexts, NEW i \in 1..Len(ctx[c].frames),
                          NEW j \in 1..(i - 1)
                   PROVE  ctx[c].frames[j].op \in Operations \cup {None}
        OBVIOUS
      <3>1. j \in 1..Len(ctx[c].frames)
        BY FrameFacts DEF ScopesInv, TypeOK
      <3> QED
        BY <1>7, <3>1
    <2> SUFFICES ASSUME NEW c \in Contexts, NEW i \in 1..Len(ctx[c].frames),
                        ctx[c].frames[i].op # None
                 PROVE  /\ ctx[c].restored \subseteq op'[ctx[c].frames[i].op].restored
                        /\ \A j \in 1..(i - 1) : ctx[c].frames[j].op # None =>
                              op'[ctx[c].frames[j].op].restored
                                 \subseteq op'[ctx[c].frames[i].op].restored
      BY DEF RestoredInv
    <2>3. /\ ctx[c].restored \subseteq op[ctx[c].frames[i].op].restored
          /\ \A j \in 1..(i - 1) : ctx[c].frames[j].op # None =>
                op[ctx[c].frames[j].op].restored \subseteq op[ctx[c].frames[i].op].restored
      BY DEF ScopesInv, RestoredInv
    <2>4. ctx[c].frames[i].op \in Operations
      BY <1>7
    <2> QED
      BY <2>1, <2>2, <2>3, <2>4, SMTT(60)
  <1>11. ErrorsInv'
    BY DEF ScopesInv, ErrorsInv, SameRequest, SameOperation
  <1>12. ErrorsStayInFlow'
    BY DEF ScopesInv, ErrorsStayInFlow, SameRequest, SameOperation
  <1> QED
    BY <1>2, <1>3, <1>4, <1>5, <1>6, <1>8, <1>9, <1>10, <1>11, <1>12 DEF ScopesInv

LEMMA CallStep ==
    ASSUME ScopesInv, NEW c \in Contexts,
           \/ \E s \in Statuses : UpdateRequestStatus(c, s)
           \/ \E k \in Keys, v \in Values : SetContext(c, k, v)
    PROVE  ScopesInv'
  <1>1. ASSUME NEW s \in Statuses, UpdateRequestStatus(c, s) PROVE ScopesInv'
    BY <1>1, UpdateRequestStatusFacts, QuietStep DEF ScopesInv, SameOperation
  <1>2. ASSUME NEW k \in Keys, NEW v \in Values, SetContext(c, k, v) PROVE ScopesInv'
    BY <1>2, SetContextFacts, QuietStep DEF ScopesInv
  <1> QED
    BY <1>1, <1>2

LEMMA RecordExceptionStep ==
    ASSUME ScopesInv, NEW c \in Contexts, NEW s \in Statuses \cup {None},
           RecordException(c, s)
    PROVE  ScopesInv'
  <1>1. /\ TypeOK' /\ UNCHANGED <<requestState, operationState, held, ctx, messages>>
        /\ \A r \in Requests :
              /\ SameRequest(r)
              /\ req'[r].error = IF r = requestState[c] THEN c ELSE req[r].error
        /\ \A o \in Operations :
              /\ SameOperation(o) /\ op'[o].attrs = op[o].attrs
              /\ op'[o].error = IF o = operationState[c] THEN c ELSE op[o].error
    BY RecordExceptionFacts DEF ScopesInv
  <1>2. \A r \in Requests : r = requestState[c] =>
           req[r].stage # "unused" /\ req[r].ctx \in ctx[c].from
    BY ActiveRequestKnown, ScopesAssumption DEF ScopesInv
  <1>3. \A o \in Operations : o = operationState[c] =>
           op[o].stage # "unused" /\ op[o].ctx \in ctx[c].from
    BY ActiveOperationKnown, ScopesAssumption DEF ScopesInv
  <1> QED
    BY <1>1, <1>2, <1>3, QuietStep

LEMMA CaptureContextStep ==
    ASSUME ScopesInv, NEW c \in Contexts, CaptureContext(c)
    PROVE  ScopesInv'
  <1>1. /\ TypeOK'
        /\ UNCHANGED <<requestState, operationState, req, op, held, ctx>>
        /\ \A m \in messages' : m \notin messages =>
              /\ m.rid = ActiveRequestId(c) /\ m.past = Past(c)
              /\ m.restored = Restored(c)
              /\ CapturedIn(m, ActiveAttributes(c))
    BY CaptureContextFacts DEF ScopesInv
  <1>2. MessagesInv'
    <2>1. \A m \in messages' : m \notin messages =>
             m.restored \subseteq KeysOf(m.attrs) \cup m.floats
      BY <1>1, ActiveKnown DEF CapturedIn
    <2> QED
      BY <1>1, <2>1, ActiveKnown DEF ScopesInv, MessagesInv, CapturedIn
  <1>3. RequestPart' /\ OperationPart' /\ ErrorsInv' /\ ErrorsStayInFlow'
    BY <1>1, RequestPartStep, OperationPartStep, ErrorPartStep
       DEF ScopesInv, RequestPart, OperationPart
  <1>4. ContextsInv' /\ GivenInv'
    BY <1>1 DEF ScopesInv, ContextsInv, GivenInv, RestoredBy
  <1> QED
    BY <1>1, <1>2, <1>3, <1>4 DEF ScopesInv, RequestPart, OperationPart
-------------------------------------------------------------------------------
(* Contexts are made *)

LEMMA StartStep ==
    ASSUME ScopesInv, NEW d \in Contexts, Start(d)
    PROVE  ScopesInv'
  <1>1. /\ TypeOK'
        /\ UNCHANGED <<requestState, operationState, req, op, held, messages>>
        /\ ctx'[d].alive
        /\ \A e \in Contexts :
              /\ ctx'[e].frames = ctx[e].frames /\ ctx'[e].from = ctx[e].from
              /\ ctx'[e].request = ctx[e].request /\ ctx'[e].operation = ctx[e].operation
              /\ ctx'[e].past = ctx[e].past /\ ctx'[e].restored = ctx[e].restored
        /\ \A e \in Contexts \ {d} : ctx'[e] = ctx[e]
    BY StartFacts DEF ScopesInv
  <1>2. RequestPart' /\ OperationPart' /\ ErrorsInv' /\ ErrorsStayInFlow'
    BY <1>1, RequestPartStep, OperationPartStep, ErrorPartStep
       DEF ScopesInv, RequestPart, OperationPart
  <1>3. ContextsInv'
    BY <1>1 DEF ScopesInv, ContextsInv
  <1>4. MessagesInv' /\ GivenInv'
    BY <1>1 DEF ScopesInv, MessagesInv, GivenInv, RestoredBy
  <1> QED
    BY <1>1, <1>2, <1>3, <1>4 DEF ScopesInv, RequestPart, OperationPart

\* The new context has done nothing yet, and is given what is active.
LEMMA CopyStep ==
    ASSUME ScopesInv, NEW c \in Contexts, NEW d \in Contexts, ~ctx[d].alive, Copy(c, d)
    PROVE  ScopesInv'
  <1>1. /\ TypeOK'
        /\ UNCHANGED <<req, op, held, messages>>
        /\ requestState'[d] = requestState[c] /\ operationState'[d] = operationState[c]
        /\ ctx'[d].alive /\ ctx'[d].frames = ctx[d].frames
        /\ ctx'[d].from = {d} \cup ctx[c].from
        /\ ctx'[d].request = requestState[c] /\ ctx'[d].operation = operationState[c]
        /\ ctx'[d].past = Past(c) /\ ctx'[d].restored = Restored(c)
        /\ \A e \in Contexts \ {d} :
              /\ requestState'[e] = requestState[e]
              /\ operationState'[e] = operationState[e]
              /\ ctx'[e] = ctx[e]
    BY CopyFacts DEF ScopesInv
  <1>2. /\ ctx[d].from = {d} /\ ctx[d].frames = <<>>
        /\ \A r \in Requests : req[r].ctx # d
    BY DEF ScopesInv, ContextsInv
  <1>3. \A e \in Contexts : ctx[e].from \subseteq ctx'[e].from
    BY <1>1, <1>2
  <1>4. ErrorsInv' /\ ErrorsStayInFlow'
    BY <1>1, <1>3, ErrorPartStep DEF ScopesInv
  <1>5. MessagesInv' /\ ContextsInv'
    BY <1>1 DEF ScopesInv, MessagesInv, ContextsInv
  <1>6. \A e \in Contexts : OwnRequests(e)' = OwnRequests(e)
    BY <1>1 DEF OwnRequests
  <1>7. RequestsInv' /\ RequestChains'
    <2>1. OwnRequests(d) = {}
      BY <1>2 DEF OwnRequests
    <2>2. RequestsInv'
      BY <1>1 DEF ScopesInv, RequestsInv
    <2> QED
      BY <1>1, <1>6, <2>1, <2>2 DEF ScopesInv, RequestChains
  <1>8. GivenInv'
    <2>1. requestState[c] # None => /\ req[requestState[c]].rid \in Past(c)
                                    /\ req[requestState[c]].ctx \in ctx[c].from
      BY ActiveRequestKnown DEF ScopesInv
    <2>2. /\ operationState[c] # None =>
                /\ op[operationState[c]].stage # "unused"
                /\ op[operationState[c]].rid \in Past(c) \cup {None}
                /\ op[operationState[c]].ctx \in ctx[c].from
          /\ Restored(c) \subseteq RestoredBy(operationState[c])
      BY ActiveOperationKnown DEF ScopesInv
    <2>3. \A o : RestoredBy(o)' = RestoredBy(o)
      BY <1>1 DEF RestoredBy
    <2> SUFFICES ASSUME NEW e \in Contexts
                 PROVE  /\ ctx'[e].request # None =>
                              /\ req[ctx'[e].request].rid \in ctx'[e].past
                              /\ req[ctx'[e].request].ctx \in ctx'[e].from
                        /\ ctx'[e].operation # None =>
                              /\ op[ctx'[e].operation].stage # "unused"
                              /\ op[ctx'[e].operation].rid \in ctx'[e].past \cup {None}
                              /\ op[ctx'[e].operation].ctx \in ctx'[e].from
                        /\ ctx'[e].restored \subseteq RestoredBy(ctx'[e].operation)
      BY <1>1, <2>3 DEF GivenInv, RestoredBy
    <2>4. CASE e = d
      BY <1>1, <2>1, <2>2, <2>4
    <2>5. CASE e # d
      BY <1>1, <2>5, SMTT(60) DEF ScopesInv, GivenInv
    <2> QED
      BY <2>4, <2>5
  <1>9. \A e \in Contexts : OpenOperations(e)' = OpenOperations(e)
    BY <1>1, SMTT(60) DEF OpenOperations
  <1>10. OperationsInv' /\ FramesInv'
    BY <1>1, <1>9, SMTT(60) DEF ScopesInv, OperationsInv, FramesInv
  <1>11. \A e \in Contexts : ctx'[e].frames = ctx[e].frames
    BY <1>1
  <1>12. Len(ctx[d].frames) = 0
    BY <1>2
  <1>13. OperationChains'
    <2> SUFFICES ASSUME NEW e \in Contexts
                 PROVE  /\ Around(ctx'[e].frames, ctx'[e].operation,
                                  Len(ctx'[e].frames) + 1, operationState'[e])
                        /\ \A i \in 1..Len(ctx'[e].frames) : ctx'[e].frames[i].op # None =>
                              Around(ctx'[e].frames, ctx'[e].operation, i,
                                     op[ctx'[e].frames[i].op].old)
      BY <1>1 DEF OperationChains
    <2>1. CASE e = d
      BY <1>1, <1>12, <2>1, SMTT(60) DEF Around
    <2>2. CASE e # d
      BY <1>1, <2>2, SMTT(60) DEF ScopesInv, OperationChains
    <2> QED
      BY <2>1, <2>2
  <1>14. RestoredInv'
    <2> SUFFICES ASSUME NEW e \in Contexts
                 PROVE  \A i \in 1..Len(ctx'[e].frames) : ctx'[e].frames[i].op # None =>
                          /\ ctx'[e].restored \subseteq op[ctx'[e].frames[i].op].restored
                          /\ \A j \in 1..(i - 1) : ctx'[e].frames[j].op # None =>
                                op[ctx'[e].frames[j].op].restored
                                   \subseteq op[ctx'[e].frames[i].op].restored
      BY <1>1 DEF RestoredInv
    <2>1. CASE e = d
      BY <1>1, <1>12, <2>1
    <2>2. CASE e # d
      <3>1. ctx'[e] = ctx[e]
        BY <1>1, <2>2
      <3>2. \A i \in 1..Len(ctx[e].frames) : ctx[e].frames[i].op # None =>
                /\ ctx[e].restored \subseteq op[ctx[e].frames[i].op].restored
                /\ \A j \in 1..(i - 1) : ctx[e].frames[j].op # None =>
                      op[ctx[e].frames[j].op].restored
                         \subseteq op[ctx[e].frames[i].op].restored
        BY DEF ScopesInv, RestoredInv
      <3> QED
        BY <3>1, <3>2
    <2> QED
      BY <2>1, <2>2
  <1> QED
    BY <1>1, <1>4, <1>5, <1>7, <1>8, <1>10, <1>13, <1>14 DEF ScopesInv
-------------------------------------------------------------------------------
(* Requests begin and end *)

LEMMA BeginRequestStep ==
    ASSUME ScopesInv, NEW c \in Contexts, ctx[c].alive, NEW r \in Requests,
           NEW rid \in Supplied \cup {r}, BeginRequest(c, r, rid)
    PROVE  ScopesInv'
  <1>1. /\ TypeOK'
        /\ UNCHANGED <<operationState, op, held, ctx, messages>>
        /\ req[r].stage = "unused"
        /\ req'[r].stage = "open" /\ req'[r].ctx = c /\ req'[r].old = requestState[c]
        /\ req'[r].rid = rid /\ req'[r].rid # None
        /\ req'[r].error = req[r].error /\ req'[r].log = req[r].log
        /\ req'[r].ender = req[r].ender
        /\ \A s \in Requests \ {r} : req'[s] = req[s]
        /\ requestState'[c] = r
        /\ \A d \in Contexts \ {c} : requestState'[d] = requestState[d]
    BY BeginRequestFacts DEF ScopesInv
  <1>2. /\ req[r].ctx = None /\ req[r].error = None /\ req[r].ender = None
        /\ Len(req[r].log) = 0 /\ c # None /\ r # None
    BY <1>1, ScopesAssumption DEF ScopesInv, RequestsInv
  <1>3. /\ \A d \in Contexts : r \notin OwnRequests(d)
        /\ OwnRequests(c)' = OwnRequests(c) \cup {r}
        /\ \A d \in Contexts \ {c} : OwnRequests(d)' = OwnRequests(d)
    BY <1>1, <1>2, ScopesAssumption DEF OwnRequests
  <1>4. \A d \in Contexts : ctx[d].request # r
    <2>1. \A d \in Contexts : ctx[d].request # None => req[ctx[d].request].ctx \in Contexts
      BY DEF ScopesInv, TypeOK, Context, GivenInv
    <2> QED
      BY <1>2, <2>1, ScopesAssumption
  <1>5. requestState[c] \in OwnRequests(c) \cup {ctx[c].request}
    BY DEF ScopesInv, RequestChains
  <1>6. MessagesInv' /\ ContextsInv'
    BY <1>1 DEF ScopesInv, MessagesInv, ContextsInv
  <1>7. RequestsInv'
    BY <1>1, <1>2 DEF ScopesInv, RequestsInv
  <1>8. RequestChains'
    <2> SUFFICES ASSUME NEW d \in Contexts
                 PROVE  /\ requestState'[d] \in OwnRequests(d)' \cup {ctx[d].request}
                        /\ \A s \in OwnRequests(d)' :
                              /\ req'[s].old \in OwnRequests(d)' \cup {ctx[d].request}
                              /\ req'[s].old \in OwnRequests(d)' =>
                                    /\ req'[s].old # requestState'[d]
                                    /\ \A t \in OwnRequests(d)' :
                                          req'[t].old = req'[s].old => t = s
      BY <1>1 DEF RequestChains
    <2>1. /\ requestState[d] \in OwnRequests(d) \cup {ctx[d].request}
          /\ \A s \in OwnRequests(d) :
                /\ req[s].old \in OwnRequests(d) \cup {ctx[d].request}
                /\ req[s].old \in OwnRequests(d) =>
                      /\ req[s].old # requestState[d]
                      /\ \A t \in OwnRequests(d) : req[t].old = req[s].old => t = s
      BY DEF ScopesInv, RequestChains
    <2>2. \A s \in OwnRequests(d) : s \in Requests /\ req'[s] = req[s]
      BY <1>1, <1>3 DEF OwnRequests
    <2>3. CASE d # c
      BY <1>1, <1>3, <2>1, <2>2, <2>3
    <2>4. CASE d = c
      <3>1. requestState'[c] = r
        BY <1>1
      <3>2. \A s \in OwnRequests(c) : req'[s].old = req[s].old /\ req'[s].old # r
        BY <1>3, <1>4, <2>1, <2>2, <2>4
      <3>3. req'[r].old = requestState[c] /\ req'[r].old # r
        BY <1>1, <1>3, <1>4, <1>5
      <3>4. \A s \in OwnRequests(c) : req'[s].old \in OwnRequests(c) => req'[s].old # req'[r].old
        BY <2>1, <2>4, <3>2, <3>3
      <3> HIDE <1>1
      <3>5. \A s, t \in OwnRequests(c) :
               req'[s].old \in OwnRequests(c) /\ req'[t].old = req'[s].old => t = s
        BY <2>1, <2>4, <3>2
      <3>6. \A s \in OwnRequests(c) \cup {r} :
               req'[s].old \in OwnRequests(c) \cup {ctx[c].request}
        BY <1>5, <2>1, <2>4, <3>2, <3>3
      <3>7. ASSUME NEW s \in OwnRequests(c)', req'[s].old \in OwnRequests(c)'
            PROVE  /\ req'[s].old # r
                   /\ \A t \in OwnRequests(c)' : req'[t].old = req'[s].old => t = s
        <4>1. s \in OwnRequests(c) \cup {r} /\ req'[s].old # r
          BY <1>3, <3>2, <3>3, <3>7
        <4>2. req'[s].old \in OwnRequests(c)
          BY <1>3, <3>7, <4>1
        <4> QED
          BY <1>3, <3>4, <3>5, <4>1, <4>2
      <3> QED
        BY <1>3, <2>4, <3>1, <3>6, <3>7
    <2> QED
      BY <2>3, <2>4
  <1>9. GivenInv'
    <2>1. \A d \in Contexts : ctx[d].request \in Requests \cup {None}
      BY DEF ScopesInv, TypeOK, Context
    <2> QED
      BY <1>1, <1>4, <2>1 DEF ScopesInv, GivenInv, RestoredBy
  <1>10. OperationPart'
    BY <1>1, OperationPartStep DEF ScopesInv, OperationPart
  <1>11. ErrorsInv' /\ ErrorsStayInFlow'
    BY <1>1, <1>2, SMTT(60) DEF ScopesInv, ErrorsInv, ErrorsStayInFlow
  <1> QED
    BY <1>1, <1>6, <1>7, <1>8, <1>9, <1>10, <1>11 DEF ScopesInv, OperationPart

\* What the request remembers becomes active, and nothing else remembers it.
LEMMA EndRequestStep ==
    ASSUME ScopesInv, NEW c \in Contexts, ctx[c].alive, NEW status \in Statuses \cup {None},
           NEW raised \in BOOLEAN, EndRequest(c, status, raised)
    PROVE  ScopesInv'
  <1> DEFINE r == requestState[c]
  <1>0. PICK outcome \in {"success", "client_error", "error"},
             error \in Contexts \cup {None} : Ended(r, c, outcome, error)
    <2>1. TypeOK
      BY SMTT(60) DEF ScopesInv
    <2> QED
      BY <2>1, EndRequestFacts
  <1>1. /\ TypeOK'
        /\ UNCHANGED <<operationState, op, held, ctx, messages>>
        /\ r \in Requests /\ req[r].stage # "completed"
        /\ error \in {None, c, req[r].error} /\ (error # None => outcome = "error")
        /\ req'[r].stage = "completed" /\ req'[r].ender = c
        /\ req'[r].error = error
        /\ req'[r].log = Append(req[r].log, [outcome |-> outcome, error |-> error])
        /\ req'[r].ctx = req[r].ctx /\ req'[r].old = req[r].old
        /\ req'[r].rid = req[r].rid
        /\ \A s \in Requests \ {r} : req'[s] = req[s]
        /\ requestState'[c] = IF req[r].ctx = c THEN req[r].old ELSE requestState[c]
        /\ \A d \in Contexts \ {c} : requestState'[d] = requestState[d]
    BY <1>0 DEF Ended
  <1>2. /\ r # None /\ req[r].stage # "unused" /\ req[r].ctx \in ctx[c].from
        /\ req[r].rid # None /\ req[r].ctx \in Contexts
    BY <1>1, ActiveRequestKnown, ScopesAssumption DEF ScopesInv, RequestsInv
  <1>3. req[r].ender = None /\ Len(req[r].log) = 0
    BY <1>1, SMTT(60) DEF ScopesInv, RequestsInv
  <1>4. \A s \in Requests : /\ req'[s].ctx = req[s].ctx /\ req'[s].old = req[s].old
                            /\ req'[s].rid = req[s].rid
    BY <1>1
  <1>5. MessagesInv' /\ ContextsInv'
    BY <1>1, <1>4 DEF ScopesInv, MessagesInv, ContextsInv
  <1>6. /\ req'[r].log = <<[outcome |-> outcome, error |-> error]>>
        /\ Len(req'[r].log) = 1
    <2>1. req[r].log \in Seq([outcome : {"success", "client_error", "error"},
                              error : Contexts \cup {None}])
      BY <1>1 DEF ScopesInv, TypeOK, Request
    <2>2. req[r].log = <<>>
      BY <1>3, <2>1, EmptySeq
    <2> QED
      BY <1>1, <2>2
  <1>7. RequestsInv'
    <2> SUFFICES ASSUME NEW s \in Requests
                 PROVE  /\ req'[s].stage = "unused" => req'[s].ctx = None /\ req'[s].error = None
                        /\ req'[s].stage # "unused" => req'[s].ctx \in Contexts
                                                        /\ req'[s].rid # None
                        /\ req'[s].stage # "completed" => req'[s].ender = None
                        /\ Len(req'[s].log) = (IF req'[s].stage = "completed" THEN 1 ELSE 0)
      BY DEF RequestsInv
    <2>1. CASE s = r
      BY <1>1, <1>2, <1>6, <2>1
    <2>2. CASE s # r
      BY <1>1, <2>2 DEF ScopesInv, RequestsInv
    <2> QED
      BY <2>1, <2>2
  <1>8. /\ \A d \in Contexts : OwnRequests(d) \subseteq Requests
        /\ \A d \in Contexts \ {c} : OwnRequests(d)' = OwnRequests(d)
        /\ OwnRequests(c)' = OwnRequests(c) \ {r}
        /\ req[r].ctx = c <=> r \in OwnRequests(c)
    <2>1. \A d \in Contexts : OwnRequests(d) \subseteq Requests
      BY DEF OwnRequests
    <2>2. r \in OwnRequests(c) <=> req[r].ctx = c
      BY <1>1, <1>3, ScopesAssumption DEF OwnRequests
    <2>3. ASSUME NEW d \in Contexts, d # c PROVE OwnRequests(d)' = OwnRequests(d)
      <3>1. req'[r].ender # d /\ req[r].ender # d
        BY <1>1, <1>3, <2>3, ScopesAssumption
      <3>2. \A s \in Requests : req'[s].ender # d <=> req[s].ender # d
        BY <1>1, <3>1
      <3> QED
        BY <1>4, <3>2 DEF OwnRequests
    <2>4. OwnRequests(c)' = OwnRequests(c) \ {r}
      BY <1>1, <1>4 DEF OwnRequests
    <2> QED
      BY <2>1, <2>2, <2>3, <2>4
  <1>9. RequestChains'
    <2> SUFFICES ASSUME NEW d \in Contexts
                 PROVE  /\ requestState'[d] \in OwnRequests(d)' \cup {ctx[d].request}
                        /\ \A s \in OwnRequests(d)' :
                              /\ req[s].old \in OwnRequests(d)' \cup {ctx[d].request}
                              /\ req[s].old \in OwnRequests(d)' =>
                                    /\ req[s].old # requestState'[d]
                                    /\ \A t \in OwnRequests(d)' :
                                          req[t].old = req[s].old => t = s
      <3>1. \A d \in Contexts : OwnRequests(d)' \subseteq Requests
        BY <1>8
      <3> QED
        BY <1>1, <1>4, <3>1 DEF RequestChains
    <2>1. /\ requestState[d] \in OwnRequests(d) \cup {ctx[d].request}
          /\ \A s \in OwnRequests(d) :
                /\ req[s].old \in OwnRequests(d) \cup {ctx[d].request}
                /\ req[s].old \in OwnRequests(d) =>
                      /\ req[s].old # requestState[d]
                      /\ \A t \in OwnRequests(d) : req[t].old = req[s].old => t = s
      BY DEF ScopesInv, RequestChains
    <2>2. CASE d # c
      BY <1>1, <1>8, <2>1, <2>2
    <2>3. CASE d = c /\ r \notin OwnRequests(c)
      BY <1>1, <1>8, <2>1, <2>3
    <2>4. CASE d = c /\ r \in OwnRequests(c)
      <3>1. requestState'[c] = req[r].old
        BY <1>1, <1>8, <2>4
      <3>2. \A s \in OwnRequests(c) : req[s].old \in OwnRequests(c) => req[s].old # r
        BY <2>1, <2>4
      <3>3. req[r].old \in (OwnRequests(c) \ {r}) \cup {ctx[c].request}
        BY <2>1, <2>4, <3>2
      <3>4. ASSUME NEW s \in OwnRequests(c) \ {r}
            PROVE  /\ req[s].old \in (OwnRequests(c) \ {r}) \cup {ctx[c].request}
                   /\ req[s].old \in OwnRequests(c) => req[s].old # req[r].old
        BY <2>1, <2>4, <3>2, SMTT(60)
      <3> HIDE <1>1
      <3> QED
        BY <1>8, <2>1, <2>4, <3>1, <3>3, <3>4
    <2> QED
      BY <2>2, <2>3, <2>4
  <1>10. GivenInv'
    <2>1. \A d \in Contexts : ctx[d].request \in Requests \cup {None}
      BY DEF ScopesInv, TypeOK, Context
    <2> QED
      BY <1>1, <1>4, <2>1 DEF ScopesInv, GivenInv, RestoredBy
  <1>11. OperationPart'
    BY <1>1, OperationPartStep DEF ScopesInv, OperationPart
  <1>12. error # None => req[r].ctx \in ctx[error].from
    BY <1>1, <1>2, SMTT(60) DEF ScopesInv, ErrorsInv
  <1>13. ErrorsInv'
    BY <1>1, <1>12, SMTT(60) DEF ScopesInv, ErrorsInv
  <1>14. ErrorsStayInFlow'
    <2>1. ASSUME NEW s \in Requests, NEW i \in 1..Len(req'[s].log),
                 req'[s].log[i].error # None
          PROVE  /\ req'[s].ctx \in ctx[req'[s].log[i].error].from
                 /\ req'[s].log[i].outcome = "error"
      <3>1. CASE s = r
        <4>1. i = 1
          BY <1>6, <2>1, <3>1, SMTT(60)
        <4>2. req'[s].log[i] = [outcome |-> outcome, error |-> error]
          BY <1>6, <3>1, <4>1, SMTT(60)
        <4> QED
          BY <1>1, <1>4, <1>12, <2>1, <3>1, <4>2, SMTT(60)
      <3>2. CASE s # r
        BY <1>1, <2>1, <3>2 DEF ScopesInv, ErrorsStayInFlow
      <3> QED
        BY <3>1, <3>2
    <2> QED
      BY <1>1, <2>1, ZenonT(60) DEF ScopesInv, ErrorsStayInFlow
  <1> QED
    BY <1>1, <1>5, <1>7, <1>9, <1>10, <1>11, <1>13, <1>14 DEF ScopesInv, OperationPart
-------------------------------------------------------------------------------
(* Blocks are entered and left *)

\* Around depends only on the blocks before the one asked about.
LEMMA AroundFacts ==
    ASSUME NEW s, NEW g, NEW v, NEW i \in Nat
    PROVE  /\ \A t : /\ Around(s, g, i, v)
                     /\ \A k \in 1..(i - 1) : t[k] = s[k]
                     => Around(t, g, i, v)
           /\ i > 0 /\ s[i].op = None => (Around(s, g, i + 1, v) <=> Around(s, g, i, v))
           /\ i > 0 /\ v # None /\ s[i].op = v => Around(s, g, i + 1, v)
  <1>1. ASSUME NEW t, Around(s, g, i, v), \A k \in 1..(i - 1) : t[k] = s[k]
        PROVE  Around(t, g, i, v)
    <2>1. CASE v = g /\ \A k \in 1..(i - 1) : s[k].op = None
      BY <1>1, <2>1 DEF Around
    <2>2. ASSUME v # None, NEW j \in 1..(i - 1), s[j].op = v,
                 \A k \in (j + 1)..(i - 1) : s[k].op = None
          PROVE  Around(t, g, i, v)
      <3>1. t[j].op = v /\ \A k \in (j + 1)..(i - 1) : t[k].op = None
        BY <1>1, <2>2
      <3> QED
        BY <2>2, <3>1 DEF Around
    <2> QED
      BY <1>1, <2>1, <2>2 DEF Around
  <1>2. ASSUME i > 0, s[i].op = None, Around(s, g, i + 1, v) PROVE Around(s, g, i, v)
    <2>1. CASE v = g /\ \A k \in 1..i : s[k].op = None
      BY <1>2, <2>1 DEF Around
    <2>2. ASSUME v # None, NEW j \in 1..i, s[j].op = v,
                 \A k \in (j + 1)..i : s[k].op = None
          PROVE  Around(s, g, i, v)
      <3>1. j # i
        BY <1>2, <2>2
      <3> QED
        BY <2>2, <3>1 DEF Around
    <2>3. (i + 1) - 1 = i
      OBVIOUS
    <2> QED
      BY <1>2, <2>1, <2>2, <2>3 DEF Around
  <1>3. ASSUME i > 0, s[i].op = None, Around(s, g, i, v) PROVE Around(s, g, i + 1, v)
    <2>1. CASE v = g /\ \A k \in 1..(i - 1) : s[k].op = None
      BY <1>3, <2>1 DEF Around
    <2>2. ASSUME v # None, NEW j \in 1..(i - 1), s[j].op = v,
                 \A k \in (j + 1)..(i - 1) : s[k].op = None
          PROVE  Around(s, g, i + 1, v)
      <3>1. j \in 1..((i + 1) - 1) /\ \A k \in (j + 1)..((i + 1) - 1) : s[k].op = None
        BY <1>3, <2>2
      <3> QED
        BY <2>2, <3>1 DEF Around
    <2> QED
      BY <1>3, <2>1, <2>2 DEF Around
  <1>4. ASSUME i > 0, v # None, s[i].op = v PROVE Around(s, g, i + 1, v)
    <2>1. i \in 1..((i + 1) - 1) /\ \A k \in (i + 1)..((i + 1) - 1) : s[k].op = None
      BY <1>4
    <2> QED
      BY <1>4, <2>1 DEF Around
  <1> QED
    BY <1>1, <1>2, <1>3, <1>4

LEMMA PushFacts ==
    ASSUME TypeOK, TypeOK', NEW c \in Contexts, NEW f \in Frame,
           ctx' = [ctx EXCEPT ![c].frames = Append(@, f)]
    PROVE  /\ \A e \in Contexts :
                 /\ ctx'[e].alive = ctx[e].alive /\ ctx'[e].from = ctx[e].from
                 /\ ctx'[e].request = ctx[e].request /\ ctx'[e].operation = ctx[e].operation
                 /\ ctx'[e].past = ctx[e].past /\ ctx'[e].restored = ctx[e].restored
           /\ \A e \in Contexts \ {c} :
                 ctx'[e] = ctx[e] /\ OpenOperations(e)' = OpenOperations(e)
           /\ Len(ctx[c].frames) \in Nat
           /\ Len(ctx'[c].frames) = Len(ctx[c].frames) + 1
           /\ ctx'[c].frames[Len(ctx[c].frames) + 1] = f
           /\ \A i \in 1..Len(ctx[c].frames) : ctx'[c].frames[i] = ctx[c].frames[i]
           /\ OpenOperations(c)' = OpenOperations(c) \cup ({f.op} \ {None})
  <1> DEFINE s == ctx[c]
             n == Len(s.frames)
             t == [s EXCEPT !.frames = Append(s.frames, f)]
  <1>1. s \in Context /\ ctx'[c] \in Context
    BY DEF TypeOK
  <1>2. ctx'[c] = t /\ \A e \in Contexts \ {c} : ctx'[e] = ctx[e]
    BY DEF TypeOK
  <1>3. /\ n \in Nat
        /\ Append(s.frames, f) \in Seq(Frame)
        /\ Len(Append(s.frames, f)) = n + 1
        /\ Append(s.frames, f)[n + 1] = f
        /\ \A i \in 1..n : Append(s.frames, f)[i] = s.frames[i]
    BY <1>1, FrameFacts
  <1>4. /\ t.frames = Append(s.frames, f) /\ t.alive = s.alive /\ t.from = s.from
        /\ t.request = s.request /\ t.operation = s.operation
        /\ t.past = s.past /\ t.restored = s.restored
    BY <1>1, <1>3, FrameFacts
  <1> HIDE DEF t
  <1>5. \A e \in Contexts \ {c} : OpenOperations(e)' = OpenOperations(e)
    BY <1>2 DEF OpenOperations
  <1>6. OpenOperations(c)' = OpenOperations(c) \cup ({f.op} \ {None})
    <2>1. \A o : o \in OpenOperations(c)' <=>
                   /\ o # None /\ o \in Operations
                   /\ \E i \in 1..Len(ctx'[c].frames) : ctx'[c].frames[i].op = o
      BY <1>1, FrameOperations DEF OpenOperations
    <2>2. \A o : o \in OpenOperations(c) <=>
                   /\ o # None /\ o \in Operations
                   /\ \E i \in 1..n : s.frames[i].op = o
      BY <1>1, FrameOperations DEF OpenOperations
    <2>3. \A o : (\E i \in 1..Len(ctx'[c].frames) : ctx'[c].frames[i].op = o) <=>
                   f.op = o \/ \E i \in 1..n : s.frames[i].op = o
      <3>1. 1..(n + 1) = (1..n) \cup {n + 1}
        BY <1>3
      <3> QED
        BY <1>2, <1>3, <1>4, <3>1
    <2>4. f.op \in Operations \cup {None}
      BY DEF Frame
    <2> QED
      BY <2>1, <2>2, <2>3, <2>4, SMTT(60)
  <1> QED
    BY <1>2, <1>3, <1>4, <1>5, <1>6

LEMMA PopFacts ==
    ASSUME TypeOK, TypeOK', NEW c \in Contexts, ctx[c].frames # <<>>,
           ctx' = [ctx EXCEPT ![c].frames = Front(@)]
    PROVE  /\ \A e \in Contexts :
                 /\ ctx'[e].alive = ctx[e].alive /\ ctx'[e].from = ctx[e].from
                 /\ ctx'[e].request = ctx[e].request /\ ctx'[e].operation = ctx[e].operation
                 /\ ctx'[e].past = ctx[e].past /\ ctx'[e].restored = ctx[e].restored
           /\ \A e \in Contexts \ {c} :
                 ctx'[e] = ctx[e] /\ OpenOperations(e)' = OpenOperations(e)
           /\ Len(ctx[c].frames) \in Nat \ {0}
           /\ Last(ctx[c].frames) = ctx[c].frames[Len(ctx[c].frames)]
           /\ Len(ctx'[c].frames) = Len(ctx[c].frames) - 1
           /\ \A i \in 1..(Len(ctx[c].frames) - 1) : ctx'[c].frames[i] = ctx[c].frames[i]
           /\ \A o : o \in OpenOperations(c)' <=>
                 /\ o # None /\ o \in Operations
                 /\ \E i \in 1..(Len(ctx[c].frames) - 1) : ctx[c].frames[i].op = o
  <1> DEFINE s == ctx[c]
             n == Len(s.frames)
             t == [s EXCEPT !.frames = Front(s.frames)]
  <1>1. s \in Context /\ ctx'[c] \in Context
    BY DEF TypeOK
  <1>2. ctx'[c] = t /\ \A e \in Contexts \ {c} : ctx'[e] = ctx[e]
    BY DEF TypeOK
  <1>3. /\ n \in Nat \ {0} /\ Last(s.frames) = s.frames[n]
        /\ Front(s.frames) \in Seq(Frame)
        /\ Len(Front(s.frames)) = n - 1
        /\ \A i \in 1..(n - 1) : Front(s.frames)[i] = s.frames[i]
    BY <1>1, FrameFacts
  <1>4. /\ t.frames = Front(s.frames) /\ t.alive = s.alive /\ t.from = s.from
        /\ t.request = s.request /\ t.operation = s.operation
        /\ t.past = s.past /\ t.restored = s.restored
    BY <1>1, <1>3, FrameFacts
  <1> HIDE DEF t
  <1>5. \A e \in Contexts \ {c} : OpenOperations(e)' = OpenOperations(e)
    BY <1>2 DEF OpenOperations
  <1>6. \A o : o \in OpenOperations(c)' <=>
                 /\ o # None /\ o \in Operations
                 /\ \E i \in 1..Len(ctx'[c].frames) : ctx'[c].frames[i].op = o
    BY <1>1, FrameOperations DEF OpenOperations
  <1> QED
    BY <1>2, <1>3, <1>4, <1>5, <1>6, SMTT(60)

\* What the old blocks keep in a step that enters one for o.
OldBlocks(o) ==
    \A e \in Contexts : \A i \in 1..Len(ctx[e].frames) :
        LET f == ctx[e].frames[i]
        IN  /\ ctx'[e].frames[i] = f
            /\ f.manager \in Operations /\ f.manager # o /\ f.op \in {None, f.manager}
            /\ op'[f.manager] = op[f.manager] /\ held'[f.manager] = held[f.manager]

\* A new operation is not that of an open block, and was not given.
LEMMA EnterKeeps ==
    ASSUME ScopesInv, TypeOK', NEW c \in Contexts, ctx[c].alive, NEW o \in Operations,
           NEW f \in Frame, UNCHANGED <<requestState, req, messages>>,
           op[o].stage = "unused",
           \A p \in Operations \ {o} : op'[p] = op[p],
           \A m \in Operations \ {o} : held'[m] = held[m],
           ctx' = [ctx EXCEPT ![c].frames = Append(@, f)]
    PROVE  /\ OldBlocks(o)
           /\ \A e \in Contexts : o \notin OpenOperations(e)
           /\ MessagesInv' /\ ContextsInv' /\ RequestPart' /\ GivenInv'
  <1>1. /\ \A e \in Contexts :
              /\ ctx'[e].alive = ctx[e].alive /\ ctx'[e].from = ctx[e].from
              /\ ctx'[e].request = ctx[e].request /\ ctx'[e].operation = ctx[e].operation
              /\ ctx'[e].past = ctx[e].past /\ ctx'[e].restored = ctx[e].restored
        /\ \A e \in Contexts \ {c} : ctx'[e] = ctx[e]
        /\ \A i \in 1..Len(ctx[c].frames) : ctx'[c].frames[i] = ctx[c].frames[i]
    BY PushFacts DEF ScopesInv
  <1>2. OldBlocks(o)
    <2> SUFFICES ASSUME NEW e \in Contexts, NEW i \in 1..Len(ctx[e].frames)
                 PROVE  LET g == ctx[e].frames[i]
                        IN  /\ ctx'[e].frames[i] = g
                            /\ g.manager \in Operations /\ g.manager # o
                            /\ g.op \in {None, g.manager}
                            /\ op'[g.manager] = op[g.manager]
                            /\ held'[g.manager] = held[g.manager]
      BY SMTT(60) DEF OldBlocks
    <2>1. /\ ctx[e].frames[i].manager \in Operations
          /\ ctx[e].frames[i].op \in {None, ctx[e].frames[i].manager}
          /\ op[ctx[e].frames[i].manager].stage # "unused"
      BY DEF ScopesInv, FramesInv
    <2>2. ctx'[e].frames[i] = ctx[e].frames[i]
      BY <1>1
    <2> QED
      BY <2>1, <2>2, SMTT(60)
  <1>3. \A e \in Contexts : o \notin OpenOperations(e)
    <2> SUFFICES ASSUME NEW e \in Contexts, o \in OpenOperations(e)
                 PROVE  FALSE
      OBVIOUS
    <2>1. ctx[e] \in Context
      BY DEF ScopesInv, TypeOK
    <2>2. PICK i \in 1..Len(ctx[e].frames) : ctx[e].frames[i].op = o /\ o # None
      BY <2>1, OpenFacts
    <2> QED
      BY <1>2, <2>2 DEF OldBlocks
  <1>4. MessagesInv' /\ ContextsInv'
    BY <1>1 DEF ScopesInv, MessagesInv, ContextsInv
  <1>5. RequestPart'
    BY <1>1, RequestPartStep DEF ScopesInv, RequestPart
  <1>6. GivenInv'
    <2> SUFFICES ASSUME NEW e \in Contexts
                 PROVE  /\ ctx[e].request # None =>
                              /\ req[ctx[e].request].rid \in ctx[e].past
                              /\ req[ctx[e].request].ctx \in ctx[e].from
                        /\ ctx[e].operation # None =>
                              /\ op'[ctx[e].operation].stage # "unused"
                              /\ op'[ctx[e].operation].rid \in ctx[e].past \cup {None}
                              /\ op'[ctx[e].operation].ctx \in ctx[e].from
                        /\ ctx[e].restored \subseteq
                              IF ctx[e].operation = None THEN {}
                              ELSE op'[ctx[e].operation].restored
      BY <1>1 DEF GivenInv, RestoredBy
    <2>1. ctx[e].operation # None => op'[ctx[e].operation] = op[ctx[e].operation]
      <3>1. ctx[e].operation \in Operations \cup {None}
        BY DEF ScopesInv, TypeOK, Context
      <3>2. ctx[e].operation # None => op[ctx[e].operation].stage # "unused"
        BY DEF ScopesInv, GivenInv
      <3> QED
        BY <3>1, <3>2
    <2> QED
      BY <2>1 DEF ScopesInv, GivenInv, RestoredBy
  <1> QED
    BY <1>2, <1>3, <1>4, <1>5, <1>6

LEMMA EnterScopeStep ==
    ASSUME ScopesInv, NEW c \in Contexts, ctx[c].alive, NEW o \in Operations,
           NEW remote \in messages \cup {NoMessage}, NEW own \in Attributes,
           EnterScope(c, o, o, remote, own)
    PROVE  ScopesInv'
  <1> DEFINE f == [manager |-> o, op |-> o]
             n == Len(ctx[c].frames)
  <1>0. TypeOK /\ RequestsInv /\ MessagesInv
    BY DEF ScopesInv
  <1>a. Entered(c, o, remote)
    BY <1>0, EnterScopeFacts
  <1>1. /\ TypeOK'
        /\ UNCHANGED <<requestState, req, messages>>
        /\ op[o].stage = "unused"
        /\ op'[o].stage = "open" /\ op'[o].ctx = c /\ op'[o].old = operationState[c]
        /\ op'[o].rid = IF remote.rid # None THEN remote.rid
                        ELSE IF requestState[c] # None THEN req[requestState[c]].rid
                        ELSE None
        /\ op'[o].past = remote.past \cup Past(c)
        /\ op'[o].restored = KeysOf(remote.attrs) \cup Restored(c)
        /\ KeysOf(remote.attrs) \cup (KeysOf(ActiveAttributes(c)) \cap DispatchKeys)
              \subseteq KeysOf(op'[o].attrs)
        /\ op'[o].error = op[o].error /\ op'[o].log = op[o].log
        /\ \A p \in Operations \ {o} : op'[p] = op[p]
        /\ operationState'[c] = o
        /\ \A d \in Contexts \ {c} : operationState'[d] = operationState[d]
        /\ held'[o] = o /\ \A m \in Operations \ {o} : held'[m] = held[m]
    BY <1>a DEF Entered
  <1>2. /\ f \in Frame /\ f.op = o /\ f.manager = o /\ o # None
        /\ ctx' = [ctx EXCEPT ![c].frames = Append(@, f)]
    <2>1. ctx' = [ctx EXCEPT ![c].frames = Append(@, f)]
      BY <1>a DEF Entered
    <2> QED
      BY <2>1, ScopesAssumption DEF Frame
  <1> HIDE DEF f
  <1>3. /\ OldBlocks(o)
        /\ \A e \in Contexts : o \notin OpenOperations(e)
        /\ MessagesInv' /\ ContextsInv' /\ RequestPart' /\ GivenInv'
    BY <1>1, <1>2, EnterKeeps, ZenonT(60)
  <1>4. /\ \A e \in Contexts :
              /\ ctx'[e].from = ctx[e].from /\ ctx'[e].operation = ctx[e].operation
              /\ ctx'[e].restored = ctx[e].restored
        /\ \A e \in Contexts \ {c} :
              ctx'[e] = ctx[e] /\ OpenOperations(e)' = OpenOperations(e)
        /\ n \in Nat /\ Len(ctx'[c].frames) = n + 1
        /\ ctx'[c].frames[n + 1] = f
        /\ \A i \in 1..n : ctx'[c].frames[i] = ctx[c].frames[i]
        /\ OpenOperations(c)' = OpenOperations(c) \cup {o}
    <2>1. TypeOK' /\ {f.op} \ {None} = {o}
      BY <1>1, <1>2
    <2>2. OpenOperations(c)' = OpenOperations(c) \cup ({f.op} \ {None})
      BY <1>0, <1>2, <2>1, PushFacts
    <2>3. /\ \A e \in Contexts :
                /\ ctx'[e].from = ctx[e].from /\ ctx'[e].operation = ctx[e].operation
                /\ ctx'[e].restored = ctx[e].restored
          /\ \A e \in Contexts \ {c} :
                ctx'[e] = ctx[e] /\ OpenOperations(e)' = OpenOperations(e)
          /\ n \in Nat /\ Len(ctx'[c].frames) = n + 1
          /\ ctx'[c].frames[n + 1] = f
          /\ \A i \in 1..n : ctx'[c].frames[i] = ctx[c].frames[i]
      BY <1>0, <1>2, <2>1, PushFacts, ZenonT(60)
    <2> QED
      BY <2>1, <2>2, <2>3
  <1>5. 1..(n + 1) = (1..n) \cup {n + 1}
    BY <1>4
  <1>6. OperationsInv'
    <2>1. /\ op[o].error = None /\ op[o].log = <<>>
      BY <1>1 DEF ScopesInv, OperationsInv
    <2>2. op'[o].rid \in op'[o].past \cup {None}
      <3>1. remote.rid \in remote.past \cup {None}
        BY <1>0 DEF MessagesInv, NoMessage
      <3>2. requestState[c] # None => req[requestState[c]].rid \in Past(c)
        BY ActiveRequestKnown DEF ScopesInv
      <3> QED
        BY <1>1, <3>1, <3>2
    <2>3. op'[o].restored \subseteq KeysOf(op'[o].attrs)
      BY <1>1, ActiveKnown
    <2> SUFFICES ASSUME NEW p \in Operations
                 PROVE  /\ op'[p].stage = "unused" => op'[p].error = None
                        /\ op'[p].stage # "completed" => op'[p].log = <<>>
                        /\ Len(op'[p].log) <= 1
                        /\ op'[p].stage = "open" =>
                              \E d \in Contexts : p \in OpenOperations(d)'
                        /\ op'[p].rid \in op'[p].past \cup {None}
                        /\ op'[p].restored \subseteq KeysOf(op'[p].attrs)
      BY DEF OperationsInv
    <2>4. CASE p = o
      BY <1>1, <1>4, <2>1, <2>2, <2>3, <2>4
    <2>5. CASE p # o
      <3>1. op'[p] = op[p]
        BY <1>1, <2>5, SMTT(60)
      <3>2. \A d \in Contexts : OpenOperations(d) \subseteq OpenOperations(d)'
        BY <1>4, SMTT(60)
      <3> QED
        BY <3>1, <3>2, SMTT(60) DEF ScopesInv, OperationsInv
    <2> QED
      BY <2>4, <2>5
  <1>7. FramesInv'
    <2> SUFFICES ASSUME NEW e \in Contexts, NEW i \in 1..Len(ctx'[e].frames)
                 PROVE  LET g == ctx'[e].frames[i]
                        IN  /\ g.manager \in Operations /\ g.op \in {None, g.manager}
                            /\ held'[g.manager] = g.op
                            /\ op'[g.manager].stage # "unused"
                            /\ g.op # None =>
                                  /\ op'[g.op].stage = "open" /\ op'[g.op].ctx = e
                                  /\ \A j \in 1..Len(ctx'[e].frames) :
                                        ctx'[e].frames[j].op = g.op => j = i
      BY SMTT(60) DEF FramesInv
    <2>1. \A d \in Contexts : \A j \in 1..Len(ctx[d].frames) :
             /\ ctx'[d].frames[j] = ctx[d].frames[j] /\ ctx[d].frames[j].op # o
      BY <1>2, <1>3, SMTT(60) DEF OldBlocks
    <2>2. CASE e = c /\ i = n + 1
      <3>1. ctx'[e].frames[i] = f /\ f.manager = o /\ f.op = o /\ o \in Operations
        BY <1>2, <1>4, <2>2
      <3>2. held'[o] = o /\ op'[o].stage = "open" /\ op'[o].ctx = e
        BY <1>1, <2>2
      <3>3. ASSUME NEW j \in 1..Len(ctx'[e].frames), ctx'[e].frames[j].op = o
            PROVE  j = i
        <4>1. j \in 1..n => ctx'[c].frames[j] = ctx[c].frames[j] /\ ctx[c].frames[j].op # o
          BY <2>1
        <4> QED
          BY <1>4, <1>5, <2>2, <3>3, <4>1
      <3> QED
        BY <3>1, <3>2, <3>3, Zenon
    <2>3. CASE i \in 1..Len(ctx[e].frames)
      <3> DEFINE g == ctx[e].frames[i]
      <3>1. /\ ctx'[e].frames[i] = g
            /\ g.manager \in Operations /\ g.manager # o /\ g.op \in {None, g.manager}
            /\ op'[g.manager] = op[g.manager] /\ held'[g.manager] = held[g.manager]
        BY <1>3, <2>3, SMTT(60) DEF OldBlocks
      <3>2. /\ held[g.manager] = g.op
            /\ op[g.manager].stage # "unused"
            /\ g.op # None =>
                  /\ op[g.op].stage = "open" /\ op[g.op].ctx = e
                  /\ \A j \in 1..Len(ctx[e].frames) : ctx[e].frames[j].op = g.op => j = i
        BY <2>3 DEF ScopesInv, FramesInv
      <3>3. \A j \in 1..Len(ctx'[e].frames) :
               \/ j \in 1..Len(ctx[e].frames) /\ ctx'[e].frames[j] = ctx[e].frames[j]
               \/ ctx'[e].frames[j].op = o
        BY <1>2, <1>4, <1>5
      <3> HIDE DEF g
      <3> QED
        BY <3>1, <3>2, <3>3, SMTT(60)
    <2>4. (e = c /\ i = n + 1) \/ i \in 1..Len(ctx[e].frames)
      BY <1>2, <1>4, <1>5
    <2> QED
      BY <2>2, <2>3, <2>4, ZenonT(60)
  <1>8. OperationChains'
    <2> SUFFICES ASSUME NEW e \in Contexts
                 PROVE  /\ Around(ctx'[e].frames, ctx[e].operation,
                                  Len(ctx'[e].frames) + 1, operationState'[e])
                        /\ \A i \in 1..Len(ctx'[e].frames) : ctx'[e].frames[i].op # None =>
                              Around(ctx'[e].frames, ctx[e].operation, i,
                                     op'[ctx'[e].frames[i].op].old)
      BY <1>4 DEF OperationChains
    <2>1. /\ Around(ctx[e].frames, ctx[e].operation, Len(ctx[e].frames) + 1,
                    operationState[e])
          /\ \A i \in 1..Len(ctx[e].frames) : ctx[e].frames[i].op # None =>
                Around(ctx[e].frames, ctx[e].operation, i, op[ctx[e].frames[i].op].old)
      BY SMTT(60) DEF ScopesInv, OperationChains
    <2>2. \A i \in 1..Len(ctx[e].frames) : ctx[e].frames[i].op # None =>
             op'[ctx[e].frames[i].op] = op[ctx[e].frames[i].op]
      BY <1>3 DEF OldBlocks
    <2>3. CASE e # c
      BY <1>1, <1>4, <2>1, <2>2, <2>3, SMTT(30)
    <2>4. CASE e = c
      <3>1. \A i \in 1..(n + 1) : \A v : Around(ctx[c].frames, ctx[c].operation, i, v) =>
               Around(ctx'[c].frames, ctx[c].operation, i, v)
        <4> SUFFICES ASSUME NEW i \in 1..(n + 1), NEW v,
                            Around(ctx[c].frames, ctx[c].operation, i, v)
                     PROVE  Around(ctx'[c].frames, ctx[c].operation, i, v)
          OBVIOUS
        <4>1. i \in Nat /\ \A k \in 1..(i - 1) : ctx'[c].frames[k] = ctx[c].frames[k]
          BY <1>4, SMTT(60)
        <4> QED
          BY <4>1, AroundFacts
      <3>2. Around(ctx'[c].frames, ctx[c].operation, (n + 1) + 1, o)
        <4>1. n + 1 \in Nat /\ n + 1 > 0 /\ ctx'[c].frames[n + 1].op = o
          BY <1>2, <1>4
        <4> QED
          BY <1>2, <4>1, AroundFacts
      <3>3. Around(ctx'[c].frames, ctx[c].operation, n + 1, op'[o].old)
        BY <1>1, <1>5, <2>1, <2>4, <3>1
      <3>4. ASSUME NEW i \in 1..n, ctx'[c].frames[i].op # None
            PROVE  Around(ctx'[c].frames, ctx[c].operation, i,
                          op'[ctx'[c].frames[i].op].old)
        BY <1>4, <1>5, <2>1, <2>2, <2>4, <3>1, <3>4, ZenonT(60)
      <3>5. ASSUME NEW i \in 1..Len(ctx'[c].frames), ctx'[c].frames[i].op # None
            PROVE  Around(ctx'[c].frames, ctx[c].operation, i,
                          op'[ctx'[c].frames[i].op].old)
        <4>1. CASE i = n + 1
          <5>1. ctx'[c].frames[i].op = o
            BY <1>2, <1>4, <4>1
          <5> QED
            BY <3>3, <4>1, <5>1
        <4>2. CASE i \in 1..n
          BY <3>4, <3>5, <4>2
        <4>3. i = n + 1 \/ i \in 1..n
          BY <1>4, <1>5
        <4> QED
          BY <4>1, <4>2, <4>3
      <3>6. Around(ctx'[c].frames, ctx[c].operation, Len(ctx'[c].frames) + 1,
                   operationState'[c])
        BY <1>1, <1>4, <3>2
      <3> QED
        BY <2>4, <3>5, <3>6, Zenon
    <2> QED
      BY <2>3, <2>4
  <1>9. RestoredInv'
    <2> SUFFICES ASSUME NEW e \in Contexts, NEW i \in 1..Len(ctx'[e].frames),
                        ctx'[e].frames[i].op # None
                 PROVE  /\ ctx[e].restored \subseteq op'[ctx'[e].frames[i].op].restored
                        /\ \A j \in 1..(i - 1) : ctx'[e].frames[j].op # None =>
                              op'[ctx'[e].frames[j].op].restored
                                 \subseteq op'[ctx'[e].frames[i].op].restored
      BY <1>4 DEF RestoredInv
    <2>1. \A j \in 1..Len(ctx[e].frames) :
             /\ ctx'[e].frames[j] = ctx[e].frames[j]
             /\ ctx[e].frames[j].op # None =>
                   op'[ctx[e].frames[j].op] = op[ctx[e].frames[j].op]
      BY <1>3, SMTT(60) DEF OldBlocks
    <2>2. CASE e = c /\ i = n + 1
      <3>1. ctx[c].restored \subseteq op'[o].restored
        BY <1>1 DEF Restored
      <3>2. ASSUME NEW j \in 1..Len(ctx[e].frames), ctx[e].frames[j].op # None
            PROVE  op[ctx[e].frames[j].op].restored \subseteq op'[o].restored
        <4>1. ctx[e].frames[j].op \in OpenOperations(e)
          BY <1>0, <3>2, OpenFacts DEF TypeOK
        <4>2. op'[o].restored = KeysOf(remote.attrs) \cup Restored(e)
          BY <1>1, <2>2
        <4> QED
          BY <4>1, <4>2 DEF Restored
      <3>3. ctx'[e].frames[i].op = o /\ 1..(i - 1) = 1..Len(ctx[e].frames)
        BY <1>2, <1>4, <2>2, SMTT(60)
      <3>4. ctx[e].restored \subseteq op'[ctx'[e].frames[i].op].restored
        BY <2>2, <3>1, <3>3, SMTT(60)
      <3>5. ASSUME NEW j \in 1..(i - 1), ctx'[e].frames[j].op # None
            PROVE  op'[ctx'[e].frames[j].op].restored
                      \subseteq op'[ctx'[e].frames[i].op].restored
        <4>1. j \in 1..Len(ctx[e].frames)
          BY <3>3, SMTT(60)
        <4>2. /\ ctx'[e].frames[j] = ctx[e].frames[j] /\ ctx[e].frames[j].op # None
              /\ op'[ctx[e].frames[j].op] = op[ctx[e].frames[j].op]
          BY <2>1, <3>5, <4>1, SMTT(60)
        <4>3. op[ctx[e].frames[j].op].restored \subseteq op'[o].restored
          BY <3>2, <4>1, <4>2
        <4> QED
          BY <3>3, <4>2, <4>3, ZenonT(60)
      <3> QED
        BY <3>4, <3>5
    <2>3. CASE i \in 1..Len(ctx[e].frames)
      <3>1. /\ ctx[e].frames[i].op # None
            /\ ctx[e].restored \subseteq op[ctx[e].frames[i].op].restored
            /\ \A j \in 1..(i - 1) : ctx[e].frames[j].op # None =>
                  op[ctx[e].frames[j].op].restored
                     \subseteq op[ctx[e].frames[i].op].restored
        BY <2>1, <2>3 DEF ScopesInv, RestoredInv
      <3>2. \A j \in 1..(i - 1) : j \in 1..Len(ctx[e].frames)
        <4>1. Len(ctx[e].frames) \in Nat
          BY <1>0, FrameFacts DEF TypeOK
        <4> QED
          BY <2>3, <4>1
      <3> QED
        BY <2>1, <2>3, <3>1, <3>2, ZenonT(60)
    <2>4. (e = c /\ i = n + 1) \/ i \in 1..Len(ctx[e].frames)
      BY <1>2, <1>4, <1>5
    <2> QED
      BY <2>2, <2>3, <2>4, ZenonT(60)
  <1>10. ErrorsInv' /\ ErrorsStayInFlow'
    <2>1. op'[o].error = None /\ Len(op'[o].log) = 0
      BY <1>1, SMTT(60) DEF ScopesInv, OperationsInv
    <2>2. /\ \A r \in Requests : req[r].error # None => req[r].ctx \in ctx[req[r].error].from
          /\ \A p \in Operations : op[p].error # None => op[p].ctx \in ctx[op[p].error].from
      BY DEF ScopesInv, ErrorsInv
    <2>3. ErrorsInv'
      BY <1>0, <1>1, <1>4, <2>1, <2>2, ErrorTypes, SMTT(60) DEF ErrorsInv
    <2>4. ErrorsStayInFlow'
      BY <1>0, <1>1, <1>4, <2>1, ErrorTypes, SMTT(60) DEF ScopesInv, ErrorsStayInFlow
    <2> QED
      BY <2>3, <2>4
  <1> QED
    BY <1>1, <1>3, <1>6, <1>7, <1>8, <1>9, <1>10 DEF ScopesInv, RequestPart

\* The block runs without an operation.
LEMMA EnterFailsStep ==
    ASSUME ScopesInv, NEW c \in Contexts, ctx[c].alive, NEW o \in Operations,
           EnterFails(c, o)
    PROVE  ScopesInv'
  <1> DEFINE f == [manager |-> o, op |-> None]
             n == Len(ctx[c].frames)
  <1>0. TypeOK
    BY DEF ScopesInv
  <1>1. /\ TypeOK'
        /\ UNCHANGED <<requestState, operationState, req, messages>>
        /\ op[o].stage = "unused" /\ op'[o].stage = "completed"
        /\ op'[o].rid = op[o].rid /\ op'[o].attrs = op[o].attrs
        /\ op'[o].past = op[o].past /\ op'[o].restored = op[o].restored
        /\ op'[o].error = op[o].error /\ op'[o].log = op[o].log
        /\ \A p \in Operations \ {o} : op'[p] = op[p]
        /\ held'[o] = None /\ \A m \in Operations \ {o} : held'[m] = held[m]
    BY <1>0, EnterFailsFacts, ZenonT(60)
  <1>2. /\ f \in Frame /\ f.op = None /\ f.manager = o /\ o # None
        /\ ctx' = [ctx EXCEPT ![c].frames = Append(@, f)]
    <2>1. ctx' = [ctx EXCEPT ![c].frames = Append(@, f)]
      BY <1>0, EnterFailsFacts
    <2> QED
      BY <2>1, ScopesAssumption DEF Frame
  <1> HIDE DEF f
  <1>3. /\ OldBlocks(o)
        /\ \A e \in Contexts : o \notin OpenOperations(e)
        /\ MessagesInv' /\ ContextsInv' /\ RequestPart' /\ GivenInv'
    BY <1>1, <1>2, EnterKeeps
  <1>4. /\ \A e \in Contexts :
              /\ ctx'[e].from = ctx[e].from /\ ctx'[e].operation = ctx[e].operation
              /\ ctx'[e].restored = ctx[e].restored
        /\ \A e \in Contexts \ {c} : ctx'[e] = ctx[e]
        /\ \A e \in Contexts : OpenOperations(e)' = OpenOperations(e)
        /\ n \in Nat /\ Len(ctx'[c].frames) = n + 1
        /\ ctx'[c].frames[n + 1] = f
        /\ \A i \in 1..n : ctx'[c].frames[i] = ctx[c].frames[i]
    <2>1. TypeOK' /\ {f.op} \ {None} = {}
      BY <1>1, <1>2
    <2>2. /\ OpenOperations(c)' = OpenOperations(c) \cup ({f.op} \ {None})
          /\ \A e \in Contexts \ {c} : OpenOperations(e)' = OpenOperations(e)
      BY <1>0, <1>2, <2>1, PushFacts, ZenonT(60)
    <2>3. /\ \A e \in Contexts :
                /\ ctx'[e].from = ctx[e].from /\ ctx'[e].operation = ctx[e].operation
                /\ ctx'[e].restored = ctx[e].restored
          /\ \A e \in Contexts \ {c} : ctx'[e] = ctx[e]
          /\ n \in Nat /\ Len(ctx'[c].frames) = n + 1
          /\ ctx'[c].frames[n + 1] = f
          /\ \A i \in 1..n : ctx'[c].frames[i] = ctx[c].frames[i]
      BY <1>0, <1>2, <2>1, PushFacts, ZenonT(60)
    <2> QED
      BY <2>1, <2>2, <2>3
  <1>5. 1..(n + 1) = (1..n) \cup {n + 1}
    BY <1>4
  \* Blocks that have an operation are old ones.
  <1>6. \A e \in Contexts : \A i \in 1..Len(ctx'[e].frames) :
           \/ /\ i \in 1..Len(ctx[e].frames) /\ ctx'[e].frames[i] = ctx[e].frames[i]
              /\ ctx[e].frames[i].op # None =>
                    op'[ctx[e].frames[i].op] = op[ctx[e].frames[i].op]
           \/ e = c /\ i = n + 1 /\ ctx'[e].frames[i] = f
    <2> SUFFICES ASSUME NEW e \in Contexts, NEW i \in 1..Len(ctx'[e].frames),
                        ~(e = c /\ i = n + 1)
                 PROVE  /\ i \in 1..Len(ctx[e].frames)
                        /\ ctx'[e].frames[i] = ctx[e].frames[i]
                        /\ ctx[e].frames[i].op # None =>
                              op'[ctx[e].frames[i].op] = op[ctx[e].frames[i].op]
      BY <1>4, SMTT(60)
    <2>1. i \in 1..Len(ctx[e].frames)
      BY <1>4, <1>5
    <2> QED
      BY <1>3, <2>1 DEF OldBlocks
  <1>7. OperationsInv'
    <2>1. op[o].error = None /\ Len(op[o].log) <= 1
      BY <1>1 DEF ScopesInv, OperationsInv
    <2> SUFFICES ASSUME NEW p \in Operations
                 PROVE  /\ op'[p].stage = "unused" => op'[p].error = None
                        /\ op'[p].stage # "completed" => op'[p].log = <<>>
                        /\ Len(op'[p].log) <= 1
                        /\ op'[p].stage = "open" =>
                              \E d \in Contexts : p \in OpenOperations(d)'
                        /\ op'[p].rid \in op'[p].past \cup {None}
                        /\ op'[p].restored \subseteq KeysOf(op'[p].attrs)
      BY DEF OperationsInv
    <2>2. CASE p = o
      BY <1>1, <2>1, <2>2, SMTT(60) DEF ScopesInv, OperationsInv
    <2>3. CASE p # o
      BY <1>1, <1>4, <2>3, SMTT(60) DEF ScopesInv, OperationsInv
    <2> QED
      BY <2>2, <2>3
  <1>8. FramesInv'
    <2> SUFFICES ASSUME NEW e \in Contexts, NEW i \in 1..Len(ctx'[e].frames)
                 PROVE  LET g == ctx'[e].frames[i]
                        IN  /\ g.manager \in Operations /\ g.op \in {None, g.manager}
                            /\ held'[g.manager] = g.op
                            /\ op'[g.manager].stage # "unused"
                            /\ g.op # None =>
                                  /\ op'[g.op].stage = "open" /\ op'[g.op].ctx = e
                                  /\ \A j \in 1..Len(ctx'[e].frames) :
                                        ctx'[e].frames[j].op = g.op => j = i
      BY SMTT(60) DEF FramesInv
    <2>1. CASE ctx'[e].frames[i] = f
      BY <1>1, <1>2, <2>1, ZenonT(60)
    <2>2. CASE i \in 1..Len(ctx[e].frames)
      <3> DEFINE g == ctx[e].frames[i]
      <3>1. /\ ctx'[e].frames[i] = g
            /\ g.manager \in Operations /\ g.manager # o /\ g.op \in {None, g.manager}
            /\ op'[g.manager] = op[g.manager] /\ held'[g.manager] = held[g.manager]
        BY <1>3, <2>2, SMTT(60) DEF OldBlocks
      <3>2. /\ held[g.manager] = g.op
            /\ op[g.manager].stage # "unused"
            /\ g.op # None =>
                  /\ op[g.op].stage = "open" /\ op[g.op].ctx = e
                  /\ \A j \in 1..Len(ctx[e].frames) : ctx[e].frames[j].op = g.op => j = i
        BY <2>2 DEF ScopesInv, FramesInv
      <3>3. \A j \in 1..Len(ctx'[e].frames) :
               \/ j \in 1..Len(ctx[e].frames) /\ ctx'[e].frames[j] = ctx[e].frames[j]
               \/ ctx'[e].frames[j].op = None
        BY <1>2, <1>6
      <3> HIDE DEF g
      <3>4. g.op # None => op'[g.op].stage = "open" /\ op'[g.op].ctx = e
        <4>1. g.op # None => op'[g.op] = op[g.op]
          BY <3>1
        <4> QED
          BY <3>2, <4>1
      <3>5. ASSUME g.op # None, NEW j \in 1..Len(ctx'[e].frames),
                   ctx'[e].frames[j].op = g.op
            PROVE  j = i
        <4>1. j \in 1..Len(ctx[e].frames) /\ ctx[e].frames[j].op = g.op
          BY <3>3, <3>5
        <4> QED
          BY <3>2, <3>5, <4>1
      <3>6. /\ held'[g.manager] = g.op
            /\ op'[g.manager].stage # "unused"
        BY <3>1, <3>2
      <3> QED
        BY <3>1, <3>4, <3>5, <3>6
    <2> QED
      BY <1>6, <2>1, <2>2, ZenonT(60)
  <1>9. OperationChains'
    <2> SUFFICES ASSUME NEW e \in Contexts
                 PROVE  /\ Around(ctx'[e].frames, ctx[e].operation,
                                  Len(ctx'[e].frames) + 1, operationState[e])
                        /\ \A i \in 1..Len(ctx'[e].frames) : ctx'[e].frames[i].op # None =>
                              Around(ctx'[e].frames, ctx[e].operation, i,
                                     op'[ctx'[e].frames[i].op].old)
      BY <1>1, <1>4 DEF OperationChains
    <2>1. /\ Around(ctx[e].frames, ctx[e].operation, Len(ctx[e].frames) + 1,
                    operationState[e])
          /\ \A i \in 1..Len(ctx[e].frames) : ctx[e].frames[i].op # None =>
                Around(ctx[e].frames, ctx[e].operation, i, op[ctx[e].frames[i].op].old)
      BY DEF ScopesInv, OperationChains
    <2>2. \A i \in 1..Len(ctx[e].frames) : ctx[e].frames[i].op # None =>
             op'[ctx[e].frames[i].op] = op[ctx[e].frames[i].op]
      BY <1>3 DEF OldBlocks
    <2>3. CASE e # c
      <3>1. ctx'[e].frames = ctx[e].frames
        BY <1>4, <2>3
      <3>2. ASSUME NEW i \in 1..Len(ctx[e].frames), ctx[e].frames[i].op # None
            PROVE  Around(ctx[e].frames, ctx[e].operation, i,
                          op'[ctx[e].frames[i].op].old)
        <4>1. op'[ctx[e].frames[i].op] = op[ctx[e].frames[i].op]
          BY <2>2, <3>2
        <4> QED
          BY <2>1, <3>2, <4>1
      <3> QED
        BY <2>1, <3>1, <3>2
    <2>4. CASE e = c
      <3>1. \A i \in 1..(n + 1) : \A v : Around(ctx[c].frames, ctx[c].operation, i, v) =>
               Around(ctx'[c].frames, ctx[c].operation, i, v)
        <4> SUFFICES ASSUME NEW i \in 1..(n + 1), NEW v,
                            Around(ctx[c].frames, ctx[c].operation, i, v)
                     PROVE  Around(ctx'[c].frames, ctx[c].operation, i, v)
          OBVIOUS
        <4>1. i \in Nat /\ \A k \in 1..(i - 1) : ctx'[c].frames[k] = ctx[c].frames[k]
          BY <1>4
        <4> QED
          BY <4>1, AroundFacts
      <3>2. Around(ctx'[c].frames, ctx[c].operation, n + 1, operationState[c])
        BY <1>5, <2>1, <2>4, <3>1
      <3>3. Around(ctx'[c].frames, ctx[c].operation, (n + 1) + 1, operationState[c])
        <4>1. n + 1 \in Nat /\ n + 1 > 0 /\ ctx'[c].frames[n + 1].op = None
          BY <1>2, <1>4
        <4> QED
          BY <3>2, <4>1, AroundFacts
      <3>4. ASSUME NEW i \in 1..n, ctx'[c].frames[i].op # None
            PROVE  Around(ctx'[c].frames, ctx[c].operation, i,
                          op'[ctx'[c].frames[i].op].old)
        <4>1. i \in 1..(n + 1) /\ ctx'[c].frames[i] = ctx[c].frames[i]
          BY <1>4, <1>5
        <4>2. op'[ctx[c].frames[i].op] = op[ctx[c].frames[i].op]
          BY <2>2, <2>4, <3>4, <4>1
        <4>3. Around(ctx[c].frames, ctx[c].operation, i, op[ctx[c].frames[i].op].old)
          BY <2>1, <2>4, <3>4, <4>1
        <4>4. Around(ctx'[c].frames, ctx[c].operation, i, op[ctx[c].frames[i].op].old)
          BY <3>1, <4>1, <4>3, SMTT(60)
        <4> QED
          BY <4>1, <4>2, <4>4
      <3> QED
        BY <1>2, <1>4, <1>5, <2>4, <3>3, <3>4
    <2> QED
      BY <2>3, <2>4
  <1>10. RestoredInv'
    <2> SUFFICES ASSUME NEW e \in Contexts, NEW i \in 1..Len(ctx'[e].frames),
                        ctx'[e].frames[i].op # None
                 PROVE  /\ ctx[e].restored \subseteq op'[ctx'[e].frames[i].op].restored
                        /\ \A j \in 1..(i - 1) : ctx'[e].frames[j].op # None =>
                              op'[ctx'[e].frames[j].op].restored
                                 \subseteq op'[ctx'[e].frames[i].op].restored
      BY <1>4 DEF RestoredInv
    <2>1. \A j \in 1..Len(ctx[e].frames) :
             /\ ctx'[e].frames[j] = ctx[e].frames[j]
             /\ ctx[e].frames[j].op # None =>
                   op'[ctx[e].frames[j].op] = op[ctx[e].frames[j].op]
      BY <1>3, SMTT(60) DEF OldBlocks
    <2>2. i \in 1..Len(ctx[e].frames)
      BY <1>2, <1>6, SMTT(60)
    <2>3. /\ ctx[e].frames[i].op # None
          /\ ctx[e].restored \subseteq op[ctx[e].frames[i].op].restored
          /\ \A j \in 1..(i - 1) : ctx[e].frames[j].op # None =>
                op[ctx[e].frames[j].op].restored
                   \subseteq op[ctx[e].frames[i].op].restored
      BY <2>1, <2>2 DEF ScopesInv, RestoredInv
    <2>4. \A j \in 1..(i - 1) : j \in 1..Len(ctx[e].frames)
      <3>1. Len(ctx[e].frames) \in Nat
        BY <1>0, FrameFacts DEF TypeOK
      <3> QED
        BY <2>2, <3>1
    <2> QED
      BY <2>1, <2>2, <2>3, <2>4, ZenonT(60)
  <1>11. ErrorsInv' /\ ErrorsStayInFlow'
    <2>1. op'[o].error = None /\ Len(op'[o].log) = 0
      BY <1>1 DEF ScopesInv, OperationsInv
    <2>2. /\ \A r \in Requests : req[r].error # None => req[r].ctx \in ctx[req[r].error].from
          /\ \A p \in Operations : op[p].error # None => op[p].ctx \in ctx[op[p].error].from
      BY DEF ScopesInv, ErrorsInv
    <2>3. ErrorsInv'
      BY <1>0, <1>1, <1>4, <2>1, <2>2, ErrorTypes DEF ErrorsInv
    <2>4. ErrorsStayInFlow'
      <3>1. ASSUME NEW p \in Operations, NEW i \in 1..Len(op'[p].log), op'[p].log[i] # None
            PROVE  op'[p].ctx \in ctx'[op'[p].log[i]].from
        <4>1. p # o
          BY <2>1, <3>1
        <4>2. op'[p] = op[p]
          BY <1>1, <4>1
        <4>3. op[p].log[i] \in Contexts
          BY <1>0, <3>1, <4>2, ErrorTypes
        <4> QED
          BY <1>4, <3>1, <4>2, <4>3 DEF ScopesInv, ErrorsStayInFlow
      <3>2. \A r \in Requests : \A i \in 1..Len(req'[r].log) :
               req'[r].log[i].error # None =>
                  /\ req'[r].ctx \in ctx'[req'[r].log[i].error].from
                  /\ req'[r].log[i].outcome = "error"
        BY <1>0, <1>1, <1>4, ErrorTypes, SMTT(30) DEF ScopesInv, ErrorsStayInFlow
      <3> QED
        BY <3>1, <3>2 DEF ErrorsStayInFlow
    <2> QED
      BY <2>3, <2>4
  <1> QED
    BY <1>1, <1>3, <1>7, <1>8, <1>9, <1>10, <1>11 DEF ScopesInv, RequestPart

\* What was active around the block becomes active again.
LEMMA ExitScopeStep ==
    ASSUME ScopesInv, NEW c \in Contexts, ctx[c].alive, NEW raised \in BOOLEAN,
           ExitScope(c, raised)
    PROVE  ScopesInv'
  <1> DEFINE n == Len(ctx[c].frames)
             o == held[Last(ctx[c].frames).manager]
  <1>0. TypeOK
    BY DEF ScopesInv
  <1>1. PICK error \in Contexts \cup {None} : Left(o, c, error)
    BY <1>0, ExitScopeFacts, SMTT(60)
  <1>2. /\ TypeOK' /\ ctx[c].frames # <<>>
        /\ UNCHANGED <<requestState, req, held, messages>>
        /\ ctx' = [ctx EXCEPT ![c].frames = Front(@)]
        /\ o # None => o \in Operations /\ error \in {c, op[o].error}
    BY <1>1 DEF Left
  <1>3. /\ \A e \in Contexts :
              /\ ctx'[e].alive = ctx[e].alive /\ ctx'[e].from = ctx[e].from
              /\ ctx'[e].request = ctx[e].request /\ ctx'[e].operation = ctx[e].operation
              /\ ctx'[e].past = ctx[e].past /\ ctx'[e].restored = ctx[e].restored
        /\ \A e \in Contexts \ {c} :
              ctx'[e] = ctx[e] /\ OpenOperations(e)' = OpenOperations(e)
        /\ n \in Nat \ {0} /\ Last(ctx[c].frames) = ctx[c].frames[n]
        /\ Len(ctx'[c].frames) = n - 1
        /\ \A i \in 1..(n - 1) : ctx'[c].frames[i] = ctx[c].frames[i]
        /\ \A p : p \in OpenOperations(c)' <=>
              /\ p # None /\ p \in Operations
              /\ \E i \in 1..(n - 1) : ctx[c].frames[i].op = p
    BY <1>0, <1>2, PopFacts
  <1>4. n \in 1..n
    BY <1>3
  <1>5. /\ ctx[c].frames[n].op = o
        /\ o # None =>
              /\ op[o].stage = "open" /\ op[o].ctx = c
              /\ \A j \in 1..n : ctx[c].frames[j].op = o => j = n
    <2>1. held[ctx[c].frames[n].manager] = ctx[c].frames[n].op
      BY <1>4 DEF ScopesInv, FramesInv
    <2>2. ctx[c].frames[n].op = o
      BY <1>3, <2>1, SMTT(60)
    <2>3. ctx[c].frames[n].op # None =>
              /\ op[ctx[c].frames[n].op].stage = "open" /\ op[ctx[c].frames[n].op].ctx = c
              /\ \A j \in 1..n : ctx[c].frames[j].op = ctx[c].frames[n].op => j = n
      BY <1>4, SMTT(60) DEF ScopesInv, FramesInv
    <2> HIDE DEF o
    <2> QED
      BY <2>2, <2>3
  <1> HIDE DEF o
  <1>6. /\ o = None => UNCHANGED <<op, operationState>>
        /\ o # None =>
              /\ op'[o].stage = "completed" /\ op'[o].error = error
              /\ op'[o].log = Append(op[o].log, error)
              /\ op'[o].ctx = op[o].ctx /\ op'[o].old = op[o].old
              /\ op'[o].rid = op[o].rid /\ op'[o].attrs = op[o].attrs
              /\ op'[o].past = op[o].past /\ op'[o].restored = op[o].restored
              /\ \A p \in Operations \ {o} : op'[p] = op[p]
              /\ operationState'[c] = op[o].old
              /\ \A d \in Contexts \ {c} : operationState'[d] = operationState[d]
    BY <1>1, <1>5 DEF Left
  <1>7. \A p \in Operations :
           /\ p # o => op'[p] = op[p]
           /\ op[p].stage # "unused" => op'[p].stage # "unused"
           /\ op'[p].stage = "unused" => op[p].stage = "unused"
           /\ op'[p].ctx = op[p].ctx /\ op'[p].old = op[p].old
           /\ op'[p].rid = op[p].rid /\ op'[p].attrs = op[p].attrs
           /\ op'[p].past = op[p].past /\ op'[p].restored = op[p].restored
    <2> SUFFICES ASSUME NEW p \in Operations
                 PROVE  /\ p # o => op'[p] = op[p]
                        /\ op[p].stage # "unused" => op'[p].stage # "unused"
                        /\ op'[p].stage = "unused" => op[p].stage = "unused"
                        /\ op'[p].ctx = op[p].ctx /\ op'[p].old = op[p].old
                        /\ op'[p].rid = op[p].rid /\ op'[p].attrs = op[p].attrs
                        /\ op'[p].past = op[p].past /\ op'[p].restored = op[p].restored
      OBVIOUS
    <2>1. CASE p = o
      BY <1>6, <2>1, ScopesAssumption
    <2>2. CASE p # o
      BY <1>6, <2>2
    <2> QED
      BY <2>1, <2>2
  \* The blocks that remain keep their operations.
  <1>8. \A e \in Contexts : \A i \in 1..Len(ctx'[e].frames) :
           /\ i \in 1..Len(ctx[e].frames)
           /\ ctx'[e].frames[i] = ctx[e].frames[i]
           /\ ctx[e].frames[i].manager \in Operations
           /\ ctx[e].frames[i].op \in Operations \cup {None}
           /\ ctx[e].frames[i].op # None =>
                 ctx[e].frames[i].op # o
                 /\ op'[ctx[e].frames[i].op] = op[ctx[e].frames[i].op]
    <2> SUFFICES ASSUME NEW e \in Contexts, NEW i \in 1..Len(ctx'[e].frames)
                 PROVE  /\ i \in 1..Len(ctx[e].frames)
                        /\ ctx'[e].frames[i] = ctx[e].frames[i]
                        /\ ctx[e].frames[i].manager \in Operations
                        /\ ctx[e].frames[i].op \in Operations \cup {None}
                        /\ ctx[e].frames[i].op # None =>
                              ctx[e].frames[i].op # o
                              /\ op'[ctx[e].frames[i].op] = op[ctx[e].frames[i].op]
      BY SMTT(60)
    <2>1. /\ i \in 1..Len(ctx[e].frames) /\ ctx'[e].frames[i] = ctx[e].frames[i]
          /\ e = c => i # n
      BY <1>3, SMTT(60)
    <2>2. /\ ctx[e].frames[i].manager \in Operations
          /\ ctx[e].frames[i].op \in Operations \cup {None}
          /\ ctx[e].frames[i].op # None => op[ctx[e].frames[i].op].ctx = e
      BY <2>1 DEF ScopesInv, FramesInv
    <2>3. ctx[e].frames[i].op # None => ctx[e].frames[i].op # o
      <3>1. CASE e = c
        BY <1>5, <2>1, <3>1
      <3>2. CASE e # c
        BY <1>5, <2>2, <3>2
      <3> QED
        BY <3>1, <3>2
    <2> QED
      BY <1>7, <2>1, <2>2, <2>3, SMTT(60)
  <1>9. MessagesInv' /\ ContextsInv' /\ RequestPart'
    <2>1. RequestPart'
      BY <1>2, <1>3, RequestPartStep DEF ScopesInv, RequestPart
    <2>2. MessagesInv' /\ ContextsInv'
      BY <1>2, <1>3, SMTT(60) DEF ScopesInv, MessagesInv, ContextsInv
    <2> QED
      BY <2>1, <2>2
  <1>10. GivenInv'
    <2>1. \A e \in Contexts : ctx[e].operation \in Operations \cup {None}
      BY <1>0 DEF TypeOK, Context
    <2>2. \A e \in Contexts :
             /\ ctx[e].request # None =>
                   /\ req[ctx[e].request].rid \in ctx[e].past
                   /\ req[ctx[e].request].ctx \in ctx[e].from
             /\ ctx[e].operation # None =>
                   /\ op[ctx[e].operation].stage # "unused"
                   /\ op[ctx[e].operation].rid \in ctx[e].past \cup {None}
                   /\ op[ctx[e].operation].ctx \in ctx[e].from
             /\ ctx[e].restored \subseteq
                   IF ctx[e].operation = None THEN {} ELSE op[ctx[e].operation].restored
      BY DEF ScopesInv, GivenInv, RestoredBy
    <2> QED
      BY <1>2, <1>3, <1>7, <2>1, <2>2 DEF GivenInv, RestoredBy
  <1>11. OperationsInv'
    <2> SUFFICES ASSUME NEW p \in Operations
                 PROVE  /\ op'[p].stage = "unused" => op'[p].error = None
                        /\ op'[p].stage # "completed" => op'[p].log = <<>>
                        /\ Len(op'[p].log) <= 1
                        /\ op'[p].stage = "open" =>
                              \E d \in Contexts : p \in OpenOperations(d)'
                        /\ op'[p].rid \in op'[p].past \cup {None}
                        /\ op'[p].restored \subseteq KeysOf(op'[p].attrs)
      BY DEF OperationsInv
    <2>1. /\ op[p].stage # "completed" => op[p].log = <<>>
          /\ op[p].stage = "unused" => op[p].error = None
          /\ Len(op[p].log) <= 1
          /\ op[p].stage = "open" => \E d \in Contexts : p \in OpenOperations(d)
          /\ op[p].rid \in op[p].past \cup {None}
          /\ op[p].restored \subseteq KeysOf(op[p].attrs)
      BY DEF ScopesInv, OperationsInv
    <2>2. CASE p = o
      <3>1. o # None
        BY <2>2, ScopesAssumption
      <3>2. op[o].log = <<>>
        BY <1>5, <2>1, <2>2, <3>1
      <3>3. op'[o].log = <<error>>
        BY <1>6, <3>1, <3>2
      <3> QED
        BY <1>6, <1>7, <2>1, <2>2, <3>1, <3>3
    <2>3. CASE p # o
      <3>1. ASSUME op[p].stage = "open"
            PROVE  \E d \in Contexts : p \in OpenOperations(d)'
        <4>1. PICK d \in Contexts : p \in OpenOperations(d)
          BY <2>1, <3>1
        <4>2. CASE d = c
          <5>1. PICK i \in 1..n : ctx[c].frames[i].op = p /\ p # None
            BY <1>0, <4>1, <4>2, OpenFacts DEF TypeOK
          <5>2. i \in 1..(n - 1)
            BY <1>3, <1>5, <2>3, <5>1, SMTT(60)
          <5> QED
            BY <1>3, <5>1, <5>2
        <4>3. CASE d # c
          BY <1>3, <4>1, <4>3, SMTT(60)
        <4> QED
          BY <4>2, <4>3
      <3> QED
        BY <1>7, <2>1, <2>3, <3>1
    <2> QED
      BY <2>2, <2>3
  <1>12. FramesInv'
    <2> SUFFICES ASSUME NEW e \in Contexts, NEW i \in 1..Len(ctx'[e].frames)
                 PROVE  LET g == ctx'[e].frames[i]
                        IN  /\ g.manager \in Operations /\ g.op \in {None, g.manager}
                            /\ held'[g.manager] = g.op
                            /\ op'[g.manager].stage # "unused"
                            /\ g.op # None =>
                                  /\ op'[g.op].stage = "open" /\ op'[g.op].ctx = e
                                  /\ \A j \in 1..Len(ctx'[e].frames) :
                                        ctx'[e].frames[j].op = g.op => j = i
      BY ZenonT(60) DEF FramesInv
    <2>0. /\ held' = held /\ ctx'[e].frames[i] = ctx[e].frames[i]
          /\ \A j \in 1..Len(ctx'[e].frames) : ctx'[e].frames[j] = ctx[e].frames[j]
      BY <1>2, <1>8
    <2> DEFINE g == ctx[e].frames[i]
    <2>1. /\ g.manager \in Operations /\ g.op \in {None, g.manager}
          /\ held[g.manager] = g.op
          /\ op[g.manager].stage # "unused"
          /\ g.op # None =>
                /\ op[g.op].stage = "open" /\ op[g.op].ctx = e
                /\ \A j \in 1..Len(ctx[e].frames) : ctx[e].frames[j].op = g.op => j = i
      BY <1>8 DEF ScopesInv, FramesInv
    <2>2. /\ g.op # None => op'[g.op] = op[g.op]
          /\ \A j \in 1..Len(ctx'[e].frames) : j \in 1..Len(ctx[e].frames)
      BY <1>8
    <2> HIDE DEF g
    <2>3. op'[g.manager].stage # "unused"
      BY <1>7, <2>1
    <2> QED
      BY <2>0, <2>1, <2>2, <2>3, ZenonT(60) DEF g
  <1>13. OperationChains'
    <2> SUFFICES ASSUME NEW e \in Contexts
                 PROVE  /\ Around(ctx'[e].frames, ctx[e].operation,
                                  Len(ctx'[e].frames) + 1, operationState'[e])
                        /\ \A i \in 1..Len(ctx'[e].frames) : ctx'[e].frames[i].op # None =>
                              Around(ctx'[e].frames, ctx[e].operation, i,
                                     op'[ctx'[e].frames[i].op].old)
      BY <1>3 DEF OperationChains
    <2>1. /\ Around(ctx[e].frames, ctx[e].operation, Len(ctx[e].frames) + 1,
                    operationState[e])
          /\ \A i \in 1..Len(ctx[e].frames) : ctx[e].frames[i].op # None =>
                Around(ctx[e].frames, ctx[e].operation, i, op[ctx[e].frames[i].op].old)
      BY DEF ScopesInv, OperationChains
    <2>2. ASSUME NEW i \in 1..Len(ctx'[e].frames), ctx'[e].frames[i].op # None
          PROVE  Around(ctx[e].frames, ctx[e].operation, i, op'[ctx'[e].frames[i].op].old)
      <3>1. /\ i \in 1..Len(ctx[e].frames) /\ ctx'[e].frames[i] = ctx[e].frames[i]
            /\ op'[ctx[e].frames[i].op] = op[ctx[e].frames[i].op]
            /\ ctx[e].frames[i].op # None
        BY <1>8, <2>2
      <3> QED
        BY <2>1, <3>1
    <2>3. CASE e # c
      <3>1. ctx'[e] = ctx[e] /\ operationState'[e] = operationState[e]
        BY <1>3, <1>6, <2>3
      <3> QED
        BY <2>1, <2>2, <3>1
    <2>4. CASE e = c
      <3>1. \A i \in 1..n : \A v : Around(ctx[c].frames, ctx[c].operation, i, v) =>
               Around(ctx'[c].frames, ctx[c].operation, i, v)
        <4> SUFFICES ASSUME NEW i \in 1..n, NEW v,
                            Around(ctx[c].frames, ctx[c].operation, i, v)
                     PROVE  Around(ctx'[c].frames, ctx[c].operation, i, v)
          OBVIOUS
        <4>1. i \in Nat /\ \A k \in 1..(i - 1) : ctx'[c].frames[k] = ctx[c].frames[k]
          BY <1>3
        <4> QED
          BY <4>1, AroundFacts
      <3>2. Around(ctx[c].frames, ctx[c].operation, n, operationState'[c])
        <4>1. CASE o = None
          <5>1. n \in Nat /\ n > 0 /\ ctx[c].frames[n].op = None
            BY <1>3, <1>5, <4>1
          <5>2. Around(ctx[c].frames, ctx[c].operation, n + 1, operationState'[c])
            BY <1>6, <2>1, <2>4, <4>1
          <5> QED
            BY <5>1, <5>2, AroundFacts
        <4>2. CASE o # None
          <5>1. operationState'[c] = op[o].old
            BY <1>6, <4>2
          <5> QED
            BY <1>4, <1>5, <2>1, <2>4, <4>2, <5>1
        <4> QED
          BY <4>1, <4>2
      <3>3. Len(ctx'[c].frames) + 1 = n
        BY <1>3
      <3>4. Around(ctx'[c].frames, ctx[c].operation, Len(ctx'[c].frames) + 1,
                   operationState'[c])
        <4>1. n \in 1..n
          BY <1>4
        <4> QED
          BY <3>1, <3>2, <3>3, <4>1
      <3>5. ASSUME NEW i \in 1..Len(ctx'[c].frames), ctx'[c].frames[i].op # None
            PROVE  Around(ctx'[c].frames, ctx[c].operation, i,
                          op'[ctx'[c].frames[i].op].old)
        <4>1. i \in 1..n
          BY <1>3, SMTT(60)
        <4>2. Around(ctx[c].frames, ctx[c].operation, i, op'[ctx'[c].frames[i].op].old)
          BY <2>2, <2>4, <3>5, SMTT(60)
        <4> QED
          BY <3>1, <4>1, <4>2, SMTT(60)
      <3> QED
        BY <2>4, <3>4, <3>5
    <2> QED
      BY <2>3, <2>4
  <1>14. RestoredInv'
    <2> SUFFICES ASSUME NEW e \in Contexts, NEW i \in 1..Len(ctx'[e].frames),
                        ctx'[e].frames[i].op # None
                 PROVE  /\ ctx[e].restored \subseteq op'[ctx'[e].frames[i].op].restored
                        /\ \A j \in 1..(i - 1) : ctx'[e].frames[j].op # None =>
                              op'[ctx'[e].frames[j].op].restored
                                 \subseteq op'[ctx'[e].frames[i].op].restored
      BY <1>3, ZenonT(60) DEF RestoredInv
    <2>1. \A j \in 1..(i - 1) : j \in 1..Len(ctx'[e].frames)
      <3>1. Len(ctx'[e].frames) \in Nat
        BY <1>2, FrameFacts, SMTT(60) DEF TypeOK
      <3> QED
        BY <3>1
    <2>2. /\ i \in 1..Len(ctx[e].frames) /\ ctx'[e].frames[i] = ctx[e].frames[i]
          /\ op'[ctx[e].frames[i].op] = op[ctx[e].frames[i].op]
          /\ ctx[e].frames[i].op # None
      BY <1>8, SMTT(60)
    <2>3. /\ ctx[e].restored \subseteq op[ctx[e].frames[i].op].restored
          /\ \A j \in 1..(i - 1) : ctx[e].frames[j].op # None =>
                op[ctx[e].frames[j].op].restored
                   \subseteq op[ctx[e].frames[i].op].restored
      BY <2>2, ZenonT(60) DEF ScopesInv, RestoredInv
    <2>4. \A j \in 1..(i - 1) :
             /\ ctx'[e].frames[j] = ctx[e].frames[j]
             /\ ctx[e].frames[j].op # None =>
                   op'[ctx[e].frames[j].op] = op[ctx[e].frames[j].op]
      BY <1>8, <2>1, SMTT(60)
    <2>5. ASSUME NEW j \in 1..(i - 1), ctx'[e].frames[j].op # None
          PROVE  op'[ctx'[e].frames[j].op].restored
                    \subseteq op'[ctx'[e].frames[i].op].restored
      <3>1. /\ ctx'[e].frames[j] = ctx[e].frames[j] /\ ctx[e].frames[j].op # None
            /\ op'[ctx[e].frames[j].op] = op[ctx[e].frames[j].op]
        BY <2>4, <2>5, SMTT(60)
      <3>2. op[ctx[e].frames[j].op].restored \subseteq op[ctx[e].frames[i].op].restored
        BY <2>3, <3>1, ZenonT(60)
      <3> QED
        BY <2>2, <3>1, <3>2, ZenonT(60)
    <2>6. ctx[e].restored \subseteq op'[ctx'[e].frames[i].op].restored
      BY <2>2, <2>3
    <2> QED
      BY <2>5, <2>6, SMTT(60)
  <1>15. o # None /\ error # None => op[o].ctx \in ctx[error].from
    <2>1. o # None /\ op[o].error # None => op[o].ctx \in ctx[op[o].error].from
      BY <1>2 DEF ScopesInv, ErrorsInv
    <2>2. c \in ctx[c].from
      BY DEF ScopesInv, ContextsInv
    <2> QED
      BY <1>2, <1>5, <2>1, <2>2
  <1>16. ErrorsInv'
    <2>1. \A p \in Operations : op'[p].error # None => op'[p].ctx \in ctx'[op'[p].error].from
      <3> SUFFICES ASSUME NEW p \in Operations, op'[p].error # None
                   PROVE  op'[p].ctx \in ctx'[op'[p].error].from
        OBVIOUS
      <3>1. CASE p = o
        <4>1. op'[o].error = error /\ o # None
          BY <1>6, <3>1, ScopesAssumption
        <4> QED
          BY <1>3, <1>7, <1>15, <3>1, <4>1
      <3>2. CASE p # o
        <4>1. op'[p] = op[p]
          BY <1>7, <3>2
        <4> QED
          BY <1>0, <1>3, <4>1, ErrorTypes DEF ScopesInv, ErrorsInv
      <3> QED
        BY <3>1, <3>2
    <2>2. \A r \in Requests : req'[r].error # None => req'[r].ctx \in ctx'[req'[r].error].from
      BY <1>0, <1>2, <1>3, ErrorTypes DEF ScopesInv, ErrorsInv
    <2> QED
      BY <2>1, <2>2 DEF ErrorsInv
  <1>17. ErrorsStayInFlow'
    <2>1. ASSUME NEW p \in Operations, NEW i \in 1..Len(op'[p].log), op'[p].log[i] # None
          PROVE  op'[p].ctx \in ctx'[op'[p].log[i]].from
      <3>1. CASE p = o
        <4>1. o # None
          BY <3>1, ScopesAssumption
        <4>2. op[o].log = <<>>
          BY <1>2, <1>5, <4>1 DEF ScopesInv, OperationsInv
        <4>3. op'[o].log = <<error>>
          BY <1>6, <4>1, <4>2
        <4>4. i = 1 /\ op'[p].log[i] = error
          BY <2>1, <3>1, <4>3
        <4> QED
          BY <1>3, <1>7, <1>15, <2>1, <3>1, <4>1, <4>4
      <3>2. CASE p # o
        <4>1. op'[p] = op[p]
          BY <1>7, <3>2
        <4>2. op[p].log[i] \in Contexts
          BY <1>0, <2>1, <4>1, ErrorTypes
        <4> QED
          BY <1>3, <2>1, <4>1, <4>2, SMTT(60) DEF ScopesInv, ErrorsStayInFlow
      <3> QED
        BY <3>1, <3>2
    <2>2. \A r \in Requests : \A i \in 1..Len(req'[r].log) :
             req'[r].log[i].error # None =>
                /\ req'[r].ctx \in ctx'[req'[r].log[i].error].from
                /\ req'[r].log[i].outcome = "error"
      BY <1>0, <1>2, <1>3, ErrorTypes, SMTT(30) DEF ScopesInv, ErrorsStayInFlow
    <2> QED
      BY <2>1, <2>2 DEF ErrorsStayInFlow
  <1> QED
    BY <1>2, <1>9, <1>10, <1>11, <1>12, <1>13, <1>14, <1>16, <1>17
       DEF ScopesInv, RequestPart
-------------------------------------------------------------------------------
(* Every step *)

LEMMA InitInv == Init => ScopesInv
  <1> SUFFICES ASSUME Init PROVE ScopesInv
    OBVIOUS
  <1>1. PICK alive \in SUBSET Contexts :
           ctx = [d \in Contexts |-> [NewContext(d) EXCEPT !.alive = d \in alive]]
    BY DEF Init
  <1>2. \A d \in Contexts :
           /\ ctx[d].alive \in BOOLEAN
           /\ ctx[d].frames = <<>> /\ ctx[d].from = {d} /\ ctx[d].request = None
           /\ ctx[d].operation = None /\ ctx[d].past = {} /\ ctx[d].restored = {}
           /\ ctx[d] \in Context
    <2> SUFFICES ASSUME NEW d \in Contexts
                 PROVE  /\ ctx[d].alive \in BOOLEAN
                        /\ ctx[d].frames = <<>> /\ ctx[d].from = {d}
                        /\ ctx[d].request = None /\ ctx[d].operation = None
                        /\ ctx[d].past = {} /\ ctx[d].restored = {}
                        /\ ctx[d] \in Context
      OBVIOUS
    <2> DEFINE started == d \in alive
    <2>1. started \in BOOLEAN
      OBVIOUS
    <2>2. ctx[d] = [NewContext(d) EXCEPT !.alive = started]
      BY <1>1, Zenon
    <2> HIDE DEF started
    <2>3. ctx[d] = [alive |-> started, frames |-> <<>>, from |-> {d}, request |-> None,
                    operation |-> None, past |-> {}, restored |-> {}]
      BY <2>2 DEF NewContext
    <2>4. <<>> \in Seq(Frame)
      BY EmptySeq
    <2> QED
      BY <2>1, <2>3, <2>4 DEF Context
  <1>3. \A r \in Requests :
           /\ req[r] \in Request
           /\ req[r].stage = "unused" /\ req[r].ctx = None /\ req[r].error = None
           /\ req[r].ender = None /\ req[r].log = <<>>
    BY AttributeFacts, EmptySeq DEF Init, Request, Stage
  <1>4. \A o \in Operations :
           /\ op[o] \in Operation
           /\ op[o].stage = "unused" /\ op[o].error = None /\ op[o].log = <<>>
           /\ op[o].rid = None /\ op[o].restored = {}
    BY AttributeFacts, EmptySeq DEF Init, Operation, Stage
  <1>5. TypeOK
    BY <1>1, <1>2, <1>3, <1>4 DEF Init, TypeOK
  <1>6. Len(<<>>) = 0
    OBVIOUS
  <1>7. \A d \in Contexts : OwnRequests(d) = {}
    BY <1>3, ScopesAssumption DEF OwnRequests
  <1>8. MessagesInv /\ ContextsInv
    BY <1>2, <1>3, ScopesAssumption, ZenonT(60) DEF Init, MessagesInv, ContextsInv
  <1>9. RequestsInv /\ RequestChains
    <2>1. RequestsInv
      BY <1>3, <1>6 DEF RequestsInv
    <2>2. \A d \in Contexts : requestState[d] = None
      BY DEF Init
    <2> QED
      BY <1>2, <1>7, <2>1, <2>2 DEF RequestChains
  <1>10. GivenInv
    BY <1>2 DEF GivenInv
  <1>11. OperationsInv
    BY <1>4, <1>6 DEF OperationsInv
  <1>12. \A d \in Contexts : 1..Len(ctx[d].frames) = {}
    BY <1>2, <1>6
  <1>13. FramesInv /\ RestoredInv
    BY <1>12 DEF FramesInv, RestoredInv
  <1>14. OperationChains
    <2>1. \A d \in Contexts : operationState[d] = None
      BY DEF Init
    <2>2. \A d \in Contexts : 1..((Len(ctx[d].frames) + 1) - 1) = {}
      BY <1>2, <1>6
    <2> QED
      BY <1>2, <1>12, <2>1, <2>2 DEF OperationChains, Around
  <1>15. ErrorsInv /\ ErrorsStayInFlow
    BY <1>3, <1>4, <1>6 DEF ErrorsInv, ErrorsStayInFlow
  <1> QED
    BY <1>5, <1>8, <1>9, <1>10, <1>11, <1>13, <1>14, <1>15 DEF ScopesInv

LEMMA CallInv ==
    ASSUME ScopesInv, NEW c \in Contexts, ctx[c].alive, Call(c)
    PROVE  ScopesInv'
  <1>1. ASSUME NEW d \in Contexts, ~ctx[d].alive, Copy(c, d) PROVE ScopesInv'
    BY <1>1, CopyStep
  <1>2. ASSUME NEW r \in Requests, NEW rid \in Supplied \cup {r}, BeginRequest(c, r, rid)
        PROVE  ScopesInv'
    BY <1>2, BeginRequestStep
  <1>3. ASSUME NEW s \in Statuses, UpdateRequestStatus(c, s) PROVE ScopesInv'
    BY <1>3, CallStep
  <1>4. ASSUME NEW s \in Statuses \cup {None}, NEW raised \in BOOLEAN,
               EndRequest(c, s, raised)
        PROVE  ScopesInv'
    BY <1>4, EndRequestStep
  <1>5. ASSUME NEW o \in Operations, NEW m \in messages \cup {NoMessage},
               NEW own \in Attributes, EnterOperation(c, o, m, own)
        PROVE  ScopesInv'
    BY <1>5, EnterScopeStep DEF EnterOperation
  <1>6. ASSUME NEW o \in Operations, NEW d \in Decorators, CallDecorated(c, o, d)
        PROVE  ScopesInv'
    <2>1. EnterScope(c, o, o, NoMessage, NoAttributes)
      BY <1>6 DEF CallDecorated, ScopeCopy
    <2>2. NoMessage \in messages \cup {NoMessage} /\ NoAttributes \in Attributes
      BY AttributeFacts
    <2> QED
      BY <2>1, <2>2, EnterScopeStep
  <1>7. ASSUME NEW o \in Operations, EnterFails(c, o) PROVE ScopesInv'
    BY <1>7, EnterFailsStep
  <1>8. ASSUME NEW raised \in BOOLEAN, ExitScope(c, raised) PROVE ScopesInv'
    BY <1>8, ExitScopeStep
  <1>9. ASSUME NEW k \in Keys, NEW v \in Values, SetContext(c, k, v) PROVE ScopesInv'
    BY <1>9, CallStep
  <1>10. ASSUME NEW s \in Statuses \cup {None}, RecordException(c, s) PROVE ScopesInv'
    BY <1>10, RecordExceptionStep
  <1>11. ASSUME CaptureContext(c) PROVE ScopesInv'
    BY <1>11, CaptureContextStep
  <1> QED
    BY <1>1, <1>2, <1>3, <1>4, <1>5, <1>6, <1>7, <1>8, <1>9, <1>10, <1>11 DEF Call

LEMMA NextInv == ScopesInv /\ [Next]_vars => ScopesInv'
  <1> SUFFICES ASSUME ScopesInv, [Next]_vars PROVE ScopesInv'
    OBVIOUS
  <1>1. ASSUME NEW d \in Contexts, ~ctx[d].alive, Start(d) PROVE ScopesInv'
    BY <1>1, StartStep
  <1>2. ASSUME NEW c \in Contexts, ctx[c].alive, Call(c) PROVE ScopesInv'
    BY <1>2, CallInv
  <1>3. CASE UNCHANGED vars
    <2>1. UNCHANGED <<requestState, operationState, req, op, held, ctx, messages>>
      BY <1>3 DEF vars
    <2>2. TypeOK'
      BY <2>1 DEF ScopesInv, TypeOK
    <2>3. RequestPart' /\ OperationPart' /\ ErrorsInv' /\ ErrorsStayInFlow'
      BY <2>1, RequestPartStep, OperationPartStep, ErrorPartStep
         DEF ScopesInv, RequestPart, OperationPart
    <2>4. MessagesInv' /\ ContextsInv' /\ GivenInv'
      BY <2>1 DEF ScopesInv, MessagesInv, ContextsInv, GivenInv, RestoredBy
    <2> QED
      BY <2>2, <2>3, <2>4 DEF ScopesInv, RequestPart, OperationPart
  <1> QED
    BY <1>1, <1>2, <1>3 DEF Next

\* The chains of requests and of operations keep their shape in every step.
THEOREM ScopesInvariance == Spec => []ScopesInv
  <1>1. Init => ScopesInv
    BY InitInv
  <1>2. ScopesInv /\ [Next]_vars => ScopesInv'
    BY NextInv
  <1> QED
    BY <1>1, <1>2, PTL DEF Spec
-------------------------------------------------------------------------------
(* The properties *)

\* The state objects and context variables always have their types.
THEOREM ScopesTyped == Spec => []TypeOK
  <1>1. ScopesInv => TypeOK
    BY DEF ScopesInv
  <1> QED
    BY <1>1, ScopesInvariance, PTL

\* end_request and _finish_operation write one completion record each, however
\* many adapters and contexts call them, and an operation is open exactly while
\* the block that opened it is.
THEOREM CompletedOnceEach == Spec => []CompletedOnce
  <1>1. ScopesInv => CompletedOnce
    <2> SUFFICES ASSUME ScopesInv PROVE CompletedOnce
      OBVIOUS
    <2>1. \A r \in Requests : Len(req[r].log) = (IF req[r].stage = "completed" THEN 1 ELSE 0)
      BY DEF ScopesInv, RequestsInv
    <2>2. \A o \in Operations :
             Len(op[o].log) <= 1 /\ (op[o].stage = "open" => \E c \in Contexts : o \in OpenOperations(c))
      BY DEF ScopesInv, OperationsInv
    <2>3. ASSUME NEW o \in Operations, NEW c \in Contexts, o \in OpenOperations(c)
          PROVE  op[o].stage = "open"
      <3>1. ctx[c] \in Context
        BY SMTT(60) DEF ScopesInv, TypeOK
      <3>2. PICK i \in 1..Len(ctx[c].frames) : ctx[c].frames[i].op = o /\ o # None
        BY <2>3, <3>1, OpenFacts, SMTT(60)
      <3> QED
        BY <3>2, SMTT(60) DEF ScopesInv, FramesInv
    <2> QED
      BY <2>1, <2>2, <2>3 DEF CompletedOnce
  <1> QED
    BY <1>1, ScopesInvariance, PTL

\* Leaving a with block, in whatever way, makes active what was active around it.
THEOREM InnermostIsActive == Spec => []InnermostActive
  <1>1. ScopesInv => InnermostActive
    <2> SUFFICES ASSUME ScopesInv, NEW c \in Contexts
                 PROVE  LET frames == ctx[c].frames
                            open == {i \in 1..Len(frames) : frames[i].op # None}
                        IN  /\ open = {} => operationState[c] = ctx[c].operation
                            /\ \A i \in open :
                                  (\A j \in open : j <= i) =>
                                     operationState[c] = frames[i].op
      BY DEF InnermostActive
    <2> DEFINE frames == ctx[c].frames
               open == {i \in 1..Len(frames) : frames[i].op # None}
    <2>1. \/ /\ operationState[c] = ctx[c].operation
             /\ \A i \in 1..Len(frames) : frames[i].op = None
          \/ \E j \in 1..Len(frames) :
                /\ operationState[c] # None /\ frames[j].op = operationState[c]
                /\ \A k \in (j + 1)..Len(frames) : frames[k].op = None
      BY ActiveOperationPlace DEF ScopesInv
    <2>2. ASSUME NEW j \in 1..Len(frames), operationState[c] # None,
                 frames[j].op = operationState[c],
                 \A k \in (j + 1)..Len(frames) : frames[k].op = None,
                 NEW i \in open, \A k \in open : k <= i
          PROVE  operationState[c] = frames[i].op
      <3>1. j \in open /\ j <= i
        BY <2>2
      <3>2. i \notin (j + 1)..Len(frames)
        BY <2>2
      <3>3. i = j
        BY <3>1, <3>2
      <3> QED
        BY <2>2, <3>3
    <2>3. ASSUME NEW j \in 1..Len(frames), operationState[c] # None,
                 frames[j].op = operationState[c]
          PROVE  open # {}
      BY <2>3
    <2> QED
      BY <2>1, <2>2, <2>3
  <1> QED
    BY <1>1, ScopesInvariance, PTL

\* The identifier written in records, headers and captured contexts is that of a
\* request the context works for: no mixing of concurrent requests.
THEOREM IdentifiersStayInFlow == Spec => []NoForeignRequestId
  <1>1. ScopesInv => NoForeignRequestId
    <2> SUFFICES ASSUME ScopesInv PROVE NoForeignRequestId
      OBVIOUS
    <2>1. \A c \in Contexts : ActiveRequestId(c) \in Past(c) \cup {None}
      BY ActiveKnown
    <2>2. \A o \in Operations : op[o].rid \in op[o].past \cup {None}
      BY DEF ScopesInv, OperationsInv
    <2>3. \A m \in messages : m.rid \in m.past \cup {None}
      BY DEF ScopesInv, MessagesInv
    <2> QED
      BY <2>1, <2>2, <2>3 DEF NoForeignRequestId
  <1> QED
    BY <1>1, ScopesInvariance, PTL

\* A dispatch attribute that was restored from a captured context is among the
\* attributes of all the work it was restored for, and is captured again, on every
\* later hop, unless the application has put a float in its place.
THEOREM DispatchAttributesReachEveryHop == Spec => []DispatchAttributesSurvive
  <1>1. ScopesInv => DispatchAttributesSurvive
    BY ActiveKnown DEF ScopesInv, MessagesInv, DispatchAttributesSurvive
  <1> QED
    BY <1>1, ScopesInvariance, PTL

\* A completion record carries an exception of its own flow or none.
THEOREM ErrorsReachTheirOwn == Spec => []ErrorsStayInFlow
  <1>1. ScopesInv => ErrorsStayInFlow
    BY DEF ScopesInv
  <1> QED
    BY <1>1, ScopesInvariance, PTL
===============================================================================
