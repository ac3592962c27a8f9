------------------------- MODULE RequestAdaptersProofs -------------------------
(***************************************************************************)
(* Proofs about RequestAdapters, for any number of calls and installations.*)
(*                                                                         *)
(* A call of FastAPI is alone in its tasks, and both have its request until*)
(* one of them ends it (FastAPICall).  The calls of Flask share a thread:  *)
(* one that is under way has its request on top of those that were never   *)
(* ended, and a request that is found on the thread when none is under way *)
(* is one that the adapter was not told the end of (FlaskCall, ThreadInv). *)
(* The callbacks of a call do not change while it runs, because they are   *)
(* installed before the first one (HooksInv).                              *)
(*                                                                         *)
(* Of the runtime, each step uses at most one call (RuntimeCall), so that  *)
(* the adapters implement ContextScopes and have its theorems.             *)
(***************************************************************************)
EXTENDS RequestAdapters, SequenceTheorems, TLAPS

RequestRecord ==
    [stage : Runtime!Stage, ctx : Contexts \cup {None}, old : Calls \cup {None},
     rid : Calls \cup {None}, attrs : {<<>>}, error : Contexts \cup {None},
     status : Statuses \cup {None},
     log : Seq([outcome : {"success", "client_error", "error"},
                error : Contexts \cup {None}]),
     ender : Contexts \cup {None}]

CallRecord ==
    [pc : {"away", "app", "handling", "after", "teardown", "over"},
     status : Statuses \cup {None}, raised : BOOLEAN, matched : BOOLEAN,
     sending : Contexts \cup {None}, last : BOOLEAN, completed : BOOLEAN,
     skipped : BOOLEAN]

Callbacks == [Registries -> Seq({"app", "ours"})]

InstallerRecord ==
    [pc : {"idle", "snapshot", "before first", "after first", "mark", "rollback"}
             \cup Registries,
     saved : Callbacks, marked : BOOLEAN, dirty : BOOLEAN, calls : Nat]

AdaptersTypeOK ==
    /\ requestState \in [Contexts -> Calls \cup {None}]
    /\ req \in [Calls -> RequestRecord]
    /\ ctx = [c \in Contexts |-> ctx[c]]
    /\ route \in [Calls -> BOOLEAN]
    /\ reader \in [Calls -> BOOLEAN]
    /\ call \in [Calls -> CallRecord]
    /\ hooks \in Callbacks
    /\ installer \in InstallerRecord
    /\ \A x \in records : x.call \in Calls /\ x.right \in BOOLEAN

\* The callbacks when instrument_flask has come to a step.
Reached(pc) ==
    [r \in Registries |->
        CASE r = Before -> IF pc \in {"snapshot", Before} THEN <<"app">>
                           ELSE IF pc = "before first" THEN <<"app", "ours">>
                           ELSE <<"ours", "app">>
          [] r = After -> IF pc \in {"snapshot", Before, "before first", After}
                          THEN <<"app">>
                          ELSE IF pc = "after first" THEN <<"app", "ours">>
                          ELSE <<"ours", "app">>
          [] r = TearDown -> IF pc = "mark" THEN <<"app", "ours">> ELSE <<"app">>]

HooksInv ==
    /\ installer.pc # "idle" => ~installer.marked
    /\ installer.pc # "idle" => \A k \in FlaskCalls : At(k, "away")
    /\ ~installer.dirty =>
          /\ installer.pc = "idle" =>
                hooks = IF installer.marked THEN Installed ELSE NotInstalled
          /\ installer.pc \notin {"idle", "rollback"} => hooks = Reached(installer.pc)
          /\ installer.pc \notin {"idle", "snapshot"} => installer.saved = NotInstalled

Begun(k) == req[k].stage # "unused"

\* The record of a call that is over is there.
Told(k) ==
    /\ req[k].stage = "completed"
    /\ Len(req[k].log) = 1
    /\ req[k].status = Answer(k)
    /\ req[k].log[1].outcome = Runtime!Outcome(Answer(k), call[k].raised)

\* A call of FastAPI is alone in its tasks: they have its request or none, until
\* one of them ends it.
FastAPICall(k) ==
    /\ call[k].pc \in {"away", "app", "over"} /\ ~call[k].skipped
    /\ At(k, "away") =>
          /\ ~Begun(k) /\ ~ctx[Child(k)].alive
          /\ call[k].status = None /\ call[k].sending = None /\ ~call[k].last
    /\ ~At(k, "over") => ~call[k].raised
    /\ call[k].sending # None => call[k].last /\ call[k].sending \in {Main(k), Child(k)}
    /\ call[k].last => call[k].status # None
    /\ call[k].completed => call[k].last /\ call[k].sending = None
    /\ \A c \in {Main(k), Child(k)} :
          requestState[c] = None \/ (requestState[c] = k /\ Begun(k))
    /\ ~Begun(k) => req[k].log = <<>> /\ req[k].status = None
    /\ Begun(k) => req[k].ctx = Main(k) /\ req[k].old = None /\ reader[k]
    /\ Begun(k) /\ At(k, "app") /\ ~call[k].completed =>
          /\ req[k].stage = "open" /\ req[k].log = <<>> /\ req[k].status = None
          /\ requestState[Main(k)] = k
          /\ ctx[Child(k)].alive \/ call[k].sending = Child(k) => requestState[Child(k)] = k
    /\ Begun(k) /\ (At(k, "over") \/ call[k].completed) => Told(k)
    /\ route[k] => call[k].matched

UnderWay(k) == call[k].pc \in {"handling", "after", "teardown"}

\* A call of Flask that is under way has its request on the thread.
FlaskCall(k) ==
    /\ call[k].pc # "app" /\ ~reader[k]
    /\ At(k, "away") => ~Begun(k)
    /\ At(k, "away") \/ At(k, "handling") => call[k].status = None /\ ~call[k].raised
    /\ At(k, "after") \/ At(k, "teardown") => call[k].status # None
    /\ call[k].raised => call[k].status = 500
    /\ ~At(k, "over") => ~call[k].skipped
    /\ UnderWay(k) => installer.pc = "idle"
    /\ \A j \in FlaskCalls : UnderWay(j) /\ UnderWay(k) => j = k
    /\ ~Begun(k) => req[k].log = <<>> /\ req[k].status = None
    /\ Begun(k) =>
          /\ req[k].ctx = Thread
          /\ req[k].old # None => req[k].old \in FlaskCalls /\ Begun(req[k].old)
                                  /\ Untold(req[k].old)
    /\ Begun(k) /\ ~Untold(k) => route[k] = call[k].matched
    /\ UnderWay(k) /\ Begun(k) /\ ~installer.dirty =>
          /\ req[k].stage = "open" /\ req[k].log = <<>>
          /\ requestState[Thread] = k
          /\ hooks = Installed
          /\ At(k, "teardown") /\ ~call[k].raised => req[k].status = call[k].status
    /\ At(k, "over") /\ Begun(k) /\ ~Untold(k) => Told(k)

\* Who is found on the thread.
ThreadInv ==
    /\ requestState[Thread] # None =>
          /\ requestState[Thread] \in FlaskCalls /\ Begun(requestState[Thread])
          /\ UnderWay(requestState[Thread]) \/ Untold(requestState[Thread])
    /\ (\A k \in FlaskCalls : ~Untold(k)) =>
          /\ FlaskIdle => requestState[Thread] = None
          /\ \A k \in FlaskCalls : UnderWay(k) => requestState[Thread] \in {k, None}

AdaptersInv ==
    /\ AdaptersTypeOK /\ HooksInv
    /\ \A k \in FastAPICalls : FastAPICall(k)
    /\ \A k \in FlaskCalls : FlaskCall(k)
    /\ ThreadInv
    /\ RoutesAreCurrent
-------------------------------------------------------------------------------
(* Contexts, and what the runtime does *)

LEMMA ContextFacts ==
    /\ Thread \in Contexts /\ None \notin Contexts /\ None \notin Calls /\ None \notin Statuses
    /\ 500 \in Statuses
    /\ \A k \in FlaskCalls : k \notin FastAPICalls /\ k \in Calls /\ Main(k) = Thread
    /\ \A k \in FastAPICalls :
          /\ k \notin FlaskCalls /\ k \in Calls
          /\ Main(k) \in Contexts /\ Child(k) \in Contexts
          /\ Main(k) # Child(k) /\ Main(k) # Thread /\ Child(k) # Thread
          /\ \A j \in FastAPICalls \ {k} :
                Main(j) \notin {Main(k), Child(k)} /\ Child(j) \notin {Main(k), Child(k)}
    /\ \A c \in Contexts : c = Thread \/ \E k \in FastAPICalls : c \in {Main(k), Child(k)}
  <1>1. \A k \in FlaskCalls : k \notin FastAPICalls /\ k \in Calls /\ Main(k) = Thread
    BY AdaptersAssumption DEF Calls, Main
  <1>2. \A k \in FastAPICalls : k \notin FlaskCalls /\ k \in Calls
    BY AdaptersAssumption DEF Calls
  <1>3. \A k \in FastAPICalls : Main(k) = <<"task", k>> /\ Child(k) = <<"child", k>>
    BY <1>2 DEF Main, Child
  <1>4. \A k \in FastAPICalls : Main(k) \in {"task", "child"} \X FastAPICalls
                                /\ Child(k) \in {"task", "child"} \X FastAPICalls
    BY <1>3
  <1>5. \A k \in FastAPICalls :
           /\ Main(k) \in Contexts /\ Child(k) \in Contexts
           /\ Main(k) # Thread /\ Child(k) # Thread
    BY <1>4, AdaptersAssumption DEF Contexts
  <1>6. \A k \in FastAPICalls :
           /\ Main(k) # Child(k)
           /\ \A j \in FastAPICalls \ {k} :
                Main(j) \notin {Main(k), Child(k)} /\ Child(j) \notin {Main(k), Child(k)}
    BY <1>3
  <1>7. \A c \in Contexts : c = Thread \/ \E k \in FastAPICalls : c \in {Main(k), Child(k)}
    BY <1>3 DEF Contexts
  <1>8. /\ Thread \in Contexts /\ None \notin Contexts /\ None \notin Calls
        /\ None \notin Statuses /\ 500 \in Statuses
    BY AdaptersAssumption DEF Contexts
  <1> QED
    BY <1>1, <1>2, <1>5, <1>6, <1>7, <1>8

ScopesTyped ==
    /\ requestState \in [Contexts -> Calls \cup {None}]
    /\ req \in [Calls -> RequestRecord]
    /\ ctx = [c \in Contexts |-> ctx[c]]

\* A step that begins the request of a call.
Began(k) ==
    /\ ScopesTyped' /\ UNCHANGED ctx
    /\ req[k].stage = "unused"
    /\ req'[k].stage = "open" /\ req'[k].ctx = Main(k)
    /\ req'[k].old = requestState[Main(k)]
    /\ req'[k].status = req[k].status /\ req'[k].log = req[k].log
    /\ \A r \in Calls \ {k} : req'[r] = req[r]
    /\ requestState'[Main(k)] = k
    /\ \A c \in Contexts \ {Main(k)} : requestState'[c] = requestState[c]

LEMMA BeginFacts ==
    ASSUME ScopesTyped, NEW k \in Calls, Begin(k)
    PROVE  Began(k)
  <1> DEFINE n == [req[k] EXCEPT !.stage = "open", !.ctx = Main(k),
                                 !.old = requestState[Main(k)], !.rid = k]
  <1>1. /\ req[k].stage = "unused" /\ req' = [req EXCEPT ![k] = n]
        /\ requestState' = [requestState EXCEPT ![Main(k)] = k]
        /\ UNCHANGED ctx
    BY DEF Begin, Runtime!BeginRequest, Runtime!Assign, ScopesTyped
  <1>2. Main(k) \in Contexts
    BY ContextFacts DEF Calls
  <1>3. req[k] \in RequestRecord /\ requestState[Main(k)] \in Calls \cup {None}
    BY <1>2 DEF ScopesTyped
  <1>4. /\ n \in RequestRecord
        /\ n.stage = "open" /\ n.ctx = Main(k) /\ n.old = requestState[Main(k)]
        /\ n.status = req[k].status /\ n.log = req[k].log
    BY <1>2, <1>3 DEF RequestRecord, Runtime!Stage
  <1> HIDE DEF n
  <1> QED
    BY <1>1, <1>2, <1>4 DEF Began, ScopesTyped

\* A step that ends a request.
Ended(r, c, status, raised) ==
    /\ ScopesTyped' /\ UNCHANGED ctx
    /\ req[r].stage # "completed" /\ req'[r].stage = "completed"
    /\ req'[r].ctx = req[r].ctx /\ req'[r].old = req[r].old
    /\ req'[r].status = IF status # None THEN status ELSE req[r].status
    /\ req[r].log = <<>> =>
          /\ Len(req'[r].log) = 1
          /\ req'[r].log[1].outcome = Runtime!Outcome(req'[r].status, raised)
    /\ \A s \in Calls \ {r} : req'[s] = req[s]
    /\ requestState'[c] = IF req[r].ctx = c THEN req[r].old ELSE requestState[c]
    /\ \A d \in Contexts \ {c} : requestState'[d] = requestState[d]
    /\ records' = records \cup {Record(r, route'[r])}

LEMMA ActiveFacts ==
    ASSUME ScopesTyped, NEW c \in Contexts
    PROVE  \/ Active(c) = {} /\ (requestState[c] = None
                                 \/ req[requestState[c]].stage = "completed")
           \/ /\ Active(c) = {requestState[c]}
              /\ requestState[c] \in Calls /\ req[requestState[c]].stage # "completed"
  BY ContextFacts DEF ScopesTyped, Active, Runtime!Completed

LEMMA EndFacts ==
    ASSUME ScopesTyped, NEW c \in Contexts, NEW status \in Statuses \cup {None},
           NEW raised \in BOOLEAN, End(c, status, raised)
    PROVE  IF Active(c) = {} THEN UNCHANGED <<scopes, records>>
           ELSE Ended(requestState[c], c, status, raised)
  <1> SUFFICES ASSUME Active(c) # {}
               PROVE  Ended(requestState[c], c, status, raised)
    BY DEF End
  <1> DEFINE r == requestState[c]
             final == IF status # None THEN status ELSE req[r].status
             outcome == Runtime!Outcome(final, raised)
             error == IF raised THEN c ELSE Runtime!RecordedError(req[r], outcome)
             entry == [outcome |-> outcome, error |-> error]
             n == [req[r] EXCEPT !.stage = "completed", !.status = final, !.error = error,
                                 !.ender = c, !.log = Append(req[r].log, entry)]
  <1>1. /\ Active(c) = {r} /\ r \in Calls /\ req[r].stage # "completed"
        /\ req[r] \in RequestRecord
    BY ActiveFacts DEF ScopesTyped
  <1>2. Runtime!EndRequest(c, status, raised) /\ records' = records \cup {Record(r, route'[r])}
    BY <1>1 DEF End
  <1>3. /\ req' = [req EXCEPT ![r] = n]
        /\ requestState' = IF req[r].ctx = c THEN [requestState EXCEPT ![c] = req[r].old]
                           ELSE requestState
        /\ UNCHANGED ctx
    BY <1>2 DEF Runtime!EndRequest, Runtime!Reset
  <1>4. outcome \in {"success", "client_error", "error"}
    BY DEF Runtime!Outcome
  <1>5. final \in Statuses \cup {None}
    BY <1>1 DEF RequestRecord
  <1>6. outcome = Runtime!Outcome(final, raised)
    OBVIOUS
  <1> HIDE DEF outcome
  <1>7. error \in Contexts \cup {None}
    BY <1>1 DEF Runtime!RecordedError, RequestRecord
  <1>8. final = IF status # None THEN status ELSE req[r].status
    OBVIOUS
  <1> HIDE DEF error, final
  <1>9. /\ Append(req[r].log, entry) \in
             Seq([outcome : {"success", "client_error", "error"},
                  error : Contexts \cup {None}])
        /\ req[r].log = <<>> =>
             Len(Append(req[r].log, entry)) = 1 /\ Append(req[r].log, entry)[1] = entry
    BY <1>1, <1>4, <1>7, AppendProperties DEF RequestRecord
  <1>10. entry.outcome = outcome
    OBVIOUS
  <1> HIDE DEF entry
  <1>11. /\ n \in RequestRecord
         /\ n.stage = "completed" /\ n.status = final /\ n.ctx = req[r].ctx
         /\ n.old = req[r].old /\ n.log = Append(req[r].log, entry)
    BY <1>1, <1>5, <1>7, <1>9, ZenonT(60) DEF RequestRecord, Runtime!Stage
  <1> HIDE DEF n
  <1>12. req'[r] = n /\ \A s \in Calls \ {r} : req'[s] = req[s]
    BY <1>1, <1>3 DEF ScopesTyped
  <1>13. req[r].old \in Calls \cup {None}
    BY <1>1 DEF RequestRecord
  <1>14. /\ requestState' \in [Contexts -> Calls \cup {None}]
         /\ requestState'[c] = IF req[r].ctx = c THEN req[r].old ELSE requestState[c]
         /\ \A d \in Contexts \ {c} : requestState'[d] = requestState[d]
    BY <1>3, <1>13 DEF ScopesTyped
  <1>15. ScopesTyped'
    BY <1>3, <1>11, <1>14 DEF ScopesTyped
  <1>16. req[r].log = <<>> =>
            /\ Len(req'[r].log) = 1
            /\ req'[r].log[1].outcome = Runtime!Outcome(req'[r].status, raised)
    BY <1>6, <1>9, <1>10, <1>11, <1>12
  <1> QED
    BY <1>1, <1>2, <1>3, <1>8, <1>11, <1>12, <1>14, <1>15, <1>16 DEF Ended

\* A step that sets the status of a request.
StatusSet(r, status) ==
    /\ ScopesTyped' /\ UNCHANGED <<requestState, ctx>>
    /\ req'[r].status = status
    /\ req'[r].stage = req[r].stage /\ req'[r].ctx = req[r].ctx
    /\ req'[r].old = req[r].old /\ req'[r].log = req[r].log
    /\ \A s \in Calls \ {r} : req'[s] = req[s]

LEMMA UpdateStatusFacts ==
    ASSUME ScopesTyped, NEW c \in Contexts, NEW status \in Statuses \cup {None},
           Runtime!UpdateRequestStatus(c, status)
    PROVE  StatusSet(requestState[c], status)
  <1> DEFINE r == requestState[c]
             n == [req[r] EXCEPT !.status = status]
  <1>1. r \in Calls /\ req' = [req EXCEPT ![r] = n] /\ UNCHANGED <<requestState, ctx>>
    BY DEF Runtime!UpdateRequestStatus, ScopesTyped
  <1>2. req[r] \in RequestRecord
    BY <1>1 DEF ScopesTyped
  <1>3. /\ n \in RequestRecord
        /\ n.status = status /\ n.stage = req[r].stage /\ n.ctx = req[r].ctx
        /\ n.old = req[r].old /\ n.log = req[r].log
    BY <1>2 DEF RequestRecord
  <1> HIDE DEF n
  <1> QED
    BY <1>1, <1>3 DEF StatusSet, ScopesTyped

LEMMA CopyFacts ==
    ASSUME ScopesTyped, NEW c \in Contexts, NEW d \in Contexts, Runtime!Copy(c, d)
    PROVE  /\ ScopesTyped' /\ UNCHANGED req
           /\ requestState'[d] = requestState[c]
           /\ \A e \in Contexts \ {d} : requestState'[e] = requestState[e] /\ ctx'[e] = ctx[e]
  <1>1. /\ requestState' = [requestState EXCEPT ![d] = requestState[c]]
        /\ UNCHANGED req
    BY DEF Runtime!Copy
  <1>2. PICK n : ctx' = [ctx EXCEPT ![d] = n]
    BY DEF Runtime!Copy
  <1>3. ctx' = [e \in Contexts |-> ctx'[e]] /\ \A e \in Contexts \ {d} : ctx'[e] = ctx[e]
    BY <1>2 DEF ScopesTyped
  <1> QED
    BY <1>1, <1>3 DEF ScopesTyped
-------------------------------------------------------------------------------
(* The callbacks *)

LEMMA PairFacts ==
    ASSUME NEW T, NEW s \in Seq(T), Len(s) = 2, NEW a \in T, NEW b \in T,
           s[1] = a, s[2] = b
    PROVE  s = <<a, b>>
  <1>1. <<a, b>> \in Seq(T) /\ Len(<<a, b>>) = 2 /\ <<a, b>>[1] = a /\ <<a, b>>[2] = b
    OBVIOUS
  <1>2. \A i \in 1..Len(s) : s[i] = <<a, b>>[i]
    BY <1>1
  <1> QED
    BY <1>1, <1>2, SeqEqual

LEMMA CallbackFacts ==
    ASSUME NEW s \in Seq({"app", "ours"})
    PROVE  /\ Append(s, "ours") \in Seq({"app", "ours"})
           /\ <<"ours">> \o SubSeq(s, 1, Len(s) - 1) \in Seq({"app", "ours"})
           /\ s = <<"app">> => Append(s, "ours") = <<"app", "ours">>
           /\ s = <<"app", "ours">> =>
                 <<"ours">> \o SubSeq(s, 1, Len(s) - 1) = <<"ours", "app">>
  <1> DEFINE T == {"app", "ours"}
             front == SubSeq(s, 1, Len(s) - 1)
  <1>1. /\ Append(s, "ours") \in Seq(T) /\ Len(Append(s, "ours")) = Len(s) + 1
        /\ Append(s, "ours")[Len(s) + 1] = "ours"
        /\ \A i \in 1..Len(s) : Append(s, "ours")[i] = s[i]
    BY AppendProperties
  <1>2. Len(s) \in Nat /\ (s # <<>> => Len(s) > 0) /\ \A i \in 1..Len(s) : s[i] \in T
    BY LenProperties, EmptySeq, ElementOfSeq
  <1>3. front \in Seq(T) /\ Len(front) = (IF 1 <= Len(s) - 1 THEN Len(s) - 1 ELSE 0)
        /\ \A i \in 1..(Len(s) - 1) : front[i] = s[i]
    <2>1. \A i \in 1..(Len(s) - 1) : s[i] \in T
      BY <1>2
    <2> QED
      BY <1>2, <2>1, SubSeqProperties
  <1>4. <<"ours">> \in Seq(T) /\ Len(<<"ours">>) = 1
    OBVIOUS
  <1>5. <<"ours">> \o front \in Seq(T)
    BY <1>3, <1>4, ConcatProperties
  <1>6. ASSUME s = <<"app", "ours">>
        PROVE  <<"ours">> \o front = <<"ours", "app">>
    <2>1. Len(s) = 2 /\ s[1] = "app"
      BY <1>6
    <2>2. Len(front) = 1 /\ front[1] = "app"
      BY <1>3, <2>1
    <2>3. Len(<<"ours">> \o front) = 2
      BY <1>3, <1>4, <2>2, ConcatProperties
    <2>4. (<<"ours">> \o front)[1] = "ours" /\ (<<"ours">> \o front)[2] = "app"
      BY <1>3, <1>4, <2>2, ConcatProperties
    <2> DEFINE t == <<"ours">> \o front
    <2>5. t \in Seq(T) /\ Len(t) = 2 /\ t[1] = "ours" /\ t[2] = "app"
      BY <1>5, <2>3, <2>4
    <2> HIDE DEF t
    <2>6. t = <<"ours", "app">>
      BY <2>5, PairFacts
    <2> QED
      BY <2>6 DEF t
  <1>7. ASSUME s = <<"app">>
        PROVE  Append(s, "ours") = <<"app", "ours">>
    <2>1. Len(s) = 1 /\ s[1] = "app"
      BY <1>7
    <2> DEFINE t == Append(s, "ours")
    <2>2. t \in Seq(T) /\ Len(t) = 2 /\ t[1] = "app" /\ t[2] = "ours"
      BY <1>1, <2>1
    <2> HIDE DEF t
    <2>3. t = <<"app", "ours">>
      BY <2>2, PairFacts
    <2> QED
      BY <2>3 DEF t
  <1> QED
    BY <1>1, <1>5, <1>6, <1>7

LEMMA RegistryFacts ==
    /\ Registries = {Before, After, TearDown}
    /\ Before # After /\ Before # TearDown /\ After # TearDown
    /\ Registries \cap {"idle", "snapshot", "before first", "after first", "mark", "rollback"} = {}
    /\ {<<"app">>, <<"app", "ours">>} \subseteq Seq({"app", "ours"})
    /\ NotInstalled \in Callbacks /\ Installed \in Callbacks
    /\ Installed # NotInstalled
    /\ Reached(Before) = NotInstalled
  <1>1. /\ Registries = {Before, After, TearDown}
        /\ Before # After /\ Before # TearDown /\ After # TearDown
        /\ Registries \cap {"idle", "snapshot", "before first", "after first", "mark", "rollback"} = {}
    BY DEF Registries, Before, After, TearDown
  <1>2. <<"app">> \in Seq({"app", "ours"}) /\ <<"app", "ours">> \in Seq({"app", "ours"})
        /\ <<"ours", "app">> \in Seq({"app", "ours"})
    OBVIOUS
  <1>3. NotInstalled \in Callbacks /\ Installed \in Callbacks
    BY <1>2 DEF NotInstalled, Installed, Callbacks
  <1>4. Installed[Before] = <<"ours", "app">> /\ NotInstalled[Before] = <<"app">>
    BY <1>1 DEF NotInstalled, Installed
  <1>5. Installed # NotInstalled
    <2>1. <<"ours", "app">>[1] # <<"app">>[1]
      OBVIOUS
    <2> QED
      BY <1>4, <2>1
  <1>6. Reached(Before) = NotInstalled
    BY <1>1 DEF Reached, NotInstalled, Before, After, TearDown
  <1> QED
    BY <1>1, <1>2, <1>3, <1>5, <1>6

\* A registry has our callback where instrument_flask has put it.
LEMMA HookedFacts ==
    /\ \A r \in Registries : hooks = NotInstalled => ~Hooked(r)
    /\ \A r \in Registries : hooks = Installed => Hooked(r)
  <1>1. \A r \in Registries : NotInstalled[r] = <<"app">>
    BY DEF NotInstalled
  <1>2. Len(<<"app">>) = 1 /\ <<"app">>[1] # "ours"
    OBVIOUS
  <1>3. \A r \in Registries : hooks = NotInstalled => ~Hooked(r)
    BY <1>1, <1>2 DEF Hooked
  <1>4. \A r \in Registries : Installed[r] = IF r = TearDown THEN <<"app", "ours">>
                                             ELSE <<"ours", "app">>
    BY DEF Installed
  <1>5. /\ Len(<<"app", "ours">>) = 2 /\ <<"app", "ours">>[2] = "ours"
        /\ Len(<<"ours", "app">>) = 2 /\ <<"ours", "app">>[1] = "ours"
    OBVIOUS
  <1>6. 1 \in 1..2 /\ 2 \in 1..2
    OBVIOUS
  <1>7. ASSUME NEW r \in Registries, hooks = Installed
        PROVE  Hooked(r)
    <2>1. CASE r = TearDown
      BY <1>4, <1>5, <1>6, <1>7, <2>1 DEF Hooked
    <2>2. CASE r # TearDown
      BY <1>4, <1>5, <1>6, <1>7, <2>2 DEF Hooked
    <2> QED
      BY <2>1, <2>2
  <1> QED
    BY <1>3, <1>7
-------------------------------------------------------------------------------
(* instrument_flask *)

\* A step of instrument_flask: no call is served meanwhile, and what a rollback
\* could not restore stays so.
Installs ==
    /\ AdaptersTypeOK' /\ HooksInv'
    /\ \A k \in FlaskCalls : At(k, "away")
    /\ installer.dirty => installer'.dirty
    /\ UNCHANGED <<scopes, route, reader, call, records>>

LEMMA StepFacts ==
    ASSUME AdaptersInv, NEW pc, NEW next, Steps(pc, next), pc # "idle",
           next \in {"idle", "rollback", "before first", "after first", "mark"} \cup Registries,
           next = "idle" => hooks' = hooks /\ pc = "snapshot",
           hooks' \in Callbacks,
           hooks = Reached(pc) => hooks' = Reached(next) \/ next \in {"idle", "rollback"},
           pc # "rollback" , pc = "snapshot" => next = "idle"
    PROVE  Installs
  <1> DEFINE n == [installer EXCEPT !.pc = next]
  <1>1. installer' = n /\ installer.pc = pc /\ UNCHANGED <<scopes, route, reader, call, records>>
    BY DEF Steps
  <1>2. installer \in InstallerRecord
    BY DEF AdaptersInv, AdaptersTypeOK
  <1>3. /\ n \in InstallerRecord
        /\ n.pc = next /\ n.saved = installer.saved /\ n.marked = installer.marked
        /\ n.dirty = installer.dirty
    BY <1>2 DEF InstallerRecord
  <1> HIDE DEF n
  <1>4. AdaptersTypeOK'
    BY <1>1, <1>3 DEF AdaptersInv, AdaptersTypeOK, scopes
  <1>5. /\ ~installer.marked /\ \A k \in FlaskCalls : At(k, "away") /\ At(k, "away")'
    BY <1>1 DEF AdaptersInv, HooksInv, At
  <1>6. ASSUME ~installer.dirty
        PROVE  /\ next = "idle" => hooks' = NotInstalled
               /\ next \notin {"idle", "rollback"} => hooks' = Reached(next)
               /\ next \notin {"idle", "snapshot"} => installer.saved = NotInstalled
    <2>1. hooks = Reached(pc) /\ (pc # "snapshot" => installer.saved = NotInstalled)
      BY <1>1, <1>6 DEF AdaptersInv, HooksInv
    <2>2. Reached("snapshot") = NotInstalled
      BY DEF Reached, NotInstalled, Registries, Before, After, TearDown
    <2> QED
      BY <2>1, <2>2
  <1>7. HooksInv'
    BY <1>1, <1>3, <1>5, <1>6 DEF HooksInv
  <1> QED
    BY <1>1, <1>3, <1>4, <1>5, <1>7 DEF Installs

\* A registry gets our callback, or has it moved to the start.
LEMMA CallbackStepFacts ==
    ASSUME AdaptersInv, NEW pc, NEW next, NEW r \in Registries, Steps(pc, next),
           pc \notin {"idle", "snapshot", "rollback"},
           next \in {"before first", "after first", "mark"} \cup Registries,
           \/ hooks' = [hooks EXCEPT ![r] = Append(@, "ours")]
           \/ hooks' = [hooks EXCEPT ![r] = <<"ours">> \o SubSeq(@, 1, Len(@) - 1)],
           hooks = Reached(pc) => hooks' = Reached(next)
    PROVE  Installs
  <1>1. hooks[r] \in Seq({"app", "ours"}) /\ hooks \in Callbacks
    BY DEF AdaptersInv, AdaptersTypeOK, Callbacks
  <1>2. /\ Append(hooks[r], "ours") \in Seq({"app", "ours"})
        /\ <<"ours">> \o SubSeq(hooks[r], 1, Len(hooks[r]) - 1) \in Seq({"app", "ours"})
    BY <1>1, CallbackFacts
  <1>3. hooks' \in Callbacks
    BY <1>1, <1>2 DEF Callbacks
  <1>4. next \notin {"idle", "rollback"}
    BY RegistryFacts
  <1> QED
    BY <1>3, <1>4, StepFacts

LEMMA RegisterFacts ==
    ASSUME AdaptersInv, NEW r \in Registries, NEW next, Register(r, next),
           \/ r = Before /\ next = "before first"
           \/ r = After /\ next = "after first"
           \/ r = TearDown /\ next = "mark"
    PROVE  Installs
  <1>1. Steps(r, next) /\ hooks' = [hooks EXCEPT ![r] = Append(@, "ours")]
    BY DEF Register
  <1>2. Reached(r)[r] = <<"app">>
    BY DEF Reached, Registries, Before, After, TearDown
  <1>3. <<"app">> \in Seq({"app", "ours"})
    BY RegistryFacts
  <1>4. ASSUME hooks = Reached(r)
        PROVE  hooks' = Reached(next)
    <2>1. Append(hooks[r], "ours") = <<"app", "ours">>
      BY <1>2, <1>3, <1>4, CallbackFacts
    <2>2. hooks' = [hooks EXCEPT ![r] = <<"app", "ours">>]
      BY <1>1, <2>1
    <2>3. Reached(next) = [Reached(r) EXCEPT ![r] = <<"app", "ours">>]
      BY DEF Reached, Registries, Before, After, TearDown
    <2> QED
      BY <1>4, <2>2, <2>3
  <1>5. next \in {"before first", "after first", "mark"}
        /\ r \notin {"idle", "snapshot", "rollback"}
    BY RegistryFacts
  <1> QED
    BY <1>1, <1>4, <1>5, CallbackStepFacts

LEMMA MoveToStartFacts ==
    ASSUME AdaptersInv, NEW pc, NEW r \in Registries, NEW next, MoveToStart(pc, r, next),
           \/ pc = "before first" /\ r = Before /\ next = After
           \/ pc = "after first" /\ r = After /\ next = TearDown
    PROVE  Installs
  <1>1. /\ Steps(pc, next)
        /\ hooks' = [hooks EXCEPT ![r] = <<"ours">> \o SubSeq(@, 1, Len(@) - 1)]
    BY DEF MoveToStart
  <1>2. Reached(pc)[r] = <<"app", "ours">>
    BY DEF Reached, Registries, Before, After, TearDown
  <1>3. <<"app", "ours">> \in Seq({"app", "ours"})
    BY RegistryFacts
  <1>4. ASSUME hooks = Reached(pc)
        PROVE  hooks' = Reached(next)
    <2>1. <<"ours">> \o SubSeq(hooks[r], 1, Len(hooks[r]) - 1) = <<"ours", "app">>
      BY <1>2, <1>3, <1>4, CallbackFacts
    <2>2. hooks' = [hooks EXCEPT ![r] = <<"ours", "app">>]
      BY <1>1, <2>1
    <2>3. Reached(next) = [Reached(pc) EXCEPT ![r] = <<"ours", "app">>]
      BY DEF Reached, Registries, Before, After, TearDown
    <2> QED
      BY <1>4, <2>2, <2>3
  <1>5. next \in Registries /\ pc \notin {"idle", "snapshot", "rollback"}
    BY RegistryFacts
  <1> QED
    BY <1>1, <1>4, <1>5, CallbackStepFacts

LEMMA InstallFacts ==
    ASSUME AdaptersInv, Install
    PROVE  Installs
  <1> DEFINE calls == installer.calls + 1
             pc == IF installer.marked THEN "idle" ELSE "snapshot"
             n == [installer EXCEPT !.calls = calls, !.pc = pc]
  <1>1. /\ installer' = n /\ installer.pc = "idle"
        /\ \A k \in FlaskCalls : At(k, "away")
        /\ UNCHANGED <<scopes, route, reader, call, hooks, records>>
    BY DEF Install
  <1>2. installer \in InstallerRecord
    BY DEF AdaptersInv, AdaptersTypeOK
  <1>8. pc \in {"idle", "snapshot"} /\ (pc = "idle" <=> installer.marked)
    OBVIOUS
  <1>9. calls \in Nat
    <2>1. installer.calls \in Nat
      BY <1>2 DEF InstallerRecord
    <2> QED
      BY <2>1
  <1> HIDE DEF calls, pc
  <1>3. /\ n \in InstallerRecord
        /\ n.pc = pc /\ n.saved = installer.saved /\ n.marked = installer.marked
        /\ n.dirty = installer.dirty
    BY <1>2, <1>8, <1>9 DEF InstallerRecord
  <1> HIDE DEF n
  <1>4. AdaptersTypeOK'
    BY <1>1, <1>3 DEF AdaptersInv, AdaptersTypeOK, scopes
  <1>5. Reached("snapshot") = NotInstalled
    BY DEF Reached, NotInstalled, Registries, Before, After, TearDown
  <1>6. \A k \in FlaskCalls : At(k, "away")'
    BY <1>1 DEF At
  <1>7. HooksInv'
    BY <1>1, <1>3, <1>5, <1>6, <1>8 DEF AdaptersInv, HooksInv
  <1> QED
    BY <1>1, <1>3, <1>4, <1>7 DEF Installs

LEMMA SnapshotFacts ==
    ASSUME AdaptersInv, Snapshot
    PROVE  Installs
  <1> DEFINE n == [installer EXCEPT !.saved = hooks, !.pc = Before]
  <1>1. /\ installer' = n /\ installer.pc = "snapshot"
        /\ UNCHANGED <<scopes, route, reader, call, hooks, records>>
    BY DEF Snapshot
  <1>2. installer \in InstallerRecord /\ hooks \in Callbacks
    BY DEF AdaptersInv, AdaptersTypeOK
  <1>3. /\ n \in InstallerRecord
        /\ n.pc = Before /\ n.saved = hooks /\ n.marked = installer.marked
        /\ n.dirty = installer.dirty
    BY <1>2, RegistryFacts DEF InstallerRecord
  <1> HIDE DEF n
  <1>4. AdaptersTypeOK'
    BY <1>1, <1>3 DEF AdaptersInv, AdaptersTypeOK, scopes
  <1>5. Reached("snapshot") = NotInstalled /\ Reached(Before) = NotInstalled
    BY RegistryFacts DEF Reached, NotInstalled, Registries, Before, After, TearDown
  <1>6. \A k \in FlaskCalls : At(k, "away") /\ At(k, "away")'
    BY <1>1 DEF AdaptersInv, HooksInv, At
  <1>7. ~installer.marked /\ (~installer.dirty => hooks = NotInstalled)
    BY <1>1, <1>5 DEF AdaptersInv, HooksInv
  <1>8. HooksInv'
    BY <1>1, <1>3, <1>5, <1>6, <1>7, RegistryFacts DEF HooksInv
  <1> QED
    BY <1>1, <1>3, <1>4, <1>6, <1>8 DEF Installs

LEMMA MarkFacts ==
    ASSUME AdaptersInv, Mark
    PROVE  Installs
  <1> DEFINE n == [installer EXCEPT !.marked = TRUE, !.pc = "idle"]
  <1>1. /\ installer' = n /\ installer.pc = "mark"
        /\ UNCHANGED <<scopes, route, reader, call, hooks, records>>
    BY DEF Mark
  <1>2. installer \in InstallerRecord
    BY DEF AdaptersInv, AdaptersTypeOK
  <1>3. /\ n \in InstallerRecord
        /\ n.pc = "idle" /\ n.saved = installer.saved /\ n.marked
        /\ n.dirty = installer.dirty
    BY <1>2 DEF InstallerRecord
  <1> HIDE DEF n
  <1>4. AdaptersTypeOK'
    BY <1>1, <1>3 DEF AdaptersInv, AdaptersTypeOK, scopes
  <1>5. Reached("mark") = Installed
    BY DEF Reached, Installed, Registries, Before, After, TearDown
  <1>6. \A k \in FlaskCalls : At(k, "away") /\ At(k, "away")'
    BY <1>1 DEF AdaptersInv, HooksInv, At
  <1>7. ~installer.dirty => hooks = Installed
    BY <1>1, <1>5 DEF AdaptersInv, HooksInv
  <1>8. HooksInv'
    BY <1>1, <1>3, <1>6, <1>7 DEF HooksInv
  <1> QED
    BY <1>1, <1>3, <1>4, <1>6, <1>8 DEF Installs

LEMMA InstallFailsFacts ==
    ASSUME AdaptersInv, InstallFails
    PROVE  Installs
  <1> DEFINE next == IF installer.pc = "snapshot" THEN "idle" ELSE "rollback"
  <1>1. /\ Steps(installer.pc, next) /\ installer.pc \notin {"idle", "rollback"}
        /\ hooks' = hooks /\ hooks \in Callbacks
    BY DEF InstallFails, AdaptersInv, AdaptersTypeOK
  <1>2. next \in {"idle", "rollback"} /\ (next = "idle" <=> installer.pc = "snapshot")
    OBVIOUS
  <1> HIDE DEF next
  <1> QED
    BY <1>1, <1>2, StepFacts

LEMMA RollbackFacts ==
    ASSUME AdaptersInv, Rollback
    PROVE  Installs
  <1>1. PICK kept \in SUBSET Registries, emptied \in SUBSET Registries :
          /\ hooks' = [r \in Registries |-> IF r \in emptied THEN <<>>
                                            ELSE IF r \in kept THEN hooks[r]
                                            ELSE Restored(r)]
          /\ installer' = [installer EXCEPT !.pc = "idle", !.marked = FALSE,
                                    !.dirty = installer.dirty \/ kept \cup emptied # {}]
          /\ installer.pc = "rollback"
          /\ UNCHANGED <<scopes, route, reader, call, records>>
    BY DEF Rollback
  <1> DEFINE dirty == installer.dirty \/ kept \cup emptied # {}
             n == [installer EXCEPT !.pc = "idle", !.marked = FALSE, !.dirty = dirty]
  <1>2. installer \in InstallerRecord /\ hooks \in Callbacks
    BY DEF AdaptersInv, AdaptersTypeOK
  <1>3. dirty \in BOOLEAN /\ (installer.dirty => dirty) /\ (~dirty => kept = {} /\ emptied = {})
    BY <1>2 DEF InstallerRecord
  <1>4. installer' = n
    BY <1>1
  <1> HIDE DEF dirty
  <1>5. /\ n \in InstallerRecord
        /\ n.pc = "idle" /\ n.saved = installer.saved /\ ~n.marked /\ n.dirty = dirty
    BY <1>2, <1>3 DEF InstallerRecord
  <1> HIDE DEF n
  <1>6. hooks' \in Callbacks
    <2>1. hooks \in Callbacks /\ installer.saved \in Callbacks /\ <<>> \in Seq({"app", "ours"})
      <3>1. installer.saved \in Callbacks
        BY <1>2 DEF InstallerRecord
      <3>2. <<>> \in Seq({"app", "ours"})
        OBVIOUS
      <3> QED
        BY <1>2, <3>1, <3>2
    <2>2. ASSUME NEW r \in Registries
          PROVE  hooks'[r] \in {<<>>, hooks[r], installer.saved[r]}
      <3> HIDE DEF Registries
      <3> QED
        BY <1>1, <2>2 DEF Restored
    <2> HIDE DEF Registries
    <2>3. \A r \in Registries : hooks'[r] \in Seq({"app", "ours"})
      BY <2>1, <2>2 DEF Callbacks
    <2>4. hooks' = [r \in Registries |-> hooks'[r]]
      BY <1>1
    <2> QED
      BY <2>3, <2>4 DEF Callbacks
  <1>7. AdaptersTypeOK'
    BY <1>1, <1>4, <1>5, <1>6 DEF AdaptersInv, AdaptersTypeOK, scopes
  <1>8. \A k \in FlaskCalls : At(k, "away") /\ At(k, "away")'
    BY <1>1 DEF AdaptersInv, HooksInv, At
  <1>9. ASSUME ~dirty
        PROVE  hooks' = NotInstalled
    <2>1. installer.saved = NotInstalled
      BY <1>1, <1>3, <1>9 DEF AdaptersInv, HooksInv
    <2>2. hooks' = [r \in Registries |-> NotInstalled[r]]
      BY <1>1, <1>3, <1>9, <2>1 DEF Restored
    <2> QED
      BY <2>2 DEF NotInstalled
  <1>10. HooksInv'
    BY <1>4, <1>5, <1>8, <1>9 DEF HooksInv
  <1> QED
    BY <1>1, <1>3, <1>4, <1>5, <1>7, <1>8, <1>10, SMTT(60) DEF Installs

LEMMA InstallStepFacts ==
    ASSUME AdaptersInv, InstallStep
    PROVE  Installs
  <1>1. CASE Install
    BY <1>1, InstallFacts
  <1>2. CASE Snapshot
    BY <1>2, SnapshotFacts
  <1>3. CASE Register(Before, "before first")
    BY <1>3, RegisterFacts, RegistryFacts
  <1>4. CASE MoveToStart("before first", Before, After)
    BY <1>4, MoveToStartFacts, RegistryFacts
  <1>5. CASE Register(After, "after first")
    BY <1>5, RegisterFacts, RegistryFacts
  <1>6. CASE MoveToStart("after first", After, TearDown)
    BY <1>6, MoveToStartFacts, RegistryFacts
  <1>7. CASE Register(TearDown, "mark")
    BY <1>7, RegisterFacts, RegistryFacts
  <1>8. CASE Mark
    BY <1>8, MarkFacts
  <1>9. CASE InstallFails
    BY <1>9, InstallFailsFacts
  <1>10. CASE Rollback
    BY <1>10, RollbackFacts
  <1> QED
    BY <1>1, <1>2, <1>3, <1>4, <1>5, <1>6, <1>7, <1>8, <1>9, <1>10 DEF InstallStep
-------------------------------------------------------------------------------
(* Calls that a step is not about *)

LEMMA FastAPIUntouched ==
    ASSUME NEW k \in FastAPICalls, FastAPICall(k),
           call'[k] = call[k], req'[k] = req[k], route'[k] = route[k], reader'[k] = reader[k],
           requestState'[Main(k)] = requestState[Main(k)],
           requestState'[Child(k)] = requestState[Child(k)],
           ctx'[Child(k)] = ctx[Child(k)]
    PROVE  FastAPICall(k)'
  <1>1. Main(k)' = Main(k) /\ Child(k)' = Child(k)
    BY DEF Main, Child
  <1>2. Begun(k)' = Begun(k) /\ Told(k)' = Told(k)
        /\ \A pc : At(k, pc)' = At(k, pc)
    BY DEF Begun, Told, At, Answer, Runtime!Outcome
  <1> QED
    BY <1>1, <1>2 DEF FastAPICall, At

LEMMA InstallsKeep ==
    ASSUME AdaptersInv, Installs
    PROVE  AdaptersInv'
  <1>1. /\ UNCHANGED <<requestState, req, ctx, route, reader, call, records>>
        /\ AdaptersTypeOK' /\ HooksInv' /\ (installer.dirty => installer'.dirty)
        /\ \A k \in FlaskCalls : At(k, "away")
    BY DEF Installs, scopes
  <1>2. \A k \in FastAPICalls : FastAPICall(k)'
    <2> SUFFICES ASSUME NEW k \in FastAPICalls
                 PROVE  FastAPICall(k)'
      OBVIOUS
    <2> QED
      BY <1>1, FastAPIUntouched DEF AdaptersInv
  <1>3. \A k \in FlaskCalls : /\ At(k, "away")' /\ ~UnderWay(k) /\ ~UnderWay(k)' /\ ~Begun(k)
                              /\ ~Begun(k)' /\ ~reader[k]
                              /\ call[k].pc = "away" /\ call[k].status = None
                              /\ ~call[k].raised /\ ~call[k].skipped
                              /\ req[k].log = <<>> /\ req[k].status = None
    BY <1>1 DEF AdaptersInv, FlaskCall, At, UnderWay, Begun
  <1>4. \A k \in FlaskCalls : FlaskCall(k)'
    BY <1>1, <1>3 DEF FlaskCall, At
  <1>5. requestState[Thread] = None
    BY <1>3 DEF AdaptersInv, ThreadInv
  <1>6. ThreadInv'
    BY <1>1, <1>5 DEF ThreadInv
  <1>7. \A k : Untold(k) => Untold(k)'
    BY <1>1 DEF Untold
  <1>8. RoutesAreCurrent'
    BY <1>1, <1>7 DEF AdaptersInv, RoutesAreCurrent
  <1> QED
    BY <1>1, <1>2, <1>4, <1>6, <1>8 DEF AdaptersInv

\* A step of a call of FastAPI.
OnlyFastAPI(k) ==
    /\ AdaptersTypeOK' /\ FastAPICall(k)'
    /\ \A j \in Calls \ {k} : /\ call'[j] = call[j] /\ req'[j] = req[j]
                              /\ route'[j] = route[j] /\ reader'[j] = reader[j]
    /\ \A c \in Contexts \ {Main(k), Child(k)} :
          requestState'[c] = requestState[c] /\ ctx'[c] = ctx[c]
    /\ \A x \in records' \ records : x.right
    /\ UNCHANGED flask

LEMMA OnlyFastAPIKeeps ==
    ASSUME AdaptersInv, NEW k \in FastAPICalls, OnlyFastAPI(k)
    PROVE  AdaptersInv'
  <1>1. /\ AdaptersTypeOK' /\ FastAPICall(k)' /\ UNCHANGED <<hooks, installer>>
        /\ \A j \in Calls \ {k} : /\ call'[j] = call[j] /\ req'[j] = req[j]
                                  /\ route'[j] = route[j] /\ reader'[j] = reader[j]
        /\ \A c \in Contexts \ {Main(k), Child(k)} :
              requestState'[c] = requestState[c] /\ ctx'[c] = ctx[c]
        /\ \A x \in records' \ records : x.right
    BY DEF OnlyFastAPI, flask
  <1>2. \A j \in FlaskCalls : /\ call'[j] = call[j] /\ req'[j] = req[j]
                              /\ route'[j] = route[j] /\ reader'[j] = reader[j]
    BY <1>1, ContextFacts
  <1>3. requestState'[Thread] = requestState[Thread]
    BY <1>1, ContextFacts
  <1>4. \A j \in FlaskCalls : \A pc : At(j, pc)' = At(j, pc)
    BY <1>2 DEF At
  <1>5. \A j \in FlaskCalls : /\ Begun(j)' = Begun(j) /\ Untold(j)' = Untold(j)
                              /\ UnderWay(j)' = UnderWay(j) /\ Told(j)' = Told(j)
    BY <1>1, <1>2 DEF Begun, Untold, UnderWay, Told, Answer, Runtime!Outcome
  <1>6. HooksInv'
    BY <1>1, <1>4 DEF AdaptersInv, HooksInv
  <1>7. \A j \in FastAPICalls : FastAPICall(j)'
    <2> SUFFICES ASSUME NEW j \in FastAPICalls \ {k}
                 PROVE  FastAPICall(j)'
      BY <1>1
    <2>1. /\ Main(j) \in Contexts \ {Main(k), Child(k)}
          /\ Child(j) \in Contexts \ {Main(k), Child(k)} /\ j \in Calls \ {k}
      BY ContextFacts
    <2>2. FastAPICall(j)
      BY DEF AdaptersInv
    <2> QED
      BY <1>1, <2>1, <2>2, FastAPIUntouched
  <1>8. \A j \in FlaskCalls : FlaskCall(j)'
    <2> SUFFICES ASSUME NEW j \in FlaskCalls
                 PROVE  FlaskCall(j)'
      OBVIOUS
    <2>1. FlaskCall(j) /\ \A i \in FlaskCalls : UnderWay(i)' = UnderWay(i)
      BY <1>5 DEF AdaptersInv
    <2>2. req'[j].old \in FlaskCalls =>
             Begun(req[j].old)' = Begun(req[j].old) /\ Untold(req[j].old)' = Untold(req[j].old)
      BY <1>1, <1>2 DEF Begun, Untold
    <2> QED
      BY <1>1, <1>2, <1>3, <1>4, <1>5, <2>1, <2>2 DEF FlaskCall
  <1>9. ThreadInv'
    <2>1. FlaskIdle' = FlaskIdle
      BY <1>2 DEF FlaskIdle
    <2>2. requestState'[Thread] \in FlaskCalls =>
             /\ Begun(requestState[Thread])' = Begun(requestState[Thread])
             /\ Untold(requestState[Thread])' = Untold(requestState[Thread])
             /\ UnderWay(requestState[Thread])' = UnderWay(requestState[Thread])
      BY <1>1, <1>2, <1>3 DEF Begun, Untold, UnderWay
    <2> QED
      BY <1>3, <1>5, <2>1, <2>2 DEF AdaptersInv, ThreadInv
  <1>10. RoutesAreCurrent'
    <2>1. \A x \in records : x.call \in Calls /\ (x.right \/ Untold(x.call))
      BY DEF AdaptersInv, AdaptersTypeOK, RoutesAreCurrent
    <2>2. \A j \in Calls : Untold(j) => Untold(j)'
      <3>1. ~Untold(k)
        BY ContextFacts DEF AdaptersInv, FastAPICall, Untold
      <3> QED
        BY <1>1, <3>1 DEF Untold
    <2> QED
      BY <1>1, <2>1, <2>2 DEF RoutesAreCurrent
  <1> QED
    BY <1>1, <1>6, <1>7, <1>8, <1>9, <1>10 DEF AdaptersInv

\* Another call of Flask, whose request is only touched if it was never ended.
Kept(j) ==
    /\ call'[j] = call[j]
    /\ \/ req'[j] = req[j] /\ route'[j] = route[j]
       \/ /\ Untold(j) /\ Begun(j) /\ Begun(j)'
          /\ req'[j].ctx = req[j].ctx /\ req'[j].old = req[j].old

\* A step of a call of Flask.
OnlyFlask(k) ==
    /\ AdaptersTypeOK' /\ FlaskCall(k)' /\ ThreadInv'
    /\ installer.pc = "idle"
    /\ \A j \in FlaskCalls \ {k} : Kept(j) /\ ~UnderWay(j)
    /\ Begun(k) => Begun(k)'
    /\ Untold(k) => Untold(k)'
    /\ \A j \in FastAPICalls : call'[j] = call[j] /\ req'[j] = req[j] /\ route'[j] = route[j]
    /\ \A c \in Contexts \ {Thread} : requestState'[c] = requestState[c]
    /\ UNCHANGED <<reader, hooks, installer, ctx>>
    /\ \A x \in records' \ records : x.right \/ Untold(x.call)'

LEMMA OnlyFlaskKeeps ==
    ASSUME AdaptersInv, NEW k \in FlaskCalls, OnlyFlask(k)
    PROVE  AdaptersInv'
  <1>1. /\ AdaptersTypeOK' /\ FlaskCall(k)' /\ ThreadInv'
        /\ installer.pc = "idle" /\ UNCHANGED <<reader, hooks, installer, ctx>>
        /\ \A j \in FastAPICalls : call'[j] = call[j] /\ req'[j] = req[j] /\ route'[j] = route[j]
        /\ \A c \in Contexts \ {Thread} : requestState'[c] = requestState[c]
    BY DEF OnlyFlask
  <1>2. \A j \in FlaskCalls \ {k} :
          /\ call'[j] = call[j] /\ ~UnderWay(j)
          /\ \/ req'[j] = req[j] /\ route'[j] = route[j]
             \/ /\ Untold(j) /\ Begun(j) /\ Begun(j)'
                /\ req'[j].ctx = req[j].ctx /\ req'[j].old = req[j].old
    BY DEF OnlyFlask, Kept
  <1>3. \A j \in FlaskCalls : (Begun(j) => Begun(j)') /\ (Untold(j) => Untold(j)')
    BY <1>1, <1>2 DEF OnlyFlask, Begun, Untold
  <1>4. HooksInv'
    BY <1>1 DEF AdaptersInv, HooksInv
  <1>5. \A j \in FastAPICalls : FastAPICall(j)'
    <2> SUFFICES ASSUME NEW j \in FastAPICalls
                 PROVE  FastAPICall(j)'
      OBVIOUS
    <2>1. Main(j) \in Contexts \ {Thread} /\ Child(j) \in Contexts \ {Thread}
      BY ContextFacts
    <2>2. FastAPICall(j)
      BY DEF AdaptersInv
    <2> QED
      BY <1>1, <2>1, <2>2, FastAPIUntouched
  <1>6. \A j \in FlaskCalls : FlaskCall(j)'
    <2> SUFFICES ASSUME NEW j \in FlaskCalls \ {k}
                 PROVE  FlaskCall(j)'
      BY <1>1
    <2>1. /\ FlaskCall(j) /\ call'[j] = call[j] /\ ~UnderWay(j) /\ ~UnderWay(j)'
          /\ reader'[j] = reader[j] /\ \A pc : At(j, pc)' = At(j, pc)
          /\ ~At(j, "handling") /\ ~At(j, "after") /\ ~At(j, "teardown")
      BY <1>1, <1>2 DEF AdaptersInv, UnderWay, At
    <2>2. Untold(j)' = Untold(j)
      BY <1>1, <2>1 DEF Untold
    <2>3. CASE req'[j] = req[j] /\ route'[j] = route[j]
      <3>1. Begun(j)' = Begun(j) /\ Told(j)' = Told(j)
        BY <2>1, <2>3 DEF Begun, Told, Answer, Runtime!Outcome
      <3>2. ASSUME Begun(j), req[j].old # None
            PROVE  req[j].old \in FlaskCalls /\ Begun(req[j].old)' /\ Untold(req[j].old)'
        <4>1. req[j].old \in FlaskCalls /\ Begun(req[j].old) /\ Untold(req[j].old)
          BY <2>1, <3>2 DEF FlaskCall
        <4>2. PICK i0 \in FlaskCalls : i0 = req[j].old
          BY <4>1
        <4>3. Begun(i0)' /\ Untold(i0)'
          BY <1>3, <4>1, <4>2
        <4> QED
          BY <2>3, <4>1, <4>2, <4>3 DEF Begun, Untold
      <3> QED
        BY <2>1, <2>2, <2>3, <3>1, <3>2 DEF FlaskCall
    <2>4. CASE /\ Untold(j) /\ Begun(j) /\ Begun(j)'
               /\ req'[j].ctx = req[j].ctx /\ req'[j].old = req[j].old
      <3>2. ASSUME req[j].old # None
            PROVE  req[j].old \in FlaskCalls /\ Begun(req[j].old)' /\ Untold(req[j].old)'
        <4>1. req[j].old \in FlaskCalls /\ Begun(req[j].old) /\ Untold(req[j].old)
          BY <2>1, <2>4, <3>2 DEF FlaskCall
        <4>2. PICK i0 \in FlaskCalls : i0 = req[j].old
          BY <4>1
        <4>3. Begun(i0)' /\ Untold(i0)'
          BY <1>3, <4>1, <4>2
        <4> QED
          BY <2>4, <4>1, <4>2, <4>3 DEF Begun, Untold
      <3> QED
        BY <2>1, <2>2, <2>4, <3>2 DEF FlaskCall
    <2> QED
      BY <1>2, <2>3, <2>4
  <1>7. RoutesAreCurrent'
    <2>1. \A x \in records : x.call \in Calls /\ (x.right \/ Untold(x.call))
      BY DEF AdaptersInv, AdaptersTypeOK, RoutesAreCurrent
    <2>2. \A j \in Calls : Untold(j) => Untold(j)'
      <3>1. \A j \in FastAPICalls : Untold(j)' = Untold(j)
        BY <1>1 DEF Untold
      <3> QED
        BY <1>3, <3>1 DEF Calls
    <2>3. \A x \in records' : x \in records \/ x.right \/ Untold(x.call)'
      BY DEF OnlyFlask
    <2> QED
      BY <2>1, <2>2, <2>3 DEF RoutesAreCurrent
  <1> QED
    BY <1>1, <1>4, <1>5, <1>6, <1>7 DEF AdaptersInv
-------------------------------------------------------------------------------
(* Calls of FastAPI *)

LEMMA TypeFacts ==
    ASSUME AdaptersTypeOK
    PROVE  /\ ScopesTyped
           /\ \A k \in Calls : call[k] \in CallRecord /\ req[k] \in RequestRecord
                               /\ route[k] \in BOOLEAN
           /\ \A k \in Calls : /\ call[k].status \in Statuses \cup {None}
                               /\ call[k].raised \in BOOLEAN /\ call[k].matched \in BOOLEAN
                               /\ call[k].sending \in Contexts \cup {None}
  BY DEF AdaptersTypeOK, ScopesTyped, CallRecord

LEMMA UpdateRouteFacts ==
    ASSUME AdaptersTypeOK, NEW c \in Contexts, NEW k \in Calls, UpdateRoute(c, k)
    PROVE  /\ route' \in [Calls -> BOOLEAN]
           /\ \A r \in Calls :
                 route'[r] = IF r \in Active(c) /\ call[k].matched THEN TRUE ELSE route[r]
  BY DEF UpdateRoute, AdaptersTypeOK

LEMMA FastAPIBeginFacts ==
    ASSUME AdaptersInv, NEW k \in FastAPICalls, FastAPIBegin(k)
    PROVE  OnlyFastAPI(k)
  <1> DEFINE n == [call[k] EXCEPT !.pc = "app"]
  <1>1. /\ At(k, "away") /\ call' = [call EXCEPT ![k] = n]
        /\ UNCHANGED <<route, hooks, installer, records>>
    BY DEF FastAPIBegin, flask
  <1>2. /\ AdaptersTypeOK /\ ScopesTyped /\ FastAPICall(k) /\ k \in Calls
        /\ call[k] \in CallRecord
        /\ Main(k) \in Contexts /\ Child(k) \in Contexts /\ Main(k) # Child(k)
    BY TypeFacts, ContextFacts DEF AdaptersInv
  <1>3. /\ n \in CallRecord /\ n.pc = "app" /\ n.status = call[k].status
        /\ n.raised = call[k].raised /\ n.matched = call[k].matched
        /\ n.sending = call[k].sending /\ n.last = call[k].last
        /\ n.completed = call[k].completed /\ n.skipped = call[k].skipped
    BY <1>2 DEF CallRecord
  <1> HIDE DEF n
  <1>4. call'[k] = n /\ \A j \in Calls \ {k} : call'[j] = call[j]
    BY <1>1, <1>2 DEF AdaptersTypeOK
  <1>5. call' \in [Calls -> CallRecord]
    BY <1>1, <1>2, <1>3 DEF AdaptersTypeOK
  <1>6. /\ ~Begun(k) /\ requestState[Main(k)] = None /\ requestState[Child(k)] = None
        /\ call[k].status = None /\ call[k].sending = None /\ ~call[k].last
        /\ ~call[k].completed /\ ~call[k].raised /\ ~call[k].skipped
        /\ ~ctx[Child(k)].alive /\ req[k].log = <<>> /\ req[k].status = None
        /\ route[k] => call[k].matched
    BY <1>1, <1>2 DEF FastAPICall, At
  <1>7. CASE Begin(k) /\ reader' = [reader EXCEPT ![k] = TRUE]
    <2>1. Began(k)
      BY <1>2, <1>7, BeginFacts
    <2>2. reader' \in [Calls -> BOOLEAN] /\ reader'[k] /\ \A j \in Calls \ {k} : reader'[j] = reader[j]
      BY <1>2, <1>7 DEF AdaptersTypeOK
    <2>3. AdaptersTypeOK'
      BY <1>1, <1>2, <1>5, <2>1, <2>2 DEF AdaptersTypeOK, Began, ScopesTyped
    <2>4. /\ req'[k].stage = "open" /\ req'[k].ctx = Main(k) /\ req'[k].old = None
          /\ req'[k].status = None /\ req'[k].log = <<>>
          /\ requestState'[Main(k)] = k /\ requestState'[Child(k)] = None
          /\ ctx' = ctx
      BY <1>2, <1>6, <2>1 DEF Began
    <2>6. /\ Begun(k)' /\ Main(k)' = Main(k) /\ Child(k)' = Child(k)
          /\ \A c \in {Main(k), Child(k)} : requestState'[c] \in {None, k}
      BY <2>4 DEF Begun, Main, Child
    <2>7. /\ call'[k].pc = "app" /\ call'[k].status = None /\ call'[k].sending = None
          /\ ~call'[k].last /\ ~call'[k].completed /\ ~call'[k].raised /\ ~call'[k].skipped
          /\ route'[k] => call'[k].matched
      BY <1>1, <1>3, <1>4, <1>6
    <2>8. /\ ~At(k, "away")' /\ ~At(k, "over")' /\ At(k, "app")'
          /\ requestState'[Main(k)] = k /\ requestState'[Child(k)] = None
          /\ ~ctx'[Child(k)].alive /\ Child(k) # None
      BY <1>2, <1>6, <2>4, <2>7, ContextFacts DEF At
    <2>5. FastAPICall(k)'
      BY <2>2, <2>4, <2>6, <2>7, <2>8 DEF FastAPICall
    <2> QED
      BY <1>1, <1>2, <1>4, <2>1, <2>2, <2>3, <2>5 DEF OnlyFastAPI, Began, flask
  <1>8. CASE UNCHANGED <<scopes, reader>>
    <2>1. UNCHANGED <<requestState, req, ctx, reader>>
      BY <1>8 DEF scopes
    <2>2. AdaptersTypeOK'
      BY <1>1, <1>2, <1>5, <2>1 DEF AdaptersTypeOK
    <2>3. ~Begun(k)'
      BY <1>6, <2>1 DEF Begun
    <2>4. FastAPICall(k)'
      BY <1>1, <1>3, <1>4, <1>6, <2>1, <2>3 DEF FastAPICall, At, Main, Child
    <2> QED
      BY <1>1, <1>4, <2>1, <2>2, <2>4 DEF OnlyFastAPI, flask
  <1> QED
    BY <1>7, <1>8 DEF FastAPIBegin

\* Steps that change nothing but what the middleware keeps of the call.
LEMMA CallOnlyFacts ==
    ASSUME AdaptersInv, NEW k \in FastAPICalls, NEW n \in CallRecord,
           call' = [call EXCEPT ![k] = n],
           UNCHANGED <<scopes, route, reader, flask, records>>,
           FastAPICall(k)'
    PROVE  OnlyFastAPI(k)
  <1>1. UNCHANGED <<requestState, req, ctx, route, reader, hooks, installer, records>>
    BY DEF scopes, flask
  <1>2. AdaptersTypeOK /\ k \in Calls
    BY ContextFacts DEF AdaptersInv
  <1>3. call' \in [Calls -> CallRecord] /\ \A j \in Calls \ {k} : call'[j] = call[j]
    BY <1>2 DEF AdaptersTypeOK
  <1>4. AdaptersTypeOK'
    BY <1>1, <1>2, <1>3 DEF AdaptersTypeOK
  <1> QED
    BY <1>1, <1>3, <1>4 DEF OnlyFastAPI, flask

LEMMA MatchFacts ==
    ASSUME AdaptersInv, NEW k \in FastAPICalls, Match(k)
    PROVE  OnlyFastAPI(k)
  <1> DEFINE n == [call[k] EXCEPT !.matched = TRUE]
  <1>1. /\ At(k, "app") /\ call' = [call EXCEPT ![k] = n]
        /\ UNCHANGED <<scopes, route, reader, flask, records>>
    BY DEF Match
  <1>2. /\ AdaptersTypeOK /\ FastAPICall(k) /\ k \in Calls /\ call[k] \in CallRecord
        /\ Main(k) \in Contexts /\ Child(k) \in Contexts
    BY TypeFacts, ContextFacts DEF AdaptersInv
  <1>3. /\ n \in CallRecord /\ n.pc = call[k].pc /\ n.status = call[k].status
        /\ n.raised = call[k].raised /\ n.matched
        /\ n.sending = call[k].sending /\ n.last = call[k].last
        /\ n.completed = call[k].completed /\ n.skipped = call[k].skipped
    BY <1>2 DEF CallRecord
  <1> HIDE DEF n
  <1>4. call'[k] = n /\ UNCHANGED <<requestState, req, ctx, route, reader>>
    BY <1>1, <1>2 DEF AdaptersTypeOK, scopes
  <1>5. Told(k)' = Told(k) /\ Begun(k)' = Begun(k)
    BY <1>3, <1>4 DEF Told, Begun, Answer, Runtime!Outcome
  <1>6. FastAPICall(k)'
    BY <1>2, <1>3, <1>4, <1>5 DEF FastAPICall, At, Main, Child
  <1> QED
    BY <1>1, <1>3, <1>6, CallOnlyFacts

LEMMA SendLastFacts ==
    ASSUME AdaptersInv, NEW k \in FastAPICalls, NEW c \in {Main(k), Child(k)}, SendLast(k, c)
    PROVE  OnlyFastAPI(k)
  <1> DEFINE n == [call[k] EXCEPT !.sending = c, !.last = TRUE]
  <1>1. /\ At(k, "app") /\ call' = [call EXCEPT ![k] = n]
        /\ c = Main(k) \/ (c = Child(k) /\ ctx[c].alive)
        /\ call[k].status # None /\ ~call[k].last
        /\ UNCHANGED <<scopes, route, reader, flask, records>>
    BY DEF SendLast, Speaks
  <1>2. /\ AdaptersTypeOK /\ FastAPICall(k) /\ k \in Calls /\ call[k] \in CallRecord
        /\ Main(k) \in Contexts /\ Child(k) \in Contexts /\ Main(k) # Child(k)
        /\ None \notin Contexts
    BY TypeFacts, ContextFacts DEF AdaptersInv
  <1>3. /\ n \in CallRecord /\ n.pc = call[k].pc /\ n.status = call[k].status
        /\ n.raised = call[k].raised /\ n.matched = call[k].matched
        /\ n.sending = c /\ n.last
        /\ n.completed = call[k].completed /\ n.skipped = call[k].skipped
    BY <1>2 DEF CallRecord
  <1> HIDE DEF n
  <1>4. call'[k] = n /\ UNCHANGED <<requestState, req, ctx, route, reader>>
    BY <1>1, <1>2 DEF AdaptersTypeOK, scopes
  <1>5. Begun(k)' = Begun(k) /\ ~call[k].completed /\ call[k].pc = "app"
    BY <1>1, <1>2, <1>4 DEF Begun, FastAPICall, At
  <1>6. FastAPICall(k)'
    BY <1>1, <1>2, <1>3, <1>4, <1>5 DEF FastAPICall, At, Main, Child
  <1> QED
    BY <1>1, <1>3, <1>6, CallOnlyFacts

LEMMA SendFailsFacts ==
    ASSUME AdaptersInv, NEW k \in FastAPICalls, SendFails(k)
    PROVE  OnlyFastAPI(k)
  <1> DEFINE n == [call[k] EXCEPT !.sending = None]
  <1>1. /\ call' = [call EXCEPT ![k] = n] /\ call[k].sending # None
        /\ UNCHANGED <<scopes, route, reader, flask, records>>
    BY DEF SendFails
  <1>2. /\ AdaptersTypeOK /\ FastAPICall(k) /\ k \in Calls /\ call[k] \in CallRecord
        /\ Main(k) \in Contexts /\ Child(k) \in Contexts /\ None \notin Contexts
    BY TypeFacts, ContextFacts DEF AdaptersInv
  <1>3. /\ n \in CallRecord /\ n.pc = call[k].pc /\ n.status = call[k].status
        /\ n.raised = call[k].raised /\ n.matched = call[k].matched
        /\ n.sending = None /\ n.last = call[k].last
        /\ n.completed = call[k].completed /\ n.skipped = call[k].skipped
    BY <1>2 DEF CallRecord
  <1> HIDE DEF n
  <1>4. call'[k] = n /\ UNCHANGED <<requestState, req, ctx, route, reader>>
    BY <1>1, <1>2 DEF AdaptersTypeOK, scopes
  <1>5. Told(k)' = Told(k) /\ Begun(k)' = Begun(k)
    BY <1>3, <1>4 DEF Told, Begun, Answer, Runtime!Outcome
  <1>6. FastAPICall(k)'
    BY <1>2, <1>3, <1>4, <1>5 DEF FastAPICall, At, Main, Child
  <1> QED
    BY <1>1, <1>3, <1>6, CallOnlyFacts

LEMMA SpawnFacts ==
    ASSUME AdaptersInv, NEW k \in FastAPICalls, Spawn(k)
    PROVE  OnlyFastAPI(k)
  <1>1. /\ At(k, "app") /\ Runtime!Copy(Main(k), Child(k))
        /\ UNCHANGED <<route, reader, call, hooks, installer, records>>
    BY DEF Spawn, flask
  <1>2. /\ AdaptersTypeOK /\ ScopesTyped /\ FastAPICall(k) /\ k \in Calls
        /\ Main(k) \in Contexts /\ Child(k) \in Contexts /\ Main(k) # Child(k)
    BY TypeFacts, ContextFacts DEF AdaptersInv
  <1>3. /\ ScopesTyped' /\ UNCHANGED req
        /\ requestState'[Child(k)] = requestState[Main(k)]
        /\ \A e \in Contexts \ {Child(k)} :
              requestState'[e] = requestState[e] /\ ctx'[e] = ctx[e]
    BY <1>1, <1>2, CopyFacts
  <1>4. requestState'[Main(k)] = requestState[Main(k)]
    BY <1>2, <1>3
  <1>5. AdaptersTypeOK'
    BY <1>1, <1>2, <1>3 DEF AdaptersTypeOK, ScopesTyped
  <1>6. Told(k)' = Told(k) /\ Begun(k)' = Begun(k) /\ call[k].pc = "app"
    BY <1>1, <1>3 DEF Told, Begun, Answer, Runtime!Outcome, At
  <1>7. FastAPICall(k)'
    BY <1>1, <1>2, <1>3, <1>4, <1>6 DEF FastAPICall, At, Main, Child
  <1> QED
    BY <1>1, <1>3, <1>5, <1>7 DEF OnlyFastAPI, flask

\* In its tasks, the runtime has the request of the call or none.
LEMMA OwnRequestFacts ==
    ASSUME AdaptersInv, NEW k \in FastAPICalls, NEW c \in {Main(k), Child(k)}
    PROVE  /\ c \in Contexts
           /\ \/ Active(c) = {}
              \/ Active(c) = {k} /\ requestState[c] = k /\ req[k].stage # "completed"
           /\ Active(c) = {} =>
                 requestState[c] = None \/ (requestState[c] = k /\ req[k].stage = "completed")
           /\ UpdateRoute(c, k) =>
                 /\ route' \in [Calls -> BOOLEAN]
                 /\ \A j \in Calls \ {k} : route'[j] = route[j]
                 /\ route'[k] => call[k].matched
                 /\ Active(c) # {} => route'[k] = call[k].matched
  <1>1. /\ AdaptersTypeOK /\ ScopesTyped /\ k \in Calls /\ c \in Contexts
        /\ call[k].matched \in BOOLEAN /\ route[k] \in BOOLEAN
    BY TypeFacts, ContextFacts DEF AdaptersInv
  <1>2. /\ requestState[c] \in {None, k}
        /\ route[k] => call[k].matched
    BY DEF AdaptersInv, FastAPICall
  <1>3. /\ \/ Active(c) = {}
           \/ Active(c) = {k} /\ requestState[c] = k /\ req[k].stage # "completed"
        /\ Active(c) = {} =>
              requestState[c] = None \/ (requestState[c] = k /\ req[k].stage = "completed")
    BY <1>1, <1>2, ActiveFacts, ContextFacts
  <1>4. ASSUME UpdateRoute(c, k)
        PROVE  /\ route' \in [Calls -> BOOLEAN]
               /\ \A j \in Calls \ {k} : route'[j] = route[j]
               /\ route'[k] => call[k].matched
               /\ Active(c) # {} => route'[k] = call[k].matched
    <2>1. /\ route' \in [Calls -> BOOLEAN]
          /\ \A r \in Calls :
                route'[r] = IF r \in Active(c) /\ call[k].matched THEN TRUE ELSE route[r]
      BY <1>1, <1>4, UpdateRouteFacts
    <2> QED
      BY <1>1, <1>2, <1>3, <2>1
  <1> QED
    BY <1>1, <1>3, <1>4

LEMMA SendStartFacts ==
    ASSUME AdaptersInv, NEW k \in FastAPICalls, NEW c \in {Main(k), Child(k)},
           NEW status \in Statuses, SendStart(k, c, status)
    PROVE  OnlyFastAPI(k)
  <1> DEFINE n == [call[k] EXCEPT !.status = status]
  <1>1. /\ At(k, "app") /\ call[k].sending = None /\ call[k].status = None
        /\ call' = [call EXCEPT ![k] = n] /\ UpdateRoute(c, k)
        /\ UNCHANGED <<requestState, req, ctx, reader, hooks, installer, records>>
    BY DEF SendStart, Speaks, scopes, flask
  <1>2. /\ AdaptersTypeOK /\ FastAPICall(k) /\ k \in Calls /\ call[k] \in CallRecord
        /\ Main(k) \in Contexts /\ Child(k) \in Contexts /\ status # None
    BY TypeFacts, ContextFacts DEF AdaptersInv
  <1>3. /\ n \in CallRecord /\ n.pc = call[k].pc /\ n.status = status
        /\ n.raised = call[k].raised /\ n.matched = call[k].matched
        /\ n.sending = call[k].sending /\ n.last = call[k].last
        /\ n.completed = call[k].completed /\ n.skipped = call[k].skipped
    BY <1>2 DEF CallRecord
  <1> HIDE DEF n
  <1>4. call'[k] = n /\ \A j \in Calls \ {k} : call'[j] = call[j]
    BY <1>1, <1>2 DEF AdaptersTypeOK
  <1>5. /\ route' \in [Calls -> BOOLEAN]
        /\ \A j \in Calls \ {k} : route'[j] = route[j]
        /\ route'[k] => call[k].matched
    BY <1>1, OwnRequestFacts
  <1>6. AdaptersTypeOK'
    BY <1>1, <1>2, <1>3, <1>5 DEF AdaptersTypeOK
  <1>7. /\ Begun(k)' = Begun(k) /\ ~call[k].last /\ ~call[k].completed
        /\ call[k].pc = "app"
    BY <1>1, <1>2 DEF FastAPICall, Begun, At
  <1>8. FastAPICall(k)'
    BY <1>1, <1>2, <1>3, <1>4, <1>5, <1>7 DEF FastAPICall, At, Main, Child
  <1> QED
    BY <1>1, <1>4, <1>5, <1>6, <1>8 DEF OnlyFastAPI, flask

\* The request of a call, if it has one, is ended by its tasks.
LEMMA OwnEndFacts ==
    ASSUME AdaptersInv, NEW k \in FastAPICalls, NEW c \in {Main(k), Child(k)},
           NEW status \in Statuses \cup {None}, NEW raised \in BOOLEAN,
           UpdateRouteAtEnd(c, k), End(c, status, raised)
    PROVE  /\ route' \in [Calls -> BOOLEAN]
           /\ \A j \in Calls \ {k} : route'[j] = route[j] /\ req'[j] = req[j]
           /\ route'[k] => call[k].matched
           /\ ScopesTyped' /\ UNCHANGED ctx
           /\ \A x \in records' : x.call \in Calls /\ x.right \in BOOLEAN
           /\ \A x \in records' \ records : x.right
           /\ \A d \in Contexts \ {c} : requestState'[d] = requestState[d]
           /\ IF Active(c) = {} THEN UNCHANGED <<requestState, req>>
              ELSE requestState[c] = k /\ Ended(k, c, status, raised)
  <1>1. /\ AdaptersTypeOK /\ ScopesTyped /\ k \in Calls /\ c \in Contexts
        /\ call[k].matched \in BOOLEAN
    BY TypeFacts, ContextFacts DEF AdaptersInv
  <1>2. UpdateRoute(c, k)
    BY DEF UpdateRouteAtEnd
  <1>3. /\ \/ Active(c) = {}
           \/ Active(c) = {k} /\ requestState[c] = k
        /\ route' \in [Calls -> BOOLEAN]
        /\ \A j \in Calls \ {k} : route'[j] = route[j]
        /\ route'[k] => call[k].matched
        /\ Active(c) # {} => route'[k] = call[k].matched
    BY <1>2, OwnRequestFacts
  <1>4. CASE Active(c) = {}
    <2>1. UNCHANGED <<requestState, req, ctx, records>>
      BY <1>4 DEF End, scopes
    <2> QED
      BY <1>1, <1>3, <1>4, <2>1 DEF ScopesTyped, AdaptersTypeOK
  <1>5. CASE Active(c) # {}
    <2>1. Ended(k, c, status, raised)
      BY <1>1, <1>3, <1>5, EndFacts
    <2>2. /\ ScopesTyped' /\ UNCHANGED ctx
          /\ records' = records \cup {Record(k, route'[k])}
          /\ \A j \in Calls \ {k} : req'[j] = req[j]
          /\ \A d \in Contexts \ {c} : requestState'[d] = requestState[d]
      BY <2>1 DEF Ended
    <2>3. Record(k, route'[k]).call = k /\ Record(k, route'[k]).right
      BY <1>3, <1>5 DEF Record
    <2>4. \A x \in records : x.call \in Calls /\ x.right \in BOOLEAN
      BY <1>1 DEF AdaptersTypeOK
    <2>5. Record(k, route'[k]).right \in BOOLEAN
      BY DEF Record
    <2> HIDE DEF Record
    <2> QED
      BY <1>1, <1>3, <1>5, <2>1, <2>2, <2>3, <2>4, <2>5
  <1> QED
    BY <1>4, <1>5

LEMMA SentFacts ==
    ASSUME AdaptersInv, NEW k \in FastAPICalls, Sent(k)
    PROVE  OnlyFastAPI(k)
  <1> DEFINE c == call[k].sending
             n == [call[k] EXCEPT !.sending = None, !.completed = TRUE]
  <1>1. /\ c # None /\ call' = [call EXCEPT ![k] = n]
        /\ UpdateRouteAtEnd(c, k) /\ End(c, call[k].status, FALSE)
        /\ UNCHANGED <<reader, hooks, installer>>
    BY DEF Sent, flask
  <1>2. /\ AdaptersTypeOK /\ FastAPICall(k) /\ k \in Calls /\ call[k] \in CallRecord
        /\ Main(k) \in Contexts /\ Child(k) \in Contexts /\ Main(k) # Child(k)
        /\ Child(k) # None /\ call[k].status \in Statuses \cup {None}
    BY TypeFacts, ContextFacts DEF AdaptersInv
  <1>3. /\ n \in CallRecord /\ n.pc = call[k].pc /\ n.status = call[k].status
        /\ n.raised = call[k].raised /\ n.matched = call[k].matched
        /\ n.sending = None /\ n.last = call[k].last
        /\ n.completed /\ n.skipped = call[k].skipped
    BY <1>2 DEF CallRecord
  <1> HIDE DEF n
  <1>4. call'[k] = n /\ \A j \in Calls \ {k} : call'[j] = call[j]
    BY <1>1, <1>2 DEF AdaptersTypeOK
  <1>5. /\ c \in {Main(k), Child(k)} /\ call[k].last /\ call[k].status # None
        /\ call[k].pc \in {"app", "over"} /\ ~call[k].completed /\ ~call[k].skipped
    BY <1>1, <1>2 DEF FastAPICall, At
  <1>6. PICK d \in {Main(k), Child(k)} : d = c
    BY <1>5
  <1>7. /\ route' \in [Calls -> BOOLEAN]
        /\ \A j \in Calls \ {k} : route'[j] = route[j] /\ req'[j] = req[j]
        /\ route'[k] => call[k].matched
        /\ ScopesTyped' /\ UNCHANGED ctx
        /\ \A x \in records' : x.call \in Calls /\ x.right \in BOOLEAN
        /\ \A x \in records' \ records : x.right
        /\ \A e \in Contexts \ {d} : requestState'[e] = requestState[e]
        /\ IF Active(d) = {} THEN UNCHANGED <<requestState, req>>
           ELSE requestState[d] = k /\ Ended(k, d, call[k].status, FALSE)
    BY <1>1, <1>2, <1>6, OwnEndFacts, ZenonT(40)
  <1> HIDE DEF c
  <1>8. AdaptersTypeOK'
    BY <1>1, <1>2, <1>3, <1>7 DEF AdaptersTypeOK, ScopesTyped
  <1>9. FastAPICall(k)'
    <2>1. CASE Active(d) = {}
      <3>1. UNCHANGED <<requestState, req>>
        BY <1>7, <2>1
      <3>2. Begun(k)' = Begun(k) /\ Told(k)' = Told(k)
        BY <1>3, <1>4, <3>1 DEF Begun, Told, Answer, Runtime!Outcome
      <3>3. Begun(k) => Told(k)
        <4>1. requestState[d] = None \/ req[k].stage = "completed"
          BY <2>1, OwnRequestFacts
        <4>2. CASE requestState[d] = None
          BY <1>2, <1>5, <1>6, <4>2, ContextFacts DEF FastAPICall, At, c
        <4>3. CASE req[k].stage = "completed"
          BY <1>2, <1>5, <4>3 DEF FastAPICall, At
        <4> QED
          BY <4>1, <4>2, <4>3
      <3> QED
        BY <1>1, <1>2, <1>3, <1>4, <1>5, <1>7, <3>1, <3>2, <3>3, ZenonT(60) DEF FastAPICall, At, Main, Child
    <2>2. CASE Active(d) # {}
      <3>8. requestState[d] = k /\ k # None
        BY <1>2, <1>7, <2>2, ContextFacts, ZenonT(60)
      <3>1. Ended(k, d, call[k].status, FALSE) /\ requestState[d] = k /\ Begun(k)
        BY <1>2, <1>7, <2>2, <3>8 DEF FastAPICall
      <3>2. /\ req[k].stage # "completed" /\ req[k].ctx = Main(k) /\ req[k].old = None
            /\ reader[k]
        BY <1>2, <3>1 DEF FastAPICall, Ended
      <3>3. call[k].pc = "app" /\ ~call[k].raised /\ req[k].log = <<>>
        BY <1>2, <1>5, <3>1, <3>2 DEF FastAPICall, At, Told
      <3>4. /\ req'[k].stage = "completed" /\ req'[k].ctx = Main(k) /\ req'[k].old = None
            /\ req'[k].status = call[k].status
            /\ Len(req'[k].log) = 1
            /\ req'[k].log[1].outcome = Runtime!Outcome(req'[k].status, FALSE)
            /\ requestState'[d] \in {None, k}
        BY <1>5, <3>1, <3>2, <3>3 DEF Ended
      <3>5. Begun(k)' /\ Told(k)'
        BY <1>3, <1>4, <1>5, <3>3, <3>4 DEF Begun, Told, Answer, Runtime!Outcome
      <3>6. /\ Main(k)' = Main(k) /\ Child(k)' = Child(k)
            /\ \A e \in {Main(k), Child(k)} : requestState'[e] \in {None, k}
        BY <1>2, <1>7, <3>4 DEF FastAPICall, Main, Child
      <3>7. /\ ~At(k, "away")' /\ call'[k].pc = "app" /\ call'[k].last
            /\ call'[k].status # None /\ call'[k].completed /\ call'[k].sending = None
            /\ ~call'[k].skipped /\ ~call'[k].raised /\ (route'[k] => call'[k].matched)
        BY <1>3, <1>4, <1>5, <1>7, <3>3 DEF At
      <3> QED
        BY <1>1, <3>2, <3>4, <3>5, <3>6, <3>7 DEF FastAPICall
    <2> QED
      BY <2>1, <2>2
  <1> QED
    BY <1>1, <1>4, <1>6, <1>7, <1>8, <1>9 DEF OnlyFastAPI, flask

LEMMA AppEndsFacts ==
    ASSUME AdaptersInv, NEW k \in FastAPICalls, NEW raised \in BOOLEAN, AppEnds(k, raised)
    PROVE  OnlyFastAPI(k)
  <1> DEFINE failed == raised /\ ~call[k].completed
             n == [call[k] EXCEPT !.pc = "over", !.raised = failed]
             status == FinalStatus(k, raised)
  <1>1. /\ At(k, "app") /\ call[k].sending # Main(k)
        /\ call' = [call EXCEPT ![k] = n]
        /\ UNCHANGED <<reader, hooks, installer>>
    BY DEF AppEnds, flask
  <1>2. /\ AdaptersTypeOK /\ FastAPICall(k) /\ k \in Calls /\ call[k] \in CallRecord
        /\ Main(k) \in Contexts /\ Child(k) \in Contexts /\ Main(k) # Child(k)
        /\ k # None /\ call[k].status \in Statuses \cup {None}
        /\ 500 \in Statuses /\ 500 # None
    BY TypeFacts, ContextFacts DEF AdaptersInv
  <1>10. failed \in BOOLEAN /\ (failed <=> raised /\ ~call[k].completed)
    BY <1>2 DEF CallRecord
  <1>11. /\ status \in Statuses \cup {None}
         /\ status = IF call[k].status # None THEN call[k].status
                     ELSE IF raised THEN 500 ELSE None
    BY <1>2 DEF FinalStatus
  <1> HIDE DEF failed
  <1>3. /\ n \in CallRecord /\ n.pc = "over" /\ n.status = call[k].status
        /\ n.raised = failed /\ n.matched = call[k].matched
        /\ n.sending = call[k].sending /\ n.last = call[k].last
        /\ n.completed = call[k].completed /\ n.skipped = call[k].skipped
    <2>1. /\ n.pc = "over" /\ n.raised = failed
          /\ n.status = call[k].status /\ n.matched = call[k].matched
          /\ n.sending = call[k].sending /\ n.last = call[k].last
      BY <1>2 DEF CallRecord
    <2>2. n.completed = call[k].completed /\ n.skipped = call[k].skipped
      BY <1>2 DEF CallRecord
    <2>3. n \in CallRecord
      BY <1>2, <1>10, ZenonT(60) DEF CallRecord
    <2> QED
      BY <2>1, <2>2, <2>3
  <1> HIDE DEF n
  <1>4. call'[k] = n /\ \A j \in Calls \ {k} : call'[j] = call[j]
    BY <1>1, <1>2 DEF AdaptersTypeOK
  <1>5. call[k].pc = "app" /\ ~call[k].skipped
    BY <1>1, <1>2 DEF FastAPICall, At
  <1>6. CASE call[k].completed
    <2>1. UNCHANGED <<requestState, req, ctx, route, records>>
      BY <1>6 DEF AppEnds, scopes
    <2>2. AdaptersTypeOK'
      BY <1>1, <1>2, <1>3, <2>1 DEF AdaptersTypeOK
    <2>3. Begun(k)' = Begun(k) /\ (Begun(k) => Told(k))
      BY <1>2, <1>6, <2>1 DEF FastAPICall, Begun
    <2>4. ~call[k].raised /\ ~failed
      BY <1>2, <1>5, <1>6, <1>10 DEF FastAPICall, At
    <2>5. Told(k)' = Told(k)
      BY <1>3, <1>4, <2>1, <2>4 DEF Told, Answer, Runtime!Outcome
    <2>6. FastAPICall(k)'
      BY <1>1, <1>2, <1>3, <1>4, <1>5, <1>6, <2>1, <2>3, <2>4, <2>5
         DEF FastAPICall, At, Main, Child
    <2> QED
      BY <1>1, <1>4, <2>1, <2>2, <2>6 DEF OnlyFastAPI, flask
  <1>7. CASE ~call[k].completed
    <2> DEFINE c == Main(k)
    <2>1. UpdateRouteAtEnd(c, k) /\ End(c, status, raised)
      BY <1>7 DEF AppEnds
    <2>2. /\ route' \in [Calls -> BOOLEAN]
          /\ \A j \in Calls \ {k} : route'[j] = route[j] /\ req'[j] = req[j]
          /\ route'[k] => call[k].matched
          /\ ScopesTyped' /\ UNCHANGED ctx
          /\ \A x \in records' : x.call \in Calls /\ x.right \in BOOLEAN
          /\ \A x \in records' \ records : x.right
          /\ \A e \in Contexts \ {c} : requestState'[e] = requestState[e]
          /\ IF Active(c) = {} THEN UNCHANGED <<requestState, req>>
             ELSE requestState[c] = k /\ Ended(k, c, status, raised)
      BY <1>11, <2>1, OwnEndFacts
    <2>3. AdaptersTypeOK'
      BY <1>1, <1>2, <1>3, <2>2 DEF AdaptersTypeOK, ScopesTyped
    <2>4. failed = raised
      BY <1>7, <1>10
    <2>5. ASSUME Active(c) = {}
          PROVE  FastAPICall(k)'
      <3>1. UNCHANGED <<requestState, req>>
        BY <2>2, <2>5
      <3>2. requestState[c] = None \/ req[k].stage = "completed"
        BY <2>5, OwnRequestFacts
      <3>3. ~Begun(k)
        BY <1>2, <1>5, <1>7, <3>2 DEF FastAPICall, At
      <3>4. ~Begun(k)'
        BY <3>1, <3>3 DEF Begun
      <3> QED
        BY <1>1, <1>2, <1>3, <1>4, <1>5, <2>2, <3>1, <3>3, <3>4 DEF FastAPICall, At, Main, Child
    <2>6. ASSUME Active(c) # {}
          PROVE  FastAPICall(k)'
      <3>1. Ended(k, c, status, raised) /\ requestState[c] = k /\ Begun(k)
        BY <1>2, <2>2, <2>6 DEF FastAPICall
      <3>2. /\ req[k].stage # "completed" /\ req[k].ctx = Main(k) /\ req[k].old = None
            /\ reader[k] /\ req[k].log = <<>> /\ req[k].status = None
        BY <1>2, <1>5, <1>7, <3>1 DEF FastAPICall, Ended, At
      <3>3. /\ req'[k].stage = "completed" /\ req'[k].ctx = Main(k) /\ req'[k].old = None
            /\ req'[k].status = status
            /\ Len(req'[k].log) = 1
            /\ req'[k].log[1].outcome = Runtime!Outcome(req'[k].status, raised)
            /\ requestState'[c] = None
        BY <3>1, <3>2 DEF Ended
      <3>4. Answer(k)' = status
        BY <1>3, <1>4, <1>11, <2>4 DEF Answer, FinalStatus
      <3>5. Begun(k)' /\ Told(k)'
        BY <1>3, <1>4, <2>4, <3>3, <3>4 DEF Begun, Told, Runtime!Outcome
      <3>6. /\ Main(k)' = Main(k) /\ Child(k)' = Child(k)
            /\ \A e \in {Main(k), Child(k)} : requestState'[e] \in {None, k}
        BY <1>2, <2>2, <3>3 DEF FastAPICall, Main, Child
      <3>7. /\ ~At(k, "away")' /\ ~At(k, "app")' /\ call'[k].pc = "over"
            /\ ~call'[k].skipped /\ (route'[k] => call'[k].matched)
            /\ ~call'[k].completed /\ At(k, "over")'
            /\ call'[k].sending = call[k].sending /\ call'[k].last = call[k].last
            /\ call'[k].status = call[k].status
        BY <1>3, <1>4, <1>5, <1>7, <2>2 DEF At
      <3>8. /\ call[k].sending # None => call[k].last /\ call[k].sending \in {Main(k), Child(k)}
            /\ call[k].last => call[k].status # None
        BY <1>2 DEF FastAPICall
      <3> QED
        BY <1>1, <3>2, <3>3, <3>5, <3>6, <3>7, <3>8 DEF FastAPICall
    <2>7. FastAPICall(k)'
      BY <2>5, <2>6
    <2> QED
      BY <1>1, <1>4, <2>2, <2>3, <2>7 DEF OnlyFastAPI, flask
  <1> QED
    BY <1>6, <1>7

LEMMA FastAPIStepFacts ==
    ASSUME AdaptersInv, NEW k \in FastAPICalls, FastAPIStep(k)
    PROVE  OnlyFastAPI(k)
  <1>1. CASE FastAPIBegin(k)
    BY <1>1, FastAPIBeginFacts
  <1>2. CASE Match(k)
    BY <1>2, MatchFacts
  <1>3. CASE Spawn(k)
    BY <1>3, SpawnFacts
  <1>4. CASE \E c \in {Main(k), Child(k)} : \E s \in Statuses : SendStart(k, c, s)
    BY <1>4, SendStartFacts
  <1>5. CASE \E c \in {Main(k), Child(k)} : SendLast(k, c)
    BY <1>5, SendLastFacts
  <1>6. CASE Sent(k)
    BY <1>6, SentFacts
  <1>7. CASE SendFails(k)
    BY <1>7, SendFailsFacts
  <1>8. CASE \E raised \in BOOLEAN : AppEnds(k, raised)
    BY <1>8, AppEndsFacts
  <1> QED
    BY <1>1, <1>2, <1>3, <1>4, <1>5, <1>6, <1>7, <1>8 DEF FastAPIStep
-------------------------------------------------------------------------------
(* Calls of Flask *)

\* While a call is under way, the thread has its request, or one that the adapter
\* was not told the end of.
LEMMA ThreadFacts ==
    ASSUME AdaptersInv, NEW k \in FlaskCalls, UnderWay(k)
    PROVE  /\ \A j \in FlaskCalls \ {k} : ~UnderWay(j)
           /\ installer.pc = "idle"
           /\ Active(Thread) # {} =>
                /\ Active(Thread) = {requestState[Thread]}
                /\ requestState[Thread] \in FlaskCalls /\ Begun(requestState[Thread])
                /\ req[requestState[Thread]].stage # "completed"
                /\ requestState[Thread] # k => Untold(requestState[Thread])
           /\ Begun(k) /\ ~installer.dirty =>
                /\ requestState[Thread] = k /\ Active(Thread) = {k} /\ hooks = Installed
  <1>1. /\ FlaskCall(k) /\ ThreadInv /\ ScopesTyped /\ Thread \in Contexts /\ k \in Calls
        /\ k # None
    BY TypeFacts, ContextFacts DEF AdaptersInv
  <1>2. /\ \A j \in FlaskCalls \ {k} : ~UnderWay(j)
        /\ installer.pc = "idle"
    BY <1>1 DEF FlaskCall
  <1>3. ASSUME Active(Thread) # {}
        PROVE  /\ Active(Thread) = {requestState[Thread]}
               /\ requestState[Thread] \in FlaskCalls /\ Begun(requestState[Thread])
               /\ req[requestState[Thread]].stage # "completed"
               /\ requestState[Thread] # k => Untold(requestState[Thread])
    <2>1. /\ Active(Thread) = {requestState[Thread]}
          /\ requestState[Thread] \in Calls
          /\ req[requestState[Thread]].stage # "completed"
      BY <1>1, <1>3, ActiveFacts
    <2>2. requestState[Thread] # None
      BY <2>1, ContextFacts
    <2> QED
      BY <1>1, <1>2, <2>1, <2>2 DEF ThreadInv
  <1>4. ASSUME Begun(k), ~installer.dirty
        PROVE  /\ requestState[Thread] = k /\ Active(Thread) = {k} /\ hooks = Installed
    <2>1. requestState[Thread] = k /\ req[k].stage = "open" /\ hooks = Installed
      BY <1>1, <1>4 DEF FlaskCall
    <2> QED
      BY <1>1, <2>1, ActiveFacts
  <1> QED
    BY <1>2, <1>3, <1>4

\* Steps that change nothing but what the framework and the adapter keep of the
\* call.
LEMMA CallOnlyFlaskFacts ==
    ASSUME AdaptersInv, NEW k \in FlaskCalls, UnderWay(k), NEW n \in CallRecord,
           call' = [call EXCEPT ![k] = n],
           UNCHANGED <<scopes, route, reader, flask, records>>,
           FlaskCall(k)',
           n.skipped \/ n.pc \in {"handling", "after", "teardown"},
           call[k].skipped => n.skipped
    PROVE  OnlyFlask(k)
  <1>1. UNCHANGED <<requestState, req, ctx, route, reader, hooks, installer, records>>
    BY DEF scopes, flask
  <1>2. /\ AdaptersTypeOK /\ ThreadInv /\ k \in Calls /\ installer.pc = "idle"
        /\ \A j \in FlaskCalls \ {k} : ~UnderWay(j) /\ j \in Calls
        /\ \A j \in FastAPICalls : j \in Calls \ {k}
    BY ThreadFacts, ContextFacts DEF AdaptersInv
  <1>3. /\ call' \in [Calls -> CallRecord] /\ call'[k] = n
        /\ \A j \in Calls \ {k} : call'[j] = call[j]
    BY <1>2 DEF AdaptersTypeOK
  <1>4. AdaptersTypeOK'
    BY <1>1, <1>2, <1>3 DEF AdaptersTypeOK
  <1>5. \A j \in FlaskCalls : (Begun(j) <=> Begun(j)') /\ (Untold(j) => Untold(j)')
    BY <1>1, <1>2, <1>3 DEF Begun, Untold
  <1>6. \A j \in FlaskCalls \ {k} : UnderWay(j)' = UnderWay(j) /\ Untold(j)' = Untold(j)
    BY <1>1, <1>2, <1>3 DEF UnderWay, Untold
  <1>7. UnderWay(k)' \/ Untold(k)'
    BY <1>3 DEF UnderWay, Untold
  <1>8. UnderWay(k)' => ~FlaskIdle'
    BY DEF UnderWay, FlaskIdle
  <1>9. ThreadInv'
    <2>1. ASSUME requestState[Thread] # None
          PROVE  /\ requestState[Thread] \in FlaskCalls /\ Begun(requestState[Thread])'
                 /\ UnderWay(requestState[Thread])' \/ Untold(requestState[Thread])'
      <3>1. PICK r \in FlaskCalls : r = requestState[Thread]
        BY <1>2, <2>1 DEF ThreadInv
      <3>2. Begun(r)' /\ (UnderWay(r)' \/ Untold(r)')
        BY <1>2, <1>5, <1>6, <1>7, <2>1, <3>1 DEF ThreadInv
      <3> QED
        BY <1>1, <3>1, <3>2 DEF Begun, UnderWay, Untold
    <2>2. ASSUME \A j \in FlaskCalls : ~Untold(j)'
          PROVE  /\ ~FlaskIdle'
                 /\ \A j \in FlaskCalls : UnderWay(j)' => requestState[Thread] \in {j, None}
      BY <1>2, <1>5, <1>6, <1>7, <1>8, <2>2 DEF ThreadInv
    <2> QED
      BY <1>1, <2>1, <2>2 DEF ThreadInv
  <1> QED
    BY <1>1, <1>2, <1>3, <1>4, <1>5, <1>9 DEF OnlyFlask, Kept

\* The request of such a call stays as it is.
LEMMA FlaskCallStep ==
    ASSUME AdaptersInv, NEW k \in FlaskCalls, UnderWay(k), NEW n \in CallRecord,
           call' = [call EXCEPT ![k] = n],
           UNCHANGED <<scopes, route, reader, flask, records>>,
           n.pc \in {"after", "teardown"} \/ (n.pc = "over" /\ n.skipped),
           n.matched = call[k].matched,
           n.pc # "over" => n.status # None /\ ~n.skipped,
           n.raised => n.status = 500,
           n.pc = "teardown" => n.raised
    PROVE  FlaskCall(k)'
  <1>1. UNCHANGED <<requestState, req, ctx, route, reader, hooks, installer, records>>
    BY DEF scopes, flask
  <1>2. /\ FlaskCall(k) /\ k \in Calls /\ installer.pc = "idle"
        /\ \A j \in FlaskCalls \ {k} : ~UnderWay(j) /\ j \in Calls
        /\ call[k].pc \notin {"away", "over"}
    BY ThreadFacts, ContextFacts DEF AdaptersInv, UnderWay
  <1>3. /\ call'[k] = n /\ \A j \in Calls \ {k} : call'[j] = call[j]
    BY <1>2 DEF AdaptersInv, AdaptersTypeOK
  <1>4. /\ \A j \in FlaskCalls \ {k} : ~UnderWay(j)'
        /\ \A j \in FlaskCalls : UnderWay(j)' /\ UnderWay(k)' => j = k
    BY <1>2, <1>3 DEF UnderWay
  <1>5. /\ Begun(k)' = Begun(k)
        /\ Untold(k)' = (n.skipped \/ installer.dirty)
        /\ Untold(k) => Untold(k)' \/ call[k].skipped
        /\ ~call[k].skipped
    BY <1>1, <1>2, <1>3 DEF Begun, Untold, FlaskCall, At
  <1>6. ASSUME Begun(k), req[k].old # None
        PROVE  req[k].old \in FlaskCalls /\ Begun(req[k].old)' /\ Untold(req[k].old)'
    <2>1. req[k].old \in FlaskCalls /\ Begun(req[k].old) /\ Untold(req[k].old)
      BY <1>2, <1>6 DEF FlaskCall
    <2>2. CASE req[k].old = k
      <3>1. Untold(k)
        BY <2>1, <2>2
      <3>2. Untold(k)' /\ Begun(k)'
        BY <1>5, <1>6, <3>1
      <3> QED
        BY <1>1, <2>1, <2>2, <3>2 DEF Begun, Untold
    <2>3. CASE req[k].old # k
      <3>1. call'[req[k].old] = call[req[k].old]
        BY <1>2, <1>3, <2>1, <2>3
      <3> QED
        BY <1>1, <2>1, <3>1 DEF Begun, Untold
    <2> QED
      BY <2>2, <2>3
  <1>7. ~Untold(k)' => ~Untold(k)
    BY <1>5
  <1>10. At(k, "away")' = (n.pc = "away") /\ At(k, "handling")' = (n.pc = "handling")
         /\ At(k, "after")' = (n.pc = "after") /\ At(k, "teardown")' = (n.pc = "teardown")
         /\ At(k, "over")' = (n.pc = "over")
    BY <1>3 DEF At
  <1>8. /\ call'[k].pc \notin {"away", "app", "handling"}
        /\ ~At(k, "away")' /\ ~At(k, "handling")'
        /\ call'[k].raised => call'[k].status = 500
        /\ ~At(k, "over")' => call'[k].status # None /\ ~call'[k].skipped
        /\ At(k, "teardown")' => call'[k].raised
        /\ At(k, "over")' => Untold(k)'
        /\ At(k, "after")' \/ At(k, "teardown")' => ~At(k, "over")'
        /\ call'[k].matched = call[k].matched
    <2>1. n.pc \in {"after", "teardown", "over"} /\ (n.pc = "over" => n.skipped)
      OBVIOUS
    <2>2. call'[k] = n
      BY <1>3
    <2>3. call'[k].pc \notin {"away", "app", "handling"}
      BY <2>1, <2>2
    <2>4. /\ ~At(k, "away")' /\ ~At(k, "handling")'
          /\ At(k, "after")' \/ At(k, "teardown")' => ~At(k, "over")'
      BY <1>10, <2>1, ZenonT(60)
    <2>5. /\ call'[k].raised => call'[k].status = 500
          /\ call'[k].matched = call[k].matched
      BY <2>2
    <2>6. ~At(k, "over")' => call'[k].status # None /\ ~call'[k].skipped
      BY <1>10, <2>2, ZenonT(60)
    <2>7. At(k, "teardown")' => call'[k].raised
      BY <1>10, <2>2, ZenonT(60)
    <2>8. At(k, "over")' => Untold(k)'
      BY <1>5, <1>10, <2>1
    <2> QED
      BY <2>3, <2>4, <2>5, <2>6, <2>7, <2>8
  <1>9. /\ ~reader[k]
        /\ ~Begun(k) => req[k].log = <<>> /\ req[k].status = None
        /\ Begun(k) => req[k].ctx = Thread
        /\ Begun(k) /\ ~Untold(k) => route[k] = call[k].matched
        /\ Begun(k) /\ ~installer.dirty =>
              /\ req[k].stage = "open" /\ req[k].log = <<>>
              /\ requestState[Thread] = k /\ hooks = Installed
    BY <1>2 DEF FlaskCall
  <1> QED
    BY <1>1, <1>2, <1>4, <1>5, <1>6, <1>7, <1>8, <1>9 DEF FlaskCall

LEMMA RespondFacts ==
    ASSUME AdaptersInv, NEW k \in FlaskCalls, NEW status \in Statuses, Respond(k, status)
    PROVE  OnlyFlask(k)
  <1> DEFINE n == [call[k] EXCEPT !.pc = "after", !.status = status]
  <1>1. /\ At(k, "handling") /\ call' = [call EXCEPT ![k] = n]
        /\ UNCHANGED <<scopes, route, reader, flask, records>>
    BY DEF Respond
  <1>2. /\ AdaptersTypeOK /\ FlaskCall(k) /\ k \in Calls /\ call[k] \in CallRecord
        /\ status # None
    BY TypeFacts, ContextFacts DEF AdaptersInv
  <1>3. /\ n \in CallRecord /\ n.pc = "after" /\ n.status = status
        /\ n.raised = call[k].raised /\ n.matched = call[k].matched
        /\ n.skipped = call[k].skipped
    BY <1>2 DEF CallRecord
  <1> HIDE DEF n
  <1>4. /\ UNCHANGED <<requestState, req, ctx, route, reader, hooks, installer>>
        /\ call'[k] = n /\ \A j \in Calls \ {k} : call'[j] = call[j]
    BY <1>1, <1>2 DEF AdaptersTypeOK, scopes, flask
  <1>5. UnderWay(k) /\ ~call[k].raised
    BY <1>1, <1>2 DEF UnderWay, At, FlaskCall
  <1>7. ~n.skipped /\ ~n.raised
    BY <1>1, <1>2, <1>3 DEF FlaskCall, At
  <1>6. FlaskCall(k)'
    BY <1>1, <1>2, <1>3, <1>5, <1>7, FlaskCallStep
  <1> QED
    BY <1>1, <1>3, <1>5, <1>6, CallOnlyFlaskFacts

LEMMA RaiseFacts ==
    ASSUME AdaptersInv, NEW k \in FlaskCalls, Raise(k)
    PROVE  OnlyFlask(k)
  <1> DEFINE failure == 500
  <1>1. PICK pc \in {"after", "teardown"} :
          /\ At(k, "handling")
          /\ call' = [call EXCEPT ![k].pc = pc, ![k].status = failure, ![k].raised = TRUE]
          /\ UNCHANGED <<scopes, route, reader, flask, records>>
    BY DEF Raise
  <1> DEFINE n == [call[k] EXCEPT !.pc = pc, !.status = failure, !.raised = TRUE]
  <1>2. /\ AdaptersTypeOK /\ FlaskCall(k) /\ k \in Calls /\ call[k] \in CallRecord
        /\ failure \in Statuses /\ failure # None
    BY TypeFacts, ContextFacts DEF AdaptersInv
  <1>8. failure = 500
    OBVIOUS
  <1> HIDE DEF failure
  <1>3. call' = [call EXCEPT ![k] = n]
    BY <1>1, <1>2 DEF AdaptersTypeOK
  <1>4. /\ n \in CallRecord /\ n.pc = pc /\ n.status = failure /\ n.raised
        /\ n.matched = call[k].matched /\ n.skipped = call[k].skipped
    BY <1>2 DEF CallRecord
  <1> HIDE DEF n
  <1>5. UnderWay(k) /\ ~call[k].skipped
    BY <1>1, <1>2 DEF UnderWay, At, FlaskCall
  <1>7. /\ n.pc \in {"after", "teardown"} /\ n.pc # "over" /\ n.status # None
        /\ n.status = 500 /\ ~n.skipped
    BY <1>1, <1>2, <1>4, <1>5, <1>8
  <1>6. FlaskCall(k)'
    BY <1>1, <1>3, <1>4, <1>5, <1>7, FlaskCallStep
  <1> QED
    BY <1>1, <1>3, <1>4, <1>5, <1>6, <1>7, CallOnlyFlaskFacts, ZenonT(60)

LEMMA AfterFailsFacts ==
    ASSUME AdaptersInv, NEW k \in FlaskCalls, AfterFails(k)
    PROVE  OnlyFlask(k)
  <1> DEFINE failure == 500
             pc == IF call[k].raised THEN "teardown" ELSE call[k].pc
             n == [call[k] EXCEPT !.pc = pc, !.status = failure, !.raised = TRUE]
  <1>1. /\ At(k, "after")
        /\ UNCHANGED <<scopes, route, reader, flask, records>>
    BY DEF AfterFails
  <1>2. /\ AdaptersTypeOK /\ FlaskCall(k) /\ k \in Calls /\ call[k] \in CallRecord
        /\ failure \in Statuses /\ failure # None
    BY TypeFacts, ContextFacts DEF AdaptersInv
  <1>9. call' = [call EXCEPT ![k].pc = pc, ![k].status = failure, ![k].raised = TRUE]
    BY <1>2 DEF AdaptersTypeOK, AfterFails
  <1>8. failure = 500
    OBVIOUS
  <1> HIDE DEF failure
  <1>3. call' = [call EXCEPT ![k] = n]
    BY <1>2, <1>9 DEF AdaptersTypeOK
  <1>7. pc \in {"after", "teardown"}
    BY <1>1 DEF At
  <1> HIDE DEF pc
  <1>4. /\ n \in CallRecord /\ n.pc = pc /\ n.status = failure /\ n.raised
        /\ n.matched = call[k].matched /\ n.skipped = call[k].skipped
    BY <1>2, <1>7 DEF CallRecord
  <1> HIDE DEF n
  <1>5. UnderWay(k) /\ ~call[k].skipped
    BY <1>1, <1>2 DEF UnderWay, At, FlaskCall
  <1>10. /\ n.pc \in {"after", "teardown"} /\ n.pc # "over" /\ n.status # None
         /\ n.status = 500 /\ ~n.skipped
    BY <1>1, <1>2, <1>4, <1>5, <1>7, <1>8
  <1>6. FlaskCall(k)'
    BY <1>1, <1>3, <1>4, <1>5, <1>10, FlaskCallStep
  <1> QED
    BY <1>1, <1>3, <1>4, <1>5, <1>6, <1>7, CallOnlyFlaskFacts

LEMMA TeardownFailsFacts ==
    ASSUME AdaptersInv, NEW k \in FlaskCalls, TeardownFails(k)
    PROVE  OnlyFlask(k)
  <1> DEFINE n == [call[k] EXCEPT !.pc = "over", !.skipped = TRUE]
  <1>1. /\ At(k, "teardown") /\ call' = [call EXCEPT ![k] = n]
        /\ UNCHANGED <<scopes, route, reader, flask, records>>
    BY DEF TeardownFails
  <1>2. FlaskCall(k) /\ k \in Calls /\ call[k] \in CallRecord
    BY TypeFacts, ContextFacts DEF AdaptersInv
  <1>3. /\ n \in CallRecord /\ n.pc = "over" /\ n.skipped
        /\ n.status = call[k].status /\ n.raised = call[k].raised
        /\ n.matched = call[k].matched
    BY <1>2 DEF CallRecord
  <1> HIDE DEF n
  <1>4. UnderWay(k) /\ (n.raised => n.status = 500)
    BY <1>1, <1>2, <1>3 DEF UnderWay, At, FlaskCall
  <1>5. FlaskCall(k)'
    BY <1>1, <1>3, <1>4, FlaskCallStep
  <1> QED
    BY <1>1, <1>3, <1>4, <1>5, CallOnlyFlaskFacts

LEMMA FlaskBeginFacts ==
    ASSUME AdaptersInv, NEW k \in FlaskCalls, FlaskBegin(k)
    PROVE  OnlyFlask(k)
  <1>1. PICK matched \in BOOLEAN :
          /\ call' = [call EXCEPT ![k].pc = "handling", ![k].matched = matched]
          /\ \/ Hooked(Before) /\ Begin(k) /\ route' = [route EXCEPT ![k] = matched]
             \/ UNCHANGED <<scopes, route>>
          /\ At(k, "away") /\ FlaskIdle /\ installer.pc = "idle"
          /\ UNCHANGED <<reader, hooks, installer, records>>
    BY DEF FlaskBegin, flask
  <1> DEFINE n == [call[k] EXCEPT !.pc = "handling", !.matched = matched]
  <1>2. /\ AdaptersTypeOK /\ ScopesTyped /\ FlaskCall(k) /\ ThreadInv /\ HooksInv
        /\ k \in Calls /\ k # None /\ call[k] \in CallRecord
        /\ Main(k) = Thread /\ Thread \in Contexts
    BY TypeFacts, ContextFacts DEF AdaptersInv
  <1>3. call' = [call EXCEPT ![k] = n]
    BY <1>1, <1>2 DEF AdaptersTypeOK
  <1>4. /\ n \in CallRecord /\ n.pc = "handling" /\ n.matched = matched
        /\ n.status = call[k].status /\ n.raised = call[k].raised
        /\ n.skipped = call[k].skipped
    BY <1>2 DEF CallRecord
  <1> HIDE DEF n
  <1>5. /\ call' \in [Calls -> CallRecord] /\ call'[k] = n
        /\ \A j \in Calls \ {k} : call'[j] = call[j]
        /\ \A j \in FlaskCalls \ {k} : j \in Calls \ {k}
        /\ \A j \in FastAPICalls : j \in Calls \ {k}
    BY <1>2, <1>3, <1>4, ContextFacts DEF AdaptersTypeOK
  <1>6. \A j \in FlaskCalls : ~UnderWay(j)
    BY <1>1 DEF FlaskIdle, UnderWay
  <1>7. /\ \A j \in FlaskCalls \ {k} : ~UnderWay(j)'
        /\ UnderWay(k)' /\ ~FlaskIdle'
    BY <1>4, <1>5, <1>6 DEF UnderWay, FlaskIdle
  <1>8. \A j \in FlaskCalls : Untold(j)' = Untold(j)
    BY <1>1, <1>4, <1>5 DEF Untold
  <1>9. /\ ~Begun(k) /\ call[k].status = None /\ ~call[k].raised /\ ~call[k].skipped
        /\ ~reader[k] /\ req[k].log = <<>> /\ req[k].status = None
    BY <1>1, <1>2 DEF FlaskCall, At
  <1>10. /\ ~At(k, "away")' /\ ~At(k, "after")' /\ ~At(k, "teardown")' /\ ~At(k, "over")'
         /\ call'[k].pc \notin {"app", "away"} /\ call'[k].status = None
         /\ ~call'[k].raised /\ ~call'[k].skipped /\ call'[k].matched = matched
    BY <1>4, <1>5, <1>9 DEF At
  <1>11. requestState[Thread] # None =>
            /\ requestState[Thread] \in FlaskCalls /\ Begun(requestState[Thread])
            /\ Untold(requestState[Thread]) /\ requestState[Thread] # k
    BY <1>2, <1>6, <1>9 DEF ThreadInv
  <1>12. CASE Hooked(Before) /\ Begin(k) /\ route' = [route EXCEPT ![k] = matched]
    <2>1. Began(k)
      BY <1>2, <1>12, BeginFacts
    <2>2. /\ ScopesTyped' /\ UNCHANGED ctx
          /\ req'[k].stage = "open" /\ req'[k].ctx = Thread
          /\ req'[k].old = requestState[Thread]
          /\ req'[k].status = None /\ req'[k].log = <<>>
          /\ \A r \in Calls \ {k} : req'[r] = req[r]
          /\ requestState'[Thread] = k
          /\ \A c \in Contexts \ {Thread} : requestState'[c] = requestState[c]
      BY <1>2, <1>9, <2>1 DEF Began
    <2>3. /\ route' \in [Calls -> BOOLEAN] /\ route'[k] = matched
          /\ \A j \in Calls \ {k} : route'[j] = route[j]
      BY <1>2, <1>12 DEF AdaptersTypeOK
    <2>4. AdaptersTypeOK'
      BY <1>1, <1>2, <1>5, <2>2, <2>3 DEF AdaptersTypeOK, ScopesTyped
    <2>5. Begun(k)'
      BY <2>2 DEF Begun
    <2>6. ASSUME requestState[Thread] # None
          PROVE  /\ req'[k].old \in FlaskCalls /\ Begun(req[k].old)' /\ Untold(req[k].old)'
      <3>1. PICK r \in FlaskCalls \ {k} : r = requestState[Thread]
        BY <1>11, <2>6
      <3>2. Begun(r)' /\ Untold(r)'
        BY <1>5, <1>8, <1>11, <2>2, <2>6, <3>1 DEF Begun
      <3> QED
        BY <2>2, <3>1, <3>2 DEF Begun, Untold
    <2>7. ~installer.dirty => hooks = Installed
      BY <1>1, <1>2, <1>12, HookedFacts, RegistryFacts DEF HooksInv
    <2>8. FlaskCall(k)'
      BY <1>1, <1>7, <1>9, <1>10, <2>2, <2>3, <2>5, <2>6, <2>7 DEF FlaskCall
    <2>9. ThreadInv'
      BY <1>2, <1>7, <2>2, <2>5 DEF ThreadInv
    <2> QED
      BY <1>1, <1>5, <1>6, <1>8, <2>2, <2>3, <2>4, <2>5, <2>8, <2>9 DEF OnlyFlask, Kept
  <1>13. CASE UNCHANGED <<scopes, route>>
    <2>1. UNCHANGED <<requestState, req, ctx, route>>
      BY <1>13 DEF scopes
    <2>2. AdaptersTypeOK'
      BY <1>1, <1>2, <1>5, <2>1 DEF AdaptersTypeOK
    <2>3. ~Begun(k)'
      BY <1>9, <2>1 DEF Begun
    <2>4. FlaskCall(k)'
      BY <1>1, <1>7, <1>9, <1>10, <2>1, <2>3 DEF FlaskCall
    <2>5. ASSUME requestState[Thread] # None
          PROVE  /\ requestState[Thread] \in FlaskCalls /\ Begun(requestState[Thread])'
                 /\ Untold(requestState[Thread])'
      <3>1. PICK r \in FlaskCalls \ {k} : r = requestState[Thread]
        BY <1>11, <2>5
      <3>2. Begun(r)' /\ Untold(r)'
        BY <1>8, <1>11, <2>1, <2>5, <3>1 DEF Begun
      <3> QED
        BY <2>1, <3>1, <3>2 DEF Begun, Untold
    <2>6. (\A j \in FlaskCalls : ~Untold(j)') => requestState[Thread] = None
      BY <1>8, <1>11
    <2>7. ThreadInv'
      BY <1>7, <2>1, <2>5, <2>6 DEF ThreadInv
    <2> QED
      BY <1>1, <1>5, <1>6, <1>8, <1>9, <2>1, <2>2, <2>4, <2>7 DEF OnlyFlask, Kept
  <1> QED
    BY <1>1, <1>12, <1>13

LEMMA FinishObservedFacts ==
    ASSUME AdaptersInv, NEW k \in FlaskCalls, FinishObserved(k)
    PROVE  OnlyFlask(k)
  <1> DEFINE n == [call[k] EXCEPT !.pc = "teardown"]
  <1>1. /\ At(k, "after") /\ call' = [call EXCEPT ![k] = n]
        /\ IF Hooked(After) /\ Active(Thread) # {}
           THEN UpdateRoute(Thread, k) /\ Runtime!UpdateRequestStatus(Thread, call[k].status)
           ELSE UNCHANGED <<scopes, route>>
        /\ UNCHANGED <<reader, hooks, installer, records>>
    BY DEF FinishObserved, flask
  <1>2. /\ AdaptersTypeOK /\ ScopesTyped /\ FlaskCall(k) /\ ThreadInv
        /\ k \in Calls /\ k # None /\ call[k] \in CallRecord /\ Thread \in Contexts
        /\ call[k].status \in Statuses \cup {None}
    BY TypeFacts, ContextFacts DEF AdaptersInv
  <1>3. /\ n \in CallRecord /\ n.pc = "teardown" /\ n.matched = call[k].matched
        /\ n.status = call[k].status /\ n.raised = call[k].raised
        /\ n.skipped = call[k].skipped
    BY <1>2 DEF CallRecord
  <1> HIDE DEF n
  <1>4. /\ call' \in [Calls -> CallRecord] /\ call'[k] = n
        /\ \A j \in Calls \ {k} : call'[j] = call[j]
        /\ \A j \in FlaskCalls \ {k} : j \in Calls \ {k}
        /\ \A j \in FastAPICalls : j \in Calls \ {k} /\ j \notin FlaskCalls
    BY <1>1, <1>2, <1>3, ContextFacts DEF AdaptersTypeOK
  <1>5. /\ UnderWay(k) /\ call[k].status # None /\ ~call[k].skipped /\ ~reader[k]
        /\ call[k].raised => call[k].status = 500
    BY <1>1, <1>2 DEF UnderWay, At, FlaskCall
  <1>6. /\ \A j \in FlaskCalls \ {k} : ~UnderWay(j) /\ ~UnderWay(j)'
        /\ UnderWay(k)' /\ ~FlaskIdle' /\ installer.pc = "idle"
    BY <1>3, <1>4, <1>5, ThreadFacts DEF UnderWay, FlaskIdle
  <1>7. \A j \in FlaskCalls : Untold(j)' = Untold(j)
    BY <1>1, <1>3, <1>4 DEF Untold
  <1>8. \* What happens to the requests.
        /\ req' \in [Calls -> RequestRecord] /\ route' \in [Calls -> BOOLEAN]
        /\ UNCHANGED <<requestState, ctx>>
        /\ \A j \in Calls \ {k} :
              \/ req'[j] = req[j] /\ route'[j] = route[j]
              \/ /\ j \in FlaskCalls /\ Untold(j) /\ Begun(j) /\ Begun(j)'
                 /\ req'[j].ctx = req[j].ctx /\ req'[j].old = req[j].old
        /\ req'[k].stage = req[k].stage /\ req'[k].ctx = req[k].ctx
        /\ req'[k].old = req[k].old /\ req'[k].log = req[k].log
        /\ Begun(k) /\ ~Untold(k) => route'[k] = call[k].matched
        /\ ~Begun(k) => req'[k].status = req[k].status
        /\ Begun(k) /\ ~installer.dirty => req'[k].status = call[k].status
    <2>1. Begun(k) /\ ~Untold(k) => route[k] = call[k].matched
      BY <1>2 DEF FlaskCall
    <2>2. CASE Hooked(After) /\ Active(Thread) # {}
      <3>8. PICK r \in FlaskCalls : r = requestState[Thread]
        BY <1>5, <2>2, ThreadFacts
      <3>1. /\ Active(Thread) = {r} /\ r \in FlaskCalls /\ Begun(r) /\ r \in Calls
            /\ r # k => Untold(r)
            /\ Begun(k) /\ ~installer.dirty => r = k
        BY <1>4, <1>5, <2>2, <3>8, ThreadFacts, ContextFacts DEF Begun, Untold
      <3>2. StatusSet(r, call[k].status)
        BY <1>1, <1>2, <2>2, <3>8, UpdateStatusFacts
      <3>3. /\ route' \in [Calls -> BOOLEAN]
            /\ \A j \in Calls :
                 route'[j] = IF j \in Active(Thread) /\ call[k].matched THEN TRUE ELSE route[j]
        BY <1>1, <1>2, <2>2, UpdateRouteFacts
      <3>4. /\ req' \in [Calls -> RequestRecord] /\ UNCHANGED <<requestState, ctx>>
            /\ req'[r].status = call[k].status
            /\ req'[r].stage = req[r].stage /\ req'[r].ctx = req[r].ctx
            /\ req'[r].old = req[r].old /\ req'[r].log = req[r].log
            /\ \A j \in Calls \ {r} : req'[j] = req[j]
        BY <3>2 DEF StatusSet, ScopesTyped
      <3>5. \A j \in Calls \ {r} : route'[j] = route[j]
        BY <3>1, <3>3
      <3>6. CASE r = k
        <4>1. Begun(k) /\ ~Untold(k) => route'[k] = call[k].matched
          BY <1>2, <2>1, <3>1, <3>3, <3>6 DEF CallRecord
        <4> QED
          BY <3>1, <3>3, <3>4, <3>5, <3>6, <4>1
      <3>7. CASE r # k
        <4>1. /\ Untold(r) /\ Begun(r)'
          BY <3>1, <3>4, <3>7 DEF Begun
        <4>2. req'[k] = req[k] /\ route'[k] = route[k] /\ ~(Begun(k) /\ ~installer.dirty)
          BY <1>2, <3>1, <3>4, <3>5, <3>7
        <4>3. \A j \in Calls \ {k} :
                \/ req'[j] = req[j] /\ route'[j] = route[j]
                \/ /\ j \in FlaskCalls /\ Untold(j) /\ Begun(j) /\ Begun(j)'
                   /\ req'[j].ctx = req[j].ctx /\ req'[j].old = req[j].old
          <5> SUFFICES ASSUME NEW j \in Calls \ {k}
                       PROVE  \/ req'[j] = req[j] /\ route'[j] = route[j]
                              \/ /\ j \in FlaskCalls /\ Untold(j) /\ Begun(j) /\ Begun(j)'
                                 /\ req'[j].ctx = req[j].ctx /\ req'[j].old = req[j].old
            OBVIOUS
          <5>1. CASE j = r
            BY <3>1, <3>4, <4>1, <5>1 DEF Begun
          <5>2. CASE j # r
            BY <3>4, <3>5, <5>2
          <5> QED
            BY <5>1, <5>2
        <4> QED
          BY <2>1, <3>3, <3>4, <4>2, <4>3
      <3> QED
        BY <3>6, <3>7
    <2>3. CASE ~(Hooked(After) /\ Active(Thread) # {})
      <3>1. UNCHANGED <<requestState, req, ctx, route>>
        BY <1>1, <2>3 DEF scopes
      <3>2. ~(Begun(k) /\ ~installer.dirty)
        BY <1>5, <2>3, ThreadFacts, HookedFacts, RegistryFacts
      <3> QED
        BY <1>2, <2>1, <3>1, <3>2 DEF AdaptersTypeOK
    <2> QED
      BY <2>2, <2>3
  <1>9. \A j \in FlaskCalls : Begun(j) <=> Begun(j)'
    BY <1>4, <1>8 DEF Begun
  <1>10. AdaptersTypeOK'
    BY <1>1, <1>2, <1>4, <1>8 DEF AdaptersTypeOK
  <1>11. /\ ~At(k, "away")' /\ ~At(k, "handling")' /\ ~At(k, "over")'
         /\ call'[k].pc = "teardown" /\ call'[k].status = call[k].status
         /\ call'[k].raised = call[k].raised /\ ~call'[k].skipped
         /\ call'[k].matched = call[k].matched
    BY <1>3, <1>4, <1>5 DEF At
  <1>12. FlaskCall(k)'
    <2>1. ASSUME Begun(k), req[k].old # None
          PROVE  /\ req'[k].old \in FlaskCalls /\ Begun(req[k].old)' /\ Untold(req[k].old)'
      <3>1. /\ req[k].old \in FlaskCalls /\ Begun(req[k].old) /\ Untold(req[k].old)
        BY <1>2, <2>1 DEF FlaskCall
      <3>2. PICK r \in FlaskCalls : r = req[k].old
        BY <3>1
      <3>3. Begun(r)' /\ Untold(r)'
        BY <1>7, <1>9, <3>1, <3>2
      <3> QED
        BY <1>8, <3>1, <3>2, <3>3 DEF Begun, Untold
    <2>2. /\ ~Begun(k) => req[k].log = <<>> /\ req[k].status = None
          /\ Begun(k) => req[k].ctx = Thread
          /\ Begun(k) /\ ~installer.dirty =>
                /\ req[k].stage = "open" /\ req[k].log = <<>>
                /\ requestState[Thread] = k /\ hooks = Installed
      BY <1>2, <1>5 DEF FlaskCall
    <2>3. Begun(k)' = Begun(k) /\ Untold(k)' = Untold(k)
      BY <1>7, <1>8 DEF Begun
    <2> QED
      BY <1>1, <1>5, <1>6, <1>8, <1>11, <2>1, <2>2, <2>3 DEF FlaskCall
  <1>13. ThreadInv'
    <2>1. ASSUME requestState[Thread] # None
          PROVE  /\ requestState[Thread] \in FlaskCalls /\ Begun(requestState[Thread])'
                 /\ UnderWay(requestState[Thread])' \/ Untold(requestState[Thread])'
      <3>1. PICK r \in FlaskCalls : r = requestState[Thread]
        BY <1>2, <2>1 DEF ThreadInv
      <3>2. Begun(r)' /\ (UnderWay(r)' \/ Untold(r)')
        BY <1>2, <1>6, <1>7, <1>9, <2>1, <3>1 DEF ThreadInv
      <3> QED
        BY <1>8, <3>1, <3>2 DEF Begun, UnderWay, Untold
    <2>2. ASSUME \A j \in FlaskCalls : ~Untold(j)'
          PROVE  /\ ~FlaskIdle'
                 /\ \A j \in FlaskCalls : UnderWay(j)' => requestState[Thread] \in {j, None}
      BY <1>2, <1>5, <1>6, <1>7, <2>2 DEF ThreadInv
    <2> QED
      BY <1>8, <2>1, <2>2 DEF ThreadInv
  <1> QED
    <2>1. \A j \in FlaskCalls \ {k} : Kept(j) /\ ~UnderWay(j)
      BY <1>4, <1>6, <1>8 DEF Kept
    <2>2. \A j \in FastAPICalls : call'[j] = call[j] /\ req'[j] = req[j] /\ route'[j] = route[j]
      BY <1>4, <1>8
    <2> QED
      BY <1>1, <1>6, <1>7, <1>8, <1>9, <1>10, <1>12, <1>13, <2>1, <2>2 DEF OnlyFlask

LEMMA CloseObservedFacts ==
    ASSUME AdaptersInv, NEW k \in FlaskCalls, CloseObserved(k)
    PROVE  OnlyFlask(k)
  <1> DEFINE n == [call[k] EXCEPT !.pc = "over"]
             failure == 500
             status == IF call[k].raised THEN failure ELSE None
  <1>1. /\ At(k, "teardown") /\ call' = [call EXCEPT ![k] = n]
        /\ IF Closes(k) THEN End(Thread, status, call[k].raised)
           ELSE UNCHANGED <<scopes, records>>
        /\ UNCHANGED <<route, reader, hooks, installer>>
    BY DEF CloseObserved, flask
  <1>2. /\ AdaptersTypeOK /\ ScopesTyped /\ FlaskCall(k) /\ ThreadInv
        /\ k \in Calls /\ k # None /\ call[k] \in CallRecord /\ Thread \in Contexts
        /\ call[k].raised \in BOOLEAN /\ failure \in Statuses /\ failure # None
    BY TypeFacts, ContextFacts DEF AdaptersInv
  <1>3. /\ UnderWay(k) /\ call[k].status # None /\ ~call[k].skipped /\ ~reader[k]
        /\ call[k].raised => call[k].status = failure
    BY <1>1, <1>2 DEF UnderWay, At, FlaskCall
  <1> HIDE DEF failure
  <1>4. status \in Statuses \cup {None}
    BY <1>2
  <1>5. /\ n \in CallRecord /\ n.pc = "over" /\ n.matched = call[k].matched
        /\ n.status = call[k].status /\ n.raised = call[k].raised
        /\ n.skipped = call[k].skipped
    BY <1>2 DEF CallRecord
  <1> HIDE DEF n
  <1>6. /\ call' \in [Calls -> CallRecord] /\ call'[k] = n
        /\ \A j \in Calls \ {k} : call'[j] = call[j]
        /\ \A j \in FlaskCalls \ {k} : j \in Calls \ {k}
        /\ \A j \in FastAPICalls : j \in Calls \ {k} /\ j \notin FlaskCalls
    BY <1>1, <1>2, <1>5, ContextFacts DEF AdaptersTypeOK
  <1>7. /\ \A j \in FlaskCalls : ~UnderWay(j)'
        /\ \A j \in FlaskCalls \ {k} : ~UnderWay(j)
        /\ installer.pc = "idle"
    BY <1>3, <1>5, <1>6, ThreadFacts DEF UnderWay
  <1>8. \A j \in FlaskCalls : Untold(j)' = Untold(j)
    BY <1>1, <1>5, <1>6 DEF Untold
  <1>9. \* The request that is found on the thread, if any, is ended.
        \/ /\ UNCHANGED <<requestState, req, ctx, records>>
           /\ ~(Begun(k) /\ ~installer.dirty)
        \/ \E r \in FlaskCalls :
              /\ r = requestState[Thread] /\ Begun(r)
              /\ r # k => Untold(r) /\ (Begun(k) => installer.dirty)
              /\ Ended(r, Thread, status, call[k].raised)
    <2>1. CASE Closes(k) /\ Active(Thread) # {}
      <3>1. PICK r \in FlaskCalls : r = requestState[Thread]
        BY <1>3, <2>1, ThreadFacts
      <3>2. Ended(r, Thread, status, call[k].raised)
        BY <1>1, <1>2, <1>4, <2>1, <3>1, EndFacts
      <3>3. /\ Begun(r) /\ (r # k => Untold(r))
            /\ Begun(k) /\ ~installer.dirty => r = k
        BY <1>3, <2>1, <3>1, ThreadFacts DEF Begun, Untold
      <3> HIDE DEF status
      <3> QED
        BY <3>1, <3>2, <3>3
    <2>2. CASE ~(Closes(k) /\ Active(Thread) # {})
      <3>1. UNCHANGED <<requestState, req, ctx, records>>
        BY <1>1, <2>2 DEF scopes, End
      <3>2. ~(Begun(k) /\ ~installer.dirty)
        BY <1>3, <2>2, ThreadFacts, HookedFacts, RegistryFacts DEF Closes
      <3> QED
        BY <3>1, <3>2
    <2> QED
      BY <2>1, <2>2
  <1>10. /\ ~At(k, "away")' /\ ~At(k, "handling")' /\ ~At(k, "after")' /\ ~At(k, "teardown")'
         /\ call'[k].pc = "over" /\ call'[k].status = call[k].status
         /\ call'[k].raised = call[k].raised /\ ~call'[k].skipped
         /\ call'[k].matched = call[k].matched
    BY <1>3, <1>5, <1>6 DEF At
  <1>11. /\ ~Begun(k) => req[k].log = <<>> /\ req[k].status = None
         /\ Begun(k) => req[k].ctx = Thread
         /\ Begun(k) /\ ~Untold(k) => route[k] = call[k].matched
         /\ Begun(k) /\ ~installer.dirty =>
               /\ req[k].log = <<>> /\ (~call[k].raised => req[k].status = call[k].status)
    BY <1>1, <1>2, <1>3 DEF FlaskCall
  <1>12. Untold(k) <=> installer.dirty
    BY <1>3 DEF Untold
  <1>13. CASE /\ UNCHANGED <<requestState, req, ctx, records>>
              /\ ~(Begun(k) /\ ~installer.dirty)
    <2>1. AdaptersTypeOK'
      BY <1>1, <1>2, <1>6, <1>13 DEF AdaptersTypeOK
    <2>2. \A j \in FlaskCalls : Begun(j)' = Begun(j)
      BY <1>13 DEF Begun
    <2>3. FlaskCall(k)'
      <3>1. ASSUME Begun(k), req[k].old # None
            PROVE  /\ req[k].old \in FlaskCalls /\ Begun(req[k].old)' /\ Untold(req[k].old)'
        <4>1. req[k].old \in FlaskCalls /\ Begun(req[k].old) /\ Untold(req[k].old)
          BY <1>2, <3>1 DEF FlaskCall
        <4>2. PICK r \in FlaskCalls : r = req[k].old
          BY <4>1
        <4>3. Begun(r)' /\ Untold(r)'
          BY <1>8, <2>2, <4>1, <4>2
        <4> QED
          BY <1>13, <4>1, <4>2, <4>3 DEF Begun, Untold
      <3> QED
        BY <1>1, <1>3, <1>7, <1>8, <1>10, <1>11, <1>12, <1>13, <2>2, <3>1
           DEF FlaskCall, failure
    <2>4. ASSUME requestState[Thread] # None
          PROVE  /\ requestState[Thread] \in FlaskCalls /\ Begun(requestState[Thread])'
                 /\ Untold(requestState[Thread])'
                 /\ \E j \in FlaskCalls : Untold(j)'
      <3>1. PICK r \in FlaskCalls : r = requestState[Thread]
        BY <1>2, <2>4 DEF ThreadInv
      <3>2. Begun(r)' /\ Untold(r)'
        BY <1>2, <1>7, <1>8, <1>12, <1>13, <2>2, <2>4, <3>1 DEF ThreadInv
      <3> QED
        BY <1>13, <3>1, <3>2 DEF Begun, Untold
    <2>5. ThreadInv'
      BY <1>7, <1>13, <2>4 DEF ThreadInv
    <2>6. \A j \in FlaskCalls \ {k} : Kept(j) /\ ~UnderWay(j)
      BY <1>1, <1>6, <1>7, <1>13 DEF Kept
    <2> QED
      BY <1>1, <1>6, <1>7, <1>8, <1>13, <2>1, <2>2, <2>3, <2>5, <2>6 DEF OnlyFlask
  <1>14. ASSUME NEW r \in FlaskCalls, r = requestState[Thread], Begun(r),
                r # k => Untold(r) /\ (Begun(k) => installer.dirty),
                Ended(r, Thread, status, call[k].raised)
         PROVE  OnlyFlask(k)
    <2>1. /\ ScopesTyped' /\ UNCHANGED ctx
          /\ req[r].stage # "completed" /\ req'[r].stage = "completed"
          /\ req'[r].ctx = req[r].ctx /\ req'[r].old = req[r].old
          /\ req'[r].status = IF status # None THEN status ELSE req[r].status
          /\ req[r].log = <<>> =>
                /\ Len(req'[r].log) = 1
                /\ req'[r].log[1].outcome = Runtime!Outcome(req'[r].status, call[k].raised)
          /\ \A s \in Calls \ {r} : req'[s] = req[s]
          /\ requestState'[Thread] = IF req[r].ctx = Thread THEN req[r].old ELSE requestState[Thread]
          /\ \A d \in Contexts \ {Thread} : requestState'[d] = requestState[d]
          /\ records' = records \cup {Record(r, route'[r])}
      BY <1>14 DEF Ended
    <2>2. r \in Calls /\ FlaskCall(r) /\ req[r].ctx = Thread
      BY <1>14, ContextFacts DEF AdaptersInv, FlaskCall
    <2>3. \A j \in FlaskCalls : Begun(j) <=> Begun(j)'
      <3>1. Begun(r)'
        BY <2>1 DEF Begun
      <3>2. \A j \in FlaskCalls \ {r} : j \in Calls \ {r}
        BY ContextFacts
      <3> QED
        BY <1>14, <2>1, <3>1, <3>2 DEF Begun
    <2>4. Record(r, route'[r]).call = r /\ Record(r, route'[r]).right = (route'[r] = call[r].matched)
      BY DEF Record
    <2>5. Record(r, route'[r]).right \/ Untold(r)'
      <3>1. CASE r = k /\ ~Untold(k)
        BY <1>1, <1>11, <1>14, <2>4, <3>1
      <3>2. CASE r # k \/ Untold(k)
        BY <1>8, <1>14, <3>2
      <3> QED
        BY <3>1, <3>2
    <2>6. Record(r, route'[r]).right \in BOOLEAN
      BY <2>4
    <2> HIDE DEF Record
    <2>7. AdaptersTypeOK'
      <3>1. \A x \in records' : x.call \in Calls /\ x.right \in BOOLEAN
        BY <1>2, <2>1, <2>2, <2>4, <2>6 DEF AdaptersTypeOK
      <3> QED
        BY <1>1, <1>2, <1>6, <2>1, <3>1 DEF AdaptersTypeOK, ScopesTyped
    <2>8. ASSUME NEW j \in FlaskCalls, Begun(j), req[j].old # None
          PROVE  /\ req[j].old \in FlaskCalls
                 /\ \E i \in FlaskCalls : i = req[j].old /\ Begun(i)' /\ Untold(i)'
      <3>1. req[j].old \in FlaskCalls /\ Begun(req[j].old) /\ Untold(req[j].old)
        BY <2>8 DEF FlaskCall, AdaptersInv
      <3>2. PICK i \in FlaskCalls : i = req[j].old
        BY <3>1
      <3>3. Begun(i)' /\ Untold(i)'
        BY <1>8, <2>3, <3>1, <3>2
      <3> QED
        BY <3>1, <3>2, <3>3
    <2>9. FlaskCall(k)'
      <3>1. req'[k].ctx = req[k].ctx /\ req'[k].old = req[k].old
        BY <1>2, <2>1
      <3>2. ASSUME Begun(k), req'[k].old # None
            PROVE  /\ req'[k].old \in FlaskCalls /\ Begun(req[k].old)' /\ Untold(req[k].old)'
        <4>1. PICK i \in FlaskCalls : i = req[k].old /\ Begun(i)' /\ Untold(i)'
          BY <2>8, <3>1, <3>2
        <4> QED
          BY <3>1, <4>1 DEF Begun, Untold
      <3>3. ASSUME Begun(k), ~Untold(k)
            PROVE  Told(k)'
        <4>1. r = k /\ req[k].log = <<>> /\ (~call[k].raised => req[k].status = call[k].status)
          BY <1>11, <1>12, <1>14, <3>3
        <4>2. req'[k].status = call[k].status
          BY <1>2, <1>3, <2>1, <4>1
        <4>3. Answer(k)' = call[k].status
          BY <1>3, <1>10 DEF Answer
        <4> QED
          BY <1>10, <2>1, <4>1, <4>2, <4>3 DEF Told, Runtime!Outcome
      <3>4. ASSUME ~Begun(k)
            PROVE  req'[k] = req[k]
        BY <1>2, <1>14, <2>1, <3>4
      <3>5. Begun(k)' = Begun(k) /\ Untold(k)' = Untold(k)
        BY <1>8, <2>3 DEF Begun
      <3> QED
        BY <1>1, <1>3, <1>7, <1>10, <1>11, <3>1, <3>2, <3>3, <3>4, <3>5 DEF FlaskCall, failure
    <2>10. ThreadInv'
      <3>1. requestState'[Thread] = req[r].old
        BY <2>1, <2>2
      <3>2. ASSUME req[r].old # None
            PROVE  /\ requestState'[Thread] \in FlaskCalls /\ Begun(requestState[Thread])'
                   /\ Untold(requestState[Thread])'
                   /\ \E i \in FlaskCalls : Untold(i)'
        <4>1. PICK i \in FlaskCalls : i = req[r].old /\ Begun(i)' /\ Untold(i)'
          BY <1>14, <2>8, <3>2
        <4> QED
          BY <3>1, <4>1 DEF Begun, Untold
      <3> QED
        BY <1>7, <3>1, <3>2 DEF ThreadInv
    <2>11. \A j \in FlaskCalls \ {k} : Kept(j) /\ ~UnderWay(j)
      <3> SUFFICES ASSUME NEW j \in FlaskCalls \ {k}
                   PROVE  Kept(j)
        BY <1>7
      <3>1. CASE j = r
        BY <1>6, <1>14, <2>1, <2>3, <3>1 DEF Kept
      <3>2. CASE j # r
        BY <1>1, <1>6, <2>1, <3>2 DEF Kept
      <3> QED
        BY <3>1, <3>2
    <2>12. \A j \in FastAPICalls : call'[j] = call[j] /\ req'[j] = req[j] /\ route'[j] = route[j]
      BY <1>1, <1>6, <2>1
    <2>13. \A x \in records' \ records : x.right \/ Untold(x.call)'
      <3>1. \A x \in records' \ records : x = Record(r, route'[r])
        BY <2>1
      <3> SUFFICES ASSUME NEW x \in records' \ records
                   PROVE  x.right \/ Untold(x.call)'
        OBVIOUS
      <3>2. x.call = r /\ (x.right \/ Untold(r)')
        BY <2>4, <2>5, <3>1
      <3> QED
        BY <3>2 DEF Untold
    <2> QED
      BY <1>1, <1>7, <1>8, <2>1, <2>3, <2>7, <2>9, <2>10, <2>11, <2>12, <2>13 DEF OnlyFlask
  <1> HIDE DEF status
  <1> QED
    BY <1>9, <1>13, <1>14

LEMMA FlaskStepFacts ==
    ASSUME AdaptersInv, NEW k \in FlaskCalls, FlaskStep(k)
    PROVE  OnlyFlask(k)
  <1>1. CASE FlaskBegin(k)
    BY <1>1, FlaskBeginFacts
  <1>2. CASE \E s \in Statuses : Respond(k, s)
    BY <1>2, RespondFacts
  <1>3. CASE Raise(k)
    BY <1>3, RaiseFacts
  <1>4. CASE FinishObserved(k)
    BY <1>4, FinishObservedFacts
  <1>5. CASE AfterFails(k)
    BY <1>5, AfterFailsFacts
  <1>6. CASE CloseObserved(k)
    BY <1>6, CloseObservedFacts
  <1>7. CASE TeardownFails(k)
    BY <1>7, TeardownFailsFacts
  <1> QED
    BY <1>1, <1>2, <1>3, <1>4, <1>5, <1>6, <1>7 DEF FlaskStep
-------------------------------------------------------------------------------
(* The records of the application *)

LEMMA RecordsOnlyFacts ==
    ASSUME AdaptersInv,
           UNCHANGED <<requestState, req, ctx, route, reader, call, hooks, installer>>,
           \A x \in records' : \/ x \in records
                              \/ /\ x.call \in Calls /\ x.right \in BOOLEAN
                                 /\ x.right \/ Untold(x.call)
    PROVE  AdaptersInv'
  <1>2. UNCHANGED <<requestState, req, ctx, route, reader, call, hooks, installer>>
    OBVIOUS
  <1>3. AdaptersTypeOK
    BY DEF AdaptersInv
  <1>7. \A x \in records' : x.call \in Calls /\ x.right \in BOOLEAN
    BY <1>3 DEF AdaptersTypeOK
  <1>8. AdaptersTypeOK'
    BY <1>2, <1>3, <1>7 DEF AdaptersTypeOK
  <1>9. /\ \A pc : \A k : At(k, pc)' = At(k, pc)
        /\ \A k : /\ Begun(k)' = Begun(k) /\ Untold(k)' = Untold(k)
                  /\ UnderWay(k)' = UnderWay(k) /\ Told(k)' = Told(k)
    BY <1>2 DEF At, Begun, Untold, UnderWay, Told, Answer, Runtime!Outcome
  <1>10. HooksInv'
    BY <1>2, <1>9 DEF AdaptersInv, HooksInv
  <1>11. \A k \in FastAPICalls : FastAPICall(k)'
    <2> SUFFICES ASSUME NEW k \in FastAPICalls
                 PROVE  FastAPICall(k)'
      OBVIOUS
    <2> QED
      BY <1>2, FastAPIUntouched DEF AdaptersInv
  <1>12. \A k \in FlaskCalls : FlaskCall(k)'
    <2> SUFFICES ASSUME NEW k \in FlaskCalls
                 PROVE  FlaskCall(k)'
      OBVIOUS
    <2>1. FlaskCall(k)
      BY DEF AdaptersInv
    <2>2. Begun(req[k].old)' = Begun(req[k].old) /\ Untold(req[k].old)' = Untold(req[k].old)
      BY <1>2 DEF Begun, Untold
    <2> QED
      BY <1>2, <1>9, <2>1, <2>2 DEF FlaskCall
  <1>13. ThreadInv'
    <2>1. FlaskIdle' = FlaskIdle
      BY <1>2 DEF FlaskIdle
    <2>2. /\ Begun(requestState[Thread])' = Begun(requestState[Thread])
          /\ Untold(requestState[Thread])' = Untold(requestState[Thread])
          /\ UnderWay(requestState[Thread])' = UnderWay(requestState[Thread])
      BY <1>2 DEF Begun, Untold, UnderWay
    <2> QED
      BY <1>2, <1>9, <2>1, <2>2 DEF AdaptersInv, ThreadInv
  <1>14. RoutesAreCurrent'
    <2> SUFFICES ASSUME NEW x \in records'
                 PROVE  x.right \/ Untold(x.call)'
      BY DEF RoutesAreCurrent
    <2>1. x.right \/ Untold(x.call)
      BY DEF AdaptersInv, RoutesAreCurrent
    <2> QED
      BY <1>2, <2>1 DEF Untold
  <1> QED
    BY <1>8, <1>10, <1>11, <1>12, <1>13, <1>14 DEF AdaptersInv

LEMMA LogFacts ==
    ASSUME AdaptersInv, NEW c \in Contexts, Log(c)
    PROVE  AdaptersInv'
  <1>1. PICK r \in Calls :
          /\ requestState[c] = r
          /\ records' = records \cup {Record(r, CurrentRoute(r))}
    BY DEF Log
  <1>2. UNCHANGED <<requestState, req, ctx, route, reader, call, hooks, installer>>
    BY DEF Log, scopes, flask
  <1>3. /\ AdaptersTypeOK /\ r # None /\ call[r].matched \in BOOLEAN /\ route[r] \in BOOLEAN
    BY TypeFacts, ContextFacts DEF AdaptersInv
  <1>4. CurrentRoute(r) = call[r].matched \/ Untold(r)
    <2>1. CASE c = Thread
      <3>1. r \in FlaskCalls /\ Begun(r)
        BY <1>1, <1>3, <2>1 DEF AdaptersInv, ThreadInv
      <3>2. FlaskCall(r)
        BY <3>1 DEF AdaptersInv
      <3>3. ~reader[r] /\ (Untold(r) \/ route[r] = call[r].matched)
        BY <3>1, <3>2 DEF FlaskCall
      <3> QED
        BY <3>3 DEF CurrentRoute
    <2>2. CASE c # Thread
      <3>1. PICK k \in FastAPICalls : c \in {Main(k), Child(k)}
        BY <2>2, ContextFacts
      <3>2. FastAPICall(k)
        BY DEF AdaptersInv
      <3>3. r = k /\ Begun(k)
        BY <1>1, <1>3, <3>1, <3>2 DEF FastAPICall
      <3>4. reader[r] /\ (route[r] => call[r].matched)
        BY <3>2, <3>3 DEF FastAPICall
      <3> QED
        BY <1>3, <3>4 DEF CurrentRoute
    <2> QED
      BY <2>1, <2>2
  <1>5. Record(r, CurrentRoute(r)).call = r
        /\ Record(r, CurrentRoute(r)).right = (CurrentRoute(r) = call[r].matched)
    BY DEF Record
  <1>6. Record(r, CurrentRoute(r)).right \in BOOLEAN
    BY <1>5
  <1> HIDE DEF Record
  <1> QED
    BY <1>1, <1>2, <1>4, <1>5, <1>6, RecordsOnlyFacts
-------------------------------------------------------------------------------
(* Theorems *)

\* AdaptersInv holds in every reachable state.
THEOREM AdaptersInvariance == Spec => []AdaptersInv
  <1>1. Init => AdaptersInv
    <2> SUFFICES ASSUME Init
                 PROVE  AdaptersInv
      OBVIOUS
    <2>1. /\ \A c \in Contexts : requestState[c] = None
          /\ \A k \in Calls : /\ req[k].stage = "unused" /\ req[k].log = <<>>
                              /\ req[k].status = None
                              /\ route[k] = FALSE /\ reader[k] = FALSE
                              /\ call[k].pc = "away" /\ call[k].status = None
                              /\ ~call[k].raised /\ call[k].sending = None /\ ~call[k].last
                              /\ ~call[k].completed /\ ~call[k].skipped
          /\ hooks = NotInstalled /\ records = {}
          /\ installer.pc = "idle" /\ installer.saved = NotInstalled /\ ~installer.marked
      BY DEF Init
    <2>2. AdaptersTypeOK
      <3>1. req \in [Calls -> RequestRecord]
        <4>1. <<>> \in Seq([outcome : {"success", "client_error", "error"},
                            error : Contexts \cup {None}])
          OBVIOUS
        <4> QED
          BY <4>1 DEF Init, RequestRecord, Runtime!Stage
      <3>2. call \in [Calls -> CallRecord]
        BY DEF Init, CallRecord
      <3>3. installer \in InstallerRecord /\ hooks \in Callbacks
        BY RegistryFacts DEF Init, InstallerRecord
      <3>4. ctx = [c \in Contexts |-> ctx[c]]
        BY DEF Init
      <3> QED
        BY <3>1, <3>2, <3>3, <3>4 DEF Init, AdaptersTypeOK
    <2>3. HooksInv
      BY <2>1 DEF HooksInv
    <2>4. \A k \in FastAPICalls : FastAPICall(k)
      <3> SUFFICES ASSUME NEW k \in FastAPICalls
                   PROVE  FastAPICall(k)
        OBVIOUS
      <3>1. /\ k \in Calls /\ Main(k) \in Contexts /\ Child(k) \in Contexts
            /\ Child(k) \in {"child"} \X FastAPICalls
        BY ContextFacts DEF Child
      <3>2. ~ctx[Child(k)].alive
        BY <3>1 DEF Init, Runtime!NewContext
      <3>3. ~Begun(k)
        BY <2>1, <3>1 DEF Begun
      <3>4. ~At(k, "app") /\ ~At(k, "over") /\ call[k].pc = "away"
        BY <2>1, <3>1 DEF At
      <3> QED
        BY <2>1, <3>1, <3>2, <3>3, <3>4 DEF FastAPICall
    <2>5. \A k \in FlaskCalls : FlaskCall(k)
      <3> SUFFICES ASSUME NEW k \in FlaskCalls
                   PROVE  FlaskCall(k)
        OBVIOUS
      <3>1. k \in Calls /\ \A j \in FlaskCalls : ~UnderWay(j)
        BY <2>1, ContextFacts DEF UnderWay
      <3>2. ~Begun(k)
        BY <2>1, <3>1 DEF Begun
      <3>3. ~At(k, "after") /\ ~At(k, "teardown") /\ ~At(k, "over")
        BY <2>1, <3>1 DEF At
      <3> QED
        BY <2>1, <3>1, <3>2, <3>3 DEF FlaskCall
    <2>6. ThreadInv
      BY <2>1, ContextFacts DEF ThreadInv
    <2>7. RoutesAreCurrent
      BY <2>1 DEF RoutesAreCurrent
    <2> QED
      BY <2>2, <2>3, <2>4, <2>5, <2>6, <2>7 DEF AdaptersInv
  <1>2. AdaptersInv /\ [Next]_vars => AdaptersInv'
    <2> SUFFICES ASSUME AdaptersInv, [Next]_vars
                 PROVE  AdaptersInv'
      OBVIOUS
    <2>1. CASE \E k \in FastAPICalls : FastAPIStep(k)
      BY <2>1, FastAPIStepFacts, OnlyFastAPIKeeps
    <2>2. CASE \E k \in FlaskCalls : FlaskStep(k)
      BY <2>2, FlaskStepFacts, OnlyFlaskKeeps
    <2>3. CASE \E c \in Contexts : Log(c)
      BY <2>3, LogFacts
    <2>4. CASE InstallStep
      BY <2>4, InstallStepFacts, InstallsKeep
    <2>5. CASE UNCHANGED vars
      BY <2>5, RecordsOnlyFacts DEF vars, scopes, flask
    <2> QED
      BY <2>1, <2>2, <2>3, <2>4, <2>5 DEF Next
  <1> QED
    BY <1>1, <1>2, PTL DEF Spec

\* instrument_flask puts all three callbacks in place, or restores what was there
\* and can be tried again, wherever it fails, unless the rollback itself failed.
THEOREM InstallationIsAtomic == Spec => []InstallIsAtomic
  <1>1. AdaptersInv => InstallIsAtomic
    BY DEF AdaptersInv, HooksInv, InstallIsAtomic
  <1> QED
    BY <1>1, AdaptersInvariance, PTL

\* A call whose end the adapter was told of is recorded once, with the status the
\* client got and the outcome that belongs to it: with any number of calls, in
\* any order of the two tasks, the last part of the body and the application.
THEOREM RecordsTellAnswers == Spec => []RecordTellsAnswer
  <1>1. AdaptersInv => RecordTellsAnswer
    <2> SUFFICES ASSUME AdaptersInv, NEW k \in Calls, At(k, "over"), Begun(k), ~Untold(k)
                 PROVE  Told(k)
      BY DEF RecordTellsAnswer, Begun, Told
    <2>1. CASE k \in FastAPICalls
      BY <2>1 DEF AdaptersInv, FastAPICall
    <2>2. CASE k \in FlaskCalls
      BY <2>2 DEF AdaptersInv, FlaskCall
    <2> QED
      BY <2>1, <2>2 DEF Calls
  <1> QED
    BY <1>1, AdaptersInvariance, PTL

\* Whenever a record is written for a request, by the application or at the end,
\* it has the route that is matched by then, but for a request that was never
\* ended.
THEOREM RecordsHaveRoutes == Spec => []RoutesAreCurrent
  <1>1. AdaptersInv => RoutesAreCurrent
    BY DEF AdaptersInv
  <1> QED
    BY <1>1, AdaptersInvariance, PTL

\* Between calls, the thread of Flask has no request, however the calls before
\* ended, as long as the adapter was told.
THEOREM ThreadsAreLeftClean == Spec => []ThreadIsClean
  <1>1. AdaptersInv => ThreadIsClean
    BY DEF AdaptersInv, ThreadInv, ThreadIsClean
  <1> QED
    BY <1>1, AdaptersInvariance, PTL
-------------------------------------------------------------------------------
(* The calls of the runtime *)

\* The calls that the adapters, the server and the application make of the
\* runtime, each in a context that is alive.
RuntimeCall ==
    \E c \in Contexts :
       /\ ctx[c].alive
       /\ \/ \E d \in Contexts : ~ctx[d].alive /\ Runtime!Copy(c, d)
          \/ \E r \in Calls : Runtime!BeginRequest(c, r, r)
          \/ \E s \in Statuses : Runtime!UpdateRequestStatus(c, s)
          \/ \E s \in Statuses \cup {None}, raised \in BOOLEAN :
                Runtime!EndRequest(c, s, raised)

\* The thread and the tasks of the server live from the start, and the last part
\* of a body is sent by a task that lives.
AliveInv ==
    /\ ctx[Thread].alive
    /\ \A k \in FastAPICalls :
          /\ ctx[Main(k)].alive
          /\ call[k].sending = Child(k) => ctx[Child(k)].alive

\* What a step does to the runtime.
CallsRuntime == AliveInv' /\ (RuntimeCall \/ UNCHANGED scopes)

\* A step that makes no task and begins to send nothing.
LEMMA AliveKept ==
    ASSUME AliveInv, UNCHANGED ctx,
           \A k \in FastAPICalls : call'[k].sending \in {call[k].sending, None}
    PROVE  AliveInv'
  <1>1. \A k \in FastAPICalls : None # Child(k)
    BY ContextFacts
  <1> QED
    BY <1>1 DEF AliveInv, Main, Child

LEMMA SendingKept ==
    ASSUME AdaptersInv, NEW k \in Calls, NEW n,
           call' = [call EXCEPT ![k] = n], n.sending \in {call[k].sending, None}
    PROVE  \A j \in FastAPICalls : call'[j].sending \in {call[j].sending, None}
  <1>1. call \in [Calls -> CallRecord] /\ \A j \in FastAPICalls : j \in Calls
    BY ContextFacts DEF AdaptersInv, AdaptersTypeOK
  <1> QED
    BY <1>1

\* A step that ends a request, if there is one to end.
LEMMA EndCalls ==
    ASSUME NEW c \in Contexts, ctx[c].alive, NEW status \in Statuses \cup {None},
           NEW raised \in BOOLEAN, End(c, status, raised)
    PROVE  /\ RuntimeCall \/ UNCHANGED scopes
           /\ UNCHANGED ctx
  <1>1. CASE Active(c) = {}
    BY <1>1 DEF End, scopes
  <1>2. CASE Active(c) # {}
    <2>1. Runtime!EndRequest(c, status, raised)
      BY <1>2 DEF End
    <2>2. UNCHANGED ctx
      BY <2>1 DEF Runtime!EndRequest
    <2> QED
      BY <2>1, <2>2 DEF RuntimeCall
  <1> QED
    BY <1>1, <1>2

LEMMA BeginCalls ==
    ASSUME NEW k \in Calls, ctx[Main(k)].alive, Begin(k)
    PROVE  RuntimeCall /\ UNCHANGED ctx
  <1>1. Main(k) \in Contexts /\ Runtime!BeginRequest(Main(k), k, k)
    BY ContextFacts DEF Begin, Calls
  <1>2. UNCHANGED ctx
    BY <1>1 DEF Runtime!BeginRequest
  <1> QED
    BY <1>1, <1>2 DEF RuntimeCall

LEMMA FastAPIStepCalls ==
    ASSUME AdaptersInv, AliveInv, NEW k \in FastAPICalls, FastAPIStep(k)
    PROVE  CallsRuntime
  <1>1. /\ k \in Calls /\ call[k] \in CallRecord
        /\ Main(k) \in Contexts /\ Child(k) \in Contexts /\ Main(k) # Child(k)
        /\ ctx[Main(k)].alive
    BY ContextFacts DEF AdaptersInv, AdaptersTypeOK, AliveInv
  <1>2. CASE FastAPIBegin(k)
    <2> DEFINE n == [call[k] EXCEPT !.pc = "app"]
    <2>1. call' = [call EXCEPT ![k] = n] /\ n.sending = call[k].sending
      BY <1>1, <1>2 DEF FastAPIBegin, CallRecord
    <2>2. (RuntimeCall \/ UNCHANGED scopes) /\ UNCHANGED ctx
      BY <1>1, <1>2, BeginCalls DEF FastAPIBegin, scopes
    <2> QED
      BY <1>1, <2>1, <2>2, SendingKept, AliveKept DEF CallsRuntime
  <1>3. CASE Match(k)
    <2> DEFINE n == [call[k] EXCEPT !.matched = TRUE]
    <2>1. call' = [call EXCEPT ![k] = n] /\ n.sending = call[k].sending
      BY <1>1, <1>3 DEF Match, CallRecord
    <2>2. UNCHANGED scopes /\ UNCHANGED ctx
      BY <1>3 DEF Match, scopes
    <2> QED
      BY <1>1, <2>1, <2>2, SendingKept, AliveKept DEF CallsRuntime
  <1>4. CASE Spawn(k)
    <2>1. /\ ~ctx[Child(k)].alive /\ Runtime!Copy(Main(k), Child(k)) /\ UNCHANGED call
      BY <1>4 DEF Spawn
    <2>2. RuntimeCall
      BY <1>1, <2>1 DEF RuntimeCall
    <2>3. \A e \in Contexts \ {Child(k)} : ctx'[e] = ctx[e]
      <3>1. ScopesTyped
        BY DEF AdaptersInv, AdaptersTypeOK, ScopesTyped
      <3> QED
        BY <1>1, <2>1, <3>1, CopyFacts
    <2>4. ctx'[Thread].alive
      BY <2>3, ContextFacts DEF AliveInv
    <2>5. ASSUME NEW j \in FastAPICalls
          PROVE  /\ ctx'[Main(j)].alive
                 /\ call'[j].sending = Child(j) => ctx'[Child(j)].alive
      <3>1. Main(j) \in Contexts \ {Child(k)} /\ Child(j) \in Contexts
        BY ContextFacts
      <3>2. j # k => Child(j) # Child(k)
        BY ContextFacts
      <3>3. call'[j].sending = Child(j) => ctx[Child(j)].alive /\ j # k
        BY <2>1 DEF AliveInv
      <3>4. ctx[Main(j)].alive
        BY DEF AliveInv
      <3> QED
        BY <2>3, <3>1, <3>2, <3>3, <3>4
    <2>6. AliveInv'
      BY <2>4, <2>5 DEF AliveInv, Main, Child
    <2> QED
      BY <2>2, <2>6 DEF CallsRuntime
  <1>5. ASSUME NEW c \in {Main(k), Child(k)}, NEW s \in Statuses, SendStart(k, c, s)
        PROVE  CallsRuntime
    <2> DEFINE n == [call[k] EXCEPT !.status = s]
    <2>1. call' = [call EXCEPT ![k] = n] /\ n.sending = call[k].sending
      BY <1>1, <1>5 DEF SendStart, CallRecord
    <2>2. UNCHANGED scopes /\ UNCHANGED ctx
      BY <1>5 DEF SendStart, scopes
    <2> QED
      BY <1>1, <2>1, <2>2, SendingKept, AliveKept DEF CallsRuntime
  <1>6. ASSUME NEW c \in {Main(k), Child(k)}, SendLast(k, c)
        PROVE  CallsRuntime
    <2> DEFINE n == [call[k] EXCEPT !.sending = c, !.last = TRUE]
    <2>1. /\ call' = [call EXCEPT ![k] = n] /\ n.sending = c
          /\ c = Main(k) \/ ctx[c].alive
          /\ UNCHANGED scopes /\ UNCHANGED ctx
      BY <1>1, <1>6 DEF SendLast, Speaks, CallRecord, scopes
    <2> HIDE DEF n
    <2>2. call \in [Calls -> CallRecord] /\ \A j \in FastAPICalls : j \in Calls
      BY ContextFacts DEF AdaptersInv, AdaptersTypeOK
    <2>3. call'[k].sending = c /\ \A j \in FastAPICalls \ {k} : call'[j] = call[j]
      BY <1>1, <2>1, <2>2
    <2>4. AliveInv'
      BY <1>1, <2>1, <2>3 DEF AliveInv, Main, Child
    <2> QED
      BY <2>1, <2>4 DEF CallsRuntime
  <1>7. CASE Sent(k)
    <2> DEFINE c == call[k].sending
               n == [call[k] EXCEPT !.sending = None, !.completed = TRUE]
    <2>1. call' = [call EXCEPT ![k] = n] /\ n.sending = None
      BY <1>1, <1>7 DEF Sent, CallRecord
    <2>2. c # None /\ End(c, call[k].status, FALSE)
      BY <1>7 DEF Sent
    <2>3. c \in Contexts /\ ctx[c].alive /\ call[k].status \in Statuses \cup {None}
      <3>1. c \in {Main(k), Child(k)}
        BY <2>2 DEF AdaptersInv, FastAPICall
      <3>2. call[k].status \in Statuses \cup {None}
        BY <1>1 DEF CallRecord
      <3> QED
        BY <1>1, <3>1, <3>2 DEF AliveInv
    <2> HIDE DEF c
    <2>4. (RuntimeCall \/ UNCHANGED scopes) /\ UNCHANGED ctx
      BY <2>2, <2>3, EndCalls
    <2> QED
      BY <1>1, <2>1, <2>4, SendingKept, AliveKept DEF CallsRuntime
  <1>8. CASE SendFails(k)
    <2> DEFINE n == [call[k] EXCEPT !.sending = None]
    <2>1. call' = [call EXCEPT ![k] = n] /\ n.sending = None
      BY <1>1, <1>8 DEF SendFails, CallRecord
    <2>2. UNCHANGED scopes /\ UNCHANGED ctx
      BY <1>8 DEF SendFails, scopes
    <2> QED
      BY <1>1, <2>1, <2>2, SendingKept, AliveKept DEF CallsRuntime
  <1>9. ASSUME NEW raised \in BOOLEAN, AppEnds(k, raised)
        PROVE  CallsRuntime
    <2> DEFINE n == [call[k] EXCEPT !.pc = "over", !.raised = raised /\ ~call[k].completed]
    <2>1. call' = [call EXCEPT ![k] = n] /\ n.sending = call[k].sending
      BY <1>1, <1>9 DEF AppEnds, CallRecord
    <2>2. \/ UNCHANGED scopes
          \/ End(Main(k), FinalStatus(k, raised), raised)
      BY <1>9 DEF AppEnds
    <2>3. FinalStatus(k, raised) \in Statuses \cup {None}
      BY <1>1, ContextFacts DEF FinalStatus, CallRecord
    <2>4. (RuntimeCall \/ UNCHANGED scopes) /\ UNCHANGED ctx
      BY <1>1, <2>2, <2>3, EndCalls DEF scopes
    <2> QED
      BY <1>1, <2>1, <2>4, SendingKept, AliveKept DEF CallsRuntime
  <1> QED
    BY <1>2, <1>3, <1>4, <1>5, <1>6, <1>7, <1>8, <1>9 DEF FastAPIStep

LEMMA FlaskStepCalls ==
    ASSUME AdaptersInv, AliveInv, NEW k \in FlaskCalls, FlaskStep(k)
    PROVE  CallsRuntime
  <1>1. /\ k \in Calls /\ call[k] \in CallRecord
        /\ Main(k) = Thread /\ Thread \in Contexts /\ ctx[Thread].alive
    BY ContextFacts DEF AdaptersInv, AdaptersTypeOK, AliveInv
  <1>2. \A j \in FastAPICalls : call'[j] = call[j]
    <2>1. PICK n : call' = [call EXCEPT ![k] = n]
      BY DEF FlaskStep, FlaskBegin, Respond, Raise, FinishObserved, AfterFails,
             CloseObserved, TeardownFails
    <2>2. \A j \in FastAPICalls : j \in Calls /\ j # k
      BY ContextFacts
    <2> QED
      BY <2>1, <2>2 DEF AdaptersInv, AdaptersTypeOK
  <1>3. (RuntimeCall \/ UNCHANGED scopes) /\ UNCHANGED ctx
    <2>1. CASE FlaskBegin(k)
      BY <1>1, <2>1, BeginCalls DEF FlaskBegin, scopes
    <2>2. CASE FinishObserved(k)
      <3>1. \/ UNCHANGED scopes
            \/ Runtime!UpdateRequestStatus(Thread, call[k].status) /\ At(k, "after")
        BY <2>2 DEF FinishObserved
      <3>2. At(k, "after") => call[k].status \in Statuses
        BY <1>1 DEF AdaptersInv, FlaskCall, CallRecord
      <3>3. Runtime!UpdateRequestStatus(Thread, call[k].status) => UNCHANGED ctx
        BY DEF Runtime!UpdateRequestStatus
      <3> QED
        BY <1>1, <3>1, <3>2, <3>3 DEF RuntimeCall, scopes
    <2>3. CASE CloseObserved(k)
      <3>1. call[k].raised \in BOOLEAN
        BY <1>1 DEF CallRecord
      <3>2. (IF call[k].raised THEN 500 ELSE None) \in Statuses \cup {None}
        BY ContextFacts
      <3>3. \/ UNCHANGED scopes
            \/ End(Thread, IF call[k].raised THEN 500 ELSE None, call[k].raised)
        BY <2>3 DEF CloseObserved
      <3> QED
        BY <1>1, <3>1, <3>2, <3>3, EndCalls DEF scopes
    <2>4. CASE \/ \E s \in Statuses : Respond(k, s)
               \/ Raise(k) \/ AfterFails(k) \/ TeardownFails(k)
      BY <2>4 DEF Respond, Raise, AfterFails, TeardownFails, scopes
    <2> QED
      BY <2>1, <2>2, <2>3, <2>4 DEF FlaskStep
  <1> QED
    BY <1>2, <1>3, AliveKept DEF CallsRuntime

\* Each step of the adapters is at most one call of the runtime.
LEMMA StepCalls ==
    ASSUME AdaptersInv, AliveInv, [Next]_vars
    PROVE  CallsRuntime
  <1>1. CASE \E k \in FastAPICalls : FastAPIStep(k)
    BY <1>1, FastAPIStepCalls
  <1>2. CASE \E k \in FlaskCalls : FlaskStep(k)
    BY <1>2, FlaskStepCalls
  <1>3. CASE (\E c \in Contexts : Log(c)) \/ InstallStep \/ UNCHANGED vars
    <2>1. UNCHANGED scopes /\ UNCHANGED call
      BY <1>3 DEF Log, InstallStep, Install, Snapshot, Register, MoveToStart, Mark,
                  InstallFails, Rollback, Steps, vars
    <2> QED
      BY <2>1, AliveKept DEF CallsRuntime, scopes
  <1> QED
    BY <1>1, <1>2, <1>3 DEF Next

\* The empty functions of an instance without operations and attributes.
LEMMA EmptyFunction ==
    ASSUME NEW e
    PROVE  [x \in {} |-> e] = <<>>
  <1>1. <<>> \in Seq({}) /\ Len(<<>>) = 0 /\ 1..0 = {}
    OBVIOUS
  <1>2. <<>> = [i \in 1..Len(<<>>) |-> <<>>[i]]
    BY <1>1, LenProperties
  <1> QED
    BY <1>1, <1>2

LEMMA InitIsRuntime == Init => Runtime!Init /\ AliveInv
  <1> SUFFICES ASSUME Init
               PROVE  Runtime!Init /\ AliveInv
    OBVIOUS
  <1> DEFINE children == {"child"} \X FastAPICalls
             alive == Contexts \ children
  <1>1. Runtime!NoAttributes = <<>>
    BY EmptyFunction DEF Runtime!NoAttributes
  <1>2. [o \in {} |->
           [stage |-> "unused", ctx |-> None, old |-> None, rid |-> None,
            attrs |-> Runtime!NoAttributes, error |-> None, log |-> <<>>,
            past |-> {}, restored |-> {}]] = <<>>
    BY EmptyFunction
  <1>3. [m \in {} \cup {} |-> None] = <<>>
    BY EmptyFunction
  <1>4. req = [r \in Calls |->
                 [stage |-> "unused", ctx |-> None, old |-> None, rid |-> None,
                  attrs |-> Runtime!NoAttributes, error |-> None, status |-> None,
                  log |-> <<>>, ender |-> None]]
    BY <1>1 DEF Init
  <1>5. ctx = [c \in Contexts |-> [Runtime!NewContext(c) EXCEPT !.alive = c \in alive]]
    <2>1. ctx = [c \in Contexts |-> [Runtime!NewContext(c) EXCEPT !.alive = c \notin children]]
      BY DEF Init
    <2>2. \A c \in Contexts : (c \in alive) = (c \notin children)
      OBVIOUS
    <2> HIDE DEF alive, children
    <2> QED
      BY <2>1, <2>2, Zenon
  <1>6. alive \in SUBSET Contexts
    OBVIOUS
  <1>7. requestState = [c \in Contexts |-> None]
    BY DEF Init
  <1>8. \A c \in Contexts : c \notin children => ctx[c].alive
    <2> SUFFICES ASSUME NEW c \in Contexts, c \notin children
                 PROVE  ctx[c].alive
      OBVIOUS
    <2>1. ctx[c] = [Runtime!NewContext(c) EXCEPT !.alive = c \notin children]
      BY DEF Init
    <2>2. (c \notin children) = TRUE
      OBVIOUS
    <2>3. ctx[c] = [Runtime!NewContext(c) EXCEPT !.alive = TRUE]
      BY <2>1, <2>2, Zenon
    <2> QED
      BY <2>3 DEF Runtime!NewContext
  <1>9. \A k \in FastAPICalls : Main(k) \notin children /\ Main(k) \in Contexts
    BY AdaptersAssumption, ContextFacts DEF Main
  <1>10. Thread \notin children /\ Thread \in Contexts
    BY AdaptersAssumption, ContextFacts
  <1>11. AliveInv
    <2>1. \A k \in FastAPICalls : call[k].sending = None /\ None # Child(k)
      BY ContextFacts DEF Init
    <2> HIDE DEF children
    <2> QED
      BY <1>8, <1>9, <1>10, <2>1 DEF AliveInv
  <1> HIDE DEF alive
  <1>12. Runtime!Init
    BY <1>2, <1>3, <1>4, <1>5, <1>6, <1>7, Zenon DEF Runtime!Init
  <1> QED
    BY <1>11, <1>12

LEMMA CallIsRuntimes == RuntimeCall \/ UNCHANGED scopes => [Runtime!Next]_Runtime!vars
  <1>1. ASSUME NEW c \in Contexts, NEW r \in Calls, Runtime!BeginRequest(c, r, r)
        PROVE  Runtime!Call(c)
    <2>1. r \in {} \cup {r}
      OBVIOUS
    <2> QED
      BY <1>1, <2>1 DEF Runtime!Call
  <1>2. ASSUME NEW c \in Contexts, ctx[c].alive,
               \/ \E d \in Contexts : ~ctx[d].alive /\ Runtime!Copy(c, d)
               \/ \E r \in Calls : Runtime!BeginRequest(c, r, r)
               \/ \E s \in Statuses : Runtime!UpdateRequestStatus(c, s)
               \/ \E s \in Statuses \cup {None}, raised \in BOOLEAN :
                     Runtime!EndRequest(c, s, raised)
        PROVE  Runtime!Call(c)
    BY <1>1, <1>2 DEF Runtime!Call
  <1>3. RuntimeCall => Runtime!Next
    BY <1>2 DEF RuntimeCall, Runtime!Next
  <1>4. UNCHANGED scopes => UNCHANGED Runtime!vars
    BY DEF scopes, Runtime!vars
  <1> QED
    BY <1>3, <1>4

\* Each step maps to a call of the runtime or changes nothing it keeps: the
\* adapters, the frameworks and the application use its requests only as the
\* behaviours of ContextScopes do, so that what holds there holds for them.
THEOREM AdaptersUseRuntime == Spec => ImplementsRuntime
  <1>1. Init => Runtime!Init /\ AliveInv
    BY InitIsRuntime
  <1>2. AdaptersInv /\ AliveInv /\ [Next]_vars => AliveInv' /\ [Runtime!Next]_Runtime!vars
    BY StepCalls, CallIsRuntimes DEF CallsRuntime
  <1> QED
    BY <1>1, <1>2, AdaptersInvariance, PTL DEF Spec, ImplementsRuntime, Runtime!Spec

Scopes == INSTANCE ContextScopesProofs WITH
    Requests <- Calls, Operations <- {}, Decorators <- {}, Supplied <- {},
    Keys <- {}, DispatchKeys <- {}, Texts <- {}, Numbers <- {}, Floats <- {}, MaxMessages <- 0,
    operationState <- [c \in Contexts |-> None], op <- <<>>, held <- <<>>,
    messages <- {}

\* The theorems of ContextScopesProofs, about this use of the runtime.
LEMMA RuntimeIsScopes == Spec => Scopes!Spec
  <1>1. Runtime!Init => Scopes!Init
    BY DEF Scopes!Init, Runtime!Init, Runtime!NewContext, Scopes!NewContext,
           Runtime!NoAttributes, Scopes!NoAttributes
  <1>2. ASSUME NEW c \in Contexts, NEW d \in Contexts, Runtime!Copy(c, d)
        PROVE  Scopes!Copy(c, d)
    BY <1>2 DEF Runtime!Copy, Scopes!Copy, Runtime!Past, Scopes!Past, Runtime!Restored,
           Scopes!Restored, Runtime!OwnRequests, Scopes!OwnRequests,
           Runtime!OpenOperations, Scopes!OpenOperations, Runtime!ToSet, Scopes!ToSet
  <1>3. ASSUME NEW c \in Contexts, NEW r \in Calls, Runtime!BeginRequest(c, r, r)
        PROVE  Scopes!BeginRequest(c, r, r)
    BY <1>3 DEF Runtime!BeginRequest, Scopes!BeginRequest, Runtime!Assign, Scopes!Assign
  <1>4. ASSUME NEW c \in Contexts, NEW s \in Statuses, Runtime!UpdateRequestStatus(c, s)
        PROVE  Scopes!UpdateRequestStatus(c, s)
    BY <1>4 DEF Runtime!UpdateRequestStatus, Scopes!UpdateRequestStatus,
           Runtime!Completed, Scopes!Completed
  <1>5. ASSUME NEW c \in Contexts, NEW s \in Statuses \cup {None}, NEW raised \in BOOLEAN,
               Runtime!EndRequest(c, s, raised)
        PROVE  Scopes!EndRequest(c, s, raised)
    BY <1>5 DEF Runtime!EndRequest, Scopes!EndRequest, Runtime!Completed,
           Scopes!Completed, Runtime!Outcome, Scopes!Outcome, Runtime!RecordedError,
           Scopes!RecordedError, Runtime!Reset, Scopes!Reset
  <1>6. ASSUME NEW c \in Contexts, NEW r \in Calls, Scopes!BeginRequest(c, r, r)
        PROVE  Scopes!Call(c)
    <2>1. r \in {} \cup {r}
      OBVIOUS
    <2> QED
      BY <1>6, <2>1 DEF Scopes!Call
  <1>7. ASSUME NEW c \in Contexts, ctx[c].alive,
               \/ \E d \in Contexts : ~ctx[d].alive /\ Runtime!Copy(c, d)
               \/ \E r \in Calls : Runtime!BeginRequest(c, r, r)
               \/ \E s \in Statuses : Runtime!UpdateRequestStatus(c, s)
               \/ \E s \in Statuses \cup {None}, raised \in BOOLEAN :
                     Runtime!EndRequest(c, s, raised)
        PROVE  Scopes!Call(c)
    BY <1>2, <1>3, <1>4, <1>5, <1>6, <1>7 DEF Scopes!Call
  <1>8. RuntimeCall => Scopes!Next
    BY <1>7 DEF RuntimeCall, Scopes!Next
  <1>9. UNCHANGED scopes => UNCHANGED Scopes!vars
    BY DEF scopes, Scopes!vars
  <1>10. Init => Scopes!Init /\ AliveInv
    BY <1>1, InitIsRuntime
  <1>11. AdaptersInv /\ AliveInv /\ [Next]_vars => AliveInv' /\ [Scopes!Next]_Scopes!vars
    BY <1>8, <1>9, StepCalls DEF CallsRuntime
  <1> QED
    BY <1>10, <1>11, AdaptersInvariance, PTL DEF Spec, Scopes!Spec

\* With any number of calls of either framework, a request has one completion
\* record however many tasks and places try to end it, no task or thread uses the
\* identifier of a request it does not work for, and a completion record carries
\* no exception of another call.
THEOREM AdaptersKeepRequestsApart ==
    Spec => [](Runtime!CompletedOnce /\ Runtime!NoForeignRequestId /\ Runtime!ErrorsStayInFlow)
  <1>0. Scopes!Values = {}
    BY DEF Scopes!Values
  <1>1. Scopes!ScopesAssumption
    BY <1>0, AdaptersAssumption DEF Scopes!ScopesAssumption
  <1>2. Spec => [](Scopes!CompletedOnce /\ Scopes!NoForeignRequestId /\ Scopes!ErrorsStayInFlow)
    BY <1>1, RuntimeIsScopes, Scopes!CompletedOnceEach, Scopes!IdentifiersStayInFlow,
       Scopes!ErrorsReachTheirOwn, PTL
  <1>3. Scopes!CompletedOnce => Runtime!CompletedOnce
    BY DEF Scopes!CompletedOnce, Runtime!CompletedOnce
  <1>4. Scopes!NoForeignRequestId => Runtime!NoForeignRequestId
    BY DEF Scopes!NoForeignRequestId, Runtime!NoForeignRequestId, Runtime!ActiveRequestId,
           Scopes!ActiveRequestId, Runtime!Past, Scopes!Past, Runtime!OwnRequests,
           Scopes!OwnRequests, Runtime!OpenOperations, Scopes!OpenOperations,
           Runtime!ToSet, Scopes!ToSet
  <1>5. Scopes!ErrorsStayInFlow => Runtime!ErrorsStayInFlow
    BY DEF Scopes!ErrorsStayInFlow, Runtime!ErrorsStayInFlow
  <1> QED
    BY <1>2, <1>3, <1>4, <1>5, PTL
===============================================================================
