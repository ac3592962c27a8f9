------------------------ MODULE RuntimeLifecycleProofs ------------------------
(***************************************************************************)
(* Proofs about ProcessIdentity, and about RuntimeLifecycle, which uses it *)
(* and Diagnostics.                                                        *)
(*                                                                         *)
(* What is left of a routine is one of Places and told by its next step,   *)
(* so RuntimeInv speaks of Doing, the step each thread is about to take.   *)
(* A construction or a restart is alone in its process (BirthInv,          *)
(* RestartingInv), and by its end has replaced all that was inherited      *)
(* (OwnInv).  A runtime that lives has one thread in Section, with the     *)
(* lock (LockInv).  The thread in Closing is the first call of shutdown:   *)
(* no call has returned before it is through (ClosedInv), and until then   *)
(* each handler to be removed is ahead of its loop, or its failure is      *)
(* counted or about to be (RemovalInv).  For that the loop must meet every *)
(* handler once: each is in the list once, put there by the thread that    *)
(* made it (HandlersInv).                                                  *)
(***************************************************************************)
EXTENDS RuntimeLifecycle, DiagnosticsProofs, FiniteSetTheorems

\* What can be left of a routine.
Places ==
    {<<>>,
     Configuring, <<"otel", "listener", "scan", "attach", "register">>,
     <<"listener", "scan", "attach", "register">>,
     Instrumenting, <<"attach", "register">>, <<"register">>,
     Logging, <<"handled">>,
     ShuttingDown, <<"check", "close", "start", "wait", "detach", "clear", "leave">>,
     <<"close", "start", "wait", "detach", "clear", "leave">>,
     <<"start", "wait", "detach", "clear", "leave">>,
     <<"wait", "detach", "clear", "leave">>,
     <<"deadline">> \o <<"detach", "clear", "leave">>,
     <<"detach", "clear", "leave">>, <<"clear", "leave">>, <<"leave">>,
     BoundedShutdown, <<"meter", "set">>, <<"set">>,
     Restarting,
     <<"diagnostics", "contexts", "relock", "delivery", "otel", "open">>,
     <<"contexts", "relock", "delivery", "otel", "open">>,
     <<"relock", "delivery", "otel", "open">>,
     <<"delivery", "otel", "open">>, <<"otel", "open">>, <<"open">>}

\* The step that comes next; those that the restart repeats have another name.
StepOf(s) ==
    IF s = <<>> THEN "away"
    ELSE IF s = <<"delivery", "otel", "open">> THEN "redeliver"
    ELSE IF s = <<"otel", "open">> THEN "reotel"
    ELSE Head(s)

Constructing == {"delivery", "otel", "listener"}
RestartSteps ==
    {"lock", "diagnostics", "contexts", "relock", "redeliver", "reotel", "open"}

\* What follows a step.
Following ==
    [delivery |-> "otel", otel |-> "listener", listener |-> "scan",
     scan |-> "attach", attach |-> "register", register |-> "away",
     handle |-> "handled", handled |-> "away",
     enter |-> "check", check |-> "close", close |-> "start", start |-> "wait",
     wait |-> "detach", deadline |-> "detach", detach |-> "clear",
     clear |-> "leave", leave |-> "away",
     tracer |-> "meter", meter |-> "set", set |-> "away",
     lock |-> "diagnostics", diagnostics |-> "contexts", contexts |-> "relock",
     relock |-> "redeliver", redeliver |-> "reotel", reotel |-> "open",
     open |-> "away"]

\* The identifiers in the table of a process, and who they were given to.
TableInv ==
    /\ \A p \in 1..MaxProcesses : identities[p] # NoIdentity => identities[p] \in 1..uuids
    /\ \A p, q \in 1..MaxProcesses :
          p # q /\ identities[p] # NoIdentity => identities[p] # identities[q]
    /\ \A g \in given : identities[g.pid] = g.id
    /\ \A g \in given : g.process = process => g.pid = pid
    /\ \A g, h \in given : g.process = h.process => g.pid = h.pid

IdentityInv == IdentityTypeOK /\ TableInv

\* The step each thread is about to take.
Doing == [t \in Threads |-> StepOf(steps[t])]

Section == {"check", "close", "start", "wait", "deadline", "detach", "clear", "leave"}
Closing == {"close", "start", "wait", "deadline", "detach"}
Daemonic == {"tracer", "meter", "set"}

\* The runtime is built, and neither copied nor being restarted.
Live ==
    /\ listening
    /\ ~inherited
    /\ \A t \in Threads : Doing[t] \notin RestartSteps

\* No other thread is in any routine or call.
Alone(t) == \A u \in Threads \ {t} : Doing[u] = "away" /\ stack[u] = <<>>

PlacesInv ==
    /\ steps \in [Threads -> Places]
    /\ Doing[Daemon] \in Daemonic \cup {"away"}
    /\ \A t \in Threads \ {Daemon} : Doing[t] \notin Daemonic

\* One thread constructs the runtime, and nothing else happens before.
BirthInv ==
    /\ self.instance = NoIdentity =>
          /\ ~listening
          /\ \A t \in Threads : Doing[t] = "away" /\ stack[t] = <<>>
    /\ ~listening =>
          /\ ~inherited /\ ~self.closed
          /\ \A t \in Threads : Doing[t] \in {"away"} \cup Constructing
    /\ \A t \in Threads : Doing[t] \in Constructing =>
          /\ ~listening /\ Alone(t)
          /\ self.contexts = process
          /\ Doing[t] # "delivery" => self.delivery = process
          /\ Doing[t] = "listener" => self.otel = process

\* A restart is alone in its process.
RestartingInv ==
    /\ inherited => \A t \in Threads : Doing[t] \in {"away", "lock", "diagnostics"}
    /\ \A t \in Threads : Doing[t] \in RestartSteps =>
          /\ listening /\ Alone(t)
          /\ Doing[t] \notin {"lock", "diagnostics", "contexts"} => self.contexts = process
          /\ Doing[t] \in {"reotel", "open"} =>
                self.delivery = process /\ history.closes = 0
          /\ Doing[t] = "open" => self.otel = process /\ history.shutdowns = 0

\* What is counted by some calls.
NamesIn(calls) == {calls[i].name : i \in 1..Len(calls)}

\* Nothing is passed on to an OTel that the process has not built.
OwnInv ==
    /\ history.touched = {}
    /\ Live => /\ self.contexts = process /\ self.delivery = process
               /\ self.otel = process
    /\ self.otel # process =>
          \A t \in Threads : \A n \in NamesIn(stack[t]) : ~Forwarded(n)

LockInv == \A t \in Threads : Doing[t] \in Section => self.lock = t

\* What is closed and shut down when.
ClosedInv ==
    /\ history.returned => self.closed
    /\ ~self.closed =>
          history.closes = 0 /\ history.shutdowns = 0 /\ Doing[Daemon] = "away"
    /\ Doing[Daemon] = "tracer" => history.shutdowns = 0
    /\ \A t \in Threads :
          /\ Doing[t] \in Section \ {"check"} => self.closed
          /\ Doing[t] \in Closing => ~history.returned
          /\ Doing[t] = "close" => history.closes = 0
          /\ Doing[t] \in {"close", "start"} =>
                history.shutdowns = 0 /\ Doing[Daemon] = "away"
    /\ Live /\ self.closed /\ (\A t \in Threads : Doing[t] # "close") =>
          history.closes = 1

\* A handler is registered once, by the thread that made it.
HandlersInv ==
    /\ logger.attached \subseteq 1..logger.made
    /\ history.installed \subseteq 1..logger.made
    /\ \A i \in 1..Len(logger.registered) : logger.registered[i] \in 1..logger.made
    /\ \A i, j \in 1..Len(logger.registered) :
          logger.registered[i] = logger.registered[j] => i = j
    /\ \A t \in Threads : Doing[t] = "register" =>
          /\ logger.mine[t] \in 1..logger.made
          /\ \A i \in 1..Len(logger.registered) : logger.registered[i] # logger.mine[t]
          /\ \A u \in Threads : Doing[u] = "register" /\ logger.mine[u] = logger.mine[t] => u = t
    /\ logger.cursor <= Len(logger.registered)
    /\ (\A t \in Threads : Doing[t] \notin {"detach", "clear"}) => logger.cursor = 0

\* The failure to remove a handler, and a thread that has yet to count it.
Removal == Failure("logging.handler_remove")
Counted == "logging.handler_remove" \in Operations /\ counts[Removal] > 0
Pending(t) ==
    stack[t] # <<>> /\ Top(t).name = Removal /\ Top(t).pc \in {"count", "add"}

\* The handlers that shutdown has to remove are ahead of its loop or accounted for.
Ahead(h) ==
    \E i \in 1..Len(logger.registered) : i > logger.cursor /\ logger.registered[i] = h
RemovalInv ==
    /\ \A t \in Threads : Doing[t] \in Closing =>
          \A h \in logger.attached \cap history.installed :
              Counted \/ Pending(t) \/ Ahead(h)
    /\ Live /\ self.closed /\ (\A t \in Threads : Doing[t] \notin Closing) =>
          logger.attached \cap history.installed = {} \/ Counted

RuntimeInv ==
    /\ DiagInv /\ IdentityInv
    /\ LifecycleTypeOK
    /\ PlacesInv
    /\ BirthInv
    /\ RestartingInv
    /\ OwnInv
    /\ LockInv
    /\ ClosedInv
    /\ HandlersInv
    /\ RemovalInv
-------------------------------------------------------------------------------
(* Identifiers *)

\* A result that was given out has the shape of one.
LEMMA GivenFacts ==
    ASSUME IdentityInv, NEW g \in given
    PROVE  /\ g.pid \in 1..MaxProcesses /\ g.pid \in 1..process
           /\ g.process \in 1..process
           /\ g.id \in 1..uuids /\ g.id # NoIdentity
           /\ identities[g.pid] = g.id
  BY IdentityAssumption DEF IdentityInv, IdentityTypeOK, TableInv

LEMMA IdentityInitInv == IdentityInit => IdentityInv
  BY IdentityAssumption DEF IdentityInit, IdentityInv, IdentityTypeOK, TableInv

LEMMA AskInv ==
    ASSUME IdentityInv, NEW t \in Callers, Ask(t)
    PROVE  IdentityInv'
  <1>1. pid \in 1..MaxProcesses /\ pid \in 1..process /\ process \in 1..process
    BY IdentityAssumption DEF IdentityInv, IdentityTypeOK
  <1>2. UNCHANGED <<process, pid, identities, uuids>>
    BY DEF Ask
  <1>3. CASE identities[pid] # NoIdentity
    <2> DEFINE g == [process |-> process, pid |-> pid, id |-> identities[pid]]
    <2>1. given' = given \cup {g} /\ generated' = generated
      BY <1>3 DEF Ask, Key, Give
    <2>2. identities[pid] \in 1..uuids
      BY <1>1, <1>3 DEF IdentityInv, TableInv
    <2>3. g \in [process : 1..process, pid : 1..process, id : 1..uuids]
      BY <1>1, <2>2
    <2>4. identities[g.pid] = g.id
      OBVIOUS
    <2>5. g.process = process /\ g.pid = pid
      OBVIOUS
    <2> HIDE DEF g
    <2>6. IdentityTypeOK'
      BY <1>2, <2>1, <2>3 DEF IdentityInv, IdentityTypeOK
    <2>7. TableInv'
      BY <1>2, <2>1, <2>4, <2>5 DEF IdentityInv, TableInv
    <2> QED
      BY <2>6, <2>7 DEF IdentityInv
  <1>4. CASE identities[pid] = NoIdentity
    <2>1. generated' = generated \cup {t} /\ given' = given
      BY <1>4 DEF Ask, Key
    <2> QED
      BY <1>2, <2>1 DEF IdentityInv, IdentityTypeOK, TableInv
  <1> QED
    BY <1>3, <1>4

LEMMA StoreInv ==
    ASSUME IdentityInv, NEW t \in Callers, Store(t)
    PROVE  IdentityInv'
  <1> DEFINE id == SetDefault(identities[pid])
             g == [process |-> process, pid |-> pid, id |-> id]
  <1>1. /\ pid \in 1..MaxProcesses /\ pid \in 1..process /\ process \in 1..process
        /\ uuids \in Nat /\ generated' \in SUBSET Callers
    BY IdentityAssumption DEF IdentityInv, IdentityTypeOK, Store
  <1>2. /\ identities' = [identities EXCEPT ![pid] = id]
        /\ uuids' = IF id = identities[pid] THEN uuids ELSE uuids + 1
        /\ given' = given \cup {g}
        /\ UNCHANGED <<process, pid>>
    BY DEF Store, Key, Give
  <1>3. identities[pid] # NoIdentity => identities[pid] \in 1..uuids
    BY <1>1 DEF IdentityInv, TableInv
  <1>4. CASE identities[pid] # NoIdentity
    <2>1. id = identities[pid] /\ id \in 1..uuids
      BY <1>3, <1>4 DEF SetDefault
    <2>2. identities' = identities /\ uuids' = uuids
      BY <1>2, <2>1 DEF IdentityInv, IdentityTypeOK
    <2>3. g \in [process : 1..process, pid : 1..process, id : 1..uuids] /\ identities[g.pid] = g.id
      BY <1>1, <2>1
    <2> HIDE DEF g, id
    <2> QED
      <3>1. IdentityTypeOK'
        BY <1>1, <1>2, <2>2, <2>3 DEF IdentityInv, IdentityTypeOK
      <3>2. g.process = process /\ g.pid = pid
        BY DEF g
      <3>3. TableInv'
        BY <1>2, <2>2, <2>3, <3>2 DEF IdentityInv, TableInv
      <3> QED
        BY <3>1, <3>3 DEF IdentityInv
  <1>5. CASE identities[pid] = NoIdentity
    <2>1. id = uuids + 1 /\ id # NoIdentity /\ id \in Nat
      BY <1>1, <1>5, IdentityAssumption DEF SetDefault
    <2>2. /\ uuids' = uuids + 1 /\ identities'[pid] = uuids + 1
          /\ \A p \in 1..MaxProcesses : p # pid => identities'[p] = identities[p]
          /\ identities' \in [1..MaxProcesses -> Nat \cup {NoIdentity}]
      BY <1>1, <1>2, <1>5, <2>1 DEF IdentityInv, IdentityTypeOK
    <2>3. /\ g \in [process : 1..process, pid : 1..process, id : 1..uuids']
          /\ g.id = identities'[g.pid]
      BY <1>1, <2>1, <2>2
    <2>4. \A h \in given : h.pid # pid /\ identities'[h.pid] = h.id
      BY <1>5, <2>2, GivenFacts
    <2> HIDE DEF g, id
    <2>5. IdentityTypeOK'
      <3>1. given \subseteq [process : 1..process, pid : 1..process, id : 1..uuids']
        BY <1>1, <2>2 DEF IdentityInv, IdentityTypeOK
      <3> QED
        BY <1>1, <1>2, <2>2, <2>3, <3>1 DEF IdentityInv, IdentityTypeOK
    <2>6. \A p \in 1..MaxProcesses : identities'[p] # NoIdentity => identities'[p] \in 1..uuids'
      BY <1>1, <2>2 DEF IdentityInv, TableInv
    <2>7. \A p, q \in 1..MaxProcesses :
             p # q /\ identities'[p] # NoIdentity => identities'[p] # identities'[q]
      <3> SUFFICES ASSUME NEW p \in 1..MaxProcesses, NEW q \in 1..MaxProcesses,
                          p # q, identities'[p] # NoIdentity
                   PROVE  identities'[p] # identities'[q]
        OBVIOUS
      <3>1. \A r \in 1..MaxProcesses : identities[r] # uuids + 1
        BY <1>1, IdentityAssumption DEF IdentityInv, TableInv
      <3>2. CASE p = pid
        BY <3>1, <3>2, <2>2
      <3>3. CASE q = pid
        BY <3>1, <3>3, <2>2
      <3>4. CASE p # pid /\ q # pid
        BY <3>4, <2>2 DEF IdentityInv, TableInv
      <3> QED
        BY <3>2, <3>3, <3>4
    <2>8. \A h \in given' : identities'[h.pid] = h.id
      BY <1>2, <2>3, <2>4
    <2>9. g.process = process /\ g.pid = pid
      BY DEF g
    <2>10. /\ \A h \in given' : h.process = process' => h.pid = pid'
           /\ \A h, k \in given' : h.process = k.process => h.pid = k.pid
      BY <1>2, <2>9 DEF IdentityInv, TableInv
    <2> QED
      BY <2>5, <2>6, <2>7, <2>8, <2>10 DEF IdentityInv, TableInv
  <1> QED
    BY <1>4, <1>5

LEMMA CopyInv ==
    ASSUME IdentityInv, NEW id \in 1..(process + 1), CopyProcess(id)
    PROVE  IdentityInv'
  <1>1. /\ process' = process + 1 /\ pid' = id /\ generated' = {}
        /\ process < MaxProcesses
        /\ UNCHANGED <<identities, uuids, given>>
    BY DEF CopyProcess
  <1>2. 1..process \subseteq 1..process'
    BY <1>1 DEF IdentityInv, IdentityTypeOK
  <1>3. IdentityTypeOK'
    BY <1>1, <1>2, IdentityAssumption DEF IdentityInv, IdentityTypeOK
  <1>4. \A g \in given : g.process # process'
    BY <1>1 DEF IdentityInv, IdentityTypeOK
  <1> QED
    BY <1>1, <1>3, <1>4 DEF IdentityInv, TableInv

LEMMA IdentityNextInv == IdentityInv /\ [IdentityNext]_identityVars => IdentityInv'
  <1> SUFFICES ASSUME IdentityInv, [IdentityNext]_identityVars PROVE IdentityInv'
    OBVIOUS
  <1>1. CASE \E t \in Callers : Ask(t) \/ Store(t)
    BY <1>1, AskInv, StoreInv
  <1>2. CASE ForkProcess \/ RestoreProcess
    <2>1. process + 1 \in 1..(process + 1) /\ pid \in 1..(process + 1)
      BY DEF IdentityInv, IdentityTypeOK
    <2> QED
      BY <1>2, <2>1, CopyInv DEF ForkProcess, RestoreProcess
  <1>3. CASE UNCHANGED identityVars
    BY <1>3 DEF identityVars, IdentityInv, IdentityTypeOK, TableInv
  <1> QED
    BY <1>1, <1>2, <1>3 DEF IdentityNext

LEMMA IdentityFacts == IdentityInv => IdentityPerProcess
  <1> SUFFICES ASSUME IdentityInv, NEW g \in given, NEW h \in given
               PROVE  /\ g.process = h.process => g.id = h.id
                      /\ g.pid # h.pid => g.id # h.id
    BY DEF IdentityPerProcess
  <1> QED
    BY GivenFacts DEF IdentityInv, TableInv

\* The threads of a process get one identifier, and processes with different
\* process identifiers get different ones, for any number of threads and forks.
\* Of a process restored under the process identifier of its parent nothing is
\* said: it finds the identifier of its parent in the table.
THEOREM OneIdentity == IdentitySpec => []IdentityPerProcess
  <1> QED
    BY IdentityFacts, IdentityInitInv, IdentityNextInv, PTL DEF IdentitySpec

\* The table, the processes and the calls under way stay well-typed.
THEOREM IdentityTypeCorrect == IdentitySpec => []IdentityTypeOK
  <1>1. IdentityInv => IdentityTypeOK
    BY DEF IdentityInv
  <1> QED
    BY <1>1, IdentityInitInv, IdentityNextInv, PTL DEF IdentitySpec
-------------------------------------------------------------------------------
(* Routines as places *)

\* What is left of a routine, with its first step.
LEMMA TupleTypes ==
    ASSUME NEW S, {"delivery", "otel", "listener", "scan", "attach", "register",
                   "handle", "handled", "enter", "check", "close", "start", "wait",
                   "detach", "clear", "leave", "tracer", "meter", "set", "lock",
                   "diagnostics", "contexts", "relock", "open"} \subseteq S
    PROVE  Places \ {<<"deadline">> \o <<"detach", "clear", "leave">>} \subseteq Seq(S)
  <1>1. /\ Configuring \in Seq(S) /\ <<"otel", "listener", "scan", "attach", "register">> \in Seq(S)
        /\ <<"listener", "scan", "attach", "register">> \in Seq(S)
        /\ Instrumenting \in Seq(S) /\ <<"attach", "register">> \in Seq(S)
        /\ <<"register">> \in Seq(S)
    BY DEF Configuring, Instrumenting
  <1>2. /\ Logging \in Seq(S) /\ <<"handled">> \in Seq(S)
        /\ BoundedShutdown \in Seq(S) /\ <<"meter", "set">> \in Seq(S) /\ <<"set">> \in Seq(S)
    BY DEF Logging, BoundedShutdown
  <1>3. /\ ShuttingDown \in Seq(S)
        /\ <<"check", "close", "start", "wait", "detach", "clear", "leave">> \in Seq(S)
        /\ <<"close", "start", "wait", "detach", "clear", "leave">> \in Seq(S)
        /\ <<"start", "wait", "detach", "clear", "leave">> \in Seq(S)
        /\ <<"wait", "detach", "clear", "leave">> \in Seq(S)
    BY DEF ShuttingDown
  <1>4. /\ <<"detach", "clear", "leave">> \in Seq(S)
        /\ <<"clear", "leave">> \in Seq(S) /\ <<"leave">> \in Seq(S)
    OBVIOUS
  <1>5. /\ Restarting \in Seq(S)
        /\ <<"diagnostics", "contexts", "relock", "delivery", "otel", "open">> \in Seq(S)
        /\ <<"contexts", "relock", "delivery", "otel", "open">> \in Seq(S)
        /\ <<"relock", "delivery", "otel", "open">> \in Seq(S)
        /\ <<"delivery", "otel", "open">> \in Seq(S)
        /\ <<"otel", "open">> \in Seq(S) /\ <<"open">> \in Seq(S)
    BY DEF Restarting
  <1> QED
    BY <1>1, <1>2, <1>3, <1>4, <1>5, EmptySeq, ZenonT(60) DEF Places

LEMMA RoutineFacts ==
    /\ StepOf(<<>>) = "away" /\ StepOf(<<"leave">>) = "leave"
    /\ StepOf(Configuring) = "delivery" /\ StepOf(Instrumenting) = "scan"
    /\ StepOf(Logging) = "handle" /\ StepOf(ShuttingDown) = "enter"
    /\ StepOf(BoundedShutdown) = "tracer" /\ StepOf(Restarting) = "lock"
    /\ {<<>>, <<"leave">>, Configuring, Instrumenting, Logging, ShuttingDown,
        BoundedShutdown, Restarting} \subseteq Places
  BY DEF Places, StepOf, Configuring, Instrumenting, Logging, ShuttingDown,
     BoundedShutdown, Restarting

\* A place begins with its step, and what follows is a place too.
StepsOn(s, step, name) ==
    /\ s # <<>> /\ StepOf(s) = step /\ Head(s) = name
    /\ Tail(s) \in Places /\ StepOf(Tail(s)) = Following[step]
    /\ Contains(s, "listener") <=> step \in Constructing
    /\ Contains(s, "open") <=> step \in RestartSteps

\* The deadline comes before what follows the wait.
LEMMA DeadlineFacts ==
    StepsOn(<<"deadline">> \o <<"detach", "clear", "leave">>, "deadline", "deadline")
  <1> DEFINE r == <<"detach", "clear", "leave">>
             s == <<"deadline">> \o r
  <1>1. r \in Seq(Steps) /\ r \in Places /\ "deadline" \in Steps /\ s \in Places
    BY TupleTypes DEF Places, Steps
  <1>2. /\ s \in Seq(Steps) /\ s # <<>> /\ Head(s) = "deadline" /\ Tail(s) = r
    BY <1>1, FrontFacts, ZenonT(60)
  <1>3. StepOf(r) = "detach"
    BY DEF StepOf
  <1>4. /\ Len(s) = 4 /\ s[1] = "deadline"
        /\ \A i \in 1..3 : s[i + 1] \in {"detach", "clear", "leave"}
    BY <1>1, PushFacts
  <1> HIDE DEF r, s
  <1>5. s # <<"delivery", "otel", "open">> /\ s # <<"otel", "open">>
    BY <1>4
  <1>6. StepOf(s) = "deadline"
    BY <1>2, <1>5 DEF StepOf
  <1>7. ~Contains(s, "listener") /\ ~Contains(s, "open")
    <2>1. \A i \in 1..4 : s[i] \in {"deadline", "detach", "clear", "leave"}
      <3> SUFFICES ASSUME NEW i \in 1..4 PROVE s[i] \in {"deadline", "detach", "clear", "leave"}
        OBVIOUS
      <3>1. i = 1 \/ (i - 1 \in 1..3 /\ i = (i - 1) + 1)
        OBVIOUS
      <3> QED
        BY <1>4, <3>1
    <2> QED
      BY <1>4, <2>1 DEF Contains
  <1>8. StepsOn(s, "deadline", "deadline")
    BY <1>1, <1>2, <1>3, <1>6, <1>7 DEF StepsOn, Following, Constructing, RestartSteps
  <1> QED
    BY <1>8 DEF r, s

\* The places, one after the other.
LEMMA EachPlace ==
    /\ StepsOn(Configuring, "delivery", "delivery")
    /\ StepsOn(<<"otel", "listener", "scan", "attach", "register">>, "otel", "otel")
    /\ StepsOn(<<"listener", "scan", "attach", "register">>, "listener", "listener")
    /\ StepsOn(Instrumenting, "scan", "scan")
    /\ StepsOn(<<"attach", "register">>, "attach", "attach")
    /\ StepsOn(<<"register">>, "register", "register")
    /\ StepsOn(Logging, "handle", "handle")
    /\ StepsOn(<<"handled">>, "handled", "handled")
    /\ StepsOn(ShuttingDown, "enter", "enter")
    /\ StepsOn(<<"check", "close", "start", "wait", "detach", "clear", "leave">>, "check", "check")
    /\ StepsOn(<<"close", "start", "wait", "detach", "clear", "leave">>, "close", "close")
    /\ StepsOn(<<"start", "wait", "detach", "clear", "leave">>, "start", "start")
    /\ StepsOn(<<"wait", "detach", "clear", "leave">>, "wait", "wait")
    /\ StepsOn(<<"detach", "clear", "leave">>, "detach", "detach")
    /\ StepsOn(<<"clear", "leave">>, "clear", "clear")
    /\ StepsOn(<<"leave">>, "leave", "leave")
    /\ StepsOn(BoundedShutdown, "tracer", "tracer")
    /\ StepsOn(<<"meter", "set">>, "meter", "meter")
    /\ StepsOn(<<"set">>, "set", "set")
    /\ StepsOn(Restarting, "lock", "lock")
    /\ StepsOn(<<"diagnostics", "contexts", "relock", "delivery", "otel", "open">>,
               "diagnostics", "diagnostics")
    /\ StepsOn(<<"contexts", "relock", "delivery", "otel", "open">>, "contexts", "contexts")
    /\ StepsOn(<<"relock", "delivery", "otel", "open">>, "relock", "relock")
    /\ StepsOn(<<"delivery", "otel", "open">>, "redeliver", "delivery")
    /\ StepsOn(<<"otel", "open">>, "reotel", "otel")
    /\ StepsOn(<<"open">>, "open", "open")
  <1>1. StepsOn(Configuring, "delivery", "delivery")
    BY DEF StepsOn, StepOf, Following, Places, Contains, Constructing, RestartSteps, Configuring
  <1>2. StepsOn(<<"otel", "listener", "scan", "attach", "register">>, "otel", "otel")
    BY DEF StepsOn, StepOf, Following, Places, Contains, Constructing, RestartSteps
  <1>3. StepsOn(<<"listener", "scan", "attach", "register">>, "listener", "listener")
    BY DEF StepsOn, StepOf, Following, Places, Contains, Constructing, RestartSteps,
       Instrumenting
  <1>4. StepsOn(Instrumenting, "scan", "scan")
    BY DEF StepsOn, StepOf, Following, Places, Contains, Constructing, RestartSteps, Instrumenting
  <1>5. StepsOn(<<"attach", "register">>, "attach", "attach")
    BY DEF StepsOn, StepOf, Following, Places, Contains, Constructing, RestartSteps
  <1>6. StepsOn(<<"register">>, "register", "register")
    BY DEF StepsOn, StepOf, Following, Places, Contains, Constructing, RestartSteps
  <1>7. StepsOn(Logging, "handle", "handle")
    BY DEF StepsOn, StepOf, Following, Places, Contains, Constructing, RestartSteps, Logging
  <1>8. StepsOn(<<"handled">>, "handled", "handled")
    BY DEF StepsOn, StepOf, Following, Places, Contains, Constructing, RestartSteps
  <1>9. StepsOn(ShuttingDown, "enter", "enter")
    BY DEF StepsOn, StepOf, Following, Places, Contains, Constructing, RestartSteps, ShuttingDown
  <1>10. StepsOn(<<"check", "close", "start", "wait", "detach", "clear", "leave">>,
                 "check", "check")
    BY DEF StepsOn, StepOf, Following, Places, Contains, Constructing, RestartSteps
  <1>11. StepsOn(<<"close", "start", "wait", "detach", "clear", "leave">>, "close", "close")
    BY DEF StepsOn, StepOf, Following, Places, Contains, Constructing, RestartSteps
  <1>12. StepsOn(<<"start", "wait", "detach", "clear", "leave">>, "start", "start")
    BY DEF StepsOn, StepOf, Following, Places, Contains, Constructing, RestartSteps
  <1>13. StepsOn(<<"wait", "detach", "clear", "leave">>, "wait", "wait")
    BY DEF StepsOn, StepOf, Following, Places, Contains, Constructing, RestartSteps
  <1>14. StepsOn(<<"detach", "clear", "leave">>, "detach", "detach")
    BY DEF StepsOn, StepOf, Following, Places, Contains, Constructing, RestartSteps
  <1>15. StepsOn(<<"clear", "leave">>, "clear", "clear")
    BY DEF StepsOn, StepOf, Following, Places, Contains, Constructing, RestartSteps
  <1>16. StepsOn(<<"leave">>, "leave", "leave")
    BY DEF StepsOn, StepOf, Following, Places, Contains, Constructing, RestartSteps
  <1>17. StepsOn(BoundedShutdown, "tracer", "tracer")
    BY DEF StepsOn, StepOf, Following, Places, Contains, Constructing, RestartSteps, BoundedShutdown
  <1>18. StepsOn(<<"meter", "set">>, "meter", "meter")
    BY DEF StepsOn, StepOf, Following, Places, Contains, Constructing, RestartSteps
  <1>19. StepsOn(<<"set">>, "set", "set")
    BY DEF StepsOn, StepOf, Following, Places, Contains, Constructing, RestartSteps
  <1>20. StepsOn(Restarting, "lock", "lock")
    BY DEF StepsOn, StepOf, Following, Places, Contains, Constructing, RestartSteps, Restarting
  <1>21. StepsOn(<<"diagnostics", "contexts", "relock", "delivery", "otel", "open">>,
                 "diagnostics", "diagnostics")
    BY DEF StepsOn, StepOf, Following, Places, Contains, Constructing, RestartSteps
  <1>22. StepsOn(<<"contexts", "relock", "delivery", "otel", "open">>, "contexts", "contexts")
    BY DEF StepsOn, StepOf, Following, Places, Contains, Constructing, RestartSteps
  <1>23. StepsOn(<<"relock", "delivery", "otel", "open">>, "relock", "relock")
    BY DEF StepsOn, StepOf, Following, Places, Contains, Constructing, RestartSteps
  <1>24. StepsOn(<<"delivery", "otel", "open">>, "redeliver", "delivery")
    BY DEF StepsOn, StepOf, Following, Places, Contains, Constructing, RestartSteps
  <1>25. StepsOn(<<"otel", "open">>, "reotel", "otel")
    BY DEF StepsOn, StepOf, Following, Places, Contains, Constructing, RestartSteps
  <1>26. StepsOn(<<"open">>, "open", "open")
    BY DEF StepsOn, StepOf, Following, Places, Contains, Constructing, RestartSteps
  <1> QED
    BY <1>1, <1>2, <1>3, <1>4, <1>5, <1>6, <1>7, <1>8, <1>9, <1>10, <1>11, <1>12, <1>13,
       <1>14, <1>15, <1>16, <1>17, <1>18, <1>19, <1>20, <1>21, <1>22, <1>23, <1>24, <1>25,
       <1>26

LEMMA PlaceTypes == Places \subseteq Seq(Steps)
  <1>1. Places \ {<<"deadline">> \o <<"detach", "clear", "leave">>} \subseteq Seq(Steps)
    BY TupleTypes DEF Steps
  <1>2. <<"detach", "clear", "leave">> \in Seq(Steps) /\ "deadline" \in Steps
    BY TupleTypes DEF Steps, Places
  <1>3. <<"deadline">> \o <<"detach", "clear", "leave">> \in Seq(Steps)
    BY <1>2, FrontFacts
  <1> QED
    BY <1>1, <1>3

\* What is left of a routine is told by the step that comes next.
LEMMA StepFacts ==
    ASSUME NEW s \in Places, s # <<>>
    PROVE  /\ StepOf(s) \in DOMAIN Following
           /\ StepsOn(s, StepOf(s), IF StepOf(s) = "redeliver" THEN "delivery"
                                    ELSE IF StepOf(s) = "reotel" THEN "otel"
                                    ELSE StepOf(s))
  <1>1. PICK step \in DOMAIN Following : 
             StepsOn(s, step, IF step = "redeliver" THEN "delivery"
                              ELSE IF step = "reotel" THEN "otel" ELSE step)
    BY EachPlace, DeadlineFacts DEF Places, Following
  <1>2. StepOf(s) = step
    BY <1>1 DEF StepsOn
  <1> QED
    BY <1>1, <1>2

\* What follows the wait.
LEMMA WaitPlace ==
    ASSUME NEW s \in Places, StepOf(s) = "wait"
    PROVE  Tail(s) = <<"detach", "clear", "leave">>
  <1>1. s \in {<<"wait", "detach", "clear", "leave">>}
    <2>1. ASSUME NEW p \in Places \ {<<"wait", "detach", "clear", "leave">>}
          PROVE  StepOf(p) # "wait"
      BY EachPlace, DeadlineFacts, RoutineFacts, ZenonT(60) DEF Places, StepsOn
    <2> QED
      BY <2>1, SMTT(60)
  <1>2. Tail(<<"wait", "detach", "clear", "leave">>) = <<"detach", "clear", "leave">>
    OBVIOUS
  <1> QED
    BY <1>1, <1>2
-------------------------------------------------------------------------------
(* Steps of a thread *)

\* Doing changes with steps.
LEMMA DoingFacts ==
    ASSUME steps \in [Threads -> Places], NEW t \in Threads, NEW s \in Places,
           steps' = [steps EXCEPT ![t] = s]
    PROVE  /\ steps' \in [Threads -> Places]
           /\ Doing' = [Doing EXCEPT ![t] = StepOf(s)]
           /\ Doing'[t] = StepOf(s)
           /\ \A u \in Threads \ {t} : Doing'[u] = Doing[u]
  BY DEF Doing

LEMMA AwayFacts ==
    ASSUME steps \in [Threads -> Places], NEW t \in Threads
    PROVE  /\ Doing[t] = "away" <=> steps[t] = <<>>
           /\ steps[t] # <<>> => Doing[t] \in DOMAIN Following
  <1>1. steps[t] = <<>> => Doing[t] = "away"
    BY RoutineFacts DEF Doing
  <1>2. steps[t] # <<>> => Doing[t] \in DOMAIN Following
    BY StepFacts DEF Doing
  <1>3. "away" \notin DOMAIN Following
    BY DEF Following
  <1> QED
    BY <1>1, <1>2, <1>3

\* A thread at a step is in no call, and about to do what the step says.
LEMMA AtStepFacts ==
    ASSUME steps \in [Threads -> Places], NEW t \in Threads, NEW s, AtStep(t, s)
    PROVE  /\ stack[t] = <<>> /\ steps[t] # <<>> /\ Tail(steps[t]) \in Places
           /\ Doing[t] \in DOMAIN Following
           /\ StepOf(Tail(steps[t])) = Following[Doing[t]]
           /\ s = IF Doing[t] = "redeliver" THEN "delivery"
                  ELSE IF Doing[t] = "reotel" THEN "otel" ELSE Doing[t]
  <1>1. stack[t] = <<>> /\ steps[t] # <<>> /\ Head(steps[t]) = s
    BY DEF AtStep, Idle
  <1>2. Doing[t] = StepOf(steps[t]) /\ steps[t] \in Places
    BY DEF Doing
  <1> QED
    BY <1>1, <1>2, StepFacts DEF StepsOn

LEMMA TakesFacts ==
    ASSUME steps \in [Threads -> Places], NEW t \in Threads, NEW s, Takes(t, s)
    PROVE  /\ stack[t] = <<>> /\ Doing[t] \in DOMAIN Following
           /\ s = IF Doing[t] = "redeliver" THEN "delivery"
                  ELSE IF Doing[t] = "reotel" THEN "otel" ELSE Doing[t]
           /\ steps' \in [Threads -> Places]
           /\ Doing' = [Doing EXCEPT ![t] = Following[Doing[t]]]
           /\ Doing'[t] = Following[Doing[t]]
           /\ \A u \in Threads \ {t} : Doing'[u] = Doing[u]
           /\ UNCHANGED identityVars
  <1>1. AtStep(t, s) /\ steps' = [steps EXCEPT ![t] = Tail(steps[t])] /\ UNCHANGED identityVars
    BY DEF Takes, Rest
  <1>2. /\ stack[t] = <<>> /\ Tail(steps[t]) \in Places
        /\ Doing[t] \in DOMAIN Following
        /\ StepOf(Tail(steps[t])) = Following[Doing[t]]
        /\ s = IF Doing[t] = "redeliver" THEN "delivery"
               ELSE IF Doing[t] = "reotel" THEN "otel" ELSE Doing[t]
    BY <1>1, AtStepFacts
  <1>3. /\ steps' \in [Threads -> Places]
        /\ Doing' = [Doing EXCEPT ![t] = StepOf(Tail(steps[t]))]
        /\ Doing'[t] = StepOf(Tail(steps[t]))
        /\ \A u \in Threads \ {t} : Doing'[u] = Doing[u]
    BY <1>1, <1>2, DoingFacts
  <1> QED
    BY <1>1, <1>2, <1>3

\* A failure that may be reported leaves the rest of Diagnostics alone.
Reported(t, o) ==
    /\ DiagInv'
    /\ UNCHANGED <<inherited, listening, counts, alive, lock>>
    /\ \A u \in Threads \ {t} : stack'[u] = stack[u]
    /\ \/ stack' = stack
       \/ t \in alive /\ stack'[t] = <<ReportCall(o)>>

LEMMA ReportedFacts ==
    ASSUME DiagInv, ~inherited, NEW t \in Threads, NEW o,
           MayFail(t, o) \/ Fails(t, o) \/ (o \in Operations /\ Report(t, o))
    PROVE  Reported(t, o)
  <1>1. CASE UNCHANGED diagVars
    <2>1. DiagInv'
      BY <1>1, StutterInv
    <2> QED
      BY <1>1, <2>1 DEF Reported, diagVars
  <1>2. CASE o \in Operations /\ Report(t, o)
    <2>1. DiagInv'
      BY <1>2, ReportInv
    <2>2. /\ t \in alive /\ stack' = [stack EXCEPT ![t] = <<ReportCall(o)>>]
          /\ UNCHANGED <<inherited, listening, counts, alive, lock>>
      BY <1>2 DEF Report, Enter
    <2>3. stack \in [Threads -> Seq(Calls)]
      BY DEF DiagInv, DiagTypeOK
    <2> QED
      BY <2>1, <2>2, <2>3 DEF Reported
  <1> QED
    BY <1>1, <1>2 DEF MayFail, Fails

LEMMA SameDiagnostics ==
    ASSUME DiagInv, UNCHANGED diagVars
    PROVE  DiagInv' /\ UNCHANGED <<inherited, listening, counts, alive, lock, stack>>
  BY StutterInv DEF diagVars

LEMMA SameIdentities ==
    ASSUME IdentityInv, UNCHANGED identityVars
    PROVE  IdentityInv' /\ UNCHANGED <<process, given>>
  BY DEF identityVars, IdentityInv, IdentityTypeOK, TableInv

\* Whoever is in a routine of a built runtime is in one that lives.
LEMMA LiveFacts ==
    ASSUME PlacesInv, BirthInv, RestartingInv, NEW t \in Threads,
           Doing[t] \notin {"away"} \cup Constructing \cup RestartSteps
    PROVE  Live
  <1>1. listening
    BY DEF BirthInv
  <1>2. ~inherited
    BY DEF RestartingInv, RestartSteps
  <1>3. ASSUME NEW u \in Threads, Doing[u] \in RestartSteps
        PROVE  FALSE
    <2>1. u # t /\ Alone(u)
      BY <1>3 DEF RestartingInv
    <2> QED
      BY <2>1 DEF Alone
  <1> QED
    BY <1>1, <1>2, <1>3 DEF Live

LEMMA ReadyFacts ==
    ASSUME PlacesInv, BirthInv
    PROVE  Ready <=> Live
  <1>1. \A t \in Threads : /\ Contains(steps[t], "open") <=> Doing[t] \in RestartSteps
                           /\ Contains(steps[t], "listener") <=> Doing[t] \in Constructing
    <2> SUFFICES ASSUME NEW t \in Threads
                 PROVE  /\ Contains(steps[t], "open") <=> Doing[t] \in RestartSteps
                        /\ Contains(steps[t], "listener") <=> Doing[t] \in Constructing
      OBVIOUS
    <2>1. steps[t] \in Places /\ Doing[t] = StepOf(steps[t])
      BY DEF PlacesInv, Doing
    <2>2. CASE steps[t] = <<>>
      <3>1. ~Contains(<<>>, "open") /\ ~Contains(<<>>, "listener")
        BY DEF Contains
      <3>2. Doing[t] = "away"
        BY <2>1, <2>2, RoutineFacts
      <3> QED
        BY <2>2, <3>1, <3>2 DEF RestartSteps, Constructing
    <2>3. CASE steps[t] # <<>>
      BY <2>1, <2>3, StepFacts DEF StepsOn
    <2> QED
      BY <2>2, <2>3
  <1>2. listening => \A t \in Threads : Doing[t] \notin Constructing
    BY DEF BirthInv
  <1> QED
    BY <1>1, <1>2 DEF Ready, Live
-------------------------------------------------------------------------------
(* Steps inside Diagnostics *)

LEMMA FrontNames ==
    ASSUME NEW s \in Seq(Calls), NEW x \in Calls
    PROVE  NamesIn(<<x>> \o s) = {x.name} \cup NamesIn(s)
  <1> DEFINE l == <<x>> \o s
  <1>1. /\ Len(l) = Len(s) + 1 /\ Len(s) \in Nat
        /\ l[1] = x /\ \A i \in 1..Len(s) : l[i + 1] = s[i]
    BY PushFacts, LenProperties
  <1> HIDE DEF l
  <1>2. ASSUME NEW i \in 1..Len(l) PROVE l[i].name \in {x.name} \cup NamesIn(s)
    <2>1. CASE i = 1
      BY <1>1, <2>1
    <2>2. CASE i # 1
      <3>1. i - 1 \in 1..Len(s) /\ i = (i - 1) + 1
        BY <1>1, <2>2
      <3> QED
        BY <1>1, <3>1, ZenonT(60) DEF NamesIn
    <2> QED
      BY <2>1, <2>2
  <1>3. x.name \in NamesIn(l)
    BY <1>1 DEF NamesIn
  <1>4. ASSUME NEW i \in 1..Len(s) PROVE s[i].name \in NamesIn(l)
    <2>1. i + 1 \in 1..Len(l)
      BY <1>1
    <2> QED
      BY <1>1, <2>1 DEF NamesIn
  <1>5. NamesIn(l) = {x.name} \cup NamesIn(s)
    BY <1>2, <1>3, <1>4 DEF NamesIn
  <1> QED
    BY <1>5 DEF l

\* The innermost call and those around it.
LEMMA TopNames ==
    ASSUME DiagInv, NEW t \in Threads, stack[t] # <<>>
    PROVE  /\ Top(t) \in Calls /\ Tail(stack[t]) \in Seq(Calls)
           /\ NamesIn(stack[t]) = {Top(t).name} \cup NamesIn(Tail(stack[t]))
  <1>1. stack[t] \in Seq(Calls)
    BY DEF DiagInv, DiagTypeOK
  <1>2. Top(t) \in Calls /\ Tail(stack[t]) \in Seq(Calls)
        /\ stack[t] = <<Top(t)>> \o Tail(stack[t])
    BY <1>1, SplitFacts DEF Top
  <1> QED
    BY <1>2, FrontNames

LEMMA DiagStepFacts ==
    ASSUME DiagInv, NEW t \in Threads, DiagStep(t)
    PROVE  /\ stack[t] # <<>> /\ UNCHANGED <<alive, inherited, listening>>
           /\ \A u \in Threads \ {t} : stack'[u] = stack[u]
           /\ Counted => Counted'
           /\ Pending(t) => Pending(t)' \/ Counted'
           /\ NamesIn(stack'[t]) \subseteq NamesIn(stack[t]) \cup {Failure(MetricRecord)}
  <1>1. /\ stack[t] # <<>> /\ UNCHANGED <<alive, inherited, listening>>
        /\ stack' = [stack EXCEPT ![t] = stack'[t]]
    <2>1. stack \in [Threads -> Seq(Calls)]
      BY DEF DiagInv, DiagTypeOK
    <2> QED
      BY <2>1 DEF DiagStep, LockAndRead, Add, Listen, ListenerFails, ReadClock,
         LockAndLook, Decide, WriteLine, At, Idle, Becomes, Return
  <1>2. /\ Top(t) \in Calls /\ Tail(stack[t]) \in Seq(Calls)
        /\ NamesIn(stack[t]) = {Top(t).name} \cup NamesIn(Tail(stack[t]))
        /\ stack \in [Threads -> Seq(Calls)]
        /\ counts \in [Names -> Nat]
    BY <1>1, TopNames DEF DiagInv, DiagTypeOK
  <1>3. \A u \in Threads \ {t} : stack'[u] = stack[u]
    BY <1>1, <1>2
  <1> DEFINE r == Tail(stack[t])
  <1>4. ASSUME NEW c \in Calls, stack'[t] = <<c>> \o r, c.name = Top(t).name
        PROVE  /\ NamesIn(stack'[t]) \subseteq NamesIn(stack[t])
               /\ stack'[t] # <<>> /\ Head(stack'[t]) = c
    <2>1. r \in Seq(Calls)
      BY <1>2
    <2> HIDE DEF r
    <2>2. NamesIn(<<c>> \o r) = {c.name} \cup NamesIn(r)
      BY <2>1, FrontNames
    <2>3. <<c>> \o r # <<>> /\ Head(<<c>> \o r) = c
      BY <2>1, FrontFacts
    <2>4. NamesIn(stack[t]) = {Top(t).name} \cup NamesIn(r)
      BY <1>2 DEF r
    <2> QED
      BY <1>4, <2>2, <2>3, <2>4
  <1>5. CASE LockAndRead(t)
    <2> DEFINE c == [Top(t) EXCEPT !.pc = "add", !.seen = counts[Top(t).name]]
    <2>1. c \in Calls /\ c.name = Top(t).name /\ c.pc = "add"
      BY <1>2 DEF Calls, CallPc
    <2>2. stack'[t] = <<c>> \o r /\ counts' = counts
      BY <1>2, <1>5 DEF LockAndRead, Becomes
    <2> HIDE DEF c
    <2>3. /\ NamesIn(stack'[t]) \subseteq NamesIn(stack[t])
          /\ stack'[t] # <<>> /\ Head(stack'[t]) = c
      BY <1>4, <2>1, <2>2
    <2>4. Pending(t) => Pending(t)'
      BY <2>1, <2>3 DEF Pending, Top
    <2> QED
      BY <1>1, <1>3, <2>2, <2>3, <2>4 DEF Counted
  <1>6. CASE Add(t)
    <2> DEFINE c == [Top(t) EXCEPT !.pc = "listen"]
    <2>1. c \in Calls /\ c.name = Top(t).name
      BY <1>2 DEF Calls, CallPc
    <2>2. /\ stack'[t] = <<c>> \o r
          /\ counts' = [counts EXCEPT ![Top(t).name] = Top(t).seen + 1]
          /\ Top(t).pc = "add"
      BY <1>2, <1>6 DEF Add, Becomes, At
    <2> HIDE DEF c
    <2>3. NamesIn(stack'[t]) \subseteq NamesIn(stack[t])
      BY <1>4, <2>1, <2>2
    <2>4. Top(t).seen \in Nat /\ Top(t).name \in Names
      <3>1. Top(t).seen = counts[Top(t).name]
        BY <1>1, <2>2 DEF DiagInv, TopInv
      <3> QED
        BY <1>2, <3>1 DEF Calls
    <2>5. counts'[Top(t).name] > 0
      BY <1>2, <2>2, <2>4
    <2>6. Counted => Counted'
      <3>1. "logging.handler_remove" \in Operations => Removal \in Names
        BY NameFacts DEF Removal
      <3> QED
        BY <1>2, <2>2, <2>5, <3>1 DEF Counted
    <2>7. Pending(t) => Counted'
      <3> SUFFICES ASSUME Pending(t) PROVE Counted'
        OBVIOUS
      <3>1. Top(t).name = Removal
        BY DEF Pending
      <3>2. "logging.handler_remove" \in Operations
        BY <2>4, <3>1 DEF Removal, Failure, Names
      <3> QED
        BY <2>5, <3>1, <3>2 DEF Counted, Removal, Failure
    <2> QED
      BY <1>1, <1>3, <2>3, <2>6, <2>7
  <1>7. CASE ReadClock(t) \/ LockAndLook(t)
    <2> DEFINE c == IF ReadClock(t) THEN [Top(t) EXCEPT !.pc = "limit", !.now = clock]
                    ELSE [Top(t) EXCEPT !.pc = "decide", !.seen = last[Top(t).op]]
    <2>1. /\ Top(t).pc \in {"clock", "limit"}
          /\ stack'[t] = <<c>> \o r /\ counts' = counts
      BY <1>2, <1>7 DEF ReadClock, LockAndLook, Becomes, At
    <2>2. c \in Calls /\ c.name = Top(t).name
      <3>1. CASE ReadClock(t)
        BY <1>2, <3>1 DEF Calls, CallPc, DiagInv, DiagTypeOK
      <3>2. CASE ~ReadClock(t)
        <4>1. Top(t).pc = "limit"
          BY <1>7, <3>2 DEF LockAndLook, At
        <4>2. Top(t).op \in Operations
          BY <1>1, <1>2, <4>1 DEF DiagInv, TopInv, CallInv, Calls
        <4>3. last[Top(t).op] \in Nat \cup {None}
          BY <4>2 DEF DiagInv, DiagTypeOK
        <4> QED
          BY <1>2, <3>2, <4>3 DEF Calls, CallPc
      <3> QED
        BY <3>1, <3>2
    <2> HIDE DEF c
    <2> QED
      BY <1>1, <1>3, <1>4, <2>1, <2>2 DEF Counted, Pending
  <1>8. CASE Decide(t)
    <2>1. Top(t).pc = "decide" /\ counts' = counts
      BY <1>8 DEF Decide, At
    <2>2. CASE Return(t)
      <3>1. stack'[t] = r
        BY <1>2, <2>2 DEF Return
      <3> QED
        BY <1>1, <1>2, <1>3, <2>1, <3>1 DEF Counted, Pending
    <2>3. CASE ~Return(t)
      <3> DEFINE l == lines.admitted[Top(t).op] + 1
                 c == [Top(t) EXCEPT !.pc = "print", !.now = 0, !.seen = None, !.line = l]
      <3>1. Top(t).op \in Operations
        BY <1>1, <1>2, <2>1 DEF DiagInv, TopInv, CallInv, Calls
      <3>2. l \in Nat
        BY <3>1 DEF DiagInv, DiagTypeOK, Lines
      <3>3. stack'[t] = <<c>> \o r
        BY <1>2, <1>8, <2>3 DEF Decide, Becomes
      <3> HIDE DEF l
      <3>4. c \in Calls /\ c.name = Top(t).name
        BY <1>2, <3>2 DEF Calls, CallPc
      <3> HIDE DEF c
      <3> QED
        BY <1>1, <1>3, <1>4, <2>1, <3>3, <3>4 DEF Counted, Pending
    <2> QED
      BY <2>2, <2>3
  <1>10. CASE WriteLine(t)
    <2>1. Top(t).pc = "print" /\ stack'[t] = r /\ counts' = counts
      BY <1>2, <1>10 DEF WriteLine, Return, At
    <2> QED
      BY <1>1, <1>2, <1>3, <2>1 DEF Counted, Pending
  <1>9. CASE Listen(t) \/ ListenerFails(t)
    <2>1. Top(t).pc = "listen" /\ counts' = counts
      BY <1>9 DEF Listen, ListenerFails, At
    <2>2. /\ AfterListener(t) \in Seq(Calls)
          /\ NamesIn(AfterListener(t)) \subseteq NamesIn(stack[t])
      <3> DEFINE c == [Top(t) EXCEPT !.pc = "clock"]
      <3>1. c \in Calls /\ c.name = Top(t).name
        BY <1>2 DEF Calls, CallPc
      <3>2. AfterListener(t) = r \/ AfterListener(t) = <<c>> \o r
        BY DEF AfterListener
      <3> HIDE DEF c
      <3>3. <<c>> \o r \in Seq(Calls) /\ NamesIn(<<c>> \o r) = {c.name} \cup NamesIn(r)
        BY <1>2, <3>1, FrontFacts, FrontNames
      <3> QED
        BY <1>2, <3>1, <3>2, <3>3
    <2>3. \/ stack'[t] = AfterListener(t)
          \/ stack'[t] = <<ReportCall(MetricRecord)>> \o AfterListener(t)
      BY <1>2, <1>9 DEF Listen, ListenerFails
    <2>4. /\ ReportCall(MetricRecord) \in Calls
          /\ ReportCall(MetricRecord).name = Failure(MetricRecord)
      BY NameFacts, DiagnosticsAssumption DEF ReportCall, Call, Calls, CallPc
    <2>5. NamesIn(stack'[t]) \subseteq NamesIn(stack[t]) \cup {Failure(MetricRecord)}
      BY <2>2, <2>3, <2>4, FrontNames
    <2> QED
      BY <1>1, <1>3, <2>1, <2>5 DEF Counted, Pending
  <1> QED
    BY <1>5, <1>6, <1>7, <1>8, <1>9, <1>10 DEF DiagStep
-------------------------------------------------------------------------------
(* What a step leaves alone *)

\* Type correctness of the parts.
LEMMA TypesKept ==
    ASSUME DiagInv', IdentityInv', steps' \in [Threads -> Places],
           self' \in Attributes, logger' \in HandlerState, history' \in Memory
    PROVE  LifecycleTypeOK'
  <1>1. steps' \in [Threads -> Seq(Steps)]
    BY PlaceTypes
  <1> QED
    BY <1>1 DEF LifecycleTypeOK, DiagInv, IdentityInv

\* A step of a living runtime that neither constructs nor restarts it.
LiveStep ==
    /\ Live
    /\ UNCHANGED <<listening, inherited, process>>
    /\ self'.instance = self.instance /\ self'.contexts = self.contexts
    /\ self'.delivery = self.delivery /\ self'.otel = self.otel
    /\ history'.touched = {}
    /\ \A t \in Threads : Doing'[t] \notin Constructing \cup RestartSteps

LEMMA LiveKept ==
    ASSUME RuntimeInv, LiveStep
    PROVE  BirthInv' /\ RestartingInv' /\ OwnInv' /\ Live'
  <1>1. /\ listening' /\ ~inherited' /\ listening /\ ~inherited
        /\ process' = process
        /\ \A t \in Threads : Doing'[t] \notin Constructing \cup RestartSteps
    BY DEF LiveStep, Live
  <1>2. self.instance # NoIdentity /\ self'.instance # NoIdentity
    BY <1>1 DEF RuntimeInv, BirthInv, LiveStep
  <1>3. BirthInv' /\ RestartingInv' /\ Live'
    BY <1>1, <1>2 DEF BirthInv, RestartingInv, Live
  <1>4. self'.contexts = process' /\ self'.delivery = process' /\ self'.otel = process'
    BY <1>1 DEF LiveStep, RuntimeInv, OwnInv
  <1>5. OwnInv'
    BY <1>4 DEF OwnInv, LiveStep
  <1> QED
    BY <1>3, <1>5

\* What is known of the failures to remove a handler.
StillKnown ==
    /\ Counted => Counted'
    /\ \A t \in Threads : Pending(t) => Pending(t)' \/ Counted'

LEMMA KnownAtStep ==
    ASSUME NEW t \in Threads, stack[t] = <<>>, counts' = counts,
           \A u \in Threads \ {t} : stack'[u] = stack[u]
    PROVE  StillKnown
  BY DEF StillKnown, Counted, Pending, Top

LEMMA KnownReported ==
    ASSUME NEW t \in Threads, stack[t] = <<>>, NEW o, Reported(t, o)
    PROVE  StillKnown
  BY KnownAtStep DEF Reported

\* The part of shutdown in the attributes, the handlers and the history.
ShutdownParts ==
    UNCHANGED <<self.lock, self.closed, history.returned, history.closes,
                history.shutdowns, history.installed, logger.attached,
                logger.registered, logger.cursor, logger.made>>

\* A step outside shutdown and its daemon leaves what they have closed.
LEMMA ClosedKept ==
    ASSUME RuntimeInv, LiveStep, Live', NEW t \in Threads,
           UNCHANGED <<self.lock, self.closed, history.returned, history.closes,
                       history.shutdowns>>,
           \A u \in Threads \ {t} : Doing'[u] = Doing[u],
           Doing[t] \notin Section, Doing'[t] \notin Section \cup {"tracer"},
           t = Daemon => Doing[t] # "away"
    PROVE  LockInv' /\ ClosedInv'
  <1>1. LockInv'
    BY DEF RuntimeInv, LockInv
  <1>2. ClosedInv'
    <2>1. Doing[Daemon] = "away" => Doing'[Daemon] = "away"
      BY LifecycleAssumption
    <2>2. Doing'[Daemon] = "tracer" => Doing[Daemon] = "tracer"
      BY LifecycleAssumption
    <2>3. (\A u \in Threads : Doing'[u] # "close") => \A u \in Threads : Doing[u] # "close"
      BY DEF Section
    <2>4. \A u \in Threads : /\ Doing'[u] \in Section => Doing'[u] = Doing[u]
                             /\ Doing'[u] \in {"close", "start"} => Doing'[u] \in Section
                             /\ Doing'[u] \in Closing => Doing'[u] \in Section
      BY DEF Section, Closing
    <2> QED
      BY <2>1, <2>2, <2>3, <2>4 DEF RuntimeInv, ClosedInv, LiveStep
  <1> QED
    BY <1>1, <1>2

\* The handlers and what is still to be removed are left as well.
LEMMA OutsideKept ==
    ASSUME RuntimeInv, LiveStep, Live', StillKnown, ShutdownParts, NEW t \in Threads,
           \A u \in Threads \ {t} : Doing'[u] = Doing[u] /\ logger'.mine[u] = logger.mine[u],
           Doing[t] \notin Section, Doing'[t] \notin Section \cup {"tracer", "register"},
           t = Daemon => Doing[t] # "away"
    PROVE  LockInv' /\ ClosedInv' /\ HandlersInv' /\ RemovalInv'
  <1>1. LockInv' /\ ClosedInv'
    BY ClosedKept DEF ShutdownParts
  <1>3. HandlersInv'
    <2>1. \A u \in Threads : Doing'[u] = "register" =>
             Doing[u] = "register" /\ logger'.mine[u] = logger.mine[u]
      OBVIOUS
    <2>2. (\A u \in Threads : Doing'[u] \notin {"detach", "clear"})
             => \A u \in Threads : Doing[u] \notin {"detach", "clear"}
      BY DEF Section
    <2> QED
      BY <2>1, <2>2 DEF RuntimeInv, HandlersInv, ShutdownParts
  <1>4. RemovalInv'
    <2>1. \A u \in Threads : Doing'[u] \in Closing => Doing[u] \in Closing
      BY DEF Section, Closing
    <2>2. (\A u \in Threads : Doing'[u] \notin Closing)
            => \A u \in Threads : Doing[u] \notin Closing
      BY DEF Section, Closing
    <2>3. \A h : Ahead(h) => Ahead(h)'
      BY DEF Ahead, ShutdownParts
    <2> QED
      BY <2>1, <2>2, <2>3 DEF RuntimeInv, RemovalInv, ShutdownParts, StillKnown, LiveStep
  <1> QED
    BY <1>1, <1>3, <1>4

\* A step in which no thread goes on in its routine.
LEMMA InsideKept ==
    ASSUME RuntimeInv, StillKnown, ShutdownParts, Live' => Live, Doing' = Doing,
           logger'.mine = logger.mine
    PROVE  LockInv' /\ ClosedInv' /\ HandlersInv' /\ RemovalInv'
  <1>1. LockInv'
    BY DEF RuntimeInv, LockInv, ShutdownParts
  <1>2. ClosedInv'
    BY DEF RuntimeInv, ClosedInv, ShutdownParts
  <1>3. HandlersInv'
    BY DEF RuntimeInv, HandlersInv, ShutdownParts
  <1>4. RemovalInv'
    <2>1. \A h : Ahead(h) => Ahead(h)'
      BY DEF Ahead, ShutdownParts
    <2> QED
      BY <2>1 DEF RuntimeInv, RemovalInv, ShutdownParts, StillKnown
  <1> QED
    BY <1>1, <1>2, <1>3, <1>4

LEMMA InDiagnosticsInv ==
    ASSUME RuntimeInv, NEW t \in Threads, InDiagnostics(t)
    PROVE  RuntimeInv'
  <1>1. /\ DiagStep(t) /\ UNCHANGED <<identityVars, steps, self, logger>>
        /\ history' = IF At(t, "listen") /\ listening /\ Forwarded(Top(t).name)
                         /\ self.otel # process
                      THEN [history EXCEPT !.touched = @ \cup {process}] ELSE history
    BY DEF InDiagnostics
  <1>2. DiagInv /\ IdentityInv /\ DiagInv' /\ IdentityInv' /\ process' = process
    BY <1>1, DiagStepInv, SameIdentities DEF RuntimeInv
  <1>3. /\ stack[t] # <<>> /\ UNCHANGED <<alive, inherited, listening>>
        /\ \A u \in Threads \ {t} : stack'[u] = stack[u]
        /\ Counted => Counted'
        /\ Pending(t) => Pending(t)' \/ Counted'
        /\ NamesIn(stack'[t]) \subseteq NamesIn(stack[t]) \cup {Failure(MetricRecord)}
    BY <1>1, <1>2, DiagStepFacts
  <1>4. StillKnown
    BY <1>3 DEF StillKnown, Pending, Top
  <1>5. Doing' = Doing /\ (Live' => Live)
    BY <1>1, <1>3 DEF Doing, Live
  <1>6. history' = history
    <2>1. self.otel # process => ~Forwarded(Top(t).name)
      <3>1. Top(t).name \in NamesIn(stack[t])
        BY <1>2, <1>3, TopNames
      <3> QED
        BY <3>1 DEF RuntimeInv, OwnInv
    <2> QED
      BY <1>1, <2>1
  <1>7. LockInv' /\ ClosedInv' /\ HandlersInv' /\ RemovalInv'
    BY <1>1, <1>4, <1>5, <1>6, InsideKept DEF ShutdownParts
  <1>8. \A u \in Threads : Alone(u) => Alone(u)'
    BY <1>3, <1>5 DEF Alone
  <1>9. BirthInv'
    <2>1. ~(\A u \in Threads : Doing[u] = "away" /\ stack[u] = <<>>)
      BY <1>3
    <2>2. self.instance # NoIdentity
      BY <2>1 DEF RuntimeInv, BirthInv
    <2> QED
      BY <1>1, <1>2, <1>3, <1>5, <1>8, <2>2 DEF RuntimeInv, BirthInv
  <1>10. RestartingInv'
    BY <1>1, <1>2, <1>3, <1>5, <1>6, <1>8 DEF RuntimeInv, RestartingInv
  <1>11. OwnInv'
    <2>1. ~Forwarded(Failure(MetricRecord))
      BY DiagnosticsAssumption DEF Forwarded, Failure
    <2> QED
      BY <1>1, <1>2, <1>3, <1>5, <1>6, <2>1 DEF RuntimeInv, OwnInv
  <1>12. PlacesInv'
    BY <1>1, <1>5 DEF RuntimeInv, PlacesInv
  <1>13. LifecycleTypeOK'
    BY <1>1, <1>2, <1>6, <1>12, TypesKept DEF RuntimeInv, LifecycleTypeOK, PlacesInv
  <1> QED
    BY <1>2, <1>7, <1>9, <1>10, <1>11, <1>12, <1>13 DEF RuntimeInv
-------------------------------------------------------------------------------
(* Records, handlers and what else goes on in a living runtime *)

\* The whole of a step outside shutdown.
LEMMA OutsideInv ==
    ASSUME RuntimeInv, Live, NEW t \in Threads, DiagInv', IdentityInv', StillKnown,
           UNCHANGED <<process, listening, inherited, self>>,
           history' \in Memory, logger' \in HandlerState, ShutdownParts,
           history'.touched = history.touched,
           steps' \in [Threads -> Places],
           \A u \in Threads \ {t} : Doing'[u] = Doing[u] /\ logger'.mine[u] = logger.mine[u],
           Doing[t] \notin Section,
           Doing'[t] \notin Section \cup {"tracer", "register"} \cup Constructing \cup RestartSteps,
           IF t = Daemon THEN Doing[t] # "away" /\ Doing'[t] \in Daemonic \cup {"away"}
           ELSE Doing'[t] \notin Daemonic
    PROVE  RuntimeInv'
  <1>1. PlacesInv'
    BY LifecycleAssumption DEF RuntimeInv, PlacesInv
  <1>2. \A u \in Threads : Doing[u] \notin Constructing \cup RestartSteps
    BY DEF Live, RuntimeInv, BirthInv
  <1>3. LiveStep
    BY <1>2 DEF LiveStep, RuntimeInv, OwnInv
  <1>4. BirthInv' /\ RestartingInv' /\ OwnInv' /\ Live'
    BY <1>3, LiveKept
  <1>5. LockInv' /\ ClosedInv' /\ HandlersInv' /\ RemovalInv'
    BY <1>3, <1>4, OutsideKept
  <1>6. LifecycleTypeOK'
    BY TypesKept DEF RuntimeInv, LifecycleTypeOK
  <1> QED
    BY <1>1, <1>4, <1>5, <1>6 DEF RuntimeInv

\* A call of the runtime begins in one that is ready.
LEMMA BeginsFacts ==
    ASSUME RuntimeInv, NEW t \in Callers, NEW routine \in Places, Begins(t, routine)
    PROVE  /\ Live /\ t \in Threads /\ t # Daemon /\ Doing[t] = "away"
           /\ history' \in Memory /\ history' = [history EXCEPT !.routines = history.routines + 1]
           /\ UNCHANGED <<self>>
           /\ DiagInv' /\ IdentityInv' /\ StillKnown
           /\ UNCHANGED <<process, listening, inherited>>
           /\ steps' \in [Threads -> Places] /\ Doing'[t] = StepOf(routine)
           /\ \A u \in Threads \ {t} : Doing'[u] = Doing[u]
  <1>1. /\ Away(t) /\ Ready /\ history.routines < MaxRoutines
        /\ history' = [history EXCEPT !.routines = history.routines + 1]
        /\ steps' = [steps EXCEPT ![t] = routine]
        /\ UNCHANGED <<diagVars, identityVars, self>>
    BY DEF Begins, Rest
  <1>2. /\ t \in Threads /\ t # Daemon /\ Live /\ Doing[t] = "away" /\ stack[t] = <<>>
        /\ steps \in [Threads -> Places]
    BY <1>1, LifecycleAssumption, ReadyFacts, AwayFacts
       DEF RuntimeInv, PlacesInv, Away, Idle
  <1>3. history' \in Memory
    <2>1. history \in Memory /\ history.routines + 1 \in 0..MaxRoutines
      BY <1>1, LifecycleAssumption, SMTT(60) DEF RuntimeInv, LifecycleTypeOK, Memory
    <2> QED
      BY <1>1, <2>1 DEF Memory
  <1>4. DiagInv' /\ UNCHANGED <<inherited, listening, counts, stack>>
    BY <1>1, SameDiagnostics DEF RuntimeInv
  <1>5. IdentityInv' /\ process' = process
    BY <1>1, SameIdentities DEF RuntimeInv
  <1>6. StillKnown
    BY <1>4 DEF StillKnown, Counted, Pending, Top
  <1>7. /\ steps' \in [Threads -> Places] /\ Doing'[t] = StepOf(routine)
        /\ \A u \in Threads \ {t} : Doing'[u] = Doing[u]
    BY <1>1, <1>2, DoingFacts
  <1> QED
    BY <1>1, <1>2, <1>3, <1>4, <1>5, <1>6, <1>7

LEMMA BeginInv ==
    ASSUME RuntimeInv, NEW t \in Callers,
           Begin(t, Instrumenting) \/ Begin(t, ShuttingDown)
    PROVE  RuntimeInv'
  <1>1. PICK routine \in {Instrumenting, ShuttingDown} : Begin(t, routine)
    OBVIOUS
  <1>2. routine \in Places /\ StepOf(routine) \in {"scan", "enter"}
    BY RoutineFacts
  <1>3. Begins(t, routine) /\ logger' = logger
    BY <1>1 DEF Begin
  <1>4. /\ Live /\ t \in Threads /\ t # Daemon /\ Doing[t] = "away"
        /\ history' \in Memory /\ history' = [history EXCEPT !.routines = history.routines + 1]
        /\ UNCHANGED <<self>>
        /\ DiagInv' /\ IdentityInv' /\ StillKnown
        /\ UNCHANGED <<process, listening, inherited>>
        /\ steps' \in [Threads -> Places] /\ Doing'[t] = StepOf(routine)
        /\ \A u \in Threads \ {t} : Doing'[u] = Doing[u]
    BY <1>2, <1>3, BeginsFacts
  <1>5. logger' \in HandlerState /\ history \in Memory
    BY <1>3 DEF RuntimeInv, LifecycleTypeOK
  <1>6. ShutdownParts /\ history'.touched = history.touched
    BY <1>3, <1>4, <1>5 DEF ShutdownParts, Memory
  <1>7. /\ Doing[t] \notin Section
        /\ Doing'[t] \notin Section \cup {"tracer", "register"} \cup Constructing \cup RestartSteps
        /\ Doing'[t] \notin Daemonic
    BY <1>2, <1>4 DEF Section, Constructing, RestartSteps, Daemonic
  <1>8. \A u \in Threads \ {t} : logger'.mine[u] = logger.mine[u]
    BY <1>3
  <1> QED
    BY <1>4, <1>5, <1>6, <1>7, <1>8, OutsideInv

LEMMA LogInv ==
    ASSUME RuntimeInv, NEW t \in Callers, Log(t)
    PROVE  RuntimeInv'
  <1>1. Logging \in Places /\ StepOf(Logging) = "handle"
    BY RoutineFacts
  <1>2. Begins(t, Logging)
    BY DEF Log
  <1>3. PICK h \in logger.attached : logger' = [logger EXCEPT !.mine[t] = h]
    BY DEF Log
  <1>4. /\ Live /\ t \in Threads /\ t # Daemon /\ Doing[t] = "away"
        /\ history' \in Memory /\ history' = [history EXCEPT !.routines = history.routines + 1]
        /\ UNCHANGED <<self>>
        /\ DiagInv' /\ IdentityInv' /\ StillKnown
        /\ UNCHANGED <<process, listening, inherited>>
        /\ steps' \in [Threads -> Places] /\ Doing'[t] = StepOf(Logging)
        /\ \A u \in Threads \ {t} : Doing'[u] = Doing[u]
    BY <1>1, <1>2, BeginsFacts
  <1>5. logger \in HandlerState /\ history \in Memory
    BY DEF RuntimeInv, LifecycleTypeOK
  <1>6. /\ logger' \in HandlerState
        /\ \A u \in Threads \ {t} : logger'.mine[u] = logger.mine[u]
        /\ UNCHANGED <<logger.attached, logger.registered, logger.cursor, logger.made>>
    <2>1. h \in 0..MaxHandlers
      BY <1>5, LifecycleAssumption DEF HandlerState, Handlers
    <2> QED
      BY <1>3, <1>5, <2>1 DEF HandlerState
  <1>7. ShutdownParts /\ history'.touched = history.touched
    BY <1>4, <1>5, <1>6 DEF ShutdownParts, Memory
  <1>8. /\ Doing[t] \notin Section
        /\ Doing'[t] \notin Section \cup {"tracer", "register"} \cup Constructing \cup RestartSteps
        /\ Doing'[t] \notin Daemonic
    BY <1>1, <1>4 DEF Section, Constructing, RestartSteps, Daemonic
  <1> QED
    BY <1>4, <1>6, <1>7, <1>8, OutsideInv

LEMMA WorkInv ==
    ASSUME RuntimeInv, NEW t \in Callers, Work(t)
    PROVE  RuntimeInv'
  <1>1. /\ Away(t) /\ Ready /\ history.routines < MaxRoutines
        /\ history' = [history EXCEPT !.routines = history.routines + 1]
        /\ UNCHANGED <<identityVars, steps, self, logger>>
    BY DEF Work
  <1>2. PICK c \in Counters : Increment(t, c)
    BY DEF Work
  <1>3. /\ t \in Threads /\ t # Daemon /\ Live /\ Doing[t] = "away" /\ stack[t] = <<>>
        /\ steps \in [Threads -> Places]
    BY <1>1, LifecycleAssumption, ReadyFacts, AwayFacts
       DEF RuntimeInv, PlacesInv, Away, Idle
  <1>4. history \in Memory /\ history' \in Memory
    <2>1. history \in Memory /\ history.routines + 1 \in 0..MaxRoutines
      BY <1>1, LifecycleAssumption, SMTT(60) DEF RuntimeInv, LifecycleTypeOK, Memory
    <2> QED
      BY <1>1, <2>1 DEF Memory
  <1>5. DiagInv'
    BY <1>2, <1>3, IncrementInv DEF RuntimeInv, Live
  <1>6. /\ UNCHANGED <<inherited, listening, counts>>
        /\ \A u \in Threads \ {t} : stack'[u] = stack[u]
    BY <1>2 DEF Increment, Enter, RuntimeInv, DiagInv, DiagTypeOK
  <1>7. StillKnown
    BY <1>3, <1>6, KnownAtStep
  <1>8. IdentityInv' /\ process' = process
    BY <1>1, SameIdentities DEF RuntimeInv
  <1>9. Doing' = Doing /\ logger' \in HandlerState
    BY <1>1 DEF Doing, RuntimeInv, LifecycleTypeOK
  <1>10. ShutdownParts /\ history'.touched = history.touched
    BY <1>1, <1>4 DEF ShutdownParts, Memory
  <1>11. /\ Doing[t] \notin Section
         /\ Doing'[t] \notin Section \cup {"tracer", "register"} \cup Constructing \cup RestartSteps
         /\ Doing'[t] \notin Daemonic
    BY <1>3, <1>9 DEF Section, Constructing, RestartSteps, Daemonic
  <1> QED
    BY <1>1, <1>3, <1>4, <1>5, <1>6, <1>7, <1>8, <1>9, <1>10, <1>11, OutsideInv

\* A thread at a step that neither constructs nor restarts the runtime.
LEMMA LivingStep ==
    ASSUME RuntimeInv, NEW t \in Threads, NEW s, AtStep(t, s),
           s \notin {"delivery", "otel"} \cup Constructing \cup RestartSteps
    PROVE  /\ Live /\ Doing[t] = s /\ stack[t] = <<>> /\ ~inherited
           /\ steps \in [Threads -> Places]
           /\ Tail(steps[t]) \in Places /\ StepOf(Tail(steps[t])) = Following[s]
           /\ s \in DOMAIN Following
  <1>1. steps \in [Threads -> Places]
    BY DEF RuntimeInv, PlacesInv
  <1>2. /\ stack[t] = <<>> /\ Tail(steps[t]) \in Places
        /\ Doing[t] \in DOMAIN Following
        /\ StepOf(Tail(steps[t])) = Following[Doing[t]]
        /\ s = IF Doing[t] = "redeliver" THEN "delivery"
               ELSE IF Doing[t] = "reotel" THEN "otel" ELSE Doing[t]
    BY <1>1, AtStepFacts
  <1>3. Doing[t] = s /\ "away" \notin DOMAIN Following
    BY <1>2 DEF Following
  <1>4. Live
    BY <1>2, <1>3, LiveFacts DEF RuntimeInv
  <1> QED
    BY <1>1, <1>2, <1>3, <1>4 DEF Live

LEMMA ScanInv ==
    ASSUME RuntimeInv, NEW t \in Callers, Scan(t)
    PROVE  RuntimeInv'
  <1> DEFINE r == IF logger.attached = {} THEN Tail(steps[t]) ELSE <<>>
  <1>1. /\ AtStep(t, "scan") /\ steps' = [steps EXCEPT ![t] = r]
        /\ UNCHANGED <<diagVars, identityVars, self, logger, history>>
    BY DEF Scan, Rest, Nothing
  <1>2. t \in Threads /\ t # Daemon
    BY LifecycleAssumption
  <1>3. /\ Live /\ Doing[t] = "scan" /\ stack[t] = <<>>
        /\ steps \in [Threads -> Places]
        /\ Tail(steps[t]) \in Places /\ StepOf(Tail(steps[t])) = "attach"
    BY <1>1, <1>2, LivingStep DEF Constructing, RestartSteps, Following
  <1>4. r \in Places /\ StepOf(r) \in {"attach", "away"}
    BY <1>3, RoutineFacts
  <1> HIDE DEF r
  <1>5. /\ steps' \in [Threads -> Places] /\ Doing'[t] = StepOf(r)
        /\ \A u \in Threads \ {t} : Doing'[u] = Doing[u]
    BY <1>1, <1>2, <1>3, <1>4, DoingFacts
  <1>6. DiagInv' /\ UNCHANGED <<inherited, listening, counts, stack>>
    BY <1>1, SameDiagnostics DEF RuntimeInv
  <1>7. IdentityInv' /\ process' = process
    BY <1>1, SameIdentities DEF RuntimeInv
  <1>8. StillKnown
    BY <1>2, <1>3, <1>6, KnownAtStep
  <1>9. /\ logger' \in HandlerState /\ history' \in Memory /\ ShutdownParts
        /\ history'.touched = history.touched
    BY <1>1 DEF RuntimeInv, LifecycleTypeOK, ShutdownParts
  <1>10. /\ Doing[t] \notin Section
         /\ Doing'[t] \notin Section \cup {"tracer", "register"} \cup Constructing \cup RestartSteps
         /\ Doing'[t] \notin Daemonic
    BY <1>3, <1>4, <1>5 DEF Section, Constructing, RestartSteps, Daemonic
  <1> QED
    BY <1>1, <1>2, <1>3, <1>5, <1>6, <1>7, <1>8, <1>9, <1>10, OutsideInv

LEMMA AttachFailsInv ==
    ASSUME RuntimeInv, NEW t \in Callers, AttachFails(t)
    PROVE  RuntimeInv'
  <1>1. /\ AtStep(t, "attach") /\ steps' = [steps EXCEPT ![t] = <<>>]
        /\ MayFail(t, "logging.handler_install")
        /\ UNCHANGED <<identityVars, self, logger, history>>
    BY DEF AttachFails, Rest
  <1>2. t \in Threads /\ t # Daemon
    BY LifecycleAssumption
  <1>3. /\ Live /\ Doing[t] = "attach" /\ stack[t] = <<>> /\ ~inherited
        /\ steps \in [Threads -> Places]
    BY <1>1, <1>2, LivingStep DEF Constructing, RestartSteps
  <1>4. /\ steps' \in [Threads -> Places] /\ Doing'[t] = "away"
        /\ \A u \in Threads \ {t} : Doing'[u] = Doing[u]
    BY <1>1, <1>2, <1>3, DoingFacts, RoutineFacts
  <1>5. Reported(t, "logging.handler_install")
    BY <1>1, <1>2, <1>3, ReportedFacts DEF RuntimeInv
  <1>6. StillKnown /\ DiagInv' /\ UNCHANGED <<inherited, listening>>
    BY <1>2, <1>3, <1>5, KnownReported DEF Reported
  <1>7. IdentityInv' /\ process' = process
    BY <1>1, SameIdentities DEF RuntimeInv
  <1>8. /\ logger' \in HandlerState /\ history' \in Memory /\ ShutdownParts
        /\ history'.touched = history.touched
    BY <1>1 DEF RuntimeInv, LifecycleTypeOK, ShutdownParts
  <1>9. /\ Doing[t] \notin Section
        /\ Doing'[t] \notin Section \cup {"tracer", "register"} \cup Constructing \cup RestartSteps
        /\ Doing'[t] \notin Daemonic
    BY <1>3, <1>4 DEF Section, Constructing, RestartSteps, Daemonic
  <1> QED
    BY <1>1, <1>2, <1>3, <1>4, <1>6, <1>7, <1>8, <1>9, OutsideInv

\* A handler takes and leaves its lock.
LEMMA HandleInv ==
    ASSUME RuntimeInv, NEW t \in Callers, Handle(t) \/ Handled(t)
    PROVE  RuntimeInv'
  <1>1. PICK s \in {"handle", "handled"} : Takes(t, s)
    BY DEF Handle, Handled
  <1>2. t \in Threads /\ t # Daemon /\ logger \in HandlerState /\ t # None
    BY LifecycleAssumption, DiagnosticsAssumption DEF RuntimeInv, LifecycleTypeOK
  <1>3. /\ Live /\ Doing[t] = s /\ stack[t] = <<>> /\ ~inherited
        /\ steps \in [Threads -> Places]
    BY <1>1, <1>2, LivingStep DEF Constructing, RestartSteps, Takes
  <1>4. /\ steps' \in [Threads -> Places] /\ Doing'[t] \in {"handled", "away"}
        /\ \A u \in Threads \ {t} : Doing'[u] = Doing[u]
        /\ UNCHANGED identityVars
    BY <1>1, <1>2, <1>3, TakesFacts DEF Following
  <1>5. MayFail(t, "logging.handler_emit") \/ UNCHANGED diagVars
    BY DEF Handle, Handled, Logger
  <1>6. Reported(t, "logging.handler_emit")
    BY <1>2, <1>3, <1>5, ReportedFacts DEF RuntimeInv, MayFail
  <1>7. StillKnown /\ DiagInv' /\ UNCHANGED <<inherited, listening>>
    BY <1>2, <1>3, <1>6, KnownReported DEF Reported
  <1>8. IdentityInv' /\ process' = process
    BY <1>4, SameIdentities DEF RuntimeInv
  <1>9. /\ logger' \in HandlerState
        /\ \A u \in Threads \ {t} : logger'.mine[u] = logger.mine[u]
        /\ UNCHANGED <<logger.attached, logger.registered, logger.cursor, logger.made>>
    <2>1. CASE Handle(t)
      <3>1. logger' = [logger EXCEPT !.busy[logger.mine[t]] = t]
        BY <2>1 DEF Handle
      <3> QED
        BY <1>2, <3>1 DEF HandlerState
    <2>2. CASE Handled(t)
      <3>1. logger' = [logger EXCEPT !.busy[logger.mine[t]] = None, !.mine[t] = 0]
        BY <2>2 DEF Handled, Logger
      <3>2. 0 \in 0..MaxHandlers
        BY LifecycleAssumption
      <3> QED
        BY <1>2, <3>1, <3>2 DEF HandlerState
    <2> QED
      BY <2>1, <2>2
  <1>10. UNCHANGED <<self, history>>
    BY DEF Handle, Handled, Logger
  <1>11. ShutdownParts /\ history' \in Memory /\ history'.touched = history.touched
    BY <1>9, <1>10 DEF ShutdownParts, RuntimeInv, LifecycleTypeOK
  <1>12. /\ Doing[t] \notin Section
         /\ Doing'[t] \notin Section \cup {"tracer", "register"} \cup Constructing \cup RestartSteps
         /\ Doing'[t] \notin Daemonic
    BY <1>3, <1>4 DEF Section, Constructing, RestartSteps, Daemonic
  <1> QED
    BY <1>2, <1>3, <1>4, <1>7, <1>8, <1>9, <1>10, <1>11, <1>12, OutsideInv

\* A handler is made, which no shutdown has seen.
LEMMA AttachInv ==
    ASSUME RuntimeInv, NEW t \in Callers, Attach(t)
    PROVE  RuntimeInv'
  <1> DEFINE h == logger.made + 1
  <1>1. /\ h \in Handlers /\ Takes(t, "attach")
        /\ logger' = [logger EXCEPT !.made = h, !.mine[t] = h,
                                    !.attached = logger.attached \cup {h}]
        /\ UNCHANGED <<diagVars, self, history>>
    BY DEF Attach, Logger
  <1>2. /\ t \in Threads /\ t # Daemon /\ logger \in HandlerState /\ MaxHandlers \in Nat
        /\ logger.made \in Nat /\ h \in 1..MaxHandlers
    BY <1>1, LifecycleAssumption, SMTT(60) DEF RuntimeInv, LifecycleTypeOK, HandlerState, Handlers
  <1>3. /\ Live /\ Doing[t] = "attach" /\ stack[t] = <<>>
        /\ steps \in [Threads -> Places]
    BY <1>1, <1>2, LivingStep DEF Constructing, RestartSteps, Takes
  <1>4. /\ steps' \in [Threads -> Places] /\ Doing'[t] = "register"
        /\ \A u \in Threads \ {t} : Doing'[u] = Doing[u]
        /\ UNCHANGED identityVars
    BY <1>1, <1>2, <1>3, TakesFacts DEF Following
  <1>5. DiagInv' /\ UNCHANGED <<inherited, listening, counts, stack>>
    BY <1>1, SameDiagnostics DEF RuntimeInv
  <1>6. IdentityInv' /\ process' = process
    BY <1>4, SameIdentities DEF RuntimeInv
  <1>7. /\ logger' \in HandlerState
        /\ logger'.made = h /\ logger'.attached = logger.attached \cup {h}
        /\ logger'.mine[t] = h
        /\ \A u \in Threads \ {t} : logger'.mine[u] = logger.mine[u]
        /\ UNCHANGED <<logger.registered, logger.cursor>>
    <2>2. h \in 0..MaxHandlers /\ logger.attached \cup {h} \in SUBSET Handlers
      BY <1>1, <1>2 DEF HandlerState, Handlers
    <2>3. [logger.mine EXCEPT ![t] = h] \in [Threads -> 0..MaxHandlers]
      BY <1>2, <2>2 DEF HandlerState
    <2> HIDE DEF h
    <2>4. logger' = [logger EXCEPT !.made = h, !.mine = [logger.mine EXCEPT ![t] = h],
                                   !.attached = logger.attached \cup {h}]
      BY <1>1
    <2>5. logger' \in HandlerState
      BY <1>2, <2>2, <2>3, <2>4 DEF HandlerState
    <2>6. /\ logger'.made = h /\ logger'.attached = logger.attached \cup {h}
          /\ logger'.mine = [logger.mine EXCEPT ![t] = h]
          /\ UNCHANGED <<logger.registered, logger.cursor>>
      BY <1>2, <2>4 DEF HandlerState
    <2>7. logger'.mine[t] = h /\ \A u \in Threads \ {t} : logger'.mine[u] = logger.mine[u]
      BY <1>2, <2>6 DEF HandlerState
    <2> QED
      BY <2>5, <2>6, <2>7
  <1> HIDE DEF h
  <1>8. LiveStep
    <2>1. \A u \in Threads : Doing[u] \notin Constructing \cup RestartSteps
      BY <1>3 DEF Live, RuntimeInv, BirthInv
    <2>2. Doing'[t] \notin Constructing \cup RestartSteps
      BY <1>4 DEF Constructing, RestartSteps
    <2> QED
      BY <1>1, <1>3, <1>4, <1>5, <1>6, <2>1, <2>2 DEF LiveStep, RuntimeInv, OwnInv
  <1>9. BirthInv' /\ RestartingInv' /\ OwnInv' /\ Live'
    BY <1>8, LiveKept
  <1>10. LockInv' /\ ClosedInv'
    <2>1. Doing[t] \notin Section /\ Doing'[t] \notin Section \cup {"tracer"}
      BY <1>3, <1>4 DEF Section
    <2> QED
      BY <1>1, <1>2, <1>4, <1>8, <1>9, <2>1, ClosedKept
  <1>11. h \notin 1..logger.made /\ 1..logger.made \subseteq 1..h /\ h \in 1..h
    BY <1>2 DEF h
  <1>12. HandlersInv'
    <2>1. /\ logger'.attached \subseteq 1..logger'.made
          /\ history'.installed \subseteq 1..logger'.made
          /\ \A i \in 1..Len(logger'.registered) : logger'.registered[i] \in 1..logger'.made
          /\ \A i, j \in 1..Len(logger'.registered) :
                logger'.registered[i] = logger'.registered[j] => i = j
          /\ logger'.cursor <= Len(logger'.registered)
      BY <1>1, <1>7, <1>11 DEF RuntimeInv, HandlersInv
    <2>2. (\A u \in Threads : Doing'[u] \notin {"detach", "clear"}) => logger'.cursor = 0
      BY <1>2, <1>3, <1>4, <1>7 DEF RuntimeInv, HandlersInv
    <2>3. ASSUME NEW u \in Threads, Doing'[u] = "register"
          PROVE  /\ logger'.mine[u] \in 1..logger'.made
                 /\ \A i \in 1..Len(logger'.registered) :
                       logger'.registered[i] # logger'.mine[u]
                 /\ \A v \in Threads :
                       Doing'[v] = "register" /\ logger'.mine[v] = logger'.mine[u] => v = u
      <3>1. CASE u = t
        BY <1>4, <1>7, <1>11, <3>1 DEF RuntimeInv, HandlersInv
      <3>2. CASE u # t
        BY <1>4, <1>7, <1>11, <2>3, <3>2 DEF RuntimeInv, HandlersInv
      <3> QED
        BY <3>1, <3>2
    <2> QED
      BY <2>1, <2>2, <2>3 DEF HandlersInv
  <1>13. RemovalInv'
    <2>1. logger'.attached \cap history'.installed = logger.attached \cap history.installed
      BY <1>1, <1>7, <1>11 DEF RuntimeInv, HandlersInv
    <2>2. \A u \in Threads : Doing'[u] \in Closing <=> Doing[u] \in Closing
      BY <1>3, <1>4 DEF Closing
    <2>3. \A x : Ahead(x) => Ahead(x)'
      BY <1>7 DEF Ahead
    <2>4. StillKnown
      BY <1>2, <1>3, <1>5, KnownAtStep
    <2> QED
      BY <1>1, <1>3, <2>1, <2>2, <2>3, <2>4 DEF RuntimeInv, RemovalInv, StillKnown
  <1>14. PlacesInv'
    BY <1>2, <1>4, LifecycleAssumption DEF RuntimeInv, PlacesInv, Daemonic
  <1>15. LifecycleTypeOK'
    BY <1>1, <1>4, <1>5, <1>6, <1>7, TypesKept DEF RuntimeInv, LifecycleTypeOK
  <1> QED
    BY <1>5, <1>6, <1>9, <1>10, <1>12, <1>13, <1>14, <1>15 DEF RuntimeInv

\* Its maker puts it into the list of the runtime.
LEMMA RegisterInv ==
    ASSUME RuntimeInv, NEW t \in Callers, Register(t)
    PROVE  RuntimeInv'
  <1> DEFINE h == logger.mine[t]
             n == Len(logger.registered)
  <1>1. /\ Takes(t, "register")
        /\ logger' = [logger EXCEPT !.registered = Append(logger.registered, h), !.mine[t] = 0]
        /\ UNCHANGED <<diagVars, self, history>>
    BY DEF Register, Logger
  <1>2. /\ t \in Threads /\ t # Daemon /\ logger \in HandlerState /\ MaxHandlers \in Nat
    BY LifecycleAssumption DEF RuntimeInv, LifecycleTypeOK
  <1>3. /\ Live /\ Doing[t] = "register" /\ stack[t] = <<>>
        /\ steps \in [Threads -> Places]
    BY <1>1, <1>2, LivingStep DEF Constructing, RestartSteps, Takes
  <1>4. /\ steps' \in [Threads -> Places] /\ Doing'[t] = "away"
        /\ \A u \in Threads \ {t} : Doing'[u] = Doing[u]
        /\ UNCHANGED identityVars
    BY <1>1, <1>2, <1>3, TakesFacts DEF Following
  <1>5. DiagInv' /\ UNCHANGED <<inherited, listening, counts, stack>>
    BY <1>1, SameDiagnostics DEF RuntimeInv
  <1>6. IdentityInv' /\ process' = process
    BY <1>4, SameIdentities DEF RuntimeInv
  <1>7. /\ logger.registered \in Seq(Handlers) /\ n \in Nat /\ logger.cursor \in Nat
        /\ logger.made \in 0..MaxHandlers
        /\ h \in 1..logger.made /\ h \in Handlers
        /\ \A i \in 1..n : logger.registered[i] # h
        /\ \A u \in Threads : Doing[u] = "register" /\ logger.mine[u] = h => u = t
    <2>1. logger.registered \in Seq(Handlers) /\ logger.made \in 0..MaxHandlers
          /\ logger.cursor \in Nat
      BY <1>2 DEF HandlerState
    <2>2. /\ h \in 1..logger.made /\ \A i \in 1..n : logger.registered[i] # h
          /\ \A u \in Threads : Doing[u] = "register" /\ logger.mine[u] = h => u = t
      BY <1>2, <1>3 DEF RuntimeInv, HandlersInv
    <2> QED
      BY <1>2, <2>1, <2>2 DEF Handlers
  <1>8. /\ logger' \in HandlerState
        /\ logger'.registered = Append(logger.registered, h)
        /\ \A u \in Threads \ {t} : logger'.mine[u] = logger.mine[u]
        /\ UNCHANGED <<logger.attached, logger.made, logger.cursor>>
    <2>1. Append(logger.registered, h) \in Seq(Handlers)
      BY <1>7
    <2>2. [logger.mine EXCEPT ![t] = 0] \in [Threads -> 0..MaxHandlers]
      BY <1>2 DEF HandlerState
    <2>3. logger' = [logger EXCEPT !.registered = Append(logger.registered, h),
                                   !.mine = [logger.mine EXCEPT ![t] = 0]]
      BY <1>1
    <2>4. logger' \in HandlerState
      BY <1>2, <2>1, <2>2, <2>3 DEF HandlerState
    <2>5. /\ logger'.registered = Append(logger.registered, h)
          /\ logger'.mine = [logger.mine EXCEPT ![t] = 0]
          /\ UNCHANGED <<logger.attached, logger.made, logger.cursor>>
      BY <1>2, <2>3 DEF HandlerState
    <2> QED
      BY <1>2, <2>4, <2>5 DEF HandlerState
  <1>9. /\ Len(logger'.registered) = n + 1 /\ logger'.registered[n + 1] = h
        /\ \A i \in 1..n : logger'.registered[i] = logger.registered[i]
    BY <1>7, <1>8
  <1> HIDE DEF h, n
  <1>10. LiveStep
    <2>1. \A u \in Threads : Doing[u] \notin Constructing \cup RestartSteps
      BY <1>3 DEF Live, RuntimeInv, BirthInv
    <2>2. Doing'[t] \notin Constructing \cup RestartSteps
      BY <1>4 DEF Constructing, RestartSteps
    <2> QED
      BY <1>1, <1>3, <1>4, <1>5, <1>6, <2>1, <2>2 DEF LiveStep, RuntimeInv, OwnInv
  <1>11. BirthInv' /\ RestartingInv' /\ OwnInv' /\ Live'
    BY <1>10, LiveKept
  <1>12. LockInv' /\ ClosedInv'
    <2>1. Doing[t] \notin Section /\ Doing'[t] \notin Section \cup {"tracer"}
      BY <1>3, <1>4 DEF Section
    <2> QED
      BY <1>1, <1>2, <1>4, <1>10, <1>11, <2>1, ClosedKept
  <1>13. \A i \in 1..(n + 1) : i \in 1..n \/ i = n + 1
    BY <1>7
  <1>14. HandlersInv'
    <2>1. /\ logger'.attached \subseteq 1..logger'.made
          /\ history'.installed \subseteq 1..logger'.made
          /\ logger'.cursor <= Len(logger'.registered)
      BY <1>1, <1>7, <1>8, <1>9 DEF RuntimeInv, HandlersInv, n
    <2>2. (\A u \in Threads : Doing'[u] \notin {"detach", "clear"}) => logger'.cursor = 0
      BY <1>2, <1>3, <1>4, <1>8 DEF RuntimeInv, HandlersInv
    <2>3. /\ \A i \in 1..n : logger.registered[i] \in 1..logger.made
          /\ \A i, j \in 1..n : logger.registered[i] = logger.registered[j] => i = j
      BY DEF RuntimeInv, HandlersInv, n
    <2>4. \A i \in 1..Len(logger'.registered) : logger'.registered[i] \in 1..logger'.made
      BY <1>7, <1>8, <1>9, <1>13, <2>3
    <2>5. \A i, j \in 1..Len(logger'.registered) :
             logger'.registered[i] = logger'.registered[j] => i = j
      BY <1>7, <1>9, <1>13, <2>3
    <2>6. ASSUME NEW u \in Threads, Doing'[u] = "register"
          PROVE  /\ logger'.mine[u] \in 1..logger'.made
                 /\ \A i \in 1..Len(logger'.registered) :
                       logger'.registered[i] # logger'.mine[u]
                 /\ \A v \in Threads :
                       Doing'[v] = "register" /\ logger'.mine[v] = logger'.mine[u] => v = u
      <3>1. u # t /\ Doing[u] = "register" /\ logger'.mine[u] = logger.mine[u]
        BY <1>4, <1>8, <2>6
      <3>2. /\ logger.mine[u] \in 1..logger.made
            /\ \A i \in 1..n : logger.registered[i] # logger.mine[u]
            /\ \A v \in Threads :
                  Doing[v] = "register" /\ logger.mine[v] = logger.mine[u] => v = u
        BY <3>1 DEF RuntimeInv, HandlersInv, n
      <3>3. logger.mine[u] # h
        BY <1>7, <3>1
      <3>4. \A i \in 1..Len(logger'.registered) : logger'.registered[i] # logger'.mine[u]
        BY <1>9, <1>13, <3>1, <3>2, <3>3
      <3>5. \A v \in Threads : Doing'[v] = "register" => v # t /\ Doing[v] = "register"
        BY <1>4
      <3> QED
        BY <1>8, <3>1, <3>2, <3>4, <3>5
    <2> QED
      BY <2>1, <2>2, <2>4, <2>5, <2>6 DEF HandlersInv
  <1>15. RemovalInv'
    <2>1. \A u \in Threads : Doing'[u] \in Closing <=> Doing[u] \in Closing
      BY <1>3, <1>4 DEF Closing
    <2>2. ASSUME NEW x, Ahead(x) PROVE Ahead(x)'
      <3>1. PICK i \in 1..n : i > logger.cursor /\ logger.registered[i] = x
        BY <2>2 DEF Ahead, n
      <3>2. i \in 1..(n + 1)
        BY <1>7
      <3> QED
        BY <1>8, <1>9, <3>1, <3>2 DEF Ahead
    <2>3. StillKnown
      BY <1>2, <1>3, <1>5, KnownAtStep
    <2> QED
      BY <1>1, <1>3, <1>8, <2>1, <2>2, <2>3 DEF RuntimeInv, RemovalInv, StillKnown
  <1>16. PlacesInv'
    BY <1>2, <1>4, LifecycleAssumption DEF RuntimeInv, PlacesInv, Daemonic
  <1>17. LifecycleTypeOK'
    BY <1>1, <1>4, <1>5, <1>6, <1>8, TypesKept DEF RuntimeInv, LifecycleTypeOK
  <1> QED
    BY <1>5, <1>6, <1>11, <1>12, <1>14, <1>15, <1>16, <1>17 DEF RuntimeInv
-------------------------------------------------------------------------------
(* Shutdown *)

\* One thread at a time is in shutdown.
LEMMA SectionFacts ==
    ASSUME RuntimeInv, NEW t \in Threads, Doing[t] \in Section
    PROVE  self.lock = t /\ \A u \in Threads \ {t} : Doing[u] \notin Section
  BY DEF RuntimeInv, LockInv

\* The whole of a step of shutdown, given what it does to shutdown itself.
ShutdownStep(t) ==
    /\ Live
    /\ DiagInv' /\ IdentityInv'
    /\ UNCHANGED <<process, listening, inherited>>
    /\ self' \in Attributes
    /\ self'.instance = self.instance /\ self'.contexts = self.contexts
    /\ self'.delivery = self.delivery /\ self'.otel = self.otel
    /\ logger' \in HandlerState
    /\ history' \in Memory /\ history'.touched = history.touched
    /\ steps' \in [Threads -> Places]
    /\ \A u \in Threads \ {t, Daemon} : Doing'[u] = Doing[u]
    /\ Doing'[t] \in Section \cup {"away"}
    /\ Doing'[Daemon] \in {Doing[Daemon], "tracer"}

LEMMA ShutdownKept ==
    ASSUME RuntimeInv, NEW t \in Callers, ShutdownStep(t)
    PROVE  /\ Live' /\ PlacesInv' /\ BirthInv' /\ RestartingInv' /\ OwnInv'
           /\ LifecycleTypeOK' /\ DiagInv' /\ IdentityInv'
  <1>1. t \in Threads /\ t # Daemon /\ Daemon \in Threads
    BY LifecycleAssumption
  <1>2. \A u \in Threads : Doing[u] \notin Constructing \cup RestartSteps
    BY DEF Live, RuntimeInv, BirthInv, ShutdownStep
  <1>3. Doing'[t] \notin Constructing \cup RestartSteps \cup Daemonic
    BY DEF ShutdownStep, Section, Constructing, RestartSteps, Daemonic
  <1>4. Doing'[Daemon] \in Daemonic \cup {"away"}
    BY DEF ShutdownStep, RuntimeInv, PlacesInv, Daemonic
  <1>5. PlacesInv'
    BY <1>1, <1>3, <1>4 DEF ShutdownStep, RuntimeInv, PlacesInv
  <1>6. LiveStep
    <2>1. ASSUME NEW u \in Threads PROVE Doing'[u] \notin Constructing \cup RestartSteps
      <3>1. CASE u = t
        BY <1>3, <3>1
      <3>2. CASE u = Daemon
        BY <1>4, <3>2 DEF Daemonic, Constructing, RestartSteps
      <3>3. CASE u \notin {t, Daemon}
        BY <1>2, <3>3 DEF ShutdownStep
      <3> QED
        BY <3>1, <3>2, <3>3
    <2> QED
      BY <2>1 DEF ShutdownStep, LiveStep, RuntimeInv, OwnInv
  <1>7. BirthInv' /\ RestartingInv' /\ OwnInv' /\ Live'
    BY <1>6, LiveKept
  <1>8. LifecycleTypeOK'
    BY TypesKept DEF ShutdownStep
  <1> QED
    BY <1>5, <1>7, <1>8 DEF ShutdownStep

\* The handlers stay as they are.
LEMMA HandlersKept ==
    ASSUME RuntimeInv, logger' = logger, history'.installed = history.installed,
           \A u \in Threads : Doing'[u] = "register" => Doing[u] = "register",
           \A u \in Threads : Doing[u] \in {"detach", "clear"} => Doing'[u] \in {"detach", "clear"}
    PROVE  HandlersInv'
  <1>1. (\A u \in Threads : Doing'[u] \notin {"detach", "clear"})
           => \A u \in Threads : Doing[u] \notin {"detach", "clear"}
    OBVIOUS
  <1> QED
    BY <1>1 DEF RuntimeInv, HandlersInv

LEMMA TakeLockInv ==
    ASSUME RuntimeInv, NEW t \in Callers, TakeLock(t)
    PROVE  RuntimeInv'
  <1>1. /\ Takes(t, "enter") /\ self.lock = None
        /\ self' = [self EXCEPT !.lock = t]
        /\ UNCHANGED <<diagVars, logger, history>>
    BY DEF TakeLock, Sets
  <1>2. /\ t \in Threads /\ t # Daemon /\ self \in Attributes
        /\ \A u \in Threads : u # None
    BY LifecycleAssumption, DiagnosticsAssumption DEF RuntimeInv, LifecycleTypeOK
  <1>3. /\ Live /\ Doing[t] = "enter" /\ stack[t] = <<>>
        /\ steps \in [Threads -> Places]
    BY <1>1, <1>2, LivingStep DEF Constructing, RestartSteps, Takes
  <1>4. /\ steps' \in [Threads -> Places] /\ Doing'[t] = "check"
        /\ \A u \in Threads \ {t} : Doing'[u] = Doing[u]
        /\ UNCHANGED identityVars
    BY <1>1, <1>2, <1>3, TakesFacts DEF Following
  <1>5. DiagInv' /\ UNCHANGED <<inherited, listening, counts, stack>>
    BY <1>1, SameDiagnostics DEF RuntimeInv
  <1>6. IdentityInv' /\ process' = process
    BY <1>4, SameIdentities DEF RuntimeInv
  <1>7. /\ self' \in Attributes /\ self'.lock = t
        /\ self'.instance = self.instance /\ self'.contexts = self.contexts
        /\ self'.delivery = self.delivery /\ self'.otel = self.otel
        /\ self'.closed = self.closed
    BY <1>1, <1>2 DEF Attributes
  <1>8. ShutdownStep(t)
    <2>1. Doing'[Daemon] = Doing[Daemon]
      BY <1>2, <1>4, LifecycleAssumption
    <2> QED
      BY <1>1, <1>2, <1>3, <1>4, <1>5, <1>6, <1>7, <2>1
         DEF ShutdownStep, RuntimeInv, LifecycleTypeOK, Section
  <1>9. /\ Live' /\ PlacesInv' /\ BirthInv' /\ RestartingInv' /\ OwnInv'
        /\ LifecycleTypeOK' /\ DiagInv' /\ IdentityInv'
    BY <1>8, ShutdownKept
  <1>10. LockInv'
    BY <1>1, <1>2, <1>4, <1>7 DEF RuntimeInv, LockInv
  <1>11. ClosedInv'
    <2>1. Doing'[Daemon] = Doing[Daemon]
      BY <1>2, <1>4, LifecycleAssumption
    <2>2. \A u \in Threads : /\ Doing'[u] \in Closing => Doing[u] \in Closing
                             /\ Doing'[u] \in Section \ {"check"} => Doing[u] = Doing'[u]
                             /\ Doing'[u] \in {"close", "start"} => Doing[u] = Doing'[u]
      BY <1>4 DEF Closing
    <2>3. (\A u \in Threads : Doing'[u] # "close") => \A u \in Threads : Doing[u] # "close"
      BY <1>3, <1>4
    <2> QED
      BY <1>1, <1>3, <1>7, <2>1, <2>2, <2>3 DEF RuntimeInv, ClosedInv
  <1>12. HandlersInv'
    BY <1>1, <1>3, <1>4, HandlersKept
  <1>13. RemovalInv'
    <2>1. \A u \in Threads : Doing'[u] \in Closing <=> Doing[u] \in Closing
      BY <1>3, <1>4 DEF Closing
    <2>2. \A x : Ahead(x) => Ahead(x)'
      BY <1>1 DEF Ahead
    <2>3. StillKnown
      BY <1>2, <1>3, <1>5, KnownAtStep
    <2> QED
      BY <1>1, <1>3, <1>7, <2>1, <2>2, <2>3 DEF RuntimeInv, RemovalInv, StillKnown
  <1> QED
    BY <1>9, <1>10, <1>11, <1>12, <1>13 DEF RuntimeInv

\* The handlers that shutdown has to remove are those in the list when it begins.
LEMMA CheckInv ==
    ASSUME RuntimeInv, NEW t \in Callers, Check(t)
    PROVE  RuntimeInv'
  <1> DEFINE r == IF self.closed THEN <<"leave">> ELSE Tail(steps[t])
  <1>1. /\ AtStep(t, "check") /\ steps' = [steps EXCEPT ![t] = r]
        /\ self' = [self EXCEPT !.closed = TRUE]
        /\ history' = IF self.closed THEN history
                      ELSE [history EXCEPT !.installed = ToSet(logger.registered)]
        /\ UNCHANGED <<diagVars, identityVars, logger>>
    BY DEF Check, Rest
  <1>2. /\ t \in Threads /\ t # Daemon /\ self \in Attributes /\ history \in Memory
        /\ logger \in HandlerState /\ logger.registered \in Seq(Handlers)
    BY LifecycleAssumption DEF RuntimeInv, LifecycleTypeOK, HandlerState
  <1>3. /\ Live /\ Doing[t] = "check" /\ stack[t] = <<>>
        /\ steps \in [Threads -> Places]
        /\ Tail(steps[t]) \in Places /\ StepOf(Tail(steps[t])) = "close"
    BY <1>1, <1>2, LivingStep DEF Constructing, RestartSteps, Following
  <1>4. r \in Places /\ StepOf(r) = IF self.closed THEN "leave" ELSE "close"
    BY <1>3, RoutineFacts
  <1> HIDE DEF r
  <1>5. /\ steps' \in [Threads -> Places]
        /\ Doing'[t] = IF self.closed THEN "leave" ELSE "close"
        /\ \A u \in Threads \ {t} : Doing'[u] = Doing[u]
    BY <1>1, <1>2, <1>3, <1>4, DoingFacts
  <1>6. DiagInv' /\ UNCHANGED <<inherited, listening, counts, stack>>
    BY <1>1, SameDiagnostics DEF RuntimeInv
  <1>7. IdentityInv' /\ process' = process
    BY <1>1, SameIdentities DEF RuntimeInv
  <1>8. /\ self' \in Attributes /\ self'.closed /\ self'.lock = self.lock
        /\ self'.instance = self.instance /\ self'.contexts = self.contexts
        /\ self'.delivery = self.delivery /\ self'.otel = self.otel
    BY <1>1, <1>2 DEF Attributes
  <1>9. /\ ToSet(logger.registered) \in SUBSET Handlers
        /\ \A h : h \in ToSet(logger.registered) <=>
                     \E i \in 1..Len(logger.registered) : logger.registered[i] = h
    BY <1>2 DEF ToSet
  <1>10. /\ history' \in Memory /\ history'.touched = history.touched
         /\ history'.returned = history.returned /\ history'.closes = history.closes
         /\ history'.shutdowns = history.shutdowns
         /\ history'.installed = IF self.closed THEN history.installed
                                 ELSE ToSet(logger.registered)
    BY <1>1, <1>2, <1>9 DEF Memory
  <1>11. /\ self.lock = t /\ \A u \in Threads \ {t} : Doing[u] \notin Section
         /\ \A u \in Threads \ {t} : Doing'[u] \notin Section
    BY <1>2, <1>3, <1>5, SectionFacts DEF Section
  <1>12. ShutdownStep(t)
    <2>1. Doing'[Daemon] = Doing[Daemon]
      BY <1>2, <1>5, LifecycleAssumption
    <2>2. logger' \in HandlerState /\ Doing'[t] \in Section
      BY <1>1, <1>2, <1>5 DEF Section
    <2> QED
      BY <1>1, <1>2, <1>3, <1>5, <1>6, <1>7, <1>8, <1>10, <2>1, <2>2 DEF ShutdownStep
  <1>13. /\ Live' /\ PlacesInv' /\ BirthInv' /\ RestartingInv' /\ OwnInv'
         /\ LifecycleTypeOK' /\ DiagInv' /\ IdentityInv'
    BY <1>12, ShutdownKept
  <1>14. LockInv'
    BY <1>8, <1>11 DEF LockInv
  <1>15. Doing'[Daemon] = Doing[Daemon] /\ Daemon \in Threads
    BY <1>2, <1>5, LifecycleAssumption
  <1>16. ClosedInv'
    <2>1. /\ history.returned => self.closed
          /\ ~self.closed => history.closes = 0 /\ history.shutdowns = 0 /\ Doing[Daemon] = "away"
          /\ Doing[Daemon] = "tracer" => history.shutdowns = 0
          /\ self.closed => history.closes = 1
      <3>1. \A u \in Threads : Doing[u] # "close"
        BY <1>3, <1>11 DEF Section
      <3> QED
        BY <1>3, <3>1 DEF RuntimeInv, ClosedInv
    <2>2. ASSUME NEW u \in Threads
          PROVE  /\ Doing'[u] \in Closing => ~history'.returned
                 /\ Doing'[u] = "close" => history'.closes = 0
                 /\ Doing'[u] \in {"close", "start"} =>
                       history'.shutdowns = 0 /\ Doing'[Daemon] = "away"
      <3>1. CASE u = t
        BY <1>5, <1>10, <1>15, <2>1, <3>1 DEF Closing
      <3>2. CASE u # t
        BY <1>11, <3>2 DEF Section, Closing
      <3> QED
        BY <3>1, <3>2
    <2>3. (\A u \in Threads : Doing'[u] # "close") => history'.closes = 1
      BY <1>2, <1>5, <1>10, <2>1
    <2> QED
      BY <1>8, <1>10, <1>15, <2>1, <2>2, <2>3 DEF ClosedInv
  <1>17. logger.cursor = 0
    <2>1. \A u \in Threads : Doing[u] \notin {"detach", "clear"}
      BY <1>3, <1>11 DEF Section
    <2> QED
      BY <2>1 DEF RuntimeInv, HandlersInv
  <1>18. HandlersInv'
    <2>1. history'.installed \subseteq 1..logger'.made
      BY <1>1, <1>9, <1>10 DEF RuntimeInv, HandlersInv
    <2>2. \A u \in Threads : Doing'[u] = "register" => Doing[u] = "register"
      BY <1>5
    <2> QED
      BY <1>1, <1>17, <2>1, <2>2 DEF RuntimeInv, HandlersInv
  <1>19. RemovalInv'
    <2>1. CASE self.closed
      <3>1. \A u \in Threads : Doing[u] \notin Closing /\ Doing'[u] \notin Closing
        BY <1>3, <1>5, <1>11, <2>1 DEF Closing, Section
      <3>2. Counted => Counted'
        BY <1>6 DEF Counted
      <3> QED
        BY <1>1, <1>3, <1>10, <2>1, <3>1, <3>2 DEF RuntimeInv, RemovalInv
    <2>2. CASE ~self.closed
      <3>1. \A h \in logger'.attached \cap history'.installed : Ahead(h)'
        <4> SUFFICES ASSUME NEW h \in ToSet(logger.registered) PROVE Ahead(h)'
          BY <1>10, <2>2
        <4>1. PICK i \in 1..Len(logger.registered) : logger.registered[i] = h
          BY <1>9
        <4> QED
          BY <1>1, <1>17, <4>1 DEF Ahead
      <3>2. Doing'[t] \in Closing
        BY <1>5, <2>2 DEF Closing
      <3> QED
        BY <1>2, <3>1, <3>2 DEF RemovalInv
    <2> QED
      BY <2>1, <2>2
  <1> QED
    BY <1>13, <1>14, <1>16, <1>18, <1>19 DEF RuntimeInv

\* A step of the thread that closes the runtime, before the loop over the handlers.
LEMMA ClosingKept ==
    ASSUME RuntimeInv, NEW t \in Callers, ShutdownStep(t), StillKnown,
           Doing[t] \in Closing \ {"detach"}, Doing'[t] \in Closing \ {"close"},
           logger' = logger,
           UNCHANGED <<self.lock, self.closed, history.returned, history.shutdowns,
                       history.installed>>,
           history'.closes = 1,
           Doing'[t] = "start" => Doing[t] = "close" /\ Doing'[Daemon] = Doing[Daemon],
           Doing'[Daemon] = "tracer" => history.shutdowns = 0
    PROVE  RuntimeInv'
  <1>1. /\ Live' /\ PlacesInv' /\ BirthInv' /\ RestartingInv' /\ OwnInv'
        /\ LifecycleTypeOK' /\ DiagInv' /\ IdentityInv'
    BY ShutdownKept
  <1>2. t \in Threads /\ t # Daemon /\ Daemon \in Threads
    BY LifecycleAssumption
  <1>3. Closing \subseteq Section \ {"check"} /\ "tracer" \notin Section /\ "away" \notin Section
    BY DEF Closing, Section
  <1>4. self.lock = t /\ \A u \in Threads \ {t} : Doing[u] \notin Section
    BY <1>2, <1>3, SectionFacts
  <1>5. \A u \in Threads \ {t} : Doing'[u] \notin Section /\ (Doing'[u] = Doing[u] \/ u = Daemon)
    BY <1>3, <1>4 DEF ShutdownStep
  <1>6. LockInv'
    BY <1>4, <1>5 DEF LockInv
  <1>7. self.closed /\ ~history.returned
    BY <1>2, <1>3 DEF RuntimeInv, ClosedInv
  <1>8. ClosedInv'
    <2>1. ASSUME NEW u \in Threads
          PROVE  /\ Doing'[u] \in Section \ {"check"} => self'.closed
                 /\ Doing'[u] \in Closing => ~history'.returned
                 /\ Doing'[u] # "close"
                 /\ Doing'[u] \in {"close", "start"} =>
                       history'.shutdowns = 0 /\ Doing'[Daemon] = "away"
      <3>1. CASE u = t
        BY <1>2, <1>7, <3>1 DEF RuntimeInv, ClosedInv
      <3>2. CASE u # t
        <4>1. Doing'[u] \notin {"close", "start"} /\ Doing'[u] \notin Closing
          BY <1>5, <3>2 DEF Section, Closing
        <4> QED
          BY <1>5, <3>2, <4>1
      <3> QED
        BY <3>1, <3>2
    <2> QED
      BY <1>7, <2>1 DEF ClosedInv
  <1>9. HandlersInv'
    <2>1. \A u \in Threads : Doing'[u] = "register" => Doing[u] = "register"
      BY <1>2 DEF ShutdownStep, Closing
    <2>2. \A u \in Threads : Doing[u] \notin {"detach", "clear"}
      BY <1>4 DEF Section, Closing
    <2> QED
      BY <2>1, <2>2, HandlersKept
  <1>10. RemovalInv'
    <2>1. \A h : Ahead(h) => Ahead(h)'
      BY DEF Ahead
    <2>2. \A u \in Threads \ {t} : Doing'[u] \notin Closing
      BY <1>3, <1>5
    <2> QED
      BY <1>2, <2>1, <2>2 DEF RuntimeInv, RemovalInv, StillKnown
  <1> QED
    BY <1>1, <1>6, <1>8, <1>9, <1>10 DEF RuntimeInv

\* What the thread that closes the runtime knows.
LEMMA ClosingFacts ==
    ASSUME RuntimeInv, NEW t \in Callers, NEW s, AtStep(t, s), s \in Closing \cup {"clear"}
    PROVE  /\ t \in Threads /\ t # Daemon /\ Daemon \in Threads
           /\ Live /\ Doing[t] = s /\ stack[t] = <<>> /\ ~inherited
           /\ steps \in [Threads -> Places] /\ Tail(steps[t]) \in Places
           /\ StepOf(Tail(steps[t])) = Following[s]
           /\ self \in Attributes /\ history \in Memory /\ logger \in HandlerState
           /\ self.lock = t /\ self.closed
           /\ \A u \in Threads \ {t} : Doing[u] \notin Section
           /\ s # "close" => history.closes = 1
           /\ s \in {"close", "start"} => history.shutdowns = 0 /\ Doing[Daemon] = "away"
           /\ s = "close" => history.closes = 0
           /\ Doing[Daemon] = "tracer" => history.shutdowns = 0
  <1>1. t \in Threads /\ t # Daemon /\ Daemon \in Threads
    BY LifecycleAssumption
  <1>2. /\ s \notin {"delivery", "otel"} \cup Constructing \cup RestartSteps
        /\ s \in Section \ {"check"}
    BY DEF Closing, Constructing, RestartSteps, Section
  <1>3. /\ Live /\ Doing[t] = s /\ stack[t] = <<>> /\ ~inherited
        /\ steps \in [Threads -> Places] /\ Tail(steps[t]) \in Places
        /\ StepOf(Tail(steps[t])) = Following[s]
    BY <1>1, <1>2, LivingStep
  <1>4. self.lock = t /\ \A u \in Threads \ {t} : Doing[u] \notin Section
    BY <1>1, <1>2, <1>3, SectionFacts
  <1>5. /\ self.closed
        /\ s \in {"close", "start"} => history.shutdowns = 0 /\ Doing[Daemon] = "away"
        /\ s = "close" => history.closes = 0
        /\ Doing[Daemon] = "tracer" => history.shutdowns = 0
    BY <1>1, <1>2, <1>3 DEF RuntimeInv, ClosedInv
  <1>6. s # "close" => history.closes = 1
    <2>1. s # "close" => \A u \in Threads : Doing[u] # "close"
      BY <1>3, <1>4 DEF Section
    <2> QED
      BY <1>3, <1>5, <2>1 DEF RuntimeInv, ClosedInv
  <1> QED
    BY <1>1, <1>3, <1>4, <1>5, <1>6 DEF RuntimeInv, LifecycleTypeOK

\* A step of that thread that leaves the attributes alone, and may report.
LEMMA ClosingStep ==
    ASSUME RuntimeInv, NEW t \in Callers, NEW s, AtStep(t, s), s \in Closing,
           NEW r \in Places, steps' = [steps EXCEPT ![t] = r], StepOf(r) \in Section,
           DiagInv', UNCHANGED <<listening, inherited, identityVars, self>>,
           logger' \in HandlerState,
           history' \in Memory, history'.touched = history.touched
    PROVE  /\ ShutdownStep(t) /\ Doing'[t] = StepOf(r)
           /\ \A u \in Threads \ {t} : Doing'[u] = Doing[u]
  <1>1. /\ t \in Threads /\ t # Daemon /\ Daemon \in Threads /\ Live
        /\ steps \in [Threads -> Places] /\ self \in Attributes
    BY ClosingFacts
  <1>2. /\ steps' \in [Threads -> Places] /\ Doing'[t] = StepOf(r)
        /\ \A u \in Threads \ {t} : Doing'[u] = Doing[u]
    BY <1>1, DoingFacts
  <1>3. IdentityInv' /\ process' = process
    BY SameIdentities DEF RuntimeInv
  <1>4. Doing'[Daemon] = Doing[Daemon]
    BY <1>1, <1>2
  <1> QED
    BY <1>1, <1>2, <1>3, <1>4 DEF ShutdownStep

LEMMA CloseDeliveryInv ==
    ASSUME RuntimeInv, NEW t \in Callers, CloseDelivery(t)
    PROVE  RuntimeInv'
  <1>1. /\ AtStep(t, "close") /\ steps' = [steps EXCEPT ![t] = Tail(steps[t])]
        /\ history' = [history EXCEPT !.closes = history.closes + 1]
        /\ MayFail(t, "logging.shutdown")
        /\ UNCHANGED <<self, logger, identityVars>>
    BY DEF CloseDelivery, Takes, Rest
  <1>2. /\ t \in Threads /\ t # Daemon /\ Daemon \in Threads
        /\ Live /\ Doing[t] = "close" /\ stack[t] = <<>> /\ ~inherited
        /\ Tail(steps[t]) \in Places /\ StepOf(Tail(steps[t])) = "start"
        /\ history \in Memory /\ logger \in HandlerState
        /\ history.shutdowns = 0 /\ Doing[Daemon] = "away" /\ history.closes = 0
    BY <1>1, ClosingFacts DEF Closing, Following
  <1>3. Reported(t, "logging.shutdown")
    BY <1>1, <1>2, ReportedFacts DEF RuntimeInv
  <1>4. StillKnown /\ DiagInv' /\ UNCHANGED <<inherited, listening>>
    BY <1>2, <1>3, KnownReported DEF Reported
  <1>5. /\ history' \in Memory /\ history'.closes = 1
        /\ history'.touched = history.touched /\ history'.returned = history.returned
        /\ history'.shutdowns = history.shutdowns
        /\ history'.installed = history.installed
    BY <1>1, <1>2 DEF Memory
  <1>6. /\ ShutdownStep(t) /\ Doing'[t] = "start"
        /\ \A u \in Threads \ {t} : Doing'[u] = Doing[u]
    BY <1>1, <1>2, <1>4, <1>5, ClosingStep DEF Closing, Section
  <1>7. Doing'[Daemon] = Doing[Daemon]
    BY <1>2, <1>6
  <1>8. Doing[t] \in Closing \ {"detach"} /\ Doing'[t] \in Closing \ {"close"}
    BY <1>2, <1>6 DEF Closing
  <1> QED
    BY <1>1, <1>2, <1>4, <1>5, <1>6, <1>7, <1>8, ClosingKept

\* Steps of that thread that close nothing.
LEMMA ClosingReports ==
    ASSUME RuntimeInv, NEW t \in Callers, NEW s, AtStep(t, s), s \in {"start", "wait", "deadline"},
           NEW r \in Places, steps' = [steps EXCEPT ![t] = r],
           StepOf(r) \in {"deadline", "detach"},
           DiagInv', StillKnown, UNCHANGED <<listening, inherited, identityVars, self, logger,
                                             history>>
    PROVE  RuntimeInv'
  <1>1. s \in Closing
    BY DEF Closing
  <1>2. /\ t \in Threads /\ t # Daemon /\ Daemon \in Threads /\ Doing[t] = s
        /\ history \in Memory /\ logger \in HandlerState /\ history.closes = 1
        /\ Doing[Daemon] = "tracer" => history.shutdowns = 0
    BY <1>1, ClosingFacts
  <1>3. /\ ShutdownStep(t) /\ Doing'[t] = StepOf(r)
        /\ \A u \in Threads \ {t} : Doing'[u] = Doing[u]
    BY <1>1, <1>2, ClosingStep DEF Section
  <1>4. Doing'[Daemon] = Doing[Daemon]
    BY <1>2, <1>3
  <1>5. Doing[t] \in Closing \ {"detach"} /\ Doing'[t] \in Closing \ {"close"}
        /\ Doing'[t] # "start"
    BY <1>2, <1>3 DEF Closing
  <1> QED
    BY <1>2, <1>3, <1>4, <1>5, ClosingKept

LEMMA StartFailsInv ==
    ASSUME RuntimeInv, NEW t \in Callers, StartFails(t)
    PROVE  RuntimeInv'
  <1>1. /\ AtStep(t, "start") /\ Fails(t, "otel.shutdown")
        /\ steps' = [steps EXCEPT ![t] = Tail(Tail(steps[t]))]
        /\ UNCHANGED <<identityVars, self, logger, history>>
    BY DEF StartFails, Rest
  <1>2. /\ t \in Threads /\ stack[t] = <<>> /\ ~inherited
        /\ Tail(steps[t]) \in Places /\ StepOf(Tail(steps[t])) = "wait"
    BY <1>1, ClosingFacts DEF Closing, Following
  <1>3. Tail(Tail(steps[t])) \in Places /\ StepOf(Tail(Tail(steps[t]))) = "detach"
    <2>1. Tail(steps[t]) # <<>>
      BY <1>2, RoutineFacts
    <2>2. StepsOn(Tail(steps[t]), "wait", "wait")
      BY <1>2, <2>1, StepFacts
    <2> QED
      BY <2>2 DEF StepsOn, Following
  <1>4. Reported(t, "otel.shutdown")
    BY <1>1, <1>2, ReportedFacts DEF RuntimeInv
  <1>5. StillKnown /\ DiagInv' /\ UNCHANGED <<inherited, listening>>
    BY <1>2, <1>4, KnownReported DEF Reported
  <1> QED
    BY <1>1, <1>3, <1>5, ClosingReports

LEMMA DeadlineInv ==
    ASSUME RuntimeInv, NEW t \in Callers, Deadline(t)
    PROVE  RuntimeInv'
  <1>1. /\ AtStep(t, "deadline") /\ Report(t, "otel.shutdown_deadline")
        /\ steps' = [steps EXCEPT ![t] = Tail(steps[t])]
        /\ UNCHANGED <<identityVars, self, logger, history>>
    BY DEF Deadline, Takes, Rest
  <1>2. /\ t \in Threads /\ stack[t] = <<>> /\ ~inherited
        /\ Tail(steps[t]) \in Places /\ StepOf(Tail(steps[t])) = "detach"
    BY <1>1, ClosingFacts DEF Closing, Following
  <1>3. Reported(t, "otel.shutdown_deadline")
    BY <1>1, <1>2, LifecycleAssumption, ReportedFacts DEF RuntimeInv
  <1>4. StillKnown /\ DiagInv' /\ UNCHANGED <<inherited, listening>>
    BY <1>2, <1>3, KnownReported DEF Reported
  <1> QED
    BY <1>1, <1>2, <1>4, ClosingReports

LEMMA WaitInv ==
    ASSUME RuntimeInv, NEW t \in Callers, Wait(t)
    PROVE  RuntimeInv'
  <1>1. AtStep(t, "wait") /\ UNCHANGED <<identityVars, self, logger, history>>
    BY DEF Wait
  <1>2. /\ t \in Threads /\ stack[t] = <<>> /\ ~inherited
        /\ steps[t] \in Places /\ StepOf(steps[t]) = "wait"
        /\ Tail(steps[t]) \in Places /\ StepOf(Tail(steps[t])) = "detach"
    <2>1. /\ t \in Threads /\ stack[t] = <<>> /\ ~inherited
          /\ steps \in [Threads -> Places] /\ Doing[t] = "wait"
          /\ Tail(steps[t]) \in Places /\ StepOf(Tail(steps[t])) = "detach"
      BY <1>1, ClosingFacts DEF Closing, Following
    <2> QED
      BY <2>1 DEF Doing
  <1>3. CASE /\ steps' = [steps EXCEPT ![t] = Tail(steps[t])]
             /\ UNCHANGED diagVars
    <2>1. DiagInv' /\ UNCHANGED <<inherited, listening, counts, stack>>
      BY <1>3, SameDiagnostics DEF RuntimeInv
    <2>2. StillKnown
      BY <1>2, <2>1, KnownAtStep
    <2> QED
      BY <1>1, <1>2, <1>3, <2>1, <2>2, ClosingReports
  <1>4. CASE /\ steps' = [steps EXCEPT ![t] = <<"deadline">> \o Tail(steps[t])]
             /\ Increment(t, "shutdown.timeout")
    <2> DEFINE r == <<"deadline">> \o Tail(steps[t])
    <2>1. r \in Places /\ StepOf(r) = "deadline"
      <3>1. Tail(steps[t]) = <<"detach", "clear", "leave">>
        BY <1>2, WaitPlace
      <3>2. <<"deadline">> \o <<"detach", "clear", "leave">> \in Places
        BY DEF Places
      <3>3. StepOf(<<"deadline">> \o <<"detach", "clear", "leave">>) = "deadline"
        BY DeadlineFacts DEF StepsOn
      <3> QED
        BY <3>1, <3>2, <3>3
    <2>2. DiagInv'
      BY <1>2, <1>4, IncrementInv, LifecycleAssumption DEF RuntimeInv
    <2>3. /\ UNCHANGED <<inherited, listening, counts>>
          /\ \A u \in Threads \ {t} : stack'[u] = stack[u]
      BY <1>4 DEF Increment, Enter, RuntimeInv, DiagInv, DiagTypeOK
    <2>4. StillKnown
      BY <1>2, <2>3, KnownAtStep
    <2>5. steps' = [steps EXCEPT ![t] = r]
      BY <1>4
    <2> HIDE DEF r
    <2> QED
      BY <1>1, <2>1, <2>2, <2>3, <2>4, <2>5, ClosingReports
  <1> QED
    BY <1>3, <1>4 DEF Wait, Rest

\* The daemon gets a routine, and the thread that gave it goes on.
LEMMA StartDaemonInv ==
    ASSUME RuntimeInv, NEW t \in Callers, StartDaemon(t)
    PROVE  RuntimeInv'
  <1>1. /\ AtStep(t, "start")
        /\ steps' = [steps EXCEPT ![t] = Tail(steps[t]), ![Daemon] = BoundedShutdown]
        /\ self' = [self EXCEPT !.completed = FALSE]
        /\ alive' = alive \cup {Daemon}
        /\ UNCHANGED <<clock, inherited, listening, lock, counts, last, stack, made,
                       lines, identityVars, logger, history>>
    BY DEF StartDaemon
  <1>2. /\ t \in Threads /\ t # Daemon /\ Daemon \in Threads /\ Live
        /\ Doing[t] = "start" /\ stack[t] = <<>> /\ steps \in [Threads -> Places]
        /\ Tail(steps[t]) \in Places /\ StepOf(Tail(steps[t])) = "wait"
        /\ self \in Attributes /\ history \in Memory /\ logger \in HandlerState
        /\ history.closes = 1 /\ history.shutdowns = 0
    BY <1>1, ClosingFacts DEF Closing, Following
  <1>3. DiagInv'
    <2>1. DiagInv /\ alive' \in SUBSET Threads
      BY <1>1, <1>2 DEF RuntimeInv, DiagInv, DiagTypeOK
    <2> QED
      BY <1>1, <2>1, ThreadsChangeInv DEF ThreadsChange
  <1>4. IdentityInv' /\ process' = process
    BY <1>1, SameIdentities DEF RuntimeInv
  <1>5. /\ steps' \in [Threads -> Places]
        /\ Doing'[t] = "wait" /\ Doing'[Daemon] = "tracer"
        /\ \A u \in Threads \ {t, Daemon} : Doing'[u] = Doing[u]
    BY <1>1, <1>2, RoutineFacts DEF Doing
  <1>6. /\ self' \in Attributes /\ self'.lock = self.lock /\ self'.closed = self.closed
        /\ self'.instance = self.instance /\ self'.contexts = self.contexts
        /\ self'.delivery = self.delivery /\ self'.otel = self.otel
    BY <1>1, <1>2 DEF Attributes
  <1>7. StillKnown
    BY <1>1, <1>2, KnownAtStep
  <1>8. Doing'[t] \in Section
    BY <1>5 DEF Section
  <1>9. ShutdownStep(t)
    BY <1>1, <1>2, <1>3, <1>4, <1>5, <1>6, <1>8 DEF ShutdownStep
  <1>10. Doing[t] \in Closing \ {"detach"} /\ Doing'[t] \in Closing \ {"close"}
         /\ Doing'[t] # "start"
    BY <1>2, <1>5 DEF Closing
  <1> QED
    BY <1>1, <1>2, <1>6, <1>7, <1>9, <1>10, ClosingKept

\* A list in which no handler occurs twice is no longer than there are handlers.
LEMMA ListBound ==
    ASSUME HandlersInv, logger \in HandlerState
    PROVE  Len(logger.registered) \in 0..MaxHandlers
  <1> DEFINE n == Len(logger.registered)
             f == [i \in 1..n |-> logger.registered[i]]
  <1>1. /\ logger.registered \in Seq(Handlers) /\ n \in Nat /\ MaxHandlers \in Nat
        /\ \A i \in 1..n : logger.registered[i] \in 1..MaxHandlers
    BY LifecycleAssumption DEF HandlerState, Handlers
  <1>2. \A i, j \in 1..n : logger.registered[i] = logger.registered[j] => i = j
    BY DEF HandlersInv
  <1>3. f \in [1..n -> 1..MaxHandlers] /\ \A i, j \in 1..n : f[i] = f[j] => i = j
    BY <1>1, <1>2
  <1> HIDE DEF f, n
  <1>4. /\ IsFiniteSet(1..n) /\ IsFiniteSet(1..MaxHandlers)
        /\ Cardinality(1..n) = n /\ Cardinality(1..MaxHandlers) = MaxHandlers
    <2>1. \A m \in Nat : IsFiniteSet(1..m) /\ Cardinality(1..m) = m
      BY FS_Interval
    <2> QED
      BY <1>1, <2>1
  <1>5. ~(MaxHandlers < n)
    <2> SUFFICES ASSUME MaxHandlers < n PROVE FALSE
      OBVIOUS
    <2>1. \E x, y \in 1..n : x # y /\ f[x] = f[y]
      BY <1>3, <1>4, FS_PigeonHole
    <2> QED
      BY <1>3, <2>1
  <1> QED
    BY <1>1, <1>5 DEF n

\* The loop of _remove_logging_handlers goes on.
LEMMA DetachInv ==
    ASSUME RuntimeInv, NEW t \in Callers, Detach(t)
    PROVE  RuntimeInv'
  <1> DEFINE h == logger.registered[logger.cursor + 1]
  <1>1. /\ AtStep(t, "detach") /\ logger.cursor < Len(logger.registered)
        /\ UNCHANGED <<steps, identityVars, self, history>>
    BY DEF Detach
  <1>2. \/ /\ logger' = [logger EXCEPT !.cursor = logger.cursor + 1,
                                      !.attached = logger.attached \ {h}]
           /\ UNCHANGED diagVars
        \/ /\ logger' = [logger EXCEPT !.cursor = logger.cursor + 1]
           /\ Fails(t, "logging.handler_remove")
    BY DEF Detach
  <1>3. /\ t \in Threads /\ t # Daemon /\ Daemon \in Threads /\ Live
        /\ Doing[t] = "detach" /\ stack[t] = <<>> /\ ~inherited
        /\ steps \in [Threads -> Places]
        /\ self \in Attributes /\ history \in Memory /\ logger \in HandlerState
        /\ \A u \in Threads \ {t} : Doing[u] \notin Section
    BY <1>1, ClosingFacts DEF Closing
  <1>4. Doing' = Doing
    BY <1>1 DEF Doing
  <1>5. Reported(t, "logging.handler_remove")
    BY <1>2, <1>3, ReportedFacts DEF RuntimeInv, MayFail
  <1>6. StillKnown /\ DiagInv' /\ UNCHANGED <<inherited, listening>>
    BY <1>3, <1>5, KnownReported DEF Reported
  <1>7. IdentityInv' /\ process' = process
    BY <1>1, SameIdentities DEF RuntimeInv
  <1>8. /\ logger.registered \in Seq(Handlers) /\ logger.cursor \in Nat
        /\ logger.cursor + 1 \in 0..MaxHandlers
    <2>1. logger.registered \in Seq(Handlers) /\ logger.cursor \in Nat /\ MaxHandlers \in Nat
      BY <1>3, LifecycleAssumption DEF HandlerState
    <2>2. Len(logger.registered) \in 0..MaxHandlers
      BY <1>3, ListBound DEF RuntimeInv
    <2> QED
      BY <1>1, <2>1, <2>2
  <1>9. /\ logger' \in HandlerState /\ logger'.cursor = logger.cursor + 1
        /\ logger'.attached \subseteq logger.attached
        /\ UNCHANGED <<logger.registered, logger.mine, logger.made>>
    <2>1. logger.attached \in SUBSET Handlers /\ logger.attached \ {h} \in SUBSET Handlers
      BY <1>3 DEF HandlerState
    <2> HIDE DEF h
    <2>2. CASE logger' = [logger EXCEPT !.cursor = logger.cursor + 1,
                                        !.attached = logger.attached \ {h}]
      BY <1>3, <1>8, <2>1, <2>2 DEF HandlerState
    <2>3. CASE logger' = [logger EXCEPT !.cursor = logger.cursor + 1]
      BY <1>3, <1>8, <2>1, <2>3 DEF HandlerState
    <2> QED
      BY <1>2, <2>2, <2>3
  <1>10. ShutdownStep(t)
    BY <1>1, <1>3, <1>4, <1>6, <1>7, <1>9 DEF ShutdownStep, Section
  <1>11. /\ Live' /\ PlacesInv' /\ BirthInv' /\ RestartingInv' /\ OwnInv'
         /\ LifecycleTypeOK' /\ DiagInv' /\ IdentityInv'
    BY <1>10, ShutdownKept
  <1>12. LockInv' /\ ClosedInv'
    BY <1>1, <1>3, <1>4 DEF RuntimeInv, LockInv, ClosedInv
  <1>13. HandlersInv'
    BY <1>1, <1>3, <1>4, <1>8, <1>9 DEF RuntimeInv, HandlersInv
  <1>14. RemovalInv'
    <2>1. ASSUME NEW x \in logger'.attached \cap history'.installed
          PROVE  Counted' \/ Pending(t)' \/ Ahead(x)'
      <3>1. x \in logger.attached \cap history.installed
        BY <1>1, <1>9, <2>1
      <3>2. Counted \/ Ahead(x)
        BY <1>3, <3>1 DEF RuntimeInv, RemovalInv, Pending, Closing
      <3>3. CASE Counted
        BY <1>6, <3>3 DEF StillKnown
      <3>4. CASE Ahead(x)
        <4>1. PICK i \in 1..Len(logger.registered) :
                 i > logger.cursor /\ logger.registered[i] = x
          BY <3>4 DEF Ahead
        <4>2. CASE i > logger.cursor + 1
          BY <1>9, <4>1, <4>2 DEF Ahead
        <4>3. CASE i = logger.cursor + 1
          <5>1. x = h
            BY <4>1, <4>3
          <5>2. x \in logger'.attached
            BY <2>1
          <5>3. Fails(t, "logging.handler_remove")
            <6> HIDE DEF h
            <6>1. ASSUME logger' = [logger EXCEPT !.cursor = logger.cursor + 1,
                                                  !.attached = logger.attached \ {h}]
                  PROVE  FALSE
              <7>1. logger'.attached = logger.attached \ {h}
                BY <1>3, <6>1 DEF HandlerState
              <7> QED
                BY <5>1, <5>2, <7>1
            <6> QED
              BY <1>2, <6>1
          <5>4. Pending(t)'
            <6>1. /\ stack' = [stack EXCEPT ![t] = <<ReportCall("logging.handler_remove")>>]
                  /\ stack \in [Threads -> Seq(Calls)]
              BY <5>3 DEF Fails, Report, Enter, RuntimeInv, DiagInv, DiagTypeOK
            <6>2. stack'[t] = <<ReportCall("logging.handler_remove")>>
              BY <1>3, <6>1
            <6>3. Top(t)' = ReportCall("logging.handler_remove") /\ stack'[t] # <<>>
              BY <6>2 DEF Top
            <6> QED
              BY <6>3 DEF Pending, Removal, ReportCall, Call
          <5> QED
            BY <5>4
        <4> QED
          BY <1>8, <4>1, <4>2, <4>3
      <3> QED
        BY <3>2, <3>3, <3>4
    <2>2. \A u \in Threads \ {t} : Doing'[u] \notin Closing
      BY <1>3, <1>4 DEF Section, Closing
    <2>3. Doing'[t] \in Closing
      BY <1>3, <1>4 DEF Closing
    <2> QED
      BY <1>3, <2>1, <2>2, <2>3 DEF RemovalInv
  <1> QED
    BY <1>11, <1>12, <1>13, <1>14 DEF RuntimeInv

\* The end of shutdown: nothing is closed any more.
LEMMA EndingKept ==
    ASSUME RuntimeInv, NEW t \in Callers, ShutdownStep(t),
           self.closed, self'.closed, self'.lock = self.lock \/ Doing'[t] = "away",
           Doing[t] \in {"detach", "clear", "leave"}, Doing'[t] \in {"clear", "leave", "away"},
           \A u \in Threads \ {t} : Doing'[u] = Doing[u],
           UNCHANGED <<history.closes, history.shutdowns, history.installed, logger.attached>>,
           Doing[t] = "detach" \/ StillKnown,
           Doing[t] = "detach" => logger.attached \cap history.installed = {} \/ Counted',
           HandlersInv'
    PROVE  RuntimeInv'
  <1>1. /\ Live' /\ PlacesInv' /\ BirthInv' /\ RestartingInv' /\ OwnInv'
        /\ LifecycleTypeOK' /\ DiagInv' /\ IdentityInv'
    BY ShutdownKept
  <1>2. t \in Threads /\ t # Daemon /\ Daemon \in Threads /\ Live
    BY LifecycleAssumption DEF ShutdownStep
  <1>3. self.lock = t /\ \A u \in Threads \ {t} : Doing[u] \notin Section
    BY <1>2, SectionFacts DEF Section
  <1>4. LockInv'
    BY <1>3 DEF LockInv, Section
  <1>5. \A u \in Threads : /\ Doing[u] # "close" /\ Doing'[u] \notin Closing
                           /\ u # t => Doing[u] \notin Closing
    BY <1>3 DEF Section, Closing
  <1>6. ClosedInv'
    <2>1. Doing'[Daemon] = Doing[Daemon]
      BY <1>2
    <2>2. history'.closes = 1
      BY <1>2, <1>5 DEF RuntimeInv, ClosedInv
    <2>3. \A u \in Threads : Doing'[u] \notin {"close", "start"}
      BY <1>5 DEF Closing
    <2> QED
      BY <1>5, <2>1, <2>2, <2>3 DEF RuntimeInv, ClosedInv
  <1>7. RemovalInv'
    <2>1. logger.attached \cap history.installed = {} \/ Counted'
      <3>1. CASE Doing[t] = "detach"
        BY <3>1
      <3>2. CASE Doing[t] # "detach"
        <4>1. \A u \in Threads : Doing[u] \notin Closing
          BY <1>5, <3>2 DEF Closing
        <4> QED
          BY <1>2, <3>2, <4>1 DEF RuntimeInv, RemovalInv, StillKnown
      <3> QED
        BY <3>1, <3>2
    <2> QED
      BY <1>5, <2>1 DEF RemovalInv
  <1> QED
    BY <1>1, <1>4, <1>6, <1>7 DEF RuntimeInv

\* The steps at the end of shutdown.
LEMMA EndingStep ==
    ASSUME RuntimeInv, NEW t \in Callers, NEW s \in {"detach", "clear", "leave"}, Takes(t, s),
           UNCHANGED diagVars, self' \in Attributes,
           UNCHANGED <<self.instance, self.contexts, self.delivery, self.otel>>,
           logger' \in HandlerState,
           history' \in Memory, history'.touched = history.touched
    PROVE  /\ ShutdownStep(t) /\ StillKnown /\ t \in Threads /\ t # Daemon
           /\ Doing[t] = s /\ Doing'[t] = Following[s] /\ stack[t] = <<>>
           /\ Doing'[t] \in {"clear", "leave", "away"}
           /\ \A u \in Threads \ {t} : Doing'[u] = Doing[u]
           /\ self.lock = t /\ self.closed
           /\ \A u \in Threads \ {t} : Doing[u] \notin Section
           /\ counts' = counts
  <1>1. t \in Threads /\ t # Daemon /\ Daemon \in Threads
    BY LifecycleAssumption
  <1>2. /\ Live /\ Doing[t] = s /\ stack[t] = <<>> /\ steps \in [Threads -> Places]
    BY <1>1, LivingStep DEF Constructing, RestartSteps, Takes
  <1>3. /\ steps' \in [Threads -> Places] /\ Doing'[t] = Following[s]
        /\ \A u \in Threads \ {t} : Doing'[u] = Doing[u]
        /\ UNCHANGED identityVars
    BY <1>1, <1>2, TakesFacts
  <1>4. Doing'[t] \in {"clear", "leave", "away"}
    BY <1>3 DEF Following
  <1>5. DiagInv' /\ UNCHANGED <<inherited, listening, counts, stack>>
    BY SameDiagnostics DEF RuntimeInv
  <1>6. IdentityInv' /\ process' = process
    BY <1>3, SameIdentities DEF RuntimeInv
  <1>7. StillKnown
    BY <1>1, <1>2, <1>5, KnownAtStep
  <1>8. Doing'[Daemon] = Doing[Daemon] /\ Doing'[t] \in Section \cup {"away"}
    BY <1>1, <1>3, <1>4 DEF Section
  <1>9. ShutdownStep(t)
    BY <1>1, <1>2, <1>3, <1>5, <1>6, <1>8 DEF ShutdownStep
  <1>10. self.lock = t /\ self.closed /\ \A u \in Threads \ {t} : Doing[u] \notin Section
    <2>1. Doing[t] \in Section \ {"check"}
      BY <1>2 DEF Section
    <2> QED
      BY <1>1, <2>1, SectionFacts DEF RuntimeInv, ClosedInv
  <1> QED
    BY <1>1, <1>2, <1>3, <1>4, <1>5, <1>7, <1>9, <1>10

LEMMA DetachDoneInv ==
    ASSUME RuntimeInv, NEW t \in Callers, DetachDone(t)
    PROVE  RuntimeInv'
  <1>1. /\ Takes(t, "detach") /\ logger.cursor = Len(logger.registered)
        /\ UNCHANGED <<diagVars, self, logger, history>>
    BY DEF DetachDone
  <1>2. self \in Attributes /\ logger \in HandlerState /\ history \in Memory
    BY DEF RuntimeInv, LifecycleTypeOK
  <1>3. /\ ShutdownStep(t) /\ StillKnown /\ t \in Threads /\ t # Daemon
        /\ Doing[t] = "detach" /\ Doing'[t] = "clear" /\ stack[t] = <<>>
        /\ \A u \in Threads \ {t} : Doing'[u] = Doing[u]
        /\ self.lock = t /\ self.closed
    BY <1>1, <1>2, EndingStep DEF Following
  <1>4. HandlersInv'
    BY <1>1, <1>3, HandlersKept
  <1>5. logger.attached \cap history.installed = {} \/ Counted'
    <2>1. \A h : ~Ahead(h)
      BY <1>1, <1>2 DEF Ahead, HandlerState
    <2>2. ~Pending(t) /\ Doing[t] \in Closing
      BY <1>3 DEF Pending, Closing
    <2>3. \A h \in logger.attached \cap history.installed : Counted
      BY <1>3, <2>1, <2>2 DEF RuntimeInv, RemovalInv
    <2> QED
      BY <1>3, <2>3 DEF StillKnown
  <1> QED
    BY <1>1, <1>3, <1>4, <1>5, EndingKept

LEMMA ClearInv ==
    ASSUME RuntimeInv, NEW t \in Callers, Clear(t)
    PROVE  RuntimeInv'
  <1>1. /\ Takes(t, "clear")
        /\ logger' = [logger EXCEPT !.registered = <<>>, !.cursor = 0]
        /\ UNCHANGED <<diagVars, self, history>>
    BY DEF Clear, Logger
  <1>2. self \in Attributes /\ logger \in HandlerState /\ history \in Memory
    BY DEF RuntimeInv, LifecycleTypeOK
  <1>3. /\ logger' \in HandlerState
        /\ logger'.registered = <<>> /\ logger'.cursor = 0
        /\ UNCHANGED <<logger.attached, logger.mine, logger.made>>
    <2>1. <<>> \in Seq(Handlers) /\ 0 \in 0..MaxHandlers
      BY EmptySeq, LifecycleAssumption
    <2> QED
      BY <1>1, <1>2, <2>1 DEF HandlerState
  <1>4. /\ ShutdownStep(t) /\ StillKnown /\ t \in Threads /\ t # Daemon
        /\ Doing[t] = "clear" /\ Doing'[t] = "leave" /\ stack[t] = <<>>
        /\ \A u \in Threads \ {t} : Doing'[u] = Doing[u]
        /\ self.lock = t /\ self.closed
    BY <1>1, <1>2, <1>3, EndingStep DEF Following
  <1>5. HandlersInv'
    <2>1. Len(logger'.registered) = 0
      BY <1>3
    <2>2. \A u \in Threads : Doing'[u] = "register" => Doing[u] = "register"
      BY <1>4
    <2> QED
      BY <1>1, <1>3, <2>1, <2>2 DEF RuntimeInv, HandlersInv
  <1> QED
    BY <1>1, <1>3, <1>4, <1>5, EndingKept

LEMMA LeaveInv ==
    ASSUME RuntimeInv, NEW t \in Callers, Leave(t)
    PROVE  RuntimeInv'
  <1>1. /\ Takes(t, "leave")
        /\ self' = [self EXCEPT !.lock = IF self.lock = t THEN None ELSE self.lock]
        /\ history' = [history EXCEPT !.returned = TRUE]
        /\ UNCHANGED <<diagVars, logger>>
    BY DEF Leave
  <1>2. self \in Attributes /\ logger \in HandlerState /\ history \in Memory
    BY DEF RuntimeInv, LifecycleTypeOK
  <1>3. /\ self' \in Attributes /\ self'.closed = self.closed
        /\ UNCHANGED <<self.instance, self.contexts, self.delivery, self.otel>>
    BY <1>1, <1>2 DEF Attributes
  <1>4. /\ history' \in Memory
        /\ UNCHANGED <<history.closes, history.shutdowns, history.installed, history.touched>>
    BY <1>1, <1>2 DEF Memory
  <1>5. /\ ShutdownStep(t) /\ StillKnown /\ t \in Threads /\ t # Daemon
        /\ Doing[t] = "leave" /\ Doing'[t] = "away" /\ stack[t] = <<>>
        /\ \A u \in Threads \ {t} : Doing'[u] = Doing[u]
        /\ self.lock = t /\ self.closed
    BY <1>1, <1>2, <1>3, <1>4, EndingStep DEF Following
  <1>6. HandlersInv'
    BY <1>1, <1>4, <1>5, HandlersKept
  <1> QED
    BY <1>1, <1>3, <1>4, <1>5, <1>6, EndingKept

\* A step of the daemon.
LEMMA DaemonKept ==
    ASSUME RuntimeInv, NEW s \in Daemonic, Takes(Daemon, s), DiagInv', StillKnown,
           UNCHANGED <<listening, inherited, logger>>,
           self' \in Attributes,
           UNCHANGED <<self.lock, self.closed, self.instance, self.contexts, self.delivery,
                       self.otel>>,
           history' \in Memory,
           UNCHANGED <<history.returned, history.closes, history.touched, history.installed>>,
           history'.shutdowns = history.shutdowns \/ s = "tracer"
    PROVE  RuntimeInv'
  <1>1. Daemon \in Threads
    BY LifecycleAssumption
  <1>2. /\ Live /\ Doing[Daemon] = s /\ stack[Daemon] = <<>>
        /\ steps \in [Threads -> Places]
    BY <1>1, LivingStep DEF Daemonic, Constructing, RestartSteps, Takes
  <1>3. /\ steps' \in [Threads -> Places] /\ Doing'[Daemon] \in {"meter", "set", "away"}
        /\ \A u \in Threads \ {Daemon} : Doing'[u] = Doing[u]
        /\ UNCHANGED identityVars
    BY <1>1, <1>2, TakesFacts DEF Following, Daemonic
  <1>4. IdentityInv' /\ process' = process
    BY <1>3, SameIdentities DEF RuntimeInv
  <1>5. LiveStep
    <2>1. \A u \in Threads : Doing[u] \notin Constructing \cup RestartSteps
      BY <1>2 DEF Live, RuntimeInv, BirthInv
    <2> QED
      BY <1>2, <1>3, <1>4, <2>1 DEF LiveStep, RuntimeInv, OwnInv, Constructing, RestartSteps
  <1>6. BirthInv' /\ RestartingInv' /\ OwnInv' /\ Live'
    BY <1>5, LiveKept
  <1>7. PlacesInv'
    BY <1>3 DEF RuntimeInv, PlacesInv, Daemonic
  <1>8. LifecycleTypeOK'
    BY <1>3, <1>4, TypesKept DEF RuntimeInv, LifecycleTypeOK
  <1>9. /\ Doing[Daemon] \notin Section \cup Closing /\ Doing'[Daemon] \notin Section \cup Closing
        /\ Doing[Daemon] # "away" /\ Doing'[Daemon] # "tracer"
    BY <1>2, <1>3 DEF Section, Closing, Daemonic
  <1>10. LockInv'
    BY <1>3, <1>9 DEF RuntimeInv, LockInv
  <1>11. ClosedInv'
    <2>1. self.closed /\ \A u \in Threads : Doing[u] \notin {"close", "start"}
      BY <1>9 DEF RuntimeInv, ClosedInv
    <2>2. \A u \in Threads : Doing'[u] \notin {"close", "start"}
      BY <1>3, <2>1
    <2>3. \A u \in Threads : /\ Doing'[u] \in Section \ {"check"} => Doing[u] = Doing'[u]
                             /\ Doing'[u] \in Closing => Doing[u] = Doing'[u]
      BY <1>3, <1>9
    <2> QED
      BY <1>2, <1>9, <2>1, <2>2, <2>3 DEF RuntimeInv, ClosedInv
  <1>12. HandlersInv'
    <2>1. \A u \in Threads : /\ Doing'[u] = "register" => Doing[u] = "register"
                             /\ Doing[u] \in {"detach", "clear"}
                                   => Doing'[u] \in {"detach", "clear"}
      BY <1>3, <1>9 DEF Section
    <2> QED
      BY <2>1, HandlersKept
  <1>13. RemovalInv'
    <2>1. \A u \in Threads : Doing'[u] \in Closing <=> Doing[u] \in Closing
      BY <1>3, <1>9
    <2>2. \A h : Ahead(h) => Ahead(h)'
      BY DEF Ahead
    <2> QED
      BY <1>2, <2>1, <2>2 DEF RuntimeInv, RemovalInv, StillKnown
  <1> QED
    BY <1>4, <1>6, <1>7, <1>8, <1>10, <1>11, <1>12, <1>13 DEF RuntimeInv

LEMMA DaemonInv ==
    ASSUME RuntimeInv, DaemonStep
    PROVE  RuntimeInv'
  <1>1. PICK s \in Daemonic : AtStep(Daemon, s) /\ Takes(Daemon, s)
    BY DEF DaemonStep, ShutTracer, ShutMeter, SetCompleted, Takes, Daemonic
  <1>2. /\ Daemon \in Threads /\ self \in Attributes /\ history \in Memory
    BY LifecycleAssumption DEF RuntimeInv, LifecycleTypeOK
  <1>3. /\ Doing[Daemon] = s /\ stack[Daemon] = <<>> /\ ~inherited
        /\ s \in {"tracer", "meter", "set"}
    BY <1>1, <1>2, LivingStep DEF Daemonic, Constructing, RestartSteps
  <1>4. CASE ShutTracer(Daemon)
    <2>1. /\ Takes(Daemon, "tracer")
          /\ history' = [history EXCEPT !.shutdowns = history.shutdowns + 1]
          /\ MayFail(Daemon, "otel.trace_shutdown") /\ UNCHANGED <<self, logger>>
      BY <1>4 DEF ShutTracer
    <2>2. history.shutdowns = 0
      <3>1. Doing[Daemon] = "tracer"
        BY <1>2, <2>1, LivingStep DEF Takes, Constructing, RestartSteps
      <3> QED
        BY <3>1 DEF RuntimeInv, ClosedInv
    <2>3. /\ history' \in Memory
          /\ UNCHANGED <<history.returned, history.closes, history.touched, history.installed>>
      BY <1>2, <2>1, <2>2 DEF Memory
    <2>4. Reported(Daemon, "otel.trace_shutdown")
      BY <1>2, <1>3, <2>1, ReportedFacts DEF RuntimeInv
    <2>5. StillKnown /\ DiagInv' /\ UNCHANGED <<inherited, listening>>
      BY <1>2, <1>3, <2>4, KnownReported DEF Reported
    <2> QED
      BY <1>2, <2>1, <2>3, <2>5, DaemonKept DEF Daemonic
  <1>5. CASE ShutMeter(Daemon)
    <2>1. /\ Takes(Daemon, "meter") /\ MayFail(Daemon, "otel.metric_shutdown")
          /\ UNCHANGED <<self, logger, history>>
      BY <1>5 DEF ShutMeter
    <2>2. Reported(Daemon, "otel.metric_shutdown")
      BY <1>2, <1>3, <2>1, ReportedFacts DEF RuntimeInv
    <2>3. StillKnown /\ DiagInv' /\ UNCHANGED <<inherited, listening>>
      BY <1>2, <1>3, <2>2, KnownReported DEF Reported
    <2> QED
      BY <1>2, <2>1, <2>3, DaemonKept DEF Daemonic
  <1>6. CASE SetCompleted(Daemon)
    <2>1. /\ Takes(Daemon, "set") /\ self' = [self EXCEPT !.completed = TRUE]
          /\ UNCHANGED <<diagVars, logger, history>>
      BY <1>6 DEF SetCompleted, Sets
    <2>2. /\ self' \in Attributes
          /\ UNCHANGED <<self.lock, self.closed, self.instance, self.contexts, self.delivery,
                         self.otel>>
      BY <1>2, <2>1 DEF Attributes
    <2>3. DiagInv' /\ UNCHANGED <<inherited, listening, counts, stack>>
      BY <2>1, SameDiagnostics DEF RuntimeInv
    <2>4. StillKnown
      BY <1>2, <1>3, <2>3, KnownAtStep
    <2> QED
      BY <1>2, <2>1, <2>2, <2>3, <2>4, DaemonKept DEF Daemonic
  <1> QED
    BY <1>4, <1>5, <1>6 DEF DaemonStep
-------------------------------------------------------------------------------
(* Construction, copies and restarts *)

\* The thread that constructs or restarts the runtime.
LEMMA AloneFacts ==
    ASSUME RuntimeInv, NEW t \in Callers, Doing[t] \in Constructing \cup RestartSteps
    PROVE  /\ t \in Threads /\ t # Daemon /\ Alone(t) /\ ~Live
           /\ steps \in [Threads -> Places]
           /\ self \in Attributes /\ history \in Memory /\ logger \in HandlerState
           /\ self.instance # NoIdentity
           /\ Doing[t] \notin {"lock", "diagnostics"} => ~inherited
  <1>1. t \in Threads /\ t # Daemon
    BY LifecycleAssumption
  <1>2. Alone(t) /\ ~Live
    BY <1>1 DEF RuntimeInv, BirthInv, RestartingInv, Live
  <1>3. self.instance # NoIdentity
    BY <1>1 DEF RuntimeInv, BirthInv, Constructing, RestartSteps
  <1>4. Doing[t] \notin {"lock", "diagnostics"} => ~inherited
    BY <1>1 DEF RuntimeInv, RestartingInv, Constructing, RestartSteps
  <1> QED
    BY <1>1, <1>2, <1>3, <1>4 DEF RuntimeInv, PlacesInv, LifecycleTypeOK

\* What such a step leaves of the rest.
LEMMA AloneKept ==
    ASSUME RuntimeInv, NEW t \in Callers, Alone(t),
           Doing[t] \in {"away"} \cup Constructing \cup RestartSteps,
           Doing'[t] \in {"away", "scan"} \cup Constructing \cup RestartSteps,
           steps' \in [Threads -> Places], \A u \in Threads \ {t} : Doing'[u] = Doing[u],
           DiagInv', IdentityInv', self' \in Attributes,
           logger' \in HandlerState,
           UNCHANGED <<logger.attached, logger.registered, logger.cursor, logger.made>>,
           history' \in Memory, history'.installed = history.installed,
           history'.returned => self'.closed,
           ~self'.closed => history'.closes = 0 /\ history'.shutdowns = 0,
           Live' => ~self'.closed,
           BirthInv', RestartingInv', OwnInv'
    PROVE  RuntimeInv'
  <1>1. /\ t \in Threads /\ t # Daemon /\ Daemon \in Threads
    BY LifecycleAssumption
  <1>2. /\ \A u \in Threads : Doing[u] \notin Section \cup Closing \cup {"register"}
        /\ \A u \in Threads : Doing'[u] \notin Section \cup Closing \cup {"register"}
        /\ Doing'[t] \notin Daemonic
    BY <1>1 DEF Alone, Section, Closing, Constructing, RestartSteps, Daemonic
  <1>3. Doing'[Daemon] = "away"
    BY <1>1 DEF Alone
  <1>4. PlacesInv'
    BY <1>1, <1>2, <1>3 DEF RuntimeInv, PlacesInv
  <1>5. LockInv'
    BY <1>2 DEF LockInv
  <1>6. ClosedInv'
    <2>1. \A u \in Threads : /\ Doing'[u] \notin Section \ {"check"} /\ Doing'[u] \notin Closing
                             /\ Doing'[u] # "close" /\ Doing'[u] \notin {"close", "start"}
      BY <1>2 DEF Closing
    <2> QED
      BY <1>3, <2>1 DEF ClosedInv
  <1>7. HandlersInv'
    <2>1. logger.cursor = 0
      <3>1. \A u \in Threads : Doing[u] \notin {"detach", "clear"}
        BY <1>2 DEF Section
      <3> QED
        BY <3>1 DEF RuntimeInv, HandlersInv
    <2>2. \A u \in Threads : Doing'[u] # "register"
      BY <1>2
    <2> QED
      BY <2>1, <2>2 DEF RuntimeInv, HandlersInv
  <1>8. RemovalInv'
    BY <1>2 DEF RemovalInv
  <1>9. LifecycleTypeOK'
    BY TypesKept
  <1> QED
    BY <1>4, <1>5, <1>6, <1>7, <1>8, <1>9 DEF RuntimeInv

\* An identifier is asked for or stored.
LEMMA IdentifyInv ==
    ASSUME RuntimeInv, NEW t \in Callers, Identify(t)
    PROVE  RuntimeInv'
  <1>1. UNCHANGED <<diagVars, runtimeVars>> /\ (Ask(t) \/ Store(t))
    BY DEF Identify
  <1>2. UNCHANGED <<steps, self, logger, history>>
    BY <1>1 DEF runtimeVars
  <1>3. IdentityInv' /\ process' = process
    BY <1>1, AskInv, StoreInv DEF RuntimeInv, Ask, Store
  <1>4. DiagInv' /\ UNCHANGED <<inherited, listening, counts, stack>>
    BY <1>1, SameDiagnostics DEF RuntimeInv
  <1>5. Doing' = Doing /\ (Live' => Live)
    BY <1>2, <1>4 DEF Doing, Live
  <1>6. StillKnown /\ ShutdownParts
    BY <1>2, <1>4 DEF StillKnown, Counted, Pending, Top, ShutdownParts
  <1>7. LockInv' /\ ClosedInv' /\ HandlersInv' /\ RemovalInv'
    BY <1>2, <1>5, <1>6, InsideKept
  <1>8. BirthInv' /\ RestartingInv' /\ OwnInv' /\ PlacesInv'
    BY <1>2, <1>3, <1>4, <1>5
       DEF RuntimeInv, BirthInv, RestartingInv, OwnInv, PlacesInv, Alone
  <1>9. LifecycleTypeOK'
    BY <1>2, <1>3, <1>4, <1>8, TypesKept DEF RuntimeInv, LifecycleTypeOK, PlacesInv
  <1> QED
    BY <1>3, <1>4, <1>7, <1>8, <1>9 DEF RuntimeInv

LEMMA ConfigureInv ==
    ASSUME RuntimeInv, NEW t \in Callers, Configure(t)
    PROVE  RuntimeInv'
  <1>1. PICK g \in given :
           /\ g.process = process
           /\ self' = [self EXCEPT !.instance = g.id, !.contexts = process]
    BY DEF Configure, Sets
  <1>2. /\ Away(t) /\ self.instance = NoIdentity
        /\ steps' = [steps EXCEPT ![t] = Configuring]
        /\ UNCHANGED <<diagVars, identityVars, logger, history>>
    BY DEF Configure, Sets, Rest
  <1>3. /\ t \in Threads /\ steps \in [Threads -> Places]
        /\ self \in Attributes /\ history \in Memory /\ logger \in HandlerState
    BY LifecycleAssumption DEF RuntimeInv, PlacesInv, LifecycleTypeOK
  <1>4. /\ ~listening /\ ~inherited /\ ~self.closed
        /\ \A u \in Threads : Doing[u] = "away" /\ stack[u] = <<>>
    BY <1>2 DEF RuntimeInv, BirthInv
  <1>5. /\ steps' \in [Threads -> Places] /\ Doing'[t] = "delivery"
        /\ \A u \in Threads \ {t} : Doing'[u] = Doing[u]
    BY <1>2, <1>3, DoingFacts, RoutineFacts
  <1>6. DiagInv' /\ UNCHANGED <<inherited, listening, counts, stack>>
    BY <1>2, SameDiagnostics DEF RuntimeInv
  <1>7. IdentityInv' /\ process' = process
    BY <1>2, SameIdentities DEF RuntimeInv
  <1>8. /\ g.id \in Nat /\ g.id # NoIdentity /\ process \in 0..MaxProcesses
    BY GivenFacts, IdentityAssumption DEF RuntimeInv, IdentityInv, IdentityTypeOK
  <1>9. /\ self' \in Attributes /\ self'.instance = g.id /\ self'.contexts = process
        /\ self'.closed = self.closed /\ self'.otel = self.otel
    BY <1>1, <1>3, <1>8 DEF Attributes
  <1>10. Alone(t) /\ Alone(t)'
    BY <1>4, <1>5, <1>6 DEF Alone
  <1>11. BirthInv'
    BY <1>4, <1>5, <1>6, <1>7, <1>8, <1>9, <1>10 DEF BirthInv, Constructing
  <1>12. RestartingInv'
    BY <1>4, <1>5, <1>6 DEF RestartingInv, RestartSteps
  <1>13. OwnInv' /\ ~Live'
    BY <1>2, <1>4, <1>6, <1>7, <1>9 DEF RuntimeInv, OwnInv, Live
  <1>14. ~history.returned /\ history.closes = 0 /\ history.shutdowns = 0
    BY <1>4 DEF RuntimeInv, ClosedInv
  <1>15. Doing'[t] \in {"away", "scan"} \cup Constructing \cup RestartSteps
    BY <1>5 DEF Constructing
  <1> QED
    BY <1>2, <1>3, <1>4, <1>5, <1>6, <1>7, <1>9, <1>10, <1>11, <1>12, <1>13, <1>14, <1>15,
       AloneKept

\* What a step of a construction or a restart does to the routine.
LEMMA AloneStep ==
    ASSUME RuntimeInv, NEW t \in Callers, NEW s, Takes(t, s),
           s \in {"otel", "delivery"} \cup Constructing \cup RestartSteps
    PROVE  /\ Doing[t] \in Constructing \cup RestartSteps /\ stack[t] = <<>>
           /\ s = IF Doing[t] = "redeliver" THEN "delivery"
                  ELSE IF Doing[t] = "reotel" THEN "otel" ELSE Doing[t]
           /\ steps' \in [Threads -> Places] /\ Doing'[t] = Following[Doing[t]]
           /\ \A u \in Threads \ {t} : Doing'[u] = Doing[u] /\ Doing[u] = "away" /\ stack[u] = <<>>
           /\ Doing'[t] \in {"away", "scan"} \cup Constructing \cup RestartSteps
           /\ IdentityInv' /\ process' = process
  <1>1. t \in Threads /\ steps \in [Threads -> Places]
    BY LifecycleAssumption DEF RuntimeInv, PlacesInv
  <1>2. /\ stack[t] = <<>> /\ Doing[t] \in DOMAIN Following
        /\ s = IF Doing[t] = "redeliver" THEN "delivery"
               ELSE IF Doing[t] = "reotel" THEN "otel" ELSE Doing[t]
        /\ steps' \in [Threads -> Places] /\ Doing'[t] = Following[Doing[t]]
        /\ \A u \in Threads \ {t} : Doing'[u] = Doing[u]
        /\ UNCHANGED identityVars
    BY <1>1, TakesFacts
  <1>3. Doing[t] \in Constructing \cup RestartSteps
    BY <1>2 DEF Constructing, RestartSteps
  <1>4. \A u \in Threads \ {t} : Doing[u] = "away" /\ stack[u] = <<>>
    BY <1>3, AloneFacts DEF Alone
  <1>5. Doing'[t] \in {"away", "scan"} \cup Constructing \cup RestartSteps
    BY <1>2, <1>3 DEF Constructing, RestartSteps, Following
  <1>6. IdentityInv' /\ process' = process
    BY <1>2, SameIdentities DEF RuntimeInv
  <1> QED
    BY <1>2, <1>3, <1>4, <1>5, <1>6

\* A failure reported there is not passed on.
LEMMA QuietReport ==
    ASSUME RuntimeInv, NEW t \in Threads, stack[t] = <<>>, NEW o, o \notin Metered,
           Reported(t, o)
    PROVE  \A n \in NamesIn(stack'[t]) : ~Forwarded(n)
  <1>1. CASE stack' = stack
    <2>1. NamesIn(stack'[t]) = {}
      BY <1>1 DEF NamesIn
    <2> QED
      BY <2>1
  <1>2. CASE stack'[t] = <<ReportCall(o)>>
    <2>1. NamesIn(stack'[t]) = {ReportCall(o).name}
      BY <1>2 DEF NamesIn
    <2> QED
      BY <2>1 DEF ReportCall, Call, Failure, Forwarded
  <1> QED
    BY <1>1, <1>2 DEF Reported

LEMMA NewDeliveryInv ==
    ASSUME RuntimeInv, NEW t \in Callers, NewDelivery(t)
    PROVE  RuntimeInv'
  <1>1. /\ Takes(t, "delivery")
        /\ self' = [self EXCEPT !.delivery = process]
        /\ history' = [history EXCEPT !.closes = 0]
        /\ MayFail(t, "delivery.configure")
        /\ UNCHANGED logger
    BY DEF NewDelivery
  <1>2. /\ Doing[t] \in Constructing \cup RestartSteps /\ stack[t] = <<>>
        /\ Doing[t] \in {"delivery", "redeliver"}
        /\ steps' \in [Threads -> Places] /\ Doing'[t] = Following[Doing[t]]
        /\ \A u \in Threads \ {t} : Doing'[u] = Doing[u] /\ Doing[u] = "away" /\ stack[u] = <<>>
        /\ Doing'[t] \in {"away", "scan"} \cup Constructing \cup RestartSteps
        /\ IdentityInv' /\ process' = process
    BY <1>1, AloneStep
  <1>3. /\ t \in Threads /\ t # Daemon /\ Alone(t) /\ ~Live /\ ~inherited
        /\ self \in Attributes /\ history \in Memory /\ logger \in HandlerState
        /\ self.instance # NoIdentity
    BY <1>2, AloneFacts
  <1>4. Doing'[t] = IF Doing[t] = "delivery" THEN "otel" ELSE "reotel"
    BY <1>2 DEF Following
  <1>5. Reported(t, "delivery.configure")
    BY <1>1, <1>3, ReportedFacts DEF RuntimeInv
  <1>6. /\ DiagInv' /\ UNCHANGED <<inherited, listening>>
        /\ \A u \in Threads \ {t} : stack'[u] = stack[u]
    BY <1>5 DEF Reported
  <1>7. /\ self' \in Attributes /\ self'.delivery = process
        /\ UNCHANGED <<self.instance, self.contexts, self.otel, self.closed>>
    <2>1. process \in 0..MaxProcesses
      BY IdentityAssumption DEF RuntimeInv, IdentityInv, IdentityTypeOK
    <2> QED
      BY <1>1, <1>3, <2>1 DEF Attributes
  <1>8. /\ history' \in Memory /\ history'.closes = 0
        /\ UNCHANGED <<history.returned, history.shutdowns, history.touched, history.installed>>
    BY <1>1, <1>3 DEF Memory
  <1>9. Alone(t)'
    BY <1>2, <1>6 DEF Alone
  <1>10. \A u \in Threads : Doing'[u] \in {"away", "otel", "reotel"}
    BY <1>2, <1>4
  <1>11. BirthInv'
    <2>1. CASE Doing[t] = "delivery"
      <3>1. ~listening /\ ~self.closed /\ self.contexts = process
        BY <1>3, <2>1 DEF RuntimeInv, BirthInv, Constructing
      <3>2. \A u \in Threads : Doing'[u] = IF u = t THEN "otel" ELSE "away"
        BY <1>2, <1>4, <2>1
      <3> QED
        BY <1>2, <1>3, <1>6, <1>7, <1>9, <3>1, <3>2 DEF BirthInv, Constructing
    <2>2. CASE Doing[t] = "redeliver"
      <3>1. listening
        BY <1>3, <2>2 DEF RuntimeInv, RestartingInv, RestartSteps
      <3>2. \A u \in Threads : Doing'[u] \notin Constructing
        BY <1>2, <1>4, <2>2 DEF Constructing
      <3> QED
        BY <1>3, <1>6, <1>7, <3>1, <3>2 DEF BirthInv
    <2> QED
      BY <1>2, <2>1, <2>2
  <1>12. RestartingInv'
    <2>1. CASE Doing[t] = "delivery"
      BY <1>2, <1>3, <1>4, <1>6, <2>1 DEF RestartingInv, RestartSteps
    <2>2. CASE Doing[t] = "redeliver"
      <3>1. listening /\ self.contexts = process
        BY <1>3, <2>2 DEF RuntimeInv, RestartingInv, RestartSteps
      <3>2. \A u \in Threads : Doing'[u] = IF u = t THEN "reotel" ELSE "away"
        BY <1>2, <1>4, <2>2
      <3> QED
        BY <1>2, <1>3, <1>6, <1>7, <1>8, <1>9, <3>1, <3>2 DEF RestartingInv, RestartSteps
    <2> QED
      BY <1>2, <2>1, <2>2
  <1>13. ~Live'
    <2>1. CASE Doing[t] = "delivery"
      <3>1. ~listening
        BY <1>3, <2>1 DEF RuntimeInv, BirthInv, Constructing
      <3> QED
        BY <1>6, <3>1 DEF Live
    <2>2. CASE Doing[t] = "redeliver"
      BY <1>3, <1>4, <2>2 DEF Live, RestartSteps
    <2> QED
      BY <1>2, <2>1, <2>2
  <1>14. OwnInv'
    <2>1. \A n \in NamesIn(stack'[t]) : ~Forwarded(n)
      BY <1>2, <1>3, <1>5, QuietReport, LifecycleAssumption
    <2>2. \A u \in Threads \ {t} : NamesIn(stack'[u]) = {}
      BY <1>2, <1>6 DEF NamesIn
    <2> QED
      BY <1>8, <1>13, <2>1, <2>2 DEF RuntimeInv, OwnInv
  <1>15. /\ history.returned => self.closed
         /\ ~self.closed => history.shutdowns = 0
    BY DEF RuntimeInv, ClosedInv
  <1>16. UNCHANGED <<logger.attached, logger.registered, logger.cursor, logger.made>>
    BY <1>1
  <1> QED
    BY <1>1, <1>2, <1>3, <1>6, <1>7, <1>8, <1>11, <1>12, <1>13, <1>14, <1>15, <1>16, AloneKept

LEMMA NewOtelInv ==
    ASSUME RuntimeInv, NEW t \in Callers, NewOtel(t)
    PROVE  RuntimeInv'
  <1> DEFINE live == [process |-> process, id |-> self.instance]
  <1>1. /\ Takes(t, "otel")
        /\ self' = [self EXCEPT !.otel = process]
        /\ UNCHANGED logger
        /\ MayFail(t, "otel.runtime")
        /\ history' \in {[history EXCEPT !.shutdowns = 0,
                                         !.published = history.published \cup {live}],
                         [history EXCEPT !.shutdowns = 0]}
    BY DEF NewOtel, MayFail
  <1>2. /\ Doing[t] \in Constructing \cup RestartSteps /\ stack[t] = <<>>
        /\ Doing[t] \in {"otel", "reotel"}
        /\ steps' \in [Threads -> Places] /\ Doing'[t] = Following[Doing[t]]
        /\ \A u \in Threads \ {t} : Doing'[u] = Doing[u] /\ Doing[u] = "away" /\ stack[u] = <<>>
        /\ Doing'[t] \in {"away", "scan"} \cup Constructing \cup RestartSteps
        /\ IdentityInv' /\ process' = process
    BY <1>1, AloneStep
  <1>3. /\ t \in Threads /\ t # Daemon /\ Alone(t) /\ ~Live /\ ~inherited
        /\ self \in Attributes /\ history \in Memory /\ logger \in HandlerState
        /\ self.instance # NoIdentity
    BY <1>2, AloneFacts
  <1>4. Doing'[t] = IF Doing[t] = "otel" THEN "listener" ELSE "open"
    BY <1>2 DEF Following
  <1>5. Reported(t, "otel.runtime")
    BY <1>1, <1>3, ReportedFacts DEF RuntimeInv
  <1>6. /\ DiagInv' /\ UNCHANGED <<inherited, listening>>
        /\ \A u \in Threads \ {t} : stack'[u] = stack[u]
    BY <1>5 DEF Reported
  <1>7. /\ self' \in Attributes /\ self'.otel = process
        /\ UNCHANGED <<self.instance, self.contexts, self.delivery, self.closed>>
    <2>1. process \in 0..MaxProcesses
      BY IdentityAssumption DEF RuntimeInv, IdentityInv, IdentityTypeOK
    <2> QED
      BY <1>1, <1>3, <2>1 DEF Attributes
  <1>8. /\ history' \in Memory /\ history'.shutdowns = 0
        /\ UNCHANGED <<history.returned, history.closes, history.touched, history.installed>>
    <2>1. live \in [process : 1..MaxProcesses, id : Nat]
      <3>1. process \in 1..MaxProcesses /\ self.instance \in Nat
        BY <1>3 DEF RuntimeInv, IdentityInv, IdentityTypeOK, Attributes
      <3> QED
        BY <3>1
    <2>2. history.published \cup {live} \in SUBSET [process : 1..MaxProcesses, id : Nat]
      BY <1>3, <2>1 DEF Memory
    <2> DEFINE p == history.published \cup {live}
               Q == SUBSET [process : 1..MaxProcesses, id : Nat]
    <2>3. /\ p \in Q
          /\ history' \in {[history EXCEPT !.shutdowns = 0, !.published = p],
                           [history EXCEPT !.shutdowns = 0]}
      BY <1>1, <2>2
    <2>6. Memory = [restarts : 0..MaxRestarts, routines : 0..MaxRoutines, returned : BOOLEAN,
                    closes : 0..1, shutdowns : 0..1, touched : SUBSET (1..MaxProcesses),
                    published : Q, installed : SUBSET Handlers]
      BY DEF Memory
    <2> HIDE DEF p, live, Q
    <2>4. CASE history' = [history EXCEPT !.shutdowns = 0, !.published = p]
      <3>1. /\ history'.published = p /\ history'.shutdowns = 0
            /\ UNCHANGED <<history.restarts, history.routines, history.returned,
                           history.closes, history.touched, history.installed>>
        BY <1>3, <2>4, <2>6
      <3>2. history' = [restarts |-> history.restarts, routines |-> history.routines,
                        returned |-> history.returned, closes |-> history.closes,
                        shutdowns |-> 0, touched |-> history.touched,
                        published |-> p, installed |-> history.installed]
        BY <1>3, <2>4, <2>6
      <3>3. history' \in Memory
        BY <1>3, <2>3, <2>6, <3>2
      <3> QED
        BY <3>1, <3>3
    <2>5. CASE history' = [history EXCEPT !.shutdowns = 0]
      BY <1>3, <2>5, <2>6
    <2> QED
      BY <2>3, <2>4, <2>5
  <1> HIDE DEF live
  <1>9. Alone(t)'
    BY <1>2, <1>6 DEF Alone
  <1>10. BirthInv'
    <2>1. CASE Doing[t] = "otel"
      <3>1. ~listening /\ ~self.closed /\ self.contexts = process /\ self.delivery = process
        BY <1>3, <2>1 DEF RuntimeInv, BirthInv, Constructing
      <3>2. \A u \in Threads : Doing'[u] = IF u = t THEN "listener" ELSE "away"
        BY <1>2, <1>4, <2>1
      <3> QED
        BY <1>2, <1>3, <1>6, <1>7, <1>9, <3>1, <3>2 DEF BirthInv, Constructing
    <2>2. CASE Doing[t] = "reotel"
      <3>1. listening
        BY <1>3, <2>2 DEF RuntimeInv, RestartingInv, RestartSteps
      <3>2. \A u \in Threads : Doing'[u] \notin Constructing
        BY <1>2, <1>4, <2>2 DEF Constructing
      <3> QED
        BY <1>3, <1>6, <1>7, <3>1, <3>2 DEF BirthInv
    <2> QED
      BY <1>2, <2>1, <2>2
  <1>11. RestartingInv'
    <2>1. CASE Doing[t] = "otel"
      BY <1>2, <1>3, <1>4, <1>6, <2>1 DEF RestartingInv, RestartSteps
    <2>2. CASE Doing[t] = "reotel"
      <3>1. /\ listening /\ self.contexts = process /\ self.delivery = process
            /\ history.closes = 0
        BY <1>3, <2>2 DEF RuntimeInv, RestartingInv, RestartSteps
      <3>2. \A u \in Threads : Doing'[u] = IF u = t THEN "open" ELSE "away"
        BY <1>2, <1>4, <2>2
      <3> QED
        BY <1>2, <1>3, <1>6, <1>7, <1>8, <1>9, <3>1, <3>2 DEF RestartingInv, RestartSteps
    <2> QED
      BY <1>2, <2>1, <2>2
  <1>12. ~Live'
    <2>1. CASE Doing[t] = "otel"
      <3>1. ~listening
        BY <1>3, <2>1 DEF RuntimeInv, BirthInv, Constructing
      <3> QED
        BY <1>6, <3>1 DEF Live
    <2>2. CASE Doing[t] = "reotel"
      BY <1>3, <1>4, <2>2 DEF Live, RestartSteps
    <2> QED
      BY <1>2, <2>1, <2>2
  <1>13. OwnInv'
    BY <1>2, <1>7, <1>8, <1>12 DEF RuntimeInv, OwnInv
  <1>14. /\ history.returned => self.closed
         /\ ~self.closed => history.closes = 0
    BY DEF RuntimeInv, ClosedInv
  <1>15. UNCHANGED <<logger.attached, logger.registered, logger.cursor, logger.made>>
    BY <1>1
  <1> QED
    BY <1>1, <1>2, <1>3, <1>6, <1>7, <1>8, <1>10, <1>11, <1>12, <1>13, <1>14, <1>15, AloneKept

\* The end of construction.
LEMMA ListenerInv ==
    ASSUME RuntimeInv, NEW t \in Callers, Listener(t)
    PROVE  RuntimeInv'
  <1>1. Takes(t, "listener") /\ AddListener /\ UNCHANGED <<self, logger, history>>
    BY DEF Listener
  <1>2. /\ Doing[t] \in Constructing \cup RestartSteps /\ Doing[t] = "listener"
        /\ steps' \in [Threads -> Places] /\ Doing'[t] = Following[Doing[t]]
        /\ \A u \in Threads \ {t} : Doing'[u] = Doing[u] /\ Doing[u] = "away" /\ stack[u] = <<>>
        /\ Doing'[t] \in {"away", "scan"} \cup Constructing \cup RestartSteps
        /\ IdentityInv' /\ process' = process
    BY <1>1, AloneStep DEF Constructing
  <1>3. /\ t \in Threads /\ t # Daemon /\ Alone(t)
        /\ self \in Attributes /\ history \in Memory /\ logger \in HandlerState
        /\ self.instance # NoIdentity /\ ~inherited
    BY <1>2, AloneFacts
  <1>4. /\ ~self.closed /\ self.contexts = process /\ self.delivery = process
        /\ self.otel = process
    BY <1>2, <1>3 DEF RuntimeInv, BirthInv, Constructing
  <1>5. DiagInv' /\ listening' /\ inherited' = inherited
    BY <1>1, AddListenerInv DEF RuntimeInv, AddListener
  <1>6. \A u \in Threads : Doing'[u] \notin Constructing \cup RestartSteps
    BY <1>2 DEF Constructing, RestartSteps, Following
  <1>7. BirthInv' /\ RestartingInv' /\ OwnInv'
    BY <1>1, <1>2, <1>3, <1>4, <1>5, <1>6 DEF BirthInv, RestartingInv, RuntimeInv, OwnInv
  <1>8. /\ history.returned => self.closed
        /\ ~self.closed => history.closes = 0 /\ history.shutdowns = 0
    BY DEF RuntimeInv, ClosedInv
  <1> QED
    BY <1>1, <1>2, <1>3, <1>4, <1>5, <1>7, <1>8, AloneKept

\* A restart begins when nothing else runs.
LEMMA RestartBegins ==
    ASSUME RuntimeInv, NEW t \in Callers, Restart(t)
    PROVE  RuntimeInv'
  <1>1. /\ \A u \in Threads : Idle(u) /\ steps[u] = <<>>
        /\ inherited \/ (Ready /\ self.closed)
        /\ history.restarts < MaxRestarts
        /\ history' = [history EXCEPT !.restarts = history.restarts + 1]
        /\ steps' = [steps EXCEPT ![t] = Restarting]
        /\ UNCHANGED <<diagVars, identityVars, self, logger>>
    BY DEF Restart, Rest
  <1>2. /\ t \in Threads /\ steps \in [Threads -> Places]
        /\ self \in Attributes /\ history \in Memory /\ logger \in HandlerState
    BY LifecycleAssumption DEF RuntimeInv, PlacesInv, LifecycleTypeOK
  <1>3. \A u \in Threads : Doing[u] = "away" /\ stack[u] = <<>>
    BY <1>1, <1>2, AwayFacts DEF Idle
  <1>4. listening /\ self.instance # NoIdentity
    <2>1. listening
      BY <1>1 DEF Ready, RuntimeInv, BirthInv
    <2> QED
      BY <2>1 DEF RuntimeInv, BirthInv
  <1>5. /\ steps' \in [Threads -> Places] /\ Doing'[t] = "lock"
        /\ \A u \in Threads \ {t} : Doing'[u] = Doing[u]
    BY <1>1, <1>2, DoingFacts, RoutineFacts
  <1>6. DiagInv' /\ UNCHANGED <<inherited, listening, counts, stack>>
    BY <1>1, SameDiagnostics DEF RuntimeInv
  <1>7. IdentityInv' /\ process' = process
    BY <1>1, SameIdentities DEF RuntimeInv
  <1>8. /\ history' \in Memory
        /\ UNCHANGED <<history.returned, history.closes, history.shutdowns, history.touched,
                       history.installed>>
    <2>1. history.restarts + 1 \in 0..MaxRestarts
      BY <1>1, <1>2, LifecycleAssumption DEF Memory
    <2> QED
      BY <1>1, <1>2, <2>1 DEF Memory
  <1>9. Alone(t) /\ Alone(t)'
    BY <1>3, <1>5, <1>6 DEF Alone
  <1>10. \A u \in Threads : Doing'[u] = IF u = t THEN "lock" ELSE "away"
    BY <1>3, <1>5
  <1>11. BirthInv'
    BY <1>1, <1>4, <1>6, <1>10 DEF BirthInv, Constructing
  <1>12. RestartingInv'
    BY <1>4, <1>6, <1>9, <1>10 DEF RestartingInv, RestartSteps
  <1>13. ~Live'
    BY <1>2, <1>5 DEF Live, RestartSteps
  <1>14. OwnInv'
    BY <1>1, <1>6, <1>7, <1>8, <1>13 DEF RuntimeInv, OwnInv
  <1>15. /\ history.returned => self.closed
         /\ ~self.closed => history.closes = 0 /\ history.shutdowns = 0
    BY DEF RuntimeInv, ClosedInv
  <1>16. /\ Doing[t] \in {"away"} \cup Constructing \cup RestartSteps
         /\ Doing'[t] \in {"away", "scan"} \cup Constructing \cup RestartSteps
    BY <1>2, <1>3, <1>5 DEF RestartSteps
  <1> QED
    BY <1>1, <1>2, <1>5, <1>6, <1>7, <1>8, <1>9, <1>11, <1>12, <1>13, <1>14, <1>15, <1>16,
       AloneKept

\* A step of the restart: what it has to keep of RestartingInv.
LEMMA RestartingKept ==
    ASSUME RuntimeInv, NEW t \in Callers, NEW s \in RestartSteps, Takes(t, s), s # "open",
           DiagInv', listening' = listening,
           \A u \in Threads \ {t} : stack'[u] = stack[u],
           \A n \in NamesIn(stack'[t]) : ~Forwarded(n),
           inherited' => inherited /\ s = "lock",
           self' \in Attributes,
           UNCHANGED <<self.instance, self.closed, self.delivery, self.otel>>,
           IF s = "contexts" THEN self'.contexts = process ELSE self'.contexts = self.contexts,
           logger' \in HandlerState,
           UNCHANGED <<logger.attached, logger.registered, logger.cursor, logger.made>>,
           history' = history
    PROVE  RuntimeInv'
  <1>1. /\ Doing[t] \in Constructing \cup RestartSteps /\ stack[t] = <<>>
        /\ s = IF Doing[t] = "redeliver" THEN "delivery"
               ELSE IF Doing[t] = "reotel" THEN "otel" ELSE Doing[t]
        /\ steps' \in [Threads -> Places] /\ Doing'[t] = Following[Doing[t]]
        /\ \A u \in Threads \ {t} : Doing'[u] = Doing[u] /\ Doing[u] = "away" /\ stack[u] = <<>>
        /\ Doing'[t] \in {"away", "scan"} \cup Constructing \cup RestartSteps
        /\ IdentityInv' /\ process' = process
    BY AloneStep
  <1>2. Doing[t] = s /\ s \in {"lock", "diagnostics", "contexts", "relock"}
    BY <1>1 DEF RestartSteps
  <1>3. /\ t \in Threads /\ t # Daemon /\ Alone(t)
        /\ self \in Attributes /\ history \in Memory /\ logger \in HandlerState
        /\ self.instance # NoIdentity
    BY <1>1, AloneFacts
  <1>4. listening /\ (s = "relock" => self.contexts = process)
    BY <1>2, <1>3 DEF RuntimeInv, RestartingInv, RestartSteps
  <1>5. \A u \in Threads : Doing'[u] = IF u = t THEN Following[s] ELSE "away"
    BY <1>1, <1>2
  <1>6. Following[s] \in {"diagnostics", "contexts", "relock", "redeliver"}
        /\ (s = "lock" <=> Following[s] = "diagnostics")
        /\ (s = "contexts" <=> Following[s] = "relock")
        /\ (s = "relock" <=> Following[s] = "redeliver")
    BY <1>2 DEF Following
  <1>7. Alone(t)'
    BY <1>1, <1>5 DEF Alone
  <1>8. BirthInv'
    BY <1>3, <1>4, <1>5, <1>6 DEF BirthInv, Constructing
  <1>9. RestartingInv'
    <2>1. inherited' => \A u \in Threads : Doing'[u] \in {"away", "lock", "diagnostics"}
      BY <1>5, <1>6
    <2>2. ASSUME NEW u \in Threads, Doing'[u] \in RestartSteps
          PROVE  u = t
      BY <1>5, <2>2 DEF RestartSteps
    <2>3. Doing'[t] \notin {"lock", "diagnostics", "contexts"} => self'.contexts = process'
      BY <1>1, <1>2, <1>3, <1>4, <1>5, <1>6
    <2>4. Doing'[t] \notin {"reotel", "open"}
      BY <1>3, <1>5, <1>6
    <2> QED
      BY <1>4, <1>7, <2>1, <2>2, <2>3, <2>4 DEF RestartingInv
  <1>10. ~Live'
    BY <1>3, <1>5, <1>6 DEF Live, RestartSteps
  <1>11. OwnInv'
    <2>1. \A u \in Threads \ {t} : NamesIn(stack'[u]) = {}
      BY <1>1 DEF NamesIn
    <2> QED
      BY <1>10, <2>1 DEF RuntimeInv, OwnInv
  <1>12. /\ history.returned => self.closed
         /\ ~self.closed => history.closes = 0 /\ history.shutdowns = 0
    BY DEF RuntimeInv, ClosedInv
  <1> QED
    BY <1>1, <1>3, <1>8, <1>9, <1>10, <1>11, <1>12, AloneKept

LEMMA RestartingStepsInv ==
    ASSUME RuntimeInv, NEW t \in Callers,
           NewLock(t) \/ NewDiagnostics(t) \/ NewContexts(t) \/ Relock(t)
    PROVE  RuntimeInv'
  <1>1. PICK s \in RestartSteps : Takes(t, s) /\ s \in {"lock", "diagnostics", "contexts", "relock"}
    BY DEF NewLock, NewDiagnostics, NewContexts, Relock, RestartSteps
  <1>2. /\ Doing[t] = s /\ stack[t] = <<>>
        /\ \A u \in Threads \ {t} : Doing[u] = "away" /\ stack[u] = <<>>
    BY <1>1, AloneStep
  <1>3. /\ t \in Threads
        /\ self \in Attributes /\ history \in Memory /\ logger \in HandlerState
        /\ s \notin {"lock", "diagnostics"} => ~inherited
    BY <1>1, <1>2, AloneFacts
  <1>4. \A u \in Threads : stack[u] = <<>> /\ NamesIn(stack[u]) = {}
    <2>1. \A u \in Threads : stack[u] = <<>>
      BY <1>2
    <2>2. NamesIn(<<>>) = {}
      BY DEF NamesIn
    <2> QED
      BY <2>1, <2>2
  <1>5. CASE NewLock(t)
    <2>1. /\ Takes(t, "lock") /\ self' = [self EXCEPT !.lock = None]
          /\ UNCHANGED <<diagVars, logger, history>>
      BY <1>5 DEF NewLock, Sets
    <2>2. /\ self' \in Attributes
          /\ UNCHANGED <<self.instance, self.closed, self.delivery, self.otel, self.contexts>>
      BY <1>3, <2>1 DEF Attributes
    <2>3. DiagInv' /\ UNCHANGED <<inherited, listening, counts, stack>>
      BY <2>1, SameDiagnostics DEF RuntimeInv
    <2> QED
      BY <1>3, <1>4, <2>1, <2>2, <2>3, RestartingKept DEF RestartSteps
  <1>6. CASE NewDiagnostics(t)
    <2>1. Takes(t, "diagnostics") /\ RestartDiagnostics /\ UNCHANGED <<self, logger, history>>
      BY <1>6 DEF NewDiagnostics
    <2>2. DiagInv'
      BY <1>4, <2>1, RestartInv DEF RuntimeInv
    <2>3. ~inherited' /\ UNCHANGED <<listening, stack>>
      BY <2>1 DEF RestartDiagnostics
    <2> QED
      BY <1>3, <1>4, <2>1, <2>2, <2>3, RestartingKept DEF RestartSteps
  <1>7. CASE NewContexts(t)
    <2>1. /\ Takes(t, "contexts") /\ self' = [self EXCEPT !.contexts = process]
          /\ UNCHANGED <<diagVars, logger, history>>
      BY <1>7 DEF NewContexts, Sets
    <2>2. process \in 0..MaxProcesses
      BY IdentityAssumption DEF RuntimeInv, IdentityInv, IdentityTypeOK
    <2>3. /\ self' \in Attributes /\ self'.contexts = process
          /\ UNCHANGED <<self.instance, self.closed, self.delivery, self.otel>>
      BY <1>3, <2>1, <2>2 DEF Attributes
    <2>4. DiagInv' /\ UNCHANGED <<inherited, listening, counts, stack>>
      BY <2>1, SameDiagnostics DEF RuntimeInv
    <2>5. ~inherited
      <3>1. Doing[t] = "contexts"
        BY <2>1, AloneStep DEF RestartSteps
      <3> QED
        BY <3>1, AloneFacts DEF RestartSteps
    <2> QED
      BY <1>3, <1>4, <2>1, <2>3, <2>4, <2>5, RestartingKept DEF RestartSteps
  <1>8. CASE Relock(t)
    <2> DEFINE b == [h \in Handlers |-> IF Contains(logger.registered, h) THEN None
                                        ELSE logger.busy[h]]
    <2>1. /\ Takes(t, "relock") /\ UNCHANGED <<self, history>>
          /\ logger' \in {logger, [logger EXCEPT !.busy = b]}
          /\ MayFail(t, "process.logging_handler_lock")
      BY <1>8 DEF Relock, MayFail
    <2>2. b \in [Handlers -> Threads \cup {None}]
      BY <1>3 DEF HandlerState
    <2>3. /\ logger' \in HandlerState
          /\ UNCHANGED <<logger.attached, logger.registered, logger.cursor, logger.made>>
      <3> HIDE DEF b
      <3>1. CASE logger' = logger
        BY <1>3, <3>1
      <3>2. CASE logger' = [logger EXCEPT !.busy = b]
        BY <1>3, <2>2, <3>2 DEF HandlerState
      <3> QED
        BY <2>1, <3>1, <3>2
    <2>4. ~inherited
      <3>1. Doing[t] = "relock"
        BY <2>1, AloneStep DEF RestartSteps
      <3> QED
        BY <3>1, AloneFacts DEF RestartSteps
    <2>5. Reported(t, "process.logging_handler_lock")
      BY <1>3, <2>1, <2>4, ReportedFacts DEF RuntimeInv
    <2>6. \A n \in NamesIn(stack'[t]) : ~Forwarded(n)
      BY <1>2, <1>3, <2>5, QuietReport, LifecycleAssumption
    <2>7. /\ DiagInv' /\ ~inherited' /\ listening' = listening
          /\ \A u \in Threads \ {t} : stack'[u] = stack[u]
      BY <2>4, <2>5 DEF Reported
    <2>8. /\ "relock" \in RestartSteps /\ "relock" # "open" /\ "relock" # "contexts"
          /\ self' \in Attributes
      BY <1>3, <2>1 DEF RestartSteps
    <2> QED
      BY <2>1, <2>3, <2>6, <2>7, <2>8, RestartingKept
  <1> QED
    BY <1>5, <1>6, <1>7, <1>8

\* The end of a restart: everything is the process's own, and open.
LEMMA OpenInv ==
    ASSUME RuntimeInv, NEW t \in Callers, Open(t)
    PROVE  RuntimeInv'
  <1>1. /\ Takes(t, "open") /\ self' = [self EXCEPT !.closed = FALSE]
        /\ history' = [history EXCEPT !.returned = FALSE]
        /\ UNCHANGED <<diagVars, logger>>
    BY DEF Open
  <1>2. /\ Doing[t] \in Constructing \cup RestartSteps /\ Doing[t] = "open"
        /\ steps' \in [Threads -> Places] /\ Doing'[t] = Following[Doing[t]]
        /\ \A u \in Threads \ {t} : Doing'[u] = Doing[u] /\ Doing[u] = "away" /\ stack[u] = <<>>
        /\ Doing'[t] \in {"away", "scan"} \cup Constructing \cup RestartSteps
        /\ IdentityInv' /\ process' = process
    BY <1>1, AloneStep DEF RestartSteps
  <1>3. /\ t \in Threads /\ t # Daemon /\ Alone(t)
        /\ self \in Attributes /\ history \in Memory /\ logger \in HandlerState
        /\ self.instance # NoIdentity /\ ~inherited
    BY <1>2, AloneFacts
  <1>4. /\ listening /\ self.contexts = process /\ self.delivery = process
        /\ self.otel = process /\ history.closes = 0 /\ history.shutdowns = 0
    BY <1>2, <1>3 DEF RuntimeInv, RestartingInv, RestartSteps
  <1>5. DiagInv' /\ UNCHANGED <<inherited, listening, counts, stack>>
    BY <1>1, SameDiagnostics DEF RuntimeInv
  <1>6. \A u \in Threads : Doing'[u] = "away"
    BY <1>2 DEF Following
  <1>7. /\ self' \in Attributes /\ ~self'.closed
        /\ UNCHANGED <<self.instance, self.contexts, self.delivery, self.otel>>
    BY <1>1, <1>3 DEF Attributes
  <1>8. /\ history' \in Memory /\ ~history'.returned
        /\ UNCHANGED <<history.closes, history.shutdowns, history.touched, history.installed>>
    BY <1>1, <1>3 DEF Memory
  <1>9. BirthInv' /\ RestartingInv'
    BY <1>3, <1>4, <1>5, <1>6, <1>7 DEF BirthInv, RestartingInv, Constructing, RestartSteps
  <1>10. OwnInv'
    BY <1>2, <1>4, <1>7, <1>8 DEF RuntimeInv, OwnInv
  <1>11. UNCHANGED <<logger.attached, logger.registered, logger.cursor, logger.made>>
         /\ logger' \in HandlerState
    BY <1>1, <1>3
  <1> QED
    BY <1>2, <1>3, <1>4, <1>5, <1>7, <1>8, <1>9, <1>10, <1>11, AloneKept

\* The copy of a process has one thread, which is in no call.
LEMMA ProcessCopied ==
    ASSUME RuntimeInv, NEW t \in Callers, CopyBy(t)
    PROVE  RuntimeInv'
  <1>1. /\ Away(t) /\ (ForkProcess \/ RestoreProcess)
        /\ steps' = [u \in Threads |-> <<>>]
        /\ logger' = [logger EXCEPT !.cursor = 0, !.mine = [u \in Threads |-> 0]]
        /\ UNCHANGED <<self, history>>
    BY DEF CopyBy
  <1>2. /\ t \in Threads
        /\ self \in Attributes /\ history \in Memory /\ logger \in HandlerState
    BY LifecycleAssumption DEF RuntimeInv, LifecycleTypeOK
  <1>3. IdentityInv'
    <2>1. process + 1 \in 1..(process + 1) /\ pid \in 1..(process + 1)
      BY DEF RuntimeInv, IdentityInv, IdentityTypeOK
    <2> QED
      BY <1>1, <2>1, CopyInv DEF ForkProcess, RestoreProcess, RuntimeInv
  <1>4. /\ steps' \in [Threads -> Places] /\ \A u \in Threads : Doing'[u] = "away"
    BY <1>1, RoutineFacts DEF Doing
  <1>5. /\ DiagInv' /\ listening' = listening /\ \A u \in Threads : stack'[u] = <<>>
        /\ ~listening' \/ inherited'
        /\ ~listening' => ~inherited'
    <2>1. CASE /\ self.instance = NoIdentity
               /\ alive' = {t}
               /\ UNCHANGED <<clock, inherited, listening, lock, counts, last, stack, made,
                              lines>>
      <3>1. /\ ~listening /\ ~inherited /\ \A u \in Threads : stack[u] = <<>>
        BY <2>1 DEF RuntimeInv, BirthInv
      <3>2. DiagInv'
        <4>1. DiagInv /\ alive \in SUBSET Threads /\ alive' \in SUBSET Threads
          BY <1>2, <2>1 DEF RuntimeInv, DiagInv, DiagTypeOK
        <4>2. ThreadsChange
          BY <2>1, <3>1, <4>1 DEF ThreadsChange, Idle
        <4> QED
          BY <4>1, <4>2, ThreadsChangeInv
      <3> QED
        BY <2>1, <3>1, <3>2
    <2>2. CASE Ready /\ Duplicate(t)
      <3>1. DiagInv'
        BY <1>2, <2>2, DuplicateInv DEF RuntimeInv
      <3> QED
        BY <2>2, <3>1 DEF Ready, Duplicate
    <2> QED
      BY <2>1, <2>2 DEF CopyBy
  <1>6. /\ logger' \in HandlerState /\ logger'.cursor = 0
        /\ UNCHANGED <<logger.attached, logger.registered, logger.made>>
    <2> DEFINE m == [u \in Threads |-> 0]
    <2>1. 0 \in 0..MaxHandlers /\ m \in [Threads -> 0..MaxHandlers]
      BY LifecycleAssumption
    <2>2. logger' = [logger EXCEPT !.cursor = 0, !.mine = m]
      BY <1>1
    <2> HIDE DEF m
    <2> QED
      BY <1>2, <2>1, <2>2 DEF HandlerState
  <1>7. Daemon \in Threads
    BY LifecycleAssumption
  <1>8. PlacesInv'
    BY <1>4, <1>7 DEF PlacesInv, Daemonic
  <1>9. ~Live'
    BY <1>5 DEF Live
  <1>10. BirthInv'
    <2>1. self.instance = NoIdentity => ~listening
      BY DEF RuntimeInv, BirthInv
    <2>2. ~listening => ~self.closed
      BY DEF RuntimeInv, BirthInv
    <2> QED
      BY <1>1, <1>4, <1>5, <2>1, <2>2 DEF BirthInv, Constructing
  <1>11. RestartingInv'
    BY <1>4 DEF RestartingInv, RestartSteps
  <1>12. OwnInv'
    <2>1. \A u \in Threads : NamesIn(stack'[u]) = {}
      BY <1>5 DEF NamesIn
    <2> QED
      BY <1>1, <1>9, <2>1 DEF RuntimeInv, OwnInv
  <1>13. LockInv' /\ RemovalInv'
    BY <1>4, <1>9 DEF LockInv, RemovalInv, Section, Closing
  <1>14. ClosedInv'
    BY <1>1, <1>4, <1>7, <1>9 DEF RuntimeInv, ClosedInv, Section, Closing
  <1>15. HandlersInv'
    <2>1. Len(logger'.registered) \in Nat
      BY <1>2, <1>6 DEF HandlerState
    <2> QED
      BY <1>1, <1>4, <1>6, <2>1 DEF RuntimeInv, HandlersInv
  <1>16. LifecycleTypeOK'
    BY <1>1, <1>2, <1>3, <1>4, <1>5, <1>6, TypesKept
  <1> QED
    BY <1>3, <1>5, <1>8, <1>10, <1>11, <1>12, <1>13, <1>14, <1>15, <1>16 DEF RuntimeInv
-------------------------------------------------------------------------------
(* The specification *)

LEMMA RuntimeInitInv == Init => RuntimeInv
  <1> SUFFICES ASSUME Init PROVE RuntimeInv
    OBVIOUS
  <1>1. DiagInv /\ IdentityInv
    BY InitInv, IdentityInitInv DEF Init
  <1>2. /\ ~listening /\ ~inherited /\ \A t \in Threads : stack[t] = <<>>
    BY DEF Init, DiagInit
  <1>3. steps = [t \in Threads |-> <<>>] /\ \A t \in Threads : Doing[t] = "away"
    BY RoutineFacts DEF Init, Doing
  <1>4. /\ self = [lock |-> None, closed |-> FALSE, instance |-> NoIdentity,
                   contexts |-> 0, delivery |-> 0, otel |-> 0, completed |-> FALSE]
        /\ logger = [attached |-> {}, registered |-> <<>>, cursor |-> 0,
                     busy |-> [h \in Handlers |-> None],
                     mine |-> [t \in Threads |-> 0], made |-> 0]
        /\ history = [restarts |-> 0, routines |-> 0, returned |-> FALSE, closes |-> 0,
                      shutdowns |-> 0, touched |-> {}, published |-> {}, installed |-> {}]
    BY DEF Init
  <1>5. LifecycleTypeOK
    <2>1. 0 \in 0..MaxProcesses /\ 0 \in 0..MaxHandlers /\ 0 \in 0..MaxRestarts
          /\ 0 \in 0..MaxRoutines
      BY LifecycleAssumption, IdentityAssumption
    <2>2. self \in Attributes
      BY <1>4, <2>1 DEF Attributes
    <2>3. logger \in HandlerState
      <3>1. /\ [h \in Handlers |-> None] \in [Handlers -> Threads \cup {None}]
            /\ [t \in Threads |-> 0] \in [Threads -> 0..MaxHandlers]
            /\ <<>> \in Seq(Handlers)
        BY <2>1, EmptySeq
      <3> QED
        BY <1>4, <2>1, <3>1 DEF HandlerState
    <2>4. history \in Memory
      BY <1>4, <2>1 DEF Memory
    <2>5. steps \in [Threads -> Seq(Steps)]
      BY <1>3, EmptySeq
    <2> QED
      BY <1>1, <2>2, <2>3, <2>4, <2>5 DEF LifecycleTypeOK, DiagInv, IdentityInv
  <1>6. PlacesInv
    BY <1>3, RoutineFacts, LifecycleAssumption DEF PlacesInv, Daemonic
  <1>7. BirthInv /\ RestartingInv /\ ~Live
    BY <1>2, <1>3, <1>4 DEF BirthInv, RestartingInv, Live, Constructing, RestartSteps
  <1>8. OwnInv
    <2>1. NamesIn(<<>>) = {}
      BY DEF NamesIn
    <2> QED
      BY <1>2, <1>4, <1>7, <2>1 DEF OwnInv
  <1>9. LockInv /\ ClosedInv /\ RemovalInv
    BY <1>3, <1>4, <1>7, LifecycleAssumption DEF LockInv, ClosedInv, RemovalInv, Section, Closing
  <1>10. HandlersInv
    BY <1>3, <1>4 DEF HandlersInv
  <1> QED
    BY <1>1, <1>5, <1>6, <1>7, <1>8, <1>9, <1>10 DEF RuntimeInv

LEMMA RuntimeNextInv == RuntimeInv /\ [Next]_vars => RuntimeInv'
  <1> SUFFICES ASSUME RuntimeInv, [Next]_vars PROVE RuntimeInv'
    OBVIOUS
  <1>1. CASE \E t \in Callers : Identify(t) \/ Configure(t)
    BY <1>1, IdentifyInv, ConfigureInv
  <1>2. CASE \E t \in Callers : \/ Begin(t, Instrumenting) \/ Begin(t, ShuttingDown)
                                \/ Log(t) \/ Work(t)
    BY <1>2, BeginInv, LogInv, WorkInv
  <1>3. CASE \E t \in Callers : CopyBy(t) \/ Restart(t)
    BY <1>3, ProcessCopied, RestartBegins
  <1>4. CASE \E t \in Callers : RoutineStep(t)
    BY <1>4, NewDeliveryInv, NewOtelInv, ListenerInv, ScanInv, AttachInv, AttachFailsInv,
       RegisterInv, HandleInv, TakeLockInv, CheckInv, CloseDeliveryInv, StartDaemonInv,
       StartFailsInv, WaitInv, DeadlineInv, DetachInv, DetachDoneInv, ClearInv, LeaveInv,
       RestartingStepsInv, OpenInv
       DEF RoutineStep
  <1>5. CASE DaemonStep
    BY <1>5, DaemonInv
  <1>6. CASE \E t \in Threads : InDiagnostics(t)
    BY <1>6, InDiagnosticsInv
  <1>7. CASE UNCHANGED vars
    <2>1. UNCHANGED <<diagVars, identityVars, steps, self, logger, history>>
      BY <1>7 DEF vars, runtimeVars
    <2>2. DiagInv' /\ UNCHANGED <<inherited, listening, counts, alive, lock, stack>>
      BY <2>1, SameDiagnostics DEF RuntimeInv
    <2>3. IdentityInv' /\ UNCHANGED <<process, given>>
      BY <2>1, SameIdentities DEF RuntimeInv
    <2>4. Doing' = Doing /\ Live' = Live
      BY <2>1, <2>2 DEF Doing, Live
    <2>5. StillKnown /\ ShutdownParts
      BY <2>1, <2>2 DEF StillKnown, Counted, Pending, Top, ShutdownParts
    <2>6. LockInv' /\ ClosedInv' /\ HandlersInv' /\ RemovalInv'
      BY <2>1, <2>4, <2>5, InsideKept
    <2>7. BirthInv' /\ RestartingInv' /\ OwnInv' /\ PlacesInv'
      BY <2>1, <2>2, <2>3, <2>4
         DEF RuntimeInv, BirthInv, RestartingInv, OwnInv, PlacesInv, Alone
    <2>8. LifecycleTypeOK'
      BY <2>1, <2>2, <2>3, <2>7, TypesKept DEF RuntimeInv, LifecycleTypeOK, PlacesInv
    <2> QED
      BY <2>2, <2>3, <2>6, <2>7, <2>8 DEF RuntimeInv
  <1> QED
    BY <1>1, <1>2, <1>3, <1>4, <1>5, <1>6, <1>7 DEF Next

\* RuntimeInv holds of every runtime, whatever it is asked to do and however often
\* its process is copied.
THEOREM LifecycleInvariance == Spec => []RuntimeInv
  <1> QED
    BY RuntimeInitInv, RuntimeNextInv, PTL DEF Spec

\* The state of a runtime stays well-typed.
THEOREM LifecycleTyped == Spec => []LifecycleTypeOK
  <1>1. RuntimeInv => LifecycleTypeOK
    BY DEF RuntimeInv
  <1> QED
    BY <1>1, LifecycleInvariance, PTL

\* What Diagnostics and ProcessIdentity promise by themselves holds in the runtime
\* that uses them, whose process is copied while threads are in its routines: no
\* increment is lost, the lines of an operation are rationed, a first failure shows,
\* and an identifier belongs to one process identifier.
THEOREM ComponentsKept ==
    Spec => [](CountsExact /\ LinesRationed /\ FirstFailureShown /\ IdentityPerProcess)
  <1>1. RuntimeInv => CountsExact /\ LinesRationed /\ FirstFailureShown /\ IdentityPerProcess
    BY IdentityFacts, Rationed, ShownFacts DEF RuntimeInv, DiagInv
  <1> QED
    BY <1>1, LifecycleInvariance, PTL

\* Only a thread that is about to restart the diagnostics is at a step of a routine
\* in a process that has inherited them.
LEMMA ReporterFacts ==
    ASSUME RuntimeInv, NEW t \in Threads, NEW s, AtStep(t, s), s \notin {"lock", "diagnostics"}
    PROVE  ~inherited
  <1>1. /\ Doing[t] \in DOMAIN Following
        /\ s = IF Doing[t] = "redeliver" THEN "delivery"
               ELSE IF Doing[t] = "reotel" THEN "otel" ELSE Doing[t]
    BY AtStepFacts DEF RuntimeInv, PlacesInv
  <1>2. Doing[t] \notin {"away", "lock", "diagnostics"}
    BY <1>1 DEF Following
  <1> QED
    BY <1>2 DEF RuntimeInv, RestartingInv

LEMMA FailureSeen ==
    ASSUME ~inherited, NEW t \in Threads, NEW o, MayFail(t, o) \/ Fails(t, o)
    PROVE  [DiagNext]_diagVars
  BY DEF MayFail, Fails, DiagNext

LEMMA RoutineSeen ==
    ASSUME RuntimeInv, NEW t \in Callers, RoutineStep(t)
    PROVE  [DiagNext]_diagVars
  <1>1. t \in Threads /\ Daemon \in Threads /\ alive \subseteq Threads
    BY LifecycleAssumption DEF RuntimeInv, DiagInv, DiagTypeOK
  <1>2. CASE NewDelivery(t) \/ NewOtel(t)
    <2>1. ~inherited
      BY <1>1, <1>2, ReporterFacts DEF NewDelivery, NewOtel, Takes
    <2> QED
      BY <1>1, <1>2, <2>1, FailureSeen DEF NewDelivery, NewOtel
  <1>3. CASE Listener(t)
    BY <1>3 DEF Listener, DiagNext
  <1>4. CASE AttachFails(t) \/ Handle(t) \/ CloseDelivery(t)
    <2>1. ~inherited
      BY <1>1, <1>4, ReporterFacts DEF AttachFails, Handle, CloseDelivery, Takes
    <2> QED
      BY <1>1, <1>4, <2>1, FailureSeen DEF AttachFails, Handle, CloseDelivery
  <1>5. CASE StartFails(t) \/ Detach(t) \/ Relock(t)
    <2>1. ~inherited
      BY <1>1, <1>5, ReporterFacts DEF StartFails, Detach, Relock, Takes
    <2> QED
      BY <1>1, <1>5, <2>1, FailureSeen DEF StartFails, Detach, Relock
  <1>6. CASE Wait(t) \/ Deadline(t)
    <2>1. ~inherited
      BY <1>1, <1>6, ReporterFacts DEF Wait, Deadline, Takes
    <2> QED
      BY <1>1, <1>6, <2>1, LifecycleAssumption DEF Wait, Deadline, DiagNext
  <1>7. CASE StartDaemon(t)
    BY <1>1, <1>7 DEF StartDaemon, ThreadsChange, DiagNext
  <1>8. CASE NewDiagnostics(t)
    <2>1. \A u \in Threads : stack[u] = <<>>
      BY <1>8, AloneStep DEF NewDiagnostics, RestartSteps
    <2> QED
      BY <1>8, <2>1 DEF NewDiagnostics, DiagNext, Idle
  <1>9. CASE \/ Scan(t) \/ Attach(t) \/ Register(t) \/ Handled(t)
             \/ TakeLock(t) \/ Check(t) \/ DetachDone(t) \/ Clear(t) \/ Leave(t)
             \/ NewLock(t) \/ NewContexts(t) \/ Open(t)
    BY <1>9 DEF Scan, Attach, Register, Handled, TakeLock, Check, DetachDone, Clear, Leave,
       NewLock, NewContexts, Open, Nothing, Logger, Sets
  <1> QED
    BY <1>2, <1>3, <1>4, <1>5, <1>6, <1>7, <1>8, <1>9 DEF RoutineStep

LEMMA StepSeenByDiagnostics ==
    ASSUME RuntimeInv, [Next]_vars
    PROVE  [DiagNext]_diagVars
  <1>1. ASSUME NEW t \in Callers, RoutineStep(t)
        PROVE  [DiagNext]_diagVars
    BY <1>1, RoutineSeen
  <1>2. ASSUME NEW t \in Callers,
               \/ Identify(t) \/ Configure(t) \/ Begin(t, Instrumenting)
               \/ Begin(t, ShuttingDown) \/ Log(t) \/ Restart(t)
        PROVE  [DiagNext]_diagVars
    BY <1>2 DEF Identify, Configure, Begin, Begins, Log, Restart, Sets
  <1>3. ASSUME NEW t \in Callers, Work(t)
        PROVE  [DiagNext]_diagVars
    BY <1>3, LifecycleAssumption DEF Work, Ready, DiagNext
  <1>4. ASSUME NEW t \in Callers, CopyBy(t)
        PROVE  [DiagNext]_diagVars
    <2>1. t \in Threads
      BY LifecycleAssumption
    <2>2. self.instance = NoIdentity => \A u \in Threads : stack[u] = <<>>
      BY DEF RuntimeInv, BirthInv
    <2>3. alive \subseteq Threads
      BY DEF RuntimeInv, DiagInv, DiagTypeOK
    <2> QED
      BY <1>4, <2>1, <2>2, <2>3 DEF CopyBy, ThreadsChange, DiagNext, Idle
  <1>5. CASE DaemonStep
    <2>1. Daemon \in Threads
      BY LifecycleAssumption
    <2>2. ~inherited
      BY <1>5, <2>1, ReporterFacts DEF DaemonStep, ShutTracer, ShutMeter, SetCompleted, Takes
    <2> QED
      BY <1>5, <2>1, <2>2, FailureSeen DEF DaemonStep, ShutTracer, ShutMeter, SetCompleted, Sets
  <1>6. ASSUME NEW t \in Threads, InDiagnostics(t)
        PROVE  [DiagNext]_diagVars
    BY <1>6 DEF InDiagnostics, DiagNext
  <1>7. CASE UNCHANGED vars
    BY <1>7 DEF vars
  <1> QED
    BY <1>1, <1>2, <1>3, <1>4, <1>5, <1>6, <1>7 DEF Next

LEMMA StepSeenByIdentity ==
    ASSUME [Next]_vars
    PROVE  [IdentityNext]_identityVars
  <1>1. ASSUME NEW t \in Callers, Identify(t) \/ CopyBy(t)
        PROVE  [IdentityNext]_identityVars
    BY <1>1 DEF Identify, CopyBy, IdentityNext
  <1>2. ASSUME NEW t \in Callers,
               \/ Configure(t) \/ Begin(t, Instrumenting) \/ Begin(t, ShuttingDown)
               \/ Log(t) \/ Work(t) \/ Restart(t)
        PROVE  [IdentityNext]_identityVars
    BY <1>2 DEF Configure, Begin, Begins, Log, Work, Restart
  <1>3. ASSUME NEW t \in Callers, RoutineStep(t)
        PROVE  [IdentityNext]_identityVars
    <2>1. CASE \/ NewDelivery(t) \/ NewOtel(t) \/ Listener(t) \/ Attach(t) \/ Register(t)
               \/ Handle(t) \/ Handled(t) \/ TakeLock(t) \/ CloseDelivery(t) \/ Deadline(t)
               \/ DetachDone(t) \/ Clear(t) \/ Leave(t)
      BY <2>1 DEF NewDelivery, NewOtel, Listener, Attach, Register, Handle, Handled,
         TakeLock, CloseDelivery, Deadline, DetachDone, Clear, Leave, Takes
    <2>2. CASE NewLock(t) \/ NewDiagnostics(t) \/ NewContexts(t) \/ Relock(t) \/ Open(t)
      BY <2>2 DEF NewLock, NewDiagnostics, NewContexts, Relock, Open, Takes
    <2>3. CASE \/ Scan(t) \/ AttachFails(t) \/ Check(t) \/ StartDaemon(t) \/ StartFails(t)
               \/ Wait(t) \/ Detach(t)
      BY <2>3 DEF Scan, AttachFails, Check, StartDaemon, StartFails, Wait, Detach, Nothing
    <2> QED
      BY <1>3, <2>1, <2>2, <2>3 DEF RoutineStep
  <1>4. CASE DaemonStep
    BY <1>4 DEF DaemonStep, ShutTracer, ShutMeter, SetCompleted, Takes
  <1>5. ASSUME NEW t \in Threads, InDiagnostics(t)
        PROVE  [IdentityNext]_identityVars
    BY <1>5 DEF InDiagnostics
  <1>6. CASE UNCHANGED vars
    BY <1>6 DEF vars
  <1> QED
    BY <1>1, <1>2, <1>3, <1>4, <1>5, <1>6 DEF Next

\* The runtime implements its two components: each of its steps, the copy of a
\* process included, is for each of them a step of its own or none, and what is
\* counted or reported in a copied process comes after the restart of Diagnostics.
THEOREM RuntimeUsesComponents == Spec => ComponentsImplemented
  <1>1. Init => DiagInit /\ IdentityInit
    BY DEF Init
  <1>2. RuntimeInv /\ [Next]_vars => [DiagNext]_diagVars
    BY StepSeenByDiagnostics
  <1>3. [Next]_vars => [IdentityNext]_identityVars
    BY StepSeenByIdentity
  <1> QED
    BY <1>1, <1>2, <1>3, LifecycleInvariance, PTL
       DEF Spec, ComponentsImplemented, DiagSpec, IdentitySpec

\* A call of shutdown that returns leaves a runtime whose delivery has been closed
\* once and none of whose handlers is on the logger, or their failure was counted,
\* whichever thread closed it.
THEOREM ShutdownIsComplete == Spec => []ShutdownMeansClosed
  <1>1. RuntimeInv => ShutdownMeansClosed
    <2> SUFFICES ASSUME RuntimeInv, Ready, history.returned
                 PROVE  /\ history.closes = 1
                        /\ \/ logger.attached \cap history.installed = {}
                           \/ counts[Failure("logging.handler_remove")] > 0
      BY DEF ShutdownMeansClosed
    <2>1. Live
      BY ReadyFacts DEF RuntimeInv
    <2>2. self.closed /\ \A t \in Threads : Doing[t] \notin Closing
      BY DEF RuntimeInv, ClosedInv
    <2>3. history.closes = 1
      BY <2>1, <2>2 DEF RuntimeInv, ClosedInv, Closing
    <2> QED
      BY <2>1, <2>2, <2>3 DEF RuntimeInv, RemovalInv, Counted, Removal
  <1> QED
    BY <1>1, LifecycleInvariance, PTL

\* Nothing that a copied process reports before it is restarted is recorded to the
\* OTel of its parent, and a runtime that is ready has context variables, a delivery
\* and an OTel made in its own process.
THEOREM CopiesAreIndependent == Spec => []CopyIsIndependent
  <1>1. RuntimeInv => CopyIsIndependent
    <2> SUFFICES ASSUME RuntimeInv PROVE CopyIsIndependent
      OBVIOUS
    <2>1. Ready => Live
      BY ReadyFacts DEF RuntimeInv
    <2> QED
      BY <2>1 DEF RuntimeInv, OwnInv, CopyIsIndependent
  <1> QED
    BY <1>1, LifecycleInvariance, PTL
===============================================================================
