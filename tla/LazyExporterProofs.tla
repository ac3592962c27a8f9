-------------------------- MODULE LazyExporterProofs --------------------------
(***************************************************************************)
(* Proofs about LazyExporter.  Diagnostics keeps its invariants inside the *)
(* exporters, because all they do to it is to call increment and report.   *)
(* One delegate is built per wrapper although the first look is made       *)
(* without the lock: only the holder of the lock builds, it has looked     *)
(* again, and a delegate is never replaced (DelegateInv).  A counter is    *)
(* ahead of the reported failures by the threads between the count and the *)
(* report of theirs (CountInv).                                            *)
(***************************************************************************)
EXTENDS LazyExporter, DiagnosticsProofs, FiniteSetTheorems

\* The lock of a wrapper is held by the thread between its two looks and the
\* end of the build, and by that one only.
LockInv ==
    \A t \in Threads : \A x \in Exporters :
        building[x] = t <=> at[t].pc \in {"again", "build"} /\ at[t].exporter = x

DelegateInv ==
    /\ \A t \in Threads : at[t].pc = "build" => delegate[at[t].exporter] = None
    /\ \A t \in Threads : at[t].pc = "export" => delegate[at[t].exporter] # None
    /\ \A x \in Exporters : built[x] = IF delegate[x] = None THEN 0 ELSE 1

ExporterInv ==
    /\ ExporterTypeOK
    /\ DiagInv
    /\ ~inherited
    /\ LockInv
    /\ DelegateInv
    /\ OneDelegate
-------------------------------------------------------------------------------
(* Diagnostics in the exporters *)

LEMMA NamesFacts ==
    ASSUME NEW x \in Exporters
    PROVE  /\ NamesOf(x).count \in Counters
           /\ NamesOf(x).export \in Operations
           /\ NamesOf(x).flush \in Operations
           /\ NamesOf(x).shutdown \in Operations
           /\ NamesOf(x)["flush"] \in Operations
           /\ NamesOf(x)["shutdown"] \in Operations
  BY ExporterAssumption

\* A thread that is at some place of a call is in a call of some wrapper.
LEMMA PlaceFacts ==
    ASSUME ExporterTypeOK, NEW t \in Threads, at[t] # Away \/ at[t].pc # "away"
    PROVE  at[t] \in [pc : Places, exporter : Exporters] /\ at[t].exporter \in Exporters
  BY DEF ExporterTypeOK, Away

\* What an action of the exporters does to Diagnostics.
Calling ==
    \/ UNCHANGED diagVars
    \/ \E t \in Threads : \/ \E c \in Counters : Increment(t, c)
                          \/ \E o \in Operations : Report(t, o)
                          \/ DiagStep(t)
    \/ AddListener
    \/ Tick

LEMMA CallingInv ==
    ASSUME DiagInv, ~inherited, Calling
    PROVE  DiagInv' /\ ~inherited'
  <1>1. CASE UNCHANGED diagVars
    BY <1>1, StutterInv DEF diagVars
  <1>2. CASE \E t \in Threads : \/ \E c \in Counters : Increment(t, c)
                                \/ \E o \in Operations : Report(t, o)
    BY <1>2, IncrementInv, ReportInv DEF Increment, Report, Enter
  <1>3. CASE \E t \in Threads : DiagStep(t)
    <2>1. PICK t \in Threads : DiagStep(t)
      BY <1>3
    <2>2. (LockAndRead(t) \/ Add(t)) => UNCHANGED inherited
      BY DEF LockAndRead, Add
    <2>3. (Listen(t) \/ ListenerFails(t)) => UNCHANGED inherited
      BY DEF Listen, ListenerFails
    <2>4. (ReadClock(t) \/ LockAndLook(t) \/ Decide(t) \/ WriteLine(t)) => UNCHANGED inherited
      BY DEF ReadClock, LockAndLook, Decide, WriteLine
    <2>5. UNCHANGED inherited
      BY <2>1, <2>2, <2>3, <2>4 DEF DiagStep
    <2> QED
      BY <2>1, <2>5, DiagStepInv
  <1>4. CASE AddListener
    BY <1>4, AddListenerInv DEF AddListener
  <1>5. CASE Tick
    BY <1>5, TickInv DEF Tick
  <1> QED
    BY <1>1, <1>2, <1>3, <1>4, <1>5 DEF Calling

\* DiagTypeOK goes with DiagInv; this is the rest of the type invariant, but for
\* a history that no other part of the invariant is about.
RefusedOK == refused \in [Exporters -> Nat]

OwnTypeOK ==
    /\ delegate \in [Exporters -> Nat \cup {None}]
    /\ building \in [Exporters -> Threads \cup {None}]
    /\ at \in [Threads -> [pc : Places, exporter : Exporters] \cup {Away}]
    /\ begun \in [Exporters -> [export : 0..MaxExports, other : 0..MaxOthers]]
    /\ failed \in [Exporters -> Nat]
    /\ built \in [Exporters -> 0..1]
    /\ used \in [Exporters -> SUBSET Nat]

OwnInv == OwnTypeOK /\ LockInv /\ DelegateInv /\ OneDelegate

LEMMA SplitInv == ExporterInv <=> DiagInv /\ ~inherited /\ OwnInv /\ RefusedOK
  BY DEF ExporterInv, ExporterTypeOK, OwnTypeOK, OwnInv, RefusedOK, DiagInv

LEMMA ExporterInitInv == Init => ExporterInv
  <1> SUFFICES ASSUME Init PROVE ExporterInv
    OBVIOUS
  <1>1. DiagInv /\ ~inherited
    BY InitInv DEF Init, DiagInit
  <1>2. OwnTypeOK
    <2>1. [export |-> 0, other |-> 0] \in [export : 0..MaxExports, other : 0..MaxOthers]
      BY ExporterAssumption
    <2> QED
      BY <2>1 DEF Init, OwnTypeOK
  <1>3. LockInv /\ DelegateInv /\ OneDelegate
    BY DiagnosticsAssumption DEF Init, Away, LockInv, DelegateInv, OneDelegate
  <1>4. RefusedOK
    BY DEF Init, RefusedOK
  <1> QED
    BY <1>1, <1>2, <1>3, <1>4, SplitInv DEF OwnInv
-------------------------------------------------------------------------------
(* Moves of one thread *)

\* A thread that holds no lock before or after a move, and goes to a place that
\* asks nothing of the delegate, or leaves.
Neutral == {"look", "wait", "count", "report", "flush", "shutdown", "reported"}

LEMMA MoveInv ==
    ASSUME OwnInv, NEW t \in Threads, NEW place,
           place \in [pc : Places, exporter : Exporters] \cup {Away},
           at' = [at EXCEPT ![t] = place],
           at[t].pc \notin {"again", "build"},
           place.pc \in Neutral \cup {"away"} \/
              (place.pc = "export" /\ delegate[place.exporter] # None),
           UNCHANGED <<delegate, building, built>>
    PROVE  /\ at' \in [Threads -> [pc : Places, exporter : Exporters] \cup {Away}]
           /\ LockInv' /\ DelegateInv'
  <1>1. /\ at'[t] = place /\ \A u \in Threads \ {t} : at'[u] = at[u]
        /\ at' \in [Threads -> [pc : Places, exporter : Exporters] \cup {Away}]
    BY DEF OwnInv, OwnTypeOK
  <1>2. LockInv'
    BY <1>1 DEF OwnInv, LockInv, Neutral
  <1>3. DelegateInv'
    BY <1>1 DEF OwnInv, DelegateInv, Neutral
  <1> QED
    BY <1>1, <1>2, <1>3

LEMMA ArriveInv ==
    ASSUME OwnInv, NEW t \in Threads, NEW x \in Exporters,
           NEW pc \in {"look", "flush", "shutdown"}, Arrive(t, x, pc),
           begun' \in [Exporters -> [export : 0..MaxExports, other : 0..MaxOthers]],
           UNCHANGED <<delegate, building, failed, built, used>>
    PROVE  OwnInv'
  <1>1. /\ at[t] = Away /\ at' = [at EXCEPT ![t] = [pc |-> pc, exporter |-> x]]
        /\ [pc |-> pc, exporter |-> x] \in [pc : Places, exporter : Exporters]
    BY DEF Arrive, Places
  <1>2. at[t].pc \notin {"again", "build"}
    BY <1>1 DEF Away
  <1>3. /\ at' \in [Threads -> [pc : Places, exporter : Exporters] \cup {Away}]
        /\ LockInv' /\ DelegateInv'
    BY <1>1, <1>2, MoveInv DEF Neutral
  <1> QED
    BY <1>3 DEF OwnInv, OwnTypeOK, OneDelegate

\* A move that touches neither the wrappers' locks nor their delegates.
LEMMA QuietMoveInv ==
    ASSUME OwnInv, NEW t \in Threads, NEW place,
           place \in [pc : Places, exporter : Exporters] \cup {Away},
           at' = [at EXCEPT ![t] = place],
           at[t].pc \notin {"again", "build"},
           place.pc \in Neutral \cup {"away"} \/
              (place.pc = "export" /\ delegate[place.exporter] # None),
           failed' \in [Exporters -> Nat],
           UNCHANGED <<delegate, building, begun, built, used>>
    PROVE  OwnInv'
  <1>1. /\ at' \in [Threads -> [pc : Places, exporter : Exporters] \cup {Away}]
        /\ LockInv' /\ DelegateInv'
    BY MoveInv
  <1> QED
    BY <1>1 DEF OwnInv, OwnTypeOK, OneDelegate

\* The delegate, which is there, is called and the thread moves on.
LEMMA CallMoveInv ==
    ASSUME OwnInv, NEW t \in Threads, NEW place,
           place \in [pc : Places, exporter : Exporters] \cup {Away},
           at' = [at EXCEPT ![t] = place],
           at[t].pc \notin {"again", "build"}, at[t].exporter \in Exporters,
           place.pc \in Neutral \cup {"away"},
           delegate[at[t].exporter] # None, CallDelegate(t),
           UNCHANGED <<delegate, building, begun, failed, built>>
    PROVE  OwnInv'
  <1>1. /\ at' \in [Threads -> [pc : Places, exporter : Exporters] \cup {Away}]
        /\ LockInv' /\ DelegateInv'
    BY MoveInv
  <1> DEFINE x == at[t].exporter
  <1>2. used' = [used EXCEPT ![x] = @ \cup {delegate[x]}] /\ delegate[x] \in Nat
    BY DEF CallDelegate, OwnInv, OwnTypeOK
  <1> HIDE DEF x
  <1>3. used' \in [Exporters -> SUBSET Nat]
    BY <1>2 DEF OwnInv, OwnTypeOK
  <1>4. OneDelegate'
    BY <1>2, DiagnosticsAssumption DEF OwnInv, OwnTypeOK, OneDelegate, x
  <1> QED
    BY <1>1, <1>3, <1>4 DEF OwnInv, OwnTypeOK

\* In a call, where it is and of what wrapper.
LEMMA InFacts ==
    ASSUME OwnInv, NEW t \in Threads, NEW pc \in Places, In(t, pc)
    PROVE  /\ at[t].pc = pc /\ at[t].exporter \in Exporters
           /\ at[t] \in [pc : Places, exporter : Exporters]
           /\ \A q \in Places : [at[t] EXCEPT !.pc = q] \in [pc : Places, exporter : Exporters]
           /\ \A q \in Places : [at[t] EXCEPT !.pc = q].pc = q
           /\ \A q : [at[t] EXCEPT !.pc = q].exporter = at[t].exporter
           /\ \A q : Go(t, q) => at' = [at EXCEPT ![t] = [at[t] EXCEPT !.pc = q]]
           /\ Leave(t) => at' = [at EXCEPT ![t] = Away]
  <1>1. at[t].pc = pc /\ at[t] # Away
    BY DEF In, Places, Away
  <1>2. at[t] \in [pc : Places, exporter : Exporters]
    BY <1>1 DEF OwnInv, OwnTypeOK
  <1>3. at \in [Threads -> [pc : Places, exporter : Exporters] \cup {Away}]
    BY DEF OwnInv, OwnTypeOK
  <1>4. \A q : Go(t, q) => at' = [at EXCEPT ![t] = [at[t] EXCEPT !.pc = q]]
    BY <1>3 DEF Go
  <1>5. \A q \in Places : [at[t] EXCEPT !.pc = q] \in [pc : Places, exporter : Exporters]
    BY <1>2
  <1>6. \A q : [at[t] EXCEPT !.pc = q].pc = q /\ [at[t] EXCEPT !.pc = q].exporter = at[t].exporter
    BY <1>2
  <1> QED
    BY <1>1, <1>2, <1>4, <1>5, <1>6 DEF Leave

LEMMA LookInv ==
    ASSUME OwnInv, NEW t \in Threads, Look(t)
    PROVE  OwnInv'
  <1>1. In(t, "look") /\ UNCHANGED <<delegate, building, begun, failed, built, used>>
    BY DEF Look
  <1> DEFINE q == IF delegate[at[t].exporter] = None THEN "wait" ELSE "export"
             place == [at[t] EXCEPT !.pc = q]
  <1>2. q \in Places /\ "look" \in Places
    BY DEF Places
  <1>3. /\ at' = [at EXCEPT ![t] = place] /\ at[t].pc = "look"
        /\ place \in [pc : Places, exporter : Exporters]
        /\ place.pc = q /\ place.exporter = at[t].exporter
    BY <1>1, <1>2, InFacts DEF Look
  <1>4. place.pc \in Neutral \/ (place.pc = "export" /\ delegate[place.exporter] # None)
    BY <1>3 DEF Neutral
  <1> HIDE DEF place
  <1> QED
    BY <1>1, <1>3, <1>4, QuietMoveInv DEF OwnInv, OwnTypeOK

\* The moves between a thread and a lock it takes, or holds.
LEMMA LockedInv ==
    ASSUME OwnInv, NEW t \in Threads, Lock(t) \/ LookAgain(t) \/ Build(t) \/ BuildFails(t)
    PROVE  OwnInv'
  <1> DEFINE x == at[t].exporter
             Moves(q) == /\ at' \in [Threads -> [pc : Places, exporter : Exporters] \cup {Away}]
                         /\ at'[t].pc = q /\ at'[t].exporter = x
                         /\ \A u \in Threads \ {t} : at'[u] = at[u]
  <1>1. ASSUME NEW pc \in Places, NEW q \in Places, In(t, pc), Go(t, q)
        PROVE  at[t].pc = pc /\ x \in Exporters /\ Moves(q)
    <2>1. /\ at[t].pc = pc /\ x \in Exporters
          /\ [at[t] EXCEPT !.pc = q] \in [pc : Places, exporter : Exporters]
          /\ [at[t] EXCEPT !.pc = q].pc = q /\ [at[t] EXCEPT !.pc = q].exporter = x
          /\ at' = [at EXCEPT ![t] = [at[t] EXCEPT !.pc = q]]
      BY <1>1, InFacts
    <2> QED
      BY <2>1 DEF OwnInv, OwnTypeOK
  <1>2. /\ "wait" \in Places /\ "again" \in Places /\ "build" \in Places
        /\ "export" \in Places /\ "count" \in Places
    BY DEF Places
  <1>3. CASE Lock(t)
    <2>1. /\ at[t].pc = "wait" /\ x \in Exporters /\ Moves("again")
          /\ building[x] = None /\ building' = [building EXCEPT ![x] = t]
          /\ UNCHANGED <<delegate, begun, failed, built, used>>
      BY <1>1, <1>2, <1>3 DEF Lock
    <2>2. LockInv'
      <3> SUFFICES ASSUME NEW u \in Threads, NEW y \in Exporters
                   PROVE  building'[y] = u <=>
                             at'[u].pc \in {"again", "build"} /\ at'[u].exporter = y
        BY DEF LockInv
      <3>1. building[y] = u <=> at[u].pc \in {"again", "build"} /\ at[u].exporter = y
        BY DEF OwnInv, LockInv
      <3>2. building[x] = u <=> at[u].pc \in {"again", "build"} /\ at[u].exporter = x
        BY <2>1 DEF OwnInv, LockInv
      <3>3. building'[y] = IF y = x THEN t ELSE building[y]
        BY <2>1 DEF OwnInv, OwnTypeOK
      <3> QED
        BY <2>1, <3>1, <3>2, <3>3, DiagnosticsAssumption
    <2>3. DelegateInv' /\ OneDelegate'
      BY <2>1 DEF OwnInv, DelegateInv, OneDelegate
    <2> QED
      BY <2>1, <2>2, <2>3 DEF OwnInv, OwnTypeOK
  <1>4. ASSUME x \in Exporters, at[t].pc \in {"again", "build"}, NEW q \in Places,
               q \notin {"again", "build"}, Moves(q),
               building' = [building EXCEPT ![x] = None]
        PROVE  LockInv' /\ building' \in [Exporters -> Threads \cup {None}]
    <2>1. SUFFICES ASSUME NEW u \in Threads, NEW y \in Exporters
                   PROVE  building'[y] = u <=>
                             at'[u].pc \in {"again", "build"} /\ at'[u].exporter = y
      BY <1>4 DEF LockInv, OwnInv, OwnTypeOK
    <2>2. building[y] = u <=> at[u].pc \in {"again", "build"} /\ at[u].exporter = y
      BY DEF OwnInv, LockInv
    <2>3. building[x] = t
      BY <1>4 DEF OwnInv, LockInv
    <2>4. building'[y] = IF y = x THEN None ELSE building[y]
      BY <1>4 DEF OwnInv, OwnTypeOK
    <2> QED
      BY <1>4, <2>2, <2>3, <2>4, DiagnosticsAssumption
  <1>5. CASE LookAgain(t) /\ delegate[x] = None
    <2>1. /\ at[t].pc = "again" /\ x \in Exporters /\ Moves("build")
          /\ UNCHANGED <<delegate, building, begun, failed, built, used>>
      BY <1>1, <1>2, <1>5 DEF LookAgain, StillMissing
    <2>2. LockInv' /\ DelegateInv' /\ OneDelegate'
      BY <1>5, <2>1 DEF OwnInv, LockInv, DelegateInv, OneDelegate
    <2> QED
      BY <2>1, <2>2 DEF OwnInv, OwnTypeOK
  <1>6. CASE LookAgain(t) /\ delegate[x] # None
    <2>1. /\ at[t].pc = "again" /\ x \in Exporters /\ Moves("export")
          /\ building' = [building EXCEPT ![x] = None]
          /\ UNCHANGED <<delegate, begun, failed, built, used>>
      BY <1>1, <1>2, <1>6 DEF LookAgain, StillMissing
    <2>2. LockInv' /\ building' \in [Exporters -> Threads \cup {None}]
      BY <1>2, <1>4, <2>1
    <2>3. DelegateInv' /\ OneDelegate'
      BY <1>6, <2>1 DEF OwnInv, DelegateInv, OneDelegate
    <2> QED
      BY <2>1, <2>2, <2>3 DEF OwnInv, OwnTypeOK
  <1>7. CASE Build(t)
    <2>1. /\ at[t].pc = "build" /\ x \in Exporters /\ Moves("export")
          /\ built' = [built EXCEPT ![x] = @ + 1]
          /\ delegate' = [delegate EXCEPT ![x] = built'[x]]
          /\ building' = [building EXCEPT ![x] = None]
          /\ UNCHANGED <<begun, failed, used>>
      BY <1>1, <1>2, <1>7 DEF Build
    <2>2. delegate[x] = None /\ built[x] = 0 /\ used[x] = {}
      BY <2>1 DEF OwnInv, OwnTypeOK, DelegateInv, OneDelegate
    <2>3. LockInv' /\ building' \in [Exporters -> Threads \cup {None}]
      BY <1>2, <1>4, <2>1
    <2>4. /\ built'[x] = 1 /\ delegate'[x] = 1
          /\ \A y \in Exporters \ {x} : built'[y] = built[y] /\ delegate'[y] = delegate[y]
          /\ built' \in [Exporters -> 0..1] /\ delegate' \in [Exporters -> Nat \cup {None}]
      BY <2>1, <2>2 DEF OwnInv, OwnTypeOK
    <2>5. \A u \in Threads \ {t} : at[u].pc = "build" => at[u].exporter # x
      <3> SUFFICES ASSUME NEW u \in Threads \ {t}, at[u].pc = "build", at[u].exporter = x
                   PROVE  FALSE
        OBVIOUS
      <3>1. building[x] = t /\ building[x] = u
        BY <2>1 DEF OwnInv, LockInv
      <3> QED
        BY <3>1
    <2>6. \A u \in Threads : at[u].pc \in {"build", "export"} => at[u].exporter \in Exporters
      BY DEF OwnInv, OwnTypeOK, Away
    <2>7. DelegateInv'
      BY <2>1, <2>4, <2>5, <2>6, DiagnosticsAssumption DEF OwnInv, DelegateInv
    <2>8. OneDelegate'
      BY <2>1, <2>2, <2>4 DEF OwnInv, OneDelegate
    <2> QED
      BY <2>1, <2>3, <2>4, <2>7, <2>8 DEF OwnInv, OwnTypeOK
  <1>8. CASE BuildFails(t)
    <2>1. /\ at[t].pc = "build" /\ x \in Exporters /\ Moves("count")
          /\ building' = [building EXCEPT ![x] = None]
          /\ UNCHANGED <<delegate, begun, failed, built, used>>
      BY <1>1, <1>2, <1>8 DEF BuildFails, Unlocked
    <2>2. LockInv' /\ building' \in [Exporters -> Threads \cup {None}]
      BY <1>2, <1>4, <2>1
    <2>3. DelegateInv' /\ OneDelegate'
      BY <2>1 DEF OwnInv, DelegateInv, OneDelegate
    <2> QED
      BY <2>1, <2>2, <2>3 DEF OwnInv, OwnTypeOK
  <1> QED
    BY <1>3, <1>5, <1>6, <1>7, <1>8

\* The moves of a thread that calls the delegate.
LEMMA DelegateCallInv ==
    ASSUME OwnInv, NEW t \in Threads, NEW what \in {"flush", "shutdown"},
           \/ ExportDone(t) \/ ExportRefused(t) \/ ExportFails(t)
           \/ Finish(t, what) \/ FinishFails(t, what)
    PROVE  OwnInv'
  <1>1. {"export", "flush", "shutdown", "count", "reported"} \subseteq Places
    BY DEF Places
  <1>2. Away.pc = "away"
    BY DEF Away
  <1>3. CASE ExportDone(t) \/ ExportRefused(t)
    <2>1. /\ In(t, "export") /\ CallDelegate(t) /\ Leave(t)
          /\ UNCHANGED <<delegate, building, begun, failed, built>>
      BY <1>3 DEF ExportDone, ExportRefused
    <2>2. /\ at[t].pc = "export" /\ at[t].exporter \in Exporters
          /\ at' = [at EXCEPT ![t] = Away]
      BY <1>1, <2>1, InFacts
    <2>3. delegate[at[t].exporter] # None
      BY <2>2 DEF OwnInv, DelegateInv
    <2> QED
      BY <1>2, <2>1, <2>2, <2>3, CallMoveInv
  <1>4. CASE ExportFails(t)
    <2> DEFINE place == [at[t] EXCEPT !.pc = "count"]
    <2>1. /\ In(t, "export") /\ CallDelegate(t) /\ Go(t, "count")
          /\ UNCHANGED <<delegate, building, begun, failed, built>>
      BY <1>4 DEF ExportFails
    <2>2. /\ at[t].pc = "export" /\ at[t].exporter \in Exporters
          /\ at' = [at EXCEPT ![t] = place] /\ place.pc = "count"
          /\ place \in [pc : Places, exporter : Exporters]
      BY <1>1, <2>1, InFacts
    <2>3. delegate[at[t].exporter] # None /\ place.pc \in Neutral
      BY <2>2 DEF OwnInv, DelegateInv, Neutral
    <2> HIDE DEF place
    <2> QED
      BY <2>1, <2>2, <2>3, CallMoveInv
  <1>5. CASE Finish(t, what)
    <2>1. /\ In(t, what) /\ Leave(t)
          /\ IF delegate[at[t].exporter] = None THEN UNCHANGED used ELSE CallDelegate(t)
          /\ UNCHANGED <<delegate, building, begun, failed, built>>
      BY <1>5 DEF Finish
    <2>2. /\ at[t].pc = what /\ at[t].exporter \in Exporters
          /\ at' = [at EXCEPT ![t] = Away]
      BY <1>1, <2>1, InFacts
    <2>3. failed' \in [Exporters -> Nat]
      BY <2>1 DEF OwnInv, OwnTypeOK
    <2>4. CASE delegate[at[t].exporter] = None
      BY <1>2, <2>1, <2>2, <2>3, <2>4, QuietMoveInv
    <2>5. CASE delegate[at[t].exporter] # None
      BY <1>2, <2>1, <2>2, <2>5, CallMoveInv
    <2> QED
      BY <2>4, <2>5
  <1>6. CASE FinishFails(t, what)
    <2> DEFINE place == [at[t] EXCEPT !.pc = "reported"]
    <2>1. /\ In(t, what) /\ CallDelegate(t) /\ Go(t, "reported")
          /\ delegate[at[t].exporter] # None
          /\ UNCHANGED <<delegate, building, begun, failed, built>>
      BY <1>6 DEF FinishFails
    <2>2. /\ at[t].pc = what /\ at[t].exporter \in Exporters
          /\ at' = [at EXCEPT ![t] = place] /\ place.pc = "reported"
          /\ place \in [pc : Places, exporter : Exporters]
      BY <1>1, <2>1, InFacts
    <2>3. place.pc \in Neutral
      BY <2>2 DEF Neutral
    <2> HIDE DEF place
    <2> QED
      BY <2>1, <2>2, <2>3, CallMoveInv
  <1> QED
    BY <1>3, <1>4, <1>5, <1>6

\* The moves of a thread that counts and reports a failure.
LEMMA FailureInv ==
    ASSUME OwnInv, NEW t \in Threads,
           FailureCounted(t) \/ FailureReported(t) \/ Reported(t)
    PROVE  OwnInv'
  <1>1. {"count", "report", "reported"} \subseteq Places
    BY DEF Places
  <1>2. CASE FailureCounted(t)
    <2> DEFINE place == [at[t] EXCEPT !.pc = "report"]
    <2>1. /\ In(t, "count") /\ Go(t, "report")
          /\ UNCHANGED <<delegate, building, begun, failed, built, used>>
      BY <1>2 DEF FailureCounted
    <2>2. /\ at[t].pc = "count" /\ at' = [at EXCEPT ![t] = place]
          /\ place.pc = "report" /\ place \in [pc : Places, exporter : Exporters]
      BY <1>1, <2>1, InFacts
    <2>3. place.pc \in Neutral /\ failed' \in [Exporters -> Nat]
      BY <2>1, <2>2 DEF Neutral, OwnInv, OwnTypeOK
    <2> HIDE DEF place
    <2> QED
      BY <2>1, <2>2, <2>3, QuietMoveInv
  <1>3. CASE FailureReported(t)
    <2> DEFINE place == [at[t] EXCEPT !.pc = "reported"]
    <2>1. /\ In(t, "report") /\ Go(t, "reported")
          /\ failed' = [failed EXCEPT ![at[t].exporter] = @ + 1]
          /\ UNCHANGED <<delegate, building, begun, built, used>>
      BY <1>3 DEF FailureReported
    <2>2. /\ at[t].pc = "report" /\ at' = [at EXCEPT ![t] = place]
          /\ place.pc = "reported" /\ place \in [pc : Places, exporter : Exporters]
      BY <1>1, <2>1, InFacts
    <2>3. place.pc \in Neutral /\ failed' \in [Exporters -> Nat]
      BY <2>1, <2>2 DEF Neutral, OwnInv, OwnTypeOK
    <2> HIDE DEF place
    <2> QED
      BY <2>1, <2>2, <2>3, QuietMoveInv
  <1>4. CASE Reported(t)
    <2>1. /\ In(t, "reported") /\ Leave(t)
          /\ UNCHANGED <<delegate, building, begun, failed, built, used>>
      BY <1>4 DEF Reported
    <2>2. at[t].pc = "reported" /\ at' = [at EXCEPT ![t] = Away]
      BY <1>1, <2>1, InFacts
    <2>3. Away.pc = "away" /\ failed' \in [Exporters -> Nat]
      BY <2>1 DEF Away, OwnInv, OwnTypeOK
    <2> QED
      BY <2>1, <2>2, <2>3, QuietMoveInv
  <1> QED
    BY <1>2, <1>3, <1>4

LEMMA StartInv ==
    ASSUME OwnInv, NEW t \in Threads, NEW x \in Exporters,
           Export(t, x) \/ \E what \in {"flush", "shutdown"} : Begin(t, x, what)
    PROVE  OwnInv'
  <1>1. begun[x] \in [export : 0..MaxExports, other : 0..MaxOthers]
    BY DEF OwnInv, OwnTypeOK
  <1>2. CASE Export(t, x)
    <2>1. /\ Arrive(t, x, "look") /\ begun[x].export < MaxExports
          /\ begun' = [begun EXCEPT ![x].export = @ + 1]
          /\ UNCHANGED <<delegate, building, failed, built, used>>
      BY <1>2 DEF Export
    <2>2. [begun[x] EXCEPT !.export = @ + 1] \in [export : 0..MaxExports, other : 0..MaxOthers]
      BY <1>1, <2>1, ExporterAssumption
    <2>3. begun' \in [Exporters -> [export : 0..MaxExports, other : 0..MaxOthers]]
      BY <2>1, <2>2 DEF OwnInv, OwnTypeOK
    <2> QED
      BY <2>1, <2>3, ArriveInv
  <1>3. ASSUME NEW what \in {"flush", "shutdown"}, Begin(t, x, what) PROVE OwnInv'
    <2>1. /\ Arrive(t, x, what) /\ begun[x].other < MaxOthers
          /\ begun' = [begun EXCEPT ![x].other = @ + 1]
          /\ UNCHANGED <<delegate, building, failed, built, used>>
      BY <1>3 DEF Begin
    <2>2. [begun[x] EXCEPT !.other = @ + 1] \in [export : 0..MaxExports, other : 0..MaxOthers]
      BY <1>1, <2>1, ExporterAssumption
    <2>3. begun' \in [Exporters -> [export : 0..MaxExports, other : 0..MaxOthers]]
      BY <2>1, <2>2 DEF OwnInv, OwnTypeOK
    <2> QED
      BY <2>1, <2>3, ArriveInv
  <1> QED
    BY <1>2, <1>3
-------------------------------------------------------------------------------
(* The specification *)

\* Every action of the exporters uses Diagnostics as its callers may.
LEMMA StepCalls ==
    ASSUME ExporterInv, NEW t \in Threads, ExporterStep(t)
    PROVE  Calling
  <1>1. OwnInv
    BY SplitInv
  <1>2. CASE FailureCounted(t)
    <2>1. In(t, "count") /\ "count" \in Places
      BY <1>2 DEF FailureCounted, Places
    <2>2. at[t].exporter \in Exporters
      BY <1>1, <2>1, InFacts
    <2>3. Increment(t, NamesOf(at[t].exporter).count)
      BY <1>2 DEF FailureCounted, CountFailure
    <2> QED
      BY <2>2, <2>3, NamesFacts DEF Calling
  <1>3. CASE FailureReported(t)
    <2>1. In(t, "report") /\ "report" \in Places
      BY <1>3 DEF FailureReported, Places
    <2>2. at[t].exporter \in Exporters
      BY <1>1, <2>1, InFacts
    <2>3. Report(t, NamesOf(at[t].exporter).export)
      BY <1>3 DEF FailureReported
    <2> QED
      BY <2>2, <2>3, NamesFacts DEF Calling
  <1>4. ASSUME NEW what \in {"flush", "shutdown"}, FinishFails(t, what) PROVE Calling
    <2>1. In(t, what) /\ what \in Places
      BY <1>4 DEF FinishFails, Places
    <2>2. at[t].exporter \in Exporters
      BY <1>1, <2>1, InFacts
    <2>3. Report(t, NamesOf(at[t].exporter)[what])
      BY <1>4 DEF FinishFails
    <2>4. NamesOf(at[t].exporter)[what] \in Operations
      BY <2>2, NamesFacts
    <2> QED
      BY <2>3, <2>4 DEF Calling
  <1>5. CASE Look(t) \/ Lock(t) \/ LookAgain(t) \/ Build(t) \/ BuildFails(t)
    BY <1>5 DEF Look, Lock, LookAgain, Build, BuildFails, Calling
  <1>6. CASE ExportDone(t) \/ ExportRefused(t) \/ ExportFails(t) \/ Reported(t)
    BY <1>6 DEF ExportDone, ExportRefused, ExportFails, Reported, Calling
  <1>7. ASSUME NEW what \in {"flush", "shutdown"}, Finish(t, what) PROVE Calling
    BY <1>7 DEF Finish, Calling
  <1> QED
    BY <1>2, <1>3, <1>4, <1>5, <1>6, <1>7 DEF ExporterStep

LEMMA RefusedInv ==
    ASSUME RefusedOK, [Next]_vars
    PROVE  RefusedOK'
  <1>1. ASSUME NEW t \in Threads, NEW x \in Exporters,
               Export(t, x) \/ \E what \in {"flush", "shutdown"} : Begin(t, x, what)
        PROVE  RefusedOK'
    BY <1>1 DEF Export, Begin, RefusedOK
  <1>2. ASSUME NEW t \in Threads, ExporterStep(t) PROVE RefusedOK'
    <2>1. (Look(t) \/ Lock(t) \/ LookAgain(t) \/ Build(t) \/ BuildFails(t)) => RefusedOK'
      BY DEF Look, Lock, LookAgain, Build, BuildFails, RefusedOK
    <2>2. (ExportDone(t) \/ ExportFails(t) \/ Reported(t)) => RefusedOK'
      BY DEF ExportDone, ExportFails, Reported, RefusedOK
    <2>3. ASSUME NEW x, refused' = [refused EXCEPT ![x] = @ + 1] PROVE RefusedOK'
      <3>1. CASE x \in Exporters
        BY <2>3, <3>1 DEF RefusedOK
      <3>2. CASE x \notin Exporters
        <4>1. refused' = refused
          BY <2>3, <3>2 DEF RefusedOK
        <4> QED
          BY <4>1 DEF RefusedOK
      <3> QED
        BY <3>1, <3>2
    <2>4. ExportRefused(t) => RefusedOK'
      BY <2>3 DEF ExportRefused
    <2>5. (FailureCounted(t) \/ FailureReported(t)) => RefusedOK'
      BY DEF FailureCounted, FailureReported, RefusedOK
    <2>6. \A what : (Finish(t, what) \/ FinishFails(t, what)) => RefusedOK'
      BY DEF Finish, FinishFails, RefusedOK
    <2> QED
      BY <1>2, <2>1, <2>2, <2>4, <2>5, <2>6 DEF ExporterStep
  <1>3. UNCHANGED exporterVars => RefusedOK'
    BY DEF exporterVars, RefusedOK
  <1> QED
    BY <1>1, <1>2, <1>3 DEF Next, ThreadStep, vars

LEMMA ExporterNextInv == ExporterInv /\ [Next]_vars => ExporterInv'
  <1> SUFFICES ASSUME ExporterInv, [Next]_vars PROVE ExporterInv'
    OBVIOUS
  <1>1. DiagInv /\ ~inherited /\ OwnInv
    BY SplitInv
  <1>2. SUFFICES Calling /\ OwnInv'
    <2>1. (DiagInv /\ ~inherited /\ OwnInv /\ RefusedOK)' => ExporterInv'
      BY DEF ExporterInv, ExporterTypeOK, OwnTypeOK, OwnInv, RefusedOK, DiagInv
    <2>2. RefusedOK'
      BY RefusedInv, SplitInv
    <2> QED
      BY <1>1, <1>2, <2>1, <2>2, CallingInv
  <1>3. UNCHANGED exporterVars => OwnInv'
    BY <1>1 DEF exporterVars, OwnInv, OwnTypeOK, LockInv, DelegateInv, OneDelegate
  <1>4. ASSUME NEW t \in Threads, NEW x \in Exporters,
               Export(t, x) \/ \E what \in {"flush", "shutdown"} : Begin(t, x, what)
        PROVE  Calling /\ OwnInv'
    BY <1>1, <1>4, StartInv DEF Export, Begin, Calling
  <1>5. ASSUME NEW t \in Threads, ExporterStep(t) PROVE Calling /\ OwnInv'
    <2>1. OwnInv'
      BY <1>1, <1>5, LookInv, LockedInv, DelegateCallInv, FailureInv DEF ExporterStep
    <2> QED
      BY <1>5, <2>1, StepCalls
  <1>6. ASSUME NEW t \in Threads, DiagStep(t), UNCHANGED exporterVars
        PROVE  Calling /\ OwnInv'
    BY <1>3, <1>6 DEF Calling
  <1>7. CASE (AddListener \/ Tick) /\ UNCHANGED exporterVars
    BY <1>3, <1>7 DEF Calling
  <1>8. CASE UNCHANGED vars
    BY <1>3, <1>8 DEF vars, Calling
  <1> QED
    BY <1>4, <1>5, <1>6, <1>7, <1>8 DEF Next, ThreadStep

LEMMA ExporterInvariance == Spec => []ExporterInv
  <1> QED
    BY ExporterInitInv, ExporterNextInv, PTL DEF Spec

\* However many threads export for the first time together, one delegate is
\* built, and all calls go to it.
THEOREM DelegateIsOne == Spec => []OneDelegate
  <1>1. ExporterInv => OneDelegate
    BY DEF ExporterInv
  <1> QED
    BY <1>1, ExporterInvariance, PTL

\* The exporters' failures, and those of the listener that counts them, are
\* counted exactly and printed as rationed, and the first one is shown.
THEOREM ExportersKeepDiagnostics ==
    Spec => [](CountsExact /\ LinesRationed /\ FirstFailureShown)
  <1>1. ExporterInv => CountsExact /\ LinesRationed /\ FirstFailureShown
    BY Rationed, ShownFacts DEF ExporterInv, DiagInv
  <1> QED
    BY <1>1, ExporterInvariance, PTL

\* The exporters implement Diagnostics: whatever the SDK does with them, each of
\* their steps is one that Diagnostics may take, or leaves it alone.
THEOREM ExportersUseDiagnostics == Spec => DiagSpec
  <1>1. Init => DiagInit
    BY DEF Init
  <1>2. ExporterInv /\ [Next]_vars => [DiagNext]_diagVars
    <2> SUFFICES ASSUME ExporterInv, [Next]_vars PROVE [DiagNext]_diagVars
      OBVIOUS
    <2>1. ~inherited
      BY SplitInv
    <2>2. Calling => [DiagNext]_diagVars
      BY <2>1 DEF Calling, DiagNext
    <2>3. Calling
      BY StepCalls DEF Next, ThreadStep, Export, Begin, Calling, vars
    <2> QED
      BY <2>2, <2>3
  <1> QED
    BY <1>1, <1>2, ExporterInvariance, PTL DEF Spec, DiagSpec

\* The state of the wrappers stays well-typed.
THEOREM ExporterTypeCorrect == Spec => []ExporterTypeOK
  <1>1. ExporterInv => ExporterTypeOK
    BY DEF ExporterInv
  <1> QED
    BY <1>1, ExporterInvariance, PTL
-------------------------------------------------------------------------------
(* Failures are counted *)

CountName(x) == Count(NamesOf(x).count)

\* A thread that has still to store the failure it counts.
Counting(t) == stack[t] # <<>> /\ Top(t).op = None /\ Top(t).pc \in {"count", "add"}

\* The threads whose failure of x is counted and not yet reported.
CountedAt(x) ==
    {t \in Threads : at[t].pc = "report" /\ at[t].exporter = x /\ ~Counting(t)}

\* Every count of a wrapper's name is of an export that failed there: one that
\* has been reported, or that of a thread on its way to the report.
CountInv ==
    /\ \A t \in Threads : Counting(t) =>
          at[t].pc = "report" /\ Top(t).name = CountName(at[t].exporter)
    /\ \A x \in Exporters :
          /\ IsFiniteSet(CountedAt(x))
          /\ counts[CountName(x)] = failed[x] + Cardinality(CountedAt(x))

\* The two wrappers count under different names.
LEMMA CountNames ==
    /\ \A x \in Exporters : CountName(x) \in Names
    /\ \A x, y \in Exporters : CountName(x) = CountName(y) => x = y
    /\ \A x \in Exporters, o \in Operations : CountName(x) # Failure(o)
  <1>1. \A x \in Exporters : CountName(x) \in Names
    BY NamesFacts DEF CountName, Count, Names
  <1>2. ASSUME NEW x \in Exporters, NEW y \in Exporters, CountName(x) = CountName(y)
        PROVE  x = y
    <2>1. NamesOf(x).count = NamesOf(y).count
      BY <1>2 DEF CountName, Count
    <2>2. x \in {"spans", "metrics"} /\ y \in {"spans", "metrics"}
      BY ExporterAssumption
    <2> QED
      BY <2>1, <2>2 DEF NamesOf, SpanNames, MetricNames
  <1> QED
    BY <1>1, <1>2 DEF CountName, Count, Failure

\* A thread goes on without counting a failure, or reporting one it has counted.
LEMMA SameCount ==
    ASSUME CountInv, NEW t \in Threads,
           \A u \in Threads \ {t} : at'[u] = at[u] /\ stack'[u] = stack[u],
           Counting(t)' => at'[t].pc = "report" /\ Top(t)'.name = CountName(at'[t].exporter),
           \A x \in Exporters : t \in CountedAt(x)' <=> t \in CountedAt(x),
           \A x \in Exporters : counts'[CountName(x)] = counts[CountName(x)],
           UNCHANGED failed
    PROVE  CountInv'
  <1>1. \A u \in Threads \ {t} : /\ Counting(u)' <=> Counting(u)
                                 /\ Top(u)' = Top(u)
    BY DEF Counting, Top
  <1>2. \A x \in Exporters : CountedAt(x)' = CountedAt(x)
    BY <1>1 DEF CountedAt
  <1> QED
    BY <1>1, <1>2 DEF CountInv, CountName

\* A thread stores the count of its failure of y.
LEMMA OneMoreCounted ==
    ASSUME ExporterTypeOK, CountInv, NEW t \in Threads, NEW y \in Exporters,
           \A u \in Threads \ {t} : stack'[u] = stack[u],
           Counting(t), at[t].exporter = y, ~Counting(t)', UNCHANGED <<at, failed>>,
           counts' = [counts EXCEPT ![CountName(y)] = @ + 1]
    PROVE  CountInv'
  <1>1. \A u \in Threads \ {t} : /\ Counting(u)' <=> Counting(u)
                                 /\ Top(u)' = Top(u)
    BY DEF Counting, Top
  <1>2. at[t].pc = "report" /\ t \notin CountedAt(y)
    BY DEF CountInv, CountedAt
  <1>3. CountedAt(y)' = CountedAt(y) \cup {t}
    BY <1>1, <1>2 DEF CountedAt
  <1>4. \A x \in Exporters \ {y} : CountedAt(x)' = CountedAt(x)
    BY <1>1 DEF CountedAt
  <1>5. /\ counts'[CountName(y)] = counts[CountName(y)] + 1
        /\ \A x \in Exporters \ {y} : counts'[CountName(x)] = counts[CountName(x)]
    BY CountNames DEF ExporterTypeOK, DiagTypeOK
  <1>6. /\ IsFiniteSet(CountedAt(y)') /\ IsFiniteSet(CountedAt(y))
        /\ Cardinality(CountedAt(y)') = Cardinality(CountedAt(y)) + 1
        /\ Cardinality(CountedAt(y)) \in Nat
    BY <1>2, <1>3, FS_AddElement, FS_CardinalityType DEF CountInv
  <1>7. counts'[CountName(y)] = failed'[y] + Cardinality(CountedAt(y)')
    <2>1. failed[y] \in Nat /\ counts[CountName(y)] = failed[y] + Cardinality(CountedAt(y))
      BY DEF CountInv, ExporterTypeOK
    <2> QED
      BY <2>1, <1>5, <1>6
  <1> QED
    BY <1>1, <1>4, <1>5, <1>6, <1>7 DEF CountInv, CountName

\* A thread reports its failure of y, which it has counted.
LEMMA OneMoreReported ==
    ASSUME ExporterTypeOK, CountInv, NEW t \in Threads, NEW y \in Exporters,
           \A u \in Threads \ {t} : at'[u] = at[u] /\ stack'[u] = stack[u],
           t \in CountedAt(y), at'[t].pc = "reported", ~Counting(t)',
           failed' = [failed EXCEPT ![y] = @ + 1], UNCHANGED counts
    PROVE  CountInv'
  <1>1. \A u \in Threads \ {t} : /\ Counting(u)' <=> Counting(u)
                                 /\ Top(u)' = Top(u)
    BY DEF Counting, Top
  <1>2. CountedAt(y)' = CountedAt(y) \ {t}
    BY <1>1 DEF CountedAt
  <1>3. \A x \in Exporters \ {y} : CountedAt(x)' = CountedAt(x)
    BY <1>1 DEF CountedAt
  <1>4. /\ IsFiniteSet(CountedAt(y)') /\ IsFiniteSet(CountedAt(y))
        /\ Cardinality(CountedAt(y)') = Cardinality(CountedAt(y)) - 1
        /\ Cardinality(CountedAt(y)) \in Nat
    BY <1>2, FS_RemoveElement, FS_CardinalityType DEF CountInv
  <1>5. failed'[y] = failed[y] + 1 /\ \A x \in Exporters \ {y} : failed'[x] = failed[x]
    BY DEF ExporterTypeOK
  <1>6. counts'[CountName(y)] = failed'[y] + Cardinality(CountedAt(y)')
    <2>1. failed[y] \in Nat /\ counts[CountName(y)] = failed[y] + Cardinality(CountedAt(y))
      BY DEF CountInv, ExporterTypeOK
    <2> QED
      BY <2>1, <1>4, <1>5
  <1> QED
    BY <1>1, <1>3, <1>4, <1>5, <1>6 DEF CountInv, CountName

\* A thread that enters a call of Diagnostics counts a failure or reports one.
LEMMA EnterCount ==
    ASSUME ExporterTypeOK, NEW t \in Threads
    PROVE  /\ \A o \in Operations : Report(t, o) => ~Counting(t)'
           /\ \A c : Increment(t, c) =>
                Counting(t)' /\ Top(t)'.name = Count(c)
           /\ \A call : Enter(t, call) =>
                /\ ~Counting(t) /\ UNCHANGED counts
                /\ \A u \in Threads \ {t} : stack'[u] = stack[u]
  <1>1. ASSUME NEW call, Enter(t, call)
        PROVE  /\ ~Counting(t) /\ UNCHANGED counts
               /\ \A u \in Threads \ {t} : stack'[u] = stack[u]
               /\ stack'[t] = <<call>> /\ Top(t)' = call /\ stack'[t] # <<>>
    BY <1>1 DEF Enter, Idle, Counting, Top, ExporterTypeOK, DiagTypeOK
  <1>2. \A o \in Operations : Report(t, o) => ~Counting(t)'
    BY <1>1, DiagnosticsAssumption DEF Report, ReportCall, Call, Counting
  <1>3. \A c : Increment(t, c) => Counting(t)' /\ Top(t)'.name = Count(c)
    BY <1>1 DEF Increment, IncrementCall, Call, Counting
  <1> QED
    BY <1>1, <1>2, <1>3

\* Moves of a thread outside the place where it counts and reports a failure.
LEMMA ElsewhereCount ==
    ASSUME ExporterInv, CountInv, NEW t \in Threads,
           \A u \in Threads \ {t} : at'[u] = at[u],
           at[t].pc # "report", at'[t].pc # "report",
           UNCHANGED stack \/ \E o \in Operations : Report(t, o),
           UNCHANGED <<counts, failed>>
    PROVE  CountInv'
  <1>1. ~Counting(t)'
    <2>1. ~Counting(t)
      BY DEF CountInv
    <2>2. UNCHANGED stack => ~Counting(t)'
      BY <2>1 DEF Counting, Top
    <2> QED
      BY <2>2, EnterCount DEF ExporterInv
  <1>2. \A u \in Threads \ {t} : stack'[u] = stack[u]
    BY EnterCount DEF ExporterInv, Report
  <1>3. \A x \in Exporters : t \notin CountedAt(x) /\ t \notin CountedAt(x)'
    BY DEF CountedAt
  <1> QED
    BY <1>1, <1>2, <1>3, SameCount

\* Inside Diagnostics, the one step that matters is the store of a count.
LEMMA DiagStepCount ==
    ASSUME ExporterInv, CountInv, NEW t \in Threads, DiagStep(t), UNCHANGED exporterVars
    PROVE  CountInv'
  <1>1. stack[t] # <<>>
    BY DEF DiagStep, LockAndRead, Add, Listen, ListenerFails, ReadClock, LockAndLook,
       Decide, WriteLine, At, Idle
  <1>2. /\ Top(t) \in Calls /\ CallInv(Top(t)) /\ Tail(stack[t]) \in Seq(Waiting)
        /\ Tail(stack[t]) \in Seq(Calls) /\ DiagTypeOK /\ TopInv
    BY <1>1, InCall, WaitingFacts DEF ExporterInv, DiagInv
  <1>3. UNCHANGED <<at, failed>>
    BY DEF exporterVars
  <1>4. ASSUME NEW s, stack' = [stack EXCEPT ![t] = s]
        PROVE  stack'[t] = s /\ \A u \in Threads \ {t} : stack'[u] = stack[u]
    BY <1>2, <1>4 DEF DiagTypeOK
  <1>5. ASSUME NEW c \in Calls, NEW s \in Seq(Calls),
               stack' = [stack EXCEPT ![t] = <<c>> \o s]
        PROVE  stack'[t] # <<>> /\ Top(t)' = c
    <2>1. stack'[t] = <<c>> \o s
      BY <1>4, <1>5
    <2>2. <<c>> \o s # <<>> /\ Head(<<c>> \o s) = c
      BY FrontFacts
    <2> QED
      BY <2>1, <2>2 DEF Top
  <1>6. ASSUME NEW s \in Seq(Waiting), stack' = [stack EXCEPT ![t] = s]
        PROVE  ~Counting(t)'
    <2>1. s # <<>> => Head(s) \in Waiting
      BY TailFacts
    <2> QED
      BY <1>4, <1>6, <2>1 DEF Counting, Top, Waiting
  <1>7. ASSUME ~Counting(t), ~Counting(t)', UNCHANGED counts,
               \A u \in Threads \ {t} : stack'[u] = stack[u]
        PROVE  CountInv'
    <2>1. \A x \in Exporters : t \in CountedAt(x)' <=> t \in CountedAt(x)
      BY <1>3, <1>7 DEF CountedAt
    <2> QED
      BY <1>3, <1>7, <2>1, SameCount
  <1>8. AfterListener(t) \in Seq(Waiting) \/ ~At(t, "listen")
    <2>1. CASE Top(t).op = None
      BY <1>2, <2>1 DEF AfterListener
    <2>2. CASE Top(t).op # None
      <3> DEFINE c == [Top(t) EXCEPT !.pc = "clock"]
      <3>1. c \in Calls /\ c.pc = "clock" /\ c.op = Top(t).op /\ c.name = Top(t).name
        BY <1>2 DEF Calls, CallPc
      <3>2. c \in Waiting
        BY <1>2, <2>2, <3>1 DEF Waiting, CallInv
      <3> QED
        BY <1>2, <2>2, <3>2, FrontFacts DEF AfterListener
    <2> QED
      BY <2>1, <2>2
  <1>9. CASE LockAndRead(t)
    <2> DEFINE c == [Top(t) EXCEPT !.pc = "add", !.seen = counts[Top(t).name]]
    <2>1. /\ Top(t).pc = "count" /\ stack' = [stack EXCEPT ![t] = <<c>> \o Tail(stack[t])]
          /\ UNCHANGED counts
      BY <1>2, <1>9 DEF LockAndRead, At, Becomes, DiagTypeOK
    <2>2. c \in Calls /\ c.pc = "add" /\ c.op = Top(t).op /\ c.name = Top(t).name
      BY <1>2 DEF Calls, CallPc, DiagTypeOK
    <2> HIDE DEF c
    <2>3. stack'[t] # <<>> /\ Top(t)' = c
      BY <1>2, <1>5, <2>1, <2>2
    <2>4. /\ Counting(t)' <=> Counting(t)
          /\ Top(t)'.name = Top(t).name
      BY <1>1, <2>1, <2>2, <2>3 DEF Counting
    <2>5. \A x \in Exporters : t \in CountedAt(x)' <=> t \in CountedAt(x)
      BY <1>3, <2>4 DEF CountedAt
    <2>6. Counting(t)' => at'[t].pc = "report" /\ Top(t)'.name = CountName(at'[t].exporter)
      BY <1>3, <2>4 DEF CountInv
    <2> QED
      BY <1>3, <1>4, <2>1, <2>5, <2>6, SameCount
  <1>10. CASE Add(t)
    <2> DEFINE c == [Top(t) EXCEPT !.pc = "listen"]
    <2>1. /\ Top(t).pc = "add" /\ stack' = [stack EXCEPT ![t] = <<c>> \o Tail(stack[t])]
          /\ counts' = [counts EXCEPT ![Top(t).name] = Top(t).seen + 1]
      BY <1>2, <1>10 DEF Add, At, Becomes, DiagTypeOK
    <2>2. c \in Calls /\ c.pc = "listen"
      BY <1>2 DEF Calls, CallPc
    <2> HIDE DEF c
    <2>3. stack'[t] # <<>> /\ Top(t)' = c
      BY <1>2, <1>5, <2>1, <2>2
    <2>4. ~Counting(t)'
      BY <2>2, <2>3 DEF Counting
    <2>5. counts' = [counts EXCEPT ![Top(t).name] = @ + 1]
      BY <1>1, <1>2, <2>1 DEF TopInv
    <2>6. CASE Top(t).op = None
      <3>1. Counting(t)
        BY <1>1, <2>1, <2>6 DEF Counting
      <3>2. at[t].pc = "report" /\ Top(t).name = CountName(at[t].exporter)
        BY <3>1 DEF CountInv
      <3>3. at[t].exporter \in Exporters
        BY <3>2, PlaceFacts DEF ExporterInv
      <3> QED
        BY <1>3, <1>4, <2>1, <2>4, <2>5, <3>1, <3>2, <3>3, OneMoreCounted, ZenonT(60) DEF ExporterInv
    <2>7. CASE Top(t).op # None
      <3>1. ~Counting(t) /\ Top(t).name = Failure(Top(t).op) /\ Top(t).op \in Operations
        BY <1>2, <2>7 DEF Counting, CallInv, Calls
      <3>2. \A x \in Exporters : counts'[CountName(x)] = counts[CountName(x)]
        BY <1>2, <2>5, <3>1, CountNames DEF DiagTypeOK
      <3>3. \A x \in Exporters : t \in CountedAt(x)' <=> t \in CountedAt(x)
        BY <1>3, <2>4, <3>1 DEF CountedAt
      <3> QED
        BY <1>3, <1>4, <2>1, <2>4, <3>2, <3>3, SameCount
    <2> QED
      BY <2>6, <2>7
  <1>11. CASE Listen(t)
    <2>1. /\ At(t, "listen") /\ Top(t).pc = "listen" /\ UNCHANGED counts
          /\ stack' = [stack EXCEPT ![t] = AfterListener(t)]
      BY <1>11 DEF Listen, At
    <2> QED
      BY <1>4, <1>6, <1>7, <1>8, <2>1 DEF Counting
  <1>12. CASE ListenerFails(t)
    <2>1. /\ At(t, "listen") /\ Top(t).pc = "listen" /\ UNCHANGED counts
          /\ stack' = [stack EXCEPT ![t] = <<ReportCall(MetricRecord)>> \o AfterListener(t)]
      BY <1>12 DEF ListenerFails, At
    <2>2. AfterListener(t) \in Seq(Calls)
      BY <1>8, <2>1, WaitingFacts
    <2>3. ReportCall(MetricRecord) \in Calls /\ ReportCall(MetricRecord).op # None
      BY DiagnosticsAssumption, NameFacts DEF ReportCall, Call, Calls, CallPc
    <2>4. stack'[t] # <<>> /\ Top(t)' = ReportCall(MetricRecord)
      BY <1>5, <2>1, <2>2, <2>3
    <2> QED
      BY <1>4, <1>7, <2>1, <2>3, <2>4 DEF Counting
  <1>13. CASE ReadClock(t)
    <2> DEFINE c == [Top(t) EXCEPT !.pc = "limit", !.now = clock]
    <2>1. /\ Top(t).pc = "clock" /\ stack' = [stack EXCEPT ![t] = <<c>> \o Tail(stack[t])]
          /\ UNCHANGED counts
      BY <1>2, <1>13 DEF ReadClock, At, Becomes, DiagTypeOK
    <2>2. c \in Calls /\ c.pc = "limit"
      BY <1>2 DEF Calls, CallPc, DiagTypeOK
    <2> HIDE DEF c
    <2>3. stack'[t] # <<>> /\ Top(t)' = c
      BY <1>2, <1>5, <2>1, <2>2
    <2> QED
      BY <1>4, <1>7, <2>1, <2>2, <2>3 DEF Counting
  <1>14. CASE LockAndLook(t)
    <2> DEFINE c == [Top(t) EXCEPT !.pc = "decide", !.seen = last[Top(t).op]]
    <2>1. /\ Top(t).pc = "limit" /\ stack' = [stack EXCEPT ![t] = <<c>> \o Tail(stack[t])]
          /\ UNCHANGED counts
      BY <1>2, <1>14 DEF LockAndLook, At, Becomes, DiagTypeOK
    <2>2. Top(t).op \in Operations
      BY <1>2, <2>1 DEF CallInv, Calls
    <2>3. c \in Calls /\ c.pc = "decide"
      BY <1>2, <2>2 DEF Calls, CallPc, DiagTypeOK
    <2> HIDE DEF c
    <2>4. stack'[t] # <<>> /\ Top(t)' = c
      BY <1>2, <1>5, <2>1, <2>3
    <2> QED
      BY <1>4, <1>7, <2>1, <2>3, <2>4 DEF Counting
  <1>15. CASE Decide(t)
    <2>1. Top(t).pc = "decide" /\ UNCHANGED counts
      BY <1>15 DEF Decide, At
    <2>2. CASE Return(t)
      <3>1. stack' = [stack EXCEPT ![t] = Tail(stack[t])]
        BY <2>2 DEF Return
      <3> QED
        BY <1>2, <1>4, <1>6, <1>7, <2>1, <3>1 DEF Counting
    <2>3. CASE \E l : Becomes(t, [Top(t) EXCEPT !.pc = "print", !.now = 0, !.seen = None,
                                                !.line = l]) /\ l = lines.admitted[Top(t).op] + 1
      <3> DEFINE l == lines.admitted[Top(t).op] + 1
                 c == [Top(t) EXCEPT !.pc = "print", !.now = 0, !.seen = None, !.line = l]
      <3>1. stack' = [stack EXCEPT ![t] = <<c>> \o Tail(stack[t])]
        BY <2>3 DEF Becomes
      <3>2. Top(t).op \in Operations
        BY <1>2, <2>1 DEF CallInv, Calls
      <3>3. l \in Nat
        BY <1>2, <3>2 DEF DiagTypeOK, Lines
      <3> HIDE DEF l
      <3>4. c \in Calls /\ c.pc = "print"
        BY <1>2, <3>3 DEF Calls, CallPc
      <3> HIDE DEF c
      <3>5. stack'[t] # <<>> /\ Top(t)' = c
        BY <1>2, <1>5, <3>1, <3>4
      <3> QED
        BY <1>4, <1>7, <2>1, <3>1, <3>4, <3>5 DEF Counting
    <2> QED
      BY <1>15, <2>2, <2>3 DEF Decide
  <1>16. CASE WriteLine(t)
    <2>1. /\ Top(t).pc = "print" /\ stack' = [stack EXCEPT ![t] = Tail(stack[t])]
          /\ UNCHANGED counts
      BY <1>2, <1>16 DEF WriteLine, At, Return, DiagTypeOK
    <2> QED
      BY <1>2, <1>4, <1>6, <1>7, <2>1 DEF Counting
  <1> QED
    BY <1>9, <1>10, <1>11, <1>12, <1>13, <1>14, <1>15, <1>16 DEF DiagStep

\* The steps of an export that fails, from the count to the report.
LEMMA FailureCount ==
    ASSUME ExporterInv, CountInv, NEW t \in Threads,
           FailureCounted(t) \/ FailureReported(t)
    PROVE  CountInv'
  <1>1. OwnInv /\ ExporterTypeOK /\ {"count", "report", "reported"} \subseteq Places
    BY SplitInv DEF ExporterInv, Places
  <1>2. CASE FailureCounted(t)
    <2>1. /\ In(t, "count") /\ Go(t, "report") /\ UNCHANGED failed
          /\ Increment(t, NamesOf(at[t].exporter).count)
      BY <1>2 DEF FailureCounted, CountFailure
    <2>2. /\ at[t].pc = "count" /\ at[t].exporter \in Exporters
          /\ at' = [at EXCEPT ![t] = [at[t] EXCEPT !.pc = "report"]]
          /\ [at[t] EXCEPT !.pc = "report"].pc = "report"
          /\ [at[t] EXCEPT !.pc = "report"].exporter = at[t].exporter
      BY <1>1, <2>1, InFacts
    <2>3. /\ at'[t].pc = "report" /\ at'[t].exporter = at[t].exporter
          /\ \A u \in Threads \ {t} : at'[u] = at[u]
      BY <1>1, <2>2 DEF ExporterTypeOK
    <2>4. /\ Counting(t)' /\ Top(t)'.name = CountName(at[t].exporter)
          /\ UNCHANGED counts /\ \A u \in Threads \ {t} : stack'[u] = stack[u]
      BY <1>1, <2>1, EnterCount DEF Increment, CountName
    <2>5. \A x \in Exporters : t \in CountedAt(x)' <=> t \in CountedAt(x)
      BY <2>2, <2>4 DEF CountedAt
    <2>6. Counting(t)' => at'[t].pc = "report" /\ Top(t)'.name = CountName(at'[t].exporter)
      BY <2>3, <2>4
    <2> QED
      BY <2>1, <2>3, <2>4, <2>5, <2>6, SameCount
  <1>3. CASE FailureReported(t)
    <2>1. /\ In(t, "report") /\ Go(t, "reported")
          /\ failed' = [failed EXCEPT ![at[t].exporter] = @ + 1]
          /\ Report(t, NamesOf(at[t].exporter).export)
      BY <1>3 DEF FailureReported
    <2>2. /\ at[t].pc = "report" /\ at[t].exporter \in Exporters
          /\ at' = [at EXCEPT ![t] = [at[t] EXCEPT !.pc = "reported"]]
          /\ [at[t] EXCEPT !.pc = "reported"].pc = "reported"
      BY <1>1, <2>1, InFacts
    <2>3. at'[t].pc = "reported" /\ \A u \in Threads \ {t} : at'[u] = at[u]
      BY <1>1, <2>2 DEF ExporterTypeOK
    <2>4. NamesOf(at[t].exporter).export \in Operations
      BY <2>2, NamesFacts
    <2>5. /\ ~Counting(t)' /\ ~Counting(t) /\ UNCHANGED counts
          /\ \A u \in Threads \ {t} : stack'[u] = stack[u]
      BY <1>1, <2>1, <2>4, EnterCount DEF Report
    <2>6. t \in CountedAt(at[t].exporter)
      BY <2>2, <2>5 DEF CountedAt
    <2> QED
      BY <1>1, <2>1, <2>2, <2>3, <2>5, <2>6, OneMoreReported
  <1> QED
    BY <1>2, <1>3

\* The other steps of a wrapper neither count nor report a failed export.
LEMMA OtherStepCount ==
    ASSUME ExporterInv, CountInv, NEW t \in Threads, ExporterStep(t),
           ~FailureCounted(t), ~FailureReported(t)
    PROVE  CountInv'
  <1>1. /\ OwnInv /\ ExporterTypeOK
        /\ Places \ {"away"} = Places /\ Away.pc = "away"
        /\ {"look", "wait", "again", "build", "export", "count", "flush", "shutdown",
            "reported"} \subseteq Places
    BY SplitInv DEF ExporterInv, Places, Away
  <1>2. ASSUME NEW p \in Places, In(t, p), NEW q \in Places, Go(t, q)
        PROVE  /\ at[t].pc = p /\ at'[t].pc = q /\ at[t].exporter \in Exporters
               /\ \A u \in Threads \ {t} : at'[u] = at[u]
    <2>1. /\ at[t].pc = p /\ at[t].exporter \in Exporters
          /\ at' = [at EXCEPT ![t] = [at[t] EXCEPT !.pc = q]]
          /\ [at[t] EXCEPT !.pc = q].pc = q
      BY <1>1, <1>2, InFacts
    <2> QED
      BY <1>1, <2>1 DEF ExporterTypeOK
  <1>3. ASSUME NEW p \in Places, In(t, p), Leave(t)
        PROVE  /\ at[t].pc = p /\ at'[t].pc = "away"
               /\ \A u \in Threads \ {t} : at'[u] = at[u]
    BY <1>1, <1>3 DEF In, Leave, ExporterTypeOK
  <1>4. (UNCHANGED diagVars) => UNCHANGED <<stack, counts>>
    BY DEF diagVars
  <1>5. CASE Look(t)
    <2>1. /\ In(t, "look") /\ UNCHANGED <<stack, counts, failed>>
          /\ Go(t, "wait") \/ Go(t, "export")
      BY <1>4, <1>5 DEF Look
    <2> QED
      BY <1>1, <1>2, <2>1, ElsewhereCount
  <1>6. CASE Lock(t)
    <2>1. In(t, "wait") /\ UNCHANGED <<stack, counts, failed>> /\ Go(t, "again")
      BY <1>4, <1>6 DEF Lock
    <2> QED
      BY <1>1, <1>2, <2>1, ElsewhereCount
  <1>7. CASE LookAgain(t)
    <2>1. /\ In(t, "again") /\ UNCHANGED <<stack, counts, failed>>
          /\ Go(t, "build") \/ Go(t, "export")
      BY <1>4, <1>7 DEF LookAgain
    <2> QED
      BY <1>1, <1>2, <2>1, ElsewhereCount
  <1>8. CASE Build(t) \/ BuildFails(t)
    <2>1. /\ In(t, "build") /\ UNCHANGED <<stack, counts, failed>>
          /\ Go(t, "export") \/ Go(t, "count")
      BY <1>4, <1>8 DEF Build, BuildFails
    <2> QED
      BY <1>1, <1>2, <2>1, ElsewhereCount
  <1>9. CASE ExportDone(t) \/ ExportRefused(t) \/ ExportFails(t)
    <2>1. /\ In(t, "export") /\ UNCHANGED <<stack, counts, failed>>
          /\ Leave(t) \/ Go(t, "count")
      BY <1>4, <1>9 DEF ExportDone, ExportRefused, ExportFails
    <2> QED
      BY <1>1, <1>2, <1>3, <2>1, ElsewhereCount
  <1>10. ASSUME NEW what \in {"flush", "shutdown"}, Finish(t, what)
         PROVE  CountInv'
    <2>1. In(t, what) /\ UNCHANGED <<stack, counts, failed>> /\ Leave(t)
      BY <1>4, <1>10 DEF Finish
    <2> QED
      BY <1>1, <1>3, <2>1, ElsewhereCount
  <1>11. ASSUME NEW what \in {"flush", "shutdown"}, FinishFails(t, what)
         PROVE  CountInv'
    <2>1. /\ In(t, what) /\ Go(t, "reported") /\ UNCHANGED failed
          /\ Report(t, NamesOf(at[t].exporter)[what])
      BY <1>11 DEF FinishFails
    <2>2. /\ at[t].pc = what /\ at'[t].pc = "reported" /\ at[t].exporter \in Exporters
          /\ \A u \in Threads \ {t} : at'[u] = at[u]
      BY <1>1, <1>2, <2>1
    <2>3. NamesOf(at[t].exporter)[what] \in Operations /\ UNCHANGED counts
      BY <1>1, <2>1, <2>2, NamesFacts, EnterCount DEF Report
    <2> QED
      BY <2>1, <2>2, <2>3, ElsewhereCount
  <1>12. CASE Reported(t)
    <2>1. In(t, "reported") /\ UNCHANGED <<stack, counts, failed>> /\ Leave(t)
      BY <1>4, <1>12 DEF Reported
    <2> QED
      BY <1>1, <1>3, <2>1, ElsewhereCount
  <1> QED
    BY <1>5, <1>6, <1>7, <1>8, <1>9, <1>10, <1>11, <1>12 DEF ExporterStep

LEMMA CountInitInv == Init => CountInv
  <1> SUFFICES ASSUME Init PROVE CountInv
    OBVIOUS
  <1>1. \A t \in Threads : ~Counting(t) /\ at[t].pc # "report"
    BY DEF Init, DiagInit, Counting, Away
  <1>2. \A x \in Exporters : CountedAt(x) = {}
    BY <1>1 DEF CountedAt
  <1>3. IsFiniteSet({}) /\ Cardinality({}) = 0
    BY FS_EmptySet
  <1>4. \A x \in Exporters : counts[CountName(x)] = 0 /\ failed[x] = 0
    BY CountNames DEF Init, DiagInit
  <1>5. ASSUME NEW x \in Exporters
        PROVE  /\ IsFiniteSet(CountedAt(x))
               /\ counts[CountName(x)] = failed[x] + Cardinality(CountedAt(x))
    <2>1. IsFiniteSet(CountedAt(x)) /\ Cardinality(CountedAt(x)) = 0
      BY <1>2, <1>3
    <2> QED
      BY <1>4, <2>1
  <1> QED
    BY <1>1, <1>5 DEF CountInv

LEMMA CountNextInv == ExporterInv /\ CountInv /\ [Next]_vars => CountInv'
  <1> SUFFICES ASSUME ExporterInv, CountInv, [Next]_vars PROVE CountInv'
    OBVIOUS
  <1>1. ASSUME UNCHANGED <<at, stack, counts, failed>> PROVE CountInv'
    <2>1. /\ \A t : (Counting(t)' <=> Counting(t)) /\ Top(t)' = Top(t)
          /\ \A x : CountedAt(x)' = CountedAt(x)
      BY <1>1 DEF Counting, CountedAt, Top
    <2> QED
      BY <1>1, <2>1 DEF CountInv, CountName
  <1>2. ASSUME NEW t \in Threads, NEW x \in Exporters,
               Export(t, x) \/ \E what \in {"flush", "shutdown"} : Begin(t, x, what)
        PROVE  CountInv'
    <2>1. PICK pc \in {"look", "flush", "shutdown"} : Arrive(t, x, pc)
      BY <1>2 DEF Export, Begin
    <2>2. UNCHANGED <<stack, counts, failed>>
      BY <1>2 DEF Export, Begin, diagVars
    <2>3. /\ at[t].pc = "away" /\ at'[t].pc = pc
          /\ \A u \in Threads \ {t} : at'[u] = at[u]
      BY <2>1 DEF Arrive, Away, ExporterInv, ExporterTypeOK
    <2> QED
      BY <2>2, <2>3, ElsewhereCount
  <1>3. ASSUME NEW t \in Threads, ThreadStep(t) PROVE CountInv'
    BY <1>3, DiagStepCount, FailureCount, OtherStepCount DEF ThreadStep
  <1>4. CASE (AddListener \/ Tick) /\ UNCHANGED exporterVars
    BY <1>1, <1>4 DEF AddListener, Tick, exporterVars
  <1>5. CASE UNCHANGED vars
    BY <1>1, <1>5 DEF vars, diagVars, exporterVars
  <1> QED
    BY <1>2, <1>3, <1>4, <1>5 DEF Next

\* When no call of a wrapper is on its way from the count of a failure to its
\* report, its count is the number of its exports in which something raised: none is
\* counted twice or lost, whichever of the factory and the delegate it was, and an
\* export whose delegate returned FAILURE counts for nothing.
THEOREM FailuresAreCounted == Spec => []FailuresCounted
  <1>1. ExporterInv /\ CountInv => FailuresCounted
    <2> SUFFICES ASSUME ExporterInv, CountInv, NEW x \in Exporters,
                        Settled(x)
                 PROVE  counts[Count(NamesOf(x).count)] = failed[x]
      BY DEF FailuresCounted
    <2>1. CountedAt(x) = {} /\ failed[x] \in Nat
      BY DEF Settled, CountedAt, ExporterInv, ExporterTypeOK
    <2>2. counts[CountName(x)] = failed[x] + Cardinality(CountedAt(x))
      BY DEF CountInv
    <2> QED
      BY <2>1, <2>2, FS_EmptySet DEF CountName
  <1> QED
    BY <1>1, CountInitInv, CountNextInv, ExporterInvariance, PTL DEF Spec
===============================================================================
