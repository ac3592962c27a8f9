------------------------- MODULE DeliveryManagerProofs -------------------------
(***************************************************************************)
(* Proofs about DeliveryManager, for any number of emitting threads,       *)
(* destinations and calls.  The list of destinations is not locked, so the *)
(* invariant follows each destination that can be closed through its       *)
(* removal: it is in the list, at the head of the work of one thread, or   *)
(* listed with a cleanup (OnceInv, CopyInv); and each worker through       *)
(* close: open, waited for by the call under way, ended or reported        *)
(* (WorkerInv).                                                            *)
(***************************************************************************)
EXTENDS DeliveryManager, FiniteSetTheorems, TLAPS

Replacing(e) == em[e].pc \in {"cleanup", "count", "fallback"}
Counting(e) == em[e].pc \in {"reset", "read", "add", "check"}

\* What the local states have at the points where it is used.
ShapeInv ==
    /\ \A e \in Emitters : Replacing(e) => em[e].disabled # <<>>
    /\ \A e \in Emitters : Counting(e) => em[e].wrote # 0
    /\ cl.tasks <= Len(tasks)
    /\ cl.pc = "worker" => cl.pos <= queued
    /\ cl.calls = 0 => cl.pc = "idle"

\* Unless two threads ever wrote to d before one of them had counted its write, the
\* count is the streak, or behind it by the one write that is not counted yet.
CountInv(d) ==
    /\ \A e, f \in Emitters : Uncounted(e, d) /\ Uncounted(f, d) => e = f
    /\ failures[d] >= Limit => d \in tripped
    /\ streak[d] >= Limit => d \in tripped
    /\ (\A e \in Emitters : ~Uncounted(e, d)) => failures[d] = streak[d]
    /\ \A e \in Emitters : Uncounted(e, d) =>
          /\ em[e].pc = "reset" => streak[d] = 0
          /\ em[e].pc \in {"read", "add"} => streak[d] = failures[d] + 1
          /\ em[e].pc = "add" => em[e].seen = failures[d]

\* A thread disables only destinations that have failed Limit times in a row.
StreakInv ==
    /\ \A d \in Inline \ raced : CountInv(d)
    /\ \A e \in Emitters : ToSet(em[e].disabled) \subseteq tripped \cup raced

\* A thread has tried what is behind its position in its copy.
TriedInv ==
    \A e \in Emitters :
        /\ em[e].pc = "write" \/ Counting(e) =>
              \A i \in DOMAIN em[e].copy : i < em[e].pos => em[e].copy[i] \in em[e].tried
        /\ Counting(e) =>
              em[e].pos \in DOMAIN em[e].copy /\ em[e].copy[em[e].pos] \in em[e].tried
        /\ em[e].pc \in {"disable", "cleanup", "count", "fallback"} =>
              \A i \in DOMAIN em[e].copy : em[e].copy[i] \in em[e].tried

\* The destination whose cleanup a thread is about to start.
Removed(e) == Head(em[e].disabled)

\* Until close is called, a writer to close is in the list once, or with one
\* thread, or in one task.
ListOnce ==
    \A i, j \in DOMAIN inline : inline[i] = inline[j] /\ inline[i] \in Closeable => i = j

TaskOnce ==
    /\ \A i \in 1..Len(tasks) : ~Attached(tasks[i].dest)
    /\ \A i, j \in 1..Len(tasks) : tasks[i].dest = tasks[j].dest => i = j

ThreadOnce(e) ==
    em[e].pc = "cleanup" /\ Removed(e) \in Closeable =>
        /\ ~Attached(Removed(e))
        /\ \A i \in 1..Len(tasks) : tasks[i].dest # Removed(e)
        /\ \A f \in Emitters : em[f].pc = "cleanup" /\ Removed(f) = Removed(e) => f = e

OnceInv ==
    cl.calls = 0 => ListOnce /\ TaskOnce /\ \A e \in Emitters : ThreadOnce(e)

\* What close clears it has copied, or another thread cleans it up.
CopyInv ==
    cl.pc = "clear" =>
        \A d \in Closeable : Attached(d) => d \in ToSet(cl.left)

\* close, in this call or an earlier one, has come to a queued destination.
Passed(q) ==
    \/ cl.pc \in {"queued", "worker"} /\ q < cl.pos
    \/ cl.pc = "join"
    \/ cl.pc = "idle" /\ cl.calls > 0

\* A worker told to end is reported or waited for, and is not both.
WorkerInv ==
    /\ \A q \in 1..queued :
          worker[q] = "closing" => q \in blamed \/ (cl.pc = "worker" /\ cl.pos = q)
    /\ \A q \in blamed : worker[q] # "open" /\ ~(cl.pc = "worker" /\ cl.pos = q)
    /\ cl.pc = "worker" => worker[cl.pos] # "open"
    /\ \A q \in 1..queued : Passed(q) => worker[q] # "open"

\* close has looked at the tasks before its position.
TaskInv ==
    \A i \in 1..Len(tasks) :
        (i <= cl.tasks /\ tasks[i].busy /\ (cl.pc = "idle" \/ (cl.pc = "join" /\ i < cl.pos)))
            => tasks[i].told

IInv ==
    /\ TypeOK /\ ShapeInv /\ StreakInv /\ TriedInv /\ NoBlackout
    /\ OnceInv /\ CopyInv /\ RemovedIsCleanedUp
    /\ WorkerInv /\ TaskInv /\ LateCountedOnce
-------------------------------------------------------------------------------
(* Sequences *)

\* RemoveAt shortens a sequence by one and keeps the order of the rest.
LEMMA RemoveFacts ==
    ASSUME NEW S, NEW s \in Seq(S), NEW i \in DOMAIN s
    PROVE  /\ RemoveAt(s, i) \in Seq(S)
           /\ DOMAIN RemoveAt(s, i) = 1..(Len(s) - 1)
           /\ \A j \in 1..(Len(s) - 1) :
                 RemoveAt(s, i)[j] = IF j < i THEN s[j] ELSE s[j + 1]
  <1> DEFINE a == SubSeq(s, 1, i - 1)
             b == SubSeq(s, i + 1, Len(s))
  <1>1. a \in Seq(S) /\ Len(a) = i - 1 /\ \A j \in 1..(i - 1) : a[j] = s[j]
    OBVIOUS
  <1>2. b \in Seq(S) /\ Len(b) = Len(s) - i /\ \A j \in 1..(Len(s) - i) : b[j] = s[j + i]
    OBVIOUS
  <1> HIDE DEF a, b
  <1>3. RemoveAt(s, i) = a \o b
    BY DEF RemoveAt, a, b
  <1>4. a \o b \in Seq(S) /\ Len(a \o b) = Len(s) - 1
    BY <1>1, <1>2
  <1>5. \A j \in 1..(Len(s) - 1) : (a \o b)[j] = IF j < i THEN s[j] ELSE s[j + 1]
    BY <1>1, <1>2, SMTT(60)
  <1> QED
    BY <1>3, <1>4, <1>5

\* RemoveAt loses no element but the one it removes.
LEMMA RemoveSet ==
    ASSUME NEW S, NEW s \in Seq(S), NEW i \in DOMAIN s
    PROVE  /\ ToSet(RemoveAt(s, i)) \subseteq ToSet(s)
           /\ ToSet(s) \subseteq ToSet(RemoveAt(s, i)) \cup {s[i]}
  <1> DEFINE r == RemoveAt(s, i)
  <1>1. /\ DOMAIN r = 1..(Len(s) - 1)
        /\ \A j \in 1..(Len(s) - 1) : r[j] = IF j < i THEN s[j] ELSE s[j + 1]
    BY RemoveFacts
  <1> HIDE DEF r
  <1>2. ToSet(r) \subseteq ToSet(s)
    BY <1>1 DEF ToSet
  <1>3. ASSUME NEW j \in DOMAIN s, j # i
        PROVE  s[j] \in ToSet(r)
    <2>1. CASE j < i
      BY <1>1, <2>1 DEF ToSet
    <2>2. CASE j > i
      <3>1. j - 1 \in DOMAIN r /\ r[j - 1] = s[j]
        BY <1>1, <2>2, SMTT(60)
      <3> QED
        BY <3>1 DEF ToSet
    <2> QED
      BY <1>3, <2>1, <2>2
  <1> QED
    BY <1>2, <1>3 DEF ToSet, r

\* Append adds one element.
LEMMA AppendSet ==
    ASSUME NEW S, NEW s \in Seq(S), NEW x \in S
    PROVE  ToSet(Append(s, x)) = ToSet(s) \cup {x}
  <1>1. /\ DOMAIN Append(s, x) = 1..(Len(s) + 1) /\ DOMAIN s = 1..Len(s)
        /\ Append(s, x)[Len(s) + 1] = x
        /\ \A j \in 1..Len(s) : Append(s, x)[j] = s[j]
    OBVIOUS
  <1>2. \A y \in ToSet(s) \cup {x} : y \in ToSet(Append(s, x))
    BY <1>1 DEF ToSet
  <1>3. \A y \in ToSet(Append(s, x)) : y \in ToSet(s) \cup {x}
    BY <1>1 DEF ToSet
  <1> QED
    BY <1>2, <1>3

\* The elements of a sequence are its head and those of its tail.
LEMMA TailSet ==
    ASSUME NEW S, NEW s \in Seq(S), s # <<>>
    PROVE  /\ Head(s) \in S /\ Tail(s) \in Seq(S)
           /\ ToSet(s) = {Head(s)} \cup ToSet(Tail(s))
  <1>1. /\ Head(s) = s[1] /\ Tail(s) \in Seq(S) /\ Len(Tail(s)) = Len(s) - 1
        /\ \A j \in 1..(Len(s) - 1) : Tail(s)[j] = s[j + 1]
        /\ Len(s) >= 1
    OBVIOUS
  <1>2. ASSUME NEW j \in DOMAIN s, j # 1
        PROVE  s[j] \in ToSet(Tail(s))
    <2>1. j - 1 \in DOMAIN Tail(s) /\ Tail(s)[j - 1] = s[j]
      BY <1>1, <1>2
    <2> QED
      BY <2>1 DEF ToSet
  <1> QED
    BY <1>1, <1>2 DEF ToSet
-------------------------------------------------------------------------------
(* Types *)

\* The numbers of the inline destinations and of the fallbacks.
LEMMA InlineFacts ==
    /\ Inline \subseteq Nat \ {0} /\ Closeable \subseteq 1..Configured
    /\ 1..Configured \subseteq Inline
    /\ Configured \in Nat /\ MaxQueued \in Nat /\ Limit \in Nat \ {0} /\ MaxFallbacks \in Nat \ {0}
    /\ \A n \in 0..(MaxFallbacks - 1) : Configured + n + 1 \in Inline
  BY ManagerAssumption DEF Inline

\* The first states have the types and shapes of the invariant.
LEMMA TypeInit == Init => TypeOK /\ ShapeInv
  <1> SUFFICES ASSUME Init PROVE TypeOK /\ ShapeInv
    OBVIOUS
  <1>1. built \in 0..Configured /\ queued \in 0..MaxQueued
    BY DEF Init
  <1>2. inline \in Seq(Inline) /\ fallbacks \in 0..MaxFallbacks
    <2>1. CASE built + queued = 0
      <3>1. Configured + 1 \in Inline
        BY InlineFacts
      <3>2. inline = <<Configured + 1>> /\ fallbacks = 1
        BY <2>1 DEF Init
      <3> QED
        BY <3>1, <3>2, InlineFacts
    <2>2. CASE built + queued # 0
      <3>1. \A i \in 1..built : i \in Inline
        BY <1>1, InlineFacts
      <3> QED
        BY <1>1, <2>2, <3>1, InlineFacts DEF Init
    <2> QED
      BY <2>1, <2>2
  <1>3. em \in [Emitters -> Emitter] /\ \A e \in Emitters : em[e].pc = "idle"
    BY ManagerAssumption DEF Init, Emitter
  <1>4. cl \in Closer /\ cl.pc = "idle" /\ cl.tasks = 0 /\ Len(tasks) = 0
    BY ManagerAssumption DEF Init, Closer
  <1>5. tasks \in Seq(Task)
    BY DEF Init
  <1> QED
    BY <1>1, <1>2, <1>3, <1>4, <1>5 DEF Init, TypeOK, ShapeInv, Replacing, Counting

\* A cleanup keeps the types of the tasks.
LEMMA CleanupTypes ==
    ASSUME TypeOK, NEW d, StartWriterCleanup(d)
    PROVE  /\ tasks' \in Seq(Task) /\ unstarted' \in SUBSET Closeable
           /\ Len(tasks) <= Len(tasks')
  <1>1. tasks \in Seq(Task) /\ unstarted \in SUBSET Closeable
    BY DEF TypeOK
  <1>2. CASE d \notin Closeable /\ UNCHANGED cleanup
    BY <1>1, <1>2 DEF cleanup
  <1>3. CASE d \in Closeable /\ tasks' = Append(tasks, NewTask(d)) /\ UNCHANGED unstarted
    <2>1. NewTask(d) \in Task
      BY <1>3 DEF NewTask, Task
    <2> QED
      BY <1>1, <1>3, <2>1
  <1>4. CASE d \in Closeable /\ unstarted' = unstarted \cup {d} /\ UNCHANGED tasks
    BY <1>1, <1>4
  <1> QED
    BY <1>2, <1>3, <1>4 DEF StartWriterCleanup

\* An update of one task keeps the type and the length of the list.
LEMMA TaskUpdate ==
    ASSUME tasks \in Seq(Task), NEW i \in 1..Len(tasks)
    PROVE  /\ [tasks EXCEPT ![i].told = TRUE] \in Seq(Task)
           /\ [tasks EXCEPT ![i].busy = FALSE] \in Seq(Task)
           /\ Len([tasks EXCEPT ![i].told = TRUE]) = Len(tasks)
           /\ Len([tasks EXCEPT ![i].busy = FALSE]) = Len(tasks)
  <1>1. tasks[i] \in Task
    OBVIOUS
  <1>2. [tasks[i] EXCEPT !.told = TRUE] \in Task /\ [tasks[i] EXCEPT !.busy = FALSE] \in Task
    BY <1>1 DEF Task
  <1> QED
    BY <1>1, <1>2

\* What a step of emit leaves in the local state of its thread, and one of close.
Local(e, pc, pos, wrote, seen, disabled, scan, tried) ==
    [pc |-> pc, copy |-> em[e].copy, pos |-> pos, wrote |-> wrote, seen |-> seen,
     disabled |-> disabled, scan |-> scan, emits |-> em[e].emits, tried |-> tried]

Closing(pc, left, pos, length) ==
    [pc |-> pc, left |-> left, pos |-> pos, tasks |-> length,
     expired |-> cl.expired, calls |-> cl.calls]

\* The parts of a thread's local state.
LEMMA EmitterFacts ==
    ASSUME em \in [Emitters -> Emitter], NEW e \in Emitters
    PROVE  /\ em[e] \in Emitter /\ em[e].copy \in Seq(Inline)
           /\ em[e].disabled \in Seq(Inline) /\ em[e].pos \in Nat \ {0}
           /\ em[e].pos + 1 \in Nat \ {0}
           /\ em[e].tried \in SUBSET Inline /\ em[e].wrote \in Inline \cup {0}
           /\ em[e].seen \in Nat /\ em[e].seen + 1 \in Nat
           /\ em[e].scan \in Nat \ {0} /\ em[e].scan + 1 \in Nat \ {0}
           /\ em[e].emits \in 0..MaxEmits
           /\ em[e].disabled # <<>> =>
                 Head(em[e].disabled) \in Inline /\ Tail(em[e].disabled) \in Seq(Inline)
           /\ AtTarget(e) => Target(e) \in Inline
  <1>1. em[e] \in Emitter
    OBVIOUS
  <1>2. /\ em[e].copy \in Seq(Inline)
        /\ em[e].disabled \in Seq(Inline) /\ em[e].pos \in Nat \ {0}
        /\ em[e].tried \in SUBSET Inline /\ em[e].wrote \in Inline \cup {0}
        /\ em[e].seen \in Nat /\ em[e].scan \in Nat \ {0}
        /\ em[e].emits \in 0..MaxEmits
    BY <1>1 DEF Emitter
  <1>3. AtTarget(e) => Target(e) \in Inline
    BY <1>2 DEF AtTarget, Target, Walked
  <1> QED
    BY <1>1, <1>2, <1>3, TailSet

\* Such a local state has its type.
LEMMA LocalType ==
    ASSUME em \in [Emitters -> Emitter], NEW e \in Emitters,
           NEW pc \in {"idle", "write", "reset", "read", "add", "check", "disable",
                     "cleanup", "count", "fallback"},
           NEW pos \in Nat \ {0}, NEW wrote \in Inline \cup {0}, NEW seen \in Nat,
           NEW disabled \in Seq(Inline), NEW scan \in Nat \ {0}, NEW tried \in SUBSET Inline
    PROVE  Local(e, pc, pos, wrote, seen, disabled, scan, tried) \in Emitter
  BY EmitterFacts DEF Local, Emitter

\* What the invariant asks of the local state of the thread that has taken a step.
Shaped(l) ==
    /\ l \in Emitter
    /\ l.pc \in {"cleanup", "count", "fallback"} => l.disabled # <<>>
    /\ l.pc \in {"reset", "read", "add", "check"} => l.wrote # 0

\* Such a local state has its shape too.
LEMMA LocalShape ==
    ASSUME em \in [Emitters -> Emitter], NEW e \in Emitters,
           NEW pc \in {"idle", "write", "reset", "read", "add", "check", "disable",
                     "cleanup", "count", "fallback"},
           NEW pos \in Nat \ {0}, NEW wrote \in Inline \cup {0}, NEW seen \in Nat,
           NEW disabled \in Seq(Inline), NEW scan \in Nat \ {0}, NEW tried \in SUBSET Inline,
           pc \in {"cleanup", "count", "fallback"} => disabled # <<>>,
           pc \in {"reset", "read", "add", "check"} => wrote # 0
    PROVE  Shaped(Local(e, pc, pos, wrote, seen, disabled, scan, tried))
  BY LocalType DEF Shaped, Local

\* The steps of emit.
LEMMA EmitTypes ==
    ASSUME TypeOK, ShapeInv, NEW e \in Emitters, EmitBegin(e) \/ EmitStep(e)
    PROVE  TypeOK' /\ ShapeInv'
  <1>1. /\ em \in [Emitters -> Emitter] /\ inline \in Seq(Inline)
        /\ failures \in [Inline -> Nat] /\ streak \in [Inline -> Nat]
        /\ fallbacks \in 0..MaxFallbacks /\ tripped \in SUBSET Inline
        /\ raced \in SUBSET Inline
        /\ tasks \in Seq(Task) /\ unstarted \in SUBSET Closeable
        /\ Len(tasks) \in Nat
    BY DEF TypeOK
  <1>2. /\ Replacing(e) => em[e].disabled # <<>>
        /\ Counting(e) => em[e].wrote \in Inline
    BY <1>1, EmitterFacts DEF ShapeInv, Replacing, Counting
  <1>0. 0 \notin Inline /\ 1 \in Nat \ {0}
    BY InlineFacts
  <1> DEFINE Good == /\ em' = [f \in Emitters |-> IF f = e THEN em'[e] ELSE em[f]]
                     /\ Shaped(em'[e])
             Lists == /\ inline' \in Seq(Inline) /\ fallbacks' \in 0..MaxFallbacks
                      /\ failures' \in [Inline -> Nat] /\ streak' \in [Inline -> Nat]
                      /\ tripped' \in SUBSET Inline /\ raced' \in SUBSET Inline
                      /\ tasks' \in Seq(Task) /\ unstarted' \in SUBSET Closeable
                      /\ Len(tasks) <= Len(tasks')
                      /\ UNCHANGED <<built, queued, worker, blamed, timeouts, cl>>
  <1>3. ASSUME EmitBegin(e) PROVE Good /\ Lists
    <2>1. em'[e] = [pc |-> "write", copy |-> inline, pos |-> 1, wrote |-> 0, seen |-> 0,
                    disabled |-> <<>>, scan |-> 1, emits |-> em[e].emits + 1, tried |-> {}]
      BY <1>1, <1>3 DEF EmitBegin
    <2>2. em[e].emits + 1 \in 0..MaxEmits
      BY <1>1, <1>3, EmitterFacts, ManagerAssumption DEF EmitBegin
    <2>3. Shaped(em'[e])
      BY <1>1, <2>1, <2>2 DEF Shaped, Emitter
    <2>4. em' = [f \in Emitters |-> IF f = e THEN em'[e] ELSE em[f]]
      BY <1>1, <1>3 DEF EmitBegin
    <2>5. Lists
      BY <1>1, <1>3 DEF EmitBegin, config, list, writes, cleanup, queues
    <2> QED
      BY <2>3, <2>4, <2>5
  <1>4. ASSUME Write(e) PROVE Good /\ Lists
    <2>1. Target(e) \in Inline
      BY <1>1, <1>4, EmitterFacts DEF Write, Wrote
    <2>2. em'[e] =
          Local(e, "reset", em[e].pos, Target(e), em[e].seen,
                em[e].disabled, em[e].scan, em[e].tried \cup {Target(e)})
      BY <1>1, <1>4, <2>1, ZenonT(60) DEF Write, Wrote, Local, Emitter
    <2>3. Shaped(Local(e, "reset", em[e].pos, Target(e), em[e].seen,
                    em[e].disabled, em[e].scan, em[e].tried \cup {Target(e)}))
      BY <1>0, <1>1, <2>1, EmitterFacts, LocalShape
    <2>4. em' = [f \in Emitters |-> IF f = e THEN em'[e] ELSE em[f]]
      BY <1>1, <1>4 DEF Write, Wrote
    <2>5. Lists
      BY <1>1, <1>4, <2>1 DEF Write, Wrote, config, list, writes, cleanup, queues
    <2> QED
      BY <2>2, <2>3, <2>4, <2>5
  <1>5. ASSUME ResetFailures(e) PROVE Good /\ Lists
    <2>1. em[e].wrote \in Inline
      BY <1>2, <1>5 DEF ResetFailures, Counting
    <2>2. em'[e] =
          Local(e, "write", em[e].pos + 1, 0, em[e].seen,
                em[e].disabled, em[e].scan, em[e].tried)
      BY <1>1, <1>5, <2>1, ZenonT(60) DEF ResetFailures, Local, Emitter
    <2>3. Shaped(Local(e, "write", em[e].pos + 1, 0, em[e].seen,
                    em[e].disabled, em[e].scan, em[e].tried))
      BY <1>0, <1>1, <2>1, EmitterFacts, LocalShape
    <2>4. em' = [f \in Emitters |-> IF f = e THEN em'[e] ELSE em[f]]
      BY <1>1, <1>5 DEF ResetFailures
    <2>5. Lists
      BY <1>1, <1>5, <2>1, EmitterFacts DEF ResetFailures, FailuresAfterSuccess, config, list, writes, cleanup, queues
    <2> QED
      BY <2>2, <2>3, <2>4, <2>5
  <1>6. ASSUME WriteFails(e) PROVE Good /\ Lists
    <2>1. Target(e) \in Inline
      BY <1>1, <1>6, EmitterFacts DEF WriteFails, Wrote
    <2>2. em'[e] =
          Local(e, "read", em[e].pos, Target(e), em[e].seen,
                em[e].disabled, em[e].scan, em[e].tried \cup {Target(e)})
      BY <1>1, <1>6, <2>1, ZenonT(60) DEF WriteFails, Wrote, Local, Emitter
    <2>3. Shaped(Local(e, "read", em[e].pos, Target(e), em[e].seen,
                    em[e].disabled, em[e].scan, em[e].tried \cup {Target(e)}))
      BY <1>0, <1>1, <2>1, EmitterFacts, LocalShape
    <2>4. em' = [f \in Emitters |-> IF f = e THEN em'[e] ELSE em[f]]
      BY <1>1, <1>6 DEF WriteFails, Wrote
    <2>5. Lists
      BY <1>1, <1>6, <2>1 DEF WriteFails, Wrote, config, list, writes, cleanup, queues
    <2> QED
      BY <2>2, <2>3, <2>4, <2>5
  <1>7. ASSUME ReadFailures(e) PROVE Good /\ Lists
    <2>1. em[e].wrote \in Inline
      BY <1>2, <1>7 DEF ReadFailures, Counting
    <2>2. failures[em[e].wrote] \in Nat
      BY <1>1, <2>1
    <2>3. em'[e] =
          Local(e, "add", em[e].pos, em[e].wrote, failures[em[e].wrote],
                em[e].disabled, em[e].scan, em[e].tried)
      BY <1>1, <1>7, <2>1, <2>2, ZenonT(60) DEF ReadFailures, Local, Emitter
    <2>4. Shaped(Local(e, "add", em[e].pos, em[e].wrote, failures[em[e].wrote],
                    em[e].disabled, em[e].scan, em[e].tried))
      BY <1>0, <1>1, <2>1, <2>2, EmitterFacts, LocalShape
    <2>5. em' = [f \in Emitters |-> IF f = e THEN em'[e] ELSE em[f]]
      BY <1>1, <1>7 DEF ReadFailures
    <2>6. Lists
      BY <1>1, <1>7 DEF ReadFailures, config, list, writes, cleanup, queues
    <2> QED
      BY <2>3, <2>4, <2>5, <2>6
  <1>8. ASSUME AddFailure(e) PROVE Good /\ Lists
    <2>1. em[e].wrote \in Inline
      BY <1>2, <1>8 DEF AddFailure, Counting
    <2>2. em'[e] =
          Local(e, "check", em[e].pos, em[e].wrote, 0,
                em[e].disabled, em[e].scan, em[e].tried)
      BY <1>1, <1>8, <2>1, ZenonT(60) DEF AddFailure, Local, Emitter
    <2>3. Shaped(Local(e, "check", em[e].pos, em[e].wrote, 0,
                    em[e].disabled, em[e].scan, em[e].tried))
      BY <1>0, <1>1, <2>1, EmitterFacts, LocalShape
    <2>4. em' = [f \in Emitters |-> IF f = e THEN em'[e] ELSE em[f]]
      BY <1>1, <1>8 DEF AddFailure
    <2>5. Lists
      BY <1>1, <1>8, <2>1, EmitterFacts DEF AddFailure, config, list, writes, cleanup, queues
    <2> QED
      BY <2>2, <2>3, <2>4, <2>5
  <1>9. ASSUME CheckLimit(e) PROVE Good /\ Lists
    <2>1. em[e].wrote \in Inline
      BY <1>2, <1>9 DEF CheckLimit, Counting
    <2>2. Append(em[e].disabled, em[e].wrote) \in Seq(Inline)
      BY <1>1, <2>1, EmitterFacts
    <2>3. \/ em'[e] =
             Local(e, "write", em[e].pos + 1, 0, em[e].seen,
                   Append(em[e].disabled, em[e].wrote), em[e].scan, em[e].tried)
          \/ em'[e] =
             Local(e, "write", em[e].pos + 1, 0, em[e].seen,
                   em[e].disabled, em[e].scan, em[e].tried)
      BY <1>1, <1>9, ZenonT(60) DEF CheckLimit, Local, Emitter
    <2>4. Shaped(Local(e, "write", em[e].pos + 1, 0, em[e].seen,
                    Append(em[e].disabled, em[e].wrote), em[e].scan, em[e].tried))
          /\ Shaped(Local(e, "write", em[e].pos + 1, 0, em[e].seen,
                    em[e].disabled, em[e].scan, em[e].tried))
      BY <1>0, <1>1, <2>1, <2>2, EmitterFacts, LocalShape
    <2>5. em' = [f \in Emitters |-> IF f = e THEN em'[e] ELSE em[f]]
      BY <1>1, <1>9 DEF CheckLimit
    <2>6. Lists
      BY <1>1, <1>9 DEF CheckLimit, config, list, writes, cleanup, queues
    <2> QED
      BY <2>3, <2>4, <2>5, <2>6
  <1>10. ASSUME LoopEnds(e) PROVE Good /\ Lists
    <2>1. em'[e] =
          Local(e, "disable", em[e].pos, em[e].wrote, em[e].seen,
                em[e].disabled, em[e].scan, em[e].tried)
      BY <1>1, <1>10, ZenonT(60) DEF LoopEnds, Local, Emitter
    <2>2. Shaped(Local(e, "disable", em[e].pos, em[e].wrote, em[e].seen,
                    em[e].disabled, em[e].scan, em[e].tried))
      BY <1>0, <1>1, EmitterFacts, LocalShape
    <2>3. em' = [f \in Emitters |-> IF f = e THEN em'[e] ELSE em[f]]
      BY <1>1, <1>10 DEF LoopEnds
    <2>4. Lists
      BY <1>1, <1>10 DEF LoopEnds, config, list, writes, cleanup, queues
    <2> QED
      BY <2>1, <2>2, <2>3, <2>4
  <1>11. ASSUME FanOut(e) PROVE Good /\ Lists
    <2>1. em'[e] =
          Local(e, "idle", em[e].pos, em[e].wrote, em[e].seen,
                em[e].disabled, em[e].scan, em[e].tried)
      BY <1>1, <1>11, ZenonT(60) DEF FanOut, Local, Emitter
    <2>2. Shaped(Local(e, "idle", em[e].pos, em[e].wrote, em[e].seen,
                    em[e].disabled, em[e].scan, em[e].tried))
      BY <1>0, <1>1, EmitterFacts, LocalShape
    <2>3. em' = [f \in Emitters |-> IF f = e THEN em'[e] ELSE em[f]]
      BY <1>1, <1>11 DEF FanOut
    <2>4. Lists
      BY <1>1, <1>11 DEF FanOut, config, list, writes, cleanup, queues
    <2> QED
      BY <2>1, <2>2, <2>3, <2>4
  <1>12. ASSUME Compare(e) PROVE Good /\ Lists
    <2>1. em'[e] =
          Local(e, "disable", em[e].pos, em[e].wrote, em[e].seen,
                em[e].disabled, em[e].scan + 1, em[e].tried)
      BY <1>1, <1>12, ZenonT(60) DEF Compare, Scanning, Local, Emitter
    <2>2. Shaped(Local(e, "disable", em[e].pos, em[e].wrote, em[e].seen,
                    em[e].disabled, em[e].scan + 1, em[e].tried))
      BY <1>0, <1>1, EmitterFacts, LocalShape
    <2>3. em' = [f \in Emitters |-> IF f = e THEN em'[e] ELSE em[f]]
      BY <1>1, <1>12 DEF Compare, Scanning
    <2>4. Lists
      BY <1>1, <1>12 DEF Compare, Scanning, config, list, writes, cleanup, queues
    <2> QED
      BY <2>1, <2>2, <2>3, <2>4
  <1>13. ASSUME RemoveInline(e) PROVE Good /\ Lists
    <2>1. em[e].disabled # <<>> /\ em[e].disabled \in Seq(Inline)
          /\ Tail(em[e].disabled) \in Seq(Inline)
      BY <1>1, <1>2, <1>13, EmitterFacts, TailSet DEF RemoveInline, Scanning, Found, Replacing
    <2>2. em'[e] =
          Local(e, "cleanup", em[e].pos, em[e].wrote, em[e].seen,
                em[e].disabled, 1, em[e].tried)
      BY <1>1, <1>13, ZenonT(60) DEF RemoveInline, Local, Emitter
    <2>3. Shaped(Local(e, "cleanup", em[e].pos, em[e].wrote, em[e].seen,
                    em[e].disabled, 1, em[e].tried))
      BY <1>0, <1>1, <2>1, EmitterFacts, LocalShape
    <2>4. em' = [f \in Emitters |-> IF f = e THEN em'[e] ELSE em[f]]
      BY <1>1, <1>13 DEF RemoveInline, Scanning, Found
    <2>5. inline' \in Seq(Inline)
      <3>1. em[e].scan \in DOMAIN inline
        BY <1>1, <1>13, EmitterFacts DEF RemoveInline
      <3> QED
        BY <1>1, <1>13, <3>1, RemoveFacts DEF RemoveInline
    <2>6. Lists
      BY <1>1, <1>13, <2>5 DEF RemoveInline, Scanning, Found, config, list, writes, cleanup, queues
    <2> QED
      BY <2>2, <2>3, <2>4, <2>6
  <1>14. ASSUME NotFound(e) PROVE Good /\ Lists
    <2>1. em[e].disabled # <<>> /\ em[e].disabled \in Seq(Inline)
          /\ Tail(em[e].disabled) \in Seq(Inline)
      BY <1>1, <1>2, <1>14, EmitterFacts, TailSet DEF NotFound, GivenUp, Scanning, Replacing
    <2>2. em'[e] =
          Local(e, "disable", em[e].pos, em[e].wrote, em[e].seen,
                Tail(em[e].disabled), 1, em[e].tried)
      <3>1. em'[e] = Local(e, em[e].pc, em[e].pos, em[e].wrote, em[e].seen,
                           Tail(em[e].disabled), 1, em[e].tried)
        BY <1>1, <1>14 DEF NotFound, GivenUp, Local, Emitter
      <3>2. em[e].pc = "disable"
        BY <1>14 DEF NotFound, Scanning
      <3> QED
        BY <3>1, <3>2
    <2>3. Shaped(Local(e, "disable", em[e].pos, em[e].wrote, em[e].seen,
                    Tail(em[e].disabled), 1, em[e].tried))
      BY <1>0, <1>1, <2>1, EmitterFacts, LocalShape
    <2>4. em' = [f \in Emitters |-> IF f = e THEN em'[e] ELSE em[f]]
      BY <1>1, <1>14 DEF NotFound, GivenUp, Scanning
    <2>5. Lists
      BY <1>1, <1>14 DEF NotFound, GivenUp, Scanning, config, list, writes, cleanup, queues
    <2> QED
      BY <2>2, <2>3, <2>4, <2>5
  <1>15. ASSUME CleanupDisabled(e) PROVE Good /\ Lists
    <2>1. em[e].disabled # <<>> /\ em[e].disabled \in Seq(Inline)
          /\ Tail(em[e].disabled) \in Seq(Inline)
      BY <1>1, <1>2, <1>15, EmitterFacts, TailSet DEF CleanupDisabled, Replacing
    <2>2. em'[e] =
          Local(e, "count", em[e].pos, em[e].wrote, em[e].seen,
                em[e].disabled, em[e].scan, em[e].tried)
      BY <1>1, <1>15, <2>1, ZenonT(60) DEF CleanupDisabled, Local, Emitter
    <2>3. Shaped(Local(e, "count", em[e].pos, em[e].wrote, em[e].seen,
                    em[e].disabled, em[e].scan, em[e].tried))
      BY <1>0, <1>1, <2>1, EmitterFacts, LocalShape
    <2>4. em' = [f \in Emitters |-> IF f = e THEN em'[e] ELSE em[f]]
      BY <1>1, <1>15 DEF CleanupDisabled
    <2>5. /\ tasks' \in Seq(Task) /\ unstarted' \in SUBSET Closeable
          /\ Len(tasks) <= Len(tasks')
      BY <1>15, CleanupTypes DEF CleanupDisabled
    <2>6. Lists
      BY <1>1, <1>15, <2>5 DEF CleanupDisabled, config, list, writes, cleanup, queues
    <2> QED
      BY <2>2, <2>3, <2>4, <2>6
  <1>16. ASSUME CountLeft(e) PROVE Good /\ Lists
    <2>1. em[e].disabled # <<>> /\ em[e].disabled \in Seq(Inline)
          /\ Tail(em[e].disabled) \in Seq(Inline)
      BY <1>1, <1>2, <1>16, EmitterFacts, TailSet DEF CountLeft, Replacing
    <2>2. \/ em'[e] =
             Local(e, "disable", em[e].pos, em[e].wrote, em[e].seen,
                   Tail(em[e].disabled), em[e].scan, em[e].tried)
          \/ em'[e] =
             Local(e, "fallback", em[e].pos, em[e].wrote, em[e].seen,
                   em[e].disabled, em[e].scan, em[e].tried)
      BY <1>1, <1>16, ZenonT(60) DEF CountLeft, Local, Emitter
    <2>3. Shaped(Local(e, "disable", em[e].pos, em[e].wrote, em[e].seen,
                    Tail(em[e].disabled), em[e].scan, em[e].tried))
          /\ Shaped(Local(e, "fallback", em[e].pos, em[e].wrote, em[e].seen,
                    em[e].disabled, em[e].scan, em[e].tried))
      BY <1>0, <1>1, <2>1, EmitterFacts, LocalShape
    <2>4. em' = [f \in Emitters |-> IF f = e THEN em'[e] ELSE em[f]]
      BY <1>1, <1>16 DEF CountLeft
    <2>5. Lists
      BY <1>1, <1>16 DEF CountLeft, config, list, writes, cleanup, queues
    <2> QED
      BY <2>2, <2>3, <2>4, <2>5
  <1>17. ASSUME AddFallback(e) PROVE Good /\ Lists
    <2>1. em[e].disabled # <<>> /\ em[e].disabled \in Seq(Inline)
          /\ Tail(em[e].disabled) \in Seq(Inline)
      BY <1>1, <1>2, <1>17, EmitterFacts, TailSet DEF AddFallback, Replacing
    <2>2. em'[e] =
          Local(e, "disable", em[e].pos, em[e].wrote, em[e].seen,
                Tail(em[e].disabled), em[e].scan, em[e].tried)
      BY <1>1, <1>17, <2>1, ZenonT(60) DEF AddFallback, Local, Emitter
    <2>3. Shaped(Local(e, "disable", em[e].pos, em[e].wrote, em[e].seen,
                    Tail(em[e].disabled), em[e].scan, em[e].tried))
      BY <1>0, <1>1, <2>1, EmitterFacts, LocalShape
    <2>4. em' = [f \in Emitters |-> IF f = e THEN em'[e] ELSE em[f]]
      BY <1>1, <1>17 DEF AddFallback
    <2>5. Configured + fallbacks + 1 \in Inline /\ fallbacks' \in 0..MaxFallbacks
      BY <1>1, <1>17, InlineFacts, SMTT(60) DEF AddFallback
    <2>6. Lists
      BY <1>1, <1>17, <2>5 DEF AddFallback, config, list, writes, cleanup, queues
    <2> QED
      BY <2>2, <2>3, <2>4, <2>6
  <1>18. Good /\ Lists
    BY <1>3, <1>4, <1>5, <1>6, <1>7, <1>8, <1>9, <1>10, <1>11, <1>12, <1>13, <1>14, <1>15, <1>16, <1>17
       DEF EmitStep
  <1>19. TypeOK'
    BY <1>1, <1>18 DEF TypeOK, Shaped
  <1>20. Len(tasks') \in Nat /\ cl.tasks \in Nat
    BY <1>18 DEF TypeOK, Closer
  <1>21. \A f \in Emitters :
           /\ em'[f].pc \in {"cleanup", "count", "fallback"} => em'[f].disabled # <<>>
           /\ em'[f].pc \in {"reset", "read", "add", "check"} => em'[f].wrote # 0
    BY <1>1, <1>18 DEF ShapeInv, Replacing, Counting, Shaped
  <1>22. ShapeInv'
    BY <1>1, <1>18, <1>20, <1>21 DEF ShapeInv, Replacing, Counting
  <1> QED
    BY <1>19, <1>22

\* The steps of close, of the deadline and of the threads that end.
LEMMA CloseTypes ==
    ASSUME TypeOK, ShapeInv,
           \/ CloseBegin \/ CloseStep \/ DeadlinePasses
           \/ \E i \in 1..Len(tasks) : CleanupEnds(i)
           \/ \E q \in 1..queued : WorkerEnds(q)
    PROVE  TypeOK' /\ ShapeInv'
  <1>1. cl \in Closer
    BY DEF TypeOK
  <1>2. /\ cl.left \in Seq(Inline) /\ cl.pos \in Nat \ {0} /\ cl.tasks \in Nat
        /\ cl.calls \in 0..MaxCloses /\ cl.expired \in BOOLEAN
        /\ cl.pos + 1 \in Nat \ {0} /\ MaxCloses \in Nat
    BY <1>1, ManagerAssumption DEF Closer
  <1>3. /\ cl.tasks <= Len(tasks)
        /\ cl.calls = 0 => cl.pc = "idle"
        /\ cl.pc = "worker" => cl.pos <= queued
    BY DEF ShapeInv
  <1>4. /\ inline \in Seq(Inline) /\ tasks \in Seq(Task) /\ Len(tasks) \in Nat /\ queued \in Nat
        /\ worker \in [1..queued -> {"open", "closing", "ended"}]
        /\ timeouts \in Nat /\ blamed \in SUBSET (1..queued)
        /\ unstarted \in SUBSET Closeable
    BY DEF TypeOK
  <1> DEFINE Good == /\ cl' \in Closer
                     /\ cl'.tasks <= Len(tasks')
                     /\ cl'.pc = "worker" => cl'.pos <= queued
                     /\ cl'.calls = 0 => cl'.pc = "idle"
             Lists == /\ inline' \in Seq(Inline)
                      /\ tasks' \in Seq(Task) /\ unstarted' \in SUBSET Closeable
                      /\ timeouts' \in Nat /\ blamed' \in SUBSET (1..queued)
                      /\ worker' \in [1..queued -> {"open", "closing", "ended"}]
                      /\ UNCHANGED <<built, queued, fallbacks, failures, streak, tripped, raced, em>>
  <1>5. ASSUME CloseBegin PROVE Good /\ Lists
    <2>1. cl' = [pc |-> "clear", left |-> inline, pos |-> cl.pos, tasks |-> cl.tasks,
                 expired |-> FALSE, calls |-> cl.calls + 1]
      BY <1>1, <1>5 DEF CloseBegin, Closer
    <2>5. cl.calls + 1 \in 0..MaxCloses
      BY <1>2, <1>5 DEF CloseBegin
    <2>2. cl' \in Closer
      BY <1>2, <1>4, <2>1, <2>5 DEF Closer
    <2>3. Lists
      BY <1>4, <1>5 DEF CloseBegin, config, list, writes, cleanup, queues
    <2>4. Good
      BY <1>2, <1>3, <1>4, <1>5, <2>1, <2>2, <2>3 DEF CloseBegin, cleanup
    <2> QED
      BY <2>3, <2>4
  <1>6. ASSUME DeadlinePasses PROVE Good /\ Lists
    <2>1. cl' = [pc |-> cl.pc, left |-> cl.left, pos |-> cl.pos, tasks |-> cl.tasks,
                 expired |-> TRUE, calls |-> cl.calls]
      BY <1>1, <1>6 DEF DeadlinePasses, Closer
    <2>2. cl' \in Closer
      BY <1>1, <1>2, <1>4, <1>6, <2>1 DEF DeadlinePasses, Closer
    <2>3. Lists
      BY <1>4, <1>6 DEF DeadlinePasses, config, list, writes, cleanup, queues
    <2>4. Good
      BY <1>2, <1>3, <1>4, <1>6, <2>1, <2>2, <2>3 DEF DeadlinePasses, cleanup
    <2> QED
      BY <2>3, <2>4
  <1>7. ASSUME Clear PROVE Good /\ Lists
    <2>1. cl' = Closing("cleanup", cl.left, cl.pos, cl.tasks)
      BY <1>1, <1>7 DEF Clear, Closing, Closer
    <2>2. cl' \in Closer
      BY <1>1, <1>2, <1>4, <1>7, <2>1 DEF Clear, Closer, Closing
    <2>3. Lists
      BY <1>4, <1>7 DEF Clear, config, list, writes, cleanup, queues
    <2>4. Good
      BY <1>2, <1>3, <1>4, <1>7, <2>1, <2>2, <2>3 DEF Clear, cleanup, Closing
    <2> QED
      BY <2>3, <2>4
  <1>8. ASSUME CleanupInline PROVE Good /\ Lists
    <2>1. Tail(cl.left) \in Seq(Inline)
      BY <1>2, <1>8, TailSet DEF CleanupInline
    <2>2. /\ tasks' \in Seq(Task) /\ unstarted' \in SUBSET Closeable
          /\ Len(tasks) <= Len(tasks') /\ Len(tasks') \in Nat
      BY <1>8, CleanupTypes DEF CleanupInline
    <2>3. cl' = Closing(cl.pc, Tail(cl.left), cl.pos, cl.tasks)
      BY <1>1, <1>8 DEF CleanupInline, Closing, Closer
    <2>4. cl' \in Closer
      BY <1>1, <1>2, <1>4, <1>8, <2>3, <2>1, <2>2 DEF CleanupInline, Closer, Closing
    <2>5. Lists
      BY <1>4, <1>8, <2>1, <2>2 DEF CleanupInline, config, list, writes, cleanup, queues
    <2>6. Good
      BY <1>2, <1>3, <1>4, <1>8, <2>3, <2>4, <2>5, <2>1, <2>2, SMTT(60) DEF CleanupInline, cleanup, Closing
    <2> QED
      BY <2>5, <2>6
  <1>9. ASSUME CleanupDone PROVE Good /\ Lists
    <2>1. cl' = Closing("queued", cl.left, 1, cl.tasks)
      BY <1>1, <1>9 DEF CleanupDone, Closing, Closer
    <2>2. cl' \in Closer
      BY <1>1, <1>2, <1>4, <1>9, <2>1, SMTT(60) DEF CleanupDone, Closer, Closing
    <2>3. Lists
      BY <1>4, <1>9 DEF CleanupDone, config, list, writes, cleanup, queues
    <2>4. Good
      BY <1>2, <1>3, <1>4, <1>9, <2>1, <2>2, <2>3 DEF CleanupDone, cleanup, Closing
    <2> QED
      BY <2>3, <2>4
  <1>10. ASSUME CopyTasks PROVE Good /\ Lists
    <2>1. cl' = Closing("join", cl.left, 1, Len(tasks))
      BY <1>1, <1>10 DEF CopyTasks, Closing, Closer
    <2>2. cl' \in Closer
      BY <1>1, <1>2, <1>4, <1>10, <2>1, SMTT(60) DEF CopyTasks, Closer, Closing
    <2>3. Lists
      BY <1>4, <1>10 DEF CopyTasks, config, list, writes, cleanup, queues
    <2>4. Good
      BY <1>2, <1>3, <1>4, <1>10, <2>1, <2>2, <2>3 DEF CopyTasks, cleanup, Closing
    <2> QED
      BY <2>3, <2>4
  <1>11. ASSUME CloseReturns PROVE Good /\ Lists
    <2>1. cl' = Closing("idle", cl.left, cl.pos, cl.tasks)
      BY <1>1, <1>11 DEF CloseReturns, Closing, Closer
    <2>2. cl' \in Closer
      BY <1>1, <1>2, <1>4, <1>11, <2>1 DEF CloseReturns, Closer, Closing
    <2>3. Lists
      BY <1>4, <1>11 DEF CloseReturns, config, list, writes, cleanup, queues
    <2>4. Good
      BY <1>2, <1>3, <1>4, <1>11, <2>1, <2>2, <2>3 DEF CloseReturns, cleanup, Closing
    <2> QED
      BY <2>3, <2>4
  <1>12. ASSUME CloseQueued PROVE Good /\ Lists
    <2>1. \/ cl' = Closing(cl.pc, cl.left, cl.pos + 1, cl.tasks)
          \/ cl' = Closing("worker", cl.left, cl.pos, cl.tasks) /\ cl.pos <= queued
      BY <1>1, <1>12 DEF CloseQueued, Closing, Closer
    <2>2. cl' \in Closer
      BY <1>1, <1>2, <1>4, <1>12, <2>1 DEF CloseQueued, Closer, Closing
    <2>3. Lists
      BY <1>4, <1>12 DEF CloseQueued, config, list, writes, cleanup, queues
    <2>4. Good
      BY <1>2, <1>3, <1>4, <1>12, <2>1, <2>2, <2>3, SMTT(60) DEF CloseQueued, cleanup, Closing
    <2> QED
      BY <2>3, <2>4
  <1>13. ASSUME JoinWorker PROVE Good /\ Lists
    <2>1. cl' = Closing("queued", cl.left, cl.pos + 1, cl.tasks)
      BY <1>1, <1>13 DEF JoinWorker, Closing, Closer
    <2>2. cl' \in Closer
      BY <1>1, <1>2, <1>4, <1>13, <2>1 DEF JoinWorker, Closer, Closing
    <2>3. Lists
      BY <1>2, <1>3, <1>4, <1>13, SMTT(60) DEF JoinWorker, config, list, writes, cleanup, queues
    <2>4. Good
      BY <1>2, <1>3, <1>4, <1>13, <2>1, <2>2, <2>3 DEF JoinWorker, cleanup, Closing
    <2> QED
      BY <2>3, <2>4
  <1>14. ASSUME JoinTask PROVE Good /\ Lists
    <2>1. cl.pos \in 1..Len(tasks)
      BY <1>2, <1>3, <1>4, <1>14, SMTT(60) DEF JoinTask
    <2>2. tasks' \in Seq(Task) /\ Len(tasks') = Len(tasks) /\ timeouts' \in Nat
      <3>1. CASE ReportTask(tasks[cl.pos])
        <4>1. /\ tasks' = [tasks EXCEPT ![cl.pos].told = TRUE]
              /\ timeouts' = timeouts + 1
          BY <1>14, <3>1 DEF JoinTask
        <4>2. /\ [tasks EXCEPT ![cl.pos].told = TRUE] \in Seq(Task)
              /\ Len([tasks EXCEPT ![cl.pos].told = TRUE]) = Len(tasks)
          BY <1>4, <2>1, TaskUpdate
        <4>3. timeouts + 1 \in Nat
          BY <1>4
        <4> QED
          BY <4>1, <4>2, <4>3
      <3>2. CASE ~ReportTask(tasks[cl.pos])
        BY <1>4, <1>14, <3>2 DEF JoinTask
      <3> QED
        BY <3>1, <3>2
    <2>3. cl' = Closing(cl.pc, cl.left, cl.pos + 1, cl.tasks)
      BY <1>1, <1>14 DEF JoinTask, Closing, Closer
    <2>4. cl' \in Closer
      BY <1>1, <1>2, <1>4, <1>14, <2>3, <2>1, <2>2 DEF JoinTask, Closer, Closing
    <2>5. Lists
      BY <1>4, <1>14, <2>1, <2>2 DEF JoinTask, config, list, writes, cleanup, queues
    <2>6. Good
      BY <1>2, <1>3, <1>4, <1>14, <2>3, <2>4, <2>5, <2>1, <2>2 DEF JoinTask, cleanup, Closing
    <2> QED
      BY <2>5, <2>6
  <1>15. ASSUME NEW i \in 1..Len(tasks), CleanupEnds(i)
         PROVE  Good /\ Lists
    <2>1. tasks' \in Seq(Task) /\ Len(tasks') = Len(tasks)
      BY <1>4, <1>15, TaskUpdate DEF CleanupEnds
    <2> QED
      BY <1>1, <1>3, <1>4, <1>15, <2>1 DEF CleanupEnds, config, list, writes, cleanup, queues
  <1>16. ASSUME NEW q \in 1..queued, WorkerEnds(q)
         PROVE  Good /\ Lists
    BY <1>1, <1>3, <1>4, <1>16 DEF WorkerEnds, config, list, writes, cleanup, queues
  <1>17. Good /\ Lists
    BY <1>5, <1>6, <1>7, <1>8, <1>9, <1>10, <1>11, <1>12, <1>13, <1>14, <1>15, <1>16 DEF CloseStep
  <1>18. TypeOK'
    BY <1>17, SMTT(60) DEF TypeOK
  <1>19. ShapeInv'
    BY <1>17, SMTT(60) DEF ShapeInv, Replacing, Counting
  <1> QED
    BY <1>18, <1>19
-------------------------------------------------------------------------------
(* The invariant under the steps of emit *)

\* The steps of one thread leave the local states of the others.
LEMMA OthersStay ==
    ASSUME em \in [Emitters -> Emitter], NEW e \in Emitters, EmitBegin(e) \/ EmitStep(e),
           NEW f \in Emitters, f # e
    PROVE  em'[f] = em[f]
  BY DEF EmitStep, EmitBegin, Write, WriteFails, Wrote, ResetFailures, ReadFailures, AddFailure,
         CheckLimit, LoopEnds, FanOut, Compare, RemoveInline, NotFound, CleanupDisabled,
         CountLeft, AddFallback

\* A write of a destination that nobody else has an uncounted write of, and the
\* counting of it, keep the count with the streak.
LEMMA EmitCounts ==
    ASSUME TypeOK, ShapeInv, NEW d \in Inline, CountInv(d), d \notin raced',
           NEW e \in Emitters, EmitBegin(e) \/ EmitStep(e)
    PROVE  CountInv(d)'
  <1>1. /\ em \in [Emitters -> Emitter]
        /\ failures \in [Inline -> Nat] /\ streak \in [Inline -> Nat]
        /\ Limit \in Nat \ {0} /\ failures[d] \in Nat /\ streak[d] \in Nat
    BY InlineFacts DEF TypeOK
  <1>2. \A f \in Emitters : f # e => em'[f] = em[f] /\ (Uncounted(f, d)' <=> Uncounted(f, d))
    BY <1>1, OthersStay DEF Uncounted
  <1>3. Counting(e) => em[e].wrote \in Inline
    BY <1>1, EmitterFacts DEF ShapeInv, Counting
  <1>4. ASSUME Wrote(e, "reset") \/ Wrote(e, "read"), Target(e) = d
        PROVE  /\ \A f \in Emitters : ~Uncounted(f, d)
               /\ \A f \in Emitters : Uncounted(f, d)' => f = e
    <2>1. em[e].pc = "write" /\ d \notin raced' /\ raced' = raced \cup {x \in {d} : RacedAt(e, x)}
      BY <1>4 DEF Wrote, AtTarget
    <2>2. ~RacedAt(e, d)
      BY <2>1
    <2> QED
      BY <1>2, <2>1, <2>2 DEF RacedAt, Uncounted
  <1>5. ASSUME ~Uncounted(e, d), ~Uncounted(e, d)', failures'[d] = failures[d],
               streak'[d] = streak[d], tripped \subseteq tripped'
        PROVE  CountInv(d)'
    BY <1>2, <1>5 DEF CountInv
  <1>6. ASSUME Write(e) PROVE CountInv(d)'
    <2>1. /\ em[e].pc = "write" /\ em'[e].pc = "reset" /\ em'[e].wrote = Target(e)
          /\ UNCHANGED <<failures, tripped>> /\ streak' = [streak EXCEPT ![Target(e)] = 0]
          /\ Target(e) \in Inline
      BY <1>1, <1>6, EmitterFacts DEF Write, Wrote, AtTarget
    <2>2. CASE Target(e) = d
      <3>1. streak'[d] = 0 /\ failures'[d] = failures[d] /\ Uncounted(e, d)'
        BY <1>1, <2>1, <2>2 DEF Uncounted
      <3>2. \A f \in Emitters : Uncounted(f, d)' => f = e
        BY <1>4, <1>6, <2>2 DEF Write
      <3> QED
        BY <1>1, <2>1, <3>1, <3>2 DEF CountInv
    <2>3. CASE Target(e) # d
      BY <1>1, <1>5, <2>1, <2>3 DEF Uncounted
    <2> QED
      BY <2>2, <2>3
  <1>7. ASSUME WriteFails(e) PROVE CountInv(d)'
    <2>1. /\ em[e].pc = "write" /\ em'[e].pc = "read" /\ em'[e].wrote = Target(e)
          /\ UNCHANGED failures /\ streak' = [streak EXCEPT ![Target(e)] = @ + 1]
          /\ tripped' = tripped \cup {x \in {Target(e)} : streak[x] + 1 >= Limit}
          /\ Target(e) \in Inline
      BY <1>1, <1>7, EmitterFacts DEF WriteFails, Wrote, AtTarget
    <2>2. CASE Target(e) = d
      <3>1. streak'[d] = streak[d] + 1 /\ failures'[d] = failures[d] /\ Uncounted(e, d)'
        BY <1>1, <2>1, <2>2 DEF Uncounted
      <3>2. /\ \A f \in Emitters : Uncounted(f, d)' => f = e
            /\ \A f \in Emitters : ~Uncounted(f, d)
        BY <1>4, <1>7, <2>2 DEF WriteFails
      <3>3. failures[d] = streak[d]
        BY <3>2 DEF CountInv
      <3>4. streak'[d] >= Limit => d \in tripped'
        BY <2>1, <2>2, <3>1
      <3>5. failures'[d] >= Limit => d \in tripped'
        BY <2>1, <3>1 DEF CountInv
      <3> QED
        BY <1>1, <2>1, <3>1, <3>2, <3>3, <3>4, <3>5 DEF CountInv
    <2>3. CASE Target(e) # d
      BY <1>1, <1>5, <2>1, <2>3 DEF Uncounted
    <2> QED
      BY <2>2, <2>3
  <1>8. ASSUME ResetFailures(e) PROVE CountInv(d)'
    <2>1. /\ em[e].pc = "reset" /\ em'[e].pc = "write" /\ em[e].wrote \in Inline
          /\ UNCHANGED <<streak, tripped>> /\ failures' = [failures EXCEPT ![em[e].wrote] = 0]
      BY <1>1, <1>3, <1>8 DEF ResetFailures, Counting, FailuresAfterSuccess
    <2>2. CASE em[e].wrote = d
      <3>1. Uncounted(e, d) /\ failures'[d] = 0 /\ streak'[d] = streak[d] /\ streak[d] = 0
        BY <1>1, <2>1, <2>2 DEF Uncounted, CountInv
      <3>2. \A f \in Emitters : ~Uncounted(f, d)'
        BY <1>2, <2>1, <3>1 DEF Uncounted, CountInv
      <3> QED
        BY <1>1, <3>1, <3>2 DEF CountInv
    <2>3. CASE em[e].wrote # d
      BY <1>1, <1>5, <2>1, <2>3 DEF Uncounted
    <2> QED
      BY <2>2, <2>3
  <1>9. ASSUME ReadFailures(e) PROVE CountInv(d)'
    <2>1. /\ em[e].pc = "read" /\ em'[e].pc = "add" /\ em'[e].wrote = em[e].wrote
          /\ em'[e].seen = failures[em[e].wrote] /\ UNCHANGED <<failures, streak, tripped>>
      BY <1>1, <1>9 DEF ReadFailures, writes
    <2>2. CASE em[e].wrote = d
      <3>1. /\ Uncounted(e, d) /\ Uncounted(e, d)' /\ streak[d] = failures[d] + 1
            /\ em'[e].seen = failures[d]
        BY <2>1, <2>2 DEF Uncounted, CountInv
      <3>2. \A f \in Emitters : Uncounted(f, d)' => f = e
        BY <1>2, <3>1 DEF CountInv
      <3> QED
        BY <1>1, <2>1, <3>1, <3>2 DEF CountInv
    <2>3. CASE em[e].wrote # d
      BY <1>1, <1>5, <2>1, <2>3 DEF Uncounted
    <2> QED
      BY <2>2, <2>3
  <1>10. ASSUME AddFailure(e) PROVE CountInv(d)'
    <2>1. /\ em[e].pc = "add" /\ em'[e].pc = "check" /\ em[e].wrote \in Inline
          /\ UNCHANGED <<streak, tripped>>
          /\ failures' = [failures EXCEPT ![em[e].wrote] = em[e].seen + 1]
      BY <1>1, <1>3, <1>10 DEF AddFailure, Counting
    <2>2. CASE em[e].wrote = d
      <3>1. /\ Uncounted(e, d) /\ failures'[d] = streak[d] /\ streak'[d] = streak[d]
        BY <1>1, <2>1, <2>2 DEF Uncounted, CountInv
      <3>2. \A f \in Emitters : ~Uncounted(f, d)'
        BY <1>2, <2>1, <3>1 DEF Uncounted, CountInv
      <3> QED
        BY <1>1, <2>1, <3>1, <3>2 DEF CountInv
    <2>3. CASE em[e].wrote # d
      BY <1>1, <1>5, <2>1, <2>3 DEF Uncounted
    <2> QED
      BY <2>2, <2>3
  <1>11. ASSUME EmitBegin(e) \/ CheckLimit(e) \/ LoopEnds(e) PROVE CountInv(d)'
    <2>1. /\ em[e].pc \notin {"reset", "read", "add"} /\ em'[e].pc \notin {"reset", "read", "add"}
          /\ UNCHANGED <<failures, streak, tripped>>
      <3>1. CASE EmitBegin(e)
        BY <1>1, <3>1 DEF EmitBegin, writes
      <3>2. CASE CheckLimit(e)
        BY <1>1, <3>2 DEF CheckLimit, writes
      <3>3. CASE LoopEnds(e)
        BY <1>1, <3>3 DEF LoopEnds, writes
      <3> QED
        BY <1>11, <3>1, <3>2, <3>3
    <2> QED
      BY <1>5, <2>1 DEF Uncounted
  <1>12. ASSUME FanOut(e) \/ Compare(e) \/ RemoveInline(e) \/ NotFound(e) PROVE CountInv(d)'
    <2>1. /\ em[e].pc = "disable" /\ em'[e].pc \in {"idle", "disable", "cleanup"}
          /\ UNCHANGED <<failures, streak, tripped>>
      <3>1. CASE FanOut(e)
        BY <1>1, <3>1 DEF FanOut, writes
      <3>2. CASE Compare(e)
        BY <1>1, <3>2 DEF Compare, Scanning, writes
      <3>3. CASE RemoveInline(e)
        BY <1>1, <3>3 DEF RemoveInline, Scanning, writes
      <3>4. CASE NotFound(e)
        <4>1. em'[e].pc = em[e].pc
          BY <1>1, <3>4 DEF NotFound, GivenUp, Emitter
        <4> QED
          BY <3>4, <4>1 DEF NotFound, Scanning, writes
      <3> QED
        BY <1>12, <3>1, <3>2, <3>3, <3>4
    <2> QED
      BY <1>5, <2>1 DEF Uncounted
  <1>13. ASSUME CleanupDisabled(e) \/ CountLeft(e) \/ AddFallback(e) PROVE CountInv(d)'
    <2>1. /\ em[e].pc \in {"cleanup", "count", "fallback"}
          /\ em'[e].pc \in {"count", "disable", "fallback"}
          /\ UNCHANGED <<failures, streak, tripped>>
      <3>1. CASE CleanupDisabled(e)
        BY <1>1, <3>1 DEF CleanupDisabled, writes
      <3>2. CASE CountLeft(e)
        BY <1>1, <3>2 DEF CountLeft, writes
      <3>3. CASE AddFallback(e)
        BY <1>1, <3>3 DEF AddFallback, writes
      <3> QED
        BY <1>13, <3>1, <3>2, <3>3
    <2> QED
      BY <1>5, <2>1 DEF Uncounted
  <1> QED
    BY <1>6, <1>7, <1>8, <1>9, <1>10, <1>11, <1>12, <1>13 DEF EmitStep

\* A destination is put in `disabled` only when its streak has reached Limit.
LEMMA EmitStreak ==
    ASSUME TypeOK, ShapeInv, StreakInv, NEW e \in Emitters, EmitBegin(e) \/ EmitStep(e)
    PROVE  StreakInv'
  <1>1. /\ em \in [Emitters -> Emitter] /\ em[e].disabled \in Seq(Inline)
    BY EmitterFacts DEF TypeOK
  <1>2. \A f \in Emitters : ToSet(em[f].disabled) \subseteq tripped \cup raced
    BY DEF StreakInv
  <1> DEFINE Good == /\ tripped \subseteq tripped' /\ raced \subseteq raced'
                     /\ ToSet(em'[e].disabled) \subseteq tripped \cup raced
  <1>3. ASSUME EmitBegin(e) PROVE Good
    <2>1. em'[e].disabled = <<>> /\ UNCHANGED <<tripped, raced>>
      BY <1>1, <1>3 DEF EmitBegin, writes
    <2> QED
      BY <2>1 DEF ToSet
  <1>4. ASSUME Write(e) \/ WriteFails(e) PROVE Good
    <2>1. /\ em'[e].disabled = em[e].disabled
          /\ tripped \subseteq tripped' /\ raced \subseteq raced'
      <3>1. CASE Write(e)
        BY <1>1, <3>1 DEF Write, Wrote
      <3>2. CASE WriteFails(e)
        BY <1>1, <3>2 DEF WriteFails, Wrote
      <3> QED
        BY <1>4, <3>1, <3>2
    <2> QED
      BY <1>2, <2>1
  <1>5. ASSUME CheckLimit(e) PROVE Good
    <2>1. em[e].wrote \in Inline
      BY <1>1, <1>5, EmitterFacts DEF CheckLimit, ShapeInv, Counting
    <2>2. /\ em'[e].disabled = IF failures[em[e].wrote] >= Limit
                               THEN Append(em[e].disabled, em[e].wrote) ELSE em[e].disabled
          /\ UNCHANGED <<tripped, raced>>
      BY <1>1, <1>5 DEF CheckLimit, writes
    <2>3. ToSet(Append(em[e].disabled, em[e].wrote)) = ToSet(em[e].disabled) \cup {em[e].wrote}
      BY <1>1, <2>1, AppendSet
    <2>4. failures[em[e].wrote] >= Limit => em[e].wrote \in tripped \cup raced
      BY <2>1 DEF StreakInv, CountInv
    <2> QED
      BY <1>2, <2>2, <2>3, <2>4
  <1>6. ASSUME \/ ResetFailures(e) \/ ReadFailures(e) \/ AddFailure(e) \/ LoopEnds(e)
               \/ FanOut(e) \/ Compare(e) \/ RemoveInline(e) \/ CleanupDisabled(e)
        PROVE  Good
    <2>1. em'[e].disabled = em[e].disabled /\ UNCHANGED <<tripped, raced>>
      <3>1. CASE LoopEnds(e)
        BY <1>1, <3>1 DEF LoopEnds, writes
      <3>2. CASE FanOut(e)
        BY <1>1, <3>2 DEF FanOut, writes
      <3>3. CASE RemoveInline(e)
        BY <1>1, <3>3 DEF RemoveInline, writes
      <3>4. CASE CleanupDisabled(e)
        BY <1>1, <3>4 DEF CleanupDisabled, writes
      <3>5. CASE ResetFailures(e)
        BY <1>1, <3>5 DEF ResetFailures
      <3>6. CASE ReadFailures(e)
        BY <1>1, <3>6 DEF ReadFailures, writes
      <3>7. CASE AddFailure(e)
        BY <1>1, <3>7 DEF AddFailure
      <3>8. CASE Compare(e)
        BY <1>1, <3>8 DEF Compare, writes
      <3> QED
        BY <1>6, <3>1, <3>2, <3>3, <3>4, <3>5, <3>6, <3>7, <3>8
    <2> QED
      BY <1>2, <2>1
  <1>7. ASSUME NotFound(e) \/ CountLeft(e) \/ AddFallback(e) PROVE Good
    <2>1. em[e].disabled # <<>>
      BY <1>7 DEF NotFound, Scanning, CountLeft, AddFallback, ShapeInv, Replacing
    <2>2. /\ em'[e].disabled \in {em[e].disabled, Tail(em[e].disabled)}
          /\ UNCHANGED <<tripped, raced>>
      <3>1. CASE NotFound(e)
        <4>1. em'[e].disabled = Tail(em[e].disabled)
          BY <1>1, <3>1 DEF NotFound, GivenUp, Emitter
        <4> QED
          BY <3>1, <4>1 DEF NotFound, writes
      <3>2. CASE CountLeft(e)
        BY <1>1, <3>2 DEF CountLeft, writes
      <3>3. CASE AddFallback(e)
        BY <1>1, <3>3 DEF AddFallback, writes
      <3> QED
        BY <1>7, <3>1, <3>2, <3>3
    <2>3. ToSet(Tail(em[e].disabled)) \subseteq ToSet(em[e].disabled)
      BY <1>1, <2>1, TailSet
    <2> QED
      BY <1>2, <2>2, <2>3
  <1>8. Good
    BY <1>3, <1>4, <1>5, <1>6, <1>7 DEF EmitStep
  <1>9. \A f \in Emitters : ToSet(em'[f].disabled) \subseteq tripped' \cup raced'
    BY <1>1, <1>2, <1>8, OthersStay
  <1>10. ASSUME NEW d \in Inline, d \notin raced' PROVE CountInv(d)'
    <2>1. CountInv(d)
      BY <1>8, <1>10 DEF StreakInv
    <2> QED
      BY <1>10, <2>1, EmitCounts
  <1> QED
    BY <1>9, <1>10 DEF StreakInv

\* A thread leaves its loop only when all of its copy is tried.
LEMMA EmitTried ==
    ASSUME TypeOK, TriedInv, NEW e \in Emitters, EmitBegin(e) \/ EmitStep(e)
    PROVE  TriedInv'
  <1>1. /\ em \in [Emitters -> Emitter] /\ em[e] \in Emitter
        /\ em[e].copy \in Seq(Inline) /\ em[e].pos \in Nat \ {0}
        /\ Len(em[e].copy) \in Nat /\ DOMAIN em[e].copy = 1..Len(em[e].copy)
    BY EmitterFacts DEF TypeOK
  <1> DEFINE Tried(l) == /\ l.pc \in {"write", "reset", "read", "add", "check"} =>
                               \A i \in DOMAIN l.copy : i < l.pos => l.copy[i] \in l.tried
                         /\ l.pc \in {"reset", "read", "add", "check"} =>
                               l.pos \in DOMAIN l.copy /\ l.copy[l.pos] \in l.tried
                         /\ l.pc \in {"disable", "cleanup", "count", "fallback"} =>
                               \A i \in DOMAIN l.copy : l.copy[i] \in l.tried
  <1>2. Tried(em[e])
    BY DEF TriedInv, Counting
  <1>3. ASSUME EmitBegin(e) PROVE Tried(em'[e])
    <2>1. em'[e].pc = "write" /\ em'[e].copy = inline /\ em'[e].pos = 1
      BY <1>1, <1>3 DEF EmitBegin
    <2>2. DOMAIN inline = 1..Len(inline)
      BY DEF TypeOK
    <2> QED
      BY <2>1, <2>2
  <1>4. ASSUME Write(e) \/ WriteFails(e) PROVE Tried(em'[e])
    <2>1. /\ em'[e].pc \in {"reset", "read"} /\ em'[e].copy = em[e].copy /\ em'[e].pos = em[e].pos
          /\ em'[e].tried = em[e].tried \cup {em[e].copy[em[e].pos]}
          /\ em[e].pc = "write" /\ em[e].pos <= Len(em[e].copy)
      <3>1. CASE Write(e)
        BY <1>1, <3>1 DEF Write, Wrote, AtTarget, Target, Walked
      <3>2. CASE WriteFails(e)
        BY <1>1, <3>2 DEF WriteFails, Wrote, AtTarget, Target, Walked
      <3> QED
        BY <1>4, <3>1, <3>2
    <2> QED
      BY <1>1, <1>2, <2>1
  <1>5. ASSUME ReadFailures(e) \/ AddFailure(e) PROVE Tried(em'[e])
    <2>1. /\ em[e].pc \in {"read", "add"} /\ em'[e].pc \in {"add", "check"}
          /\ em'[e].copy = em[e].copy /\ em'[e].pos = em[e].pos /\ em'[e].tried = em[e].tried
      <3>1. CASE ReadFailures(e)
        BY <1>1, <3>1 DEF ReadFailures
      <3>2. CASE AddFailure(e)
        BY <1>1, <3>2 DEF AddFailure
      <3> QED
        BY <1>5, <3>1, <3>2
    <2> QED
      BY <1>2, <2>1
  <1>6. ASSUME ResetFailures(e) \/ CheckLimit(e) PROVE Tried(em'[e])
    <2>1. /\ em'[e].pc = "write" /\ em'[e].copy = em[e].copy /\ em'[e].pos = em[e].pos + 1
          /\ em'[e].tried = em[e].tried /\ em[e].pc \in {"reset", "check"}
      <3>1. CASE ResetFailures(e)
        BY <1>1, <3>1 DEF ResetFailures
      <3>2. CASE CheckLimit(e)
        BY <1>1, <3>2 DEF CheckLimit
      <3> QED
        BY <1>6, <3>1, <3>2
    <2>2. \A i \in DOMAIN em[e].copy : i < em[e].pos + 1 => em[e].copy[i] \in em[e].tried
      BY <1>1, <1>2, <2>1
    <2> QED
      BY <2>1, <2>2
  <1>7. ASSUME LoopEnds(e) PROVE Tried(em'[e])
    <2>1. /\ em'[e].pc = "disable" /\ em'[e].copy = em[e].copy
          /\ em'[e].tried = em[e].tried
          /\ em[e].pc = "write" /\ em[e].pos > Len(em[e].copy)
      BY <1>1, <1>7 DEF LoopEnds, Walked
    <2>2. \A i \in DOMAIN em[e].copy : em[e].copy[i] \in em[e].tried
      BY <1>1, <1>2, <2>1
    <2> QED
      BY <2>1, <2>2
  <1>8. ASSUME \/ FanOut(e) \/ Compare(e) \/ RemoveInline(e) \/ NotFound(e)
               \/ CleanupDisabled(e) \/ CountLeft(e) \/ AddFallback(e)
        PROVE  Tried(em'[e])
    <2>1. /\ em[e].pc \in {"disable", "cleanup", "count", "fallback"}
          /\ em'[e].pc \in {"idle", "disable", "cleanup", "count", "fallback"}
          /\ em'[e].copy = em[e].copy /\ em'[e].tried = em[e].tried
      <3>1. CASE FanOut(e)
        BY <1>1, <3>1 DEF FanOut
      <3>2. CASE RemoveInline(e)
        BY <1>1, <3>2 DEF RemoveInline, Scanning
      <3>3. CASE NotFound(e)
        <4>1. em'[e].pc = em[e].pc /\ em'[e].copy = em[e].copy /\ em'[e].tried = em[e].tried
          BY <1>1, <3>3 DEF NotFound, GivenUp, Emitter
        <4> QED
          BY <3>3, <4>1 DEF NotFound, Scanning
      <3>4. CASE CleanupDisabled(e)
        BY <1>1, <3>4 DEF CleanupDisabled
      <3>5. CASE CountLeft(e)
        BY <1>1, <3>5 DEF CountLeft
      <3>6. CASE AddFallback(e)
        BY <1>1, <3>6 DEF AddFallback
      <3>7. CASE Compare(e)
        BY <1>1, <3>7 DEF Compare, Scanning
      <3> QED
        BY <1>8, <3>1, <3>2, <3>3, <3>4, <3>5, <3>6, <3>7
    <2> QED
      BY <1>2, <2>1
  <1>9. Tried(em'[e])
    BY <1>3, <1>4, <1>5, <1>6, <1>7, <1>8 DEF EmitStep
  <1>10. \A f \in Emitters : Tried(em'[f])
    <2>1. \A f \in Emitters : f # e => em'[f] = em[f]
      BY <1>1, OthersStay
    <2> QED
      BY <1>9, <2>1 DEF TriedInv, Counting
  <1> QED
    BY <1>10 DEF TriedInv, Counting

\* The steps of emit that leave the list and the tasks alone.
WritingStep(e) ==
    \/ EmitBegin(e) \/ Write(e) \/ ResetFailures(e) \/ WriteFails(e) \/ ReadFailures(e)
    \/ AddFailure(e) \/ CheckLimit(e) \/ LoopEnds(e) \/ FanOut(e) \/ Compare(e) \/ NotFound(e)

\* Their thread has not removed anything.
LEMMA WritingFacts ==
    ASSUME em \in [Emitters -> Emitter], NEW e \in Emitters, WritingStep(e)
    PROVE  /\ em[e].pc \notin {"cleanup", "count", "fallback"} /\ em'[e].pc # "cleanup"
           /\ UNCHANGED <<inline, tasks, unstarted, built, cl>>
  <1>1. CASE EmitBegin(e)
    BY <1>1 DEF EmitBegin, list, cleanup, config
  <1>2. CASE Write(e)
    BY <1>2 DEF Write, Wrote, AtTarget, list, cleanup, config
  <1>3. CASE ResetFailures(e)
    BY <1>3 DEF ResetFailures, list, cleanup, config
  <1>4. CASE WriteFails(e)
    BY <1>4 DEF WriteFails, Wrote, AtTarget, list, cleanup, config
  <1>5. CASE ReadFailures(e)
    BY <1>5 DEF ReadFailures, list, cleanup, config
  <1>6. CASE AddFailure(e)
    BY <1>6 DEF AddFailure, list, cleanup, config
  <1>7. CASE CheckLimit(e)
    BY <1>7 DEF CheckLimit, list, cleanup, config
  <1>8. CASE LoopEnds(e)
    BY <1>8 DEF LoopEnds, list, cleanup, config
  <1>9. CASE FanOut(e)
    BY <1>9 DEF FanOut, list, cleanup, config
  <1>10. CASE Compare(e)
    BY <1>10 DEF Compare, Scanning, list, cleanup, config
  <1>11. CASE NotFound(e)
    <2>1. em'[e].pc = em[e].pc
      BY <1>11 DEF NotFound, GivenUp, Emitter
    <2> QED
      BY <1>11, <2>1 DEF NotFound, Scanning, list, cleanup, config
  <1> QED
    BY <1>1, <1>2, <1>3, <1>4, <1>5, <1>6, <1>7, <1>8, <1>9, <1>10, <1>11 DEF WritingStep

\* The thread that empties the list goes on to look what is left.
LEMMA EmitNoBlackout ==
    ASSUME TypeOK, NoBlackout, NEW e \in Emitters, EmitBegin(e) \/ EmitStep(e)
    PROVE  NoBlackout'
  <1>1. /\ em \in [Emitters -> Emitter] /\ cl' = cl /\ queued' = queued
        /\ inline \in Seq(Inline)
    BY DEF TypeOK, EmitStep, EmitBegin, Write, WriteFails, Wrote, ResetFailures, ReadFailures,
           AddFailure, CheckLimit, LoopEnds, FanOut, Compare, RemoveInline, NotFound,
           CleanupDisabled, CountLeft, AddFallback, config
  <1>2. CASE RemoveInline(e) \/ CleanupDisabled(e)
    <2>1. em'[e].pc \in {"cleanup", "count"}
      <3>1. CASE RemoveInline(e)
        BY <1>1, <3>1 DEF RemoveInline
      <3>2. CASE CleanupDisabled(e)
        BY <1>1, <3>2 DEF CleanupDisabled
      <3> QED
        BY <1>2, <3>1, <3>2
    <2> QED
      BY <2>1 DEF NoBlackout
  <1>3. CASE CountLeft(e)
    <2>1. \/ inline # <<>> \/ queued > 0
          \/ em'[e].pc = "fallback"
      BY <1>1, <1>3 DEF CountLeft, AnyLeft
    <2>2. inline' = inline
      BY <1>3 DEF CountLeft, list
    <2> QED
      BY <1>1, <2>1, <2>2 DEF NoBlackout
  <1>4. CASE AddFallback(e)
    <2>1. inline' # <<>>
      BY <1>1, <1>4 DEF AddFallback
    <2> QED
      BY <2>1 DEF NoBlackout
  <1>5. CASE WritingStep(e)
    <2>1. em[e].pc \notin {"cleanup", "count", "fallback"} /\ inline' = inline
      BY <1>1, <1>5, WritingFacts
    <2>2. \A f \in Emitters : f # e => em'[f] = em[f]
      BY <1>1, OthersStay
    <2> QED
      BY <1>1, <2>1, <2>2 DEF NoBlackout
  <1> QED
    BY <1>2, <1>3, <1>4, <1>5 DEF EmitStep, WritingStep
-------------------------------------------------------------------------------
(* One cleanup of each destination, under the steps of emit *)

\* What the start of a cleanup does to the tasks.
LEMMA CleanupFacts ==
    ASSUME TypeOK, NEW d, StartWriterCleanup(d)
    PROVE  /\ unstarted \subseteq unstarted'
           /\ Len(tasks') \in Nat /\ Len(tasks) \in Nat
           /\ \A i \in 1..Len(tasks) : tasks'[i] = tasks[i]
           /\ \/ Len(tasks') = Len(tasks) /\ tasks' = tasks
                 /\ (d \in Closeable => d \in unstarted')
              \/ /\ d \in Closeable /\ Len(tasks') = Len(tasks) + 1
                 /\ tasks'[Len(tasks')].dest = d /\ ~tasks'[Len(tasks')].told
  <1>1. tasks \in Seq(Task)
    BY DEF TypeOK
  <1>2. CASE d \notin Closeable /\ UNCHANGED cleanup
    BY <1>1, <1>2 DEF cleanup
  <1>3. CASE d \in Closeable /\ tasks' = Append(tasks, NewTask(d)) /\ UNCHANGED unstarted
    <2>1. NewTask(d) \in Task /\ NewTask(d).dest = d /\ ~NewTask(d).told
      BY <1>3 DEF NewTask, Task
    <2> QED
      BY <1>1, <1>3, <2>1
  <1>4. CASE d \in Closeable /\ unstarted' = unstarted \cup {d} /\ UNCHANGED tasks
    BY <1>1, <1>4
  <1> QED
    BY <1>2, <1>3, <1>4 DEF StartWriterCleanup

\* Steps that touch neither the list nor the tasks, of threads that have not
\* removed anything.
LEMMA QuietCleaned ==
    ASSUME TypeOK, OnceInv, CopyInv, RemovedIsCleanedUp, NEW e \in Emitters,
           WritingStep(e) \/ CountLeft(e)
    PROVE  OnceInv' /\ CopyInv' /\ RemovedIsCleanedUp'
  <1>1. em \in [Emitters -> Emitter]
    BY DEF TypeOK
  <1>2. /\ em[e].pc # "cleanup" /\ em'[e].pc # "cleanup"
        /\ UNCHANGED <<inline, tasks, unstarted, built, cl>>
    <2>1. CASE WritingStep(e)
      BY <1>1, <2>1, WritingFacts
    <2>2. CASE CountLeft(e)
      BY <1>1, <2>2 DEF CountLeft, list, cleanup, config
    <2> QED
      BY <2>1, <2>2
  <1>3. \A f \in Emitters : f # e => em'[f] = em[f]
    BY <1>1, OthersStay DEF EmitStep, WritingStep
  <1>4. OnceInv'
    BY <1>2, <1>3 DEF OnceInv, ListOnce, TaskOnce, ThreadOnce, Removed, Attached
  <1>5. CopyInv'
    BY <1>2 DEF CopyInv, Attached
  <1>6. RemovedIsCleanedUp'
    BY <1>2, <1>3 DEF RemovedIsCleanedUp, CleanupDue, Attached
  <1> QED
    BY <1>4, <1>5, <1>6

\* A removed destination is in no other thread's hands and in no task.
LEMMA RemoveCleaned ==
    ASSUME TypeOK, OnceInv, CopyInv, RemovedIsCleanedUp, NEW e \in Emitters, RemoveInline(e)
    PROVE  OnceInv' /\ CopyInv' /\ RemovedIsCleanedUp'
  <1> DEFINE d == Removed(e)
  <1>1. em \in [Emitters -> Emitter] /\ inline \in Seq(Inline)
    BY DEF TypeOK
  <1>2. /\ em[e].pc = "disable"
        /\ em' = [em EXCEPT ![e].pc = "cleanup", ![e].scan = 1]
        /\ UNCHANGED <<tasks, unstarted, built, cl>>
    BY DEF RemoveInline, Scanning, cleanup, config
  <1>3. PICK i \in DOMAIN inline : inline[i] = d /\ inline' = RemoveAt(inline, i)
    <2>1. em[e].scan \in DOMAIN inline
      BY <1>1, EmitterFacts DEF RemoveInline
    <2> QED
      BY <2>1 DEF RemoveInline, Found, Removed
  <1>4. /\ em'[e].pc = "cleanup" /\ Removed(e)' = d
        /\ \A f \in Emitters : f # e => em'[f] = em[f]
    BY <1>1, <1>2 DEF Removed
  <1>5. /\ ToSet(inline') \subseteq ToSet(inline)
        /\ ToSet(inline) \subseteq ToSet(inline') \cup {d}
    BY <1>1, <1>3, RemoveSet
  <1>6. /\ DOMAIN inline' = 1..(Len(inline) - 1) /\ DOMAIN inline = 1..Len(inline)
        /\ \A j \in 1..(Len(inline) - 1) :
              inline'[j] = IF j < i THEN inline[j] ELSE inline[j + 1]
    BY <1>1, <1>3, RemoveFacts
  <1>7. d \in ToSet(inline)
    BY <1>3 DEF ToSet
  <1> HIDE DEF d
  <1>8. ASSUME cl.calls = 0
        PROVE  ListOnce' /\ TaskOnce' /\ (\A f \in Emitters : ThreadOnce(f))'
    <2>1. ListOnce /\ TaskOnce /\ \A f \in Emitters : ThreadOnce(f)
      BY <1>8 DEF OnceInv
    <2>2. ASSUME d \in Closeable
          PROVE  d \notin ToSet(inline')
      <3>1. \A j \in DOMAIN inline : inline[j] = d => j = i
        BY <1>3, <2>1, <2>2 DEF ListOnce
      <3>2. \A j \in DOMAIN inline' : inline'[j] # d
        BY <1>3, <1>6, <3>1
      <3> QED
        BY <3>2 DEF ToSet
    <2>3. ListOnce'
      <3> SUFFICES ASSUME NEW j \in DOMAIN inline', NEW k \in DOMAIN inline',
                          inline'[j] = inline'[k], inline'[j] \in Closeable
                   PROVE  j = k
        BY DEF ListOnce
      <3> DEFINE Old(n) == IF n < i THEN n ELSE n + 1
      <3>1. /\ Old(j) \in DOMAIN inline /\ Old(k) \in DOMAIN inline
            /\ inline[Old(j)] = inline'[j] /\ inline[Old(k)] = inline'[k]
        BY <1>6
      <3>2. Old(j) = Old(k)
        BY <2>1, <3>1 DEF ListOnce
      <3> QED
        BY <1>6, <3>2
    <2>4. TaskOnce'
      BY <1>2, <1>5, <2>1 DEF TaskOnce, Attached
    <2>5. ASSUME NEW f \in Emitters PROVE ThreadOnce(f)'
      <3>1. CASE f = e
        <4>1. \A g \in Emitters : g # e /\ em[g].pc = "cleanup" /\ d \in Closeable => Removed(g) # d
          BY <1>7, <2>1 DEF ThreadOnce, Attached
        <4>2. \A j \in 1..Len(tasks) : tasks[j].dest # d
          BY <1>7, <2>1 DEF TaskOnce, Attached
        <4>3. \A g \in Emitters : g # e /\ em'[g].pc = "cleanup" /\ d \in Closeable => Removed(g)' # d
          BY <1>4, <4>1 DEF Removed
        <4>4. Head(em'[f].disabled) = d
          BY <1>4, <3>1 DEF Removed
        <4>5. \A j \in 1..Len(tasks') : tasks'[j].dest # d
          BY <1>2, <4>2
        <4>6. d \in Closeable =>
                 \A g \in Emitters : em'[g].pc = "cleanup" /\ Head(em'[g].disabled) = d => g = f
          BY <3>1, <4>3 DEF Removed
        <4>7. d \in Closeable =>
                 /\ d \notin ToSet(inline')
                 /\ \A j \in 1..Len(tasks') : tasks'[j].dest # d
                 /\ \A g \in Emitters : em'[g].pc = "cleanup" /\ Head(em'[g].disabled) = d => g = f
          BY <2>2, <4>5, <4>6
        <4> QED
          BY <4>4, <4>7 DEF ThreadOnce, Attached, Removed
      <3>2. CASE f # e
        <4>1. em'[f] = em[f] /\ Removed(f)' = Removed(f)
          BY <1>4, <3>2 DEF Removed
        <4>2. em[f].pc = "cleanup" /\ Removed(f) \in Closeable => Removed(f) # d
          BY <1>7, <2>1 DEF ThreadOnce, Attached
        <4>3. \A g \in Emitters : g # e => em'[g] = em[g] /\ Removed(g)' = Removed(g)
          BY <1>4 DEF Removed
        <4>4. tasks' = tasks /\ em'[e].pc = "cleanup" /\ Removed(e)' = d
          BY <1>2, <1>4
        <4> QED
          BY <1>5, <2>1, <4>1, <4>2, <4>3, <4>4 DEF ThreadOnce, Attached
      <3> QED
        BY <3>1, <3>2
    <2> QED
      BY <2>3, <2>4, <2>5
  <1>9. OnceInv'
    BY <1>2, <1>8 DEF OnceInv
  <1>10. CopyInv'
    BY <1>2, <1>5 DEF CopyInv, Attached
  <1>11. RemovedIsCleanedUp'
    <2> SUFFICES ASSUME NEW c \in Closeable \cap 1..built
                 PROVE  \/ Attached(c)' \/ CleanupDue(c)' \/ c \in unstarted
                        \/ \E j \in 1..Len(tasks) : tasks[j].dest = c
      BY <1>2 DEF RemovedIsCleanedUp
    <2>1. CASE c = d
      BY <1>4, <2>1 DEF CleanupDue, Removed
    <2>2. CASE c # d
      <3>1. Attached(c) => Attached(c)'
        BY <1>5, <2>2 DEF Attached
      <3>2. CleanupDue(c) => CleanupDue(c)'
        BY <1>2, <1>4 DEF CleanupDue
      <3> QED
        BY <3>1, <3>2 DEF RemovedIsCleanedUp
    <2> QED
      BY <2>1, <2>2
  <1> QED
    BY <1>9, <1>10, <1>11

\* The thread that removed a destination is the one that lists its task.
LEMMA CleanupCleaned ==
    ASSUME TypeOK, OnceInv, CopyInv, RemovedIsCleanedUp, NEW e \in Emitters, CleanupDisabled(e)
    PROVE  OnceInv' /\ CopyInv' /\ RemovedIsCleanedUp'
  <1> DEFINE d == Removed(e)
  <1>1. em \in [Emitters -> Emitter]
    BY DEF TypeOK
  <1>2. /\ em[e].pc = "cleanup" /\ StartWriterCleanup(d)
        /\ em' = [em EXCEPT ![e].pc = "count"]
        /\ UNCHANGED <<inline, built, cl>>
    BY DEF CleanupDisabled, config, list, Removed
  <1>3. em'[e].pc = "count" /\ \A f \in Emitters : f # e => em'[f] = em[f]
    BY <1>1, <1>2
  <1> HIDE DEF d
  <1>4. /\ unstarted \subseteq unstarted'
        /\ Len(tasks') \in Nat /\ Len(tasks) \in Nat
        /\ \A i \in 1..Len(tasks) : tasks'[i] = tasks[i]
        /\ \/ Len(tasks') = Len(tasks) /\ tasks' = tasks /\ (d \in Closeable => d \in unstarted')
           \/ d \in Closeable /\ Len(tasks') = Len(tasks) + 1 /\ tasks'[Len(tasks')].dest = d
    BY <1>2, CleanupFacts
  <1>5. ASSUME cl.calls = 0
        PROVE  ListOnce' /\ TaskOnce' /\ (\A f \in Emitters : ThreadOnce(f))'
    <2>1. ListOnce /\ TaskOnce /\ \A f \in Emitters : ThreadOnce(f)
      BY <1>5 DEF OnceInv
    <2>2. d \in Closeable => /\ ~Attached(d) /\ \A i \in 1..Len(tasks) : tasks[i].dest # d
                             /\ \A f \in Emitters : em[f].pc = "cleanup" /\ Removed(f) = d => f = e
      BY <1>2, <2>1 DEF ThreadOnce, d
    <2>3. ListOnce'
      BY <1>2, <2>1 DEF ListOnce
    <2>4. TaskOnce'
      <3>1. CASE tasks' = tasks
        BY <1>2, <2>1, <3>1 DEF TaskOnce, Attached
      <3>2. CASE tasks' # tasks
        <4>1. /\ d \in Closeable /\ Len(tasks') = Len(tasks) + 1 /\ tasks'[Len(tasks')].dest = d
              /\ \A i \in 1..Len(tasks') : i = Len(tasks') \/ i \in 1..Len(tasks)
          BY <1>4, <3>2
        <4>2. \A i \in 1..Len(tasks) : tasks'[i].dest # d
          BY <1>4, <2>2, <4>1
        <4>3. \A i \in 1..Len(tasks') : ~Attached(tasks'[i].dest)
          BY <1>4, <2>1, <2>2, <4>1 DEF TaskOnce
        <4>4. \A i, j \in 1..Len(tasks') : tasks'[i].dest = tasks'[j].dest => i = j
          BY <1>4, <2>1, <4>1, <4>2 DEF TaskOnce
        <4> QED
          BY <1>2, <4>3, <4>4 DEF TaskOnce, Attached
      <3> QED
        BY <3>1, <3>2
    <2>5. ASSUME NEW f \in Emitters PROVE ThreadOnce(f)'
      <3>1. CASE f = e
        BY <1>3, <3>1 DEF ThreadOnce
      <3>2. CASE f # e
        <4>1. \A g \in Emitters : g # e => em'[g] = em[g] /\ Removed(g)' = Removed(g)
          BY <1>3 DEF Removed
        <4>2. em[f].pc = "cleanup" /\ Removed(f) \in Closeable => Removed(f) # d
          BY <2>2, <3>2
        <4>3. em[f].pc = "cleanup" /\ Removed(f) \in Closeable =>
                 \A i \in 1..Len(tasks') : tasks'[i].dest # Removed(f)
          <5>1. \A i \in 1..Len(tasks') : i \in 1..Len(tasks) \/ tasks'[i].dest = d
            BY <1>4
          <5> QED
            BY <1>4, <2>1, <4>2, <5>1 DEF ThreadOnce
        <4> QED
          BY <1>2, <1>3, <2>1, <3>2, <4>1, <4>3 DEF ThreadOnce, Attached
      <3> QED
        BY <3>1, <3>2
    <2> QED
      BY <2>3, <2>4, <2>5
  <1>6. OnceInv'
    BY <1>2, <1>5 DEF OnceInv
  <1>7. CopyInv'
    BY <1>2 DEF CopyInv, Attached
  <1>8. RemovedIsCleanedUp'
    <2> SUFFICES ASSUME NEW c \in Closeable \cap 1..built
                 PROVE  \/ Attached(c) \/ CleanupDue(c)' \/ c \in unstarted'
                        \/ \E j \in 1..Len(tasks') : tasks'[j].dest = c
      BY <1>2 DEF RemovedIsCleanedUp, Attached
    <2>1. CASE c = d
      BY <1>4, <2>1
    <2>2. CASE c # d
      <3>1. CleanupDue(c) => CleanupDue(c)'
        BY <1>2, <1>3, <2>2 DEF CleanupDue, d, Removed
      <3>2. \A j \in 1..Len(tasks) : j \in 1..Len(tasks') /\ tasks'[j] = tasks[j]
        BY <1>4
      <3> QED
        BY <1>4, <3>1, <3>2 DEF RemovedIsCleanedUp
    <2> QED
      BY <2>1, <2>2
  <1> QED
    BY <1>6, <1>7, <1>8

\* A fallback has nothing to close.
LEMMA FallbackCleaned ==
    ASSUME TypeOK, OnceInv, CopyInv, RemovedIsCleanedUp, NEW e \in Emitters, AddFallback(e)
    PROVE  OnceInv' /\ CopyInv' /\ RemovedIsCleanedUp'
  <1> DEFINE n == Configured + fallbacks + 1
  <1>1. /\ em \in [Emitters -> Emitter] /\ inline \in Seq(Inline) /\ fallbacks \in Nat
        /\ tasks \in Seq(Task)
    BY DEF TypeOK
  <1>2. /\ em[e].pc = "fallback" /\ em'[e].pc = "disable" /\ inline' = Append(inline, n)
        /\ \A f \in Emitters : f # e => em'[f] = em[f]
        /\ UNCHANGED <<tasks, unstarted, built, cl>>
    BY <1>1 DEF AddFallback, cleanup, config
  <1>3. n \in Inline /\ n \notin Closeable
    BY <1>1, InlineFacts, SMTT(60) DEF AddFallback, TypeOK
  <1>4. \A i \in 1..Len(tasks) : tasks[i].dest \in Closeable
    <2>1. \A i \in 1..Len(tasks) : tasks[i] \in Task
      BY <1>1
    <2> QED
      BY <2>1 DEF Task
  <1> HIDE DEF n
  <1>5. ToSet(inline') = ToSet(inline) \cup {n}
    BY <1>1, <1>2, <1>3, AppendSet
  <1>6. /\ DOMAIN inline' = 1..(Len(inline) + 1) /\ DOMAIN inline = 1..Len(inline)
        /\ inline'[Len(inline) + 1] = n /\ Len(inline) \in Nat
        /\ \A i \in 1..Len(inline) : inline'[i] = inline[i]
    BY <1>1, <1>2, <1>3
  <1>7. ASSUME cl.calls = 0
        PROVE  ListOnce' /\ TaskOnce' /\ (\A f \in Emitters : ThreadOnce(f))'
    <2>1. ListOnce /\ TaskOnce /\ \A f \in Emitters : ThreadOnce(f)
      BY <1>7 DEF OnceInv
    <2>2. ListOnce'
      <3>1. \A i \in DOMAIN inline' : inline'[i] \in Closeable => i \in DOMAIN inline
        BY <1>3, <1>6
      <3> QED
        BY <1>6, <2>1, <3>1 DEF ListOnce
    <2>3. TaskOnce'
      BY <1>2, <1>3, <1>4, <1>5, <2>1 DEF TaskOnce, Attached
    <2>4. ASSUME NEW f \in Emitters PROVE ThreadOnce(f)'
      <3>1. \A g \in Emitters : g # e => em'[g] = em[g] /\ Removed(g)' = Removed(g)
        BY <1>2 DEF Removed
      <3> QED
        BY <1>2, <1>3, <1>5, <2>1, <3>1 DEF ThreadOnce, Attached
    <2> QED
      BY <2>2, <2>3, <2>4
  <1>8. OnceInv'
    BY <1>2, <1>7 DEF OnceInv
  <1>9. CopyInv'
    BY <1>2, <1>3, <1>5 DEF CopyInv, Attached
  <1>10. RemovedIsCleanedUp'
    BY <1>2, <1>5 DEF RemovedIsCleanedUp, CleanupDue, Attached
  <1> QED
    BY <1>8, <1>9, <1>10

\* Every step of emit keeps one cleanup for each destination.
LEMMA EmitCleaned ==
    ASSUME TypeOK, OnceInv, CopyInv, RemovedIsCleanedUp, NEW e \in Emitters,
           EmitBegin(e) \/ EmitStep(e)
    PROVE  OnceInv' /\ CopyInv' /\ RemovedIsCleanedUp'
  BY QuietCleaned, RemoveCleaned, CleanupCleaned, FallbackCleaned DEF EmitStep, WritingStep
-------------------------------------------------------------------------------
(* The invariant under the steps of close and of the threads that end *)

ClosingStep ==
    \/ CloseBegin \/ CloseStep \/ DeadlinePasses
    \/ \E i \in 1..Len(tasks) : CleanupEnds(i)
    \/ \E q \in 1..queued : WorkerEnds(q)

\* What an update of one task leaves alone.
LEMMA TaskUpdateFacts ==
    ASSUME tasks \in Seq(Task), NEW i \in 1..Len(tasks)
    PROVE  /\ \A j \in 1..Len(tasks) :
                 LET t == [tasks EXCEPT ![i].told = TRUE]
                 IN  /\ t[j].dest = tasks[j].dest
                     /\ j # i => t[j] = tasks[j]
                     /\ t[i].told
           /\ \A j \in 1..Len(tasks) :
                 LET t == [tasks EXCEPT ![i].busy = FALSE]
                 IN  /\ t[j].dest = tasks[j].dest
                     /\ j # i => t[j] = tasks[j]
                     /\ t[i].told = tasks[i].told /\ ~t[i].busy
  <1>1. tasks[i] \in Task
    OBVIOUS
  <1>2. /\ [tasks[i] EXCEPT !.told = TRUE].dest = tasks[i].dest
        /\ [tasks[i] EXCEPT !.told = TRUE].told
        /\ [tasks[i] EXCEPT !.busy = FALSE].dest = tasks[i].dest
        /\ [tasks[i] EXCEPT !.busy = FALSE].told = tasks[i].told
        /\ ~[tasks[i] EXCEPT !.busy = FALSE].busy
    BY <1>1 DEF Task
  <1> QED
    BY <1>2

\* The tasks keep their destinations; close alone marks one as told.
LEMMA ClosingTasks ==
    ASSUME TypeOK, ShapeInv, ClosingStep, ~CleanupInline
    PROVE  /\ Len(tasks') = Len(tasks)
           /\ \A j \in 1..Len(tasks) : tasks'[j].dest = tasks[j].dest
           /\ UNCHANGED unstarted
           /\ \/ tasks' = tasks
              \/ \E i \in 1..Len(tasks) : CleanupEnds(i)
              \/ JoinTask
  <1>1. /\ tasks \in Seq(Task) /\ cl.pos \in Nat \ {0} /\ Len(tasks) \in Nat
        /\ cl.tasks \in Nat /\ cl.tasks <= Len(tasks)
    BY DEF TypeOK, Closer, ShapeInv
  <1>2. ASSUME JoinTask
        PROVE  /\ Len(tasks') = Len(tasks)
               /\ \A j \in 1..Len(tasks) : tasks'[j].dest = tasks[j].dest
               /\ UNCHANGED unstarted
    <2>1. cl.pos \in 1..Len(tasks)
      BY <1>1, <1>2 DEF JoinTask
    <2>2. tasks' = tasks \/ tasks' = [tasks EXCEPT ![cl.pos].told = TRUE]
      BY <1>2 DEF JoinTask
    <2>3. UNCHANGED unstarted
      BY <1>2 DEF JoinTask
    <2>4. CASE tasks' = [tasks EXCEPT ![cl.pos].told = TRUE]
      <3>1. Len(tasks') = Len(tasks)
        BY <1>1, <2>1, <2>4, TaskUpdate
      <3>2. \A j \in 1..Len(tasks) : tasks'[j].dest = tasks[j].dest
        BY <1>1, <2>1, <2>4, TaskUpdateFacts
      <3> QED
        BY <2>3, <3>1, <3>2
    <2> QED
      BY <2>2, <2>3, <2>4
  <1>3. ASSUME NEW i \in 1..Len(tasks), CleanupEnds(i)
        PROVE  /\ Len(tasks') = Len(tasks)
               /\ \A j \in 1..Len(tasks) : tasks'[j].dest = tasks[j].dest
               /\ UNCHANGED unstarted
    <2>1. tasks' = [tasks EXCEPT ![i].busy = FALSE] /\ UNCHANGED unstarted
      BY <1>3 DEF CleanupEnds
    <2> QED
      BY <1>1, <2>1, TaskUpdate, TaskUpdateFacts
  <1>4. ASSUME \/ CloseBegin \/ Clear \/ CleanupDone \/ CloseQueued \/ JoinWorker
               \/ CopyTasks \/ CloseReturns \/ DeadlinePasses
               \/ \E q \in 1..queued : WorkerEnds(q)
        PROVE  UNCHANGED <<tasks, unstarted>>
    BY <1>4 DEF CloseBegin, Clear, CleanupDone, CloseQueued, JoinWorker, CopyTasks,
                CloseReturns, DeadlinePasses, WorkerEnds, cleanup
  <1> QED
    BY <1>1, <1>2, <1>3, <1>4 DEF ClosingStep, CloseStep

\* What these steps do to the list and to the part of cl that says so.
LEMMA ClosingFacts ==
    ASSUME TypeOK, ShapeInv, ClosingStep
    PROVE  /\ UNCHANGED <<em, failures, streak, tripped, raced, queued, built>>
           /\ inline' = inline \/ Clear
           /\ cl'.calls = 0 =>
                 cl.calls = 0 /\ cl' = cl /\ inline' = inline /\ ~CleanupInline
  <1>1. cl \in Closer /\ cl.calls \in Nat /\ (cl.calls = 0 => cl.pc = "idle")
    BY ManagerAssumption DEF TypeOK, Closer, ShapeInv
  <1> DEFINE Good == /\ UNCHANGED <<em, failures, streak, tripped, raced, queued, built>>
                     /\ inline' = inline \/ Clear
                     /\ cl'.calls = 0 => cl.calls = 0 /\ cl' = cl /\ inline' = inline /\ cl.pc = "idle"
  <1>2. ASSUME CloseBegin PROVE Good
    BY <1>1, <1>2 DEF CloseBegin, Closer, config, list, writes
  <1>3. ASSUME Clear PROVE Good
    BY <1>1, <1>3 DEF Clear, Closer, config, writes
  <1>4. ASSUME CleanupInline PROVE Good
    BY <1>1, <1>4 DEF CleanupInline, Closer, config, list, writes
  <1>5. ASSUME CleanupDone PROVE Good
    BY <1>1, <1>5 DEF CleanupDone, Closer, config, list, writes
  <1>6. ASSUME CloseQueued PROVE Good
    BY <1>1, <1>6 DEF CloseQueued, Closer, config, list, writes
  <1>7. ASSUME JoinWorker PROVE Good
    BY <1>1, <1>7 DEF JoinWorker, Closer, config, list, writes
  <1>8. ASSUME CopyTasks PROVE Good
    BY <1>1, <1>8 DEF CopyTasks, Closer, config, list, writes
  <1>9. ASSUME JoinTask PROVE Good
    BY <1>1, <1>9 DEF JoinTask, Closer, config, list, writes
  <1>10. ASSUME CloseReturns PROVE Good
    BY <1>1, <1>10 DEF CloseReturns, Closer, config, list, writes
  <1>11. ASSUME DeadlinePasses PROVE Good
    BY <1>1, <1>11 DEF DeadlinePasses, Closer, config, list, writes
  <1>12. ASSUME NEW i \in 1..Len(tasks), CleanupEnds(i) PROVE Good
    BY <1>1, <1>12 DEF CleanupEnds, config, list, writes
  <1>13. ASSUME NEW q \in 1..queued, WorkerEnds(q) PROVE Good
    BY <1>1, <1>13 DEF WorkerEnds, config, list, writes
  <1>14. Good
    BY <1>2, <1>3, <1>4, <1>5, <1>6, <1>7, <1>8, <1>9, <1>10, <1>11, <1>12, <1>13
       DEF ClosingStep, CloseStep
  <1> QED
    BY <1>14 DEF CleanupInline

\* close neither writes nor disables.
LEMMA ClosingQuiet ==
    ASSUME TypeOK, ShapeInv, StreakInv, TriedInv, NoBlackout, ClosingStep
    PROVE  StreakInv' /\ TriedInv' /\ NoBlackout'
  <1>1. /\ UNCHANGED <<em, failures, streak, tripped, raced, queued, built>>
        /\ cl'.calls = 0 => cl.calls = 0 /\ inline' = inline
    BY ClosingFacts
  <1>2. StreakInv'
    BY <1>1 DEF StreakInv, CountInv, Uncounted
  <1>3. TriedInv'
    BY <1>1 DEF TriedInv, Counting
  <1>4. NoBlackout'
    BY <1>1 DEF NoBlackout
  <1> QED
    BY <1>2, <1>3, <1>4

\* Nothing happens to the list before the first call of close.
LEMMA ClosingOnce ==
    ASSUME TypeOK, ShapeInv, OnceInv, ClosingStep
    PROVE  OnceInv'
  <1> SUFFICES ASSUME cl'.calls = 0
               PROVE  ListOnce' /\ TaskOnce' /\ (\A e \in Emitters : ThreadOnce(e))'
    BY DEF OnceInv
  <1>1. /\ UNCHANGED <<em, inline>> /\ cl.calls = 0 /\ ~CleanupInline
    BY ClosingFacts
  <1>2. /\ Len(tasks') = Len(tasks)
        /\ \A j \in 1..Len(tasks) : tasks'[j].dest = tasks[j].dest
    BY <1>1, ClosingTasks
  <1>3. ListOnce /\ TaskOnce /\ \A e \in Emitters : ThreadOnce(e)
    BY <1>1 DEF OnceInv
  <1>4. ListOnce'
    BY <1>1, <1>3 DEF ListOnce
  <1>5. TaskOnce'
    BY <1>1, <1>2, <1>3 DEF TaskOnce, Attached
  <1>6. (\A e \in Emitters : ThreadOnce(e))'
    BY <1>1, <1>2, <1>3 DEF ThreadOnce, Attached, Removed
  <1> QED
    BY <1>4, <1>5, <1>6
\* What close clears it has copied, and it starts the cleanup of its copy.
LEMMA ClosingCleaned ==
    ASSUME TypeOK, ShapeInv, CopyInv, RemovedIsCleanedUp, ClosingStep
    PROVE  CopyInv' /\ RemovedIsCleanedUp'
  <1>1. /\ UNCHANGED <<em, built>> /\ (inline' = inline \/ Clear)
        /\ cl \in Closer /\ cl.left \in Seq(Inline)
    BY ClosingFacts DEF TypeOK, Closer
  <1> DEFINE Started(c) == c \in unstarted \/ \E i \in 1..Len(tasks) : tasks[i].dest = c
             Mine(c) == cl.pc \in {"clear", "cleanup"} /\ c \in ToSet(cl.left)
             Theirs(c) == \E e \in Emitters : em[e].pc = "cleanup" /\ Head(em[e].disabled) = c
             Safe(c) == Attached(c) \/ Theirs(c) \/ Mine(c) \/ Started(c)
  <1>2. \A c \in Closeable \cap 1..built : Safe(c)
    BY DEF RemovedIsCleanedUp, CleanupDue
  <1>3. \A c : Theirs(c)' <=> Theirs(c)
    BY <1>1
  <1>4. ASSUME ~CleanupInline
        PROVE  \A c : Started(c) => Started(c)'
    BY <1>4, ClosingTasks
  <1>5. ASSUME CleanupInline
        PROVE  CopyInv' /\ \A c \in Closeable \cap 1..built : Safe(c)'
    <2> DEFINE h == Head(cl.left)
    <2>1. /\ cl.pc = "cleanup" /\ cl.left # <<>> /\ StartWriterCleanup(h)
          /\ cl'.pc = "cleanup" /\ cl'.left = Tail(cl.left) /\ inline' = inline
      BY <1>1, <1>5 DEF CleanupInline, Closer, list
    <2>2. ToSet(cl.left) = {h} \cup ToSet(cl'.left)
      BY <1>1, <2>1, TailSet
    <2>3. \A c : Started(c) => Started(c)'
      <3>1. /\ unstarted \subseteq unstarted'
            /\ \A i \in 1..Len(tasks) : i \in 1..Len(tasks') /\ tasks'[i] = tasks[i]
        BY <2>1, CleanupFacts
      <3> QED
        BY <3>1
    <2>4. h \in Closeable => h \in unstarted' \/ \E i \in 1..Len(tasks') : tasks'[i].dest = h
      BY <2>1, CleanupFacts
    <2>5. ASSUME NEW c \in Closeable \cap 1..built PROVE Safe(c)'
      <3>1. CASE c = h
        BY <2>4, <3>1
      <3>2. CASE c # h
        BY <1>2, <1>3, <2>1, <2>2, <2>3, <3>2 DEF Attached
      <3> QED
        BY <3>1, <3>2
    <2> QED
      BY <2>1, <2>5 DEF CopyInv
  <1>6. ASSUME Clear
        PROVE  CopyInv' /\ \A c \in Closeable \cap 1..built : Safe(c)'
    <2>1. cl.pc = "clear" /\ cl'.pc = "cleanup" /\ cl'.left = cl.left /\ ~CleanupInline
      BY <1>1, <1>6 DEF Clear, Closer, CleanupInline
    <2>2. \A c \in Closeable : Attached(c) => c \in ToSet(cl.left)
      BY <2>1 DEF CopyInv
    <2>3. \A c \in Closeable \cap 1..built : Safe(c)'
      BY <1>2, <1>3, <1>4, <2>1, <2>2
    <2> QED
      BY <2>1, <2>3 DEF CopyInv
  <1>7. ASSUME CloseBegin
        PROVE  CopyInv' /\ \A c \in Closeable \cap 1..built : Safe(c)'
    <2>1. /\ cl.pc = "idle" /\ cl'.left = inline /\ inline' = inline
      BY <1>1, <1>7 DEF CloseBegin, Closer, list
    <2>2. ~CleanupInline
      BY <2>1 DEF CleanupInline
    <2>3. \A c \in Closeable \cap 1..built : Safe(c)'
      BY <1>2, <1>3, <1>4, <2>1, <2>2 DEF Attached
    <2> QED
      BY <2>1, <2>3 DEF CopyInv, Attached
  <1>8. ASSUME ~CleanupInline, ~Clear, ~CloseBegin
        PROVE  CopyInv' /\ \A c \in Closeable \cap 1..built : Safe(c)'
    <2>1. /\ inline' = inline
          /\ \/ cl'.pc = cl.pc /\ cl'.left = cl.left
             \/ cl'.pc \notin {"clear", "cleanup"}
                /\ (cl.pc \in {"clear", "cleanup"} => cl.left = <<>>)
      <3>1. CASE CleanupDone
        BY <1>1, <3>1 DEF CleanupDone, Closer, list
      <3>2. CASE CloseQueued
        BY <1>1, <3>2 DEF CloseQueued, Closer, list
      <3>3. CASE JoinWorker
        BY <1>1, <3>3 DEF JoinWorker, Closer, list
      <3>4. CASE CopyTasks
        BY <1>1, <3>4 DEF CopyTasks, Closer, list
      <3>5. CASE JoinTask
        BY <1>1, <3>5 DEF JoinTask, Closer, list
      <3>6. CASE CloseReturns
        BY <1>1, <3>6 DEF CloseReturns, Closer, list
      <3>7. CASE DeadlinePasses
        BY <1>1, <3>7 DEF DeadlinePasses, Closer, list
      <3>8. CASE \E i \in 1..Len(tasks) : CleanupEnds(i)
        BY <1>1, <3>8 DEF CleanupEnds, list
      <3>9. CASE \E q \in 1..queued : WorkerEnds(q)
        BY <1>1, <3>9 DEF WorkerEnds, list
      <3> QED
        BY <1>8, <3>1, <3>2, <3>3, <3>4, <3>5, <3>6, <3>7, <3>8, <3>9 DEF ClosingStep, CloseStep
    <2>2. CopyInv'
      BY <2>1 DEF CopyInv, Attached
    <2>3. \A c : Mine(c) => Mine(c)'
      BY <2>1 DEF ToSet
    <2>4. \A c \in Closeable \cap 1..built : Safe(c)'
      BY <1>2, <1>3, <1>4, <1>8, <2>1, <2>3 DEF Attached
    <2> QED
      BY <2>2, <2>4
  <1>9. CopyInv' /\ \A c \in Closeable \cap 1..built : Safe(c)'
    BY <1>5, <1>6, <1>7, <1>8
  <1>10. RemovedIsCleanedUp'
    BY <1>1, <1>9 DEF RemovedIsCleanedUp, CleanupDue, Attached
  <1> QED
    BY <1>9, <1>10
-------------------------------------------------------------------------------
(* What close accounts for *)

Told == {i \in 1..Len(tasks) : tasks[i].told}

LEMMA FiniteParts ==
    ASSUME TypeOK
    PROVE  /\ IsFiniteSet(Told) /\ IsFiniteSet(blamed)
           /\ Cardinality(Told) \in Nat /\ Cardinality(blamed) \in Nat
  <1>1. Len(tasks) \in Nat /\ queued \in Nat /\ blamed \subseteq 1..queued
    BY InlineFacts DEF TypeOK
  <1>2. IsFiniteSet(1..Len(tasks)) /\ IsFiniteSet(1..queued)
    BY <1>1, FS_Interval
  <1>3. Told \subseteq 1..Len(tasks)
    BY SMTT(60) DEF Told
  <1> QED
    BY <1>1, <1>2, <1>3, FS_Subset, FS_CardinalityType

\* The steps of emit list new tasks and touch no other part of the account.
LEMMA EmitAccounts ==
    ASSUME TypeOK, ShapeInv, WorkerInv, TaskInv, LateCountedOnce,
           NEW e \in Emitters, EmitBegin(e) \/ EmitStep(e)
    PROVE  WorkerInv' /\ TaskInv' /\ LateCountedOnce'
  <1>1. /\ cl' = cl /\ UNCHANGED <<queued, worker, blamed, timeouts>>
        /\ tasks' = tasks \/ CleanupDisabled(e)
    BY DEF EmitStep, EmitBegin, Write, WriteFails, Wrote, ResetFailures, ReadFailures,
           AddFailure, CheckLimit, LoopEnds, FanOut, Compare, RemoveInline, NotFound,
           CleanupDisabled, CountLeft, AddFallback,
           config, queues, cleanup
  <1>2. /\ Len(tasks) \in Nat /\ Len(tasks') \in Nat
        /\ \A i \in 1..Len(tasks) : tasks'[i] = tasks[i]
        /\ \A i \in 1..Len(tasks') : i \in 1..Len(tasks) \/ (i > Len(tasks) /\ ~tasks'[i].told)
        /\ Len(tasks) <= Len(tasks')
    <2>1. CASE tasks' = tasks
      BY <2>1 DEF TypeOK
    <2>2. CASE CleanupDisabled(e)
      <3>1. StartWriterCleanup(Head(em[e].disabled))
        BY <2>2 DEF CleanupDisabled
      <3>2. /\ Len(tasks') \in Nat /\ Len(tasks) \in Nat
            /\ \A i \in 1..Len(tasks) : tasks'[i] = tasks[i]
            /\ \/ Len(tasks') = Len(tasks)
               \/ Len(tasks') = Len(tasks) + 1 /\ ~tasks'[Len(tasks')].told
        BY <3>1, CleanupFacts
      <3> QED
        BY <3>2
    <2> QED
      BY <1>1, <2>1, <2>2
  <1>3. WorkerInv'
    BY <1>1 DEF WorkerInv, Passed
  <1>4. TaskInv'
    <2>1. cl.tasks \in Nat /\ cl.tasks <= Len(tasks)
      BY DEF TypeOK, Closer, ShapeInv
    <2> QED
      BY <1>1, <1>2, <2>1 DEF TaskInv
  <1>5. Told' = Told
    BY <1>2 DEF Told
  <1> QED
    BY <1>1, <1>3, <1>4, <1>5 DEF LateCountedOnce, Told

\* close passes a queued destination only when it is closed, and waits or reports.
LEMMA ClosingWorkers ==
    ASSUME TypeOK, ShapeInv, WorkerInv, ClosingStep
    PROVE  WorkerInv'
  <1>1. /\ cl \in Closer /\ cl.pos \in Nat \ {0} /\ queued \in Nat /\ queued' = queued
        /\ cl.calls \in Nat
        /\ worker \in [1..queued -> {"open", "closing", "ended"}]
        /\ blamed \in SUBSET (1..queued)
        /\ cl.pc = "worker" => cl.pos <= queued
        /\ cl.calls = 0 => cl.pc = "idle"
    BY ClosingFacts, InlineFacts, ManagerAssumption, SMTT(60) DEF TypeOK, Closer, ShapeInv
  <1>2. /\ \A q \in 1..queued :
              worker[q] = "closing" => q \in blamed \/ (cl.pc = "worker" /\ cl.pos = q)
        /\ \A q \in blamed : worker[q] # "open" /\ ~(cl.pc = "worker" /\ cl.pos = q)
        /\ cl.pc = "worker" => worker[cl.pos] # "open"
        /\ \A q \in 1..queued : Passed(q) => worker[q] # "open"
    BY DEF WorkerInv
  <1> USE DEF Passed
  <1>3. CASE CloseQueued
    <2>1. cl.pc = "queued" /\ cl.pos \in 1..queued /\ blamed' = blamed
      BY <1>1, <1>3 DEF CloseQueued
    <2>2. CASE worker[cl.pos] # "open"
      <3>1. cl'.pc = "queued" /\ cl'.pos = cl.pos + 1 /\ worker' = worker
        BY <1>1, <1>3, <2>1, <2>2 DEF CloseQueued, SkipQueued, Closer
      <3> QED
        BY <1>1, <1>2, <2>1, <2>2, <3>1 DEF WorkerInv
    <2>3. CASE worker[cl.pos] = "open"
      <3>1. /\ cl'.pc = "worker" /\ cl'.pos = cl.pos
            /\ worker' = [worker EXCEPT ![cl.pos] = "closing"]
        BY <1>1, <1>3, <2>1, <2>3 DEF CloseQueued, SkipQueued, Closer
      <3>2. \A q \in 1..queued : worker'[q] = IF q = cl.pos THEN "closing" ELSE worker[q]
        BY <1>1, <2>1, <3>1
      <3> QED
        BY <1>1, <1>2, <2>1, <2>3, <3>1, <3>2 DEF WorkerInv
    <2> QED
      BY <2>2, <2>3
  <1>4. CASE JoinWorker
    <2>1. /\ cl.pc = "worker" /\ cl.pos \in 1..queued /\ worker' = worker
          /\ cl'.pc = "queued" /\ cl'.pos = cl.pos + 1
          /\ \/ worker[cl.pos] = "ended" /\ blamed' = blamed
             \/ worker[cl.pos] # "ended" /\ blamed' = blamed \cup {cl.pos}
      BY <1>1, <1>4 DEF JoinWorker, Closer
    <2>2. /\ \A q \in 1..queued : worker[q] = "closing" => q \in blamed'
          /\ \A q \in blamed' : worker[q] # "open"
      BY <1>2, <2>1
    <2>3. \A q \in 1..queued : q < cl.pos + 1 => worker[q] # "open"
      <3> SUFFICES ASSUME NEW q \in 1..queued, q < cl.pos + 1
                   PROVE  worker[q] # "open"
        OBVIOUS
      <3>1. q < cl.pos \/ q = cl.pos
        BY <1>1
      <3> QED
        BY <1>2, <2>1, <3>1
    <2> QED
      BY <1>1, <2>1, <2>2, <2>3 DEF WorkerInv
  <1>5. CASE \E q \in 1..queued : WorkerEnds(q)
    <2>1. PICK q \in 1..queued : WorkerEnds(q)
      BY <1>5
    <2>2. /\ worker[q] = "closing" /\ worker' = [worker EXCEPT ![q] = "ended"]
          /\ cl' = cl /\ blamed' = blamed
      BY <2>1 DEF WorkerEnds
    <2>3. \A p \in 1..queued : worker'[p] = IF p = q THEN "ended" ELSE worker[p]
      BY <1>1, <2>2
    <2> QED
      BY <1>1, <1>2, <2>2, <2>3 DEF WorkerInv
  <1>6. CASE ~CloseQueued /\ ~JoinWorker /\ ~(\E q \in 1..queued : WorkerEnds(q))
    <2>1. /\ UNCHANGED <<worker, blamed>>
          /\ \/ cl'.pc = cl.pc /\ (cl.pc = "join" \/ cl'.pos = cl.pos)
                /\ (cl.pc = "idle" => cl'.calls = cl.calls)
             \/ cl'.pc \in {"clear", "cleanup"} /\ cl.pc # "worker"
             \/ cl'.pc = "queued" /\ cl'.pos = 1 /\ cl.pc # "worker"
             \/ cl'.pc = "join" /\ cl.pc = "queued" /\ cl.pos > queued
             \/ cl'.pc = "idle" /\ cl.pc = "join"
      <3>1. CASE CloseBegin
        BY <1>1, <3>1 DEF CloseBegin, Closer, queues
      <3>2. CASE Clear
        BY <1>1, <3>2 DEF Clear, Closer, queues
      <3>3. CASE CleanupInline
        BY <1>1, <3>3 DEF CleanupInline, Closer, queues
      <3>4. CASE CleanupDone
        BY <1>1, <3>4 DEF CleanupDone, Closer, queues
      <3>5. CASE CopyTasks
        BY <1>1, <3>5 DEF CopyTasks, Closer, queues
      <3>6. CASE JoinTask
        BY <1>1, <3>6 DEF JoinTask, Closer, queues
      <3>7. CASE CloseReturns
        BY <1>1, <3>7 DEF CloseReturns, Closer, queues
      <3>8. CASE DeadlinePasses
        BY <1>1, <3>8 DEF DeadlinePasses, Closer, queues
      <3>9. CASE \E i \in 1..Len(tasks) : CleanupEnds(i)
        BY <1>1, <3>9 DEF CleanupEnds, queues
      <3> QED
        BY <1>6, <3>1, <3>2, <3>3, <3>4, <3>5, <3>6, <3>7, <3>8, <3>9 DEF ClosingStep, CloseStep
    <2> QED
      BY <1>1, <1>2, <2>1 DEF WorkerInv
  <1> QED
    BY <1>3, <1>4, <1>5, <1>6

\* close passes a task only when it has ended or is told.
LEMMA ClosingReports ==
    ASSUME TypeOK, ShapeInv, TaskInv, ClosingStep
    PROVE  TaskInv'
  <1>1. /\ cl \in Closer /\ cl.pos \in Nat \ {0} /\ cl.tasks \in Nat
        /\ cl.tasks <= Len(tasks) /\ Len(tasks) \in Nat /\ tasks \in Seq(Task)
        /\ cl.calls \in Nat
    BY ManagerAssumption DEF TypeOK, Closer, ShapeInv
  <1>2. \A i \in 1..Len(tasks) :
           (i <= cl.tasks /\ tasks[i].busy /\ (cl.pc = "idle" \/ (cl.pc = "join" /\ i < cl.pos)))
               => tasks[i].told
    BY DEF TaskInv
  <1>3. CASE JoinTask
    <2>1. /\ cl.pc = "join" /\ cl'.pc = "join" /\ cl'.pos = cl.pos + 1 /\ cl'.tasks = cl.tasks
          /\ cl.pos \in 1..Len(tasks)
      BY <1>1, <1>3 DEF JoinTask, Closer
    <2>2. CASE ReportTask(tasks[cl.pos])
      <3>1. tasks' = [tasks EXCEPT ![cl.pos].told = TRUE]
        BY <1>3, <2>2 DEF JoinTask
      <3>2. /\ Len(tasks') = Len(tasks) /\ tasks'[cl.pos].told
            /\ \A j \in 1..Len(tasks) : j # cl.pos => tasks'[j] = tasks[j]
        BY <1>1, <2>1, <3>1, TaskUpdate, TaskUpdateFacts
      <3> QED
        BY <1>1, <1>2, <2>1, <3>2 DEF TaskInv
    <2>3. CASE ~ReportTask(tasks[cl.pos])
      <3>1. tasks' = tasks /\ (tasks[cl.pos].busy => tasks[cl.pos].told)
        BY <1>3, <2>3 DEF JoinTask, ReportTask
      <3> QED
        BY <1>1, <1>2, <2>1, <3>1 DEF TaskInv
    <2> QED
      BY <2>2, <2>3
  <1>4. CASE \E i \in 1..Len(tasks) : CleanupEnds(i)
    <2>1. PICK i \in 1..Len(tasks) : CleanupEnds(i)
      BY <1>4
    <2>2. tasks' = [tasks EXCEPT ![i].busy = FALSE] /\ cl' = cl
      BY <2>1 DEF CleanupEnds
    <2>3. /\ Len(tasks') = Len(tasks) /\ ~tasks'[i].busy
          /\ \A j \in 1..Len(tasks) : j # i => tasks'[j] = tasks[j]
      BY <1>1, <2>2, TaskUpdate, TaskUpdateFacts
    <2> QED
      BY <1>2, <2>2, <2>3 DEF TaskInv
  <1>5. CASE CleanupInline
    <2>1. cl'.pc = "cleanup"
      BY <1>1, <1>5 DEF CleanupInline, Closer
    <2> QED
      BY <2>1 DEF TaskInv
  <1>6. CASE ~JoinTask /\ ~CleanupInline /\ ~(\E i \in 1..Len(tasks) : CleanupEnds(i))
    <2>1. tasks' = tasks
      BY <1>6, ClosingTasks
    <2>2. \/ cl'.pc \notin {"idle", "join"}
          \/ cl'.pc = "join" /\ cl'.pos = 1
          \/ cl'.pc = cl.pc /\ cl'.pos = cl.pos /\ cl'.tasks = cl.tasks
          \/ cl'.pc = "idle" /\ cl.pc = "join" /\ cl.pos > cl.tasks /\ cl'.tasks = cl.tasks
      <3>1. CASE CloseBegin
        BY <1>1, <3>1 DEF CloseBegin, Closer
      <3>2. CASE Clear
        BY <1>1, <3>2 DEF Clear, Closer
      <3>3. CASE CleanupDone
        BY <1>1, <3>3 DEF CleanupDone, Closer
      <3>4. CASE CloseQueued
        BY <1>1, <3>4 DEF CloseQueued, Closer
      <3>5. CASE JoinWorker
        BY <1>1, <3>5 DEF JoinWorker, Closer
      <3>6. CASE CopyTasks
        BY <1>1, <3>6 DEF CopyTasks, Closer
      <3>7. CASE CloseReturns
        BY <1>1, <3>7 DEF CloseReturns, Closer
      <3>8. CASE DeadlinePasses
        BY <1>1, <3>8 DEF DeadlinePasses, Closer
      <3>9. CASE \E q \in 1..queued : WorkerEnds(q)
        BY <1>1, <3>9 DEF WorkerEnds
      <3> QED
        BY <1>6, <3>1, <3>2, <3>3, <3>4, <3>5, <3>6, <3>7, <3>8, <3>9 DEF ClosingStep, CloseStep
    <2> QED
      BY <1>1, <1>2, <2>1, <2>2 DEF TaskInv
  <1> QED
    BY <1>3, <1>4, <1>5, <1>6

\* Each report adds one worker or one task to those that are counted.
LEMMA ClosingLate ==
    ASSUME TypeOK, ShapeInv, WorkerInv, LateCountedOnce, ClosingStep
    PROVE  LateCountedOnce'
  <1>1. /\ cl.pos \in Nat \ {0} /\ cl.tasks \in Nat
        /\ cl.tasks <= Len(tasks) /\ Len(tasks) \in Nat /\ tasks \in Seq(Task)
    BY DEF TypeOK, Closer, ShapeInv
  <1>2. /\ timeouts = Cardinality(Told) + Cardinality(blamed) /\ timeouts \in Nat
        /\ IsFiniteSet(Told) /\ IsFiniteSet(blamed)
        /\ Cardinality(Told) \in Nat /\ Cardinality(blamed) \in Nat
    BY FiniteParts DEF LateCountedOnce, Told, TypeOK
  <1> SUFFICES timeouts' = Cardinality(Told') + Cardinality(blamed')
    BY DEF LateCountedOnce, Told
  <1>3. CASE JoinTask
    <2>1. cl.pos \in 1..Len(tasks) /\ blamed' = blamed
      BY <1>1, <1>3 DEF JoinTask, queues
    <2>2. CASE ReportTask(tasks[cl.pos])
      <3>1. /\ tasks' = [tasks EXCEPT ![cl.pos].told = TRUE] /\ timeouts' = timeouts + 1
            /\ ~tasks[cl.pos].told
        BY <1>3, <2>2 DEF JoinTask, ReportTask
      <3>2. /\ Len(tasks') = Len(tasks) /\ tasks'[cl.pos].told
            /\ \A j \in 1..Len(tasks) : j # cl.pos => tasks'[j] = tasks[j]
        BY <1>1, <2>1, <3>1, TaskUpdate, TaskUpdateFacts
      <3>3. Told' = Told \cup {cl.pos} /\ cl.pos \notin Told
        BY <2>1, <3>1, <3>2 DEF Told
      <3>4. Cardinality(Told') = Cardinality(Told) + 1
        BY <1>2, <3>3, FS_AddElement
      <3> QED
        BY <1>2, <2>1, <3>1, <3>4
    <2>3. CASE ~ReportTask(tasks[cl.pos])
      BY <1>2, <1>3, <2>1, <2>3 DEF JoinTask, Told
    <2> QED
      BY <2>2, <2>3
  <1>4. CASE \E i \in 1..Len(tasks) : CleanupEnds(i)
    <2>1. PICK i \in 1..Len(tasks) : CleanupEnds(i)
      BY <1>4
    <2>2. tasks' = [tasks EXCEPT ![i].busy = FALSE] /\ UNCHANGED <<timeouts, blamed>>
      BY <2>1 DEF CleanupEnds, queues
    <2>3. /\ Len(tasks') = Len(tasks) /\ tasks'[i].told = tasks[i].told
          /\ \A j \in 1..Len(tasks) : j # i => tasks'[j] = tasks[j]
      BY <1>1, <2>2, TaskUpdate, TaskUpdateFacts
    <2>4. Told' = Told
      BY <2>3 DEF Told
    <2> QED
      BY <1>2, <2>2, <2>4
  <1>5. CASE CleanupInline
    <2>1. StartWriterCleanup(Head(cl.left)) /\ UNCHANGED <<timeouts, blamed>>
      BY <1>5 DEF CleanupInline, queues
    <2>2. /\ Len(tasks') \in Nat
          /\ \A i \in 1..Len(tasks) : tasks'[i] = tasks[i]
          /\ \/ Len(tasks') = Len(tasks)
             \/ Len(tasks') = Len(tasks) + 1 /\ ~tasks'[Len(tasks')].told
      BY <2>1, CleanupFacts
    <2>3. Told' = Told
      BY <1>1, <2>2 DEF Told
    <2> QED
      BY <1>2, <2>1, <2>3
  <1>6. CASE JoinWorker
    <2>1. /\ cl.pc = "worker" /\ tasks' = tasks
          /\ \/ UNCHANGED <<timeouts, blamed>>
             \/ timeouts' = timeouts + 1 /\ blamed' = blamed \cup {cl.pos}
      BY <1>6 DEF JoinWorker, cleanup
    <2>2. cl.pos \notin blamed
      BY <2>1 DEF WorkerInv
    <2>3. Cardinality(blamed \cup {cl.pos}) = Cardinality(blamed) + 1
      BY <1>2, <2>2, FS_AddElement
    <2>4. Told' = Told
      BY <2>1 DEF Told
    <2>5. CASE UNCHANGED <<timeouts, blamed>>
      BY <1>2, <2>4, <2>5
    <2>6. CASE timeouts' = timeouts + 1 /\ blamed' = blamed \cup {cl.pos}
      <3>1. Cardinality(blamed') = Cardinality(blamed) + 1
        BY <2>3, <2>6
      <3> QED
        BY <1>2, <2>4, <2>6, <3>1
    <2> QED
      BY <2>1, <2>5, <2>6
  <1>7. CASE \/ CloseBegin \/ Clear \/ CleanupDone \/ CloseQueued \/ CopyTasks
             \/ CloseReturns \/ DeadlinePasses \/ \E q \in 1..queued : WorkerEnds(q)
    <2>1. UNCHANGED <<tasks, timeouts, blamed>>
      BY <1>7 DEF CloseBegin, Clear, CleanupDone, CloseQueued, CopyTasks, CloseReturns,
                  DeadlinePasses, WorkerEnds, cleanup, queues
    <2> QED
      BY <1>2, <2>1 DEF Told
  <1> QED
    BY <1>3, <1>4, <1>5, <1>6, <1>7 DEF ClosingStep, CloseStep
-------------------------------------------------------------------------------
(* The invariant *)

\* The invariant holds when the manager has been built.
LEMMA InitInv == Init => IInv
  <1> SUFFICES ASSUME Init PROVE IInv
    OBVIOUS
  <1>1. TypeOK /\ ShapeInv
    BY TypeInit
  <1>2. /\ built \in Nat /\ queued \in Nat /\ Limit \in Nat \ {0} /\ Configured \in Nat
        /\ tasks = <<>> /\ Len(tasks) = 0 /\ timeouts = 0 /\ blamed = {}
        /\ worker = [q \in 1..queued |-> "open"]
        /\ failures = [d \in Inline |-> 0] /\ streak = [d \in Inline |-> 0]
        /\ cl.pc = "idle" /\ cl.calls = 0 /\ cl.tasks = 0
        /\ \A e \in Emitters : em[e].pc = "idle" /\ em[e].disabled = <<>>
    <2>1. built \in Nat /\ queued \in Nat /\ Limit \in Nat \ {0} /\ Configured \in Nat
      BY InlineFacts DEF Init
    <2>2. /\ tasks = <<>> /\ Len(tasks) = 0 /\ timeouts = 0 /\ blamed = {}
          /\ worker = [q \in 1..queued |-> "open"]
          /\ failures = [d \in Inline |-> 0] /\ streak = [d \in Inline |-> 0]
      BY DEF Init
    <2>3. cl.pc = "idle" /\ cl.calls = 0 /\ cl.tasks = 0
      BY DEF Init
    <2>4. \A e \in Emitters : em[e].pc = "idle" /\ em[e].disabled = <<>>
      BY DEF Init
    <2> QED
      BY <2>1, <2>2, <2>3, <2>4
  <1>9. \/ inline = <<Configured + 1>> /\ built = 0
        \/ inline = [i \in 1..built |-> i] /\ built + queued # 0
    <2>1. CASE built + queued = 0
      BY <1>2, <2>1 DEF Init
    <2>2. CASE built + queued # 0
      BY <2>2 DEF Init
    <2> QED
      BY <2>1, <2>2
  <1>3. StreakInv /\ TriedInv
    BY <1>2 DEF StreakInv, CountInv, Uncounted, TriedInv, Counting, ToSet
  <1>4. NoBlackout
    <2>1. CASE inline = <<Configured + 1>>
      BY <2>1 DEF NoBlackout
    <2>2. CASE inline = [i \in 1..built |-> i] /\ built + queued # 0
      <3>1. CASE built = 0
        BY <1>2, <2>2, <3>1 DEF NoBlackout
      <3>2. CASE built # 0
        <4>1. 1 \in DOMAIN inline
          BY <1>2, <2>2, <3>2
        <4>2. inline # <<>>
          BY <4>1
        <4> QED
          BY <4>2 DEF NoBlackout
      <3> QED
        BY <3>1, <3>2
    <2> QED
      BY <1>9, <2>1, <2>2
  <1>5. OnceInv /\ CopyInv
    BY <1>2, <1>9 DEF OnceInv, ListOnce, TaskOnce, ThreadOnce, CopyInv
  <1>6. RemovedIsCleanedUp
    <2>1. ASSUME NEW c \in 1..built PROVE c \in ToSet(inline)
      BY <1>2, <1>9, <2>1 DEF ToSet
    <2> QED
      BY <2>1 DEF RemovedIsCleanedUp, Attached
  <1>7. WorkerInv /\ TaskInv
    BY <1>2 DEF WorkerInv, TaskInv, Passed
  <1>8. LateCountedOnce
    <2>1. {i \in 1..Len(tasks) : tasks[i].told} = {}
      BY <1>2
    <2> QED
      BY <1>2, <2>1, FS_EmptySet DEF LateCountedOnce
  <1> QED
    BY <1>1, <1>3, <1>4, <1>5, <1>6, <1>7, <1>8 DEF IInv

\* Every step keeps the invariant.
LEMMA NextInv == IInv /\ [Next]_vars => IInv'
  <1> SUFFICES ASSUME IInv, [Next]_vars PROVE IInv'
    OBVIOUS
  <1> USE DEF IInv
  <1>1. ASSUME NEW e \in Emitters, EmitBegin(e) \/ EmitStep(e)
        PROVE  IInv'
    <2>1. TypeOK' /\ ShapeInv'
      BY <1>1, EmitTypes
    <2>2. StreakInv' /\ TriedInv' /\ NoBlackout'
      BY <1>1, EmitStreak, EmitTried, EmitNoBlackout
    <2>3. OnceInv' /\ CopyInv' /\ RemovedIsCleanedUp'
      BY <1>1, EmitCleaned
    <2>4. WorkerInv' /\ TaskInv' /\ LateCountedOnce'
      BY <1>1, EmitAccounts
    <2> QED
      BY <2>1, <2>2, <2>3, <2>4
  <1>2. ASSUME ClosingStep
        PROVE  IInv'
    <2>1. TypeOK' /\ ShapeInv'
      BY <1>2, CloseTypes DEF ClosingStep
    <2>2. StreakInv' /\ TriedInv' /\ NoBlackout'
      BY <1>2, ClosingQuiet
    <2>3. OnceInv' /\ CopyInv' /\ RemovedIsCleanedUp'
      BY <1>2, ClosingOnce, ClosingCleaned
    <2>4. WorkerInv' /\ TaskInv' /\ LateCountedOnce'
      BY <1>2, ClosingWorkers, ClosingReports, ClosingLate
    <2> QED
      BY <2>1, <2>2, <2>3, <2>4
  <1>3. CASE UNCHANGED vars
    <2>1. UNCHANGED <<built, queued, inline, fallbacks, failures, streak, tripped, raced,
                      tasks, unstarted, worker, blamed, timeouts, em, cl>>
      BY <1>3 DEF vars, config, list, writes, cleanup, queues
    <2>2. TypeOK' /\ ShapeInv' /\ StreakInv' /\ TriedInv' /\ NoBlackout'
      BY <2>1 DEF TypeOK, ShapeInv, StreakInv, CountInv, Uncounted, TriedInv, NoBlackout,
                  Replacing, Counting
    <2>3. OnceInv' /\ CopyInv' /\ RemovedIsCleanedUp'
      BY <2>1 DEF OnceInv, ListOnce, TaskOnce, ThreadOnce, Removed, CopyInv,
                  RemovedIsCleanedUp, CleanupDue, Attached
    <2>4. WorkerInv' /\ TaskInv' /\ LateCountedOnce'
      BY <2>1 DEF WorkerInv, Passed, TaskInv, LateCountedOnce
    <2> QED
      BY <2>2, <2>3, <2>4
  <1> QED
    BY <1>1, <1>2, <1>3 DEF Next, ClosingStep

\* The invariant holds in every reachable state of emit and close.
THEOREM Invariance == Spec => []IInv
  BY InitInv, NextInv, PTL DEF Spec

\* The list, the tasks, the workers and the local states of the threads keep
\* their types in every interleaving of emit and close.
THEOREM TypeCorrect == Spec => []TypeOK
  <1>1. IInv => TypeOK
    BY DEF IInv
  <1> QED
    BY <1>1, Invariance, PTL

\* Until close is called there is a destination left, or a thread about to
\* look whether it must restore standard output, however many threads remove
\* destinations from the unlocked list at the same time.
THEOREM NeverBlackedOut == Spec => []NoBlackout
  <1>1. IInv => NoBlackout
    BY DEF IInv
  <1> QED
    BY <1>1, Invariance, PTL

\* An emit that has left its loop has written to each destination that was in
\* the list when it began.
THEOREM AllTried == Spec => []EveryDestinationTried
  <1>1. IInv => EveryDestinationTried
    BY DEF IInv, TriedInv, EveryDestinationTried, ToSet
  <1> QED
    BY <1>1, Invariance, PTL

\* No destination leaves the list without its writer's cleanup: one that is
\* gone has a task, or a thread that is about to start it, or a reported failure.
THEOREM CleanedUp == Spec => []RemovedIsCleanedUp
  <1>1. IInv => RemovedIsCleanedUp
    BY DEF IInv
  <1> QED
    BY <1>1, Invariance, PTL

\* Until close is called no writer is closed twice, even by threads that
\* decide to disable the same destination at the same time.
THEOREM DisabledJustOnce == Spec => []DisabledOnce
  <1>1. IInv => DisabledOnce
    BY DEF IInv, OnceInv, TaskOnce, DisabledOnce
  <1> QED
    BY <1>1, Invariance, PTL

\* When a call of close has returned, each worker has ended or been reported,
\* and so has each cleanup that this call found in the list of tasks.
THEOREM CloseAccounts == Spec => []CloseAccountsForAll
  <1>1. ASSUME IInv PROVE CloseAccountsForAll
    <2> SUFFICES ASSUME cl.pc = "idle", cl.calls > 0
                 PROVE  /\ \A q \in 1..queued : worker[q] = "ended" \/ q \in blamed
                        /\ \A i \in 1..cl.tasks : tasks[i].busy => tasks[i].told
      BY DEF CloseAccountsForAll
    <2>1. /\ worker \in [1..queued -> {"open", "closing", "ended"}]
          /\ cl.tasks \in Nat /\ cl.tasks <= Len(tasks) /\ Len(tasks) \in Nat
      BY <1>1 DEF IInv, TypeOK, Closer, ShapeInv
    <2>2. \A q \in 1..queued : worker[q] = "ended" \/ q \in blamed
      BY <1>1, <2>1 DEF IInv, WorkerInv, Passed
    <2>3. \A i \in 1..cl.tasks : tasks[i].busy => tasks[i].told
      BY <1>1, <2>1 DEF IInv, TaskInv
    <2> QED
      BY <2>2, <2>3
  <1> QED
    BY <1>1, Invariance, PTL

\* The counter of late shutdowns is the number of workers and cleanups that
\* have been reported, after any number of calls of close.
THEOREM LateOnce == Spec => []LateCountedOnce
  <1>1. IInv => LateCountedOnce
    BY DEF IInv
  <1> QED
    BY <1>1, Invariance, PTL

\* Only close removes a destination that has not failed Limit times in a row, unless
\* the code has lost count: two threads wrote to it, in this emit or in an earlier
\* one, and one had not yet stored its count when the other wrote.
THEOREM OnlyAfterStreak == Spec => DisabledAfterStreak
  <1> DEFINE Step == \A d \in Inline :
                        Attached(d) /\ ~Attached(d)' =>
                            d \in tripped \cup raced \/ (cl.pc = "clear" /\ cl.pc' = "cleanup")
  <1>1. ASSUME IInv, [Next]_vars PROVE Step
    <2>1. inline \in Seq(Inline) /\ em \in [Emitters -> Emitter] /\ cl \in Closer
      BY <1>1 DEF IInv, TypeOK
    <2>2. ASSUME NEW e \in Emitters, RemoveInline(e) PROVE Step
      <3>1. PICK i \in DOMAIN inline : /\ inline[i] = Head(em[e].disabled)
                                       /\ inline' = RemoveAt(inline, i)
        <4>1. em[e].scan \in DOMAIN inline
          BY <2>1, <2>2, EmitterFacts DEF RemoveInline
        <4> QED
          BY <2>2, <4>1 DEF RemoveInline, Found
      <3>2. ToSet(inline) \subseteq ToSet(inline') \cup {Head(em[e].disabled)}
        BY <2>1, <3>1, RemoveSet
      <3>3. Head(em[e].disabled) \in ToSet(em[e].disabled)
        BY <2>1, <2>2, EmitterFacts, TailSet DEF RemoveInline, Scanning
      <3>4. Head(em[e].disabled) \in tripped \cup raced
        BY <1>1, <3>3 DEF IInv, StreakInv
      <3> QED
        BY <3>2, <3>4 DEF Attached
    <2>3. ASSUME NEW e \in Emitters, AddFallback(e) PROVE Step
      <3>1. Configured + fallbacks + 1 \in Inline
        BY <1>1, <2>3, InlineFacts, SMTT(60) DEF AddFallback, IInv, TypeOK
      <3>2. ToSet(inline') = ToSet(inline) \cup {Configured + fallbacks + 1}
        BY <2>1, <2>3, <3>1, AppendSet DEF AddFallback
      <3> QED
        BY <3>2 DEF Attached
    <2>4. CASE Clear
      BY <2>1, <2>4, SMTT(60) DEF Clear, Closer
    <2>5. ASSUME NEW e \in Emitters, WritingStep(e) \/ CleanupDisabled(e) \/ CountLeft(e)
          PROVE  Step
      <3>1. inline' = inline
        BY <2>1, <2>5, WritingFacts DEF CleanupDisabled, CountLeft, list
      <3> QED
        BY <3>1, SMTT(60) DEF Attached
    <2>6. ASSUME ClosingStep, ~Clear PROVE Step
      <3>1. inline' = inline
        BY <1>1, <2>6, ClosingFacts DEF IInv
      <3> QED
        BY <3>1 DEF Attached
    <2>7. ASSUME UNCHANGED vars PROVE Step
      BY <2>7 DEF vars, list, Attached
    <2> QED
      BY <1>1, <2>2, <2>3, <2>4, <2>5, <2>6, <2>7
         DEF Next, EmitStep, WritingStep, ClosingStep
  <1>2. IInv /\ [Next]_vars => [Step]_vars
    BY <1>1
  <1> QED
    BY <1>2, Invariance, PTL DEF Spec, DisabledAfterStreak
===============================================================================
