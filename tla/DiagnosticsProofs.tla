--------------------------- MODULE DiagnosticsProofs ---------------------------
(***************************************************************************)
(* Proofs about Diagnostics: its type invariant and the three invariants   *)
(* that the runs of LazyExporter and RuntimeLifecycle check on instances.  *)
(*                                                                         *)
(* The counters are exact because a thread that has read one holds the     *)
(* lock until it has stored it; the lines are rationed because the limiter *)
(* looks at the time of the last admitted line, under the same lock, and   *)
(* no line is printed before the time it was admitted for.  TopInv says    *)
(* both of every call a thread is in, LastInv relates the limiter's memory *)
(* to the number of lines, PendingInv says that an admitted line is        *)
(* printed or about to be, and InheritedInv that a copied process is in no *)
(* call when its diagnostics are restarted.                                *)
(***************************************************************************)
EXTENDS Diagnostics, SequenceTheorems, TLAPS

\* What a call reports is what it counts, and only a report goes on to the clock.
CallInv(c) ==
    /\ c.op = None => c.name \in {"count"} \X Counters /\ c.pc \in {"count", "add", "listen"}
    /\ c.op # None => c.name = Failure(c.op)

\* A call that waits for an inner one has its listeners behind it.
Waiting == {c \in Calls : c.pc = "clock" /\ CallInv(c)}

ShapeInv == \A t \in Threads : stack[t] # <<>> => Tail(stack[t]) \in Seq(Waiting)

\* A call that has read holds the lock, and what it has read is current; the time
\* it has read is not ahead, and its line is one that was admitted.
TopInv ==
    \A t \in Threads : stack[t] # <<>> =>
        /\ CallInv(Top(t))
        /\ Top(t).pc \in {"add", "decide"} => lock = t
        /\ Top(t).pc = "add" => Top(t).seen = counts[Top(t).name]
        /\ Top(t).pc = "decide" => Top(t).seen = last[Top(t).op]
        /\ Top(t).pc \in {"limit", "decide"} =>
              lines.since <= Top(t).now /\ Top(t).now <= clock
        /\ Top(t).pc = "print" => Top(t).line \in 1..lines.admitted[Top(t).op]

InheritedInv == inherited => \A t \in Threads : stack[t] = <<>>

\* The time of the last line is that of a line that was due.
LastInv ==
    /\ lines.since <= clock
    /\ \A o \in Operations :
          /\ lines.printed[o] \subseteq 1..lines.admitted[o]
          /\ lines.admitted[o] = 0 => last[o] = None
          /\ lines.admitted[o] > 0 =>
                /\ last[o] \in Nat
                /\ Earliest(lines.admitted[o]) <= last[o] /\ last[o] <= clock

\* Some thread is about to print a line of o.
Printing(o) ==
    \E t \in Threads : stack[t] # <<>> /\ Top(t).pc = "print" /\ Top(t).op = o

PendingInv ==
    ~inherited => \A o \in Operations :
        lines.admitted[o] > 0 => lines.printed[o] # {} \/ Printing(o)

\* A failure that was counted is under way, or a line has been admitted.
FirstAdmitted ==
    \A o \in Operations :
        counts[Failure(o)] > 0 /\ ~inherited /\ ~Undecided(o) => lines.admitted[o] > 0

DiagInv ==
    /\ DiagTypeOK
    /\ ShapeInv
    /\ TopInv
    /\ InheritedInv
    /\ LastInv
    /\ PendingInv
    /\ CountsExact
    /\ FirstAdmitted

\* The operations whose reports are among some calls.
OpsIn(s) == {s[i].op : i \in 1..Len(s)}
-------------------------------------------------------------------------------
(* Stacks *)

\* What is below the innermost call, and how it is numbered.
LEMMA TailFacts ==
    ASSUME NEW S, NEW s \in Seq(S), s # <<>>
    PROVE  /\ Len(s) \in Nat \ {0}
           /\ Head(s) = s[1] /\ Head(s) \in S
           /\ Tail(s) \in Seq(S) /\ Len(Tail(s)) = Len(s) - 1
           /\ \A i \in 1..Len(Tail(s)) : Tail(s)[i] = s[i + 1]
  BY HeadTailProperties, EmptySeq

\* A call in front of others.
LEMMA PushFacts ==
    ASSUME NEW S, NEW s \in Seq(S), NEW x \in S
    PROVE  /\ <<x>> \o s \in Seq(S)
           /\ Len(<<x>> \o s) = Len(s) + 1
           /\ (<<x>> \o s)[1] = x
           /\ \A i \in 1..Len(s) : (<<x>> \o s)[i + 1] = s[i]
  <1>1. <<x>> \in Seq(S) /\ Len(<<x>>) = 1 /\ <<x>>[1] = x
    OBVIOUS
  <1>2. <<x>> \o s \in Seq(S) /\ Len(<<x>> \o s) = Len(s) + 1
    BY <1>1, ConcatProperties
  <1>3. \A i \in 1..(Len(s) + 1) :
           (<<x>> \o s)[i] = IF i <= 1 THEN <<x>>[i] ELSE s[i - 1]
    BY <1>1, ConcatProperties
  <1>4. Len(s) \in Nat
    BY LenProperties
  <1>5. (<<x>> \o s)[1] = x
    BY <1>1, <1>3, <1>4
  <1>6. ASSUME NEW i \in 1..Len(s) PROVE (<<x>> \o s)[i + 1] = s[i]
    BY <1>3, <1>4, <1>6
  <1> QED
    BY <1>2, <1>5, <1>6

\* A call in front of others is their head, and counts with them.
LEMMA FrontFacts ==
    ASSUME NEW S, NEW s \in Seq(S), NEW x \in S
    PROVE  /\ <<x>> \o s \in Seq(S) /\ <<x>> \o s # <<>>
           /\ Head(<<x>> \o s) = x /\ Tail(<<x>> \o s) = s
           /\ OpsIn(<<x>> \o s) = {x.op} \cup OpsIn(s)
  <1> DEFINE l == <<x>> \o s
  <1>1. /\ l \in Seq(S) /\ Len(l) = Len(s) + 1
        /\ l[1] = x /\ \A i \in 1..Len(s) : l[i + 1] = s[i]
    BY PushFacts
  <1>2. Len(s) \in Nat
    BY LenProperties
  <1> HIDE DEF l
  <1>3. l # <<>>
    BY <1>1, <1>2, EmptySeq
  <1>4. Head(l) = x /\ Tail(l) \in Seq(S) /\ Len(Tail(l)) = Len(s)
    BY <1>1, <1>2, <1>3, TailFacts
  <1>5. \A i \in 1..Len(s) : Tail(l)[i] = s[i]
    BY <1>1, <1>3, <1>4, TailFacts
  <1>6. Tail(l) = s
    BY <1>4, <1>5, SeqEqual
  <1>7. OpsIn(l) = {x.op} \cup OpsIn(s)
    <2>1. \A o : o \in OpsIn(l) <=> \E i \in 1..(Len(s) + 1) : o = l[i].op
      BY <1>1 DEF OpsIn
    <2>2. \A o : o \in OpsIn(s) <=> \E i \in 1..Len(s) : o = s[i].op
      BY DEF OpsIn
    <2>3. ASSUME NEW o \in OpsIn(l) PROVE o \in {x.op} \cup OpsIn(s)
      <3>1. PICK i \in 1..(Len(s) + 1) : o = l[i].op
        BY <2>1
      <3>2. CASE i = 1
        BY <3>1, <3>2, <1>1
      <3>3. CASE i # 1
        <4>1. i - 1 \in 1..Len(s) /\ (i - 1) + 1 = i
          BY <3>3, <1>2
        <4> QED
          BY <3>1, <4>1, <1>1, <2>2
      <3> QED
        BY <3>2, <3>3
    <2>4. x.op \in OpsIn(l)
      BY <1>1, <1>2, <2>1
    <2>5. ASSUME NEW o \in OpsIn(s) PROVE o \in OpsIn(l)
      <3>1. PICK i \in 1..Len(s) : o = s[i].op
        BY <2>2
      <3>2. i + 1 \in 1..(Len(s) + 1) /\ o = l[i + 1].op
        BY <3>1, <1>1, <1>2
      <3> QED
        BY <3>2, <2>1
    <2> QED
      BY <2>3, <2>4, <2>5
  <1> QED
    BY <1>1, <1>3, <1>4, <1>6, <1>7 DEF l

\* A list of calls is its head in front of its tail.
LEMMA SplitFacts ==
    ASSUME NEW S, NEW s \in Seq(S), s # <<>>
    PROVE  Head(s) \in S /\ Tail(s) \in Seq(S) /\ s = <<Head(s)>> \o Tail(s)
  <1>1. Head(s) \in S /\ Tail(s) \in Seq(S)
    BY TailFacts
  <1> DEFINE l == <<Head(s)>> \o Tail(s)
  <1>2. /\ l \in Seq(S) /\ Len(l) = Len(Tail(s)) + 1
        /\ l[1] = Head(s) /\ \A i \in 1..Len(Tail(s)) : l[i + 1] = Tail(s)[i]
    BY <1>1, PushFacts
  <1>3. /\ Len(s) \in Nat \ {0} /\ Head(s) = s[1] /\ Len(Tail(s)) = Len(s) - 1
        /\ \A i \in 1..Len(Tail(s)) : Tail(s)[i] = s[i + 1]
    BY TailFacts
  <1> HIDE DEF l
  <1>4. Len(l) = Len(s)
    BY <1>2, <1>3
  <1>5. ASSUME NEW i \in 1..Len(s) PROVE l[i] = s[i]
    <2>1. CASE i = 1
      BY <2>1, <1>2, <1>3
    <2>2. CASE i # 1
      <3>1. i - 1 \in 1..Len(Tail(s)) /\ (i - 1) + 1 = i
        BY <2>2, <1>3
      <3> QED
        BY <3>1, <1>2, <1>3
    <2> QED
      BY <2>1, <2>2
  <1>6. l = s
    BY <1>2, <1>4, <1>5, SeqEqual
  <1> QED
    BY <1>1, <1>6 DEF l
-------------------------------------------------------------------------------
(* Steps of one thread *)

\* Different names are counted apart.
LEMMA NameFacts ==
    /\ \A c \in Counters : Count(c) \in Names
    /\ \A o \in Operations : Failure(o) \in Names
    /\ \A c, o : Count(c) # Failure(o)
    /\ \A o, p : Failure(o) = Failure(p) => o = p
  BY DEF Names, Count, Failure

\* The calls below the innermost one are calls.
LEMMA WaitingFacts == Seq(Waiting) \subseteq Seq(Calls)
  BY SeqMonotonic DEF Waiting

\* No line is taken back.
Later ==
    /\ clock' = clock /\ lines'.since = lines.since
    /\ \A o \in Operations :
          lines'.admitted[o] \in Nat /\ lines.admitted[o] <= lines'.admitted[o]

\* What the others have read stays true: a thread with the lock excludes them.
Excludes(t) ==
    /\ lock \in {None, t} \/ UNCHANGED <<lock, counts, last>>
    /\ UNCHANGED <<clock, lines>> \/ Later

\* The call of a thread keeps its time and its line.
LEMMA TimesKept ==
    ASSUME DiagTypeOK, TopInv, NEW u \in Threads, stack[u] # <<>>,
           UNCHANGED <<clock, lines>> \/ Later
    PROVE  /\ Top(u).pc \in {"limit", "decide"} =>
                 lines'.since <= Top(u).now /\ Top(u).now <= clock'
           /\ Top(u).pc = "print" => Top(u).line \in 1..lines'.admitted[Top(u).op]
  <1>1. Top(u) \in Calls
    BY SplitFacts DEF DiagTypeOK, Top
  <1>2. /\ Top(u).pc \in {"limit", "decide"} =>
              lines.since <= Top(u).now /\ Top(u).now <= clock
        /\ Top(u).pc = "print" => Top(u).line \in 1..lines.admitted[Top(u).op]
        /\ CallInv(Top(u))
    BY DEF TopInv
  <1>3. Top(u).pc = "print" => Top(u).op \in Operations
    BY <1>1, <1>2 DEF Calls, CallInv
  <1>4. \A o \in Operations : lines.admitted[o] \in Nat
    BY DEF DiagTypeOK, Lines
  <1>5. CASE UNCHANGED <<clock, lines>>
    BY <1>2, <1>5
  <1>6. CASE Later
    BY <1>2, <1>3, <1>4, <1>6 DEF Later
  <1> QED
    BY <1>5, <1>6

\* A thread gets c as its innermost call, in front of calls that wait.
LEMMA FrontStep ==
    ASSUME DiagTypeOK, ShapeInv, TopInv, NEW t \in Threads, NEW s \in Seq(Waiting),
           NEW c \in Calls, CallInv(c), stack' = [stack EXCEPT ![t] = <<c>> \o s],
           c.pc \in {"add", "decide"} => lock' = t,
           c.pc = "add" => c.seen = counts'[c.name],
           c.pc = "decide" => c.seen = last'[c.op],
           c.pc \in {"limit", "decide"} => lines'.since <= c.now /\ c.now <= clock',
           c.pc = "print" => c.line \in 1..lines'.admitted[c.op],
           Excludes(t)
    PROVE  stack' \in [Threads -> Seq(Calls)] /\ ShapeInv' /\ TopInv'
  <1>1. s \in Seq(Calls)
    BY WaitingFacts
  <1>2. /\ <<c>> \o s \in Seq(Calls) /\ <<c>> \o s # <<>>
        /\ Head(<<c>> \o s) = c /\ Tail(<<c>> \o s) = s
    BY <1>1, FrontFacts
  <1>3. /\ stack'[t] \in Seq(Calls) /\ Head(stack'[t]) = c /\ Tail(stack'[t]) = s
        /\ \A u \in Threads \ {t} : stack'[u] = stack[u]
        /\ stack' \in [Threads -> Seq(Calls)]
    BY <1>2 DEF DiagTypeOK
  <1>4. ShapeInv'
    BY <1>3 DEF ShapeInv
  <1>5. TopInv'
    <2> SUFFICES ASSUME NEW u \in Threads, stack'[u] # <<>>
                 PROVE  LET h == Head(stack'[u])
                        IN  /\ CallInv(h)
                            /\ h.pc \in {"add", "decide"} => lock' = u
                            /\ h.pc = "add" => h.seen = counts'[h.name]
                            /\ h.pc = "decide" => h.seen = last'[h.op]
                            /\ h.pc \in {"limit", "decide"} =>
                                  lines'.since <= h.now /\ h.now <= clock'
                            /\ h.pc = "print" => h.line \in 1..lines'.admitted[h.op]
      BY DEF TopInv, Top, CallInv
    <2>1. CASE u = t
      BY <2>1, <1>3
    <2>2. CASE u # t
      <3>1. stack'[u] = stack[u] /\ stack[u] # <<>>
        BY <2>2, <1>3
      <3>2. /\ CallInv(Top(u))
            /\ Top(u).pc \in {"add", "decide"} => lock = u
            /\ Top(u).pc = "add" => Top(u).seen = counts[Top(u).name]
            /\ Top(u).pc = "decide" => Top(u).seen = last[Top(u).op]
        BY <3>1 DEF TopInv
      <3>3. lock = u => UNCHANGED <<lock, counts, last>>
        BY <2>2, DiagnosticsAssumption DEF Excludes
      <3>4. /\ Top(u).pc \in {"limit", "decide"} =>
                  lines'.since <= Top(u).now /\ Top(u).now <= clock'
            /\ Top(u).pc = "print" => Top(u).line \in 1..lines'.admitted[Top(u).op]
        BY <3>1, TimesKept DEF Excludes
      <3> QED
        BY <3>1, <3>2, <3>3, <3>4 DEF Top
    <2> QED
      BY <2>1, <2>2
  <1> QED
    BY <1>3, <1>4, <1>5

\* A thread returns to the calls that wait.
LEMMA ReturnStep ==
    ASSUME DiagTypeOK, ShapeInv, TopInv, NEW t \in Threads, NEW s \in Seq(Waiting),
           stack' = [stack EXCEPT ![t] = s], Excludes(t)
    PROVE  stack' \in [Threads -> Seq(Calls)] /\ ShapeInv' /\ TopInv'
  <1>1. s \in Seq(Calls)
    BY WaitingFacts
  <1>2. /\ stack'[t] = s
        /\ \A u \in Threads \ {t} : stack'[u] = stack[u]
        /\ stack' \in [Threads -> Seq(Calls)]
    BY <1>1 DEF DiagTypeOK
  <1>3. s # <<>> => Head(s) \in Waiting /\ Tail(s) \in Seq(Waiting)
    BY TailFacts
  <1>4. ShapeInv'
    BY <1>2, <1>3 DEF ShapeInv
  <1>5. TopInv'
    <2> SUFFICES ASSUME NEW u \in Threads, stack'[u] # <<>>
                 PROVE  LET h == Head(stack'[u])
                        IN  /\ CallInv(h)
                            /\ h.pc \in {"add", "decide"} => lock' = u
                            /\ h.pc = "add" => h.seen = counts'[h.name]
                            /\ h.pc = "decide" => h.seen = last'[h.op]
                            /\ h.pc \in {"limit", "decide"} =>
                                  lines'.since <= h.now /\ h.now <= clock'
                            /\ h.pc = "print" => h.line \in 1..lines'.admitted[h.op]
      BY DEF TopInv, Top, CallInv
    <2>1. CASE u = t
      BY <2>1, <1>2, <1>3 DEF Waiting
    <2>2. CASE u # t
      <3>1. stack'[u] = stack[u] /\ stack[u] # <<>>
        BY <2>2, <1>2
      <3>2. /\ CallInv(Top(u))
            /\ Top(u).pc \in {"add", "decide"} => lock = u
            /\ Top(u).pc = "add" => Top(u).seen = counts[Top(u).name]
            /\ Top(u).pc = "decide" => Top(u).seen = last[Top(u).op]
        BY <3>1 DEF TopInv
      <3>3. lock = u => UNCHANGED <<lock, counts, last>>
        BY <2>2, DiagnosticsAssumption DEF Excludes
      <3>4. /\ Top(u).pc \in {"limit", "decide"} =>
                  lines'.since <= Top(u).now /\ Top(u).now <= clock'
            /\ Top(u).pc = "print" => Top(u).line \in 1..lines'.admitted[Top(u).op]
        BY <3>1, TimesKept DEF Excludes
      <3> QED
        BY <3>1, <3>2, <3>3, <3>4 DEF Top
    <2> QED
      BY <2>1, <2>2
  <1> QED
    BY <1>2, <1>4, <1>5

\* A report that is under way is among the calls of some thread.
LEMMA UndecidedFacts ==
    \A o : Undecided(o) <=> \E t \in Threads : o \in OpsIn(stack[t])
  BY DEF Undecided, OpsIn

\* A thread that changes only its own calls, and drops none of their reports
\* except those of gone, leaves the other reports under way.
LEMMA StillUndecided ==
    ASSUME DiagTypeOK, NEW t \in Threads, NEW s, NEW gone,
           stack' = [stack EXCEPT ![t] = s], OpsIn(stack[t]) \subseteq OpsIn(s) \cup gone
    PROVE  /\ \A o : Undecided(o) => Undecided(o)' \/ o \in gone
           /\ \A o \in OpsIn(s) : Undecided(o)'
  <1>1. stack'[t] = s /\ \A u \in Threads \ {t} : stack'[u] = stack[u]
    BY DEF DiagTypeOK
  <1>2. \A o : Undecided(o)' <=> \E u \in Threads : o \in OpsIn(stack'[u])
    BY DEF Undecided, OpsIn
  <1> QED
    BY <1>1, <1>2, UndecidedFacts

\* What is known of a thread that is in a call.
LEMMA InCall ==
    ASSUME DiagInv, NEW t \in Threads, stack[t] # <<>>
    PROVE  /\ Top(t) \in Calls /\ CallInv(Top(t))
           /\ Tail(stack[t]) \in Seq(Waiting)
           /\ OpsIn(stack[t]) = {Top(t).op} \cup OpsIn(Tail(stack[t]))
           /\ ~inherited
  <1>1. stack[t] \in Seq(Calls)
    BY DEF DiagInv, DiagTypeOK
  <1>2. /\ Top(t) \in Calls /\ Tail(stack[t]) \in Seq(Calls)
        /\ stack[t] = <<Top(t)>> \o Tail(stack[t])
    BY <1>1, SplitFacts DEF Top
  <1>3. OpsIn(stack[t]) = {Top(t).op} \cup OpsIn(Tail(stack[t]))
    BY <1>2, FrontFacts
  <1> QED
    BY <1>2, <1>3 DEF DiagInv, TopInv, ShapeInv, InheritedInv

\* A thread that is not about to print leaves the lines of the others.
LEMMA StillPrinting ==
    ASSUME DiagTypeOK, NEW t \in Threads, NEW s, stack' = [stack EXCEPT ![t] = s],
           stack[t] = <<>> \/ Top(t).pc # "print"
    PROVE  \A o : Printing(o) => Printing(o)'
  <1>1. \A u \in Threads \ {t} : stack'[u] = stack[u]
    BY DEF DiagTypeOK
  <1> QED
    BY <1>1 DEF Printing, Top

\* While a report stays under way nothing has to have been shown.
LEMMA ShownStep ==
    ASSUME FirstAdmitted, PendingInv, UNCHANGED <<counts, inherited, lines>>,
           \A o : Undecided(o) => Undecided(o)',
           \A o : Printing(o) => Printing(o)'
    PROVE  FirstAdmitted' /\ PendingInv'
  BY DEF FirstAdmitted, PendingInv

\* The n-th line is due no later than one that comes after it.
LEMMA EarliestFacts ==
    ASSUME lines \in Lines, NEW m \in Nat, NEW n \in Nat, m <= n
    PROVE  /\ Earliest(m) \in Int /\ Earliest(n) \in Int
           /\ Earliest(m) <= Earliest(n)
           /\ Earliest(n + 1) = Earliest(n) + Interval
           /\ Earliest(1) = lines.since
  <1>1. lines.since \in Nat /\ Interval \in Nat
    BY DiagnosticsAssumption DEF Lines
  <1>2. (n - m) * Interval >= 0 /\ (n - m) \in Nat
    BY <1>1
  <1>3. (n - 1) * Interval = (m - 1) * Interval + (n - m) * Interval
    BY <1>1
  <1>4. ((n + 1) - 1) * Interval = (n - 1) * Interval + Interval
    BY <1>1
  <1>5. (1 - 1) * Interval = 0
    BY <1>1
  <1>6. (m - 1) * Interval \in Int /\ (n - 1) * Interval \in Int /\ (n - m) * Interval \in Int
    BY <1>1
  <1> QED
    BY <1>1, <1>2, <1>3, <1>4, <1>5, <1>6 DEF Earliest

\* The lines that were printed were due.
LEMMA Rationed == DiagInv => LinesRationed
  <1> SUFFICES ASSUME DiagInv, NEW o \in Operations, NEW n \in lines.printed[o]
               PROVE  Earliest(n) <= clock
    BY DEF LinesRationed
  <1>1. lines \in Lines /\ clock \in Nat /\ lines.admitted[o] \in Nat
    BY DEF DiagInv, DiagTypeOK, Lines
  <1>2. n \in 1..lines.admitted[o]
    BY DEF DiagInv, LastInv
  <1>3. lines.admitted[o] > 0 /\ n \in Nat /\ n <= lines.admitted[o]
    BY <1>1, <1>2
  <1>4. last[o] \in Nat /\ Earliest(lines.admitted[o]) <= last[o] /\ last[o] <= clock
    BY <1>3 DEF DiagInv, LastInv
  <1>5. /\ Earliest(n) \in Int /\ Earliest(lines.admitted[o]) \in Int
        /\ Earliest(n) <= Earliest(lines.admitted[o])
    BY <1>1, <1>3, EarliestFacts
  <1> QED
    BY <1>1, <1>4, <1>5

\* A line that is about to be printed belongs to a report under way.
LEMMA ShownFacts == DiagInv => FirstFailureShown
  <1> SUFFICES ASSUME DiagInv, NEW o \in Operations, counts[Failure(o)] > 0, ~inherited,
                      ~Undecided(o)
               PROVE  lines.printed[o] # {}
    BY DEF FirstFailureShown
  <1>1. lines.admitted[o] > 0
    BY DEF DiagInv, FirstAdmitted
  <1>2. ~Printing(o)
    <2> SUFFICES ASSUME NEW t \in Threads, stack[t] # <<>>, Top(t).op = o
                 PROVE  FALSE
      BY DEF Printing
    <2>1. OpsIn(stack[t]) = {o} \cup OpsIn(Tail(stack[t]))
      BY InCall
    <2> QED
      BY <2>1, UndecidedFacts
  <1> QED
    BY <1>1, <1>2 DEF DiagInv, PendingInv

\* Nothing changes.
LEMMA StutterInv == DiagInv /\ UNCHANGED diagVars => DiagInv'
  BY DEF diagVars, DiagInv, DiagTypeOK, ShapeInv, TopInv, Top, InheritedInv, LastInv,
     Earliest, Printing, PendingInv, CountsExact, FirstAdmitted, Undecided
-------------------------------------------------------------------------------
(* The actions *)

LEMMA InitInv == DiagInit => DiagInv
  <1> SUFFICES ASSUME DiagInit PROVE DiagInv
    OBVIOUS
  <1>1. DiagTypeOK
    <2>1. <<>> \in Seq(Calls) /\ NoLines(0) \in Lines
      BY EmptySeq DEF NoLines, Lines
    <2> QED
      BY <2>1 DEF DiagInit, DiagTypeOK
  <1>2. ShapeInv /\ TopInv /\ InheritedInv /\ CountsExact
    BY DEF DiagInit, ShapeInv, TopInv, InheritedInv, CountsExact
  <1>3. LastInv /\ PendingInv
    BY DEF DiagInit, NoLines, LastInv, PendingInv
  <1>4. FirstAdmitted
    BY NameFacts DEF DiagInit, FirstAdmitted
  <1> QED
    BY <1>1, <1>2, <1>3, <1>4 DEF DiagInv

\* A call that does not change the counters or the limiter's memory goes on.
LEMMA QuietStep ==
    ASSUME DiagInv, UNCHANGED <<clock, alive, inherited, listening, counts, last,
                                made, lines>>,
           lock' \in Threads \cup {None},
           stack' \in [Threads -> Seq(Calls)], ShapeInv', TopInv', InheritedInv',
           \A o : Undecided(o) => Undecided(o)' \/ o \notin Operations,
           \A o : Printing(o) => Printing(o)'
    PROVE  DiagInv'
  <1>1. DiagTypeOK' /\ LastInv' /\ CountsExact'
    BY DEF DiagInv, DiagTypeOK, LastInv, Earliest, CountsExact
  <1>2. FirstAdmitted' /\ PendingInv'
    BY DEF DiagInv, FirstAdmitted, PendingInv
  <1> QED
    BY <1>1, <1>2 DEF DiagInv

LEMMA EnterInv ==
    ASSUME DiagInv, ~inherited, NEW t \in Threads, NEW c \in Calls, CallInv(c),
           c.pc = "count", Enter(t, c)
    PROVE  DiagInv'
  <1>1. stack[t] = <<>> /\ stack' = [stack EXCEPT ![t] = <<c>>]
        /\ UNCHANGED <<clock, alive, inherited, listening, lock, counts, last,
                       made, lines>>
    BY DEF Enter, Idle
  <1>2. <<>> \in Seq(Waiting) /\ <<c>> \o <<>> = <<c>>
    BY EmptySeq, ConcatEmptySeq
  <1>3. stack' \in [Threads -> Seq(Calls)] /\ ShapeInv' /\ TopInv'
    <2>1. stack' = [stack EXCEPT ![t] = <<c>> \o <<>>] /\ Excludes(t)
      BY <1>1, <1>2 DEF Excludes
    <2> QED
      BY <1>2, <2>1, FrontStep DEF DiagInv
  <1>4. OpsIn(stack[t]) \subseteq OpsIn(<<c>>) \cup {}
    BY <1>1 DEF OpsIn
  <1>5. \A o : Undecided(o) => Undecided(o)'
    BY <1>1, <1>4, StillUndecided DEF DiagInv
  <1> QED
    BY <1>1, <1>3, <1>5, StillPrinting, QuietStep DEF DiagInv, DiagTypeOK, InheritedInv

LEMMA LockAndReadInv ==
    ASSUME DiagInv, NEW t \in Threads, LockAndRead(t)
    PROVE  DiagInv'
  <1> DEFINE c == [Top(t) EXCEPT !.pc = "add", !.seen = counts[Top(t).name]]
             s == Tail(stack[t])
  <1>1. /\ stack[t] # <<>> /\ Top(t).pc = "count" /\ lock = None /\ lock' = t
        /\ stack' = [stack EXCEPT ![t] = <<c>> \o s]
        /\ UNCHANGED <<clock, alive, inherited, listening, counts, last, made,
                       lines>>
    BY DEF LockAndRead, At, Idle, LockFree, Becomes
  <1>2. /\ Top(t) \in Calls /\ CallInv(Top(t)) /\ s \in Seq(Waiting)
        /\ OpsIn(stack[t]) = {Top(t).op} \cup OpsIn(s) /\ ~inherited
    BY <1>1, InCall
  <1>3. counts[Top(t).name] \in Nat
    BY <1>2 DEF DiagInv, DiagTypeOK, Calls
  <1>4. /\ c \in Calls /\ c.op = Top(t).op /\ c.name = Top(t).name /\ c.pc = "add"
        /\ c.seen = counts'[c.name]
    BY <1>1, <1>2, <1>3 DEF Calls, CallPc
  <1>5. CallInv(c)
    BY <1>2, <1>4 DEF CallInv
  <1> HIDE DEF c, s
  <1>6. stack' \in [Threads -> Seq(Calls)] /\ ShapeInv' /\ TopInv'
    BY <1>1, <1>2, <1>4, <1>5, FrontStep DEF DiagInv, Excludes
  <1>7. OpsIn(<<c>> \o s) = {c.op} \cup OpsIn(s)
    BY <1>2, <1>4, FrontFacts, WaitingFacts
  <1>8. \A o : Undecided(o) => Undecided(o)'
    <2>1. OpsIn(stack[t]) \subseteq OpsIn(<<c>> \o s) \cup {}
      BY <1>2, <1>4, <1>7
    <2> QED
      BY <2>1, <1>1, StillUndecided DEF DiagInv
  <1>9. InheritedInv'
    BY <1>1, <1>2 DEF InheritedInv
  <1> QED
    BY <1>1, <1>6, <1>8, <1>9, StillPrinting, QuietStep DEF DiagInv, DiagTypeOK

LEMMA AddInv ==
    ASSUME DiagInv, NEW t \in Threads, Add(t)
    PROVE  DiagInv'
  <1> DEFINE c == [Top(t) EXCEPT !.pc = "listen"]
             s == Tail(stack[t])
             n == Top(t).name
  <1>1. /\ stack[t] # <<>> /\ Top(t).pc = "add" /\ lock' = None
        /\ counts' = [counts EXCEPT ![n] = Top(t).seen + 1]
        /\ made' = [made EXCEPT ![n] = @ + 1]
        /\ stack' = [stack EXCEPT ![t] = <<c>> \o s]
        /\ UNCHANGED <<clock, alive, inherited, listening, last, lines>>
    BY DEF Add, At, Idle, Becomes, LockAfterAdd
  <1>2. /\ Top(t) \in Calls /\ CallInv(Top(t)) /\ s \in Seq(Waiting)
        /\ OpsIn(stack[t]) = {Top(t).op} \cup OpsIn(s) /\ ~inherited
    BY <1>1, InCall
  <1>3. n \in Names /\ Top(t).seen = counts[n] /\ lock = t
    BY <1>1, <1>2 DEF Calls, DiagInv, TopInv
  <1>4. counts' \in [Names -> Nat] /\ made' \in [Names -> Nat] /\ CountsExact'
    BY <1>1, <1>3 DEF DiagInv, DiagTypeOK, CountsExact
  <1>5. c \in Calls /\ c.op = Top(t).op /\ c.name = n /\ c.pc = "listen"
    BY <1>2 DEF Calls, CallPc
  <1>6. CallInv(c)
    BY <1>1, <1>2, <1>5 DEF CallInv
  <1>7. \A m \in Names \ {n} : counts'[m] = counts[m]
    BY <1>1 DEF DiagInv, DiagTypeOK
  <1>8. n # Failure(Top(t).op) => Top(t).op = None
    BY <1>2 DEF CallInv
  <1>9. Top(t).op = None => n \in {"count"} \X Counters
    BY <1>2 DEF CallInv
  <1> HIDE DEF c, s, n
  <1>10. stack' \in [Threads -> Seq(Calls)] /\ ShapeInv' /\ TopInv'
    BY <1>1, <1>2, <1>3, <1>5, <1>6, FrontStep DEF DiagInv, Excludes
  <1>11. OpsIn(<<c>> \o s) = {c.op} \cup OpsIn(s)
    BY <1>2, <1>5, FrontFacts, WaitingFacts
  <1>12. \A o : Undecided(o) \/ o = Top(t).op => Undecided(o)'
    <2>1. OpsIn(stack[t]) \subseteq OpsIn(<<c>> \o s) \cup {} /\ Top(t).op \in OpsIn(<<c>> \o s)
      BY <1>2, <1>5, <1>11
    <2> QED
      BY <2>1, <1>1, StillUndecided DEF DiagInv
  <1>13. FirstAdmitted'
    <2> SUFFICES ASSUME NEW o \in Operations, counts'[Failure(o)] > 0, ~Undecided(o)'
                 PROVE  lines'.admitted[o] > 0
      BY DEF FirstAdmitted, Failure
    <2>1. Failure(o) # n
      <3>1. CASE Top(t).op = None
        BY <3>1, <1>9 DEF Failure
      <3>2. CASE Top(t).op # None
        BY <3>2, <1>8, <1>12, NameFacts
      <3> QED
        BY <3>1, <3>2
    <2>2. counts[Failure(o)] > 0
      BY <2>1, <1>7, NameFacts
    <2>3. ~Undecided(o)
      BY <1>12
    <2> QED
      BY <2>2, <2>3, <1>1, <1>2 DEF DiagInv, FirstAdmitted
  <1>14. LastInv' /\ InheritedInv' /\ PendingInv'
    <2>1. \A o : Printing(o) => Printing(o)'
      BY <1>1, StillPrinting DEF DiagInv
    <2> QED
      BY <1>1, <1>2, <2>1 DEF DiagInv, LastInv, Earliest, InheritedInv, PendingInv
  <1>15. DiagTypeOK'
    BY <1>1, <1>4, <1>10 DEF DiagInv, DiagTypeOK
  <1> QED
    BY <1>4, <1>10, <1>13, <1>14, <1>15 DEF DiagInv

\* The listener has returned: what is left are calls that wait.
LEMMA AfterFacts ==
    ASSUME DiagInv, NEW t \in Threads, stack[t] # <<>>, Top(t).pc = "listen"
    PROVE  /\ AfterListener(t) \in Seq(Waiting)
           /\ OpsIn(stack[t]) \subseteq OpsIn(AfterListener(t)) \cup {None}
  <1> DEFINE c == [Top(t) EXCEPT !.pc = "clock"]
             s == Tail(stack[t])
  <1>1. /\ Top(t) \in Calls /\ CallInv(Top(t)) /\ s \in Seq(Waiting)
        /\ OpsIn(stack[t]) = {Top(t).op} \cup OpsIn(s)
    BY InCall
  <1>2. CASE Top(t).op = None
    BY <1>1, <1>2 DEF AfterListener
  <1>3. CASE Top(t).op # None
    <2>1. c \in Waiting /\ c.op = Top(t).op
      BY <1>1, <1>3 DEF Waiting, CallInv, Calls, CallPc
    <2>2. AfterListener(t) = <<c>> \o s
      BY <1>3 DEF AfterListener
    <2> HIDE DEF c, s
    <2> QED
      BY <1>1, <2>1, <2>2, FrontFacts
  <1> QED
    BY <1>2, <1>3

LEMMA ListenInv ==
    ASSUME DiagInv, NEW t \in Threads, Listen(t)
    PROVE  DiagInv'
  <1>1. /\ stack[t] # <<>> /\ Top(t).pc = "listen"
        /\ stack' = [stack EXCEPT ![t] = AfterListener(t)]
        /\ UNCHANGED <<clock, alive, inherited, listening, lock, counts, last,
                       made, lines>>
    BY DEF Listen, At, Idle
  <1>2. /\ AfterListener(t) \in Seq(Waiting) /\ ~inherited
        /\ OpsIn(stack[t]) \subseteq OpsIn(AfterListener(t)) \cup {None}
    BY <1>1, AfterFacts, InCall
  <1>3. stack' \in [Threads -> Seq(Calls)] /\ ShapeInv' /\ TopInv'
    BY <1>1, <1>2, ReturnStep DEF DiagInv, Excludes
  <1>4. \A o : Undecided(o) => Undecided(o)' \/ o \in {None}
    BY <1>1, <1>2, StillUndecided DEF DiagInv
  <1>5. None \notin Operations /\ InheritedInv'
    BY <1>1, <1>2, DiagnosticsAssumption DEF InheritedInv
  <1> QED
    BY <1>1, <1>3, <1>4, <1>5, StillPrinting, QuietStep DEF DiagInv, DiagTypeOK

LEMMA ListenerFailsInv ==
    ASSUME DiagInv, NEW t \in Threads, ListenerFails(t)
    PROVE  DiagInv'
  <1> DEFINE c == ReportCall(MetricRecord)
             s == AfterListener(t)
  <1>1. /\ stack[t] # <<>> /\ Top(t).pc = "listen"
        /\ stack' = [stack EXCEPT ![t] = <<c>> \o s]
        /\ UNCHANGED <<clock, alive, inherited, listening, lock, counts, last,
                       made, lines>>
    BY DEF ListenerFails, At, Idle
  <1>2. /\ s \in Seq(Waiting) /\ ~inherited
        /\ OpsIn(stack[t]) \subseteq OpsIn(s) \cup {None}
    BY <1>1, AfterFacts, InCall
  <1>3. c \in Calls /\ CallInv(c) /\ c.pc = "count"
    BY NameFacts, DiagnosticsAssumption
       DEF ReportCall, Call, Calls, CallPc, CallInv
  <1> HIDE DEF c, s
  <1>4. stack' \in [Threads -> Seq(Calls)] /\ ShapeInv' /\ TopInv'
    BY <1>1, <1>2, <1>3, FrontStep DEF DiagInv, Excludes
  <1>5. OpsIn(<<c>> \o s) = {c.op} \cup OpsIn(s)
    BY <1>2, <1>3, FrontFacts, WaitingFacts
  <1>6. \A o : Undecided(o) => Undecided(o)' \/ o \in {None}
    <2>1. OpsIn(stack[t]) \subseteq OpsIn(<<c>> \o s) \cup {None}
      BY <1>2, <1>5
    <2> QED
      BY <1>1, <2>1, StillUndecided DEF DiagInv
  <1>7. None \notin Operations /\ InheritedInv'
    BY <1>1, <1>2, DiagnosticsAssumption DEF InheritedInv
  <1> QED
    BY <1>1, <1>4, <1>6, <1>7, StillPrinting, QuietStep DEF DiagInv, DiagTypeOK

LEMMA ReadClockInv ==
    ASSUME DiagInv, NEW t \in Threads, ReadClock(t)
    PROVE  DiagInv'
  <1> DEFINE c == [Top(t) EXCEPT !.pc = "limit", !.now = clock]
             s == Tail(stack[t])
  <1>1. /\ stack[t] # <<>> /\ Top(t).pc = "clock"
        /\ stack' = [stack EXCEPT ![t] = <<c>> \o s]
        /\ UNCHANGED <<clock, alive, inherited, listening, lock, counts, last,
                       made, lines>>
    BY DEF ReadClock, At, Idle, Becomes
  <1>2. /\ Top(t) \in Calls /\ CallInv(Top(t)) /\ s \in Seq(Waiting)
        /\ OpsIn(stack[t]) = {Top(t).op} \cup OpsIn(s) /\ ~inherited
    BY <1>1, InCall
  <1>3. /\ c \in Calls /\ c.op = Top(t).op /\ c.name = Top(t).name /\ c.pc = "limit"
        /\ lines'.since <= c.now /\ c.now <= clock'
    <2>1. clock \in Nat /\ lines.since <= clock
      BY DEF DiagInv, DiagTypeOK, LastInv
    <2>2. c \in Calls /\ c.now = clock
      BY <1>2, <2>1 DEF Calls, CallPc
    <2>3. c.op = Top(t).op /\ c.name = Top(t).name /\ c.pc = "limit"
      BY <1>2 DEF Calls
    <2> QED
      BY <1>1, <2>1, <2>2, <2>3
  <1>4. CallInv(c)
    BY <1>1, <1>2, <1>3 DEF CallInv
  <1> HIDE DEF c, s
  <1>5. stack' \in [Threads -> Seq(Calls)] /\ ShapeInv' /\ TopInv'
    BY <1>1, <1>2, <1>3, <1>4, FrontStep DEF DiagInv, Excludes
  <1>6. OpsIn(<<c>> \o s) = {c.op} \cup OpsIn(s)
    BY <1>2, <1>3, FrontFacts, WaitingFacts
  <1>7. \A o : Undecided(o) => Undecided(o)'
    <2>1. OpsIn(stack[t]) \subseteq OpsIn(<<c>> \o s) \cup {}
      BY <1>2, <1>3, <1>6
    <2> QED
      BY <1>1, <2>1, StillUndecided DEF DiagInv
  <1>8. InheritedInv'
    BY <1>1, <1>2 DEF InheritedInv
  <1> QED
    BY <1>1, <1>5, <1>7, <1>8, StillPrinting, QuietStep DEF DiagInv, DiagTypeOK

LEMMA LockAndLookInv ==
    ASSUME DiagInv, NEW t \in Threads, LockAndLook(t)
    PROVE  DiagInv'
  <1> DEFINE c == [Top(t) EXCEPT !.pc = "decide", !.seen = last[Top(t).op]]
             s == Tail(stack[t])
  <1>1. /\ stack[t] # <<>> /\ Top(t).pc = "limit" /\ lock = None /\ lock' = t
        /\ stack' = [stack EXCEPT ![t] = <<c>> \o s]
        /\ UNCHANGED <<clock, alive, inherited, listening, counts, last, made,
                       lines>>
    BY DEF LockAndLook, At, Idle, LockFree, Becomes
  <1>2. /\ Top(t) \in Calls /\ CallInv(Top(t)) /\ s \in Seq(Waiting)
        /\ OpsIn(stack[t]) = {Top(t).op} \cup OpsIn(s) /\ ~inherited
    BY <1>1, InCall
  <1>3. Top(t).op \in Operations
    BY <1>1, <1>2 DEF CallInv, Calls
  <1>4. last[Top(t).op] \in Nat \cup {None}
    BY <1>3 DEF DiagInv, DiagTypeOK
  <1>5. /\ c \in Calls /\ c.op = Top(t).op /\ c.name = Top(t).name /\ c.pc = "decide"
        /\ c.seen = last'[c.op] /\ lines'.since <= c.now /\ c.now <= clock'
    BY <1>1, <1>2, <1>4 DEF Calls, CallPc, DiagInv, TopInv
  <1>6. CallInv(c)
    BY <1>1, <1>2, <1>5 DEF CallInv
  <1> HIDE DEF c, s
  <1>7. stack' \in [Threads -> Seq(Calls)] /\ ShapeInv' /\ TopInv'
    BY <1>1, <1>2, <1>5, <1>6, FrontStep DEF DiagInv, Excludes
  <1>8. OpsIn(<<c>> \o s) = {c.op} \cup OpsIn(s)
    BY <1>2, <1>5, FrontFacts, WaitingFacts
  <1>9. \A o : Undecided(o) => Undecided(o)'
    <2>1. OpsIn(stack[t]) \subseteq OpsIn(<<c>> \o s) \cup {}
      BY <1>2, <1>5, <1>8
    <2> QED
      BY <1>1, <2>1, StillUndecided DEF DiagInv
  <1>10. InheritedInv'
    BY <1>1, <1>2 DEF InheritedInv
  <1> QED
    BY <1>1, <1>7, <1>9, <1>10, StillPrinting, QuietStep DEF DiagInv, DiagTypeOK

\* A line is admitted at a time that is not recent: it was due, and the limiter has
\* its time.
LEMMA AdmitFacts ==
    ASSUME DiagTypeOK, LastInv, NEW o \in Operations, NEW now \in Nat,
           lines.since <= now, now <= clock, clock' = clock,
           ~Recent(now, last[o]), last' = [last EXCEPT ![o] = now],
           lines' = [lines EXCEPT !.admitted[o] = lines.admitted[o] + 1]
    PROVE  /\ LastInv' /\ Later
           /\ last' \in [Operations -> Nat \cup {None}] /\ lines' \in Lines
           /\ lines'.printed = lines.printed
           /\ lines'.admitted[o] = lines.admitted[o] + 1
           /\ \A p \in Operations \ {o} : lines'.admitted[p] = lines.admitted[p]
  <1> DEFINE n == lines.admitted[o]
  <1>1. /\ lines \in Lines /\ n \in Nat /\ lines.since \in Nat
        /\ \A p \in Operations : lines.admitted[p] \in Nat /\ lines.printed[p] \in SUBSET Nat
    BY DEF DiagTypeOK, Lines
  <1>2. /\ lines'.since = lines.since /\ lines'.printed = lines.printed
        /\ lines'.admitted = [lines.admitted EXCEPT ![o] = n + 1]
        /\ lines' \in Lines
    BY <1>1 DEF Lines
  <1>3. /\ lines'.admitted[o] = n + 1
        /\ \A p \in Operations \ {o} : lines'.admitted[p] = lines.admitted[p]
    BY <1>1, <1>2 DEF Lines
  <1>4. /\ last'[o] = now /\ \A p \in Operations \ {o} : last'[p] = last[p]
        /\ last' \in [Operations -> Nat \cup {None}]
    BY DEF DiagTypeOK
  <1>5. \A m : Earliest(m)' = Earliest(m)
    BY <1>2 DEF Earliest
  <1>6. Earliest(n + 1) <= now
    <2>1. CASE n = 0
      BY <1>1, <2>1, EarliestFacts
    <2>2. CASE n > 0
      <3>1. last[o] \in Nat /\ Earliest(n) <= last[o]
        BY <2>2 DEF LastInv
      <3>2. now - last[o] >= Interval /\ Interval \in Nat
        BY <3>1, DiagnosticsAssumption DEF Recent
      <3>3. Earliest(n) \in Int /\ Earliest(n + 1) = Earliest(n) + Interval
        BY <1>1, EarliestFacts
      <3> QED
        BY <3>1, <3>2, <3>3
    <2> QED
      BY <1>1, <2>1, <2>2
  <1> HIDE DEF n
  <1>7. LastInv'
    <2>1. lines'.since <= clock'
      BY <1>2 DEF LastInv
    <2> SUFFICES ASSUME NEW p \in Operations
                 PROVE  /\ lines'.printed[p] \subseteq 1..lines'.admitted[p]
                        /\ lines'.admitted[p] = 0 => last'[p] = None
                        /\ lines'.admitted[p] > 0 =>
                              /\ last'[p] \in Nat
                              /\ Earliest(lines'.admitted[p]) <= last'[p]
                              /\ last'[p] <= clock'
      BY <2>1, <1>5 DEF LastInv
    <2>2. CASE p = o
      <3>1. lines.printed[o] \subseteq 1..n
        BY DEF LastInv, n
      <3>2. lines'.printed[o] \subseteq 1..(n + 1)
        BY <1>1, <1>2, <3>1
      <3>3. lines'.admitted[o] # 0
        BY <1>1, <1>3
      <3> QED
        BY <2>2, <3>2, <3>3, <1>3, <1>4, <1>6
    <2>3. CASE p # o
      BY <2>3, <1>2, <1>3, <1>4 DEF LastInv
    <2> QED
      BY <2>2, <2>3
  <1>8. Later
    BY <1>1, <1>2, <1>3 DEF Later, n
  <1> QED
    BY <1>2, <1>3, <1>4, <1>7, <1>8 DEF n

LEMMA DecideInv ==
    ASSUME DiagInv, NEW t \in Threads, Decide(t)
    PROVE  DiagInv'
  <1> DEFINE o == Top(t).op
             s == Tail(stack[t])
             now == Top(t).now
             line == lines.admitted[o] + 1
             c == [Top(t) EXCEPT !.pc = "print", !.now = 0, !.seen = None, !.line = line]
  <1>1. /\ stack[t] # <<>> /\ Top(t).pc = "decide" /\ lock' = None
        /\ UNCHANGED <<clock, alive, inherited, listening, counts, made>>
    BY DEF Decide, At, Idle
  <1>2. /\ Top(t) \in Calls /\ CallInv(Top(t)) /\ s \in Seq(Waiting)
        /\ OpsIn(stack[t]) = {o} \cup OpsIn(s) /\ ~inherited
    BY <1>1, InCall
  <1>3. /\ o \in Operations /\ now \in Nat /\ Top(t).seen = last[o] /\ lock = t
        /\ lines.since <= now /\ now <= clock
    BY <1>1, <1>2 DEF CallInv, Calls, DiagInv, TopInv
  <1>4. lines.admitted[o] \in Nat
    BY <1>3 DEF DiagInv, DiagTypeOK, Lines
  <1>5. CountsExact' /\ InheritedInv'
    BY <1>1, <1>2 DEF DiagInv, CountsExact, InheritedInv
  <1>6. CASE Recent(now, Top(t).seen)
    <2>1. UNCHANGED <<last, lines>> /\ stack' = [stack EXCEPT ![t] = s]
      BY <1>6 DEF Decide, Return
    <2>2. lines.admitted[o] > 0
      BY <1>3, <1>4, <1>6 DEF Recent, DiagInv, LastInv
    <2> HIDE DEF o, s, now, line, c
    <2>3. stack' \in [Threads -> Seq(Calls)] /\ ShapeInv' /\ TopInv'
      BY <1>1, <1>2, <1>3, <2>1, ReturnStep DEF DiagInv, Excludes
    <2>4. \A p : Undecided(p) => Undecided(p)' \/ p = o
      <3>1. OpsIn(stack[t]) \subseteq OpsIn(s) \cup {o}
        BY <1>2
      <3>2. \A p : Undecided(p) => Undecided(p)' \/ p \in {o}
        BY <2>1, <3>1, StillUndecided DEF DiagInv
      <3> QED
        BY <3>2
    <2>5. \A p : Printing(p) => Printing(p)'
      BY <1>1, <2>1, StillPrinting DEF DiagInv
    <2>6. FirstAdmitted' /\ PendingInv'
      BY <1>1, <2>1, <2>2, <2>4, <2>5 DEF DiagInv, FirstAdmitted, PendingInv
    <2>7. DiagTypeOK' /\ LastInv'
      BY <1>1, <2>1, <2>3 DEF DiagInv, DiagTypeOK, LastInv, Earliest
    <2> QED
      BY <1>5, <2>3, <2>6, <2>7 DEF DiagInv
  <1>7. CASE ~Recent(now, Top(t).seen)
    <2>1. /\ last' = [last EXCEPT ![o] = now]
          /\ lines' = [lines EXCEPT !.admitted[o] = line]
          /\ stack' = [stack EXCEPT ![t] = <<c>> \o s]
      BY <1>7 DEF Decide, Becomes
    <2>2. /\ c \in Calls /\ c.op = o /\ c.name = Top(t).name /\ c.pc = "print"
          /\ c.line = line
      <3>1. line \in Nat
        BY <1>4
      <3>2. "print" \in CallPc
        BY DEF CallPc
      <3> HIDE DEF line
      <3> QED
        BY <1>2, <3>1, <3>2 DEF Calls
    <2>3. CallInv(c)
      BY <1>1, <1>2, <2>2 DEF CallInv
    <2>4. line = lines.admitted[o] + 1
      OBVIOUS
    <2> HIDE DEF o, s, now, line, c
    <2>5. /\ LastInv' /\ Later /\ lines' \in Lines
          /\ last' \in [Operations -> Nat \cup {None}]
          /\ lines'.printed = lines.printed /\ lines'.admitted[o] = line
          /\ \A p \in Operations \ {o} : lines'.admitted[p] = lines.admitted[p]
      BY <1>1, <1>3, <1>7, <2>1, <2>4, AdmitFacts DEF DiagInv
    <2>6. line \in 1..lines'.admitted[o]
      BY <1>4, <2>4, <2>5
    <2>7. stack' \in [Threads -> Seq(Calls)] /\ ShapeInv' /\ TopInv'
      BY <1>1, <1>2, <1>3, <2>1, <2>2, <2>3, <2>5, <2>6, FrontStep DEF DiagInv, Excludes
    <2>8. OpsIn(<<c>> \o s) = {o} \cup OpsIn(s) /\ <<c>> \o s # <<>> /\ Head(<<c>> \o s) = c
      BY <1>2, <2>2, FrontFacts, WaitingFacts
    <2>9. \A p : Undecided(p) => Undecided(p)'
      <3>1. OpsIn(stack[t]) \subseteq OpsIn(<<c>> \o s) \cup {}
        BY <1>2, <2>8
      <3> QED
        BY <2>1, <3>1, StillUndecided DEF DiagInv
    <2>10. \A p : Printing(p) => Printing(p)'
      BY <1>1, <2>1, StillPrinting DEF DiagInv
    <2>11. \A p : p = o => Printing(p)'
      <3>1. stack'[t] = <<c>> \o s
        BY <2>1 DEF DiagInv, DiagTypeOK
      <3> QED
        BY <2>2, <2>8, <3>1 DEF Printing, Top
    <2>12. FirstAdmitted' /\ PendingInv'
      <3>1. \A p \in Operations : lines'.admitted[p] > 0 => p = o \/ lines.admitted[p] > 0
        BY <2>5
      <3>2. \A p \in Operations : lines.admitted[p] > 0 => lines'.admitted[p] > 0
        BY <1>4, <2>4, <2>5
      <3> QED
        BY <1>1, <2>5, <2>9, <2>10, <2>11, <3>1, <3>2 DEF DiagInv, FirstAdmitted, PendingInv
    <2>13. DiagTypeOK'
      BY <1>1, <2>5, <2>7 DEF DiagInv, DiagTypeOK
    <2> QED
      BY <1>5, <2>5, <2>7, <2>12, <2>13 DEF DiagInv
  <1> QED
    BY <1>6, <1>7

LEMMA WriteLineInv ==
    ASSUME DiagInv, NEW t \in Threads, WriteLine(t)
    PROVE  DiagInv'
  <1> DEFINE o == Top(t).op
             s == Tail(stack[t])
  <1>1. /\ stack[t] # <<>> /\ Top(t).pc = "print"
        /\ lines' = [lines EXCEPT !.printed[o] = @ \cup {Top(t).line}]
        /\ stack' = [stack EXCEPT ![t] = s]
        /\ UNCHANGED <<clock, alive, inherited, listening, lock, counts, last, made>>
    BY DEF WriteLine, At, Idle, Return
  <1>2. /\ Top(t) \in Calls /\ CallInv(Top(t)) /\ s \in Seq(Waiting)
        /\ OpsIn(stack[t]) = {o} \cup OpsIn(s) /\ ~inherited
    BY <1>1, InCall
  <1>3. o \in Operations /\ Top(t).line \in 1..lines.admitted[o]
    BY <1>1, <1>2 DEF CallInv, Calls, DiagInv, TopInv
  <1>4. /\ lines \in Lines /\ lines.printed[o] \in SUBSET Nat
        /\ \A p \in Operations : lines.admitted[p] \in Nat
    BY <1>3 DEF DiagInv, DiagTypeOK, Lines
  <1> HIDE DEF o, s
  <1>5. /\ lines'.since = lines.since /\ lines'.admitted = lines.admitted
        /\ lines'.printed = [lines.printed EXCEPT ![o] = @ \cup {Top(t).line}]
    BY <1>1, <1>4 DEF Lines
  <1>6. /\ lines'.printed[o] = lines.printed[o] \cup {Top(t).line}
        /\ \A p \in Operations \ {o} : lines'.printed[p] = lines.printed[p]
        /\ lines' \in Lines
    <2>1. lines.printed \in [Operations -> SUBSET Nat]
      BY <1>4 DEF Lines
    <2>2. Top(t).line \in Nat
      BY <1>2 DEF Calls
    <2>3. lines'.printed \in [Operations -> SUBSET Nat]
      BY <1>3, <1>5, <2>1, <2>2
    <2>4. /\ lines' = [lines EXCEPT !.printed = lines'.printed]
      BY <1>1, <1>4, <1>5 DEF Lines
    <2>5. lines' \in Lines
      BY <1>4, <2>3, <2>4 DEF Lines
    <2> QED
      BY <1>3, <1>5, <2>1, <2>5
  <1>7. Later
    BY <1>1, <1>4, <1>5 DEF Later
  <1>8. stack' \in [Threads -> Seq(Calls)] /\ ShapeInv' /\ TopInv'
    BY <1>1, <1>2, <1>7, ReturnStep DEF DiagInv, Excludes
  <1>9. \A p : Undecided(p) => Undecided(p)' \/ p = o
    <2>1. OpsIn(stack[t]) \subseteq OpsIn(s) \cup {o}
      BY <1>2
    <2>2. \A p : Undecided(p) => Undecided(p)' \/ p \in {o}
      BY <1>1, <2>1, StillUndecided DEF DiagInv
    <2> QED
      BY <2>2
  <1>10. \A p : Printing(p) => Printing(p)' \/ p = o
    <2>1. \A u \in Threads \ {t} : stack'[u] = stack[u]
      BY <1>1 DEF DiagInv, DiagTypeOK
    <2> QED
      BY <2>1 DEF Printing, Top, o
  <1>11. lines.admitted[o] > 0 /\ lines'.printed[o] # {}
    BY <1>3, <1>4, <1>6
  <1>12. FirstAdmitted' /\ PendingInv'
    BY <1>1, <1>5, <1>6, <1>9, <1>10, <1>11 DEF DiagInv, FirstAdmitted, PendingInv
  <1>13. LastInv'
    <2>1. \A m : Earliest(m)' = Earliest(m)
      BY <1>5 DEF Earliest
    <2>2. \A p \in Operations : lines'.printed[p] \subseteq 1..lines'.admitted[p]
      BY <1>3, <1>5, <1>6 DEF DiagInv, LastInv
    <2> QED
      BY <1>1, <1>5, <2>1, <2>2 DEF DiagInv, LastInv
  <1>14. CountsExact' /\ InheritedInv' /\ DiagTypeOK'
    BY <1>1, <1>2, <1>6, <1>8 DEF DiagInv, DiagTypeOK, CountsExact, InheritedInv
  <1> QED
    BY <1>8, <1>12, <1>13, <1>14 DEF DiagInv

LEMMA AddListenerInv == DiagInv /\ AddListener => DiagInv'
  <1> SUFFICES ASSUME DiagInv, AddListener PROVE DiagInv'
    OBVIOUS
  <1>1. /\ UNCHANGED <<clock, alive, inherited, lock, counts, last, stack, made,
                       lines>>
        /\ listening' \in BOOLEAN
    BY DEF AddListener
  <1>2. /\ ShapeInv' /\ TopInv' /\ \A o : Undecided(o) => Undecided(o)'
        /\ \A o : Printing(o) => Printing(o)'
    BY <1>1 DEF DiagInv, ShapeInv, TopInv, Top, Undecided, Printing
  <1>3. FirstAdmitted' /\ PendingInv'
    BY <1>1, <1>2, ShownStep DEF DiagInv
  <1> QED
    BY <1>1, <1>2, <1>3
       DEF DiagInv, DiagTypeOK, InheritedInv, LastInv, Earliest, CountsExact

LEMMA TickInv == DiagInv /\ Tick => DiagInv'
  <1> SUFFICES ASSUME DiagInv, Tick PROVE DiagInv'
    OBVIOUS
  <1>1. /\ UNCHANGED <<alive, inherited, listening, lock, counts, last, stack,
                       made, lines>>
        /\ clock \in Nat /\ clock' = clock + 1
    BY DEF Tick, DiagInv, DiagTypeOK
  <1>2. /\ ShapeInv' /\ \A o : Undecided(o) => Undecided(o)'
        /\ \A o : Printing(o) => Printing(o)'
    BY <1>1 DEF DiagInv, ShapeInv, Top, Undecided, Printing
  <1>3. FirstAdmitted' /\ PendingInv'
    BY <1>1, <1>2, ShownStep DEF DiagInv
  <1>4. TopInv'
    <2> SUFFICES ASSUME NEW t \in Threads, stack[t] # <<>>
                 PROVE  /\ CallInv(Top(t))
                        /\ Top(t).pc \in {"add", "decide"} => lock = t
                        /\ Top(t).pc = "add" => Top(t).seen = counts[Top(t).name]
                        /\ Top(t).pc = "decide" => Top(t).seen = last[Top(t).op]
                        /\ Top(t).pc \in {"limit", "decide"} =>
                              lines.since <= Top(t).now /\ Top(t).now <= clock + 1
                        /\ Top(t).pc = "print" => Top(t).line \in 1..lines.admitted[Top(t).op]
      BY <1>1 DEF TopInv, Top
    <2>1. Top(t) \in Calls
      BY InCall
    <2>2. Top(t).now \in Nat
      BY <2>1 DEF Calls
    <2> QED
      BY <1>1, <2>2 DEF DiagInv, TopInv
  <1>5. LastInv'
    <2>1. lines.since \in Nat
      BY DEF DiagInv, DiagTypeOK, Lines
    <2> QED
      BY <1>1, <2>1 DEF DiagInv, LastInv, Earliest
  <1> QED
    BY <1>1, <1>2, <1>3, <1>4, <1>5 DEF DiagInv, DiagTypeOK, InheritedInv, CountsExact

\* A copied process is in no call, and nothing has to be shown before the restart.
LEMMA DuplicateInv ==
    ASSUME DiagInv, NEW t \in Threads, Duplicate(t)
    PROVE  DiagInv'
  <1>1. /\ alive' = {t} /\ inherited' = TRUE /\ stack' = [u \in Threads |-> <<>>]
        /\ UNCHANGED <<clock, listening, lock, counts, last, made, lines>>
    BY DEF Duplicate
  <1>2. <<>> \in Seq(Calls)
    BY EmptySeq
  <1>3. DiagTypeOK'
    BY <1>1, <1>2 DEF DiagInv, DiagTypeOK
  <1>4. ShapeInv' /\ TopInv' /\ InheritedInv' /\ FirstAdmitted' /\ PendingInv'
    BY <1>1 DEF ShapeInv, TopInv, InheritedInv, FirstAdmitted, PendingInv
  <1> QED
    BY <1>1, <1>3, <1>4 DEF DiagInv, LastInv, Earliest, CountsExact

LEMMA ThreadsChangeInv ==
    ASSUME DiagInv, alive' \in SUBSET Threads, ThreadsChange
    PROVE  DiagInv'
  <1> USE DEF ThreadsChange
  <1>1. DiagTypeOK'
    BY DEF DiagInv, DiagTypeOK
  <1>2. ShapeInv' /\ TopInv' /\ InheritedInv'
    BY DEF DiagInv, ShapeInv, TopInv, Top, InheritedInv
  <1>3. FirstAdmitted' /\ PendingInv'
    BY DEF DiagInv, FirstAdmitted, PendingInv, Undecided, Printing, Top
  <1> QED
    BY <1>1, <1>2, <1>3 DEF DiagInv, LastInv, Earliest, CountsExact

\* Diagnostics are made anew when no thread is in a call of them.
LEMMA RestartInv ==
    ASSUME DiagInv, \A t \in Threads : stack[t] = <<>>, RestartDiagnostics
    PROVE  DiagInv'
  <1>1. /\ lock' = None /\ last' = [o \in Operations |-> None]
        /\ counts' = [n \in Names |-> 0] /\ inherited' = FALSE
        /\ made' = [n \in Names |-> 0] /\ lines' = NoLines(clock)
        /\ UNCHANGED <<clock, alive, listening, stack>>
        /\ \A t \in Threads : stack'[t] = <<>>
    BY DEF RestartDiagnostics, ForgottenTimes
  <1>2. DiagTypeOK'
    <2>1. NoLines(clock) \in Lines
      BY DEF NoLines, Lines, DiagInv, DiagTypeOK
    <2> QED
      BY <1>1, <2>1 DEF DiagInv, DiagTypeOK
  <1>3. ShapeInv' /\ TopInv' /\ InheritedInv' /\ CountsExact'
    BY <1>1 DEF ShapeInv, TopInv, InheritedInv, CountsExact
  <1>4. LastInv' /\ PendingInv'
    BY <1>1 DEF NoLines, LastInv, PendingInv, DiagInv, DiagTypeOK
  <1>5. FirstAdmitted'
    BY <1>1, NameFacts DEF FirstAdmitted
  <1> QED
    BY <1>2, <1>3, <1>4, <1>5 DEF DiagInv
-------------------------------------------------------------------------------
(* The specification *)

\* DiagInv is kept by every step of Diagnostics, of whatever component it is part.
LEMMA DiagStepInv ==
    ASSUME DiagInv, NEW t \in Threads, DiagStep(t)
    PROVE  DiagInv'
  BY LockAndReadInv, AddInv, ListenInv, ListenerFailsInv, ReadClockInv,
     LockAndLookInv, DecideInv, WriteLineInv DEF DiagStep

LEMMA IncrementInv ==
    ASSUME DiagInv, ~inherited, NEW t \in Threads, NEW c \in Counters, Increment(t, c)
    PROVE  DiagInv'
  <1> DEFINE call == IncrementCall(c)
  <1>1. call \in Calls /\ CallInv(call) /\ call.pc = "count"
    BY DEF IncrementCall, Call, Calls, CallPc, CallInv, Names, Count
  <1>2. Enter(t, call)
    BY DEF Increment
  <1> HIDE DEF call
  <1> QED
    BY <1>1, <1>2, EnterInv

LEMMA ReportInv ==
    ASSUME DiagInv, ~inherited, NEW t \in Threads, NEW o \in Operations, Report(t, o)
    PROVE  DiagInv'
  <1> DEFINE call == ReportCall(o)
  <1>1. call \in Calls /\ CallInv(call) /\ call.pc = "count"
    BY NameFacts, DiagnosticsAssumption
       DEF ReportCall, Call, Calls, CallPc, CallInv
  <1>2. Enter(t, call)
    BY DEF Report
  <1> HIDE DEF call
  <1> QED
    BY <1>1, <1>2, EnterInv

LEMMA NextInv == DiagInv /\ [DiagNext]_diagVars => DiagInv'
  <1> SUFFICES ASSUME DiagInv, [DiagNext]_diagVars PROVE DiagInv'
    OBVIOUS
  <1>1. CASE \E t \in Threads : /\ ~inherited
                                /\ \/ \E c \in Counters : Increment(t, c)
                                   \/ \E o \in Operations : Report(t, o)
    BY <1>1, IncrementInv, ReportInv
  <1>2. CASE \E t \in Threads : DiagStep(t)
    BY <1>2, DiagStepInv
  <1>3. CASE \E t \in Threads : Duplicate(t)
    BY <1>3, DuplicateInv
  <1>4. CASE AddListener
    BY <1>4, AddListenerInv
  <1>5. CASE Tick
    BY <1>5, TickInv
  <1>6. CASE (\A t \in Threads : Idle(t)) /\ RestartDiagnostics
    BY <1>6, RestartInv DEF Idle
  <1>7. CASE UNCHANGED diagVars
    BY <1>7, StutterInv
  <1>8. CASE alive' \in SUBSET Threads /\ ThreadsChange
    BY <1>8, ThreadsChangeInv
  <1> QED
    BY <1>1, <1>2, <1>3, <1>4, <1>5, <1>6, <1>7, <1>8 DEF DiagNext

\* The invariant that the others follow from.
THEOREM Invariance == DiagSpec => []DiagInv
  <1> QED
    BY InitInv, NextInv, PTL DEF DiagSpec

\* The state stays well-typed: every call a thread is in is one of the code's.
THEOREM TypeCorrect == DiagSpec => []DiagTypeOK
  <1>1. DiagInv => DiagTypeOK
    BY DEF DiagInv
  <1> QED
    BY <1>1, Invariance, PTL

\* The counters hold exactly the increments of this process.
THEOREM Exact == DiagSpec => []CountsExact
  <1>1. DiagInv => CountsExact
    BY DEF DiagInv
  <1> QED
    BY <1>1, Invariance, PTL

\* Of one operation at most one line per Interval is printed.
THEOREM RationedLines == DiagSpec => []LinesRationed
  <1> QED
    BY Rationed, Invariance, PTL

\* The first failure of an operation in a process is shown.
THEOREM Shown == DiagSpec => []FirstFailureShown
  <1> QED
    BY ShownFacts, Invariance, PTL
===============================================================================
