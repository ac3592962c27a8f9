-------------------------- MODULE QueuedWriterProofs --------------------------
(***************************************************************************)
(* Proofs about QueuedWriter: its type invariant and every safety          *)
(* invariant that the runs check, for all values of the constants.         *)
(*                                                                         *)
(* The safety invariants are not inductive: none of them says where the    *)
(* sentinel may be.  Inv adds that there is at most one sentinel, that it  *)
(* is put only after the flag is set, and that whatever is behind it, or   *)
(* left over once the worker has seen it, was put while racing.  The same  *)
(* invariant shows that every step is one of RecordSink, or a stutter.     *)
(***************************************************************************)
EXTENDS QueuedWriter, SequenceTheorems, TLAPS

\* A worker between two batches holds no records, and a worker that delivers
\* without records has consumed the sentinel.
BatchInv ==
    /\ pc \notin {"gather", "deliver"} => batch = <<>>
    /\ pc = "gather" => batch # <<>>
    /\ pc = "deliver" /\ batch = <<>> => stopping

\* The flag comes first: before close leaves idle, before the sentinel is
\* consumed and before the worker decides to end.
FlagInv ==
    /\ closer # "idle" => closed
    /\ stopping => closed /\ closer # "stop" /\ pc \notin {"get", "empty"}
    /\ pc \in {"closing", "exited"} => closed

\* Whatever is behind a sentinel in the queue was put while racing.
SentinelInv ==
    \A i \in 1..Len(queue) :
        queue[i] = Stop =>
            /\ closed /\ closer # "stop" /\ ~stopping
            /\ \A j \in 1..Len(queue) : j > i => queue[j] \in racing

\* Whatever the worker may leave in the queue was put while racing.
LeftoverInv ==
    stopping \/ pc \in {"empty", "closing", "exited"} =>
        \A i \in 1..Len(queue) : queue[i] = Stop \/ queue[i] \in racing

\* A queued record is in the queue or in the batch.
FateInv ==
    \A r \in Records : fate[r] = "queued" =>
        \/ \E i \in 1..Len(queue) : queue[i] = r
        \/ \E i \in 1..Len(batch) : batch[i] = r

\* A timeout is counted only as close returns, and a close that returns
\* without counting one has seen the worker end.
ReportInv ==
    /\ timeouts # 0 => timeouts = 1 /\ closed /\ closer = "idle"
    /\ closed /\ closer = "idle" /\ timeouts = 0 => pc = "exited"

Inv ==
    /\ TypeOK
    /\ BatchInv
    /\ FlagInv
    /\ SentinelInv
    /\ LeftoverInv
    /\ FateInv
    /\ ReportInv
    /\ TaskAccounting
    /\ WriterClosedAtExit
-------------------------------------------------------------------------------
(* What Append and Tail do to the items of a queue. *)

LEMMA AppendItems ==
    ASSUME NEW S, NEW s \in Seq(S), NEW e \in S
    PROVE  /\ Append(s, e) \in Seq(S)
           /\ Len(s) \in Nat
           /\ Len(Append(s, e)) = Len(s) + 1
           /\ \A i \in 1..Len(s) : Append(s, e)[i] = s[i] /\ s[i] \in S
           /\ Append(s, e)[Len(s) + 1] = e
  OBVIOUS

LEMMA TailItems ==
    ASSUME NEW S, NEW s \in Seq(S), s # <<>>
    PROVE  /\ Len(s) \in Nat \ {0}
           /\ Head(s) = s[1]
           /\ Head(s) \in S
           /\ Tail(s) \in Seq(S)
           /\ Len(Tail(s)) = Len(s) - 1
           /\ \A i \in 1..Len(Tail(s)) : Tail(s)[i] = s[i + 1]
           /\ \A i \in 1..Len(s) : s[i] \in S
  OBVIOUS

LEMMA InitInv == Init => Inv
  <1> SUFFICES ASSUME Init PROVE Inv
    OBVIOUS
  <1>1. TypeOK
    <2>1. queue \in Seq(Records \cup {Stop}) /\ Len(queue) = 0
      BY DEF Init
    <2>2. batch \in Seq(Records) /\ Len(batch) = 0
      BY DEF Init
    <2>3. fate \in [Records -> Fates]
      BY DEF Init, Fates
    <2>4. unfinished = 0 /\ calls = 0 /\ timeouts = 0 /\ racing = {}
      BY DEF Init
    <2>5. /\ closed = FALSE /\ stopping = FALSE
          /\ pc = "get" /\ writer = "none" /\ closer = "idle"
      BY DEF Init
    <2>6. /\ 0 <= Capacity /\ 0 <= BatchSize /\ 0 \in 0..MaxCloses
      BY QueueAssumption
    <2>7. Len(queue) <= Capacity /\ Len(batch) <= BatchSize
      BY <2>1, <2>2, <2>6
    <2>8. unfinished \in Nat /\ timeouts \in Nat /\ calls \in 0..MaxCloses
      BY <2>4, <2>6
    <2>9. racing \in SUBSET Records
      BY <2>4
    <2> QED
      BY <2>1, <2>2, <2>3, <2>5, <2>7, <2>8, <2>9 DEF TypeOK, WorkerPc
  <1>2. BatchInv /\ FlagInv /\ ReportInv /\ TaskAccounting /\ WriterClosedAtExit
    BY DEF Init, BatchInv, FlagInv, ReportInv, TaskAccounting, WriterClosedAtExit
  <1>3. SentinelInv /\ LeftoverInv /\ FateInv
    BY DEF Init, SentinelInv, LeftoverInv, FateInv
  <1> QED
    BY <1>1, <1>2, <1>3 DEF Inv
-------------------------------------------------------------------------------
(* The steps of the calling threads. *)

LEMMA CheckClosedInv ==
    ASSUME Inv, NEW r \in Records, CheckClosed(r) PROVE Inv'
  <1> USE DEF Inv, CheckClosed, workerVars, closeVars
  <1>1. TypeOK'
    BY DEF TypeOK, Fates
  <1>2. BatchInv' /\ FlagInv' /\ ReportInv' /\ TaskAccounting' /\ WriterClosedAtExit'
    BY DEF BatchInv, FlagInv, ReportInv, TaskAccounting, WriterClosedAtExit
  <1>3. SentinelInv' /\ LeftoverInv'
    BY DEF SentinelInv, LeftoverInv
  <1>4. FateInv'
    BY DEF FateInv, TypeOK
  <1> QED
    BY <1>1, <1>2, <1>3, <1>4

LEMMA PutInv ==
    ASSUME Inv, NEW r \in Records, Put(r) PROVE Inv'
  <1> USE DEF Inv, Put, HasRoom, workerVars, closeVars
  <1>1. /\ queue' \in Seq(Records \cup {Stop})
        /\ Len(queue) \in Nat
        /\ Len(queue') = Len(queue) + 1
        /\ \A i \in 1..Len(queue) : queue'[i] = queue[i]
        /\ queue'[Len(queue) + 1] = r
    BY AppendItems, r \in Records \cup {Stop} DEF TypeOK
  <1>2. r # Stop
    BY QueueAssumption
  <1>3. closed \/ pc = "empty" => r \in racing'
    OBVIOUS
  <1>4. racing \subseteq racing'
    OBVIOUS
  <1>5. TypeOK'
    BY <1>1, QueueAssumption DEF TypeOK, Fates
  <1>6. BatchInv' /\ FlagInv' /\ ReportInv' /\ TaskAccounting' /\ WriterClosedAtExit'
    BY <1>1 DEF TypeOK, BatchInv, FlagInv, ReportInv, TaskAccounting, WriterClosedAtExit
  <1>7. SentinelInv'
    BY <1>1, <1>2, <1>3, <1>4 DEF SentinelInv
  <1>8. LeftoverInv'
    BY <1>1, <1>3, <1>4 DEF LeftoverInv, FlagInv
  <1>9. FateInv'
    BY <1>1 DEF FateInv, TypeOK
  <1> QED
    BY <1>5, <1>6, <1>7, <1>8, <1>9

LEMMA PutFullInv ==
    ASSUME Inv, NEW r \in Records, PutFull(r) PROVE Inv'
  <1> USE DEF Inv, PutFull, workerVars, closeVars
  <1>1. TypeOK'
    BY DEF TypeOK, Fates
  <1>2. BatchInv' /\ FlagInv' /\ ReportInv' /\ TaskAccounting' /\ WriterClosedAtExit'
    BY DEF BatchInv, FlagInv, ReportInv, TaskAccounting, WriterClosedAtExit
  <1>3. SentinelInv' /\ LeftoverInv'
    BY DEF SentinelInv, LeftoverInv
  <1>4. FateInv'
    BY DEF FateInv, TypeOK
  <1> QED
    BY <1>1, <1>2, <1>3, <1>4

LEMMA CloseAgainInv ==
    ASSUME Inv, CloseAgain PROVE Inv'
  BY QueueAssumption
     DEF Inv, CloseAgain, AlreadyClosed, workerVars, TypeOK, BatchInv, FlagInv, SentinelInv,
         LeftoverInv, FateInv, ReportInv, TaskAccounting, WriterClosedAtExit

LEMMA CloseBeginInv ==
    ASSUME Inv, CloseBegin PROVE Inv'
  <1> USE DEF Inv, CloseBegin, AlreadyClosed, workerVars
  <1>1. TypeOK'
    BY QueueAssumption DEF TypeOK
  <1>2. BatchInv' /\ FlagInv' /\ ReportInv' /\ TaskAccounting' /\ WriterClosedAtExit'
    BY DEF BatchInv, FlagInv, ReportInv, TaskAccounting, WriterClosedAtExit
  <1>3. SentinelInv' /\ LeftoverInv' /\ FateInv'
    BY DEF SentinelInv, LeftoverInv, FateInv
  <1> QED
    BY <1>1, <1>2, <1>3

LEMMA PutStopInv ==
    ASSUME Inv, PutStop PROVE Inv'
  <1> USE DEF Inv, PutStop, HasRoom, workerVars
  <1>1. CASE ~HasRoom
    BY <1>1 DEF TypeOK, BatchInv, FlagInv, SentinelInv, LeftoverInv, FateInv,
                ReportInv, TaskAccounting, WriterClosedAtExit
  <1>2. CASE HasRoom
    <2>1. /\ queue' \in Seq(Records \cup {Stop})
          /\ Len(queue) \in Nat
          /\ Len(queue') = Len(queue) + 1
          /\ \A i \in 1..Len(queue) : queue'[i] = queue[i]
          /\ queue'[Len(queue) + 1] = Stop
      <3>1. queue' = Append(queue, Stop)
        BY <1>2
      <3>2. queue \in Seq(Records \cup {Stop}) /\ Stop \in Records \cup {Stop}
        BY DEF TypeOK
      <3> QED
        BY <3>1, <3>2, AppendItems
    <2>2. TypeOK'
      BY <1>2, <2>1, QueueAssumption DEF TypeOK
    <2>3. BatchInv' /\ FlagInv' /\ ReportInv' /\ TaskAccounting' /\ WriterClosedAtExit'
      BY <1>2, <2>1
         DEF TypeOK, BatchInv, FlagInv, ReportInv, TaskAccounting, WriterClosedAtExit
    <2>4. \A i \in 1..Len(queue) : queue[i] # Stop
      BY DEF SentinelInv
    <2>5. SentinelInv'
      BY <2>1, <2>4 DEF SentinelInv, FlagInv
    <2>6. LeftoverInv'
      BY <2>1 DEF LeftoverInv
    <2>7. FateInv'
      BY <2>1 DEF FateInv
    <2> QED
      BY <2>2, <2>3, <2>5, <2>6, <2>7
  <1> QED
    BY <1>1, <1>2

LEMMA JoinReturnsInv ==
    ASSUME Inv, JoinReturns PROVE Inv'
  BY DEF Inv, JoinReturns, WorkerLate, workerVars, TypeOK, BatchInv, FlagInv, SentinelInv,
         LeftoverInv, FateInv, ReportInv, TaskAccounting, WriterClosedAtExit
-------------------------------------------------------------------------------
(* The steps of the worker. *)

\* What is left of the queue once its oldest item is taken.
OldestTaken ==
    /\ queue' \in Seq(Records \cup {Stop})
    /\ Len(queue) \in Nat \ {0}
    /\ Len(queue') = Len(queue) - 1
    /\ \A i \in 1..Len(queue') : i + 1 \in 1..Len(queue) /\ queue'[i] = queue[i + 1]
    /\ Head(queue) = queue[1]
    /\ 1 \in 1..Len(queue)
    /\ Head(queue) \in Records \cup {Stop}
    /\ \A r \in Records :
            (\E i \in 1..Len(queue) : queue[i] = r) =>
                Head(queue) = r \/ \E i \in 1..Len(queue') : queue'[i] = r

LEMMA TailOfQueue ==
    ASSUME Inv, queue # <<>>, queue' = Tail(queue)
    PROVE  OldestTaken
  <1>1. queue \in Seq(Records \cup {Stop})
    BY DEF Inv, TypeOK
  <1>2. /\ Len(queue) \in Nat \ {0}
        /\ Head(queue) = queue[1]
        /\ Head(queue) \in Records \cup {Stop}
        /\ queue' \in Seq(Records \cup {Stop})
        /\ Len(queue') = Len(queue) - 1
        /\ \A i \in 1..Len(queue') : queue'[i] = queue[i + 1]
    BY <1>1, TailItems
  <1>3. ASSUME NEW r \in Records, NEW i \in 1..Len(queue), queue[i] = r
        PROVE  Head(queue) = r \/ \E j \in 1..Len(queue') : queue'[j] = r
    <2>1. CASE i = 1
      BY <1>2, <1>3, <2>1
    <2>2. CASE i # 1
      <3>1. i - 1 \in 1..Len(queue')
        BY <1>2, <2>2
      <3>2. queue'[i - 1] = r
        BY <1>2, <1>3, <3>1
      <3> QED
        BY <3>1, <3>2
    <2> QED
      BY <2>1, <2>2
  <1> QED
    BY <1>2, <1>3 DEF OldestTaken

\* Taking the sentinel leaves only records that were put while racing, and
\* taking a record moves it from the queue to the batch.
LEMMA GetInv ==
    ASSUME Inv, Get PROVE Inv'
  <1> USE DEF Inv, Get, OldestTaken, closeVars
  <1>1. OldestTaken
    BY TailOfQueue
  <1>2. batch = <<>> /\ ~stopping
    BY DEF BatchInv, FlagInv
  <1>3. CASE Head(queue) = Stop
    <2>1. closed /\ closer # "stop"
      BY <1>1, <1>3 DEF SentinelInv
    <2>2. \A i \in 1..Len(queue') : queue'[i] \in racing
      BY <1>1, <1>3 DEF SentinelInv
    <2>3. TypeOK'
      <3>1. Len(queue') <= Capacity
        BY <1>1, QueueAssumption DEF TypeOK
      <3>2. /\ stopping' = TRUE
            /\ pc' = "deliver"
            /\ UNCHANGED <<batch, unfinished, fate, racing, writer, closeVars>>
        BY <1>3
      <3> QED
        BY <1>1, <3>1, <3>2 DEF TypeOK, WorkerPc
    <2>4. BatchInv' /\ FlagInv' /\ ReportInv' /\ WriterClosedAtExit'
      BY <1>2, <1>3, <2>1 DEF BatchInv, FlagInv, ReportInv, WriterClosedAtExit
    <2>5. TaskAccounting'
      BY <1>1, <1>2, <1>3 DEF TaskAccounting, TypeOK
    <2>6. SentinelInv'
      BY <1>3, <2>2, QueueAssumption DEF SentinelInv, TypeOK
    <2>7. LeftoverInv'
      BY <1>3, <2>2 DEF LeftoverInv
    <2>8. FateInv'
      BY <1>1, <1>2, <1>3, QueueAssumption DEF FateInv
    <2> QED
      BY <2>3, <2>4, <2>5, <2>6, <2>7, <2>8
  <1>4. CASE Head(queue) # Stop
    <2>1. /\ batch' \in Seq(Records)
          /\ Len(batch') = 1
          /\ batch'[1] = Head(queue)
          /\ batch' # <<>>
      <3>1. Head(queue) \in Records
        BY <1>1, <1>4
      <3>2. batch' = <<Head(queue)>>
        BY <1>4
      <3> HIDE DEF Inv, Get
      <3> QED
        BY <3>1, <3>2
    <2>2. TypeOK'
      BY <1>1, <1>4, <2>1, QueueAssumption DEF TypeOK, WorkerPc
    <2>3. BatchInv' /\ FlagInv' /\ ReportInv' /\ WriterClosedAtExit'
      BY <1>2, <1>4, <2>1 DEF BatchInv, FlagInv, ReportInv, WriterClosedAtExit
    <2>4. TaskAccounting'
      BY <1>1, <1>2, <1>4, <2>1 DEF TaskAccounting, TypeOK
    <2>5. SentinelInv'
      BY <1>1, <1>4 DEF SentinelInv
    <2>6. LeftoverInv'
      BY <1>1, <1>2, <1>4 DEF LeftoverInv
    <2>7. FateInv'
      BY <1>1, <1>2, <1>4, <2>1 DEF FateInv
    <2> QED
      BY <2>2, <2>3, <2>4, <2>5, <2>6, <2>7
  <1> QED
    BY <1>3, <1>4

LEMMA GetTimesOutInv ==
    ASSUME Inv, GetTimesOut PROVE Inv'
  BY DEF Inv, GetTimesOut, NothingToGet, closeVars, TypeOK, WorkerPc, BatchInv, FlagInv, SentinelInv,
         LeftoverInv, FateInv, ReportInv, TaskAccounting, WriterClosedAtExit

LEMMA AfterTimeoutInv ==
    ASSUME Inv, AfterTimeout PROVE Inv'
  BY DEF Inv, AfterTimeout, MayLeave, closeVars, TypeOK, WorkerPc, BatchInv, FlagInv, SentinelInv,
         LeftoverInv, FateInv, ReportInv, TaskAccounting, WriterClosedAtExit

LEMMA GatherOneInv ==
    ASSUME Inv, GatherOne PROVE Inv'
  <1> USE DEF Inv, GatherOne, Gathered, OldestTaken, closeVars
  <1>1. OldestTaken
    BY TailOfQueue
  <1>2. CASE Head(queue) = Stop
    <2>1. closed /\ closer # "stop"
      BY <1>1, <1>2 DEF SentinelInv
    <2>2. \A i \in 1..Len(queue') : queue'[i] \in racing
      BY <1>1, <1>2 DEF SentinelInv
    <2>3. TypeOK'
      <3>1. Len(queue') <= Capacity
        BY <1>1, QueueAssumption DEF TypeOK
      <3>2. /\ stopping' = TRUE
            /\ UNCHANGED <<batch, unfinished, fate, racing, pc, writer, closeVars>>
        BY <1>2
      <3> QED
        BY <1>1, <3>1, <3>2 DEF TypeOK
    <2>4. BatchInv' /\ FlagInv' /\ ReportInv' /\ WriterClosedAtExit'
      BY <1>2, <2>1 DEF BatchInv, FlagInv, ReportInv, WriterClosedAtExit
    <2>5. TaskAccounting'
      BY <1>1, <1>2 DEF TaskAccounting, TypeOK
    <2>6. SentinelInv'
      BY <1>2, <2>2, QueueAssumption DEF SentinelInv, TypeOK
    <2>7. LeftoverInv'
      BY <1>2, <2>2 DEF LeftoverInv
    <2>8. FateInv'
      BY <1>1, <1>2, QueueAssumption DEF FateInv
    <2> QED
      BY <2>3, <2>4, <2>5, <2>6, <2>7, <2>8
  <1>3. CASE Head(queue) # Stop
    <2>1. /\ batch' \in Seq(Records)
          /\ Len(batch) \in Nat
          /\ Len(batch') = Len(batch) + 1
          /\ \A i \in 1..Len(batch) : batch'[i] = batch[i]
          /\ batch'[Len(batch) + 1] = Head(queue)
          /\ batch' # <<>>
      <3>1. batch' = Append(batch, Head(queue))
        BY <1>3
      <3>2. batch \in Seq(Records) /\ Head(queue) \in Records
        BY <1>1, <1>3 DEF TypeOK
      <3> QED
        BY <3>1, <3>2, AppendItems
    <2>2. TypeOK'
      BY <1>1, <1>3, <2>1, QueueAssumption DEF TypeOK
    <2>3. BatchInv' /\ FlagInv' /\ ReportInv' /\ WriterClosedAtExit'
      BY <1>3, <2>1 DEF BatchInv, FlagInv, ReportInv, WriterClosedAtExit
    <2>4. TaskAccounting'
      BY <1>1, <1>3, <2>1 DEF TaskAccounting, TypeOK
    <2>5. SentinelInv'
      BY <1>1, <1>3 DEF SentinelInv
    <2>6. LeftoverInv'
      BY <1>1, <1>3 DEF LeftoverInv
    <2>7. FateInv'
      BY <1>1, <1>3, <2>1, SMTT(60) DEF FateInv
    <2> QED
      BY <2>2, <2>3, <2>4, <2>5, <2>6, <2>7
  <1> QED
    BY <1>2, <1>3

LEMMA GatherDoneInv ==
    ASSUME Inv, GatherDone PROVE Inv'
  BY DEF Inv, GatherDone, closeVars, TypeOK, WorkerPc, BatchInv, FlagInv, SentinelInv,
         LeftoverInv, FateInv, ReportInv, TaskAccounting, WriterClosedAtExit

\* Settling never makes a record queued, and leaves no record of the batch so.
LEMMA SettleFate ==
    ASSUME Inv, NEW k \in 0..Len(batch), Settle(k)
    PROVE  /\ fate' \in [Records -> Fates]
           /\ \A r \in Records :
                fate'[r] = "queued" =>
                    /\ fate[r] = "queued"
                    /\ \A i \in 1..Len(batch) : batch[i] # r
  <1>1. fate' \in [Records -> Fates]
    BY DEF Inv, TypeOK, Settle, Fates
  <1>2. ASSUME NEW r \in Records, fate'[r] = "queued"
        PROVE  fate[r] = "queued" /\ \A i \in 1..Len(batch) : batch[i] # r
    <2>1. ~ \E i \in 1..k : batch[i] = r
      BY <1>2 DEF Settle
    <2>2. ~ \E i \in (k + 1)..Len(batch) : batch[i] = r
      BY <1>2, <2>1 DEF Settle
    <2>3. fate[r] = "queued"
      BY <1>2, <2>1, <2>2 DEF Settle
    <2>4. \A i \in 1..Len(batch) : i \in 1..k \/ i \in (k + 1)..Len(batch)
      BY DEF Inv, TypeOK
    <2> QED
      BY <2>1, <2>2, <2>3, <2>4
  <1> QED
    BY <1>1, <1>2

LEMMA DeliverInv ==
    ASSUME Inv, Deliver PROVE Inv'
  <1>1. pc = "deliver" /\ EndBatch
    BY DEF Deliver, DeliverNothing, BuildFails, Write
  <1>2. writer' \in {"none", "open"} \/ writer' = writer
    BY DEF Deliver, DeliverNothing, BuildFails, Write
  <1>3. /\ fate' \in [Records -> Fates]
        /\ \A r \in Records :
                fate'[r] = "queued" =>
                    /\ fate[r] = "queued"
                    /\ \A i \in 1..Len(batch) : batch[i] # r
    <2>1. CASE DeliverNothing
      BY <2>1 DEF DeliverNothing, NothingToWrite, Inv, TypeOK
    <2>2. CASE BuildFails
      BY <2>2, SettleFate, 0 \in 0..Len(batch) DEF BuildFails, Inv, TypeOK
    <2>3. CASE Write
      BY <2>3, SettleFate DEF Write
    <2> QED
      BY <2>1, <2>2, <2>3 DEF Deliver
  <1> USE DEF Inv, EndBatch, Consumed, closeVars
  <1>4. unfinished' = Len(queue)
    BY <1>1 DEF TaskAccounting, TypeOK
  <1>5. stopping = (pc' = "closing")
    BY <1>1 DEF BatchInv, TypeOK
  <1>6. batch' \in Seq(Records) /\ Len(batch') = 0
    BY <1>1
  <1>7. TypeOK'
    BY <1>1, <1>2, <1>3, <1>4, <1>6, QueueAssumption DEF TypeOK, WorkerPc
  <1>8. BatchInv' /\ FlagInv' /\ ReportInv' /\ WriterClosedAtExit'
    BY <1>1, <1>2, <1>5 DEF BatchInv, FlagInv, ReportInv, WriterClosedAtExit
  <1>9. TaskAccounting'
    BY <1>1, <1>4, <1>6 DEF TaskAccounting, TypeOK
  <1>10. SentinelInv'
    BY <1>1 DEF SentinelInv
  <1>11. LeftoverInv'
    BY <1>1, <1>5 DEF LeftoverInv
  <1>12. FateInv'
    BY <1>1, <1>3 DEF FateInv
  <1> QED
    BY <1>7, <1>8, <1>9, <1>10, <1>11, <1>12

LEMMA CloseWriterInv ==
    ASSUME Inv, CloseWriter PROVE Inv'
  BY DEF Inv, CloseWriter, Released, closeVars, TypeOK, WorkerPc, BatchInv, FlagInv, SentinelInv,
         LeftoverInv, FateInv, ReportInv, TaskAccounting, WriterClosedAtExit
-------------------------------------------------------------------------------
\* Inv holds in every reachable state.
THEOREM Invariance == Spec => []Inv
  <1>1. ASSUME Inv, Next PROVE Inv'
    <2>1. ASSUME NEW r \in Records, CheckClosed(r) \/ FinishEnqueue(r) PROVE Inv'
      BY <1>1, <2>1, CheckClosedInv, PutInv, PutFullInv DEF FinishEnqueue
    <2>2. CASE CloseAgain
      BY <1>1, <2>2, CloseAgainInv
    <2>3. CASE CloseBegin
      BY <1>1, <2>3, CloseBeginInv
    <2>4. CASE FinishClose
      BY <1>1, <2>4, PutStopInv, JoinReturnsInv DEF FinishClose
    <2>5. CASE Worker
      BY <1>1, <2>5, GetInv, GetTimesOutInv, AfterTimeoutInv, GatherOneInv,
         GatherDoneInv, DeliverInv, CloseWriterInv DEF Worker
    <2> QED
      BY <1>1, <2>1, <2>2, <2>3, <2>4, <2>5 DEF Next
  <1>2. Inv /\ UNCHANGED vars => Inv'
    BY DEF vars, Inv, TypeOK, BatchInv, FlagInv, SentinelInv, LeftoverInv,
           FateInv, ReportInv, TaskAccounting, WriterClosedAtExit
  <1> QED
    BY <1>1, <1>2, InitInv, PTL DEF Spec

\* The type invariant of the destination.
THEOREM TypeCorrect == Spec => []TypeOK
  BY Invariance, PTL DEF Inv

\* task_done is called exactly once for every item the worker takes.
THEOREM TasksAccounted == Spec => []TaskAccounting
  BY Invariance, PTL DEF Inv

\* The worker is closed with its thread and not before.
THEOREM WriterClosed == Spec => []WriterClosedAtExit
  BY Invariance, PTL DEF Inv

\* A repeated close never reports the blocked worker again.
THEOREM ReportedOnce == Spec => []TimeoutReportedOnce
  <1>1. Inv => TimeoutReportedOnce
    BY DEF Inv, ReportInv, TimeoutReportedOnce
  <1> QED
    BY <1>1, Invariance, PTL

\* Only a record whose put raced with close, or with the worker's look at the
\* flag, can be left in the queue of a worker that ends.
THEOREM NothingStranded == Spec => []StrandedOnlyIfRacing
  <1>1. Inv => StrandedOnlyIfRacing
    <2> SUFFICES ASSUME Inv, pc \in {"closing", "exited"},
                        NEW r \in Records, fate[r] = "queued"
                 PROVE  r \in racing
      BY DEF StrandedOnlyIfRacing
    <2>1. batch = <<>>
      BY DEF Inv, BatchInv
    <2>2. PICK i \in 1..Len(queue) : queue[i] = r
      BY <2>1 DEF Inv, FateInv
    <2> QED
      BY <2>2, QueueAssumption DEF Inv, LeftoverInv
  <1> QED
    BY <1>1, Invariance, PTL

\* A close that reports nothing has seen the worker end, its writer closed and
\* every record that was put in time handed over.
THEOREM CleanClose == Spec => []CleanCloseMeansDrained
  <1>1. Inv /\ StrandedOnlyIfRacing => CleanCloseMeansDrained
    BY DEF Inv, ReportInv, WriterClosedAtExit, StrandedOnlyIfRacing,
           CleanCloseMeansDrained
  <1> QED
    BY <1>1, Invariance, NothingStranded, PTL
-------------------------------------------------------------------------------
(* The queue without its sentinel *)

Items == Records \cup {Stop}

OneStop(s) == \A i, j \in 1..Len(s) : s[i] = Stop /\ s[j] = Stop => i = j

\* RemoveAt shortens a sequence by one and keeps the order of the rest.
LEMMA RemoveItem ==
    ASSUME NEW S, NEW s \in Seq(S), NEW i \in 1..Len(s)
    PROVE  /\ RemoveAt(s, i) \in Seq(S)
           /\ Len(RemoveAt(s, i)) = Len(s) - 1
           /\ \A j \in 1..(Len(s) - 1) :
                 RemoveAt(s, i)[j] = IF j < i THEN s[j] ELSE s[j + 1]
  <1> DEFINE a == SubSeq(s, 1, i - 1)
             b == SubSeq(s, i + 1, Len(s))
  <1>1. a \in Seq(S) /\ Len(a) = i - 1 /\ \A j \in 1..(i - 1) : a[j] = s[j]
    OBVIOUS
  <1>2. b \in Seq(S) /\ Len(b) = Len(s) - i /\ \A j \in 1..(Len(s) - i) : b[j] = s[j + i]
    OBVIOUS
  <1> HIDE DEF a, b
  <1>3. RemoveAt(s, i) = a \o b
    BY DEF RemoveAt, a, b
  <1>4. a \o b \in Seq(S) /\ Len(a \o b) = Len(s) - 1
    <2>1. Len(s) \in Nat /\ i \in Int
      OBVIOUS
    <2>2. a \o b \in Seq(S) /\ Len(a \o b) = Len(a) + Len(b)
      BY <1>1, <1>2, ConcatProperties
    <2> QED
      BY <1>1, <1>2, <2>1, <2>2
  <1>5. \A j \in 1..(Len(s) - 1) : (a \o b)[j] = IF j < i THEN s[j] ELSE s[j + 1]
    BY <1>1, <1>2
  <1> QED
    BY <1>3, <1>4, <1>5

\* WithoutStop keeps the records and their order.
LEMMA WithoutStopItems ==
    ASSUME NEW s \in Seq(Items), OneStop(s)
    PROVE  /\ WithoutStop(s) \in Seq(Records)
           /\ (\A i \in 1..Len(s) : s[i] # Stop) => WithoutStop(s) = s
           /\ \A p \in 1..Len(s) : s[p] = Stop =>
                 /\ Len(WithoutStop(s)) = Len(s) - 1
                 /\ \A j \in 1..(Len(s) - 1) :
                       WithoutStop(s)[j] = IF j < p THEN s[j] ELSE s[j + 1]
  <1>1. Len(s) \in Nat /\ s = [i \in 1..Len(s) |-> s[i]] /\ \A i \in 1..Len(s) : s[i] \in Items
    OBVIOUS
  <1>2. ASSUME \A i \in 1..Len(s) : s[i] # Stop
        PROVE  WithoutStop(s) = s /\ WithoutStop(s) \in Seq(Records)
    <2>1. WithoutStop(s) = s
      BY <1>2 DEF WithoutStop
    <2>2. \A i \in 1..Len(s) : s[i] \in Records
      BY <1>1, <1>2 DEF Items
    <2> QED
      BY <1>1, <2>1, <2>2
  <1>3. ASSUME NEW p \in 1..Len(s), s[p] = Stop
        PROVE  /\ WithoutStop(s) \in Seq(Records)
               /\ Len(WithoutStop(s)) = Len(s) - 1
               /\ \A j \in 1..(Len(s) - 1) :
                     WithoutStop(s)[j] = IF j < p THEN s[j] ELSE s[j + 1]
    <2>1. (CHOOSE i \in 1..Len(s) : s[i] = Stop) = p
      BY <1>3 DEF OneStop
    <2>2. WithoutStop(s) = RemoveAt(s, p)
      BY <1>3, <2>1 DEF WithoutStop
    <2>3. /\ Len(WithoutStop(s)) = Len(s) - 1
          /\ WithoutStop(s) \in Seq(Items)
          /\ \A j \in 1..(Len(s) - 1) :
                WithoutStop(s)[j] = IF j < p THEN s[j] ELSE s[j + 1]
      BY <2>2, RemoveItem
    <2>4. \A j \in 1..(Len(s) - 1) : WithoutStop(s)[j] \in Records
      <3> SUFFICES ASSUME NEW j \in 1..(Len(s) - 1) PROVE WithoutStop(s)[j] \in Records
        OBVIOUS
      <3>1. j \in 1..Len(s) /\ j + 1 \in 1..Len(s)
        BY <1>1
      <3>2. j < p => s[j] # Stop
        BY <1>3, <3>1 DEF OneStop
      <3>3. ~(j < p) => s[j + 1] # Stop
        BY <1>3, <3>1 DEF OneStop
      <3> QED
        BY <1>1, <2>3, <3>1, <3>2, <3>3 DEF Items
    <2>5. WithoutStop(s) \in Seq(Records)
      BY <2>3, <2>4
    <2> QED
      BY <2>3, <2>5
  <1> QED
    BY <1>2, <1>3

\* A record that is appended is behind the others.
LEMMA WithRecord ==
    ASSUME NEW s \in Seq(Items), OneStop(s), NEW r \in Records
    PROVE  /\ OneStop(Append(s, r))
           /\ WithoutStop(Append(s, r)) = Append(WithoutStop(s), r)
  <1> DEFINE a == Append(s, r)
  <1>1. /\ a \in Seq(Items) /\ Len(s) \in Nat /\ Len(a) = Len(s) + 1
        /\ \A i \in 1..Len(s) : a[i] = s[i]
        /\ a[Len(s) + 1] = r
    BY AppendItems, r \in Items DEF Items
  <1> HIDE DEF a
  <1>2. r # Stop
    BY QueueAssumption
  <1>3. OneStop(a)
    BY <1>1, <1>2 DEF OneStop
  <1>4. /\ WithoutStop(s) \in Seq(Records) /\ WithoutStop(a) \in Seq(Records)
        /\ Len(WithoutStop(s)) \in Nat
        /\ Append(WithoutStop(s), r) \in Seq(Records)
        /\ Len(Append(WithoutStop(s), r)) = Len(WithoutStop(s)) + 1
        /\ \A i \in 1..Len(WithoutStop(s)) : Append(WithoutStop(s), r)[i] = WithoutStop(s)[i]
        /\ Append(WithoutStop(s), r)[Len(WithoutStop(s)) + 1] = r
    BY <1>1, <1>3, WithoutStopItems, AppendItems
  <1>5. CASE \A i \in 1..Len(s) : s[i] # Stop
    <2>1. \A i \in 1..Len(a) : a[i] # Stop
      BY <1>1, <1>2, <1>5
    <2> QED
      BY <1>1, <1>3, <1>5, <2>1, WithoutStopItems DEF a
  <1>6. ASSUME NEW p \in 1..Len(s), s[p] = Stop
        PROVE  WithoutStop(a) = Append(WithoutStop(s), r)
    <2>1. /\ Len(WithoutStop(s)) = Len(s) - 1
          /\ \A j \in 1..(Len(s) - 1) : WithoutStop(s)[j] = IF j < p THEN s[j] ELSE s[j + 1]
      BY <1>6, WithoutStopItems
    <2>2. p \in 1..Len(a) /\ a[p] = Stop
      BY <1>1, <1>6
    <2>3. /\ Len(WithoutStop(a)) = Len(s)
          /\ \A j \in 1..Len(s) : WithoutStop(a)[j] = IF j < p THEN a[j] ELSE a[j + 1]
      <3>1. /\ Len(WithoutStop(a)) = Len(a) - 1
            /\ \A j \in 1..(Len(a) - 1) :
                  WithoutStop(a)[j] = IF j < p THEN a[j] ELSE a[j + 1]
        BY <1>1, <1>3, <2>2, WithoutStopItems
      <3>2. Len(a) - 1 = Len(s)
        BY <1>1
      <3> QED
        BY <3>1, <3>2
    <2>4. ASSUME NEW j \in 1..Len(s)
          PROVE  WithoutStop(a)[j] = Append(WithoutStop(s), r)[j]
      <3>1. CASE j = Len(s)
        BY <1>1, <1>4, <1>6, <2>1, <2>3, <3>1
      <3>2. CASE j # Len(s)
        <4>1. j \in 1..(Len(s) - 1) /\ j + 1 \in 1..Len(s)
          BY <1>1, <3>2
        <4> QED
          BY <1>1, <1>4, <2>1, <2>3, <4>1
      <3> QED
        BY <3>1, <3>2
    <2>5. Len(WithoutStop(a)) = Len(Append(WithoutStop(s), r))
      BY <1>1, <1>4, <2>1, <2>3
    <2> QED
      BY <1>4, <2>3, <2>4, <2>5, SeqEqual
  <1> QED
    BY <1>3, <1>5, <1>6 DEF a

\* A sentinel that is appended does not show.
LEMMA WithStop ==
    ASSUME NEW s \in Seq(Items), \A i \in 1..Len(s) : s[i] # Stop
    PROVE  OneStop(Append(s, Stop)) /\ WithoutStop(Append(s, Stop)) = WithoutStop(s)
  <1> DEFINE a == Append(s, Stop)
  <1>1. /\ a \in Seq(Items) /\ Len(s) \in Nat /\ Len(a) = Len(s) + 1
        /\ \A i \in 1..Len(s) : a[i] = s[i]
        /\ a[Len(s) + 1] = Stop
    BY AppendItems, Stop \in Items DEF Items
  <1> HIDE DEF a
  <1>2. OneStop(a) /\ OneStop(s)
    BY <1>1 DEF OneStop
  <1>3. WithoutStop(s) = s /\ WithoutStop(s) \in Seq(Records)
    BY <1>2, WithoutStopItems
  <1>4. /\ WithoutStop(a) \in Seq(Records)
        /\ Len(WithoutStop(a)) = Len(s)
        /\ \A j \in 1..Len(s) : WithoutStop(a)[j] = a[j]
    BY <1>1, <1>2, WithoutStopItems
  <1>5. WithoutStop(a) = s
    BY <1>1, <1>3, <1>4, SeqEqual
  <1> QED
    BY <1>2, <1>3, <1>5 DEF a

\* What is in front of the rest of a queue.
LEMMA WithoutHead ==
    ASSUME NEW s \in Seq(Items), s # <<>>, OneStop(s)
    PROVE  /\ OneStop(Tail(s))
           /\ Head(s) = Stop => WithoutStop(s) = WithoutStop(Tail(s))
           /\ Head(s) # Stop =>
                 /\ Head(s) \in Records
                 /\ Len(WithoutStop(s)) = Len(WithoutStop(Tail(s))) + 1
                 /\ WithoutStop(s)[1] = Head(s)
                 /\ \A j \in 1..Len(WithoutStop(Tail(s))) :
                       WithoutStop(s)[j + 1] = WithoutStop(Tail(s))[j]
  <1> DEFINE t == Tail(s)
  <1>1. /\ Len(s) \in Nat \ {0} /\ Head(s) = s[1] /\ Head(s) \in Items
        /\ t \in Seq(Items) /\ Len(t) = Len(s) - 1
        /\ \A i \in 1..Len(t) : t[i] = s[i + 1]
    BY TailItems
  <1> HIDE DEF t
  <1>2. OneStop(t)
    <2> SUFFICES ASSUME NEW i \in 1..Len(t), NEW j \in 1..Len(t), t[i] = Stop, t[j] = Stop
                 PROVE  i = j
      BY DEF OneStop
    <2>1. i + 1 \in 1..Len(s) /\ j + 1 \in 1..Len(s)
      BY <1>1
    <2>2. i + 1 = j + 1
      BY <1>1, <2>1, SMTT(60) DEF OneStop
    <2> QED
      BY <2>2
  <1>3. WithoutStop(s) \in Seq(Records) /\ WithoutStop(t) \in Seq(Records)
    BY <1>1, <1>2, WithoutStopItems
  <1>4. ASSUME Head(s) = Stop
        PROVE  WithoutStop(s) = WithoutStop(t)
    <2>1. \A i \in 1..Len(t) : t[i] # Stop
      <3> SUFFICES ASSUME NEW i \in 1..Len(t), t[i] = Stop PROVE FALSE
        OBVIOUS
      <3>1. i + 1 \in 1..Len(s) /\ s[i + 1] = Stop /\ 1 \in 1..Len(s)
        BY <1>1
      <3> QED
        BY <1>1, <1>4, <3>1 DEF OneStop
    <2>2. WithoutStop(t) = t
      BY <1>1, <1>2, <2>1, WithoutStopItems
    <2>3. 1 \in 1..Len(s) /\ s[1] = Stop
      BY <1>1, <1>4
    <2>4. /\ Len(WithoutStop(s)) = Len(s) - 1
          /\ \A j \in 1..(Len(s) - 1) : WithoutStop(s)[j] = IF j < 1 THEN s[j] ELSE s[j + 1]
      BY <2>3, WithoutStopItems
    <2>5. \A j \in 1..Len(t) : WithoutStop(s)[j] = WithoutStop(t)[j]
      BY <1>1, <2>2, <2>4
    <2> QED
      BY <1>1, <1>3, <2>2, <2>4, <2>5, SeqEqual
  <1>5. ASSUME Head(s) # Stop
        PROVE  /\ Head(s) \in Records
               /\ Len(WithoutStop(s)) = Len(WithoutStop(t)) + 1
               /\ WithoutStop(s)[1] = Head(s)
               /\ \A j \in 1..Len(WithoutStop(t)) : WithoutStop(s)[j + 1] = WithoutStop(t)[j]
    <2>1. Head(s) \in Records
      BY <1>1, <1>5 DEF Items
    <2>2. CASE \A i \in 1..Len(s) : s[i] # Stop
      <3>1. \A i \in 1..Len(t) : t[i] # Stop
        BY <1>1, <2>2
      <3>2. WithoutStop(s) = s /\ WithoutStop(t) = t
        BY <1>1, <1>2, <2>2, <3>1, WithoutStopItems
      <3> QED
        BY <1>1, <2>1, <3>2
    <2>3. ASSUME NEW p \in 1..Len(s), s[p] = Stop
          PROVE  /\ Len(WithoutStop(s)) = Len(WithoutStop(t)) + 1
                 /\ WithoutStop(s)[1] = Head(s)
                 /\ \A j \in 1..Len(WithoutStop(t)) : WithoutStop(s)[j + 1] = WithoutStop(t)[j]
      <3>1. /\ Len(WithoutStop(s)) = Len(s) - 1
            /\ \A j \in 1..(Len(s) - 1) : WithoutStop(s)[j] = IF j < p THEN s[j] ELSE s[j + 1]
        BY <2>3, WithoutStopItems
      <3>2. p # 1 /\ p - 1 \in 1..Len(t) /\ t[p - 1] = Stop
        BY <1>1, <1>5, <2>3
      <3>3. /\ Len(WithoutStop(t)) = Len(t) - 1
            /\ \A j \in 1..(Len(t) - 1) : WithoutStop(t)[j] = IF j < p - 1 THEN t[j] ELSE t[j + 1]
        BY <1>1, <1>2, <3>2, WithoutStopItems
      <3>4. ASSUME NEW j \in 1..Len(WithoutStop(t))
            PROVE  WithoutStop(s)[j + 1] = WithoutStop(t)[j]
        <4>1. j \in 1..(Len(t) - 1) /\ j \in 1..Len(t) /\ j + 1 \in 1..Len(t)
              /\ j + 1 \in 1..(Len(s) - 1)
          BY <1>1, <3>3
        <4>2. t[j] = s[j + 1] /\ t[j + 1] = s[(j + 1) + 1]
          BY <1>1, <4>1
        <4> QED
          BY <3>1, <3>3, <4>1, <4>2
      <3>5. 1 \in 1..(Len(s) - 1) /\ 1 < p
        BY <1>1, <2>3, <3>2
      <3>6. Len(WithoutStop(s)) = Len(WithoutStop(t)) + 1
        BY <1>1, <3>1, <3>3
      <3> QED
        BY <1>1, <3>1, <3>4, <3>5, <3>6
    <2> QED
      BY <2>1, <2>2, <2>3
  <1> QED
    BY <1>2, <1>4, <1>5 DEF t
-------------------------------------------------------------------------------
(* The destination is a RecordSink: every step is one of its, or shows nothing. *)

Pending == batch \o WithoutStop(queue)

SinkFates == [r \in Records |-> SinkFate(fate[r])]

LEMMA PendingItems ==
    ASSUME Inv
    PROVE  /\ queue \in Seq(Items) /\ OneStop(queue)
           /\ batch \in Seq(Records) /\ Len(batch) \in Nat
           /\ WithoutStop(queue) \in Seq(Records) /\ Len(WithoutStop(queue)) \in Nat
           /\ Pending \in Seq(Records)
           /\ Len(Pending) = Len(batch) + Len(WithoutStop(queue))
           /\ \A i \in 1..Len(batch) : Pending[i] = batch[i]
           /\ \A i \in 1..Len(WithoutStop(queue)) : Pending[Len(batch) + i] = WithoutStop(queue)[i]
  <1>1. queue \in Seq(Items) /\ batch \in Seq(Records)
    BY DEF Inv, TypeOK, Items
  <1>2. OneStop(queue)
    <2> SUFFICES ASSUME NEW i \in 1..Len(queue), NEW j \in 1..Len(queue),
                        queue[i] = Stop, queue[j] = Stop, i # j
                 PROVE  FALSE
      BY DEF OneStop
    <2>1. Stop \in racing
      <3>1. i < j \/ j < i
        OBVIOUS
      <3> QED
        BY <3>1 DEF Inv, SentinelInv
    <2> QED
      BY <2>1, QueueAssumption DEF Inv, TypeOK
  <1>3. WithoutStop(queue) \in Seq(Records)
    BY <1>1, <1>2, WithoutStopItems
  <1>4. Len(batch) \in Nat /\ Len(WithoutStop(queue)) \in Nat
    BY <1>1, <1>3
  <1>5. /\ Pending \in Seq(Records)
        /\ Len(Pending) = Len(batch) + Len(WithoutStop(queue))
        /\ \A i \in 1..(Len(batch) + Len(WithoutStop(queue))) :
              Pending[i] = IF i <= Len(batch) THEN batch[i]
                           ELSE WithoutStop(queue)[i - Len(batch)]
    BY <1>1, <1>3, ConcatProperties DEF Pending
  <1>6. \A i \in 1..Len(batch) : Pending[i] = batch[i]
    BY <1>4, <1>5
  <1>7. ASSUME NEW i \in 1..Len(WithoutStop(queue))
        PROVE  Pending[Len(batch) + i] = WithoutStop(queue)[i]
    <2>1. /\ Len(batch) + i \in 1..(Len(batch) + Len(WithoutStop(queue)))
          /\ ~(Len(batch) + i <= Len(batch)) /\ (Len(batch) + i) - Len(batch) = i
      BY <1>4
    <2> QED
      BY <1>5, <2>1
  <1> QED
    BY <1>1, <1>2, <1>3, <1>4, <1>5, <1>6, <1>7

LEMMA InitSink == Init => Sink!SinkInit
  <1> SUFFICES ASSUME Init PROVE Sink!SinkInit
    OBVIOUS
  <1>1. Inv /\ queue = <<>> /\ batch = <<>>
    BY InitInv DEF Init
  <1>2. WithoutStop(queue) = <<>>
    <2>1. \A i \in 1..Len(queue) : queue[i] # Stop
      BY <1>1
    <2> QED
      BY <1>1, <2>1, PendingItems, WithoutStopItems
  <1>3. batch \o WithoutStop(queue) = <<>>
    BY <1>1, <1>2
  <1> QED
    BY <1>3 DEF Init, Sink!SinkInit, SinkFate

\* A call of enqueue offers its record to an open destination.
LEMMA CheckClosedSink ==
    ASSUME Inv, NEW r \in Records, CheckClosed(r)
    PROVE  Sink!Offer(r) \/ Sink!Refuse(r)
  <1>1. UNCHANGED <<queue, batch, pc, closed>> /\ fate[r] = "new" /\ fate \in [Records -> Fates]
    BY DEF CheckClosed, workerVars, closeVars, Inv, TypeOK
  <1>2. (batch \o WithoutStop(queue))' = batch \o WithoutStop(queue)
    BY <1>1 DEF WithoutStop
  <1>3. SinkFates' = [SinkFates EXCEPT ![r] = IF closed THEN "refused" ELSE "offered"]
    BY <1>1 DEF CheckClosed, SinkFates, SinkFate
  <1>4. SinkFates[r] = "new"
    BY <1>1 DEF SinkFates, SinkFate
  <1>5. CASE closed
    BY <1>1, <1>2, <1>3, <1>4, <1>5 DEF Sink!Refuse, SinkFates
  <1>6. CASE ~closed
    BY <1>1, <1>2, <1>3, <1>4, <1>6 DEF Sink!Offer, SinkFates
  <1> QED
    BY <1>5, <1>6

\* A record that is put is the youngest of the pending ones.
LEMMA PutSink ==
    ASSUME Inv, NEW r \in Records, Put(r) PROVE Sink!Accept(r)
  <1>1. /\ UNCHANGED <<batch, pc, closed>> /\ fate[r] = "checked"
        /\ queue' = Append(queue, r) /\ fate' = [fate EXCEPT ![r] = "queued"]
    BY DEF Put, workerVars, closeVars
  <1>2. fate \in [Records -> Fates]
    BY DEF Inv, TypeOK
  <1>3. WithoutStop(queue') = Append(WithoutStop(queue), r)
    BY <1>1, PendingItems, WithRecord
  <1>4. batch \o Append(WithoutStop(queue), r) = Append(batch \o WithoutStop(queue), r)
    BY PendingItems, SMTT(60)
  <1>5. (batch \o WithoutStop(queue))' = Append(batch \o WithoutStop(queue), r)
    <2>1. (batch \o WithoutStop(queue))' = batch' \o WithoutStop(queue')
      BY DEF WithoutStop
    <2> QED
      BY <1>1, <1>3, <1>4, <2>1
  <1>6. SinkFates' = [SinkFates EXCEPT ![r] = "pending"] /\ SinkFates[r] = "offered"
    BY <1>1, <1>2 DEF SinkFates, SinkFate
  <1> QED
    BY <1>1, <1>5, <1>6 DEF Sink!Accept, SinkFates

LEMMA PutFullSink ==
    ASSUME Inv, NEW r \in Records, PutFull(r) PROVE Sink!Refuse(r)
  <1>1. UNCHANGED <<queue, batch, pc, closed>> /\ fate[r] = "checked" /\ fate \in [Records -> Fates]
    BY DEF PutFull, workerVars, closeVars, Inv, TypeOK
  <1>2. (batch \o WithoutStop(queue))' = batch \o WithoutStop(queue)
    BY <1>1 DEF WithoutStop
  <1>3. SinkFates' = [SinkFates EXCEPT ![r] = "refused"] /\ SinkFates[r] = "offered"
    BY <1>1 DEF PutFull, SinkFates, SinkFate
  <1> QED
    BY <1>1, <1>2, <1>3 DEF Sink!Refuse, SinkFates

\* What the destination shows of a step depends on four things.
LEMMA Shown ==
    ASSUME UNCHANGED <<Pending, fate, closed>>, pc = "exited" <=> pc' = "exited"
    PROVE  UNCHANGED Sink!sinkVars
  <1>1. (batch \o WithoutStop(queue))' = batch \o WithoutStop(queue)
    BY DEF Pending
  <1> QED
    BY <1>1 DEF Sink!sinkVars

LEMMA SamePending ==
    ASSUME UNCHANGED <<queue, batch>> PROVE UNCHANGED Pending
  BY DEF Pending, WithoutStop

LEMMA PutStopSink ==
    ASSUME Inv, PutStop PROVE UNCHANGED Sink!sinkVars
  <1>1. UNCHANGED <<batch, pc, closed, fate>> /\ closer = "stop"
    BY DEF PutStop, workerVars
  <1>2. WithoutStop(queue') = WithoutStop(queue)
    <2>1. \A i \in 1..Len(queue) : queue[i] # Stop
      BY <1>1 DEF Inv, SentinelInv
    <2>2. queue' = queue \/ queue' = Append(queue, Stop)
      BY DEF PutStop
    <2> QED
      BY <2>1, <2>2, PendingItems, WithStop
  <1>3. UNCHANGED Pending
    BY <1>1, <1>2 DEF Pending, WithoutStop
  <1> QED
    BY <1>1, <1>3, Shown

\* The sentinel leaves the queue unseen; a record goes from the queue to the batch.
LEMMA TakeSink ==
    ASSUME Inv, queue # <<>>, queue' = Tail(queue),
           IF Head(queue) = Stop THEN batch' = batch ELSE batch' = Append(batch, Head(queue))
    PROVE  UNCHANGED Pending
  <1>1. Pending' = batch' \o WithoutStop(Tail(queue))
    BY DEF Pending, WithoutStop
  <1>2. /\ queue \in Seq(Items) /\ OneStop(queue) /\ Tail(queue) \in Seq(Items)
        /\ OneStop(Tail(queue))
        /\ WithoutStop(Tail(queue)) \in Seq(Records)
        /\ Len(WithoutStop(Tail(queue))) \in Nat
    <2>1. queue \in Seq(Items) /\ OneStop(queue)
      BY PendingItems
    <2>2. Tail(queue) \in Seq(Items) /\ OneStop(Tail(queue))
      BY <2>1, TailItems, WithoutHead
    <2>3. WithoutStop(Tail(queue)) \in Seq(Records)
      BY <2>2, WithoutStopItems
    <2> QED
      BY <2>1, <2>2, <2>3
  <1>3. CASE Head(queue) = Stop
    BY <1>1, <1>2, <1>3, WithoutHead DEF Pending
  <1>4. CASE Head(queue) # Stop
    <2> DEFINE e == Head(queue)
               w == WithoutStop(Tail(queue))
               a == Append(batch, e)
    <2>1. /\ e \in Records
          /\ Len(WithoutStop(queue)) = Len(w) + 1
          /\ WithoutStop(queue)[1] = e
          /\ \A j \in 1..Len(w) : WithoutStop(queue)[j + 1] = w[j]
      BY <1>2, <1>4, WithoutHead
    <2>2. Pending' = a \o w
      BY <1>1, <1>4
    <2>3. w \in Seq(Records) /\ Len(w) \in Nat
      BY <1>2
    <2> HIDE DEF e, w
    <2>4. /\ a \in Seq(Records) /\ Len(batch) \in Nat /\ Len(a) = Len(batch) + 1
          /\ \A i \in 1..Len(batch) : a[i] = batch[i]
          /\ a[Len(batch) + 1] = e
      BY <2>1, PendingItems, AppendItems
    <2> HIDE DEF a
    <2>5. /\ a \o w \in Seq(Records) /\ Len(a \o w) = Len(a) + Len(w)
          /\ \A i \in 1..(Len(a) + Len(w)) :
                (a \o w)[i] = IF i <= Len(a) THEN a[i] ELSE w[i - Len(a)]
      BY <2>3, <2>4, ConcatProperties
    <2>6. Len(a \o w) = Len(Pending)
      BY <2>1, <2>3, <2>4, <2>5, PendingItems
    <2>7. ASSUME NEW i \in 1..Len(Pending)
          PROVE  (a \o w)[i] = Pending[i]
      <3>1. i \in 1..(Len(a) + Len(w))
        BY <2>5, <2>6
      <3>2. CASE i <= Len(batch)
        <4>1. i \in 1..Len(batch) /\ i <= Len(a)
          BY <2>4, <3>1, <3>2
        <4> QED
          BY <2>4, <2>5, <3>1, <4>1, PendingItems
      <3>3. CASE i = Len(batch) + 1
        <4>1. (a \o w)[i] = e
          BY <2>3, <2>4, <2>5, <3>1, <3>3
        <4>2. 1 \in 1..Len(WithoutStop(queue))
          BY <2>1, <2>3
        <4>3. Pending[Len(batch) + 1] = e
          BY <2>1, <4>2, PendingItems
        <4> QED
          BY <3>3, <4>1, <4>3
      <3>4. CASE i > Len(batch) + 1
        <4> DEFINE j == i - Len(a)
        <4>1. j \in 1..Len(w) /\ i = Len(batch) + (j + 1) /\ ~(i <= Len(a))
          BY <2>3, <2>4, <3>1, <3>4
        <4>2. j + 1 \in 1..Len(WithoutStop(queue))
          BY <2>1, <2>3, <4>1
        <4>3. (a \o w)[i] = w[j]
          BY <2>5, <3>1, <4>1
        <4>4. Pending[Len(batch) + (j + 1)] = WithoutStop(queue)[j + 1]
          BY <4>2, PendingItems
        <4> QED
          BY <2>1, <4>1, <4>3, <4>4
      <3> QED
        BY <2>4, <3>1, <3>2, <3>3, <3>4
    <2> QED
      BY <2>2, <2>5, <2>6, <2>7, PendingItems, SeqEqual
  <1> QED
    BY <1>3, <1>4

LEMMA GetSink ==
    ASSUME Inv, Get PROVE UNCHANGED Sink!sinkVars
  <1>1. /\ UNCHANGED <<fate, closed>> /\ pc # "exited" /\ pc' # "exited"
        /\ queue # <<>> /\ queue' = Tail(queue)
    BY DEF Get, closeVars
  <1>2. batch = <<>>
    BY DEF Inv, BatchInv, Get
  <1>3. Append(batch, Head(queue)) = <<Head(queue)>>
    BY <1>2
  <1>4. IF Head(queue) = Stop THEN batch' = batch ELSE batch' = Append(batch, Head(queue))
    BY <1>3 DEF Get
  <1> QED
    BY <1>1, <1>4, TakeSink, Shown

LEMMA GatherOneSink ==
    ASSUME Inv, GatherOne PROVE UNCHANGED Sink!sinkVars
  <1>1. /\ UNCHANGED <<fate, closed, pc>> /\ queue # <<>> /\ queue' = Tail(queue)
        /\ IF Head(queue) = Stop THEN batch' = batch ELSE batch' = Append(batch, Head(queue))
    BY DEF GatherOne, Gathered, closeVars
  <1> QED
    BY <1>1, TakeSink, Shown

\* A batch is what is oldest of the pending records.
LEMMA DeliverSink ==
    ASSUME Inv, Deliver, batch # <<>>
    PROVE  \E n \in 1..BatchSize, k \in 0..BatchSize : Sink!HandOver(n, k)
  <1> DEFINE n == Len(batch)
  <1>1. /\ pc = "deliver" /\ pc' # "exited" /\ UNCHANGED <<queue, closed>> /\ batch' = <<>>
        /\ \E k \in 0..Len(batch) : Settle(k)
    <2>1. BuildFails \/ Write
      BY DEF Deliver, DeliverNothing, NothingToWrite
    <2>2. 0 \in 0..Len(batch)
      BY PendingItems
    <2> QED
      BY <2>1, <2>2 DEF BuildFails, Write, EndBatch, closeVars
  <1>2. PICK k \in 0..Len(batch) : Settle(k)
    BY <1>1
  <1>3. n \in 1..BatchSize /\ k \in 0..BatchSize /\ k \in 0..n
    <2>1. Len(batch) # 0
      BY PendingItems
    <2>2. Len(batch) \in Nat /\ Len(batch) <= BatchSize
      BY PendingItems DEF Inv, TypeOK
    <2> QED
      BY <1>2, <2>1, <2>2, QueueAssumption
  <1>4. n \in 1..Len(Pending)
    BY <1>3, PendingItems
  <1>5. Pending' = SubSeq(Pending, n + 1, Len(Pending))
    <2> DEFINE w == WithoutStop(queue)
               p == Pending
    <2>1. /\ w \in Seq(Records) /\ Len(w) \in Nat /\ p \in Seq(Records) /\ n \in Nat
          /\ Len(p) = n + Len(w)
          /\ \A i \in 1..Len(w) : p[n + i] = w[i]
      BY PendingItems
    <2>2. Pending' = w
      <3>1. Pending' = batch' \o WithoutStop(queue')
        BY DEF Pending, WithoutStop
      <3> QED
        BY <1>1, <2>1, <3>1
    <2> HIDE DEF n, w, p
    <2>3. \A i \in (n + 1)..Len(p) : p[i] \in Records
      BY <2>1
    <2>4. /\ SubSeq(p, n + 1, Len(p)) \in Seq(Records)
          /\ Len(SubSeq(p, n + 1, Len(p))) = Len(w)
          /\ \A i \in 1..Len(w) : SubSeq(p, n + 1, Len(p))[i] = p[n + i]
      <3>1. n + 1 \in Int /\ Len(p) \in Int /\ Len(p) - (n + 1) + 1 = Len(w)
        BY <2>1
      <3>2. /\ SubSeq(p, n + 1, Len(p)) \in Seq(Records)
            /\ Len(SubSeq(p, n + 1, Len(p))) =
                  IF n + 1 <= Len(p) THEN Len(p) - (n + 1) + 1 ELSE 0
            /\ \A i \in 1..(Len(p) - (n + 1) + 1) :
                  SubSeq(p, n + 1, Len(p))[i] = p[(n + 1) + i - 1]
        BY <2>3, <3>1, SubSeqProperties, SMTT(60)
      <3>3. Len(SubSeq(p, n + 1, Len(p))) = Len(w)
        BY <2>1, <3>2
      <3>4. ASSUME NEW i \in 1..Len(w)
            PROVE  SubSeq(p, n + 1, Len(p))[i] = p[n + i]
        <4>1. i \in 1..(Len(p) - (n + 1) + 1) /\ (n + 1) + i - 1 = n + i
          BY <2>1, <3>1
        <4> QED
          BY <3>2, <4>1
      <3> QED
        BY <3>2, <3>3, <3>4
    <2>5. SubSeq(p, n + 1, Len(p)) = w
      BY <2>1, <2>4, SeqEqual
    <2> QED
      BY <2>2, <2>5 DEF p
  <1>6. \A i \in 1..n : Pending[i] = batch[i]
    BY PendingItems
  <1>7. SinkFates' = [r \in Records |->
                         IF \E i \in 1..k : Pending[i] = r THEN "written"
                         ELSE IF \E i \in (k + 1)..n : Pending[i] = r THEN "failed"
                         ELSE SinkFates[r]]
    <2>1. ASSUME NEW r \in Records
          PROVE  /\ (\E i \in 1..k : Pending[i] = r) <=> (\E i \in 1..k : batch[i] = r)
                 /\ (\E i \in (k + 1)..n : Pending[i] = r)
                       <=> (\E i \in (k + 1)..n : batch[i] = r)
      BY <1>3, <1>6
    <2>2. ASSUME NEW r \in Records
          PROVE  SinkFate(fate'[r]) = IF \E i \in 1..k : batch[i] = r THEN "written"
                                      ELSE IF \E i \in (k + 1)..n : batch[i] = r THEN "failed"
                                      ELSE SinkFate(fate[r])
      BY <1>2 DEF Settle, SinkFate
    <2> QED
      BY <2>1, <2>2 DEF SinkFates
  <1>8. Sink!HandOver(n, k)
    <2> HIDE DEF n
    <2> QED
      BY <1>1, <1>3, <1>4, <1>5, <1>7 DEF Sink!HandOver, Pending, SinkFates
  <1> QED
    BY <1>3, <1>8

LEMMA NextSink ==
    ASSUME Inv, [Next]_vars PROVE [Sink!SinkNext]_Sink!sinkVars
  <1>1. ASSUME NEW r \in Records, CheckClosed(r) \/ FinishEnqueue(r)
        PROVE  Sink!SinkNext
    BY <1>1, CheckClosedSink, PutSink, PutFullSink DEF FinishEnqueue, Sink!SinkNext
  <1>2. CASE CloseAgain
    BY <1>2, SamePending, Shown DEF CloseAgain, workerVars
  <1>3. CASE CloseBegin
    <2>1. UNCHANGED <<queue, batch, fate, pc>> /\ ~closed /\ closed'
      BY <1>3 DEF CloseBegin, AlreadyClosed, workerVars
    <2>2. (batch \o WithoutStop(queue))' = batch \o WithoutStop(queue)
      BY <2>1 DEF WithoutStop
    <2>3. Sink!CloseSink
      BY <2>1, <2>2 DEF Sink!CloseSink
    <2> QED
      BY <2>3 DEF Sink!SinkNext
  <1>4. CASE PutStop
    BY <1>4, PutStopSink
  <1>5. CASE JoinReturns
    BY <1>5, SamePending, Shown DEF JoinReturns, workerVars
  <1>6. CASE Get
    BY <1>6, GetSink
  <1>7. CASE GetTimesOut
    BY <1>7, SamePending, Shown DEF GetTimesOut, closeVars
  <1>8. CASE AfterTimeout
    BY <1>8, SamePending, Shown DEF AfterTimeout, closeVars
  <1>9. CASE GatherOne
    BY <1>9, GatherOneSink
  <1>10. CASE GatherDone
    BY <1>10, SamePending, Shown DEF GatherDone, closeVars
  <1>11. CASE Deliver /\ batch # <<>>
    BY <1>11, DeliverSink DEF Sink!SinkNext
  <1>12. CASE Deliver /\ batch = <<>>
    <2>1. DeliverNothing
      BY <1>12 DEF Deliver, BuildFails, Write, NothingToWrite
    <2>2. UNCHANGED <<queue, batch, fate, closed>> /\ pc # "exited" /\ pc' # "exited"
      BY <1>12, <2>1 DEF DeliverNothing, EndBatch, closeVars
    <2> QED
      BY <2>2, SamePending, Shown
  <1>13. CASE CloseWriter
    <2>1. UNCHANGED <<queue, batch, fate, closed>> /\ closed /\ pc # "exited" /\ pc' = "exited"
      BY <1>13 DEF CloseWriter, closeVars, Inv, FlagInv
    <2>2. (batch \o WithoutStop(queue))' = batch \o WithoutStop(queue)
      BY <2>1 DEF WithoutStop
    <2>3. Sink!StopSink
      BY <2>1, <2>2 DEF Sink!StopSink
    <2> QED
      BY <2>3 DEF Sink!SinkNext
  <1>14. CASE UNCHANGED vars
    BY <1>14, SamePending, Shown DEF vars
  <1> QED
    BY <1>1, <1>2, <1>3, <1>4, <1>5, <1>6, <1>7, <1>8, <1>9, <1>10, <1>11, <1>12, <1>13, <1>14
       DEF Next, FinishClose, Worker

\* What the queued destination does is what RecordSink promises: an accepted record
\* is handed over at most once, oldest first, and none after it has stopped.
THEOREM SinkImplemented == Spec => ImplementsSink
  <1> QED
    BY InitSink, NextSink, Invariance, PTL DEF Spec, ImplementsSink, Sink!SinkSpec
===============================================================================
