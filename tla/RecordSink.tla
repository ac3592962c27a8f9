------------------------------ MODULE RecordSink ------------------------------
(***************************************************************************)
(* What one queued log destination promises to the code that emits         *)
(* records, with the sentinel, the worker loop and the two steps of a put  *)
(* left out: a record is either refused or accepted, accepted records are  *)
(* handed to the writer at most once, in the order in which they were      *)
(* accepted and in batches, and nothing is handed over once the            *)
(* destination has stopped.  QueuedWriter is shown to implement it.        *)
(***************************************************************************)
EXTENDS Naturals, Sequences

CONSTANTS Records,      \* the records offered to the destination
          BatchSize     \* the largest batch handed to the writer

VARIABLES pending,      \* accepted and not yet handed over, oldest first
          fate,         \* what became of each record
          open,         \* TRUE until the destination is closed
          active        \* TRUE until it stops handing records over

sinkVars == <<pending, fate, open, active>>

Fates == {"new", "offered", "pending", "written", "failed", "refused"}

SinkTypeOK ==
    /\ pending \in Seq(Records)
    /\ fate \in [Records -> Fates]
    /\ open \in BOOLEAN
    /\ active \in BOOLEAN

SinkInit ==
    /\ pending = <<>>
    /\ fate = [r \in Records |-> "new"]
    /\ open = TRUE
    /\ active = TRUE

\* Only an open destination considers a record.
Offer(r) ==
    /\ open
    /\ fate[r] = "new"
    /\ fate' = [fate EXCEPT ![r] = "offered"]
    /\ UNCHANGED <<pending, open, active>>

Accept(r) ==
    /\ fate[r] = "offered"
    /\ pending' = Append(pending, r)
    /\ fate' = [fate EXCEPT ![r] = "pending"]
    /\ UNCHANGED <<open, active>>

\* An offered record can be refused at any time (the destination is full); a
\* record that was never offered only once the destination is closed.
Refuse(r) ==
    /\ fate[r] = "offered" \/ (fate[r] = "new" /\ ~open)
    /\ fate' = [fate EXCEPT ![r] = "refused"]
    /\ UNCHANGED <<pending, open, active>>

\* The n oldest records go to the writer, which takes the first k of them.
HandOver(n, k) ==
    /\ active
    /\ n \in 1..Len(pending)
    /\ k \in 0..n
    /\ pending' = SubSeq(pending, n + 1, Len(pending))
    /\ fate' = [r \in Records |->
                    IF \E i \in 1..k : pending[i] = r THEN "written"
                    ELSE IF \E i \in (k + 1)..n : pending[i] = r THEN "failed"
                    ELSE fate[r]]
    /\ UNCHANGED <<open, active>>

CloseSink ==
    /\ open
    /\ open' = FALSE
    /\ UNCHANGED <<pending, fate, active>>

StopSink ==
    /\ ~open
    /\ active
    /\ active' = FALSE
    /\ UNCHANGED <<pending, fate, open>>

SinkNext ==
    \/ \E r \in Records : Offer(r) \/ Accept(r) \/ Refuse(r)
    \/ \E n \in 1..BatchSize, k \in 0..BatchSize : HandOver(n, k)
    \/ CloseSink
    \/ StopSink

SinkSpec == SinkInit /\ [][SinkNext]_sinkVars
===============================================================================
