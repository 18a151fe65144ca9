--------------------------- MODULE BenchJSPublish ---------------------------
(***************************************************************************)
(* What one client of `nats bench js pub` does between its trigger and its  *)
(* flush (benchCmd.jsPublisher in cli/bench_command.go): it publishes its   *)
(* share of the messages one by one ("sync"), in batches whose              *)
(* acknowledgements it awaits together ("async"), in batches the stream    *)
(* stores as a whole ("atomic"), or through the library's fast publisher   *)
(* ("fast"), and keeps one latency per batch in a slice it has sized       *)
(* beforehand.  BenchPublish holds one turn of this loop as one action.    *)
(*                                                                         *)
(* Messages are numbered from 0, without the client's offset.              *)
(*                                                                         *)
(* An operator whose comment says "Mutant" is no part of the model: it is   *)
(* the operator it names with a plausible bug, which a property refutes.   *)
(***************************************************************************)
EXTENDS Integers, Sequences

CONSTANTS
  NumMsg,      \* the client's share
  BatchSize,   \* --batch
  Types        \* the publish types to consider

ASSUME JSPublishAssumption ==
  /\ NumMsg \in Nat \ {0}
  /\ BatchSize \in Nat \ {0}
  /\ Types \subseteq {"sync", "async", "atomic", "fast"}

VARIABLES
  type,     \* jsPubType
  pc,       \* where jsPublisher is, or how it returned
  i,        \* messages of the batches that are complete
  j,        \* messages of the current batch published so far
  commit,   \* does the reused message carry the Nats-Batch-Commit header?
  latencies,  \* latencies recorded
  ackSeq,   \* "fast": the highest acknowledgement seen
  status,   \* what has become of each message
  copies,   \* how often the stream holds each message
  staged    \* "atomic": the messages of the batch the server has open

stream == <<status, copies, staged>>
vars == <<type, pc, i, j, commit, latencies, ackSeq, stream>>

Msgs == 0..(NumMsg - 1)

Smaller(a, b) == IF a < b THEN a ELSE b

\* Mutant of Size: the last batch is not cut short.
SizeFull == BatchSize

\* min(c.batchSize, numMsg-i)
Size == Smaller(BatchSize, NumMsg - i)

\* Batches that are needed, the last one perhaps a short one.
Batches == (NumMsg + BatchSize - 1) \div BatchSize

\* The length of the latencies slice, which "async" grows as it needs.
Room == IF type = "atomic" THEN Batches ELSE NumMsg

Returned == {"done", "failed", "panic"}

TypeOK ==
  /\ type \in Types
  /\ pc \in {"loop", "publish", "acks"} \cup Returned
  /\ i \in 0..NumMsg /\ j \in 0..BatchSize
  /\ commit \in BOOLEAN
  /\ latencies \in 0..NumMsg /\ ackSeq \in 0..NumMsg
  /\ status \in [Msgs -> {"unsent", "sent", "stored", "acked", "refused"}]
  /\ copies \in [Msgs -> Nat]
  /\ staged \in Seq(Msgs)

Init ==
  /\ type \in Types
  /\ pc = "loop"
  /\ i = 0 /\ j = 0
  /\ commit = FALSE
  /\ latencies = 0 /\ ackSeq = 0
  /\ status = [n \in Msgs |-> "unsent"]
  /\ copies = [n \in Msgs |-> 0]
  /\ staged = <<>>

(***************************************************************************)
(* Steps the four types share.                                             *)
(***************************************************************************)

\* A latency goes into the slice, and the publisher goes to the place given:
\* writing past the end of the slice panics.
Record(to) ==
  IF type # "async" /\ latencies >= Room
  THEN pc' = "panic" /\ UNCHANGED latencies
  ELSE pc' = to /\ latencies' = latencies + 1

\* A call of the client library returns an error: one that publishes, or one
\* of those before the first message.
Fails ==
  /\ \/ pc = "publish"
     \/ pc = "loop" /\ (i = 0 \/ type = "fast" \/ (type = "sync" /\ i < NumMsg))
  /\ pc' = "failed"
  /\ UNCHANGED <<type, i, j, commit, latencies, ackSeq, stream>>

\* The loop is over; the fast publisher still has to be closed.
LoopEnds ==
  /\ pc = "loop"
  /\ type # "fast"
  /\ i >= NumMsg
  /\ pc' = "done"
  /\ UNCHANGED <<type, i, j, commit, latencies, ackSeq, stream>>

\* The server stores one copy of message n, whose acknowledgement is awaited.
Store(n) == copies' = [copies EXCEPT ![n] = @ + 1]
Mark(n, s) == status' = [status EXCEPT ![n] = s]

(***************************************************************************)
(* "sync": a request for each message.                                     *)
(***************************************************************************)

PublishSync ==
  /\ type = "sync" /\ pc = "loop" /\ i < NumMsg
  /\ Store(i) /\ Mark(i, "acked")
  /\ Record("loop")
  /\ i' = i + 1
  /\ UNCHANGED <<type, j, commit, ackSeq, staged>>

\* The message is stored and its acknowledgement gets lost.
PublishSyncUnheard ==
  /\ type = "sync" /\ pc = "loop" /\ i < NumMsg
  /\ Store(i) /\ Mark(i, "stored")
  /\ pc' = "failed"
  /\ UNCHANGED <<type, i, j, commit, latencies, ackSeq, staged>>

(***************************************************************************)
(* "async" and "atomic": a batch begins.                                   *)
(***************************************************************************)

\* Mutant of BeginBatch: the commit header stays on the reused message.
BeginBatchCommitted ==
  /\ type \in {"async", "atomic"} /\ pc = "loop" /\ i < NumMsg
  /\ pc' = "publish"
  /\ j' = 0
  /\ UNCHANGED <<type, i, commit, latencies, ackSeq, stream>>

BeginBatch ==
  /\ type \in {"async", "atomic"} /\ pc = "loop" /\ i < NumMsg
  /\ pc' = "publish"
  /\ j' = 0
  /\ commit' = FALSE
  /\ UNCHANGED <<type, i, latencies, ackSeq, stream>>

PublishAsync ==
  /\ type = "async" /\ pc = "publish" /\ j < Size
  /\ Mark(i + j, "sent")
  /\ j' = j + 1
  /\ pc' = IF j' = Size THEN "acks" ELSE "publish"
  /\ UNCHANGED <<type, i, commit, latencies, ackSeq, copies, staged>>

\* The server works on what has been sent, whatever the publisher is doing.
StoreAsync(n) ==
  /\ type = "async" /\ status[n] = "sent"
  /\ Store(n) /\ Mark(n, "stored")
  /\ UNCHANGED <<type, pc, i, j, commit, latencies, ackSeq, staged>>

AnswerAsync(n) ==
  /\ type = "async"
  /\ \/ status[n] = "stored" /\ Mark(n, "acked")
     \/ status[n] = "sent" /\ Mark(n, "refused")
  /\ UNCHANGED <<type, pc, i, j, commit, latencies, ackSeq, copies, staged>>

InBatch == i..(i + j - 1)

\* Mutant of AllAnswered: a refused message is not noticed.
AllAnsweredBlindly ==
  /\ type = "async" /\ pc = "acks"
  /\ \A n \in InBatch : status[n] \in {"acked", "refused"}
  /\ i' = i + Size
  /\ Record("loop")
  /\ UNCHANGED <<type, j, commit, ackSeq, stream>>

\* PublishAsyncComplete(): every future is settled, and one error is enough.
AllAnswered ==
  /\ type = "async" /\ pc = "acks"
  /\ \A n \in InBatch : status[n] = "acked"
  /\ i' = i + Size
  /\ Record("loop")
  /\ UNCHANGED <<type, j, commit, ackSeq, stream>>

OneRefused ==
  /\ type = "async" /\ pc = "acks"
  /\ \A n \in InBatch : status[n] \in {"acked", "refused"}
  /\ \E n \in InBatch : status[n] = "refused"
  /\ pc' = "failed"
  /\ UNCHANGED <<type, i, j, commit, latencies, ackSeq, stream>>

\* Mutant of AckTimeout: there is no timeout.
AckTimeoutNever == FALSE

\* Mutant of AckTimeout: after the timeout the next batch is begun.
AckTimeoutGoesOn ==
  /\ type = "async" /\ pc = "acks"
  /\ pc' = "loop"
  /\ i' = i + Size
  /\ UNCHANGED <<type, j, commit, latencies, ackSeq, stream>>

AckTimeout ==
  /\ type = "async" /\ pc = "acks"
  /\ pc' = "failed"
  /\ UNCHANGED <<type, i, j, commit, latencies, ackSeq, stream>>

(***************************************************************************)
(* "atomic": the server stages a batch until a message with the commit      *)
(* header arrives; a message out of sequence throws the batch away.        *)
(***************************************************************************)

Last == j = Size - 1

InSequence == j = 0 \/ Len(staged) = j

Staged == IF j = 0 THEN <<i>> ELSE Append(staged, i + j)

\* The server receives the next message: Nats-Batch-Sequence is j + 1.
ServerTakes ==
  IF InSequence /\ commit'
  THEN /\ copies' = [n \in Msgs |->
                       copies[n] + (IF \E k \in 1..Len(Staged) : Staged[k] = n
                                    THEN 1 ELSE 0)]
       /\ staged' = <<>>
  ELSE /\ staged' = IF InSequence THEN Staged ELSE <<>>
       /\ UNCHANGED copies

\* Any message but the last one: published without waiting for an answer.
PublishStaged ==
  /\ type = "atomic" /\ pc = "publish" /\ ~Last
  /\ UNCHANGED commit
  /\ ServerTakes
  /\ Mark(i + j, "sent")
  /\ j' = j + 1
  /\ UNCHANGED <<type, pc, i, latencies, ackSeq>>

\* The last message commits, and its acknowledgement is for all of them.
Commit ==
  /\ type = "atomic" /\ pc = "publish" /\ Last
  /\ InSequence
  /\ commit' = TRUE
  /\ ServerTakes
  /\ status' = [n \in Msgs |-> IF n \in i..(i + j) THEN "acked" ELSE status[n]]
  /\ Record("loop")
  /\ i' = i + Size
  /\ UNCHANGED <<type, j, ackSeq>>

\* The acknowledgement of the commit is lost, or it is an error.
CommitFails ==
  /\ type = "atomic" /\ pc = "publish" /\ Last
  /\ commit' = TRUE
  /\ ServerTakes
  /\ pc' = "failed"
  /\ UNCHANGED <<type, i, j, latencies, ackSeq, status>>

\* The server gives up the batch it has open.
ServerDrops ==
  /\ staged # <<>>
  /\ staged' = <<>>
  /\ UNCHANGED <<type, pc, i, j, commit, latencies, ackSeq, status, copies>>

(***************************************************************************)
(* "fast": the library batches; it tells the highest acknowledgement it    *)
(* has, and never one for a message it was not given.                      *)
(***************************************************************************)

\* Mutant of Heard: an acknowledgement seen before counts again.
HeardAgain(a) == a >= ackSeq

Heard(a) == a > ackSeq

AddMsg ==
  /\ type = "fast" /\ pc = "loop" /\ i < NumMsg
  /\ \E a \in ackSeq..(i + 1) :
       /\ ackSeq' = a
       /\ IF Heard(a) THEN Record("loop") ELSE UNCHANGED <<pc, latencies>>
  /\ Mark(i, "sent")
  /\ i' = i + 1
  /\ UNCHANGED <<type, j, commit, copies, staged>>

\* fp.Close(): the whole batch is stored, and the rest of it acknowledged.
Close ==
  /\ type = "fast" /\ pc = "loop" /\ i >= NumMsg
  /\ copies' = [n \in Msgs |-> copies[n] + 1]
  /\ status' = [n \in Msgs |-> "acked"]
  /\ IF NumMsg > ackSeq THEN Record("done")
     ELSE pc' = "done" /\ UNCHANGED latencies
  /\ UNCHANGED <<type, i, j, commit, ackSeq, staged>>

Publisher ==
  \/ Fails \/ LoopEnds
  \/ PublishSync \/ PublishSyncUnheard
  \/ BeginBatch
  \/ PublishAsync \/ AllAnswered \/ OneRefused \/ AckTimeout
  \/ PublishStaged \/ Commit \/ CommitFails
  \/ AddMsg \/ Close

Next ==
  \/ Publisher
  \/ \E n \in Msgs : StoreAsync(n) \/ AnswerAsync(n)
  \/ ServerDrops

Spec == Init /\ [][Next]_vars

\* The publisher's goroutine runs; the server owes it nothing, its calls have
\* timeouts.
FairSpec == Spec /\ WF_vars(Publisher)

(***************************************************************************)
(* Properties.                                                             *)
(***************************************************************************)

\* The slice is never written past its end, and a publisher that succeeds has
\* one latency for every batch it sent (the library decides how many batches
\* that is for "fast").
LatenciesFit ==
  /\ pc # "panic"
  /\ pc = "done" =>
       \/ type = "fast" /\ latencies \in 1..NumMsg
       \/ type = "sync" /\ latencies = NumMsg
       \/ type \in {"async", "atomic"} /\ latencies = Batches

\* A publisher that succeeds has put every message into the stream exactly
\* once, and no publisher puts one there twice.
StoredOnce ==
  /\ \A n \in Msgs : copies[n] <= 1
  /\ pc = "done" => \A n \in Msgs : copies[n] = 1 /\ status[n] = "acked"

\* The batches of "atomic" are stored as a whole or not at all, although one
\* message with its headers is reused for all of them.
BatchesAreAtomic ==
  type = "atomic" =>
    \A m, n \in Msgs : m \div BatchSize = n \div BatchSize => copies[m] = copies[n]

\* At most one batch is under way: no message is published while one of an
\* earlier batch has not been acknowledged.
OneBatchAtATime ==
  \A m, n \in Msgs :
    /\ type \in {"async", "atomic"}
    /\ m \div BatchSize < n \div BatchSize
    /\ status[n] # "unsent"
    => status[m] = "acked"

\* The publisher returns.
Returns == <>(pc \in Returned)
=============================================================================
