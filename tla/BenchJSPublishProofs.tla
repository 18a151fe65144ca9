------------------------ MODULE BenchJSPublishProofs ------------------------
(***************************************************************************)
(* BenchJSPublish keeps its types, never writes past the end of its slice   *)
(* of latencies, stores every message at most once, stores the batches of   *)
(* "atomic" as a whole and has one batch under way at most, for every      *)
(* share and every batch size.                                             *)
(*                                                                         *)
(* The first three need each other: the slice of "atomic" is long enough   *)
(* because what is published is a whole number of batches until the last   *)
(* one, and a message is stored once because what lies behind i has been    *)
(* acknowledged and what lies ahead of i + j has not been sent.  The other  *)
(* two follow with what lies ahead of the current batch, whose first        *)
(* message has a multiple of the batch size for its number.                *)
(***************************************************************************)
EXTENDS BenchJSPublish, NumberProofs, SequenceTheorems

(***************************************************************************)
(* The inductive invariant.                                                *)
(***************************************************************************)

\* One latency for each message, acknowledgement or batch, as the type has it.
LatenciesKeepUp ==
  /\ pc # "panic"
  /\ type = "sync" => latencies = i
  /\ type = "fast" =>
       /\ ackSeq <= i
       /\ ackSeq > 0 => latencies > 0
       /\ pc # "done" => latencies <= ackSeq
       /\ pc = "done" => latencies > 0
  /\ type \in {"async", "atomic"} =>
       /\ i < NumMsg => i = latencies * BatchSize
       /\ i = NumMsg => latencies = Batches
  /\ pc = "done" => i = NumMsg
  /\ pc \in {"publish", "acks"} => i < NumMsg /\ type \in {"async", "atomic"}
  /\ pc = "publish" => j < Size
  /\ pc = "acks" => j = Size /\ type = "async"

\* "sync": the message at i is the only one whose fate may be unknown.
SyncStored ==
  type = "sync" =>
    \A n \in Msgs :
      /\ n < i => copies[n] = 1 /\ status[n] = "acked"
      /\ n > i => copies[n] = 0
      /\ n = i => copies[n] = 0 \/ (pc = "failed" /\ copies[n] = 1)

\* "async": the server stores what was sent, and nothing beyond i + j was.
AsyncStored ==
  type = "async" =>
    \A n \in Msgs :
      /\ copies[n] = IF status[n] \in {"stored", "acked"} THEN 1 ELSE 0
      /\ n < i => status[n] = "acked"
      /\ pc = "loop" /\ n >= i => status[n] = "unsent"
      /\ pc \in {"publish", "acks"} /\ n >= i + j => status[n] = "unsent"

\* "atomic": the open batch holds the beginning of the current one, in order.
AtomicStored ==
  type = "atomic" =>
    /\ \A n \in Msgs :
         /\ n < i => copies[n] = 1 /\ status[n] = "acked"
         /\ n >= i => copies[n] = 0 \/ (pc = "failed" /\ copies[n] = 1)
    /\ pc = "publish" =>
         /\ ~commit
         /\ Len(staged) <= j
         /\ \A k \in 1..Len(staged) : staged[k] = i + k - 1
    /\ pc \in {"loop", "done"} => staged = <<>>

\* "fast": the batch is stored when the publisher is closed.
FastStored ==
  type = "fast" =>
    \A n \in Msgs :
      IF pc = "done" THEN copies[n] = 1 /\ status[n] = "acked" ELSE copies[n] = 0

IInv ==
  /\ TypeOK
  /\ LatenciesKeepUp
  /\ SyncStored /\ AsyncStored /\ AtomicStored /\ FastStored

-----------------------------------------------------------------------------
(***************************************************************************)
(* Arithmetic of batches.                                                  *)
(***************************************************************************)

\* After l full batches there is room for one more, a last one perhaps cut
\* short: Batches counts them all.
LEMMA NextBatch ==
  ASSUME NEW l \in Nat, l * BatchSize < NumMsg
  PROVE  /\ l < Batches
         /\ l < NumMsg
         /\ Batches \in Nat
         /\ NumMsg <= (l + 1) * BatchSize => l + 1 = Batches
<1>1. NumMsg \in Nat \ {0} /\ BatchSize \in Nat \ {0}
  BY JSPublishAssumption
<1> DEFINE top == NumMsg + BatchSize - 1
<1>2. top \in Nat
  BY <1>1
<1>3. Batches \in Nat /\ top < (Batches + 1) * BatchSize
  BY <1>1, <1>2, SMT DEF Batches
<1>4. l * BatchSize >= l
  BY <1>1
<1>5. l < NumMsg
  BY <1>1, <1>4
<1>6. ASSUME l >= Batches PROVE FALSE
  <2>1. l * BatchSize >= Batches * BatchSize
    BY <1>1, <1>3, <1>6
  <2>2. (Batches + 1) * BatchSize = Batches * BatchSize + BatchSize
    BY <1>1, <1>3
  <2> QED
    BY <1>1, <1>3, <2>1, <2>2
<1>7. ASSUME NumMsg <= (l + 1) * BatchSize PROVE l + 1 = Batches
  <2>1. (l + 1) * BatchSize = l * BatchSize + BatchSize
    BY <1>1
  <2>2. (l + 2) * BatchSize = (l + 1) * BatchSize + BatchSize
    BY <1>1
  <2>3. (l + 1) * BatchSize <= top /\ top < (l + 2) * BatchSize
    BY <1>1, <1>7, <2>1, <2>2
  <2>4. top \div BatchSize = l + 1
    BY <1>1, <1>2, <2>3, Quotient
  <2> QED
    BY <2>4 DEF Batches
<1> QED
  BY <1>3, <1>5, <1>6, <1>7

-----------------------------------------------------------------------------
(***************************************************************************)
(* Where the publisher is and how many latencies it has.                   *)
(***************************************************************************)

Scalars ==
  /\ type \in Types
  /\ pc \in {"loop", "publish", "acks"} \cup Returned
  /\ i \in 0..NumMsg /\ j \in 0..BatchSize
  /\ latencies \in 0..NumMsg /\ ackSeq \in 0..NumMsg

LEMMA KeepUpInit == Init => Scalars /\ LatenciesKeepUp
<1> SUFFICES ASSUME Init PROVE Scalars /\ LatenciesKeepUp
  OBVIOUS
<1>1. NumMsg \in Nat \ {0} /\ BatchSize \in Nat \ {0}
  BY JSPublishAssumption
<1> QED
  BY <1>1 DEF Init, Scalars, LatenciesKeepUp

\* What completing the current batch does to the count of the latencies.
LEMMA BatchCompletes ==
  ASSUME Scalars, LatenciesKeepUp, type \in {"async", "atomic"}, i < NumMsg
  PROVE  /\ Size \in 1..BatchSize
         /\ i + Size \in 0..NumMsg
         /\ latencies < NumMsg
         /\ latencies < Batches
         /\ i + Size < NumMsg => i + Size = (latencies + 1) * BatchSize
         /\ i + Size = NumMsg => latencies + 1 = Batches
<1>1. NumMsg \in Nat \ {0} /\ BatchSize \in Nat \ {0}
  BY JSPublishAssumption
<1>2. /\ Size \in 1..BatchSize
      /\ i + Size \in 0..NumMsg
      /\ i + Size < NumMsg => Size = BatchSize
  BY <1>1 DEF Scalars, Size, Smaller
<1>3. latencies \in Nat /\ i = latencies * BatchSize
  BY <1>1 DEF Scalars, LatenciesKeepUp
<1>4. /\ latencies < Batches
      /\ latencies < NumMsg
      /\ NumMsg <= (latencies + 1) * BatchSize => latencies + 1 = Batches
  BY <1>3, NextBatch
<1>5. (latencies + 1) * BatchSize = i + BatchSize
  BY <1>1, <1>3
<1>6. i \in Nat
  BY <1>1 DEF Scalars
<1>7. i + Size < NumMsg => i + Size = (latencies + 1) * BatchSize
  BY <1>2, <1>5
<1>8. i + Size = NumMsg => latencies + 1 = Batches
  <2> SUFFICES ASSUME i + Size = NumMsg PROVE NumMsg <= i + BatchSize
    BY <1>4, <1>5
  <2> QED
    BY <1>1, <1>2, <1>6
<1> QED
  BY <1>2, <1>4, <1>7, <1>8

LEMMA KeepUpStep ==
  Scalars /\ LatenciesKeepUp /\ Next => Scalars' /\ LatenciesKeepUp'
<1> SUFFICES ASSUME Scalars, LatenciesKeepUp, Next
             PROVE  Scalars' /\ LatenciesKeepUp'
  OBVIOUS
<1>0. NumMsg \in Nat \ {0} /\ BatchSize \in Nat \ {0}
  BY JSPublishAssumption
<1>1. CASE Fails
  BY <1>0, <1>1 DEF Fails, Scalars, LatenciesKeepUp, Returned, Batches
<1>2. CASE LoopEnds
  BY <1>0, <1>2 DEF LoopEnds, Scalars, LatenciesKeepUp, Returned, Batches
<1>3. CASE PublishSync
  BY <1>0, <1>3 DEF PublishSync, Record, Room, Scalars, LatenciesKeepUp,
                    Returned, Batches
<1>4. CASE PublishSyncUnheard
  BY <1>0, <1>4 DEF PublishSyncUnheard, Scalars, LatenciesKeepUp, Returned
<1>5. CASE BeginBatch
  <2>1. Size > 0 /\ Size' = Size
    BY <1>0, <1>5, BatchCompletes DEF BeginBatch, Size, Smaller, Scalars
  <2> QED
    BY <1>0, <1>5, <2>1 DEF BeginBatch, Scalars, LatenciesKeepUp, Batches
<1>6. CASE PublishAsync
  <2>1. Size \in 1..BatchSize /\ Size' = Size
    BY <1>0, <1>6, BatchCompletes
    DEF PublishAsync, Size, Smaller, Scalars, LatenciesKeepUp
  <2> QED
    BY <1>0, <1>6, <2>1 DEF PublishAsync, Scalars, LatenciesKeepUp, Batches
<1>7. CASE AllAnswered
  <2>1. i < NumMsg
    BY <1>7 DEF AllAnswered, LatenciesKeepUp
  <2> QED
    BY <1>0, <1>7, <2>1, BatchCompletes
    DEF AllAnswered, Record, Scalars, LatenciesKeepUp, Batches
<1>8. CASE OneRefused \/ AckTimeout
  BY <1>0, <1>8 DEF OneRefused, AckTimeout, Scalars, LatenciesKeepUp,
                    Returned, Batches
<1>9. CASE PublishStaged
  <2>1. Size \in 1..BatchSize /\ Size' = Size
    BY <1>0, <1>9, BatchCompletes
    DEF PublishStaged, Size, Smaller, Scalars, LatenciesKeepUp
  <2> QED
    BY <1>0, <1>9, <2>1
    DEF PublishStaged, Last, Scalars, LatenciesKeepUp, Batches
<1>10. CASE Commit
  <2>1. i < NumMsg
    BY <1>10 DEF Commit, LatenciesKeepUp
  <2> QED
    BY <1>0, <1>10, <2>1, BatchCompletes
    DEF Commit, Record, Room, Scalars, LatenciesKeepUp, Batches
<1>11. CASE CommitFails
  BY <1>0, <1>11 DEF CommitFails, Scalars, LatenciesKeepUp, Returned, Batches
<1>12. CASE AddMsg
  BY <1>0, <1>12
  DEF AddMsg, Heard, Record, Room, Scalars, LatenciesKeepUp
<1>13. CASE Close
  BY <1>0, <1>13
  DEF Close, Record, Room, Scalars, LatenciesKeepUp, Returned
<1>14. CASE (\E n \in Msgs : StoreAsync(n) \/ AnswerAsync(n)) \/ ServerDrops
  BY <1>0, <1>14 DEF StoreAsync, AnswerAsync, ServerDrops, Scalars,
                     LatenciesKeepUp, Batches, Size, Smaller
<1> QED
  BY <1>1, <1>2, <1>3, <1>4, <1>5, <1>6, <1>7, <1>8, <1>9, <1>10, <1>11,
     <1>12, <1>13, <1>14 DEF Next, Publisher

-----------------------------------------------------------------------------
(***************************************************************************)
(* What has become of the messages.                                        *)
(***************************************************************************)

Fates ==
  /\ status \in [Msgs -> {"unsent", "sent", "stored", "acked", "refused"}]
  /\ copies \in [Msgs -> Nat]

Bounds == Scalars /\ LatenciesKeepUp /\ Fates

\* Where messages are written in the numbers: always below NumMsg.
LEMMA MsgRange ==
  ASSUME Scalars, LatenciesKeepUp
  PROVE  /\ i \in Nat /\ j \in Nat
         /\ Msgs \subseteq Nat
         /\ i < NumMsg => i \in Msgs
         /\ pc = "publish" => i + j \in Msgs /\ i + Size <= NumMsg /\ Size \in Nat
         /\ pc = "acks" => i + j <= NumMsg /\ Size \in Nat
<1>1. NumMsg \in Nat \ {0} /\ BatchSize \in Nat \ {0}
  BY JSPublishAssumption
<1>2. i \in Nat /\ j \in Nat /\ Msgs \subseteq Nat /\ (i < NumMsg => i \in Msgs)
  BY <1>1 DEF Scalars, Msgs
<1>3. ASSUME pc \in {"publish", "acks"}
      PROVE  Size \in Nat /\ i + Size <= NumMsg
  BY <1>1, <1>3, BatchCompletes DEF LatenciesKeepUp, Scalars
<1>4. pc = "publish" => i + j \in Msgs
  BY <1>1, <1>2, <1>3 DEF LatenciesKeepUp, Msgs
<1>5. pc = "acks" => i + j <= NumMsg
  BY <1>1, <1>2, <1>3 DEF LatenciesKeepUp
<1> QED
  BY <1>2, <1>3, <1>4, <1>5

LEMMA FatesInit ==
  Init => Fates /\ SyncStored /\ AsyncStored /\ AtomicStored /\ FastStored
<1> SUFFICES ASSUME Init
             PROVE  Fates /\ SyncStored /\ AsyncStored /\ AtomicStored
                      /\ FastStored
  OBVIOUS
<1>1. Msgs \subseteq Nat
  BY JSPublishAssumption DEF Msgs
<1> QED
  BY <1>1 DEF Init, Fates, SyncStored, AsyncStored, AtomicStored, FastStored

\* "sync": only the two ways of publishing touch the stream.
LEMMA SyncStep ==
  ASSUME Bounds, SyncStored, type = "sync", Next
  PROVE  Fates' /\ SyncStored'
<1> USE DEF Bounds
<1>1. i \in Nat /\ Msgs \subseteq Nat /\ (i < NumMsg => i \in Msgs)
  BY MsgRange
<1>2. CASE PublishSync
  BY <1>1, <1>2 DEF PublishSync, Record, Store, Mark, Fates, SyncStored
<1>3. CASE PublishSyncUnheard
  BY <1>1, <1>3 DEF PublishSyncUnheard, Store, Mark, Fates, SyncStored,
                    LatenciesKeepUp
<1>4. CASE Fails \/ LoopEnds
  BY <1>1, <1>4 DEF Fails, LoopEnds, stream, Fates, SyncStored
<1>5. CASE ServerDrops
  BY <1>1, <1>5 DEF ServerDrops, Fates, SyncStored
<1> QED
  BY <1>2, <1>3, <1>4, <1>5
  DEF Next, Publisher, BeginBatch, PublishAsync, AllAnswered, OneRefused,
      AckTimeout, PublishStaged, Commit, CommitFails, AddMsg, Close,
      StoreAsync, AnswerAsync

\* "fast": nothing is stored before Close, and Close stores everything.
LEMMA FastStep ==
  ASSUME Bounds, FastStored, type = "fast", Next
  PROVE  Fates' /\ FastStored'
<1> USE DEF Bounds
<1>1. i \in Nat /\ Msgs \subseteq Nat /\ (i < NumMsg => i \in Msgs)
  BY MsgRange
<1>2. CASE AddMsg
  BY <1>1, <1>2 DEF AddMsg, Record, Mark, Fates, FastStored
<1>3. CASE Close
  BY <1>1, <1>3, KeepUpStep
  DEF Close, Record, Fates, FastStored, LatenciesKeepUp
<1>4. CASE Fails
  BY <1>1, <1>4 DEF Fails, stream, Fates, FastStored
<1>5. CASE ServerDrops
  BY <1>1, <1>5 DEF ServerDrops, Fates, FastStored
<1> QED
  BY <1>2, <1>3, <1>4, <1>5
  DEF Next, Publisher, LoopEnds, PublishSync, PublishSyncUnheard, BeginBatch,
      PublishAsync, AllAnswered, OneRefused, AckTimeout, PublishStaged, Commit,
      CommitFails, StoreAsync, AnswerAsync

\* "async": a message is sent once, because nothing from i + j on was, and the
\* server answers what it was sent.
LEMMA AsyncStep ==
  ASSUME Bounds, AsyncStored, type = "async", Next
  PROVE  Fates' /\ AsyncStored'
<1> USE DEF Bounds
<1>1. /\ i \in Nat /\ j \in Nat /\ Msgs \subseteq Nat
      /\ pc = "publish" => i + j \in Msgs /\ Size \in Nat
      /\ pc = "acks" => Size \in Nat
  BY MsgRange
<1>2. CASE BeginBatch
  BY <1>1, <1>2 DEF BeginBatch, stream, Fates, AsyncStored
<1>3. CASE PublishAsync
  <2>1. status[i + j] = "unsent" /\ copies[i + j] = 0
    BY <1>1, <1>3 DEF PublishAsync, AsyncStored
  <2>2. /\ status' = [status EXCEPT ![i + j] = "sent"]
        /\ copies' = copies /\ i' = i /\ j' = j + 1 /\ type' = type
        /\ pc' \in {"acks", "publish"}
    BY <1>3 DEF PublishAsync, Mark
  <2>3. Fates'
    BY <1>1, <2>2 DEF Fates
  <2>4. ASSUME NEW n \in Msgs
        PROVE  /\ copies'[n] = IF status'[n] \in {"stored", "acked"} THEN 1 ELSE 0
               /\ n < i => status'[n] = "acked"
               /\ n >= i + (j + 1) => status'[n] = "unsent"
    BY <1>1, <1>3, <2>1, <2>2 DEF PublishAsync, Fates, AsyncStored
  <2> QED
    BY <2>2, <2>3, <2>4 DEF AsyncStored
<1>4. CASE AllAnswered
  <2>1. j = Size /\ i + j = i'
    BY <1>4 DEF AllAnswered, LatenciesKeepUp
  <2>2. ASSUME NEW n \in Msgs, n < i' PROVE status[n] = "acked"
    <3>1. n < i \/ n \in InBatch
      BY <1>1, <2>1, <2>2 DEF InBatch
    <3> QED
      BY <1>4, <3>1 DEF AllAnswered, AsyncStored
  <2>3. ASSUME NEW n \in Msgs, n >= i' PROVE status[n] = "unsent"
    BY <1>4, <2>1, <2>3 DEF AllAnswered, AsyncStored
  <2>4. status' = status /\ copies' = copies /\ pc' = "loop"
    BY <1>4 DEF AllAnswered, stream, Record
  <2> QED
    BY <2>2, <2>3, <2>4 DEF Fates, AsyncStored
<1>5. CASE Fails \/ LoopEnds \/ OneRefused \/ AckTimeout
  BY <1>1, <1>5 DEF Fails, LoopEnds, OneRefused, AckTimeout, stream, Fates,
                    AsyncStored
<1>6. CASE \E n \in Msgs : StoreAsync(n) \/ AnswerAsync(n)
  <2> PICK n \in Msgs : StoreAsync(n) \/ AnswerAsync(n)
    BY <1>6
  <2>1. status[n] \in {"sent", "stored"}
    BY DEF StoreAsync, AnswerAsync
  <2>2. /\ i' = i /\ j' = j /\ pc' = pc
        /\ \E s \in {"stored", "acked", "refused"} :
             status' = [status EXCEPT ![n] = s]
    BY DEF StoreAsync, AnswerAsync, Mark
  <2>3. /\ copies'[n] = IF status'[n] \in {"stored", "acked"} THEN 1 ELSE 0
        /\ Fates'
        /\ \A m \in Msgs \ {n} : copies'[m] = copies[m]
    BY DEF StoreAsync, AnswerAsync, Store, Mark, Fates, AsyncStored
  <2>4. \A m \in Msgs \ {n} : status'[m] = status[m]
    BY <2>2 DEF Fates
  <2> QED
    BY <1>1, <2>1, <2>2, <2>3, <2>4 DEF AsyncStored
<1>7. CASE ServerDrops
  BY <1>1, <1>7 DEF ServerDrops, Fates, AsyncStored
<1> QED
  BY <1>2, <1>3, <1>4, <1>5, <1>6, <1>7
  DEF Next, Publisher, PublishSync, PublishSyncUnheard, PublishStaged, Commit,
      CommitFails, AddMsg, Close

\* What the server has staged after message i + j is the batch up to there.
LEMMA StagedInOrder ==
  ASSUME Bounds, AtomicStored, staged \in Seq(Msgs),
         type = "atomic", pc = "publish", InSequence
  PROVE  /\ Staged \in Seq(Msgs)
         /\ Len(Staged) = j + 1
         /\ \A k \in 1..(j + 1) : Staged[k] = i + k - 1
<1>1. i \in Nat /\ j \in Nat /\ i \in Msgs /\ i + j \in Msgs
  BY MsgRange DEF Bounds, LatenciesKeepUp
<1>2. CASE j = 0
  BY <1>1, <1>2 DEF Staged
<1>3. CASE j # 0
  <2>1. Staged = Append(staged, i + j) /\ Len(staged) = j
    BY <1>3 DEF Staged, InSequence
  <2>2. \A k \in 1..j : staged[k] = i + k - 1
    BY <2>1 DEF AtomicStored
  <2> QED
    BY <1>1, <2>1, <2>2
<1> QED
  BY <1>2, <1>3

\* The server only ever stages messages there are.
LEMMA StagedStep ==
  ASSUME Bounds, AtomicStored, staged \in Seq(Msgs), Next
  PROVE  staged' \in Seq(Msgs)
<1>1. <<>> \in Seq(Msgs)
  BY EmptySeq, Zenon
<1>2. ASSUME type = "atomic", pc = "publish", ServerTakes
      PROVE  staged' \in Seq(Msgs)
  BY <1>1, <1>2, StagedInOrder DEF ServerTakes
<1>3. CASE PublishStaged \/ Commit \/ CommitFails
  BY <1>2, <1>3 DEF PublishStaged, Commit, CommitFails
<1>4. CASE ServerDrops
  BY <1>1, <1>4 DEF ServerDrops
<1> QED
  BY <1>3, <1>4
  DEF Next, Publisher, Fails, LoopEnds, PublishSync, PublishSyncUnheard,
      BeginBatch, PublishAsync, AllAnswered, OneRefused, AckTimeout, AddMsg,
      Close, StoreAsync, AnswerAsync, stream

\* A commit in sequence stores the batch and nothing else, any other message
\* stores nothing.
LEMMA ServerStores ==
  ASSUME Bounds, AtomicStored, staged \in Seq(Msgs),
         type = "atomic", pc = "publish", ServerTakes
  PROVE  /\ copies' \in [Msgs -> Nat]
         /\ \A n \in Msgs :
              copies'[n] = IF InSequence /\ commit' /\ n \in i..(i + j)
                           THEN copies[n] + 1 ELSE copies[n]
<1>1. i \in Nat /\ j \in Nat /\ Msgs \subseteq Nat
  BY MsgRange DEF Bounds
<1>2. CASE InSequence /\ commit'
  <2>1. /\ Len(Staged) = j + 1
        /\ \A k \in 1..(j + 1) : Staged[k] = i + k - 1
    BY <1>2, StagedInOrder
  <2>2. ASSUME NEW n \in Msgs
        PROVE  (\E k \in 1..Len(Staged) : Staged[k] = n) <=> n \in i..(i + j)
    <3>1. ASSUME n \in i..(i + j) PROVE n - i + 1 \in 1..(j + 1)
      BY <1>1, <3>1
    <3>2. ASSUME n \in i..(i + j) PROVE Staged[n - i + 1] = n
      BY <1>1, <2>1, <3>1, <3>2
    <3>3. ASSUME NEW k \in 1..(j + 1) PROVE Staged[k] \in i..(i + j)
      BY <1>1, <2>1, <3>3
    <3> QED
      BY <2>1, <3>1, <3>2, <3>3
  <2>3. copies' = [n \in Msgs |->
                     copies[n] + (IF \E k \in 1..Len(Staged) : Staged[k] = n
                                  THEN 1 ELSE 0)]
    BY <1>2 DEF ServerTakes
  <2> QED
    BY <1>2, <2>2, <2>3 DEF Bounds, Fates
<1>3. CASE ~(InSequence /\ commit')
  BY <1>3 DEF ServerTakes, Bounds, Fates
<1> QED
  BY <1>2, <1>3

\* "atomic": a batch is stored when it is committed and not before, and a
\* commit that fails ends the publisher.
LEMMA AtomicStep ==
  ASSUME Bounds, AtomicStored, staged \in Seq(Msgs), type = "atomic", Next
  PROVE  Fates' /\ AtomicStored'
<1>1. /\ i \in Nat /\ j \in Nat /\ Msgs \subseteq Nat
      /\ pc = "publish" => i + j \in Msgs /\ Size \in Nat
  BY MsgRange DEF Bounds
<1>2. CASE BeginBatch
  BY <1>1, <1>2 DEF BeginBatch, stream, Bounds, Fates, AtomicStored
<1>3. CASE PublishStaged
  <2>1. /\ pc = "publish" /\ pc' = pc /\ i' = i /\ j' = j + 1
        /\ commit' = commit /\ ~commit /\ ServerTakes /\ type' = type
        /\ status' = [status EXCEPT ![i + j] = "sent"]
    BY <1>3 DEF PublishStaged, Mark, AtomicStored
  <2>2. copies' = copies /\ staged' = IF InSequence THEN Staged ELSE <<>>
    BY <2>1 DEF ServerTakes
  <2>3. Fates'
    BY <2>1, <2>2 DEF Bounds, Fates
  <2>4. /\ Len(staged') <= j'
        /\ \A k \in 1..Len(staged') : staged'[k] = i' + k - 1
    <3>1. CASE InSequence
      BY <1>1, <2>1, <2>2, <3>1, StagedInOrder
    <3>2. CASE ~InSequence
      BY <1>1, <2>1, <2>2, <3>2
    <3> QED
      BY <3>1, <3>2
  <2>5. \A n \in Msgs : n < i => status'[n] = status[n]
    BY <1>1, <2>1 DEF Bounds, Fates
  <2>6. ASSUME NEW n \in Msgs
        PROVE  /\ n < i' => copies'[n] = 1 /\ status'[n] = "acked"
               /\ n >= i' => copies'[n] = 0
    BY <1>1, <2>1, <2>2, <2>5 DEF AtomicStored
  <2> QED
    BY <2>1, <2>3, <2>4, <2>6 DEF AtomicStored
<1>4. CASE Commit
  <2>1. /\ pc = "publish" /\ InSequence /\ commit' /\ ServerTakes
        /\ i' = i + Size /\ Size = j + 1
        /\ status' = [n \in Msgs |-> IF n \in i..(i + j) THEN "acked"
                                     ELSE status[n]]
    BY <1>1, <1>4 DEF Commit, Last
  <2>2. pc' = "loop"
    BY <1>4, KeepUpStep DEF Commit, Record, Bounds, LatenciesKeepUp
  <2>3. staged' = <<>>
    BY <2>1 DEF ServerTakes
  <2>4. ASSUME NEW n \in Msgs
        PROVE  /\ n < i' => copies'[n] = 1 /\ status'[n] = "acked"
               /\ n >= i' => copies'[n] = 0
    BY <1>1, <2>1, ServerStores DEF AtomicStored
  <2>5. Fates'
    BY <2>1, ServerStores DEF Bounds, Fates
  <2> QED
    BY <2>2, <2>3, <2>4, <2>5 DEF AtomicStored
<1>5. CASE CommitFails
  <2>1. /\ pc = "publish" /\ ServerTakes /\ i' = i /\ pc' = "failed"
        /\ status' = status
    BY <1>5 DEF CommitFails
  <2>2. ASSUME NEW n \in Msgs
        PROVE  /\ n < i => copies'[n] = 1
               /\ n >= i => copies'[n] \in {0, 1}
    BY <1>1, <2>1, ServerStores DEF AtomicStored
  <2>3. Fates'
    BY <2>1, ServerStores DEF Bounds, Fates
  <2> QED
    BY <1>1, <2>1, <2>2, <2>3 DEF AtomicStored
<1>6. CASE Fails \/ LoopEnds
  BY <1>1, <1>6 DEF Fails, LoopEnds, stream, Bounds, Fates, AtomicStored
<1>7. CASE ServerDrops
  BY <1>1, <1>7 DEF ServerDrops, Bounds, Fates, AtomicStored
<1> QED
  BY <1>2, <1>3, <1>4, <1>5, <1>6, <1>7
  DEF Next, Publisher, PublishSync, PublishSyncUnheard, PublishAsync,
      AllAnswered, OneRefused, AckTimeout, AddMsg, Close, StoreAsync,
      AnswerAsync, Bounds, LatenciesKeepUp

-----------------------------------------------------------------------------
(***************************************************************************)
(* The theorems.                                                           *)
(***************************************************************************)

LEMMA TypeParts ==
  TypeOK <=> Scalars /\ Fates /\ staged \in Seq(Msgs) /\ commit \in BOOLEAN
BY Zenon DEF TypeOK, Scalars, Fates

LEMMA Initially == Init => IInv
<1> SUFFICES ASSUME Init PROVE IInv
  OBVIOUS
<1>1. staged \in Seq(Msgs) /\ commit \in BOOLEAN
  BY EmptySeq, Zenon DEF Init
<1> QED
  BY <1>1, KeepUpInit, FatesInit, TypeParts, Zenon DEF IInv

LEMMA CommitStep ==
  commit \in BOOLEAN /\ Next => commit' \in BOOLEAN
BY Zenon DEF Next, Publisher, Fails, LoopEnds, PublishSync, PublishSyncUnheard,
  BeginBatch, PublishAsync, AllAnswered, OneRefused, AckTimeout, PublishStaged,
  Commit, CommitFails, AddMsg, Close, StoreAsync, AnswerAsync, ServerDrops

LEMMA TypeNever == Next => type' = type
BY DEF Next, Publisher, Fails, LoopEnds, PublishSync, PublishSyncUnheard,
  BeginBatch, PublishAsync, AllAnswered, OneRefused, AckTimeout, PublishStaged,
  Commit, CommitFails, AddMsg, Close, StoreAsync, AnswerAsync, ServerDrops

LEMMA Inductive == IInv /\ [Next]_vars => IInv'
<1> SUFFICES ASSUME IInv, [Next]_vars PROVE IInv'
  OBVIOUS
<1>1. CASE Next
  <2>1. /\ Scalars /\ Fates /\ staged \in Seq(Msgs) /\ commit \in BOOLEAN
        /\ Bounds
    BY TypeParts DEF IInv, Bounds
  <2>2. Scalars' /\ LatenciesKeepUp'
    BY <1>1, <2>1, KeepUpStep DEF IInv
  <2>3. staged' \in Seq(Msgs)
    BY <1>1, <2>1, StagedStep DEF IInv
  <2>4. commit' \in BOOLEAN
    BY <1>1, <2>1, CommitStep, Zenon
  <2>5. type' = type
    BY <1>1, TypeNever
  <2>6. Fates' /\ SyncStored' /\ AsyncStored' /\ AtomicStored' /\ FastStored'
    <3>1. type \in {"sync", "async", "atomic", "fast"}
      BY <2>1, JSPublishAssumption DEF Scalars
    <3>2. CASE type = "sync"
      BY <1>1, <2>1, <2>5, <3>2, SyncStep
      DEF IInv, AsyncStored, AtomicStored, FastStored
    <3>3. CASE type = "async"
      BY <1>1, <2>1, <2>5, <3>3, AsyncStep
      DEF IInv, SyncStored, AtomicStored, FastStored
    <3>4. CASE type = "atomic"
      BY <1>1, <2>1, <2>5, <3>4, AtomicStep
      DEF IInv, SyncStored, AsyncStored, FastStored
    <3>5. CASE type = "fast"
      BY <1>1, <2>1, <2>5, <3>5, FastStep
      DEF IInv, SyncStored, AsyncStored, AtomicStored
    <3> QED
      BY <3>1, <3>2, <3>3, <3>4, <3>5
  <2>7. (Scalars /\ Fates /\ staged \in Seq(Msgs) /\ commit \in BOOLEAN)'
    BY <2>2, <2>3, <2>4, <2>6, Zenon
  <2>8. TypeOK'
    BY <2>7, Zenon DEF TypeOK, Scalars, Fates
  <2> QED
    BY <2>2, <2>6, <2>8, Zenon DEF IInv
<1>2. CASE UNCHANGED vars
  BY <1>2 DEF vars, stream, IInv, TypeOK, LatenciesKeepUp, SyncStored,
              AsyncStored, AtomicStored, FastStored, Size, Batches, Smaller
<1> QED
  BY <1>1, <1>2

LEMMA Always == Spec => []IInv
BY Initially, Inductive, PTL DEF Spec

\* The publisher's variables keep their types, whatever its share, its batch
\* size and its way of publishing.
THEOREM TypeCorrect == Spec => []TypeOK
BY Always, PTL DEF IInv

\* jsPublisher never writes past the end of the slice it made, and returns a
\* latency for every batch, whatever its share and its batch size.
THEOREM SliceIsLongEnough == Spec => []LatenciesFit
<1>1. IInv => LatenciesFit
  <2> SUFFICES ASSUME IInv PROVE LatenciesFit
    OBVIOUS
  <2>1. /\ NumMsg \in Nat \ {0}
        /\ type \in {"sync", "async", "atomic", "fast"}
        /\ latencies \in 0..NumMsg
    BY JSPublishAssumption DEF IInv, TypeOK
  <2> QED
    BY <2>1 DEF IInv, LatenciesKeepUp, LatenciesFit
<1> QED
  BY <1>1, Always, PTL

\* Whatever the publisher's share, batch size and type: no message is stored
\* twice, and all are stored when it succeeds.
THEOREM MessagesStoredOnce == Spec => []StoredOnce
<1>1. IInv => StoredOnce
  <2> SUFFICES ASSUME IInv, NEW n \in Msgs
               PROVE  /\ copies[n] <= 1
                      /\ pc = "done" => copies[n] = 1 /\ status[n] = "acked"
    BY DEF StoredOnce
  <2>1. /\ NumMsg \in Nat \ {0} /\ i \in 0..NumMsg
        /\ type \in {"sync", "async", "atomic", "fast"}
        /\ n \in Nat /\ n < NumMsg
        /\ pc = "done" => n < i
    BY JSPublishAssumption DEF IInv, TypeOK, LatenciesKeepUp, Msgs
  <2>2. CASE type = "sync"
    BY <2>1, <2>2 DEF IInv, SyncStored
  <2>3. CASE type = "async"
    BY <2>1, <2>3 DEF IInv, AsyncStored
  <2>4. CASE type = "atomic"
    BY <2>1, <2>4 DEF IInv, AtomicStored
  <2>5. CASE type = "fast"
    BY <2>1, <2>5 DEF IInv, FastStored
  <2> QED
    BY <2>1, <2>2, <2>3, <2>4, <2>5
<1> QED
  BY <1>1, Always, PTL

-----------------------------------------------------------------------------
(***************************************************************************)
(* Whole batches.                                                          *)
(***************************************************************************)

\* "atomic": of what lies ahead of i nothing is stored or, once a commit has
\* failed after the server carried it out, the current batch.
BatchStored ==
  type = "atomic" =>
    \/ \A n \in Msgs : n >= i => copies[n] = 0
    \/ /\ pc = "failed" /\ i < NumMsg
       /\ \A n \in Msgs : n >= i => copies[n] = IF n < i + Size THEN 1 ELSE 0

\* Nothing beyond the current batch has been published.
NothingAhead ==
  type \in {"async", "atomic"} =>
    \A n \in Msgs : n >= i + Size => status[n] = "unsent"

\* The batches before number l are the messages before l * BatchSize.
LEMMA BatchBoundary ==
  ASSUME NEW x \in Nat, NEW l \in Nat
  PROVE  x < l * BatchSize <=> x \div BatchSize < l
<1> DEFINE b == BatchSize
           q == x \div b
<1>1. b \in Nat \ {0}
  BY JSPublishAssumption
<1>2. q \in Nat /\ q * b <= x /\ x < (q + 1) * b
  BY <1>1, SMT
<1> HIDE DEF q, b
<1>3. ASSUME q < l PROVE x < l * b
  <2>1. (q + 1) * b <= l * b
    BY <1>1, <1>2, <1>3
  <2> QED
    BY <1>1, <1>2, <2>1
<1>4. ASSUME ~(q < l) PROVE ~(x < l * b)
  <2>1. l * b <= q * b
    BY <1>1, <1>2, <1>4
  <2> QED
    BY <1>1, <1>2, <2>1
<1> QED
  BY <1>3, <1>4 DEF q, b

\* Two messages of one batch lie on the same side of the current batch.
LEMMA BatchTogether ==
  ASSUME IInv, type \in {"async", "atomic"}, NEW m \in Msgs, NEW n \in Msgs,
         m \div BatchSize = n \div BatchSize
  PROVE  /\ m < i <=> n < i
         /\ i < NumMsg => (m < i + Size <=> n < i + Size)
<1>1. /\ NumMsg \in Nat \ {0} /\ BatchSize \in Nat \ {0}
      /\ m \in Nat /\ n \in Nat /\ m < NumMsg /\ n < NumMsg
      /\ i \in 0..NumMsg /\ latencies \in Nat
  BY JSPublishAssumption DEF IInv, TypeOK, Msgs
<1>2. CASE i < NumMsg
  <2>1. i = latencies * BatchSize
    BY <1>2 DEF IInv, LatenciesKeepUp
  <2>2. m < i <=> n < i
    BY <1>1, <2>1, BatchBoundary
  <2>3. m < (latencies + 1) * BatchSize <=> n < (latencies + 1) * BatchSize
    <3>1. latencies + 1 \in Nat
      BY <1>1
    <3>2. \A x \in {m, n} : x < (latencies + 1) * BatchSize
                              <=> x \div BatchSize < latencies + 1
      BY <1>1, <3>1, BatchBoundary
    <3> QED
      BY <3>2
  <2>4. (latencies + 1) * BatchSize = i + BatchSize
    BY <1>1, <2>1
  <2>5. CASE Size = BatchSize
    BY <1>1, <2>2, <2>3, <2>4, <2>5
  <2>6. CASE i + Size = NumMsg
    BY <1>1, <2>2, <2>6
  <2>7. Size = BatchSize \/ i + Size = NumMsg
    BY <1>1 DEF Size, Smaller
  <2> QED
    BY <2>5, <2>6, <2>7
<1>3. CASE i = NumMsg
  BY <1>1, <1>3
<1> QED
  BY <1>1, <1>2, <1>3

\* A message of an earlier batch than one within the current batch lies
\* behind i.
LEMMA EarlierBatch ==
  ASSUME IInv, type \in {"async", "atomic"}, NEW m \in Msgs, NEW n \in Msgs,
         m \div BatchSize < n \div BatchSize, n < i + Size
  PROVE  m < i
<1>1. /\ NumMsg \in Nat \ {0} /\ BatchSize \in Nat \ {0}
      /\ m \in Nat /\ n \in Nat /\ m < NumMsg
      /\ i \in 0..NumMsg /\ latencies \in Nat
  BY JSPublishAssumption DEF IInv, TypeOK, Msgs
<1>2. CASE i < NumMsg
  <2>1. i = latencies * BatchSize
    BY <1>2 DEF IInv, LatenciesKeepUp
  <2>2. (latencies + 1) * BatchSize = i + BatchSize
    BY <1>1, <2>1
  <2>3. n < (latencies + 1) * BatchSize
    BY <1>1, <2>2 DEF Size, Smaller
  <2>4. n \div BatchSize < latencies + 1
    BY <1>1, <2>3, BatchBoundary
  <2>5. n \div BatchSize \in Int /\ m \div BatchSize \in Int
    BY <1>1
  <2>6. m \div BatchSize < latencies
    BY <1>1, <2>4, <2>5
  <2> QED
    BY <1>1, <2>1, <2>6, BatchBoundary
<1>3. CASE i = NumMsg
  BY <1>1, <1>3
<1> QED
  BY <1>1, <1>2, <1>3

LEMMA BatchStoredStep == IInv /\ BatchStored /\ [Next]_vars => BatchStored'
<1> SUFFICES ASSUME IInv, BatchStored, [Next]_vars PROVE BatchStored'
  OBVIOUS
<1>1. CASE type # "atomic" \/ UNCHANGED vars
  BY <1>1, TypeNever DEF vars, stream, BatchStored, Size, Smaller
<1>2. CASE type = "atomic" /\ Next
  <2>1. /\ Bounds /\ AtomicStored /\ staged \in Seq(Msgs)
        /\ NumMsg \in Nat \ {0} /\ BatchSize \in Nat \ {0}
        /\ i \in 0..NumMsg /\ j \in Nat /\ Msgs \subseteq Nat
    BY TypeParts, JSPublishAssumption, MsgRange DEF IInv, Bounds, Scalars
  <2>2. CASE Fails \/ LoopEnds \/ BeginBatch \/ ServerDrops
    BY <1>2, <2>2 DEF Fails, LoopEnds, BeginBatch, ServerDrops, stream,
                      BatchStored, Size, Smaller
  <2>3. CASE PublishStaged
    <3>1. ~commit' /\ ServerTakes /\ type' = type /\ i' = i /\ pc' = pc
      BY <1>2, <2>1, <2>3 DEF PublishStaged, AtomicStored
    <3>2. copies' = copies
      BY <3>1 DEF ServerTakes
    <3> QED
      BY <3>1, <3>2 DEF BatchStored, Size, Smaller
  <2>4. CASE Commit
    <3>1. /\ pc = "publish" /\ ServerTakes /\ i' = i + Size /\ type' = type
          /\ Size = j + 1 /\ i < NumMsg
      BY <2>1, <2>4, MsgRange DEF Commit, Last, Bounds, LatenciesKeepUp
    <3>2. \A n \in Msgs : n >= i => copies[n] = 0
      BY <1>2, <3>1 DEF BatchStored
    <3>3. \A n \in Msgs : n >= i' => copies'[n] = 0
      BY <1>2, <2>1, <3>1, <3>2, ServerStores
    <3> QED
      BY <3>3 DEF BatchStored
  <2>5. CASE CommitFails
    <3>1. /\ pc = "publish" /\ ServerTakes /\ i' = i /\ type' = type
          /\ Size = j + 1 /\ i < NumMsg /\ pc' = "failed" /\ Size' = Size
      BY <2>1, <2>5, MsgRange
      DEF CommitFails, Last, Bounds, LatenciesKeepUp, Size, Smaller
    <3>2. \A n \in Msgs : n >= i => copies[n] = 0
      BY <1>2, <3>1 DEF BatchStored
    <3>3. ASSUME NEW n \in Msgs
          PROVE  copies'[n] = IF InSequence /\ commit' /\ n \in i..(i + j)
                              THEN copies[n] + 1 ELSE copies[n]
      BY <1>2, <2>1, <3>1, ServerStores
    <3>4. CASE InSequence /\ commit'
      <4>1. \A n \in Msgs : n >= i => copies'[n] = IF n < i + Size THEN 1 ELSE 0
        BY <2>1, <3>1, <3>2, <3>3, <3>4
      <4> QED
        BY <3>1, <4>1 DEF BatchStored
    <3>5. CASE ~(InSequence /\ commit')
      BY <3>1, <3>2, <3>3, <3>5 DEF BatchStored
    <3> QED
      BY <3>4, <3>5
  <2> QED
    BY <1>2, <2>2, <2>3, <2>4, <2>5
    DEF Next, Publisher, PublishSync, PublishSyncUnheard, PublishAsync,
        AllAnswered, OneRefused, AckTimeout, AddMsg, Close, StoreAsync,
        AnswerAsync, IInv, LatenciesKeepUp
<1> QED
  BY <1>1, <1>2

LEMMA NothingAheadStep == IInv /\ NothingAhead /\ [Next]_vars => NothingAhead'
<1> SUFFICES ASSUME IInv, NothingAhead, [Next]_vars PROVE NothingAhead'
  OBVIOUS
<1>1. CASE type \notin {"async", "atomic"} \/ UNCHANGED vars
  BY <1>1, TypeNever DEF vars, stream, NothingAhead, Size, Smaller
<1>2. CASE type \in {"async", "atomic"} /\ Next
  <2>1. /\ Bounds
        /\ NumMsg \in Nat \ {0} /\ BatchSize \in Nat \ {0}
        /\ i \in 0..NumMsg /\ j \in Nat /\ Msgs \subseteq Nat
        /\ status \in [Msgs -> {"unsent", "sent", "stored", "acked", "refused"}]
    BY TypeParts, JSPublishAssumption, MsgRange
    DEF IInv, Bounds, Scalars, Fates
  <2>2. /\ Size \in Nat
        /\ i' = i => Size' = Size
        /\ i' = i + Size => Size' \in Nat
    BY <2>1 DEF Size, Smaller
  <2>3. CASE UNCHANGED <<type, i, status>>
    BY <2>2, <2>3 DEF NothingAhead
  <2>4. CASE PublishAsync \/ PublishStaged
    <3>1. /\ type' = type /\ i' = i /\ j < Size
          /\ status' = [status EXCEPT ![i + j] = "sent"]
      BY <2>1, <2>4
      DEF PublishAsync, PublishStaged, Mark, Bounds, LatenciesKeepUp
    <3> QED
      BY <2>1, <2>2, <3>1 DEF NothingAhead
  <2>5. CASE AllAnswered
    BY <2>1, <2>2, <2>5 DEF AllAnswered, stream, NothingAhead
  <2>6. CASE Commit
    <3>1. /\ type' = type /\ i' = i + Size /\ Size = j + 1
          /\ \A n \in Msgs : n >= i' => status'[n] = status[n]
      BY <2>1, <2>2, <2>6 DEF Commit, Last
    <3> QED
      BY <2>1, <2>2, <3>1 DEF NothingAhead
  <2>7. CASE \E n \in Msgs : StoreAsync(n) \/ AnswerAsync(n)
    <3> PICK n \in Msgs : StoreAsync(n) \/ AnswerAsync(n)
      BY <2>7
    <3>1. /\ status[n] # "unsent" /\ type' = type /\ i' = i
          /\ \A m \in Msgs \ {n} : status'[m] = status[m]
      BY <2>1 DEF StoreAsync, AnswerAsync, Mark
    <3>2. n < i + Size
      BY <1>2, <2>1, <2>2, <3>1 DEF NothingAhead
    <3> QED
      BY <2>1, <2>2, <3>1, <3>2 DEF NothingAhead
  <2> QED
    BY <1>2, <2>3, <2>4, <2>5, <2>6, <2>7
    DEF Next, Publisher, Fails, LoopEnds, PublishSync, PublishSyncUnheard,
        BeginBatch, OneRefused, AckTimeout, CommitFails, AddMsg, Close,
        ServerDrops, stream
<1> QED
  BY <1>1, <1>2

\* For every share and batch size, a batch of "atomic" is in the stream as a
\* whole or not at all, also when the publisher fails in the middle of one or
\* does not hear of its commit.
THEOREM BatchesStoredWhole == Spec => []BatchesAreAtomic
<1>1. Init => BatchStored
  BY DEF Init, BatchStored
<1>2. IInv /\ BatchStored => BatchesAreAtomic
  <2> SUFFICES ASSUME IInv, BatchStored, type = "atomic",
                      NEW m \in Msgs, NEW n \in Msgs,
                      m \div BatchSize = n \div BatchSize
               PROVE  copies[m] = copies[n]
    BY DEF BatchesAreAtomic
  <2>1. /\ m < i <=> n < i
        /\ i < NumMsg => (m < i + Size <=> n < i + Size)
    BY BatchTogether
  <2>2. \A k \in Msgs : k < i => copies[k] = 1
    BY DEF IInv, AtomicStored
  <2>3. i \in Int /\ m \in Int /\ n \in Int
    BY JSPublishAssumption DEF IInv, TypeOK, Msgs
  <2>4. CASE m < i
    BY <2>1, <2>2, <2>4
  <2>5. CASE m >= i
    BY <2>1, <2>3, <2>5 DEF BatchStored
  <2> QED
    BY <2>3, <2>4, <2>5
<1> QED
  BY <1>1, <1>2, BatchStoredStep, Always, PTL DEF Spec

\* For every share and batch size, no message of a batch is published while
\* one of an earlier batch is not acknowledged.
THEOREM BatchesFollowEachOther == Spec => []OneBatchAtATime
<1>1. Init => NothingAhead
  BY DEF Init, NothingAhead
<1>2. IInv /\ NothingAhead => OneBatchAtATime
  <2> SUFFICES ASSUME IInv, NothingAhead, type \in {"async", "atomic"},
                      NEW m \in Msgs, NEW n \in Msgs,
                      m \div BatchSize < n \div BatchSize,
                      status[n] # "unsent"
               PROVE  status[m] = "acked"
    BY DEF OneBatchAtATime
  <2>1. i \in Int /\ n \in Int /\ Size \in Int
    BY JSPublishAssumption DEF IInv, TypeOK, Msgs, Size, Smaller
  <2>2. n < i + Size
    BY <2>1 DEF NothingAhead
  <2>3. m < i
    BY <2>2, EarlierBatch
  <2> QED
    BY <2>3 DEF IInv, AsyncStored, AtomicStored
<1> QED
  BY <1>1, <1>2, NothingAheadStep, Always, PTL DEF Spec
=============================================================================
