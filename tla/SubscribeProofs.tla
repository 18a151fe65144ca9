-------------------------- MODULE SubscribeProofs --------------------------
(***************************************************************************)
(* For any subjects, limit, buffer and number of messages, in every mode   *)
(* and with every option: the printed sequence, the messages handled and    *)
(* the drops agree; the limit is kept up to what the handlers had in hand;  *)
(* an open recorder holds what was printed, and a command that returns      *)
(* without an error has committed its backup.                               *)
(*                                                                         *)
(* The argument follows each message: it is in one place of the library or *)
(* of a handler, and nothing in such a place has been handled before.       *)
(***************************************************************************)
EXTENDS Subscribe, NumberProofs, SequenceTheorems

(***************************************************************************)
(* The inductive invariant.                                                *)
(***************************************************************************)

\* What adds to received when it is handled.
Counts(m) == m # Nothing /\ m.kind \in {"plain", "request"}

\* The places of messages to come: lane l's hand is place 0, its queue the
\* places from 1.
Place(q, h, l, i) == IF i = 0 THEN h[l] ELSE q[l][i]

Slots(q, h) ==
  {p \in AllSubs \X Nat : /\ p[2] <= Len(q[p[1]])
                          /\ Counts(Place(q, h, p[1], p[2]))}

IdAt(q, h, p) == Place(q, h, p[1], p[2]).id

\* Messages still to be handled have arrived and are not handled yet, and no
\* two are the same.
Distinct(q, h) ==
  \A a, b \in Slots(q, h) : IdAt(q, h, a) = IdAt(q, h, b) => a = b

Fresh ==
  /\ shown \cup matchMap \subseteq 1..arrived
  /\ \A a \in Slots(queue, hand) :
       IdAt(queue, hand, a) \in (1..arrived) \ (shown \cup matchMap)
  /\ Distinct(queue, hand)

\* A message is handled on the lane of its subscription, which exists.
Belongs(m, l) ==
  /\ Lane(m.sub) = l
  /\ m.sub \in Subjects \/ (mode = "match" /\ m.sub = Inbox)
  /\ Counts(m) => m.sub \in Subjects

Lanes ==
  /\ \A l \in AllSubs : hand[l] # Nothing => Belongs(hand[l], l)
  /\ \A l \in AllSubs : \A i \in 1..Len(queue[l]) : Belongs(queue[l][i], l)
  /\ \A s \in Subs \ Subjects : sub[s] = "none"
  /\ mode # "match" => sub[Inbox] = "none"

\* counter is ahead of received by the drops that were noticed.
Counted ==
  /\ counter = received + SumOf(lastDropped, AllSubs)
  /\ \A s \in AllSubs : lastDropped[s] <= dropped[s]
  /\ received = Cardinality(shown \cup matchMap)
  /\ shown \cap matchMap = {}

\* Lanes whose handler has a message.
Busy == {l \in Subjects : hand[l] # Nothing}

\* Nothing is unsubscribed below the limit; when all is, received cannot
\* pass what the handlers have in hand.
Stops ==
  Limit > 0 /\ ~ending =>
    /\ (\E s \in Subjects : sub[s] = "stopped") => received >= Limit
    /\ (\A s \in Subjects : sub[s] = "stopped") =>
         IF mode = "match"
         THEN received = Limit /\ ~ Counts(hand[Inbox])
         ELSE received + Cardinality(Busy) <= Limit + Cardinality(Subjects) - 1

\* Where the recorder is while subscribe() runs.
Recorder ==
  /\ rec = "open" => recorded = shown
  /\ main \in {"subscribing", "waiting", "closing"} =>
       rec \in (IF backup THEN {"open", "broken"} ELSE {"off"})
  /\ main = "committing" => backup /\ rec = "committing"
  /\ main = "done" => rec = IF backup THEN "committed" ELSE "off"

IInv == TypeOK /\ Fresh /\ Lanes /\ Counted /\ Stops /\ Recorder
-----------------------------------------------------------------------------
LEMMA SubjectsAreSubs ==
  /\ Subjects \subseteq Subs /\ Subjects # {} /\ Inbox \notin Subjects
  /\ IsFiniteSet(AllSubs) /\ IsFiniteSet(Subjects)
  /\ mode = "match" => Subjects = Subs
<1>1. Subjects \subseteq Subs /\ Subjects # {}
  BY SubscribeAssumption DEF Subjects
<1>2. IsFiniteSet(Subjects) /\ IsFiniteSet(AllSubs)
  BY <1>1, FS_Subset, FS_AddElement, SubscribeAssumption DEF AllSubs
<1> QED
  BY <1>1, <1>2, SubscribeAssumption DEF Subjects

\* The drops of a message's subscription only grow.
LEMMA DropsGrow ==
  ASSUME TypeOK, Counted, NEW m \in Message
  PROVE  /\ NewDrops(m) \in Nat
         /\ lastDropped[m.sub] + NewDrops(m) <= dropped[m.sub]
BY DEF TypeOK, Counted, NewDrops, Message

(***************************************************************************)
(* Types.                                                                  *)
(***************************************************************************)

LEMMA InitTypes == Init => TypeOK
<1> SUFFICES ASSUME Init PROVE TypeOK
  OBVIOUS
<1>1. /\ queue \in [AllSubs -> Seq(Message)]
      /\ \A l \in AllSubs : Len(queue[l]) <= Buffer
  BY SubscribeAssumption DEF Init
<1>2. /\ sub \in [AllSubs -> {"none", "open", "listed", "stopped", "closed"}]
      /\ hand \in [AllSubs -> Message \cup {Nothing}]
      /\ dropped \in [AllSubs -> Nat] /\ lastDropped \in [AllSubs -> Nat]
      /\ arrived \in 0..NumMsg
  BY SubscribeAssumption DEF Init
<1>3. /\ rec \in {"off", "open", "broken", "committing", "committed", "discarded"}
      /\ timer \in {"off", "armed", "fired"}
      /\ main \in {"subscribing", "waiting", "closing", "committing"} \cup Ended
  BY DEF Init, Ended
<1>4. /\ mode \in Modes /\ wait \in Waits /\ backup \in Backups
      /\ ending \in Endings /\ cancelled \in BOOLEAN
      /\ counter \in Nat /\ received \in Nat
      /\ asked \subseteq Ids
      /\ matchMap \subseteq Ids /\ shown \subseteq Ids /\ recorded \subseteq Ids
  BY DEF Init
<1> QED
  BY <1>1, <1>2, <1>3, <1>4 DEF TypeOK

LEMMA MainTypes == TypeOK /\ MainNext => TypeOK'
<1> SUFFICES ASSUME TypeOK, MainNext PROVE TypeOK'
  OBVIOUS
<1>1. ASSUME NEW s \in Subjects, Create(s) \/ List(s) PROVE TypeOK'
  <2>1. s \in AllSubs
    BY SubjectsAreSubs DEF AllSubs
  <2> QED
    BY <1>1, <2>1 DEF Create, List, TypeOK, options, arrivals, counters, Ended
<1>2. CASE SubscribeFails
  BY <1>2 DEF SubscribeFails, TypeOK, options, arrivals, counters, Ended
<1>3. CASE Subscribed
  BY <1>3 DEF Subscribed, TypeOK, options, arrivals, counters, Ended
<1>4. CASE CloseConn
  <2>1. /\ queue' \in [AllSubs -> Seq(Message)]
        /\ \A l \in AllSubs : Len(queue'[l]) <= Buffer
    BY <1>4, SubscribeAssumption DEF CloseConn
  <2> QED
    BY <1>4, <2>1 DEF CloseConn, TypeOK, options, counters, Ended
<1>5. CASE TakeRecorder
  BY <1>5 DEF TakeRecorder, TypeOK, options, arrivals, counters, Ended
<1>6. CASE Commit
  BY <1>6 DEF Commit, TypeOK, options, arrivals, counters, Ended
<1> QED
  BY <1>1, <1>2, <1>3, <1>4, <1>5, <1>6 DEF MainNext

LEMMA EnqueueTypes ==
  ASSUME TypeOK, NEW m \in Message, Enqueue(m)
  PROVE  /\ queue' \in [AllSubs -> Seq(Message)]
         /\ \A l \in AllSubs : Len(queue'[l]) <= Buffer
         /\ dropped' \in [AllSubs -> Nat]
<1> DEFINE l == Lane(m.sub)
<1>1. l \in AllSubs /\ m.sub \in AllSubs
  BY DEF Lane, Message, AllSubs
<1>2. CASE Len(queue[l]) < Buffer
  <2>1. queue' = [queue EXCEPT ![l] = Append(queue[l], m)] /\ dropped' = dropped
    BY <1>2 DEF Enqueue
  <2>2. /\ Append(queue[l], m) \in Seq(Message)
        /\ Len(Append(queue[l], m)) = Len(queue[l]) + 1
    BY <1>1, AppendProperties DEF TypeOK
  <2>3. Len(queue[l]) \in Nat /\ Buffer \in Nat
    BY <1>1, LenProperties, SubscribeAssumption DEF TypeOK
  <2> HIDE DEF l
  <2> QED
    BY <1>1, <1>2, <2>1, <2>2, <2>3 DEF TypeOK
<1>3. CASE ~ (Len(queue[l]) < Buffer)
  BY <1>1, <1>3 DEF Enqueue, TypeOK
<1> QED
  BY <1>2, <1>3

LEMMA ArriveTypes ==
  ASSUME TypeOK, NEW s \in Subs, Arrive(s) PROVE TypeOK'
<1>1. arrived' \in Ids /\ arrived' \in 0..NumMsg
  BY SubscribeAssumption DEF Arrive, TypeOK, Ids
<1>2. PICK k \in {"plain", "ignored", "request"} :
        /\ Enqueue([sub |-> s, kind |-> k, id |-> arrived'])
        /\ asked' = IF k = "request" THEN asked \cup {arrived'} ELSE asked
  BY DEF Arrive
<1>3. [sub |-> s, kind |-> k, id |-> arrived'] \in Message
  BY <1>1 DEF Message, AllSubs
<1>4. /\ queue' \in [AllSubs -> Seq(Message)]
      /\ \A l \in AllSubs : Len(queue'[l]) <= Buffer
      /\ dropped' \in [AllSubs -> Nat]
  BY <1>2, <1>3, EnqueueTypes
<1> QED
  BY <1>1, <1>2, <1>4 DEF Arrive, TypeOK, options, counters

LEMMA ReplyTypes ==
  ASSUME TypeOK, NEW r \in asked, ReplyArrives(r) PROVE TypeOK'
<1>1. [sub |-> Inbox, kind |-> "reply", id |-> r] \in Message
  BY DEF Message, AllSubs, TypeOK
<1>2. /\ queue' \in [AllSubs -> Seq(Message)]
      /\ \A l \in AllSubs : Len(queue'[l]) <= Buffer
      /\ dropped' \in [AllSubs -> Nat]
  BY <1>1, EnqueueTypes DEF ReplyArrives
<1> QED
  BY <1>2 DEF ReplyArrives, TypeOK, options, counters

\* Taking a message out of a queue.
LEMMA Taken ==
  ASSUME TypeOK, NEW l \in AllSubs, Take(l)
  PROVE  /\ Head(queue[l]) \in Message
         /\ Head(queue[l]) = queue[l][1]
         /\ queue'[l] \in Seq(Message)
         /\ Len(queue[l]) \in Nat \ {0}
         /\ Len(queue'[l]) = Len(queue[l]) - 1
         /\ \A i \in 1..Len(queue'[l]) : queue'[l][i] = queue[l][i + 1]
         /\ \A k \in AllSubs \ {l} : queue'[k] = queue[k] /\ hand'[k] = hand[k]
         /\ hand'[l] = IF Valid(Head(queue[l]).sub) THEN Head(queue[l])
                       ELSE Nothing
<1>1. queue[l] \in Seq(Message) /\ queue[l] # <<>> /\ queue'[l] = Tail(queue[l])
  BY DEF Take, TypeOK
<1>2. /\ Head(queue[l]) \in Message /\ Head(queue[l]) = queue[l][1]
      /\ Tail(queue[l]) \in Seq(Message)
      /\ Len(queue[l]) \in Nat \ {0}
      /\ Len(Tail(queue[l])) = Len(queue[l]) - 1
      /\ \A i \in 1..Len(Tail(queue[l])) : Tail(queue[l])[i] = queue[l][i + 1]
  BY <1>1, HeadTailProperties, LenProperties
<1>3. /\ \A k \in AllSubs \ {l} : queue'[k] = queue[k] /\ hand'[k] = hand[k]
      /\ hand'[l] = IF Valid(Head(queue[l]).sub) THEN Head(queue[l])
                    ELSE Nothing
  BY DEF Take, TypeOK
<1> QED
  BY <1>1, <1>2, <1>3

LEMMA TakeTypes ==
  ASSUME TypeOK, NEW l \in AllSubs, Take(l) PROVE TypeOK'
<1>1. /\ queue' \in [AllSubs -> Seq(Message)]
      /\ hand' \in [AllSubs -> Message \cup {Nothing}]
  BY Taken DEF Take, TypeOK
<1>2. ASSUME NEW k \in AllSubs PROVE Len(queue'[k]) <= Buffer
  <2>1. CASE k = l
    <3>1. /\ Len(queue'[l]) = Len(queue[l]) - 1
          /\ Len(queue[l]) \in Nat /\ Len(queue[l]) <= Buffer
      BY Taken DEF TypeOK
    <3> QED
      BY <2>1, <3>1, SubscribeAssumption
  <2>2. CASE k # l
    BY <2>2, Taken DEF TypeOK
  <2> QED
    BY <2>1, <2>2
<1> QED
  BY <1>1, <1>2 DEF Take, TypeOK, options, counters

LEMMA PrintTypes ==
  ASSUME TypeOK, NEW id \in Ids, PrintMsg(id)
  PROVE  /\ shown' \subseteq Ids /\ recorded' \subseteq Ids
         /\ rec' \in {"off", "open", "broken", "committing", "committed",
                      "discarded"}
BY DEF PrintMsg, TypeOK

LEMMA UnsubscribeTypes ==
  ASSUME TypeOK, UnsubscribeListed
  PROVE  /\ sub' \in [AllSubs -> {"none", "open", "listed", "stopped", "closed"}]
         /\ queue' \in [AllSubs -> Seq(Message)]
         /\ \A l \in AllSubs : Len(queue'[l]) <= Buffer
<1>1. <<>> \in Seq(Message) /\ Len(<<>>) = 0 /\ 0 <= Buffer
  BY SubscribeAssumption
<1> DEFINE listed == {s \in Subs : sub[s] = "listed"}
<1>2. /\ sub' = [s \in AllSubs |-> IF s \in listed THEN "stopped" ELSE sub[s]]
      /\ queue' = [l \in AllSubs |-> IF l \in listed THEN <<>> ELSE queue[l]]
  BY DEF UnsubscribeListed
<1> HIDE DEF listed
<1> QED
  BY <1>1, <1>2 DEF TypeOK

\* What all handlers do to the counters.
LEMMA CountTypes ==
  ASSUME TypeOK, Counted, NEW m \in Message, CountDropped(m)
  PROVE  /\ lastDropped' \in [AllSubs -> Nat]
         /\ counter + NewDrops(m) \in Nat
         /\ counter + NewDrops(m) + 1 \in Nat
<1>1. NewDrops(m) \in Nat
  BY DropsGrow
<1>2. lastDropped' = [lastDropped EXCEPT ![m.sub] = lastDropped[m.sub] + NewDrops(m)]
  BY DEF CountDropped, TypeOK, Message
<1>3. m.sub \in AllSubs /\ counter \in Nat /\ lastDropped[m.sub] \in Nat
  BY DEF TypeOK, Message
<1> QED
  BY <1>1, <1>2, <1>3 DEF TypeOK

LEMMA HandleTypes ==
  ASSUME TypeOK, Counted, NEW l \in AllSubs, Handle(l) PROVE TypeOK'
<1> DEFINE m == hand[l]
<1>1. m \in Message /\ m.id \in Ids /\ m.sub \in AllSubs
  BY DEF Handle, TypeOK, Message
<1>2. hand' \in [AllSubs -> Message \cup {Nothing}]
  BY DEF Handle, TypeOK
<1>3. /\ UNCHANGED <<options, main, arrived, asked, dropped>>
      /\ \/ HandleIgnored(m) \/ HandleMessage(m)
         \/ HandleUnmatched(m) \/ HandleReply(m)
  BY DEF Handle
<1>4. /\ CountDropped(m)
      /\ NewDrops(m) \in Nat
  BY <1>1, <1>3, DropsGrow DEF HandleIgnored, HandleMessage, HandleUnmatched,
     HandleReply
<1>5. /\ lastDropped' \in [AllSubs -> Nat]
      /\ counter + NewDrops(m) \in Nat
      /\ counter + NewDrops(m) + 1 \in Nat
  BY <1>1, <1>4, CountTypes
<1> HIDE DEF m
<1>6. CASE HandleIgnored(m) \/ HandleUnmatched(m)
  BY <1>2, <1>3, <1>5, <1>6 DEF HandleIgnored, HandleUnmatched, TypeOK, options
<1>7. CASE HandleMessage(m)
  <2>1. /\ counter' \in Nat /\ received' \in Nat
        /\ matchMap' \subseteq Ids
    BY <1>1, <1>5, <1>7 DEF HandleMessage, TypeOK
  <2>2. /\ shown' \subseteq Ids /\ recorded' \subseteq Ids
        /\ rec' \in {"off", "open", "broken", "committing", "committed",
                     "discarded"}
    <3>1. CASE PrintMsg(m.id)
      BY <1>1, <3>1, PrintTypes
    <3>2. CASE UNCHANGED <<shown, rec, recorded>>
      BY <3>2 DEF TypeOK
    <3> QED
      BY <1>7, <3>1, <3>2 DEF HandleMessage
  <2>3. /\ sub' \in [AllSubs -> {"none", "open", "listed", "stopped", "closed"}]
        /\ queue' \in [AllSubs -> Seq(Message)]
        /\ \A k \in AllSubs : Len(queue'[k]) <= Buffer
        /\ cancelled' \in BOOLEAN /\ timer' \in {"off", "armed", "fired"}
    <3>1. CASE Enough(m)
      <4>1. UnsubscribeListed
        BY <1>7, <3>1 DEF HandleMessage
      <4>2. cancelled' \in BOOLEAN /\ timer' = timer
        BY <1>7, <3>1 DEF HandleMessage
      <4> QED
        BY <4>1, <4>2, UnsubscribeTypes DEF TypeOK
    <3>2. CASE ~ Enough(m)
      <4>1. sub' = sub /\ queue' = queue
        BY <1>7, <3>2 DEF HandleMessage
      <4>2. cancelled' \in BOOLEAN /\ timer' \in {"off", "armed"}
        BY <1>7, <3>2 DEF HandleMessage
      <4> QED
        BY <4>1, <4>2 DEF TypeOK
    <3> QED
      BY <3>1, <3>2
  <2> QED
    BY <1>2, <1>3, <1>5, <2>1, <2>2, <2>3 DEF TypeOK, options
<1>8. CASE HandleReply(m)
  <2>1. /\ shown' \subseteq Ids /\ recorded' \subseteq Ids
        /\ rec' \in {"off", "open", "broken", "committing", "committed",
                     "discarded"}
    BY <1>1, <1>8, PrintTypes DEF HandleReply
  <2>2. /\ counter' \in Nat /\ received' = received /\ queue' = queue
        /\ matchMap' \subseteq Ids /\ timer' = timer
    BY <1>5, <1>8 DEF HandleReply, TypeOK
  <2>3. /\ cancelled' \in BOOLEAN
        /\ sub' \in [AllSubs -> {"none", "open", "listed", "stopped", "closed"}]
    <3>1. Inbox \in AllSubs
      BY DEF AllSubs
    <3>2. cancelled' \in BOOLEAN
      BY <1>8 DEF HandleReply
    <3>3. sub' = sub \/ sub' = [sub EXCEPT ![Inbox] = "stopped"]
      BY <1>8 DEF HandleReply
    <3> QED
      BY <3>1, <3>2, <3>3 DEF TypeOK
  <2> QED
    BY <1>2, <1>3, <1>5, <2>1, <2>2, <2>3 DEF TypeOK, options
<1> QED
  BY <1>3, <1>6, <1>7, <1>8

LEMMA TypesKept ==
  ASSUME TypeOK, Counted, [Next]_vars PROVE TypeOK'
<1>1. CASE UNCHANGED vars
  BY <1>1 DEF TypeOK, vars, options, arrivals, counters, Ended
<1>2. CASE TimerFires \/ Interrupt
  BY <1>2 DEF TimerFires, Interrupt, TypeOK, options, arrivals, counters
<1> QED
  BY <1>1, <1>2, MainTypes, ArriveTypes, ReplyTypes, TakeTypes, HandleTypes
  DEF Next

(***************************************************************************)
(* The recorder.                                                           *)
(***************************************************************************)

LEMMA PrintRecords ==
  ASSUME TypeOK, Recorder, NEW id, PrintMsg(id),
         main \notin Ended, main' = main, backup' = backup
  PROVE  Recorder'
<1>1. CASE rec # "broken" /\ rec' = rec
  <2>1. shown' = shown \cup {id}
    BY DEF PrintMsg
  <2>2. rec = "open" => recorded' = recorded \cup {id}
    BY <1>1 DEF PrintMsg
  <2> QED
    BY <1>1, <2>1, <2>2 DEF Recorder, Ended
<1>2. CASE rec \in {"open", "broken"} /\ rec' = "broken"
  BY <1>2 DEF Recorder, Ended
<1> QED
  BY <1>1, <1>2 DEF PrintMsg

LEMMA RecorderKept ==
  ASSUME TypeOK, Recorder, [Next]_vars PROVE Recorder'
<1>1. ASSUME UNCHANGED <<backup, main, rec, recorded, shown>> PROVE Recorder'
  BY <1>1 DEF Recorder
<1>2. CASE UNCHANGED vars
  BY <1>1, <1>2 DEF vars, options, counters
<1>3. CASE MainNext
  <2>1. ASSUME NEW s \in Subjects, Create(s) \/ List(s) PROVE Recorder'
    BY <1>1, <2>1 DEF Create, List, options, counters
  <2>2. CASE SubscribeFails
    BY <2>2 DEF SubscribeFails, Recorder, options, counters
  <2>3. CASE Subscribed \/ CloseConn
    BY <2>3 DEF Subscribed, CloseConn, Recorder, options, counters
  <2>4. CASE TakeRecorder
    <3>1. rec \in (IF backup THEN {"open", "broken"} ELSE {"off"})
      BY <2>4 DEF TakeRecorder, Recorder
    <3>2. backup' = backup
      BY <2>4 DEF TakeRecorder, options
    <3>3. \/ rec = "open" /\ rec' = "committing" /\ main' = "committing"
          \/ rec = "broken" /\ rec' = rec /\ main' = "failed"
          \/ rec = "off" /\ rec' = rec /\ main' = "done"
      BY <2>4, <3>1 DEF TakeRecorder
    <3>4. rec = "open" => backup
      BY <3>1
    <3>5. rec = "off" => ~ backup
      BY <3>1
    <3> QED
      BY <3>2, <3>3, <3>4, <3>5 DEF Recorder
  <2>5. CASE Commit
    <3>1. backup /\ backup' = backup
      BY <2>5 DEF Commit, Recorder, options
    <3>2. \/ rec' = "committed" /\ main' = "done"
          \/ rec' = "broken" /\ main' = "failed"
      BY <2>5 DEF Commit
    <3> QED
      BY <3>1, <3>2 DEF Recorder
  <2> QED
    BY <1>3, <2>1, <2>2, <2>3, <2>4, <2>5 DEF MainNext
<1>4. ASSUME NEW s \in Subs, Arrive(s) PROVE Recorder'
  BY <1>1, <1>4 DEF Arrive, options, counters
<1>5. ASSUME NEW r \in asked, ReplyArrives(r) PROVE Recorder'
  BY <1>1, <1>5 DEF ReplyArrives, options, counters
<1>6. ASSUME NEW l \in AllSubs, Take(l) PROVE Recorder'
  BY <1>1, <1>6 DEF Take, options, counters
<1>7. ASSUME NEW l \in AllSubs, Handle(l) PROVE Recorder'
  <2>1. main \notin Ended /\ main' = main /\ backup' = backup
    BY <1>7 DEF Handle, options, Running
  <2>2. PrintMsg(hand[l].id) \/ UNCHANGED <<rec, recorded, shown>>
    BY <1>7 DEF Handle, HandleIgnored, HandleUnmatched, HandleMessage,
       HandleReply
  <2> QED
    BY <1>1, <2>1, <2>2, PrintRecords
<1>8. CASE TimerFires \/ Interrupt
  BY <1>1, <1>8 DEF TimerFires, Interrupt, options, counters
<1> QED
  BY <1>2, <1>3, <1>4, <1>5, <1>6, <1>7, <1>8 DEF Next

(***************************************************************************)
(* Where messages are.                                                     *)
(***************************************************************************)

\* The options of a run do not change, and with them what depends on them.
LEMMA OptionsStay ==
  ASSUME [Next]_vars
  PROVE  /\ UNCHANGED options
         /\ Subjects' = Subjects
         /\ \A s \in AllSubs : Lane(s)' = Lane(s)
<1>1. UNCHANGED options
  BY DEF vars, Next, MainNext, Create, List, SubscribeFails, Subscribed,
     CloseConn, TakeRecorder, Commit, Arrive, ReplyArrives, Take, Handle,
     TimerFires, Interrupt
<1> QED
  BY <1>1 DEF options, Subjects, Lane

\* A queue that does not drop a message ends with it.
LEMMA Enqueued ==
  ASSUME TypeOK, NEW m \in Message, Enqueue(m),
         queue' # queue
  PROVE  LET l == Lane(m.sub)
         IN  /\ l \in AllSubs
             /\ Len(queue[l]) \in Nat
             /\ Len(queue'[l]) = Len(queue[l]) + 1
             /\ queue'[l][Len(queue[l]) + 1] = m
             /\ \A i \in 1..Len(queue[l]) : queue'[l][i] = queue[l][i]
             /\ \A k \in AllSubs \ {l} : queue'[k] = queue[k]
<1> DEFINE l == Lane(m.sub)
<1>1. l \in AllSubs
  BY DEF Lane, Message, AllSubs
<1>2. queue' = [queue EXCEPT ![l] = Append(queue[l], m)]
  BY DEF Enqueue
<1>3. queue[l] \in Seq(Message)
  BY <1>1 DEF TypeOK
<1>4. /\ Len(queue[l]) \in Nat
      /\ Len(Append(queue[l], m)) = Len(queue[l]) + 1
      /\ Append(queue[l], m)[Len(queue[l]) + 1] = m
      /\ \A i \in 1..Len(queue[l]) : Append(queue[l], m)[i] = queue[l][i]
  BY <1>3, AppendProperties, LenProperties
<1> HIDE DEF l
<1>5. queue'[l] = Append(queue[l], m) /\ \A k \in AllSubs \ {l} : queue'[k] = queue[k]
  BY <1>1, <1>2 DEF TypeOK
<1>6. /\ l \in AllSubs
      /\ Len(queue[l]) \in Nat
      /\ Len(queue'[l]) = Len(queue[l]) + 1
      /\ queue'[l][Len(queue[l]) + 1] = m
      /\ \A i \in 1..Len(queue[l]) : queue'[l][i] = queue[l][i]
      /\ \A k \in AllSubs \ {l} : queue'[k] = queue[k]
  BY <1>1, <1>4, <1>5
<1> QED
  BY <1>6 DEF l

LEMMA UnsubscribeEmpties ==
  ASSUME TypeOK, UnsubscribeListed
  PROVE  \A l \in AllSubs : Len(queue'[l]) = 0 \/ queue'[l] = queue[l]
BY DEF UnsubscribeListed

\* What a step can do to the places of messages and to the subscriptions.
LEMMA BelongsStays ==
  ASSUME [Next]_vars, NEW m, NEW l
  PROVE  Belongs(m, l)' <=> Belongs(m, l)
<1>1. mode' = mode /\ Subjects' = Subjects
  BY OptionsStay DEF options
<1>2. Lane(m.sub)' = Lane(m.sub) /\ (Counts(m)' <=> Counts(m))
  BY <1>1 DEF Lane, Counts, Nothing
<1> QED
  BY <1>1, <1>2 DEF Belongs

LEMMA EnqueueBelongs ==
  ASSUME TypeOK, Lanes, NEW m \in Message, Enqueue(m), Belongs(m, Lane(m.sub)),
         NEW k \in AllSubs, NEW i \in 1..Len(queue'[k])
  PROVE  Belongs(queue'[k][i], k)
<1>1. CASE queue' = queue
  BY <1>1 DEF Lanes
<1>2. CASE queue' # queue
  <2>1. CASE k # Lane(m.sub)
    BY <1>2, <2>1, Enqueued DEF Lanes
  <2>2. CASE k = Lane(m.sub)
    <3>1. /\ Len(queue[k]) \in Nat
          /\ Len(queue'[k]) = Len(queue[k]) + 1
          /\ queue'[k][Len(queue[k]) + 1] = m
          /\ \A j \in 1..Len(queue[k]) : queue'[k][j] = queue[k][j]
      BY <1>2, <2>2, Enqueued
    <3>2. i \in 1..Len(queue[k]) \/ i = Len(queue[k]) + 1
      BY <3>1
    <3> QED
      BY <2>2, <3>1, <3>2 DEF Lanes
  <2> QED
    BY <2>1, <2>2
<1> QED
  BY <1>1, <1>2

\* Lanes is kept when what is in the places was there or belongs there.
LEMMA LanesFollow ==
  ASSUME TypeOK, Lanes, [Next]_vars,
         \A l \in AllSubs : hand'[l] # Nothing => Belongs(hand'[l], l),
         \A l \in AllSubs : \A i \in 1..Len(queue'[l]) : Belongs(queue'[l][i], l),
         \A s \in AllSubs : sub[s] = "none" /\ s \notin Subjects => sub'[s] = "none"
  PROVE  Lanes'
<1>1. mode' = mode /\ Subjects' = Subjects /\ Subs \subseteq AllSubs
  BY OptionsStay DEF options, AllSubs
<1>2. \A s \in Subs \ Subjects : sub'[s] = "none"
  BY <1>1 DEF Lanes
<1>3. mode # "match" => sub'[Inbox] = "none"
  BY SubjectsAreSubs, SubscribeAssumption DEF Lanes, AllSubs
<1>4. \A l \in AllSubs : hand'[l] # Nothing => Belongs(hand[l], l)'
  <2> SUFFICES ASSUME NEW l \in AllSubs, hand'[l] # Nothing
               PROVE  Belongs(hand[l], l)'
    OBVIOUS
  <2>1. PICK m : m = hand'[l]
    OBVIOUS
  <2>2. Belongs(m, l)'
    BY <2>1, BelongsStays
  <2> QED
    BY <2>1, <2>2 DEF Belongs
<1>5. \A l \in AllSubs : \A i \in 1..Len(queue'[l]) : Belongs(queue[l][i], l)'
  <2> SUFFICES ASSUME NEW l \in AllSubs, NEW i \in 1..Len(queue'[l])
               PROVE  Belongs(queue[l][i], l)'
    OBVIOUS
  <2>1. PICK m : m = queue'[l][i]
    OBVIOUS
  <2>2. Belongs(m, l)'
    BY <2>1, BelongsStays
  <2> QED
    BY <2>1, <2>2 DEF Belongs
<1>6. Nothing' = Nothing /\ AllSubs' = AllSubs
  BY DEF Nothing, AllSubs
<1> QED
  BY <1>1, <1>2, <1>3, <1>4, <1>5, <1>6 DEF Lanes

LEMMA LanesKept ==
  ASSUME TypeOK, Lanes, [Next]_vars PROVE Lanes'
<1> DEFINE Hands == \A l \in AllSubs : hand'[l] # Nothing => Belongs(hand'[l], l)
           Queues == \A l \in AllSubs :
                       \A i \in 1..Len(queue'[l]) : Belongs(queue'[l][i], l)
           Unused == \A s \in AllSubs :
                       sub[s] = "none" /\ s \notin Subjects => sub'[s] = "none"
<1> SUFFICES Hands /\ Queues /\ Unused
  <2> HIDE DEF Hands, Queues, Unused
  <2> QED
    BY LanesFollow DEF Hands, Queues, Unused
<1>1. hand' = hand => Hands
  BY DEF Lanes
<1>2. queue' = queue => Queues
  BY DEF Lanes
<1>3. sub' = sub => Unused
  OBVIOUS
<1>4. CASE UNCHANGED vars
  BY <1>1, <1>2, <1>3, <1>4 DEF vars, arrivals
<1>5. ASSUME NEW s \in Subjects, Create(s) \/ List(s)
      PROVE  Hands /\ Queues /\ Unused
  <2>1. Unused
    BY <1>5 DEF Create, List, TypeOK
  <2>2. hand' = hand /\ queue' = queue
    BY <1>5 DEF Create, List, arrivals
  <2> HIDE DEF Unused
  <2> QED
    BY <1>1, <1>2, <2>1, <2>2
<1>6. CASE SubscribeFails \/ Subscribed \/ TakeRecorder \/ Commit
  <2>1. hand' = hand /\ queue' = queue /\ sub' = sub
    BY <1>6 DEF SubscribeFails, Subscribed, TakeRecorder, Commit, arrivals
  <2> QED
    BY <1>1, <1>2, <1>3, <2>1
<1>7. CASE CloseConn
  <2>1. Unused
    BY <1>7 DEF CloseConn, Valid
  <2>2. hand' = hand
    BY <1>7 DEF CloseConn
  <2>3. \A l \in AllSubs : Len(queue'[l]) = 0
    BY <1>7 DEF CloseConn
  <2>4. Queues
    BY <2>3
  <2> HIDE DEF Unused, Queues
  <2> QED
    BY <1>1, <2>1, <2>2, <2>4
<1>8. ASSUME NEW m \in Message, Enqueue(m), Belongs(m, Lane(m.sub)),
             hand' = hand, sub' = sub
      PROVE  Hands /\ Queues /\ Unused
  <2>1. Queues
    BY <1>8, EnqueueBelongs
  <2> HIDE DEF Queues
  <2> QED
    BY <1>1, <1>3, <1>8, <2>1
<1>9. ASSUME NEW s \in Subs, Arrive(s)
      PROVE  Hands /\ Queues /\ Unused
  <2>1. PICK k \in {"plain", "ignored", "request"} :
          Enqueue([sub |-> s, kind |-> k, id |-> arrived'])
    BY <1>9 DEF Arrive
  <2>2. PICK m : m = [sub |-> s, kind |-> k, id |-> arrived']
    OBVIOUS
  <2>3. m \in Message
    <3>1. arrived' \in Ids
      BY <1>9, SubscribeAssumption DEF Arrive, TypeOK, Ids
    <3> QED
      BY <2>2, <3>1 DEF Message, AllSubs
  <2>4. Belongs(m, Lane(m.sub))
    <3>1. s \in Subjects
      BY <1>9 DEF Arrive, Valid, Lanes
    <3> QED
      BY <2>2, <3>1 DEF Belongs
  <2>5. Enqueue(m)
    BY <2>1, <2>2
  <2> QED
    BY <1>8, <1>9, <2>3, <2>4, <2>5 DEF Arrive
<1>10. ASSUME NEW r \in asked, ReplyArrives(r)
       PROVE  Hands /\ Queues /\ Unused
  <2>1. PICK m : m = [sub |-> Inbox, kind |-> "reply", id |-> r]
    OBVIOUS
  <2>2. m \in Message
    BY <2>1 DEF Message, AllSubs, TypeOK
  <2>3. mode = "match"
    BY <1>10 DEF ReplyArrives, Valid, Lanes
  <2>4. Belongs(m, Lane(m.sub))
    BY <2>1, <2>3 DEF Belongs, Counts
  <2>5. Enqueue(m)
    BY <1>10, <2>1 DEF ReplyArrives
  <2> QED
    BY <1>8, <1>10, <2>2, <2>4, <2>5 DEF ReplyArrives
<1>11. ASSUME NEW l \in AllSubs, Take(l)
       PROVE  Hands /\ Queues /\ Unused
  <2>1. Belongs(Head(queue[l]), l)
    <3>1. 1 \in 1..Len(queue[l]) /\ Head(queue[l]) = queue[l][1]
      BY <1>11, Taken
    <3> QED
      BY <3>1 DEF Lanes
  <2>2. Hands
    <3> SUFFICES ASSUME NEW k \in AllSubs, hand'[k] # Nothing
                 PROVE  Belongs(hand'[k], k)
      OBVIOUS
    <3>1. CASE k = l
      <4>1. hand'[l] = Head(queue[l])
        BY <1>11, <3>1, Taken
      <4> QED
        BY <2>1, <3>1, <4>1
    <3>2. CASE k # l
      BY <1>11, <3>2, Taken DEF Lanes
    <3> QED
      BY <3>1, <3>2
  <2>3. Queues
    <3> SUFFICES ASSUME NEW k \in AllSubs, NEW i \in 1..Len(queue'[k])
                 PROVE  Belongs(queue'[k][i], k)
      OBVIOUS
    <3>1. CASE k = l
      <4>1. /\ queue'[l][i] = queue[l][i + 1]
            /\ Len(queue[l]) \in Nat \ {0} /\ Len(queue'[l]) = Len(queue[l]) - 1
        BY <1>11, <3>1, Taken
      <4>2. i + 1 \in 1..Len(queue[l])
        BY <3>1, <4>1
      <4> QED
        BY <3>1, <4>1, <4>2 DEF Lanes
    <3>2. CASE k # l
      BY <1>11, <3>2, Taken DEF Lanes
    <3> QED
      BY <3>1, <3>2
  <2>4. sub' = sub
    BY <1>11 DEF Take
  <2> HIDE DEF Hands, Queues
  <2> QED
    BY <1>3, <2>2, <2>3, <2>4
<1>12. ASSUME NEW l \in AllSubs, Handle(l)
       PROVE  Hands /\ Queues /\ Unused
  <2>1. Hands
    BY <1>12 DEF Handle, Lanes, TypeOK
  <2>2. \/ queue' = queue /\ sub' = sub
        \/ UnsubscribeListed
        \/ /\ queue' = queue
           /\ sub' = [sub EXCEPT ![Inbox] = "stopped"] /\ Valid(Inbox)
    BY <1>12 DEF Handle, HandleIgnored, HandleUnmatched, HandleMessage,
       HandleReply
  <2>3. CASE UnsubscribeListed
    <3>1. Queues
      BY <2>3, UnsubscribeEmpties DEF Lanes
    <3>2. Unused
      BY <2>3 DEF UnsubscribeListed
    <3> QED
      BY <2>1, <3>1, <3>2
  <2>4. CASE /\ queue' = queue
             /\ sub' = [sub EXCEPT ![Inbox] = "stopped"] /\ Valid(Inbox)
    <3>1. Unused
      BY <2>4 DEF Valid, TypeOK
    <3> QED
      BY <1>2, <2>1, <2>4, <3>1
  <2> HIDE DEF Hands, Queues, Unused
  <2> QED
    BY <1>2, <1>3, <2>1, <2>2, <2>3, <2>4
<1>13. CASE TimerFires \/ Interrupt
  <2>1. hand' = hand /\ queue' = queue /\ sub' = sub
    BY <1>13 DEF TimerFires, Interrupt, arrivals
  <2> QED
    BY <1>1, <1>2, <1>3, <2>1
<1> HIDE DEF Hands, Queues, Unused
<1> QED
  BY <1>4, <1>5, <1>6, <1>7, <1>9, <1>10, <1>11, <1>12, <1>13
  DEF Next, MainNext

(***************************************************************************)
(* Each message is handled once.                                           *)
(***************************************************************************)

\* Distinct is kept when each message came from a place of its own.
LEMMA DistinctFollows ==
  ASSUME NEW q, NEW h, NEW q2, NEW h2, Distinct(q, h),
         NEW f, \A p \in Slots(q2, h2) :
                  f[p] \in Slots(q, h) /\ IdAt(q2, h2, p) = IdAt(q, h, f[p]),
         \A a, b \in Slots(q2, h2) : f[a] = f[b] => a = b
  PROVE  Distinct(q2, h2)
BY DEF Distinct

\* Fresh is kept when no message is new, and the one that is handled, if
\* any, is in no place any more.
LEMMA FreshFollows ==
  ASSUME TypeOK, Fresh, arrived' = arrived,
         \A p \in Slots(queue', hand') :
            /\ p \in Slots(queue, hand)
            /\ IdAt(queue', hand', p) = IdAt(queue, hand, p)
            /\ IdAt(queue, hand, p) \notin (shown' \cup matchMap'),
         shown' \cup matchMap' \subseteq 1..arrived
  PROVE  Fresh'
<1>1. Distinct(queue', hand')
  BY DEF Fresh, Distinct
<1>2. \A a \in Slots(queue', hand') :
        IdAt(queue', hand', a) \in (1..arrived') \ (shown' \cup matchMap')
  BY DEF Fresh
<1>3. \A a \in Slots(queue, hand)' :
        IdAt(queue, hand, a)' \in (1..arrived') \ (shown' \cup matchMap')
  BY <1>2 DEF Slots, IdAt, Place, Counts, Nothing, AllSubs
<1>4. Distinct(queue, hand)'
  BY <1>1 DEF Distinct, Slots, IdAt, Place, Counts, Nothing, AllSubs
<1> QED
  BY <1>3, <1>4 DEF Fresh

\* The handled message is taken out of the hand, and queues are emptied.
LEMMA HandleSlots ==
  ASSUME TypeOK, Fresh, NEW l \in AllSubs, hand[l] # Nothing,
         hand' = [hand EXCEPT ![l] = Nothing],
         \A k \in AllSubs : Len(queue'[k]) = 0 \/ queue'[k] = queue[k]
  PROVE  \A p \in Slots(queue', hand') :
            /\ p \in Slots(queue, hand)
            /\ IdAt(queue', hand', p) = IdAt(queue, hand, p)
            /\ Counts(hand[l]) => IdAt(queue, hand, p) # hand[l].id
<1> SUFFICES ASSUME NEW p \in Slots(queue', hand')
             PROVE  /\ p \in Slots(queue, hand)
                    /\ IdAt(queue', hand', p) = IdAt(queue, hand, p)
                    /\ Counts(hand[l]) => IdAt(queue, hand, p) # hand[l].id
  OBVIOUS
<1>1. /\ p \in AllSubs \X Nat /\ p[1] \in AllSubs /\ p[2] \in Nat
      /\ p[2] <= Len(queue'[p[1]])
      /\ Counts(Place(queue', hand', p[1], p[2]))
  BY DEF Slots
<1>2. Len(queue[p[1]]) \in Nat
  BY <1>1, LenProperties DEF TypeOK
<1>3. CASE p[2] = 0
  <2>1. p[1] # l /\ hand'[p[1]] = hand[p[1]]
    BY <1>1, <1>3 DEF Place, Counts, TypeOK
  <2>2. p \in Slots(queue, hand) /\ IdAt(queue', hand', p) = IdAt(queue, hand, p)
    BY <1>1, <1>2, <1>3, <2>1 DEF Slots, Place, IdAt
  <2>3. ASSUME Counts(hand[l]) PROVE IdAt(queue, hand, p) # hand[l].id
    <3> DEFINE b == <<l, 0>>
    <3>1. b \in Slots(queue, hand) /\ IdAt(queue, hand, b) = hand[l].id
      BY <2>3, LenProperties DEF Slots, Place, IdAt, TypeOK
    <3>2. p # b
      BY <2>1
    <3> HIDE DEF b
    <3> QED
      BY <2>2, <3>1, <3>2 DEF Fresh, Distinct
  <2> QED
    BY <2>2, <2>3
<1>4. CASE p[2] # 0
  <2>1. queue'[p[1]] = queue[p[1]]
    BY <1>1, <1>4
  <2>2. p \in Slots(queue, hand) /\ IdAt(queue', hand', p) = IdAt(queue, hand, p)
    BY <1>1, <1>4, <2>1 DEF Slots, Place, IdAt
  <2>3. ASSUME Counts(hand[l]) PROVE IdAt(queue, hand, p) # hand[l].id
    <3> DEFINE b == <<l, 0>>
    <3>1. b \in Slots(queue, hand) /\ IdAt(queue, hand, b) = hand[l].id
      BY <2>3, LenProperties DEF Slots, Place, IdAt, TypeOK
    <3>2. p # b
      BY <1>4
    <3> HIDE DEF b
    <3> QED
      BY <2>2, <3>1, <3>2 DEF Fresh, Distinct
  <2> QED
    BY <2>2, <2>3
<1> QED
  BY <1>3, <1>4

LEMMA HandleFresh ==
  ASSUME TypeOK, Fresh, NEW l \in AllSubs, Handle(l) PROVE Fresh'
<1> DEFINE m == hand[l]
<1>1. /\ m # Nothing /\ m \in Message
      /\ hand' = [hand EXCEPT ![l] = Nothing]
      /\ arrived' = arrived
  BY DEF Handle, TypeOK
<1>2. \A k \in AllSubs : Len(queue'[k]) = 0 \/ queue'[k] = queue[k]
  <2>1. queue' = queue \/ UnsubscribeListed
    BY DEF Handle, HandleIgnored, HandleMessage, HandleUnmatched, HandleReply
  <2> QED
    BY <2>1, UnsubscribeEmpties
<1>3. \A p \in Slots(queue', hand') :
         /\ p \in Slots(queue, hand)
         /\ IdAt(queue', hand', p) = IdAt(queue, hand, p)
         /\ Counts(hand[l]) => IdAt(queue, hand, p) # hand[l].id
  BY <1>1, <1>2, HandleSlots
<1>4. \A p \in Slots(queue, hand) :
        IdAt(queue, hand, p) \notin (shown \cup matchMap)
  BY DEF Fresh
<1>5. CASE shown' \cup matchMap' = shown \cup matchMap
  <2>1. \A p \in Slots(queue', hand') :
           /\ p \in Slots(queue, hand)
           /\ IdAt(queue', hand', p) = IdAt(queue, hand, p)
           /\ IdAt(queue, hand, p) \notin (shown' \cup matchMap')
    BY <1>3, <1>4, <1>5
  <2>2. shown' \cup matchMap' \subseteq 1..arrived
    BY <1>5 DEF Fresh
  <2> QED
    BY <1>1, <2>1, <2>2, FreshFollows
<1>6. CASE Counts(m) /\ shown' \cup matchMap' = shown \cup matchMap \cup {m.id}
  <2>1. \A p \in Slots(queue', hand') :
           /\ p \in Slots(queue, hand)
           /\ IdAt(queue', hand', p) = IdAt(queue, hand, p)
           /\ IdAt(queue, hand, p) \notin (shown' \cup matchMap')
    BY <1>3, <1>4, <1>6
  <2> DEFINE b == <<l, 0>>
  <2>2. b \in Slots(queue, hand) /\ IdAt(queue, hand, b) = m.id
    BY <1>6, LenProperties DEF Slots, Place, IdAt, TypeOK
  <2>3. m.id \in 1..arrived
    BY <2>2 DEF Fresh
  <2>4. shown' \cup matchMap' \subseteq 1..arrived
    BY <1>6, <2>3 DEF Fresh
  <2> QED
    BY <1>1, <2>1, <2>4, FreshFollows
<1>7. CASE HandleIgnored(m) \/ HandleUnmatched(m)
  BY <1>5, <1>7 DEF HandleIgnored, HandleUnmatched
<1>8. CASE HandleMessage(m)
  <2>1. Counts(m)
    BY <1>1, <1>8 DEF HandleMessage, Counts
  <2>2. shown' \cup matchMap' = shown \cup matchMap \cup {m.id}
    BY <1>8 DEF HandleMessage, PrintMsg
  <2> QED
    BY <1>6, <2>1, <2>2
<1>9. CASE HandleReply(m)
  <2>1. /\ m.id \in matchMap /\ matchMap' = matchMap \ {m.id}
        /\ shown' = shown \cup {m.id}
    BY <1>9 DEF HandleReply, PrintMsg
  <2>2. shown' \cup matchMap' = shown \cup matchMap
    BY <2>1
  <2> QED
    BY <1>5, <2>2
<1> QED
  BY <1>7, <1>8, <1>9 DEF Handle

\* An enqueued message is in a place of its own.
LEMMA EnqueueSlots ==
  ASSUME TypeOK, NEW m \in Message, Enqueue(m), hand' = hand
  PROVE  \E b : \A p \in Slots(queue', hand') :
           \/ p \in Slots(queue, hand) /\ IdAt(queue', hand', p) = IdAt(queue, hand, p)
           \/ Counts(m) /\ p = b /\ IdAt(queue', hand', p) = m.id
<1>1. CASE queue' = queue
  BY <1>1
<1>2. CASE queue' # queue
  <2> DEFINE l == Lane(m.sub)
             b == <<l, Len(queue[l]) + 1>>
  <2>1. /\ l \in AllSubs
        /\ Len(queue[l]) \in Nat
        /\ Len(queue'[l]) = Len(queue[l]) + 1
        /\ queue'[l][Len(queue[l]) + 1] = m
        /\ \A i \in 1..Len(queue[l]) : queue'[l][i] = queue[l][i]
        /\ \A k \in AllSubs \ {l} : queue'[k] = queue[k]
    BY <1>2, Enqueued
  <2> HIDE DEF l
  <2> SUFFICES ASSUME NEW p \in Slots(queue', hand')
               PROVE  \/ /\ p \in Slots(queue, hand)
                         /\ IdAt(queue', hand', p) = IdAt(queue, hand, p)
                      \/ Counts(m) /\ p = b /\ IdAt(queue', hand', p) = m.id
    OBVIOUS
  <2>2. /\ p \in AllSubs \X Nat /\ p[1] \in AllSubs /\ p[2] \in Nat
        /\ p = <<p[1], p[2]>>
        /\ p[2] <= Len(queue'[p[1]])
        /\ Counts(Place(queue', hand', p[1], p[2]))
    BY DEF Slots
  <2>3. Len(queue[p[1]]) \in Nat
    BY <2>2, LenProperties DEF TypeOK
  <2>4. CASE p[2] = 0
    BY <2>2, <2>3, <2>4 DEF Slots, Place, IdAt
  <2>5. CASE p[2] # 0 /\ p[1] # l
    <3>1. queue'[p[1]] = queue[p[1]]
      BY <2>1, <2>2, <2>5
    <3> QED
      BY <2>2, <2>5, <3>1 DEF Slots, Place, IdAt
  <2>6. CASE p[2] # 0 /\ p[1] = l /\ p[2] <= Len(queue[l])
    <3>1. queue'[l][p[2]] = queue[l][p[2]]
      BY <2>1, <2>2, <2>6
    <3> QED
      BY <2>2, <2>6, <3>1 DEF Slots, Place, IdAt
  <2>7. CASE p[2] # 0 /\ p[1] = l /\ ~ (p[2] <= Len(queue[l]))
    <3>1. p[2] = Len(queue[l]) + 1
      BY <2>1, <2>2, <2>7
    <3>2. Place(queue', hand', p[1], p[2]) = m /\ p = b
      BY <2>1, <2>2, <2>7, <3>1 DEF Place
    <3> QED
      BY <2>2, <3>2 DEF IdAt
  <2> QED
    BY <2>4, <2>5, <2>6, <2>7
<1> QED
  BY <1>1, <1>2

LEMMA ArriveFresh ==
  ASSUME TypeOK, Fresh, NEW s \in Subs, Arrive(s) PROVE Fresh'
<1>1. PICK k \in {"plain", "ignored", "request"} :
        Enqueue([sub |-> s, kind |-> k, id |-> arrived'])
  BY DEF Arrive
<1>2. PICK m : m = [sub |-> s, kind |-> k, id |-> arrived']
  OBVIOUS
<1>3. /\ arrived' \in Ids /\ arrived' = arrived + 1 /\ arrived \in Nat
      /\ hand' = hand /\ shown' = shown /\ matchMap' = matchMap
  BY SubscribeAssumption DEF Arrive, TypeOK, Ids, counters
<1>4. m \in Message /\ Enqueue(m) /\ m.id = arrived + 1
  BY <1>1, <1>2, <1>3 DEF Message, AllSubs
<1>5. PICK b : \A p \in Slots(queue', hand') :
        \/ p \in Slots(queue, hand) /\ IdAt(queue', hand', p) = IdAt(queue, hand, p)
        \/ p = b /\ IdAt(queue', hand', p) = arrived + 1
  BY <1>3, <1>4, EnqueueSlots
<1>6. \A p \in Slots(queue, hand) :
        IdAt(queue, hand, p) \in (1..arrived) \ (shown \cup matchMap)
  BY DEF Fresh
<1>7. 1..arrived \subseteq 1..arrived' /\ arrived + 1 \in 1..arrived'
      /\ arrived + 1 \notin 1..arrived
  BY <1>3
<1>8. shown \cup matchMap \subseteq 1..arrived /\ Distinct(queue, hand)
  BY DEF Fresh
<1>9. \A p \in Slots(queue', hand') :
        IdAt(queue', hand', p) \in (1..arrived') \ (shown' \cup matchMap')
  BY <1>3, <1>5, <1>6, <1>7, <1>8
<1>10. Distinct(queue', hand')
  BY <1>5, <1>6, <1>7, <1>8 DEF Distinct
<1>11. \A a \in Slots(queue, hand)' :
        IdAt(queue, hand, a)' \in (1..arrived') \ (shown' \cup matchMap')
  BY <1>9 DEF Slots, IdAt, Place, Counts, Nothing, AllSubs
<1>12. Distinct(queue, hand)'
  BY <1>10 DEF Distinct, Slots, IdAt, Place, Counts, Nothing, AllSubs
<1>13. shown' \cup matchMap' \subseteq 1..arrived'
  BY <1>3, <1>7, <1>8
<1> QED
  BY <1>11, <1>12, <1>13 DEF Fresh

LEMMA ReplyFresh ==
  ASSUME TypeOK, Fresh, NEW r \in asked, ReplyArrives(r) PROVE Fresh'
<1>1. PICK m : m = [sub |-> Inbox, kind |-> "reply", id |-> r]
  OBVIOUS
<1>2. m \in Message /\ Enqueue(m) /\ ~ Counts(m)
  BY <1>1 DEF ReplyArrives, Message, AllSubs, TypeOK, Counts
<1>3. /\ hand' = hand /\ arrived' = arrived
      /\ shown' = shown /\ matchMap' = matchMap
  BY DEF ReplyArrives, counters
<1>4. \A p \in Slots(queue', hand') :
        p \in Slots(queue, hand) /\ IdAt(queue', hand', p) = IdAt(queue, hand, p)
  BY <1>2, <1>3, EnqueueSlots
<1>5. \A p \in Slots(queue, hand) :
        IdAt(queue, hand, p) \notin (shown' \cup matchMap')
  BY <1>3 DEF Fresh
<1>6. shown' \cup matchMap' \subseteq 1..arrived
  BY <1>3 DEF Fresh
<1>7. \A p \in Slots(queue', hand') :
        /\ p \in Slots(queue, hand)
        /\ IdAt(queue', hand', p) = IdAt(queue, hand, p)
        /\ IdAt(queue, hand, p) \notin (shown' \cup matchMap')
  BY <1>4, <1>5
<1> QED
  BY <1>3, <1>6, <1>7, FreshFollows

LEMMA TakeFresh ==
  ASSUME TypeOK, Fresh, NEW l \in AllSubs, Take(l) PROVE Fresh'
<1> DEFINE S == Slots(queue', hand')
           f == [p \in S |-> IF p[1] = l THEN <<l, p[2] + 1>> ELSE p]
<1>1. /\ arrived' = arrived /\ shown' = shown /\ matchMap' = matchMap
  BY DEF Take, counters
<1>2. \A p \in S : /\ p \in AllSubs \X Nat /\ p[1] \in AllSubs /\ p[2] \in Nat
                   /\ p = <<p[1], p[2]>>
                   /\ p[2] <= Len(queue'[p[1]])
                   /\ Counts(Place(queue', hand', p[1], p[2]))
  BY DEF Slots
<1>3. ASSUME NEW p \in S
      PROVE  f[p] \in Slots(queue, hand) /\ IdAt(queue', hand', p) = IdAt(queue, hand, f[p])
  <2>1. CASE p[1] = l
    <3>1. PICK i \in Nat : p = <<l, i>> /\ f[p] = <<l, i + 1>>
      BY <1>2, <2>1
    <3>2. /\ i <= Len(queue'[l]) /\ Counts(Place(queue', hand', l, i))
          /\ IdAt(queue', hand', p) = Place(queue', hand', l, i).id
      BY <1>2, <3>1 DEF IdAt
    <3>3. Place(queue', hand', l, i) = queue[l][i + 1]
      <4>1. CASE i = 0
        <5>1. Place(queue', hand', l, i) = hand'[l]
          BY <4>1 DEF Place
        <5>2. hand'[l] = Head(queue[l]) /\ Head(queue[l]) = queue[l][1]
          BY <3>2, <5>1, Taken DEF Counts
        <5> QED
          BY <4>1, <5>1, <5>2
      <4>2. CASE i # 0
        <5>1. i \in 1..Len(queue'[l])
          BY <3>2, <4>2, Taken
        <5> QED
          BY <4>2, <5>1, Taken DEF Place
      <4> QED
        BY <4>1, <4>2
    <3>4. i + 1 <= Len(queue[l]) /\ i + 1 \in Nat /\ i + 1 # 0
      <4>1. Len(queue[l]) \in Nat \ {0} /\ Len(queue'[l]) = Len(queue[l]) - 1
        BY Taken
      <4> QED
        BY <3>2, <4>1
    <3>5. <<l, i + 1>> \in Slots(queue, hand)
      BY <3>2, <3>3, <3>4 DEF Slots, Place
    <3>6. IdAt(queue, hand, <<l, i + 1>>) = queue[l][i + 1].id
      BY <3>4 DEF IdAt, Place
    <3> QED
      BY <3>1, <3>2, <3>3, <3>5, <3>6
  <2>2. CASE p[1] # l
    <3>1. f[p] = p /\ queue'[p[1]] = queue[p[1]] /\ hand'[p[1]] = hand[p[1]]
      BY <1>2, <2>2, Taken
    <3>2. Place(queue', hand', p[1], p[2]) = Place(queue, hand, p[1], p[2])
      BY <3>1 DEF Place
    <3> HIDE DEF f
    <3> QED
      BY <1>2, <3>1, <3>2 DEF Slots, IdAt
  <2> QED
    BY <2>1, <2>2
<1>4. ASSUME NEW a \in S, NEW b \in S, f[a] = f[b] PROVE a = b
  BY <1>2, <1>4
<1> HIDE DEF f
<1>5. Distinct(queue', hand')
  <2>1. Distinct(queue, hand)
    BY DEF Fresh
  <2> QED
    BY <1>3, <1>4, <2>1, DistinctFollows
<1>6. \A a \in Slots(queue', hand') :
        IdAt(queue', hand', a) \in (1..arrived') \ (shown' \cup matchMap')
  BY <1>1, <1>3 DEF Fresh
<1>7. \A a \in Slots(queue, hand)' :
        IdAt(queue, hand, a)' \in (1..arrived') \ (shown' \cup matchMap')
  BY <1>6 DEF Slots, IdAt, Place, Counts, Nothing, AllSubs
<1>8. Distinct(queue, hand)'
  BY <1>5 DEF Distinct, Slots, IdAt, Place, Counts, Nothing, AllSubs
<1> QED
  BY <1>1, <1>7, <1>8 DEF Fresh

LEMMA FreshKept ==
  ASSUME TypeOK, Fresh, [Next]_vars PROVE Fresh'
<1>1. ASSUME UNCHANGED <<queue, hand, arrived, shown, matchMap>> PROVE Fresh'
  BY <1>1 DEF Fresh, Distinct, Slots, IdAt, Place, Counts, Nothing, AllSubs
<1>2. CASE UNCHANGED vars \/ TimerFires \/ Interrupt
  BY <1>1, <1>2 DEF TimerFires, Interrupt, vars, arrivals, counters
<1>3. ASSUME NEW s \in Subjects, Create(s) \/ List(s) PROVE Fresh'
  BY <1>1, <1>3 DEF Create, List, arrivals, counters
<1>4. CASE SubscribeFails \/ Subscribed \/ TakeRecorder \/ Commit
  BY <1>1, <1>4 DEF SubscribeFails, Subscribed, TakeRecorder, Commit, arrivals,
     counters
<1>5. CASE CloseConn
  <2>1. /\ hand' = hand /\ arrived' = arrived /\ shown' = shown
        /\ matchMap' = matchMap /\ \A k \in AllSubs : Len(queue'[k]) = 0
    BY <1>5 DEF CloseConn, counters
  <2>2. ASSUME NEW p \in Slots(queue', hand')
        PROVE  /\ p \in Slots(queue, hand)
               /\ IdAt(queue', hand', p) = IdAt(queue, hand, p)
    <3>1. /\ p \in AllSubs \X Nat /\ p[1] \in AllSubs /\ p[2] \in Nat
          /\ p[2] <= Len(queue'[p[1]])
          /\ Counts(Place(queue', hand', p[1], p[2]))
      BY DEF Slots
    <3>2. p[2] = 0
      BY <2>1, <3>1
    <3>3. 0 <= Len(queue[p[1]])
      BY <3>1, LenProperties DEF TypeOK
    <3> QED
      BY <2>1, <3>1, <3>2, <3>3 DEF Slots, Place, IdAt
  <2>3. \A p \in Slots(queue, hand) :
          IdAt(queue, hand, p) \notin (shown' \cup matchMap')
    BY <2>1 DEF Fresh
  <2>4. shown' \cup matchMap' \subseteq 1..arrived
    BY <2>1 DEF Fresh
  <2>5. \A p \in Slots(queue', hand') :
          /\ p \in Slots(queue, hand)
          /\ IdAt(queue', hand', p) = IdAt(queue, hand, p)
          /\ IdAt(queue, hand, p) \notin (shown' \cup matchMap')
    BY <2>2, <2>3
  <2> QED
    BY <2>1, <2>4, <2>5, FreshFollows
<1> QED
  BY <1>2, <1>3, <1>4, <1>5, ArriveFresh, ReplyFresh, TakeFresh, HandleFresh
  DEF Next, MainNext

(***************************************************************************)
(* The counters.                                                           *)
(***************************************************************************)

\* countDropped adds the new drops of one subscription to the sum.
LEMMA DropsAreSummed ==
  ASSUME TypeOK, Counted, NEW m \in Message, CountDropped(m), dropped' = dropped
  PROVE  /\ NewDrops(m) \in Nat
         /\ SumOf(lastDropped, AllSubs) \in Nat
         /\ SumOf(lastDropped', AllSubs) = SumOf(lastDropped, AllSubs) + NewDrops(m)
         /\ \A s \in AllSubs : lastDropped'[s] <= dropped'[s]
<1>1. NewDrops(m) \in Nat /\ lastDropped[m.sub] + NewDrops(m) <= dropped[m.sub]
  BY DropsGrow
<1>2. m.sub \in AllSubs /\ IsFiniteSet(AllSubs)
  BY SubjectsAreSubs DEF Message
<1>3. /\ lastDropped'[m.sub] = lastDropped[m.sub] + NewDrops(m)
      /\ \A s \in AllSubs : s # m.sub => lastDropped'[s] = lastDropped[s]
      /\ \A s \in AllSubs : lastDropped[s] \in Nat
  BY <1>2 DEF CountDropped, TypeOK
<1>4. \A s \in AllSubs : lastDropped[s] \in Int /\ lastDropped'[s] \in Int
  BY <1>1, <1>2, <1>3
<1>5. \A g : (/\ \A s \in AllSubs : g[s] \in Int
              /\ \A s \in AllSubs : s # m.sub => lastDropped[s] = g[s]) =>
             SumOf(g, AllSubs)
               = SumOf(lastDropped, AllSubs) + (g[m.sub] - lastDropped[m.sub])
  BY <1>2, <1>4, SumChanges
<1>6. SumOf(lastDropped', AllSubs)
        = SumOf(lastDropped, AllSubs) + (lastDropped'[m.sub] - lastDropped[m.sub])
  BY <1>3, <1>4, <1>5
<1>7. lastDropped'[m.sub] - lastDropped[m.sub] = NewDrops(m)
  BY <1>1, <1>2, <1>3
<1>8. SumOf(lastDropped, AllSubs) \in Nat
  BY <1>2, <1>3, SumOfNumbers
<1>9. \A s \in AllSubs : lastDropped'[s] <= dropped'[s]
  BY <1>1, <1>3 DEF Counted
<1> QED
  BY <1>1, <1>6, <1>7, <1>8, <1>9

LEMMA EnqueueDrops ==
  ASSUME TypeOK, Counted, NEW m \in Message, Enqueue(m)
  PROVE  \A s \in AllSubs : lastDropped[s] <= dropped'[s]
<1>1. \A s \in AllSubs : lastDropped[s] \in Nat /\ dropped[s] \in Nat
  BY DEF TypeOK
<1>2. dropped' = dropped \/ dropped' = [dropped EXCEPT ![m.sub] = @ + 1]
  BY DEF Enqueue
<1>3. \A s \in AllSubs : dropped'[s] = dropped[s] \/ dropped'[s] = dropped[s] + 1
  BY <1>2 DEF TypeOK
<1> QED
  BY <1>1, <1>3 DEF Counted

LEMMA HandleCounted ==
  ASSUME TypeOK, Fresh, Counted, NEW l \in AllSubs, Handle(l) PROVE Counted'
<1> DEFINE m == hand[l]
<1>1. m # Nothing /\ m \in Message /\ dropped' = dropped
  BY DEF Handle, TypeOK
<1>2. CountDropped(m)
  BY DEF Handle, HandleIgnored, HandleMessage, HandleUnmatched, HandleReply
<1>3. /\ NewDrops(m) \in Nat
      /\ SumOf(lastDropped, AllSubs) \in Nat
      /\ SumOf(lastDropped', AllSubs) = SumOf(lastDropped, AllSubs) + NewDrops(m)
      /\ \A s \in AllSubs : lastDropped'[s] <= dropped'[s]
  BY <1>1, <1>2, DropsAreSummed
<1>4. counter \in Nat /\ received \in Nat
  BY DEF TypeOK
<1>5. ASSUME counter' = counter + NewDrops(m), received' = received,
             shown' \cup matchMap' = shown \cup matchMap,
             shown' \cap matchMap' = {}
      PROVE  Counted'
  <2>1. counter' = received' + SumOf(lastDropped', AllSubs)
    BY <1>3, <1>4, <1>5 DEF Counted
  <2>2. received' = Cardinality(shown' \cup matchMap')
    BY <1>5 DEF Counted
  <2> QED
    BY <1>3, <1>5, <2>1, <2>2 DEF Counted
<1>6. CASE HandleIgnored(m) \/ HandleUnmatched(m)
  BY <1>5, <1>6 DEF HandleIgnored, HandleUnmatched, Counted
<1>7. CASE HandleReply(m)
  <2>1. /\ m.id \in matchMap /\ matchMap' = matchMap \ {m.id}
        /\ shown' = shown \cup {m.id} /\ received' = received
        /\ counter' = counter + NewDrops(m)
    BY <1>7 DEF HandleReply, PrintMsg
  <2>2. shown \cap matchMap = {}
    BY DEF Counted
  <2> QED
    BY <1>5, <2>1, <2>2
<1>8. CASE HandleMessage(m)
  <2>1. Counts(m)
    BY <1>1, <1>8 DEF HandleMessage, Counts
  <2>2. m.id \notin shown \cup matchMap
    <3> DEFINE b == <<l, 0>>
    <3>1. b \in Slots(queue, hand) /\ IdAt(queue, hand, b) = m.id
      BY <2>1, LenProperties DEF Slots, Place, IdAt, TypeOK
    <3> HIDE DEF b
    <3> QED
      BY <3>1 DEF Fresh
  <2>3. /\ shown' \cup matchMap' = shown \cup matchMap \cup {m.id}
        /\ shown' \cap matchMap' = {}
    <3>1. shown \cap matchMap = {}
      BY DEF Counted
    <3> QED
      BY <1>8, <2>2, <3>1 DEF HandleMessage, PrintMsg
  <2>4. IsFiniteSet(shown \cup matchMap)
    <3>1. IsFiniteSet(Ids) /\ shown \cup matchMap \subseteq Ids
      <4>1. 1 \in Int /\ NumMsg \in Int
        BY SubscribeAssumption
      <4> QED
        BY <4>1, FS_Interval DEF Ids, TypeOK
    <3> QED
      BY <3>1, FS_Subset
  <2>5. Cardinality(shown' \cup matchMap') = Cardinality(shown \cup matchMap) + 1
    BY <2>2, <2>3, <2>4, FS_AddElement
  <2>6. counter' = counter + NewDrops(m) + 1 /\ received' = received + 1
    BY <1>8 DEF HandleMessage
  <2>7. counter' = received' + SumOf(lastDropped', AllSubs)
    BY <1>3, <1>4, <2>6 DEF Counted
  <2>8. received' = Cardinality(shown' \cup matchMap')
    BY <2>5, <2>6 DEF Counted
  <2> QED
    BY <1>3, <2>3, <2>7, <2>8 DEF Counted
<1> QED
  BY <1>6, <1>7, <1>8 DEF Handle

LEMMA CountedKept ==
  ASSUME TypeOK, Fresh, Counted, [Next]_vars PROVE Counted'
<1>1. ASSUME UNCHANGED counters,
             \A s \in AllSubs : lastDropped[s] <= dropped'[s]
      PROVE  Counted'
  BY <1>1 DEF Counted, counters, AllSubs
<1>2. ASSUME UNCHANGED <<counters, dropped>> PROVE Counted'
  BY <1>1, <1>2 DEF Counted
<1>3. CASE UNCHANGED vars \/ TimerFires \/ Interrupt
  BY <1>2, <1>3 DEF TimerFires, Interrupt, vars, arrivals
<1>4. CASE MainNext
  BY <1>2, <1>4 DEF MainNext, Create, List, SubscribeFails, Subscribed,
     CloseConn, TakeRecorder, Commit, arrivals
<1>5. ASSUME NEW s \in Subs, Arrive(s) PROVE Counted'
  <2>1. PICK k \in {"plain", "ignored", "request"} :
          Enqueue([sub |-> s, kind |-> k, id |-> arrived'])
    BY <1>5 DEF Arrive
  <2>2. [sub |-> s, kind |-> k, id |-> arrived'] \in Message
    <3>1. arrived' \in Ids
      BY <1>5, SubscribeAssumption DEF Arrive, TypeOK, Ids
    <3> QED
      BY <3>1 DEF Message, AllSubs
  <2>3. UNCHANGED counters
    BY <1>5 DEF Arrive
  <2> QED
    BY <1>1, <2>1, <2>2, <2>3, EnqueueDrops
<1>6. ASSUME NEW r \in asked, ReplyArrives(r) PROVE Counted'
  <2>1. [sub |-> Inbox, kind |-> "reply", id |-> r] \in Message
    BY DEF Message, AllSubs, TypeOK
  <2> QED
    BY <1>1, <1>6, <2>1, EnqueueDrops DEF ReplyArrives
<1>7. ASSUME NEW l \in AllSubs, Take(l) PROVE Counted'
  BY <1>2, <1>7 DEF Take
<1> QED
  BY <1>3, <1>4, <1>5, <1>6, <1>7, HandleCounted DEF Next

(***************************************************************************)
(* The limit.                                                              *)
(***************************************************************************)

LEMMA BusyIsFinite ==
  /\ IsFiniteSet(Busy) /\ Cardinality(Busy) \in Nat
  /\ IsFiniteSet(Subjects) /\ Cardinality(Subjects) \in Nat
BY SubjectsAreSubs, FS_Subset, FS_CardinalityType DEF Busy

\* Stops is kept when nothing is handled or unsubscribed, and no handler
\* gets a message once everything is unsubscribed.
LEMMA StopsFollow ==
  ASSUME TypeOK, Stops, [Next]_vars, received' = received,
         \A s \in Subjects : sub'[s] = "stopped" <=> sub[s] = "stopped",
         (\A s \in Subjects : sub[s] = "stopped") =>
            IF mode = "match"
            THEN Counts(hand'[Inbox]) => Counts(hand[Inbox])
            ELSE \A l \in Subjects : hand'[l] # Nothing => hand[l] # Nothing
  PROVE  Stops'
<1>1. mode' = mode /\ (ending' <=> ending) /\ Subjects' = Subjects
  BY OptionsStay DEF options
<1>2. /\ received \in Nat /\ Limit \in Nat /\ Cardinality(Busy) \in Nat
      /\ Cardinality(Subjects) \in Nat
  BY BusyIsFinite, SubscribeAssumption DEF TypeOK
<1>3. Counts(hand[Inbox])' <=> Counts(hand'[Inbox])
  BY DEF Counts, Nothing
<1>4. SUFFICES ASSUME Limit > 0, ~ ending
      PROVE  /\ (\E s \in Subjects : sub'[s] = "stopped") => received >= Limit
             /\ (\A s \in Subjects : sub'[s] = "stopped") =>
                  IF mode = "match"
                  THEN received = Limit /\ ~ Counts(hand'[Inbox])
                  ELSE received + Cardinality(Busy')
                         <= Limit + Cardinality(Subjects) - 1
  BY <1>1, <1>3 DEF Stops
<1>5. (\E s \in Subjects : sub'[s] = "stopped") => received >= Limit
  BY <1>4 DEF Stops
<1>6. ASSUME \A s \in Subjects : sub'[s] = "stopped", mode = "match"
      PROVE  received = Limit /\ ~ Counts(hand'[Inbox])
  BY <1>4, <1>6 DEF Stops
<1>7. ASSUME \A s \in Subjects : sub'[s] = "stopped", mode # "match"
      PROVE  received + Cardinality(Busy') <= Limit + Cardinality(Subjects) - 1
  <2>1. received + Cardinality(Busy) <= Limit + Cardinality(Subjects) - 1
    BY <1>4, <1>7 DEF Stops
  <2>2. Busy' \subseteq Busy
    BY <1>1, <1>7 DEF Busy, Nothing
  <2>3. Cardinality(Busy') <= Cardinality(Busy) /\ Cardinality(Busy') \in Nat
    BY <2>2, BusyIsFinite, FS_Subset, FS_CardinalityType
  <2> QED
    BY <1>2, <2>1, <2>3
<1> QED
  BY <1>5, <1>6, <1>7

\* A message of an unsubscribed subject is not taken.
LEMMA TakeStops ==
  ASSUME TypeOK, Lanes, Stops, [Next]_vars, NEW l \in AllSubs, Take(l)
  PROVE  Stops'
<1>1. received' = received /\ sub' = sub
  BY DEF Take, counters
<1> DEFINE m == Head(queue[l])
<1>2. /\ Belongs(m, l)
      /\ hand'[l] = IF Valid(m.sub) THEN m ELSE Nothing
      /\ \A k \in AllSubs \ {l} : hand'[k] = hand[k]
  <2>1. 1 \in 1..Len(queue[l]) /\ m = queue[l][1]
    BY Taken
  <2> QED
    BY <2>1, Taken DEF Lanes
<1>3. Subjects \subseteq AllSubs /\ Inbox \in AllSubs
  BY SubjectsAreSubs DEF AllSubs
<1>4. ASSUME \A s \in Subjects : sub[s] = "stopped", mode = "match",
             Counts(hand'[Inbox])
      PROVE  Counts(hand[Inbox])
  <2>1. CASE l = Inbox
    <3>1. m.sub \notin Subjects
      BY <1>2, <1>4, <2>1 DEF Valid, Counts
    <3>2. ~ Counts(m)
      BY <1>2, <3>1 DEF Belongs
    <3> QED
      BY <1>2, <1>4, <2>1, <3>2 DEF Counts
  <2>2. CASE l # Inbox
    BY <1>2, <1>3, <1>4, <2>2
  <2> QED
    BY <2>1, <2>2
<1>5. ASSUME \A s \in Subjects : sub[s] = "stopped", mode # "match",
             NEW k \in Subjects, hand'[k] # Nothing
      PROVE  hand[k] # Nothing
  <2>1. CASE k = l
    <3>1. m.sub \in Subjects
      BY <1>2, <1>5 DEF Belongs
    <3> QED
      BY <1>2, <1>5, <2>1, <3>1 DEF Valid
  <2>2. CASE k # l
    BY <1>2, <1>3, <1>5, <2>2
  <2> QED
    BY <2>1, <2>2
<1> HIDE DEF m
<1> QED
  BY <1>1, <1>4, <1>5, StopsFollow

\* A handled message leaves its hand, and with the last one below the limit
\* everything listed is unsubscribed.
LEMMA HandleStops ==
  ASSUME TypeOK, Lanes, Stops, [Next]_vars, NEW l \in AllSubs, Handle(l)
  PROVE  Stops'
<1> DEFINE m == hand[l]
<1>1. /\ m # Nothing /\ m \in Message /\ Belongs(m, l)
      /\ hand'[l] = Nothing /\ \A k \in AllSubs \ {l} : hand'[k] = hand[k]
  BY DEF Handle, Lanes, TypeOK
<1>2. Subjects \subseteq AllSubs /\ Inbox \in AllSubs /\ Inbox \notin Subjects
  BY SubjectsAreSubs DEF AllSubs
<1>3. ~ Counts(Nothing)
  BY DEF Counts
<1>4. /\ Counts(hand'[Inbox]) => Counts(hand[Inbox])
      /\ \A k \in Subjects : hand'[k] # Nothing => hand[k] # Nothing
  BY <1>1, <1>2, <1>3
<1>5. CASE HandleIgnored(m) \/ HandleUnmatched(m)
  <2>1. received' = received /\ sub' = sub
    BY <1>5 DEF HandleIgnored, HandleUnmatched
  <2>2. \A s \in Subjects : sub'[s] = "stopped" <=> sub[s] = "stopped"
    BY <2>1
  <2> QED
    BY <1>4, <2>1, <2>2, StopsFollow
<1>6. CASE HandleReply(m)
  <2>1. received' = received /\ (sub' = sub \/ sub' = [sub EXCEPT ![Inbox] = "stopped"])
    BY <1>6 DEF HandleReply
  <2>2. \A s \in Subjects : sub'[s] = "stopped" <=> sub[s] = "stopped"
    BY <1>2, <2>1 DEF TypeOK
  <2> QED
    BY <1>4, <2>1, <2>2, StopsFollow
<1>7. CASE HandleMessage(m)
  <2>1. mode' = mode /\ (ending' <=> ending) /\ Subjects' = Subjects
    BY OptionsStay DEF options
  <2>2. /\ received \in Nat /\ Limit \in Nat /\ Cardinality(Busy) \in Nat
        /\ Cardinality(Subjects) \in Nat /\ received' = received + 1
    BY <1>7, BusyIsFinite, SubscribeAssumption DEF TypeOK, HandleMessage
  <2>3. Counts(m) /\ m.sub \in Subjects
    BY <1>1, <1>7 DEF HandleMessage, Counts, Belongs
  <2>4. mode = "match" => l = Inbox
    BY <1>1 DEF Belongs, Lane
  <2>5. mode # "match" => l \in Subjects
    BY <1>1, <2>3 DEF Belongs, Lane
  <2>6. Counts(hand[Inbox])' <=> Counts(hand'[Inbox])
    BY DEF Counts, Nothing
  <2>7. SUFFICES ASSUME Limit > 0, ~ ending
        PROVE  /\ (\E s \in Subjects : sub'[s] = "stopped") => received' >= Limit
               /\ (\A s \in Subjects : sub'[s] = "stopped") =>
                    IF mode = "match"
                    THEN received' = Limit /\ ~ Counts(hand'[Inbox])
                    ELSE received' + Cardinality(Busy')
                           <= Limit + Cardinality(Subjects) - 1
    BY <2>1, <2>6 DEF Stops
  <2>8. CASE Enough(m)
    <3>1. received' = Limit
      BY <2>7, <2>8 DEF Enough
    <3>2. mode = "match" => ~ Counts(hand'[Inbox])
      BY <1>1, <1>3, <2>4
    <3>3. ASSUME mode # "match"
          PROVE  /\ Cardinality(Busy') <= Cardinality(Subjects) - 1
                 /\ Cardinality(Busy') \in Nat
      <4>1. Busy' \subseteq Subjects \ {l} /\ l \in Subjects
        BY <1>1, <2>1, <2>5, <3>3 DEF Busy, Nothing
      <4>2. /\ IsFiniteSet(Subjects \ {l})
            /\ Cardinality(Subjects \ {l}) = Cardinality(Subjects) - 1
        BY <4>1, BusyIsFinite, FS_RemoveElement
      <4> QED
        BY <4>1, <4>2, FS_Subset, FS_CardinalityType
    <3> QED
      BY <2>2, <3>1, <3>2, <3>3
  <2>9. CASE ~ Enough(m)
    <3>1. sub' = sub
      BY <1>7, <2>9 DEF HandleMessage
    <3>2. (\E s \in Subjects : sub'[s] = "stopped") => received' >= Limit
      BY <2>2, <2>7, <3>1 DEF Stops
    <3>3. ASSUME \A s \in Subjects : sub[s] = "stopped" PROVE mode # "match"
      BY <2>3, <2>4, <2>7, <3>3 DEF Stops
    <3>4. ASSUME \A s \in Subjects : sub[s] = "stopped"
          PROVE  received' + Cardinality(Busy') <= Limit + Cardinality(Subjects) - 1
      <4>1. received + Cardinality(Busy) <= Limit + Cardinality(Subjects) - 1
        BY <2>7, <3>3, <3>4 DEF Stops
      <4>2. Busy' = Busy \ {l} /\ l \in Busy
        BY <1>1, <1>2, <2>1, <2>5, <3>3, <3>4 DEF Busy, Nothing
      <4>3. Cardinality(Busy') = Cardinality(Busy) - 1
        BY <4>2, BusyIsFinite, FS_RemoveElement
      <4> QED
        BY <2>2, <4>1, <4>3
    <3> QED
      BY <3>1, <3>2, <3>3, <3>4
  <2> QED
    BY <2>8, <2>9
<1> QED
  BY <1>5, <1>6, <1>7 DEF Handle

LEMMA StopsKept ==
  ASSUME TypeOK, Lanes, Stops, [Next]_vars PROVE Stops'
<1>1. ASSUME received' = received, hand' = hand,
             \A s \in Subjects : sub'[s] = "stopped" <=> sub[s] = "stopped"
      PROVE  Stops'
  BY <1>1, StopsFollow
<1>2. CASE UNCHANGED vars \/ TimerFires \/ Interrupt
  BY <1>1, <1>2 DEF TimerFires, Interrupt, vars, counters
<1>3. Subjects \subseteq AllSubs
  BY SubjectsAreSubs DEF AllSubs
<1>4. ASSUME NEW s \in Subjects, Create(s) \/ List(s) PROVE Stops'
  <2>1. received' = received /\ hand' = hand
    BY <1>4 DEF Create, List, counters
  <2>2. \A r \in Subjects : sub'[r] = "stopped" <=> sub[r] = "stopped"
    BY <1>3, <1>4 DEF Create, List, TypeOK
  <2> QED
    BY <1>1, <2>1, <2>2
<1>5. CASE SubscribeFails \/ Subscribed \/ TakeRecorder \/ Commit
  BY <1>1, <1>5 DEF SubscribeFails, Subscribed, TakeRecorder, Commit, counters
<1>6. CASE CloseConn
  <2>1. received' = received /\ hand' = hand
    BY <1>6 DEF CloseConn, counters
  <2>2. \A r \in Subjects : sub'[r] = "stopped" <=> sub[r] = "stopped"
    BY <1>3, <1>6 DEF CloseConn, Valid
  <2> QED
    BY <1>1, <2>1, <2>2
<1>7. ASSUME NEW s \in Subs, Arrive(s) PROVE Stops'
  BY <1>1, <1>7 DEF Arrive, counters
<1>8. ASSUME NEW r \in asked, ReplyArrives(r) PROVE Stops'
  BY <1>1, <1>8 DEF ReplyArrives, counters
<1> QED
  BY <1>2, <1>4, <1>5, <1>6, <1>7, <1>8, TakeStops, HandleStops DEF Next, MainNext

(***************************************************************************)
(* The theorems.                                                           *)
(***************************************************************************)

LEMMA InitHolds == Init => IInv
<1> SUFFICES ASSUME Init PROVE IInv
  OBVIOUS
<1>1. TypeOK
  BY InitTypes
<1>2. /\ \A l \in AllSubs : hand[l] = Nothing /\ Len(queue[l]) = 0
      /\ shown = {} /\ matchMap = {} /\ received = 0 /\ counter = 0
      /\ arrived = 0
  BY DEF Init
<1>3. Slots(queue, hand) = {}
  BY <1>2 DEF Slots, Place, Counts
<1>4. Fresh
  BY <1>2, <1>3 DEF Fresh, Distinct
<1>5. Lanes
  BY <1>2, SubjectsAreSubs, SubscribeAssumption DEF Init, Lanes, AllSubs
<1>6. Counted
  <2>1. \A s \in AllSubs : lastDropped[s] = 0 /\ dropped[s] = 0
    BY DEF Init
  <2>2. SumOf(lastDropped, AllSubs) = 0
    BY <2>1, SubjectsAreSubs, SumOfZeros
  <2>3. Cardinality(shown \cup matchMap) = 0
    BY <1>2, FS_EmptySet
  <2> QED
    BY <1>2, <2>1, <2>2, <2>3 DEF Counted
<1>7. Stops
  <2>1. \A s \in Subjects : sub[s] # "stopped"
    BY SubjectsAreSubs DEF Init, AllSubs
  <2> QED
    BY <2>1, SubjectsAreSubs DEF Stops
<1>8. Recorder
  BY DEF Init, Recorder
<1> QED
  BY <1>1, <1>4, <1>5, <1>6, <1>7, <1>8 DEF IInv

\* The types, the places, the counters, the limit and the recorder together
\* are preserved by every step.
THEOREM Invariance == Spec => []IInv
<1>1. Init => IInv
  BY InitHolds
<1>2. IInv /\ [Next]_vars => IInv'
  BY TypesKept, LanesKept, FreshKept, CountedKept, StopsKept, RecorderKept
  DEF IInv
<1> QED
  BY <1>1, <1>2, PTL DEF Spec

\* The variables keep their types, and no queue holds more than the client
\* library's buffer.
THEOREM TypeCorrect == Spec => []TypeOK
<1>1. IInv => TypeOK
  BY DEF IInv
<1> QED
  BY <1>1, Invariance, PTL

\* The printed sequence is the messages received and the drops noticed;
\* every message received was printed or waits for its reply, and none was
\* counted twice.
THEOREM SequenceIsRight == Spec => []CountersAgree
<1>1. IInv => CountersAgree
  BY DEF IInv, Counted, CountersAgree, SumOf
<1> QED
  BY <1>1, Invariance, PTL

\* Once --count is reached with everything listed, no more is handled than
\* the other handlers had in hand, and nothing with one handler.
THEOREM LimitIsKept == Spec => []LimitHolds
<1>1. IInv => LimitHolds
  <2> SUFFICES ASSUME IInv, Limit > 0, ~ ending,
                      \A s \in Subjects : sub[s] = "stopped"
               PROVE  received <= Limit + (IF mode = "match" THEN 0
                                           ELSE Cardinality(Subjects) - 1)
    BY DEF LimitHolds
  <2>1. IF mode = "match" THEN received = Limit
        ELSE received + Cardinality(Busy) <= Limit + Cardinality(Subjects) - 1
    BY DEF IInv, Stops
  <2>2. /\ received \in Nat /\ Limit \in Nat
        /\ Cardinality(Busy) \in Nat /\ Cardinality(Subjects) \in Nat
    BY BusyIsFinite, SubscribeAssumption DEF IInv, TypeOK
  <2> QED
    BY <2>1, <2>2
<1> QED
  BY <1>1, Invariance, PTL

\* An open recorder holds what was printed, and without an error the backup
\* is committed.
THEOREM BackupHoldsAll == Spec => []BackupIsComplete
<1>1. IInv => BackupIsComplete
  BY DEF IInv, Recorder, BackupIsComplete
<1> QED
  BY <1>1, Invariance, PTL
=============================================================================
