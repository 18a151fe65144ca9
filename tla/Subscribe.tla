----------------------------- MODULE Subscribe -----------------------------
(***************************************************************************)
(* `nats sub` (cli/sub_command.go): the main goroutine creates the          *)
(* subscriptions one by one and waits for its context to be cancelled; the *)
(* client library calls the message handlers on goroutines of its own; a   *)
(* timer (--wait), a signal, a failing recorder (--backup), the message    *)
(* limit (--count) and the end of the stream (--terminate-at-end) cancel.  *)
(*                                                                         *)
(* Three modes share the state: "async", core subscriptions with a handler *)
(* goroutine each; "match" (--match-replies), where the messages of all    *)
(* subscriptions and of the reply inbox go through one channel; "stream",  *)
(* a consumer of a stream.  Direct gets are not in this module.            *)
(*                                                                         *)
(* An operator whose comment says "Mutant" is no part of the model: it is   *)
(* the operator it names with a plausible bug, which a property refutes.   *)
(***************************************************************************)
EXTENDS Integers, Sequences, FiniteSetsExt

CONSTANTS
  Subs,      \* the subjects subscribed to, one of them in mode "stream"
  Inbox,     \* the subscription the replies arrive on in mode "match"
  Limit,     \* --count, 0 when not given
  NumMsg,    \* bound: messages published, or stored in the stream
  Buffer,    \* bound: messages the client library holds before it drops
  Modes,     \* the modes to consider
  Waits,     \* whether --wait is given: a subset of BOOLEAN
  Backups,   \* whether --backup is given: a subset of BOOLEAN
  Endings    \* whether --terminate-at-end is given: a subset of BOOLEAN

ASSUME SubscribeAssumption ==
  /\ IsFiniteSet(Subs) /\ Subs # {} /\ Inbox \notin Subs
  /\ Limit \in Nat /\ NumMsg \in Nat /\ Buffer \in Nat \ {0}
  /\ Modes \subseteq {"async", "match", "stream"}
  /\ Waits \subseteq BOOLEAN /\ Backups \subseteq BOOLEAN
  /\ Endings \subseteq BOOLEAN

VARIABLES
  mode, wait, backup, ending,  \* the options of this run
  main,         \* where subscribe() is, or how it returned
  sub,          \* the state of each subscription
  queue,        \* messages the client library holds, per handler goroutine
  hand,         \* the message a handler goroutine is about to handle
  arrived,      \* messages that have reached the client
  asked,        \* requests whose reply has not arrived
  dropped,      \* messages the client library has dropped, per subscription
  lastDropped,  \* drops already added to counter, per subscription
  counter,      \* the printed sequence, including dropped messages
  received,     \* handled messages
  matchMap,     \* requests waiting for their reply
  shown,        \* messages printed (a request is printed with its reply)
  rec,          \* the state of the recorder
  recorded,     \* messages written to the recorder
  cancelled,    \* has the context been cancelled?
  timer         \* the --wait timer

options == <<mode, wait, backup, ending>>
arrivals == <<queue, arrived, asked, dropped>>
counters == <<lastDropped, counter, received, matchMap, shown>>
vars == <<options, main, sub, hand, arrivals, counters, rec, recorded,
          cancelled, timer>>

\* A stream is subscribed to with one subject.
Subjects == IF mode = "stream" THEN {CHOOSE s \in Subs : TRUE} ELSE Subs
AllSubs == Subs \cup {Inbox}

\* The goroutine that handles the messages of a subscription.
Lane(s) == IF mode = "match" THEN Inbox ELSE s

\* A subscription that has been unsubscribed or whose connection is closed is
\* no longer valid: nothing is delivered on it.
Valid(s) == sub[s] \in {"open", "listed"}

Ids == 1..NumMsg
Message == [sub : AllSubs, id : Ids,
            kind : {"plain", "ignored", "request", "reply"}]
Nothing == [kind |-> "nothing"]

Ended == {"done", "failed"}
Running == main \notin Ended

TypeOK ==
  /\ mode \in Modes /\ wait \in Waits /\ backup \in Backups
  /\ ending \in Endings
  /\ main \in {"subscribing", "waiting", "closing", "committing"} \cup Ended
  /\ sub \in [AllSubs -> {"none", "open", "listed", "stopped", "closed"}]
  /\ queue \in [AllSubs -> Seq(Message)]
  /\ \A l \in AllSubs : Len(queue[l]) <= Buffer
  /\ hand \in [AllSubs -> Message \cup {Nothing}]
  /\ arrived \in 0..NumMsg
  /\ asked \subseteq Ids
  /\ dropped \in [AllSubs -> Nat] /\ lastDropped \in [AllSubs -> Nat]
  /\ counter \in Nat /\ received \in Nat
  /\ matchMap \subseteq Ids /\ shown \subseteq Ids /\ recorded \subseteq Ids
  /\ rec \in {"off", "open", "broken", "committing", "committed", "discarded"}
  /\ cancelled \in BOOLEAN
  /\ timer \in {"off", "armed", "fired"}

Init ==
  /\ mode \in Modes /\ wait \in Waits /\ backup \in Backups
  /\ ending \in Endings /\ (ending => mode = "stream")
  /\ main = "subscribing"
  /\ sub = [s \in AllSubs |->
              IF s = Inbox /\ mode = "match" THEN "open" ELSE "none"]
  /\ queue = [l \in AllSubs |-> <<>>]
  /\ hand = [l \in AllSubs |-> Nothing]
  /\ arrived = 0
  /\ asked = {}
  /\ dropped = [s \in AllSubs |-> 0]
  /\ lastDropped = [s \in AllSubs |-> 0]
  /\ counter = 0
  /\ received = 0
  /\ matchMap = {}
  /\ shown = {}
  /\ recorded = {}
  /\ rec = IF backup THEN "open" ELSE "off"
  /\ cancelled = FALSE
  /\ timer = IF wait THEN "armed" ELSE "off"

(***************************************************************************)
(* subscribe().                                                            *)
(***************************************************************************)

\* nc.Subscribe or Consume: messages can be delivered, and reach a handler,
\* before the subscription is in the list that the handler unsubscribes.
Create(s) ==
  /\ main = "subscribing"
  /\ \A r \in Subjects : sub[r] # "open"
  /\ sub[s] = "none"
  /\ sub' = [sub EXCEPT ![s] = "open"]
  /\ UNCHANGED <<options, main, hand, arrivals, counters, rec, recorded,
                 cancelled, timer>>

\* *subs = append(*subs, sub)
List(s) ==
  /\ main = "subscribing"
  /\ sub[s] = "open"
  /\ sub' = [sub EXCEPT ![s] = "listed"]
  /\ UNCHANGED <<options, main, hand, arrivals, counters, rec, recorded,
                 cancelled, timer>>

\* A subscription cannot be made, or nc.LastError() is not nil after the
\* flush: the deferred calls discard the recorder and cancel.
SubscribeFails ==
  /\ main = "subscribing"
  /\ main' = "failed"
  /\ rec' = IF rec = "open" THEN "discarded" ELSE rec
  /\ cancelled' = TRUE
  /\ UNCHANGED <<options, sub, hand, arrivals, counters, recorded, timer>>

Subscribed ==
  /\ main = "subscribing"
  /\ \A s \in Subjects : sub[s] \notin {"none", "open"}
  /\ main' = "waiting"
  /\ UNCHANGED <<options, sub, hand, arrivals, counters, rec, recorded,
                 cancelled, timer>>

\* <-ctx.Done(), then the connection is closed. The messages the library
\* still holds are not delivered; the one in a handler's hand is.
CloseConn ==
  /\ main = "waiting"
  /\ cancelled
  /\ main' = "closing"
  /\ sub' = [s \in AllSubs |-> IF Valid(s) THEN "closed" ELSE sub[s]]
  /\ queue' = [l \in AllSubs |-> <<>>]
  /\ UNCHANGED <<options, hand, arrived, asked, dropped, counters, rec,
                 recorded, cancelled, timer>>

\* Mutant of TakeRecorder: without a recorder the result is always nil.
TakeRecorderNil ==
  /\ main = "closing"
  /\ IF rec = "open"
     THEN rec' = "committing" /\ main' = "committing"
     ELSE rec' = rec /\ main' = "done"
  /\ UNCHANGED <<options, sub, hand, arrivals, counters, recorded, cancelled,
                 timer>>

\* The first half of closeRecorder, under msgMu: the recorder is taken away
\* from the handlers. Without one, or after one that failed, that is all.
TakeRecorder ==
  /\ main = "closing"
  /\ IF rec = "open"
     THEN rec' = "committing" /\ main' = "committing"
     ELSE rec' = rec /\ main' = IF rec = "broken" THEN "failed" ELSE "done"
  /\ UNCHANGED <<options, sub, hand, arrivals, counters, recorded, cancelled,
                 timer>>

\* rec.Close(), which takes its time and is not under msgMu.
Commit ==
  /\ main = "committing"
  /\ \/ rec' = "committed" /\ main' = "done"
     \/ rec' = "broken" /\ main' = "failed"
  /\ UNCHANGED <<options, sub, hand, arrivals, counters, recorded, cancelled,
                 timer>>

MainNext ==
  \/ \E s \in Subjects : Create(s) \/ List(s)
  \/ SubscribeFails
  \/ Subscribed
  \/ CloseConn
  \/ TakeRecorder
  \/ Commit

(***************************************************************************)
(* The world: messages and replies arrive, time passes, the user presses   *)
(* Ctrl-C (caught only with --backup).                                     *)
(***************************************************************************)

\* The library keeps the message, or counts it as dropped when it is full. A
\* consumer asks for no more messages than it has room for.
Enqueue(m) ==
  LET l == Lane(m.sub)
  IN  IF Len(queue[l]) < Buffer
      THEN /\ queue' = [queue EXCEPT ![l] = Append(@, m)]
           /\ UNCHANGED dropped
      ELSE /\ mode # "stream"
           /\ dropped' = [dropped EXCEPT ![m.sub] = @ + 1]
           /\ UNCHANGED queue

Arrive(s) ==
  /\ Running
  /\ Valid(s)
  /\ arrived < NumMsg
  /\ arrived' = arrived + 1
  /\ \E k \in {"plain", "ignored"}
              \cup (IF mode = "match" THEN {"request"} ELSE {}) :
       /\ Enqueue([sub |-> s, kind |-> k, id |-> arrived'])
       /\ asked' = IF k = "request" THEN asked \cup {arrived'} ELSE asked
  /\ UNCHANGED <<options, main, sub, hand, counters, rec, recorded,
                 cancelled, timer>>

ReplyArrives(r) ==
  /\ Running
  /\ Valid(Inbox)
  /\ r \in asked
  /\ asked' = asked \ {r}
  /\ Enqueue([sub |-> Inbox, kind |-> "reply", id |-> r])
  /\ UNCHANGED <<options, main, sub, hand, arrived, counters, rec, recorded,
                 cancelled, timer>>

TimerFires ==
  /\ Running
  /\ timer = "armed"
  /\ timer' = "fired"
  /\ cancelled' = TRUE
  /\ UNCHANGED <<options, main, sub, hand, arrivals, counters, rec, recorded>>

Interrupt ==
  /\ Running
  /\ backup
  /\ cancelled' = TRUE
  /\ UNCHANGED <<options, main, sub, hand, arrivals, counters, rec, recorded,
                 timer>>

(***************************************************************************)
(* The handler goroutines.                                                 *)
(***************************************************************************)

\* Mutant of Take: the validity of the subscription is not checked.
TakeStale(l) ==
  /\ Running
  /\ hand[l] = Nothing
  /\ queue[l] # <<>>
  /\ queue' = [queue EXCEPT ![l] = Tail(@)]
  /\ hand' = [hand EXCEPT ![l] = Head(queue[l])]
  /\ UNCHANGED <<options, main, sub, arrived, asked, dropped, counters, rec,
                 recorded, cancelled, timer>>

\* The library, or handleInArrivalOrder, takes the next message and calls the
\* handler, which then waits for msgMu. A message whose subscription is no
\* longer valid is skipped.
Take(l) ==
  /\ Running
  /\ hand[l] = Nothing
  /\ queue[l] # <<>>
  /\ queue' = [queue EXCEPT ![l] = Tail(@)]
  /\ hand' = [hand EXCEPT ![l] =
                IF Valid(Head(queue[l]).sub) THEN Head(queue[l]) ELSE Nothing]
  /\ UNCHANGED <<options, main, sub, arrived, asked, dropped, counters, rec,
                 recorded, cancelled, timer>>

\* Mutant of NewDrops: all drops are added every time.
NewDropsAgain(m) ==
  IF mode # "stream" /\ Valid(m.sub) THEN dropped[m.sub] ELSE 0

\* Mutant of NewDrops: the operands are swapped.
NewDropsSwapped(m) ==
  IF mode # "stream" /\ Valid(m.sub)
  THEN lastDropped[m.sub] - dropped[m.sub]
  ELSE 0

\* countDropped: the drops of m's subscription that counter does not include
\* yet. The library refuses to tell for an invalid subscription, and the
\* handler of a stream does not ask.
NewDrops(m) ==
  IF mode # "stream" /\ Valid(m.sub)
  THEN dropped[m.sub] - lastDropped[m.sub]
  ELSE 0

CountDropped(m) ==
  lastDropped' = [lastDropped EXCEPT ![m.sub] = @ + NewDrops(m)]

\* printMsg: a message is recorded, if there is a recorder, and shown. A
\* recorder that fails is discarded.
PrintMsg(id) ==
  /\ shown' = shown \cup {id}
  /\ \/ /\ rec # "broken"
        /\ rec' = rec
        /\ recorded' = IF rec = "open" THEN recorded \cup {id} ELSE recorded
     \/ /\ rec \in {"open", "broken"}
        /\ rec' = "broken"
        /\ UNCHANGED recorded

\* The handler of an ignored subject returns at once.
HandleIgnored(m) ==
  /\ m.kind = "ignored"
  /\ CountDropped(m)
  /\ counter' = counter + NewDrops(m)
  /\ UNCHANGED <<received, matchMap, shown, rec, recorded, sub, queue,
                 cancelled, timer>>

\* --count is reached, or with --terminate-at-end the stream's last message
\* (NumPending = 0).
Enough(m) ==
  \/ Limit > 0 /\ received' = Limit
  \/ ending /\ m.id = NumMsg

\* Unsubscribe() or Stop() on what is listed: what the library holds for it
\* is thrown away, but in mode "match" it is in the channel and stays there.
UnsubscribeListed ==
  LET listed == {s \in Subs : sub[s] = "listed"}
  IN  /\ sub' = [s \in AllSubs |-> IF s \in listed THEN "stopped" ELSE sub[s]]
      /\ queue' = [l \in AllSubs |-> IF l \in listed THEN <<>> ELSE queue[l]]

\* A message: counted, then kept until its reply arrives or printed. After
\* the last one everything listed is unsubscribed, and the context is
\* cancelled unless replies are still to come; otherwise the timer restarts.
HandleMessage(m) ==
  /\ m.kind \in {"plain", "request"}
  /\ CountDropped(m)
  /\ counter' = counter + NewDrops(m) + 1
  /\ received' = received + 1
  /\ IF m.kind = "request"
     THEN /\ matchMap' = matchMap \cup {m.id}
          /\ UNCHANGED <<shown, rec, recorded>>
     ELSE /\ PrintMsg(m.id)
          /\ UNCHANGED matchMap
  /\ IF Enough(m)
     THEN /\ UnsubscribeListed
          /\ cancelled' = (\/ cancelled
                           \/ rec' # rec
                           \/ mode # "match"
                           \/ matchMap' = {})
          /\ UNCHANGED timer
     ELSE /\ cancelled' = (cancelled \/ rec' # rec \/ timer = "fired")
          /\ timer' = IF timer = "off" THEN "off" ELSE "armed"
          /\ UNCHANGED <<sub, queue>>

\* A reply nobody waits for is dropped.
HandleUnmatched(m) ==
  /\ m.kind = "reply"
  /\ m.id \notin matchMap
  /\ CountDropped(m)
  /\ counter' = counter + NewDrops(m)
  /\ UNCHANGED <<received, matchMap, shown, rec, recorded, sub, queue,
                 cancelled, timer>>

\* Mutant of HandleReply: the last reply does not cancel.
HandleReplyOnly(m) ==
  /\ m.kind = "reply"
  /\ m.id \in matchMap
  /\ CountDropped(m)
  /\ counter' = counter + NewDrops(m)
  /\ PrintMsg(m.id)
  /\ matchMap' = matchMap \ {m.id}
  /\ cancelled' = (cancelled \/ rec' # rec)
  /\ UNCHANGED <<received, queue, sub, timer>>

\* A reply is printed together with its request.
HandleReply(m) ==
  /\ m.kind = "reply"
  /\ m.id \in matchMap
  /\ CountDropped(m)
  /\ counter' = counter + NewDrops(m)
  /\ PrintMsg(m.id)
  /\ matchMap' = matchMap \ {m.id}
  /\ LET last == Limit > 0 /\ received = Limit /\ matchMap' = {}
     IN  /\ cancelled' = (cancelled \/ rec' # rec \/ last)
         /\ sub' = IF last /\ Valid(Inbox)
                   THEN [sub EXCEPT ![Inbox] = "stopped"]
                   ELSE sub
  /\ UNCHANGED <<received, queue, timer>>

\* The handler has msgMu from its first line to its last.
Handle(l) ==
  /\ Running
  /\ hand[l] # Nothing
  /\ \/ HandleIgnored(hand[l])
     \/ HandleMessage(hand[l])
     \/ HandleUnmatched(hand[l])
     \/ HandleReply(hand[l])
  /\ hand' = [hand EXCEPT ![l] = Nothing]
  /\ UNCHANGED <<options, main, arrived, asked, dropped>>

Next ==
  \/ MainNext
  \/ \E s \in Subs : Arrive(s)
  \/ \E r \in asked : ReplyArrives(r)
  \/ \E l \in AllSubs : Take(l) \/ Handle(l)
  \/ TimerFires
  \/ Interrupt

Spec == Init /\ [][Next]_vars

\* Goroutines that can run do. The traffic of the model is finite, so that
\* the timer is reset finitely often and fires at last.
Fairness ==
  /\ WF_vars(MainNext)
  /\ \A l \in AllSubs : WF_vars(Take(l)) /\ WF_vars(Handle(l))
  /\ WF_vars(TimerFires)

FairSpec == Spec /\ Fairness

(***************************************************************************)
(* Properties.                                                             *)
(***************************************************************************)

\* counter runs ahead of received by exactly the drops that have been noticed,
\* and every message received has been printed or waits for its reply.
CountersAgree ==
  /\ counter = received + MapThenSumSet(LAMBDA s : lastDropped[s], AllSubs)
  /\ \A s \in AllSubs : lastDropped[s] <= dropped[s]
  /\ received = Cardinality(shown \cup matchMap)
  /\ shown \cap matchMap = {}

\* Once --count has been reached after all subscriptions were listed, no more
\* messages are handled than the other handlers already had in hand: none
\* when there is one handler.
LimitHolds ==
  Limit > 0 /\ (\A s \in Subjects : sub[s] = "stopped") /\ ~ending =>
    received <= Limit + (IF mode = "match" THEN 0
                         ELSE Cardinality(Subjects) - 1)

\* While the recorder is open it holds exactly what has been printed, and
\* subscribe() returns without an error only if the backup is committed: a
\* failure in a handler is never lost on the way to the exit status.
BackupIsComplete ==
  /\ rec = "open" => recorded = shown
  /\ main = "done" /\ backup => rec = "committed"

\* With --wait the command returns at last; so it does when everything is
\* unsubscribed at the limit and no reply is missing.
Quits ==
  wait \/ (/\ Limit > 0
           /\ \A s \in Subjects : sub[s] = "stopped"
           /\ matchMap = {})
    ~> main \in Ended

\* "Stops consuming messages from JetStream once all messages were received":
\* with --terminate-at-end the command returns once the stream's last message
\* has been handled.
StopsAtEnd ==
  ending /\ arrived = NumMsg ~> main \in Ended
=============================================================================
