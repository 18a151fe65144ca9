----------------------------- MODULE Messaging -----------------------------
(***************************************************************************)
(* A process that publishes or requests (Publisher), or measures latency    *)
(* (Latency), and the processes that answer it (Replier).                   *)
(***************************************************************************)
EXTENDS Publisher, Replier, Latency, SequencesExt

ASSUME MessagingAssumption == Jobs # {}

VARIABLES
  command,   \* the command of the first process: "publish", "latency" or another
  delivered  \* messages of wire the server has delivered

messagingVars == <<publisherVars, replierVars, latencyVars, command, delivered>>

MessagingInit ==
  /\ PublisherInit /\ ReplierInit /\ LatencyInit
  /\ command # "publish" => job = CHOOSE j \in Jobs : TRUE
  /\ command # "latency" => ~routed
  /\ delivered = 0

(* Repliers listen to the subject of plain messages and requests; what goes *)
(* to a stream is published elsewhere.                                      *)
Audience == command = "publish" /\ job.kind \in {"core", "req"}

(* The request the callback waits for replies to. *)
Awaited(m) == pc = "wait" /\ m.reply = "inbox" /\ m.chunk = chunk /\ m.copy = copy

(* What reaches the inbox the callback reads: only what answers the current *)
(* request, as each has an inbox of its own, and only while connected.      *)
ToInbox(m, r) ==
  /\ inbox' = IF Awaited(m) /\ conn THEN Append(inbox, r) ELSE inbox
  /\ UNCHANGED <<job, input, work, got, signalled, main, link>>

(* The server delivers the next message; a request that reaches nobody is   *)
(* answered by the server itself.                                           *)
Route ==
  /\ Audience /\ delivered < Len(wire)
  /\ delivered' = delivered + 1
  /\ LET m == wire[delivered + 1] IN
       /\ Deliver(m)
       /\ IF Reached = {} /\ m.reply = "inbox" THEN ToInbox(m, "no_responders")
          ELSE UNCHANGED publisherVars
  /\ UNCHANGED <<latencyVars, command>>

Reply(r) ==
  /\ Answers(r)
  /\ \E body \in {"data", "empty"} : ToInbox(Head(rqueue[r]), body)
  /\ UNCHANGED <<latencyVars, command, delivered>>

Alone == UNCHANGED <<publisherVars, latencyVars, command, delivered>>
ReplierRuns(r) == Audience /\ (Subscribes(r) \/ Limits(r) \/ Exits(r)) /\ Alone
ReplierInterrupted(r) == Audience /\ Interrupts(r) /\ Alone
ReplierGivesUp(r) == GivesUp(r) /\ Alone

Publishing(step) ==
  /\ command = "publish" /\ step
  /\ UNCHANGED <<replierVars, latencyVars, command, delivered>>

Measuring ==
  /\ command = "latency" /\ LatencyNext
  /\ UNCHANGED <<publisherVars, replierVars, command, delivered>>

MessagingNext ==
  \/ Publishing(Environment) \/ Publishing(Callback) \/ Publishing(MainLoop)
  \/ Measuring \/ Route
  \/ \E r \in Repliers :
       Reply(r) \/ ReplierRuns(r) \/ ReplierInterrupted(r) \/ ReplierGivesUp(r)

-----------------------------------------------------------------------------
(* Every variable has its type.                                             *)
PublisherTypeOK ==
  /\ job \in Jobs /\ copied \in 0 .. MaxLines
  /\ source \in {"open", "eof", "failed"} /\ hung \in BOOLEAN
  /\ chunk \in 0 .. MaxLines + 1 /\ copy \in 1 .. job.count /\ eof \in BOOLEAN
  /\ pc \in {"read", "send", "wait", "commit", "adding", "ok", "error"}
  /\ pending \in Seq(Message) /\ staged \in Int
  /\ inbox \in Seq({"data", "empty", "no_responders"}) /\ got \in Nat
  /\ signalled \in BOOLEAN /\ main \in {"select", "leaving"} \cup Finished
  /\ conn \in BOOLEAN /\ drops \in 0 .. MaxDrops
  /\ outbox \in Seq(Message) /\ wire \in Seq(Message)

ReplierTypeOK ==
  /\ rmain \in [Repliers -> {"subscribing", "limiting", "listening"} \cup Gone]
  /\ rsub \in [Repliers -> {"none", "on", "limited"}]
  /\ rgot \in [Repliers -> Nat] /\ rqueue \in [Repliers -> Seq(Message)]
  /\ answered \in [Repliers -> Nat] /\ failed \in [Repliers -> BOOLEAN]
  /\ ic \in [Repliers -> {0, 1}]

LatencyTypeOK ==
  /\ lmain \in {"connect", "route", "publish", "wait", "done", "error"}
  /\ routed \in BOOLEAN /\ sent \in Nat /\ lost \in Nat /\ received \in Nat /\ wg \in Int

MessagingTypeOK ==
  /\ PublisherTypeOK /\ ReplierTypeOK /\ LatencyTypeOK
  /\ delivered \in 0 .. Len(wire)

(* The chunks of the input as far as it has arrived, each --count times.     *)
Chunks == IF Stdin /\ ~OnEof THEN copied ELSE 1
Key(m) == <<m.chunk, m.copy>>
Keys(s) == [k \in DOMAIN s |-> Key(s[k])]
Expected ==
  [k \in 1 .. Chunks * job.count |-> <<((k - 1) \div job.count) + 1, ((k - 1) % job.count) + 1>>]

Before(a, b) == a.chunk < b.chunk \/ (a.chunk = b.chunk /\ a.copy < b.copy)

(* What reaches the server is in the order of the input and nothing comes   *)
(* twice, through lost connections, refused messages and failing requests   *)
(* (the loops of publishNatsMsg, publishJetstream and doReq).               *)
PublishedInOrder ==
  LET all == wire \o outbox
  IN \A i, j \in DOMAIN all : i < j => Before(all[i], all[j])

(* An atomic batch is stored only when stdin was read to its end: a signal  *)
(* that closes the pipe, a failing stdin and a lost message leave nothing   *)
(* behind (publishAtomicBatch, writeAtomic and the pipe of Publisher.Run).  *)
BatchIsAllOrNothing ==
  job.kind = "atomic" /\ wire # <<>> => source = "eof" /\ Keys(wire) = Expected

(* A command that succeeds has published all of its input: always when what *)
(* it published was acknowledged and errors are returned, and with plain    *)
(* publishes, whose Flush is not looked at, when the connection held.       *)
SuccessIsComplete ==
  main = "ok" /\ \/ job.kind = "atomic"
                 \/ job.kind = "js" /\ OnEof
                 \/ job.kind = "core" /\ drops = 0
    => Keys(wire) = Expected

(* `nats pub` and `nats req` end: when their input has ended, when it was   *)
(* on the command line, and on a signal, even with the callback stuck in a  *)
(* read of stdin (Publisher.Run); and `nats latency` if every message could *)
(* be published and the duration is not below a second (the wait group of   *)
(* latencyAction).                                                          *)
MessagingDue ==
  \/ command = "publish" /\ (source # "open" \/ ~Stdin \/ signalled)
  \/ command = "latency"
MessagingOver ==
  \/ command = "publish" /\ main \in Finished
  \/ command = "latency" /\ (lmain \in {"done", "error"} \/ lost > 0 \/ numPubs = 0)

(* A replier whose subscription received --count messages quits, unless the *)
(* handler gave up on one (the counter of reply against AutoUnsubscribe).   *)
RepliersQuit ==
  \A r \in Repliers :
    ReplyLimit > 0 /\ rgot[r] >= ReplyLimit => rmain[r] \in Gone \/ failed[r]

(* The headers given with -H are on every message of an atomic batch.       *)
BatchKeepsHeaders ==
  job.kind = "atomic" => \A k \in DOMAIN wire : wire[k].dressed
=============================================================================
