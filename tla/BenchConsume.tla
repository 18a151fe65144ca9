---------------------------- MODULE BenchConsume ----------------------------
(***************************************************************************)
(* The receiving benchmarks (cli/bench_command.go): `nats bench sub`,       *)
(* `js ordered`, `js consume`, `js fetch`, their old-API forms, `js get`    *)
(* and `kv get`.  A client sets itself up, reports itself started and then *)
(* waits for two time stamps on its channel ch: one for the start of the   *)
(* measurement and one for its end.  They are sent by the message handler, *)
(* which runs on a goroutine of the client library or, for the fetching    *)
(* kinds, on the goroutine of the client itself.                           *)
(*                                                                         *)
(* A time stamp is the number of messages received when it was taken.      *)
(***************************************************************************)
EXTENDS BenchHarness, FiniteSetsExt

CONSTANTS
  Kinds,         \* the benchmark types to consider
  NumStored,     \* messages the server can deliver
  BatchSize,     \* --batch
  AckOutcomes    \* what acknowledging a message may return: {TRUE} or BOOLEAN

AllKinds == {"core", "ordered", "consume", "fetch",
             "oldpush", "oldpull", "oldordered",
             "getsync", "getbatch", "kvget"}

ASSUME ConsumeAssumption ==
  /\ Kinds \subseteq AllKinds
  /\ NumStored \in Nat
  /\ BatchSize \in Nat \ {0}
  /\ AckOutcomes \subseteq BOOLEAN

VARIABLES
  kind,      \* the benchmark type of this run
  progressBar, \* --progress, on by default; only the pulling kinds look at it
  attached,  \* the clients that have subscribed or created their consumer
  inbox,     \* messages handed to a client and not yet to its handler
  taken,     \* messages delivered to a client so far
  received,  \* the handler's or the loop's own count
  handler,   \* where the message handler is
  ch,        \* the time stamps in the client's channel, two at most
  interval,  \* the time stamps the client has taken from it
  nacked     \* history: the clients one of whose acknowledgements failed

feedVars == <<kind, progressBar, attached, inbox, taken, received, handler, ch,
              interval, nacked>>
vars == <<main, spawned, startwg, donewg, triggered, errChan, samples,
          collected, firstErr, client, feedVars>>

\* Kinds in which every client is to receive all messages.
Broadcast == {"core", "ordered", "oldordered", "getsync", "getbatch"}

\* Kinds whose handler runs on a goroutine of the client library.
Pushed == {"core", "ordered", "consume", "oldpush", "oldordered"}

\* Kinds whose client pulls batches and calls the handler itself.
Pulled == {"fetch", "oldpull"}

\* Kinds whose client fetches single messages, without a handler.
Getting == {"getsync", "getbatch", "kvget"}

\* Kinds that take the start time before the first message.
Early == {"oldpush", "oldpull", "oldordered"}

\* Kinds whose handler acknowledges, under --ack explicit or --ack.
Acking == {"consume", "fetch", "oldpush", "oldpull"}

\* Kinds that stop delivering when the client's goroutine returns.
StopsOnReturn == {"ordered", "consume"}

\* Kinds that receive no more than their share: StopAfter and AutoUnsubscribe.
StopsAfterShare == {"consume", "oldpush"}

\* The number of messages a client is told to wait for.
Want(c) == IF kind \in Broadcast THEN NumMsg ELSE MsgsPerClient(NumMsg, N)[c]

ClientStates ==
  {"unborn", "born", "attached", "started", "fetch", "refused", "drain", "get",
   "wait", "sample", "done", "report", "finished",
   "misfit", "unready", "broken", "abandon", "failed"}

HandlerStates == {"idle", "ack", "start", "end", "nack", "nackDone"}

TypeOK ==
  /\ HarnessTypeOK
  /\ kind \in Kinds
  /\ progressBar \in BOOLEAN
  /\ client \in [Clients -> ClientStates]
  /\ attached \subseteq Clients
  /\ inbox \in [Clients -> 0..NumStored]
  /\ taken \in [Clients -> 0..NumStored]
  /\ received \in [Clients -> Nat]
  /\ handler \in [Clients -> HandlerStates]
  /\ nacked \subseteq Clients
  /\ ch \in [Clients -> Seq(Nat)]
  /\ interval \in [Clients -> Seq(Nat)]
  /\ \A c \in Clients : Len(ch[c]) <= 2

Init ==
  /\ HarnessInit
  /\ kind \in Kinds
  /\ progressBar \in (IF kind \in Pulled THEN BOOLEAN ELSE {TRUE})
  /\ attached = {}
  /\ inbox = [c \in Clients |-> 0]
  /\ taken = [c \in Clients |-> 0]
  /\ received = [c \in Clients |-> 0]
  /\ handler = [c \in Clients |-> "idle"]
  /\ ch = [c \in Clients |-> <<>>]
  /\ interval = [c \in Clients |-> <<>>]
  /\ nacked = {}

\* ch <- time.Now(): blocks while two time stamps are waiting.
Stamp(c, n) ==
  /\ Len(ch[c]) < 2
  /\ ch' = [ch EXCEPT ![c] = Append(@, n)]

(***************************************************************************)
(* Setting up.                                                             *)
(***************************************************************************)

\* The subscription or consumer exists: messages may arrive from now on, and
\* the old kinds have just taken their start time.
Attach(c) ==
  /\ LocalStep(c, "born", "attached")
  /\ attached' = IF kind \in Getting THEN attached ELSE attached \cup {c}
  /\ IF kind \in Early THEN Stamp(c, 0) ELSE UNCHANGED ch
  /\ UNCHANGED <<kind, progressBar, inbox, taken, received, handler,
                 interval, nacked>>

\* Any step of the setup fails, the Flush after attaching included.
SetupFails(c) ==
  /\ \E from \in {"born", "attached"} : LocalStep(c, from, "misfit")
  /\ UNCHANGED feedVars

\* Mutant of SendSetupError: no return after the error has been sent.
SendSetupErrorAndGoOn(c) ==
  /\ SendOutcome(c, "misfit", "attached", FALSE)
  /\ UNCHANGED feedVars

SendSetupError(c) ==
  /\ SendOutcome(c, "misfit", "unready", FALSE)
  /\ UNCHANGED feedVars

\* Mutant of StartAnyway: startwg.Done() is forgotten on the error path.
StartNever(c) ==
  /\ LocalStep(c, "unready", "abandon")
  /\ UNCHANGED feedVars

\* A client that fails before startwg.Done() has to release both wait groups.
StartAnyway(c) ==
  /\ StartDone(c, "unready", "abandon")
  /\ UNCHANGED feedVars

Ready(c) ==
  /\ StartDone(c, "attached", "started")
  /\ UNCHANGED feedVars

Enter(c) ==
  /\ LocalStep(c, "started",
               IF kind \in Pulled THEN "fetch"
               ELSE IF kind \in Getting THEN "get" ELSE "wait")
  /\ IF kind = "kvget" THEN Stamp(c, 0) ELSE UNCHANGED ch
  /\ UNCHANGED <<kind, progressBar, attached, inbox, taken, received, handler,
                 interval, nacked>>

\* Finding the stream, its state or the bucket fails after startwg.Done().
EnterFails(c) ==
  /\ kind \in Getting
  /\ LocalStep(c, "started", "broken")
  /\ UNCHANGED feedVars

(***************************************************************************)
(* Messages reach a client.                                                *)
(***************************************************************************)

Total(f) == MapThenSumSet(LAMBDA c : f[c], Clients)

\* Messages still to be delivered to c: its own feed, or what is left in the
\* consumer the clients share.
Left(c) == NumStored - (IF kind \in Broadcast THEN taken[c]
                        ELSE Total(taken))

\* The server delivers to a subscription or to a running consumer.
Arrive(c) ==
  /\ Running
  /\ kind \in Pushed
  /\ c \in attached
  /\ kind \in StopsOnReturn => client[c] \notin {"finished", "failed"}
  /\ kind \in StopsAfterShare => taken[c] < Want(c)
  /\ inbox[c] = 0
  /\ Left(c) > 0
  /\ inbox' = [inbox EXCEPT ![c] = 1]
  /\ taken' = [taken EXCEPT ![c] = @ + 1]
  /\ UNCHANGED <<harnessVars, kind, progressBar, attached, received, handler,
                 ch, interval, nacked>>

\* A turn of the fetch loop that gets a batch, a short one included.
Fetch(c) ==
  /\ received[c] < Want(c)
  /\ LocalStep(c, "fetch", "drain")
  /\ \E n \in 1..BatchSize :
       /\ n <= Want(c) - received[c]
       /\ n <= Left(c)
       /\ inbox' = [inbox EXCEPT ![c] = n]
       /\ taken' = [taken EXCEPT ![c] = @ + n]
  /\ UNCHANGED <<kind, progressBar, attached, received, handler, ch,
                 interval, nacked>>

\* A turn that ends the client.  js fetch: the batch came without messages or
\* was cut short before the first, or the call returned an error that is not a
\* timeout; the old pull knows the last of these only.  Both look at an
\* error of the call only when no progress bar is displayed.
FetchFails(c) ==
  /\ received[c] < Want(c)
  /\ kind = "fetch" \/ ~progressBar
  /\ LocalStep(c, "fetch", "broken")
  /\ UNCHANGED feedVars

\* With the progress bar the error of the call is swallowed and the call is
\* repeated.  Where the next one succeeds nothing has changed; here it is the
\* first of those that fail for good (the consumer is gone, the connection is
\* closed), and the loop goes round without an end.
FetchRefused(c) ==
  /\ received[c] < Want(c)
  /\ progressBar
  /\ LocalStep(c, "fetch", "refused")
  /\ UNCHANGED feedVars

\* The batch has been handled. The iteration over a js fetch batch may have
\* been cut short by an error.
FetchNext(c) ==
  /\ inbox[c] = 0
  /\ handler[c] = "idle"
  /\ \/ LocalStep(c, "drain", "fetch")
     \/ kind = "fetch" /\ LocalStep(c, "drain", "broken")
  /\ UNCHANGED feedVars

FetchedAll(c) ==
  /\ received[c] >= Want(c)
  /\ LocalStep(c, "fetch", "wait")
  /\ UNCHANGED feedVars

(***************************************************************************)
(* The message handler.                                                    *)
(***************************************************************************)

\* The handler's steps run as long as the process does, whatever its client
\* is doing; they never move the client.
HandlerMoves(c, from, to) ==
  /\ Running
  /\ handler[c] = from
  /\ handler' = [handler EXCEPT ![c] = to]

\* Where the handler goes after the acknowledgement: a start stamp for the
\* first message, then an end stamp once there are enough of them.
AfterAck(n) == IF n = 1 /\ kind \notin Early THEN "start" ELSE "end"

Handle(c) ==
  /\ inbox[c] > 0
  /\ HandlerMoves(c, "idle",
                  IF kind \in Acking THEN "ack" ELSE AfterAck(received[c] + 1))
  /\ inbox' = [inbox EXCEPT ![c] = @ - 1]
  /\ received' = [received EXCEPT ![c] = @ + 1]
  /\ UNCHANGED <<harnessVars, kind, progressBar, attached, taken, ch, interval,
                 nacked>>

Ack(c) ==
  /\ \E ok \in AckOutcomes :
       /\ HandlerMoves(c, "ack", IF ok THEN AfterAck(received[c]) ELSE "nack")
       /\ nacked' = IF ok THEN nacked ELSE nacked \cup {c}
  /\ UNCHANGED <<harnessVars, kind, progressBar, attached, inbox, taken,
                 received, ch, interval>>

\* Mutant of SendAckError: the error is lost, a nil outcome is sent.
SendAckNil(c) ==
  /\ HandlerMoves(c, "nack", "nackDone")
  /\ Len(errChan) < N
  /\ errChan' = Append(errChan, [from |-> c, ok |-> TRUE])
  /\ UNCHANGED <<main, spawned, startwg, donewg, triggered, samples,
                 collected, firstErr, client>>
  /\ UNCHANGED <<kind, progressBar, attached, inbox, taken, received, ch,
                 interval, nacked>>

\* A failed acknowledgement: the handler reports the error, releases donewg
\* and returns, while the client's goroutine goes on waiting.
SendAckError(c) ==
  /\ HandlerMoves(c, "nack", "nackDone")
  /\ Len(errChan) < N
  /\ errChan' = Append(errChan, [from |-> c, ok |-> FALSE])
  /\ UNCHANGED <<main, spawned, startwg, donewg, triggered, samples,
                 collected, firstErr, client>>
  /\ UNCHANGED <<kind, progressBar, attached, inbox, taken, received, ch,
                 interval, nacked>>

ReleaseAfterAckError(c) ==
  /\ HandlerMoves(c, "nackDone", "idle")
  /\ donewg' = donewg - 1
  /\ main' = IF donewg = 0 THEN "panic" ELSE main
  /\ UNCHANGED <<spawned, startwg, triggered, errChan, samples, collected,
                 firstErr, client>>
  /\ UNCHANGED <<kind, progressBar, attached, inbox, taken, received, ch,
                 interval, nacked>>

StampStart(c) ==
  /\ HandlerMoves(c, "start", "end")
  /\ Stamp(c, received[c])
  /\ UNCHANGED <<harnessVars, kind, progressBar, attached, inbox, taken,
                 received, interval, nacked>>

\* Mutant of StampEnd: the measurement ends one message too early.
StampEndEarly(c) ==
  /\ HandlerMoves(c, "end", "idle")
  /\ IF received[c] + 1 >= Want(c) THEN Stamp(c, received[c]) ELSE UNCHANGED ch
  /\ UNCHANGED <<harnessVars, kind, progressBar, attached, inbox, taken,
                 received, interval, nacked>>

StampEnd(c) ==
  /\ HandlerMoves(c, "end", "idle")
  /\ IF received[c] >= Want(c) THEN Stamp(c, received[c]) ELSE UNCHANGED ch
  /\ UNCHANGED <<harnessVars, kind, progressBar, attached, inbox, taken,
                 received, interval, nacked>>

(***************************************************************************)
(* The getting kinds: a loop of requests on the client's own goroutine.    *)
(***************************************************************************)

\* How many messages one request brings: a batched get may bring fewer than
\* it asked for.
Bring(c) == IF kind = "getbatch"
            THEN {n \in 1..BatchSize : n <= Want(c) - received[c]}
            ELSE {1}

\* The first request of `js get` sends the start stamp, the last one the end
\* stamp; `kv get` has sent its start stamp before the loop.
Get(c) ==
  /\ received[c] < Want(c)
  /\ LocalStep(c, "get", "get")
  /\ \E n \in Bring(c) :
       /\ received' = [received EXCEPT ![c] = @ + n]
       /\ LET first == IF received[c] = 0 /\ kind # "kvget" THEN <<0>>
                       ELSE <<>>
              last  == IF received[c] + n = Want(c) /\ kind # "kvget"
                       THEN <<Want(c)>> ELSE <<>>
          IN  ch' = [ch EXCEPT ![c] = @ \o first \o last]
  /\ UNCHANGED <<kind, progressBar, attached, inbox, taken, handler, interval,
                 nacked>>

\* A request fails, or a batched get brings no message at all.
GetFails(c) ==
  /\ received[c] < Want(c)
  /\ LocalStep(c, "get", "broken")
  /\ UNCHANGED feedVars

GotAll(c) ==
  /\ received[c] = Want(c)
  /\ LocalStep(c, "get", "wait")
  /\ IF kind = "kvget" THEN Stamp(c, received[c]) ELSE UNCHANGED ch
  /\ UNCHANGED <<kind, progressBar, attached, inbox, taken, received, handler,
                 interval, nacked>>

(***************************************************************************)
(* The end of a client.                                                    *)
(***************************************************************************)

\* start := <-ch and end := <-ch
TakeStamp(c) ==
  /\ ch[c] # <<>>
  /\ LocalStep(c, "wait", IF Len(interval[c]) = 1 THEN "sample" ELSE "wait")
  /\ interval' = [interval EXCEPT ![c] = Append(@, Head(ch[c]))]
  /\ ch' = [ch EXCEPT ![c] = Tail(@)]
  /\ UNCHANGED <<kind, progressBar, attached, inbox, taken, received, handler,
                 nacked>>

HandInSample(c) ==
  /\ AddSample(c, "sample", "done")
  /\ UNCHANGED feedVars

ReportDone(c) ==
  /\ DoneDone(c, "done", "report")
  /\ UNCHANGED feedVars

SendNil(c) ==
  /\ SendOutcome(c, "report", "finished", TRUE)
  /\ UNCHANGED feedVars

SendError(c) ==
  /\ SendOutcome(c, "broken", "abandon", FALSE)
  /\ UNCHANGED feedVars

GiveUp(c) ==
  /\ DoneDone(c, "abandon", "failed")
  /\ UNCHANGED feedVars

ClientNext(c) ==
  \/ Attach(c)
  \/ SetupFails(c)
  \/ SendSetupError(c)
  \/ StartAnyway(c)
  \/ Ready(c)
  \/ Enter(c)
  \/ EnterFails(c)
  \/ Fetch(c)
  \/ FetchFails(c)
  \/ FetchRefused(c)
  \/ FetchNext(c)
  \/ FetchedAll(c)
  \/ Get(c)
  \/ GetFails(c)
  \/ GotAll(c)
  \/ TakeStamp(c)
  \/ HandInSample(c)
  \/ ReportDone(c)
  \/ SendNil(c)
  \/ SendError(c)
  \/ GiveUp(c)

HandlerNext(c) ==
  \/ Handle(c)
  \/ Ack(c)
  \/ SendAckError(c)
  \/ ReleaseAfterAckError(c)
  \/ StampStart(c)
  \/ StampEnd(c)

Main == MainNext /\ UNCHANGED feedVars

Next ==
  \/ Main
  \/ \E c \in Clients : ClientNext(c) \/ HandlerNext(c) \/ Arrive(c)

Spec == Init /\ [][Next]_vars

\* Goroutines that can run do, and the server delivers what it has.  A fetch
\* that times out changes nothing and is tried again; fairness to the client
\* says that this does not go on for ever while messages are left, unless the
\* client's fetches have come to fail for good (FetchRefused), after which no
\* fairness brings it a message.
Fairness ==
  /\ WF_vars(Main)
  /\ \A c \in Clients : /\ WF_vars(ClientNext(c))
                        /\ WF_vars(HandlerNext(c))
                        /\ WF_vars(Arrive(c))

FairSpec == Spec /\ Fairness

(***************************************************************************)
(* Properties.                                                             *)
(***************************************************************************)

\* A sample spans from the first message (or, for the kinds that start their
\* clock early, from before it) to exactly the last message asked for,
\* however many more arrive while the client's goroutine is being scheduled;
\* and a run of clients that share a consumer reports all NumMsg messages.
MeasuresTheRun ==
  /\ \A c \in samples :
       interval[c] = <<IF kind \in Early \cup Getting THEN 0 ELSE 1, Want(c)>>
  /\ main = "results" /\ kind \notin Broadcast =>
       Total([c \in Clients |-> interval[c][2]]) = NumMsg

\* While no acknowledgement fails, no client blocks on reporting its outcome
\* and no wait group goes below zero.
ReportingNeverBlocks ==
  nacked = {} =>
    /\ main # "panic"
    /\ \A c \in Clients :
         /\ client[c] \in {"misfit", "broken", "report"} => Len(errChan) < N
         /\ client[c] = "sample" => Cardinality(samples) < N

\* A run that reports results has a sample of every client, and none of its
\* clients has failed: neither before startwg.Done(), nor after it, nor on an
\* acknowledgement, whose error reaches main ahead of any outcome that could
\* hide it although the client goes on and reports a nil outcome of its own.
ResultsAreComplete ==
  main = "results" =>
    /\ samples = Clients
    /\ \A c \in Clients : client[c] = "finished"
    /\ nacked = {}

\* The action returns the first error of its clients: it does not die in a
\* wait group that went below zero.
ReturnsItsErrors == main # "panic"

\* With at least one message for every client, enough messages on the server
\* and no failing acknowledgement, every run ends, or a client that pulls is
\* left fetching for good: its fetches fail behind the progress bar, which
\* keeps the loop from looking at their errors.  Without the bar, and for all
\* other kinds, there is no such client.
Terminates ==
  <>(\/ main \in Ended
     \/ nacked # {}
     \/ /\ kind \in Pulled /\ progressBar
        /\ \E c \in Clients : client[c] = "refused")
=============================================================================
