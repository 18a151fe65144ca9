---------------------------- MODULE BenchPublish ----------------------------
(***************************************************************************)
(* The publishing benchmarks: `nats bench pub`, `service request`,          *)
(* `js pub` and `kv put` (runCorePublisher, runCoreRequester,               *)
(* runJSPublisher and runKVPutter in cli/bench_command.go).  A client      *)
(* reports itself started, waits for the trigger, publishes its share of   *)
(* the messages, flushes, hands in its sample and reports its outcome.     *)
(*                                                                         *)
(* These actions all lower the number of clients to the number of          *)
(* messages (Clamp = TRUE), so no client has an empty share and the        *)
(* numMsg == 0 branch of runCorePublisher is never taken (see              *)
(* EveryClientPublishes in BenchPublishProofs).                            *)
(***************************************************************************)
EXTENDS BenchHarness

VARIABLE sent   \* the messages each client has published

vars == <<main, spawned, startwg, donewg, triggered, errChan, samples,
          collected, firstErr, client, sent>>

Share == MsgsPerClient(NumMsg, N)

ClientStates ==
  {"unborn", "born", "armed", "publish", "flush", "sample", "done", "report",
   "finished", "broken", "abandon", "failed"}

TypeOK ==
  /\ HarnessTypeOK
  /\ client \in [Clients -> ClientStates]
  /\ sent \in [Clients -> Nat]

Init ==
  /\ HarnessInit
  /\ sent = [c \in Clients |-> 0]

\* The first line of the goroutine: startwg.Done().
Ready(c) ==
  /\ StartDone(c, "born", "armed")
  /\ UNCHANGED sent

\* Mutant of Triggered: the client does not wait for the trigger.
TriggeredEarly(c) ==
  /\ LocalStep(c, "armed", "publish")
  /\ UNCHANGED sent

\* <-trigger
Triggered(c) ==
  /\ triggered
  /\ LocalStep(c, "armed", "publish")
  /\ UNCHANGED sent

\* One turn of the publishing loop.
Publish(c) ==
  /\ sent[c] < Share[c]
  /\ LocalStep(c, "publish", "publish")
  /\ sent' = [sent EXCEPT ![c] = @ + 1]

\* A publish, put or request fails: the loop is left with an error.  (A reply
\* to a request that is empty or an error ends the whole program on the spot,
\* by log.Fatalf; nothing of a run is left then, and it is left out here.)
PublishFails(c) ==
  /\ sent[c] < Share[c]
  /\ LocalStep(c, "publish", "broken")
  /\ UNCHANGED sent

\* The loop has ended.
Published(c) ==
  /\ sent[c] = Share[c]
  /\ LocalStep(c, "publish", "flush")
  /\ UNCHANGED sent

\* nc.Flush()
Flush(c) ==
  /\ LocalStep(c, "flush", "sample")
  /\ UNCHANGED sent

FlushFails(c) ==
  /\ LocalStep(c, "flush", "broken")
  /\ UNCHANGED sent

\* Mutant of SendError: no return after the error has been sent.
SendErrorAndGoOn(c) ==
  /\ SendOutcome(c, "broken", "sample", FALSE)
  /\ UNCHANGED sent

\* After an error: first the error, then donewg.Done().
SendError(c) ==
  /\ SendOutcome(c, "broken", "abandon", FALSE)
  /\ UNCHANGED sent

\* Mutant of GiveUp: donewg.Done() is forgotten on the error path.
GiveUpSilently(c) ==
  /\ LocalStep(c, "abandon", "failed")
  /\ UNCHANGED sent

GiveUp(c) ==
  /\ DoneDone(c, "abandon", "failed")
  /\ UNCHANGED sent

\* After a success: the sample, then donewg.Done(), then the nil outcome.
HandInSample(c) ==
  /\ AddSample(c, "sample", "done")
  /\ UNCHANGED sent

ReportDone(c) ==
  /\ DoneDone(c, "done", "report")
  /\ UNCHANGED sent

SendNil(c) ==
  /\ SendOutcome(c, "report", "finished", TRUE)
  /\ UNCHANGED sent

ClientNext(c) ==
  \/ Ready(c)
  \/ Triggered(c)
  \/ Publish(c)
  \/ PublishFails(c)
  \/ Published(c)
  \/ Flush(c)
  \/ FlushFails(c)
  \/ SendError(c)
  \/ GiveUp(c)
  \/ HandInSample(c)
  \/ ReportDone(c)
  \/ SendNil(c)

Main == MainNext /\ UNCHANGED sent

Next == Main \/ \E c \in Clients : ClientNext(c)

Spec == Init /\ [][Next]_vars

\* The Go scheduler runs every goroutine that can run, and the calls a client
\* makes return: publishes, puts and requests have timeouts.
Fairness ==
  /\ WF_vars(Main)
  /\ \A c \in Clients : WF_vars(ClientNext(c))

FairSpec == Spec /\ Fairness

(***************************************************************************)
(* Properties.                                                             *)
(***************************************************************************)

\* The numbers of the messages client c has published so far.
PublishedBy(c) ==
  {Offset(Share, c) + i : i \in 0..(sent[c] - 1)}

Sending(c) == client[c] \in {"broken", "report"}

\* Nothing a client does to report itself can block or panic: errChan has
\* room for whoever is about to send, the sample channel for whoever is about
\* to hand in a sample, and no wait group is taken below zero.
ReportingNeverBlocks ==
  /\ main # "panic"
  /\ \A c \in Clients :
       /\ Sending(c) => Len(errChan) < N
       /\ client[c] = "sample" => Cardinality(samples) < N

\* No client publishes before every client is connected and running: the
\* trigger is closed only after startwg.Wait(), so a run that fails to
\* connect has not published anything.
TriggerBarrier ==
  (\E c \in Clients : sent[c] > 0) =>
    /\ \A c \in Clients : client[c] \notin {"unborn", "born"}
    /\ main # "noconn"

\* The shares of the clients do not overlap, so that --multisubject and
\* the message ids number each message once, and a run that reports results
\* has published every message from 0 to NumMsg - 1.
EveryMessageOnce ==
  /\ \A c, d \in Clients : c # d => PublishedBy(c) \cap PublishedBy(d) = {}
  /\ main = "results" =>
       UNION {PublishedBy(c) : c \in Clients} = 0..(NumMsg - 1)

\* Every run ends: with results or with an error.
Terminates == <>(main \in Ended)

\* BenchPublish implements BenchRun: a sample handed in is a client finished,
\* a client that took the error path is a client failed.
Run == INSTANCE BenchRun WITH
  outcome <- IF Running THEN "running"
             ELSE IF main = "results" THEN "results" ELSE "error",
  finished <- samples,
  failed <- {c \in Clients : client[c] \in {"broken", "abandon", "failed"}}

ImplementsRun == Run!Spec
=============================================================================
