---------------------------- MODULE BenchHarness ----------------------------
(***************************************************************************)
(* The part every `nats bench` action shares (cli/bench_command.go): the    *)
(* main goroutine connects the clients one by one, starts a goroutine for  *)
(* each, waits on startwg, opens the trigger, waits on donewg, takes one   *)
(* value per client from errChan and then either reports the samples or    *)
(* returns the first error.                                                *)
(*                                                                         *)
(* What the clients do between the two wait groups is in BenchPublish and  *)
(* BenchConsume, which extend this module.  A client's program counter is  *)
(* client[c]; this module only starts it.                                  *)
(*                                                                         *)
(* An operator whose comment says "Mutant" is no part of the model: it is   *)
(* the operator it names with a plausible bug, which a property refutes.   *)
(***************************************************************************)
EXTENDS Integers, Sequences, FiniteSets

CONSTANTS
  NumClients,   \* --clients
  NumMsg,       \* --msgs
  Clamp         \* does the action lower the clients to the messages?

ASSUME SizesAssumption ==
  /\ NumClients \in Nat \ {0}
  /\ NumMsg \in Nat \ {0}
  /\ Clamp \in BOOLEAN

\* c.numClients once the action has looked at it
N == IF Clamp /\ NumClients > NumMsg THEN NumMsg ELSE NumClients

Clients == 1..N
NoClient == 0

VARIABLES
  main,       \* where the main goroutine is, or how it ended
  spawned,    \* the clients started so far: 1..spawned
  startwg,    \* the counter of the start wait group
  donewg,     \* the counter of the done wait group
  triggered,  \* has the trigger channel been closed?
  errChan,    \* the buffered channel of the clients' outcomes
  samples,    \* the clients whose sample is in bm.SamplesChannel
  collected,  \* values main has taken from errChan
  firstErr,   \* the client err2 came from, NoClient while err2 is nil
  client      \* the program counter of each client goroutine

harnessVars == <<main, spawned, startwg, donewg, triggered, errChan, samples,
                 collected, firstErr, client>>

Outcome == [from : Clients, ok : BOOLEAN]

\* How the process can end: the statistics are printed, err2 is returned, a
\* connection error is returned, or a wait group went below zero.
Ended == {"results", "error", "noconn", "panic"}
MainStates == {"connect", "waitDone", "collect"} \cup Ended

HarnessTypeOK ==
  /\ main \in MainStates
  /\ spawned \in 0..N
  /\ startwg \in Int
  /\ donewg \in Int
  /\ triggered \in BOOLEAN
  /\ errChan \in Seq(Outcome)
  /\ samples \subseteq Clients
  /\ collected \in 0..N
  /\ firstErr \in Clients \cup {NoClient}

HarnessInit ==
  /\ main = "connect"
  /\ spawned = 0
  /\ startwg = 0
  /\ donewg = 0
  /\ triggered = FALSE
  /\ errChan = <<>>
  /\ samples = {}
  /\ collected = 0
  /\ firstErr = NoClient
  /\ client = [c \in Clients |-> "unborn"]

Running == main \notin Ended

(***************************************************************************)
(* The main goroutine.                                                     *)
(***************************************************************************)

\* Mutant of StartClient: the loop runs once too often.
StartClientTooMany ==
  /\ main = "connect"
  /\ spawned <= N
  /\ spawned' = spawned + 1
  /\ startwg' = startwg + 1
  /\ donewg' = donewg + 1
  /\ client' = [client EXCEPT ![spawned + 1] = "born"]
  /\ UNCHANGED <<main, triggered, errChan, samples, collected, firstErr>>

\* nats.Connect succeeds for the next client: both wait groups are raised
\* before its goroutine starts.
StartClient ==
  /\ main = "connect"
  /\ spawned < N
  /\ spawned' = spawned + 1
  /\ startwg' = startwg + 1
  /\ donewg' = donewg + 1
  /\ client' = [client EXCEPT ![spawned + 1] = "born"]
  /\ UNCHANGED <<main, triggered, errChan, samples, collected, firstErr>>

\* nats.Connect fails: the action returns, whatever the clients started so
\* far are doing.  Before the first client, also: the arguments are wrong, or
\* the stream, bucket or consumer cannot be created or purged.
ConnectFails ==
  /\ main = "connect"
  /\ spawned < N
  /\ main' = "noconn"
  /\ UNCHANGED <<spawned, startwg, donewg, triggered, errChan, samples,
                 collected, firstErr, client>>

\* startwg.Wait() returns; a publishing action closes the trigger.
ClientsStarted ==
  /\ main = "connect"
  /\ spawned = N
  /\ startwg = 0
  /\ main' = "waitDone"
  /\ triggered' = TRUE
  /\ UNCHANGED <<spawned, startwg, donewg, errChan, samples, collected,
                 firstErr, client>>

\* donewg.Wait() returns.
ClientsDone ==
  /\ main = "waitDone"
  /\ donewg = 0
  /\ main' = "collect"
  /\ UNCHANGED <<spawned, startwg, donewg, triggered, errChan, samples,
                 collected, firstErr, client>>

\* Mutant of Collect: every outcome replaces err2, a nil one too.
CollectLast ==
  /\ main = "collect"
  /\ collected < N
  /\ errChan # <<>>
  /\ collected' = collected + 1
  /\ errChan' = Tail(errChan)
  /\ firstErr' = IF Head(errChan).ok THEN NoClient ELSE Head(errChan).from
  /\ UNCHANGED <<main, spawned, startwg, donewg, triggered, samples, client>>

\* One turn of the loop over errChan: only the first error is kept.
Collect ==
  /\ main = "collect"
  /\ collected < N
  /\ errChan # <<>>
  /\ collected' = collected + 1
  /\ errChan' = Tail(errChan)
  /\ firstErr' = IF firstErr = NoClient /\ ~Head(errChan).ok
                 THEN Head(errChan).from
                 ELSE firstErr
  /\ UNCHANGED <<main, spawned, startwg, donewg, triggered, samples, client>>

\* After the loop: return err2, or close the benchmark and print the results.
Finish ==
  /\ main = "collect"
  /\ collected = N
  /\ main' = IF firstErr = NoClient THEN "results" ELSE "error"
  /\ UNCHANGED <<spawned, startwg, donewg, triggered, errChan, samples,
                 collected, firstErr, client>>

MainNext ==
  \/ StartClient
  \/ ConnectFails
  \/ ClientsStarted
  \/ ClientsDone
  \/ Collect
  \/ Finish

(***************************************************************************)
(* The steps a client takes on the shared state, each one moving it from   *)
(* one place of its program to another.                                    *)
(***************************************************************************)

Moves(c, from, to) ==
  /\ Running
  /\ client[c] = from
  /\ client' = [client EXCEPT ![c] = to]

\* startwg.Done()
StartDone(c, from, to) ==
  /\ Moves(c, from, to)
  /\ startwg' = startwg - 1
  /\ UNCHANGED <<main, spawned, donewg, triggered, errChan, samples,
                 collected, firstErr>>

\* donewg.Done(): a wait group panics when its counter goes below zero.
DoneDone(c, from, to) ==
  /\ Moves(c, from, to)
  /\ donewg' = donewg - 1
  /\ main' = IF donewg = 0 THEN "panic" ELSE main
  /\ UNCHANGED <<spawned, startwg, triggered, errChan, samples, collected,
                 firstErr>>

\* errChan <- err, or errChan <- nil: blocks while the channel is full.
SendOutcome(c, from, to, ok) ==
  /\ Moves(c, from, to)
  /\ Len(errChan) < N
  /\ errChan' = Append(errChan, [from |-> c, ok |-> ok])
  /\ UNCHANGED <<main, spawned, startwg, donewg, triggered, samples,
                 collected, firstErr>>

\* bm.AddSample(): a channel with room for one sample per client.
AddSample(c, from, to) ==
  /\ Moves(c, from, to)
  /\ Cardinality(samples) < N
  /\ samples' = samples \cup {c}
  /\ UNCHANGED <<main, spawned, startwg, donewg, triggered, errChan,
                 collected, firstErr>>

\* A step of the client that touches none of the shared state.
LocalStep(c, from, to) ==
  /\ Moves(c, from, to)
  /\ UNCHANGED <<main, spawned, startwg, donewg, triggered, errChan, samples,
                 collected, firstErr>>

-----------------------------------------------------------------------------
(***************************************************************************)
(* How the messages of a run are divided between its clients               *)
(* (msgsPerClient and benchCmd.offset).  Clients are numbered from 1 here  *)
(* and from 0 in the code.                                                 *)
(***************************************************************************)
\* Every client gets the quotient, and the first ones one message more until
\* the remainder is used up.
MsgsPerClient(numMsgs, numClients) ==
  [c \in 1..numClients |->
     numMsgs \div numClients
       + (IF c <= numMsgs % numClients THEN 1 ELSE 0)]

\* Mutant of Offset: the client's own count is added too.
OffsetPastOwn(counts, c) ==
  LET before[i \in Nat] == IF i = 0 THEN 0 ELSE before[i - 1] + counts[i]
  IN  before[c]

\* The number of the first message of client c: what the clients before it
\* publish.
Offset(counts, c) ==
  LET before[i \in Nat] == IF i = 0 THEN 0 ELSE before[i - 1] + counts[i]
  IN  before[c - 1]
=============================================================================
