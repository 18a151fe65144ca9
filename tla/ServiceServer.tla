--------------------------- MODULE ServiceServer ---------------------------
(***************************************************************************)
(* `nats bench service serve` (serveAction and runServiceServer in          *)
(* cli/bench_command.go).  Like the other benchmarks it starts a goroutine  *)
(* per client and then waits on two wait groups and on errChan, which has   *)
(* room for one outcome of each.  Its clients serve for ever; what ends     *)
(* one is its handler, once for every reply that fails.                     *)
(***************************************************************************)
EXTENDS Integers, FiniteSets

CONSTANTS
  Servers,       \* the clients, numbered from 1
  MaxFailures    \* replies of one client that may fail

ASSUME ServiceServerAssumption ==
  /\ IsFiniteSet(Servers) /\ Servers # {} /\ Servers = 1 .. Cardinality(Servers)
  /\ MaxFailures \in Nat

VARIABLE serve

NumServers == Cardinality(Servers)

(* failed counts what went wrong for each client (history).                 *)
ServeStarts ==
  {[main |-> "spawn", spawned |-> 0, startwg |-> 0, donewg |-> 0, errChan |-> 0, collected |-> 0,
    client |-> [c \in Servers |-> "unborn"], handler |-> [c \in Servers |-> "none"],
    failed |-> [c \in Servers |-> 0]]}

ServeOver == serve.main \in {"error", "panic"}

(* The main goroutine.  A client that cannot connect ends it at once.       *)
ServeSpawns ==
  /\ serve.main = "spawn" /\ serve.spawned < NumServers
  /\ LET c == serve.spawned + 1 IN
       \/ serve' = [serve EXCEPT !.spawned = c, !.startwg = @ + 1, !.donewg = @ + 1,
                                 !.client[c] = "add"]
       \/ serve' = [serve EXCEPT !.main = "error"]

ServeStarted ==
  /\ serve.main = "spawn" /\ serve.spawned = NumServers /\ serve.startwg = 0
  /\ serve' = [serve EXCEPT !.main = "serving"]

ServeDone ==
  /\ serve.main = "serving" /\ serve.donewg = 0
  /\ serve' = [serve EXCEPT !.main = "collect"]

ServeCollects ==
  /\ serve.main = "collect"
  /\ IF serve.collected = NumServers THEN serve' = [serve EXCEPT !.main = "error"]
     ELSE serve.errChan > 0 /\ serve' = [serve EXCEPT !.errChan = @ - 1, !.collected = @ + 1]

(* errChan <- err, and a wait group below zero, which panics.               *)
SendsError(s) == s.errChan < NumServers /\ serve' = [s EXCEPT !.errChan = @ + 1]
ReleasesDone(s) ==
  serve' = [s EXCEPT !.donewg = @ - 1, !.main = IF s.donewg = 0 THEN "panic" ELSE @]

(* A client: the service is there before the flush that may still fail.     *)
AddsService(c) ==
  /\ serve.client[c] = "add"
  /\ \/ serve' = [serve EXCEPT !.client[c] = "flush", !.handler[c] = "idle"]
     \/ serve' = [serve EXCEPT !.client[c] = "misfit", !.failed[c] = @ + 1]

FlushesService(c) ==
  /\ serve.client[c] = "flush"
  /\ \/ serve' = [serve EXCEPT !.client[c] = "serve", !.startwg = @ - 1]
     \/ serve' = [serve EXCEPT !.client[c] = "misfit", !.failed[c] = @ + 1]

ServerGivesUp(c) ==
  \/ serve.client[c] = "misfit" /\ SendsError([serve EXCEPT !.client[c] = "start"])
  \/ serve.client[c] = "start" /\ serve' = [serve EXCEPT !.client[c] = "release", !.startwg = @ - 1]
  \/ serve.client[c] = "release" /\ ReleasesDone([serve EXCEPT !.client[c] = "over"])

(* Its handler, which the client library calls for one request at a time.   *)
ReplyFails(c) ==
  /\ serve.handler[c] = "idle" /\ serve.failed[c] < MaxFailures
  /\ serve' = [serve EXCEPT !.handler[c] = "failed", !.failed[c] = @ + 1]

HandlerReports(c) ==
  \/ serve.handler[c] = "failed" /\ SendsError([serve EXCEPT !.handler[c] = "sent"])
  \/ serve.handler[c] = "sent" /\ ReleasesDone([serve EXCEPT !.handler[c] = "idle"])

ServeRuns ==
  /\ ~ServeOver
  /\ \/ ServeSpawns \/ ServeStarted \/ ServeDone \/ ServeCollects
     \/ \E c \in Servers :
          AddsService(c) \/ FlushesService(c) \/ ServerGivesUp(c) \/ HandlerReports(c)
ServeStep == ServeRuns \/ (~ServeOver /\ \E c \in Servers : ReplyFails(c))

-----------------------------------------------------------------------------
ServeTypeOK ==
  /\ serve.startwg \in 0 .. NumServers /\ serve.donewg \in -1 .. NumServers
  /\ serve.errChan \in 0 .. NumServers /\ serve.collected \in 0 .. NumServers

(* A server that has started ends because all its clients failed; only when *)
(* one of them failed twice may it end early, on behalf of another, or die  *)
(* of a wait group below zero (serve).                                      *)
ServesUntilAllFail ==
  /\ serve.main = "panic" => \E c \in Servers : serve.failed[c] > 1
  /\ serve.main = "collect" \/ (serve.main = "error" /\ serve.collected > 0) =>
       \/ \A c \in Servers : serve.failed[c] > 0
       \/ \E c \in Servers : serve.failed[c] > 1

(* With every client failed, and none twice, the server ends; one that      *)
(* failed twice, before its flush did, may have the others wait for ever.   *)
ServeEnds == (\A c \in Servers : serve.failed[c] = 1) => ServeOver
=============================================================================
