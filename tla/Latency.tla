------------------------------ MODULE Latency ------------------------------
(***************************************************************************)
(* `nats latency` (cli/latency_command.go): one connection publishes        *)
(* numPubs messages to an inbox the other subscribes to; the handler counts *)
(* them and releases the wait group main waits on.  With two servers main   *)
(* first probes the route between them, for at most two seconds.            *)
(*                                                                         *)
(* An operator whose comment says "Mutant" is no part of the model: it is   *)
(* the operator it names with a plausible bug, which a property refutes.   *)
(***************************************************************************)
EXTENDS Integers

CONSTANTS
  Seconds,  \* --duration in whole seconds, 0 for any shorter one
  Rate      \* --rate

ASSUME LatencyAssumption == Seconds \in Nat /\ Rate \in Nat \ {0}

VARIABLES
  lmain,     \* where main is, or how it returned
  routed,    \* has a probe come through?
  sent,      \* messages main has tried to publish
  lost,      \* of these, the ones Publish refused
  received,  \* messages the handler has counted
  wg         \* the counter of the wait group

latencyVars == <<lmain, routed, sent, lost, received, wg>>

numPubs == Seconds * Rate

LatencyInit ==
  /\ lmain = "connect" /\ routed \in BOOLEAN
  /\ sent = 0 /\ lost = 0 /\ received = 0 /\ wg = 0

(* Connect twice, measure the round trips, subscribe and flush.             *)
Prepare ==
  /\ lmain = "connect"
  /\ \/ lmain' = "route" /\ wg' = 1
     \/ lmain' = "error" /\ UNCHANGED wg
  /\ UNCHANGED <<routed, sent, lost, received>>

(* waitForRoute: probes until one arrives, unless both connections are to   *)
(* the same server (routed from the start), publishing fails or two seconds *)
(* have passed.                                                             *)
ProbeArrives ==
  /\ lmain = "route" /\ ~routed /\ routed' = TRUE
  /\ UNCHANGED <<lmain, sent, lost, received, wg>>

RouteFails ==
  /\ lmain = "route" /\ ~routed /\ lmain' = "error"
  /\ UNCHANGED <<routed, sent, lost, received, wg>>

RouteKnown ==
  /\ lmain = "route" /\ routed /\ lmain' = "publish"
  /\ UNCHANGED <<routed, sent, lost, received, wg>>

(* A failing publish is logged and the loop goes on.                        *)
PublishTimed ==
  /\ lmain = "publish" /\ sent < numPubs
  /\ sent' = sent + 1
  /\ lost' \in {lost, lost + 1}
  /\ UNCHANGED <<lmain, routed, received, wg>>

AllPublished ==
  /\ lmain = "publish" /\ sent = numPubs /\ lmain' = "wait"
  /\ UNCHANGED <<routed, sent, lost, received, wg>>

(* Mutant of LastOne: one message too many is waited for. *)
LastOneOff(n) == n > numPubs
LastOne(n) == n >= numPubs

(* The handler.                                                             *)
Receive ==
  /\ lmain \notin {"done", "error"} /\ received < sent - lost
  /\ received' = received + 1
  /\ wg' = IF LastOne(received + 1) THEN wg - 1 ELSE wg
  /\ UNCHANGED <<lmain, routed, sent, lost>>

(* wg.Wait, then the report.                                                *)
Report ==
  /\ lmain = "wait" /\ wg = 0 /\ lmain' = "done"
  /\ UNCHANGED <<routed, sent, lost, received, wg>>

LatencyNext ==
  \/ Prepare \/ ProbeArrives \/ RouteFails \/ RouteKnown
  \/ PublishTimed \/ AllPublished \/ Receive \/ Report
=============================================================================
