------------------------------ MODULE BenchRun ------------------------------
(***************************************************************************)
(* What one `nats bench` run promises its user, whatever it measures: the   *)
(* command returns once, either with the statistics of every client or     *)
(* with an error, and it never reports statistics while a client is still  *)
(* at work or after one has failed.                                        *)
(*                                                                         *)
(* BenchPublish is shown to implement this specification.                  *)
(***************************************************************************)
EXTENDS Naturals

CONSTANT Clients

VARIABLES
  outcome,   \* "running" until the command returns
  finished,  \* the clients whose sample has been handed in
  failed     \* the clients that gave up with an error

vars == <<outcome, finished, failed>>

TypeOK ==
  /\ outcome \in {"running", "results", "error"}
  /\ finished \subseteq Clients
  /\ failed \subseteq Clients

Init ==
  /\ outcome = "running"
  /\ finished = {}
  /\ failed = {}

AtWork(c) == outcome = "running" /\ c \notin finished \cup failed

Finish(c) ==
  /\ AtWork(c)
  /\ finished' = finished \cup {c}
  /\ UNCHANGED <<outcome, failed>>

Fail(c) ==
  /\ AtWork(c)
  /\ failed' = failed \cup {c}
  /\ UNCHANGED <<outcome, finished>>

\* The connection of some client could not be made: nothing has been measured.
ConnectFails ==
  /\ outcome = "running"
  /\ finished \cup failed # Clients
  /\ outcome' = "error"
  /\ UNCHANGED <<finished, failed>>

Report ==
  /\ outcome = "running"
  /\ finished = Clients
  /\ failed = {}
  /\ outcome' = "results"
  /\ UNCHANGED <<finished, failed>>

ReturnError ==
  /\ outcome = "running"
  /\ finished \cup failed = Clients
  /\ failed # {}
  /\ outcome' = "error"
  /\ UNCHANGED <<finished, failed>>

Next ==
  \/ \E c \in Clients : Finish(c) \/ Fail(c)
  \/ ConnectFails
  \/ Report
  \/ ReturnError

Spec == Init /\ [][Next]_vars
=============================================================================
