------------------------------ MODULE Exporter ------------------------------
(***************************************************************************)
(* `nats server check exporter` (internal/exporter/exporter.go): each       *)
(* scrape runs the configured checks one after the other.  Scrapes run at   *)
(* the same time; a check may keep its connection for the next one, which   *)
(* a mutex guards.                                                         *)
(*                                                                         *)
(* An operator whose comment says "Mutant" is no part of the model: it is   *)
(* the operator it names with a plausible bug, which a property refutes.   *)
(***************************************************************************)
EXTENDS Integers, Sequences

CONSTANTS
  Scrapes,   \* requests of /metrics
  Checks,    \* the configuration: a sequence of [kind, reuse]
  MaxFails   \* bound: failures to connect

Kinds == {"connecting", "alone", "unknown"}

ASSUME ExporterAssumption ==
  Checks \in Seq([kind : Kinds, reuse : BOOLEAN]) /\ MaxFails \in Nat

VARIABLE exporter

EachCheck == DOMAIN Checks

(* nc, mgr and mu of each check; live counts the connections a check keeps  *)
(* open and unmanaged those for which there was no manager.                 *)
ExporterStarts ==
  {[main |-> "read", nc |-> [c \in EachCheck |-> FALSE], mgr |-> [c \in EachCheck |-> FALSE],
    mu |-> [c \in EachCheck |-> {}], live |-> [c \in EachCheck |-> 0],
    unmanaged |-> [c \in EachCheck |-> 0], fails |-> 0,
    pc |-> [s \in Scrapes |-> "context"], at |-> [s \in Scrapes |-> 1],
    results |-> [s \in Scrapes |-> [c \in EachCheck |-> 0]],
    critical |-> [s \in Scrapes |-> {}]]}

(* NewExporter reads the configuration, once, and exporterAction serves.    *)
ReadsConfig ==
  /\ exporter.main = "read"
  /\ \E next \in {"serve", "error"} : exporter' = [exporter EXCEPT !.main = next]

InScrape(s, step) ==
  exporter.main = "serve" /\ exporter.pc[s] = step /\ exporter.at[s] \in EachCheck

(* The result of a check is collected however the check ends; then comes    *)
(* the next one.                                                            *)
Collects(s, e, failing) ==
  LET c == e.at[s]
  IN [e EXCEPT !.pc[s] = "context", !.at[s] = @ + 1, !.results[s][c] = @ + 1,
               !.critical[s] = IF failing THEN @ \cup {c} ELSE @]

Goes(s, step) == [exporter EXCEPT !.pc[s] = step]

(* Collect: the context of the check (natsContext), which may not load.     *)
LoadsContext(s) ==
  /\ InScrape(s, "context")
  /\ LET c == exporter.at[s] IN
       IF Checks[c].kind = "unknown" THEN exporter' = [exporter EXCEPT !.at[s] = @ + 1]
       ELSE \/ exporter' = Goes(s, IF Checks[c].kind = "connecting" THEN "connect" ELSE "check")
            \/ exporter' = Collects(s, exporter, TRUE)

(* connect.  Mutant of LocksCheck: the connection is made without the mutex.*)
LocksCheckNot(s) ==
  InScrape(s, "connect") /\ exporter' = Goes(s, "connecting")
LocksCheck(s) ==
  /\ InScrape(s, "connect") /\ exporter.mu[exporter.at[s]] = {}
  /\ exporter' = [Goes(s, "connecting") EXCEPT !.mu[exporter.at[s]] = {s}]

Unlocked(e, c) == [e EXCEPT !.mu[c] = {}]

(* What is kept is used again; otherwise a connection is made, and forgets  *)
(* the one there was.                                                       *)
Reuses(s) ==
  /\ InScrape(s, "connecting")
  /\ LET c == exporter.at[s] IN
       /\ ~Checks[c].reuse \/ (exporter.nc[c] /\ exporter.mgr[c])
       /\ exporter' = Unlocked(Goes(s, "check"), c)

Connects(s) ==
  /\ InScrape(s, "connecting")
  /\ LET c == exporter.at[s] IN
       /\ Checks[c].reuse /\ ~(exporter.nc[c] /\ exporter.mgr[c])
       /\ \/ exporter' = [Goes(s, "manage") EXCEPT !.nc[c] = TRUE, !.live[c] = @ + 1]
          \/ /\ exporter.fails < MaxFails
             /\ LET gone == [exporter EXCEPT !.nc[c] = FALSE, !.fails = @ + 1]
                IN exporter' = Unlocked(Collects(s, gone, TRUE), c)

Manages(s) ==
  /\ InScrape(s, "manage")
  /\ LET c == exporter.at[s] IN
       \/ exporter' = Unlocked([Goes(s, "check") EXCEPT !.mgr[c] = TRUE], c)
       \/ /\ exporter.fails < MaxFails
          /\ exporter' = Unlocked(Collects(s, [exporter EXCEPT !.mgr[c] = FALSE, !.fails = @ + 1,
                                                               !.unmanaged[c] = @ + 1], TRUE), c)

(* The check itself, on the connection or on one of its own that it closes. *)
Examines(s) ==
  /\ InScrape(s, "check")
  /\ \E failing \in BOOLEAN : exporter' = Collects(s, exporter, failing)

Scraping(s) ==
  LoadsContext(s) \/ LocksCheck(s) \/ Reuses(s) \/ Connects(s) \/ Manages(s) \/ Examines(s)

ExporterStep == ReadsConfig \/ \E s \in Scrapes : Scraping(s)

-----------------------------------------------------------------------------
ExporterTypeOK ==
  /\ exporter.main \in {"read", "serve", "error"}
  /\ exporter.mu \in [EachCheck -> SUBSET Scrapes]
  /\ exporter.pc \in [Scrapes -> {"context", "connect", "connecting", "manage", "check"}]
  /\ exporter.at \in [Scrapes -> 1 .. Len(Checks) + 1]

Scraped(s) == exporter.at[s] > Len(Checks)

(* However many scrapes there are at a time, a check keeps one connection,  *)
(* and one more for each time that no manager could be made for it, which   *)
(* are never closed; one that is not to keep any has none.  A scrape has    *)
(* one result for each check it knows (connect, Collect).                   *)
OneConnectionEach ==
  /\ \A c \in EachCheck :
       /\ exporter.live[c] <= exporter.unmanaged[c] + 1
       /\ ~Checks[c].reuse => exporter.live[c] = 0
  /\ \A s \in Scrapes, c \in EachCheck :
       Scraped(s) => exporter.results[s][c] = (IF Checks[c].kind = "unknown" THEN 0 ELSE 1)

(* In the end every scrape has its answer.                                  *)
ScrapesAnswered == \A s \in Scrapes : exporter.main = "serve" => Scraped(s)
=============================================================================
