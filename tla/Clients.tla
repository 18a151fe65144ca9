------------------------------ MODULE Clients ------------------------------
(***************************************************************************)
(* What one process may run: a command that publishes, requests or measures *)
(* (Messaging, with the processes that answer it), one that shows what      *)
(* servers report (Top, Watch, Ping, Connections, ReplicaCheck), the        *)
(* exporter of health checks (Exporter), a service under load               *)
(* (ServiceServer) or a subscription of direct gets (DirectGets).           *)
(***************************************************************************)
EXTENDS Messaging, Top, Watch, Ping, Connections, Exporter, ReplicaCheck,
        ServiceServer, DirectGets

CONSTANT Commands   \* the commands to consider

ASSUME ClientsAssumption ==
  Commands \subseteq {"publish", "latency", "top", "watch", "ping", "connections",
                      "exporter", "replicas", "serve", "direct"}

vars == <<messagingVars, top, watch, ping, connz, exporter, check, serve, direct>>

(* What belongs to another command stays as it is.                          *)
Starting(name, starts) ==
  IF command = name THEN starts ELSE {CHOOSE s \in starts : TRUE}

Init ==
  /\ command \in Commands
  /\ MessagingInit
  /\ top \in Starting("top", TopStarts) /\ watch \in Starting("watch", WatchStarts)
  /\ ping \in Starting("ping", PingStarts) /\ connz \in Starting("connections", ConnzStarts)
  /\ exporter \in Starting("exporter", ExporterStarts)
  /\ check \in Starting("replicas", CheckStarts) /\ serve \in Starting("serve", ServeStarts)
  /\ direct \in Starting("direct", DirectStarts)

Messages(step) ==
  step /\ UNCHANGED <<top, watch, ping, connz, exporter, check, serve, direct>>
Tops(step) ==
  /\ command = "top" /\ step
  /\ UNCHANGED <<messagingVars, watch, ping, connz, exporter, check, serve, direct>>
Watches(step) ==
  /\ command = "watch" /\ step
  /\ UNCHANGED <<messagingVars, top, ping, connz, exporter, check, serve, direct>>
Pinging(step) ==
  /\ command = "ping" /\ step
  /\ UNCHANGED <<messagingVars, top, watch, connz, exporter, check, serve, direct>>
Reporting(step) ==
  /\ command = "connections" /\ step
  /\ UNCHANGED <<messagingVars, top, watch, ping, exporter, check, serve, direct>>
Exporting(step) ==
  /\ command = "exporter" /\ step
  /\ UNCHANGED <<messagingVars, top, watch, ping, connz, check, serve, direct>>
Comparing(step) ==
  /\ command = "replicas" /\ step
  /\ UNCHANGED <<messagingVars, top, watch, ping, connz, exporter, serve, direct>>
Serving(step) ==
  /\ command = "serve" /\ step
  /\ UNCHANGED <<messagingVars, top, watch, ping, connz, exporter, check, direct>>
Getting(step) ==
  /\ command = "direct" /\ step
  /\ UNCHANGED <<messagingVars, top, watch, ping, connz, exporter, check, serve>>

Next ==
  \/ Messages(MessagingNext)
  \/ Tops(TopRuns \/ Corrects \/ UserTypes) \/ Watches(WatchStep) \/ Pinging(PingStep)
  \/ Reporting(ConnzStep) \/ Exporting(ExporterStep) \/ Comparing(CheckStep)
  \/ Serving(ServeStep) \/ Getting(DirectStep)

(* What a program does by itself: main goroutines run, tickers and timers   *)
(* fire and requests are answered or fail.  Of the several commands one     *)
(* runs only, so that these are no more than fairness of its own.           *)
MainRuns ==
  \/ Messages(Publishing(MainLoop) \/ Measuring)
  \/ Tops(TopRuns) \/ Watches(Redraws) \/ Pinging(PingMain)
  \/ Reporting(ConnzRuns) \/ Comparing(CheckRuns)
  \/ Serving(ServeRuns) \/ Getting(DirectRuns)

(* And so do the goroutines beside it.                                      *)
OtherRuns ==
  \/ Messages(Publishing(Callback))
  \/ Tops(Corrects) \/ Watches(TakesUpdate \/ HandlesUpdate)
  \/ Exporting(\E s \in Scrapes : Scraping(s))

(* The callback and main run, timers fire, the server delivers, handlers    *)
(* are called and the main goroutine of a replier does not stop between its *)
(* steps; nobody needs to type, signal or interrupt.                        *)
Fairness ==
  /\ WF_vars(MainRuns) /\ WF_vars(OtherRuns)
  /\ WF_vars(Messages(Route))
  /\ \A r \in Repliers :
       WF_vars(Messages(Reply(r) \/ ReplierGivesUp(r))) /\ WF_vars(Messages(ReplierRuns(r)))

Spec == Init /\ [][Next]_vars
FairSpec == Spec /\ Fairness

-----------------------------------------------------------------------------
(* Every variable has its type.                                             *)
TypeOK ==
  /\ command \in Commands
  /\ MessagingTypeOK /\ TopTypeOK /\ WatchTypeOK /\ PingTypeOK /\ ConnzTypeOK
  /\ ExporterTypeOK /\ CheckTypeOK /\ ServeTypeOK /\ DirectTypeOK

(* What the commands show is so: the screen follows the choices of the      *)
(* user, a watch catches up with the servers, a ping counts right, no       *)
(* connection is listed twice, each check has one connection and one        *)
(* result, no replica is wrongly called in sync or unsynced, a service that *)
(* is served ends because its clients failed, and direct gets bring each    *)
(* message once and leave none out.                                         *)
ReportsAreTrue ==
  /\ ScreenFollows /\ WatchCatchesUp /\ PingIsTrue /\ ConnectionsOnce /\ OneConnectionEach
  /\ NoneWronglyInSync /\ NoneWronglyUnsynced
  /\ ServesUntilAllFail /\ DirectOnce

(* The screen of top does not go back in time.                              *)
ScreensGoOn == [][ScreenGoesOn]_top

(* Commands end: those that publish or measure when they have reason to     *)
(* (MessagingDue), top with --max-refresh, a ping, a report that is not     *)
(* repeated, a comparison of replicas, a service whose clients failed once  *)
(* each, direct gets that are to stop; and every scrape and every update of *)
(* a watched server is dealt with in the end, as are the messages of a      *)
(* replier with --count.                                                    *)
Due ==
  \/ MessagingDue \/ command \in {"ping", "replicas"}
  \/ command = "top" /\ top.limit > 0
  \/ command = "connections" /\ ~connz.watching
Over ==
  \/ MessagingOver
  \/ command = "top" /\ top.main \in TopOver
  \/ command = "ping" /\ PingOver
  \/ command = "connections" /\ ConnzOver
  \/ command = "replicas" /\ CheckOver

CommandsProgress ==
  <>[]((Due => Over) /\ RepliersQuit /\ WatchShows /\ ScrapesAnswered
       /\ (command = "serve" => ServeEnds) /\ (command = "direct" => DirectEnds))
=============================================================================
