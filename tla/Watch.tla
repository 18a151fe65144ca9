------------------------------- MODULE Watch -------------------------------
(***************************************************************************)
(* `nats server watch` (cli/server_watch_acct_command.go,                   *)
(* server_watch_srv_command.go, server_watch_js_command.go and              *)
(* server_watch_api_command.go): what servers send on their own is kept,    *)
(* the latest of each, and drawn every second.  So as not to wait for the   *)
(* first updates the servers are pinged; their answers come to another      *)
(* subscription, with a goroutine of its own, for two seconds.              *)
(***************************************************************************)
EXTENDS Integers, Sequences, FiniteSets

CONSTANTS
  Sources,     \* servers (for the API, kinds of request)
  Plain,       \* servers without JetStream, requests of accounts left out
  MaxUpdates,  \* bound: updates (or requests) of each source
  MaxAges      \* bound: times that figures grow old

ASSUME WatchAssumption ==
  /\ Plain \subseteq Sources /\ IsFiniteSet(Sources) /\ Sources # {}
  /\ MaxUpdates \in Nat /\ MaxAges \in Nat

VARIABLE watch

(* A figure is the number of the update it came with, 0 for none.           *)
Figure == 0 .. MaxUpdates + 1
Letter == [source : Sources, figure : Figure]
NoLetter == [source |-> CHOOSE s \in Sources : TRUE, figure |-> 0]

Nothing == [s \in Sources |-> 0]

(* sent is the latest figure of each server, seen what is kept of it and    *)
(* shown what is drawn; fresh are the servers that sent an update since the *)
(* answers to the ping are dealt with.                                      *)
WatchStarts ==
  {[kind |-> k, main |-> "connect", window |-> "shut",
    sent |-> [s \in Sources |-> IF k = "api" THEN 0 ELSE 1],
    answered |-> {}, answers |-> <<>>, updates |-> <<>>,
    answer |-> NoLetter, update |-> NoLetter,
    seen |-> Nothing, old |-> {}, ages |-> 0, shown |-> Nothing, rows |-> 0, fresh |-> {}] :
     k \in {"accounts", "servers", "jetstream", "api"}}

Pings == watch.kind \in {"servers", "jetstream"}
WatchOver == watch.main \in {"done", "error"}
Alive == ~WatchOver

(* The connection, and prePing, whose errors are not looked at.             *)
WatchConnects ==
  /\ watch.main = "connect"
  /\ \/ watch' = [watch EXCEPT !.main = "error"]
     \/ watch' = [watch EXCEPT !.main = "subscribe",
                               !.window = IF Pings THEN "open" ELSE "shut"]
     \/ Pings /\ watch' = [watch EXCEPT !.main = "subscribe"]

WatchSubscribes ==
  /\ watch.main = "subscribe"
  /\ \E next \in {"on", "error"} : watch' = [watch EXCEPT !.main = next]

(* A server sends an update (or answers a request of the API): it reaches   *)
(* those who have subscribed.                                               *)
ServerSends(s) ==
  /\ watch.main \in {"subscribe", "on"} /\ watch.sent[s] <= MaxUpdates
  /\ LET n == watch.sent[s] + 1 IN
       watch' = IF watch.main = "on"
                THEN [watch EXCEPT
                        !.sent[s] = n,
                        !.updates = Append(@, [source |-> s, figure |-> n]),
                        !.fresh = IF watch.window = "shut" /\ watch.answer = NoLetter
                                  THEN @ \cup {s} ELSE @]
                ELSE [watch EXCEPT !.sent[s] = IF watch.kind = "api" THEN @ ELSE n]

ServerAnswers(s) ==
  /\ Alive /\ watch.window = "open" /\ s \notin watch.answered
  /\ watch' = [watch EXCEPT !.answered = @ \cup {s},
                            !.answers = Append(@, [source |-> s, figure |-> watch.sent[s]])]

(* After two seconds the inbox is given up, with what it still holds.       *)
ShutsWindow ==
  /\ Alive /\ watch.window = "open"
  /\ watch' = [watch EXCEPT !.window = "shut", !.answers = <<>>]

(* Each subscription has a goroutine that calls handle, one message after   *)
(* the other; they take turns at the mutex.                                 *)
TakesAnswer ==
  /\ Alive /\ watch.answer = NoLetter /\ watch.answers # <<>>
  /\ watch' = [watch EXCEPT !.answer = Head(watch.answers), !.answers = Tail(@)]

TakesUpdate ==
  /\ Alive /\ watch.update = NoLetter /\ watch.updates # <<>>
  /\ watch' = [watch EXCEPT !.update = Head(watch.updates), !.updates = Tail(@)]

(* handle of each kind.                                                     *)
Kept(m) == watch.kind \in {"accounts", "servers"} \/ m.source \notin Plain

HandlesAnswer ==
  /\ Alive /\ watch.answer # NoLetter
  /\ LET m == watch.answer IN
       watch' = IF Kept(m) THEN [watch EXCEPT !.seen[m.source] = m.figure, !.answer = NoLetter]
                ELSE [watch EXCEPT !.answer = NoLetter]

HandlesUpdate ==
  /\ Alive /\ watch.update # NoLetter
  /\ LET m == watch.update IN
       watch' = IF ~Kept(m) THEN [watch EXCEPT !.update = NoLetter]
                ELSE [watch EXCEPT !.update = NoLetter,
                                   !.seen[m.source] =
                                     IF watch.kind = "api" THEN @ + 1 ELSE m.figure,
                                   !.old = @ \ {m.source}]

(* By the clocks of the server and of the watch figures get old.            *)
Ages(s) ==
  /\ Alive /\ watch.kind = "accounts" /\ watch.seen[s] > 0
  /\ watch.ages < MaxAges
  /\ watch' = [watch EXCEPT !.old = @ \cup {s}, !.ages = @ + 1]

(* redraw: as many rows as the terminal holds.  Accounts are rows of their  *)
(* own, made of all the servers that are not old; here there is one.        *)
Drawn(chosen) ==
  [s \in Sources |-> IF s \in chosen \ watch.old THEN watch.seen[s] ELSE 0]

Redraws ==
  /\ watch.main = "on"
  /\ \E rows \in 0 .. Cardinality(Sources) :
       IF rows = 0 /\ watch.kind # "api" THEN watch' = [watch EXCEPT !.main = "error"]
       ELSE \E chosen \in SUBSET {s \in Sources : watch.seen[s] > 0} :
              /\ Cardinality(chosen) <= rows
              /\ Cardinality(chosen) < rows => \A s \in Sources \ chosen : watch.seen[s] = 0
              /\ watch' = [watch EXCEPT !.shown = Drawn(IF watch.kind = "accounts" THEN Sources
                                                        ELSE chosen),
                                        !.rows = rows]

WatchInterrupted == watch.main = "on" /\ watch' = [watch EXCEPT !.main = "done"]

WatchStep ==
  \/ WatchConnects \/ WatchSubscribes \/ ShutsWindow \/ WatchInterrupted \/ Redraws
  \/ TakesAnswer \/ TakesUpdate \/ HandlesAnswer \/ HandlesUpdate
  \/ \E s \in Sources : ServerSends(s) \/ ServerAnswers(s) \/ Ages(s)

-----------------------------------------------------------------------------
WatchTypeOK ==
  /\ watch.main \in {"connect", "subscribe", "on", "done", "error"}
  /\ {watch.sent, watch.seen, watch.shown} \subseteq [Sources -> Figure]
  /\ {watch.answer, watch.update} \subseteq Letter
  /\ watch.answers \in Seq(Letter) /\ watch.updates \in Seq(Letter)

Coming(s) ==
  \/ watch.update.source = s /\ watch.update # NoLetter
  \/ \E k \in DOMAIN watch.updates : watch.updates[k].source = s

Heeded(s) == watch.kind \in {"accounts", "servers"} \/ s \notin Plain

(* An answer that comes late may put older figures in the place of newer    *)
(* ones, but once the answers are dealt with what is kept of a server that  *)
(* sends an update is the latest it sent, as soon as its updates are        *)
(* handled; and nothing that no server sent is drawn (handle, prePing).     *)
WatchCatchesUp ==
  watch.main = "on" =>
    \A s \in Sources :
      /\ watch.shown[s] <= watch.sent[s]
      /\ ~Heeded(s) => watch.shown[s] = 0
      /\ s \in watch.fresh /\ Heeded(s) /\ ~Coming(s) => watch.seen[s] = watch.sent[s]

(* And in the end it is drawn, unless the terminal is too small or it gets  *)
(* old.                                                                     *)
WatchShows ==
  \A s \in Sources :
    s \in watch.fresh /\ Heeded(s) =>
      \/ watch.shown[s] = watch.sent[s] \/ s \in watch.old \/ WatchOver
      \/ watch.kind # "accounts" /\ watch.rows < Cardinality(Sources)
=============================================================================
