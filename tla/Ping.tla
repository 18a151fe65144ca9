-------------------------------- MODULE Ping --------------------------------
(***************************************************************************)
(* `nats server ping` (cli/server_ping_command.go): one request that every  *)
(* server answers.  The handler counts the answers until there are as many  *)
(* as expected; the main goroutine waits for that, for the timeout or for   *)
(* the user, and sums up while the handler may go on: draining does not     *)
(* stop it.                                                                *)
(***************************************************************************)
EXTENDS Integers

CONSTANTS
  Pinged,  \* the number of servers that may answer
  Expects, \* values of the expect argument, 0 for none
  Word     \* the numbers of an unsigned integer (2^32 in the code)

ASSUME PingAssumption ==
  /\ Pinged \in Nat /\ Word \in Nat /\ Pinged < Word
  /\ Expects \subseteq 0 .. Word - 1 /\ Expects # {}

VARIABLE ping

PingStarts ==
  {[expect |-> e, given |-> e, seen |-> 0, times |-> 0, last |-> 0, cancelled |-> FALSE,
    main |-> "connect", cause |-> "none", summed |-> 0, missing |-> 0] : e \in Expects}

PingOver == ping.main \in {"done", "error", "exit"}
PingListens == ping.main \in {"wait", "summary", "compare", "subtract"}

(* The connection, the subscription and the request.                        *)
PingConnects ==
  /\ ping.main = "connect"
  /\ \E next \in {"wait", "error"} : ping' = [ping EXCEPT !.main = next]

(* The handler.  A status instead of an answer, or one that cannot be       *)
(* decoded, ends the program.                                               *)
HearsNonsense ==
  /\ PingListens /\ ping.last = 0 /\ ping.seen < Pinged
  /\ ping' = [ping EXCEPT !.main = "exit"]

HearsServer ==
  /\ PingListens /\ ping.last = 0 /\ ping.seen < Pinged
  /\ ping' = [ping EXCEPT !.seen = @ + 1, !.last = ping.seen + 1]

(* The first answer tells how many servers there are, as far as it knows.   *)
SetsExpect == ping.expect = 0 /\ ping.last = 1

AllHeard(expect) == ping.last = expect

NotesServer ==
  /\ PingListens /\ ping.last > 0
  /\ \E active \in IF SetsExpect THEN 0 .. Pinged ELSE {ping.expect} :
       ping' = [ping EXCEPT !.expect = active, !.times = @ + 1, !.last = 0,
                            !.cancelled = @ \/ AllHeard(active)]

(* The main goroutine: cancelled by the handler, the timeout or the user.   *)
PingWaited ==
  /\ ping.main = "wait"
  /\ \E cause \in {"stopped"} \cup (IF ping.cancelled THEN {"heard"} ELSE {}) :
       ping' = [ping EXCEPT !.main = "summary", !.cause = cause, !.summed = ping.times]

SumsUp == ping.main = "summary" /\ ping' = [ping EXCEPT !.main = "compare"]

Compares ==
  /\ ping.main = "compare"
  /\ ping' = [ping EXCEPT !.main = IF ping.expect \notin {0, ping.seen} THEN "subtract" ELSE "done",
                          !.missing = IF ping.expect \in {0, ping.seen} THEN -1 ELSE 0]

Missing == (ping.expect - ping.seen) % Word

Subtracts ==
  /\ ping.main = "subtract"
  /\ ping' = [ping EXCEPT !.main = "done", !.missing = Missing]

PingMain == PingConnects \/ PingWaited \/ SumsUp \/ Compares \/ Subtracts
PingStep == PingMain \/ HearsNonsense \/ HearsServer \/ NotesServer

-----------------------------------------------------------------------------
PingTypeOK ==
  /\ ping.expect \in 0 .. Word - 1 /\ ping.seen \in 0 .. Pinged /\ ping.times \in 0 .. ping.seen
  /\ ping.missing \in -1 .. Word - 1

(* A ping that stops by itself has heard the servers it expects; when       *)
(* nothing is said to be missing the expected servers answered, and         *)
(* when something is, it is what did not answer, also when answers come     *)
(* while it is summed up; unless more servers answer than were expected:    *)
(* then the unsigned difference is a huge number (ping).                    *)
PingIsTrue ==
  /\ ping.cause = "heard" => ping.expect > 0 /\ ping.seen >= ping.expect
  /\ ping.main = "done" =>
    /\ ping.missing = -1 /\ ping.given > 0 => ping.seen >= ping.expect
    /\ ping.missing >= 0 /\ ping.expect >= Pinged =>
         ping.missing <= ping.expect /\ ping.expect - ping.missing <= ping.seen
    /\ ping.summed <= ping.seen
=============================================================================
