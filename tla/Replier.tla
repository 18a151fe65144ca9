------------------------------ MODULE Replier ------------------------------
(***************************************************************************)
(* `nats reply` (cli/reply_command.go): the main goroutine subscribes,      *)
(* asks the server to end the subscription after --count messages and       *)
(* waits on a channel for an interrupt; the message handler answers each    *)
(* message, counts the answers and interrupts main when it has sent         *)
(* --count of them.  Each replier has a queue group of its own (--queue),   *)
(* so each gets every message.                                              *)
(*                                                                         *)
(* An operator whose comment says "Mutant" is no part of the model: it is   *)
(* the operator it names with a plausible bug, which a property refutes.   *)
(***************************************************************************)
EXTENDS Integers, Sequences

CONSTANTS Repliers, ReplyLimit   \* --count, 0 when not given

ASSUME ReplierAssumption == ReplyLimit \in Nat

VARIABLES
  rmain,     \* where the main goroutine of each replier is
  rsub,      \* its subscription: "none", "on", "limited" by AutoUnsubscribe
  rgot,      \* messages delivered to the subscription
  rqueue,    \* messages that wait for the handler
  answered,  \* i: the answers sent
  failed,    \* has the handler given up on a message?
  ic         \* interrupts in the channel, which holds one

replierVars == <<rmain, rsub, rgot, rqueue, answered, failed, ic>>

ReplierInit ==
  /\ rmain = [r \in Repliers |-> "subscribing"]
  /\ rsub = [r \in Repliers |-> "none"]
  /\ rgot = [r \in Repliers |-> 0]
  /\ rqueue = [r \in Repliers |-> <<>>]
  /\ answered = [r \in Repliers |-> 0]
  /\ failed = [r \in Repliers |-> FALSE]
  /\ ic = [r \in Repliers |-> 0]

Gone == {"exited", "error"}
Active(r) == rsub[r] = "on" \/ (rsub[r] = "limited" /\ rgot[r] < ReplyLimit)

(* QueueSubscribe: from here on the handler may run.                        *)
Subscribes(r) ==
  /\ rmain[r] = "subscribing"
  /\ rmain' = [rmain EXCEPT ![r] = "limiting"]
  /\ rsub' = [rsub EXCEPT ![r] = "on"]
  /\ UNCHANGED <<rgot, rqueue, answered, failed, ic>>

(* AutoUnsubscribe, then Flush and LastError, which may end the command.    *)
Limits(r) ==
  /\ rmain[r] = "limiting"
  /\ \E end \in {"listening", "error"} : rmain' = [rmain EXCEPT ![r] = end]
  /\ rsub' = IF ReplyLimit = 0 THEN rsub ELSE [rsub EXCEPT ![r] = "limited"]
  /\ UNCHANGED <<rgot, rqueue, answered, failed, ic>>

(* Mutant of LimitReached: it looks at the count before it is increased. *)
LimitPassed(n) == ReplyLimit # 0 /\ n > ReplyLimit

(* The handler: RespondMsg fails for a message without reply subject, and   *)
(* headers or a command that cannot be parsed give up before it; only a     *)
(* sent answer is counted.                                                  *)
LimitReached(n) == ReplyLimit # 0 /\ n = ReplyLimit

Answers(r) ==
  /\ rmain[r] \notin Gone /\ rqueue[r] # <<>> /\ Head(rqueue[r]).reply # "none"
  /\ LimitReached(answered[r] + 1) => ic[r] = 0
  /\ rqueue' = [rqueue EXCEPT ![r] = Tail(@)]
  /\ answered' = [answered EXCEPT ![r] = @ + 1]
  /\ ic' = [ic EXCEPT ![r] = IF LimitReached(answered[r] + 1) THEN 1 ELSE @]
  /\ UNCHANGED <<rmain, rsub, rgot, failed>>

(* A reply that cannot be made, of headers or a command line that do not    *)
(* parse, or sent: nothing is counted.  A command that was run and failed   *)
(* is no such case, what it put out is the reply.                           *)
GivesUp(r) ==
  /\ rmain[r] \notin Gone /\ rqueue[r] # <<>>
  /\ rqueue' = [rqueue EXCEPT ![r] = Tail(@)]
  /\ failed' = [failed EXCEPT ![r] = TRUE]
  /\ UNCHANGED <<rmain, rsub, rgot, answered, ic>>

(* An interrupt from the terminal, once main listens for it.                *)
Interrupts(r) ==
  /\ rmain[r] = "listening" /\ ic[r] = 0
  /\ ic' = [ic EXCEPT ![r] = 1]
  /\ UNCHANGED <<rmain, rsub, rgot, rqueue, answered, failed>>

(* Main takes the interrupt, starts to drain and exits.                     *)
Exits(r) ==
  /\ rmain[r] = "listening" /\ ic[r] = 1
  /\ rmain' = [rmain EXCEPT ![r] = "exited"]
  /\ ic' = [ic EXCEPT ![r] = 0]
  /\ UNCHANGED <<rsub, rgot, rqueue, answered, failed>>

(* The server delivers a message to all that are subscribed.                *)
Reached == {r \in Repliers : Active(r) /\ rmain[r] \notin Gone}
Deliver(m) ==
  /\ rgot' = [r \in Repliers |-> IF r \in Reached THEN rgot[r] + 1 ELSE rgot[r]]
  /\ rqueue' = [r \in Repliers |-> IF r \in Reached THEN Append(rqueue[r], m) ELSE rqueue[r]]
  /\ UNCHANGED <<rmain, rsub, answered, failed, ic>>
=============================================================================
