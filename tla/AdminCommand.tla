---------------------------- MODULE AdminCommand ----------------------------
(***************************************************************************)
(* How one run of an administrative command proceeds.  A handler is a       *)
(* sequence of steps ("select_stream", "confirm", ...), a definition each   *)
(* in StreamCommands, ClusterCommands, ConsumerCommands, BucketCommands,    *)
(* LocalCommands and FileCommands; the steps that handlers have in common   *)
(* are the actions of this module.  Between two steps anything may happen   *)
(* on the server, as every step is a request of its own or a question to    *)
(* the user.                                                                *)
(*                                                                         *)
(* A request may be refused or lost (the command fails and nothing          *)
(* happened) and its answer may be lost (the command fails and it did).     *)
(***************************************************************************)
EXTENDS AdminServer

VARIABLE cmd   \* the state of each process' command

(* A command line, and what the run of it keeps: the steps that are left,   *)
(* what it works on, the stream as it was last read (NoAsset when it was    *)
(* not), the configuration it read and the one, or the revision, that a     *)
(* later request passes on, and the leader or server it waits to see go.    *)
(* agreed, picked and did are history: what the user has said yes to, what  *)
(* of an asset the user picked from a list, and what the server has done.   *)
Begun(job, steps) ==
  [job |-> job, steps |-> steps, outcome |-> "ok", asset |-> job.asset, item |-> job.item,
   seen |-> NoAsset, was |-> <<>>, new |-> <<>>, base |-> 0, old |-> "nobody",
   warned |-> FALSE, agreed |-> {}, picked |-> {}, did |-> {}]

At(p, step) == cmd[p].steps # <<>> /\ Head(cmd[p].steps) = step
Over(p) == cmd[p].steps = <<>>
Succeeded(p) == Over(p) /\ cmd[p].outcome = "ok"

Becomes(p, c) == cmd' = [cmd EXCEPT ![p] = c]
Proceeds(p, c) == Becomes(p, [c EXCEPT !.steps = Tail(@)])
Ends(p, outcome) == Becomes(p, [cmd[p] EXCEPT !.steps = <<>>, !.outcome = outcome])

HasForce(p) == cmd[p].job.force
Terminal(p) == cmd[p].job.terminal
Name(p) == cmd[p].asset
Item(p) == cmd[p].item

(* An edit from a file changes the consumer that the file names.            *)
FileNames(p, i) == cmd[p].job.file /\ cmd[p].job.to = i /\ i \in Items
Target(p, step) ==
  IF step = "update_consumer" /\ FileNames(p, cmd[p].job.to) THEN cmd[p].job.to ELSE Item(p)

(* What a prompt asks about, a stream or something in it, with the revision *)
(* of it that was read before; and what a step did, to what, and the latest *)
(* revision then of what was asked about.                                   *)
Asking(p) == [asset |-> Name(p), item |-> Item(p), rev |-> cmd[p].base]
Deed(p, step) ==
  [step |-> step, asset |-> Name(p), item |-> Target(p, step),
   rev |-> IF Exists(Name(p)) THEN Latest(assets[Name(p)], Item(p)) ELSE 0]

(* Any read may fail. *)
ReadFails(p, step) == At(p, step) /\ Ends(p, "error") /\ Keeps

(* selectStream: the named stream, if it is loaded or at least known, else  *)
(* the one the user picks from the list, which leaves out those of buckets. *)
Picks(p, s) ==
  /\ Terminal(p) /\ ~HasForce(p)
  /\ Exists(s) /\ Kind[s] = "stream"
  /\ Proceeds(p, [cmd[p] EXCEPT !.asset = s, !.seen = NoAsset])

SelectStream(p) ==
  /\ At(p, "select_stream")
  /\ IF Exists(Name(p))
     THEN \E seen \in {assets[Name(p)], NoAsset} : Proceeds(p, [cmd[p] EXCEPT !.seen = seen])
     ELSE \E s \in Assets : Picks(p, s)
  /\ Keeps

(* selectConsumer, and connectAndSetup, which tries both names first.       *)
SelectConsumer(p) ==
  /\ At(p, "select_consumer") /\ Exists(Name(p))
  /\ \E i \in Items :
       /\ HasPart(Name(p), i)
       /\ i # Item(p) => Terminal(p) /\ ~HasForce(p)
       /\ Proceeds(p, [cmd[p] EXCEPT !.item = i, !.seen = assets[Name(p)]])
  /\ Keeps

FindConsumer(p) ==
  /\ At(p, "find_consumer")
  /\ \/ /\ HasPart(Name(p), Item(p))
        /\ Becomes(p, [cmd[p] EXCEPT !.seen = assets[Name(p)],
                                     !.steps = SubSeq(@, 4, Len(@))])
     \/ Proceeds(p, cmd[p])
  /\ Keeps

(* loadStream, from what selectStream has loaded if it did.                 *)
LoadStream(p) ==
  /\ At(p, "load_stream")
  /\ \/ cmd[p].seen # NoAsset /\ Proceeds(p, cmd[p])
     \/ /\ cmd[p].seen = NoAsset /\ Exists(Name(p))
        /\ Proceeds(p, [cmd[p] EXCEPT !.seen = assets[Name(p)]])
  /\ Keeps

LoadConsumer(p) ==
  /\ At(p, "load_consumer") /\ HasPart(Name(p), Item(p))
  /\ Proceeds(p, [cmd[p] EXCEPT !.seen = assets[Name(p)]])
  /\ Keeps

(* Every other read of a stream: a fresh look at it.                        *)
Look(p) ==
  /\ At(p, "look") /\ Exists(Name(p))
  /\ Proceeds(p, [cmd[p] EXCEPT !.seen = assets[Name(p)]])
  /\ Keeps

(* What a handler shows at its end is read again, and may fail.             *)
Show(p) == At(p, "show") /\ Exists(Name(p)) /\ Proceeds(p, cmd[p]) /\ Keeps

(* askConfirmation as handlers use it: --force skips it.                    *)
Agrees(p) == Proceeds(p, [cmd[p] EXCEPT !.agreed = @ \cup {Asking(p)}])

Confirm(p) ==
  /\ At(p, "confirm")
  /\ \/ HasForce(p) /\ Proceeds(p, cmd[p])
     \/ ~HasForce(p) /\ ~Terminal(p) /\ Ends(p, "error")
     \/ ~HasForce(p) /\ Terminal(p) /\ (Agrees(p) \/ Ends(p, "declined"))
  /\ Keeps

(* kvAbstractionWarn, which --force does not skip.                          *)
WarnOfBucket(p) ==
  /\ At(p, "warn")
  /\ IF Kind[Name(p)] # "kv" THEN Proceeds(p, cmd[p])
     ELSE \/ Terminal(p) /\ Proceeds(p, [cmd[p] EXCEPT !.warned = TRUE])
          \/ Ends(p, "error")
  /\ Keeps

(* A request that changes the server: what it does and when it is accepted. *)
Request(p, step, accepted, new) ==
  /\ At(p, step)
  /\ \/ /\ accepted
        /\ assets' = new /\ UNCHANGED selection
        /\ LET done == [cmd[p] EXCEPT !.did = @ \cup {Deed(p, step)}]
           IN \/ Proceeds(p, done)
              \/ Becomes(p, [done EXCEPT !.steps = <<>>, !.outcome = "error"])
     \/ Ends(p, "error") /\ Keeps

(* The terminal or the system may end a command at any time. *)
Interrupted(p) == ~Over(p) /\ Ends(p, "error") /\ Keeps
=============================================================================
