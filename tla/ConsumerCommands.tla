-------------------------- MODULE ConsumerCommands --------------------------
(***************************************************************************)
(* `nats consumer` (cli/consumer_command.go): the commands that change a    *)
(* consumer, and the one that takes messages from it.                       *)
(*                                                                         *)
(* An operator whose comment says "Mutant" is no part of the model: it is   *)
(* the operator it names with a plausible bug, which a property refutes.   *)
(***************************************************************************)
EXTENDS ClusterCommands

(* connectAndSetup, for commands that need a consumer.                      *)
ConnectAndSetup == <<"find_consumer", "select_stream", "select_consumer">>

ConsumerAdd == <<"select_stream", "configure_consumer", "create_consumer", "show_consumer">>
ConsumerCp ==
  <<"select_stream", "load_consumer", "edit_the_copy", "copy_consumer", "show_consumer">>
ConsumerEdit ==
  ConnectAndSetup \o <<"edit_consumer", "diff", "confirm", "update_consumer", "show_consumer">>
ConsumerRm(force) ==
  IF force THEN <<"delete_consumer">> ELSE ConnectAndSetup \o <<"confirm", "delete_consumer">>
ConsumerReset == ConnectAndSetup \o <<"confirm", "reset_consumer", "show_consumer">>
ConsumerPause == ConnectAndSetup \o <<"confirm", "pause_consumer">>
ConsumerResume == ConnectAndSetup \o <<"look", "find_pause", "confirm", "resume_consumer">>
ConsumerUnpin == ConnectAndSetup \o <<"look", "find_pinned", "confirm", "unpin_consumer">>
ConsumerLeaderStandDown ==
  ConnectAndSetup \o <<"load_consumer", "find_consumer_leader", "step_down_consumer",
                       "await_consumer_leader", "show_consumer">>
ConsumerEvacuatePeer ==
  ConnectAndSetup \o <<"look", "pick_peer", "confirm", "evacuate_consumer",
                       "await_consumer_evacuation">>
ConsumerBalance == <<"select_stream", "balance_consumers">>
ConsumerNext(count) ==
  [k \in 1..(2 * count) |-> IF k % 2 = 1 THEN "pull_message" ELSE "acknowledge"]

ConsumerClusterHandlers ==
  [consumer_step_down |-> ConsumerLeaderStandDown, consumer_balance |-> ConsumerBalance,
   consumer_evacuate |-> ConsumerEvacuatePeer]

ConsumerHandlers(force, count) ==
  [consumer_add |-> ConsumerAdd, consumer_cp |-> ConsumerCp, consumer_edit |-> ConsumerEdit,
   consumer_rm |-> ConsumerRm(force), consumer_reset |-> ConsumerReset,
   consumer_pause |-> ConsumerPause, consumer_resume |-> ConsumerResume,
   consumer_unpin |-> ConsumerUnpin, consumer_next |-> ConsumerNext(count)]

Seen(p) == cmd[p].seen.parts[Item(p)]
ConfiguredConsumer(p) == [f \in Fields |-> Asked(p, f, "default")]

EditConsumer(p) ==
  /\ At(p, "edit_consumer") /\ Seen(p) # NoPart
  /\ LET cfg == Seen(p).cfg
         edited == IF cmd[p].job.file THEN OfFile(p) ELSE Edited(p, cfg)
     IN \/ \E new \in {edited} \cup InteractivelyEdited(p, cfg) :
             Proceeds(p, [cmd[p] EXCEPT !.was = cfg, !.new = new])
        \/ Ends(p, "error")
  /\ Keeps

(* A copy has no delivery group but one given with its target; "rest"       *)
(* stands for it here.                                                      *)
EditCopy(p) ==
  /\ At(p, "edit_the_copy") /\ Seen(p) # NoPart
  /\ \/ Proceeds(p, [cmd[p] EXCEPT
            !.new = [Edited(p, Seen(p).cfg) EXCEPT !["rest"] = Asked(p, "rest", "default")]])
     \/ Ends(p, "error")
  /\ Keeps

(* prepareConfig of consumers: from a file, or from what the flags say; the *)
(* rest is asked for, or defaulted with --defaults, all but the name and    *)
(* the target.  What does not go together is refused in the end.            *)
ConfigureConsumer(p) ==
  /\ At(p, "configure_consumer")
  /\ \/ Proceeds(p, [cmd[p] EXCEPT !.new = ConfiguredConsumer(p)])
     \/ Ends(p, "error")
     \/ Ends(p, "dry_run")
  /\ Keeps

(* Preconditions that handlers look at before they ask.                     *)
Finds(p, step, found) ==
  /\ At(p, step)
  /\ IF found THEN Proceeds(p, cmd[p]) ELSE Ends(p, "error")
  /\ Keeps

FindPause(p) == Finds(p, "find_pause", Seen(p) # NoPart /\ Seen(p).paused)
FindPinned(p) == Finds(p, "find_pinned", Seen(p) # NoPart /\ Seen(p).pinned)

FindConsumerLeader(p) ==
  /\ At(p, "find_consumer_leader")
  /\ \/ Seen(p).leader = "nobody" /\ ~HasForce(p) /\ Ends(p, "error")
     \/ /\ Seen(p).leader # "nobody" \/ HasForce(p)
        /\ Proceeds(p, [cmd[p] EXCEPT !.old = IF Seen(p).leader = "nobody" THEN "unknown"
                                              ELSE Seen(p).leader])
  /\ Keeps

(* The requests.                                                            *)
OfConsumer(p, step, when, new) ==
  Request(p, step, HasPart(Name(p), Item(p)) /\ when,
          [assets EXCEPT ![Name(p)].parts[Item(p)] = new])
Current(p) == assets[Name(p)].parts[Item(p)]

(* NewConsumerFromDefault updates the consumer or makes it: an edit of one  *)
(* that was deleted meanwhile brings it back, and one from a file makes or  *)
(* changes whichever consumer the file names, without a look at its name.   *)
UpdateConsumer(p, step, i) ==
  Request(p, step, Exists(Name(p)),
          [assets EXCEPT ![Name(p)].parts[i] =
             IF @ = NoPart THEN NewPart(cmd[p].new, Name(p), p)
             ELSE [@ EXCEPT !.cfg = cmd[p].new]])

EditsConsumer(p) ==
  UpdateConsumer(p, "update_consumer", Target(p, "update_consumer"))
CreateConsumer(p) == UpdateConsumer(p, "create_consumer", Item(p))
CopyConsumer(p) == UpdateConsumer(p, "copy_consumer", cmd[p].job.to)
DeleteConsumer(p) == OfConsumer(p, "delete_consumer", TRUE, NoPart)
ResetConsumer(p) ==
  OfConsumer(p, "reset_consumer", TRUE, [Current(p) EXCEPT !.position = 0, !.acked = 0])
PauseConsumer(p) == OfConsumer(p, "pause_consumer", TRUE, [Current(p) EXCEPT !.paused = TRUE])
ResumeConsumer(p) == OfConsumer(p, "resume_consumer", TRUE, [Current(p) EXCEPT !.paused = FALSE])
Unpin(p) ==
  OfConsumer(p, "unpin_consumer", Current(p).pinned, [Current(p) EXCEPT !.pinned = FALSE])
StepDownConsumer(p) ==
  OfConsumer(p, "step_down_consumer", TRUE, [Current(p) EXCEPT !.leader = "nobody"])
EvacuateConsumer(p) ==
  OfConsumer(p, "evacuate_consumer", cmd[p].old \in Current(p).peers,
             [Current(p) EXCEPT !.peers = @ \ {cmd[p].old},
                                !.leader = IF @ = cmd[p].old THEN "nobody" ELSE @])

(* As for streams; no consumers are no error.                               *)
BalanceConsumers(p) ==
  /\ At(p, "balance_consumers")
  /\ \/ /\ Exists(Name(p)) /\ UNCHANGED selection
        /\ \E some \in SUBSET {i \in Items : HasPart(Name(p), i)} :
             assets' = [assets EXCEPT ![Name(p)].parts =
                          [i \in Items |-> IF i \in some THEN [@[i] EXCEPT !.leader = "nobody"]
                                          ELSE @[i]]]
        /\ \/ Proceeds(p, cmd[p])
           \/ Ends(p, "error")
     \/ Ends(p, "error") /\ Keeps

(* The wait for a leader ranges over a timer, which fires once: whoever     *)
(* leads other than before, even nobody, ends the wait, and when the first  *)
(* look finds the old leader or fails, there is no second one.              *)
AwaitConsumerLeader(p) ==
  /\ At(p, "await_consumer_leader")
  /\ \/ /\ HasPart(Name(p), Item(p)) /\ Current(p).leader # cmd[p].old
        /\ Proceeds(p, cmd[p])
     \/ Becomes(p, [cmd[p] EXCEPT !.steps = <<"next_tick">>])
  /\ Keeps
Hangs(p) == At(p, "next_tick")

AwaitConsumerEvacuation(p) ==
  Waits(p, "await_consumer_evacuation",
        HasPart(Name(p), Item(p)) /\ cmd[p].old \notin Current(p).peers)

(* showConsumer, which ends the program when the consumer is gone.          *)
ShowConsumer(p) ==
  /\ At(p, "show_consumer")
  /\ \E i \in Items : i \in {Item(p), cmd[p].job.to} /\ HasPart(Name(p), i)
  /\ Proceeds(p, cmd[p])
  /\ Keeps

(* getNextMsgDirect: the next message, and its acknowledgement, after which *)
(* the result of Flush is not looked at.                                    *)
PullMessage(p) ==
  OfConsumer(p, "pull_message", ~Current(p).paused /\ Current(p).position < assets[Name(p)].last,
             [Current(p) EXCEPT !.position = @ + 1])
Acknowledge(p) ==
  \/ OfConsumer(p, "acknowledge", Current(p).acked < Current(p).position,
                [Current(p) EXCEPT !.acked = @ + 1])
  \/ At(p, "acknowledge") /\ Proceeds(p, cmd[p]) /\ Keeps
=============================================================================
