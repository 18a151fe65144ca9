--------------------------- MODULE StreamCommands ---------------------------
(***************************************************************************)
(* `nats stream` (cli/stream_command.go): the commands that change a        *)
(* stream.  Reports, listings and graphs only read, and are left out.       *)
(*                                                                         *)
(* An operator whose comment says "Mutant" is no part of the model: it is   *)
(* the operator it names with a plausible bug, which a property refutes.   *)
(***************************************************************************)
EXTENDS AdminCommand

(* The handlers.                                                            *)
StreamAdd == <<"configure", "create_stream">>
StreamCp == <<"select_stream", "load_stream", "edit_stream", "copy_stream">>
StreamEdit ==
  <<"select_stream", "load_stream", "edit_stream", "diff", "warn", "confirm", "update_stream",
    "show">>
StreamPurge == <<"select_stream", "confirm", "warn", "load_stream", "purge_stream", "show">>

(* Mutant of StreamRmMsg: the message is removed before the user agrees. *)
StreamRmMsgHasty ==
  <<"select_stream", "load_stream", "warn", "remove_message", "confirm">>

StreamRmMsg ==
  <<"select_stream", "load_stream", "warn", "confirm", "remove_message">>

StreamRm(force) ==
  IF force THEN <<"delete_stream">>
  ELSE <<"select_stream", "confirm", "load_stream", "delete_stream">>

StreamSeal == <<"select_stream", "confirm", "load_stream", "seal_stream", "show">>
StreamLeaderStandDown ==
  <<"select_stream", "load_stream", "look", "find_leader", "step_down", "await_leader",
    "show">>

(* --force cancels without a look and does not wait.                        *)
StreamCancelMove(force) ==
  IF force THEN <<"select_stream", "cancel_move">>
  ELSE <<"select_stream", "load_stream", "look", "find_move", "confirm", "cancel_move",
         "await_end_of_move">>

StreamEvacuatePeer ==
  <<"select_stream", "load_stream", "look", "pick_peer", "confirm", "evacuate",
    "await_evacuation">>
StreamRemovePeer == <<"select_stream", "load_stream", "look", "pick_peer", "remove_peer">>
StreamBalance == <<"find_streams", "balance_streams">>

StreamClusterHandlers(force) ==
  [stream_step_down |-> StreamLeaderStandDown, stream_balance |-> StreamBalance,
   stream_cancel_move |-> StreamCancelMove(force), stream_evacuate |-> StreamEvacuatePeer,
   stream_peer_remove |-> StreamRemovePeer]

StreamHandlers(force) ==
  [stream_add |-> StreamAdd, stream_cp |-> StreamCp, stream_edit |-> StreamEdit,
   stream_purge |-> StreamPurge, stream_rmm |-> StreamRmMsg, stream_rm |-> StreamRm(force),
   stream_seal |-> StreamSeal]

(* Mutant of Asked: a field that no flag sets is left empty. *)
AskedOrEmpty(p, f, otherwise) == IF f \in cmd[p].job.set THEN p ELSE ""

(* prepareConfig: what the flags leave open is asked for, or defaulted with *)
(* --defaults; without a terminal an open question is an error.  A field    *)
(* that is set gets the name of its writer as its value.  With --validate   *)
(* and --output nothing is created.                                         *)
Asked(p, f, otherwise) == IF f \in cmd[p].job.set THEN p ELSE otherwise

Configure(p) ==
  /\ At(p, "configure")
  /\ \/ Proceeds(p, [cmd[p] EXCEPT !.new = [f \in Fields |-> Asked(p, f, "default")]])
     \/ ~Terminal(p) /\ Ends(p, "error")
     \/ Ends(p, "dry_run")
  /\ Keeps

(* Mutant of Edited: fields no flag names are set to their defaults. *)
EditedFromDefaults(p, cfg) == [f \in Fields |-> Asked(p, f, "default")]

(* copyAndEditStream, copyAndEditConsumer and the edits of buckets, without *)
(* a file: only what the flags name is set.                                 *)
Edited(p, cfg) == [f \in Fields |-> Asked(p, f, cfg[f])]

(* copyAndEditStream also sets NoAck, which "rest" stands for here, to the  *)
(* opposite of --ack, given or not.                                         *)
StreamEdited(p, cfg) == [Edited(p, cfg) EXCEPT !["rest"] = Asked(p, "rest", "default")]

(* With --config, the file alone is the new configuration: no other flag is *)
(* looked at, and what the file leaves out is reset.                        *)
OfFile(p) == [f \in Fields |-> Asked(p, f, "default")]

(* interactiveEdit: the user changes a rendering of all of it in an editor. *)
InteractivelyEdited(p, cfg) == IF Terminal(p) THEN {Edited(p, cfg)} ELSE {}

EditStream(p) ==
  /\ At(p, "edit_stream")
  /\ LET cfg == cmd[p].seen.cfg
         edited == IF cmd[p].job.file THEN OfFile(p) ELSE StreamEdited(p, cfg)
     IN \/ \E new \in {edited} \cup InteractivelyEdited(p, cfg) :
             Proceeds(p, [cmd[p] EXCEPT !.was = cfg, !.new = new])
        \/ Ends(p, "error")
  /\ Keeps

(* An edit that changes nothing ends there, and one with --dry-run always.  *)
Diff(p) ==
  /\ At(p, "diff")
  /\ \/ cmd[p].new = cmd[p].was /\ Ends(p, "nothing")
     \/ cmd[p].new # cmd[p].was /\ Proceeds(p, cmd[p])
     \/ Ends(p, "dry_run")
  /\ Keeps

(* The requests.  An update overwrites the whole configuration: it carries  *)
(* no revision of what was read.                                            *)
Made(p, name) == [assets EXCEPT ![name] = NewAsset(cmd[p].new, p)]

CreateStream(p) ==
  Request(p, "create_stream", ~Exists(Name(p)), Made(p, Name(p)))
CopyStream(p) ==
  LET to == cmd[p].job.to IN Request(p, "copy_stream", ~Exists(to), Made(p, to))
UpdateStream(p) ==
  Request(p, "update_stream", Exists(Name(p)) /\ ~assets[Name(p)].sealed,
          [assets EXCEPT ![Name(p)].cfg = cmd[p].new])
PurgeStream(p) ==
  Request(p, "purge_stream", Exists(Name(p)) /\ ~assets[Name(p)].sealed,
          [assets EXCEPT ![Name(p)].msgs = {}])
DeleteStream(p) ==
  Request(p, "delete_stream", Exists(Name(p)), [assets EXCEPT ![Name(p)] = NoAsset])
RemoveMessage(p) ==
  Request(p, "remove_message",
          /\ Exists(Name(p)) /\ ~assets[Name(p)].sealed
          /\ \E m \in assets[Name(p)].msgs : m.seq = cmd[p].job.rev,
          [assets EXCEPT ![Name(p)].msgs = {m \in @ : m.seq # cmd[p].job.rev}])

(* What Seal returns is dropped: the err that is looked at is an older one. *)
SealStream(p) ==
  \/ Request(p, "seal_stream", Exists(Name(p)), [assets EXCEPT ![Name(p)].sealed = TRUE])
  \/ At(p, "seal_stream") /\ Proceeds(p, cmd[p]) /\ Keeps
=============================================================================
