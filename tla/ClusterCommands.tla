-------------------------- MODULE ClusterCommands --------------------------
(***************************************************************************)
(* The commands that change where the groups of a cluster are led and kept: *)
(* `nats stream cluster`, `nats consumer cluster` and `nats server cluster` *)
(* ask for it and then look at the server again and again until it has      *)
(* happened.  Those of the meta group (cli/server_cluster_command.go) are   *)
(* here, those of streams and consumers with the other commands on them.    *)
(*                                                                         *)
(* An operator whose comment says "Mutant" is no part of the model: it is   *)
(* the operator it names with a plausible bug, which a property refutes.   *)
(***************************************************************************)
EXTENDS StreamCommands

(* Handlers on the meta group.                                              *)
MetaLeaderStandDown == <<"find_meta_leader", "find_leader", "step_down", "await_meta_leader">>
MetaEvacuate == <<"find_meta_leader", "pick_peer", "confirm", "evacuate", "await_evacuation">>
MetaPeerRemove == <<"find_meta_leader", "find_replica", "confirm", "remove_peer">>
MetaRescue == <<"look_for_leaders", "ask_quorum", "rescue">>
Balance == <<"detect_clusters", "confirm", "balance">>

ClusterHandlers ==
  [server_step_down |-> MetaLeaderStandDown, server_evacuate |-> MetaEvacuate,
   server_peer_remove |-> MetaPeerRemove, server_rescue |-> MetaRescue,
   server_balance |-> Balance]

Leader(p) == cmd[p].seen.leader

(* The servers are asked who leads: none or several is an error.            *)
FindMetaLeader(p) ==
  /\ At(p, "find_meta_leader")
  /\ Exists(Name(p)) /\ assets[Name(p)].leader # "nobody"
  /\ Proceeds(p, [cmd[p] EXCEPT !.seen = assets[Name(p)]])
  /\ Keeps

(* A stream or group without a leader is not asked to step down, unless     *)
(* forced to.                                                               *)
FindLeader(p) ==
  LET old == IF Leader(p) = "nobody" THEN "unknown" ELSE Leader(p) IN
  /\ At(p, "find_leader")
  /\ IF Leader(p) = "nobody" /\ ~HasForce(p) THEN Ends(p, "error")
     ELSE Proceeds(p, [cmd[p] EXCEPT !.old = old])
  /\ Keeps

FindMove(p) ==
  /\ At(p, "find_move")
  /\ IF cmd[p].seen.moving THEN Proceeds(p, cmd[p]) ELSE Ends(p, "error")
  /\ Keeps

(* The server to leave: named, or picked from those that have the asset.    *)
PickPeer(p) ==
  /\ At(p, "pick_peer")
  /\ \/ cmd[p].job.peer \in Peers /\ Proceeds(p, [cmd[p] EXCEPT !.old = cmd[p].job.peer])
     \/ /\ cmd[p].job.peer \notin Peers /\ Terminal(p)
        /\ \E l \in cmd[p].seen.peers : Proceeds(p, [cmd[p] EXCEPT !.old = l])
     \/ cmd[p].job.peer \notin Peers /\ Ends(p, "error")
  /\ Keeps

(* Only a replica, which the leader itself is not, can be removed.          *)
FindReplica(p) ==
  /\ At(p, "find_replica")
  /\ IF cmd[p].job.peer \in cmd[p].seen.peers \ {Leader(p)}
     THEN Proceeds(p, [cmd[p] EXCEPT !.old = cmd[p].job.peer])
     ELSE Ends(p, "error")
  /\ Keeps

(* Only a group that no server knows a leader of is rescued.                *)
LookForLeaders(p) ==
  /\ At(p, "look_for_leaders")
  /\ IF assets[Name(p)].leader = "nobody" THEN Proceeds(p, cmd[p]) ELSE Ends(p, "nothing")
  /\ Keeps

(* How many servers are to be required: the answer is all the consent there *)
(* is, and an impossible number is refused.                                 *)
AskQuorum(p) ==
  /\ At(p, "ask_quorum")
  /\ \/ Terminal(p) /\ Agrees(p)
     \/ Ends(p, "error")
  /\ Keeps

(* Each server is asked; those that refuse are reported, and all may.       *)
Rescue(p) ==
  \/ Request(p, "rescue", TRUE, assets)
  \/ At(p, "rescue") /\ Proceeds(p, cmd[p]) /\ Keeps

(* Without --cluster the servers are asked which clusters there are, which  *)
(* may fail, for the warning that comes with the question.                  *)
DetectClusters(p) == At(p, "detect_clusters") /\ Proceeds(p, cmd[p]) /\ Keeps

(* Clients are disconnected, which keeps nothing of the assets from being.  *)
BalanceConnections(p) == Request(p, "balance", TRUE, assets)

StepDown(p) ==
  Request(p, "step_down", Exists(Name(p)), [assets EXCEPT ![Name(p)].leader = "nobody"])

CancelMove(p) ==
  Request(p, "cancel_move", Exists(Name(p)) /\ assets[Name(p)].moving,
          [assets EXCEPT ![Name(p)].desired = assets[Name(p)].peers])

(* The server finds another one to take its place, or refuses.              *)
Evacuate(p) ==
  LET asset == assets[Name(p)] IN
  /\ At(p, "evacuate")
  /\ \/ /\ Exists(Name(p))
        /\ \E l \in Peers \ asset.peers :
             Request(p, "evacuate", cmd[p].old \in asset.peers,
                     [assets EXCEPT ![Name(p)].moving = TRUE,
                                    ![Name(p)].desired = (asset.peers \ {cmd[p].old}) \cup {l}])
     \/ Ends(p, "error") /\ Keeps

RemovePeer(p) ==
  Request(p, "remove_peer", Exists(Name(p)) /\ cmd[p].old \in assets[Name(p)].peers,
          [assets EXCEPT ![Name(p)].peers = @ \ {cmd[p].old},
                         ![Name(p)].desired = @ \ {cmd[p].old},
                         ![Name(p)].leader = IF @ = cmd[p].old THEN "nobody" ELSE @])

(* The leaders of some of the streams that the query finds are asked to     *)
(* step down, as many of them as the balancer sees fit and gets done.       *)
Streams == {a \in Assets : Kind[a] = "stream" /\ Exists(a)}
FindStreams(p) ==
  /\ At(p, "find_streams")
  /\ \/ Ends(p, "nothing")
     \/ Streams # {} /\ Proceeds(p, cmd[p])
  /\ Keeps

BalanceStreams(p) ==
  /\ At(p, "balance_streams")
  /\ \E some \in SUBSET Streams :
       assets' = [a \in Assets |-> IF a \in some THEN [assets[a] EXCEPT !.leader = "nobody"]
                                  ELSE assets[a]]
  /\ \/ Proceeds(p, cmd[p])
     \/ Ends(p, "error")
  /\ UNCHANGED selection

(* Mutant of Waits: the wait is not limited. *)
WaitsOn(p, step, over) == At(p, step) /\ over /\ Proceeds(p, cmd[p]) /\ Keeps

(* The loops that follow give up after a number of looks or a time; here it *)
(* may be after any look.                                                   *)
Waits(p, step, over) ==
  /\ At(p, step)
  /\ \/ over /\ Proceeds(p, cmd[p])
     \/ Ends(p, "error")
  /\ Keeps

AwaitLeader(p) ==
  Waits(p, "await_leader",
        Exists(Name(p)) /\ assets[Name(p)].leader \notin {"nobody", cmd[p].old})
AwaitMetaLeader(p) ==
  Waits(p, "await_meta_leader", assets[Name(p)].leader \notin {"nobody", cmd[p].old})

(* Of a server that is to leave the meta group, the command looks whether   *)
(* it keeps any stream or consumer; a server of the group is taken to be    *)
(* one that does here, and one that has nothing left to be out of it.       *)
AwaitEvacuation(p) ==
  Waits(p, "await_evacuation",
        Exists(Name(p)) /\ cmd[p].old \notin assets[Name(p)].peers)

(* This one never gives up: past the limit it says so and goes on.          *)
AwaitEndOfMove(p) ==
  /\ At(p, "await_end_of_move")
  /\ Exists(Name(p)) /\ ~assets[Name(p)].moving
  /\ Proceeds(p, cmd[p])
  /\ Keeps
=============================================================================
