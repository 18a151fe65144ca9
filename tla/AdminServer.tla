---------------------------- MODULE AdminServer ----------------------------
(***************************************************************************)
(* What the administrative commands work on: the assets that a JetStream    *)
(* server keeps (streams, key-value buckets and object stores, which are    *)
(* streams too, and the meta group of the cluster) and those in local files *)
(* (contexts, operators and accounts), as far as the commands ask for and   *)
(* change them.  Neither the server nor the libraries that keep the files   *)
(* are part of the repository: all of this is modelled from how cli/ uses   *)
(* them.                                                                    *)
(***************************************************************************)
EXTENDS Integers, Sequences, FiniteSets, FiniteSetsExt

CONSTANTS
  Assets,   \* their names; a bucket has that of its stream
  Items,    \* names of what is in them: consumers, keys, objects, users, ...
  Peers,    \* servers
  Kind,     \* what each asset is
  Procs,    \* processes that run a command each
  History,  \* revisions a key-value bucket keeps of a key
  NoAsset, NoPart   \* what there is not

VARIABLES
  assets,
  selection   \* the selected context and the one before it

Keeps == UNCHANGED <<assets, selection>>

(* A configuration is a function of two fields that stand for all of them;  *)
(* a value tells who wrote it.                                              *)
Fields == {"limits", "rest"}
Configurations == [Fields -> Procs \cup {"old", "default"}]

(* Consumers of a stream, or users, keys, imports and exports of an account.*)
Parts ==
  [cfg : Configurations, by : Procs \cup {"start"}, paused : BOOLEAN, pinned : BOOLEAN,
   position : Nat, acked : Nat, leader : Peers \cup {"nobody"}, peers : SUBSET Peers]

Messages == [seq : Nat, key : Items, op : {"put", "delete"}]

(* What there may be under a name.                                          *)
AssetRecords ==
  [cfg : Configurations, by : Procs \cup {"start"}, sealed : BOOLEAN, msgs : SUBSET Messages,
   last : Nat, parts : [Items -> Parts \cup {NoPart}], leader : Peers \cup {"nobody"},
   peers : SUBSET Peers, desired : SUBSET Peers, moving : BOOLEAN]

(* A group has two members: NewAsset chooses them.                          *)
ASSUME AdminServerAssumption ==
  /\ Kind \in [Assets -> {"stream", "kv", "object", "meta", "context", "operator", "account",
                       "file"}]
  /\ IsFiniteSet(Peers) /\ "nobody" \notin Peers
  /\ \E group \in SUBSET Peers : Cardinality(group) = 2
  /\ "start" \notin Procs
  /\ History \in Nat \ {0}
  /\ NoAsset \notin AssetRecords /\ NoPart \notin Parts

Exists(a) == a \in Assets /\ assets[a] # NoAsset
HasPart(a, i) == Exists(a) /\ i \in Items /\ assets[a].parts[i] # NoPart

Revisions(asset, i) == {m.seq : m \in {n \in asset.msgs : n.key = i}}
Latest(asset, i) == IF Revisions(asset, i) = {} THEN 0 ELSE Max(Revisions(asset, i))
Live(asset, i) == \E m \in asset.msgs : m.seq = Latest(asset, i) /\ m.key = i /\ m.op = "put"

(* A new message for a key; what is older than the history is dropped.      *)
Written(a, i, op) ==
  LET asset == assets[a]
      all == asset.msgs \cup {[seq |-> asset.last + 1, key |-> i, op |-> op]}
      kept == {m \in all : m.key # i \/ Cardinality({n \in all : n.key = i /\ n.seq > m.seq})
                                         < (IF Kind[a] = "kv" THEN History ELSE 1)}
  IN [assets EXCEPT ![a].msgs = kept, ![a].last = @ + 1]

NewAsset(cfg, p) ==
  LET group == CHOOSE g \in SUBSET Peers : Cardinality(g) = 2 IN
  [cfg |-> cfg, by |-> p, sealed |-> FALSE, msgs |-> {}, last |-> 0,
   parts |-> [i \in Items |-> NoPart],
   leader |-> CHOOSE l \in group : TRUE, peers |-> group, desired |-> group, moving |-> FALSE]

NewPart(cfg, a, p) ==
  [cfg |-> cfg, by |-> p, paused |-> FALSE, pinned |-> FALSE, position |-> 0, acked |-> 0,
   leader |-> assets[a].leader, peers |-> assets[a].peers]

(* A group without a leader elects one.                                     *)
Elects(a) ==
  /\ Exists(a) /\ assets[a].leader = "nobody"
  /\ \E l \in assets[a].peers : assets' = [assets EXCEPT ![a].leader = l]
  /\ UNCHANGED selection

ConsumerElects(a, i) ==
  /\ HasPart(a, i) /\ assets[a].parts[i].leader = "nobody"
  /\ \E l \in assets[a].parts[i].peers :
       assets' = [assets EXCEPT ![a].parts[i].leader = l]
  /\ UNCHANGED selection

(* A stream reaches the servers it was moved to.                            *)
FinishesMove(a) ==
  /\ Exists(a) /\ assets[a].moving
  /\ assets' = [assets EXCEPT ![a].moving = FALSE, ![a].peers = assets[a].desired,
                              ![a].leader = IF @ \in assets[a].desired THEN @ ELSE "nobody"]
  /\ UNCHANGED selection

(* Numbers of messages are no larger than the last one given, and a group   *)
(* is led by one of its own.                                                *)
IsAsset(asset) ==
  /\ asset \in AssetRecords
  /\ \A m \in asset.msgs : m.seq <= asset.last
  /\ asset.leader \in asset.peers \cup {"nobody"}

AssetsOK == DOMAIN assets = Assets /\ \A a \in Assets : Exists(a) => IsAsset(assets[a])
=============================================================================
