--------------------------- MODULE BucketCommands ---------------------------
(***************************************************************************)
(* `nats kv` and `nats object` (cli/kv_command.go, cli/object_command.go):  *)
(* the commands that change a bucket.  Both are streams below, which other  *)
(* commands may change, remove or make again between two steps.             *)
(*                                                                         *)
(* An operator whose comment says "Mutant" is no part of the model: it is   *)
(* the operator it names with a plausible bug, which a property refutes.   *)
(***************************************************************************)
EXTENDS ConsumerCommands

(* Key-value handlers.                                                      *)
KVAdd == <<"configure_bucket", "create_stream", "show">>
KVEdit == <<"open_bucket", "look", "edit_bucket", "update_stream", "show">>
KVPut == <<"open_bucket", "put_key">>
KVCreate == <<"open_bucket", "create_key">>
KVUpdate == <<"open_bucket", "update_key">>
KVDelete(key) ==
  IF key \in Items THEN <<"open_bucket", "confirm", "delete_key">>
  ELSE <<"confirm", "delete_stream">>
KVPurge == <<"open_bucket", "confirm", "purge_key">>
KVCompact == <<"open_bucket", "confirm", "compact">>

(* Mutant of KVRevert: the history is read after the user has agreed. *)
KVRevertLate == <<"open_bucket", "read_revision", "confirm", "read_history", "revert_key">>

(* The latest revision is read before the question, and the update gives it *)
(* to the server to compare with.                                           *)
KVRevert ==
  <<"open_bucket", "read_history", "read_revision", "confirm", "revert_key", "open_bucket",
    "show">>

KVHandlers(item) ==
  [kv_add |-> KVAdd, kv_edit |-> KVEdit, kv_put |-> KVPut, kv_create |-> KVCreate,
   kv_update |-> KVUpdate, kv_del |-> KVDelete(item), kv_purge |-> KVPurge,
   kv_compact |-> KVCompact, kv_revert |-> KVRevert]

(* Object store handlers.                                                   *)
ObjectAdd == <<"configure_bucket", "create_stream", "show">>
ObjectEdit == <<"open_bucket", "look", "edit_bucket", "update_stream", "show">>
ObjectPut == <<"open_bucket", "look_for_object", "confirm_replacement", "put_object">>
ObjectDel(file, force) ==
  IF file \in Items
  THEN IF force THEN <<"open_bucket", "delete_key", "show">>
       ELSE <<"open_bucket", "find_object", "confirm", "delete_key", "show">>
  ELSE <<"open_bucket", "confirm", "delete_stream">>
ObjectSeal == <<"confirm", "open_bucket", "seal_bucket", "show">>

ObjectHandlers(item, force) ==
  [object_add |-> ObjectAdd, object_edit |-> ObjectEdit, object_put |-> ObjectPut,
   object_del |-> ObjectDel(item, force), object_seal |-> ObjectSeal]

ConfigureBucket(p) ==
  /\ At(p, "configure_bucket")
  /\ Proceeds(p, [cmd[p] EXCEPT !.new = [f \in Fields |-> Asked(p, f, "default")]])
  /\ Keeps

OpenBucket(p) ==
  /\ At(p, "open_bucket") /\ Exists(Name(p))
  /\ Proceeds(p, cmd[p])
  /\ Keeps

EditBucket(p) ==
  /\ At(p, "edit_bucket")
  /\ Proceeds(p, [cmd[p] EXCEPT !.new = Edited(p, cmd[p].seen.cfg)])
  /\ Keeps

(* History and GetRevision: a key with one revision cannot be reverted, and *)
(* the revision may be gone, or have been a deletion.                       *)
ReadHistory(p) ==
  /\ At(p, "read_history") /\ Exists(Name(p))
  /\ IF Cardinality(Revisions(assets[Name(p)], Item(p))) <= 1 THEN Ends(p, "error")
     ELSE Proceeds(p, [cmd[p] EXCEPT !.base = Latest(assets[Name(p)], Item(p))])
  /\ Keeps

ReadRevision(p) ==
  /\ At(p, "read_revision") /\ Exists(Name(p))
  /\ \E m \in assets[Name(p)].msgs :
       m.key = Item(p) /\ m.seq = cmd[p].job.rev /\ m.op = "put"
  /\ Proceeds(p, cmd[p])
  /\ Keeps

(* The put of an object asks when it saw one of that name, and a look that  *)
(* fails counts as there being none; its deletion fails then.               *)
LookForObject(p) ==
  /\ At(p, "look_for_object")
  /\ \E seen \in {assets[Name(p)], NoAsset} : Proceeds(p, [cmd[p] EXCEPT !.seen = seen])
  /\ Keeps

FindObject(p) ==
  /\ At(p, "find_object") /\ Exists(Name(p))
  /\ Revisions(assets[Name(p)], Item(p)) # {}
  /\ Proceeds(p, cmd[p])
  /\ Keeps

SawObject(p) == cmd[p].seen # NoAsset /\ Live(cmd[p].seen, Item(p))

ConfirmReplacement(p) ==
  /\ At(p, "confirm_replacement")
  /\ \/ (~SawObject(p) \/ HasForce(p)) /\ Proceeds(p, cmd[p])
     \/ /\ SawObject(p) /\ ~HasForce(p)
        /\ \/ ~Terminal(p) /\ Ends(p, "error")
           \/ Terminal(p) /\ (Agrees(p) \/ Ends(p, "declined"))
  /\ Keeps

(* The requests.                                                            *)
Writes(p, step, when, op) ==
  Request(p, step, Exists(Name(p)) /\ ~assets[Name(p)].sealed /\ when,
          Written(Name(p), Item(p), op))
LatestIs(p, rev) == Latest(assets[Name(p)], Item(p)) = rev

PutKey(p) == Writes(p, "put_key", TRUE, "put")
CreateKey(p) == Writes(p, "create_key", ~Live(assets[Name(p)], Item(p)), "put")
UpdateKey(p) == Writes(p, "update_key", LatestIs(p, cmd[p].job.rev), "put")
RevertKey(p) == Writes(p, "revert_key", LatestIs(p, cmd[p].base), "put")
DeleteKey(p) == Writes(p, "delete_key", TRUE, "delete")
PutObject(p) == Writes(p, "put_object", TRUE, "put")

(* A purge leaves the marker alone; compacting removes the markers too.     *)
PurgeKey(p) ==
  LET a == Name(p) IN
    Request(p, "purge_key", Exists(a) /\ ~assets[a].sealed,
            [assets EXCEPT ![a].msgs =
               {m \in @ : m.key # Item(p)}
                 \cup {[seq |-> assets[a].last + 1, key |-> Item(p), op |-> "delete"]},
               ![a].last = @ + 1])

Compact(p) ==
  LET a == Name(p) IN
    Request(p, "compact", Exists(a) /\ ~assets[a].sealed,
            [assets EXCEPT ![a].msgs = {m \in @ : Live(assets[a], m.key)}])

SealBucket(p) ==
  Request(p, "seal_bucket", Exists(Name(p)), [assets EXCEPT ![Name(p)].sealed = TRUE])
=============================================================================
