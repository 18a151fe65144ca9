---------------------------- MODULE FileCommands ----------------------------
(***************************************************************************)
(* Commands that write a local file, and those of `nats server` and         *)
(* `nats counter` that no other module holds.  Some ask before they replace *)
(* a file, some refuse to, most write it without a look.  A file is an      *)
(* asset; a command that works on something else first gives its name as    *)
(* the destination.                                                         *)
(***************************************************************************)
EXTENDS LocalCommands

(* Handlers that write files.                                               *)
ObjectGet(force) ==
  IF force
  THEN <<"open_bucket", "find_object", "name_file", "create_file", "fill_file">>
  ELSE <<"open_bucket", "find_object", "name_file", "look_for_file", "confirm_file",
         "create_file", "fill_file">>
UserCred(force) ==
  IF force
  THEN <<"select_account", "pick_user", "find_part", "name_file", "write_file">>
  ELSE <<"refuse_file", "select_account", "pick_user", "find_part", "refuse_file",
         "name_file", "write_file">>
OperatorBackup == <<"select_operator", "name_file", "write_file">>
NKeyGen == <<"write_file">>
NKeySeal == <<"read_keys", "write_file">>
NKeyUnseal == <<"read_keys", "write_file">>

AccountQuery == <<"select_account", "name_file", "write_file">>
ErrorsEdit == <<"look", "edit_errors", "update_file">>

(* Other handlers.                                                          *)
CounterIncr == <<"open_bucket", "add_to_counter">>
ServerAccountPurge == <<"confirm", "purge_account">>
ServerConfigReload(force) ==
  IF force THEN <<"reload_server", "look">>
  ELSE <<"look", "confirm", "reload_server", "look">>
ServerKick == <<"kick_client">>

FileHandlers(force) ==
  [object_get |-> ObjectGet(force), user_cred |-> UserCred(force),
   operator_backup |-> OperatorBackup, account_query |-> AccountQuery,
   errors_edit |-> ErrorsEdit, nkey_gen |-> NKeyGen, nkey_seal |-> NKeySeal,
   nkey_unseal |-> NKeyUnseal, counter_incr |-> CounterIncr,
   server_account_purge |-> ServerAccountPurge,
   server_config_reload |-> ServerConfigReload(force), server_kick |-> ServerKick]

NameFile(p) ==
  /\ At(p, "name_file") /\ Proceeds(p, [cmd[p] EXCEPT !.asset = cmd[p].job.to])
  /\ Keeps

ReadKeys(p) == At(p, "read_keys") /\ Proceeds(p, cmd[p]) /\ Keeps

RefuseFile(p) ==
  /\ At(p, "refuse_file")
  /\ IF Exists(cmd[p].job.to) THEN Ends(p, "error") ELSE Proceeds(p, cmd[p])
  /\ Keeps

LookForFile(p) ==
  /\ At(p, "look_for_file")
  /\ Proceeds(p, [cmd[p] EXCEPT !.seen = assets[Name(p)]])
  /\ Keeps

(* A file that there is not may be made without a question; another run may *)
(* make it first, and has it replaced.                                      *)
ConfirmFile(p) ==
  /\ At(p, "confirm_file")
  /\ \/ cmd[p].seen = NoAsset /\ Proceeds(p, cmd[p])
     \/ cmd[p].seen # NoAsset /\ Terminal(p) /\ (Agrees(p) \/ Ends(p, "declined"))
     \/ cmd[p].seen # NoAsset /\ ~Terminal(p) /\ Ends(p, "error")
  /\ Keeps

(* os.Create empties the file there was; a copy that fails removes it, and  *)
(* one that came out short leaves it as it is.                              *)
With(p, cfg) == [assets EXCEPT ![Name(p)] = NewAsset(cfg, p)]
Content(p) == [f \in Fields |-> p]

CreateFile(p) == Request(p, "create_file", TRUE, With(p, Defaults))
FillFile(p) ==
  \/ Request(p, "fill_file", TRUE, With(p, Content(p)))
  \/ /\ At(p, "fill_file") /\ Ends(p, "error")
     /\ assets' = [assets EXCEPT ![Name(p)] = NoAsset] /\ UNCHANGED selection
WriteFile(p) == Request(p, "write_file", TRUE, With(p, Content(p)))

(* An editor is opened on one of the errors in the file until what it has   *)
(* written is valid or the user gives up; all of them are written back.     *)
EditErrors(p) ==
  /\ At(p, "edit_errors")
  /\ \/ Terminal(p) /\ Proceeds(p, [cmd[p] EXCEPT !.new = Edited(p, cmd[p].seen.cfg)])
     \/ Ends(p, "error")
  /\ Keeps
UpdateFile(p) == Request(p, "update_file", TRUE, With(p, cmd[p].new))

(* The requests to servers.                                                 *)
AddToCounter(p) == Writes(p, "add_to_counter", TRUE, "put")
PurgeAccount(p) ==
  Request(p, "purge_account", TRUE,
          [a \in Assets |-> IF Kind[a] \in {"stream", "kv", "object"} THEN NoAsset ELSE assets[a]])
ReloadServer(p) == Request(p, "reload_server", TRUE, assets)
KickClient(p) == Request(p, "kick_client", TRUE, assets)
=============================================================================
