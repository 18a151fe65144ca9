--------------------------- MODULE LocalCommands ---------------------------
(***************************************************************************)
(* `nats context` (cli/context_command.go) and `nats auth`                  *)
(* (cli/auth_*.go with internal/auth/auth.go): commands on local files that *)
(* other runs of the program change as well.  Nothing locks them: a command *)
(* loads what it works on, changes its copy and writes the copy back.       *)
(***************************************************************************)
EXTENDS BucketCommands

CONSTANT SelectedAtStart   \* the context that is selected at first, or "none"

NoContext == "none"

(* Handlers of contexts; --select makes what was saved the selected one.    *)
ContextSave(activate) ==
  IF activate THEN <<"read_context", "save_context", "list_contexts", "select_context", "show">>
  ELSE <<"read_context", "save_context", "show">>
ContextCopy(activate) ==
  IF activate
  THEN <<"find_source", "read_context", "save_context", "list_contexts", "select_context", "show">>
  ELSE <<"find_source", "read_context", "save_context", "show">>
ContextEdit == <<"find_context", "edit_context", "save_context", "show">>
ContextRm(force) ==
  <<IF force THEN "unselect_if_selected" ELSE "refuse_if_selected", "confirm", "delete_context">>
ContextSelect == <<"list_contexts", "select_context", "show">>
ContextPrevious == <<"read_previous", "select_context", "show">>
ContextUnselect == <<"read_selected", "unselect">>

ContextHandlers(force, activate) ==
  [context_save |-> ContextSave(activate), context_copy |-> ContextCopy(activate),
   context_edit |-> ContextEdit, context_rm |-> ContextRm(force),
   context_select |-> ContextSelect, context_previous |-> ContextPrevious,
   context_unselect |-> ContextUnselect]

(* Handlers of operators.                                                   *)
OperatorAdd == <<"load_unknown", "commit_new">>
OperatorEdit == <<"select_operator", "edit_all", "commit">>
OperatorSkAdd == <<"select_operator", "add_part", "commit">>
OperatorSkRm == <<"select_operator", "confirm", "remove_part", "commit_removal">>
OperatorImport == <<"load_unknown", "commit_new">>
OperatorRestore == <<"load_unknown", "commit_new">>
OperatorSelect == <<"pick_operator", "save_selected_operator">>

OperatorHandlers ==
  [operator_add |-> OperatorAdd, operator_edit |-> OperatorEdit,
   operator_sk_add |-> OperatorSkAdd, operator_sk_rm |-> OperatorSkRm,
   operator_import |-> OperatorImport, operator_restore |-> OperatorRestore,
   operator_select |-> OperatorSelect]

(* Handlers of accounts, of what they share with others, and of their keys  *)
(* and mappings.                                                            *)
AccountAdd == <<"select_its_operator", "load_unknown", "commit_new">>
AccountEdit == <<"select_account", "edit_all", "commit">>
AccountPush == <<"select_account", "expect_servers", "push_account">>

AccountHandlers ==
  [account_add |-> AccountAdd, account_edit |-> AccountEdit, account_push |-> AccountPush]

ExportAdd == <<"select_account", "add_part", "commit">>
ExportEdit == <<"select_account", "find_part", "edit_part", "commit">>
ExportRm == <<"select_account", "find_part", "confirm", "remove_part", "commit_removal">>
ExportKv == <<"select_account", "add_parts", "commit">>
ImportAdd == <<"select_account", "add_part", "commit">>
ImportEdit == <<"select_account", "find_part", "edit_part", "commit">>
ImportRm == <<"select_account", "find_part", "confirm", "remove_part", "commit_removal">>
ImportKv == <<"select_account", "add_parts", "commit">>

SharingHandlers ==
  [export_add |-> ExportAdd, export_edit |-> ExportEdit, export_rm |-> ExportRm,
   export_kv |-> ExportKv, import_add |-> ImportAdd, import_edit |-> ImportEdit,
   import_rm |-> ImportRm, import_kv |-> ImportKv]

AccountSkAdd == <<"select_account", "add_part", "commit">>
AccountSkRm == <<"select_account", "pick_key", "confirm", "remove_part", "commit_removal">>
MappingAdd == <<"select_account", "set_mapping", "commit">>
MappingRm == <<"select_account", "pick_mapping", "remove_part", "commit_removal">>

KeyHandlers ==
  [account_sk_add |-> AccountSkAdd, account_sk_rm |-> AccountSkRm,
   mapping_add |-> MappingAdd, mapping_rm |-> MappingRm]

(* Handlers of users.                                                       *)
UserAdd == <<"select_account", "add_part", "commit">>
UserEdit == <<"select_account", "pick_user", "find_part", "edit_user", "commit">>
UserRm ==
  <<"select_account", "pick_user", "confirm", "find_part", "remove_part", "commit_removal">>

UserHandlers == [user_add |-> UserAdd, user_edit |-> UserEdit, user_rm |-> UserRm]

Defaults == [f \in Fields |-> "default"]
Contexts == {a \in Assets : Kind[a] = "context"}

(* Contexts.  What is not there is read as the defaults; a copy reads its   *)
(* source only if the context still does not exist.                         *)
ReadContext(p) ==
  LET source == IF Exists(Name(p)) THEN Name(p) ELSE cmd[p].job.to
      cfg == IF Exists(source) THEN assets[source].cfg ELSE Defaults
  IN /\ At(p, "read_context")
     /\ Proceeds(p, [cmd[p] EXCEPT !.new = Edited(p, cfg)])
     /\ Keeps

FindSource(p) ==
  /\ At(p, "find_source")
  /\ IF Exists(cmd[p].job.to) /\ ~Exists(Name(p)) THEN Proceeds(p, cmd[p]) ELSE Ends(p, "error")
  /\ Keeps

FindContext(p) ==
  /\ At(p, "find_context") /\ Exists(Name(p))
  /\ Proceeds(p, [cmd[p] EXCEPT !.seen = assets[Name(p)]])
  /\ Keeps

(* What the user edits is a rendering of the context which leaves out the   *)
(* OIDC settings; "rest" stands for them here.                              *)
ContextEdited(p, cfg) == [Edited(p, cfg) EXCEPT !["rest"] = Asked(p, "rest", "default")]
EditContext(p) ==
  /\ At(p, "edit_context")
  /\ Proceeds(p, [cmd[p] EXCEPT !.new = ContextEdited(p, cmd[p].seen.cfg)])
  /\ Keeps

SaveContext(p) ==
  Request(p, "save_context", TRUE,
          [assets EXCEPT ![Name(p)] = IF @ = NoAsset THEN NewAsset(cmd[p].new, p)
                                      ELSE [@ EXCEPT !.cfg = cmd[p].new]])

DeleteContext(p) ==
  Request(p, "delete_context", Exists(Name(p)), [assets EXCEPT ![Name(p)] = NoAsset])

Selects(p, c) ==
  /\ selection' = [selection EXCEPT !.now = c, !.before = selection.now]
  /\ Proceeds(p, [cmd[p] EXCEPT !.did = @ \cup {Deed(p, "select_context")}])
  /\ UNCHANGED assets

RefuseIfSelected(p) ==
  /\ At(p, "refuse_if_selected")
  /\ IF selection.now = Name(p) THEN Ends(p, "error") ELSE Proceeds(p, cmd[p])
  /\ Keeps

UnselectIfSelected(p) ==
  /\ At(p, "unselect_if_selected")
  /\ IF selection.now = Name(p) THEN Selects(p, NoContext) ELSE Proceeds(p, cmd[p]) /\ Keeps

ListContexts(p) ==
  /\ At(p, "list_contexts")
  /\ LET known == {c \in Contexts : Exists(c)} IN
       \/ known = {} /\ Ends(p, "error")
       \/ known # {} /\ Name(p) \in Assets /\ Proceeds(p, cmd[p])
       \/ /\ Name(p) \notin Assets /\ Terminal(p)
          /\ \E c \in known : Proceeds(p, [cmd[p] EXCEPT !.asset = c])
  /\ Keeps

SelectContext(p) ==
  /\ At(p, "select_context") /\ Exists(Name(p)) /\ Selects(p, Name(p))

(* Without a previous context there is nothing to switch to.                *)
ReadPrevious(p) ==
  /\ At(p, "read_previous")
  /\ IF selection.before = NoContext THEN Ends(p, "nothing")
     ELSE Proceeds(p, [cmd[p] EXCEPT !.asset = selection.before])
  /\ Keeps

ReadSelected(p) ==
  /\ At(p, "read_selected")
  /\ IF selection.now = NoContext THEN Ends(p, "nothing") ELSE Proceeds(p, cmd[p])
  /\ Keeps

Unselect(p) == At(p, "unselect") /\ Selects(p, NoContext)

(* Operators and accounts.  An unknown name is not an error: the only       *)
(* operator there is is used for it, without a word, and so is, with a      *)
(* terminal, the only account; among several the user picks.                *)
Known(kind) == {a \in Assets : Kind[a] = kind /\ Exists(a)}
Loads(p, a) == Proceeds(p, [cmd[p] EXCEPT !.asset = a, !.seen = assets[a]])

LoadsOperator(p, name) ==
  /\ IF name \in Known("operator") THEN Loads(p, name)
     ELSE \E o \in Known("operator") :
            (Known("operator") = {o} \/ Terminal(p)) /\ Loads(p, o)
  /\ Keeps

(* Without a name it is the selected one, but for who selects.              *)
SelectOperator(p) ==
  /\ At(p, "select_operator")
  /\ LoadsOperator(p, IF Name(p) \in Assets THEN Name(p) ELSE selection.operator)

PickOperator(p) == At(p, "pick_operator") /\ LoadsOperator(p, Name(p))

SaveSelectedOperator(p) ==
  /\ At(p, "save_selected_operator")
  /\ \/ selection' = [selection EXCEPT !.operator = Name(p)] /\ Proceeds(p, cmd[p])
     \/ UNCHANGED selection /\ Ends(p, "error")
  /\ UNCHANGED assets

SelectAccount(p) ==
  /\ At(p, "select_account")
  /\ Known("operator") # {}
  /\ IF Name(p) \in Known("account") THEN Loads(p, Name(p))
     ELSE Terminal(p) /\ \E a \in Known("account") : Loads(p, a)
  /\ Keeps

SelectItsOperator(p) ==
  /\ At(p, "select_its_operator") /\ Known("operator") # {}
  /\ Proceeds(p, cmd[p])
  /\ Keeps

LoadUnknown(p) ==
  /\ At(p, "load_unknown")
  /\ IF Exists(Name(p)) THEN Ends(p, "error")
     ELSE Proceeds(p, [cmd[p] EXCEPT !.new = Edited(p, Defaults)])
  /\ Keeps

(* Changes are made to the copy that was loaded.                            *)
Copy(p) == cmd[p].seen
Changes(p, copy) == Proceeds(p, [cmd[p] EXCEPT !.seen = copy]) /\ Keeps
InCopy(p) == Item(p) \in Items /\ Copy(p).parts[Item(p)] # NoPart
WithPart(p, part) == [Copy(p) EXCEPT !.parts[Item(p)] = part]
CopyOfPart(p) == Copy(p).parts[Item(p)]

FindPart(p) ==
  /\ At(p, "find_part")
  /\ IF InCopy(p) THEN Proceeds(p, cmd[p]) ELSE Ends(p, "error")
  /\ Keeps

(* A key that is not known is picked instead, a user or mapping only if     *)
(* none was given.                                                          *)
PicksPart(p, step, known) ==
  /\ At(p, step)
  /\ \/ known /\ Proceeds(p, cmd[p])
     \/ /\ ~known /\ Terminal(p)
        /\ \E i \in Items :
             /\ Copy(p).parts[i] # NoPart
             /\ Proceeds(p, [cmd[p] EXCEPT !.item = i, !.picked = @ \cup {i}])
     \/ ~known /\ ~Terminal(p) /\ Ends(p, "error")
  /\ Keeps

PickKey(p) == PicksPart(p, "pick_key", InCopy(p))
PickUser(p) == PicksPart(p, "pick_user", Item(p) \in Items)
PickMapping(p) ==
  /\ At(p, "pick_mapping")
  /\ IF \E i \in Items : Copy(p).parts[i] # NoPart
     THEN PicksPart(p, "pick_mapping", Item(p) \in Items)
     ELSE Ends(p, "nothing") /\ Keeps

EditAll(p) ==
  At(p, "edit_all") /\ Changes(p, [Copy(p) EXCEPT !.cfg = Edited(p, Copy(p).cfg)])
AddPart(p) ==
  /\ At(p, "add_part")
  /\ IF InCopy(p) THEN Ends(p, "error") /\ Keeps
     ELSE Changes(p, WithPart(p, NewPart(Edited(p, Defaults), Name(p), p)))
EditPart(p) ==
  At(p, "edit_part") /\ Changes(p, WithPart(p, [CopyOfPart(p) EXCEPT !.cfg = Edited(p, @)]))

(* A bucket is shared as a number of subjects: all or none, as only a copy  *)
(* has some of them when one is there already.                              *)
AddParts(p) ==
  /\ At(p, "add_parts")
  /\ IF \E i \in Items : Copy(p).parts[i] # NoPart THEN Ends(p, "error") /\ Keeps
     ELSE Changes(p, [Copy(p) EXCEPT
                        !.parts = [i \in Items |-> NewPart(Edited(p, Defaults), Name(p), p)]])

(* A second target for a source is added to the first, the same one refused.*)
SetMapping(p) ==
  /\ At(p, "set_mapping")
  /\ \/ ~InCopy(p) /\ Changes(p, WithPart(p, NewPart(Edited(p, Defaults), Name(p), p)))
     \/ InCopy(p) /\ Changes(p, WithPart(p, [CopyOfPart(p) EXCEPT !.cfg = Edited(p, @)]))
     \/ InCopy(p) /\ Ends(p, "error") /\ Keeps

(* updateUser sets limits to what the flags say even when none was given.   *)
UserEdited(p, cfg) == [Edited(p, cfg) EXCEPT !["limits"] = Asked(p, "limits", "default")]
EditUser(p) ==
  At(p, "edit_user") /\ Changes(p, WithPart(p, [CopyOfPart(p) EXCEPT !.cfg = UserEdited(p, @)]))

RemovePart(p) ==
  /\ At(p, "remove_part")
  /\ IF InCopy(p) THEN Changes(p, WithPart(p, NoPart)) ELSE Ends(p, "error") /\ Keeps

(* Commit writes the whole copy, over what others wrote since.              *)
CommitNew(p) == Request(p, "commit_new", TRUE, Made(p, Name(p)))
Commit(p) ==
  \/ Request(p, "commit", TRUE, [assets EXCEPT ![Name(p)] = Copy(p)])
  \/ Request(p, "commit_removal", TRUE, [assets EXCEPT ![Name(p)] = Copy(p)])

(* An account is pushed to all servers: those that took it are its desired  *)
(* ones here.  How many there are is asked first, and may be unknown; the   *)
(* answers of some may be refusals or not arrive in time.                   *)
ExpectServers(p) ==
  /\ At(p, "expect_servers")
  /\ \E expect \in {0, Cardinality(Peers)} : Proceeds(p, [cmd[p] EXCEPT !.base = expect])
  /\ Keeps

PushSucceeded(expect, updated, failed) ==
  /\ failed = 0 /\ updated # 0
  /\ expect > 0 => updated + failed = expect

PushAccount(p) ==
  /\ At(p, "push_account")
  /\ \E took \in SUBSET Peers : \E updated \in SUBSET took : \E failed \in SUBSET (Peers \ took) :
       /\ assets' = [assets EXCEPT ![Name(p)].desired = took]
       /\ IF PushSucceeded(cmd[p].base, Cardinality(updated), Cardinality(failed))
          THEN Proceeds(p, [cmd[p] EXCEPT !.did = @ \cup {Deed(p, "push_account")}])
          ELSE Ends(p, "error")
  /\ UNCHANGED selection
=============================================================================
