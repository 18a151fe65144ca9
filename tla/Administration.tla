--------------------------- MODULE Administration ---------------------------
(***************************************************************************)
(* Several runs of the administrative commands at once, on one server and   *)
(* one set of local files: each process runs one command line, whose        *)
(* handler's steps interleave with those of the others, with elections and  *)
(* moves on the server, and with failures of any request.                   *)
(***************************************************************************)
EXTENDS FileCommands

CONSTANTS
  AssetsAtStart,
  CommandLines   \* what the processes may run: functions from Procs to jobs

vars == <<assets, cmd, selection>>

(* The handler of a command line is in one of these tables.                 *)
Handlers(job) ==
  {StreamHandlers(job.force), StreamClusterHandlers(job.force), ClusterHandlers,
   ConsumerHandlers(job.force, job.rev), ConsumerClusterHandlers, KVHandlers(job.item),
   ObjectHandlers(job.item, job.force), ContextHandlers(job.force, job.activate),
   OperatorHandlers, AccountHandlers, SharingHandlers, KeyHandlers, UserHandlers,
   FileHandlers(job.force)}
Plan(job) ==
  LET table == CHOOSE handlers \in Handlers(job) : job.op \in DOMAIN handlers IN table[job.op]

(* Command lines: no name, or "none", where one may be left out.  With      *)
(* "file", the configuration is that of a file (--config), which sets the   *)
(* fields in "set" and may name the consumer "to".                          *)
Jobs ==
  [op : STRING, asset : Assets \cup {"none"}, item : Items \cup {"none"}, force : BOOLEAN,
   terminal : BOOLEAN, set : SUBSET Fields, to : Assets \cup Items \cup {"none"}, rev : Nat,
   peer : Peers \cup {"none"}, activate : BOOLEAN, file : BOOLEAN]

WorksOnKeys ==
  DOMAIN OperatorHandlers \cup DOMAIN AccountHandlers \cup DOMAIN SharingHandlers
    \cup DOMAIN KeyHandlers \cup DOMAIN UserHandlers
    \cup {"user_cred", "operator_backup", "account_query", "server_account_purge"}
WritesKeys ==
  {"kv_put", "kv_create", "kv_update", "kv_purge", "kv_revert", "object_put", "counter_incr"}
NamesFile == {"object_get", "user_cred", "operator_backup", "account_query"}
WritesFiles == NamesFile \cup {"nkey_gen", "nkey_seal", "nkey_unseal"}

(* What a command is given is of the kind it works on; what is written to a *)
(* file is all the command's own.                                           *)
Fits(job) ==
  /\ \E handlers \in Handlers(job) : job.op \in DOMAIN handlers
  /\ job.asset \in Assets =>
       /\ (Kind[job.asset] \in {"operator", "account"}) <=> job.op \in WorksOnKeys
       /\ Kind[job.asset] = "context" <=> job.op \in DOMAIN ContextHandlers(TRUE, TRUE)
  /\ job.op \in WritesKeys => job.item \in Items
  /\ job.op \in WritesFiles => job.set = Fields
  /\ job.op \in NamesFile => job.to \in Assets /\ Kind[job.to] = "file"
  /\ job.file => job.op \in {"stream_edit", "consumer_edit"}

ASSUME AdministrationAssumption ==
  /\ CommandLines \subseteq [Procs -> {job \in Jobs : Fits(job)}]
  /\ DOMAIN AssetsAtStart = Assets
  /\ \A a \in Assets : AssetsAtStart[a] # NoAsset =>
       /\ IsAsset(AssetsAtStart[a])
       /\ \A f \in Fields :
            /\ AssetsAtStart[a].cfg[f] = "old"
            /\ \A i \in Items : AssetsAtStart[a].parts[i] # NoPart =>
                 AssetsAtStart[a].parts[i].cfg[f] = "old"
  /\ SelectedAtStart \in Contexts \cup {NoContext}

Init ==
  /\ assets = AssetsAtStart
  /\ selection = [now |-> SelectedAtStart, before |-> NoContext, operator |-> "none"]
  /\ \E jobs \in CommandLines : cmd = [p \in Procs |-> Begun(jobs[p], Plan(jobs[p]))]

(* The reads that may fail.                                                 *)
Reads ==
  {"select_stream", "load_stream", "select_consumer", "load_consumer", "look", "show",
   "show_consumer", "edit_consumer", "find_leader", "find_meta_leader", "find_pinned",
   "open_bucket", "read_history", "read_revision", "find_object", "find_context",
   "read_context", "list_contexts", "read_selected", "read_previous", "refuse_if_selected",
   "select_context", "select_operator", "select_account", "select_its_operator",
   "load_unknown", "pick_key", "pick_user", "pick_mapping", "edit_all", "configure_bucket",
   "look_for_leaders", "find_streams", "pick_operator", "read_keys", "detect_clusters"}

ReadsSomething(p) ==
  \/ SelectStream(p) \/ LoadStream(p) \/ SelectConsumer(p) \/ FindConsumer(p)
  \/ LoadConsumer(p) \/ Look(p) \/ Show(p) \/ ShowConsumer(p)
  \/ Diff(p) \/ FindMetaLeader(p) \/ FindLeader(p) \/ FindMove(p) \/ FindReplica(p)
  \/ LookForLeaders(p) \/ DetectClusters(p) \/ FindStreams(p)
  \/ FindPause(p) \/ FindPinned(p) \/ FindConsumerLeader(p) \/ OpenBucket(p)
  \/ ReadHistory(p) \/ ReadRevision(p) \/ LookForObject(p) \/ FindObject(p)
  \/ \E step \in Reads : ReadFails(p, step)

Asks(p) ==
  \/ Confirm(p) \/ ConfirmReplacement(p) \/ WarnOfBucket(p) \/ PickPeer(p)
  \/ Configure(p) \/ ConfigureConsumer(p) \/ ConfigureBucket(p) \/ AskQuorum(p)
  \/ EditStream(p) \/ EditConsumer(p) \/ EditCopy(p) \/ EditBucket(p)

Requests(p) ==
  \/ CreateStream(p) \/ CopyStream(p) \/ UpdateStream(p) \/ PurgeStream(p) \/ DeleteStream(p)
  \/ RemoveMessage(p) \/ SealStream(p)
  \/ StepDown(p) \/ CancelMove(p) \/ Evacuate(p) \/ RemovePeer(p)
  \/ Rescue(p) \/ BalanceConnections(p) \/ BalanceStreams(p) \/ BalanceConsumers(p)
  \/ CreateConsumer(p) \/ CopyConsumer(p) \/ EditsConsumer(p) \/ DeleteConsumer(p)
  \/ ResetConsumer(p) \/ PauseConsumer(p) \/ ResumeConsumer(p) \/ Unpin(p)
  \/ StepDownConsumer(p) \/ EvacuateConsumer(p) \/ PullMessage(p) \/ Acknowledge(p)
  \/ PutKey(p) \/ CreateKey(p) \/ UpdateKey(p) \/ RevertKey(p) \/ DeleteKey(p)
  \/ PurgeKey(p) \/ Compact(p) \/ PutObject(p) \/ SealBucket(p)
  \/ AddToCounter(p) \/ PurgeAccount(p) \/ ReloadServer(p) \/ KickClient(p)

Awaits(p) ==
  \/ AwaitLeader(p) \/ AwaitMetaLeader(p) \/ AwaitEvacuation(p) \/ AwaitEndOfMove(p)
  \/ AwaitConsumerLeader(p) \/ AwaitConsumerEvacuation(p)

WorksOnContexts(p) ==
  \/ ReadContext(p) \/ FindSource(p) \/ FindContext(p) \/ EditContext(p) \/ SaveContext(p)
  \/ DeleteContext(p) \/ RefuseIfSelected(p) \/ UnselectIfSelected(p) \/ ListContexts(p)
  \/ SelectContext(p) \/ ReadPrevious(p) \/ ReadSelected(p) \/ Unselect(p)

WorksOnAccounts(p) ==
  \/ SelectOperator(p) \/ PickOperator(p) \/ SaveSelectedOperator(p)
  \/ SelectAccount(p) \/ SelectItsOperator(p) \/ LoadUnknown(p)
  \/ FindPart(p) \/ PickKey(p) \/ PickUser(p) \/ PickMapping(p)
  \/ EditAll(p) \/ AddPart(p) \/ AddParts(p) \/ EditPart(p) \/ SetMapping(p)
  \/ EditUser(p) \/ RemovePart(p)
  \/ CommitNew(p) \/ Commit(p) \/ ExpectServers(p) \/ PushAccount(p)

WorksOnFiles(p) ==
  \/ NameFile(p) \/ ReadKeys(p) \/ RefuseFile(p) \/ LookForFile(p) \/ ConfirmFile(p)
  \/ CreateFile(p) \/ FillFile(p) \/ WriteFile(p) \/ EditErrors(p) \/ UpdateFile(p)

Step(p) ==
  \/ ReadsSomething(p) \/ Asks(p) \/ Requests(p) \/ Awaits(p)
  \/ WorksOnContexts(p) \/ WorksOnAccounts(p) \/ WorksOnFiles(p)

Server ==
  /\ \E a \in Assets : Elects(a) \/ FinishesMove(a) \/ \E i \in Items : ConsumerElects(a, i)
  /\ UNCHANGED cmd

Next ==
  \/ \E p \in Procs : Step(p) \/ Interrupted(p)
  \/ Server

Spec == Init /\ [][Next]_vars

(* A program goes on, its user answers, and the server gets done with what  *)
(* it was asked for; nobody need ever interrupt a command.                  *)
FairSpec == Spec /\ (\A p \in Procs : WF_vars(Step(p))) /\ WF_vars(Server)

(***************************************************************************)
(* Properties.                                                              *)
(***************************************************************************)

(* The type invariant: assets are what a server may have, and what commands *)
(* pass on to it are configurations and revisions.                          *)
TypeOK ==
  /\ AssetsOK
  /\ selection \in [now : Contexts \cup {NoContext}, before : Contexts \cup {NoContext},
                    operator : Assets \cup {"none"}]
  /\ \A p \in Procs :
       /\ cmd[p].new \in Configurations \cup {<<>>}
       /\ cmd[p].base \in Nat
       /\ cmd[p].old \in Peers \cup {"nobody", "unknown"}
       /\ cmd[p].outcome \in {"ok", "error", "declined", "nothing", "dry_run"}

(* What no one can take back, or would be surprised by.                     *)
Destructive ==
  {"delete_stream", "purge_stream", "remove_message", "seal_stream", "seal_bucket",
   "delete_consumer", "reset_consumer", "update_consumer", "pause_consumer", "resume_consumer",
   "unpin_consumer", "delete_key", "purge_key", "compact", "revert_key", "delete_context",
   "commit_removal", "create_file", "purge_account", "reload_server", "evacuate",
   "evacuate_consumer", "cancel_move", "remove_peer", "rescue", "balance"}

(* The edit of a stream asks too, unlike that of a bucket.                  *)
Grave(op) == Destructive \cup (IF op = "stream_edit" THEN {"update_stream"} ELSE {})

(* `stream peer-remove` and `auth account mappings rm` ask nothing.         *)
NeverAsks == {"stream_peer_remove", "mapping_rm"}

(* The commands that call kvAbstractionWarn: `stream rm` and `stream seal`  *)
(* do not.                                                                  *)
WarnsOfBuckets == {"stream_edit", "stream_purge", "stream_rmm"}

Agreed(p, d) ==
  \E t \in cmd[p].agreed :
    /\ t.asset = d.asset /\ (t.item = d.item \/ FileNames(p, d.item))
    /\ d.step = "revert_key" => t.rev = d.rev

(* A forced command affects what its command line names, or the user picked *)
(* from a list, as --force does not keep a key that is not known from being *)
(* asked for; operators and accounts are left out, as one that is not known *)
(* is replaced by the only one there is.                                    *)
Forced(p, d) ==
  /\ HasForce(p)
  /\ Kind[d.asset] \notin {"operator", "account"} => d.asset \in {cmd[p].job.asset, cmd[p].job.to}
  /\ d.item \in {cmd[p].job.item} \cup cmd[p].picked \/ FileNames(p, d.item)

(* The commands that ask, ask before: whatever one but the two of NeverAsks *)
(* removes, seals, resets, moves or reverts, or writes over a stream, the   *)
(* user was asked about that very thing and said yes before, or forced the  *)
(* command on the thing by its name.  The edit of a consumer from a file is *)
(* the exception: it asks about the consumer of the command line and        *)
(* changes the one that the file names.  What an edit, a purge and a        *)
(* removal of messages change of a key-value bucket's stream, they change   *)
(* after the warning that it is one, which no flag skips; no warning comes  *)
(* before the removal or the sealing of such a stream.  What a revert       *)
(* replaces is the very revision that was the last one before the question: *)
(* a write in between makes it fail.  A file is written without a question  *)
(* if there was none when the command looked.                               *)
ConsentComesFirst ==
  \A p \in Procs : \A d \in cmd[p].did : d.step \in Grave(cmd[p].job.op) =>
    /\ \/ cmd[p].job.op \in NeverAsks \/ Agreed(p, d) \/ Forced(p, d)
       \/ d.step = "create_file" /\ cmd[p].seen = NoAsset
    /\ Kind[d.asset] = "kv" /\ cmd[p].job.op \in WarnsOfBuckets => cmd[p].warned

(* The fields that a command resets without being asked to: NoAck of a      *)
(* stream, OIDC settings of a context, limits of a user; everything of a    *)
(* consumer that is added once more, or the group of one that is copied;    *)
(* and whatever is left out of a file that a stream or consumer is edited   *)
(* from.                                                                    *)
Resets(job, f) ==
  \/ job.op \in {"stream_edit", "context_edit"} /\ f = "rest"
  \/ job.op = "user_edit" /\ f = "limits"
  \/ job.op = "consumer_add"
  \/ job.op = "consumer_cp" /\ f = "rest"
  \/ job.op \in {"stream_edit", "consumer_edit"} /\ job.file

Explained(c, f) ==
  \/ c.cfg[f] = "old"
  \/ c.cfg[f] \in Procs /\ f \in cmd[c.cfg[f]].job.set
  \/ c.cfg[f] = "default" /\ (c.by # "start" \/ \E p \in Procs : Resets(cmd[p].job, f))

(* A command changes what it was asked to change: whatever else it writes   *)
(* back, of what it read before, a field of what was there at first has the *)
(* value it had, or one that a command line set, or a default if some       *)
(* command of those above was run.  That a value which one command set is   *)
(* lost when another writes back what it had read before, is not excluded:  *)
(* the value it had at first is one it may have.                            *)
WritesOnlyWhatWasAsked ==
  \A a \in Assets : \A f \in Fields : Exists(a) =>
    /\ Explained(assets[a], f)
    /\ \A i \in Items : HasPart(a, i) => Explained(assets[a].parts[i], f)

(* The two waits that may have no end: that for a consumer's new leader     *)
(* looks once only, and that for the end of a move looks for ever, also     *)
(* when the stream is gone.                                                 *)
Stuck(p) == Hangs(p) \/ (At(p, "await_end_of_move") /\ ~Exists(Name(p)))

(* What a command is there for; whether a stream was sealed, a group        *)
(* rescued or a message acknowledged is not looked at.                      *)
Purposes ==
  (Destructive \ {"seal_stream", "create_file", "rescue"}) \cup
  {"create_stream", "copy_stream", "update_stream", "step_down", "create_consumer",
   "copy_consumer", "step_down_consumer", "pull_message", "put_key", "create_key",
   "update_key", "put_object", "save_context", "select_context", "commit", "commit_new",
   "push_account", "fill_file", "write_file", "update_file", "add_to_counter", "kick_client"}
Promised(p) == LET plan == Plan(cmd[p].job) IN {plan[k] : k \in DOMAIN plan} \cap Purposes
HasDone(p) == \A step \in Promised(p) : \E d \in cmd[p].did : d.step = step

(* Every command ends, however the others, elections and moves interfere    *)
(* and whatever request fails, but for the two waits above; and one that    *)
(* ends well has had everything done that it is there for.                  *)
CommandsEnd ==
  \A p \in Procs : <>[](Stuck(p) \/ (Over(p) /\ (Succeeded(p) => HasDone(p))))
=============================================================================
