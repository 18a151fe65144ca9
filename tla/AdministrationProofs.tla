------------------------ MODULE AdministrationProofs ------------------------
(***************************************************************************)
(* For any number of processes, assets and command lines: nothing is        *)
(* destroyed that the user was not asked about, and nothing is written that *)
(* no command line set.                                                     *)
(*                                                                         *)
(* The argument has two halves that meet in the order of a handler's steps. *)
(* What may come after what (Follows) is a fact about the plans alone,      *)
(* shown once for each of them: an update only after the read of what it    *)
(* overwrites, a removal only after the question.  What a step relies on    *)
(* when a command gets to it (Relies) is then provided by the steps that    *)
(* may come before, and what a command relies on no step of another one     *)
(* takes away: requests only make changes that are good ones (GoodChange).  *)
(***************************************************************************)
EXTENDS Administration, NumberProofs, SequenceTheorems, FiniteSetTheorems, TLAPS

(***************************************************************************)
(* The order of steps.                                                      *)
(***************************************************************************)

(* The steps that read or ask something, and those that rely on it.         *)
Reading ==
  {"select_consumer", "load_stream", "load_consumer", "look", "find_meta_leader",
   "find_context"}
AfterRead ==
  {"edit_stream", "find_leader", "pick_peer", "find_replica", "edit_consumer",
   "edit_the_copy", "find_consumer_leader", "edit_bucket", "edit_context", "edit_errors"}

(* Operators and accounts: the steps that load one, and those on the copy.  *)
Loading == {"select_operator", "pick_operator", "select_account"}
OnKeys(op) ==
  {"edit_all", "add_part", "add_parts", "edit_part", "set_mapping", "edit_user",
   "remove_part", "commit", "commit_removal", "push_account", "save_selected_operator",
   "find_part", "pick_key", "pick_user", "pick_mapping", "expect_servers"}
  \cup (IF op \in {"operator_sk_rm", "export_rm", "import_rm", "account_sk_rm", "user_rm"}
        THEN {"confirm"} ELSE {})

(* Those that find a consumer, user or key, and those on it.                *)
FindingPart == {"find_part", "select_consumer", "load_consumer"}
OnPart == {"edit_part", "edit_user", "edit_consumer", "edit_the_copy", "find_consumer_leader"}

(* Those after which there is a name.                                       *)
Naming == {"open_bucket", "name_file"}
OnNamed == {"look_for_object", "look_for_file"}

(* Those that make a configuration of one that was read, and those that     *)
(* overwrite what there is with it, of a stream or context and of a consumer.*)
Changing == {"edit_stream", "edit_bucket", "read_context", "edit_context"}
Overwriting(op) ==
  {"update_stream", "save_context"}
  \cup (IF op = "stream_edit" THEN {"diff", "warn", "confirm"} ELSE {})

ChangingPart == {"configure_consumer", "edit_consumer", "edit_the_copy"}
OverwritingPart(op) ==
  {"create_consumer", "update_consumer", "copy_consumer"}
  \cup (IF op = "consumer_edit" THEN {"diff", "confirm"} ELSE {})

(* Those that make one of what flags say, and those that create with it.    *)
Configuring ==
  {"configure", "configure_bucket", "edit_stream", "load_unknown", "edit_errors"}
Creating == {"create_stream", "copy_stream", "commit_new", "update_file"}

(* The questions, and what only comes after them unless they are waived.    *)
Questions == {"confirm", "ask_quorum"}
AfterConsent(op) ==
  (Grave(op) \ {"create_file"}) \cup {"remove_part"}
  \cup (IF op \in {"stream_rm", "stream_purge", "stream_seal"} THEN {"load_stream", "warn"}
        ELSE {})
  \cup (IF op = "object_seal" THEN {"open_bucket"} ELSE {})
  \cup (IF op = "user_rm" THEN {"find_part"} ELSE {})

AfterWarning(op) ==
  IF op = "stream_purge" THEN Destructive \cup {"load_stream"}
  ELSE IF op \in {"stream_rmm", "stream_edit"} THEN Grave(op) \cup {"confirm"} ELSE {}

Waived(job) == job.force \/ job.op \in NeverAsks

(* What may come after what in a handler, and first in it.                  *)
Follows(job, a, b) ==
  /\ b \in AfterRead => a \in Reading
  /\ b \in OnKeys(job.op) => a \in Loading \cup OnKeys(job.op)
  /\ b \in OnPart => a \in FindingPart
  /\ b \in OnNamed => a \in Naming
  /\ b \in Overwriting(job.op) => a \in Changing \cup Overwriting(job.op)
  /\ b \in OverwritingPart(job.op) => a \in ChangingPart \cup OverwritingPart(job.op)
  /\ b \in Creating => a \in Configuring
  /\ b \in AfterConsent(job.op) /\ ~Waived(job) => a \in Questions \cup AfterConsent(job.op)
  /\ b = "create_file" /\ ~Waived(job) => a = "confirm_file"
  /\ b \in AfterWarning(job.op) => a \in {"warn"} \cup AfterWarning(job.op)
  /\ a = "create_file" => b = "fill_file"
  /\ a # "fill_file"

Starts(job, a) ==
  /\ a \notin AfterRead \cup OnKeys(job.op) \cup OnPart \cup OnNamed \cup Overwriting(job.op)
              \cup OverwritingPart(job.op) \cup Creating \cup AfterWarning(job.op)
  /\ a \in AfterConsent(job.op) \cup {"create_file"} => Waived(job)

(* The steps that only some commands have.                                  *)
KeyWrites ==
  {"put_key", "create_key", "update_key", "revert_key", "delete_key", "purge_key",
   "put_object", "add_to_counter"}
PicksContext == {"context_save", "context_copy", "context_select", "context_previous"}
Rewrites == {"stream_edit", "kv_edit", "object_edit", "context_edit"}

Suits(job, a) ==
  /\ a \in KeyWrites => job.item \in Items
  /\ a = "edit_stream" => job.op \in {"stream_edit", "stream_cp"}
  /\ a = "edit_bucket" => job.op \in {"kv_edit", "object_edit"}
  /\ a = "edit_context" => job.op = "context_edit"
  /\ a = "update_stream" => job.op \in {"stream_edit", "kv_edit", "object_edit"}
  /\ a = "save_context" => job.op \in {"context_save", "context_copy", "context_edit"}
  /\ a = "configure_consumer" => job.op = "consumer_add"
  /\ a = "edit_the_copy" => job.op = "consumer_cp"
  /\ a = "edit_consumer" => job.op = "consumer_edit"
  /\ a = "edit_user" => job.op = "user_edit"
  /\ a \in {"list_contexts", "read_previous", "select_context"} => job.op \in PicksContext
  /\ a \in Destructive => job.op \notin PicksContext
  /\ a = "select_stream" => job.op \notin PicksContext
  /\ a = "name_file" => job.op \in NamesFile
  /\ a \in {"create_file", "fill_file", "write_file"} => job.op \in WritesFiles
  /\ a \in Loading => job.op \in WorksOnKeys
  /\ a \in {"delete_stream", "delete_context", "fill_file", "create_consumer",
            "update_consumer", "copy_consumer", "edit_consumer", "edit_the_copy"} =>
       job.op \notin WorksOnKeys

(* A handler in order; what is left of one still is.                        *)
IsSequence(s) == s \in Seq({s[k] : k \in 1..Len(s)})

Orderly(job, s) ==
  /\ IsSequence(s)
  /\ \A k \in 1..Len(s) : Suits(job, s[k])
  /\ \A k \in 1..(Len(s) - 1) : Follows(job, s[k], s[k + 1])
  /\ \A k \in 1..Len(s) : s[k] = "find_consumer" => k + 2 <= Len(s) /\ s[k + 2] = "select_consumer"

Sound(job, s) == Orderly(job, s) /\ (s # <<>> => Starts(job, s[1]))

(***************************************************************************)
(* The inductive invariant.                                                *)
(***************************************************************************)

IsKeys(a) == Kind[a] \in {"operator", "account"}
Plain(jobs, v, f) == v = "old" \/ (v \in Procs /\ f \in jobs[v].set)
ResetBySome(jobs, f) == \E q \in Procs : Resets(jobs[q], f)

(* A configuration that some command line may explain, and one that may be  *)
(* that of an asset that was there at first.                                *)
Meant(jobs, cfg) ==
  cfg \in Configurations /\ \A f \in Fields : Plain(jobs, cfg[f], f) \/ cfg[f] = "default"
Kept(jobs, cfg) ==
  /\ cfg \in Configurations
  /\ \A f \in Fields :
       Plain(jobs, cfg[f], f) \/ (cfg[f] = "default" /\ ResetBySome(jobs, f))

(* The copies of operators and accounts are edited and written back whole,  *)
(* so that what others made of their parts since may be overwritten.        *)
PartFine(jobs, keys, part) ==
  /\ part \in Parts
  /\ Meant(jobs, part.cfg)
  /\ ~keys \/ part.by = "start" => Kept(jobs, part.cfg)

AssetFine(jobs, keys, asset) ==
  /\ IsAsset(asset)
  /\ Meant(jobs, asset.cfg)
  /\ asset.by = "start" => Kept(jobs, asset.cfg)
  /\ \A i \in Items : asset.parts[i] # NoPart => PartFine(jobs, keys, asset.parts[i])

AssetsFine(jobs, as) ==
  /\ DOMAIN as = Assets
  /\ \A a \in Assets : as[a] # NoAsset => AssetFine(jobs, IsKeys(a), as[a])

Original(asset) == asset # NoAsset /\ asset.by = "start"

(* What no request undoes.                                                  *)
GoodChange(jobs, as, bs) ==
  /\ AssetsFine(jobs, bs)
  /\ \A a \in Assets :
       IF IsKeys(a) THEN as[a] # NoAsset => bs[a] # NoAsset
       ELSE ~Original(as[a]) => ~Original(bs[a])

(* A command is a record of these fields, which hold what they should.      *)
IsCommand(c) ==
  c = [job |-> c.job, steps |-> c.steps, outcome |-> c.outcome, asset |-> c.asset,
       item |-> c.item, seen |-> c.seen, was |-> c.was, new |-> c.new, base |-> c.base,
       old |-> c.old, warned |-> c.warned, agreed |-> c.agreed, picked |-> c.picked,
       did |-> c.did]

Typed(c) ==
  /\ c.outcome \in {"ok", "error", "declined", "nothing", "dry_run"}
  /\ c.asset \in Assets \cup {"none"}
  /\ c.item \in Items \cup {"none"}
  /\ c.new \in Configurations \cup {<<>>}
  /\ c.base \in Nat
  /\ c.old \in Peers \cup {"nobody", "unknown"}

(* What a command works on is of its own kind, and the command line's if it *)
(* was forced.                                                              *)
Named(c) ==
  /\ c.job.item \in Items => c.item \in Items
  /\ c.asset \in Assets /\ c.job.op \notin WorksOnKeys => ~IsKeys(c.asset)
  /\ c.asset \in Assets /\ c.job.op \in PicksContext => Kind[c.asset] = "context"
  /\ c.job.force /\ c.job.op \notin PicksContext =>
       /\ c.asset \in {c.job.asset, c.job.to} \/ IsKeys(c.asset)
       /\ c.item \in {c.job.item} \cup c.picked

(* What was read was fine then; who made it last stays known.               *)
SawWell(jobs, c, as) ==
  c.seen # NoAsset =>
    /\ AssetFine(jobs, c.job.op \in WorksOnKeys, c.seen)
    /\ c.job.op \in Rewrites /\ c.asset \in Assets /\ c.seen.by # "start" =>
         ~Original(as[c.asset])

AskingOf(c) == [asset |-> c.asset, item |-> c.item, rev |-> c.base]

(* What a step relies on.                                                   *)
OnKeysNow(c, as) ==
  c.asset \in Assets /\ IsKeys(c.asset) /\ as[c.asset] # NoAsset /\ c.seen # NoAsset
PartSeen(c) == c.item \in Items /\ c.seen.parts[c.item] # NoPart
NewFits(jobs, c, as) ==
  /\ Meant(jobs, c.new)
  /\ c.asset \in Assets /\ Original(as[c.asset]) => Kept(jobs, c.new)

Relies(jobs, c, a, as) ==
  /\ a \in AfterRead => c.seen # NoAsset
  /\ a \in OnKeys(c.job.op) => OnKeysNow(c, as)
  /\ a \in OnPart => PartSeen(c)
  /\ a \in OnNamed => c.asset \in Assets
  /\ a \in Overwriting(c.job.op) => NewFits(jobs, c, as)
  /\ a \in OverwritingPart(c.job.op) => Kept(jobs, c.new)
  /\ a \in Creating => Meant(jobs, c.new)
  /\ a \in AfterConsent(c.job.op) => Waived(c.job) \/ AskingOf(c) \in c.agreed
  /\ a = "create_file" => Waived(c.job) \/ c.seen = NoAsset \/ AskingOf(c) \in c.agreed
  /\ a \in AfterWarning(c.job.op) => (Kind[c.asset] = "kv" => c.warned)

(* ConsentComesFirst, and that there is little left once a file was made.   *)
IsIn(job, i) == job.file /\ job.to = i /\ i \in Items
Consented(c, d) ==
  \/ c.job.op \in NeverAsks
  \/ \E t \in c.agreed : /\ t.asset = d.asset /\ (t.item = d.item \/ IsIn(c.job, d.item))
                         /\ d.step = "revert_key" => t.rev = d.rev
  \/ /\ c.job.force
     /\ d.asset \in {c.job.asset, c.job.to} \/ IsKeys(d.asset)
     /\ d.item \in {c.job.item} \cup c.picked \/ IsIn(c.job, d.item)
  \/ d.step = "create_file" /\ c.seen = NoAsset
DidOne(c, d) ==
  /\ Consented(c, d)
  /\ Kind[d.asset] = "kv" /\ c.job.op \in WarnsOfBuckets => c.warned
  /\ d.step = "create_file" => c.steps = <<>> \/ c.steps = <<"fill_file">>
DidWell(c) == \A d \in c.did : d.step \in Grave(c.job.op) => DidOne(c, d)

CommandFine(jobs, p, c, as) ==
  /\ IsCommand(c) /\ c.job = jobs[p]
  /\ Orderly(c.job, c.steps) /\ Typed(c) /\ Named(c) /\ SawWell(jobs, c, as)
  /\ c.steps # <<>> => Relies(jobs, c, Head(c.steps), as)
  /\ DidWell(c)

SelectionOK ==
  selection \in [now : Contexts \cup {NoContext}, before : Contexts \cup {NoContext},
                 operator : Assets \cup {"none"}]

Inv(jobs) ==
  /\ AssetsFine(jobs, assets) /\ SelectionOK
  /\ DOMAIN cmd = Procs
  /\ \A p \in Procs : CommandFine(jobs, p, cmd[p], assets)

IInv == \E jobs \in CommandLines : Inv(jobs)

(***************************************************************************)
(* The plans are in order.                                                  *)
(***************************************************************************)

LEMMA KeyOps ==
  WorksOnKeys =
    {"operator_add", "operator_edit", "operator_sk_add", "operator_sk_rm", "operator_import",
     "operator_restore", "operator_select", "account_add", "account_edit", "account_push",
     "export_add", "export_edit", "export_rm", "export_kv", "import_add", "import_edit",
     "import_rm", "import_kv", "account_sk_add", "account_sk_rm", "mapping_add", "mapping_rm",
     "user_add", "user_edit", "user_rm", "user_cred", "operator_backup", "account_query",
     "server_account_purge"}
BY DEF WorksOnKeys, OperatorHandlers, AccountHandlers, SharingHandlers, KeyHandlers, UserHandlers

(* A sequence is one over the set of its own elements.                      *)
LEMMA SequenceOfItsOwn ==
  ASSUME NEW S, NEW s \in Seq(S)
  PROVE  IsSequence(s)
<1>1. s \in [1..Len(s) -> {s[k] : k \in 1..Len(s)}] /\ Len(s) \in Nat
    OBVIOUS
<1> QED BY <1>1 DEF IsSequence

LEMMA StreamPlans ==
  ASSUME NEW job \in Jobs, Fits(job), job.op \in DOMAIN StreamHandlers(job.force)
  PROVE  Sound(job, StreamHandlers(job.force)[job.op])
<1> USE KeyOps DEF Sound, Orderly, IsSequence, Suits, Starts, Follows, Reading, AfterRead,
      Loading, OnKeys, FindingPart, OnPart, Naming, OnNamed, Changing, Overwriting,
      ChangingPart, OverwritingPart, Configuring, Creating, Questions, AfterConsent,
      AfterWarning, Waived, KeyWrites, PicksContext, Destructive, Grave, NeverAsks
<1> job.force \in BOOLEAN /\ job.activate \in BOOLEAN /\ job.rev \in Nat BY DEF Jobs
<1>1. CASE job.op = "stream_add"
    BY SMTT(60), <1>1 DEF StreamHandlers, StreamAdd
<1>2. CASE job.op = "stream_cp"
    BY SMTT(60), <1>2 DEF StreamHandlers, StreamCp
<1>3. CASE job.op = "stream_edit"
    BY SMTT(60), <1>3 DEF StreamHandlers, StreamEdit
<1>4. CASE job.op = "stream_purge"
    BY SMTT(60), <1>4 DEF StreamHandlers, StreamPurge
<1>5. CASE job.op = "stream_rmm"
    BY SMTT(60), <1>5 DEF StreamHandlers, StreamRmMsg
<1>6. CASE job.op = "stream_rm"
  <2>1. CASE job.force
      BY SMTT(60), <1>6, <2>1 DEF StreamHandlers, StreamRm
  <2>2. CASE ~job.force
      BY SMTT(60), <1>6, <2>2 DEF StreamHandlers, StreamRm
  <2> HIDE DEF Sound
  <2> QED BY <2>1, <2>2
<1>7. CASE job.op = "stream_seal"
    BY SMTT(60), <1>7 DEF StreamHandlers, StreamSeal
<1> HIDE DEF Sound
<1> QED BY <1>1, <1>2, <1>3, <1>4, <1>5, <1>6, <1>7 DEF StreamHandlers

LEMMA StreamClusterPlans ==
  ASSUME NEW job \in Jobs, Fits(job), job.op \in DOMAIN StreamClusterHandlers(job.force)
  PROVE  Sound(job, StreamClusterHandlers(job.force)[job.op])
<1> USE KeyOps DEF Sound, Orderly, IsSequence, Suits, Starts, Follows, Reading, AfterRead,
      Loading, OnKeys, FindingPart, OnPart, Naming, OnNamed, Changing, Overwriting,
      ChangingPart, OverwritingPart, Configuring, Creating, Questions, AfterConsent,
      AfterWarning, Waived, KeyWrites, PicksContext, Destructive, Grave, NeverAsks
<1> job.force \in BOOLEAN /\ job.activate \in BOOLEAN /\ job.rev \in Nat BY DEF Jobs
<1>1. CASE job.op = "stream_step_down"
    BY SMTT(60), <1>1 DEF StreamClusterHandlers, StreamLeaderStandDown
<1>2. CASE job.op = "stream_balance"
    BY SMTT(60), <1>2 DEF StreamClusterHandlers, StreamBalance
<1>3. CASE job.op = "stream_cancel_move"
  <2>1. CASE job.force
      BY SMTT(60), <1>3, <2>1 DEF StreamClusterHandlers, StreamCancelMove
  <2>2. CASE ~job.force
      BY SMTT(60), <1>3, <2>2 DEF StreamClusterHandlers, StreamCancelMove
  <2> HIDE DEF Sound
  <2> QED BY <2>1, <2>2
<1>4. CASE job.op = "stream_evacuate"
    BY SMTT(60), <1>4 DEF StreamClusterHandlers, StreamEvacuatePeer
<1>5. CASE job.op = "stream_peer_remove"
    BY SMTT(60), <1>5 DEF StreamClusterHandlers, StreamRemovePeer
<1> HIDE DEF Sound
<1> QED BY <1>1, <1>2, <1>3, <1>4, <1>5 DEF StreamClusterHandlers

LEMMA ClusterPlans ==
  ASSUME NEW job \in Jobs, Fits(job), job.op \in DOMAIN ClusterHandlers
  PROVE  Sound(job, ClusterHandlers[job.op])
<1> USE KeyOps DEF Sound, Orderly, IsSequence, Suits, Starts, Follows, Reading, AfterRead,
      Loading, OnKeys, FindingPart, OnPart, Naming, OnNamed, Changing, Overwriting,
      ChangingPart, OverwritingPart, Configuring, Creating, Questions, AfterConsent,
      AfterWarning, Waived, KeyWrites, PicksContext, Destructive, Grave, NeverAsks
<1> job.force \in BOOLEAN /\ job.activate \in BOOLEAN /\ job.rev \in Nat BY DEF Jobs
<1>1. CASE job.op = "server_step_down"
    BY SMTT(60), <1>1 DEF ClusterHandlers, MetaLeaderStandDown
<1>2. CASE job.op = "server_evacuate"
    BY SMTT(60), <1>2 DEF ClusterHandlers, MetaEvacuate
<1>3. CASE job.op = "server_peer_remove"
    BY SMTT(60), <1>3 DEF ClusterHandlers, MetaPeerRemove
<1>4. CASE job.op = "server_rescue"
    BY SMTT(60), <1>4 DEF ClusterHandlers, MetaRescue
<1>5. CASE job.op = "server_balance"
    BY SMTT(60), <1>5 DEF ClusterHandlers, Balance
<1> HIDE DEF Sound
<1> QED BY <1>1, <1>2, <1>3, <1>4, <1>5 DEF ClusterHandlers

LEMMA ConsumerPlans ==
  ASSUME NEW job \in Jobs, Fits(job), job.op \in DOMAIN ConsumerHandlers(job.force, job.rev)
  PROVE  Sound(job, ConsumerHandlers(job.force, job.rev)[job.op])
<1> USE KeyOps DEF Sound, Orderly, IsSequence, Suits, Starts, Follows, Reading, AfterRead,
      Loading, OnKeys, FindingPart, OnPart, Naming, OnNamed, Changing, Overwriting,
      ChangingPart, OverwritingPart, Configuring, Creating, Questions, AfterConsent,
      AfterWarning, Waived, KeyWrites, PicksContext, Destructive, Grave, NeverAsks
<1> job.force \in BOOLEAN /\ job.activate \in BOOLEAN /\ job.rev \in Nat BY DEF Jobs
<1>1. CASE job.op = "consumer_add"
    BY SMTT(60), <1>1 DEF ConsumerHandlers, ConsumerAdd
<1>2. CASE job.op = "consumer_cp"
    BY SMTT(60), <1>2 DEF ConsumerHandlers, ConsumerCp
<1>3. CASE job.op = "consumer_edit"
    BY SMTT(60), <1>3 DEF ConsumerHandlers, ConsumerEdit, ConnectAndSetup
<1>4. CASE job.op = "consumer_rm"
  <2>1. CASE job.force
      BY SMTT(60), <1>4, <2>1 DEF ConsumerHandlers, ConsumerRm, ConnectAndSetup
  <2>2. CASE ~job.force
      BY SMTT(60), <1>4, <2>2 DEF ConsumerHandlers, ConsumerRm, ConnectAndSetup
  <2> HIDE DEF Sound
  <2> QED BY <2>1, <2>2
<1>5. CASE job.op = "consumer_reset"
    BY SMTT(60), <1>5 DEF ConsumerHandlers, ConsumerReset, ConnectAndSetup
<1>6. CASE job.op = "consumer_pause"
    BY SMTT(60), <1>6 DEF ConsumerHandlers, ConsumerPause, ConnectAndSetup
<1>7. CASE job.op = "consumer_resume"
    BY SMTT(60), <1>7 DEF ConsumerHandlers, ConsumerResume, ConnectAndSetup
<1>8. CASE job.op = "consumer_unpin"
    BY SMTT(60), <1>8 DEF ConsumerHandlers, ConsumerUnpin, ConnectAndSetup
<1>9. CASE job.op = "consumer_next"
  <2> DEFINE s == ConsumerNext(job.rev)
  <2>1. s \in Seq({"pull_message", "acknowledge"}) /\ Len(s) = 2 * job.rev
      BY DEF ConsumerNext
  <2> HIDE DEF s
  <2>2. \A k \in 1..Len(s) : s[k] \in {"pull_message", "acknowledge"}
      BY <2>1
  <2>3. IsSequence(s)
      BY <2>1, SequenceOfItsOwn
  <2>4. s # <<>> => 1 \in 1..Len(s)
      BY <2>1
  <2>5. \A k \in 1..(Len(s) - 1) : k \in 1..Len(s) /\ k + 1 \in 1..Len(s)
      BY <2>1
  <2>6. \A k \in 1..Len(s) : Suits(job, s[k]) /\ s[k] # "find_consumer"
      BY <2>2, <1>9
  <2>7. \A k \in 1..(Len(s) - 1) : Follows(job, s[k], s[k + 1])
      BY <2>2, <2>5, <1>9
  <2>8. s # <<>> => Starts(job, s[1])
      BY <2>2, <2>4, <1>9
  <2>9. Sound(job, s)
      BY <2>3, <2>6, <2>7, <2>8
  <2>10. ConsumerHandlers(job.force, job.rev)[job.op] = s
      BY SMTT(60), <1>9 DEF ConsumerHandlers, s
  <2> HIDE DEF Sound
  <2> QED BY <2>9, <2>10
<1>10. job.op \in {"consumer_add", "consumer_cp", "consumer_edit", "consumer_rm",
                   "consumer_reset", "consumer_pause", "consumer_resume", "consumer_unpin",
                   "consumer_next"}
    BY DEF ConsumerHandlers
<1> HIDE DEF Sound
<1> QED BY <1>1, <1>2, <1>3, <1>4, <1>5, <1>6, <1>7, <1>8, <1>9, <1>10

LEMMA ConsumerClusterPlans ==
  ASSUME NEW job \in Jobs, Fits(job), job.op \in DOMAIN ConsumerClusterHandlers
  PROVE  Sound(job, ConsumerClusterHandlers[job.op])
<1> USE KeyOps DEF Sound, Orderly, IsSequence, Suits, Starts, Follows, Reading, AfterRead,
      Loading, OnKeys, FindingPart, OnPart, Naming, OnNamed, Changing, Overwriting,
      ChangingPart, OverwritingPart, Configuring, Creating, Questions, AfterConsent,
      AfterWarning, Waived, KeyWrites, PicksContext, Destructive, Grave, NeverAsks
<1> job.force \in BOOLEAN /\ job.activate \in BOOLEAN /\ job.rev \in Nat BY DEF Jobs
<1>1. CASE job.op = "consumer_step_down"
    BY SMTT(60), <1>1 DEF ConsumerClusterHandlers, ConsumerLeaderStandDown, ConnectAndSetup
<1>2. CASE job.op = "consumer_balance"
    BY SMTT(60), <1>2 DEF ConsumerClusterHandlers, ConsumerBalance
<1>3. CASE job.op = "consumer_evacuate"
    BY SMTT(60), <1>3 DEF ConsumerClusterHandlers, ConsumerEvacuatePeer, ConnectAndSetup
<1> HIDE DEF Sound
<1> QED BY <1>1, <1>2, <1>3 DEF ConsumerClusterHandlers

LEMMA KVPlans ==
  ASSUME NEW job \in Jobs, Fits(job), job.op \in DOMAIN KVHandlers(job.item)
  PROVE  Sound(job, KVHandlers(job.item)[job.op])
<1> USE KeyOps DEF Sound, Orderly, IsSequence, Suits, Starts, Follows, Reading, AfterRead,
      Loading, OnKeys, FindingPart, OnPart, Naming, OnNamed, Changing, Overwriting,
      ChangingPart, OverwritingPart, Configuring, Creating, Questions, AfterConsent,
      AfterWarning, Waived, KeyWrites, PicksContext, Destructive, Grave, NeverAsks
<1> job.force \in BOOLEAN /\ job.activate \in BOOLEAN /\ job.rev \in Nat BY DEF Jobs
<1>1. CASE job.op = "kv_add"
    BY SMTT(60), <1>1 DEF KVHandlers, KVAdd
<1>2. CASE job.op = "kv_edit"
    BY SMTT(60), <1>2 DEF KVHandlers, KVEdit
<1>3. CASE job.op = "kv_put"
    BY SMTT(60), <1>3 DEF KVHandlers, KVPut, WritesKeys, Fits
<1>4. CASE job.op = "kv_create"
    BY SMTT(60), <1>4 DEF KVHandlers, KVCreate, WritesKeys, Fits
<1>5. CASE job.op = "kv_update"
    BY SMTT(60), <1>5 DEF KVHandlers, KVUpdate, WritesKeys, Fits
<1>6. CASE job.op = "kv_del"
  <2>1. CASE job.item \in Items
      BY SMTT(60), <1>6, <2>1 DEF KVHandlers, KVDelete
  <2>2. CASE job.item \notin Items
      BY SMTT(60), <1>6, <2>2 DEF KVHandlers, KVDelete
  <2> HIDE DEF Sound
  <2> QED BY <2>1, <2>2
<1>7. CASE job.op = "kv_purge"
    BY SMTT(60), <1>7 DEF KVHandlers, KVPurge, WritesKeys, Fits
<1>8. CASE job.op = "kv_compact"
    BY SMTT(60), <1>8 DEF KVHandlers, KVCompact
<1>9. CASE job.op = "kv_revert"
    BY SMTT(60), <1>9 DEF KVHandlers, KVRevert, WritesKeys, Fits
<1> HIDE DEF Sound
<1> QED BY <1>1, <1>2, <1>3, <1>4, <1>5, <1>6, <1>7, <1>8, <1>9 DEF KVHandlers

LEMMA ObjectPlans ==
  ASSUME NEW job \in Jobs, Fits(job), job.op \in DOMAIN ObjectHandlers(job.item, job.force)
  PROVE  Sound(job, ObjectHandlers(job.item, job.force)[job.op])
<1> USE KeyOps DEF Sound, Orderly, IsSequence, Suits, Starts, Follows, Reading, AfterRead,
      Loading, OnKeys, FindingPart, OnPart, Naming, OnNamed, Changing, Overwriting,
      ChangingPart, OverwritingPart, Configuring, Creating, Questions, AfterConsent,
      AfterWarning, Waived, KeyWrites, PicksContext, Destructive, Grave, NeverAsks
<1> job.force \in BOOLEAN /\ job.activate \in BOOLEAN /\ job.rev \in Nat BY DEF Jobs
<1>1. CASE job.op = "object_add"
    BY SMTT(60), <1>1 DEF ObjectHandlers, ObjectAdd
<1>2. CASE job.op = "object_edit"
    BY SMTT(60), <1>2 DEF ObjectHandlers, ObjectEdit
<1>3. CASE job.op = "object_put"
    BY SMTT(60), <1>3 DEF ObjectHandlers, ObjectPut, WritesKeys, Fits
<1>4. CASE job.op = "object_del"
  <2>1. CASE job.item \notin Items
      BY SMTT(60), <1>4, <2>1 DEF ObjectHandlers, ObjectDel
  <2>2. CASE job.item \in Items /\ job.force
      BY SMTT(60), <1>4, <2>2 DEF ObjectHandlers, ObjectDel
  <2>3. CASE job.item \in Items /\ ~job.force
      BY SMTT(60), <1>4, <2>3 DEF ObjectHandlers, ObjectDel
  <2> HIDE DEF Sound
  <2> QED BY <2>1, <2>2, <2>3
<1>5. CASE job.op = "object_seal"
    BY SMTT(60), <1>5 DEF ObjectHandlers, ObjectSeal
<1> HIDE DEF Sound
<1> QED BY <1>1, <1>2, <1>3, <1>4, <1>5 DEF ObjectHandlers

LEMMA ContextPlans ==
  ASSUME NEW job \in Jobs, Fits(job), job.op \in DOMAIN ContextHandlers(job.force, job.activate)
  PROVE  Sound(job, ContextHandlers(job.force, job.activate)[job.op])
<1> USE KeyOps DEF Sound, Orderly, IsSequence, Suits, Starts, Follows, Reading, AfterRead,
      Loading, OnKeys, FindingPart, OnPart, Naming, OnNamed, Changing, Overwriting,
      ChangingPart, OverwritingPart, Configuring, Creating, Questions, AfterConsent,
      AfterWarning, Waived, KeyWrites, PicksContext, Destructive, Grave, NeverAsks
<1> job.force \in BOOLEAN /\ job.activate \in BOOLEAN /\ job.rev \in Nat BY DEF Jobs
<1>1. CASE job.op = "context_save"
  <2>1. CASE job.activate
      BY SMTT(60), <1>1, <2>1 DEF ContextHandlers, ContextSave
  <2>2. CASE ~job.activate
      BY SMTT(60), <1>1, <2>2 DEF ContextHandlers, ContextSave
  <2> HIDE DEF Sound
  <2> QED BY <2>1, <2>2
<1>2. CASE job.op = "context_copy"
  <2>1. CASE job.activate
      BY SMTT(60), <1>2, <2>1 DEF ContextHandlers, ContextCopy
  <2>2. CASE ~job.activate
      BY SMTT(60), <1>2, <2>2 DEF ContextHandlers, ContextCopy
  <2> HIDE DEF Sound
  <2> QED BY <2>1, <2>2
<1>3. CASE job.op = "context_edit"
    BY SMTT(60), <1>3 DEF ContextHandlers, ContextEdit
<1>4. CASE job.op = "context_rm"
    BY SMTT(60), <1>4 DEF ContextHandlers, ContextRm
<1>5. CASE job.op = "context_select"
    BY SMTT(60), <1>5 DEF ContextHandlers, ContextSelect
<1>6. CASE job.op = "context_previous"
    BY SMTT(60), <1>6 DEF ContextHandlers, ContextPrevious
<1>7. CASE job.op = "context_unselect"
    BY SMTT(60), <1>7 DEF ContextHandlers, ContextUnselect
<1> HIDE DEF Sound
<1> QED BY <1>1, <1>2, <1>3, <1>4, <1>5, <1>6, <1>7 DEF ContextHandlers

LEMMA OperatorPlans ==
  ASSUME NEW job \in Jobs, Fits(job), job.op \in DOMAIN OperatorHandlers
  PROVE  Sound(job, OperatorHandlers[job.op])
<1> USE KeyOps DEF Sound, Orderly, IsSequence, Suits, Starts, Follows, Reading, AfterRead,
      Loading, OnKeys, FindingPart, OnPart, Naming, OnNamed, Changing, Overwriting,
      ChangingPart, OverwritingPart, Configuring, Creating, Questions, AfterConsent,
      AfterWarning, Waived, KeyWrites, PicksContext, Destructive, Grave, NeverAsks
<1> job.force \in BOOLEAN /\ job.activate \in BOOLEAN /\ job.rev \in Nat BY DEF Jobs
<1>1. CASE job.op = "operator_add"
    BY SMTT(60), <1>1 DEF OperatorHandlers, OperatorAdd
<1>2. CASE job.op = "operator_edit"
    BY SMTT(60), <1>2 DEF OperatorHandlers, OperatorEdit
<1>3. CASE job.op = "operator_sk_add"
    BY SMTT(60), <1>3 DEF OperatorHandlers, OperatorSkAdd
<1>4. CASE job.op = "operator_sk_rm"
    BY SMTT(60), <1>4 DEF OperatorHandlers, OperatorSkRm
<1>5. CASE job.op = "operator_import"
    BY SMTT(60), <1>5 DEF OperatorHandlers, OperatorImport
<1>6. CASE job.op = "operator_restore"
    BY SMTT(60), <1>6 DEF OperatorHandlers, OperatorRestore
<1>7. CASE job.op = "operator_select"
    BY SMTT(60), <1>7 DEF OperatorHandlers, OperatorSelect
<1> HIDE DEF Sound
<1> QED BY <1>1, <1>2, <1>3, <1>4, <1>5, <1>6, <1>7 DEF OperatorHandlers

LEMMA AccountPlans ==
  ASSUME NEW job \in Jobs, Fits(job), job.op \in DOMAIN AccountHandlers
  PROVE  Sound(job, AccountHandlers[job.op])
<1> USE KeyOps DEF Sound, Orderly, IsSequence, Suits, Starts, Follows, Reading, AfterRead,
      Loading, OnKeys, FindingPart, OnPart, Naming, OnNamed, Changing, Overwriting,
      ChangingPart, OverwritingPart, Configuring, Creating, Questions, AfterConsent,
      AfterWarning, Waived, KeyWrites, PicksContext, Destructive, Grave, NeverAsks
<1> job.force \in BOOLEAN /\ job.activate \in BOOLEAN /\ job.rev \in Nat BY DEF Jobs
<1>1. CASE job.op = "account_add"
    BY SMTT(60), <1>1 DEF AccountHandlers, AccountAdd
<1>2. CASE job.op = "account_edit"
    BY SMTT(60), <1>2 DEF AccountHandlers, AccountEdit
<1>3. CASE job.op = "account_push"
    BY SMTT(60), <1>3 DEF AccountHandlers, AccountPush
<1> HIDE DEF Sound
<1> QED BY <1>1, <1>2, <1>3 DEF AccountHandlers

LEMMA SharingPlans ==
  ASSUME NEW job \in Jobs, Fits(job), job.op \in DOMAIN SharingHandlers
  PROVE  Sound(job, SharingHandlers[job.op])
<1> USE KeyOps DEF Sound, Orderly, IsSequence, Suits, Starts, Follows, Reading, AfterRead,
      Loading, OnKeys, FindingPart, OnPart, Naming, OnNamed, Changing, Overwriting,
      ChangingPart, OverwritingPart, Configuring, Creating, Questions, AfterConsent,
      AfterWarning, Waived, KeyWrites, PicksContext, Destructive, Grave, NeverAsks
<1> job.force \in BOOLEAN /\ job.activate \in BOOLEAN /\ job.rev \in Nat BY DEF Jobs
<1>1. CASE job.op = "export_add"
    BY SMTT(60), <1>1 DEF SharingHandlers, ExportAdd
<1>2. CASE job.op = "export_edit"
    BY SMTT(60), <1>2 DEF SharingHandlers, ExportEdit
<1>3. CASE job.op = "export_rm"
    BY SMTT(60), <1>3 DEF SharingHandlers, ExportRm
<1>4. CASE job.op = "export_kv"
    BY SMTT(60), <1>4 DEF SharingHandlers, ExportKv
<1>5. CASE job.op = "import_add"
    BY SMTT(60), <1>5 DEF SharingHandlers, ImportAdd
<1>6. CASE job.op = "import_edit"
    BY SMTT(60), <1>6 DEF SharingHandlers, ImportEdit
<1>7. CASE job.op = "import_rm"
    BY SMTT(60), <1>7 DEF SharingHandlers, ImportRm
<1>8. CASE job.op = "import_kv"
    BY SMTT(60), <1>8 DEF SharingHandlers, ImportKv
<1> HIDE DEF Sound
<1> QED BY <1>1, <1>2, <1>3, <1>4, <1>5, <1>6, <1>7, <1>8 DEF SharingHandlers

LEMMA KeyPlans ==
  ASSUME NEW job \in Jobs, Fits(job), job.op \in DOMAIN KeyHandlers
  PROVE  Sound(job, KeyHandlers[job.op])
<1> USE KeyOps DEF Sound, Orderly, IsSequence, Suits, Starts, Follows, Reading, AfterRead,
      Loading, OnKeys, FindingPart, OnPart, Naming, OnNamed, Changing, Overwriting,
      ChangingPart, OverwritingPart, Configuring, Creating, Questions, AfterConsent,
      AfterWarning, Waived, KeyWrites, PicksContext, Destructive, Grave, NeverAsks
<1> job.force \in BOOLEAN /\ job.activate \in BOOLEAN /\ job.rev \in Nat BY DEF Jobs
<1>1. CASE job.op = "account_sk_add"
    BY SMTT(60), <1>1 DEF KeyHandlers, AccountSkAdd
<1>2. CASE job.op = "account_sk_rm"
    BY SMTT(60), <1>2 DEF KeyHandlers, AccountSkRm
<1>3. CASE job.op = "mapping_add"
    BY SMTT(60), <1>3 DEF KeyHandlers, MappingAdd
<1>4. CASE job.op = "mapping_rm"
    BY SMTT(60), <1>4 DEF KeyHandlers, MappingRm
<1> HIDE DEF Sound
<1> QED BY <1>1, <1>2, <1>3, <1>4 DEF KeyHandlers

LEMMA UserPlans ==
  ASSUME NEW job \in Jobs, Fits(job), job.op \in DOMAIN UserHandlers
  PROVE  Sound(job, UserHandlers[job.op])
<1> USE KeyOps DEF Sound, Orderly, IsSequence, Suits, Starts, Follows, Reading, AfterRead,
      Loading, OnKeys, FindingPart, OnPart, Naming, OnNamed, Changing, Overwriting,
      ChangingPart, OverwritingPart, Configuring, Creating, Questions, AfterConsent,
      AfterWarning, Waived, KeyWrites, PicksContext, Destructive, Grave, NeverAsks
<1> job.force \in BOOLEAN /\ job.activate \in BOOLEAN /\ job.rev \in Nat BY DEF Jobs
<1>1. CASE job.op = "user_add"
    BY SMTT(60), <1>1 DEF UserHandlers, UserAdd
<1>2. CASE job.op = "user_edit"
    BY SMTT(60), <1>2 DEF UserHandlers, UserEdit
<1>3. CASE job.op = "user_rm"
    BY SMTT(60), <1>3 DEF UserHandlers, UserRm
<1> HIDE DEF Sound
<1> QED BY <1>1, <1>2, <1>3 DEF UserHandlers

LEMMA FilePlans ==
  ASSUME NEW job \in Jobs, Fits(job), job.op \in DOMAIN FileHandlers(job.force)
  PROVE  Sound(job, FileHandlers(job.force)[job.op])
<1> USE KeyOps DEF Sound, Orderly, IsSequence, Suits, Starts, Follows, Reading, AfterRead,
      Loading, OnKeys, FindingPart, OnPart, Naming, OnNamed, Changing, Overwriting,
      ChangingPart, OverwritingPart, Configuring, Creating, Questions, AfterConsent,
      AfterWarning, Waived, KeyWrites, PicksContext, Destructive, Grave, NeverAsks
<1> job.force \in BOOLEAN /\ job.activate \in BOOLEAN /\ job.rev \in Nat BY DEF Jobs
<1>1. CASE job.op = "object_get"
  <2>1. CASE job.force
    <3>1. FileHandlers(job.force)[job.op]
            = <<"open_bucket", "find_object", "name_file", "create_file", "fill_file">>
        BY SMTT(60), <1>1, <2>1 DEF FileHandlers, ObjectGet
    <3>2. Sound(job, <<"open_bucket", "find_object", "name_file", "create_file", "fill_file">>)
        BY SMTT(60), <1>1, <2>1 DEF NamesFile, WritesFiles
    <3> HIDE DEF Sound
    <3> QED BY <3>1, <3>2
  <2>2. CASE ~job.force
    <3>1. FileHandlers(job.force)[job.op]
            = <<"open_bucket", "find_object", "name_file", "look_for_file",
                       "confirm_file", "create_file", "fill_file">>
        BY SMTT(60), <1>1, <2>2 DEF FileHandlers, ObjectGet
    <3>2. Sound(job, <<"open_bucket", "find_object", "name_file", "look_for_file",
                       "confirm_file", "create_file", "fill_file">>)
        BY SMTT(60), <1>1, <2>2 DEF NamesFile, WritesFiles
    <3> HIDE DEF Sound
    <3> QED BY <3>1, <3>2
  <2> HIDE DEF Sound
  <2> QED BY <2>1, <2>2
<1>2. CASE job.op = "user_cred"
  <2>1. CASE job.force
    <3>1. FileHandlers(job.force)[job.op]
            = <<"select_account", "pick_user", "find_part", "name_file", "write_file">>
        BY SMTT(60), <1>2, <2>1 DEF FileHandlers, UserCred
    <3>2. Sound(job, <<"select_account", "pick_user", "find_part", "name_file", "write_file">>)
        BY SMTT(60), <1>2, <2>1 DEF NamesFile, WritesFiles
    <3> HIDE DEF Sound
    <3> QED BY <3>1, <3>2
  <2>2. CASE ~job.force
    <3>1. FileHandlers(job.force)[job.op]
            = <<"refuse_file", "select_account", "pick_user", "find_part",
                       "refuse_file", "name_file", "write_file">>
        BY SMTT(60), <1>2, <2>2 DEF FileHandlers, UserCred
    <3>2. Sound(job, <<"refuse_file", "select_account", "pick_user", "find_part",
                       "refuse_file", "name_file", "write_file">>)
        BY SMTT(60), <1>2, <2>2 DEF NamesFile, WritesFiles
    <3> HIDE DEF Sound
    <3> QED BY <3>1, <3>2
  <2> HIDE DEF Sound
  <2> QED BY <2>1, <2>2
<1>3. CASE job.op = "operator_backup"
    BY SMTT(60), <1>3 DEF FileHandlers, OperatorBackup, NamesFile, WritesFiles
<1>4. CASE job.op = "account_query"
    BY SMTT(60), <1>4 DEF FileHandlers, AccountQuery, NamesFile, WritesFiles
<1>5. CASE job.op = "errors_edit"
    BY SMTT(60), <1>5 DEF FileHandlers, ErrorsEdit
<1>6. CASE job.op = "nkey_gen"
    BY SMTT(60), <1>6 DEF FileHandlers, NKeyGen, WritesFiles, NamesFile
<1>7. CASE job.op = "nkey_seal"
    BY SMTT(60), <1>7 DEF FileHandlers, NKeySeal, WritesFiles, NamesFile
<1>8. CASE job.op = "nkey_unseal"
    BY SMTT(60), <1>8 DEF FileHandlers, NKeyUnseal, WritesFiles, NamesFile
<1>9. CASE job.op = "counter_incr"
    BY SMTT(60), <1>9 DEF FileHandlers, CounterIncr, WritesKeys, Fits
<1>10. CASE job.op = "server_account_purge"
    BY SMTT(60), <1>10 DEF FileHandlers, ServerAccountPurge
<1>11. CASE job.op = "server_config_reload"
  <2>1. CASE job.force
      BY SMTT(60), <1>11, <2>1 DEF FileHandlers, ServerConfigReload
  <2>2. CASE ~job.force
      BY SMTT(60), <1>11, <2>2 DEF FileHandlers, ServerConfigReload
  <2> HIDE DEF Sound
  <2> QED BY <2>1, <2>2
<1>12. CASE job.op = "server_kick"
    BY SMTT(60), <1>12 DEF FileHandlers, ServerKick
<1> HIDE DEF Sound
<1> QED BY <1>1, <1>2, <1>3, <1>4, <1>5, <1>6, <1>7, <1>8, <1>9, <1>10, <1>11, <1>12 DEF FileHandlers

(* Every handler of the program keeps to the order.                         *)
LEMMA PlansAreSound ==
  ASSUME NEW job \in Jobs, Fits(job)
  PROVE  Sound(job, Plan(job))
<1> DEFINE table == CHOOSE handlers \in Handlers(job) : job.op \in DOMAIN handlers
<1>1. table \in Handlers(job) /\ job.op \in DOMAIN table
    BY DEF Fits
<1>2. Plan(job) = table[job.op]
    BY DEF Plan
<1> HIDE DEF table
<1>3. \/ table = StreamHandlers(job.force) \/ table = StreamClusterHandlers(job.force)
      \/ table = ClusterHandlers \/ table = ConsumerHandlers(job.force, job.rev)
      \/ table = ConsumerClusterHandlers \/ table = KVHandlers(job.item)
      \/ table = ObjectHandlers(job.item, job.force)
      \/ table = ContextHandlers(job.force, job.activate)
      \/ table = OperatorHandlers \/ table = AccountHandlers \/ table = SharingHandlers
      \/ table = KeyHandlers \/ table = UserHandlers \/ table = FileHandlers(job.force)
    BY <1>1 DEF Handlers
<1> QED BY <1>1, <1>2, <1>3, StreamPlans, StreamClusterPlans, ClusterPlans, ConsumerPlans,
           ConsumerClusterPlans, KVPlans, ObjectPlans, ContextPlans, OperatorPlans,
           AccountPlans, SharingPlans, KeyPlans, UserPlans, FilePlans

LEMMA Single ==
  ASSUME NEW S, NEW t \in Seq(S), Len(t) = 1
  PROVE  t = <<t[1]>>
<1>1. t[1] \in S
    OBVIOUS
<1>2. PICK u : u = <<t[1]>>
    OBVIOUS
<1>3. u \in Seq(S) /\ Len(u) = 1 /\ u[1] = t[1]
    BY <1>1, <1>2
<1>4. \A i \in 1..Len(t) : t[i] = u[i]
    BY <1>3
<1> QED BY <1>2, <1>3, <1>4, SeqEqual

(* What is left of an orderly sequence is orderly.                          *)
LEMMA OrderlyTail ==
  ASSUME NEW job, NEW s, Orderly(job, s), s # <<>>
  PROVE  /\ Orderly(job, Tail(s)) /\ Suits(job, Head(s))
         /\ Tail(s) # <<>> => Follows(job, Head(s), Head(Tail(s)))
<1>1. PICK S : s \in Seq(S)
    BY DEF Orderly, IsSequence
<1>2. /\ Tail(s) \in Seq(S) /\ Len(s) \in Nat \ {0} /\ Len(Tail(s)) = Len(s) - 1
      /\ Head(s) = s[1] /\ \A k \in 1..(Len(s) - 1) : Tail(s)[k] = s[k + 1]
    BY <1>1
<1>3. Tail(s) # <<>> => Len(Tail(s)) > 0 /\ Head(Tail(s)) = Tail(s)[1]
    BY <1>2
<1>4. IsSequence(Tail(s))
    BY <1>2, SequenceOfItsOwn
<1>5. \A k \in 1..Len(Tail(s)) : Suits(job, Tail(s)[k])
    BY <1>2 DEF Orderly
<1>6. \A k \in 1..(Len(Tail(s)) - 1) : Follows(job, Tail(s)[k], Tail(s)[k + 1])
    BY <1>2 DEF Orderly
<1>7. \A k \in 1..Len(Tail(s)) : Tail(s)[k] = "find_consumer" =>
        k + 2 <= Len(Tail(s)) /\ Tail(s)[k + 2] = "select_consumer"
    BY <1>2 DEF Orderly
<1>8. Suits(job, Head(s))
    BY <1>2 DEF Orderly
<1>9. Tail(s) # <<>> => Follows(job, Head(s), Head(Tail(s)))
    BY <1>2, <1>3 DEF Orderly
<1> QED BY <1>4, <1>5, <1>6, <1>7, <1>8, <1>9 DEF Orderly

(* A consumer that is found by both names needs no selection.               *)
LEMMA OrderlySkip ==
  ASSUME NEW job, NEW s, Orderly(job, s), s # <<>>, Head(s) = "find_consumer",
         NEW t, t = SubSeq(s, 4, Len(s))
  PROVE  Orderly(job, t) /\ (t # <<>> => Follows(job, "select_consumer", Head(t)))
<1>1. PICK S : s \in Seq(S)
    BY DEF Orderly, IsSequence
<1>2. Len(s) \in Nat \ {0} /\ Head(s) = s[1]
    BY <1>1
<1>3. Len(s) >= 3 /\ s[3] = "select_consumer"
    BY <1>2 DEF Orderly
<1>4. t \in Seq(S) /\ Len(t) = Len(s) - 3 /\ \A k \in 1..(Len(s) - 3) : t[k] = s[k + 3]
  <2>1. \A i \in 4..Len(s) : s[i] \in S
      BY <1>1, <1>2
  <2>2. /\ SubSeq(s, 4, Len(s)) \in Seq(S)
        /\ Len(SubSeq(s, 4, Len(s))) = IF 4 <= Len(s) THEN Len(s) - 4 + 1 ELSE 0
        /\ \A i \in 1..(Len(s) - 4 + 1) : SubSeq(s, 4, Len(s))[i] = s[4 + i - 1]
      BY <2>1, <1>2, SubSeqProperties
  <2>3. Len(t) = Len(s) - 3
    <3> DEFINE n == Len(s)
               r == Len(SubSeq(s, 4, n))
    <3>1. n \in Nat /\ n >= 3 /\ r = IF 4 <= n THEN n - 4 + 1 ELSE 0
        BY <2>2, <1>2, <1>3
    <3>2. Len(t) = r
        OBVIOUS
    <3> HIDE DEF n, r
    <3>3. r = n - 3
        BY <3>1
    <3> QED BY <3>2, <3>3 DEF n
  <2>4. ASSUME NEW k \in 1..(Len(s) - 3) PROVE t[k] = s[k + 3]
    <3>1. k \in 1..(Len(s) - 4 + 1) /\ 4 + k - 1 = k + 3
        BY <1>2, <1>3
    <3> QED BY <3>1, <2>2
  <2> QED BY <2>2, <2>3, <2>4
<1>5. t # <<>> => Len(t) > 0 /\ Head(t) = t[1]
    BY <1>4
<1>6. IsSequence(t)
    BY <1>4, SequenceOfItsOwn
<1>7. \A k \in 1..Len(t) : Suits(job, t[k])
    BY <1>2, <1>3, <1>4 DEF Orderly
<1>8. \A k \in 1..(Len(t) - 1) : Follows(job, t[k], t[k + 1])
    BY <1>2, <1>3, <1>4 DEF Orderly
<1>9. \A k \in 1..Len(t) : t[k] = "find_consumer" =>
        k + 2 <= Len(t) /\ t[k + 2] = "select_consumer"
    BY <1>2, <1>3, <1>4 DEF Orderly
<1>10. t # <<>> => Follows(job, "select_consumer", Head(t))
    BY <1>2, <1>3, <1>4, <1>5 DEF Orderly
<1> QED BY <1>6, <1>7, <1>8, <1>9, <1>10 DEF Orderly

LEMMA OrderlyEnds ==
  ASSUME NEW job
  PROVE  Orderly(job, <<>>) /\ Orderly(job, <<"next_tick">>)
BY DEF Orderly, IsSequence, Suits, KeyWrites, Destructive, Loading

(* A file that is created is filled last of all.                            *)
LEMMA FillsLast ==
  ASSUME NEW job, NEW s, Orderly(job, s), s # <<>>, Head(s) = "create_file"
  PROVE  Tail(s) = <<>> \/ Tail(s) = <<"fill_file">>
<1>1. PICK S : s \in Seq(S)
    BY DEF Orderly, IsSequence
<1>2. Len(s) \in Nat \ {0} /\ Head(s) = s[1] /\ Tail(s) \in Seq(S) /\ Len(Tail(s)) = Len(s) - 1
      /\ \A k \in 1..(Len(s) - 1) : Tail(s)[k] = s[k + 1]
    BY <1>1
<1>3. Len(s) > 1 => s[2] = "fill_file"
    BY <1>2 DEF Orderly, Follows
<1>4. ~(Len(s) > 2)
    BY <1>2, <1>3 DEF Orderly, Follows
<1>5. CASE Len(s) = 1
  <2>1. Len(Tail(s)) = 0
      BY <1>2, <1>5
  <2> QED BY <2>1, <1>2, EmptySeq
<1>6. CASE Len(s) = 2
  <2>1. Len(Tail(s)) = 1
      BY <1>2, <1>6
  <2>2. Tail(s)[1] = s[2]
      BY <1>2, <1>6
  <2>3. s[2] = "fill_file"
      BY <1>3, <1>6
  <2>4. Tail(s) = <<Tail(s)[1]>>
    <3> QED BY <2>1, <1>2, Single
  <2> QED BY <2>2, <2>3, <2>4
<1> QED BY <1>2, <1>4, <1>5, <1>6

(***************************************************************************)
(* What others do, and the steps that set nothing.                          *)
(***************************************************************************)

Outcomes == {"ok", "error", "declined", "nothing", "dry_run"}
Setting ==
  Reading \cup Loading \cup FindingPart \cup Naming \cup Changing \cup ChangingPart
    \cup Configuring \cup Questions \cup {"warn", "confirm_file"}

LEMMA OpsApart ==
  /\ \A op \in Rewrites \cup PicksContext \cup {"context_copy"} : op \notin WorksOnKeys
  /\ \A op \in NamesFile \cup PicksContext : op \notin Rewrites
  /\ \A op \in NamesFile : op \notin PicksContext
BY KeyOps DEF Rewrites, PicksContext, NamesFile

(* What was written for a command to be fine stays so.                      *)
LEMMA OverwritesNoKeys ==
  ASSUME NEW job, NEW a \in Overwriting(job.op), Suits(job, a)
  PROVE  job.op \notin WorksOnKeys
<1>1. CASE job.op = "stream_edit"
    BY <1>1, KeyOps
<1>2. CASE job.op # "stream_edit"
  <2>1. a = "update_stream" \/ a = "save_context"
      BY <1>2 DEF Overwriting
  <2>2. CASE a = "update_stream"
    <3>1. job.op \in {"stream_edit", "kv_edit", "object_edit"}
        BY <2>2 DEF Suits
    <3> QED BY <3>1, KeyOps
  <2>3. CASE a = "save_context"
    <3>1. job.op \in {"context_save", "context_copy", "context_edit"}
        BY <2>3 DEF Suits
    <3> QED BY <3>1, KeyOps
  <2> QED BY <2>1, <2>2, <2>3
<1> QED BY <1>1, <1>2

LEMMA ReliesStay ==
  ASSUME NEW jobs, NEW as, NEW bs, NEW c, NEW a, Relies(jobs, c, a, as), Suits(c.job, a),
         Named(c), GoodChange(jobs, as, bs)
  PROVE  Relies(jobs, c, a, bs)
<1>1. a \in OnKeys(c.job.op) => OnKeysNow(c, bs)
    BY DEF Relies, OnKeysNow, GoodChange
<1>2. ASSUME a \in Overwriting(c.job.op) PROVE NewFits(jobs, c, bs)
  <2>1. c.asset \in Assets => ~IsKeys(c.asset)
      BY <1>2, OverwritesNoKeys DEF Named
  <2>2. NewFits(jobs, c, as)
      BY <1>2 DEF Relies
  <2> QED BY <2>1, <2>2 DEF NewFits, GoodChange
<1> QED BY <1>1, <1>2 DEF Relies

LEMMA SawWellStays ==
  ASSUME NEW jobs, NEW as, NEW bs, NEW c, SawWell(jobs, c, as), Named(c),
         GoodChange(jobs, as, bs)
  PROVE  SawWell(jobs, c, bs)
<1>1. c.job.op \in Rewrites => c.job.op \notin WorksOnKeys
    BY OpsApart
<1>2. c.asset \in Assets /\ c.job.op \in Rewrites /\ ~Original(as[c.asset]) => ~Original(bs[c.asset])
    BY <1>1 DEF Named, GoodChange
<1> QED BY <1>2 DEF SawWell

LEMMA HeadSuits ==
  ASSUME NEW job, NEW s, Orderly(job, s), s # <<>>
  PROVE  Suits(job, Head(s))
BY OrderlyTail

LEMMA FineStays ==
  ASSUME NEW jobs, NEW p, NEW as, NEW bs, NEW c, CommandFine(jobs, p, c, as),
         GoodChange(jobs, as, bs)
  PROVE  CommandFine(jobs, p, c, bs)
<1>1. SawWell(jobs, c, bs)
    BY SawWellStays DEF CommandFine
<1>2. ASSUME c.steps # <<>> PROVE Relies(jobs, c, Head(c.steps), bs)
  <2>1. Suits(c.job, Head(c.steps))
      BY <1>2, HeadSuits DEF CommandFine
  <2> QED BY <2>1, <1>2, ReliesStay DEF CommandFine
<1> QED BY <1>1, <1>2 DEF CommandFine

LEMMA Stopped ==
  ASSUME NEW jobs, NEW p, NEW as, NEW c, CommandFine(jobs, p, c, as), NEW o \in Outcomes,
         NEW d, d = [c EXCEPT !.steps = <<>>, !.outcome = o]
  PROVE  CommandFine(jobs, p, d, as)
<1>1. /\ IsCommand(d) /\ d.job = c.job /\ d.steps = <<>> /\ d.outcome = o /\ d.asset = c.asset
      /\ d.item = c.item /\ d.seen = c.seen /\ d.new = c.new /\ d.base = c.base /\ d.old = c.old
      /\ d.warned = c.warned /\ d.agreed = c.agreed /\ d.picked = c.picked /\ d.did = c.did
    BY DEF CommandFine, IsCommand
<1>2. Orderly(d.job, d.steps)
    BY <1>1, OrderlyEnds
<1>3. Typed(d)
    BY <1>1 DEF CommandFine, Typed, Outcomes
<1>4. Named(d)
    BY <1>1 DEF CommandFine, Named
<1>5. SawWell(jobs, d, as)
    BY <1>1 DEF CommandFine, SawWell
<1>6. DidWell(d)
    BY <1>1 DEF CommandFine, DidWell, DidOne, Consented
<1> QED BY <1>1, <1>2, <1>3, <1>4, <1>5, <1>6 DEF CommandFine

(* A command goes on when what its next step relies on holds.               *)
LEMMA Advanced ==
  ASSUME NEW jobs, NEW p, NEW as, NEW c, CommandFine(jobs, p, c, as), c.steps # <<>>,
         NEW d, IsCommand(d), d.job = c.job, d.steps = Tail(c.steps), d.did = c.did,
         c.agreed \subseteq d.agreed, c.picked \subseteq d.picked, c.warned => d.warned,
         Head(c.steps) = "fill_file" => d.seen = c.seen,
         Typed(d), Named(d), SawWell(jobs, d, as),
         \A b : Follows(c.job, Head(c.steps), b) /\ Suits(c.job, b) => Relies(jobs, d, b, as)
  PROVE  CommandFine(jobs, p, d, as)
<1>1. /\ Orderly(d.job, d.steps)
      /\ d.steps # <<>> => Follows(c.job, Head(c.steps), Head(d.steps)) /\ Suits(c.job, Head(d.steps))
    BY OrderlyTail, HeadSuits DEF CommandFine
<1>2. DidWell(d)
  <2> SUFFICES ASSUME NEW t \in d.did, t.step \in Grave(d.job.op) PROVE DidOne(d, t)
      BY DEF DidWell
  <2>1. DidOne(c, t)
      BY DEF CommandFine, DidWell
  <2>2. c.steps = <<"fill_file">> => d.steps = <<>> /\ d.seen = c.seen
      OBVIOUS
  <2>3. t.step = "create_file" => d.seen = c.seen /\ d.steps = <<>>
      BY <2>1, <2>2 DEF DidOne
  <2>4. Consented(d, t)
      BY <2>1, <2>3 DEF DidOne, Consented
  <2> QED BY <2>1, <2>3, <2>4 DEF DidOne
<1> QED BY <1>1, <1>2 DEF CommandFine

(* Steps that set nothing.                                                  *)
LEMMA ReliesOn ==
  ASSUME NEW jobs, NEW as, NEW c, NEW a, NEW b, NEW d, Relies(jobs, c, a, as), a \notin Setting,
         Follows(c.job, a, b), d.job = c.job, d.asset = c.asset, d.item = c.item,
         d.seen = c.seen, d.new = c.new, d.base = c.base, c.agreed \subseteq d.agreed,
         c.warned => d.warned
  PROVE  Relies(jobs, d, b, as)
<1>1. b \in AfterRead => d.seen # NoAsset
    BY DEF Follows, Setting
<1>2. b \in OnKeys(d.job.op) => OnKeysNow(d, as)
    BY DEF Follows, Setting, Relies, OnKeysNow
<1>3. b \in OnPart => PartSeen(d)
    BY DEF Follows, Setting
<1>4. b \in OnNamed => d.asset \in Assets
    BY DEF Follows, Setting
<1>5. b \in Overwriting(d.job.op) => NewFits(jobs, d, as)
    BY DEF Follows, Setting, Relies, NewFits
<1>6. b \in OverwritingPart(d.job.op) => Kept(jobs, d.new)
    BY DEF Follows, Setting, Relies
<1>7. b \in Creating => Meant(jobs, d.new)
    BY DEF Follows, Setting
<1>8. b \in AfterConsent(d.job.op) => Waived(d.job) \/ AskingOf(d) \in d.agreed
    BY DEF Follows, Setting, Relies, AskingOf
<1>9. b = "create_file" => Waived(d.job) \/ d.seen = NoAsset \/ AskingOf(d) \in d.agreed
    BY DEF Follows, Setting
<1>10. b \in AfterWarning(d.job.op) => (Kind[d.asset] = "kv" => d.warned)
    BY DEF Follows, Setting, Relies
<1> QED BY <1>1, <1>2, <1>3, <1>4, <1>5, <1>6, <1>7, <1>8, <1>9, <1>10 DEF Relies

LEMMA Plainly ==
  ASSUME NEW jobs, NEW p, NEW as, NEW c, CommandFine(jobs, p, c, as), c.steps # <<>>,
         Head(c.steps) \notin Setting, NEW d, d = [c EXCEPT !.steps = Tail(@)]
  PROVE  CommandFine(jobs, p, d, as)
<1>1. /\ IsCommand(d) /\ d.job = c.job /\ d.steps = Tail(c.steps) /\ d.outcome = c.outcome
      /\ d.asset = c.asset /\ d.item = c.item /\ d.seen = c.seen /\ d.new = c.new
      /\ d.base = c.base /\ d.old = c.old /\ d.warned = c.warned /\ d.agreed = c.agreed
      /\ d.picked = c.picked /\ d.did = c.did
    BY DEF CommandFine, IsCommand
<1>2. Typed(d)
    BY <1>1 DEF CommandFine, Typed
<1>3. Named(d)
    BY <1>1 DEF CommandFine, Named
<1>4. SawWell(jobs, d, as)
    BY <1>1 DEF CommandFine, SawWell
<1>5. ASSUME NEW b, Follows(c.job, Head(c.steps), b) PROVE Relies(jobs, d, b, as)
  <2>1. Relies(jobs, c, Head(c.steps), as)
      BY DEF CommandFine
  <2>2. c.agreed \subseteq d.agreed /\ (c.warned => d.warned)
      BY <1>1
  <2>3. /\ Head(c.steps) \notin Setting /\ d.job = c.job /\ d.asset = c.asset
        /\ d.item = c.item /\ d.seen = c.seen /\ d.new = c.new /\ d.base = c.base
      BY <1>1
  <2> QED BY <1>5, <2>1, <2>2, <2>3, ReliesOn, Zenon
<1> QED BY <1>1, <1>2, <1>3, <1>4, <1>5, Advanced

LEMMA OneAsset ==
  ASSUME NEW jobs, NEW as, AssetsFine(jobs, as), NEW a, NEW x,
         a \in Assets => /\ x # NoAsset => AssetFine(jobs, IsKeys(a), x)
                         /\ IsKeys(a) /\ as[a] # NoAsset => x # NoAsset
                         /\ ~IsKeys(a) /\ ~Original(as[a]) => ~Original(x),
         NEW bs, bs = [as EXCEPT ![a] = x]
  PROVE  GoodChange(jobs, as, bs)
<1>1. DOMAIN bs = Assets /\ \A b \in Assets : bs[b] = IF b = a THEN x ELSE as[b]
    BY DEF AssetsFine
<1>2. AssetsFine(jobs, bs)
    BY <1>1 DEF AssetsFine
<1> QED BY <1>1, <1>2 DEF GoodChange

LEMMA NoChange ==
  ASSUME NEW jobs, NEW as, AssetsFine(jobs, as)
  PROVE  GoodChange(jobs, as, as)
BY DEF GoodChange

LEMMA StartIsNoProcess == "start" \notin Procs /\ "nobody" \notin Peers
BY AdminServerAssumption

LEMMA AssetsAreThere == NoPart \notin Parts /\ NoAsset \notin AssetRecords
BY AdminServerAssumption

(* What is new is led by one of its own and has nothing in it.              *)
LEMMA NewAssetFine ==
  ASSUME NEW jobs, NEW keys, NEW p \in Procs, NEW cfg, Meant(jobs, cfg)
  PROVE  /\ AssetFine(jobs, keys, NewAsset(cfg, p))
         /\ NewAsset(cfg, p) # NoAsset /\ ~Original(NewAsset(cfg, p))
<1> DEFINE group == CHOOSE g \in SUBSET Peers : Cardinality(g) = 2
           leader == CHOOSE l \in group : TRUE
           new == NewAsset(cfg, p)
<1>1. group \in SUBSET Peers /\ Cardinality(group) = 2
    BY AdminServerAssumption
<1>2. group # {}
    BY <1>1, FS_EmptySet
<1>3. leader \in group
    BY <1>2
<1>4. new = [cfg |-> cfg, by |-> p, sealed |-> FALSE, msgs |-> {}, last |-> 0,
             parts |-> [i \in Items |-> NoPart], leader |-> leader, peers |-> group,
             desired |-> group, moving |-> FALSE]
    BY DEF NewAsset
<1> HIDE DEF group, leader, new
<1>5. new \in AssetRecords
    BY <1>1, <1>3, <1>4 DEF AssetRecords, Meant
<1>6. IsAsset(new)
    BY <1>3, <1>4, <1>5 DEF IsAsset
<1>7. new.by # "start" /\ new # NoAsset
    BY <1>4, <1>5, StartIsNoProcess, AssetsAreThere
<1>8. AssetFine(jobs, keys, new)
    BY <1>4, <1>6, <1>7 DEF AssetFine
<1> QED BY <1>7, <1>8 DEF new, Original

(* An asset whose configuration and parts stay.                             *)
LEMMA Recast ==
  ASSUME NEW jobs, NEW keys, NEW asset, AssetFine(jobs, keys, asset), NEW new, IsAsset(new),
         new.cfg = asset.cfg, new.by = asset.by, new.parts = asset.parts
  PROVE  AssetFine(jobs, keys, new) /\ new # NoAsset
BY AssetsAreThere DEF AssetFine, IsAsset

LEMMA Reconfigured ==
  ASSUME NEW jobs, NEW keys, NEW asset, AssetFine(jobs, keys, asset), NEW cfg, Meant(jobs, cfg),
         asset.by = "start" => Kept(jobs, cfg), NEW new, new = [asset EXCEPT !.cfg = cfg]
  PROVE  AssetFine(jobs, keys, new) /\ new # NoAsset /\ new.by = asset.by
<1>1. asset \in AssetRecords
    BY DEF AssetFine, IsAsset
<1>2. /\ new \in AssetRecords /\ new.cfg = cfg /\ new.by = asset.by /\ new.parts = asset.parts
      /\ new.msgs = asset.msgs /\ new.last = asset.last /\ new.leader = asset.leader
      /\ new.peers = asset.peers
    BY <1>1 DEF AssetRecords, Meant
<1>3. IsAsset(new)
    BY <1>2 DEF AssetFine, IsAsset
<1>4. AssetFine(jobs, keys, new)
    BY <1>2, <1>3 DEF AssetFine
<1>5. new # NoAsset
    BY <1>2, AssetsAreThere
<1> QED BY <1>2, <1>4, <1>5

LEMMA Repartitioned ==
  ASSUME NEW jobs, NEW keys, NEW asset, AssetFine(jobs, keys, asset),
         NEW parts \in [Items -> Parts \cup {NoPart}],
         \A i \in Items : parts[i] # NoPart => PartFine(jobs, keys, parts[i]),
         NEW new, new = [asset EXCEPT !.parts = parts]
  PROVE  AssetFine(jobs, keys, new) /\ new # NoAsset /\ new.by = asset.by
<1>1. asset \in AssetRecords
    BY DEF AssetFine, IsAsset
<1>2. /\ new \in AssetRecords /\ new.cfg = asset.cfg /\ new.by = asset.by /\ new.parts = parts
      /\ new.msgs = asset.msgs /\ new.last = asset.last /\ new.leader = asset.leader
      /\ new.peers = asset.peers
    BY <1>1 DEF AssetRecords
<1>3. IsAsset(new)
    BY <1>2 DEF AssetFine, IsAsset
<1>4. AssetFine(jobs, keys, new)
    BY <1>2, <1>3 DEF AssetFine
<1>5. new # NoAsset
    BY <1>2, AssetsAreThere
<1> QED BY <1>2, <1>4, <1>5

LEMMA OnePart ==
  ASSUME NEW jobs, NEW keys, NEW asset, AssetFine(jobs, keys, asset), NEW i, NEW part,
         i \in Items => part = NoPart \/ PartFine(jobs, keys, part),
         NEW new, new = [asset EXCEPT !.parts[i] = part]
  PROVE  AssetFine(jobs, keys, new) /\ new # NoAsset /\ new.by = asset.by
<1> DEFINE parts == [asset.parts EXCEPT ![i] = part]
<1>1. asset.parts \in [Items -> Parts \cup {NoPart}] /\ asset \in AssetRecords
    BY DEF AssetFine, IsAsset, AssetRecords
<1>2. parts \in [Items -> Parts \cup {NoPart}]
    BY <1>1 DEF PartFine
<1>3. \A j \in Items : parts[j] # NoPart => PartFine(jobs, keys, parts[j])
    BY <1>1 DEF AssetFine
<1>4. new = [asset EXCEPT !.parts = parts]
    BY <1>1 DEF AssetRecords
<1> HIDE DEF parts
<1> QED BY <1>2, <1>3, <1>4, Repartitioned

LEMMA NewPartFine ==
  ASSUME NEW jobs, NEW keys, NEW p \in Procs, NEW cfg, NEW leader \in Peers \cup {"nobody"},
         NEW peers \in SUBSET Peers, Meant(jobs, cfg), ~keys => Kept(jobs, cfg)
  PROVE  PartFine(jobs, keys,
           [cfg |-> cfg, by |-> p, paused |-> FALSE, pinned |-> FALSE, position |-> 0,
            acked |-> 0, leader |-> leader, peers |-> peers])
BY StartIsNoProcess DEF PartFine, Parts, Meant

LEMMA PartReconfigured ==
  ASSUME NEW jobs, NEW keys, NEW part, PartFine(jobs, keys, part), NEW cfg, Meant(jobs, cfg),
         ~keys \/ part.by = "start" => Kept(jobs, cfg)
  PROVE  PartFine(jobs, keys, [part EXCEPT !.cfg = cfg])
BY DEF PartFine, Parts, Meant

LEMMA KeptIsMeant ==
  ASSUME NEW jobs, NEW cfg, Kept(jobs, cfg)
  PROVE  Meant(jobs, cfg)
BY DEF Kept, Meant

(* What a command has done is noted with what it was allowed to.            *)
LEMMA DeedFine ==
  ASSUME NEW jobs, NEW p, NEW as, NEW c, CommandFine(jobs, p, c, as), c.steps # <<>>,
         NEW a, NEW i, NEW r, a \in Grave(c.job.op) => a = Head(c.steps), a # "create_file",
         a = "revert_key" => r = c.base, i = c.item \/ IsIn(c.job, i),
         NEW d, d = [c EXCEPT !.did = @ \cup {[step |-> a, asset |-> c.asset, item |-> i,
                                               rev |-> r]}]
  PROVE  CommandFine(jobs, p, d, as)
<1> DEFINE deed == [step |-> a, asset |-> c.asset, item |-> i, rev |-> r]
<1>1. /\ IsCommand(d) /\ d.job = c.job /\ d.steps = c.steps /\ d.outcome = c.outcome
      /\ d.asset = c.asset /\ d.item = c.item /\ d.seen = c.seen /\ d.new = c.new
      /\ d.base = c.base /\ d.old = c.old /\ d.warned = c.warned /\ d.agreed = c.agreed
      /\ d.picked = c.picked /\ d.did = c.did \cup {deed}
    BY DEF CommandFine, IsCommand
<1>2. deed.step = a /\ deed.asset = c.asset /\ deed.item = i /\ deed.rev = r
    OBVIOUS
<1> HIDE DEF deed
<1>3. Orderly(d.job, d.steps) /\ d.job = jobs[p]
    BY <1>1 DEF CommandFine
<1>4. Typed(d)
    BY <1>1 DEF CommandFine, Typed
<1>5. Named(d)
    BY <1>1 DEF CommandFine, Named
<1>6. SawWell(jobs, d, as)
    BY <1>1 DEF CommandFine, SawWell
<1>7. Relies(jobs, d, Head(d.steps), as)
  <2>1. Relies(jobs, c, Head(c.steps), as)
      BY DEF CommandFine
  <2> QED BY <2>1, <1>1 DEF Relies, OnKeysNow, PartSeen, NewFits, AskingOf
<1>8. ASSUME a \in Grave(c.job.op) PROVE DidOne(d, deed)
  <2>1. Relies(jobs, c, a, as) /\ Suits(c.job, a)
      BY <1>8, HeadSuits DEF CommandFine
  <2>2. a \in AfterConsent(c.job.op)
      BY <1>8 DEF AfterConsent
  <2>3. c.job.op \in WarnsOfBuckets => a \in AfterWarning(c.job.op)
      BY <1>8 DEF WarnsOfBuckets, AfterWarning, Grave
  <2>4. Waived(c.job) \/ AskingOf(c) \in c.agreed
      BY <2>1, <2>2 DEF Relies
  <2>5. Kind[c.asset] = "kv" /\ c.job.op \in WarnsOfBuckets => c.warned
      BY <2>1, <2>3 DEF Relies
  <2>6. c.job.op \notin PicksContext
      BY <2>1, <1>8 DEF Suits, Grave, PicksContext
  <2>7. CASE AskingOf(c) \in c.agreed
    <3>1. /\ AskingOf(c).asset = c.asset /\ AskingOf(c).item = c.item
          /\ AskingOf(c).rev = c.base
        BY DEF AskingOf
    <3>2. Consented(d, deed)
        BY <2>7, <3>1, <1>1, <1>2 DEF Consented
    <3> QED BY <2>5, <3>2, <1>1, <1>2 DEF DidOne
  <2>8. CASE c.job.force
    <3>1. /\ IsKeys(c.asset) \/ c.asset \in {c.job.asset, c.job.to}
          /\ c.item \in {c.job.item} \cup c.picked
        BY <2>6, <2>8 DEF CommandFine, Named
    <3>2. Consented(d, deed)
        BY <2>8, <3>1, <1>1, <1>2 DEF Consented
    <3> QED BY <2>5, <3>2, <1>1, <1>2 DEF DidOne
  <2>9. CASE c.job.op \in NeverAsks
      BY <2>5, <2>9, <1>1, <1>2 DEF DidOne, Consented
  <2> QED BY <2>4, <2>7, <2>8, <2>9 DEF Waived
<1>9. DidWell(d)
  <2> SUFFICES ASSUME NEW t \in d.did, t.step \in Grave(d.job.op) PROVE DidOne(d, t)
      BY DEF DidWell
  <2>1. CASE t = deed
      BY <2>1, <1>1, <1>2, <1>8
  <2>2. CASE t \in c.did
      BY <2>2, <1>1 DEF CommandFine, DidWell, DidOne, Consented
  <2> QED BY <2>1, <2>2, <1>1
<1> QED BY <1>1, <1>3, <1>4, <1>5, <1>6, <1>7, <1>9 DEF CommandFine

LEMMA Becoming ==
  ASSUME NEW jobs, Inv(jobs), NEW p \in Procs, NEW d, Becomes(p, d),
         GoodChange(jobs, assets, assets'), SelectionOK', CommandFine(jobs, p, d, assets')
  PROVE  Inv(jobs)'
<1>1. AssetsFine(jobs, assets')
    BY DEF GoodChange
<1>2. DOMAIN cmd' = Procs /\ \A q \in Procs : cmd'[q] = IF q = p THEN d ELSE cmd[q]
    BY DEF Inv, Becomes
<1>3. ASSUME NEW q \in Procs PROVE CommandFine(jobs, q, cmd'[q], assets')
  <2>1. CommandFine(jobs, q, cmd[q], assets)
      BY DEF Inv
  <2>2. CommandFine(jobs, q, cmd[q], assets')
      BY <2>1, FineStays
  <2> QED BY <2>2, <1>2
<1> QED BY <1>1, <1>2, <1>3 DEF Inv

LEMMA KeepsWell ==
  ASSUME NEW jobs, Inv(jobs), Keeps
  PROVE  GoodChange(jobs, assets, assets') /\ SelectionOK' /\ assets' = assets
BY NoChange DEF Inv, Keeps, SelectionOK

LEMMA FineNow ==
  ASSUME NEW jobs, Inv(jobs), NEW p \in Procs, GoodChange(jobs, assets, assets')
  PROVE  CommandFine(jobs, p, cmd[p], assets')
BY FineStays DEF Inv

LEMMA EndsWell ==
  ASSUME NEW jobs, Inv(jobs), NEW p \in Procs, NEW o \in Outcomes, Ends(p, o),
         GoodChange(jobs, assets, assets'), SelectionOK'
  PROVE  Inv(jobs)'
<1> DEFINE d == [cmd[p] EXCEPT !.steps = <<>>, !.outcome = o]
<1>1. CommandFine(jobs, p, cmd[p], assets')
    BY FineNow
<1>2. CommandFine(jobs, p, d, assets')
    BY <1>1, Stopped
<1>3. Becomes(p, d)
    BY DEF Ends
<1> QED BY <1>2, <1>3, Becoming

LEMMA GivesUp ==
  ASSUME NEW jobs, Inv(jobs), NEW p \in Procs, NEW o \in Outcomes, Ends(p, o), Keeps
  PROVE  Inv(jobs)'
BY EndsWell, KeepsWell

LEMMA GoesOn ==
  ASSUME NEW jobs, Inv(jobs), NEW p \in Procs, NEW step, At(p, step), step \notin Setting,
         Proceeds(p, cmd[p]), GoodChange(jobs, assets, assets'), SelectionOK'
  PROVE  Inv(jobs)'
<1> DEFINE d == [cmd[p] EXCEPT !.steps = Tail(@)]
<1>1. CommandFine(jobs, p, cmd[p], assets')
    BY FineNow
<1>2. cmd[p].steps # <<>> /\ Head(cmd[p].steps) \notin Setting
    BY DEF At
<1>3. CommandFine(jobs, p, d, assets')
    BY <1>1, <1>2, Plainly
<1>4. Becomes(p, d)
    BY DEF Proceeds
<1> QED BY <1>3, <1>4, Becoming

LEMMA PassesBy ==
  ASSUME NEW jobs, Inv(jobs), NEW p \in Procs, NEW step, At(p, step), step \notin Setting,
         Proceeds(p, cmd[p]), Keeps
  PROVE  Inv(jobs)'
BY GoesOn, KeepsWell

(* A request does what it is asked to, or nothing.                          *)
LEMMA RequestFine ==
  ASSUME NEW jobs, Inv(jobs), NEW p \in Procs, NEW step, NEW accepted, NEW new,
         Request(p, step, accepted, new), step \notin Setting \cup {"create_file"},
         accepted => GoodChange(jobs, assets, new),
         accepted /\ step = "revert_key" => Deed(p, step).rev = cmd[p].base
  PROVE  Inv(jobs)'
<1>1. CASE Ends(p, "error") /\ Keeps
    BY <1>1, GivesUp DEF Outcomes
<1>2. CASE /\ accepted
           /\ assets' = new /\ UNCHANGED selection
           /\ LET done == [cmd[p] EXCEPT !.did = @ \cup {Deed(p, step)}]
              IN \/ Proceeds(p, done)
                 \/ Becomes(p, [done EXCEPT !.steps = <<>>, !.outcome = "error"])
  <2> DEFINE done == [cmd[p] EXCEPT !.did = @ \cup {Deed(p, step)}]
  <2>1. GoodChange(jobs, assets, assets') /\ SelectionOK'
      BY <1>2 DEF Inv, SelectionOK
  <2>2. CommandFine(jobs, p, cmd[p], assets')
      BY <2>1, FineNow
  <2>3. cmd[p].steps # <<>> /\ Head(cmd[p].steps) = step
      BY DEF Request, At
  <2>4. /\ Deed(p, step) = [step |-> step, asset |-> cmd[p].asset, item |-> Target(p, step),
                            rev |-> Deed(p, step).rev]
        /\ step = "revert_key" => Deed(p, step).rev = cmd[p].base
      BY <1>2 DEF Deed, Name
  <2>5. CommandFine(jobs, p, done, assets')
    <3>1. PICK r : r = Deed(p, step).rev
        OBVIOUS
    <3>2. PICK i : i = Target(p, step)
        OBVIOUS
    <3>3. done = [cmd[p] EXCEPT !.did = @ \cup {[step |-> step, asset |-> cmd[p].asset,
                                                item |-> i, rev |-> r]}]
        BY <3>1, <3>2, <2>4
    <3>4. step = "revert_key" => r = cmd[p].base
        BY <3>1, <2>4
    <3>5. i = cmd[p].item \/ IsIn(cmd[p].job, i)
        BY <3>2 DEF Target, FileNames, IsIn, Item
    <3> HIDE DEF done
    <3> QED BY <2>2, <2>3, <3>3, <3>4, <3>5, DeedFine
  <2>6. done.steps = cmd[p].steps
      BY <2>2 DEF CommandFine, IsCommand
  <2>7. Proceeds(p, done) \/ Becomes(p, [done EXCEPT !.steps = <<>>, !.outcome = "error"])
      BY <1>2
  <2> HIDE DEF done
  <2>8. CASE Proceeds(p, done)
    <3>1. CommandFine(jobs, p, [done EXCEPT !.steps = Tail(@)], assets')
        BY <2>5, <2>6, <2>3, Plainly
    <3> QED BY <3>1, <2>8, <2>1, Becoming DEF Proceeds
  <2>9. CASE Becomes(p, [done EXCEPT !.steps = <<>>, !.outcome = "error"])
    <3>1. CommandFine(jobs, p, [done EXCEPT !.steps = <<>>, !.outcome = "error"], assets')
        BY <2>5, Stopped DEF Outcomes
    <3> QED BY <3>1, <2>9, <2>1, Becoming
  <2> QED BY <2>7, <2>8, <2>9
<1> QED BY <1>1, <1>2 DEF Request

(* What a step provides for the next one.                                   *)
Saves ==
  {"stream_edit", "kv_edit", "object_edit", "context_save", "context_copy", "context_edit"}

Provides(jobs, c, a, as) ==
  /\ a \in Reading => c.seen # NoAsset
  /\ a \in Loading \cup OnKeys(c.job.op) => OnKeysNow(c, as)
  /\ a \in FindingPart => PartSeen(c)
  /\ a \in Naming => c.asset \in Assets
  /\ a \in Changing \cup Overwriting(c.job.op) /\ c.job.op \in Saves => NewFits(jobs, c, as)
  /\ a \in ChangingPart \cup OverwritingPart(c.job.op) => Kept(jobs, c.new)
  /\ a \in Configuring => Meant(jobs, c.new)
  /\ a \in Questions \cup AfterConsent(c.job.op) => Waived(c.job) \/ AskingOf(c) \in c.agreed
  /\ a = "confirm_file" => Waived(c.job) \/ c.seen = NoAsset \/ AskingOf(c) \in c.agreed
  /\ a \in {"warn"} \cup AfterWarning(c.job.op) => (Kind[c.asset] = "kv" => c.warned)

LEMMA ProvidesEnough ==
  ASSUME NEW jobs, NEW c, NEW a, NEW b, NEW as, Provides(jobs, c, a, as),
         Follows(c.job, a, b), Suits(c.job, b)
  PROVE  Relies(jobs, c, b, as)
<1>1. b \in AfterRead => c.seen # NoAsset
    BY DEF Follows, Provides
<1>2. b \in OnKeys(c.job.op) => OnKeysNow(c, as)
    BY DEF Follows, Provides
<1>3. b \in OnPart => PartSeen(c)
    BY DEF Follows, Provides
<1>4. b \in OnNamed => c.asset \in Assets
    BY DEF Follows, Provides
<1>5. b \in Overwriting(c.job.op) => NewFits(jobs, c, as)
    BY DEF Follows, Provides, Suits, Overwriting, Saves
<1>6. b \in OverwritingPart(c.job.op) => Kept(jobs, c.new)
    BY DEF Follows, Provides
<1>7. b \in Creating => Meant(jobs, c.new)
    BY DEF Follows, Provides
<1>8. b \in AfterConsent(c.job.op) => Waived(c.job) \/ AskingOf(c) \in c.agreed
    BY DEF Follows, Provides
<1>9. b = "create_file" => Waived(c.job) \/ c.seen = NoAsset \/ AskingOf(c) \in c.agreed
    BY DEF Follows, Provides
<1>10. b \in AfterWarning(c.job.op) => (Kind[c.asset] = "kv" => c.warned)
    BY DEF Follows, Provides
<1> QED BY <1>1, <1>2, <1>3, <1>4, <1>5, <1>6, <1>7, <1>8, <1>9, <1>10 DEF Relies

LEMMA CommandIs ==
  ASSUME NEW jobs, Inv(jobs), NEW p \in Procs
  PROVE  /\ IsCommand(cmd[p]) /\ cmd[p].job = jobs[p]
         /\ Typed(cmd[p]) /\ Named(cmd[p]) /\ SawWell(jobs, cmd[p], assets)
         /\ DidWell(cmd[p])
         /\ Orderly(cmd[p].job, cmd[p].steps)
BY DEF Inv, CommandFine

LEMMA ReliedOn ==
  ASSUME NEW jobs, Inv(jobs), NEW p \in Procs, NEW step, At(p, step)
  PROVE  Relies(jobs, cmd[p], step, assets) /\ Suits(cmd[p].job, step)
<1>1. CommandFine(jobs, p, cmd[p], assets) /\ cmd[p].steps # <<>> /\ Head(cmd[p].steps) = step
    BY DEF Inv, At
<1> QED BY <1>1, HeadSuits DEF CommandFine

LEMMA Advances ==
  ASSUME NEW jobs, Inv(jobs), NEW p \in Procs, NEW step, At(p, step), step # "fill_file", Keeps,
         NEW e, Proceeds(p, e), IsCommand(e), e.job = cmd[p].job, e.steps = cmd[p].steps,
         e.did = cmd[p].did, cmd[p].agreed \subseteq e.agreed, cmd[p].picked \subseteq e.picked,
         cmd[p].warned => e.warned, Typed(e), Named(e), SawWell(jobs, e, assets),
         Provides(jobs, e, step, assets)
  PROVE  Inv(jobs)'
<1> DEFINE c == cmd[p]
           d == [e EXCEPT !.steps = Tail(@)]
<1>1. CommandFine(jobs, p, c, assets) /\ c.steps # <<>> /\ Head(c.steps) = step
    BY DEF Inv, At
<1>2. /\ IsCommand(d) /\ d.job = e.job /\ d.steps = Tail(c.steps) /\ d.outcome = e.outcome
      /\ d.asset = e.asset /\ d.item = e.item /\ d.seen = e.seen /\ d.new = e.new
      /\ d.base = e.base /\ d.old = e.old /\ d.warned = e.warned /\ d.agreed = e.agreed
      /\ d.picked = e.picked /\ d.did = e.did
  <2>1. PICK t : t = Tail(e.steps)
      OBVIOUS
  <2>2. d = [e EXCEPT !.steps = t]
      BY <2>1
  <2>3. t = Tail(c.steps)
      BY <2>1
  <2> HIDE DEF d
  <2> QED BY <2>2, <2>3 DEF IsCommand
<1>3. Typed(d) /\ Named(d) /\ SawWell(jobs, d, assets)
    BY <1>2 DEF Typed, Named, SawWell
<1>4. Provides(jobs, d, step, assets)
    BY <1>2 DEF Provides, OnKeysNow, PartSeen, NewFits, AskingOf
<1>5. d.job = c.job /\ d.did = c.did /\ c.agreed \subseteq d.agreed /\ c.picked \subseteq d.picked
      /\ (c.warned => d.warned)
    BY <1>2
<1>6. Becomes(p, d)
    BY DEF Proceeds
<1> HIDE DEF c, d
<1>7. \A b : Follows(c.job, Head(c.steps), b) /\ Suits(c.job, b) => Relies(jobs, d, b, assets)
    BY <1>1, <1>4, <1>5, ProvidesEnough
<1>8. CommandFine(jobs, p, d, assets)
    BY <1>1, <1>2, <1>3, <1>5, <1>7, Advanced
<1> QED BY <1>6, <1>8, KeepsWell, Becoming

LEMMA Loosened ==
  ASSUME NEW jobs, NEW asset, NEW keys, AssetFine(jobs, keys, asset), NEW more, keys => more
  PROVE  AssetFine(jobs, more, asset)
BY DEF AssetFine, PartFine

(* A fresh look at an asset.                                                *)
LEMMA FreshLook ==
  ASSUME NEW jobs, Inv(jobs), NEW p \in Procs, NEW a \in Assets, assets[a] # NoAsset,
         cmd[p].job.op \notin WorksOnKeys => ~IsKeys(a)
  PROVE  /\ AssetFine(jobs, cmd[p].job.op \in WorksOnKeys, assets[a])
         /\ assets[a].by # "start" => ~Original(assets[a])
<1>1. AssetFine(jobs, IsKeys(a), assets[a])
    BY DEF Inv, AssetsFine
<1>2. IsKeys(a) => cmd[p].job.op \in WorksOnKeys
    OBVIOUS
<1>3. AssetFine(jobs, cmd[p].job.op \in WorksOnKeys, assets[a])
    BY <1>1, <1>2 DEF AssetFine, PartFine
<1> QED BY <1>3 DEF Original

LEMMA Sees ==
  ASSUME NEW jobs, Inv(jobs), NEW p \in Procs, NEW step, At(p, step), Keeps,
         step \in {"load_stream", "load_consumer", "look", "find_meta_leader", "find_context"},
         Exists(Name(p)), step = "load_consumer" => HasPart(Name(p), Item(p)),
         Proceeds(p, [cmd[p] EXCEPT !.seen = assets[Name(p)]])
  PROVE  Inv(jobs)'
<1> DEFINE c == cmd[p]
           e == [cmd[p] EXCEPT !.seen = assets[Name(p)]]
<1>1. IsCommand(c) /\ Typed(c) /\ Named(c) /\ SawWell(jobs, c, assets) /\ Relies(jobs, c, step, assets)
    BY CommandIs, ReliedOn
<1>2. /\ IsCommand(e) /\ e.job = c.job /\ e.steps = c.steps /\ e.outcome = c.outcome
      /\ e.asset = c.asset /\ e.item = c.item /\ e.seen = assets[c.asset] /\ e.new = c.new
      /\ e.base = c.base /\ e.old = c.old /\ e.warned = c.warned /\ e.agreed = c.agreed
      /\ e.picked = c.picked /\ e.did = c.did
    BY <1>1 DEF IsCommand, Name
<1>3. c.asset \in Assets /\ assets[c.asset] # NoAsset
    BY DEF Exists, Name
<1>4. Typed(e) /\ Named(e)
    BY <1>1, <1>2 DEF Typed, Named
<1>5. SawWell(jobs, e, assets)
    BY <1>1, <1>2, <1>3, FreshLook DEF SawWell, Named
<1>6. Provides(jobs, e, step, assets)
  <2>1. step = "load_consumer" => PartSeen(e)
      BY <1>2 DEF HasPart, PartSeen, Name, Item
  <2>2. step # "fill_file" /\ step \notin Loading \cup OnKeys(e.job.op) \cup Naming \cup Changing
          \cup Overwriting(e.job.op) \cup ChangingPart \cup OverwritingPart(e.job.op)
          \cup Configuring \cup Questions \cup {"confirm_file", "warn"}
      BY DEF Loading, OnKeys, Naming, Changing, Overwriting, ChangingPart, OverwritingPart,
             Configuring, Questions
  <2>3. step \in AfterConsent(e.job.op) => Waived(e.job) \/ AskingOf(e) \in e.agreed
      BY <1>1, <1>2 DEF Relies, AskingOf
  <2>4. step \in AfterWarning(e.job.op) => (Kind[e.asset] = "kv" => e.warned)
      BY <1>1, <1>2 DEF Relies
  <2>5. step \in FindingPart => step = "load_consumer"
      BY DEF FindingPart
  <2> QED BY <1>2, <1>3, <2>1, <2>2, <2>3, <2>4, <2>5 DEF Provides
<1>7. step # "fill_file" /\ e.job = c.job /\ e.did = c.did /\ c.agreed \subseteq e.agreed
      /\ c.picked \subseteq e.picked /\ (c.warned => e.warned) /\ Proceeds(p, e)
    BY <1>2
<1> HIDE DEF e
<1> QED BY <1>2, <1>4, <1>5, <1>6, <1>7, Advances

(* Steps that only look, and go on or give up.                              *)
LooksOnly ==
  {"show", "show_consumer", "diff", "find_move", "look_for_leaders", "detect_clusters", "find_streams",
   "find_pause", "find_pinned", "read_revision", "find_object", "read_keys", "refuse_file",
   "refuse_if_selected", "find_source", "select_its_operator", "read_selected", "await_leader",
   "await_meta_leader", "await_evacuation", "await_end_of_move", "await_consumer_evacuation",
   "await_consumer_leader", "unselect_if_selected", "seal_stream", "rescue", "acknowledge",
   "confirm_replacement"}

LEMMA LooksSetNothing == \A step \in LooksOnly : step \notin Setting
BY DEF LooksOnly, Setting, Reading, Loading, FindingPart, Naming, Changing, ChangingPart,
       Configuring, Questions

LEMMA LooksOn ==
  ASSUME NEW jobs, Inv(jobs), NEW p \in Procs, NEW step \in LooksOnly, At(p, step),
         Proceeds(p, cmd[p]), Keeps
  PROVE  Inv(jobs)'
BY LooksSetNothing, PassesBy

LEMMA LooksFine ==
  ASSUME NEW jobs, Inv(jobs), NEW p \in Procs,
         \/ Show(p) \/ ShowConsumer(p) \/ Diff(p) \/ FindMove(p) \/ LookForLeaders(p)
         \/ DetectClusters(p) \/ FindStreams(p) \/ FindPause(p) \/ FindPinned(p) \/ ReadRevision(p) \/ FindObject(p)
         \/ ReadKeys(p) \/ RefuseFile(p) \/ RefuseIfSelected(p) \/ FindSource(p)
         \/ SelectItsOperator(p) \/ ReadSelected(p)
  PROVE  Inv(jobs)'
<1> USE DEF LooksOnly, Outcomes
<1>1. CASE Show(p)
    BY <1>1, LooksOn DEF Show
<1>2. CASE ShowConsumer(p)
    BY <1>2, LooksOn DEF ShowConsumer
<1>3. CASE Diff(p)
    BY <1>3, LooksOn, GivesUp DEF Diff
<1>4. CASE FindMove(p)
    BY <1>4, LooksOn, GivesUp DEF FindMove
<1>5. CASE LookForLeaders(p)
    BY <1>5, LooksOn, GivesUp DEF LookForLeaders
<1>6. CASE FindStreams(p)
    BY <1>6, LooksOn, GivesUp DEF FindStreams
<1>6a. CASE DetectClusters(p)
    BY <1>6a, LooksOn DEF DetectClusters
<1>7. CASE FindPause(p)
    BY <1>7, LooksOn, GivesUp DEF FindPause, Finds
<1>8. CASE FindPinned(p)
    BY <1>8, LooksOn, GivesUp DEF FindPinned, Finds
<1>9. CASE ReadRevision(p)
    BY <1>9, LooksOn DEF ReadRevision
<1>10. CASE FindObject(p)
    BY <1>10, LooksOn DEF FindObject
<1>11. CASE ReadKeys(p)
    BY <1>11, LooksOn DEF ReadKeys
<1>12. CASE RefuseFile(p)
    BY <1>12, LooksOn, GivesUp DEF RefuseFile
<1>13. CASE RefuseIfSelected(p)
    BY <1>13, LooksOn, GivesUp DEF RefuseIfSelected
<1>14. CASE FindSource(p)
    BY <1>14, LooksOn, GivesUp DEF FindSource
<1>15. CASE SelectItsOperator(p)
    BY <1>15, LooksOn DEF SelectItsOperator
<1>16. CASE ReadSelected(p)
    BY <1>16, LooksOn, GivesUp DEF ReadSelected
<1> QED BY <1>1, <1>2, <1>3, <1>4, <1>5, <1>6, <1>6a, <1>7, <1>8, <1>9, <1>10, <1>11, <1>12, <1>13,
           <1>14, <1>15, <1>16

(* The waits; that for a consumer's leader may never end.                   *)
LEMMA AwaitsFine ==
  ASSUME NEW jobs, Inv(jobs), NEW p \in Procs, Awaits(p)
  PROVE  Inv(jobs)'
<1> USE DEF LooksOnly, Outcomes
<1>1. CASE AwaitLeader(p)
    BY <1>1, LooksOn, GivesUp DEF AwaitLeader, Waits
<1>2. CASE AwaitMetaLeader(p)
    BY <1>2, LooksOn, GivesUp DEF AwaitMetaLeader, Waits
<1>3. CASE AwaitEvacuation(p)
    BY <1>3, LooksOn, GivesUp DEF AwaitEvacuation, Waits
<1>4. CASE AwaitEndOfMove(p)
    BY <1>4, LooksOn DEF AwaitEndOfMove
<1>5. CASE AwaitConsumerEvacuation(p)
    BY <1>5, LooksOn, GivesUp DEF AwaitConsumerEvacuation, Waits
<1>6. CASE AwaitConsumerLeader(p)
  <2>1. CASE Proceeds(p, cmd[p])
      BY <1>6, <2>1, LooksOn DEF AwaitConsumerLeader
  <2>2. CASE Becomes(p, [cmd[p] EXCEPT !.steps = <<"next_tick">>])
    <3> DEFINE c == cmd[p]
               d == [c EXCEPT !.steps = <<"next_tick">>]
    <3>1. CommandFine(jobs, p, c, assets) /\ At(p, "await_consumer_leader") /\ Keeps
        BY <1>6 DEF Inv, AwaitConsumerLeader
    <3>2. /\ IsCommand(d) /\ d.job = c.job /\ d.steps = <<"next_tick">> /\ d.outcome = c.outcome
          /\ d.asset = c.asset /\ d.item = c.item /\ d.seen = c.seen /\ d.new = c.new
          /\ d.base = c.base /\ d.old = c.old /\ d.warned = c.warned /\ d.agreed = c.agreed
          /\ d.picked = c.picked /\ d.did = c.did
        BY <3>1 DEF CommandFine, IsCommand
    <3>3. c.steps # <<>> /\ Head(c.steps) = "await_consumer_leader"
        BY <3>1 DEF At
    <3> HIDE DEF c, d
    <3>4. Orderly(d.job, d.steps)
        BY <3>2, OrderlyEnds
    <3>5. Typed(d) /\ Named(d) /\ SawWell(jobs, d, assets)
        BY <3>1, <3>2 DEF CommandFine, Typed, Named, SawWell
    <3>6. Relies(jobs, d, Head(d.steps), assets)
      <4>1. Head(d.steps) = "next_tick"
          BY <3>2
      <4>2. Relies(jobs, d, "next_tick", assets)
          BY DEF Relies, AfterRead, OnKeys, OnPart, OnNamed, Overwriting, OverwritingPart,
                 Creating, AfterConsent, AfterWarning, Destructive, Grave
      <4> QED BY <4>1, <4>2
    <3>7. DidWell(d)
      <4>1. c.steps # <<>> /\ c.steps # <<"fill_file">>
          BY <3>3
      <4> QED BY <4>1, <3>1, <3>2 DEF CommandFine, DidWell, DidOne, Consented
    <3>8. CommandFine(jobs, p, d, assets)
        BY <3>1, <3>2, <3>4, <3>5, <3>6, <3>7 DEF CommandFine
    <3>9. assets' = assets /\ GoodChange(jobs, assets, assets') /\ SelectionOK'
        BY <3>1, KeepsWell
    <3> QED BY <3>8, <3>9, <2>2, Becoming DEF c, d
  <2> QED BY <1>6, <2>1, <2>2 DEF AwaitConsumerLeader
<1> QED BY <1>1, <1>2, <1>3, <1>4, <1>5, <1>6 DEF Awaits

(* Anything read may fail, and a command may be interrupted.                *)
LEMMA FailsFine ==
  ASSUME NEW jobs, Inv(jobs), NEW p \in Procs, Interrupted(p) \/ \E step \in Reads : ReadFails(p, step)
  PROVE  Inv(jobs)'
BY GivesUp DEF Interrupted, ReadFails, Outcomes

(* A set of numbers that are no larger than one of them has a largest one.  *)
LEMMA LargestNumber ==
  ASSUME NEW n \in Nat, NEW S, S \subseteq 0..n, S # {}
  PROVE  Max(S) \in S
<1> DEFINE T == {n - x : x \in S}
<1>1. T \subseteq Nat /\ T # {}
  <2>1. ASSUME NEW x \in S PROVE n - x \in Nat
    <3>1. x \in 0..n
        OBVIOUS
    <3> QED BY <3>1
  <2> QED BY <2>1
<1> HIDE DEF T
<1>2. PICK m \in T : \A k \in T : m <= k
    BY <1>1, LeastNumber
<1>3. PICK x \in S : m = n - x
    BY <1>2 DEF T
<1>4. ASSUME NEW y \in S PROVE x >= y
  <2>1. n - y \in T
      BY DEF T
  <2>2. m <= n - y /\ x \in 0..n /\ y \in 0..n
      BY <1>2, <1>3, <2>1
  <2> QED BY <1>3, <2>2
<1> QED BY <1>3, <1>4 DEF Max

LEMMA LatestIsOfKey ==
  ASSUME NEW asset, IsAsset(asset), NEW i
  PROVE  /\ Latest(asset, i) \in Nat
         /\ Revisions(asset, i) \subseteq 0..asset.last /\ asset.last \in Nat
<1>1. asset.last \in Nat /\ asset.msgs \subseteq Messages
    BY DEF IsAsset, AssetRecords
<1>2. \A m \in asset.msgs : m.seq \in 0..asset.last
    BY <1>1 DEF IsAsset, Messages
<1>3. Revisions(asset, i) \subseteq 0..asset.last
    BY <1>2 DEF Revisions
<1> DEFINE S == Revisions(asset, i)
<1>4. CASE S = {}
    BY <1>4, <1>1, <1>3 DEF Latest
<1>5. CASE S # {}
  <2>1. Max(S) \in S
      BY <1>5, <1>1, <1>3, LargestNumber
  <2>2. Latest(asset, i) = Max(S)
      BY <1>5 DEF Latest
  <2> HIDE DEF S
  <2>3. Max(S) \in Nat
      BY <2>1, <1>1, <1>3 DEF S
  <2> QED BY <2>2, <2>3, <1>1, <1>3
<1> QED BY <1>4, <1>5

(* Steps that provide nothing but what was relied on.                       *)
Neutral ==
  {"find_leader", "pick_peer", "find_replica", "find_consumer_leader", "read_history",
   "list_contexts", "read_previous", "select_stream", "look_for_object", "look_for_file",
   "confirm_replacement", "find_consumer"}

LEMMA NeutralProvides ==
  ASSUME NEW jobs, NEW c, NEW a \in Neutral, NEW as
  PROVE  Provides(jobs, c, a, as)
BY DEF Neutral, Provides, Reading, Loading, OnKeys, FindingPart, Naming, Changing, Overwriting,
       ChangingPart, OverwritingPart, Configuring, Questions, AfterConsent, AfterWarning,
       Destructive, Grave

LEMMA NotesOld ==
  ASSUME NEW jobs, Inv(jobs), NEW p \in Procs, NEW step \in Neutral, At(p, step),
         NEW o \in Peers \cup {"nobody", "unknown"}, Proceeds(p, [cmd[p] EXCEPT !.old = o]), Keeps
  PROVE  Inv(jobs)'
<1> DEFINE c == cmd[p]
           e == [c EXCEPT !.old = o]
<1>1. IsCommand(c) /\ Typed(c) /\ Named(c) /\ SawWell(jobs, c, assets)
    BY CommandIs
<1>2. /\ IsCommand(e) /\ e.job = c.job /\ e.steps = c.steps /\ e.outcome = c.outcome
      /\ e.asset = c.asset /\ e.item = c.item /\ e.seen = c.seen /\ e.new = c.new
      /\ e.base = c.base /\ e.old = o /\ e.warned = c.warned /\ e.agreed = c.agreed
      /\ e.picked = c.picked /\ e.did = c.did
    BY <1>1 DEF IsCommand
<1>3. Proceeds(p, e)
    OBVIOUS
<1> HIDE DEF e
<1>4. Typed(e) /\ Named(e) /\ SawWell(jobs, e, assets)
    BY <1>1, <1>2 DEF Typed, Named, SawWell
<1>5. Provides(jobs, e, step, assets)
    BY NeutralProvides
<1>6. step # "fill_file" /\ c.agreed \subseteq e.agreed /\ c.picked \subseteq e.picked
      /\ (c.warned => e.warned)
    BY <1>2 DEF Neutral
<1> QED BY <1>2, <1>3, <1>4, <1>5, <1>6, Advances

LEMMA NotesBase ==
  ASSUME NEW jobs, Inv(jobs), NEW p \in Procs, NEW step \in {"read_history", "expect_servers"},
         At(p, step), NEW b \in Nat, Proceeds(p, [cmd[p] EXCEPT !.base = b]), Keeps
  PROVE  Inv(jobs)'
<1> DEFINE c == cmd[p]
           e == [c EXCEPT !.base = b]
<1>1. /\ IsCommand(c) /\ Typed(c) /\ Named(c) /\ SawWell(jobs, c, assets)
      /\ Relies(jobs, c, step, assets)
    BY CommandIs, ReliedOn
<1>2. /\ IsCommand(e) /\ e.job = c.job /\ e.steps = c.steps /\ e.outcome = c.outcome
      /\ e.asset = c.asset /\ e.item = c.item /\ e.seen = c.seen /\ e.new = c.new
      /\ e.base = b /\ e.old = c.old /\ e.warned = c.warned /\ e.agreed = c.agreed
      /\ e.picked = c.picked /\ e.did = c.did
    BY <1>1 DEF IsCommand
<1>3. Proceeds(p, e)
    OBVIOUS
<1> HIDE DEF e
<1>4. Typed(e) /\ Named(e) /\ SawWell(jobs, e, assets)
    BY <1>1, <1>2 DEF Typed, Named, SawWell
<1>5. Provides(jobs, e, step, assets)
  <2>1. CASE step = "read_history"
      BY <2>1, NeutralProvides DEF Neutral
  <2>2. CASE step = "expect_servers"
    <3>1. OnKeysNow(e, assets)
        BY <2>2, <1>1, <1>2 DEF Relies, OnKeys, OnKeysNow
    <3> QED BY <2>2, <3>1 DEF Provides, Reading, Loading, OnKeys, FindingPart, Naming, Changing,
              Overwriting, ChangingPart, OverwritingPart, Configuring, Questions, AfterConsent,
              AfterWarning, Destructive, Grave
  <2> QED BY <2>1, <2>2
<1>6. step # "fill_file" /\ c.agreed \subseteq e.agreed /\ c.picked \subseteq e.picked
      /\ (c.warned => e.warned)
    BY <1>2
<1> QED BY <1>2, <1>3, <1>4, <1>5, <1>6, Advances

(* Whom a command waits to see go.                                          *)
LEMMA LeadersFine ==
  ASSUME NEW jobs, Inv(jobs), NEW p \in Procs,
         FindLeader(p) \/ PickPeer(p) \/ FindReplica(p) \/ FindConsumerLeader(p)
  PROVE  Inv(jobs)'
<1> USE DEF Neutral, Outcomes
<1> DEFINE seen == cmd[p].seen
<1>0. ASSUME NEW step \in {"find_leader", "pick_peer", "find_replica", "find_consumer_leader"},
             At(p, step)
      PROVE  /\ seen.leader \in Peers \cup {"nobody"} /\ seen.peers \subseteq Peers
             /\ AssetFine(jobs, cmd[p].job.op \in WorksOnKeys, seen)
  <2>1. seen # NoAsset
      BY <1>0, ReliedOn DEF Relies, AfterRead
  <2>2. AssetFine(jobs, cmd[p].job.op \in WorksOnKeys, seen)
      BY <2>1, CommandIs DEF SawWell
  <2> QED BY <2>2 DEF AssetFine, IsAsset, AssetRecords
<1>1. CASE FindLeader(p)
  <2> DEFINE old == IF Leader(p) = "nobody" THEN "unknown" ELSE Leader(p)
  <2>1. old \in Peers \cup {"nobody", "unknown"}
      BY <1>0, <1>1 DEF FindLeader, Leader
  <2>2. At(p, "find_leader") /\ Keeps /\ (Ends(p, "error") \/ Proceeds(p, [cmd[p] EXCEPT !.old = old]))
      BY <1>1 DEF FindLeader
  <2> HIDE DEF old
  <2> QED BY <2>1, <2>2, NotesOld, GivesUp
<1>2. CASE PickPeer(p)
  <2>1. At(p, "pick_peer") /\ Keeps
      BY <1>2 DEF PickPeer
  <2>2. seen.peers \subseteq Peers
      BY <1>0, <2>1
  <2>3. Ends(p, "error") \/ \E o \in Peers : Proceeds(p, [cmd[p] EXCEPT !.old = o])
      BY <1>2, <2>2 DEF PickPeer
  <2>4. CASE Ends(p, "error")
      BY <2>1, <2>4, GivesUp
  <2>5. CASE \E o \in Peers : Proceeds(p, [cmd[p] EXCEPT !.old = o])
    <3>1. PICK o \in Peers : Proceeds(p, [cmd[p] EXCEPT !.old = o])
        BY <2>5
    <3> QED BY <2>1, <3>1, NotesOld
  <2> QED BY <2>3, <2>4, <2>5
<1>3. CASE FindReplica(p)
  <2>1. At(p, "find_replica") /\ Keeps
      BY <1>3 DEF FindReplica
  <2>2. seen.peers \subseteq Peers
      BY <1>0, <2>1
  <2>3. \/ Ends(p, "error")
        \/ cmd[p].job.peer \in Peers /\ Proceeds(p, [cmd[p] EXCEPT !.old = cmd[p].job.peer])
      BY <1>3, <2>2 DEF FindReplica
  <2> QED BY <2>1, <2>3, NotesOld, GivesUp
<1>4. CASE FindConsumerLeader(p)
  <2> DEFINE old == IF Seen(p).leader = "nobody" THEN "unknown" ELSE Seen(p).leader
  <2>1. At(p, "find_consumer_leader") /\ Keeps
      BY <1>4 DEF FindConsumerLeader
  <2>2. PartSeen(cmd[p])
      BY <2>1, ReliedOn DEF Relies, OnPart
  <2>3. Seen(p) \in Parts
      BY <1>0, <2>1, <2>2 DEF AssetFine, PartFine, PartSeen, Seen, Item
  <2>4. old \in Peers \cup {"nobody", "unknown"}
      BY <2>3 DEF Parts
  <2>5. Ends(p, "error") \/ Proceeds(p, [cmd[p] EXCEPT !.old = old])
      BY <1>4 DEF FindConsumerLeader
  <2> HIDE DEF old
  <2> QED BY <2>1, <2>4, <2>5, NotesOld, GivesUp
<1> QED BY <1>1, <1>2, <1>3, <1>4

LEMMA NumbersFine ==
  ASSUME NEW jobs, Inv(jobs), NEW p \in Procs, ReadHistory(p) \/ ExpectServers(p)
  PROVE  Inv(jobs)'
<1>1. CASE ReadHistory(p)
  <2> DEFINE b == Latest(assets[Name(p)], Item(p))
  <2>1. At(p, "read_history") /\ Keeps /\ Exists(Name(p))
        /\ (Ends(p, "error") \/ Proceeds(p, [cmd[p] EXCEPT !.base = b]))
      BY <1>1 DEF ReadHistory
  <2>2. IsAsset(assets[Name(p)])
      BY <2>1 DEF Inv, AssetsFine, AssetFine, Exists
  <2>3. b \in Nat
      BY <2>2, LatestIsOfKey
  <2> HIDE DEF b
  <2> QED BY <2>1, <2>3, NotesBase, GivesUp DEF Outcomes
<1>2. CASE ExpectServers(p)
  <2>1. At(p, "expect_servers") /\ Keeps
      BY <1>2 DEF ExpectServers
  <2>2. PICK expect \in {0, Cardinality(Peers)} : Proceeds(p, [cmd[p] EXCEPT !.base = expect])
      BY <1>2 DEF ExpectServers
  <2>3. expect \in Nat
      BY AdminServerAssumption, FS_CardinalityType
  <2> QED BY <2>1, <2>2, <2>3, NotesBase
<1> QED BY <1>1, <1>2

(* A command that goes on with another thing, or another copy of it.        *)
LEMMA Turns ==
  ASSUME NEW jobs, Inv(jobs), NEW p \in Procs, NEW step, At(p, step), step # "fill_file", Keeps,
         NEW a, NEW i, NEW seen, NEW picked,
         NEW e, e = [cmd[p] EXCEPT !.asset = a, !.item = i, !.seen = seen, !.picked = picked],
         Proceeds(p, e), cmd[p].picked \subseteq picked,
         Typed(e), Named(e), SawWell(jobs, e, assets), Provides(jobs, e, step, assets)
  PROVE  Inv(jobs)'
<1> DEFINE c == cmd[p]
<1>1. IsCommand(c)
    BY CommandIs
<1>2. /\ IsCommand(e) /\ e.job = c.job /\ e.steps = c.steps /\ e.agreed = c.agreed
      /\ e.warned = c.warned /\ e.picked = picked /\ e.did = c.did
    BY <1>1 DEF IsCommand
<1>3. c.agreed \subseteq e.agreed /\ c.picked \subseteq e.picked /\ (c.warned => e.warned)
    BY <1>2
<1> QED BY <1>2, <1>3, Advances

LEMMA TurnsAsset ==
  ASSUME NEW c, IsCommand(c), NEW a
  PROVE  [c EXCEPT !.asset = a] =
           [c EXCEPT !.asset = a, !.item = c.item, !.seen = c.seen, !.picked = c.picked]
BY DEF IsCommand

LEMMA TurnsSeen ==
  ASSUME NEW c, IsCommand(c), NEW seen
  PROVE  [c EXCEPT !.seen = seen] =
           [c EXCEPT !.asset = c.asset, !.item = c.item, !.seen = seen, !.picked = c.picked]
BY DEF IsCommand

LEMMA TurnsBoth ==
  ASSUME NEW c, IsCommand(c), NEW a, NEW seen
  PROVE  [c EXCEPT !.asset = a, !.seen = seen] =
           [c EXCEPT !.asset = a, !.item = c.item, !.seen = seen, !.picked = c.picked]
BY DEF IsCommand

LEMMA TurnsItem ==
  ASSUME NEW c, IsCommand(c), NEW i, NEW seen
  PROVE  [c EXCEPT !.item = i, !.seen = seen] =
           [c EXCEPT !.asset = c.asset, !.item = i, !.seen = seen, !.picked = c.picked]
BY DEF IsCommand

LEMMA TurnsPicked ==
  ASSUME NEW c, IsCommand(c), NEW i, NEW picked
  PROVE  [c EXCEPT !.item = i, !.picked = picked] =
           [c EXCEPT !.asset = c.asset, !.item = i, !.seen = c.seen, !.picked = picked]
BY DEF IsCommand

(* An asset that a command looks at is fine, and so is what it remembers.   *)
LEMMA LookedAt ==
  ASSUME NEW jobs, Inv(jobs), NEW p \in Procs, Exists(Name(p)),
         NEW e, e.job = cmd[p].job, e.asset = cmd[p].asset, e.seen = assets[Name(p)]
  PROVE  SawWell(jobs, e, assets)
<1>1. Named(cmd[p]) /\ cmd[p].asset \in Assets /\ assets[cmd[p].asset] # NoAsset
    BY CommandIs DEF Exists, Name
<1>2. cmd[p].job.op \notin WorksOnKeys => ~IsKeys(cmd[p].asset)
    BY <1>1 DEF Named
<1> QED BY <1>1, <1>2, FreshLook DEF SawWell, Name

LEMMA SelectStreamFine ==
  ASSUME NEW jobs, Inv(jobs), NEW p \in Procs, SelectStream(p)
  PROVE  Inv(jobs)'
<1> DEFINE c == cmd[p]
<1>1. At(p, "select_stream") /\ Keeps /\ IsCommand(c) /\ Typed(c) /\ Named(c)
    BY CommandIs DEF SelectStream
<1>2. c.job.op \notin PicksContext
    BY <1>1, ReliedOn DEF Suits
<1>3. CASE Exists(Name(p))
  <2>1. PICK seen \in {assets[Name(p)], NoAsset} : Proceeds(p, [c EXCEPT !.seen = seen])
      BY <1>3 DEF SelectStream
  <2> DEFINE e == [c EXCEPT !.asset = c.asset, !.item = c.item, !.seen = seen,
                            !.picked = c.picked]
  <2>2. Proceeds(p, e)
      BY <2>1, <1>1, TurnsSeen
  <2> HIDE DEF c, e
  <2>3. /\ e.job = c.job /\ e.outcome = c.outcome /\ e.asset = c.asset /\ e.item = c.item
        /\ e.seen = seen /\ e.new = c.new /\ e.base = c.base /\ e.old = c.old
        /\ e.warned = c.warned /\ e.agreed = c.agreed /\ e.picked = c.picked
      BY <1>1 DEF e, IsCommand
  <2>4. Typed(e) /\ Named(e)
      BY <1>1, <2>3 DEF Typed, Named
  <2>5. SawWell(jobs, e, assets)
    <3>1. CASE seen = NoAsset
        BY <3>1, <2>3 DEF SawWell
    <3>2. CASE seen = assets[Name(p)]
        BY <3>2, <2>3, <1>3, LookedAt DEF c
    <3> QED BY <3>1, <3>2
  <2>6. Provides(jobs, e, "select_stream", assets)
      BY NeutralProvides DEF Neutral
  <2> QED BY <1>1, <2>2, <2>4, <2>5, <2>6, Turns DEF c, e
<1>4. CASE ~Exists(Name(p))
  <2>1. PICK s \in Assets : Picks(p, s)
      BY <1>4 DEF SelectStream
  <2>2. ~c.job.force /\ Kind[s] = "stream" /\ Proceeds(p, [c EXCEPT !.asset = s, !.seen = NoAsset])
      BY <2>1 DEF Picks, HasForce
  <2> DEFINE e == [c EXCEPT !.asset = s, !.item = c.item, !.seen = NoAsset, !.picked = c.picked]
  <2>3. Proceeds(p, e)
      BY <2>2, <1>1, TurnsBoth
  <2> HIDE DEF c, e
  <2>4. /\ e.job = c.job /\ e.outcome = c.outcome /\ e.asset = s /\ e.item = c.item
        /\ e.seen = NoAsset /\ e.new = c.new /\ e.base = c.base /\ e.old = c.old
        /\ e.warned = c.warned /\ e.agreed = c.agreed /\ e.picked = c.picked
      BY <1>1 DEF e, IsCommand
  <2>5. Typed(e) /\ Named(e) /\ SawWell(jobs, e, assets)
      BY <1>1, <1>2, <2>2, <2>4 DEF Typed, Named, SawWell, IsKeys
  <2>6. Provides(jobs, e, "select_stream", assets)
      BY NeutralProvides DEF Neutral
  <2> QED BY <1>1, <2>3, <2>5, <2>6, Turns DEF c, e
<1> QED BY <1>3, <1>4

LEMMA SelectConsumerFine ==
  ASSUME NEW jobs, Inv(jobs), NEW p \in Procs, SelectConsumer(p)
  PROVE  Inv(jobs)'
<1> DEFINE c == cmd[p]
<1>1. At(p, "select_consumer") /\ Keeps /\ IsCommand(c) /\ Typed(c) /\ Named(c) /\ Exists(Name(p))
    BY CommandIs DEF SelectConsumer
<1>2. PICK i \in Items :
        /\ HasPart(Name(p), i)
        /\ i # Item(p) => Terminal(p) /\ ~HasForce(p)
        /\ Proceeds(p, [c EXCEPT !.item = i, !.seen = assets[Name(p)]])
    BY DEF SelectConsumer
<1> DEFINE e == [c EXCEPT !.asset = c.asset, !.item = i, !.seen = assets[Name(p)],
                          !.picked = c.picked]
<1>3. Proceeds(p, e)
    BY <1>1, <1>2, TurnsItem
<1>4. (i # c.item => ~c.job.force) /\ assets[c.asset].parts[i] # NoPart
      /\ assets[c.asset] # NoAsset /\ c.asset \in Assets
    BY <1>2 DEF Item, Name, HasForce, HasPart, Exists
<1>0. assets[Name(p)] = assets[c.asset]
    BY DEF Name
<1> HIDE DEF c, e
<1>5. /\ e.job = c.job /\ e.outcome = c.outcome /\ e.asset = c.asset /\ e.item = i
      /\ e.seen = assets[c.asset] /\ e.new = c.new /\ e.base = c.base /\ e.old = c.old
      /\ e.warned = c.warned /\ e.agreed = c.agreed /\ e.picked = c.picked
    BY <1>1, <1>0 DEF e, IsCommand
<1>6. Typed(e) /\ Named(e)
    BY <1>1, <1>4, <1>5 DEF Typed, Named
<1>7. SawWell(jobs, e, assets)
    BY <1>1, <1>5, LookedAt DEF c, Name
<1>8. Provides(jobs, e, "select_consumer", assets)
  <2>1. e.seen # NoAsset /\ PartSeen(e)
      BY <1>4, <1>5 DEF PartSeen
  <2> QED BY <2>1 DEF Provides, Loading, OnKeys, Naming, Changing, Overwriting, ChangingPart,
          OverwritingPart, Configuring, Questions, AfterConsent, AfterWarning, Destructive, Grave
<1> QED BY <1>1, <1>3, <1>6, <1>7, <1>8, Turns DEF c, e

LEMMA Stays ==
  ASSUME NEW jobs, Inv(jobs), NEW p \in Procs, NEW step, At(p, step), step # "fill_file", Keeps,
         Proceeds(p, cmd[p]), Provides(jobs, cmd[p], step, assets)
  PROVE  Inv(jobs)'
<1> DEFINE e == cmd[p]
<1>1. IsCommand(e) /\ Typed(e) /\ Named(e) /\ SawWell(jobs, e, assets)
    BY CommandIs
<1>2. /\ e.job = cmd[p].job /\ e.steps = cmd[p].steps /\ e.did = cmd[p].did
      /\ cmd[p].agreed \subseteq e.agreed /\ cmd[p].picked \subseteq e.picked
      /\ (cmd[p].warned => e.warned) /\ Proceeds(p, e) /\ Provides(jobs, e, step, assets)
    OBVIOUS
<1> HIDE DEF e
<1> QED BY <1>1, <1>2, Advances

LEMMA FindConsumerFine ==
  ASSUME NEW jobs, Inv(jobs), NEW p \in Procs, FindConsumer(p)
  PROVE  Inv(jobs)'
<1> DEFINE c == cmd[p]
<1>1. At(p, "find_consumer") /\ Keeps
    BY DEF FindConsumer
<1>2. CASE Proceeds(p, c)
  <2>1. Provides(jobs, c, "find_consumer", assets)
      BY NeutralProvides DEF Neutral
  <2> QED BY <1>1, <1>2, <2>1, Stays
<1>3. CASE /\ HasPart(Name(p), Item(p))
           /\ Becomes(p, [c EXCEPT !.seen = assets[Name(p)], !.steps = SubSeq(@, 4, Len(@))])
  <2> DEFINE t == SubSeq(c.steps, 4, Len(c.steps))
             d == [c EXCEPT !.seen = assets[Name(p)], !.steps = t]
  <2>1. Becomes(p, d)
      BY <1>3
  <2>2. CommandFine(jobs, p, c, assets) /\ c.steps # <<>> /\ Head(c.steps) = "find_consumer"
      BY <1>1 DEF At, Inv
  <2>3. Orderly(c.job, t) /\ (t # <<>> => Follows(c.job, "select_consumer", Head(t)))
      BY <2>2, OrderlySkip DEF CommandFine
  <2>4. /\ IsCommand(d) /\ d.job = c.job /\ d.steps = t /\ d.outcome = c.outcome
        /\ d.asset = c.asset /\ d.item = c.item /\ d.seen = assets[Name(p)] /\ d.new = c.new
        /\ d.base = c.base /\ d.old = c.old /\ d.warned = c.warned /\ d.agreed = c.agreed
        /\ d.picked = c.picked /\ d.did = c.did
    <3>1. IsCommand(c)
        BY <2>2 DEF CommandFine
    <3>2. PICK u, x : u = t /\ x = assets[Name(p)]
        OBVIOUS
    <3>3. d = [c EXCEPT !.seen = x, !.steps = u]
        BY <3>2
    <3> HIDE DEF t, c, d
    <3>4. /\ IsCommand(d) /\ d.job = c.job /\ d.steps = u /\ d.outcome = c.outcome
          /\ d.asset = c.asset /\ d.item = c.item /\ d.seen = x /\ d.new = c.new
          /\ d.base = c.base /\ d.old = c.old /\ d.warned = c.warned /\ d.agreed = c.agreed
          /\ d.picked = c.picked /\ d.did = c.did
        BY <3>1, <3>3 DEF IsCommand
    <3> QED BY <3>2, <3>4
  <2>5. Exists(Name(p)) /\ d.seen # NoAsset /\ PartSeen(d)
      BY <1>3, <2>4 DEF HasPart, Exists, PartSeen, Name, Item
  <2> HIDE DEF d, t
  <2>6. SawWell(jobs, d, assets)
      BY <2>4, <2>5, LookedAt DEF c
  <2> HIDE DEF c
  <2>7. Typed(d) /\ Named(d)
      BY <2>2, <2>4 DEF CommandFine, Typed, Named
  <2>8. Provides(jobs, d, "select_consumer", assets)
      BY <2>5 DEF Provides, Loading, OnKeys, Naming, Changing, Overwriting, ChangingPart,
          OverwritingPart, Configuring, Questions, AfterConsent, AfterWarning, Destructive, Grave
  <2>9. d.steps # <<>> => Relies(jobs, d, Head(d.steps), assets)
      BY <2>3, <2>4, <2>8, HeadSuits, ProvidesEnough
  <2>10. DidWell(d)
    <3>1. c.steps # <<>> /\ c.steps # <<"fill_file">>
        BY <2>2
    <3> QED BY <3>1, <2>2, <2>4 DEF CommandFine, DidWell, DidOne, Consented
  <2>11. CommandFine(jobs, p, d, assets)
      BY <2>2, <2>3, <2>4, <2>6, <2>7, <2>9, <2>10 DEF CommandFine
  <2>12. assets' = assets /\ GoodChange(jobs, assets, assets') /\ SelectionOK'
      BY <1>1, KeepsWell
  <2> QED BY <2>1, <2>11, <2>12, Becoming
<1> QED BY <1>2, <1>3 DEF FindConsumer

(* Fresh looks.                                                             *)
LEMMA ReadingFine ==
  ASSUME NEW jobs, Inv(jobs), NEW p \in Procs,
         LoadStream(p) \/ LoadConsumer(p) \/ Look(p) \/ FindMetaLeader(p) \/ FindContext(p)
  PROVE  Inv(jobs)'
<1>1. CASE LoadStream(p)
  <2>1. CASE cmd[p].seen # NoAsset /\ Proceeds(p, cmd[p])
    <3>1. At(p, "load_stream") /\ Keeps
        BY <1>1 DEF LoadStream
    <3>2. Relies(jobs, cmd[p], "load_stream", assets)
        BY <3>1, ReliedOn
    <3>3. Provides(jobs, cmd[p], "load_stream", assets)
        BY <2>1, <3>2 DEF Relies, Provides, Loading, OnKeys, FindingPart, Naming, Changing,
            Overwriting, ChangingPart, OverwritingPart, Configuring, Questions
    <3> QED BY <2>1, <3>1, <3>3, Stays
  <2>2. CASE ~(cmd[p].seen # NoAsset /\ Proceeds(p, cmd[p]))
      BY <1>1, <2>2, Sees DEF LoadStream
  <2> QED BY <2>1, <2>2
<1>2. CASE LoadConsumer(p)
    BY <1>2, Sees DEF LoadConsumer, HasPart
<1>3. CASE Look(p)
    BY <1>3, Sees DEF Look
<1>4. CASE FindMetaLeader(p)
    BY <1>4, Sees DEF FindMetaLeader
<1>5. CASE FindContext(p)
    BY <1>5, Sees DEF FindContext
<1> QED BY <1>1, <1>2, <1>3, <1>4, <1>5

LEMMA OpenBucketFine ==
  ASSUME NEW jobs, Inv(jobs), NEW p \in Procs, OpenBucket(p)
  PROVE  Inv(jobs)'
<1>1. At(p, "open_bucket") /\ Keeps /\ Proceeds(p, cmd[p]) /\ cmd[p].asset \in Assets
    BY DEF OpenBucket, Exists, Name
<1>2. Relies(jobs, cmd[p], "open_bucket", assets)
    BY <1>1, ReliedOn
<1>3. Provides(jobs, cmd[p], "open_bucket", assets)
    BY <1>1, <1>2 DEF Relies, Provides, Reading, Loading, OnKeys, FindingPart, Changing,
        Overwriting, ChangingPart, OverwritingPart, Configuring, Questions
<1> QED BY <1>1, <1>3, Stays

(* What there is under a name, if anything.                                 *)
LEMMA LooksForFine ==
  ASSUME NEW jobs, Inv(jobs), NEW p \in Procs, LookForObject(p) \/ LookForFile(p)
  PROVE  Inv(jobs)'
<1> DEFINE c == cmd[p]
<1>1. PICK step \in {"look_for_object", "look_for_file"}, seen \in {assets[Name(p)], NoAsset} :
        At(p, step) /\ Keeps /\ Proceeds(p, [c EXCEPT !.seen = seen])
    BY DEF LookForObject, LookForFile
<1> DEFINE e == [c EXCEPT !.asset = c.asset, !.item = c.item, !.seen = seen,
                          !.picked = c.picked]
<1>2. IsCommand(c) /\ Typed(c) /\ Named(c)
    BY CommandIs
<1>3. Proceeds(p, e)
    BY <1>1, <1>2, TurnsSeen
<1>4. c.asset \in Assets
    BY <1>1, ReliedOn DEF Relies, OnNamed
<1> HIDE DEF c, e
<1>5. /\ e.job = c.job /\ e.outcome = c.outcome /\ e.asset = c.asset /\ e.item = c.item
      /\ e.seen = seen /\ e.new = c.new /\ e.base = c.base /\ e.old = c.old
      /\ e.warned = c.warned /\ e.agreed = c.agreed /\ e.picked = c.picked
    BY <1>2 DEF e, IsCommand
<1>6. Typed(e) /\ Named(e)
    BY <1>2, <1>5 DEF Typed, Named
<1>7. SawWell(jobs, e, assets)
  <2>1. CASE seen = NoAsset
      BY <2>1, <1>5 DEF SawWell
  <2>2. CASE seen # NoAsset
    <3>1. seen = assets[Name(p)] /\ Exists(Name(p))
        BY <2>2, <1>4 DEF Exists, Name, c
    <3> QED BY <3>1, <1>5, LookedAt DEF c
  <2> QED BY <2>1, <2>2
<1>8. Provides(jobs, e, step, assets)
    BY NeutralProvides DEF Neutral
<1> QED BY <1>1, <1>3, <1>6, <1>7, <1>8, Turns DEF c, e

LEMMA JobIs ==
  ASSUME NEW jobs \in CommandLines, Inv(jobs), NEW p \in Procs
  PROVE  cmd[p].job \in Jobs /\ Fits(cmd[p].job) /\ cmd[p].job = jobs[p]
BY AdministrationAssumption, CommandIs

LEMMA NameFileFine ==
  ASSUME NEW jobs \in CommandLines, Inv(jobs), NEW p \in Procs, NameFile(p)
  PROVE  Inv(jobs)'
<1> DEFINE c == cmd[p]
           to == c.job.to
           e == [c EXCEPT !.asset = to, !.item = c.item, !.seen = c.seen, !.picked = c.picked]
<1>1. At(p, "name_file") /\ Keeps /\ Proceeds(p, [c EXCEPT !.asset = to])
    BY DEF NameFile
<1>2. IsCommand(c) /\ Typed(c) /\ Named(c) /\ SawWell(jobs, c, assets)
      /\ Relies(jobs, c, "name_file", assets) /\ Suits(c.job, "name_file")
    BY <1>1, CommandIs, ReliedOn
<1>3. Proceeds(p, e)
    BY <1>1, <1>2, TurnsAsset
<1>4. c.job.op \in NamesFile /\ to \in Assets /\ Kind[to] = "file"
    BY <1>2, JobIs DEF Suits, Fits
<1>5. c.job.op \notin Rewrites /\ c.job.op \notin PicksContext
    BY <1>4, OpsApart
<1> HIDE DEF c, e
<1>6. /\ e.job = c.job /\ e.outcome = c.outcome /\ e.asset = to /\ e.item = c.item
      /\ e.seen = c.seen /\ e.new = c.new /\ e.base = c.base /\ e.old = c.old
      /\ e.warned = c.warned /\ e.agreed = c.agreed /\ e.picked = c.picked
    BY <1>2 DEF e, IsCommand
<1>7. Typed(e) /\ Named(e) /\ SawWell(jobs, e, assets)
    BY <1>2, <1>4, <1>5, <1>6 DEF Typed, Named, SawWell, IsKeys
<1>8. Provides(jobs, e, "name_file", assets)
    BY <1>4, <1>6 DEF Provides, Reading, Loading, OnKeys, FindingPart, Changing, Overwriting,
        ChangingPart, OverwritingPart, Configuring, Questions, AfterConsent, AfterWarning,
        Destructive, Grave
<1> QED BY <1>1, <1>2, <1>3, <1>7, <1>8, Turns DEF c, e

(* The context to switch to.                                                *)
LEMMA ContextTurned ==
  ASSUME NEW jobs, Inv(jobs), NEW p \in Procs, NEW step \in {"list_contexts", "read_previous"},
         At(p, step), Keeps, NEW a \in Assets, Kind[a] = "context",
         Proceeds(p, [cmd[p] EXCEPT !.asset = a])
  PROVE  Inv(jobs)'
<1> DEFINE c == cmd[p]
           e == [c EXCEPT !.asset = a, !.item = c.item, !.seen = c.seen, !.picked = c.picked]
<1>2. IsCommand(c) /\ Typed(c) /\ Named(c) /\ SawWell(jobs, c, assets) /\ Suits(c.job, step)
    BY CommandIs, ReliedOn
<1>3. Proceeds(p, e)
    BY <1>2, TurnsAsset
<1>4. c.job.op \in PicksContext /\ c.job.op \notin Rewrites
    BY <1>2, OpsApart DEF Suits
<1> HIDE DEF c, e
<1>6. /\ e.job = c.job /\ e.outcome = c.outcome /\ e.asset = a /\ e.item = c.item
      /\ e.seen = c.seen /\ e.new = c.new /\ e.base = c.base /\ e.old = c.old
      /\ e.warned = c.warned /\ e.agreed = c.agreed /\ e.picked = c.picked
    BY <1>2 DEF e, IsCommand
<1>7. Typed(e) /\ Named(e) /\ SawWell(jobs, e, assets)
    BY <1>2, <1>4, <1>6 DEF Typed, Named, SawWell, IsKeys
<1>8. Provides(jobs, e, step, assets)
    BY NeutralProvides DEF Neutral
<1> QED BY <1>2, <1>3, <1>7, <1>8, Turns DEF c, e

LEMMA ContextsFine ==
  ASSUME NEW jobs, Inv(jobs), NEW p \in Procs, ListContexts(p) \/ ReadPrevious(p)
  PROVE  Inv(jobs)'
<1>1. CASE ListContexts(p)
  <2>1. At(p, "list_contexts") /\ Keeps
      BY <1>1 DEF ListContexts
  <2>2. \/ Ends(p, "error") \/ Proceeds(p, cmd[p])
        \/ \E c \in Contexts : Proceeds(p, [cmd[p] EXCEPT !.asset = c])
      BY <1>1 DEF ListContexts
  <2>3. CASE Ends(p, "error")
      BY <2>1, <2>3, GivesUp DEF Outcomes
  <2>4. CASE Proceeds(p, cmd[p])
      BY <2>1, <2>4, Stays, NeutralProvides DEF Neutral
  <2>5. CASE \E c \in Contexts : Proceeds(p, [cmd[p] EXCEPT !.asset = c])
      BY <2>1, <2>5, ContextTurned DEF Contexts
  <2> QED BY <2>2, <2>3, <2>4, <2>5
<1>2. CASE ReadPrevious(p)
  <2>1. At(p, "read_previous") /\ Keeps
      BY <1>2 DEF ReadPrevious
  <2>2. CASE selection.before = NoContext
      BY <1>2, <2>1, <2>2, GivesUp DEF Outcomes, ReadPrevious
  <2>3. CASE selection.before # NoContext
    <3>1. selection.before \in Contexts
        BY <2>3 DEF Inv, SelectionOK
    <3> QED BY <1>2, <2>1, <2>3, <3>1, ContextTurned DEF Contexts, ReadPrevious
  <2> QED BY <2>2, <2>3
<1> QED BY <1>1, <1>2

(* Configurations that are changed as the command line says.                *)
LEMMA EditedFine ==
  ASSUME NEW jobs, NEW p \in Procs, cmd[p].job = jobs[p], NEW cfg, Meant(jobs, cfg)
  PROVE  /\ Meant(jobs, Edited(p, cfg))
         /\ Kept(jobs, cfg) => Kept(jobs, Edited(p, cfg))
<1> DEFINE new == Edited(p, cfg)
<1>1. \A f \in Fields : new[f] = IF f \in jobs[p].set THEN p ELSE cfg[f]
    BY DEF Edited, Asked
<1>2. new \in Configurations
    BY <1>1 DEF Edited, Asked, Configurations, Meant
<1> HIDE DEF new
<1>3. \A f \in Fields : Plain(jobs, new[f], f) \/ new[f] = cfg[f]
    BY <1>1 DEF Plain
<1>4. \A f \in Fields : Plain(jobs, cfg[f], f) /\ new[f] = cfg[f] => Plain(jobs, new[f], f)
    BY DEF Plain
<1>5. Meant(jobs, new)
    BY <1>2, <1>3, <1>4 DEF Meant
<1>6. Kept(jobs, cfg) => Kept(jobs, new)
    BY <1>2, <1>3, <1>4 DEF Kept
<1> QED BY <1>5, <1>6 DEF new

LEMMA ResetFine ==
  ASSUME NEW jobs, NEW p \in Procs, cmd[p].job = jobs[p], NEW cfg, Meant(jobs, cfg),
         NEW g \in Fields, NEW new, new = [Edited(p, cfg) EXCEPT ![g] = Asked(p, g, "default")]
  PROVE  /\ Meant(jobs, new)
         /\ Kept(jobs, cfg) /\ Resets(jobs[p], g) => Kept(jobs, new)
<1> DEFINE ed == Edited(p, cfg)
<1>1. Meant(jobs, ed) /\ (Kept(jobs, cfg) => Kept(jobs, ed))
    BY EditedFine
<1>2. ed \in Configurations
    BY <1>1 DEF Meant
<1> HIDE DEF ed
<1>3. new = [ed EXCEPT ![g] = IF g \in jobs[p].set THEN p ELSE "default"]
    BY DEF ed, Asked
<1>4. new \in Configurations /\ (\A f \in Fields \ {g} : new[f] = ed[f])
      /\ new[g] = IF g \in jobs[p].set THEN p ELSE "default"
    BY <1>2, <1>3 DEF Configurations
<1>5. Plain(jobs, new[g], g) \/ new[g] = "default"
    BY <1>4 DEF Plain
<1>6. Meant(jobs, new)
    BY <1>1, <1>4, <1>5 DEF Meant
<1>7. Resets(jobs[p], g) => ResetBySome(jobs, g)
    BY DEF ResetBySome
<1>8. Kept(jobs, ed) /\ Resets(jobs[p], g) => Kept(jobs, new)
    BY <1>4, <1>5, <1>7 DEF Kept
<1> QED BY <1>1, <1>6, <1>8

LEMMA DefaultsMeant ==
  ASSUME NEW jobs
  PROVE  Meant(jobs, Defaults) /\ \A f \in Fields : Defaults[f] = "default"
BY DEF Meant, Defaults, Configurations

(* With nothing to keep, what is not set is the default.                    *)
LEMMA ConfiguredFine ==
  ASSUME NEW jobs, NEW p \in Procs, cmd[p].job = jobs[p],
         NEW new, new = [f \in Fields |-> Asked(p, f, "default")]
  PROVE  /\ Meant(jobs, new)
         /\ (\A f \in Fields : Resets(jobs[p], f)) => Kept(jobs, new)
<1>1. new \in Configurations
    BY DEF Configurations, Asked
<1>2. \A f \in Fields : Plain(jobs, new[f], f) \/ new[f] = "default"
    BY DEF Plain, Asked
<1>3. \A f \in Fields : Resets(jobs[p], f) => ResetBySome(jobs, f)
    BY DEF ResetBySome
<1> QED BY <1>1, <1>2, <1>3 DEF Meant, Kept

(* Operators and accounts.                                                  *)
LEMMA LoadsFine ==
  ASSUME NEW jobs, Inv(jobs), NEW p \in Procs, NEW step \in Loading, At(p, step), Keeps,
         NEW a \in Assets, IsKeys(a), Exists(a), Loads(p, a)
  PROVE  Inv(jobs)'
<1> DEFINE c == cmd[p]
           e == [c EXCEPT !.asset = a, !.item = c.item, !.seen = assets[a], !.picked = c.picked]
<1>1. IsCommand(c) /\ Typed(c) /\ Named(c) /\ Suits(c.job, step)
    BY CommandIs, ReliedOn
<1>2. Proceeds(p, e)
    BY <1>1, TurnsBoth DEF Loads
<1>3. c.job.op \in WorksOnKeys /\ assets[a] # NoAsset /\ step # "fill_file"
    BY <1>1 DEF Suits, Loading, Exists
<1>4. c.job.op \notin PicksContext
    BY <1>3, OpsApart
<1>5. /\ AssetFine(jobs, c.job.op \in WorksOnKeys, assets[a])
      /\ assets[a].by # "start" => ~Original(assets[a])
    BY <1>3, FreshLook
<1> HIDE DEF c, e
<1>6. /\ e.job = c.job /\ e.outcome = c.outcome /\ e.asset = a /\ e.item = c.item
      /\ e.seen = assets[a] /\ e.new = c.new /\ e.base = c.base /\ e.old = c.old
      /\ e.warned = c.warned /\ e.agreed = c.agreed /\ e.picked = c.picked
    BY <1>1 DEF e, IsCommand
<1>7. Typed(e) /\ Named(e) /\ SawWell(jobs, e, assets)
    BY <1>1, <1>3, <1>4, <1>5, <1>6 DEF Typed, Named, SawWell
<1>8. Provides(jobs, e, step, assets)
  <2>1. OnKeysNow(e, assets)
      BY <1>3, <1>6 DEF OnKeysNow
  <2> QED BY <2>1 DEF Provides, Loading, Reading, FindingPart, Naming, Changing, Overwriting,
          ChangingPart, OverwritingPart, Configuring, Questions, AfterConsent, AfterWarning,
          Destructive, Grave
<1> QED BY <1>2, <1>3, <1>7, <1>8, Turns DEF c, e

LEMMA LoadingFine ==
  ASSUME NEW jobs, Inv(jobs), NEW p \in Procs,
         SelectOperator(p) \/ PickOperator(p) \/ SelectAccount(p)
  PROVE  Inv(jobs)'
<1>1. PICK step \in Loading, a \in Assets :
        At(p, step) /\ Keeps /\ IsKeys(a) /\ Exists(a) /\ Loads(p, a)
  <2>1. CASE SelectOperator(p)
      BY <2>1 DEF SelectOperator, LoadsOperator, Known, IsKeys, Loading
  <2>2. CASE PickOperator(p)
      BY <2>2 DEF PickOperator, LoadsOperator, Known, IsKeys, Loading
  <2>3. CASE SelectAccount(p)
      BY <2>3 DEF SelectAccount, Known, IsKeys, Loading
  <2> QED BY <2>1, <2>2, <2>3
<1> QED BY <1>1, LoadsFine

Copying == {"edit_all", "add_part", "add_parts", "edit_part", "set_mapping", "edit_user",
            "remove_part", "pick_key", "pick_user", "pick_mapping", "find_part"}

LEMMA CopyThere ==
  ASSUME NEW jobs, Inv(jobs), NEW p \in Procs, NEW step \in Copying, At(p, step)
  PROVE  /\ OnKeysNow(cmd[p], assets) /\ cmd[p].job.op \in WorksOnKeys
         /\ AssetFine(jobs, TRUE, cmd[p].seen) /\ cmd[p].seen # NoAsset
         /\ cmd[p].job.op \notin Rewrites
<1>1. Named(cmd[p]) /\ Relies(jobs, cmd[p], step, assets) /\ SawWell(jobs, cmd[p], assets)
    BY CommandIs, ReliedOn
<1>2. OnKeysNow(cmd[p], assets)
    BY <1>1 DEF Relies, OnKeys, Copying
<1>3. cmd[p].job.op \in WorksOnKeys
    BY <1>1, <1>2 DEF OnKeysNow, Named
<1>4. cmd[p].seen # NoAsset /\ AssetFine(jobs, cmd[p].job.op \in WorksOnKeys, cmd[p].seen)
    BY <1>1, <1>2 DEF OnKeysNow, SawWell
<1>5. AssetFine(jobs, TRUE, cmd[p].seen)
    BY <1>3, <1>4 DEF AssetFine, PartFine
<1> QED BY <1>2, <1>3, <1>4, <1>5, OpsApart

LEMMA CopyProvides ==
  ASSUME NEW jobs, NEW e, NEW step \in Copying, NEW as, OnKeysNow(e, as),
         step = "find_part" => PartSeen(e), Relies(jobs, e, step, as)
  PROVE  Provides(jobs, e, step, as)
<1>1. step \in AfterConsent(e.job.op) => Waived(e.job) \/ AskingOf(e) \in e.agreed
    BY DEF Relies
<1> QED BY <1>1 DEF Copying, Provides, Loading, Reading, FindingPart, Naming, Changing,
    Overwriting, ChangingPart, OverwritingPart, Configuring, Questions, AfterWarning, Destructive, Grave

LEMMA ChangesFine ==
  ASSUME NEW jobs, Inv(jobs), NEW p \in Procs, NEW step \in Copying, At(p, step),
         step # "find_part", NEW copy, Changes(p, copy), AssetFine(jobs, TRUE, copy),
         copy # NoAsset
  PROVE  Inv(jobs)'
<1> DEFINE c == cmd[p]
           e == [c EXCEPT !.asset = c.asset, !.item = c.item, !.seen = copy, !.picked = c.picked]
<1>1. IsCommand(c) /\ Typed(c) /\ Named(c) /\ Relies(jobs, c, step, assets)
    BY CommandIs, ReliedOn
<1>2. Proceeds(p, e) /\ Keeps
    BY <1>1, TurnsSeen DEF Changes
<1>3. OnKeysNow(c, assets) /\ c.job.op \in WorksOnKeys /\ c.job.op \notin Rewrites
    BY CopyThere
<1> HIDE DEF c, e
<1>4. /\ e.job = c.job /\ e.outcome = c.outcome /\ e.asset = c.asset /\ e.item = c.item
      /\ e.seen = copy /\ e.new = c.new /\ e.base = c.base /\ e.old = c.old
      /\ e.warned = c.warned /\ e.agreed = c.agreed /\ e.picked = c.picked
    BY <1>1 DEF e, IsCommand
<1>5. Typed(e) /\ Named(e)
    BY <1>1, <1>4 DEF Typed, Named
<1>6. SawWell(jobs, e, assets)
  <2>1. AssetFine(jobs, e.job.op \in WorksOnKeys, copy)
      BY <1>3, <1>4 DEF AssetFine, PartFine
  <2> QED BY <2>1, <1>3, <1>4 DEF SawWell
<1>7. OnKeysNow(e, assets)
    BY <1>3, <1>4 DEF OnKeysNow
<1>8. Provides(jobs, e, step, assets)
  <2>1. step \in AfterConsent(e.job.op) => Waived(e.job) \/ AskingOf(e) \in e.agreed
      BY <1>1, <1>4 DEF Relies, AskingOf
  <2> QED BY <1>7, <2>1 DEF Copying, Provides, Loading, Reading, FindingPart, Naming, Changing,
      Overwriting, ChangingPart, OverwritingPart, Configuring, Questions, AfterWarning, Destructive, Grave
<1>9. step # "fill_file"
    BY DEF Copying
<1> QED BY <1>2, <1>5, <1>6, <1>8, <1>9, Turns DEF c, e

LEMMA FindPartFine ==
  ASSUME NEW jobs, Inv(jobs), NEW p \in Procs, FindPart(p)
  PROVE  Inv(jobs)'
<1>1. At(p, "find_part") /\ Keeps
    BY DEF FindPart
<1>2. CASE InCopy(p) /\ Proceeds(p, cmd[p])
  <2>1. Relies(jobs, cmd[p], "find_part", assets) /\ OnKeysNow(cmd[p], assets)
      BY <1>1, ReliedOn, CopyThere DEF Copying
  <2>2. PartSeen(cmd[p])
      BY <1>2 DEF InCopy, PartSeen, Item, Copy
  <2>3. Provides(jobs, cmd[p], "find_part", assets)
      BY <2>1, <2>2, CopyProvides DEF Copying
  <2> QED BY <1>1, <1>2, <2>3, Stays
<1>3. CASE Ends(p, "error")
    BY <1>1, <1>3, GivesUp DEF Outcomes
<1> QED BY <1>2, <1>3 DEF FindPart

LEMMA PicksPartFine ==
  ASSUME NEW jobs, Inv(jobs), NEW p \in Procs, NEW step \in {"pick_key", "pick_user", "pick_mapping"},
         NEW known, PicksPart(p, step, known)
  PROVE  Inv(jobs)'
<1> DEFINE c == cmd[p]
<1>0. At(p, step) /\ Keeps /\ step \in Copying /\ step # "fill_file" /\ step # "find_part"
    BY DEF PicksPart, Copying
<1>1. /\ IsCommand(c) /\ Typed(c) /\ Named(c) /\ SawWell(jobs, c, assets)
      /\ Relies(jobs, c, step, assets) /\ OnKeysNow(c, assets)
    BY <1>0, CommandIs, ReliedOn, CopyThere
<1>2. CASE Proceeds(p, c)
  <2>1. Provides(jobs, c, step, assets)
      BY <1>0, <1>1, CopyProvides
  <2> QED BY <1>0, <1>2, <2>1, Stays
<1>3. CASE Ends(p, "error")
    BY <1>0, <1>3, GivesUp DEF Outcomes
<1>4. CASE \E i \in Items : Proceeds(p, [c EXCEPT !.item = i, !.picked = @ \cup {i}])
  <2>1. PICK i \in Items : Proceeds(p, [c EXCEPT !.item = i, !.picked = @ \cup {i}])
      BY <1>4
  <2> DEFINE picked == c.picked \cup {i}
             e == [c EXCEPT !.asset = c.asset, !.item = i, !.seen = c.seen, !.picked = picked]
  <2>2. Proceeds(p, e)
    <3>1. [c EXCEPT !.item = i, !.picked = @ \cup {i}] = [c EXCEPT !.item = i, !.picked = picked]
        BY <1>1 DEF IsCommand
    <3> HIDE DEF picked
    <3>2. [c EXCEPT !.item = i, !.picked = picked] = e
        BY <1>1, TurnsPicked
    <3> QED BY <2>1, <3>1, <3>2
  <2>3. c.picked \subseteq picked /\ i \in picked
      OBVIOUS
  <2> HIDE DEF c, e, picked
  <2>4. /\ e.job = c.job /\ e.outcome = c.outcome /\ e.asset = c.asset /\ e.item = i
        /\ e.seen = c.seen /\ e.new = c.new /\ e.base = c.base /\ e.old = c.old
        /\ e.warned = c.warned /\ e.agreed = c.agreed /\ e.picked = picked
      BY <1>1 DEF e, IsCommand
  <2>5. Typed(e) /\ Named(e) /\ SawWell(jobs, e, assets)
      BY <1>1, <2>3, <2>4 DEF Typed, Named, SawWell
  <2>6. OnKeysNow(e, assets)
      BY <1>1, <2>4 DEF OnKeysNow
  <2>7. Provides(jobs, e, step, assets)
      BY <2>6 DEF Provides, Loading, Reading, FindingPart, Naming, Changing, Overwriting,
          ChangingPart, OverwritingPart, Configuring, Questions, AfterConsent, AfterWarning,
          Destructive, Grave
  <2> QED BY <1>0, <2>2, <2>3, <2>5, <2>7, Turns DEF c, e
<1> QED BY <1>2, <1>3, <1>4 DEF PicksPart

LEMMA PickingFine ==
  ASSUME NEW jobs, Inv(jobs), NEW p \in Procs, PickKey(p) \/ PickUser(p) \/ PickMapping(p)
  PROVE  Inv(jobs)'
<1>1. CASE PickKey(p)
    BY <1>1, PicksPartFine DEF PickKey
<1>2. CASE PickUser(p)
    BY <1>2, PicksPartFine DEF PickUser
<1>3. CASE PickMapping(p)
    BY <1>3, PicksPartFine, GivesUp DEF PickMapping, Outcomes
<1> QED BY <1>1, <1>2, <1>3

LEMMA FreshPart ==
  ASSUME NEW jobs, Inv(jobs), NEW p \in Procs, NEW step \in Copying, At(p, step)
  PROVE  PartFine(jobs, TRUE, NewPart(Edited(p, Defaults), Name(p), p))
<1>1. cmd[p].job = jobs[p] /\ OnKeysNow(cmd[p], assets)
    BY CommandIs, CopyThere
<1>2. Meant(jobs, Edited(p, Defaults))
    BY <1>1, EditedFine, DefaultsMeant
<1>3. assets[Name(p)].leader \in Peers \cup {"nobody"} /\ assets[Name(p)].peers \in SUBSET Peers
    BY <1>1 DEF OnKeysNow, Inv, AssetsFine, AssetFine, IsAsset, AssetRecords, Name
<1> QED BY <1>2, <1>3, NewPartFine DEF NewPart

LEMMA PartThere ==
  ASSUME NEW jobs, Inv(jobs), NEW p \in Procs, NEW step \in Copying, At(p, step), InCopy(p)
  PROVE  PartFine(jobs, TRUE, CopyOfPart(p))
BY CopyThere DEF AssetFine, InCopy, CopyOfPart, Copy

LEMMA WithPartFine ==
  ASSUME NEW jobs, Inv(jobs), NEW p \in Procs, NEW step \in Copying, At(p, step),
         step # "find_part", NEW part, part = NoPart \/ PartFine(jobs, TRUE, part),
         Changes(p, WithPart(p, part))
  PROVE  Inv(jobs)'
<1> DEFINE copy == [Copy(p) EXCEPT !.parts[Item(p)] = part]
<1>1. AssetFine(jobs, TRUE, Copy(p))
    BY CopyThere DEF Copy
<1>2. AssetFine(jobs, TRUE, copy) /\ copy # NoAsset
  <2>1. PICK keys, i, new : keys = TRUE /\ i = Item(p) /\ new = copy
      OBVIOUS
  <2>2. /\ AssetFine(jobs, keys, Copy(p)) /\ new = [Copy(p) EXCEPT !.parts[i] = part]
        /\ i \in Items => part = NoPart \/ PartFine(jobs, keys, part)
      BY <1>1, <2>1
  <2> HIDE DEF copy
  <2>3. AssetFine(jobs, keys, new) /\ new # NoAsset
      BY <2>2, OnePart
  <2> QED BY <2>1, <2>3
<1>3. Changes(p, copy)
    BY DEF WithPart
<1> HIDE DEF copy
<1> QED BY <1>2, <1>3, ChangesFine

LEMMA PartEditedFine ==
  ASSUME NEW jobs, Inv(jobs), NEW p \in Procs, NEW part, PartFine(jobs, TRUE, part)
  PROVE  PartFine(jobs, TRUE, [part EXCEPT !.cfg = Edited(p, @)])
<1> DEFINE cfg == Edited(p, part.cfg)
<1>1. cmd[p].job = jobs[p] /\ Meant(jobs, part.cfg) /\ (part.by = "start" => Kept(jobs, part.cfg))
    BY CommandIs DEF PartFine
<1>2. Meant(jobs, cfg) /\ (part.by = "start" => Kept(jobs, cfg))
    BY <1>1, EditedFine
<1>3. [part EXCEPT !.cfg = Edited(p, @)] = [part EXCEPT !.cfg = cfg]
    BY DEF PartFine, Parts
<1> HIDE DEF cfg
<1>4. PartFine(jobs, TRUE, [part EXCEPT !.cfg = cfg])
    BY <1>2, PartReconfigured
<1> QED BY <1>3, <1>4

LEMMA CopyingFine ==
  ASSUME NEW jobs, Inv(jobs), NEW p \in Procs,
         \/ EditAll(p) \/ AddPart(p) \/ AddParts(p) \/ EditPart(p) \/ SetMapping(p)
         \/ EditUser(p) \/ RemovePart(p)
  PROVE  Inv(jobs)'
<1> USE DEF Copying
<1>1. CASE EditAll(p)
  <2> DEFINE cfg == Edited(p, Copy(p).cfg)
             copy == [Copy(p) EXCEPT !.cfg = cfg]
  <2>1. At(p, "edit_all") /\ Changes(p, copy)
      BY <1>1 DEF EditAll
  <2>2. AssetFine(jobs, TRUE, Copy(p)) /\ cmd[p].job = jobs[p]
      BY <2>1, CopyThere, CommandIs DEF Copy
  <2>3. Meant(jobs, cfg) /\ (Copy(p).by = "start" => Kept(jobs, cfg))
      BY <2>2, EditedFine DEF AssetFine
  <2> HIDE DEF cfg
  <2>4. AssetFine(jobs, TRUE, copy) /\ copy # NoAsset
      BY <2>2, <2>3, Reconfigured
  <2> HIDE DEF copy
  <2> QED BY <2>1, <2>4, ChangesFine
<1>2. CASE AddPart(p)
  <2> DEFINE part == NewPart(Edited(p, Defaults), Name(p), p)
  <2>1. At(p, "add_part")
      BY <1>2 DEF AddPart
  <2>2. PartFine(jobs, TRUE, part)
      BY <2>1, FreshPart
  <2>3. (Ends(p, "error") /\ Keeps) \/ Changes(p, WithPart(p, part))
      BY <1>2 DEF AddPart
  <2> HIDE DEF part
  <2> QED BY <2>1, <2>2, <2>3, WithPartFine, GivesUp DEF Outcomes
<1>3. CASE AddParts(p)
  <2> DEFINE part == NewPart(Edited(p, Defaults), Name(p), p)
             parts == [i \in Items |-> part]
             copy == [Copy(p) EXCEPT !.parts = parts]
  <2>1. At(p, "add_parts")
      BY <1>3 DEF AddParts
  <2>2. PartFine(jobs, TRUE, part)
      BY <2>1, FreshPart
  <2>3. (Ends(p, "error") /\ Keeps) \/ Changes(p, copy)
      BY <1>3 DEF AddParts
  <2> HIDE DEF part
  <2>4. AssetFine(jobs, TRUE, Copy(p))
      BY <2>1, CopyThere DEF Copy
  <2>5. parts \in [Items -> Parts \cup {NoPart}] /\ \A i \in Items : PartFine(jobs, TRUE, parts[i])
      BY <2>2 DEF PartFine
  <2> HIDE DEF parts
  <2>6. AssetFine(jobs, TRUE, copy) /\ copy # NoAsset
    <3>1. PICK keys, new : keys = TRUE /\ new = copy
        OBVIOUS
    <3>2. /\ AssetFine(jobs, keys, Copy(p)) /\ new = [Copy(p) EXCEPT !.parts = parts]
          /\ \A i \in Items : parts[i] # NoPart => PartFine(jobs, keys, parts[i])
        BY <2>4, <2>5, <3>1
    <3> HIDE DEF copy
    <3>3. AssetFine(jobs, keys, new) /\ new # NoAsset
        BY <2>5, <3>2, Repartitioned
    <3> QED BY <3>1, <3>3
  <2> HIDE DEF copy
  <2> QED BY <2>1, <2>3, <2>6, ChangesFine, GivesUp DEF Outcomes
<1>4. CASE EditPart(p)
  <2> DEFINE part == [CopyOfPart(p) EXCEPT !.cfg = Edited(p, @)]
  <2>1. At(p, "edit_part") /\ Changes(p, WithPart(p, part))
      BY <1>4 DEF EditPart
  <2>2. PartSeen(cmd[p])
      BY <2>1, ReliedOn DEF Relies, OnPart
  <2>3. PartFine(jobs, TRUE, CopyOfPart(p))
      BY <2>1, <2>2, PartThere DEF InCopy, PartSeen, Copy, Item
  <2>4. PartFine(jobs, TRUE, part)
      BY <2>3, PartEditedFine
  <2> HIDE DEF part
  <2> QED BY <2>1, <2>4, WithPartFine
<1>5. CASE SetMapping(p)
  <2> DEFINE part == NewPart(Edited(p, Defaults), Name(p), p)
             more == [CopyOfPart(p) EXCEPT !.cfg = Edited(p, @)]
  <2>1. At(p, "set_mapping")
      BY <1>5 DEF SetMapping
  <2>2. PartFine(jobs, TRUE, part) /\ (InCopy(p) => PartFine(jobs, TRUE, more))
      BY <2>1, FreshPart, PartThere, PartEditedFine
  <2>3. \/ Ends(p, "error") /\ Keeps
        \/ Changes(p, WithPart(p, part))
        \/ InCopy(p) /\ Changes(p, WithPart(p, more))
      BY <1>5 DEF SetMapping
  <2> HIDE DEF part, more
  <2> QED BY <2>1, <2>2, <2>3, WithPartFine, GivesUp DEF Outcomes
<1>6. CASE EditUser(p)
  <2> DEFINE cfg == UserEdited(p, CopyOfPart(p).cfg)
             part == [CopyOfPart(p) EXCEPT !.cfg = cfg]
  <2>1. At(p, "edit_user")
      BY <1>6 DEF EditUser
  <2>2. PartSeen(cmd[p]) /\ Suits(cmd[p].job, "edit_user") /\ cmd[p].job = jobs[p]
      BY <2>1, ReliedOn, CommandIs DEF Relies, OnPart
  <2>3. PartFine(jobs, TRUE, CopyOfPart(p))
      BY <2>1, <2>2, PartThere DEF InCopy, PartSeen, Copy, Item
  <2>4. Resets(jobs[p], "limits") /\ "limits" \in Fields
      BY <2>2 DEF Suits, Resets, Fields
  <2>5. Meant(jobs, CopyOfPart(p).cfg) /\ (CopyOfPart(p).by = "start" => Kept(jobs, CopyOfPart(p).cfg))
      BY <2>3 DEF PartFine
  <2>6. Meant(jobs, cfg) /\ (CopyOfPart(p).by = "start" => Kept(jobs, cfg))
      BY <2>2, <2>4, <2>5, ResetFine DEF UserEdited
  <2>7. [CopyOfPart(p) EXCEPT !.cfg = UserEdited(p, @)] = part
      BY <2>3 DEF PartFine, Parts
  <2> HIDE DEF cfg
  <2>8. PartFine(jobs, TRUE, part)
      BY <2>3, <2>6, PartReconfigured
  <2>9. Changes(p, WithPart(p, part))
      BY <1>6, <2>7 DEF EditUser
  <2> HIDE DEF part
  <2> QED BY <2>1, <2>8, <2>9, WithPartFine
<1>7. CASE RemovePart(p)
    BY <1>7, WithPartFine, GivesUp DEF RemovePart, Outcomes
<1> QED BY <1>1, <1>2, <1>3, <1>4, <1>5, <1>6, <1>7

(* Consent.                                                                 *)
LEMMA AgreesFine ==
  ASSUME NEW jobs, Inv(jobs), NEW p \in Procs,
         NEW step \in Questions \cup {"confirm_file", "confirm_replacement"}, At(p, step),
         Keeps, Agrees(p)
  PROVE  Inv(jobs)'
<1> DEFINE c == cmd[p]
           agreed == c.agreed \cup {Asking(p)}
           e == [c EXCEPT !.agreed = agreed]
<1>1. /\ IsCommand(c) /\ Typed(c) /\ Named(c) /\ SawWell(jobs, c, assets)
      /\ Relies(jobs, c, step, assets) /\ Suits(c.job, step)
    BY CommandIs, ReliedOn
<1>2. Proceeds(p, e)
  <2>1. [c EXCEPT !.agreed = @ \cup {Asking(p)}] = e
      BY <1>1 DEF IsCommand
  <2> QED BY <2>1 DEF Agrees
<1>3. Asking(p) = AskingOf(c) /\ c.agreed \subseteq agreed /\ Asking(p) \in agreed
    BY DEF Asking, AskingOf, Name, Item
<1> HIDE DEF agreed, e, c
<1>4. /\ IsCommand(e) /\ e.job = c.job /\ e.steps = c.steps /\ e.outcome = c.outcome
      /\ e.asset = c.asset /\ e.item = c.item /\ e.seen = c.seen /\ e.new = c.new
      /\ e.base = c.base /\ e.old = c.old /\ e.warned = c.warned /\ e.agreed = agreed
      /\ e.picked = c.picked /\ e.did = c.did
    BY <1>1 DEF e, IsCommand
<1>5. Typed(e) /\ Named(e) /\ SawWell(jobs, e, assets)
    BY <1>1, <1>4 DEF Typed, Named, SawWell
<1>6. AskingOf(e) \in e.agreed
    BY <1>3, <1>4 DEF AskingOf
<1>7. Provides(jobs, e, step, assets)
  <2>1. step \in OnKeys(e.job.op) => OnKeysNow(e, assets)
      BY <1>1, <1>4 DEF Relies, OnKeysNow
  <2>2. step \in Overwriting(e.job.op) => NewFits(jobs, e, assets)
      BY <1>1, <1>4 DEF Relies, NewFits
  <2>3. step \in OverwritingPart(e.job.op) => Kept(jobs, e.new)
      BY <1>1, <1>4 DEF Relies
  <2>4. step \in AfterWarning(e.job.op) => (Kind[e.asset] = "kv" => e.warned)
      BY <1>1, <1>4 DEF Relies
  <2> QED BY <1>6, <2>1, <2>2, <2>3, <2>4 DEF Provides, Reading, Loading, FindingPart, Naming,
      Changing, ChangingPart, Configuring, Questions
<1>8. step # "fill_file" /\ c.agreed \subseteq e.agreed /\ c.picked \subseteq e.picked
      /\ (c.warned => e.warned)
    BY <1>3, <1>4 DEF Questions
<1> QED BY <1>2, <1>4, <1>5, <1>7, <1>8, Advances DEF c

LEMMA AsksFine ==
  ASSUME NEW jobs, Inv(jobs), NEW p \in Procs,
         Confirm(p) \/ ConfirmReplacement(p) \/ AskQuorum(p) \/ ConfirmFile(p)
  PROVE  Inv(jobs)'
<1> USE DEF Outcomes
<1>1. CASE Confirm(p)
  <2>1. At(p, "confirm") /\ Keeps
      BY <1>1 DEF Confirm
  <2>2. CASE HasForce(p) /\ Proceeds(p, cmd[p])
    <3>1. Waived(cmd[p].job) /\ Relies(jobs, cmd[p], "confirm", assets)
        BY <2>1, <2>2, ReliedOn DEF HasForce, Waived
    <3>2. Provides(jobs, cmd[p], "confirm", assets)
        BY <3>1 DEF Relies, Provides, Reading, Loading, FindingPart, Naming, Changing,
            ChangingPart, Configuring
    <3> QED BY <2>1, <2>2, <3>2, Stays
  <2>3. CASE ~(HasForce(p) /\ Proceeds(p, cmd[p]))
      BY <1>1, <2>1, <2>3, AgreesFine, GivesUp DEF Confirm, Questions
  <2> QED BY <2>2, <2>3
<1>2. CASE ConfirmReplacement(p)
  <2>1. At(p, "confirm_replacement") /\ Keeps
      BY <1>2 DEF ConfirmReplacement
  <2>2. Proceeds(p, cmd[p]) \/ Agrees(p) \/ \E o \in {"error", "declined"} : Ends(p, o)
      BY <1>2 DEF ConfirmReplacement
  <2> QED BY <2>1, <2>2, AgreesFine, GivesUp, LooksOn DEF LooksOnly
<1>3. CASE AskQuorum(p)
    BY <1>3, AgreesFine, GivesUp DEF AskQuorum, Questions
<1>4. CASE ConfirmFile(p)
  <2>1. At(p, "confirm_file") /\ Keeps
      BY <1>4 DEF ConfirmFile
  <2>2. CASE cmd[p].seen = NoAsset /\ Proceeds(p, cmd[p])
    <3>1. Provides(jobs, cmd[p], "confirm_file", assets)
        BY <2>2 DEF Provides, Reading, Loading, OnKeys, FindingPart, Naming, Changing,
            Overwriting, ChangingPart, OverwritingPart, Configuring, Questions, AfterConsent,
            AfterWarning, Destructive, Grave
    <3> QED BY <2>1, <2>2, <3>1, Stays
  <2>3. CASE ~(cmd[p].seen = NoAsset /\ Proceeds(p, cmd[p]))
      BY <1>4, <2>1, <2>3, AgreesFine, GivesUp DEF ConfirmFile
  <2> QED BY <2>2, <2>3
<1> QED BY <1>1, <1>2, <1>3, <1>4

LEMMA WarnsFine ==
  ASSUME NEW jobs, Inv(jobs), NEW p \in Procs, WarnOfBucket(p)
  PROVE  Inv(jobs)'
<1> DEFINE c == cmd[p]
<1>1. /\ IsCommand(c) /\ Typed(c) /\ Named(c) /\ SawWell(jobs, c, assets)
      /\ At(p, "warn") /\ Keeps /\ Relies(jobs, c, "warn", assets)
    BY CommandIs, ReliedOn DEF WarnOfBucket
<1>2. CASE Ends(p, "error")
    BY <1>1, <1>2, GivesUp DEF Outcomes
<1>3. CASE Kind[Name(p)] # "kv" /\ Proceeds(p, c)
  <2>1. Provides(jobs, c, "warn", assets)
      BY <1>1, <1>3 DEF Relies, Provides, Reading, Loading, OnKeys, FindingPart, Naming, Changing,
          ChangingPart, Configuring, Questions, Name
  <2> QED BY <1>1, <1>3, <2>1, Stays
<1>4. CASE Proceeds(p, [c EXCEPT !.warned = TRUE])
  <2> DEFINE e == [c EXCEPT !.warned = TRUE]
  <2>1. /\ IsCommand(e) /\ e.job = c.job /\ e.steps = c.steps /\ e.outcome = c.outcome
        /\ e.asset = c.asset /\ e.item = c.item /\ e.seen = c.seen /\ e.new = c.new
        /\ e.base = c.base /\ e.old = c.old /\ e.warned = TRUE /\ e.agreed = c.agreed
        /\ e.picked = c.picked /\ e.did = c.did
    <3>1. PICK b : b = TRUE
        OBVIOUS
    <3>2. e = [c EXCEPT !.warned = b]
        BY <3>1
    <3> HIDE DEF c, e
    <3>3. /\ IsCommand(e) /\ e.job = c.job /\ e.steps = c.steps /\ e.outcome = c.outcome
          /\ e.asset = c.asset /\ e.item = c.item /\ e.seen = c.seen /\ e.new = c.new
          /\ e.base = c.base /\ e.old = c.old /\ e.warned = b /\ e.agreed = c.agreed
          /\ e.picked = c.picked /\ e.did = c.did
        BY <1>1, <3>2 DEF IsCommand
    <3> QED BY <3>1, <3>3
  <2>2. Proceeds(p, e)
      BY <1>4
  <2> HIDE DEF e, c
  <2>3. Typed(e) /\ Named(e) /\ SawWell(jobs, e, assets)
      BY <1>1, <2>1 DEF Typed, Named, SawWell
  <2>4. Provides(jobs, e, "warn", assets)
    <3>1. "warn" \in Overwriting(e.job.op) => NewFits(jobs, e, assets)
        BY <1>1, <2>1 DEF Relies, NewFits
    <3>2. "warn" \in AfterConsent(e.job.op) => Waived(e.job) \/ AskingOf(e) \in e.agreed
        BY <1>1, <2>1 DEF Relies, AskingOf
    <3> QED BY <2>1, <3>1, <3>2 DEF Provides, Reading, Loading, OnKeys, FindingPart, Naming,
        Changing, ChangingPart, OverwritingPart, Configuring, Questions
  <2>5. c.agreed \subseteq e.agreed /\ c.picked \subseteq e.picked /\ (c.warned => e.warned)
      BY <2>1
  <2> QED BY <1>1, <2>1, <2>2, <2>3, <2>4, <2>5, Advances DEF c
<1> QED BY <1>2, <1>3, <1>4 DEF WarnOfBucket

Drafting ==
  {"configure", "configure_consumer", "configure_bucket", "edit_stream", "edit_consumer",
   "edit_the_copy", "edit_bucket", "edit_context", "edit_errors", "read_context",
   "load_unknown"}

OnOriginal(p) == cmd[p].asset \in Assets /\ Original(assets[cmd[p].asset])

Redrawn(e, c, new) ==
  /\ IsCommand(e) /\ e.job = c.job /\ e.steps = c.steps /\ e.outcome = c.outcome
  /\ e.asset = c.asset /\ e.item = c.item /\ e.seen = c.seen /\ e.new = new
  /\ e.base = c.base /\ e.old = c.old /\ e.warned = c.warned /\ e.agreed = c.agreed
  /\ e.picked = c.picked /\ e.did = c.did

LEMMA Redrafted ==
  ASSUME NEW c, IsCommand(c), NEW was, NEW new, NEW e, e = [c EXCEPT !.was = was, !.new = new]
  PROVE  Redrawn(e, c, new)
BY DEF IsCommand, Redrawn

(* A command that goes on with another configuration.                       *)
LEMMA Drafts ==
  ASSUME NEW jobs, Inv(jobs), NEW p \in Procs, NEW step \in Drafting, At(p, step), Keeps,
         NEW was, NEW new, Proceeds(p, [cmd[p] EXCEPT !.was = was, !.new = new]),
         Meant(jobs, new), step \in ChangingPart => Kept(jobs, new),
         step \in Changing /\ cmd[p].job.op \in Saves /\ OnOriginal(p) => Kept(jobs, new)
  PROVE  Inv(jobs)'
<1> DEFINE c == cmd[p]
           e == [c EXCEPT !.was = was, !.new = new]
<1>1. IsCommand(c) /\ Typed(c) /\ Named(c) /\ SawWell(jobs, c, assets)
    BY CommandIs
<1>2. Proceeds(p, e)
    OBVIOUS
<1> HIDE DEF c, e
<1>3. /\ IsCommand(e) /\ e.job = c.job /\ e.steps = c.steps /\ e.outcome = c.outcome
      /\ e.asset = c.asset /\ e.item = c.item /\ e.seen = c.seen /\ e.new = new
      /\ e.base = c.base /\ e.old = c.old /\ e.warned = c.warned /\ e.agreed = c.agreed
      /\ e.picked = c.picked /\ e.did = c.did
  <2>1. IsCommand(c)
      BY <1>1
  <2>2. \A x : IsCommand(x) => Redrawn([x EXCEPT !.was = was, !.new = new], x, new)
      BY Redrafted, Zenon
  <2>3. Redrawn(e, c, new)
      BY <2>1, <2>2, Zenon DEF e
  <2> QED BY <2>3 DEF Redrawn
<1>4. Typed(e) /\ Named(e) /\ SawWell(jobs, e, assets)
    BY <1>1, <1>3 DEF Typed, Named, SawWell, Meant
<1>5. Provides(jobs, e, step, assets)
  <2>1. step \in Changing /\ e.job.op \in Saves => NewFits(jobs, e, assets)
      BY <1>3 DEF NewFits, OnOriginal, c
  <2>2. step \notin Overwriting(e.job.op) \cup OverwritingPart(e.job.op)
      BY DEF Drafting, Overwriting, OverwritingPart
  <2>3. step \in ChangingPart => Kept(jobs, e.new)
      BY <1>3
  <2>4. Meant(jobs, e.new)
      BY <1>3
  <2>5. step \notin Reading \cup Loading \cup OnKeys(e.job.op) \cup FindingPart \cup Naming
          \cup Questions \cup AfterConsent(e.job.op) \cup {"confirm_file", "warn"}
          \cup AfterWarning(e.job.op)
      BY DEF Drafting, Reading, Loading, OnKeys, FindingPart, Naming, Questions, AfterConsent,
             AfterWarning, Destructive, Grave
  <2> QED BY <2>1, <2>2, <2>3, <2>4, <2>5 DEF Provides
<1>6. step # "fill_file" /\ c.agreed \subseteq e.agreed /\ c.picked \subseteq e.picked
      /\ (c.warned => e.warned)
    BY <1>3 DEF Drafting
<1> QED BY <1>2, <1>3, <1>4, <1>5, <1>6, Advances DEF c

LEMMA DraftsNew ==
  ASSUME NEW jobs, Inv(jobs), NEW p \in Procs, NEW step \in Drafting, At(p, step), Keeps,
         NEW new, Proceeds(p, [cmd[p] EXCEPT !.new = new]),
         Meant(jobs, new), step \in ChangingPart => Kept(jobs, new),
         step \in Changing /\ cmd[p].job.op \in Saves /\ OnOriginal(p) => Kept(jobs, new)
  PROVE  Inv(jobs)'
<1>1. IsCommand(cmd[p])
    BY CommandIs
<1>2. [cmd[p] EXCEPT !.new = new] = [cmd[p] EXCEPT !.was = cmd[p].was, !.new = new]
    BY <1>1 DEF IsCommand
<1>3. Proceeds(p, [cmd[p] EXCEPT !.was = cmd[p].was, !.new = new])
    BY <1>2
<1> QED BY <1>3, Drafts

LEMMA SeenConfig ==
  ASSUME NEW jobs, Inv(jobs), NEW p \in Procs, NEW step \in AfterRead, At(p, step)
  PROVE  /\ cmd[p].seen # NoAsset /\ Meant(jobs, cmd[p].seen.cfg) /\ cmd[p].job = jobs[p]
         /\ cmd[p].job.op \in Rewrites /\ OnOriginal(p) => Kept(jobs, cmd[p].seen.cfg)
<1>1. /\ Relies(jobs, cmd[p], step, assets) /\ SawWell(jobs, cmd[p], assets)
      /\ cmd[p].job = jobs[p]
    BY ReliedOn, CommandIs
<1>2. cmd[p].seen # NoAsset
    BY <1>1 DEF Relies
<1> QED BY <1>1, <1>2 DEF SawWell, AssetFine, OnOriginal

LEMMA SeenPart ==
  ASSUME NEW jobs, Inv(jobs), NEW p \in Procs, NEW step \in {"edit_consumer", "edit_the_copy"},
         At(p, step)
  PROVE  Kept(jobs, Seen(p).cfg) /\ Meant(jobs, Seen(p).cfg) /\ cmd[p].job = jobs[p]
<1>1. /\ Relies(jobs, cmd[p], step, assets) /\ SawWell(jobs, cmd[p], assets)
      /\ cmd[p].job = jobs[p] /\ Suits(cmd[p].job, step)
    BY ReliedOn, CommandIs
<1>2. cmd[p].seen # NoAsset /\ PartSeen(cmd[p])
    BY <1>1 DEF Relies, AfterRead, OnPart
<1>3. cmd[p].job.op \notin WorksOnKeys
    BY <1>1 DEF Suits
<1>4. PartFine(jobs, FALSE, Seen(p))
    BY <1>1, <1>2, <1>3 DEF SawWell, AssetFine, PartFine, PartSeen, Seen, Item
<1> QED BY <1>1, <1>4 DEF PartFine

LEMMA ConfiguringFine ==
  ASSUME NEW jobs, Inv(jobs), NEW p \in Procs,
         Configure(p) \/ ConfigureConsumer(p) \/ ConfigureBucket(p) \/ LoadUnknown(p)
  PROVE  Inv(jobs)'
<1> USE DEF Outcomes
<1> DEFINE new == [f \in Fields |-> Asked(p, f, "default")]
<1>0. cmd[p].job = jobs[p]
    BY CommandIs
<1>1. Meant(jobs, new) /\ ((\A f \in Fields : Resets(jobs[p], f)) => Kept(jobs, new))
    BY <1>0, ConfiguredFine
<1>2. CASE Configure(p)
  <2>1. At(p, "configure") /\ Keeps
        /\ \/ Proceeds(p, [cmd[p] EXCEPT !.new = new])
           \/ \E o \in {"error", "dry_run"} : Ends(p, o)
      BY <1>2 DEF Configure
  <2>2. "configure" \in Drafting /\ "configure" \notin ChangingPart \cup Changing
      BY DEF Drafting, ChangingPart, Changing
  <2> HIDE DEF new
  <2> QED BY <1>1, <2>1, <2>2, DraftsNew, GivesUp
<1>3. CASE ConfigureConsumer(p)
  <2>1. At(p, "configure_consumer") /\ Keeps
        /\ \/ Proceeds(p, [cmd[p] EXCEPT !.new = new])
           \/ \E o \in {"error", "dry_run"} : Ends(p, o)
      BY <1>3 DEF ConfigureConsumer, ConfiguredConsumer
  <2>2. "configure_consumer" \in Drafting /\ "configure_consumer" \notin Changing
      BY DEF Drafting, Changing
  <2>3. cmd[p].job.op = "consumer_add"
      BY <2>1, ReliedOn DEF Suits
  <2>4. Kept(jobs, new)
      BY <1>0, <1>1, <2>3 DEF Resets
  <2> HIDE DEF new
  <2> QED BY <1>1, <2>1, <2>2, <2>4, DraftsNew, GivesUp
<1>4. CASE ConfigureBucket(p)
  <2>1. At(p, "configure_bucket") /\ Keeps /\ Proceeds(p, [cmd[p] EXCEPT !.new = new])
      BY <1>4 DEF ConfigureBucket
  <2>2. "configure_bucket" \in Drafting /\ "configure_bucket" \notin ChangingPart \cup Changing
      BY DEF Drafting, ChangingPart, Changing
  <2> HIDE DEF new
  <2> QED BY <1>1, <2>1, <2>2, DraftsNew
<1>5. CASE LoadUnknown(p)
  <2> DEFINE unknown == Edited(p, Defaults)
  <2>1. At(p, "load_unknown") /\ Keeps
        /\ (Proceeds(p, [cmd[p] EXCEPT !.new = unknown]) \/ Ends(p, "error"))
      BY <1>5 DEF LoadUnknown
  <2>2. "load_unknown" \in Drafting /\ "load_unknown" \notin ChangingPart \cup Changing
      BY DEF Drafting, ChangingPart, Changing
  <2>3. Meant(jobs, unknown)
      BY <1>0, EditedFine, DefaultsMeant
  <2> HIDE DEF unknown
  <2> QED BY <2>1, <2>2, <2>3, DraftsNew, GivesUp
<1> QED BY <1>2, <1>3, <1>4, <1>5

LEMMA EditStreamFine ==
  ASSUME NEW jobs, Inv(jobs), NEW p \in Procs, EditStream(p)
  PROVE  Inv(jobs)'
<1> DEFINE cfg == cmd[p].seen.cfg
           edited == IF cmd[p].job.file THEN OfFile(p) ELSE StreamEdited(p, cfg)
<1>1. At(p, "edit_stream") /\ Keeps
    BY DEF EditStream
<1>2. /\ Meant(jobs, cfg) /\ cmd[p].job = jobs[p]
      /\ cmd[p].job.op \in Rewrites /\ OnOriginal(p) => Kept(jobs, cfg)
    BY <1>1, SeenConfig DEF AfterRead
<1>3. cmd[p].job.op \in {"stream_edit", "stream_cp"}
    BY <1>1, ReliedOn DEF Suits
<1>4. cmd[p].job.op \in Saves => cmd[p].job.op \in Rewrites /\ Resets(jobs[p], "rest")
    BY <1>2, <1>3 DEF Saves, Rewrites, Resets
<1>5. "rest" \in Fields /\ "edit_stream" \in Drafting /\ "edit_stream" \notin ChangingPart
    BY DEF Fields, Drafting, ChangingPart
<1>6. CASE Ends(p, "error")
    BY <1>1, <1>6, GivesUp DEF Outcomes
<1>7. CASE \E new \in {edited} \cup InteractivelyEdited(p, cfg) :
             Proceeds(p, [cmd[p] EXCEPT !.was = cfg, !.new = new])
  <2>1. PICK new \in {edited, Edited(p, cfg)} :
               Proceeds(p, [cmd[p] EXCEPT !.was = cfg, !.new = new])
      BY <1>7 DEF InteractivelyEdited
  <2> HIDE DEF cfg
  <2>2. /\ Meant(jobs, new)
        /\ cmd[p].job.op \in Saves /\ Kept(jobs, cfg) /\ Resets(jobs[p], "rest") => Kept(jobs, new)
    <3>1. CASE new = StreamEdited(p, cfg)
        BY <1>2, <1>5, <3>1, ResetFine DEF StreamEdited
    <3>2. CASE new = Edited(p, cfg)
        BY <1>2, <3>2, EditedFine
    <3>3. CASE cmd[p].job.file /\ new = OfFile(p)
      <4>1. cmd[p].job.op \in Saves => \A f \in Fields : Resets(jobs[p], f)
          BY <1>2, <1>3, <3>3 DEF Saves, Resets
      <4>2. new = [f \in Fields |-> Asked(p, f, "default")]
          BY <3>3 DEF OfFile
      <4> QED BY <1>2, <4>1, <4>2, ConfiguredFine
    <3> QED BY <2>1, <3>1, <3>2, <3>3
  <2>3. cmd[p].job.op \in Saves /\ OnOriginal(p) => Kept(jobs, new)
      BY <1>2, <1>4, <2>2
  <2> QED BY <1>1, <1>5, <2>1, <2>2, <2>3, Drafts
<1> QED BY <1>6, <1>7 DEF EditStream

LEMMA EditConsumerFine ==
  ASSUME NEW jobs, Inv(jobs), NEW p \in Procs, EditConsumer(p) \/ EditCopy(p)
  PROVE  Inv(jobs)'
<1> DEFINE cfg == Seen(p).cfg
<1>1. CASE EditConsumer(p)
  <2>1. At(p, "edit_consumer") /\ Keeps
      BY <1>1 DEF EditConsumer
  <2>2. Kept(jobs, cfg) /\ Meant(jobs, cfg) /\ cmd[p].job = jobs[p]
      BY <2>1, SeenPart
  <2>3. \/ Ends(p, "error")
        \/ Proceeds(p, [cmd[p] EXCEPT !.was = cfg, !.new = Edited(p, cfg)])
        \/ cmd[p].job.file /\ Proceeds(p, [cmd[p] EXCEPT !.was = cfg, !.new = OfFile(p)])
      BY <1>1 DEF EditConsumer, InteractivelyEdited
  <2> HIDE DEF cfg
  <2>4. Kept(jobs, Edited(p, cfg)) /\ Meant(jobs, Edited(p, cfg))
      BY <2>2, EditedFine
  <2>5. ASSUME cmd[p].job.file PROVE Kept(jobs, OfFile(p)) /\ Meant(jobs, OfFile(p))
    <3>1. cmd[p].job.op = "consumer_edit"
        BY <2>1, <2>5, JobIs, ReliedOn DEF Suits, Fits
    <3>2. \A f \in Fields : Resets(jobs[p], f)
        BY <2>2, <2>5, <3>1 DEF Resets
    <3> QED BY <2>2, <3>2, ConfiguredFine DEF OfFile
  <2> QED BY <2>1, <2>3, <2>4, <2>5, Drafts, GivesUp DEF Drafting, Outcomes
<1>2. CASE EditCopy(p)
  <2> DEFINE new == [Edited(p, cfg) EXCEPT !["rest"] = Asked(p, "rest", "default")]
  <2>1. At(p, "edit_the_copy") /\ Keeps
      BY <1>2 DEF EditCopy
  <2>2. Kept(jobs, cfg) /\ Meant(jobs, cfg) /\ cmd[p].job = jobs[p]
      BY <2>1, SeenPart
  <2>3. Ends(p, "error") \/ Proceeds(p, [cmd[p] EXCEPT !.new = new])
      BY <1>2 DEF EditCopy
  <2>4. Resets(jobs[p], "rest") /\ "rest" \in Fields
      BY <2>1, <2>2, ReliedOn DEF Suits, Resets, Fields
  <2> HIDE DEF cfg
  <2>5. Kept(jobs, new) /\ Meant(jobs, new)
      BY <2>2, <2>4, ResetFine
  <2> HIDE DEF new
  <2> QED BY <2>1, <2>3, <2>5, DraftsNew, GivesUp DEF Drafting, Outcomes
<1> QED BY <1>1, <1>2

LEMMA EditBucketFine ==
  ASSUME NEW jobs, Inv(jobs), NEW p \in Procs, EditBucket(p)
  PROVE  Inv(jobs)'
<1> DEFINE cfg == cmd[p].seen.cfg
           new == Edited(p, cfg)
<1>1. At(p, "edit_bucket") /\ Keeps /\ Proceeds(p, [cmd[p] EXCEPT !.new = new])
    BY DEF EditBucket
<1>2. /\ Meant(jobs, cfg) /\ cmd[p].job = jobs[p]
      /\ cmd[p].job.op \in Rewrites /\ OnOriginal(p) => Kept(jobs, cfg)
    BY <1>1, SeenConfig DEF AfterRead
<1>3. cmd[p].job.op \in Rewrites
    BY <1>1, ReliedOn DEF Suits, Rewrites
<1> HIDE DEF cfg
<1>4. Meant(jobs, new) /\ (Kept(jobs, cfg) => Kept(jobs, new))
    BY <1>2, EditedFine
<1>5. "edit_bucket" \in Drafting /\ "edit_bucket" \notin ChangingPart
    BY DEF Drafting, ChangingPart
<1> HIDE DEF new
<1> QED BY <1>1, <1>2, <1>3, <1>4, <1>5, DraftsNew

LEMMA EditContextFine ==
  ASSUME NEW jobs, Inv(jobs), NEW p \in Procs, EditContext(p)
  PROVE  Inv(jobs)'
<1> DEFINE cfg == cmd[p].seen.cfg
           new == ContextEdited(p, cfg)
<1>1. At(p, "edit_context") /\ Keeps /\ Proceeds(p, [cmd[p] EXCEPT !.new = new])
    BY DEF EditContext
<1>2. /\ Meant(jobs, cfg) /\ cmd[p].job = jobs[p]
      /\ cmd[p].job.op \in Rewrites /\ OnOriginal(p) => Kept(jobs, cfg)
    BY <1>1, SeenConfig DEF AfterRead
<1>3. cmd[p].job.op \in Rewrites /\ Resets(jobs[p], "rest") /\ "rest" \in Fields
    BY <1>1, <1>2, ReliedOn DEF Suits, Rewrites, Resets, Fields
<1> HIDE DEF cfg
<1>4. Meant(jobs, new) /\ (Kept(jobs, cfg) => Kept(jobs, new))
    BY <1>2, <1>3, ResetFine DEF ContextEdited
<1>5. "edit_context" \in Drafting /\ "edit_context" \notin ChangingPart
    BY DEF Drafting, ChangingPart
<1> HIDE DEF new
<1> QED BY <1>1, <1>2, <1>3, <1>4, <1>5, DraftsNew

LEMMA EditErrorsFine ==
  ASSUME NEW jobs, Inv(jobs), NEW p \in Procs, EditErrors(p)
  PROVE  Inv(jobs)'
<1> DEFINE cfg == cmd[p].seen.cfg
           new == Edited(p, cfg)
<1>1. At(p, "edit_errors") /\ Keeps
      /\ (Ends(p, "error") \/ Proceeds(p, [cmd[p] EXCEPT !.new = new]))
    BY DEF EditErrors
<1>2. Meant(jobs, cfg) /\ cmd[p].job = jobs[p]
    BY <1>1, SeenConfig DEF AfterRead
<1> HIDE DEF cfg
<1>3. Meant(jobs, new)
    BY <1>2, EditedFine
<1>4. "edit_errors" \in Drafting /\ "edit_errors" \notin ChangingPart \cup Changing
    BY DEF Drafting, ChangingPart, Changing
<1> HIDE DEF new
<1> QED BY <1>1, <1>3, <1>4, DraftsNew, GivesUp DEF Outcomes

LEMMA ReadContextFine ==
  ASSUME NEW jobs, Inv(jobs), NEW p \in Procs, ReadContext(p)
  PROVE  Inv(jobs)'
<1> DEFINE source == IF Exists(Name(p)) THEN Name(p) ELSE cmd[p].job.to
           cfg == IF Exists(source) THEN assets[source].cfg ELSE Defaults
           new == Edited(p, cfg)
<1>1. At(p, "read_context") /\ Keeps /\ Proceeds(p, [cmd[p] EXCEPT !.new = new])
    BY DEF ReadContext
<1>2. cmd[p].job = jobs[p] /\ AssetsFine(jobs, assets)
    BY CommandIs DEF Inv
<1>3. Meant(jobs, cfg)
  <2>1. CASE Exists(source)
    <3>1. source \in Assets /\ assets[source] # NoAsset /\ cfg = assets[source].cfg
        BY <2>1 DEF Exists
    <3> HIDE DEF source, cfg
    <3> QED BY <1>2, <3>1 DEF AssetsFine, AssetFine
  <2>2. CASE ~Exists(source)
      BY <2>2, DefaultsMeant
  <2> QED BY <2>1, <2>2
<1>4. OnOriginal(p) => Kept(jobs, cfg)
  <2>1. ASSUME OnOriginal(p) PROVE Kept(jobs, cfg)
    <3>1. Exists(Name(p)) /\ Name(p) = cmd[p].asset
        BY <2>1 DEF OnOriginal, Original, Exists, Name
    <3>2. cfg = assets[cmd[p].asset].cfg
        BY <3>1
    <3> HIDE DEF cfg
    <3> QED BY <1>2, <2>1, <3>2 DEF OnOriginal, AssetsFine, AssetFine, Original
  <2> QED BY <2>1
<1> HIDE DEF cfg
<1>5. Meant(jobs, new) /\ (Kept(jobs, cfg) => Kept(jobs, new))
    BY <1>2, <1>3, EditedFine
<1>6. "read_context" \in Drafting /\ "read_context" \notin ChangingPart
    BY DEF Drafting, ChangingPart
<1> HIDE DEF new
<1> QED BY <1>1, <1>4, <1>5, <1>6, DraftsNew

(***************************************************************************)
(* The requests.                                                            *)
(***************************************************************************)

RequestSteps ==
  {"create_stream", "copy_stream", "update_stream", "purge_stream", "delete_stream",
   "remove_message", "seal_stream", "step_down", "cancel_move", "evacuate", "remove_peer",
   "rescue", "balance", "create_consumer", "copy_consumer", "update_consumer",
   "delete_consumer", "reset_consumer", "pause_consumer", "resume_consumer",
   "unpin_consumer", "step_down_consumer", "evacuate_consumer", "pull_message",
   "acknowledge", "put_key", "create_key", "update_key", "delete_key", "purge_key",
   "compact", "put_object", "seal_bucket", "add_to_counter", "purge_account",
   "reload_server", "kick_client", "save_context", "delete_context", "commit_new",
   "commit", "commit_removal", "write_file", "update_file", "fill_file",
   "balance_streams", "balance_consumers", "push_account", "save_selected_operator"}

LEMMA RequestsApart ==
  ASSUME NEW step \in RequestSteps \cup {"revert_key"}
  PROVE  step \notin Setting \cup {"create_file"}
BY DEF RequestSteps, Setting, Reading, Loading, FindingPart, Naming, Changing, ChangingPart,
       Configuring, Questions

LEMMA Requested ==
  ASSUME NEW jobs, Inv(jobs), NEW p \in Procs, NEW step \in RequestSteps, NEW accepted, NEW new,
         Request(p, step, accepted, new), accepted => GoodChange(jobs, assets, new)
  PROVE  Inv(jobs)'
<1>1. step # "revert_key"
    BY DEF RequestSteps
<1> QED BY <1>1, RequestsApart, RequestFine

LEMMA AssetIs ==
  ASSUME NEW jobs, Inv(jobs), NEW n, Exists(n)
  PROVE  /\ n \in Assets /\ assets[n] # NoAsset /\ AssetFine(jobs, IsKeys(n), assets[n])
         /\ IsAsset(assets[n]) /\ assets[n] \in AssetRecords
BY DEF Inv, AssetsFine, Exists, AssetFine, IsAsset

(* What is in an asset may change, and where it is kept.                    *)
LEMMA Altered ==
  ASSUME NEW jobs, Inv(jobs), NEW n, Exists(n), NEW x, IsAsset(x), x.cfg = assets[n].cfg,
         x.by = assets[n].by, x.parts = assets[n].parts, NEW bs, bs = [assets EXCEPT ![n] = x]
  PROVE  GoodChange(jobs, assets, bs)
<1>1. AssetFine(jobs, IsKeys(n), assets[n]) /\ assets[n] # NoAsset
    BY AssetIs
<1>2. AssetFine(jobs, IsKeys(n), x) /\ x # NoAsset
    BY <1>1, Recast
<1>3. Original(assets[n]) <=> Original(x)
    BY <1>1, <1>2 DEF Original
<1>4. AssetsFine(jobs, assets)
    BY DEF Inv
<1> QED BY <1>2, <1>3, <1>4, OneAsset

LEMMA PurgeStreamFine ==
  ASSUME NEW jobs, Inv(jobs), NEW p \in Procs, PurgeStream(p)
  PROVE  Inv(jobs)'
<1> DEFINE n == Name(p)
           x == [assets[n] EXCEPT !.msgs = {}]
           ok == Exists(n) /\ ~assets[n].sealed
           new == [assets EXCEPT ![n] = x]
<1>1. Request(p, "purge_stream", ok, new)
    BY DEF PurgeStream
<1>2. ASSUME ok PROVE GoodChange(jobs, assets, new)
  <2>1. Exists(n) /\ IsAsset(assets[n]) /\ assets[n] \in AssetRecords
      BY <1>2, AssetIs
  <2>2. IsAsset(x) /\ x.cfg = assets[n].cfg /\ x.by = assets[n].by /\ x.parts = assets[n].parts
      BY <2>1 DEF AssetRecords, IsAsset
  <2> HIDE DEF x, n
  <2> QED BY <2>1, <2>2, Altered
<1> HIDE DEF ok, new
<1> QED BY <1>1, <1>2, Requested DEF RequestSteps

LEMMA SealBucketFine ==
  ASSUME NEW jobs, Inv(jobs), NEW p \in Procs, SealBucket(p)
  PROVE  Inv(jobs)'
<1> DEFINE n == Name(p)
           x == [assets[n] EXCEPT !.sealed = TRUE]
           ok == Exists(n)
           new == [assets EXCEPT ![n] = x]
<1>1. Request(p, "seal_bucket", ok, new)
    BY DEF SealBucket
<1>2. ASSUME ok PROVE GoodChange(jobs, assets, new)
  <2>1. Exists(n) /\ IsAsset(assets[n]) /\ assets[n] \in AssetRecords
      BY <1>2, AssetIs
  <2>2. IsAsset(x) /\ x.cfg = assets[n].cfg /\ x.by = assets[n].by /\ x.parts = assets[n].parts
      BY <2>1 DEF AssetRecords, IsAsset
  <2> HIDE DEF x, n
  <2> QED BY <2>1, <2>2, Altered
<1> HIDE DEF ok, new
<1> QED BY <1>1, <1>2, Requested DEF RequestSteps

LEMMA StepDownFine ==
  ASSUME NEW jobs, Inv(jobs), NEW p \in Procs, StepDown(p)
  PROVE  Inv(jobs)'
<1> DEFINE n == Name(p)
           x == [assets[n] EXCEPT !.leader = "nobody"]
           ok == Exists(n)
           new == [assets EXCEPT ![n] = x]
<1>1. Request(p, "step_down", ok, new)
    BY DEF StepDown
<1>2. ASSUME ok PROVE GoodChange(jobs, assets, new)
  <2>1. Exists(n) /\ IsAsset(assets[n]) /\ assets[n] \in AssetRecords
      BY <1>2, AssetIs
  <2>2. IsAsset(x) /\ x.cfg = assets[n].cfg /\ x.by = assets[n].by /\ x.parts = assets[n].parts
      BY <2>1 DEF AssetRecords, IsAsset
  <2> HIDE DEF x, n
  <2> QED BY <2>1, <2>2, Altered
<1> HIDE DEF ok, new
<1> QED BY <1>1, <1>2, Requested DEF RequestSteps

LEMMA CancelMoveFine ==
  ASSUME NEW jobs, Inv(jobs), NEW p \in Procs, CancelMove(p)
  PROVE  Inv(jobs)'
<1> DEFINE n == Name(p)
           x == [assets[n] EXCEPT !.desired = assets[n].peers]
           ok == Exists(n) /\ assets[n].moving
           new == [assets EXCEPT ![n] = x]
<1>1. Request(p, "cancel_move", ok, new)
    BY DEF CancelMove
<1>2. ASSUME ok PROVE GoodChange(jobs, assets, new)
  <2>1. Exists(n) /\ IsAsset(assets[n]) /\ assets[n] \in AssetRecords
      BY <1>2, AssetIs
  <2>2. IsAsset(x) /\ x.cfg = assets[n].cfg /\ x.by = assets[n].by /\ x.parts = assets[n].parts
      BY <2>1 DEF AssetRecords, IsAsset
  <2> HIDE DEF x, n
  <2> QED BY <2>1, <2>2, Altered
<1> HIDE DEF ok, new
<1> QED BY <1>1, <1>2, Requested DEF RequestSteps

LEMMA RemoveMessageFine ==
  ASSUME NEW jobs, Inv(jobs), NEW p \in Procs, RemoveMessage(p)
  PROVE  Inv(jobs)'
<1> DEFINE n == Name(p)
           x == [assets[n] EXCEPT !.msgs = {m \in @ : m.seq # cmd[p].job.rev}]
           ok == Exists(n) /\ ~assets[n].sealed /\ \E m \in assets[n].msgs : m.seq = cmd[p].job.rev
           new == [assets EXCEPT ![n] = x]
<1>1. Request(p, "remove_message", ok, new)
    BY DEF RemoveMessage
<1>2. ASSUME ok PROVE GoodChange(jobs, assets, new)
  <2>1. Exists(n) /\ IsAsset(assets[n]) /\ assets[n] \in AssetRecords
      BY <1>2, AssetIs
  <2>2. IsAsset(x) /\ x.cfg = assets[n].cfg /\ x.by = assets[n].by /\ x.parts = assets[n].parts
      BY <2>1 DEF AssetRecords, IsAsset
  <2> HIDE DEF x, n
  <2> QED BY <2>1, <2>2, Altered
<1> HIDE DEF ok, new
<1> QED BY <1>1, <1>2, Requested DEF RequestSteps

LEMMA RemovePeerFine ==
  ASSUME NEW jobs, Inv(jobs), NEW p \in Procs, RemovePeer(p)
  PROVE  Inv(jobs)'
<1> DEFINE n == Name(p)
           x == [assets[n] EXCEPT !.peers = @ \ {cmd[p].old},
 !.desired = @ \ {cmd[p].old},
 !.leader = IF @ = cmd[p].old THEN "nobody" ELSE @]
           ok == Exists(n) /\ cmd[p].old \in assets[n].peers
           new == [assets EXCEPT ![n] = x]
<1>1. Request(p, "remove_peer", ok, new)
    BY DEF RemovePeer
<1>2. ASSUME ok PROVE GoodChange(jobs, assets, new)
  <2>1. Exists(n) /\ IsAsset(assets[n]) /\ assets[n] \in AssetRecords
      BY <1>2, AssetIs
  <2>2. IsAsset(x) /\ x.cfg = assets[n].cfg /\ x.by = assets[n].by /\ x.parts = assets[n].parts
      BY <2>1 DEF AssetRecords, IsAsset
  <2> HIDE DEF x, n
  <2> QED BY <2>1, <2>2, Altered
<1> HIDE DEF ok, new
<1> QED BY <1>1, <1>2, Requested DEF RequestSteps

LEMMA CompactFine ==
  ASSUME NEW jobs, Inv(jobs), NEW p \in Procs, Compact(p)
  PROVE  Inv(jobs)'
<1> DEFINE n == Name(p)
           x == [assets[n] EXCEPT !.msgs = {m \in @ : Live(assets[n], m.key)}]
           ok == Exists(n) /\ ~assets[n].sealed
           new == [assets EXCEPT ![n] = x]
<1>1. Request(p, "compact", ok, new)
    BY DEF Compact
<1>2. ASSUME ok PROVE GoodChange(jobs, assets, new)
  <2>1. Exists(n) /\ IsAsset(assets[n]) /\ assets[n] \in AssetRecords
      BY <1>2, AssetIs
  <2>2. IsAsset(x) /\ x.cfg = assets[n].cfg /\ x.by = assets[n].by /\ x.parts = assets[n].parts
      BY <2>1 DEF AssetRecords, IsAsset
  <2> HIDE DEF x, n
  <2> QED BY <2>1, <2>2, Altered
<1> HIDE DEF ok, new
<1> QED BY <1>1, <1>2, Requested DEF RequestSteps

Rearranged(x, asset) ==
  IsAsset(x) /\ x.cfg = asset.cfg /\ x.by = asset.by /\ x.parts = asset.parts

LEMMA Rewritten ==
  ASSUME NEW asset, IsAsset(asset), NEW msgs \in SUBSET Messages, NEW last \in Nat,
         \A m \in msgs : m.seq <= last, NEW x, x = [asset EXCEPT !.msgs = msgs, !.last = last]
  PROVE  Rearranged(x, asset)
<1>1. /\ x \in AssetRecords /\ x.cfg = asset.cfg /\ x.by = asset.by /\ x.parts = asset.parts
      /\ x.msgs = msgs /\ x.last = last /\ x.leader = asset.leader /\ x.peers = asset.peers
    BY DEF IsAsset, AssetRecords
<1> QED BY <1>1 DEF IsAsset, Rearranged

(* A message more has a number that no other one has.                       *)
LEMMA WrittenFine ==
  ASSUME NEW jobs, Inv(jobs), NEW n, Exists(n), NEW i \in Items, NEW op \in {"put", "delete"}
  PROVE  GoodChange(jobs, assets, Written(n, i, op))
<1> DEFINE asset == assets[n]
           all == asset.msgs \cup {[seq |-> asset.last + 1, key |-> i, op |-> op]}
           few(m) == Cardinality({k \in all : k.key = i /\ k.seq > m.seq})
                       < (IF Kind[n] = "kv" THEN History ELSE 1)
           kept == {m \in all : m.key # i \/ few(m)}
           x == [asset EXCEPT !.msgs = kept, !.last = @ + 1]
<1>1. Exists(n) /\ IsAsset(asset) /\ asset \in AssetRecords
    BY AssetIs
<1>2. Written(n, i, op) = [assets EXCEPT ![n].msgs = kept, ![n].last = @ + 1]
    BY DEF Written
<1>3. kept \subseteq all
    OBVIOUS
<1> HIDE DEF kept
<1>4. Written(n, i, op) = [assets EXCEPT ![n] = x]
    BY <1>2
<1> HIDE DEF asset
<1>5. asset.last \in Nat /\ asset.msgs \subseteq Messages
    BY <1>1 DEF AssetRecords
<1>6. all \subseteq Messages
    BY <1>5 DEF Messages
<1>7. \A m \in all : m.seq <= asset.last + 1
    BY <1>1, <1>5 DEF IsAsset, Messages
<1> HIDE DEF all
<1>8. kept \in SUBSET Messages /\ asset.last + 1 \in Nat /\ \A m \in kept : m.seq <= asset.last + 1
    BY <1>3, <1>5, <1>6, <1>7
<1>9. PICK last \in Nat : last = asset.last + 1
    BY <1>8
<1>10. x = [asset EXCEPT !.msgs = kept, !.last = last] /\ \A m \in kept : m.seq <= last
    BY <1>8, <1>9
<1>11. IsAsset(x) /\ x.cfg = asset.cfg /\ x.by = asset.by /\ x.parts = asset.parts
  <2> HIDE DEF x
  <2>1. Rearranged(x, asset)
      BY <1>1, <1>8, <1>10, Rewritten
  <2> QED BY <2>1 DEF Rearranged
<1> HIDE DEF x
<1> QED BY <1>1, <1>4, <1>11, Altered DEF asset

LEMMA NamesItem ==
  ASSUME NEW jobs, Inv(jobs), NEW p \in Procs, NEW step \in KeyWrites, At(p, step)
  PROVE  Item(p) \in Items
BY ReliedOn, CommandIs DEF Suits, Named, Item

LEMMA WritesFine ==
  ASSUME NEW jobs, Inv(jobs), NEW p \in Procs, NEW step \in KeyWrites, NEW when,
         NEW op \in {"put", "delete"}, Writes(p, step, when, op),
         step = "revert_key" /\ when => LatestIs(p, cmd[p].base)
  PROVE  Inv(jobs)'
<1> DEFINE ok == Exists(Name(p)) /\ ~assets[Name(p)].sealed /\ when
           new == Written(Name(p), Item(p), op)
<1>1. Request(p, step, ok, new)
    BY DEF Writes
<1>2. Item(p) \in Items
    BY <1>1, NamesItem DEF Request
<1>3. ok => GoodChange(jobs, assets, new)
    BY <1>2, WrittenFine
<1>4. ok /\ step = "revert_key" => Deed(p, step).rev = cmd[p].base
    BY DEF Deed, LatestIs
<1>5. step \notin Setting \cup {"create_file"}
    BY RequestsApart DEF KeyWrites, RequestSteps
<1> HIDE DEF ok, new
<1> QED BY <1>1, <1>3, <1>4, <1>5, RequestFine

LEMMA KeysFine ==
  ASSUME NEW jobs, Inv(jobs), NEW p \in Procs,
         \/ PutKey(p) \/ CreateKey(p) \/ UpdateKey(p) \/ RevertKey(p) \/ DeleteKey(p)
         \/ PutObject(p) \/ AddToCounter(p)
  PROVE  Inv(jobs)'
<1>1. PICK b \in BOOLEAN : b = TRUE
    OBVIOUS
<1>2. CASE PutKey(p)
  <2>1. Writes(p, "put_key", b, "put")
      BY <1>1, <1>2 DEF PutKey
  <2> QED BY <2>1, WritesFine DEF KeyWrites
<1>3. CASE CreateKey(p)
  <2>1. Writes(p, "create_key", ~Live(assets[Name(p)], Item(p)), "put")
      BY <1>1, <1>3 DEF CreateKey
  <2> QED BY <2>1, WritesFine DEF KeyWrites
<1>4. CASE UpdateKey(p)
  <2>1. Writes(p, "update_key", LatestIs(p, cmd[p].job.rev), "put")
      BY <1>1, <1>4 DEF UpdateKey
  <2> QED BY <2>1, WritesFine DEF KeyWrites
<1>5. CASE RevertKey(p)
  <2>1. Writes(p, "revert_key", LatestIs(p, cmd[p].base), "put")
      BY <1>1, <1>5 DEF RevertKey
  <2> QED BY <2>1, WritesFine DEF KeyWrites
<1>6. CASE DeleteKey(p)
  <2>1. Writes(p, "delete_key", b, "delete")
      BY <1>1, <1>6 DEF DeleteKey
  <2> QED BY <2>1, WritesFine DEF KeyWrites
<1>7. CASE PutObject(p)
  <2>1. Writes(p, "put_object", b, "put")
      BY <1>1, <1>7 DEF PutObject
  <2> QED BY <2>1, WritesFine DEF KeyWrites
<1>8. CASE AddToCounter(p)
  <2>1. Writes(p, "add_to_counter", b, "put")
      BY <1>1, <1>8 DEF AddToCounter
  <2> QED BY <2>1, WritesFine DEF KeyWrites
<1> QED BY <1>2, <1>3, <1>4, <1>5, <1>6, <1>7, <1>8

LEMMA PurgeKeyFine ==
  ASSUME NEW jobs, Inv(jobs), NEW p \in Procs, PurgeKey(p)
  PROVE  Inv(jobs)'
<1> DEFINE n == Name(p)
           msgs == {m \in assets[n].msgs : m.key # Item(p)}
                     \cup {[seq |-> assets[n].last + 1, key |-> Item(p), op |-> "delete"]}
           x == [assets[n] EXCEPT !.msgs = msgs, !.last = @ + 1]
           ok == Exists(n) /\ ~assets[n].sealed
           new == [assets EXCEPT ![n] = x]
<1>1. Request(p, "purge_key", ok, new)
    BY DEF PurgeKey
<1>2. ASSUME ok PROVE GoodChange(jobs, assets, new)
  <2>1. Exists(n) /\ IsAsset(assets[n]) /\ assets[n] \in AssetRecords
      BY <1>2, AssetIs
  <2>2. Item(p) \in Items
      BY <1>1, NamesItem DEF Request, KeyWrites
  <2>3. assets[n].last \in Nat /\ assets[n].msgs \subseteq Messages
      BY <2>1 DEF AssetRecords
  <2>4. msgs \subseteq Messages
      BY <2>2, <2>3 DEF Messages
  <2>5. \A m \in msgs : m.seq <= assets[n].last + 1
      BY <2>1, <2>3 DEF IsAsset, Messages
  <2> HIDE DEF msgs, n
  <2>6. PICK last \in Nat : last = assets[n].last + 1
      BY <2>3
  <2>7. x = [assets[n] EXCEPT !.msgs = msgs, !.last = last] /\ \A m \in msgs : m.seq <= last
      BY <2>5, <2>6
  <2> HIDE DEF x
  <2>8. Rearranged(x, assets[n])
      BY <2>1, <2>4, <2>7, Rewritten
  <2> QED BY <2>1, <2>8, Altered DEF Rearranged
<1> HIDE DEF ok, new
<1> QED BY <1>1, <1>2, Requested DEF RequestSteps

LEMMA SealStreamFine ==
  ASSUME NEW jobs, Inv(jobs), NEW p \in Procs, SealStream(p)
  PROVE  Inv(jobs)'
<1> DEFINE n == Name(p)
           x == [assets[n] EXCEPT !.sealed = TRUE]
           ok == Exists(n)
           new == [assets EXCEPT ![n] = x]
<1>1. \/ Request(p, "seal_stream", ok, new)
      \/ At(p, "seal_stream") /\ Proceeds(p, cmd[p]) /\ Keeps
    BY DEF SealStream
<1>2. ASSUME ok PROVE GoodChange(jobs, assets, new)
  <2>1. Exists(n) /\ IsAsset(assets[n]) /\ assets[n] \in AssetRecords
      BY <1>2, AssetIs
  <2>2. IsAsset(x) /\ x.cfg = assets[n].cfg /\ x.by = assets[n].by /\ x.parts = assets[n].parts
      BY <2>1 DEF AssetRecords, IsAsset
  <2> HIDE DEF x, n
  <2> QED BY <2>1, <2>2, Altered
<1> HIDE DEF ok, new
<1>3. "seal_stream" \in RequestSteps /\ "seal_stream" \notin Setting
    BY RequestsApart DEF RequestSteps
<1> QED BY <1>1, <1>2, <1>3, Requested, PassesBy

(* What changes nothing of the assets.                                      *)
LEMMA AsksServersFine ==
  ASSUME NEW jobs, Inv(jobs), NEW p \in Procs,
         Rescue(p) \/ BalanceConnections(p) \/ ReloadServer(p) \/ KickClient(p)
  PROVE  Inv(jobs)'
<1>1. GoodChange(jobs, assets, assets)
    BY NoChange DEF Inv
<1>2. PICK b \in BOOLEAN : b = TRUE
    OBVIOUS
<1>3. \/ \E step \in RequestSteps : Request(p, step, b, assets)
      \/ At(p, "rescue") /\ Proceeds(p, cmd[p]) /\ Keeps
    BY <1>2 DEF Rescue, BalanceConnections, ReloadServer, KickClient, RequestSteps
<1>4. "rescue" \notin Setting
    BY RequestsApart DEF RequestSteps
<1> QED BY <1>1, <1>3, <1>4, Requested, PassesBy

(* What a command makes replaces whatever there was.                        *)
LEMMA Making ==
  ASSUME NEW jobs, Inv(jobs), NEW p \in Procs, NEW n, NEW cfg, Meant(jobs, cfg),
         NEW bs, bs = [assets EXCEPT ![n] = NewAsset(cfg, p)]
  PROVE  GoodChange(jobs, assets, bs)
<1> DEFINE x == NewAsset(cfg, p)
<1>1. AssetFine(jobs, IsKeys(n), x) /\ x # NoAsset /\ ~Original(x)
    BY NewAssetFine
<1>2. AssetsFine(jobs, assets)
    BY DEF Inv
<1>3. bs = [assets EXCEPT ![n] = x]
    OBVIOUS
<1> HIDE DEF x
<1> QED BY <1>1, <1>2, <1>3, OneAsset

LEMMA Creates ==
  ASSUME NEW jobs, Inv(jobs), NEW p \in Procs, NEW step \in Creating, At(p, step)
  PROVE  Meant(jobs, cmd[p].new)
BY ReliedOn DEF Relies

LEMMA MakingFine ==
  ASSUME NEW jobs, Inv(jobs), NEW p \in Procs, NEW step \in RequestSteps, NEW n, NEW ok, NEW cfg,
         Request(p, step, ok, [assets EXCEPT ![n] = NewAsset(cfg, p)]), Meant(jobs, cfg)
  PROVE  Inv(jobs)'
<1> DEFINE new == [assets EXCEPT ![n] = NewAsset(cfg, p)]
<1>1. GoodChange(jobs, assets, new)
    BY Making
<1>2. Request(p, step, ok, new)
    OBVIOUS
<1> HIDE DEF new
<1> QED BY <1>1, <1>2, Requested

LEMMA CreatesFine ==
  ASSUME NEW jobs, Inv(jobs), NEW p \in Procs,
         CreateStream(p) \/ CopyStream(p) \/ CommitNew(p) \/ UpdateFile(p)
  PROVE  Inv(jobs)'
<1>1. PICK b \in BOOLEAN : b = TRUE
    OBVIOUS
<1>2. CASE CreateStream(p)
  <2>1. Request(p, "create_stream", ~Exists(Name(p)),
                [assets EXCEPT ![Name(p)] = NewAsset(cmd[p].new, p)])
      BY <1>2 DEF CreateStream, Made
  <2>2. Meant(jobs, cmd[p].new)
      BY <2>1, Creates DEF Request, Creating
  <2> QED BY <2>1, <2>2, MakingFine DEF RequestSteps
<1>3. CASE CopyStream(p)
  <2>1. Request(p, "copy_stream", ~Exists(cmd[p].job.to),
                [assets EXCEPT ![cmd[p].job.to] = NewAsset(cmd[p].new, p)])
      BY <1>3 DEF CopyStream, Made
  <2>2. Meant(jobs, cmd[p].new)
      BY <2>1, Creates DEF Request, Creating
  <2> QED BY <2>1, <2>2, MakingFine DEF RequestSteps
<1>4. CASE CommitNew(p)
  <2>1. Request(p, "commit_new", b, [assets EXCEPT ![Name(p)] = NewAsset(cmd[p].new, p)])
      BY <1>1, <1>4 DEF CommitNew, Made
  <2>2. Meant(jobs, cmd[p].new)
      BY <2>1, Creates DEF Request, Creating
  <2> QED BY <2>1, <2>2, MakingFine DEF RequestSteps
<1>5. CASE UpdateFile(p)
  <2>1. Request(p, "update_file", b, [assets EXCEPT ![Name(p)] = NewAsset(cmd[p].new, p)])
      BY <1>1, <1>5 DEF UpdateFile, With
  <2>2. Meant(jobs, cmd[p].new)
      BY <2>1, Creates DEF Request, Creating
  <2> QED BY <2>1, <2>2, MakingFine DEF RequestSteps
<1> QED BY <1>2, <1>3, <1>4, <1>5

(* What is written to a file is the command's own.                          *)
LEMMA ContentMeant ==
  ASSUME NEW jobs \in CommandLines, Inv(jobs), NEW p \in Procs, cmd[p].job.op \in WritesFiles
  PROVE  Meant(jobs, Content(p))
<1>1. cmd[p].job = jobs[p]
    BY CommandIs
<1>2. Fits(jobs[p])
    BY AdministrationAssumption
<1>3. jobs[p].set = Fields
    BY <1>1, <1>2 DEF Fits
<1>4. Content(p) = [f \in Fields |-> p]
    BY DEF Content
<1> QED BY <1>3, <1>4 DEF Meant, Plain, Configurations

LEMMA WritesFileFine ==
  ASSUME NEW jobs \in CommandLines, Inv(jobs), NEW p \in Procs, WriteFile(p)
  PROVE  Inv(jobs)'
<1>1. PICK b \in BOOLEAN : b = TRUE
    OBVIOUS
<1>2. Request(p, "write_file", b, [assets EXCEPT ![Name(p)] = NewAsset(Content(p), p)])
    BY <1>1 DEF WriteFile, With
<1>3. At(p, "write_file")
    BY <1>2 DEF Request
<1>4. cmd[p].job.op \in WritesFiles
    BY <1>3, ReliedOn DEF Suits
<1>5. Meant(jobs, Content(p))
    BY <1>4, ContentMeant
<1> QED BY <1>2, <1>5, MakingFine DEF RequestSteps

(* What is removed is no operator and no account.                           *)
LEMMA Removing ==
  ASSUME NEW jobs, Inv(jobs), NEW n, ~IsKeys(n), NEW bs, bs = [assets EXCEPT ![n] = NoAsset]
  PROVE  GoodChange(jobs, assets, bs)
<1>1. AssetsFine(jobs, assets)
    BY DEF Inv
<1>2. PICK x : x = NoAsset
    OBVIOUS
<1>3. bs = [assets EXCEPT ![n] = x] /\ ~Original(x)
    BY <1>2 DEF Original
<1> QED BY <1>1, <1>2, <1>3, OneAsset

LEMMA NotOfKeys ==
  ASSUME NEW jobs, Inv(jobs), NEW p \in Procs,
         NEW step \in {"delete_stream", "delete_context", "fill_file"}, At(p, step)
  PROVE  Name(p) \in Assets => ~IsKeys(Name(p))
BY ReliedOn, CommandIs DEF Suits, Named, Name

LEMMA RemovesFine ==
  ASSUME NEW jobs, Inv(jobs), NEW p \in Procs, DeleteStream(p) \/ DeleteContext(p)
  PROVE  Inv(jobs)'
<1> DEFINE ok == Exists(Name(p))
           new == [assets EXCEPT ![Name(p)] = NoAsset]
<1>1. PICK step \in {"delete_stream", "delete_context"} : Request(p, step, ok, new)
    BY DEF DeleteStream, DeleteContext
<1>2. ok => ~IsKeys(Name(p))
    BY <1>1, NotOfKeys DEF Request, Exists
<1>3. ok => GoodChange(jobs, assets, new)
    BY <1>2, Removing
<1> HIDE DEF ok, new
<1> QED BY <1>1, <1>3, Requested DEF RequestSteps

(* What is overwritten keeps its fields but for those that were set.        *)
LEMMA Overwrites ==
  ASSUME NEW jobs, Inv(jobs), NEW n, Exists(n), NEW cfg, Meant(jobs, cfg),
         assets[n].by = "start" => Kept(jobs, cfg),
         NEW bs, bs = [assets EXCEPT ![n].cfg = cfg]
  PROVE  GoodChange(jobs, assets, bs)
<1> DEFINE x == [assets[n] EXCEPT !.cfg = cfg]
<1>1. AssetFine(jobs, IsKeys(n), assets[n]) /\ assets[n] # NoAsset
    BY AssetIs
<1>2. bs = [assets EXCEPT ![n] = x] /\ AssetsFine(jobs, assets)
    BY DEF Inv
<1>3. PICK y : y = x
    OBVIOUS
<1>4. AssetFine(jobs, IsKeys(n), y) /\ y # NoAsset /\ y.by = assets[n].by
    BY <1>1, <1>3, Reconfigured
<1>5. bs = [assets EXCEPT ![n] = y]
    BY <1>2, <1>3
<1>6. Original(assets[n]) <=> Original(y)
    BY <1>1, <1>4 DEF Original
<1> HIDE DEF x
<1> QED BY <1>2, <1>4, <1>5, <1>6, OneAsset

LEMMA UpdateStreamFine ==
  ASSUME NEW jobs, Inv(jobs), NEW p \in Procs, UpdateStream(p)
  PROVE  Inv(jobs)'
<1> DEFINE n == Name(p)
           ok == Exists(n) /\ ~assets[n].sealed
           new == [assets EXCEPT ![n].cfg = cmd[p].new]
<1>1. Request(p, "update_stream", ok, new)
    BY DEF UpdateStream
<1>2. NewFits(jobs, cmd[p], assets)
    BY <1>1, ReliedOn DEF Request, Relies, Overwriting
<1>3. ok => Exists(n) /\ (assets[n].by = "start" => Kept(jobs, cmd[p].new))
    BY <1>2 DEF NewFits, Original, Name, Exists
<1>4. Meant(jobs, cmd[p].new)
    BY <1>2 DEF NewFits
<1>5. ok => GoodChange(jobs, assets, new)
    BY <1>3, <1>4, Overwrites
<1> HIDE DEF ok, new
<1> QED BY <1>1, <1>5, Requested DEF RequestSteps

LEMMA SaveContextFine ==
  ASSUME NEW jobs, Inv(jobs), NEW p \in Procs, SaveContext(p)
  PROVE  Inv(jobs)'
<1> DEFINE n == Name(p)
           new == [assets EXCEPT ![n] = IF @ = NoAsset THEN NewAsset(cmd[p].new, p)
                                        ELSE [@ EXCEPT !.cfg = cmd[p].new]]
<1>1. PICK b \in BOOLEAN : b = TRUE
    OBVIOUS
<1>2. Request(p, "save_context", b, new)
    BY <1>1 DEF SaveContext
<1>3. NewFits(jobs, cmd[p], assets)
    BY <1>2, ReliedOn DEF Request, Relies, Overwriting
<1>4. Meant(jobs, cmd[p].new)
    BY <1>3 DEF NewFits
<1>5. GoodChange(jobs, assets, new)
  <2>1. CASE n \in Assets /\ assets[n] = NoAsset
    <3>1. new = [assets EXCEPT ![n] = NewAsset(cmd[p].new, p)]
        BY <2>1
    <3> HIDE DEF new
    <3> QED BY <3>1, <1>4, Making
  <2>2. CASE Exists(n)
    <3>1. new = [assets EXCEPT ![n].cfg = cmd[p].new]
        BY <2>2 DEF Exists
    <3>2. assets[n].by = "start" => Kept(jobs, cmd[p].new)
        BY <1>3, <2>2 DEF NewFits, Original, Name, Exists
    <3> HIDE DEF new, n
    <3> QED BY <2>2, <3>1, <3>2, <1>4, Overwrites
  <2>3. CASE n \notin Assets
    <3>1. AssetsFine(jobs, assets)
        BY DEF Inv
    <3>2. PICK y : new = [assets EXCEPT ![n] = y]
        OBVIOUS
    <3> HIDE DEF new, n
    <3> QED BY <2>3, <3>1, <3>2, OneAsset
  <2> QED BY <2>1, <2>2, <2>3 DEF Exists
<1> HIDE DEF new
<1> QED BY <1>2, <1>5, Requested DEF RequestSteps

(* What is in a stream: its consumers.                                      *)
LEMMA PartIs ==
  ASSUME NEW jobs, Inv(jobs), NEW n, NEW i, HasPart(n, i)
  PROVE  /\ Exists(n) /\ i \in Items /\ assets[n].parts[i] # NoPart
         /\ assets[n].parts[i] \in Parts /\ PartFine(jobs, IsKeys(n), assets[n].parts[i])
BY AssetIs DEF HasPart, AssetFine, PartFine

(* How a consumer gets on may change.                                       *)
LEMMA PartMoved ==
  ASSUME NEW jobs, NEW keys, NEW part, PartFine(jobs, keys, part), NEW x, x \in Parts,
         x.cfg = part.cfg, x.by = part.by
  PROVE  PartFine(jobs, keys, x)
BY DEF PartFine

LEMMA PartChange ==
  ASSUME NEW jobs, Inv(jobs), NEW n, Exists(n), NEW i,
         NEW x, i \in Items => x = NoPart \/ PartFine(jobs, IsKeys(n), x),
         NEW bs, bs = [assets EXCEPT ![n].parts[i] = x]
  PROVE  GoodChange(jobs, assets, bs)
<1> DEFINE y == [assets[n] EXCEPT !.parts[i] = x]
<1>1. AssetFine(jobs, IsKeys(n), assets[n]) /\ assets[n] # NoAsset
    BY AssetIs
<1>2. PICK z : z = y
    OBVIOUS
<1>3. bs = [assets EXCEPT ![n] = z]
    BY <1>2
<1>4. AssetFine(jobs, IsKeys(n), z) /\ z # NoAsset /\ z.by = assets[n].by
  <2>1. PICK asset, keys : asset = assets[n] /\ keys = IsKeys(n)
      OBVIOUS
  <2>2. AssetFine(jobs, keys, asset) /\ z = [asset EXCEPT !.parts[i] = x]
        /\ (i \in Items => x = NoPart \/ PartFine(jobs, keys, x))
      BY <1>1, <1>2, <2>1
  <2>3. AssetFine(jobs, keys, z) /\ z # NoAsset /\ z.by = asset.by
      BY <2>2, OnePart
  <2> QED BY <2>1, <2>3
<1>5. Original(assets[n]) <=> Original(z)
    BY <1>1, <1>4 DEF Original
<1>6. AssetsFine(jobs, assets)
    BY DEF Inv
<1> HIDE DEF y
<1> QED BY <1>3, <1>4, <1>5, <1>6, OneAsset

LEMMA OfConsumerFine ==
  ASSUME NEW jobs, Inv(jobs), NEW p \in Procs, NEW step \in RequestSteps, NEW when, NEW x,
         OfConsumer(p, step, when, x),
         HasPart(Name(p), Item(p)) /\ when =>
           x = NoPart \/ (x \in Parts /\ x.cfg = Current(p).cfg /\ x.by = Current(p).by)
  PROVE  Inv(jobs)'
<1> DEFINE ok == HasPart(Name(p), Item(p)) /\ when
           new == [assets EXCEPT ![Name(p)].parts[Item(p)] = x]
<1>1. Request(p, step, ok, new)
    BY DEF OfConsumer
<1>2. ASSUME ok PROVE GoodChange(jobs, assets, new)
  <2>1. Exists(Name(p)) /\ PartFine(jobs, IsKeys(Name(p)), Current(p))
      BY <1>2, PartIs DEF Current
  <2>2. x = NoPart \/ PartFine(jobs, IsKeys(Name(p)), x)
      BY <1>2, <2>1, PartMoved
  <2> QED BY <2>1, <2>2, PartChange
<1> HIDE DEF ok, new
<1> QED BY <1>1, <1>2, Requested

LEMMA DeleteConsumerFine ==
  ASSUME NEW jobs, Inv(jobs), NEW p \in Procs, DeleteConsumer(p)
  PROVE  Inv(jobs)'
<1>1. PICK b \in BOOLEAN : b = TRUE
    OBVIOUS
<1>2. OfConsumer(p, "delete_consumer", b, NoPart)
    BY <1>1 DEF DeleteConsumer
<1> QED BY <1>2, OfConsumerFine DEF RequestSteps

LEMMA ResetConsumerFine ==
  ASSUME NEW jobs, Inv(jobs), NEW p \in Procs, ResetConsumer(p)
  PROVE  Inv(jobs)'
<1>1. PICK b \in BOOLEAN : b = TRUE
    OBVIOUS
<1> DEFINE x == [Current(p) EXCEPT !.position = 0, !.acked = 0]
<1>2. OfConsumer(p, "reset_consumer", b, x)
    BY <1>1 DEF ResetConsumer
<1>3. HasPart(Name(p), Item(p)) =>
        x \in Parts /\ x.cfg = Current(p).cfg /\ x.by = Current(p).by
    BY PartIs DEF Current, Parts
<1> HIDE DEF x
<1> QED BY <1>2, <1>3, OfConsumerFine DEF RequestSteps

LEMMA PauseConsumerFine ==
  ASSUME NEW jobs, Inv(jobs), NEW p \in Procs, PauseConsumer(p)
  PROVE  Inv(jobs)'
<1>1. PICK b \in BOOLEAN : b = TRUE
    OBVIOUS
<1> DEFINE x == [Current(p) EXCEPT !.paused = TRUE]
<1>2. OfConsumer(p, "pause_consumer", b, x)
    BY <1>1 DEF PauseConsumer
<1>3. HasPart(Name(p), Item(p)) =>
        x \in Parts /\ x.cfg = Current(p).cfg /\ x.by = Current(p).by
    BY PartIs DEF Current, Parts
<1> HIDE DEF x
<1> QED BY <1>2, <1>3, OfConsumerFine DEF RequestSteps

LEMMA ResumeConsumerFine ==
  ASSUME NEW jobs, Inv(jobs), NEW p \in Procs, ResumeConsumer(p)
  PROVE  Inv(jobs)'
<1>1. PICK b \in BOOLEAN : b = TRUE
    OBVIOUS
<1> DEFINE x == [Current(p) EXCEPT !.paused = FALSE]
<1>2. OfConsumer(p, "resume_consumer", b, x)
    BY <1>1 DEF ResumeConsumer
<1>3. HasPart(Name(p), Item(p)) =>
        x \in Parts /\ x.cfg = Current(p).cfg /\ x.by = Current(p).by
    BY PartIs DEF Current, Parts
<1> HIDE DEF x
<1> QED BY <1>2, <1>3, OfConsumerFine DEF RequestSteps

LEMMA UnpinFine ==
  ASSUME NEW jobs, Inv(jobs), NEW p \in Procs, Unpin(p)
  PROVE  Inv(jobs)'
<1> DEFINE x == [Current(p) EXCEPT !.pinned = FALSE]
<1>2. OfConsumer(p, "unpin_consumer", Current(p).pinned, x)
    BY DEF Unpin
<1>3. HasPart(Name(p), Item(p)) =>
        x \in Parts /\ x.cfg = Current(p).cfg /\ x.by = Current(p).by
    BY PartIs DEF Current, Parts
<1> HIDE DEF x
<1> QED BY <1>2, <1>3, OfConsumerFine DEF RequestSteps

LEMMA StepDownConsumerFine ==
  ASSUME NEW jobs, Inv(jobs), NEW p \in Procs, StepDownConsumer(p)
  PROVE  Inv(jobs)'
<1>1. PICK b \in BOOLEAN : b = TRUE
    OBVIOUS
<1> DEFINE x == [Current(p) EXCEPT !.leader = "nobody"]
<1>2. OfConsumer(p, "step_down_consumer", b, x)
    BY <1>1 DEF StepDownConsumer
<1>3. HasPart(Name(p), Item(p)) =>
        x \in Parts /\ x.cfg = Current(p).cfg /\ x.by = Current(p).by
    BY PartIs DEF Current, Parts
<1> HIDE DEF x
<1> QED BY <1>2, <1>3, OfConsumerFine DEF RequestSteps

LEMMA EvacuateConsumerFine ==
  ASSUME NEW jobs, Inv(jobs), NEW p \in Procs, EvacuateConsumer(p)
  PROVE  Inv(jobs)'
<1> DEFINE x == [Current(p) EXCEPT
             !.peers = @ \ {cmd[p].old},
             !.leader = IF @ = cmd[p].old THEN "nobody" ELSE @]
<1>2. OfConsumer(p, "evacuate_consumer", cmd[p].old \in Current(p).peers, x)
    BY DEF EvacuateConsumer
<1>3. ASSUME HasPart(Name(p), Item(p))
      PROVE  x \in Parts /\ x.cfg = Current(p).cfg /\ x.by = Current(p).by
  <2>1. Current(p) \in Parts
      BY <1>3, PartIs DEF Current
  <2> QED BY <2>1 DEF Parts
<1> HIDE DEF x
<1> QED BY <1>2, <1>3, OfConsumerFine DEF RequestSteps

LEMMA PullMessageFine ==
  ASSUME NEW jobs, Inv(jobs), NEW p \in Procs, PullMessage(p)
  PROVE  Inv(jobs)'
<1> DEFINE x == [Current(p) EXCEPT !.position = @ + 1]
<1>2. OfConsumer(p, "pull_message", ~Current(p).paused /\ Current(p).position < assets[Name(p)].last, x)
    BY DEF PullMessage
<1>3. HasPart(Name(p), Item(p)) =>
        x \in Parts /\ x.cfg = Current(p).cfg /\ x.by = Current(p).by
    BY PartIs DEF Current, Parts
<1> HIDE DEF x
<1> QED BY <1>2, <1>3, OfConsumerFine DEF RequestSteps

LEMMA AcknowledgeFine ==
  ASSUME NEW jobs, Inv(jobs), NEW p \in Procs, Acknowledge(p)
  PROVE  Inv(jobs)'
<1> DEFINE x == [Current(p) EXCEPT !.acked = @ + 1]
<1>2. \/ OfConsumer(p, "acknowledge", Current(p).acked < Current(p).position, x)
      \/ At(p, "acknowledge") /\ Proceeds(p, cmd[p]) /\ Keeps
    BY DEF Acknowledge
<1>3. HasPart(Name(p), Item(p)) =>
        x \in Parts /\ x.cfg = Current(p).cfg /\ x.by = Current(p).by
    BY PartIs DEF Current, Parts
<1> HIDE DEF x
<1>4. "acknowledge" \in RequestSteps /\ "acknowledge" \notin Setting
    BY RequestsApart DEF RequestSteps
<1> QED BY <1>2, <1>3, <1>4, OfConsumerFine, PassesBy

(* A consumer that is not there is made.                                    *)
LEMMA UpdateConsumerFine ==
  ASSUME NEW jobs, Inv(jobs), NEW p \in Procs,
         NEW step \in {"update_consumer", "create_consumer", "copy_consumer"}, NEW i,
         UpdateConsumer(p, step, i)
  PROVE  Inv(jobs)'
<1> DEFINE n == Name(p)
           part == assets[n].parts[i]
           x == IF part = NoPart THEN NewPart(cmd[p].new, n, p) ELSE [part EXCEPT !.cfg = cmd[p].new]
           new == [assets EXCEPT ![n].parts[i] = x]
           ok == Exists(n)
<1>1. Request(p, step, ok, new)
    BY DEF UpdateConsumer
<1>2. Kept(jobs, cmd[p].new)
    BY <1>1, ReliedOn DEF Request, Relies, OverwritingPart
<1>3. Meant(jobs, cmd[p].new)
    BY <1>2, KeptIsMeant
<1>4. ASSUME ok PROVE GoodChange(jobs, assets, new)
  <2>1. Exists(n) /\ assets[n] \in AssetRecords
      BY <1>4, AssetIs
  <2>2. i \in Items => x = NoPart \/ PartFine(jobs, IsKeys(n), x)
    <3> SUFFICES ASSUME i \in Items PROVE PartFine(jobs, IsKeys(n), x)
        OBVIOUS
    <3>1. CASE part = NoPart
      <4>1. assets[n].leader \in Peers \cup {"nobody"} /\ assets[n].peers \in SUBSET Peers
          BY <2>1 DEF AssetRecords
      <4>2. PartFine(jobs, IsKeys(n), NewPart(cmd[p].new, n, p))
          BY <1>2, <1>3, <4>1, NewPartFine DEF NewPart
      <4> QED BY <3>1, <4>2
    <3>2. CASE part # NoPart
      <4>1. PartFine(jobs, IsKeys(n), part)
          BY <2>1, <3>2, PartIs DEF HasPart
      <4> HIDE DEF part
      <4>2. PartFine(jobs, IsKeys(n), [part EXCEPT !.cfg = cmd[p].new])
          BY <1>2, <1>3, <4>1, PartReconfigured
      <4> QED BY <3>2, <4>2
    <3> QED BY <3>1, <3>2
  <2> HIDE DEF x, n
  <2> QED BY <2>1, <2>2, PartChange
<1>5. step \in RequestSteps
    BY DEF RequestSteps
<1> HIDE DEF ok, new
<1> QED BY <1>1, <1>4, <1>5, Requested

LEMMA UpdatesConsumersFine ==
  ASSUME NEW jobs, Inv(jobs), NEW p \in Procs,
         EditsConsumer(p) \/ CreateConsumer(p) \/ CopyConsumer(p)
  PROVE  Inv(jobs)'
BY UpdateConsumerFine DEF EditsConsumer, CreateConsumer, CopyConsumer

LEMMA BalanceConsumersFine ==
  ASSUME NEW jobs, Inv(jobs), NEW p \in Procs, BalanceConsumers(p)
  PROVE  Inv(jobs)'
<1> DEFINE n == Name(p)
<1>1. At(p, "balance_consumers") /\ "balance_consumers" \notin Setting
    BY RequestsApart DEF BalanceConsumers, RequestSteps
<1>2. CASE Ends(p, "error") /\ Keeps
    BY <1>2, GivesUp DEF Outcomes
<1>3. CASE /\ Exists(n) /\ UNCHANGED selection
           /\ \E some \in SUBSET {i \in Items : HasPart(n, i)} :
                assets' = [assets EXCEPT ![n].parts =
                             [i \in Items |-> IF i \in some THEN [@[i] EXCEPT !.leader = "nobody"]
                                             ELSE @[i]]]
           /\ Proceeds(p, cmd[p]) \/ Ends(p, "error")
  <2>1. PICK some \in SUBSET {i \in Items : HasPart(n, i)} :
          assets' = [assets EXCEPT ![n].parts =
                       [i \in Items |-> IF i \in some
                                        THEN [assets[n].parts[i] EXCEPT !.leader = "nobody"]
                                        ELSE assets[n].parts[i]]]
      BY <1>3
  <2> DEFINE parts == [i \in Items |-> IF i \in some
                                       THEN [assets[n].parts[i] EXCEPT !.leader = "nobody"]
                                       ELSE assets[n].parts[i]]
             x == [assets[n] EXCEPT !.parts = parts]
  <2>2. AssetFine(jobs, IsKeys(n), assets[n]) /\ assets[n] # NoAsset /\ assets[n] \in AssetRecords
      BY <1>3, AssetIs
  <2>3. ASSUME NEW i \in Items
        PROVE  parts[i] = NoPart \/ (parts[i] \in Parts /\ PartFine(jobs, IsKeys(n), parts[i]))
    <3>1. CASE i \in some
      <4>1. PartFine(jobs, IsKeys(n), assets[n].parts[i]) /\ assets[n].parts[i] \in Parts
          BY <3>1, PartIs
      <4>2. PICK y : y = [assets[n].parts[i] EXCEPT !.leader = "nobody"]
          OBVIOUS
      <4>3. y \in Parts /\ y.cfg = assets[n].parts[i].cfg /\ y.by = assets[n].parts[i].by
          BY <4>1, <4>2 DEF Parts
      <4>4. PartFine(jobs, IsKeys(n), y)
          BY <4>1, <4>3, PartMoved
      <4> QED BY <3>1, <4>2, <4>3, <4>4
    <3>2. CASE i \notin some
        BY <3>2, <2>2 DEF AssetFine, PartFine, AssetRecords
    <3> QED BY <3>1, <3>2
  <2>4. /\ parts \in [Items -> Parts \cup {NoPart}]
        /\ \A i \in Items : parts[i] # NoPart => PartFine(jobs, IsKeys(n), parts[i])
      BY <2>3
  <2>5. assets' = [assets EXCEPT ![n] = x]
      BY <2>1
  <2> HIDE DEF parts
  <2>6. PICK y : y = x
      OBVIOUS
  <2>7. AssetFine(jobs, IsKeys(n), y) /\ y # NoAsset /\ y.by = assets[n].by
      BY <2>2, <2>4, <2>6, Repartitioned
  <2>8. Original(assets[n]) <=> Original(y)
      BY <2>2, <2>7 DEF Original
  <2>9. AssetsFine(jobs, assets) /\ assets' = [assets EXCEPT ![n] = y]
      BY <2>5, <2>6 DEF Inv
  <2> HIDE DEF x
  <2>10. GoodChange(jobs, assets, assets')
      BY <2>7, <2>8, <2>9, OneAsset
  <2>11. SelectionOK'
      BY <1>3 DEF Inv, SelectionOK
  <2> QED BY <1>1, <1>3, <2>10, <2>11, GoesOn, EndsWell DEF Outcomes
<1> QED BY <1>2, <1>3 DEF BalanceConsumers

LEMMA EvacuateFine ==
  ASSUME NEW jobs, Inv(jobs), NEW p \in Procs, Evacuate(p)
  PROVE  Inv(jobs)'
<1>1. CASE Ends(p, "error") /\ Keeps
    BY <1>1, GivesUp DEF Outcomes
<1>2. CASE Exists(Name(p)) /\ \E l \in Peers \ assets[Name(p)].peers :
             Request(p, "evacuate", cmd[p].old \in assets[Name(p)].peers,
                     [assets EXCEPT ![Name(p)].moving = TRUE,
                                    ![Name(p)].desired =
                                      (assets[Name(p)].peers \ {cmd[p].old}) \cup {l}])
  <2> DEFINE n == Name(p)
             ok == cmd[p].old \in assets[n].peers
  <2>1. PICK l \in Peers :
          Request(p, "evacuate", ok,
                  [assets EXCEPT ![n].moving = TRUE,
                                 ![n].desired = (assets[n].peers \ {cmd[p].old}) \cup {l}])
      BY <1>2
  <2> DEFINE x == [assets[n] EXCEPT !.moving = TRUE,
                                    !.desired = (assets[n].peers \ {cmd[p].old}) \cup {l}]
             new == [assets EXCEPT ![n] = x]
  <2>2. Request(p, "evacuate", ok, new)
      BY <2>1
  <2>3. Exists(n) /\ IsAsset(assets[n]) /\ assets[n] \in AssetRecords
      BY <1>2, AssetIs
  <2>4. IsAsset(x) /\ x.cfg = assets[n].cfg /\ x.by = assets[n].by /\ x.parts = assets[n].parts
      BY <2>3 DEF AssetRecords, IsAsset
  <2> HIDE DEF x
  <2>5. GoodChange(jobs, assets, new)
      BY <2>3, <2>4, Altered
  <2> HIDE DEF ok, new
  <2> QED BY <2>2, <2>5, Requested DEF RequestSteps
<1> QED BY <1>1, <1>2 DEF Evacuate

LEMMA BalanceStreamsFine ==
  ASSUME NEW jobs, Inv(jobs), NEW p \in Procs, BalanceStreams(p)
  PROVE  Inv(jobs)'
<1>1. At(p, "balance_streams") /\ "balance_streams" \notin Setting
      /\ (Proceeds(p, cmd[p]) \/ Ends(p, "error"))
    BY RequestsApart DEF BalanceStreams, RequestSteps
<1>2. PICK some \in SUBSET Streams :
        assets' = [a \in Assets |-> IF a \in some THEN [assets[a] EXCEPT !.leader = "nobody"]
                                   ELSE assets[a]]
    BY DEF BalanceStreams
<1>3. ASSUME NEW a \in Assets
      PROVE  IF a \in some
             THEN /\ assets[a] # NoAsset /\ AssetFine(jobs, IsKeys(a), assets'[a])
                  /\ assets'[a] # NoAsset /\ (Original(assets[a]) <=> Original(assets'[a]))
             ELSE assets'[a] = assets[a]
  <2>1. CASE a \in some
    <3>1. Exists(a) /\ IsAsset(assets[a]) /\ assets[a] \in AssetRecords
          /\ AssetFine(jobs, IsKeys(a), assets[a]) /\ assets[a] # NoAsset
        BY <2>1, AssetIs DEF Streams
    <3>2. PICK x : x = [assets[a] EXCEPT !.leader = "nobody"]
        OBVIOUS
    <3>3. IsAsset(x) /\ x.cfg = assets[a].cfg /\ x.by = assets[a].by /\ x.parts = assets[a].parts
        BY <3>1, <3>2 DEF AssetRecords, IsAsset
    <3>4. AssetFine(jobs, IsKeys(a), x) /\ x # NoAsset
        BY <3>1, <3>3, Recast
    <3>5. Original(assets[a]) <=> Original(x)
        BY <3>1, <3>3, <3>4 DEF Original
    <3>6. assets'[a] = x
        BY <1>2, <2>1, <3>2
    <3> QED BY <2>1, <3>1, <3>4, <3>5, <3>6
  <2>2. CASE a \notin some
      BY <1>2, <2>2
  <2> QED BY <2>1, <2>2
<1>4. AssetsFine(jobs, assets) /\ DOMAIN assets' = Assets
    BY <1>2 DEF Inv
<1>5. AssetsFine(jobs, assets')
    BY <1>3, <1>4 DEF AssetsFine
<1>6. GoodChange(jobs, assets, assets')
    BY <1>3, <1>5 DEF GoodChange
<1>7. SelectionOK'
    BY DEF BalanceStreams, Inv, SelectionOK
<1> QED BY <1>1, <1>6, <1>7, GoesOn, EndsWell DEF Outcomes

(* A purge leaves operators and accounts alone.                             *)
LEMMA PurgeAccountFine ==
  ASSUME NEW jobs, Inv(jobs), NEW p \in Procs, PurgeAccount(p)
  PROVE  Inv(jobs)'
<1> DEFINE new == [a \in Assets |-> IF Kind[a] \in {"stream", "kv", "object"} THEN NoAsset
                                    ELSE assets[a]]
<1>1. PICK b \in BOOLEAN : b = TRUE
    OBVIOUS
<1>2. Request(p, "purge_account", b, new)
    BY <1>1 DEF PurgeAccount
<1>3. AssetsFine(jobs, assets)
    BY DEF Inv
<1>4. AssetsFine(jobs, new)
    BY <1>3 DEF AssetsFine
<1>5. GoodChange(jobs, assets, new)
    BY <1>4 DEF GoodChange, IsKeys, Original
<1> HIDE DEF new
<1> QED BY <1>2, <1>5, Requested DEF RequestSteps

(* Commit writes the whole copy of what is there.                           *)
LEMMA CommitFine ==
  ASSUME NEW jobs, Inv(jobs), NEW p \in Procs, Commit(p)
  PROVE  Inv(jobs)'
<1>1. PICK b \in BOOLEAN : b = TRUE
    OBVIOUS
<1> DEFINE new == [assets EXCEPT ![Name(p)] = Copy(p)]
<1>2. PICK step \in {"commit", "commit_removal"} : Request(p, step, b, new)
    BY <1>1 DEF Commit
<1>3. step \in OnKeys(cmd[p].job.op)
    BY DEF OnKeys
<1>4. OnKeysNow(cmd[p], assets) /\ SawWell(jobs, cmd[p], assets)
    BY <1>2, <1>3, ReliedOn, CommandIs DEF Request, Relies
<1>5. /\ IsKeys(Name(p)) /\ Copy(p) # NoAsset
      /\ AssetFine(jobs, cmd[p].job.op \in WorksOnKeys, Copy(p))
    BY <1>4 DEF OnKeysNow, SawWell, Name, Copy
<1>6. AssetFine(jobs, IsKeys(Name(p)), Copy(p))
    BY <1>5, Loosened
<1>7. AssetsFine(jobs, assets)
    BY DEF Inv
<1>8. GoodChange(jobs, assets, new)
    BY <1>5, <1>6, <1>7, OneAsset
<1> HIDE DEF new
<1> QED BY <1>2, <1>8, Requested DEF RequestSteps

(* What is noted that nobody need agree to.                                 *)
LEMMA NotesDeed ==
  ASSUME NEW jobs, Inv(jobs), NEW p \in Procs, NEW step, At(p, step),
         step \notin Setting, NEW a, a \notin Destructive \cup {"update_stream"},
         Proceeds(p, [cmd[p] EXCEPT !.did = @ \cup {Deed(p, a)}]),
         GoodChange(jobs, assets, assets'), SelectionOK'
  PROVE  Inv(jobs)'
<1> DEFINE done == [cmd[p] EXCEPT !.did = @ \cup {Deed(p, a)}]
<1>1. CommandFine(jobs, p, cmd[p], assets')
    BY FineNow
<1>2. cmd[p].steps # <<>> /\ Head(cmd[p].steps) = step
    BY DEF At
<1>3. a \notin {"create_file", "revert_key", "update_consumer"} /\ a \notin Grave(cmd[p].job.op)
    BY DEF Destructive, Grave
<1>4. PICK r : r = Deed(p, a).rev
    OBVIOUS
<1>5. Deed(p, a) = [step |-> a, asset |-> cmd[p].asset, item |-> cmd[p].item, rev |-> r]
    BY <1>3, <1>4 DEF Deed, Target, Name, Item
<1>6. done = [cmd[p] EXCEPT !.did = @ \cup {[step |-> a, asset |-> cmd[p].asset,
                                             item |-> cmd[p].item, rev |-> r]}]
    BY <1>5
<1>7. done.steps = cmd[p].steps
    BY <1>1 DEF CommandFine, IsCommand
<1>8. Proceeds(p, done)
    OBVIOUS
<1> HIDE DEF done
<1>9. CommandFine(jobs, p, done, assets')
    BY <1>1, <1>2, <1>3, <1>6, DeedFine
<1>10. CommandFine(jobs, p, [done EXCEPT !.steps = Tail(@)], assets')
    BY <1>2, <1>7, <1>9, Plainly
<1> QED BY <1>8, <1>10, Becoming DEF Proceeds

LEMMA PushAccountFine ==
  ASSUME NEW jobs, Inv(jobs), NEW p \in Procs, PushAccount(p)
  PROVE  Inv(jobs)'
<1> DEFINE n == Name(p)
<1>1. At(p, "push_account") /\ "push_account" \notin Setting \cup Destructive \cup {"update_stream"}
    BY RequestsApart DEF PushAccount, RequestSteps, Destructive
<1>2. "push_account" \in OnKeys(cmd[p].job.op)
    BY DEF OnKeys
<1>3. Exists(n)
    BY <1>1, <1>2, ReliedOn DEF Relies, OnKeysNow, Exists, Name
<1>4. PICK took \in SUBSET Peers : assets' = [assets EXCEPT ![n].desired = took]
    BY DEF PushAccount
<1>5. IsAsset(assets[n]) /\ assets[n] \in AssetRecords
    BY <1>3, AssetIs
<1>6. PICK x : x = [assets[n] EXCEPT !.desired = took]
    OBVIOUS
<1>7. IsAsset(x) /\ x.cfg = assets[n].cfg /\ x.by = assets[n].by /\ x.parts = assets[n].parts
    BY <1>5, <1>6 DEF AssetRecords, IsAsset
<1>8. assets' = [assets EXCEPT ![n] = x]
    BY <1>4, <1>6
<1>9. GoodChange(jobs, assets, assets')
    BY <1>3, <1>7, <1>8, Altered
<1>10. SelectionOK'
    BY DEF PushAccount, Inv, SelectionOK
<1>11. \/ Proceeds(p, [cmd[p] EXCEPT !.did = @ \cup {Deed(p, "push_account")}])
       \/ Ends(p, "error")
    BY DEF PushAccount
<1> QED BY <1>1, <1>9, <1>10, <1>11, NotesDeed, EndsWell DEF Outcomes

LEMMA SaveSelectedOperatorFine ==
  ASSUME NEW jobs, Inv(jobs), NEW p \in Procs, SaveSelectedOperator(p)
  PROVE  Inv(jobs)'
<1>1. At(p, "save_selected_operator") /\ "save_selected_operator" \notin Setting
    BY RequestsApart DEF SaveSelectedOperator, RequestSteps
<1>2. "save_selected_operator" \in OnKeys(cmd[p].job.op)
    BY DEF OnKeys
<1>3. Name(p) \in Assets
    BY <1>1, <1>2, ReliedOn DEF Relies, OnKeysNow, Name
<1>4. SelectionOK'
    BY <1>3 DEF SaveSelectedOperator, Inv, SelectionOK
<1>5. GoodChange(jobs, assets, assets')
    BY NoChange DEF SaveSelectedOperator, Inv
<1>6. Proceeds(p, cmd[p]) \/ Ends(p, "error")
    BY DEF SaveSelectedOperator
<1> QED BY <1>1, <1>4, <1>5, <1>6, GoesOn, EndsWell DEF Outcomes

(* The selected context.                                                    *)
Choosing == {"select_context", "unselect_if_selected", "unselect"}

LEMMA SelectsFine ==
  ASSUME NEW jobs, Inv(jobs), NEW p \in Procs, NEW step \in Choosing, At(p, step),
         NEW c \in Contexts \cup {NoContext}, Selects(p, c)
  PROVE  Inv(jobs)'
<1>1. step \notin Setting /\ "select_context" \notin Destructive \cup {"update_stream"}
    BY DEF Choosing, Setting, Reading, Loading, FindingPart, Naming, Changing, ChangingPart,
           Configuring, Questions, Destructive
<1>2. SelectionOK'
    BY DEF Selects, Inv, SelectionOK
<1>3. GoodChange(jobs, assets, assets')
    BY NoChange DEF Selects, Inv
<1>4. Proceeds(p, [cmd[p] EXCEPT !.did = @ \cup {Deed(p, "select_context")}])
    BY DEF Selects
<1> QED BY <1>1, <1>2, <1>3, <1>4, NotesDeed

LEMMA SelectingFine ==
  ASSUME NEW jobs, Inv(jobs), NEW p \in Procs,
         SelectContext(p) \/ UnselectIfSelected(p) \/ Unselect(p)
  PROVE  Inv(jobs)'
<1>1. CASE SelectContext(p)
  <2>1. At(p, "select_context") /\ Exists(Name(p)) /\ Selects(p, Name(p))
      BY <1>1 DEF SelectContext
  <2>2. cmd[p].job.op \in PicksContext
      BY <2>1, ReliedOn DEF Suits
  <2>3. Name(p) \in Contexts
      BY <2>1, <2>2, CommandIs DEF Named, Contexts, Name, Exists
  <2> QED BY <2>1, <2>3, SelectsFine DEF Choosing
<1>2. CASE UnselectIfSelected(p)
  <2>1. At(p, "unselect_if_selected")
        /\ (Selects(p, NoContext) \/ (Proceeds(p, cmd[p]) /\ Keeps))
      BY <1>2 DEF UnselectIfSelected
  <2>2. "unselect_if_selected" \notin Setting
      BY DEF Setting, Reading, Loading, FindingPart, Naming, Changing, ChangingPart,
             Configuring, Questions
  <2> QED BY <2>1, <2>2, SelectsFine, PassesBy DEF Choosing
<1>3. CASE Unselect(p)
    BY <1>3, SelectsFine DEF Choosing, Unselect
<1> QED BY <1>1, <1>2, <1>3

(* A file that is made is filled next, and that is all.                     *)
LEMMA FileDeedFine ==
  ASSUME NEW jobs, NEW p, NEW as, NEW c, CommandFine(jobs, p, c, as), c.steps # <<>>,
         Head(c.steps) = "create_file", NEW r, NEW t, t = Tail(c.steps) \/ t = <<>>,
         NEW o \in Outcomes, NEW dids,
         dids = c.did \cup {[step |-> "create_file", asset |-> c.asset, item |-> c.item,
                             rev |-> r]},
         NEW d, d = [c EXCEPT !.did = dids, !.steps = t, !.outcome = o]
  PROVE  CommandFine(jobs, p, d, as)
<1>1. /\ IsCommand(d) /\ d.job = c.job /\ d.steps = t /\ d.outcome = o
      /\ d.asset = c.asset /\ d.item = c.item /\ d.seen = c.seen /\ d.new = c.new
      /\ d.base = c.base /\ d.old = c.old /\ d.warned = c.warned /\ d.agreed = c.agreed
      /\ d.picked = c.picked /\ d.did = dids
    BY DEF CommandFine, IsCommand
<1>2. t = <<>> \/ t = <<"fill_file">>
    BY FillsLast DEF CommandFine
<1>3. Orderly(d.job, d.steps) /\ d.job = jobs[p]
  <2>1. Orderly(c.job, Tail(c.steps))
      BY OrderlyTail DEF CommandFine
  <2>2. Orderly(c.job, <<>>)
      BY OrderlyEnds
  <2>3. Orderly(c.job, t)
      BY <2>1, <2>2
  <2> QED BY <1>1, <2>3 DEF CommandFine
<1>4. Typed(d)
    BY <1>1 DEF CommandFine, Typed, Outcomes
<1>5. Named(d)
    BY <1>1 DEF CommandFine, Named
<1>6. SawWell(jobs, d, as)
    BY <1>1 DEF CommandFine, SawWell
<1>7. d.steps # <<>> => Relies(jobs, d, Head(d.steps), as)
  <2>1. d.steps # <<>> => Head(d.steps) = "fill_file"
      BY <1>1, <1>2
  <2>2. Relies(jobs, d, "fill_file", as)
      BY DEF Relies, AfterRead, OnKeys, OnPart, OnNamed, Overwriting, OverwritingPart, Creating,
             AfterConsent, AfterWarning, Destructive, Grave
  <2> QED BY <2>1, <2>2
<1>8. Relies(jobs, c, "create_file", as) /\ Suits(c.job, "create_file")
    BY HeadSuits DEF CommandFine
<1>9. c.job.op \in WritesFiles /\ c.job.op \notin PicksContext
    BY <1>8 DEF Suits, Destructive
<1>10. c.job.op \notin WarnsOfBuckets
    BY <1>9 DEF WritesFiles, NamesFile, WarnsOfBuckets
<1>11. \/ c.job.op \in NeverAsks
       \/ \E u \in c.agreed : u.asset = c.asset /\ u.item = c.item
       \/ /\ c.job.force
          /\ c.asset \in {c.job.asset, c.job.to} \/ IsKeys(c.asset)
          /\ c.item \in {c.job.item} \cup c.picked
       \/ c.seen = NoAsset
  <2>1. Named(c)
      BY DEF CommandFine
  <2>2. Waived(c.job) \/ c.seen = NoAsset \/ AskingOf(c) \in c.agreed
      BY <1>8 DEF Relies
  <2>3. CASE AskingOf(c) \in c.agreed
      BY <2>3 DEF AskingOf
  <2> QED BY <1>9, <2>1, <2>2, <2>3 DEF Named, Waived
<1>12. DidWell(d)
  <2> SUFFICES ASSUME NEW u \in dids, u.step \in Grave(d.job.op) PROVE DidOne(d, u)
      BY <1>1 DEF DidWell
  <2>1. CASE u \in c.did
      BY <2>1, <1>1, <1>2 DEF CommandFine, DidWell, DidOne, Consented
  <2>2. CASE u = [step |-> "create_file", asset |-> c.asset, item |-> c.item, rev |-> r]
    <3>1. u.step = "create_file" /\ u.asset = c.asset /\ u.item = c.item
        BY <2>2
    <3>2. Consented(d, u)
        BY <3>1, <1>1, <1>11 DEF Consented
    <3> QED BY <3>1, <3>2, <1>1, <1>2, <1>10 DEF DidOne
  <2> QED BY <2>1, <2>2
<1> QED BY <1>1, <1>3, <1>4, <1>5, <1>6, <1>7, <1>12 DEF CommandFine

LEMMA CreateFileFine ==
  ASSUME NEW jobs, Inv(jobs), NEW p \in Procs, CreateFile(p)
  PROVE  Inv(jobs)'
<1> DEFINE new == [assets EXCEPT ![Name(p)] = NewAsset(Defaults, p)]
           deed == Deed(p, "create_file")
           dids == cmd[p].did \cup {deed}
<1>1. At(p, "create_file") /\ IsCommand(cmd[p]) /\ cmd[p].outcome \in Outcomes
    BY CommandIs DEF CreateFile, Request, Typed, Outcomes
<1>2. CASE Ends(p, "error") /\ Keeps
    BY <1>2, GivesUp DEF Outcomes
<1>3. CASE /\ assets' = new /\ UNCHANGED selection
           /\ \/ Proceeds(p, [cmd[p] EXCEPT !.did = dids])
              \/ Becomes(p, [[cmd[p] EXCEPT !.did = dids] EXCEPT !.steps = <<>>,
                                                                 !.outcome = "error"])
  <2>1. Meant(jobs, Defaults)
      BY DEF Meant, Configurations, Defaults
  <2>2. GoodChange(jobs, assets, new)
      BY <2>1, Making
  <2>3. SelectionOK' /\ assets' = new
      BY <1>3 DEF Inv, SelectionOK
  <2>4. \E t : \E o \in Outcomes :
          /\ t = Tail(cmd[p].steps) \/ t = <<>>
          /\ Becomes(p, [cmd[p] EXCEPT !.did = dids, !.steps = t, !.outcome = o])
    <3> HIDE DEF dids
    <3>1. CASE Proceeds(p, [cmd[p] EXCEPT !.did = dids])
      <4>1. [[cmd[p] EXCEPT !.did = dids] EXCEPT !.steps = Tail(@)]
              = [cmd[p] EXCEPT !.did = dids, !.steps = Tail(cmd[p].steps), !.outcome = cmd[p].outcome]
          BY <1>1 DEF IsCommand
      <4> QED BY <3>1, <4>1, <1>1 DEF Proceeds
    <3>2. CASE Becomes(p, [[cmd[p] EXCEPT !.did = dids] EXCEPT !.steps = <<>>, !.outcome = "error"])
      <4>1. PICK t : t = <<>>
          OBVIOUS
      <4>2. [[cmd[p] EXCEPT !.did = dids] EXCEPT !.steps = t, !.outcome = "error"]
              = [cmd[p] EXCEPT !.did = dids, !.steps = t, !.outcome = "error"]
          BY <1>1 DEF IsCommand
      <4> QED BY <3>2, <4>1, <4>2 DEF Outcomes
    <3> QED BY <1>3, <3>1, <3>2
  <2>5. PICK t : \E o \in Outcomes :
          /\ t = Tail(cmd[p].steps) \/ t = <<>>
          /\ Becomes(p, [cmd[p] EXCEPT !.did = dids, !.steps = t, !.outcome = o])
      BY <2>4
  <2>6. PICK o \in Outcomes :
          /\ t = Tail(cmd[p].steps) \/ t = <<>>
          /\ Becomes(p, [cmd[p] EXCEPT !.did = dids, !.steps = t, !.outcome = o])
      BY <2>5
  <2>7. CommandFine(jobs, p, cmd[p], assets')
      BY <2>2, <2>3, FineNow
  <2>8. PICK r : r = deed.rev
      OBVIOUS
  <2>9. dids = cmd[p].did \cup {[step |-> "create_file", asset |-> cmd[p].asset,
                                 item |-> cmd[p].item, rev |-> r]}
      BY <2>8 DEF Deed, Target, Name, Item
  <2>10. PICK d : d = [cmd[p] EXCEPT !.did = dids, !.steps = t, !.outcome = o]
      OBVIOUS
  <2>11. cmd[p].steps # <<>> /\ Head(cmd[p].steps) = "create_file"
      BY <1>1 DEF At
  <2> HIDE DEF dids, new
  <2>12. CommandFine(jobs, p, d, assets')
      BY <2>6, <2>7, <2>9, <2>10, <2>11, FileDeedFine
  <2>13. Becomes(p, d)
      BY <2>6, <2>10
  <2> QED BY <2>2, <2>3, <2>12, <2>13, Becoming
<1> QED BY <1>2, <1>3 DEF CreateFile, Request, With

LEMMA FillFileFine ==
  ASSUME NEW jobs \in CommandLines, Inv(jobs), NEW p \in Procs, FillFile(p)
  PROVE  Inv(jobs)'
<1>1. PICK b \in BOOLEAN : b = TRUE
    OBVIOUS
<1>2. CASE Request(p, "fill_file", b, [assets EXCEPT ![Name(p)] = NewAsset(Content(p), p)])
  <2>1. cmd[p].job.op \in WritesFiles
      BY <1>2, ReliedOn DEF Suits, Request
  <2>2. Meant(jobs, Content(p))
      BY <2>1, ContentMeant
  <2> QED BY <1>2, <2>2, MakingFine DEF RequestSteps
<1>3. CASE /\ At(p, "fill_file") /\ Ends(p, "error")
           /\ assets' = [assets EXCEPT ![Name(p)] = NoAsset] /\ UNCHANGED selection
  <2>1. Name(p) \in Assets => ~IsKeys(Name(p))
      BY <1>3, NotOfKeys
  <2>2. GoodChange(jobs, assets, assets')
    <3>1. CASE Name(p) \in Assets
        BY <1>3, <2>1, <3>1, Removing
    <3>2. CASE Name(p) \notin Assets
      <4>1. PICK y : assets' = [assets EXCEPT ![Name(p)] = y]
          BY <1>3
      <4>2. AssetsFine(jobs, assets)
          BY DEF Inv
      <4> QED BY <3>2, <4>1, <4>2, OneAsset
    <3> QED BY <3>1, <3>2
  <2>3. SelectionOK'
      BY <1>3 DEF Inv, SelectionOK
  <2> QED BY <1>3, <2>2, <2>3, EndsWell DEF Outcomes
<1> QED BY <1>1, <1>2, <1>3 DEF FillFile, With

(* The server's own steps.                                                  *)
LEMMA ServerFine ==
  ASSUME NEW jobs, Inv(jobs), Server
  PROVE  Inv(jobs)'
<1>1. UNCHANGED cmd /\ UNCHANGED selection
    BY DEF Server, Elects, FinishesMove, ConsumerElects
<1>2. PICK a \in Assets : Elects(a) \/ FinishesMove(a) \/ \E i \in Items : ConsumerElects(a, i)
    BY DEF Server
<1>3. GoodChange(jobs, assets, assets')
  <2>1. CASE Elects(a)
    <3>1. IsAsset(assets[a]) /\ assets[a] \in AssetRecords /\ Exists(a)
        BY <2>1, AssetIs DEF Elects
    <3>2. PICK l \in assets[a].peers : assets' = [assets EXCEPT ![a].leader = l]
        BY <2>1 DEF Elects
    <3>3. PICK x : x = [assets[a] EXCEPT !.leader = l]
        OBVIOUS
    <3>4. IsAsset(x) /\ x.cfg = assets[a].cfg /\ x.by = assets[a].by /\ x.parts = assets[a].parts
        BY <3>1, <3>3 DEF AssetRecords, IsAsset
    <3>5. assets' = [assets EXCEPT ![a] = x]
        BY <3>2, <3>3
    <3> QED BY <3>1, <3>4, <3>5, Altered
  <2>2. CASE FinishesMove(a)
    <3>1. IsAsset(assets[a]) /\ assets[a] \in AssetRecords /\ Exists(a)
        BY <2>2, AssetIs DEF FinishesMove
    <3>2. PICK x : x = [assets[a] EXCEPT !.moving = FALSE, !.peers = assets[a].desired,
                                         !.leader = IF @ \in assets[a].desired THEN @ ELSE "nobody"]
        OBVIOUS
    <3>3. IsAsset(x) /\ x.cfg = assets[a].cfg /\ x.by = assets[a].by /\ x.parts = assets[a].parts
        BY <3>1, <3>2 DEF AssetRecords, IsAsset
    <3>4. assets' = [assets EXCEPT ![a] = x]
        BY <2>2, <3>2 DEF FinishesMove
    <3> QED BY <3>1, <3>3, <3>4, Altered
  <2>3. ASSUME NEW i \in Items, ConsumerElects(a, i) PROVE GoodChange(jobs, assets, assets')
    <3>1. /\ Exists(a) /\ assets[a].parts[i] \in Parts
          /\ PartFine(jobs, IsKeys(a), assets[a].parts[i])
        BY <2>3, PartIs DEF ConsumerElects
    <3>2. PICK l \in assets[a].parts[i].peers : assets' = [assets EXCEPT ![a].parts[i].leader = l]
        BY <2>3 DEF ConsumerElects
    <3>3. PICK x : x = [assets[a].parts[i] EXCEPT !.leader = l]
        OBVIOUS
    <3>4. x \in Parts /\ x.cfg = assets[a].parts[i].cfg /\ x.by = assets[a].parts[i].by
        BY <3>1, <3>3 DEF Parts
    <3>5. PartFine(jobs, IsKeys(a), x)
        BY <3>1, <3>4, PartMoved
    <3>6. assets' = [assets EXCEPT ![a].parts[i] = x]
        BY <3>2, <3>3
    <3> QED BY <3>1, <3>5, <3>6, PartChange
  <2> QED BY <1>2, <2>1, <2>2, <2>3
<1>4. \A p \in Procs : CommandFine(jobs, p, cmd[p], assets')
    BY <1>3, FineNow
<1>5. SelectionOK' /\ DOMAIN cmd' = Procs /\ AssetsFine(jobs, assets')
    BY <1>1, <1>3 DEF Inv, SelectionOK, GoodChange
<1>6. \A p \in Procs : CommandFine(jobs, p, cmd'[p], assets')
    BY <1>1, <1>4
<1> QED BY <1>5, <1>6 DEF Inv

LEMMA StepFine ==
  ASSUME NEW jobs \in CommandLines, Inv(jobs), NEW p \in Procs, Step(p)
  PROVE  Inv(jobs)'
<1>1. CASE ReadsSomething(p)
    BY <1>1, SelectStreamFine, SelectConsumerFine, FindConsumerFine, ReadingFine, LooksFine,
       LeadersFine, NumbersFine, OpenBucketFine, LooksForFine, FailsFine DEF ReadsSomething
<1>2. CASE Asks(p)
    BY <1>2, AsksFine, WarnsFine, LeadersFine, ConfiguringFine, EditStreamFine,
       EditConsumerFine, EditBucketFine DEF Asks
<1>3. CASE Requests(p)
    BY <1>3, CreatesFine, UpdateStreamFine, PurgeStreamFine, RemovesFine, RemoveMessageFine,
       SealStreamFine, StepDownFine, CancelMoveFine, EvacuateFine, RemovePeerFine,
       AsksServersFine, BalanceStreamsFine, BalanceConsumersFine, UpdatesConsumersFine,
       DeleteConsumerFine, ResetConsumerFine, PauseConsumerFine, ResumeConsumerFine, UnpinFine,
       StepDownConsumerFine, EvacuateConsumerFine, PullMessageFine, AcknowledgeFine, KeysFine,
       PurgeKeyFine, CompactFine, SealBucketFine, PurgeAccountFine DEF Requests
<1>4. CASE Awaits(p)
    BY <1>4, AwaitsFine
<1>5. CASE WorksOnContexts(p)
    BY <1>5, ReadContextFine, LooksFine, ReadingFine, EditContextFine, SaveContextFine,
       RemovesFine, SelectingFine, ContextsFine DEF WorksOnContexts
<1>6. CASE WorksOnAccounts(p)
    BY <1>6, LoadingFine, SaveSelectedOperatorFine, LooksFine, ConfiguringFine, FindPartFine,
       PickingFine, CopyingFine, CreatesFine, CommitFine, NumbersFine, PushAccountFine
       DEF WorksOnAccounts
<1>7. CASE WorksOnFiles(p)
    BY <1>7, NameFileFine, LooksFine, LooksForFine, AsksFine, CreateFileFine, FillFileFine,
       WritesFileFine, EditErrorsFine, CreatesFine DEF WorksOnFiles
<1> QED BY <1>1, <1>2, <1>3, <1>4, <1>5, <1>6, <1>7 DEF Step

LEMMA BeginsFine ==
  ASSUME NEW jobs \in CommandLines, NEW p \in Procs, NEW as
  PROVE  CommandFine(jobs, p, Begun(jobs[p], Plan(jobs[p])), as)
<1> DEFINE job == jobs[p]
           plan == Plan(job)
           c == Begun(job, plan)
<1>1. job \in Jobs /\ Fits(job)
    BY AdministrationAssumption
<1>2. Sound(job, plan)
    BY <1>1, PlansAreSound
<1>3. /\ IsCommand(c) /\ c.job = job /\ c.steps = plan /\ c.outcome = "ok" /\ c.asset = job.asset
      /\ c.item = job.item /\ c.seen = NoAsset /\ c.new = <<>> /\ c.base = 0
      /\ c.old = "nobody" /\ c.did = {}
    BY DEF Begun, IsCommand
<1> HIDE DEF c, plan
<1>4. Typed(c)
    BY <1>1, <1>3 DEF Typed, Jobs
<1>5. Named(c)
  <2>1. c.asset \in Assets /\ c.job.op \notin WorksOnKeys => ~IsKeys(c.asset)
      BY <1>1, <1>3 DEF Fits, IsKeys
  <2>2. c.asset \in Assets /\ c.job.op \in PicksContext => Kind[c.asset] = "context"
      BY <1>1, <1>3 DEF Fits, PicksContext, ContextHandlers
  <2> QED BY <1>3, <2>1, <2>2 DEF Named
<1>6. SawWell(jobs, c, as) /\ DidWell(c)
    BY <1>3 DEF SawWell, DidWell
<1>7. c.steps # <<>> => Relies(jobs, c, Head(c.steps), as)
  <2> SUFFICES ASSUME plan # <<>> PROVE Relies(jobs, c, Head(plan), as)
      BY <1>3
  <2>1. Starts(job, plan[1]) /\ plan[1] = Head(plan)
      BY <1>2 DEF Sound, Orderly, IsSequence
  <2>2. PICK a : a = plan[1]
      OBVIOUS
  <2>3. Relies(jobs, c, a, as)
      BY <2>1, <2>2, <1>3 DEF Starts, Relies
  <2> QED BY <2>1, <2>2, <2>3
<1>8. Orderly(c.job, c.steps)
    BY <1>2, <1>3 DEF Sound
<1>9. CommandFine(jobs, p, c, as)
    BY <1>3, <1>4, <1>5, <1>6, <1>7, <1>8 DEF CommandFine
<1> QED BY <1>9 DEF c, plan

LEMMA AtStart ==
  ASSUME NEW jobs \in CommandLines
  PROVE  AssetsFine(jobs, AssetsAtStart)
<1> SUFFICES ASSUME NEW a \in Assets, AssetsAtStart[a] # NoAsset
             PROVE  AssetFine(jobs, IsKeys(a), AssetsAtStart[a])
    BY AdministrationAssumption DEF AssetsFine
<1> DEFINE asset == AssetsAtStart[a]
<1>1. /\ IsAsset(asset)
      /\ \A f \in Fields :
           /\ asset.cfg[f] = "old"
           /\ \A i \in Items : asset.parts[i] # NoPart => asset.parts[i].cfg[f] = "old"
    BY AdministrationAssumption
<1> HIDE DEF asset
<1>2. asset.cfg \in Configurations /\ \A i \in Items : asset.parts[i] \in Parts \cup {NoPart}
    BY <1>1 DEF IsAsset, AssetRecords
<1>3. Meant(jobs, asset.cfg) /\ Kept(jobs, asset.cfg)
    BY <1>1, <1>2 DEF Meant, Kept, Plain
<1>4. ASSUME NEW i \in Items, asset.parts[i] # NoPart
      PROVE  PartFine(jobs, IsKeys(a), asset.parts[i])
  <2>1. asset.parts[i] \in Parts /\ \A f \in Fields : asset.parts[i].cfg[f] = "old"
      BY <1>1, <1>2, <1>4
  <2>2. asset.parts[i].cfg \in Configurations
      BY <2>1 DEF Parts
  <2>3. Meant(jobs, asset.parts[i].cfg) /\ Kept(jobs, asset.parts[i].cfg)
      BY <2>1, <2>2 DEF Meant, Kept, Plain
  <2> QED BY <2>1, <2>3 DEF PartFine
<1>5. AssetFine(jobs, IsKeys(a), asset)
    BY <1>1, <1>3, <1>4 DEF AssetFine
<1> QED BY <1>5 DEF asset

(***************************************************************************)
(* The theorems.                                                            *)
(***************************************************************************)

LEMMA InitFine == Init => IInv
<1> SUFFICES ASSUME Init PROVE IInv
    OBVIOUS
<1>1. PICK jobs \in CommandLines : cmd = [p \in Procs |-> Begun(jobs[p], Plan(jobs[p]))]
    BY DEF Init
<1>2. AssetsFine(jobs, assets)
    BY AtStart DEF Init
<1>3. SelectionOK
    BY AdministrationAssumption DEF Init, SelectionOK
<1>4. \A p \in Procs : CommandFine(jobs, p, cmd[p], assets)
    BY <1>1, BeginsFine
<1> QED BY <1>1, <1>2, <1>3, <1>4 DEF IInv, Inv

LEMMA NextFine ==
  ASSUME NEW jobs \in CommandLines, Inv(jobs), [Next]_vars
  PROVE  Inv(jobs)'
<1>1. ASSUME NEW p \in Procs, Step(p) \/ Interrupted(p) PROVE Inv(jobs)'
    BY <1>1, StepFine, FailsFine
<1>2. CASE Server
    BY <1>2, ServerFine
<1>3. CASE UNCHANGED vars
    BY <1>3 DEF Inv, SelectionOK, vars
<1> QED BY <1>1, <1>2, <1>3 DEF Next

(* IInv is an invariant: every step of every handler, of the server and of  *)
(* an interrupt keeps the commands and assets fine.                         *)
THEOREM Invariance == Spec => []IInv
<1>1. Init => IInv
    BY InitFine
<1>2. IInv /\ [Next]_vars => IInv'
  <2> SUFFICES ASSUME NEW jobs \in CommandLines, Inv(jobs), [Next]_vars PROVE Inv(jobs)'
      BY DEF IInv
  <2> QED BY NextFine
<1> QED BY <1>1, <1>2, PTL DEF Spec

(* Assets are what a server may have, whatever a command passed on.         *)
THEOREM TypeCorrect == Spec => []TypeOK
<1>1. IInv => TypeOK
  <2> SUFFICES ASSUME NEW jobs \in CommandLines, Inv(jobs) PROVE TypeOK
      BY DEF IInv
  <2>1. AssetsOK
      BY AssetIs DEF AssetsOK, Inv, AssetsFine
  <2>2. \A p \in Procs : Typed(cmd[p])
      BY CommandIs
  <2> QED BY <2>1, <2>2 DEF TypeOK, Typed, Inv, SelectionOK
<1> QED BY <1>1, Invariance, PTL

(* But for `stream peer-remove` and `mappings rm`, which never ask, no      *)
(* handler removes, seals, resets, moves, reverts or overwrites a thing that *)
(* the user did not agree to, name with --force or pick, except that the    *)
(* edit of a consumer from a file asks about the consumer of the command    *)
(* line; and no stream of a key-value bucket is edited, purged or loses     *)
(* messages to `stream rmm` without the warning, which its removal and      *)
(* sealing lack.                                                            *)
THEOREM Consent == Spec => []ConsentComesFirst
<1>1. IInv => ConsentComesFirst
  <2> SUFFICES ASSUME NEW jobs \in CommandLines, Inv(jobs), NEW p \in Procs,
                      NEW d \in cmd[p].did, d.step \in Grave(cmd[p].job.op)
               PROVE  /\ \/ cmd[p].job.op \in NeverAsks \/ Agreed(p, d) \/ Forced(p, d)
                         \/ d.step = "create_file" /\ cmd[p].seen = NoAsset
                      /\ Kind[d.asset] = "kv" /\ cmd[p].job.op \in WarnsOfBuckets
                           => cmd[p].warned
      BY DEF IInv, ConsentComesFirst
  <2>1. DidOne(cmd[p], d)
      BY CommandIs DEF DidWell
  <2>2. IsIn(cmd[p].job, d.item) <=> FileNames(p, d.item)
      BY DEF IsIn, FileNames
  <2>3. Consented(cmd[p], d) =>
          \/ cmd[p].job.op \in NeverAsks \/ Agreed(p, d) \/ Forced(p, d)
          \/ d.step = "create_file" /\ cmd[p].seen = NoAsset
      BY <2>2 DEF Consented, Agreed, Forced, HasForce, IsKeys
  <2> QED BY <2>1, <2>3 DEF DidOne
<1> QED BY <1>1, Invariance, PTL

(* However edits of the same asset by several commands interleave, what was *)
(* there at first keeps every field that no command line set, but for the   *)
(* fields that some commands reset on their own: the edits of streams,      *)
(* contexts and users one of them, the copy of a consumer one, the addition *)
(* of a consumer that there is all, and the edits of streams and consumers  *)
(* from a file all that it leaves out.  A field may still lose a value that *)
(* one of the commands set to the one it had at first.                      *)
THEOREM WrittenAsAsked == Spec => []WritesOnlyWhatWasAsked
<1>1. IInv => WritesOnlyWhatWasAsked
  <2> SUFFICES ASSUME NEW jobs \in CommandLines, Inv(jobs), NEW a \in Assets, NEW f \in Fields,
                      Exists(a)
               PROVE  /\ Explained(assets[a], f)
                      /\ \A i \in Items : HasPart(a, i) => Explained(assets[a].parts[i], f)
      BY DEF IInv, WritesOnlyWhatWasAsked
  <2>1. \A p \in Procs : cmd[p].job = jobs[p]
      BY CommandIs
  <2>2. ASSUME NEW c, Meant(jobs, c.cfg), c.by = "start" => Kept(jobs, c.cfg)
        PROVE  Explained(c, f)
      BY <2>1, <2>2 DEF Explained, Meant, Kept, Plain, ResetBySome
  <2>3. AssetFine(jobs, IsKeys(a), assets[a])
      BY AssetIs
  <2>4. Explained(assets[a], f)
      BY <2>2, <2>3 DEF AssetFine
  <2>5. ASSUME NEW i \in Items, HasPart(a, i) PROVE Explained(assets[a].parts[i], f)
      BY <2>2, <2>5, PartIs DEF PartFine
  <2> QED BY <2>4, <2>5
<1> QED BY <1>1, Invariance, PTL
=============================================================================
