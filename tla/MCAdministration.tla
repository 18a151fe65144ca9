-------------------------- MODULE MCAdministration --------------------------
EXTENDS Administration, TLC

MCAssets == {"S", "S2", "B", "B2", "M", "X", "X2", "OP", "OP2", "AC", "AC2", "F", "F2"}
MCKind ==
  [S |-> "stream", S2 |-> "stream", B |-> "kv", B2 |-> "object", M |-> "meta",
   X |-> "context", X2 |-> "context", OP |-> "operator", OP2 |-> "operator",
   AC |-> "account", AC2 |-> "account", F |-> "file", F2 |-> "file"]

AtStart ==
  LET old == [f \in Fields |-> "old"]
      part == [cfg |-> old, by |-> "start", paused |-> TRUE, pinned |-> TRUE, position |-> 1,
               acked |-> 0, leader |-> "n1", peers |-> {"n1", "n2"}]
      new == [cfg |-> old, by |-> "start", sealed |-> FALSE, last |-> 2,
              msgs |-> {[seq |-> s, key |-> "a", op |-> "put"] : s \in {1, 2}},
              parts |-> [i \in Items |-> IF i = "a" THEN part ELSE NoPart],
              leader |-> "n1", peers |-> {"n1", "n2"}, desired |-> {"n1", "n2"}, moving |-> FALSE]
      none == [i \in Items |-> NoPart]
  IN [a \in Assets |->
        IF a \in {"S2", "X2", "OP2", "AC2", "F2"} THEN NoAsset
        ELSE IF a = "S" THEN [new EXCEPT !.parts["b"] = [part EXCEPT !.paused = FALSE]]
        ELSE IF a \in {"AC", "OP"} THEN new ELSE [new EXCEPT !.parts = none]]

(* A command line on what is named, with a terminal; variations follow.     *)
On(op, asset) ==
  [op |-> op, asset |-> asset, item |-> "a", force |-> FALSE, terminal |-> TRUE,
   set |-> {"limits"}, to |-> "none", rev |-> 1, peer |-> "n1", activate |-> FALSE,
   file |-> FALSE]

Ops(asset, names) == {On(op, asset) : op \in names}

OnStreams ==
  Ops("S", {"stream_edit", "stream_purge", "stream_rmm", "stream_rm", "stream_seal",
            "stream_step_down", "stream_balance", "stream_cancel_move", "stream_evacuate",
            "stream_peer_remove",
            "consumer_edit", "consumer_rm", "consumer_reset", "consumer_pause",
            "consumer_resume", "consumer_unpin", "consumer_step_down", "consumer_evacuate",
            "consumer_add", "consumer_balance"})
  \cup {[On("consumer_next", "S") EXCEPT !.item = "b"],
        [On("stream_add", "S2") EXCEPT !.terminal = FALSE],
        [On("stream_edit", "S") EXCEPT !.file = TRUE],
        [On("consumer_edit", "S") EXCEPT !.file = TRUE],
        [On("consumer_edit", "S") EXCEPT !.file = TRUE, !.to = "b"],
        [On("stream_cp", "S") EXCEPT !.to = "S2"],
        [On("consumer_cp", "S") EXCEPT !.to = "b"],
        [On("stream_rm", "S") EXCEPT !.force = TRUE],
        [On("consumer_rm", "S") EXCEPT !.force = TRUE],
        [On("stream_cancel_move", "S") EXCEPT !.force = TRUE],
        [On("stream_purge", "none") EXCEPT !.peer = "none"],
        [On("stream_purge", "S") EXCEPT !.terminal = FALSE],
        [On("stream_evacuate", "none") EXCEPT !.peer = "none"],
        [On("consumer_reset", "S") EXCEPT !.item = "none"]}

OnBuckets ==
  Ops("B", {"kv_edit", "kv_put", "kv_create", "kv_update", "kv_del", "kv_purge", "kv_compact",
            "kv_revert", "stream_purge", "stream_rmm", "stream_edit", "stream_rm",
            "stream_seal"})
  \cup Ops("B2", {"object_edit", "object_put", "object_del", "object_seal"})
  \cup {[On("kv_add", "S2") EXCEPT !.terminal = FALSE],
        [On("kv_del", "B") EXCEPT !.item = "none"],
        [On("object_del", "B2") EXCEPT !.item = "none"],
        [On("object_del", "B2") EXCEPT !.force = TRUE],
        [On("object_put", "B2") EXCEPT !.terminal = FALSE],
        On("object_add", "S2")}

OnServers == Ops("M", {"server_step_down", "server_evacuate", "server_peer_remove", "server_rescue",
                       "server_balance"})
             \cup {[On("server_peer_remove", "M") EXCEPT !.peer = "n2"]}

OnContexts ==
  Ops("X", {"context_save", "context_edit", "context_rm", "context_select", "context_unselect",
            "context_previous"})
  \cup {[On("context_copy", "X2") EXCEPT !.to = "X"],
        [On("context_copy", "X2") EXCEPT !.to = "X", !.activate = TRUE],
        [On("context_save", "X2") EXCEPT !.activate = TRUE],
        [On("context_rm", "X") EXCEPT !.force = TRUE], On("context_select", "none")}

OnAccounts ==
  Ops("AC", {"account_edit", "account_push", "account_sk_rm", "export_edit", "export_rm",
             "import_edit", "import_rm", "export_kv", "import_kv", "mapping_add", "mapping_rm",
             "user_edit", "user_rm"})
  \cup {[On(op, "AC") EXCEPT !.item = "b"] :
          op \in {"account_sk_add", "account_sk_rm", "export_add", "import_add", "user_add"}}
  \cup Ops("OP", {"operator_edit", "operator_sk_rm", "operator_select"})
  \cup {[On("operator_sk_add", "OP") EXCEPT !.item = "b"], On("operator_add", "OP2"),
        On("operator_import", "OP2"), On("operator_restore", "OP2"), On("account_add", "AC2"),
        [On("user_rm", "AC2") EXCEPT !.item = "none"],
        [On("mapping_rm", "AC") EXCEPT !.item = "none"],
        On("operator_select", "none"), [On("operator_edit", "none") EXCEPT !.force = TRUE]}

WritesAll(job) == [job EXCEPT !.set = Fields]
OnFiles ==
  {WritesAll(job) : job \in
     Ops("F", {"nkey_gen", "nkey_seal", "nkey_unseal"})
     \cup {[On("object_get", "B2") EXCEPT !.to = to, !.terminal = t] :
              to \in {"F", "F2"}, t \in BOOLEAN}
     \cup {[On("user_cred", "AC") EXCEPT !.to = to, !.force = (to = "F")] : to \in {"F", "F2"}}
     \cup {[On("operator_backup", "OP") EXCEPT !.to = "F"],
           [On("account_query", "AC") EXCEPT !.to = "F2"],
           [On("object_get", "B2") EXCEPT !.to = "F", !.force = TRUE]}}
  \cup {On("errors_edit", "F"), On("counter_incr", "S"),
        On("server_account_purge", "AC"), On("server_kick", "M"),
        On("server_config_reload", "M")}

(* Any command beside one that gets in its way.                             *)
Beside(jobs, others) == {("p1" :> j) @@ ("p2" :> k) : j \in jobs, k \in others}
Other(op, asset) == [On(op, asset) EXCEPT !.force = TRUE, !.set = {"rest"}]

MCCommandLines ==
  Beside(OnStreams, {Other(op, "S") :
                       op \in {"stream_rm", "stream_edit", "stream_evacuate", "consumer_rm"}})
  \cup Beside(OnBuckets,
               {Other("kv_put", "B"), Other("kv_del", "B"), Other("object_put", "B2")})
  \cup Beside(OnFiles,
               {WritesAll([Other("object_get", "B2") EXCEPT !.to = to]) : to \in {"F", "F2"}})
  \cup Beside(OnServers, {Other("server_step_down", "M")})
  \cup Beside(OnContexts,
               {Other("context_rm", "X"), Other("context_save", "X"), Other("context_select", "X")})
  \cup Beside(OnAccounts, {Other("account_edit", "AC"), Other("user_rm", "AC")})
=============================================================================
