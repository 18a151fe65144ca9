---------------------------- MODULE ReplicaCheck ----------------------------
(***************************************************************************)
(* `nats server stream-check` and `consumer-check`                          *)
(* (cli/server_stream_check.go, cli/server_consumer_check.go): every server *)
(* is asked for its replicas, which go on while it is answered, and each    *)
(* replica is compared with the others of its group.  One stream and one    *)
(* consumer stand for all.                                                 *)
(***************************************************************************)
EXTENDS Integers, FiniteSets

CONSTANTS
  Peers,     \* the servers that have a replica
  MaxApplied \* bound: messages of the stream, and what the consumer delivered

ASSUME ReplicaAssumption == IsFiniteSet(Peers) /\ MaxApplied \in Nat \ {0}

VARIABLE check

Leaders == {{}} \cup {{p} : p \in Peers}
Position == 0 .. MaxApplied

(* What a server has: the last message, one it lost (0 for none), what the  *)
(* consumer delivered, and who it takes for the leader, {} for nobody.      *)
(* Streams of servers without clustering have no group and no leader.       *)
ReplicaStates(kind) ==
  [last : 1 .. MaxApplied, lost : IF kind = "stream" THEN Position ELSE {0},
   delivered : IF kind = "consumer" THEN Position ELSE {0}, leader : Leaders]

CheckStarts ==
  UNION {{[kind |-> k, unsynced |-> u, group |-> g, main |-> "connect", replicas |-> r,
           replies |-> <<>>, rows |-> {}] :
            u \in BOOLEAN, g \in {"none", "unnamed", "named"},
            r \in [Peers -> {s \in ReplicaStates(k) : s.last = 1 /\ s.delivered = 0}]} :
         k \in {"stream", "consumer"}}

CheckOver == check.main \in {"done", "error", "panic"}

Replied == DOMAIN check.replies

(* The connection and the number of servers to expect; data may also come   *)
(* from standard input or an archive.                                       *)
CheckConnects ==
  /\ check.main = "connect"
  /\ \E next \in {"gather", "error"} : check' = [check EXCEPT !.main = next]

(* Replicas apply what the leader has while the servers answer; what one    *)
(* does once it has answered does not matter.                               *)
Applies(p) ==
  /\ check.main = "gather" /\ p \notin Replied /\ check.replicas[p].last < MaxApplied
  /\ check' = [check EXCEPT !.replicas[p].last = @ + 1]

Delivers(p) ==
  /\ check.main = "gather" /\ p \notin Replied
  /\ check.kind = "consumer" /\ check.replicas[p].delivered < MaxApplied
  /\ check' = [check EXCEPT !.replicas[p].delivered = @ + 1]

Replies(p) ==
  /\ check.main = "gather" /\ p \notin Replied
  /\ check' = [check EXCEPT !.replies =
                 [q \in Replied \cup {p} |-> IF q = p THEN check.replicas[p] ELSE check.replies[q]]]

(* All have answered, or the timeout.                                       *)
GatherEnds ==
  /\ check.main = "gather"
  /\ check' = [check EXCEPT !.main = IF Replied = {} THEN "error" ELSE "compare"]

(* Message k has k bytes.                                                   *)
Lacks(r) == r.lost \in 1 .. r.last
Msgs(r) == IF Lacks(r) THEN r.last - 1 ELSE r.last
Bytes(r) == (r.last * (r.last + 1)) \div 2 - (IF Lacks(r) THEN r.lost ELSE 0)
FirstSeq(r) == IF r.lost = 1 THEN 2 ELSE 1
LastSeq(r) == r.last

Unequal(r, peer) ==
  \/ Msgs(peer) # Msgs(r) /\ Bytes(peer) # Bytes(r)
  \/ FirstSeq(peer) # FirstSeq(r) \/ LastSeq(peer) # LastSeq(r)

OtherLeader(r, peer) == peer.leader # {} /\ r.leader # {} /\ peer.leader # r.leader

(* streamCheck: the peers are gone through in no particular order, and the  *)
(* last that differs decides.                                               *)
StreamStatuses(r) ==
  LET differing == {q \in Replied : \/ Unequal(r, check.replies[q])
                                      \/ OtherLeader(r, check.replies[q])}
  IN IF differing = {} THEN {"IN_SYNC"}
     ELSE {IF OtherLeader(r, check.replies[q]) THEN "MULTILEADER" ELSE "UNSYNCED" : q \in differing}

(* What the row of a peer says; a leader is never one of its own replicas,  *)
(* so that LEADER_IS_FOLLOWER, which would say so, is left out.             *)
StreamStatus(p, r, status) ==
  IF p \in r.leader THEN status
  ELSE IF r.leader = {} THEN "LEADERLESS"
  ELSE IF check.group = "unnamed" THEN "MISSING_GROUP"
  ELSE status

(* consumerCheck: what is wrong is collected; acknowledgements are compared *)
(* the way deliveries are, and not told apart from them here.               *)
Faults(r) ==
  (IF r.last < r.delivered THEN {"AHEAD"} ELSE {})
    \cup (IF \E q \in Replied : check.replies[q].delivered # r.delivered THEN {"DELIVERED"} ELSE {})
    \cup (IF \E q \in Replied : OtherLeader(r, check.replies[q]) THEN {"MULTILEADER"} ELSE {})

ConsumerStatus(p, r, faults) ==
  IF p \notin r.leader /\ r.leader = {} THEN "LEADERLESS"
  ELSE IF p \notin r.leader /\ check.group = "unnamed" THEN "MISSING_GROUP"
  ELSE IF faults # {} THEN "UNSYNCED"
  ELSE IF r.delivered = 0 THEN "EMPTY"
  ELSE "IN_SYNC"

(* With --unsynced a row shows the difference to the leader, whose answer   *)
(* may be missing; that ends the program in a panic, and so do servers      *)
(* without clustering, for want of a leader to compare.                     *)
Faulty(r) ==
  IF check.kind = "stream" THEN "IN_SYNC" \notin StreamStatuses(r) ELSE Faults(r) # {}

Panics ==
  \/ check.group = "none"
  \/ /\ check.unsynced
     /\ \E p \in Replied : LET r == check.replies[p]
                           IN Faulty(r) /\ p \notin r.leader /\ r.leader \cap Replied = {}

Shown(r) == ~check.unsynced \/ Faulty(r)

StreamRows ==
  LET shown == {p \in Replied : Shown(check.replies[p])}
      Row(p, s) == [peer |-> p, status |-> StreamStatus(p, check.replies[p], s)]
  IN {{Row(p, f[p]) : p \in shown} :
        f \in {g \in [shown -> {"IN_SYNC", "UNSYNCED", "MULTILEADER"}] :
                 \A p \in shown : g[p] \in StreamStatuses(check.replies[p])}}

ConsumerRows ==
  {[peer |-> p, status |-> ConsumerStatus(p, check.replies[p], Faults(check.replies[p]))] :
     p \in {q \in Replied : Shown(check.replies[q])}}

ChecksStream ==
  /\ check.main = "compare" /\ check.kind = "stream"
  /\ IF Panics THEN check' = [check EXCEPT !.main = "panic"]
     ELSE \E rows \in StreamRows : check' = [check EXCEPT !.main = "done", !.rows = rows]

ChecksConsumer ==
  /\ check.main = "compare" /\ check.kind = "consumer"
  /\ check' = IF Panics THEN [check EXCEPT !.main = "panic"]
              ELSE [check EXCEPT !.main = "done", !.rows = ConsumerRows]

CheckRuns == CheckConnects \/ GatherEnds \/ ChecksStream \/ ChecksConsumer
CheckStep == CheckRuns \/ \E p \in Peers : Applies(p) \/ Delivers(p) \/ Replies(p)

-----------------------------------------------------------------------------
CheckTypeOK ==
  /\ check.main \in {"connect", "gather", "compare", "done", "error", "panic"}
  /\ check.replicas \in [Peers -> ReplicaStates(check.kind)] /\ Replied \subseteq Peers
  /\ \A row \in check.rows : row.peer \in Replied

Alike(p, q) ==
  LET a == check.replies[p]  b == check.replies[q]
  IN IF check.kind = "stream" THEN a.last = b.last /\ (Lacks(a) <=> Lacks(b))
     ELSE a.delivered = b.delivered

(* No replica is called in sync when another one answered that it is        *)
(* further or lost a message that the first has, and no such replica is     *)
(* hidden by --unsynced; what is hidden answered the same as all others     *)
(* (streamCheck, consumerCheck).  Replicas that lost different messages of  *)
(* different sizes are not told apart.                                      *)
NoneWronglyInSync ==
  check.main = "done" =>
    \A p, q \in Replied :
      ~Alike(p, q) =>
        /\ \A row \in check.rows : row.peer = p => row.status # "IN_SYNC"
        /\ \E row \in check.rows : row.peer = p

(* The other way round: when all answered the same there is nothing but a   *)
(* missing leader to report.                                                *)
NoneWronglyUnsynced ==
  check.main = "done" /\ (\A p, q \in Replied : check.replies[p] = check.replies[q]) =>
    \A row \in check.rows : row.status \notin {"UNSYNCED", "MULTILEADER"}
                            \/ check.replies[row.peer].last < check.replies[row.peer].delivered
=============================================================================
