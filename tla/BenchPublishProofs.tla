------------------------- MODULE BenchPublishProofs -------------------------
(***************************************************************************)
(* What holds of BenchPublish for every number of clients and messages.    *)
(* The argument is bookkeeping: each wait group counts the clients that    *)
(* still have to release it, and the outcomes in errChan together with the *)
(* ones main has taken count the clients that have reported.               *)
(***************************************************************************)
EXTENDS BenchPublish, NumberProofs, SequenceTheorems

\* The clients whose program counter is in S.
At(f, S) == {c \in Clients : f[c] \in S}

(***************************************************************************)
(* Facts about the clients and their program counters.                     *)
(***************************************************************************)

LEMMA ClientsFinite ==
  /\ N \in Nat \ {0}
  /\ IsFiniteSet(Clients)
  /\ Cardinality(Clients) = N
  /\ NoClient \notin Clients
<1>1. N \in Nat \ {0}
  BY SizesAssumption DEF N
<1>2. /\ IsFiniteSet(1..N)
      /\ Cardinality(1..N) = N
  BY <1>1, FS_Interval
<1> QED
  BY <1>1, <1>2 DEF Clients, NoClient

\* The clients at some place form a finite set no larger than Clients.
LEMMA AtFinite ==
  ASSUME NEW f, NEW S
  PROVE  /\ At(f, S) \in SUBSET Clients
         /\ IsFiniteSet(At(f, S))
         /\ Cardinality(At(f, S)) \in Nat
         /\ Cardinality(At(f, S)) <= N
         /\ Cardinality(At(f, S)) = N => At(f, S) = Clients
         /\ Cardinality(At(f, S)) = 0 <=> At(f, S) = {}
<1>1. At(f, S) \in SUBSET Clients
  BY DEF At
<1>2. IsFiniteSet(At(f, S))
  BY <1>1, ClientsFinite, FS_Subset
<1> QED
  BY <1>1, <1>2, ClientsFinite, FS_Subset, FS_CardinalityType, FS_EmptySet

\* A client that moves leaves the places it was at and enters the others.
LEMMA AtMoves ==
  ASSUME NEW X, NEW f \in [Clients -> X], NEW c \in Clients, NEW to, NEW S,
         NEW g, g = [f EXCEPT ![c] = to]
  PROVE  /\ f[c] \in S /\ to \in S => At(g, S) = At(f, S)
         /\ f[c] \notin S /\ to \notin S => At(g, S) = At(f, S)
         /\ f[c] \in S /\ to \notin S =>
              /\ At(g, S) = At(f, S) \ {c}
              /\ Cardinality(At(g, S)) = Cardinality(At(f, S)) - 1
              /\ Cardinality(At(f, S)) > 0
         /\ f[c] \notin S /\ to \in S =>
              /\ At(g, S) = At(f, S) \cup {c}
              /\ Cardinality(At(g, S)) = Cardinality(At(f, S)) + 1
              /\ Cardinality(At(f, S)) < N
<1>1. \A d \in Clients : g[d] = IF d = c THEN to ELSE f[d]
  OBVIOUS
<1>2. ASSUME f[c] \in S, to \notin S
      PROVE  /\ At(g, S) = At(f, S) \ {c}
             /\ Cardinality(At(g, S)) = Cardinality(At(f, S)) - 1
             /\ Cardinality(At(f, S)) > 0
  <2>1. At(g, S) = At(f, S) \ {c} /\ c \in At(f, S)
    BY <1>1, <1>2 DEF At
  <2>2. IsFiniteSet(At(f, S)) /\ Cardinality(At(f, S)) \in Nat
    BY AtFinite
  <2>3. Cardinality(At(f, S)) # 0
    BY <2>1, AtFinite
  <2>4. Cardinality(At(f, S) \ {c}) = Cardinality(At(f, S)) - 1
    BY <2>1, <2>2, FS_RemoveElement
  <2>5. Cardinality(At(g, S)) = Cardinality(At(f, S)) - 1
    BY <2>1, <2>4, Zenon
  <2>6. Cardinality(At(f, S)) > 0
    BY <2>2, <2>3
  <2> QED
    BY <2>1, <2>5, <2>6
<1>3. ASSUME f[c] \notin S, to \in S
      PROVE  /\ At(g, S) = At(f, S) \cup {c}
             /\ Cardinality(At(g, S)) = Cardinality(At(f, S)) + 1
             /\ Cardinality(At(f, S)) < N
  <2>1. At(g, S) = At(f, S) \cup {c} /\ c \notin At(f, S)
    BY <1>1, <1>3 DEF At
  <2>2. Cardinality(At(g, S)) = Cardinality(At(f, S)) + 1
    BY <2>1, AtFinite, FS_AddElement
  <2>3. At(f, S) # Clients
    BY <2>1
  <2>4. Cardinality(At(f, S)) < N
    BY <2>3, AtFinite, ClientsFinite
  <2> QED
    BY <2>1, <2>2, <2>4
<1>4. ASSUME f[c] \in S <=> to \in S
      PROVE  At(g, S) = At(f, S)
  BY <1>1, <1>4 DEF At
<1> QED
  BY <1>2, <1>3, <1>4

\* AtMoves, for a change of the clients' program counters.
LEMMA ClientIsPlaced ==
  ASSUME NEW X, client \in [Clients -> X], NEW c \in Clients, NEW to, NEW S
  PROVE  client' = [client EXCEPT ![c] = to] =>
           /\ client[c] \in S /\ to \in S => At(client', S) = At(client, S)
           /\ client[c] \notin S /\ to \notin S => At(client', S) = At(client, S)
           /\ client[c] \in S /\ to \notin S =>
                /\ At(client', S) = At(client, S) \ {c}
                /\ Cardinality(At(client', S)) = Cardinality(At(client, S)) - 1
                /\ Cardinality(At(client, S)) > 0
           /\ client[c] \notin S /\ to \in S =>
                /\ At(client', S) = At(client, S) \cup {c}
                /\ Cardinality(At(client', S)) = Cardinality(At(client, S)) + 1
                /\ Cardinality(At(client, S)) < N
<1>1. \A g : g = [client EXCEPT ![c] = to] =>
        /\ client[c] \in S /\ to \in S => At(g, S) = At(client, S)
        /\ client[c] \notin S /\ to \notin S => At(g, S) = At(client, S)
        /\ client[c] \in S /\ to \notin S =>
             /\ At(g, S) = At(client, S) \ {c}
             /\ Cardinality(At(g, S)) = Cardinality(At(client, S)) - 1
             /\ Cardinality(At(client, S)) > 0
        /\ client[c] \notin S /\ to \in S =>
             /\ At(g, S) = At(client, S) \cup {c}
             /\ Cardinality(At(g, S)) = Cardinality(At(client, S)) + 1
             /\ Cardinality(At(client, S)) < N
  BY AtMoves, Zenon
<1> QED
  BY <1>1, Zenon

\* The same, for a step of the specification.
LEMMA ClientMoves ==
  ASSUME NEW X, client \in [Clients -> X], NEW c \in Clients,
         NEW from, NEW to, Moves(c, from, to), NEW S
  PROVE  /\ from \in S /\ to \in S => At(client', S) = At(client, S)
         /\ from \notin S /\ to \notin S => At(client', S) = At(client, S)
         /\ from \in S /\ to \notin S =>
              /\ At(client', S) = At(client, S) \ {c}
              /\ Cardinality(At(client', S)) = Cardinality(At(client, S)) - 1
              /\ Cardinality(At(client, S)) > 0
         /\ from \notin S /\ to \in S =>
              /\ At(client', S) = At(client, S) \cup {c}
              /\ Cardinality(At(client', S)) = Cardinality(At(client, S)) + 1
              /\ Cardinality(At(client, S)) < N
<1>1. client[c] = from /\ client' = [client EXCEPT ![c] = to]
  BY DEF Moves
<1>2. /\ client[c] \in S /\ to \in S => At(client', S) = At(client, S)
      /\ client[c] \notin S /\ to \notin S => At(client', S) = At(client, S)
      /\ client[c] \in S /\ to \notin S =>
           /\ At(client', S) = At(client, S) \ {c}
           /\ Cardinality(At(client', S)) = Cardinality(At(client, S)) - 1
           /\ Cardinality(At(client, S)) > 0
      /\ client[c] \notin S /\ to \in S =>
           /\ At(client', S) = At(client, S) \cup {c}
           /\ Cardinality(At(client', S)) = Cardinality(At(client, S)) + 1
           /\ Cardinality(At(client, S)) < N
  BY <1>1, ClientIsPlaced, Zenon
<1> QED
  BY <1>1, <1>2, Zenon

LEMMA ClientStays ==
  ASSUME NEW X, client \in [Clients -> X], NEW c \in Clients,
         NEW from, NEW to, Moves(c, from, to), NEW S, from \in S <=> to \in S
  PROVE  At(client', S) = At(client, S)
BY ClientMoves

LEMMA ClientLeaves ==
  ASSUME NEW X, client \in [Clients -> X], NEW c \in Clients,
         NEW from, NEW to, Moves(c, from, to), NEW S, from \in S, to \notin S
  PROVE  /\ At(client', S) = At(client, S) \ {c}
         /\ Cardinality(At(client', S)) = Cardinality(At(client, S)) - 1
         /\ Cardinality(At(client, S)) > 0
BY ClientMoves, Zenon

LEMMA ClientEnters ==
  ASSUME NEW X, client \in [Clients -> X], NEW c \in Clients,
         NEW from, NEW to, Moves(c, from, to), NEW S, from \notin S, to \in S
  PROVE  /\ At(client', S) = At(client, S) \cup {c}
         /\ Cardinality(At(client', S)) = Cardinality(At(client, S)) + 1
         /\ Cardinality(At(client, S)) < N
BY ClientMoves, Zenon

-----------------------------------------------------------------------------
(***************************************************************************)
(* Where the shares of the clients start.                                  *)
(***************************************************************************)
\* The first client starts at 0, each other one where the one before ends.
LEMMA OffsetRecursion ==
  ASSUME NEW counts
  PROVE  /\ Offset(counts, 1) = 0
         /\ \A c \in Nat \ {0} :
              Offset(counts, c + 1) = Offset(counts, c) + counts[c]
<1> DEFINE before == CHOOSE g : SumsAll(g, counts)
<1>1. SumsAll(before, counts)
  BY SumsAllExists
<1>2. \A c : Offset(counts, c) = before[c - 1]
  BY DEF Offset, SumsAll
<1> HIDE DEF before
<1>3. before[0] = 0
  BY <1>1 DEF SumsAll
<1>4. ASSUME NEW c \in Nat \ {0} PROVE before[c] = before[c - 1] + counts[c]
  BY <1>1 DEF SumsAll
<1>5. \A c \in Nat \ {0} : (c + 1) - 1 = c
  OBVIOUS
<1> QED
  BY <1>2, <1>3, <1>4, <1>5

\* Offset of the shares of m messages between k clients.
LEMMA OffsetIsFirst ==
  ASSUME NEW m \in Nat, NEW k \in Nat \ {0}
  PROVE  \A c \in 1..(k + 1) :
           Offset(MsgsPerClient(m, k), c) = FirstOf(m \div k, m % k, c)
<1> DEFINE q == m \div k
           r == m % k
           share == MsgsPerClient(m, k)
           T == {n \in Nat : n <= k =>
                   Offset(share, n + 1) = FirstOf(q, r, n + 1)}
<1>1. q \in Nat /\ r \in Nat
  BY Divided
<1>2. \A c \in 1..k : share[c] = q + (IF c <= r THEN 1 ELSE 0)
  BY DEF MsgsPerClient
<1> HIDE DEF q, r, share
<1>3. 0 \in T
  <2>1. 0 + 1 = 1 /\ 0 \in Nat
    OBVIOUS
  <2> QED
    BY <1>1, <2>1, OffsetRecursion, FirstOfNext
<1>4. ASSUME NEW n \in Nat, n \in T PROVE n + 1 \in T
  <2> SUFFICES ASSUME n + 1 <= k
               PROVE  Offset(share, (n + 1) + 1) = FirstOf(q, r, (n + 1) + 1)
    OBVIOUS
  <2>1. n + 1 \in Nat \ {0} /\ n + 1 \in 1..k
    OBVIOUS
  <2>2. Offset(share, n + 1) = FirstOf(q, r, n + 1)
    BY <1>4
  <2>3. Offset(share, (n + 1) + 1) = Offset(share, n + 1) + share[n + 1]
    BY <2>1, OffsetRecursion
  <2>4. FirstOf(q, r, (n + 1) + 1) =
          FirstOf(q, r, n + 1) + (q + (IF n + 1 <= r THEN 1 ELSE 0))
    BY <1>1, <2>1, FirstOfNext
  <2> QED
    BY <1>2, <2>1, <2>2, <2>3, <2>4
<1> HIDE DEF T
<1>5. \A n \in Nat : n \in T
  BY <1>3, <1>4, NumberInduction
<1>6. ASSUME NEW c \in 1..(k + 1)
      PROVE  Offset(share, c) = FirstOf(q, r, c)
  <2>1. c - 1 \in Nat /\ c - 1 <= k /\ (c - 1) + 1 = c
    OBVIOUS
  <2>2. c - 1 \in T
    BY <1>5, <2>1
  <2> QED
    BY <2>1, <2>2 DEF T
<1> QED
  BY <1>6 DEF q, r, share

\* The shares cover the numbers of the messages, one after the other, and
\* each client starts where its share does.
LEMMA SharesFitOffsets ==
  ASSUME NEW m \in Nat, NEW k \in Nat \ {0}
  PROVE  LET share == MsgsPerClient(m, k)
             first(c) == FirstOf(m \div k, m % k, c)
         IN  /\ first(1) = 0 /\ first(k + 1) = m
             /\ \A c \in 1..(k + 1) : first(c) \in Nat
             /\ \A c \in 1..k : /\ share[c] \in Nat
                                /\ Offset(share, c) = first(c)
                                /\ first(c + 1) = first(c) + share[c]
             /\ \A c, d \in 1..k : c < d => first(c + 1) <= first(d)
<1> DEFINE q == m \div k
           r == m % k
           share == MsgsPerClient(m, k)
<1>1. \A c \in 1..k : share[c] = q + (IF c <= r THEN 1 ELSE 0)
  BY DEF MsgsPerClient
<1>2. \A c \in 1..k : Offset(share, c) = FirstOf(q, r, c)
  <2>1. \A c \in 1..(k + 1) : Offset(share, c) = FirstOf(q, r, c)
    BY OffsetIsFirst
  <2> HIDE DEF q, r, share
  <2> QED
    BY <2>1
<1>3. q \in Nat /\ r \in Nat /\ r < k /\ m = k * q + r
  BY Divided
<1> HIDE DEF q, r, share
<1>4. /\ FirstOf(q, r, 1) = 0 /\ FirstOf(q, r, k + 1) = m
      /\ \A c \in 1..(k + 1) : FirstOf(q, r, c) \in Nat
      /\ \A c \in 1..k : /\ share[c] \in Nat
                         /\ FirstOf(q, r, c + 1) = FirstOf(q, r, c) + share[c]
      /\ \A c, d \in 1..k : c < d => FirstOf(q, r, c + 1) <= FirstOf(q, r, d)
  <2>1. /\ FirstOf(q, r, 1) = 0 /\ FirstOf(q, r, k + 1) = k * q + r
        /\ \A c \in 1..(k + 1) : FirstOf(q, r, c) \in Nat
        /\ \A c \in 1..k :
             FirstOf(q, r, c + 1) = FirstOf(q, r, c) + (q + (IF c <= r THEN 1 ELSE 0))
        /\ \A c, d \in 1..k : c < d => FirstOf(q, r, c + 1) <= FirstOf(q, r, d)
    BY <1>3, SharesFit
  <2>2. \A c \in 1..k : share[c] \in Nat
    BY <1>1, <1>3
  <2> QED
    BY <1>1, <1>3, <2>1, <2>2
<1> QED
  BY <1>2, <1>4 DEF q, r, share

OwesDone == {"born", "armed", "publish", "flush", "sample", "done", "broken",
             "abandon"}
HasReported == {"abandon", "failed", "finished"}
HasSampled == {"done", "report", "finished"}
HasErred == {"abandon", "failed"}

Phases ==
  /\ \A c \in Clients : client[c] = "unborn" <=> c > spawned
  /\ main \in {"waitDone", "collect", "results", "error"} =>
       At(client, {"unborn", "born"}) = {}
  /\ main \in {"connect", "noconn"} => ~triggered
  /\ ~triggered => At(client, {"unborn", "born", "armed"}) = Clients
  /\ main # "panic"

WaitGroups ==
  /\ startwg = Cardinality(At(client, {"born"}))
  /\ donewg = Cardinality(At(client, OwesDone))
  /\ main \in {"collect", "results", "error"} => At(client, OwesDone) = {}

Work ==
  /\ \A c \in At(client, {"unborn", "born", "armed"}) : sent[c] = 0
  /\ \A c \in At(client, {"flush", "sample"} \cup HasSampled) :
       sent[c] = Share[c]
  /\ samples = At(client, HasSampled)

Outcomes ==
  /\ Len(errChan) + collected = Cardinality(At(client, HasReported))
  /\ At(client, HasErred) # {} =>
       \/ firstErr # NoClient
       \/ \E k \in 1..Len(errChan) : ~errChan[k].ok
  /\ \A k \in 1..Len(errChan) :
       ~errChan[k].ok => errChan[k].from \in At(client, HasErred)
  /\ firstErr # NoClient => firstErr \in At(client, HasErred)
  /\ main \in {"results", "error"} => collected = N
  /\ main = "results" => firstErr = NoClient
  /\ main = "error" => firstErr # NoClient

IInv == TypeOK /\ Phases /\ WaitGroups /\ Work /\ Outcomes

-----------------------------------------------------------------------------
USE DEF NoClient

ClientSteps == \E c \in Clients : ClientNext(c)

LEMMA TypeInit == Init => TypeOK
<1>1. Init => HarnessTypeOK
  <2> SUFFICES ASSUME HarnessInit PROVE HarnessTypeOK
    BY DEF Init
  <2>1. errChan \in Seq(Outcome) /\ triggered \in BOOLEAN
    BY EmptySeq, Zenon DEF HarnessInit
  <2>2. /\ main \in MainStates
        /\ startwg \in Int /\ donewg \in Int
        /\ spawned \in 0..N /\ collected \in 0..N
        /\ samples \subseteq Clients
        /\ firstErr \in Clients \cup {NoClient}
    BY ClientsFinite DEF HarnessInit, MainStates
  <2> QED
    BY <2>1, <2>2, Zenon DEF HarnessTypeOK
<1>2. Init => client \in [Clients -> ClientStates]
  BY DEF Init, HarnessInit, ClientStates
<1> QED
  BY <1>1, <1>2 DEF Init, TypeOK

LEMMA TypeNext == TypeOK /\ [Next]_vars => TypeOK'
<1> SUFFICES ASSUME TypeOK, [Next]_vars
             PROVE  TypeOK'
  OBVIOUS
<1> USE ClientsFinite
<1> USE DEF TypeOK, HarnessTypeOK, MainStates, Ended, ClientStates
<1>1. CASE Main
  <2>1. CASE StartClient
    <3>1. spawned + 1 \in Clients
      BY <2>1 DEF StartClient, Clients
    <3> QED
      BY <1>1, <2>1, <3>1 DEF Main, StartClient
  <2>2. CASE ConnectFails
    BY <1>1, <2>2 DEF Main, ConnectFails
  <2>3. CASE ClientsStarted
    BY <1>1, <2>3 DEF Main, ClientsStarted
  <2>4. CASE ClientsDone
    BY <1>1, <2>4 DEF Main, ClientsDone
  <2>5. CASE Collect
    <3>1. Head(errChan) \in Outcome /\ Tail(errChan) \in Seq(Outcome)
      BY <2>5, HeadTailProperties DEF Collect
    <3> QED
      BY <1>1, <2>5, <3>1 DEF Main, Collect, Outcome
  <2>6. CASE Finish
    BY <1>1, <2>6 DEF Main, Finish
  <2> QED
    BY <1>1, <2>1, <2>2, <2>3, <2>4, <2>5, <2>6 DEF Main, MainNext
<1>2. CASE ClientSteps
  <2>1. PICK c \in Clients : ClientNext(c)
    BY <1>2 DEF ClientSteps
  <2>2. \A ok \in BOOLEAN : Append(errChan, [from |-> c, ok |-> ok]) \in Seq(Outcome)
    BY AppendProperties DEF Outcome
  <2> USE DEF Moves, LocalStep
  <2>3. CASE Ready(c)
    BY <2>3 DEF Ready, StartDone
  <2>4. CASE Triggered(c)
    BY <2>4 DEF Triggered
  <2>5. CASE Publish(c)
    <3>1. sent' \in [Clients -> Nat]
      BY <2>5 DEF Publish
    <3> QED
      BY <2>5, <3>1 DEF Publish
  <2>6. CASE PublishFails(c)
    BY <2>6 DEF PublishFails
  <2>7. CASE Published(c)
    BY <2>7 DEF Published
  <2>8. CASE Flush(c) \/ FlushFails(c)
    BY <2>8 DEF Flush, FlushFails
  <2>9. CASE SendError(c) \/ SendNil(c)
    BY <2>2, <2>9 DEF SendError, SendNil, SendOutcome
  <2>10. CASE GiveUp(c) \/ ReportDone(c)
    BY <2>10 DEF GiveUp, ReportDone, DoneDone
  <2>11. CASE HandInSample(c)
    BY <2>11 DEF HandInSample, AddSample
  <2> QED
    BY <2>1, <2>3, <2>4, <2>5, <2>6, <2>7, <2>8, <2>9, <2>10, <2>11
       DEF ClientNext
<1>3. CASE UNCHANGED vars
  BY <1>3 DEF vars
<1> QED
  BY <1>1, <1>2, <1>3 DEF Next, ClientSteps

\* The state has the types its declaration promises: nothing a client or the
\* main goroutine does puts a counter or a channel out of range.
THEOREM TypeCorrect == Spec => []TypeOK
<1>1. Init => TypeOK
  BY TypeInit
<1>2. TypeOK /\ [Next]_vars => TypeOK'
  BY TypeNext
<1> QED
  BY <1>1, <1>2, PTL DEF Spec

-----------------------------------------------------------------------------
(***************************************************************************)
(* How a client's step from one place to another affects each part of the  *)
(* invariant.                                                              *)
(***************************************************************************)

LEMMA PhasesMove ==
  ASSUME IInv, NEW c \in Clients, NEW from, NEW to, Moves(c, from, to),
         from # "unborn", to \notin {"unborn", "born"},
         ~triggered => from = "born" /\ to = "armed",
         UNCHANGED <<main, spawned, triggered>>
  PROVE  Phases'
<1> USE DEF IInv, TypeOK
<1>1. \A d \in Clients : client'[d] = IF d = c THEN to ELSE client[d]
  BY DEF Moves
<1>2. client[c] = from
  BY DEF Moves
<1>3. (\A d \in Clients : client[d] = "unborn" <=> d > spawned)'
  BY <1>1, <1>2 DEF Phases
<1>4. (main \in {"waitDone", "collect", "results", "error"} =>
         At(client, {"unborn", "born"}) = {})'
  BY <1>1, <1>2 DEF Phases, At
<1>5. (~triggered => At(client, {"unborn", "born", "armed"}) = Clients)'
  BY <1>1, <1>2 DEF Phases, At
<1> QED
  BY <1>3, <1>4, <1>5 DEF Phases

LEMMA WaitGroupsMove ==
  ASSUME IInv, NEW c \in Clients, NEW from, NEW to, Moves(c, from, to),
         to # "born",
         from = "born" => startwg' = startwg - 1,
         from # "born" => startwg' = startwg,
         to \in OwesDone => from \in OwesDone,
         from \in OwesDone /\ to \notin OwesDone => donewg' = donewg - 1,
         (from \in OwesDone <=> to \in OwesDone) => donewg' = donewg,
         UNCHANGED main
  PROVE  WaitGroups'
<1>1. client \in [Clients -> ClientStates] /\ Moves(c, from, to)
  BY DEF IInv, TypeOK
<1>2. from \in {"born"} /\ to \notin {"born"} =>
        Cardinality(At(client', {"born"})) = Cardinality(At(client, {"born"})) - 1
  BY <1>1, ClientLeaves, SMT
<1>3. from \in OwesDone /\ to \notin OwesDone =>
        Cardinality(At(client', OwesDone)) = Cardinality(At(client, OwesDone)) - 1
  BY <1>1, ClientLeaves, SMT
<1> USE DEF IInv, TypeOK, HarnessTypeOK
<1>4. Cardinality(At(client, {"born"})) \in Nat
      /\ Cardinality(At(client, OwesDone)) \in Nat
  BY AtFinite
<1>5. (startwg = Cardinality(At(client, {"born"})))'
  <2>1. CASE from = "born"
    <3>1. Cardinality(At(client', {"born"})) = Cardinality(At(client, {"born"})) - 1
      BY <1>2, <2>1
    <3> QED
      BY <2>1, <3>1 DEF WaitGroups
  <2>2. CASE from # "born"
    <3>1. At(client', {"born"}) = At(client, {"born"})
      BY <2>2, ClientMoves
    <3>2. startwg' = startwg
      BY <2>2
    <3> QED
      BY <3>1, <3>2, Zenon DEF WaitGroups
  <2> QED
    BY <2>1, <2>2
<1>6. (donewg = Cardinality(At(client, OwesDone)))'
  <2>1. CASE from \in OwesDone /\ to \notin OwesDone
    <3>1. Cardinality(At(client', OwesDone)) = Cardinality(At(client, OwesDone)) - 1
      BY <1>3, <2>1
    <3> QED
      BY <2>1, <3>1 DEF WaitGroups
  <2>2. CASE from \in OwesDone <=> to \in OwesDone
    <3>1. At(client', OwesDone) = At(client, OwesDone)
      BY <2>2, ClientMoves
    <3>2. donewg' = donewg
      BY <2>2
    <3> QED
      BY <3>1, <3>2, Zenon DEF WaitGroups
  <2> QED
    BY <2>1, <2>2
<1>7. (main \in {"collect", "results", "error"} => At(client, OwesDone) = {})'
  <2>1. At(client', OwesDone) \subseteq At(client, OwesDone)
    BY DEF At, Moves
  <2> QED
    BY <2>1 DEF WaitGroups
<1> QED
  BY <1>5, <1>6, <1>7 DEF WaitGroups

LEMMA OutcomesMove ==
  ASSUME IInv, NEW c \in Clients, NEW from, NEW to, Moves(c, from, to),
         from \in HasReported <=> to \in HasReported,
         from \in HasErred <=> to \in HasErred,
         UNCHANGED <<main, errChan, collected, firstErr>>
  PROVE  Outcomes'
<1> USE DEF IInv, TypeOK
<1>1. At(client', HasReported) = At(client, HasReported)
  BY ClientMoves
<1>2. At(client', HasErred) = At(client, HasErred)
  BY ClientMoves
<1> QED
  BY <1>1, <1>2, Zenon DEF Outcomes

\* A client sends an outcome: it joins the clients that have reported, and
\* the failed ones if it sends an error.
LEMMA OutcomesSend ==
  ASSUME IInv, NEW c \in Clients, NEW from, NEW to, NEW ok \in BOOLEAN,
         SendOutcome(c, from, to, ok),
         from \notin HasReported, to \in HasReported,
         from \notin HasErred, to \in HasErred <=> ~ok
  PROVE  Outcomes'
<1> USE DEF IInv, TypeOK, HarnessTypeOK
<1> DEFINE e == [from |-> c, ok |-> ok]
<1>1. Moves(c, from, to) /\ errChan' = Append(errChan, e)
      /\ UNCHANGED <<main, collected, firstErr>> /\ Running
  BY DEF SendOutcome, Moves
<1>2. /\ Len(errChan') = Len(errChan) + 1
      /\ \A k \in 1..Len(errChan) : errChan'[k] = errChan[k]
      /\ errChan'[Len(errChan) + 1] = e
      /\ Len(errChan) \in Nat
  <2>1. e \in Outcome
    BY DEF Outcome
  <2> QED
    BY <1>1, <2>1, AppendProperties, LenProperties
<1>3. (Len(errChan) + collected = Cardinality(At(client, HasReported)))'
  <2>1. Cardinality(At(client', HasReported)) = Cardinality(At(client, HasReported)) + 1
    BY <1>1, ClientMoves
  <2>2. Cardinality(At(client, HasReported)) \in Nat
    BY AtFinite
  <2> QED
    BY <1>1, <1>2, <2>1, <2>2 DEF Outcomes
<1>4. CASE ~ok
  <2>1. At(client', HasErred) = At(client, HasErred) \cup {c}
    BY <1>1, <1>4, ClientEnters, Zenon
  <2>2. ~errChan'[Len(errChan) + 1].ok /\ Len(errChan) + 1 \in 1..Len(errChan')
    BY <1>2, <1>4
  <2>3. \A k \in 1..Len(errChan') :
          ~errChan'[k].ok => errChan'[k].from \in At(client', HasErred)
    <3>1. TAKE k \in 1..Len(errChan')
    <3>2. CASE k = Len(errChan) + 1
      BY <1>2, <2>1, <3>2
    <3>3. CASE k \in 1..Len(errChan)
      BY <1>2, <2>1, <3>3 DEF Outcomes
    <3> QED
      BY <1>2, <3>2, <3>3
  <2>4. (firstErr # NoClient => firstErr \in At(client, HasErred))'
    BY <1>1, <2>1 DEF Outcomes
  <2> QED
    BY <1>1, <1>3, <2>2, <2>3, <2>4 DEF Outcomes, Running, Ended
<1>5. CASE ok
  <2>1. At(client', HasErred) = At(client, HasErred)
    BY <1>1, <1>5, ClientMoves
  <2>2. (At(client, HasErred) # {} =>
           \/ firstErr # NoClient
           \/ \E k \in 1..Len(errChan) : ~errChan[k].ok)'
    BY <1>1, <1>2, <2>1 DEF Outcomes
  <2>3. \A k \in 1..Len(errChan') :
          ~errChan'[k].ok => errChan'[k].from \in At(client', HasErred)
    <3>1. TAKE k \in 1..Len(errChan')
    <3>2. CASE k = Len(errChan) + 1
      BY <1>2, <1>5, <3>2
    <3>3. CASE k \in 1..Len(errChan)
      BY <1>2, <2>1, <3>3 DEF Outcomes
    <3> QED
      BY <1>2, <3>2, <3>3
  <2>4. (firstErr # NoClient => firstErr \in At(client, HasErred))'
    BY <1>1, <2>1 DEF Outcomes
  <2> QED
    BY <1>1, <1>3, <2>2, <2>3, <2>4 DEF Outcomes, Running, Ended
<1> QED
  BY <1>4, <1>5

LEMMA WorkMove ==
  ASSUME IInv, NEW c \in Clients, NEW from, NEW to, Moves(c, from, to),
         to \in {"unborn", "born", "armed"} => from \in {"unborn", "born", "armed"},
         to \in {"flush", "sample"} \cup HasSampled =>
           from \in {"flush", "sample"} \cup HasSampled \/ sent[c] = Share[c],
         from \in HasSampled <=> to \in HasSampled,
         UNCHANGED <<samples, sent>>
  PROVE  Work'
<1> USE DEF IInv, TypeOK
<1>1. \A d \in Clients : client'[d] = IF d = c THEN to ELSE client[d]
  BY DEF Moves
<1>2. client[c] = from
  BY DEF Moves
<1>3. At(client', HasSampled) = At(client, HasSampled)
  BY ClientMoves
<1>4. (\A d \in At(client, {"unborn", "born", "armed"}) : sent[d] = 0)'
  BY <1>1, <1>2 DEF Work, At
<1>5. (\A d \in At(client, {"flush", "sample"} \cup HasSampled) : sent[d] = Share[d])'
  BY <1>1, <1>2 DEF Work, At, Share
<1> QED
  BY <1>3, <1>4, <1>5 DEF Work

-----------------------------------------------------------------------------
(***************************************************************************)
(* The main goroutine's steps.                                             *)
(***************************************************************************)

\* When main has taken as many outcomes as there are clients, every client
\* has reported and errChan is empty.
LEMMA AllReported ==
  ASSUME IInv, collected = N
  PROVE  /\ Len(errChan) = 0
         /\ At(client, HasReported) = Clients
<1>1. /\ Cardinality(At(client, HasReported)) \in Nat
      /\ Cardinality(At(client, HasReported)) <= N
      /\ Cardinality(At(client, HasReported)) = N => At(client, HasReported) = Clients
  BY AtFinite
<1>2. Len(errChan) \in Nat
  BY LenProperties DEF IInv, TypeOK, HarnessTypeOK
<1>3. Len(errChan) + N = Cardinality(At(client, HasReported))
  BY DEF IInv, Outcomes
<1> QED
  BY <1>1, <1>2, <1>3, ClientsFinite

LEMMA StartClientInv ==
  ASSUME IInv, StartClient, UNCHANGED sent
  PROVE  Phases' /\ WaitGroups' /\ Work' /\ Outcomes'
<1> DEFINE c == spawned + 1
<1>1. /\ c \in Clients
      /\ client \in [Clients -> ClientStates]
      /\ client[c] = "unborn"
      /\ client' = [client EXCEPT ![c] = "born"]
      /\ spawned \in Nat
  BY ClientsFinite
     DEF IInv, TypeOK, HarnessTypeOK, StartClient, Clients, Phases
<1>2. /\ main = "connect"
      /\ ~triggered
      /\ spawned' = spawned + 1
      /\ startwg' = startwg + 1
      /\ donewg' = donewg + 1
      /\ UNCHANGED <<main, triggered, errChan, samples, collected, firstErr, sent>>
  BY DEF IInv, StartClient, Phases
<1> HIDE DEF c
<1>3. \A d \in Clients : client'[d] = IF d = c THEN "born" ELSE client[d]
  BY <1>1
<1>4. Phases'
  <2>1. (\A d \in Clients : client[d] = "unborn" <=> d > spawned)'
    BY <1>1, <1>2, <1>3 DEF IInv, Phases, c, Clients
  <2>2. (At(client, {"unborn", "born", "armed"}) = Clients)'
    BY <1>1, <1>2, <1>3 DEF IInv, Phases, At
  <2> QED
    BY <1>2, <2>1, <2>2 DEF Phases
<1>5. /\ Cardinality(At(client', {"born"})) = Cardinality(At(client, {"born"})) + 1
      /\ Cardinality(At(client', OwesDone)) = Cardinality(At(client, OwesDone)) + 1
  <2>1. client[c] \notin {"born"} /\ "born" \in {"born"}
    BY <1>1
  <2>2. client[c] \notin OwesDone /\ "born" \in OwesDone
    BY <1>1 DEF OwesDone
  <2>3. Cardinality(At(client', {"born"})) = Cardinality(At(client, {"born"})) + 1
    BY <1>1, <2>1, ClientIsPlaced, Zenon
  <2>4. Cardinality(At(client', OwesDone)) = Cardinality(At(client, OwesDone)) + 1
    BY <1>1, <2>2, ClientIsPlaced, Zenon
  <2> QED
    BY <2>3, <2>4
<1>6. WaitGroups'
  BY <1>2, <1>5 DEF IInv, WaitGroups
<1>7. /\ At(client', HasReported) = At(client, HasReported)
      /\ At(client', HasErred) = At(client, HasErred)
      /\ At(client', HasSampled) = At(client, HasSampled)
      /\ At(client', {"flush", "sample"} \cup HasSampled)
           = At(client, {"flush", "sample"} \cup HasSampled)
      /\ At(client', {"unborn", "born", "armed"})
           = At(client, {"unborn", "born", "armed"})
  BY <1>1, <1>3 DEF At, HasReported, HasErred, HasSampled
<1>8. Work'
  BY <1>2, <1>7, Zenon DEF IInv, Work, Share
<1>9. Outcomes'
  BY <1>2, <1>7, Zenon DEF IInv, Outcomes
<1> QED
  BY <1>4, <1>6, <1>8, <1>9

\* The steps of main that leave the clients and errChan alone.
LEMMA MainInv ==
  ASSUME IInv, ConnectFails \/ ClientsStarted \/ ClientsDone \/ Finish,
         UNCHANGED sent
  PROVE  Phases' /\ WaitGroups' /\ Work' /\ Outcomes'
<1>1. UNCHANGED <<spawned, startwg, donewg, errChan, samples, collected,
                  firstErr, client, sent>>
  BY DEF ConnectFails, ClientsStarted, ClientsDone, Finish
<1>2. Work'
  BY <1>1, Zenon DEF IInv, Work, Share
<1>3. CASE ConnectFails
  <2>1. Phases'
    BY <1>1, <1>3 DEF IInv, Phases, ConnectFails
  <2>2. WaitGroups'
    BY <1>1, <1>3 DEF IInv, WaitGroups, ConnectFails
  <2>3. Outcomes'
    BY <1>1, <1>3 DEF IInv, Outcomes, ConnectFails
  <2> QED
    BY <1>2, <2>1, <2>2, <2>3
<1>4. CASE ClientsStarted
  <2>1. At(client, {"unborn", "born"}) = {}
    <3>1. At(client, {"born"}) = {}
      BY <1>4, AtFinite DEF IInv, WaitGroups, ClientsStarted
    <3>2. \A c \in Clients : client[c] # "unborn"
      BY <1>4, ClientsFinite DEF IInv, Phases, ClientsStarted, Clients
    <3> QED
      BY <3>1, <3>2 DEF At
  <2>2. Phases'
    BY <1>1, <1>4, <2>1 DEF IInv, Phases, ClientsStarted
  <2>3. WaitGroups'
    BY <1>1, <1>4 DEF IInv, WaitGroups, ClientsStarted
  <2>4. Outcomes'
    BY <1>1, <1>4 DEF IInv, Outcomes, ClientsStarted
  <2> QED
    BY <1>2, <2>2, <2>3, <2>4
<1>5. CASE ClientsDone
  <2>1. At(client, OwesDone) = {}
    BY <1>5, AtFinite DEF IInv, WaitGroups, ClientsDone
  <2>2. Phases'
    BY <1>1, <1>5 DEF IInv, Phases, ClientsDone
  <2>3. WaitGroups'
    BY <1>1, <1>5, <2>1 DEF IInv, WaitGroups, ClientsDone
  <2>4. Outcomes'
    BY <1>1, <1>5 DEF IInv, Outcomes, ClientsDone
  <2> QED
    BY <1>2, <2>2, <2>3, <2>4
<1>6. CASE Finish
  <2>1. main' \in {"results", "error"}
        /\ (main' = "results" <=> firstErr = NoClient)
        /\ main = "collect"
        /\ collected = N
        /\ UNCHANGED triggered
    BY <1>6 DEF Finish
  <2>2. Phases'
    BY <1>1, <2>1 DEF IInv, Phases
  <2>3. WaitGroups'
    BY <1>1, <2>1 DEF IInv, WaitGroups
  <2>4. Outcomes'
    BY <1>1, <2>1 DEF IInv, Outcomes
  <2> QED
    BY <1>2, <2>2, <2>3, <2>4
<1> QED
  BY <1>3, <1>4, <1>5, <1>6

LEMMA CollectInv ==
  ASSUME IInv, Collect, UNCHANGED sent
  PROVE  Phases' /\ WaitGroups' /\ Work' /\ Outcomes'
<1>1. /\ main = "collect"
      /\ UNCHANGED <<main, spawned, startwg, donewg, triggered, samples,
                     client, sent>>
      /\ errChan # <<>>
      /\ errChan' = Tail(errChan)
      /\ collected' = collected + 1
      /\ firstErr' = IF firstErr = NoClient /\ ~Head(errChan).ok
                     THEN Head(errChan).from ELSE firstErr
  BY DEF Collect
<1>2. Phases'
  BY <1>1, Zenon DEF IInv, Phases
<1>3. WaitGroups'
  BY <1>1, Zenon DEF IInv, WaitGroups
<1>4. Work'
  BY <1>1, Zenon DEF IInv, Work, Share
<1>5. /\ Len(errChan) \in Nat
      /\ Len(errChan) > 0
      /\ Len(errChan') = Len(errChan) - 1
      /\ \A k \in 1..Len(errChan') : errChan'[k] = errChan[k + 1]
      /\ Head(errChan) = errChan[1]
      /\ Head(errChan) \in Outcome
  BY <1>1, HeadTailProperties, LenProperties, EmptySeq
     DEF IInv, TypeOK, HarnessTypeOK
<1>6. (Len(errChan) + collected = Cardinality(At(client, HasReported)))'
  BY <1>1, <1>5, ClientsFinite DEF IInv, Outcomes, TypeOK, HarnessTypeOK
<1>7. firstErr' # NoClient => firstErr' \in At(client, HasErred)
  BY <1>1, <1>5 DEF IInv, Outcomes
<1>8. \A k \in 1..Len(errChan') :
        ~errChan'[k].ok => errChan'[k].from \in At(client, HasErred)
  BY <1>5 DEF IInv, Outcomes
<1>9. At(client, HasErred) # {} =>
        \/ firstErr' # NoClient
        \/ \E k \in 1..Len(errChan') : ~errChan'[k].ok
  <2> SUFFICES ASSUME At(client, HasErred) # {}, firstErr' = NoClient
               PROVE  \E k \in 1..Len(errChan') : ~errChan'[k].ok
    OBVIOUS
  <2>1. Head(errChan).from # NoClient
    BY <1>5, ClientsFinite DEF Outcome
  <2>2. firstErr = NoClient /\ errChan[1].ok
    BY <1>1, <1>5, <2>1
  <2>3. PICK k \in 1..Len(errChan) : ~errChan[k].ok
    BY <2>2 DEF IInv, Outcomes
  <2>4. k # 1
    BY <2>2, <2>3
  <2>5. k - 1 \in 1..Len(errChan') /\ errChan'[k - 1] = errChan[k]
    BY <1>5, <2>4
  <2> QED
    BY <2>3, <2>5
<1>10. Outcomes'
  BY <1>1, <1>6, <1>7, <1>8, <1>9 DEF Outcomes
<1> QED
  BY <1>2, <1>3, <1>4, <1>10

-----------------------------------------------------------------------------
(***************************************************************************)
(* The clients' steps.                                                     *)
(***************************************************************************)

\* Steps that touch nothing but the client's place and its own count.
LEMMA LocalInv ==
  ASSUME IInv, NEW c \in Clients,
         \/ Triggered(c) \/ Publish(c) \/ PublishFails(c)
         \/ Published(c) \/ Flush(c) \/ FlushFails(c)
  PROVE  Phases' /\ WaitGroups' /\ Work' /\ Outcomes'
<1> USE DEF OwesDone, HasReported, HasErred, HasSampled
<1>1. UNCHANGED <<main, spawned, startwg, donewg, triggered, errChan, samples,
                  collected, firstErr>>
  BY DEF Triggered, Publish, PublishFails, Published, Flush, FlushFails,
         LocalStep
<1>2. PICK from, to \in ClientStates :
        /\ Moves(c, from, to)
        /\ from \in {"armed", "publish", "flush"}
        /\ to \in {"publish", "flush", "sample", "broken"}
        /\ from = "armed" => triggered /\ to = "publish"
        /\ from = "flush" => to \in {"sample", "broken"}
        /\ from = "publish" => to \in {"publish", "flush", "broken"}
        /\ to = "flush" => sent[c] = Share[c]
        /\ from = "publish" /\ to = "publish"
             => sent' = [sent EXCEPT ![c] = @ + 1]
        /\ ~(from = "publish" /\ to = "publish") => UNCHANGED sent
  BY DEF Triggered, Publish, PublishFails, Published, Flush, FlushFails,
         LocalStep, ClientStates
<1>3. triggered
  BY <1>2 DEF IInv, Phases, At, Moves
<1>4. Phases'
  BY <1>1, <1>2, <1>3, PhasesMove
<1>5. WaitGroups'
  <2>1. from # "born" /\ to # "born" /\ from \in OwesDone /\ to \in OwesDone
    BY <1>2
  <2> QED
    BY <1>1, <1>2, <2>1, WaitGroupsMove
<1>6. Outcomes'
  BY <1>1, <1>2, OutcomesMove
<1>7. Work'
  <2>1. CASE from = "publish" /\ to = "publish"
    <3>1. client' = client
      BY <1>2, <2>1 DEF Moves, IInv, TypeOK
    <3>2. \A d \in Clients : d # c => sent'[d] = sent[d]
      BY <1>2, <2>1 DEF IInv, TypeOK
    <3>3. client[c] = "publish"
      BY <1>2, <2>1 DEF Moves
    <3> QED
      BY <1>1, <3>1, <3>2, <3>3 DEF IInv, Work, At, Share
  <2>2. CASE ~(from = "publish" /\ to = "publish")
    <3>1. /\ to \notin {"unborn", "born", "armed"}
          /\ to \in {"flush", "sample"} \cup HasSampled =>
               from \in {"flush", "sample"} \cup HasSampled \/ sent[c] = Share[c]
          /\ from \notin HasSampled /\ to \notin HasSampled
      BY <1>2
    <3> QED
      BY <1>1, <1>2, <2>2, <3>1, WorkMove
  <2> QED
    BY <2>1, <2>2
<1> QED
  BY <1>4, <1>5, <1>6, <1>7

LEMMA ReadyInv ==
  ASSUME IInv, NEW c \in Clients, Ready(c)
  PROVE  Phases' /\ WaitGroups' /\ Work' /\ Outcomes'
<1> USE DEF OwesDone, HasReported, HasErred, HasSampled
<1>1. /\ Moves(c, "born", "armed")
      /\ startwg' = startwg - 1
      /\ UNCHANGED <<main, spawned, donewg, triggered, errChan, samples,
                     collected, firstErr, sent>>
  BY DEF Ready, StartDone
<1>2. Phases'
  BY <1>1, PhasesMove
<1>3. WaitGroups'
  BY <1>1, WaitGroupsMove
<1>4. Outcomes'
  BY <1>1, OutcomesMove
<1>5. Work'
  BY <1>1, WorkMove
<1> QED
  BY <1>2, <1>3, <1>4, <1>5

LEMMA SendInv ==
  ASSUME IInv, NEW c \in Clients, SendError(c) \/ SendNil(c)
  PROVE  Phases' /\ WaitGroups' /\ Work' /\ Outcomes'
<1> USE DEF OwesDone, HasReported, HasErred, HasSampled
<1>1. PICK from, to \in ClientStates, ok \in BOOLEAN :
        /\ SendOutcome(c, from, to, ok)
        /\ \/ from = "broken" /\ to = "abandon" /\ ok = FALSE
           \/ from = "report" /\ to = "finished" /\ ok = TRUE
        /\ UNCHANGED sent
  BY DEF SendError, SendNil, ClientStates
<1>2. /\ Moves(c, from, to)
      /\ UNCHANGED <<main, spawned, startwg, donewg, triggered, samples,
                     collected, firstErr>>
  BY <1>1 DEF SendOutcome
<1>3. triggered
  BY <1>1, <1>2 DEF IInv, Phases, At, Moves
<1>4. Phases'
  BY <1>1, <1>2, <1>3, PhasesMove
<1>5. WaitGroups'
  <2>1. from # "born" /\ to # "born" /\ (from \in OwesDone <=> to \in OwesDone)
    BY <1>1
  <2> QED
    BY <1>2, <2>1, WaitGroupsMove
<1>6. Outcomes'
  <2>1. /\ from \notin HasReported /\ to \in HasReported
        /\ from \notin HasErred /\ (to \in HasErred <=> ~ok)
    BY <1>1
  <2> QED
    BY <1>1, <2>1, OutcomesSend
<1>7. Work'
  <2>1. /\ to \notin {"unborn", "born", "armed"}
        /\ to \in {"flush", "sample"} \cup HasSampled =>
             from \in {"flush", "sample"} \cup HasSampled
        /\ (from \in HasSampled <=> to \in HasSampled)
    BY <1>1
  <2> QED
    BY <1>1, <1>2, <2>1, WorkMove
<1> QED
  BY <1>4, <1>5, <1>6, <1>7

\* A client that releases donewg has not done so before: the counter is
\* positive and main does not panic.
LEMMA DoneInv ==
  ASSUME IInv, NEW c \in Clients, GiveUp(c) \/ ReportDone(c)
  PROVE  Phases' /\ WaitGroups' /\ Work' /\ Outcomes' /\ UNCHANGED main
<1> USE DEF OwesDone, HasReported, HasErred, HasSampled
<1>1. PICK from, to \in ClientStates :
        /\ DoneDone(c, from, to)
        /\ \/ from = "abandon" /\ to = "failed"
           \/ from = "done" /\ to = "report"
        /\ UNCHANGED sent
  BY DEF GiveUp, ReportDone, ClientStates
<1>2. /\ Moves(c, from, to)
      /\ donewg' = donewg - 1
      /\ main' = IF donewg = 0 THEN "panic" ELSE main
      /\ UNCHANGED <<spawned, startwg, triggered, errChan, samples,
                     collected, firstErr>>
  BY <1>1 DEF DoneDone
<1>3. donewg # 0
  <2>1. c \in At(client, OwesDone)
    BY <1>1, <1>2 DEF At, Moves
  <2> QED
    BY <2>1, AtFinite DEF IInv, WaitGroups
<1>4. main' = main
  BY <1>2, <1>3
<1>5. triggered
  BY <1>1, <1>2 DEF IInv, Phases, At, Moves
<1>6. Phases'
  BY <1>1, <1>2, <1>4, <1>5, PhasesMove
<1>7. WaitGroups'
  <2>1. from # "born" /\ to # "born" /\ from \in OwesDone /\ to \notin OwesDone
    BY <1>1
  <2> QED
    BY <1>2, <1>4, <2>1, WaitGroupsMove
<1>8. Outcomes'
  <2>1. /\ (from \in HasReported <=> to \in HasReported)
        /\ (from \in HasErred <=> to \in HasErred)
    BY <1>1
  <2> QED
    BY <1>2, <1>4, <2>1, OutcomesMove
<1>9. Work'
  <2>1. /\ to \notin {"unborn", "born", "armed"}
        /\ to \in {"flush", "sample"} \cup HasSampled =>
             from \in {"flush", "sample"} \cup HasSampled
        /\ (from \in HasSampled <=> to \in HasSampled)
    BY <1>1
  <2> QED
    BY <1>1, <1>2, <2>1, WorkMove
<1> QED
  BY <1>4, <1>6, <1>7, <1>8, <1>9

LEMMA HandInSampleInv ==
  ASSUME IInv, NEW c \in Clients, HandInSample(c)
  PROVE  Phases' /\ WaitGroups' /\ Work' /\ Outcomes'
<1>1. /\ Moves(c, "sample", "done")
      /\ samples' = samples \cup {c}
      /\ UNCHANGED <<main, spawned, startwg, donewg, triggered, errChan,
                     collected, firstErr, sent>>
  BY DEF HandInSample, AddSample
<1>2. triggered
  BY <1>1 DEF IInv, Phases, At, Moves
<1>3. Phases'
  BY <1>1, <1>2, PhasesMove
<1>4. WaitGroups'
  BY <1>1, WaitGroupsMove DEF OwesDone
<1>5. Outcomes'
  BY <1>1, OutcomesMove DEF HasReported, HasErred
<1>6. Work'
  <2>1. \A d \in Clients : client'[d] = IF d = c THEN "done" ELSE client[d]
    BY <1>1 DEF Moves, IInv, TypeOK
  <2>2. client[c] = "sample"
    BY <1>1 DEF Moves
  <2>3. samples' = At(client', HasSampled)
    BY <1>1, <2>1, <2>2 DEF IInv, Work, At, HasSampled
  <2> QED
    BY <1>1, <2>1, <2>2, <2>3 DEF IInv, Work, At, HasSampled, Share
<1> QED
  BY <1>3, <1>4, <1>5, <1>6

-----------------------------------------------------------------------------
(***************************************************************************)
(* The inductive invariant and what follows from it.                       *)
(***************************************************************************)

LEMMA InitInv == Init => IInv
<1> SUFFICES ASSUME Init PROVE IInv
  OBVIOUS
<1>1. TypeOK
  BY TypeInit
<1>2. /\ \A c \in Clients : client[c] = "unborn"
      /\ errChan = <<>>
      /\ main = "connect" /\ spawned = 0 /\ startwg = 0 /\ donewg = 0
      /\ samples = {} /\ collected = 0 /\ firstErr = NoClient
      /\ \A c \in Clients : sent[c] = 0
  BY DEF Init, HarnessInit
<1>3. ~triggered
  BY Zenon DEF Init, HarnessInit
<1>4. /\ At(client, {"born"}) = {}
      /\ At(client, OwesDone) = {}
      /\ At(client, HasReported) = {}
      /\ At(client, HasErred) = {}
      /\ At(client, HasSampled) = {}
      /\ At(client, {"flush", "sample"} \cup HasSampled) = {}
      /\ At(client, {"unborn", "born", "armed"}) = Clients
  BY <1>2 DEF At, OwesDone, HasReported, HasErred, HasSampled
<1>5. Phases
  <2>1. \A c \in Clients : client[c] = "unborn" <=> c > spawned
    BY <1>2, ClientsFinite DEF Clients
  <2> QED
    BY <1>2, <1>3, <1>4, <2>1 DEF Phases
<1>6. WaitGroups
  <2>1. Cardinality({}) = 0
    BY FS_EmptySet
  <2> QED
    BY <1>2, <1>4, <2>1 DEF WaitGroups
<1>7. Work
  BY <1>2, <1>4 DEF Work
<1>8. Outcomes
  <2>1. Cardinality({}) = 0 /\ Len(errChan) = 0
    BY <1>2, FS_EmptySet
  <2> QED
    BY <1>2, <1>4, <2>1 DEF Outcomes
<1> QED
  BY <1>1, <1>5, <1>6, <1>7, <1>8 DEF IInv

LEMMA NextInv == IInv /\ [Next]_vars => IInv'
<1> SUFFICES ASSUME IInv, [Next]_vars PROVE IInv'
  OBVIOUS
<1>1. TypeOK'
  BY TypeNext DEF IInv
<1>2. CASE Main
  <2>1. Phases' /\ WaitGroups' /\ Work' /\ Outcomes'
    BY <1>2, StartClientInv, CollectInv, MainInv, Zenon DEF Main, MainNext
  <2> QED
    BY <1>1, <2>1 DEF IInv
<1>3. CASE \E c \in Clients : ClientNext(c)
  <2>1. PICK c \in Clients : ClientNext(c)
    BY <1>3
  <2>2. Phases' /\ WaitGroups' /\ Work' /\ Outcomes'
    BY <2>1, LocalInv, ReadyInv, SendInv, DoneInv, HandInSampleInv, Zenon
       DEF ClientNext
  <2> QED
    BY <1>1, <2>2 DEF IInv
<1>4. CASE UNCHANGED vars
  <2>1. Phases'
    BY <1>4, Zenon DEF vars, IInv, Phases
  <2>2. WaitGroups'
    BY <1>4, Zenon DEF vars, IInv, WaitGroups
  <2>3. Work'
    BY <1>4, Zenon DEF vars, IInv, Work, Share
  <2>4. Outcomes'
    BY <1>4, Zenon DEF vars, IInv, Outcomes
  <2> QED
    BY <1>1, <2>1, <2>2, <2>3, <2>4 DEF IInv
<1> QED
  BY <1>2, <1>3, <1>4 DEF Next

\* The wait groups, the channels and the clients' places always agree.
THEOREM Invariance == Spec => []IInv
BY InitInv, NextInv, PTL DEF Spec

\* Whatever the number of clients, a client that reports an outcome or hands
\* in its sample finds room in the channel, and no wait group is released
\* more often than it was raised.
THEOREM NeverBlocks == Spec => []ReportingNeverBlocks
<1>1. IInv => ReportingNeverBlocks
  <2> SUFFICES ASSUME IInv PROVE ReportingNeverBlocks
    OBVIOUS
  <2>1. main # "panic"
    BY DEF IInv, Phases
  <2>2. ASSUME NEW c \in Clients, Sending(c) PROVE Len(errChan) < N
    <3>1. Cardinality(At(client, HasReported)) < N
      <4>1. At(client, HasReported) # Clients
        BY <2>2 DEF At, HasReported, Sending
      <4> QED
        BY <4>1, AtFinite, ClientsFinite
    <3>2. collected \in Nat /\ Len(errChan) \in Nat
      BY LenProperties, ClientsFinite DEF IInv, TypeOK, HarnessTypeOK
    <3> QED
      BY <3>1, <3>2, AtFinite, ClientsFinite DEF IInv, Outcomes
  <2>3. ASSUME NEW c \in Clients, client[c] = "sample"
        PROVE  Cardinality(samples) < N
    <3>1. At(client, HasSampled) # Clients
      BY <2>3 DEF At, HasSampled
    <3> QED
      BY <3>1, AtFinite, ClientsFinite DEF IInv, Work
  <2> QED
    BY <2>1, <2>2, <2>3 DEF ReportingNeverBlocks
<1> QED
  BY <1>1, Invariance, PTL

\* No client publishes before all of them are connected and running, and a
\* run that could not connect has published nothing.
THEOREM BarrierHolds == Spec => []TriggerBarrier
<1>1. IInv => TriggerBarrier
  <2> SUFFICES ASSUME IInv, NEW c \in Clients, sent[c] > 0
               PROVE  /\ \A d \in Clients : client[d] \notin {"unborn", "born"}
                      /\ main # "noconn"
    BY DEF TriggerBarrier
  <2>1. c \notin At(client, {"unborn", "born", "armed"})
    BY DEF IInv, Work
  <2>2. triggered
    BY <2>1 DEF IInv, Phases
  <2>3. main \notin {"connect", "noconn"} /\ main # "panic"
    BY <2>2 DEF IInv, Phases
  <2>4. main \in {"waitDone", "collect", "results", "error"}
    BY <2>3 DEF IInv, TypeOK, HarnessTypeOK, MainStates, Ended
  <2> QED
    BY <2>3, <2>4 DEF IInv, Phases, At
<1> QED
  BY <1>1, Invariance, PTL

ResultsComplete ==
  main = "results" =>
    /\ samples = Clients
    /\ \A c \in Clients : client[c] = "finished" /\ sent[c] = Share[c]

\* When the statistics are printed every client has published its whole
\* share and handed in its sample: no failure has been dropped on the way
\* from the clients through errChan to err2.
THEOREM ResultsAreComplete == Spec => []ResultsComplete
<1>1. IInv => ResultsComplete
  <2> SUFFICES ASSUME IInv, main = "results"
               PROVE  /\ samples = Clients
                      /\ \A c \in Clients : client[c] = "finished" /\ sent[c] = Share[c]
    BY DEF ResultsComplete
  <2>1. At(client, HasReported) = Clients /\ Len(errChan) = 0
    BY AllReported DEF IInv, Outcomes
  <2>2. At(client, HasErred) = {}
    BY <2>1 DEF IInv, Outcomes
  <2>3. \A c \in Clients : client[c] = "finished"
    BY <2>1, <2>2 DEF At, HasReported, HasErred
  <2> QED
    BY <2>3 DEF IInv, Work, At, HasSampled
<1> QED
  BY <1>1, Invariance, PTL

\* An action that lowers its clients to its messages gives every client at
\* least one message: the numMsg == 0 branch of runCorePublisher is dead.
THEOREM EveryClientPublishes ==
  Clamp => \A c \in Clients : Share[c] >= 1
<1> SUFFICES ASSUME Clamp, NEW c \in Clients PROVE Share[c] >= 1
  OBVIOUS
<1>1. N \in Nat \ {0} /\ NumMsg \in Nat /\ NumMsg >= N
  BY SizesAssumption, ClientsFinite DEF N
<1>2. /\ NumMsg \div N \in Int /\ NumMsg % N \in 0..(N - 1)
      /\ NumMsg = N * (NumMsg \div N) + (NumMsg % N)
  BY <1>1
<1>3. NumMsg \div N >= 1
  BY <1>1, <1>2
<1> QED
  BY <1>3, <1>2 DEF Share, MsgsPerClient, Clients

-----------------------------------------------------------------------------
(***************************************************************************)
(* The numbers of the messages: a client stays within its share, and the   *)
(* shares lie one after the other.                                         *)
(***************************************************************************)

SharesKept == \A c \in Clients : sent[c] \in 0..Share[c]

\* Where client c starts to number its messages.
First(c) == FirstOf(NumMsg \div N, NumMsg % N, c)

LEMMA SharesInOrder ==
  /\ First(1) = 0 /\ First(N + 1) = NumMsg
  /\ \A c \in 1..(N + 1) : First(c) \in Nat
  /\ \A c \in Clients : /\ Share[c] \in Nat
                        /\ Offset(Share, c) = First(c)
                        /\ First(c + 1) = First(c) + Share[c]
  /\ \A c, d \in Clients : c < d => First(c + 1) <= First(d)
BY SizesAssumption, ClientsFinite, SharesFitOffsets DEF Share, First, Clients

LEMMA SharesKeptAlways == Spec => []SharesKept
<1>1. Init => SharesKept
  BY SharesInOrder DEF Init, SharesKept
<1>2. TypeOK /\ SharesKept /\ [Next]_vars => SharesKept'
  <2> SUFFICES ASSUME TypeOK, SharesKept, [Next]_vars PROVE SharesKept'
    OBVIOUS
  <2>1. ASSUME NEW c \in Clients, Publish(c) PROVE SharesKept'
    <3>1. /\ sent[c] < Share[c]
          /\ sent' = [sent EXCEPT ![c] = @ + 1]
      BY <2>1 DEF Publish
    <3>2. sent \in [Clients -> Nat]
      BY DEF TypeOK
    <3> HIDE DEF Share
    <3> QED
      BY <3>1, <3>2, SharesInOrder DEF SharesKept
  <2>2. CASE UNCHANGED sent
    BY <2>2 DEF SharesKept, Share
  <2> QED
    BY <2>1, <2>2, Zenon
    DEF Next, Main, ClientNext, Ready, Triggered, PublishFails, Published,
        Flush, FlushFails, SendError, GiveUp, HandInSample, ReportDone,
        SendNil, vars
<1> QED
  BY <1>1, <1>2, TypeCorrect, PTL DEF Spec

\* Some client's share covers each message.
LEMMA SharesCover ==
  ASSUME NEW m \in 0..(NumMsg - 1)
  PROVE  \E c \in Clients : First(c) <= m /\ m < First(c + 1)
<1> DEFINE T == {c \in Clients : m < First(c + 1)}
<1>1. N \in Nat \ {0} /\ NumMsg \in Nat
  BY SizesAssumption, ClientsFinite
<1>2. N \in T
  BY <1>1, SharesInOrder DEF Clients
<1>3. T \subseteq Nat
  BY <1>1 DEF Clients
<1>4. PICK c \in T : \A d \in T : c <= d
  <2> HIDE DEF T
  <2> QED
    BY <1>2, <1>3, LeastNumber
<1>5. ASSUME c # 1 PROVE First(c) <= m
  <2>1. c - 1 \in Clients /\ c - 1 \notin T /\ (c - 1) + 1 = c
    BY <1>1, <1>4, <1>5 DEF Clients
  <2>2. ~(m < First(c)) /\ c \in 1..(N + 1)
    BY <1>1, <2>1 DEF Clients
  <2>3. First(c) \in Nat /\ m \in Nat
    BY <2>2, SharesInOrder
  <2> QED
    BY <2>2, <2>3
<1>6. ASSUME c = 1 PROVE First(c) <= m
  BY <1>6, SharesInOrder
<1> QED
  BY <1>4, <1>5, <1>6

\* For every number of clients and messages no two clients give a message the
\* same number, and a run that prints its statistics has used each number.
THEOREM NumbersAreUnique == Spec => []EveryMessageOnce
<1>1. TypeOK /\ SharesKept /\ ResultsComplete => EveryMessageOnce
  <2> SUFFICES ASSUME TypeOK, SharesKept, ResultsComplete
               PROVE  EveryMessageOnce
    OBVIOUS
  <2>1. /\ N \in Nat \ {0} /\ NumMsg \in Nat
        /\ \A c \in Clients : c \in Nat /\ c \in 1..(N + 1) /\ c + 1 \in 1..(N + 1)
    BY SizesAssumption, ClientsFinite DEF Clients
  <2>2. /\ First(1) = 0 /\ First(N + 1) = NumMsg
        /\ \A c \in Clients :
             /\ First(c) \in Nat /\ First(c + 1) \in Nat
             /\ Share[c] \in Nat
             /\ First(c + 1) = First(c) + Share[c]
        /\ \A c, d \in Clients : c < d => First(c + 1) <= First(d)
    BY <2>1, SharesInOrder
  <2>3. \A c \in Clients :
          PublishedBy(c) = {First(c) + k : k \in 0..(sent[c] - 1)}
    BY SharesInOrder DEF PublishedBy
  <2> HIDE DEF Share
  <2>4. ASSUME NEW c \in Clients, NEW d \in Clients, c # d
        PROVE  PublishedBy(c) \cap PublishedBy(d) = {}
    <3>1. SUFFICES ASSUME NEW x \in PublishedBy(c), x \in PublishedBy(d)
                   PROVE  FALSE
      OBVIOUS
    <3>2. PICK j \in 0..(sent[c] - 1) : x = First(c) + j
      BY <2>3, <3>1
    <3>3. PICK k \in 0..(sent[d] - 1) : x = First(d) + k
      BY <2>3, <3>1
    <3>4. sent[c] <= Share[c] /\ sent[d] <= Share[d]
      BY <2>2 DEF SharesKept
    <3>5. sent[c] \in Nat /\ sent[d] \in Nat
      BY DEF TypeOK
    <3>6. /\ First(c) <= x /\ x < First(c + 1)
          /\ First(d) <= x /\ x < First(d + 1)
      BY <2>2, <3>2, <3>3, <3>4, <3>5
    <3>7. c < d \/ d < c
      BY <2>1, <2>4
    <3>8. First(c + 1) <= First(d) \/ First(d + 1) <= First(c)
      BY <2>2, <3>7
    <3> QED
      BY <2>2, <3>2, <3>5, <3>6, <3>8
  <2>5. ASSUME NEW c \in Clients, NEW x \in PublishedBy(c)
        PROVE  x \in 0..(NumMsg - 1)
    <3>1. PICK j \in 0..(sent[c] - 1) : x = First(c) + j
      BY <2>3, <2>5
    <3>2. sent[c] <= Share[c] /\ sent[c] \in Nat
      BY <2>2 DEF SharesKept, TypeOK
    <3>3. x \in Nat /\ x < First(c + 1)
      BY <2>2, <3>1, <3>2
    <3>4. First(c + 1) <= NumMsg
      <4>1. CASE c = N
        BY <2>2, <4>1
      <4>2. CASE c # N
        <5>1. N \in Clients /\ c < N
          BY <2>1, <4>2 DEF Clients
        <5>2. First(c + 1) <= First(N) /\ First(N) <= First(N + 1)
          BY <2>2, <5>1
        <5>3. First(N) \in Nat /\ First(c + 1) \in Nat
          BY <2>2, <5>1
        <5>4. First(N + 1) = NumMsg
          BY <2>2
        <5> HIDE DEF First
        <5> QED
          BY <2>1, <5>2, <5>3, <5>4
      <4> QED
        BY <4>1, <4>2
    <3> QED
      BY <2>1, <2>2, <3>3, <3>4
  <2>6. ASSUME main = "results", NEW x \in 0..(NumMsg - 1)
        PROVE  \E c \in Clients : x \in PublishedBy(c)
    <3>1. PICK c \in Clients : First(c) <= x /\ x < First(c + 1)
      BY SharesCover
    <3>2. sent[c] = Share[c]
      BY <2>6 DEF ResultsComplete
    <3>3. x - First(c) \in 0..(sent[c] - 1) /\ x = First(c) + (x - First(c))
      BY <2>1, <2>2, <3>1, <3>2
    <3>4. x \in PublishedBy(c)
      BY <2>3, <3>3
    <3> QED
      BY <3>4
  <2> QED
    BY <2>4, <2>5, <2>6 DEF EveryMessageOnce
<1> QED
  BY <1>1, TypeCorrect, SharesKeptAlways, ResultsAreComplete, PTL

-----------------------------------------------------------------------------
(***************************************************************************)
(* BenchPublish implements BenchRun.                                       *)
(***************************************************************************)

HasFailed == {"broken", "abandon", "failed"}

\* A step that moves one client, for BenchRun: unless the client joins or
\* leaves the failed ones, it is a stutter.
LEMMA QuietMove ==
  ASSUME IInv, NEW c \in Clients, NEW from, NEW to, Moves(c, from, to),
         from \in HasFailed <=> to \in HasFailed,
         UNCHANGED <<main, samples>>
  PROVE  UNCHANGED Run!vars
<1>1. At(client', HasFailed) = At(client, HasFailed)
  BY ClientStays DEF IInv, TypeOK
<1> QED
  BY <1>1 DEF Run!vars, At, HasFailed, Running

LEMMA FailureStep ==
  ASSUME IInv, NEW c \in Clients, PublishFails(c) \/ FlushFails(c)
  PROVE  Run!Fail(c)
<1>1. PICK from \in {"publish", "flush"} :
        /\ Moves(c, from, "broken")
        /\ UNCHANGED <<main, samples>>
  BY DEF PublishFails, FlushFails, LocalStep
<1>2. /\ At(client', HasFailed) = At(client, HasFailed) \cup {c}
      /\ c \notin At(client, HasFailed)
  <2>1. client \in [Clients -> ClientStates]
    BY DEF IInv, TypeOK
  <2>2. from \notin HasFailed /\ "broken" \in HasFailed
    BY <1>1 DEF HasFailed
  <2>3. At(client', HasFailed) = At(client, HasFailed) \cup {c}
    BY <1>1, <2>1, <2>2, ClientEnters
  <2>4. c \notin At(client, HasFailed)
    BY <1>1, <2>2 DEF At, Moves
  <2> QED
    BY <2>3, <2>4
<1>3. c \notin samples
  BY <1>1 DEF IInv, Work, At, HasSampled, Moves
<1>4. Running
  BY <1>1 DEF Moves
<1> QED
  BY <1>1, <1>2, <1>3, <1>4
     DEF Run!Fail, Run!AtWork, At, HasFailed, Running

LEMMA SampleStep ==
  ASSUME IInv, NEW c \in Clients, HandInSample(c)
  PROVE  Run!Finish(c)
<1>1. /\ Moves(c, "sample", "done")
      /\ samples' = samples \cup {c}
      /\ UNCHANGED main
  BY DEF HandInSample, AddSample
<1>2. At(client', HasFailed) = At(client, HasFailed)
  <2>1. "sample" \notin HasFailed /\ "done" \notin HasFailed
    BY DEF HasFailed
  <2> QED
    BY <1>1, <2>1, ClientStays DEF IInv, TypeOK
<1>3. c \notin samples /\ c \notin At(client, HasFailed)
  BY <1>1 DEF IInv, Work, At, HasSampled, HasFailed, Moves
<1>4. Running
  BY <1>1 DEF Moves
<1> QED
  BY <1>1, <1>2, <1>3, <1>4
     DEF Run!Finish, Run!AtWork, At, HasFailed, Running

\* Main reports the statistics when every client has finished and returns an
\* error when one has failed.
LEMMA FinishStep ==
  ASSUME IInv, Finish, UNCHANGED sent
  PROVE  Run!Report \/ Run!ReturnError
<1> DEFINE failed == {c \in Clients : client[c] \in {"broken", "abandon", "failed"}}
<1>1. /\ main = "collect" /\ collected = N
      /\ main' = IF firstErr = NoClient THEN "results" ELSE "error"
      /\ UNCHANGED <<samples, client>>
  BY DEF Finish
<1>2. At(client, HasReported) = Clients /\ Len(errChan) = 0
  BY <1>1, AllReported
<1>3. \A c \in Clients : client[c] \in {"abandon", "failed", "finished"}
  BY <1>2 DEF At, HasReported
<1>4. At(client, OwesDone) = {}
  BY <1>1 DEF IInv, WaitGroups
<1>5. samples \cup failed = Clients
  BY <1>3 DEF IInv, Work, At, HasSampled
<1>6. firstErr = NoClient <=> failed = {}
  <2>1. At(client, HasErred) = failed
    BY <1>3 DEF At, HasErred
  <2> QED
    BY <1>2, <2>1 DEF IInv, Outcomes
<1>7. CASE firstErr = NoClient
  BY <1>1, <1>5, <1>6, <1>7 DEF Run!Report, Running, Ended
<1>8. CASE firstErr # NoClient
  BY <1>1, <1>5, <1>6, <1>8 DEF Run!ReturnError, Running, Ended
<1> QED
  BY <1>7, <1>8

LEMMA ConnectFailsStep ==
  ASSUME IInv, ConnectFails
  PROVE  Run!ConnectFails
<1>1. /\ main = "connect" /\ main' = "noconn" /\ spawned < N
      /\ UNCHANGED <<samples, client>>
  BY DEF ConnectFails
<1>2. spawned + 1 \in Clients /\ client[spawned + 1] = "unborn"
  BY <1>1, ClientsFinite DEF IInv, Phases, TypeOK, HarnessTypeOK, Clients
<1>3. /\ spawned + 1 \notin samples
      /\ spawned + 1 \notin {c \in Clients : client[c] \in {"broken", "abandon", "failed"}}
  BY <1>2 DEF IInv, Work, At, HasSampled
<1> QED
  BY <1>1, <1>2, <1>3 DEF Run!ConnectFails, Running, Ended

LEMMA RunStep == IInv /\ [Next]_vars => [Run!Next]_(Run!vars)
<1> SUFFICES ASSUME IInv, [Next]_vars PROVE Run!Next \/ UNCHANGED Run!vars
  OBVIOUS
<1>1. CASE Main
  <2>1. CASE StartClient
    <3>1. spawned + 1 \in Clients /\ client[spawned + 1] = "unborn"
          /\ client' = [client EXCEPT ![spawned + 1] = "born"]
          /\ UNCHANGED <<main, samples>>
      BY <2>1, ClientsFinite
         DEF StartClient, IInv, Phases, TypeOK, HarnessTypeOK, Clients
    <3>2. \A c \in Clients : client'[c] \in HasFailed <=> client[c] \in HasFailed
      BY <3>1 DEF HasFailed, IInv, TypeOK
    <3> QED
      BY <3>1, <3>2 DEF Run!vars, HasFailed, Running
  <2>2. CASE ConnectFails
    BY <2>2, ConnectFailsStep DEF Run!Next
  <2>3. CASE ClientsStarted \/ ClientsDone \/ Collect
    <3>1. Running /\ Running' /\ UNCHANGED <<samples, client>>
      BY <2>3 DEF ClientsStarted, ClientsDone, Collect, Running, Ended
    <3> QED
      BY <3>1 DEF Run!vars
  <2>4. CASE Finish
    BY <1>1, <2>4, FinishStep DEF Main, Run!Next
  <2> QED
    BY <1>1, <2>1, <2>2, <2>3, <2>4 DEF Main, MainNext
<1>2. CASE \E c \in Clients : ClientNext(c)
  <2>1. PICK c \in Clients : ClientNext(c)
    BY <1>2
  <2>2. CASE PublishFails(c) \/ FlushFails(c)
    BY <2>2, FailureStep DEF Run!Next
  <2>3. CASE HandInSample(c)
    BY <2>3, SampleStep DEF Run!Next
  <2>4. CASE GiveUp(c) \/ ReportDone(c)
    <3>1. UNCHANGED main
      BY <2>4, DoneInv
    <3>2. PICK from, to \in ClientStates :
            /\ Moves(c, from, to)
            /\ from \in HasFailed <=> to \in HasFailed
            /\ UNCHANGED samples
      BY <2>4 DEF GiveUp, ReportDone, DoneDone, HasFailed, ClientStates
    <3> QED
      BY <3>1, <3>2, QuietMove
  <2>5. CASE \/ Ready(c) \/ Triggered(c) \/ Publish(c) \/ Published(c)
             \/ Flush(c) \/ SendError(c) \/ SendNil(c)
    <3>1. PICK from, to \in ClientStates :
            /\ Moves(c, from, to)
            /\ from \in HasFailed <=> to \in HasFailed
            /\ UNCHANGED <<main, samples>>
      BY <2>5 DEF Ready, Triggered, Publish, Published, Flush, SendError,
                  SendNil, StartDone, LocalStep, SendOutcome, HasFailed,
                  ClientStates
    <3> QED
      BY <3>1, QuietMove
  <2> QED
    BY <2>1, <2>2, <2>3, <2>4, <2>5 DEF ClientNext
<1>3. CASE UNCHANGED vars
  BY <1>3 DEF vars, Run!vars, Running
<1> QED
  BY <1>1, <1>2, <1>3 DEF Next

\* A publishing benchmark keeps the promise of BenchRun: it reports
\* statistics only when every client has handed in its sample and none has
\* failed, and an error otherwise, for every number of clients and messages.
THEOREM RunIsImplemented == Spec => ImplementsRun
<1>1. Init => Run!Init
  BY DEF Init, HarnessInit, Run!Init, Running, Ended
<1>2. IInv /\ [Next]_vars => [Run!Next]_(Run!vars)
  BY RunStep
<1> QED
  BY <1>1, <1>2, Invariance, PTL DEF Spec, ImplementsRun, Run!Spec
=============================================================================
