------------------------- MODULE BenchConsumeProofs -------------------------
(***************************************************************************)
(* What holds of the receiving benchmarks for every number of clients and  *)
(* messages.                                                               *)
(*                                                                         *)
(* Each client is followed on its own: the time stamps it has emitted,      *)
(* those taken together with those still in its channel, are the start of  *)
(* the measurement and then its last message, because the handler that     *)
(* emits them counts the messages one by one.  What the clients report is  *)
(* counted, and in the order of errChan the error of an acknowledgement     *)
(* comes ahead of the outcome of its client, so that main does not take an  *)
(* outcome of every client without it.                                     *)
(***************************************************************************)
EXTENDS BenchConsume, NumberProofs, SequenceTheorems

\* The clients whose program counter is in S.
At(f, S) == {c \in Clients : f[c] \in S}

(***************************************************************************)
(* Facts about the clients and their program counters.                     *)
(***************************************************************************)

LEMMA ClientsFinite ==
  /\ N \in Nat \ {0}
  /\ IsFiniteSet(Clients)
  /\ Cardinality(Clients) = N
  /\ NoClient \notin Clients
<1>1. N \in Nat \ {0}
  BY SizesAssumption DEF N
<1>2. /\ IsFiniteSet(1..N)
      /\ Cardinality(1..N) = N
  BY <1>1, FS_Interval
<1> QED
  BY <1>1, <1>2 DEF Clients, NoClient

\* The clients at some place form a finite set no larger than Clients.
LEMMA AtFinite ==
  ASSUME NEW f, NEW S
  PROVE  /\ At(f, S) \in SUBSET Clients
         /\ IsFiniteSet(At(f, S))
         /\ Cardinality(At(f, S)) \in Nat
         /\ Cardinality(At(f, S)) <= N
         /\ Cardinality(At(f, S)) = N => At(f, S) = Clients
         /\ Cardinality(At(f, S)) = 0 <=> At(f, S) = {}
<1>1. At(f, S) \in SUBSET Clients
  BY DEF At
<1>2. IsFiniteSet(At(f, S))
  BY <1>1, ClientsFinite, FS_Subset
<1> QED
  BY <1>1, <1>2, ClientsFinite, FS_Subset, FS_CardinalityType, FS_EmptySet

\* A client that moves leaves the places it was at and enters the others.
LEMMA AtMoves ==
  ASSUME NEW X, NEW f \in [Clients -> X], NEW c \in Clients, NEW to, NEW S,
         NEW g, g = [f EXCEPT ![c] = to]
  PROVE  /\ f[c] \in S /\ to \in S => At(g, S) = At(f, S)
         /\ f[c] \notin S /\ to \notin S => At(g, S) = At(f, S)
         /\ f[c] \in S /\ to \notin S =>
              /\ At(g, S) = At(f, S) \ {c}
              /\ Cardinality(At(g, S)) = Cardinality(At(f, S)) - 1
              /\ Cardinality(At(f, S)) > 0
         /\ f[c] \notin S /\ to \in S =>
              /\ At(g, S) = At(f, S) \cup {c}
              /\ Cardinality(At(g, S)) = Cardinality(At(f, S)) + 1
              /\ Cardinality(At(f, S)) < N
<1>1. \A d \in Clients : g[d] = IF d = c THEN to ELSE f[d]
  OBVIOUS
<1>2. ASSUME f[c] \in S, to \notin S
      PROVE  /\ At(g, S) = At(f, S) \ {c}
             /\ Cardinality(At(g, S)) = Cardinality(At(f, S)) - 1
             /\ Cardinality(At(f, S)) > 0
  <2>1. At(g, S) = At(f, S) \ {c} /\ c \in At(f, S)
    BY <1>1, <1>2 DEF At
  <2>2. IsFiniteSet(At(f, S)) /\ Cardinality(At(f, S)) \in Nat
    BY AtFinite
  <2>3. Cardinality(At(f, S)) # 0
    BY <2>1, AtFinite
  <2>4. Cardinality(At(f, S) \ {c}) = Cardinality(At(f, S)) - 1
    BY <2>1, <2>2, FS_RemoveElement
  <2>5. Cardinality(At(g, S)) = Cardinality(At(f, S)) - 1
    BY <2>1, <2>4, Zenon
  <2>6. Cardinality(At(f, S)) > 0
    BY <2>2, <2>3
  <2> QED
    BY <2>1, <2>5, <2>6
<1>3. ASSUME f[c] \notin S, to \in S
      PROVE  /\ At(g, S) = At(f, S) \cup {c}
             /\ Cardinality(At(g, S)) = Cardinality(At(f, S)) + 1
             /\ Cardinality(At(f, S)) < N
  <2>1. At(g, S) = At(f, S) \cup {c} /\ c \notin At(f, S)
    BY <1>1, <1>3 DEF At
  <2>2. Cardinality(At(g, S)) = Cardinality(At(f, S)) + 1
    BY <2>1, AtFinite, FS_AddElement
  <2>3. At(f, S) # Clients
    BY <2>1
  <2>4. Cardinality(At(f, S)) < N
    BY <2>3, AtFinite, ClientsFinite
  <2> QED
    BY <2>1, <2>2, <2>4
<1>4. ASSUME f[c] \in S <=> to \in S
      PROVE  At(g, S) = At(f, S)
  BY <1>1, <1>4 DEF At
<1> QED
  BY <1>2, <1>3, <1>4

\* AtMoves, for a change of the clients' program counters.
LEMMA ClientIsPlaced ==
  ASSUME NEW X, client \in [Clients -> X], NEW c \in Clients, NEW to, NEW S
  PROVE  client' = [client EXCEPT ![c] = to] =>
           /\ client[c] \in S /\ to \in S => At(client', S) = At(client, S)
           /\ client[c] \notin S /\ to \notin S => At(client', S) = At(client, S)
           /\ client[c] \in S /\ to \notin S =>
                /\ At(client', S) = At(client, S) \ {c}
                /\ Cardinality(At(client', S)) = Cardinality(At(client, S)) - 1
                /\ Cardinality(At(client, S)) > 0
           /\ client[c] \notin S /\ to \in S =>
                /\ At(client', S) = At(client, S) \cup {c}
                /\ Cardinality(At(client', S)) = Cardinality(At(client, S)) + 1
                /\ Cardinality(At(client, S)) < N
<1>1. \A g : g = [client EXCEPT ![c] = to] =>
        /\ client[c] \in S /\ to \in S => At(g, S) = At(client, S)
        /\ client[c] \notin S /\ to \notin S => At(g, S) = At(client, S)
        /\ client[c] \in S /\ to \notin S =>
             /\ At(g, S) = At(client, S) \ {c}
             /\ Cardinality(At(g, S)) = Cardinality(At(client, S)) - 1
             /\ Cardinality(At(client, S)) > 0
        /\ client[c] \notin S /\ to \in S =>
             /\ At(g, S) = At(client, S) \cup {c}
             /\ Cardinality(At(g, S)) = Cardinality(At(client, S)) + 1
             /\ Cardinality(At(client, S)) < N
  BY AtMoves, Zenon
<1> QED
  BY <1>1, Zenon

\* The same, for a step of the specification.
LEMMA ClientMoves ==
  ASSUME NEW X, client \in [Clients -> X], NEW c \in Clients,
         NEW from, NEW to, Moves(c, from, to), NEW S
  PROVE  /\ from \in S /\ to \in S => At(client', S) = At(client, S)
         /\ from \notin S /\ to \notin S => At(client', S) = At(client, S)
         /\ from \in S /\ to \notin S =>
              /\ At(client', S) = At(client, S) \ {c}
              /\ Cardinality(At(client', S)) = Cardinality(At(client, S)) - 1
              /\ Cardinality(At(client, S)) > 0
         /\ from \notin S /\ to \in S =>
              /\ At(client', S) = At(client, S) \cup {c}
              /\ Cardinality(At(client', S)) = Cardinality(At(client, S)) + 1
              /\ Cardinality(At(client, S)) < N
<1>1. client[c] = from /\ client' = [client EXCEPT ![c] = to]
  BY DEF Moves
<1>2. /\ client[c] \in S /\ to \in S => At(client', S) = At(client, S)
      /\ client[c] \notin S /\ to \notin S => At(client', S) = At(client, S)
      /\ client[c] \in S /\ to \notin S =>
           /\ At(client', S) = At(client, S) \ {c}
           /\ Cardinality(At(client', S)) = Cardinality(At(client, S)) - 1
           /\ Cardinality(At(client, S)) > 0
      /\ client[c] \notin S /\ to \in S =>
           /\ At(client', S) = At(client, S) \cup {c}
           /\ Cardinality(At(client', S)) = Cardinality(At(client, S)) + 1
           /\ Cardinality(At(client, S)) < N
  BY <1>1, ClientIsPlaced, Zenon
<1> QED
  BY <1>1, <1>2, Zenon

LEMMA ClientStays ==
  ASSUME NEW X, client \in [Clients -> X], NEW c \in Clients,
         NEW from, NEW to, Moves(c, from, to), NEW S, from \in S <=> to \in S
  PROVE  At(client', S) = At(client, S)
BY ClientMoves

LEMMA ClientLeaves ==
  ASSUME NEW X, client \in [Clients -> X], NEW c \in Clients,
         NEW from, NEW to, Moves(c, from, to), NEW S, from \in S, to \notin S
  PROVE  /\ At(client', S) = At(client, S) \ {c}
         /\ Cardinality(At(client', S)) = Cardinality(At(client, S)) - 1
         /\ Cardinality(At(client, S)) > 0
BY ClientMoves, Zenon

LEMMA ClientEnters ==
  ASSUME NEW X, client \in [Clients -> X], NEW c \in Clients,
         NEW from, NEW to, Moves(c, from, to), NEW S, from \notin S, to \in S
  PROVE  /\ At(client', S) = At(client, S) \cup {c}
         /\ Cardinality(At(client', S)) = Cardinality(At(client, S)) + 1
         /\ Cardinality(At(client, S)) < N
BY ClientMoves, Zenon

\* The clients that have to call donewg.Done(), those that have sent an
\* outcome, and those that have handed in a sample.
OwesDone == {"born", "attached", "started", "fetch", "refused", "drain", "get", "wait", "sample",
             "done", "misfit", "unready", "broken", "abandon"}
HasReported == {"unready", "abandon", "failed", "finished"}
HasSampled == {"done", "report", "finished"}
SettingUp == {"unborn", "born", "attached", "started", "misfit", "unready"}
Timed == {"sample", "done", "report", "finished"}

\* Handlers that count messages.
Handled == Pushed \cup Pulled
\* Kinds in which a client receives no more than it waits for.
Bounded == StopsAfterShare \cup Pulled

FirstStamp == IF kind \in Early \cup Getting THEN 0 ELSE 1

\* All time stamps client c has emitted.
Emitted(c) == interval[c] \o ch[c]

Phases == \A c \in Clients : client[c] = "unborn" <=> c > spawned

\* No message is delivered twice, and only to clients that have attached.
Feed(c) ==
  /\ taken[c] = (IF kind \in Getting THEN 0 ELSE received[c]) + inbox[c]
  /\ kind \in Getting => inbox[c] = 0 /\ c \notin attached
  /\ kind \in Bounded => taken[c] <= Want(c)
  /\ taken[c] > 0 => c \in attached
  /\ client[c] \in {"unborn", "born"} => c \notin attached
  /\ client[c] \in {"attached", "started", "fetch", "drain"} =>
       c \in attached \/ kind \in Getting
  /\ client[c] \in {"fetch", "drain"} => kind \in Pulled
  /\ kind \in Pulled /\ client[c] # "drain" => inbox[c] = 0
  /\ client[c] = "get" => kind \in Getting
  /\ kind \notin Broadcast /\ kind \notin Getting => kind \in Handled

Delivered == kind \notin Broadcast => Total(taken) <= NumStored

\* Where the handler is.
Handling(c) ==
  /\ handler[c] # "idle" => received[c] >= 1 /\ c \in attached
  /\ handler[c] \in {"ack", "nack", "nackDone"} => kind \in Acking
  /\ handler[c] \in {"nack", "nackDone"} => c \in nacked
  /\ c \in nacked => kind \in Acking

\* The time stamps of a client whose messages come to a handler.
HandlerStamps(c) ==
  kind \in Handled =>
    /\ c \notin attached => Emitted(c) = <<>> /\ received[c] = 0
    /\ c \in attached /\ kind \in Early =>
         Len(Emitted(c)) >= 1 /\ Emitted(c)[1] = 0
    /\ kind \notin Early /\ Emitted(c) # <<>> => received[c] >= 1
    /\ handler[c] = "start" => received[c] = 1 /\ kind \notin Early
    /\ handler[c] \in {"ack", "start"} /\ received[c] = 1 /\ kind \notin Early =>
         Emitted(c) = <<>>
    /\ Emitted(c) = <<>> /\ received[c] >= 1 /\ c \notin nacked /\ kind \notin Early =>
         received[c] = 1 /\ handler[c] \in {"ack", "start"}
    /\ Len(Emitted(c)) = 1 /\ Emitted(c)[1] # FirstStamp =>
         c \in nacked /\ received[c] >= Want(c) /\ handler[c] = "idle"
    /\ Len(Emitted(c)) <= 1 =>
         /\ received[c] <= Want(c)
         /\ received[c] = Want(c) /\ handler[c] = "idle" /\ received[c] >= 1 =>
              c \in nacked
    /\ kind \in Acking /\ Len(Emitted(c)) >= 2 =>
         received[c] >= Want(c) /\ handler[c] = "idle"

\* Those of a client that requests its messages.
GetStamps(c) ==
  kind \in Getting =>
    /\ received[c] <= Want(c)
    /\ handler[c] = "idle"
    /\ kind # "kvget" =>
         Emitted(c) = IF received[c] = 0 THEN <<>>
                      ELSE IF received[c] < Want(c) THEN <<0>> ELSE <<0, Want(c)>>
    /\ kind = "kvget" =>
         /\ client[c] \in SettingUp => Emitted(c) = <<>>
         /\ client[c] = "get" => Emitted(c) = <<0>>

Stamps(c) ==
  /\ Len(Emitted(c)) >= 2 => Emitted(c)[1] = FirstStamp /\ Emitted(c)[2] = Want(c)
  /\ client[c] \in Timed => Len(interval[c]) = 2
  /\ client[c] = "wait" => Len(interval[c]) <= 1
  /\ client[c] \notin Timed \cup {"wait"} => interval[c] = <<>>

\* What becomes of one client.
Follows(c) == Feed(c) /\ Handling(c) /\ HandlerStamps(c) /\ GetStamps(c) /\ Stamps(c)

\* While no acknowledgement has failed, donewg and the outcomes count the
\* clients.
Accounts ==
  nacked = {} =>
    /\ main # "panic"
    /\ donewg = Cardinality(At(client, OwesDone))
    /\ Len(errChan) + collected = Cardinality(At(client, HasReported))

\* What a client may have sent.
NilOf(e, c) == e.ok /\ e.from = c
ErrorOf(e, c) == ~e.ok /\ e.from = c

\* The clients whose nil outcome main has taken.
Heard ==
  {c \in Clients : /\ client[c] = "finished"
                   /\ \A k \in 1..Len(errChan) : ~NilOf(errChan[k], c)}

NilOutcomes ==
  /\ \A k \in 1..Len(errChan) :
       errChan[k].ok =>
         /\ client[errChan[k].from] = "finished"
         /\ \A j \in 1..Len(errChan) : NilOf(errChan[j], errChan[k].from) => j = k
  /\ firstErr = NoClient => collected = Cardinality(Heard)

\* The error of an acknowledgement is on its way to main, and arrives before
\* a nil outcome of its client.
Ahead(c) ==
  \/ handler[c] = "nack" /\ client[c] \notin Timed
  \/ /\ c \notin Heard
     /\ \E k \in 1..Len(errChan) :
          /\ ErrorOf(errChan[k], c)
          /\ \A j \in 1..Len(errChan) : NilOf(errChan[j], c) => k < j

ErrorsComeAhead == firstErr = NoClient => \A c \in nacked : Ahead(c)

\* What main and the clients keep count of.
Books ==
  /\ Phases
  /\ samples = At(client, HasSampled)
  /\ Accounts /\ NilOutcomes /\ ErrorsComeAhead
  /\ ResultsAreComplete

IInv ==
  /\ TypeOK /\ Delivered
  /\ \A c \in Clients : Follows(c)
  /\ Books

-----------------------------------------------------------------------------
(***************************************************************************)
(* Facts about the shares, the kinds and the time stamps.                  *)
(***************************************************************************)

LEMMA Wants ==
  ASSUME NEW c \in Clients
  PROVE  /\ Want(c) \in Nat
         /\ kind \in Broadcast => Want(c) = NumMsg /\ Want(c) \in Nat \ {0}
         /\ kind \notin Broadcast => Want(c) = MsgsPerClient(NumMsg, N)[c]
         /\ kind' = kind => Want(c)' = Want(c)
<1>1. NumMsg \in Nat \ {0} /\ N \in Nat \ {0}
  BY SizesAssumption, ClientsFinite
<1>2. MsgsPerClient(NumMsg, N)[c] \in Nat
  BY <1>1, Divided DEF Clients, MsgsPerClient
<1> QED
  BY <1>1, <1>2 DEF Want

LEMMA KindFacts ==
  ASSUME kind \in Kinds
  PROVE  /\ kind \in Handled <=> kind \notin Getting
         /\ kind \in Handled /\ kind \notin Broadcast => kind \in Bounded
         /\ kind \in Acking => kind \in Handled /\ kind \in Bounded
         /\ kind \in Pushed => kind \notin Pulled
         /\ kind \in Early => kind \in Handled
BY ConsumeAssumption DEF AllKinds, Handled, Pushed, Pulled, Getting, Broadcast,
  Bounded, StopsAfterShare, Acking, Early

\* A stamp that is sent comes after those emitted before.
LEMMA StampIsEmitted ==
  ASSUME NEW i \in Seq(Nat), NEW h \in Seq(Nat), NEW n \in Nat
  PROVE  /\ Append(h, n) \in Seq(Nat)
         /\ i \o Append(h, n) = Append(i \o h, n)
         /\ i \o h \in Seq(Nat) /\ Append(i \o h, n) \in Seq(Nat)
         /\ Len(i \o Append(h, n)) = Len(i \o h) + 1
         /\ (i \o Append(h, n))[Len(i \o h) + 1] = n
         /\ \A k \in 1..Len(i \o h) : (i \o Append(h, n))[k] = (i \o h)[k]
<1>1. Append(h, n) = h \o <<n>> /\ Append(i \o h, n) = (i \o h) \o <<n>>
      /\ <<n>> \in Seq(Nat) /\ i \o h \in Seq(Nat)
  <2>1. i \o h \in Seq(Nat) /\ <<n>> \in Seq(Nat)
    BY ConcatProperties
  <2> QED
    BY <2>1, AppendIsConcat
<1>2. (i \o h) \o <<n>> = i \o (h \o <<n>>)
  BY <1>1, ConcatAssociative
<1>3. i \o Append(h, n) = Append(i \o h, n)
  BY <1>1, <1>2
<1> QED
  BY <1>1, <1>3, AppendProperties

\* Taking a stamp emits none.
LEMMA StampIsTaken ==
  ASSUME NEW i \in Seq(Nat), NEW h \in Seq(Nat), h # <<>>
  PROVE  /\ Append(i, Head(h)) \o Tail(h) = i \o h
         /\ Append(i, Head(h)) \in Seq(Nat) /\ Tail(h) \in Seq(Nat)
         /\ Len(Append(i, Head(h))) = Len(i) + 1
         /\ Len(Tail(h)) = Len(h) - 1
<1> DEFINE x == Head(h)
           t == Tail(h)
<1>1. /\ x \in Nat /\ t \in Seq(Nat) /\ Len(t) = Len(h) - 1
      /\ h = <<x>> \o t
  BY HeadTailProperties
<1> HIDE DEF x, t
<1>2. Append(i, x) = i \o <<x>> /\ <<x>> \in Seq(Nat) /\ Append(i, x) \in Seq(Nat)
      /\ Len(Append(i, x)) = Len(i) + 1
  BY <1>1
<1>3. (i \o <<x>>) \o t = i \o (<<x>> \o t)
  BY <1>1, <1>2, ConcatAssociative
<1> QED
  BY <1>1, <1>2, <1>3 DEF x, t

\* Nothing changes about client c.
Same(c) ==
  /\ kind' = kind /\ client'[c] = client[c]
  /\ taken'[c] = taken[c] /\ inbox'[c] = inbox[c] /\ received'[c] = received[c]
  /\ handler'[c] = handler[c] /\ ch'[c] = ch[c] /\ interval'[c] = interval[c]
  /\ (c \in attached)' <=> c \in attached
  /\ (c \in nacked)' <=> c \in nacked

LEMMA SameFollows ==
  ASSUME NEW c \in Clients, Follows(c), Same(c)
  PROVE  Follows(c)'
<1>1. Want(c)' = Want(c) /\ FirstStamp' = FirstStamp /\ Emitted(c)' = Emitted(c)
  BY Wants DEF Same, FirstStamp, Emitted
<1>2. Feed(c)'
  BY <1>1 DEF Follows, Feed, Same
<1>3. Handling(c)'
  BY <1>1 DEF Follows, Handling, Same
<1>4. HandlerStamps(c)'
  BY <1>1 DEF Follows, HandlerStamps, Same
<1>5. GetStamps(c)'
  BY <1>1 DEF Follows, GetStamps, Same
<1>6. Stamps(c)'
  BY <1>1 DEF Follows, Stamps, Same
<1> QED
  BY <1>2, <1>3, <1>4, <1>5, <1>6 DEF Follows

-----------------------------------------------------------------------------
(***************************************************************************)
(* What the server delivers.                                               *)
(***************************************************************************)

LEMMA TotalIsSum == \A f : Total(f) = SumOf(f, Clients)
BY DEF Total, SumOf

LEMMA LeftToDeliver ==
  ASSUME TypeOK, Delivered, NEW c \in Clients
  PROVE  Left(c) \in Int /\ Left(c) <= NumStored - taken[c]
<1>1. \A d \in Clients : taken[d] \in Nat
  BY DEF TypeOK
<1>2. Total(taken) \in Nat /\ taken[c] <= Total(taken)
  BY <1>1, ClientsFinite, SumOfNumbers, TotalIsSum
<1> QED
  BY <1>1, <1>2, ConsumeAssumption DEF Left

LEMMA DeliverMore ==
  ASSUME TypeOK, Delivered, NEW c \in Clients, NEW n \in Nat, n <= Left(c),
         taken' = [taken EXCEPT ![c] = @ + n], kind' = kind
  PROVE  /\ Delivered'
         /\ taken' \in [Clients -> 0..NumStored]
         /\ n \in 0..NumStored
<1>1. NumStored \in Nat /\ taken \in [Clients -> 0..NumStored]
  BY ConsumeAssumption DEF TypeOK
<1>2. Left(c) \in Int /\ Left(c) <= NumStored - taken[c]
  BY LeftToDeliver
<1>3. taken[c] + n \in 0..NumStored /\ n \in 0..NumStored
  BY <1>1, <1>2
<1>4. taken' \in [Clients -> 0..NumStored]
  BY <1>1, <1>3
<1>5. Delivered'
  <2> SUFFICES ASSUME kind \notin Broadcast PROVE Total(taken)' <= NumStored
    BY DEF Delivered
  <2>1. /\ \A d \in Clients : taken[d] \in Int /\ taken'[d] \in Int
        /\ \A d \in Clients : d # c => taken[d] = taken'[d]
        /\ taken'[c] = taken[c] + n
    BY <1>1, <1>4
  <2>2. SumOf(taken', Clients) = SumOf(taken, Clients) + (taken'[c] - taken[c])
    <3>1. ASSUME NEW g, \A d \in Clients : taken[d] \in Int /\ g[d] \in Int,
                 \A d \in Clients : d # c => taken[d] = g[d]
          PROVE  SumOf(g, Clients) = SumOf(taken, Clients) + (g[c] - taken[c])
      BY <3>1, ClientsFinite, SumChanges
    <3> QED
      BY <2>1, <3>1
  <2>3. Total(taken') = Total(taken) + n /\ Total(taken) \in Int
    BY <2>1, <2>2, TotalIsSum, ClientsFinite, SumIsInt
  <2>4. n <= NumStored - Total(taken)
    BY DEF Left
  <2> QED
    BY <1>1, <2>3, <2>4
<1> QED
  BY <1>3, <1>4, <1>5

LEMMA DeliverNone ==
  ASSUME Delivered, kind' = kind, taken' = taken
  PROVE  Delivered'
BY DEF Delivered

-----------------------------------------------------------------------------
(***************************************************************************)
(* What every step of a client leaves of the bookkeeping of main.          *)
(***************************************************************************)

\* While nothing is sent to errChan and nobody finishes.
LEMMA QuietReports ==
  ASSUME NilOutcomes, ErrorsComeAhead,
         UNCHANGED <<errChan, collected, firstErr, nacked>>,
         \A d \in Clients : client'[d] = "finished" <=> client[d] = "finished",
         \A d \in Clients : handler[d] = "nack" /\ client[d] \notin Timed =>
           handler'[d] = "nack" /\ client'[d] \notin Timed,
         TypeOK
  PROVE  NilOutcomes' /\ ErrorsComeAhead'
<1>1. Heard' = Heard
  BY DEF Heard
<1>2. nacked \subseteq Clients /\ \A k \in 1..Len(errChan) : errChan[k].from \in Clients
  <2>1. \A k \in 1..Len(errChan) : errChan[k] \in Outcome
    BY ElementOfSeq DEF TypeOK, HarnessTypeOK
  <2> QED
    BY <2>1 DEF TypeOK, Outcome
<1>3. NilOutcomes'
  BY <1>1, <1>2 DEF NilOutcomes
<1>4. ErrorsComeAhead'
  BY <1>1, <1>2 DEF ErrorsComeAhead, Ahead
<1> QED
  BY <1>3, <1>4

\* A step that neither reports nor ends.
LEMMA LocalKeeps ==
  ASSUME IInv, NEW c \in Clients, NEW from, NEW to, Moves(c, from, to),
         UNCHANGED <<main, spawned, donewg, errChan, samples, collected, firstErr, nacked,
                     handler>>,
         from # "unborn", to # "unborn",
         from \in OwesDone <=> to \in OwesDone,
         from \in HasReported <=> to \in HasReported,
         from \in HasSampled <=> to \in HasSampled,
         from # "finished", to # "finished",
         to \in Timed => from \in Timed \/ handler[c] # "nack"
  PROVE  Books'
<1> USE DEF IInv, Books
<1>1. client \in [Clients -> ClientStates]
  BY DEF TypeOK
<1>2. /\ At(client', OwesDone) = At(client, OwesDone)
      /\ At(client', HasReported) = At(client, HasReported)
      /\ At(client', HasSampled) = At(client, HasSampled)
  BY <1>1, ClientStays
<1>3. \A d \in Clients : client'[d] = IF d = c THEN to ELSE client[d]
  BY <1>1 DEF Moves
<1>4. client[c] = from
  BY DEF Moves
<1>5. Phases'
  BY <1>3, <1>4 DEF Phases
<1>6. Accounts'
  BY <1>2, Zenon DEF Accounts
<1>7. NilOutcomes' /\ ErrorsComeAhead'
  <2>1. \A d \in Clients : client'[d] = "finished" <=> client[d] = "finished"
    BY <1>3, <1>4
  <2>2. \A d \in Clients : handler[d] = "nack" /\ client[d] \notin Timed =>
           handler'[d] = "nack" /\ client'[d] \notin Timed
    BY <1>3, <1>4
  <2> QED
    BY <2>1, <2>2, QuietReports
<1>8. ResultsAreComplete'
  BY DEF ResultsAreComplete, Moves, Running, Ended
<1>9. (samples = At(client, HasSampled))'
  BY <1>2
<1> QED
  BY <1>5, <1>6, <1>7, <1>8, <1>9

\* A client hands in its sample.
LEMMA SampleKeeps ==
  ASSUME IInv, NEW c \in Clients, AddSample(c, "sample", "done"),
         UNCHANGED <<nacked, handler>>
  PROVE  Books'
<1> USE DEF IInv, Books
<1>1. client \in [Clients -> ClientStates] /\ Moves(c, "sample", "done")
      /\ samples' = samples \cup {c}
      /\ UNCHANGED <<main, spawned, donewg, errChan, collected, firstErr>>
  BY DEF TypeOK, AddSample
<1>2. /\ At(client', OwesDone) = At(client, OwesDone)
      /\ At(client', HasReported) = At(client, HasReported)
  BY <1>1, ClientStays DEF OwesDone, HasReported
<1>3. At(client', HasSampled) = At(client, HasSampled) \cup {c}
  BY <1>1, ClientEnters DEF HasSampled
<1>4. \A d \in Clients : client'[d] = IF d = c THEN "done" ELSE client[d]
  BY <1>1 DEF Moves
<1>5. client[c] = "sample"
  BY <1>1 DEF Moves
<1>6. Phases'
  BY <1>1, <1>4, <1>5 DEF Phases
<1>7. Accounts'
  BY <1>1, <1>2, Zenon DEF Accounts
<1>8. NilOutcomes' /\ ErrorsComeAhead'
  <2>1. \A d \in Clients : client'[d] = "finished" <=> client[d] = "finished"
    BY <1>4, <1>5
  <2>2. \A d \in Clients : handler[d] = "nack" /\ client[d] \notin Timed =>
           handler'[d] = "nack" /\ client'[d] \notin Timed
    BY <1>4, <1>5 DEF Timed
  <2> QED
    BY <1>1, <2>1, <2>2, QuietReports
<1>9. ResultsAreComplete'
  BY <1>1 DEF ResultsAreComplete, Moves, Running, Ended
<1>10. (samples = At(client, HasSampled))'
  BY <1>1, <1>3
<1> QED
  BY <1>6, <1>7, <1>8, <1>9, <1>10

\* A client calls donewg.Done().
LEMMA DoneKeeps ==
  ASSUME IInv, NEW c \in Clients, NEW from, NEW to, DoneDone(c, from, to),
         (from = "done" /\ to = "report") \/ (from = "abandon" /\ to = "failed"),
         UNCHANGED <<nacked, handler>>
  PROVE  Books'
<1> USE DEF IInv, Books
<1>1. client \in [Clients -> ClientStates] /\ Moves(c, from, to) /\ donewg \in Int
      /\ donewg' = donewg - 1 /\ main' = (IF donewg = 0 THEN "panic" ELSE main)
      /\ UNCHANGED <<spawned, errChan, samples, collected, firstErr>>
  BY DEF TypeOK, HarnessTypeOK, DoneDone
<1>2. /\ At(client', HasReported) = At(client, HasReported)
      /\ At(client', HasSampled) = At(client, HasSampled)
  BY <1>1, ClientStays DEF HasSampled, HasReported
<1>3. /\ Cardinality(At(client', OwesDone)) = Cardinality(At(client, OwesDone)) - 1
      /\ Cardinality(At(client, OwesDone)) > 0
  <2>1. from \in OwesDone /\ to \notin OwesDone
    BY DEF OwesDone
  <2> QED
    BY <1>1, <2>1, ClientLeaves
<1>4. \A d \in Clients : client'[d] = IF d = c THEN to ELSE client[d]
  BY <1>1 DEF Moves
<1>5. client[c] = from
  BY <1>1 DEF Moves
<1>6. Phases'
  BY <1>1, <1>4, <1>5 DEF Phases
<1>7. Accounts'
  <2> SUFFICES ASSUME nacked = {}
               PROVE  /\ main' # "panic"
                      /\ donewg' = Cardinality(At(client', OwesDone))
                      /\ Len(errChan') + collected' = Cardinality(At(client', HasReported))
    BY DEF Accounts
  <2>1. /\ main # "panic" /\ donewg = Cardinality(At(client, OwesDone))
        /\ Len(errChan) + collected = Cardinality(At(client, HasReported))
    BY DEF Accounts
  <2>2. donewg # 0 /\ main' = main
    BY <1>1, <1>3, <2>1
  <2>3. donewg' = Cardinality(At(client', OwesDone))
    BY <1>1, <1>3, <2>1
  <2> QED
    BY <1>1, <1>2, <2>1, <2>2, <2>3
<1>8. NilOutcomes' /\ ErrorsComeAhead'
  <2>1. \A d \in Clients : client'[d] = "finished" <=> client[d] = "finished"
    BY <1>4, <1>5
  <2>2. \A d \in Clients : handler[d] = "nack" /\ client[d] \notin Timed =>
           handler'[d] = "nack" /\ client'[d] \notin Timed
    BY <1>4, <1>5 DEF Timed
  <2> QED
    BY <1>1, <2>1, <2>2, QuietReports
<1>9. ResultsAreComplete'
  BY <1>1 DEF ResultsAreComplete, Moves, Running, Ended
<1>10. (samples = At(client, HasSampled))'
  BY <1>1, <1>2
<1> QED
  BY <1>6, <1>7, <1>8, <1>9, <1>10

\* What is sent comes last in errChan.
LEMMA SentLast ==
  ASSUME TypeOK, NEW c \in Clients, NEW ok \in BOOLEAN,
         errChan' = Append(errChan, [from |-> c, ok |-> ok])
  PROVE  /\ Len(errChan) \in Nat /\ Len(errChan') = Len(errChan) + 1
         /\ \A k \in 1..Len(errChan) : errChan'[k] = errChan[k]
         /\ errChan'[Len(errChan) + 1].from = c
         /\ errChan'[Len(errChan) + 1].ok <=> ok
         /\ \A k \in 1..Len(errChan') : k \in 1..Len(errChan) \/ k = Len(errChan) + 1
         /\ \A k \in 1..Len(errChan) : k \in 1..Len(errChan') /\ k < Len(errChan) + 1
         /\ Len(errChan) + 1 \in 1..Len(errChan')
         /\ errChan' \in Seq(Outcome)
         /\ \A k \in 1..Len(errChan) : errChan[k].from \in Clients
<1> DEFINE e == [from |-> c, ok |-> ok]
<1>1. e \in Outcome /\ e.from = c /\ (e.ok <=> ok) /\ errChan \in Seq(Outcome)
  BY DEF Outcome, TypeOK, HarnessTypeOK
<1>2. \A k \in 1..Len(errChan) : errChan[k].from \in Clients
  <2>1. \A k \in 1..Len(errChan) : errChan[k] \in Outcome
    BY <1>1, ElementOfSeq
  <2> QED
    BY <2>1 DEF Outcome
<1> HIDE DEF e
<1>3. errChan' = Append(errChan, e)
  BY DEF e
<1> QED
  BY <1>1, <1>2, <1>3, AppendProperties, LenProperties

\* An error that is sent leaves what main has heard, and comes ahead of what
\* its client sends later.
LEMMA ErrorJoins ==
  ASSUME TypeOK, NilOutcomes, NEW c \in Clients,
         errChan' = Append(errChan, [from |-> c, ok |-> FALSE]),
         UNCHANGED <<collected, firstErr>>,
         \A d \in Clients : client'[d] = "finished" <=> client[d] = "finished"
  PROVE  /\ Len(errChan) \in Nat /\ Len(errChan') = Len(errChan) + 1
         /\ NilOutcomes'
         /\ client[c] # "finished" => Ahead(c)'
         /\ \A d \in Clients :
              /\ Ahead(d)
              /\ handler[d] = "nack" /\ client[d] \notin Timed =>
                   handler'[d] = "nack" /\ client'[d] \notin Timed
              => Ahead(d)'
<1> DEFINE l == Len(errChan)
<1>1. /\ l \in Nat /\ Len(errChan') = l + 1
      /\ \A k \in 1..l : errChan'[k] = errChan[k]
      /\ ~errChan'[l + 1].ok /\ errChan'[l + 1].from = c /\ l + 1 \in 1..Len(errChan')
      /\ \A k \in 1..Len(errChan') : k \in 1..l \/ k = l + 1
      /\ \A k \in 1..l : /\ k \in 1..Len(errChan') /\ k < l + 1
                         /\ errChan[k].from \in Clients
  BY SentLast
<1> HIDE DEF l
<1>2. Heard' = Heard
  BY <1>1 DEF Heard, NilOf, l
<1>3. NilOutcomes'
  <2>1. \A k \in 1..Len(errChan') : errChan'[k].ok =>
          /\ client'[errChan'[k].from] = "finished"
          /\ \A j \in 1..Len(errChan') : NilOf(errChan'[j], errChan'[k].from) => j = k
    BY <1>1 DEF NilOutcomes, NilOf, l
  <2> QED
    BY <1>2, <2>1 DEF NilOutcomes
<1>4. ASSUME client[c] # "finished"
      PROVE  Ahead(c)'
  <2>1. \A k \in 1..l : ~NilOf(errChan[k], c)
    BY <1>4 DEF NilOutcomes, NilOf, l
  <2>2. c \notin Heard'
    BY <1>4, <1>2 DEF Heard
  <2>3. /\ ErrorOf(errChan'[l + 1], c)
        /\ \A j \in 1..Len(errChan') : NilOf(errChan'[j], c) => l + 1 < j
    BY <1>1, <2>1 DEF ErrorOf, NilOf
  <2> QED
    BY <1>1, <2>2, <2>3 DEF Ahead
<1>5. ASSUME NEW d \in Clients, Ahead(d),
             handler[d] = "nack" /\ client[d] \notin Timed =>
               handler'[d] = "nack" /\ client'[d] \notin Timed
      PROVE  Ahead(d)'
  <2>1. ASSUME NEW k \in 1..l, ErrorOf(errChan[k], d),
               \A j \in 1..l : NilOf(errChan[j], d) => k < j
        PROVE  /\ k \in 1..Len(errChan') /\ ErrorOf(errChan'[k], d)
               /\ \A j \in 1..Len(errChan') : NilOf(errChan'[j], d) => k < j
    BY <1>1, <2>1 DEF ErrorOf, NilOf
  <2> QED
    BY <1>2, <1>5, <2>1 DEF Ahead, l
<1> QED
  BY <1>1, <1>3, <1>4, <1>5 DEF l

\* A client sends an error of its own.
LEMMA ErrorKeeps ==
  ASSUME IInv, NEW c \in Clients, NEW from, NEW to, SendOutcome(c, from, to, FALSE),
         (from = "misfit" /\ to = "unready") \/ (from = "broken" /\ to = "abandon"),
         UNCHANGED <<nacked, handler>>
  PROVE  Books'
<1> USE DEF IInv, Books
<1>1. client \in [Clients -> ClientStates] /\ Moves(c, from, to)
      /\ errChan' = Append(errChan, [from |-> c, ok |-> FALSE])
      /\ UNCHANGED <<main, spawned, donewg, samples, collected, firstErr>>
  BY DEF TypeOK, SendOutcome
<1>2. /\ At(client', OwesDone) = At(client, OwesDone)
      /\ At(client', HasSampled) = At(client, HasSampled)
  <2>1. from \in OwesDone /\ to \in OwesDone /\ from \notin HasSampled /\ to \notin HasSampled
    BY DEF HasSampled, OwesDone
  <2>2. At(client', OwesDone) = At(client, OwesDone)
    BY <1>1, <2>1, ClientStays
  <2>3. At(client', HasSampled) = At(client, HasSampled)
    BY <1>1, <2>1, ClientStays
  <2> QED
    BY <2>2, <2>3
<1>3. Cardinality(At(client', HasReported)) = Cardinality(At(client, HasReported)) + 1
  <2>1. from \notin HasReported /\ to \in HasReported
    BY DEF HasReported
  <2> QED
    BY <1>1, <2>1, ClientEnters
<1>4. \A d \in Clients : client'[d] = IF d = c THEN to ELSE client[d]
  BY <1>1 DEF Moves
<1>5. client[c] = from
  BY <1>1 DEF Moves
<1>6. \A d \in Clients : client'[d] = "finished" <=> client[d] = "finished"
  BY <1>4, <1>5
<1>7. /\ Len(errChan) \in Nat /\ Len(errChan') = Len(errChan) + 1
      /\ NilOutcomes'
      /\ \A d \in Clients :
           /\ Ahead(d)
           /\ handler[d] = "nack" /\ client[d] \notin Timed =>
                handler'[d] = "nack" /\ client'[d] \notin Timed
           => Ahead(d)'
  BY <1>1, <1>6, ErrorJoins
<1>8. Phases'
  BY <1>1, <1>4, <1>5 DEF Phases
<1>9. Accounts'
  <2> SUFFICES ASSUME nacked = {}
               PROVE  /\ main' # "panic"
                      /\ donewg' = Cardinality(At(client', OwesDone))
                      /\ Len(errChan') + collected' = Cardinality(At(client', HasReported))
    BY DEF Accounts
  <2>1. /\ main # "panic" /\ donewg = Cardinality(At(client, OwesDone))
        /\ Len(errChan) + collected = Cardinality(At(client, HasReported))
    BY DEF Accounts
  <2>2. collected \in Nat /\ Cardinality(At(client, HasReported)) \in Nat
    BY ClientsFinite, AtFinite DEF TypeOK, HarnessTypeOK
  <2>3. Len(errChan') + collected' = Cardinality(At(client', HasReported))
    BY <1>1, <1>3, <1>7, <2>1, <2>2
  <2> QED
    BY <1>1, <1>2, <2>1, <2>3
<1>10. ErrorsComeAhead'
  <2>1. \A d \in Clients : handler[d] = "nack" /\ client[d] \notin Timed =>
           handler'[d] = "nack" /\ client'[d] \notin Timed
    BY <1>4, <1>5 DEF Timed
  <2>2. nacked' = nacked /\ nacked \subseteq Clients /\ firstErr' = firstErr
    BY <1>1 DEF TypeOK
  <2> QED
    BY <1>7, <2>1, <2>2 DEF ErrorsComeAhead
<1>11. ResultsAreComplete'
  BY <1>1 DEF ResultsAreComplete, Moves, Running, Ended
<1>12. (samples = At(client, HasSampled))'
  BY <1>1, <1>2
<1> QED
  BY <1>7, <1>8, <1>9, <1>10, <1>11, <1>12

\* A client that has handed in its sample sends a nil outcome.
LEMMA NilKeeps ==
  ASSUME IInv, NEW c \in Clients, SendOutcome(c, "report", "finished", TRUE),
         UNCHANGED <<nacked, handler>>
  PROVE  Books'
<1> USE DEF IInv, Books
<1>1. client \in [Clients -> ClientStates] /\ Moves(c, "report", "finished")
      /\ errChan' = Append(errChan, [from |-> c, ok |-> TRUE])
      /\ UNCHANGED <<main, spawned, donewg, samples, collected, firstErr>>
  BY DEF TypeOK, SendOutcome
<1>2. /\ At(client', OwesDone) = At(client, OwesDone)
      /\ At(client', HasSampled) = At(client, HasSampled)
  <2>1. /\ "report" \notin OwesDone /\ "finished" \notin OwesDone
        /\ "report" \in HasSampled /\ "finished" \in HasSampled
    BY DEF HasSampled, OwesDone
  <2>2. At(client', OwesDone) = At(client, OwesDone)
    BY <1>1, <2>1, ClientStays
  <2>3. At(client', HasSampled) = At(client, HasSampled)
    BY <1>1, <2>1, ClientStays
  <2> QED
    BY <2>2, <2>3
<1>3. Cardinality(At(client', HasReported)) = Cardinality(At(client, HasReported)) + 1
  <2>1. "report" \notin HasReported /\ "finished" \in HasReported
    BY DEF HasReported
  <2> QED
    BY <1>1, <2>1, ClientEnters
<1>4. \A d \in Clients : client'[d] = IF d = c THEN "finished" ELSE client[d]
  BY <1>1 DEF Moves
<1>5. client[c] = "report"
  BY <1>1 DEF Moves
<1> DEFINE l == Len(errChan)
<1>6. /\ l \in Nat /\ Len(errChan') = l + 1
      /\ \A k \in 1..l : errChan'[k] = errChan[k]
      /\ errChan'[l + 1].ok /\ errChan'[l + 1].from = c
      /\ \A k \in 1..Len(errChan') : k \in 1..l \/ k = l + 1
      /\ \A k \in 1..l : k \in 1..Len(errChan') /\ errChan[k].from \in Clients
      /\ l + 1 \in 1..Len(errChan')
  BY <1>1, SentLast
<1> HIDE DEF l
<1>7. Phases'
  BY <1>1, <1>4, <1>5 DEF Phases
<1>8. Accounts'
  <2> SUFFICES ASSUME nacked = {}
               PROVE  /\ main' # "panic"
                      /\ donewg' = Cardinality(At(client', OwesDone))
                      /\ Len(errChan') + collected' = Cardinality(At(client', HasReported))
    BY DEF Accounts
  <2>1. /\ main # "panic" /\ donewg = Cardinality(At(client, OwesDone))
        /\ l + collected = Cardinality(At(client, HasReported))
    BY DEF Accounts, l
  <2>2. Len(errChan') + collected' = Cardinality(At(client', HasReported))
    <3>1. collected \in Nat /\ Cardinality(At(client, HasReported)) \in Nat
      BY ClientsFinite, AtFinite, <1>1 DEF TypeOK, HarnessTypeOK
    <3>2. l \in Nat /\ Len(errChan') = l + 1 /\ collected' = collected
      BY <1>1, <1>6
    <3> QED
      BY <1>3, <2>1, <3>1, <3>2
  <2> QED
    BY <1>1, <1>2, <2>1, <2>2
<1>9. \A k \in 1..l : ~NilOf(errChan[k], c)
  BY <1>5 DEF NilOutcomes, NilOf, l
<1>10. Heard' = Heard
  <2>1. c \notin Heard
    BY <1>5 DEF Heard
  <2>2. c \notin Heard'
    BY <1>6 DEF Heard, NilOf
  <2>3. ASSUME NEW d \in Clients, d # c
        PROVE  d \in Heard' <=> d \in Heard
    BY <1>4, <1>6, <2>3 DEF Heard, NilOf, l
  <2> QED
    BY <2>1, <2>2, <2>3 DEF Heard
<1>11. NilOutcomes'
  <2>1. ASSUME NEW k \in 1..Len(errChan'), errChan'[k].ok
        PROVE  /\ client'[errChan'[k].from] = "finished"
               /\ \A j \in 1..Len(errChan') : NilOf(errChan'[j], errChan'[k].from) => j = k
    <3>1. CASE k = l + 1
      BY <1>4, <1>6, <1>9, <3>1 DEF NilOf
    <3>2. CASE k \in 1..l
      <4>1. errChan[k].ok /\ errChan[k].from \in Clients
        BY <1>6, <2>1, <3>2
      <4>2. /\ client[errChan[k].from] = "finished"
            /\ \A j \in 1..l : NilOf(errChan[j], errChan[k].from) => j = k
        BY <3>2, <4>1 DEF NilOutcomes, l
      <4>3. errChan[k].from # c
        BY <1>5, <4>2
      <4> QED
        BY <1>4, <1>6, <3>2, <4>1, <4>2, <4>3 DEF NilOf
    <3> QED
      BY <1>6, <3>1, <3>2
  <2> QED
    BY <1>1, <1>10, <2>1 DEF NilOutcomes
<1>12. ErrorsComeAhead'
  <2>1. ASSUME NEW d \in Clients, Ahead(d)
        PROVE  Ahead(d)'
    <3>1. handler[d] = "nack" /\ client[d] \notin Timed =>
            handler'[d] = "nack" /\ client'[d] \notin Timed
      BY <1>4, <1>5 DEF Timed
    <3>2. ASSUME NEW k \in 1..l, ErrorOf(errChan[k], d),
                 \A j \in 1..l : NilOf(errChan[j], d) => k < j
          PROVE  /\ k \in 1..Len(errChan') /\ ErrorOf(errChan'[k], d)
                 /\ \A j \in 1..Len(errChan') : NilOf(errChan'[j], d) => k < j
      BY <1>6, <3>2 DEF ErrorOf, NilOf
    <3> QED
      BY <1>10, <2>1, <3>1, <3>2 DEF Ahead, l
  <2> QED
    BY <1>1, <2>1 DEF ErrorsComeAhead, TypeOK
<1>13. ResultsAreComplete'
  BY <1>1 DEF ResultsAreComplete, Moves, Running, Ended
<1>14. (samples = At(client, HasSampled))'
  BY <1>1, <1>2
<1> QED
  BY <1>7, <1>8, <1>11, <1>12, <1>13, <1>14

-----------------------------------------------------------------------------
(***************************************************************************)
(* The steps of main.                                                      *)
(***************************************************************************)

\* What is received is the first value in errChan, and the others move up.
LEMMA Received ==
  ASSUME TypeOK, errChan # <<>>, errChan' = Tail(errChan)
  PROVE  /\ Len(errChan) \in Nat /\ Len(errChan') \in Nat
         /\ Len(errChan) = Len(errChan') + 1
         /\ Head(errChan) = errChan[1] /\ Head(errChan) \in Outcome
         /\ \A k \in 1..Len(errChan') :
              errChan'[k] = errChan[k + 1] /\ k + 1 \in 1..Len(errChan)
         /\ \A k \in 1..Len(errChan) :
              /\ errChan[k] \in Outcome
              /\ k # 1 => k - 1 \in 1..Len(errChan') /\ errChan'[k - 1] = errChan[k]
         /\ 1 \in 1..Len(errChan)
         /\ errChan' \in Seq(Outcome)
<1>1. errChan \in Seq(Outcome)
  BY DEF TypeOK, HarnessTypeOK
<1>2. /\ Head(errChan) \in Outcome /\ errChan' \in Seq(Outcome)
      /\ Len(errChan') = Len(errChan) - 1
      /\ \A k \in 1..Len(errChan') : errChan'[k] = errChan[k + 1]
  BY <1>1, HeadTailProperties
<1>3. \A k \in 1..Len(errChan) : errChan[k] \in Outcome
  BY <1>1, ElementOfSeq
<1>4. Head(errChan) = errChan[1] /\ Len(errChan) \in Nat /\ Len(errChan') \in Nat
  BY <1>1, <1>2, LenProperties
<1>5. \A k \in 1..Len(errChan) :
        k # 1 => k - 1 \in 1..Len(errChan') /\ errChan'[k - 1] = errChan[k]
  <2> TAKE k \in 1..Len(errChan)
  <2>1. k # 1 => k - 1 \in 1..Len(errChan') /\ (k - 1) + 1 = k
    BY <1>2, <1>4
  <2> QED
    BY <1>2, <2>1
<1> QED
  BY <1>1, <1>2, <1>3, <1>4, <1>5

LEMMA CollectKeeps ==
  ASSUME IInv, Collect, UNCHANGED feedVars
  PROVE  Books'
<1> USE DEF IInv, Books
<1>1. /\ client' = client /\ handler' = handler /\ nacked' = nacked
      /\ UNCHANGED <<main, spawned, donewg, samples>>
      /\ main = "collect" /\ errChan # <<>> /\ errChan' = Tail(errChan)
      /\ collected' = collected + 1
  BY DEF Collect, feedVars
<1> DEFINE l == Len(errChan')
           x == Head(errChan)
<1>2. /\ l \in Nat /\ Len(errChan) = l + 1
      /\ x = errChan[1] /\ x.from \in Clients /\ x.ok \in BOOLEAN
      /\ 1 \in 1..Len(errChan)
  BY <1>1, Received DEF Outcome
<1>3. \A k \in 1..l : errChan'[k] = errChan[k + 1] /\ k + 1 \in 1..Len(errChan)
  BY <1>1, Received
<1>4. \A k \in 1..Len(errChan) :
        /\ errChan[k].from \in Clients
        /\ k # 1 => k - 1 \in 1..l /\ errChan'[k - 1] = errChan[k]
  BY <1>1, Received DEF Outcome
<1>5. firstErr' = IF firstErr = NoClient /\ ~x.ok THEN x.from ELSE firstErr
  BY DEF Collect
<1>6. collected \in Nat /\ firstErr \in Clients \cup {NoClient} /\ nacked \subseteq Clients
  BY ClientsFinite DEF TypeOK, HarnessTypeOK
<1> HIDE DEF l, x
<1>7. Phases'
  BY <1>1 DEF Phases
<1>8. Accounts'
  <2> SUFFICES ASSUME nacked = {}
               PROVE  /\ main' # "panic"
                      /\ donewg' = Cardinality(At(client', OwesDone))
                      /\ Len(errChan') + collected' = Cardinality(At(client', HasReported))
    BY <1>1 DEF Accounts
  <2>1. /\ main # "panic" /\ donewg = Cardinality(At(client, OwesDone))
        /\ Len(errChan) + collected = Cardinality(At(client, HasReported))
    BY DEF Accounts
  <2>2. Len(errChan') + collected' = Len(errChan) + collected
    BY <1>1, <1>2, <1>6 DEF l
  <2> QED
    BY <1>1, <2>1, <2>2
<1>9. \A k \in 1..l : errChan'[k].ok =>
        /\ client'[errChan'[k].from] = "finished"
        /\ \A j \in 1..l : NilOf(errChan'[j], errChan'[k].from) => j = k
  <2> SUFFICES ASSUME NEW k \in 1..l, errChan'[k].ok
               PROVE  /\ client[errChan'[k].from] = "finished"
                      /\ \A j \in 1..l : NilOf(errChan'[j], errChan'[k].from) => j = k
    BY <1>1
  <2>1. errChan'[k] = errChan[k + 1] /\ k + 1 \in 1..Len(errChan)
    BY <1>3
  <2>2. /\ client[errChan[k + 1].from] = "finished"
        /\ \A j \in 1..Len(errChan) : NilOf(errChan[j], errChan[k + 1].from) => j = k + 1
    BY <2>1 DEF NilOutcomes
  <2>3. ASSUME NEW j \in 1..l, NilOf(errChan'[j], errChan'[k].from)
        PROVE  j = k
    <3>1. errChan'[j] = errChan[j + 1] /\ j + 1 \in 1..Len(errChan)
      BY <1>3
    <3>2. j + 1 = k + 1
      BY <2>1, <2>2, <2>3, <3>1
    <3> QED
      BY <3>2, <1>2
  <2> QED
    BY <2>1, <2>2, <2>3
<1>10. CASE ~x.ok
  <2>1. firstErr' # NoClient
    BY <1>2, <1>5, <1>10, ClientsFinite
  <2>2. NilOutcomes'
    BY <1>9, <2>1 DEF NilOutcomes, l
  <2>3. ErrorsComeAhead'
    BY <2>1 DEF ErrorsComeAhead
  <2> QED
    BY <1>1, <1>7, <1>8, <2>2, <2>3 DEF ResultsAreComplete
<1>11. CASE x.ok
  <2>1. firstErr' = firstErr
    BY <1>5, <1>11
  <2>2. /\ client[x.from] = "finished"
        /\ \A j \in 1..Len(errChan) : NilOf(errChan[j], x.from) => j = 1
        /\ NilOf(errChan[1], x.from)
    BY <1>2, <1>11 DEF NilOutcomes, NilOf
  <2>3. x.from \notin Heard
    BY <1>2, <2>2 DEF Heard
  <2>4. x.from \in Heard'
    <3>1. ASSUME NEW k \in 1..l, NilOf(errChan'[k], x.from)
          PROVE  FALSE
      <4>1. errChan'[k] = errChan[k + 1] /\ k + 1 \in 1..Len(errChan)
        BY <1>3
      <4>2. k + 1 = 1
        BY <2>2, <3>1, <4>1
      <4> QED
        BY <4>2, <1>2
    <3> QED
      BY <1>1, <1>2, <2>2, <3>1 DEF Heard, l
  <2>5. ASSUME NEW c \in Clients, c # x.from
        PROVE  c \in Heard' <=> c \in Heard
    <3>1. ~NilOf(errChan[1], c)
      BY <1>2, <2>5 DEF NilOf
    <3>2. (\A k \in 1..Len(errChan) : ~NilOf(errChan[k], c))
            <=> (\A k \in 1..l : ~NilOf(errChan'[k], c))
      <4>1. ASSUME \A k \in 1..Len(errChan) : ~NilOf(errChan[k], c), NEW k \in 1..l
            PROVE  ~NilOf(errChan'[k], c)
        BY <1>3, <4>1
      <4>2. ASSUME \A k \in 1..l : ~NilOf(errChan'[k], c), NEW k \in 1..Len(errChan)
            PROVE  ~NilOf(errChan[k], c)
        BY <1>4, <3>1, <4>2
      <4> QED
        BY <4>1, <4>2
    <3> QED
      BY <1>1, <3>2 DEF Heard, l
  <2>6. Heard' = Heard \cup {x.from}
    BY <1>2, <2>4, <2>5 DEF Heard
  <2>7. Cardinality(Heard') = Cardinality(Heard) + 1 /\ Cardinality(Heard) \in Nat
    <3>1. IsFiniteSet(Heard)
      BY ClientsFinite, FS_Subset DEF Heard
    <3> QED
      BY <2>3, <2>6, <3>1, FS_AddElement, FS_CardinalityType
  <2>8. NilOutcomes'
    BY <1>1, <1>6, <1>9, <2>1, <2>7 DEF NilOutcomes, l
  <2>9. ErrorsComeAhead'
    <3> SUFFICES ASSUME firstErr = NoClient, NEW c \in nacked
                 PROVE  Ahead(c)'
      BY <1>1, <2>1 DEF ErrorsComeAhead
    <3>1. Ahead(c) /\ c \in Clients
      BY <1>6 DEF ErrorsComeAhead
    <3>2. CASE handler[c] = "nack" /\ client[c] \notin Timed
      BY <1>1, <3>2 DEF Ahead
    <3>3. ASSUME c \notin Heard, NEW k \in 1..Len(errChan), ErrorOf(errChan[k], c),
                 \A j \in 1..Len(errChan) : NilOf(errChan[j], c) => k < j
          PROVE  Ahead(c)'
      <4>1. k # 1
        BY <1>2, <1>11, <3>3 DEF ErrorOf
      <4>2. k - 1 \in 1..l /\ errChan'[k - 1] = errChan[k]
        BY <1>4, <4>1
      <4>3. c # x.from
        BY <1>2, <2>2, <3>3
      <4>4. c \notin Heard'
        BY <2>5, <3>1, <3>3, <4>3
      <4>5. ASSUME NEW j \in 1..l, NilOf(errChan'[j], c)
            PROVE  k - 1 < j
        <5>1. errChan'[j] = errChan[j + 1] /\ j + 1 \in 1..Len(errChan)
          BY <1>3
        <5>2. k < j + 1
          BY <3>3, <4>5, <5>1
        <5> QED
          BY <5>2, <1>2
      <4>6. /\ k - 1 \in 1..Len(errChan') /\ ErrorOf(errChan'[k - 1], c)
            /\ \A j \in 1..Len(errChan') : NilOf(errChan'[j], c) => k - 1 < j
        BY <3>3, <4>2, <4>5 DEF l
      <4> QED
        BY <4>4, <4>6 DEF Ahead
    <3> QED
      BY <3>1, <3>2, <3>3 DEF Ahead
  <2> QED
    BY <1>1, <1>7, <1>8, <2>8, <2>9 DEF ResultsAreComplete
<1> QED
  BY <1>2, <1>10, <1>11

\* A step that moves no client and reports nothing.
LEMMA BystanderKeeps ==
  ASSUME IInv,
         UNCHANGED <<spawned, donewg, errChan, samples, collected, firstErr, client, nacked>>,
         main' = main \/ main' \notin {"panic", "results"},
         \A d \in Clients : handler[d] = "nack" => handler'[d] = "nack"
  PROVE  Books'
<1> USE DEF IInv, Books
<1>1. NilOutcomes' /\ ErrorsComeAhead'
  BY QuietReports
<1>2. Phases' /\ Accounts' /\ (samples = At(client, HasSampled))'
  BY DEF Phases, Accounts
<1>3. ResultsAreComplete'
  BY DEF ResultsAreComplete
<1> QED
  BY <1>1, <1>2, <1>3

LEMMA StartClientKeeps ==
  ASSUME IInv, StartClient, UNCHANGED feedVars
  PROVE  Books'
<1> USE DEF IInv, Books
<1> DEFINE c == spawned + 1
<1>1. /\ client' = [client EXCEPT ![c] = "born"] /\ main = "connect" /\ spawned < N
      /\ spawned' = spawned + 1 /\ donewg' = donewg + 1
      /\ UNCHANGED <<main, errChan, samples, collected, firstErr, handler, nacked>>
  BY DEF StartClient, feedVars
<1>2. /\ c \in Clients /\ c > spawned /\ spawned \in Nat
      /\ client \in [Clients -> ClientStates] /\ donewg \in Int
  BY <1>1, ClientsFinite DEF Clients, TypeOK, HarnessTypeOK
<1>3. Moves(c, "unborn", "born")
  BY <1>1, <1>2 DEF Moves, Phases, Running, Ended
<1> HIDE DEF c
<1>4. /\ "unborn" \notin OwesDone /\ "born" \in OwesDone
      /\ "unborn" \notin HasReported /\ "born" \notin HasReported
      /\ "unborn" \notin HasSampled /\ "born" \notin HasSampled
  BY DEF OwesDone, HasReported, HasSampled
<1>5. Cardinality(At(client', OwesDone)) = Cardinality(At(client, OwesDone)) + 1
  BY <1>2, <1>3, <1>4, ClientEnters
<1>6. At(client', HasReported) = At(client, HasReported)
  BY <1>2, <1>3, <1>4, ClientStays
<1>7. At(client', HasSampled) = At(client, HasSampled)
  BY <1>2, <1>3, <1>4, ClientStays
<1>8. \A d \in Clients : client'[d] = IF d = c THEN "born" ELSE client[d]
  BY <1>1, <1>2
<1>9. client[c] = "unborn"
  BY <1>3 DEF Moves
<1>10. Phases'
  <2>1. ASSUME NEW d \in Clients
        PROVE  client'[d] = "unborn" <=> d > spawned'
    <3>1. CASE d = c
      BY <1>1, <1>2, <1>8, <3>1 DEF c
    <3>2. CASE d # c
      <4>1. d \in Nat
        BY DEF Clients
      <4>2. d > spawned <=> d > spawned + 1
        BY <1>2, <3>2, <4>1 DEF c
      <4>3. client'[d] = "unborn" <=> d > spawned
        BY <1>8, <3>2 DEF Phases
      <4> QED
        BY <1>1, <4>2, <4>3
    <3> QED
      BY <3>1, <3>2
  <2> QED
    BY <2>1 DEF Phases
<1>11. Accounts'
  BY <1>1, <1>2, <1>5, <1>6, Zenon DEF Accounts
<1>12. NilOutcomes' /\ ErrorsComeAhead'
  <2>1. \A d \in Clients : client'[d] = "finished" <=> client[d] = "finished"
    BY <1>8, <1>9
  <2>2. \A d \in Clients : handler[d] = "nack" /\ client[d] \notin Timed =>
           handler'[d] = "nack" /\ client'[d] \notin Timed
    BY <1>1, <1>8, <1>9 DEF Timed
  <2> QED
    BY <1>1, <2>1, <2>2, QuietReports
<1>13. ResultsAreComplete'
  BY <1>1 DEF ResultsAreComplete
<1> QED
  BY <1>1, <1>7, <1>10, <1>11, <1>12, <1>13

\* Without an error and with N outcomes taken, main has heard of every client.
LEMMA FinishKeeps ==
  ASSUME IInv, Finish, UNCHANGED feedVars
  PROVE  Books'
<1> USE DEF IInv, Books
<1>1. /\ main = "collect" /\ collected = N
      /\ main' = IF firstErr = NoClient THEN "results" ELSE "error"
      /\ UNCHANGED <<spawned, donewg, errChan, samples, collected, firstErr, client, nacked,
                     handler>>
  BY DEF Finish, feedVars
<1>2. NilOutcomes' /\ ErrorsComeAhead'
  BY <1>1, QuietReports
<1>3. Phases' /\ Accounts' /\ (samples = At(client, HasSampled))'
  BY <1>1 DEF Phases, Accounts
<1>4. ASSUME firstErr = NoClient
      PROVE  samples = Clients /\ (\A c \in Clients : client[c] = "finished") /\ nacked = {}
  <2>1. Heard \subseteq Clients /\ IsFiniteSet(Clients) /\ Cardinality(Clients) = N
    BY ClientsFinite DEF Heard
  <2>2. Cardinality(Heard) = Cardinality(Clients)
    BY <1>1, <1>4, <2>1 DEF NilOutcomes
  <2>3. Heard = Clients
    BY <2>1, <2>2, FS_Subset
  <2>4. \A c \in Clients : client[c] = "finished"
    BY <2>3 DEF Heard
  <2>5. samples = Clients
    BY <2>4 DEF At, HasSampled
  <2>6. \A c \in Clients : ~Ahead(c)
    BY <2>3, <2>4 DEF Ahead, Timed
  <2>7. nacked = {}
    BY <1>4, <2>6 DEF ErrorsComeAhead, TypeOK
  <2> QED
    BY <2>4, <2>5, <2>7
<1>5. ResultsAreComplete'
  BY <1>1, <1>4 DEF ResultsAreComplete
<1> QED
  BY <1>2, <1>3, <1>5

LEMMA MainKeeps ==
  ASSUME IInv, Main
  PROVE  Books'
<1>1. MainNext /\ UNCHANGED feedVars
  BY DEF Main
<1>2. CASE ConnectFails \/ ClientsStarted \/ ClientsDone
  <2>1. /\ UNCHANGED <<spawned, donewg, errChan, samples, collected, firstErr, client, nacked,
                       handler>>
        /\ main' \notin {"panic", "results"}
    BY <1>1, <1>2 DEF ConnectFails, ClientsStarted, ClientsDone, feedVars
  <2> QED
    BY <2>1, BystanderKeeps
<1> QED
  BY <1>1, <1>2, StartClientKeeps, CollectKeeps, FinishKeeps DEF MainNext

-----------------------------------------------------------------------------
(***************************************************************************)
(* What belongs to one client.                                             *)
(***************************************************************************)

\* The values that belong to a client.
LEMMA Typed ==
  ASSUME TypeOK, NEW c \in Clients
  PROVE  /\ taken[c] \in Nat /\ inbox[c] \in Nat /\ received[c] \in Nat
         /\ ch[c] \in Seq(Nat) /\ interval[c] \in Seq(Nat) /\ Len(ch[c]) <= 2
         /\ Emitted(c) \in Seq(Nat) /\ Len(Emitted(c)) = Len(interval[c]) + Len(ch[c])
         /\ Len(interval[c]) \in Nat /\ Len(ch[c]) \in Nat /\ Len(Emitted(c)) \in Nat
         /\ kind \in Kinds /\ c \in Nat
         /\ Len(Emitted(c)) = 0 <=> Emitted(c) = <<>>
<1>1. /\ taken[c] \in 0..NumStored /\ inbox[c] \in 0..NumStored /\ received[c] \in Nat
      /\ ch[c] \in Seq(Nat) /\ interval[c] \in Seq(Nat) /\ Len(ch[c]) <= 2
      /\ kind \in Kinds
  BY DEF TypeOK
<1>2. interval[c] \o ch[c] \in Seq(Nat)
      /\ Len(interval[c] \o ch[c]) = Len(interval[c]) + Len(ch[c])
  BY <1>1, ConcatProperties
<1>3. \A s \in Seq(Nat) : Len(s) \in Nat /\ (Len(s) = 0 <=> s = <<>>)
  BY LenProperties, EmptySeq
<1>4. taken[c] \in Nat /\ inbox[c] \in Nat /\ c \in Nat
  BY <1>1, ConsumeAssumption DEF Clients
<1> QED
  BY <1>1, <1>2, <1>3, <1>4 DEF Emitted

\* The client's channel gets one more time stamp.
LEMMA StampSent ==
  ASSUME TypeOK, NEW c \in Clients, NEW n \in Nat,
         ch'[c] = Append(ch[c], n), interval'[c] = interval[c]
  PROVE  /\ Emitted(c)' = Append(Emitted(c), n)
         /\ Emitted(c)' # <<>>
         /\ Len(Emitted(c)') = Len(Emitted(c)) + 1
         /\ Emitted(c)'[Len(Emitted(c)) + 1] = n
         /\ \A k \in 1..Len(Emitted(c)) : Emitted(c)'[k] = Emitted(c)[k]
<1>1. ch[c] \in Seq(Nat) /\ interval[c] \in Seq(Nat) /\ Len(Emitted(c)) \in Nat
  BY Typed
<1> DEFINE i == interval[c]
           h == ch[c]
<1>2. Emitted(c)' = i \o Append(h, n) /\ Emitted(c) = i \o h
  BY DEF Emitted
<1> HIDE DEF i, h
<1>3. /\ i \o Append(h, n) = Append(i \o h, n)
      /\ Len(i \o Append(h, n)) = Len(i \o h) + 1
      /\ (i \o Append(h, n))[Len(i \o h) + 1] = n
      /\ \A k \in 1..Len(i \o h) : (i \o Append(h, n))[k] = (i \o h)[k]
  <2>1. i \in Seq(Nat) /\ h \in Seq(Nat)
    BY <1>1 DEF i, h
  <2> QED
    BY <2>1, StampIsEmitted
<1>4. Len(Emitted(c)') # 0 /\ Len(<<>>) = 0
  BY <1>1, <1>2, <1>3
<1> QED
  BY <1>2, <1>3, <1>4

-----------------------------------------------------------------------------
(***************************************************************************)
(* The acknowledgements.                                                   *)
(***************************************************************************)

\* A handler at an acknowledgement belongs to a client that still waits.
LEMMA AckingWaits ==
  ASSUME TypeOK, NEW c \in Clients, Follows(c), handler[c] \in {"ack", "nack", "nackDone"}
  PROVE  client[c] \notin Timed /\ kind \in Acking /\ kind \in Handled
<1>1. kind \in Acking
  BY DEF Follows, Handling
<1>2. kind \in Handled
  BY <1>1, KindFacts DEF TypeOK
<1>3. ASSUME client[c] \in Timed
      PROVE  FALSE
  <2>1. Len(interval[c]) = 2
    BY <1>3 DEF Follows, Stamps
  <2>2. Len(Emitted(c)) >= 2
    <3>1. Len(Emitted(c)) = Len(interval[c]) + Len(ch[c]) /\ Len(ch[c]) \in Nat
      BY Typed
    <3> QED
      BY <2>1, <3>1
  <2> QED
    BY <1>1, <1>2, <2>2 DEF Follows, HandlerStamps
<1> QED
  BY <1>1, <1>2, <1>3

LEMMA AckKeeps ==
  ASSUME IInv, NEW c \in Clients, Ack(c)
  PROVE  Books'
<1> USE DEF IInv, Books
<1>1. PICK ok \in AckOutcomes :
        /\ HandlerMoves(c, "ack", IF ok THEN AfterAck(received[c]) ELSE "nack")
        /\ nacked' = IF ok THEN nacked ELSE nacked \cup {c}
  BY DEF Ack
<1>2. /\ UNCHANGED <<main, spawned, donewg, errChan, samples, collected, firstErr, client>>
      /\ main # "results"
      /\ handler[c] = "ack" /\ handler \in [Clients -> HandlerStates]
  BY <1>1 DEF Ack, harnessVars, HandlerMoves, Running, Ended, TypeOK
<1>3. \A d \in Clients : d # c => handler'[d] = handler[d]
  BY <1>1, <1>2 DEF HandlerMoves
<1>4. CASE ok
  <2>1. nacked' = nacked
    BY <1>1, <1>4
  <2>2. \A d \in Clients : handler[d] = "nack" => handler'[d] = "nack"
    BY <1>2, <1>3
  <2> QED
    BY <1>2, <2>1, <2>2, BystanderKeeps
<1>5. CASE ~ok
  <2>1. nacked' = nacked \cup {c} /\ handler'[c] = "nack"
    BY <1>1, <1>2, <1>5 DEF HandlerMoves
  <2>2. client[c] \notin Timed
    BY <1>2, AckingWaits
  <2>3. Heard' = Heard
    BY <1>2 DEF Heard
  <2>4. NilOutcomes'
    BY <1>2, <2>3 DEF NilOutcomes
  <2>5. ErrorsComeAhead'
    <3>1. ASSUME NEW d \in Clients, Ahead(d)
          PROVE  Ahead(d)'
      BY <1>2, <1>3, <2>1, <2>3, <3>1 DEF Ahead
    <3>2. Ahead(c)'
      BY <1>2, <2>1, <2>2 DEF Ahead
    <3> QED
      BY <1>2, <2>1, <3>1, <3>2 DEF ErrorsComeAhead, TypeOK
  <2>6. Accounts' /\ Phases' /\ (samples = At(client, HasSampled))'
    BY <1>2, <2>1 DEF Accounts, Phases
  <2>7. ResultsAreComplete'
    BY <1>2 DEF ResultsAreComplete
  <2> QED
    BY <2>4, <2>5, <2>6, <2>7
<1> QED
  BY <1>4, <1>5

LEMMA SendAckErrorKeeps ==
  ASSUME IInv, NEW c \in Clients, SendAckError(c)
  PROVE  Books'
<1> USE DEF IInv, Books
<1>1. /\ UNCHANGED <<main, spawned, donewg, samples, collected, firstErr, client, nacked>>
      /\ main # "results"
      /\ errChan' = Append(errChan, [from |-> c, ok |-> FALSE])
      /\ handler[c] = "nack" /\ handler \in [Clients -> HandlerStates]
      /\ handler' = [handler EXCEPT ![c] = "nackDone"]
  BY DEF SendAckError, HandlerMoves, Running, Ended, TypeOK
<1>2. client[c] \notin Timed
  BY <1>1, AckingWaits
<1>3. c \in nacked
  BY <1>1 DEF Follows, Handling
<1>4. /\ NilOutcomes'
      /\ client[c] # "finished" => Ahead(c)'
      /\ \A d \in Clients :
           /\ Ahead(d)
           /\ handler[d] = "nack" /\ client[d] \notin Timed =>
                handler'[d] = "nack" /\ client'[d] \notin Timed
           => Ahead(d)'
  BY <1>1, ErrorJoins
<1>5. ErrorsComeAhead'
  <2>1. Ahead(c)'
    BY <1>2, <1>4 DEF Timed
  <2>2. \A d \in Clients : d # c /\ Ahead(d) => Ahead(d)'
    BY <1>1, <1>4
  <2> QED
    BY <1>1, <2>1, <2>2 DEF ErrorsComeAhead, TypeOK
<1>6. Accounts' /\ Phases' /\ (samples = At(client, HasSampled))'
  BY <1>1, <1>3 DEF Accounts, Phases
<1>7. ResultsAreComplete'
  BY <1>1 DEF ResultsAreComplete
<1> QED
  BY <1>4, <1>5, <1>6, <1>7

LEMMA ReleaseKeeps ==
  ASSUME IInv, NEW c \in Clients, ReleaseAfterAckError(c)
  PROVE  Books'
<1> USE DEF IInv, Books
<1>1. /\ UNCHANGED <<spawned, samples, collected, firstErr, client, nacked, errChan>>
      /\ main # "results" /\ main' \in {main, "panic"}
      /\ handler[c] = "nackDone" /\ handler \in [Clients -> HandlerStates]
      /\ handler' = [handler EXCEPT ![c] = "idle"]
  BY DEF ReleaseAfterAckError, HandlerMoves, Running, Ended, TypeOK
<1>2. c \in nacked
  BY <1>1 DEF Follows, Handling
<1>3. NilOutcomes' /\ ErrorsComeAhead'
  BY <1>1, QuietReports
<1>4. Accounts' /\ Phases' /\ (samples = At(client, HasSampled))'
  BY <1>1, <1>2 DEF Accounts, Phases
<1>5. ResultsAreComplete'
  BY <1>1 DEF ResultsAreComplete
<1> QED
  BY <1>3, <1>4, <1>5

-----------------------------------------------------------------------------
(***************************************************************************)
(* What a step makes of the client that takes it.                          *)
(***************************************************************************)

\* The client goes on in its program and nothing else about it changes.
LEMMA TurnFollows ==
  ASSUME TypeOK, NEW c \in Clients, Follows(c), NEW from, NEW to,
         client[c] = from, client'[c] = to, UNCHANGED feedVars,
         to \in {"unborn", "born"} => from \in {"unborn", "born"},
         to \in {"attached", "started", "fetch", "drain"} =>
           from \in {"attached", "started", "fetch", "drain"} \/ kind \in Getting,
         to \in {"fetch", "drain"} => kind \in Pulled,
         from = "drain" => inbox[c] = 0,
         to = "get" => kind \in Getting /\ kind # "kvget",
         to \in SettingUp => from \in SettingUp,
         to \in Timed <=> from \in Timed, from # "wait"
  PROVE  Follows(c)'
<1>1. Want(c)' = Want(c) /\ FirstStamp' = FirstStamp /\ Emitted(c)' = Emitted(c)
  BY Wants DEF feedVars, FirstStamp, Emitted
<1>2. Feed(c)'
  BY <1>1 DEF Follows, Feed, feedVars
<1>3. Handling(c)' /\ HandlerStamps(c)'
  BY <1>1 DEF Follows, Handling, HandlerStamps, feedVars
<1>4. GetStamps(c)'
  BY <1>1 DEF Follows, GetStamps, feedVars
<1>5. Stamps(c)'
  <2>1. to \notin Timed => interval[c] = <<>>
    BY DEF Follows, Stamps
  <2>2. Len(<<>>) <= 1 /\ (to = "wait" => to \notin Timed)
    BY DEF Timed
  <2> QED
    BY <1>1, <2>1, <2>2 DEF Follows, Stamps, feedVars
<1> QED
  BY <1>2, <1>3, <1>4, <1>5 DEF Follows

LEMMA AttachFollows ==
  ASSUME TypeOK, NEW c \in Clients, Follows(c), Attach(c)
  PROVE  Follows(c)'
<1>1. /\ client[c] = "born" /\ client'[c] = "attached"
      /\ kind' = kind /\ inbox' = inbox /\ taken' = taken /\ received' = received
      /\ handler' = handler /\ interval' = interval /\ nacked' = nacked
      /\ attached' = IF kind \in Getting THEN attached ELSE attached \cup {c}
  BY DEF Attach, LocalStep, Moves, TypeOK
<1>2. CASE kind \in Getting
  <2>1. UNCHANGED feedVars
    BY <1>1, <1>2, KindFacts, Typed DEF Attach, feedVars
  <2> QED
    BY <1>1, <1>2, <2>1, TurnFollows DEF Timed, SettingUp
<1>3. CASE kind \notin Getting
  <2>1. kind \in Handled /\ c \notin attached /\ c \in attached'
    BY <1>1, <1>3, KindFacts, Typed DEF Follows, Feed
  <2>2. Emitted(c) = <<>> /\ received[c] = 0 /\ taken[c] = 0 /\ inbox[c] = 0
        /\ handler[c] = "idle" /\ interval[c] = <<>>
    <3>1. Emitted(c) = <<>> /\ received[c] = 0 /\ ~(taken[c] > 0)
      BY <2>1 DEF Follows, Feed, HandlerStamps
    <3>2. taken[c] = received[c] + inbox[c]
      BY <1>3 DEF Follows, Feed
    <3>3. taken[c] = 0 /\ inbox[c] = 0
      <4>1. taken[c] \in Nat /\ inbox[c] \in Nat
        BY Typed
      <4> QED
        BY <3>1, <3>2, <4>1
    <3>4. interval[c] = <<>>
      BY <1>1 DEF Follows, Stamps, Timed
    <3>5. handler[c] = "idle"
      BY <2>1 DEF Follows, Handling
    <3> QED
      BY <3>1, <3>3, <3>4, <3>5
  <2>3. Want(c)' = Want(c) /\ FirstStamp' = FirstStamp /\ Want(c) \in Nat
    BY <1>1, Wants DEF FirstStamp
  <2>4. Feed(c)'
    BY <1>1, <1>3, <2>1, <2>2, <2>3 DEF Follows, Feed
  <2>5. Handling(c)'
    BY <1>1, <2>2 DEF Follows, Handling
  <2>6. CASE kind \in Early
    <3>1. ch'[c] = Append(ch[c], 0)
      BY <2>6 DEF Attach, Stamp, TypeOK
    <3>2. Len(Emitted(c)') = 1 /\ Emitted(c)'[1] = 0 /\ Emitted(c)' # <<>>
      <4>1. Len(Emitted(c)) = 0 /\ 0 \in Nat
        BY <2>2
      <4>2. /\ Emitted(c)' # <<>> /\ Len(Emitted(c)') = Len(Emitted(c)) + 1
            /\ Emitted(c)'[Len(Emitted(c)) + 1] = 0
        BY <1>1, <3>1, <4>1, StampSent
      <4>3. Len(Emitted(c)) + 1 = 1
        BY <4>1
      <4> QED
        BY <4>2, <4>3
    <3>3. HandlerStamps(c)'
      BY <1>1, <2>1, <2>2, <2>3, <2>6, <3>2 DEF HandlerStamps, FirstStamp
    <3>4. Stamps(c)' /\ GetStamps(c)'
      BY <1>1, <1>3, <2>2, <3>2 DEF Stamps, GetStamps, Timed
    <3> QED
      BY <2>4, <2>5, <3>3, <3>4 DEF Follows
  <2>7. CASE kind \notin Early
    <3>1. Emitted(c)' = <<>>
      BY <1>1, <2>2, <2>7 DEF Attach, Emitted
    <3>2. HandlerStamps(c)'
      BY <1>1, <2>1, <2>2, <2>3, <2>7, <3>1 DEF HandlerStamps
    <3>3. Stamps(c)' /\ GetStamps(c)'
      BY <1>1, <1>3, <2>2, <3>1 DEF Stamps, GetStamps, Timed
    <3> QED
      BY <2>4, <2>5, <3>2, <3>3 DEF Follows
  <2> QED
    BY <2>6, <2>7
<1> QED
  BY <1>2, <1>3

LEMMA EnterFollows ==
  ASSUME TypeOK, NEW c \in Clients, Follows(c), Enter(c)
  PROVE  Follows(c)'
<1>1. /\ client[c] = "started"
      /\ client'[c] = IF kind \in Pulled THEN "fetch"
                      ELSE IF kind \in Getting THEN "get" ELSE "wait"
      /\ kind' = kind /\ inbox' = inbox /\ taken' = taken /\ received' = received
      /\ handler' = handler /\ interval' = interval /\ nacked' = nacked
      /\ attached' = attached
  BY DEF Enter, LocalStep, Moves, TypeOK
<1>2. CASE kind # "kvget"
  <2>1. UNCHANGED feedVars
    BY <1>1, <1>2 DEF Enter, feedVars
  <2>2. CASE kind \in Pulled
    BY <1>1, <2>1, <2>2, TurnFollows DEF Timed, SettingUp
  <2>3. CASE kind \notin Pulled /\ kind \in Getting
    BY <1>1, <1>2, <2>1, <2>3, TurnFollows DEF Timed, SettingUp
  <2>4. CASE kind \notin Pulled /\ kind \notin Getting
    BY <1>1, <2>1, <2>4, TurnFollows DEF Timed, SettingUp
  <2> QED
    BY <2>2, <2>3, <2>4
<1>3. CASE kind = "kvget"
  <2>1. kind \in Getting /\ kind \notin Handled /\ kind \notin Pulled
        /\ client'[c] = "get"
    BY <1>1, <1>3 DEF Getting, Handled, Pushed, Pulled
  <2>2. Emitted(c) = <<>> /\ interval[c] = <<>>
    BY <1>1, <1>3, <2>1 DEF Follows, GetStamps, Stamps, SettingUp, Timed
  <2>3. ch'[c] = Append(ch[c], 0)
    BY <1>3 DEF Enter, Stamp, TypeOK
  <2>4. Emitted(c)' = <<0>>
    <3>1. Append(<<>>, 0) = <<0>> /\ 0 \in Nat
      OBVIOUS
    <3>2. Emitted(c)' = Append(Emitted(c), 0)
      BY <1>1, <2>3, <3>1, StampSent
    <3> QED
      BY <2>2, <3>1, <3>2
  <2>5. Want(c)' = Want(c)
    BY <1>1, Wants
  <2>6. Feed(c)' /\ Handling(c)' /\ HandlerStamps(c)'
    BY <1>1, <2>1, <2>5 DEF Follows, Feed, Handling, HandlerStamps
  <2>7. GetStamps(c)'
    BY <1>1, <1>3, <2>1, <2>4, <2>5 DEF Follows, GetStamps, SettingUp
  <2>8. Stamps(c)'
    BY <1>1, <2>1, <2>2, <2>4 DEF Stamps, Timed
  <2> QED
    BY <2>6, <2>7, <2>8 DEF Follows
<1> QED
  BY <1>2, <1>3

LEMMA FetchFollows ==
  ASSUME TypeOK, NEW c \in Clients, Follows(c), Fetch(c)
  PROVE  Follows(c)'
<1>1. PICK n \in 1..BatchSize :
        /\ n <= Want(c) - received[c] /\ n <= Left(c)
        /\ inbox' = [inbox EXCEPT ![c] = n]
        /\ taken' = [taken EXCEPT ![c] = @ + n]
  BY DEF Fetch
<1>2. /\ client[c] = "fetch" /\ client'[c] = "drain"
      /\ kind' = kind /\ attached' = attached /\ received' = received
      /\ handler' = handler /\ interval' = interval /\ nacked' = nacked /\ ch' = ch
      /\ inbox'[c] = n /\ taken'[c] = taken[c] + n /\ n \in Nat
  BY <1>1, ConsumeAssumption DEF Fetch, LocalStep, Moves, TypeOK
<1>3. /\ kind \in Pulled /\ kind \notin Getting /\ inbox[c] = 0 /\ c \in attached
      /\ taken[c] = received[c] + inbox[c]
  BY <1>2, Typed, KindFacts DEF Follows, Feed, Handled
<1>4. Want(c)' = Want(c) /\ FirstStamp' = FirstStamp /\ Emitted(c)' = Emitted(c)
      /\ Want(c) \in Nat /\ received[c] \in Nat /\ taken[c] \in Nat
  BY <1>2, Wants, Typed DEF FirstStamp, Emitted
<1>5. taken'[c] = received[c] + n /\ taken'[c] <= Want(c)
  BY <1>1, <1>2, <1>3, <1>4
<1>6. Feed(c)'
  BY <1>2, <1>3, <1>4, <1>5 DEF Follows, Feed
<1>7. Handling(c)' /\ HandlerStamps(c)'
  BY <1>2, <1>4 DEF Follows, Handling, HandlerStamps
<1>8. GetStamps(c)' /\ Stamps(c)'
  BY <1>2, <1>3, <1>4 DEF Follows, GetStamps, Stamps, Timed
<1> QED
  BY <1>6, <1>7, <1>8 DEF Follows

LEMMA ArriveFollows ==
  ASSUME TypeOK, NEW c \in Clients, Follows(c), Arrive(c)
  PROVE  Follows(c)'
<1>1. /\ kind' = kind /\ attached' = attached /\ received' = received
      /\ handler' = handler /\ interval' = interval /\ nacked' = nacked /\ ch' = ch
      /\ client' = client /\ inbox[c] = 0
      /\ inbox'[c] = 1 /\ taken'[c] = taken[c] + 1 /\ c \in attached
      /\ kind \in Pushed /\ (kind \in StopsAfterShare => taken[c] < Want(c))
  BY DEF Arrive, harnessVars, TypeOK
<1>2. kind \notin Pulled /\ kind \notin Getting
  BY <1>1, Typed, KindFacts DEF Handled
<1>3. Want(c)' = Want(c) /\ FirstStamp' = FirstStamp /\ Emitted(c)' = Emitted(c)
      /\ Want(c) \in Nat /\ received[c] \in Nat /\ taken[c] \in Nat
  BY <1>1, Wants, Typed DEF FirstStamp, Emitted
<1>4. Feed(c)'
  BY <1>1, <1>2, <1>3 DEF Follows, Feed, Bounded
<1>5. Handling(c)' /\ HandlerStamps(c)'
  BY <1>1, <1>3 DEF Follows, Handling, HandlerStamps
<1>6. GetStamps(c)' /\ Stamps(c)'
  BY <1>1, <1>2, <1>3 DEF Follows, GetStamps, Stamps
<1> QED
  BY <1>4, <1>5, <1>6 DEF Follows

\* The time stamps of a client that requests its messages.
LEMMA TwoStamps ==
  ASSUME NEW w \in Nat
  PROVE  /\ Append(<<0>>, w) = <<0, w>> /\ <<0>> \o <<w>> = <<0, w>>
         /\ <<0, w>>[1] = 0 /\ <<0, w>>[2] = w
         /\ Len(<<>>) = 0 /\ Len(<<0>>) = 1 /\ Len(<<0, w>>) = 2
         /\ <<>> \in Seq(Nat) /\ <<0>> \in Seq(Nat) /\ <<w>> \in Seq(Nat)
         /\ <<0, w>> \in Seq(Nat)
         /\ \A s \in Seq(Nat) : <<>> \o s = s /\ s \o <<>> = s
<1>1. /\ <<>> \in Seq(Nat) /\ <<0>> \in Seq(Nat) /\ <<w>> \in Seq(Nat)
      /\ <<0, w>> \in Seq(Nat) /\ Append(<<0>>, w) \in Seq(Nat)
  OBVIOUS
<1>2. Len(<<0>>) = 1 /\ Len(<<0, w>>) = 2 /\ Len(Append(<<0>>, w)) = 2
  BY <1>1
<1>3. Append(<<0>>, w)[1] = 0 /\ Append(<<0>>, w)[2] = w
  BY <1>1, <1>2, AppendProperties
<1>4. \A k \in 1..2 : Append(<<0>>, w)[k] = <<0, w>>[k]
  BY <1>3
<1>5. Append(<<0>>, w) = <<0, w>>
  BY <1>1, <1>2, <1>4, SeqEqual
<1>6. <<0>> \o <<w>> = Append(<<0>>, w)
  BY <1>1, AppendIsConcat
<1>7. \A s \in Seq(Nat) : <<>> \o s = s /\ s \o <<>> = s
  BY ConcatEmptySeq
<1>8. <<0, w>>[1] = 0 /\ <<0, w>>[2] = w /\ Len(<<>>) = 0
  OBVIOUS
<1> QED
  BY <1>1, <1>2, <1>5, <1>6, <1>7, <1>8

\* What a get adds to the channel of a client, which is all it has emitted.
LEMMA GetFollows ==
  ASSUME TypeOK, NEW c \in Clients, Follows(c), Get(c)
  PROVE  Follows(c)' /\ Len(ch'[c]) <= 2 /\ received'[c] \in Nat /\ ch'[c] \in Seq(Nat)
<1> DEFINE first == IF received[c] = 0 /\ kind # "kvget" THEN <<0>> ELSE <<>>
           last(n) == IF received[c] + n = Want(c) /\ kind # "kvget"
                      THEN <<Want(c)>> ELSE <<>>
<1>1. PICK n \in Bring(c) :
        /\ received' = [received EXCEPT ![c] = @ + n]
        /\ ch' = [ch EXCEPT ![c] = @ \o first \o last(n)]
  BY DEF Get
<1>2. /\ client[c] = "get" /\ client'[c] = "get" /\ received[c] < Want(c)
      /\ kind' = kind /\ attached' = attached /\ inbox' = inbox
      /\ handler' = handler /\ interval' = interval /\ nacked' = nacked /\ taken' = taken
      /\ received'[c] = received[c] + n /\ ch'[c] = ch[c] \o first \o last(n)
  BY <1>1 DEF Get, LocalStep, Moves, TypeOK
<1>3. kind \in Getting /\ kind \notin Handled /\ interval[c] = <<>>
  BY <1>2, KindFacts, Typed DEF Follows, Feed, Stamps, Timed
<1>4. Want(c)' = Want(c) /\ Want(c) \in Nat /\ received[c] \in Nat
  BY <1>2, Wants, Typed
<1>5. n \in Nat \ {0} /\ n <= Want(c) - received[c]
  BY <1>2, <1>4, ConsumeAssumption DEF Bring
<1>6. Emitted(c) = ch[c] /\ Emitted(c)' = ch'[c]
  <2>1. \A s \in Seq(Nat) : <<>> \o s = s
    BY <1>4, TwoStamps
  <2>2. ch[c] \in Seq(Nat)
    BY Typed
  <2>3. first \in Seq(Nat) /\ last(n) \in Seq(Nat)
    BY <1>4, TwoStamps
  <2>4. ch[c] \o first \o last(n) \in Seq(Nat)
    BY <2>2, <2>3, ConcatProperties
  <2> QED
    BY <1>2, <1>3, <2>1, <2>2, <2>4 DEF Emitted
<1>7. /\ kind = "kvget" => ch[c] = <<0>>
      /\ kind # "kvget" => ch[c] = IF received[c] = 0 THEN <<>> ELSE <<0>>
  BY <1>2, <1>3, <1>6 DEF Follows, GetStamps
<1>8. /\ <<>> \o <<0>> = <<0>> /\ <<0>> \o <<>> = <<0>>
      /\ \A w \in Nat : <<0>> \o <<w>> = <<0, w>> /\ Len(<<0, w>>) = 2
      /\ Len(<<0>>) = 1
  <2>1. \A w \in Nat : <<0>> \o <<w>> = <<0, w>> /\ Len(<<0, w>>) = 2
    BY TwoStamps
  <2> QED
    BY <1>4, <2>1, TwoStamps
<1>9. ch'[c] = IF received[c] + n = Want(c) /\ kind # "kvget" THEN <<0, Want(c)>> ELSE <<0>>
  <2>1. ch[c] \o first = <<0>>
    BY <1>7, <1>8
  <2> QED
    BY <1>2, <1>4, <1>8, <2>1
<1> HIDE DEF first, last
<1>10. Feed(c)' /\ Handling(c)' /\ HandlerStamps(c)'
  <2>1. taken[c] = 0 + inbox[c] /\ inbox[c] = 0
    BY <1>3 DEF Follows, Feed
  <2>2. Feed(c)'
    BY <1>2, <1>3, <1>4, <2>1 DEF Follows, Feed
  <2>3. handler[c] = "idle"
    BY <1>3 DEF Follows, GetStamps
  <2>4. Handling(c)' /\ HandlerStamps(c)'
    BY <1>2, <1>3, <2>3 DEF Follows, Handling, HandlerStamps
  <2> QED
    BY <2>2, <2>4
<1>11. GetStamps(c)'
  <2>1. received'[c] <= Want(c) /\ received'[c] # 0 /\ received'[c] \in Nat
        /\ (received'[c] < Want(c) <=> received[c] + n # Want(c))
    <3>1. received'[c] = received[c] + n
      BY <1>2
    <3> QED
      BY <1>4, <1>5, <3>1
  <2> QED
    BY <1>2, <1>3, <1>4, <1>6, <1>7, <1>9, <2>1 DEF Follows, GetStamps, SettingUp
<1>12. Stamps(c)'
  <2>1. FirstStamp' = 0
    BY <1>2, <1>3 DEF FirstStamp
  <2>2. Len(<<0>>) = 1 /\ \A w \in Nat : <<0, w>>[1] = 0 /\ <<0, w>>[2] = w
    OBVIOUS
  <2> QED
    BY <1>2, <1>3, <1>4, <1>6, <1>9, <2>1, <2>2 DEF Stamps, Timed
<1>13. Len(ch'[c]) <= 2 /\ received'[c] \in Nat /\ ch'[c] \in Seq(Nat)
  BY <1>2, <1>4, <1>5, <1>8, <1>9
<1> QED
  BY <1>10, <1>11, <1>12, <1>13 DEF Follows

LEMMA GotAllFollows ==
  ASSUME TypeOK, NEW c \in Clients, Follows(c), GotAll(c)
  PROVE  Follows(c)'
<1>1. /\ client[c] = "get" /\ client'[c] = "wait" /\ received[c] = Want(c)
      /\ kind' = kind /\ attached' = attached /\ inbox' = inbox /\ received' = received
      /\ handler' = handler /\ interval' = interval /\ nacked' = nacked /\ taken' = taken
  BY DEF GotAll, LocalStep, Moves, TypeOK
<1>2. CASE kind # "kvget"
  <2>1. UNCHANGED feedVars
    BY <1>1, <1>2 DEF GotAll, feedVars
  <2> QED
    BY <1>1, <2>1, TurnFollows DEF Timed, SettingUp
<1>3. CASE kind = "kvget"
  <2>1. kind \in Getting /\ kind \notin Handled
    BY <1>3 DEF Getting, Handled, Pushed, Pulled
  <2>2. Emitted(c) = <<0>> /\ interval[c] = <<>>
    BY <1>1, <1>3, <2>1 DEF Follows, GetStamps, Stamps, Timed
  <2>3. ch'[c] = Append(ch[c], Want(c))
    BY <1>1, <1>3 DEF GotAll, Stamp, TypeOK
  <2>4. Want(c)' = Want(c) /\ FirstStamp' = 0 /\ Want(c) \in Nat
    BY <1>1, <2>1, Wants DEF FirstStamp
  <2>5. Emitted(c)' = <<0, Want(c)>>
    <3>1. \A w \in Nat : Append(<<0>>, w) = <<0, w>>
      BY TwoStamps
    <3>2. Emitted(c)' = Append(Emitted(c), Want(c))
      BY <1>1, <2>3, <2>4, StampSent
    <3> QED
      BY <2>2, <2>4, <3>1, <3>2
  <2>6. Feed(c)' /\ Handling(c)' /\ HandlerStamps(c)'
    BY <1>1, <2>1, <2>4 DEF Follows, Feed, Handling, HandlerStamps
  <2>7. GetStamps(c)'
    BY <1>1, <1>3, <2>4 DEF Follows, GetStamps, SettingUp
  <2>8. Stamps(c)'
    <3>1. Len(<<>>) = 0 /\ \A w \in Nat : <<0, w>>[1] = 0 /\ <<0, w>>[2] = w
      OBVIOUS
    <3> QED
      BY <1>1, <2>2, <2>4, <2>5, <3>1 DEF Stamps, Timed
  <2> QED
    BY <2>6, <2>7, <2>8 DEF Follows
<1> QED
  BY <1>2, <1>3

LEMMA TakeStampFollows ==
  ASSUME TypeOK, NEW c \in Clients, Follows(c), TakeStamp(c)
  PROVE  /\ Follows(c)'
         /\ ch'[c] \in Seq(Nat) /\ interval'[c] \in Seq(Nat) /\ Len(ch'[c]) <= 2
         /\ client'[c] = "sample" => handler[c] # "nack"
<1>1. /\ client[c] = "wait" /\ ch[c] # <<>>
      /\ client'[c] = IF Len(interval[c]) = 1 THEN "sample" ELSE "wait"
      /\ kind' = kind /\ attached' = attached /\ inbox' = inbox /\ received' = received
      /\ handler' = handler /\ nacked' = nacked /\ taken' = taken
      /\ interval'[c] = Append(interval[c], Head(ch[c])) /\ ch'[c] = Tail(ch[c])
  BY DEF TakeStamp, LocalStep, Moves, TypeOK
<1>2. ch[c] \in Seq(Nat) /\ interval[c] \in Seq(Nat)
  BY Typed
<1>3. /\ Emitted(c)' = Emitted(c)
      /\ ch'[c] \in Seq(Nat) /\ interval'[c] \in Seq(Nat)
      /\ Len(interval'[c]) = Len(interval[c]) + 1
      /\ Len(ch'[c]) = Len(ch[c]) - 1
  <2> DEFINE i == interval[c]
             h == ch[c]
  <2>1. i \in Seq(Nat) /\ h \in Seq(Nat) /\ h # <<>>
    BY <1>1, <1>2
  <2>2. /\ Emitted(c) = i \o h /\ Emitted(c)' = Append(i, Head(h)) \o Tail(h)
        /\ ch'[c] = Tail(h) /\ interval'[c] = Append(i, Head(h))
    BY <1>1 DEF Emitted
  <2>3. i = interval[c] /\ h = ch[c]
    OBVIOUS
  <2> HIDE DEF i, h
  <2>4. /\ Append(i, Head(h)) \o Tail(h) = i \o h
        /\ Append(i, Head(h)) \in Seq(Nat) /\ Tail(h) \in Seq(Nat)
        /\ Len(Append(i, Head(h))) = Len(i) + 1
        /\ Len(Tail(h)) = Len(h) - 1
    BY <2>1, StampIsTaken
  <2> QED
    BY <2>2, <2>3, <2>4
<1>4. Want(c)' = Want(c) /\ FirstStamp' = FirstStamp
  BY <1>1, Wants DEF FirstStamp
<1>5. Len(interval[c]) <= 1 /\ Len(interval[c]) \in Nat /\ Len(ch[c]) <= 2
      /\ Len(ch[c]) \in Nat
  BY <1>1, Typed DEF Follows, Stamps
<1>6. Feed(c)' /\ Handling(c)' /\ HandlerStamps(c)'
  BY <1>1, <1>3, <1>4 DEF Follows, Feed, Handling, HandlerStamps
<1>7. GetStamps(c)'
  BY <1>1, <1>3, <1>4 DEF Follows, GetStamps, SettingUp
<1>8. Stamps(c)'
  <2>1. Len(interval[c]) = 1 => Len(interval'[c]) = 2
    BY <1>3
  <2>2. Len(interval[c]) # 1 => Len(interval'[c]) = 1
    <3> SUFFICES ASSUME Len(interval[c]) # 1 PROVE Len(interval'[c]) = 1
      OBVIOUS
    <3> DEFINE k == Len(interval[c])
    <3>1. k \in Nat /\ k <= 1 /\ k # 1
      BY <1>5
    <3>2. Len(interval'[c]) = k + 1
      BY <1>3
    <3> HIDE DEF k
    <3>3. k = 0
      BY <3>1
    <3> QED
      BY <3>2, <3>3
  <2> QED
    BY <1>1, <1>3, <1>4, <2>1, <2>2 DEF Follows, Stamps, Timed
<1>9. ASSUME client'[c] = "sample", handler[c] = "nack"
      PROVE  FALSE
  <2>1. kind \in Acking /\ kind \in Handled
    BY <1>9, AckingWaits
  <2>2. Len(Emitted(c)) >= 2
    <3>1. Len(interval[c]) = 1
      BY <1>1, <1>9
    <3>2. Len(Emitted(c)) = Len(interval[c]) + Len(ch[c])
      BY Typed
    <3>3. Len(ch[c]) # 0
      BY <1>1, <1>2
    <3> QED
      BY <1>5, <3>1, <3>2, <3>3
  <2> QED
    BY <1>9, <2>1, <2>2 DEF Follows, HandlerStamps
<1> QED
  BY <1>3, <1>5, <1>6, <1>7, <1>8, <1>9 DEF Follows

\* A client whose messages may not exceed its share has none left to handle
\* once it has handled that many.
LEMMA NoneLeft ==
  ASSUME TypeOK, NEW c \in Clients, Follows(c), inbox[c] > 0, kind \in Handled
  PROVE  /\ c \in attached
         /\ kind \in Bounded => received[c] < Want(c)
         /\ kind \notin Bounded => Want(c) >= 1
<1>1. taken[c] \in Nat /\ inbox[c] \in Nat /\ received[c] \in Nat /\ Want(c) \in Nat
  BY Typed, Wants
<1>2. taken[c] = received[c] + inbox[c]
  BY KindFacts, Typed DEF Follows, Feed
<1>3. c \in attached
  BY <1>1, <1>2 DEF Follows, Feed
<1>4. kind \in Bounded => taken[c] <= Want(c)
  BY DEF Follows, Feed
<1>5. ASSUME kind \notin Bounded
      PROVE  Want(c) >= 1
  <2>1. kind \in Broadcast
    BY <1>5, KindFacts, Typed
  <2>2. Want(c) \in Nat \ {0}
    BY <2>1, Wants
  <2> QED
    BY <2>2
<1> QED
  BY <1>1, <1>2, <1>3, <1>4, <1>5

LEMMA HandleFollows ==
  ASSUME TypeOK, NEW c \in Clients, Follows(c), Handle(c)
  PROVE  Follows(c)'
<1>1. /\ inbox[c] > 0 /\ handler[c] = "idle" /\ client' = client
      /\ handler'[c] = IF kind \in Acking THEN "ack" ELSE AfterAck(received[c] + 1)
      /\ inbox'[c] = inbox[c] - 1 /\ received'[c] = received[c] + 1
      /\ kind' = kind /\ attached' = attached /\ taken' = taken
      /\ interval' = interval /\ nacked' = nacked /\ ch' = ch
  BY DEF Handle, HandlerMoves, harnessVars, TypeOK
<1>2. Want(c)' = Want(c) /\ FirstStamp' = FirstStamp /\ Emitted(c)' = Emitted(c)
      /\ Want(c) \in Nat
  BY <1>1, Wants DEF FirstStamp, Emitted
<1>3. received[c] \in Nat /\ inbox[c] \in Nat /\ taken[c] \in Nat
      /\ Len(Emitted(c)) \in Nat
  BY Typed
<1>4. kind \in Handled /\ kind \notin Getting
  <2>1. kind \notin Getting
    BY <1>1, <1>3 DEF Follows, Feed
  <2> QED
    BY <2>1, KindFacts, Typed
<1>5. /\ c \in attached
      /\ kind \in Bounded => received[c] < Want(c)
      /\ kind \notin Bounded => Want(c) >= 1
  BY <1>1, <1>4, NoneLeft
<1>6. kind \in Acking => kind \in Bounded
  BY KindFacts, Typed
<1>7. c \in nacked => received[c] < Want(c)
  BY <1>5, <1>6 DEF Follows, Handling
<1>8. received'[c] >= 1 /\ received'[c] \in Nat
  BY <1>1, <1>3
<1>9. handler'[c] \in {"ack", "start", "end"}
  BY <1>1 DEF AfterAck
<1>10. Feed(c)'
  <2>1. taken'[c] = received'[c] + inbox'[c]
    BY <1>1, <1>3, <1>4 DEF Follows, Feed
  <2>2. kind \in Pulled /\ client[c] # "drain" => inbox'[c] = 0
    BY <1>1 DEF Follows, Feed
  <2> QED
    BY <1>1, <1>2, <1>4, <2>1, <2>2 DEF Follows, Feed
<1>11. Handling(c)'
  <2>1. handler'[c] = "ack" => kind \in Acking
    BY <1>1 DEF AfterAck
  <2> QED
    BY <1>1, <1>5, <1>8, <1>9, <2>1 DEF Follows, Handling
<1>12. HandlerStamps(c)'
  <2>1. kind \notin Early /\ received'[c] = 1 => Emitted(c) = <<>>
    <3>1. received'[c] = 1 => received[c] = 0
      BY <1>1, <1>3
    <3> QED
      BY <1>4, <3>1 DEF Follows, HandlerStamps
  <2>2. handler'[c] = "start" => received'[c] = 1 /\ kind \notin Early
    BY <1>1 DEF AfterAck
  <2>3. Emitted(c) = <<>> /\ c \notin nacked /\ kind \notin Early =>
          received'[c] = 1 /\ handler'[c] \in {"ack", "start"}
    <3> SUFFICES ASSUME Emitted(c) = <<>>, c \notin nacked, kind \notin Early
                 PROVE  received'[c] = 1 /\ handler'[c] \in {"ack", "start"}
      OBVIOUS
    <3>1. ~(received[c] >= 1)
      BY <1>1, <1>4 DEF Follows, HandlerStamps
    <3>2. received[c] = 0 /\ received[c] + 1 = 1
      BY <1>3, <3>1
    <3> QED
      BY <1>1, <3>2 DEF AfterAck
  <2>4. ~(Len(Emitted(c)) = 1 /\ Emitted(c)[1] # FirstStamp)
    <3> SUFFICES ASSUME Len(Emitted(c)) = 1, Emitted(c)[1] # FirstStamp PROVE FALSE
      OBVIOUS
    <3>1. c \in nacked /\ received[c] >= Want(c)
      BY <1>4 DEF Follows, HandlerStamps
    <3> QED
      BY <1>2, <1>3, <1>7, <3>1
  <2>5. Len(Emitted(c)) <= 1 => received'[c] <= Want(c)
    <3> SUFFICES ASSUME Len(Emitted(c)) <= 1 PROVE received[c] < Want(c)
      BY <1>1, <1>2, <1>3
    <3>1. /\ received[c] <= Want(c)
          /\ received[c] = Want(c) /\ received[c] >= 1 => c \in nacked
      BY <1>1, <1>4 DEF Follows, HandlerStamps
    <3>2. CASE kind \in Bounded
      BY <1>5, <3>2
    <3>3. CASE kind \notin Bounded
      BY <1>2, <1>3, <1>5, <1>7, <3>1, <3>3
    <3> QED
      BY <3>2, <3>3
  <2>6. ~(kind \in Acking /\ Len(Emitted(c)) >= 2)
    <3> SUFFICES ASSUME kind \in Acking, Len(Emitted(c)) >= 2 PROVE FALSE
      OBVIOUS
    <3>1. received[c] >= Want(c)
      BY <1>4 DEF Follows, HandlerStamps
    <3> QED
      BY <1>2, <1>3, <1>5, <1>6, <3>1
  <2>7. kind \in Early => Len(Emitted(c)) >= 1 /\ Emitted(c)[1] = 0
    BY <1>4, <1>5 DEF Follows, HandlerStamps
  <2> QED
    BY <1>1, <1>2, <1>4, <1>5, <1>8, <1>9, <2>1, <2>2, <2>3, <2>4, <2>5, <2>6, <2>7
       DEF HandlerStamps
<1>13. GetStamps(c)' /\ Stamps(c)'
  BY <1>1, <1>2, <1>4 DEF Follows, GetStamps, Stamps
<1> QED
  BY <1>10, <1>11, <1>12, <1>13 DEF Follows

\* What the steps of a handler that count no message leave alone.
LEMMA HandlerTurns ==
  ASSUME TypeOK, NEW c \in Clients, Follows(c), handler[c] # "idle",
         UNCHANGED <<client, kind, progressBar, attached, inbox, taken, received, interval>>
  PROVE  /\ kind \in Handled /\ kind \notin Getting
         /\ received[c] >= 1 /\ c \in attached
         /\ Feed(c)'
         /\ GetStamps(c)'
         /\ Want(c)' = Want(c) /\ FirstStamp' = FirstStamp /\ Want(c) \in Nat
<1>1. kind \notin Getting
  BY DEF Follows, GetStamps
<1>2. kind \in Handled
  BY <1>1, KindFacts, Typed
<1>3. Want(c)' = Want(c) /\ FirstStamp' = FirstStamp /\ Want(c) \in Nat
  BY Wants DEF FirstStamp
<1>4. Feed(c)'
  BY <1>3 DEF Follows, Feed
<1>5. GetStamps(c)'
  BY <1>1 DEF GetStamps
<1>6. received[c] >= 1 /\ c \in attached
  BY DEF Follows, Handling
<1> QED
  BY <1>1, <1>2, <1>3, <1>4, <1>5, <1>6

LEMMA AckFollows ==
  ASSUME TypeOK, NEW c \in Clients, Follows(c), Ack(c)
  PROVE  Follows(c)'
<1>1. PICK ok \in AckOutcomes :
        /\ HandlerMoves(c, "ack", IF ok THEN AfterAck(received[c]) ELSE "nack")
        /\ nacked' = IF ok THEN nacked ELSE nacked \cup {c}
  BY DEF Ack
<1>2. /\ handler[c] = "ack"
      /\ handler'[c] = IF ok THEN AfterAck(received[c]) ELSE "nack"
      /\ UNCHANGED <<client, kind, progressBar, attached, inbox, taken, received, interval, ch>>
  BY <1>1 DEF Ack, HandlerMoves, harnessVars, TypeOK
<1>3. /\ kind \in Handled /\ kind \notin Getting
      /\ received[c] >= 1 /\ c \in attached
      /\ Feed(c)' /\ GetStamps(c)'
      /\ Want(c)' = Want(c) /\ FirstStamp' = FirstStamp
  BY <1>2, HandlerTurns
<1>4. kind \in Acking
  BY <1>2 DEF Follows, Handling
<1>5. Emitted(c)' = Emitted(c)
  BY <1>2 DEF Emitted
<1>6. Stamps(c)'
  BY <1>2, <1>3, <1>5 DEF Follows, Stamps
<1>7. CASE ok
  <2>1. handler'[c] = AfterAck(received[c]) /\ nacked' = nacked
    BY <1>1, <1>2, <1>7
  <2>2. handler'[c] \in {"start", "end"}
    BY <2>1 DEF AfterAck
  <2>3. handler'[c] = "start" <=> received[c] = 1 /\ kind \notin Early
    BY <2>1 DEF AfterAck
  <2>4. Handling(c)'
    BY <1>2, <1>3, <2>1, <2>2 DEF Follows, Handling
  <2>5. HandlerStamps(c)'
    BY <1>2, <1>3, <1>5, <2>1, <2>2, <2>3 DEF Follows, HandlerStamps
  <2> QED
    BY <1>3, <1>6, <2>4, <2>5 DEF Follows
<1>8. CASE ~ok
  <2>1. handler'[c] = "nack" /\ nacked' = nacked \cup {c}
    BY <1>1, <1>2, <1>8
  <2>2. Handling(c)'
    BY <1>2, <1>3, <1>4, <2>1 DEF Follows, Handling
  <2>3. HandlerStamps(c)'
    BY <1>2, <1>3, <1>5, <2>1 DEF Follows, HandlerStamps
  <2> QED
    BY <1>3, <1>6, <2>2, <2>3 DEF Follows
<1> QED
  BY <1>7, <1>8

LEMMA NackFollows ==
  ASSUME TypeOK, NEW c \in Clients, Follows(c), SendAckError(c) \/ ReleaseAfterAckError(c)
  PROVE  Follows(c)'
<1>1. /\ \/ handler[c] = "nack" /\ handler'[c] = "nackDone"
         \/ handler[c] = "nackDone" /\ handler'[c] = "idle"
      /\ UNCHANGED <<client, kind, progressBar, attached, inbox, taken, received, interval, ch,
                     nacked>>
  BY DEF SendAckError, ReleaseAfterAckError, HandlerMoves, TypeOK
<1>2. /\ kind \in Handled /\ kind \notin Getting
      /\ received[c] >= 1 /\ c \in attached
      /\ Feed(c)' /\ GetStamps(c)'
      /\ Want(c)' = Want(c) /\ FirstStamp' = FirstStamp
  BY <1>1, HandlerTurns
<1>3. kind \in Acking /\ c \in nacked
  BY <1>1 DEF Follows, Handling
<1>4. Emitted(c)' = Emitted(c)
  BY <1>1 DEF Emitted
<1>5. Stamps(c)'
  BY <1>1, <1>2, <1>4 DEF Follows, Stamps
<1>6. Handling(c)'
  BY <1>1, <1>2, <1>3 DEF Follows, Handling
<1>7. HandlerStamps(c)'
  BY <1>1, <1>2, <1>3, <1>4 DEF Follows, HandlerStamps
<1> QED
  BY <1>2, <1>5, <1>6, <1>7 DEF Follows

LEMMA StampStartFollows ==
  ASSUME TypeOK, NEW c \in Clients, Follows(c), StampStart(c)
  PROVE  Follows(c)'
<1>1. /\ handler[c] = "start" /\ handler'[c] = "end"
      /\ ch'[c] = Append(ch[c], received[c])
      /\ UNCHANGED <<client, kind, progressBar, attached, inbox, taken, received, interval,
                     nacked>>
  BY DEF StampStart, Stamp, HandlerMoves, harnessVars, TypeOK
<1>2. /\ kind \in Handled /\ kind \notin Getting
      /\ received[c] >= 1 /\ c \in attached
      /\ Feed(c)' /\ GetStamps(c)'
      /\ Want(c)' = Want(c) /\ FirstStamp' = FirstStamp
  BY <1>1, HandlerTurns
<1>3. received[c] = 1 /\ kind \notin Early /\ Emitted(c) = <<>>
  BY <1>1, <1>2 DEF Follows, HandlerStamps
<1>4. FirstStamp = 1
  BY <1>2, <1>3 DEF FirstStamp
<1>5. Len(Emitted(c)') = 1 /\ Emitted(c)'[1] = 1 /\ Emitted(c)' # <<>>
  <2>1. Len(Emitted(c)) = 0 /\ Len(Emitted(c)) + 1 = 1 /\ 1 \in Nat
    BY <1>3
  <2>2. /\ Emitted(c)' # <<>> /\ Len(Emitted(c)') = Len(Emitted(c)) + 1
        /\ Emitted(c)'[Len(Emitted(c)) + 1] = 1
    BY <1>1, <1>3, <2>1, StampSent
  <2> QED
    BY <2>1, <2>2
<1>6. Handling(c)'
  BY <1>1, <1>2 DEF Follows, Handling
<1>7. received[c] <= Want(c)
  <2>1. Len(Emitted(c)) <= 1
    BY <1>3
  <2> QED
    BY <1>2, <2>1 DEF Follows, HandlerStamps
<1>8. HandlerStamps(c)'
  BY <1>1, <1>2, <1>3, <1>4, <1>5, <1>7 DEF HandlerStamps
<1>9. Stamps(c)'
  BY <1>1, <1>5 DEF Follows, Stamps
<1> QED
  BY <1>2, <1>6, <1>8, <1>9 DEF Follows

LEMMA StampEndFollows ==
  ASSUME TypeOK, NEW c \in Clients, Follows(c), StampEnd(c)
  PROVE  Follows(c)'
<1>1. /\ handler[c] = "end" /\ handler'[c] = "idle"
      /\ ch'[c] = IF received[c] >= Want(c) THEN Append(ch[c], received[c]) ELSE ch[c]
      /\ UNCHANGED <<client, kind, progressBar, attached, inbox, taken, received, interval,
                     nacked>>
  BY DEF StampEnd, Stamp, HandlerMoves, harnessVars, TypeOK
<1>2. /\ kind \in Handled /\ kind \notin Getting
      /\ received[c] >= 1 /\ c \in attached
      /\ Feed(c)' /\ GetStamps(c)'
      /\ Want(c)' = Want(c) /\ FirstStamp' = FirstStamp /\ Want(c) \in Nat
  BY <1>1, HandlerTurns
<1>3. received[c] \in Nat /\ Len(Emitted(c)) \in Nat
      /\ (Len(Emitted(c)) = 0 <=> Emitted(c) = <<>>)
  BY Typed
<1>4. Handling(c)'
  BY <1>1, <1>2 DEF Follows, Handling
<1>5. ~(kind \in Acking /\ Len(Emitted(c)) >= 2)
  BY <1>1, <1>2 DEF Follows, HandlerStamps
<1>6. Len(Emitted(c)) = 1 => Emitted(c)[1] = FirstStamp
  BY <1>1, <1>2 DEF Follows, HandlerStamps
<1>7. Emitted(c) = <<>> /\ kind \notin Early => c \in nacked
  BY <1>1, <1>2 DEF Follows, HandlerStamps
<1>8. kind \in Early => Len(Emitted(c)) >= 1 /\ Emitted(c)[1] = 0
  BY <1>2 DEF Follows, HandlerStamps
<1>9. Len(Emitted(c)) <= 1 => received[c] <= Want(c)
  BY <1>2 DEF Follows, HandlerStamps
<1>10. CASE ~(received[c] >= Want(c))
  <2>1. Emitted(c)' = Emitted(c) /\ received[c] # Want(c)
    <3>1. ch'[c] = ch[c] /\ interval'[c] = interval[c]
      BY <1>1, <1>10
    <3>2. received[c] # Want(c)
      BY <1>2, <1>3, <1>10
    <3> QED
      BY <3>1, <3>2 DEF Emitted
  <2>2. HandlerStamps(c)'
    BY <1>1, <1>2, <1>5, <1>6, <1>7, <1>8, <1>9, <2>1 DEF HandlerStamps
  <2>3. Stamps(c)'
    BY <1>1, <1>2, <2>1 DEF Follows, Stamps
  <2> QED
    BY <1>2, <1>4, <2>2, <2>3 DEF Follows
<1>11. CASE received[c] >= Want(c)
  <2> DEFINE m == Len(Emitted(c))
  <2>1. /\ Emitted(c)' # <<>> /\ Len(Emitted(c)') = m + 1
        /\ Emitted(c)'[m + 1] = received[c]
        /\ \A k \in 1..m : Emitted(c)'[k] = Emitted(c)[k]
    <3>1. ch'[c] = Append(ch[c], received[c]) /\ interval'[c] = interval[c]
      BY <1>1, <1>11
    <3> QED
      BY <1>3, <3>1, StampSent
  <2>2. m \in Nat /\ (m = 0 <=> Emitted(c) = <<>>)
    BY <1>3
  <2>3. /\ ~(kind \in Acking /\ m >= 2)
        /\ m = 1 => Emitted(c)[1] = FirstStamp
        /\ m <= 1 => received[c] = Want(c)
        /\ kind \in Early => m >= 1 /\ Emitted(c)[1] = 0
        /\ m = 0 => kind \notin Early /\ c \in nacked
    BY <1>2, <1>3, <1>5, <1>6, <1>7, <1>8, <1>9, <1>11
  <2>4. Stamps(c)'
    <3>1. m >= 2 => Emitted(c)[1] = FirstStamp /\ Emitted(c)[2] = Want(c)
      BY DEF Follows, Stamps
    <3> HIDE DEF m
    <3>2. CASE m = 0
      BY <1>1, <1>2, <2>1, <3>2 DEF Follows, Stamps
    <3>3. CASE m = 1
      <4>1. Emitted(c)'[1] = FirstStamp /\ Emitted(c)'[2] = Want(c)
        BY <2>1, <2>3, <3>3
      <4> QED
        BY <1>1, <1>2, <4>1 DEF Follows, Stamps
    <3>4. CASE m >= 2
      <4>1. 1 \in 1..m /\ 2 \in 1..m
        BY <2>2, <3>4
      <4>2. Emitted(c)'[1] = FirstStamp /\ Emitted(c)'[2] = Want(c)
        BY <2>1, <3>1, <3>4, <4>1
      <4> QED
        BY <1>1, <1>2, <4>2 DEF Follows, Stamps
    <3> QED
      BY <2>2, <3>2, <3>3, <3>4
  <2> HIDE DEF m
  <2>5. kind \in Early => Emitted(c)'[1] = 0
    BY <2>1, <2>2, <2>3
  <2>6. Len(Emitted(c)') >= 1 /\ (Len(Emitted(c)') = 1 <=> m = 0)
        /\ (Len(Emitted(c)') <= 1 <=> m = 0) /\ (m = 0 => m <= 1)
    BY <2>1, <2>2
  <2>7. HandlerStamps(c)'
    BY <1>1, <1>2, <1>11, <2>1, <2>3, <2>5, <2>6 DEF HandlerStamps
  <2> QED
    BY <1>2, <1>4, <2>4, <2>7 DEF Follows
<1> QED
  BY <1>10, <1>11

-----------------------------------------------------------------------------
(***************************************************************************)
(* Every step keeps the invariant.                                         *)
(***************************************************************************)

LEMMA StepsTyped ==
  ASSUME TypeOK, NEW c \in Clients, NEW from, NEW to \in ClientStates,
         \/ LocalStep(c, from, to) \/ StartDone(c, from, to) \/ DoneDone(c, from, to)
         \/ AddSample(c, from, to) \/ SendOutcome(c, from, to, TRUE)
         \/ SendOutcome(c, from, to, FALSE)
  PROVE  HarnessTypeOK' /\ client' \in [Clients -> ClientStates] /\ Moves(c, from, to)
<1> USE DEF TypeOK, HarnessTypeOK
<1>1. CASE LocalStep(c, from, to)
  BY <1>1 DEF LocalStep, Moves
<1>2. CASE StartDone(c, from, to)
  BY <1>2 DEF StartDone, Moves
<1>3. CASE DoneDone(c, from, to)
  BY <1>3 DEF DoneDone, Moves, MainStates, Ended
<1>4. CASE AddSample(c, from, to)
  BY <1>4 DEF AddSample, Moves
<1>5. ASSUME NEW ok \in BOOLEAN, SendOutcome(c, from, to, ok)
      PROVE  HarnessTypeOK' /\ client' \in [Clients -> ClientStates] /\ Moves(c, from, to)
  <2>1. errChan' \in Seq(Outcome)
    BY <1>5, SentLast DEF SendOutcome
  <2> QED
    BY <1>5, <2>1 DEF SendOutcome, Moves
<1> QED
  BY <1>1, <1>2, <1>3, <1>4, <1>5

LEMMA StepInv ==
  ASSUME IInv, NEW c \in Clients, TypeOK', Delivered', Books', Follows(c)',
         \A d \in Clients : d # c => Same(d)
  PROVE  IInv'
<1>1. ASSUME NEW d \in Clients
      PROVE  Follows(d)'
  <2>1. CASE d = c
    BY <2>1
  <2>2. CASE d # c
    <3>1. Follows(d) /\ Same(d)
      BY <2>2 DEF IInv
    <3> QED
      BY <3>1, SameFollows
  <2> QED
    BY <2>1, <2>2
<1> QED
  BY <1>1 DEF IInv

\* The steps that only move a client on in its program.
LEMMA TurnInv ==
  ASSUME IInv, NEW c \in Clients, NEW from, NEW to \in ClientStates, Moves(c, from, to),
         UNCHANGED feedVars, HarnessTypeOK', Books',
         to \in {"unborn", "born"} => from \in {"unborn", "born"},
         to \in {"attached", "started", "fetch", "drain"} =>
           from \in {"attached", "started", "fetch", "drain"} \/ kind \in Getting,
         to \in {"fetch", "drain"} => kind \in Pulled,
         from = "drain" => inbox[c] = 0,
         to = "get" => kind \in Getting /\ kind # "kvget",
         to \in SettingUp => from \in SettingUp,
         to \in Timed <=> from \in Timed, from # "wait"
  PROVE  IInv'
<1>1. TypeOK /\ Delivered /\ Follows(c)
  BY DEF IInv
<1>2. /\ client[c] = from /\ client'[c] = to
      /\ client' \in [Clients -> ClientStates]
      /\ \A d \in Clients : d # c => client'[d] = client[d]
  BY <1>1 DEF Moves, TypeOK
<1>3. TypeOK'
  BY <1>1, <1>2 DEF TypeOK, feedVars
<1>4. Delivered'
  BY <1>1, DeliverNone DEF feedVars
<1>5. Follows(c)'
  BY <1>1, <1>2, TurnFollows
<1>6. \A d \in Clients : d # c => Same(d)
  BY <1>2 DEF Same, feedVars
<1> QED
  BY <1>3, <1>4, <1>5, <1>6, StepInv

LEMMA SettingUpInv ==
  ASSUME IInv, NEW c \in Clients,
         \/ SetupFails(c) \/ SendSetupError(c) \/ StartAnyway(c) \/ Ready(c)
         \/ EnterFails(c)
  PROVE  IInv'
<1>1. TypeOK /\ Follows(c)
  BY DEF IInv
<1>2. ASSUME NEW from, NEW to,
             LocalStep(c, from, to) \/ StartDone(c, from, to), UNCHANGED feedVars,
             \/ from \in {"born", "attached"} /\ to = "misfit"
             \/ from = "unready" /\ to = "abandon"
             \/ from = "attached" /\ to = "started"
             \/ from = "started" /\ to = "broken"
      PROVE  IInv'
  <2>1. to \in ClientStates
    BY <1>2 DEF ClientStates
  <2>2. HarnessTypeOK' /\ Moves(c, from, to)
    BY <1>1, <1>2, <2>1, StepsTyped
  <2>3. /\ from \in OwesDone <=> to \in OwesDone
        /\ from \in HasReported <=> to \in HasReported
        /\ from \in HasSampled <=> to \in HasSampled
        /\ from \notin {"unborn", "finished", "drain", "wait"}
        /\ to \notin {"unborn", "finished", "born", "fetch", "drain", "get"}
        /\ to \notin Timed /\ from \notin Timed
        /\ to \in {"attached", "started"} => from = "attached"
        /\ to \in SettingUp => from \in SettingUp
    BY <1>2 DEF OwesDone, HasReported, HasSampled, Timed, SettingUp
  <2>4. UNCHANGED <<main, spawned, donewg, errChan, samples, collected, firstErr, nacked,
                    handler>>
    BY <1>2 DEF LocalStep, StartDone, feedVars
  <2>5. Books'
    BY <2>2, <2>3, <2>4, LocalKeeps
  <2> QED
    BY <1>2, <2>1, <2>2, <2>3, <2>5, TurnInv
<1>3. CASE SendSetupError(c)
  <2>1. SendOutcome(c, "misfit", "unready", FALSE) /\ UNCHANGED feedVars
    BY <1>3 DEF SendSetupError
  <2>2. UNCHANGED <<nacked, handler>>
    BY <2>1 DEF feedVars
  <2>3. "unready" \in ClientStates /\ "unready" \notin Timed /\ "misfit" \notin Timed
        /\ "misfit" \in SettingUp
    BY DEF ClientStates, Timed, SettingUp
  <2>4. HarnessTypeOK' /\ Moves(c, "misfit", "unready")
    BY <1>1, <2>1, <2>3, StepsTyped
  <2>5. Books'
    BY <2>1, <2>2, ErrorKeeps
  <2> QED
    BY <2>1, <2>3, <2>4, <2>5, TurnInv
<1>4. CASE SetupFails(c)
  BY <1>2, <1>4 DEF SetupFails
<1>5. CASE StartAnyway(c)
  BY <1>2, <1>5 DEF StartAnyway
<1>6. CASE Ready(c)
  BY <1>2, <1>6 DEF Ready
<1>7. CASE EnterFails(c)
  BY <1>2, <1>7 DEF EnterFails
<1> QED
  BY <1>3, <1>4, <1>5, <1>6, <1>7

LEMMA FetchingInv ==
  ASSUME IInv, NEW c \in Clients,
         \/ FetchFails(c) \/ FetchRefused(c) \/ FetchNext(c) \/ FetchedAll(c) \/ GetFails(c)
  PROVE  IInv'
<1>1. TypeOK /\ Follows(c)
  BY DEF IInv
<1>2. ASSUME NEW from, NEW to, LocalStep(c, from, to), UNCHANGED feedVars,
             \/ from = "fetch" /\ to \in {"broken", "refused", "wait"}
             \/ from = "drain" /\ to \in {"fetch", "broken"} /\ inbox[c] = 0
             \/ from = "get" /\ to = "broken"
      PROVE  IInv'
  <2>1. to \in ClientStates
    BY <1>2 DEF ClientStates
  <2>2. HarnessTypeOK' /\ Moves(c, from, to)
    BY <1>1, <1>2, <2>1, StepsTyped
  <2>3. /\ from \in OwesDone <=> to \in OwesDone
        /\ from \in HasReported <=> to \in HasReported
        /\ from \in HasSampled <=> to \in HasSampled
        /\ from \notin {"unborn", "finished", "wait"}
        /\ to \notin {"unborn", "finished", "born", "drain", "get", "attached", "started"}
        /\ to \notin Timed /\ from \notin Timed
        /\ to \notin SettingUp
        /\ to = "fetch" => from = "drain"
        /\ from = "drain" => inbox[c] = 0
    BY <1>2 DEF OwesDone, HasReported, HasSampled, Timed, SettingUp
  <2>4. to = "fetch" => kind \in Pulled
    BY <1>1, <2>2, <2>3 DEF Follows, Feed, Moves
  <2>5. UNCHANGED <<main, spawned, donewg, errChan, samples, collected, firstErr, nacked,
                    handler>>
    BY <1>2 DEF LocalStep, feedVars
  <2>6. Books'
    BY <2>2, <2>3, <2>5, LocalKeeps
  <2> QED
    BY <1>2, <2>1, <2>2, <2>3, <2>4, <2>6, TurnInv
<1>3. CASE FetchFails(c)
  BY <1>2, <1>3 DEF FetchFails
<1>4. CASE FetchRefused(c)
  BY <1>2, <1>4 DEF FetchRefused
<1>5. CASE FetchNext(c)
  BY <1>2, <1>5 DEF FetchNext
<1>6. CASE FetchedAll(c)
  BY <1>2, <1>6 DEF FetchedAll
<1>7. CASE GetFails(c)
  BY <1>2, <1>7 DEF GetFails
<1> QED
  BY <1>3, <1>4, <1>5, <1>6, <1>7

LEMMA EndingInv ==
  ASSUME IInv, NEW c \in Clients,
         \/ HandInSample(c) \/ ReportDone(c) \/ SendNil(c) \/ SendError(c) \/ GiveUp(c)
  PROVE  IInv'
<1>1. TypeOK /\ Follows(c)
  BY DEF IInv
<1>2. ASSUME NEW from, NEW to,
             \/ DoneDone(c, from, to) \/ AddSample(c, from, to)
             \/ SendOutcome(c, from, to, TRUE) \/ SendOutcome(c, from, to, FALSE),
             UNCHANGED feedVars, Books',
             \/ from = "sample" /\ to = "done"
             \/ from = "done" /\ to = "report"
             \/ from = "report" /\ to = "finished"
             \/ from = "broken" /\ to = "abandon"
             \/ from = "abandon" /\ to = "failed"
      PROVE  IInv'
  <2>1. to \in ClientStates
    BY <1>2 DEF ClientStates
  <2>2. HarnessTypeOK' /\ Moves(c, from, to)
    BY <1>1, <1>2, <2>1, StepsTyped
  <2>3. /\ from \notin {"drain", "wait"}
        /\ to \notin {"unborn", "born", "attached", "started", "fetch", "drain", "get"}
        /\ to \in Timed <=> from \in Timed
        /\ to \notin SettingUp
    BY <1>2 DEF Timed, SettingUp
  <2> QED
    BY <1>2, <2>1, <2>2, <2>3, TurnInv
<1>3. feedVars' = feedVars => UNCHANGED <<nacked, handler>>
  BY DEF feedVars
<1>4. CASE HandInSample(c)
  <2>1. AddSample(c, "sample", "done") /\ UNCHANGED feedVars
    BY <1>4 DEF HandInSample
  <2> QED
    BY <1>2, <1>3, <2>1, SampleKeeps
<1>5. CASE ReportDone(c)
  <2>1. DoneDone(c, "done", "report") /\ UNCHANGED feedVars
    BY <1>5 DEF ReportDone
  <2> QED
    BY <1>2, <1>3, <2>1, DoneKeeps
<1>6. CASE SendNil(c)
  <2>1. SendOutcome(c, "report", "finished", TRUE) /\ UNCHANGED feedVars
    BY <1>6 DEF SendNil
  <2> QED
    BY <1>2, <1>3, <2>1, NilKeeps
<1>7. CASE SendError(c)
  <2>1. SendOutcome(c, "broken", "abandon", FALSE) /\ UNCHANGED feedVars
    BY <1>7 DEF SendError
  <2> QED
    BY <1>2, <1>3, <2>1, ErrorKeeps
<1>8. CASE GiveUp(c)
  <2>1. DoneDone(c, "abandon", "failed") /\ UNCHANGED feedVars
    BY <1>8 DEF GiveUp
  <2> QED
    BY <1>2, <1>3, <2>1, DoneKeeps
<1> QED
  BY <1>4, <1>5, <1>6, <1>7, <1>8

\* The steps of a client that touch what belongs to it.
LEMMA LocalInv ==
  ASSUME IInv, NEW c \in Clients, NEW from, NEW to, LocalStep(c, from, to),
         nacked' = nacked, handler' = handler, kind' = kind,
         \/ from = "born" /\ to = "attached"
         \/ from = "started" /\ to \in {"fetch", "get", "wait"}
         \/ from = "fetch" /\ to = "drain"
         \/ from = "get" /\ to \in {"get", "wait"}
         \/ from = "wait" /\ to = "wait"
         \/ from = "wait" /\ to = "sample" /\ handler[c] # "nack"
  PROVE  /\ Books' /\ HarnessTypeOK' /\ client' \in [Clients -> ClientStates]
         /\ \A d \in Clients : d # c => client'[d] = client[d]
<1>1. TypeOK
  BY DEF IInv
<1>2. to \in ClientStates
  BY DEF ClientStates
<1>3. HarnessTypeOK' /\ client' \in [Clients -> ClientStates] /\ Moves(c, from, to)
  BY <1>1, <1>2, StepsTyped
<1>4. /\ from \in OwesDone <=> to \in OwesDone
      /\ from \in HasReported <=> to \in HasReported
      /\ from \in HasSampled <=> to \in HasSampled
      /\ from \notin {"unborn", "finished"} /\ to \notin {"unborn", "finished"}
      /\ to \in Timed => handler[c] # "nack"
  BY DEF OwesDone, HasReported, HasSampled, Timed
<1>5. UNCHANGED <<main, spawned, donewg, errChan, samples, collected, firstErr, nacked,
                  handler>>
  BY DEF LocalStep
<1>6. Books'
  BY <1>3, <1>4, <1>5, LocalKeeps
<1> QED
  BY <1>1, <1>3, <1>6 DEF Moves, TypeOK

\* A stamp fits into the channel.
LEMMA StampTyped ==
  ASSUME TypeOK, NEW c \in Clients, NEW n \in Nat, Stamp(c, n)
  PROVE  /\ ch' \in [Clients -> Seq(Nat)]
         /\ \A d \in Clients : Len(ch'[d]) <= 2
         /\ \A d \in Clients : d # c => ch'[d] = ch[d]
<1>1. ch \in [Clients -> Seq(Nat)] /\ Len(ch[c]) < 2 /\ ch[c] \in Seq(Nat)
      /\ \A d \in Clients : Len(ch[d]) <= 2
      /\ ch' = [ch EXCEPT ![c] = Append(@, n)]
  BY DEF TypeOK, Stamp
<1>2. Append(ch[c], n) \in Seq(Nat) /\ Len(Append(ch[c], n)) = Len(ch[c]) + 1
      /\ Len(ch[c]) \in Nat
  BY <1>1, AppendProperties, LenProperties
<1>3. Len(Append(ch[c], n)) <= 2
  BY <1>1, <1>2
<1> QED
  BY <1>1, <1>2, <1>3

LEMMA AttachInv ==
  ASSUME IInv, NEW c \in Clients, Attach(c)
  PROVE  IInv'
<1>1. TypeOK /\ Delivered /\ Follows(c)
  BY DEF IInv
<1>2. /\ LocalStep(c, "born", "attached")
      /\ UNCHANGED <<kind, progressBar, inbox, taken, received, handler, interval, nacked>>
      /\ attached' = IF kind \in Getting THEN attached ELSE attached \cup {c}
      /\ IF kind \in Early THEN Stamp(c, 0) ELSE UNCHANGED ch
  BY DEF Attach
<1>3. /\ Books' /\ HarnessTypeOK' /\ client' \in [Clients -> ClientStates]
      /\ \A d \in Clients : d # c => client'[d] = client[d]
  BY <1>2, LocalInv
<1>4. /\ ch' \in [Clients -> Seq(Nat)]
      /\ \A d \in Clients : Len(ch'[d]) <= 2
      /\ \A d \in Clients : d # c => ch'[d] = ch[d]
  <2>1. CASE kind \in Early
    BY <1>1, <1>2, <2>1, StampTyped
  <2>2. CASE kind \notin Early
    BY <1>1, <1>2, <2>2 DEF TypeOK
  <2> QED
    BY <2>1, <2>2
<1>5. TypeOK'
  BY <1>1, <1>2, <1>3, <1>4 DEF TypeOK
<1>6. Follows(c)' /\ Delivered'
  BY <1>1, <1>2, AttachFollows, DeliverNone
<1>7. \A d \in Clients : d # c => Same(d)
  BY <1>2, <1>3, <1>4 DEF Same
<1> QED
  BY <1>3, <1>5, <1>6, <1>7, StepInv

LEMMA EnterInv ==
  ASSUME IInv, NEW c \in Clients, Enter(c)
  PROVE  IInv'
<1>1. TypeOK /\ Delivered /\ Follows(c)
  BY DEF IInv
<1> DEFINE to == IF kind \in Pulled THEN "fetch"
                 ELSE IF kind \in Getting THEN "get" ELSE "wait"
<1>2. /\ LocalStep(c, "started", to)
      /\ UNCHANGED <<kind, progressBar, attached, inbox, taken, received, handler, interval,
                     nacked>>
      /\ IF kind = "kvget" THEN Stamp(c, 0) ELSE UNCHANGED ch
      /\ to \in {"fetch", "get", "wait"}
  BY DEF Enter
<1> HIDE DEF to
<1>3. /\ Books' /\ HarnessTypeOK' /\ client' \in [Clients -> ClientStates]
      /\ \A d \in Clients : d # c => client'[d] = client[d]
  BY <1>2, LocalInv
<1>4. /\ ch' \in [Clients -> Seq(Nat)]
      /\ \A d \in Clients : Len(ch'[d]) <= 2
      /\ \A d \in Clients : d # c => ch'[d] = ch[d]
  <2>1. CASE kind = "kvget"
    BY <1>1, <1>2, <2>1, StampTyped
  <2>2. CASE kind # "kvget"
    BY <1>1, <1>2, <2>2 DEF TypeOK
  <2> QED
    BY <2>1, <2>2
<1>5. TypeOK'
  BY <1>1, <1>2, <1>3, <1>4 DEF TypeOK
<1>6. Follows(c)' /\ Delivered'
  BY <1>1, <1>2, EnterFollows, DeliverNone
<1>7. \A d \in Clients : d # c => Same(d)
  BY <1>2, <1>3, <1>4 DEF Same
<1> QED
  BY <1>3, <1>5, <1>6, <1>7, StepInv

LEMMA FetchInv ==
  ASSUME IInv, NEW c \in Clients, Fetch(c)
  PROVE  IInv'
<1>1. TypeOK /\ Delivered /\ Follows(c)
  BY DEF IInv
<1>2. PICK n \in 1..BatchSize :
        /\ n <= Left(c)
        /\ inbox' = [inbox EXCEPT ![c] = n]
        /\ taken' = [taken EXCEPT ![c] = @ + n]
  BY DEF Fetch
<1>3. /\ LocalStep(c, "fetch", "drain") /\ n \in Nat
      /\ UNCHANGED <<kind, progressBar, attached, received, handler, interval, nacked, ch>>
  BY ConsumeAssumption DEF Fetch
<1>4. /\ Books' /\ HarnessTypeOK' /\ client' \in [Clients -> ClientStates]
      /\ \A d \in Clients : d # c => client'[d] = client[d]
  BY <1>3, LocalInv
<1>5. Delivered' /\ taken' \in [Clients -> 0..NumStored] /\ n \in 0..NumStored
  BY <1>1, <1>2, <1>3, DeliverMore
<1>6. inbox' \in [Clients -> 0..NumStored]
  BY <1>1, <1>2, <1>5 DEF TypeOK
<1>7. TypeOK'
  BY <1>1, <1>3, <1>4, <1>5, <1>6 DEF TypeOK
<1>8. Follows(c)'
  BY <1>1, FetchFollows
<1>9. \A d \in Clients : d # c => Same(d)
  BY <1>1, <1>2, <1>3, <1>4 DEF Same, TypeOK
<1> QED
  BY <1>4, <1>5, <1>7, <1>8, <1>9, StepInv

LEMMA GetInv ==
  ASSUME IInv, NEW c \in Clients, Get(c)
  PROVE  IInv'
<1>1. TypeOK /\ Delivered /\ Follows(c)
  BY DEF IInv
<1>2. /\ LocalStep(c, "get", "get")
      /\ UNCHANGED <<kind, progressBar, attached, inbox, taken, handler, interval, nacked>>
      /\ \E n, new : /\ received' = [received EXCEPT ![c] = @ + n]
                     /\ ch' = [ch EXCEPT ![c] = new]
  BY DEF Get
<1>3. /\ Books' /\ HarnessTypeOK' /\ client' \in [Clients -> ClientStates]
      /\ \A d \in Clients : d # c => client'[d] = client[d]
  BY <1>2, LocalInv
<1>4. Follows(c)' /\ Len(ch'[c]) <= 2 /\ received'[c] \in Nat /\ ch'[c] \in Seq(Nat)
  BY <1>1, GetFollows
<1>5. /\ received' \in [Clients -> Nat] /\ ch' \in [Clients -> Seq(Nat)]
      /\ \A d \in Clients : d # c => received'[d] = received[d] /\ ch'[d] = ch[d]
  BY <1>1, <1>2, <1>4 DEF TypeOK
<1>6. \A d \in Clients : Len(ch'[d]) <= 2
  BY <1>1, <1>4, <1>5 DEF TypeOK
<1>7. TypeOK' /\ Delivered'
  BY <1>1, <1>2, <1>3, <1>5, <1>6, DeliverNone DEF TypeOK
<1>8. \A d \in Clients : d # c => Same(d)
  BY <1>2, <1>3, <1>5 DEF Same
<1> QED
  BY <1>3, <1>4, <1>7, <1>8, StepInv

LEMMA GotAllInv ==
  ASSUME IInv, NEW c \in Clients, GotAll(c)
  PROVE  IInv'
<1>1. TypeOK /\ Delivered /\ Follows(c)
  BY DEF IInv
<1>2. /\ LocalStep(c, "get", "wait")
      /\ UNCHANGED <<kind, progressBar, attached, inbox, taken, received, handler, interval,
                     nacked>>
      /\ IF kind = "kvget" THEN Stamp(c, received[c]) ELSE UNCHANGED ch
  BY DEF GotAll
<1>3. /\ Books' /\ HarnessTypeOK' /\ client' \in [Clients -> ClientStates]
      /\ \A d \in Clients : d # c => client'[d] = client[d]
  BY <1>2, LocalInv
<1>4. /\ ch' \in [Clients -> Seq(Nat)]
      /\ \A d \in Clients : Len(ch'[d]) <= 2
      /\ \A d \in Clients : d # c => ch'[d] = ch[d]
  <2>1. CASE kind = "kvget"
    <3>1. received[c] \in Nat
      BY <1>1, Typed
    <3> QED
      BY <1>1, <1>2, <2>1, <3>1, StampTyped
  <2>2. CASE kind # "kvget"
    BY <1>1, <1>2, <2>2 DEF TypeOK
  <2> QED
    BY <2>1, <2>2
<1>5. TypeOK'
  BY <1>1, <1>2, <1>3, <1>4 DEF TypeOK
<1>6. Follows(c)' /\ Delivered'
  BY <1>1, <1>2, GotAllFollows, DeliverNone
<1>7. \A d \in Clients : d # c => Same(d)
  BY <1>2, <1>3, <1>4 DEF Same
<1> QED
  BY <1>3, <1>5, <1>6, <1>7, StepInv

LEMMA TakeStampInv ==
  ASSUME IInv, NEW c \in Clients, TakeStamp(c)
  PROVE  IInv'
<1>1. TypeOK /\ Delivered /\ Follows(c)
  BY DEF IInv
<1> DEFINE to == IF Len(interval[c]) = 1 THEN "sample" ELSE "wait"
<1>2. /\ LocalStep(c, "wait", to) /\ client'[c] = to
      /\ UNCHANGED <<kind, progressBar, attached, inbox, taken, received, handler, nacked>>
      /\ \E new : interval' = [interval EXCEPT ![c] = new]
      /\ \E new : ch' = [ch EXCEPT ![c] = new]
      /\ to \in {"sample", "wait"}
  BY <1>1 DEF TakeStamp, LocalStep, Moves, TypeOK
<1> HIDE DEF to
<1>3. /\ Follows(c)'
      /\ ch'[c] \in Seq(Nat) /\ interval'[c] \in Seq(Nat) /\ Len(ch'[c]) <= 2
      /\ client'[c] = "sample" => handler[c] # "nack"
  BY <1>1, TakeStampFollows
<1>4. /\ Books' /\ HarnessTypeOK' /\ client' \in [Clients -> ClientStates]
      /\ \A d \in Clients : d # c => client'[d] = client[d]
  BY <1>2, <1>3, LocalInv
<1>5. /\ interval' \in [Clients -> Seq(Nat)] /\ ch' \in [Clients -> Seq(Nat)]
      /\ \A d \in Clients : d # c => interval'[d] = interval[d] /\ ch'[d] = ch[d]
  BY <1>1, <1>2, <1>3 DEF TypeOK
<1>6. \A d \in Clients : Len(ch'[d]) <= 2
  BY <1>1, <1>3, <1>5 DEF TypeOK
<1>7. TypeOK' /\ Delivered'
  BY <1>1, <1>2, <1>4, <1>5, <1>6, DeliverNone DEF TypeOK
<1>8. \A d \in Clients : d # c => Same(d)
  BY <1>2, <1>4, <1>5 DEF Same
<1> QED
  BY <1>3, <1>4, <1>7, <1>8, StepInv

LEMMA ArriveInv ==
  ASSUME IInv, NEW c \in Clients, Arrive(c)
  PROVE  IInv'
<1>1. TypeOK /\ Delivered /\ Follows(c) /\ Left(c) > 0
  BY DEF IInv, Arrive
<1>2. /\ inbox' = [inbox EXCEPT ![c] = 1] /\ taken' = [taken EXCEPT ![c] = @ + 1]
      /\ UNCHANGED <<main, spawned, startwg, donewg, triggered, errChan, samples, collected,
                     firstErr, client>>
      /\ UNCHANGED <<kind, progressBar, attached, received, handler, ch, interval, nacked>>
  BY DEF Arrive, harnessVars
<1>3. Delivered' /\ taken' \in [Clients -> 0..NumStored] /\ 1 \in 0..NumStored
  <2>1. 1 \in Nat /\ 1 <= Left(c)
    BY <1>1, LeftToDeliver
  <2> QED
    BY <1>1, <1>2, <2>1, DeliverMore
<1>4. TypeOK'
  BY <1>1, <1>2, <1>3 DEF TypeOK, HarnessTypeOK
<1>5. Books'
  BY <1>2, BystanderKeeps
<1>6. Follows(c)'
  BY <1>1, ArriveFollows
<1>7. \A d \in Clients : d # c => Same(d)
  BY <1>1, <1>2 DEF Same, TypeOK
<1> QED
  BY <1>3, <1>4, <1>5, <1>6, <1>7, StepInv

LEMMA HandlerInv ==
  ASSUME IInv, NEW c \in Clients, HandlerNext(c)
  PROVE  IInv'
<1>1. TypeOK /\ Delivered /\ Follows(c) /\ received[c] \in Nat
  BY Typed DEF IInv
<1>2. \A n : AfterAck(n) \in {"start", "end"}
  BY DEF AfterAck
<1>3. ASSUME NEW from, NEW to \in HandlerStates, HandlerMoves(c, from, to)
      PROVE  /\ handler' \in [Clients -> HandlerStates]
             /\ \A d \in Clients : d # c => handler'[d] = handler[d]
             /\ handler[c] = from
  BY <1>1, <1>3 DEF HandlerMoves, TypeOK
<1>4. CASE Handle(c)
  <2>1. PICK to \in HandlerStates : HandlerMoves(c, "idle", to)
    BY <1>2, <1>4 DEF Handle, HandlerStates
  <2>2. /\ handler' \in [Clients -> HandlerStates]
        /\ \A d \in Clients : d # c => handler'[d] = handler[d]
        /\ handler[c] = "idle"
    BY <1>3, <2>1
  <2>3. /\ inbox' = [inbox EXCEPT ![c] = @ - 1] /\ inbox[c] > 0
        /\ received' = [received EXCEPT ![c] = @ + 1]
        /\ UNCHANGED <<main, spawned, startwg, donewg, triggered, errChan, samples, collected,
                       firstErr, client>>
        /\ UNCHANGED <<kind, progressBar, attached, taken, ch, interval, nacked>>
    BY <1>4 DEF Handle, harnessVars
  <2>4. /\ inbox' \in [Clients -> 0..NumStored] /\ received' \in [Clients -> Nat]
        /\ \A d \in Clients : d # c => inbox'[d] = inbox[d] /\ received'[d] = received[d]
    <3>1. inbox[c] - 1 \in 0..NumStored /\ received[c] + 1 \in Nat
      BY <1>1, <2>3, ConsumeAssumption DEF TypeOK
    <3> QED
      BY <1>1, <2>3, <3>1 DEF TypeOK
  <2>5. TypeOK' /\ Delivered'
    BY <1>1, <2>2, <2>3, <2>4, DeliverNone DEF TypeOK, HarnessTypeOK
  <2>6. Books'
    <3>1. \A d \in Clients : handler[d] = "nack" => handler'[d] = "nack"
      BY <2>2
    <3> QED
      BY <2>3, <3>1, BystanderKeeps
  <2>7. Follows(c)' /\ \A d \in Clients : d # c => Same(d)
    BY <1>1, <1>4, <2>2, <2>3, <2>4, HandleFollows DEF Same
  <2> QED
    BY <2>5, <2>6, <2>7, StepInv
<1>5. CASE Ack(c)
  <2>1. PICK to \in HandlerStates : HandlerMoves(c, "ack", to)
    BY <1>2, <1>5 DEF Ack, HandlerStates
  <2>2. /\ handler' \in [Clients -> HandlerStates]
        /\ \A d \in Clients : d # c => handler'[d] = handler[d]
    BY <1>3, <2>1
  <2>3. /\ nacked' \in {nacked, nacked \cup {c}}
        /\ UNCHANGED <<main, spawned, startwg, donewg, triggered, errChan, samples, collected,
                       firstErr, client>>
        /\ UNCHANGED <<kind, progressBar, attached, inbox, received, taken, ch, interval>>
    BY <1>5 DEF Ack, harnessVars
  <2>4. TypeOK' /\ Delivered'
    BY <1>1, <2>2, <2>3, DeliverNone DEF TypeOK, HarnessTypeOK
  <2>5. Books'
    BY <1>5, AckKeeps
  <2>6. Follows(c)' /\ \A d \in Clients : d # c => Same(d)
    BY <1>1, <1>5, <2>2, <2>3, AckFollows DEF Same
  <2> QED
    BY <2>4, <2>5, <2>6, StepInv
<1>6. CASE SendAckError(c)
  <2>1. HandlerMoves(c, "nack", "nackDone") /\ "nackDone" \in HandlerStates
    BY <1>6 DEF SendAckError, HandlerStates
  <2>2. /\ handler' \in [Clients -> HandlerStates]
        /\ \A d \in Clients : d # c => handler'[d] = handler[d]
    BY <1>3, <2>1
  <2>3. /\ errChan' = Append(errChan, [from |-> c, ok |-> FALSE])
        /\ UNCHANGED <<main, spawned, startwg, donewg, triggered, samples, collected,
                       firstErr, client>>
        /\ UNCHANGED <<kind, progressBar, attached, inbox, received, taken, ch, interval, nacked>>
    BY <1>6 DEF SendAckError
  <2>4. errChan' \in Seq(Outcome)
    BY <1>1, <2>3, SentLast
  <2>5. TypeOK' /\ Delivered'
    BY <1>1, <2>2, <2>3, <2>4, DeliverNone DEF TypeOK, HarnessTypeOK
  <2>6. Books'
    BY <1>6, SendAckErrorKeeps
  <2>7. Follows(c)' /\ \A d \in Clients : d # c => Same(d)
    BY <1>1, <1>6, <2>2, <2>3, NackFollows DEF Same
  <2> QED
    BY <2>5, <2>6, <2>7, StepInv
<1>7. CASE ReleaseAfterAckError(c)
  <2>1. HandlerMoves(c, "nackDone", "idle") /\ "idle" \in HandlerStates
    BY <1>7 DEF ReleaseAfterAckError, HandlerStates
  <2>2. /\ handler' \in [Clients -> HandlerStates]
        /\ \A d \in Clients : d # c => handler'[d] = handler[d]
    BY <1>3, <2>1
  <2>3. /\ donewg' = donewg - 1 /\ main' \in {"panic", main}
        /\ UNCHANGED <<spawned, startwg, triggered, errChan, samples, collected,
                       firstErr, client>>
        /\ UNCHANGED <<kind, progressBar, attached, inbox, received, taken, ch, interval, nacked>>
    BY <1>7 DEF ReleaseAfterAckError
  <2>4. TypeOK' /\ Delivered'
    <3>1. main' \in MainStates /\ donewg' \in Int
      BY <1>1, <2>3 DEF TypeOK, HarnessTypeOK, MainStates, Ended
    <3> QED
      BY <1>1, <2>2, <2>3, <3>1, DeliverNone DEF TypeOK, HarnessTypeOK
  <2>5. Books'
    BY <1>7, ReleaseKeeps
  <2>6. Follows(c)' /\ \A d \in Clients : d # c => Same(d)
    BY <1>1, <1>7, <2>2, <2>3, NackFollows DEF Same
  <2> QED
    BY <2>4, <2>5, <2>6, StepInv
<1>8. ASSUME StampStart(c) \/ StampEnd(c)
      PROVE  IInv'
  <2>1. PICK from \in {"start", "end"}, to \in HandlerStates : HandlerMoves(c, from, to)
    BY <1>8 DEF StampStart, StampEnd, HandlerStates
  <2>2. /\ handler' \in [Clients -> HandlerStates]
        /\ \A d \in Clients : d # c => handler'[d] = handler[d]
        /\ handler[c] = from
    BY <1>3, <2>1
  <2>3. /\ UNCHANGED <<main, spawned, startwg, donewg, triggered, errChan, samples, collected,
                       firstErr, client>>
        /\ UNCHANGED <<kind, progressBar, attached, inbox, received, taken, interval, nacked>>
        /\ Stamp(c, received[c]) \/ ch' = ch
    BY <1>8 DEF StampStart, StampEnd, harnessVars
  <2>4. /\ ch' \in [Clients -> Seq(Nat)]
        /\ \A d \in Clients : Len(ch'[d]) <= 2
        /\ \A d \in Clients : d # c => ch'[d] = ch[d]
    <3>1. CASE Stamp(c, received[c])
      BY <1>1, <3>1, StampTyped
    <3>2. CASE ch' = ch
      BY <1>1, <3>2 DEF TypeOK
    <3> QED
      BY <2>3, <3>1, <3>2
  <2>5. TypeOK' /\ Delivered'
    BY <1>1, <2>2, <2>3, <2>4, DeliverNone DEF TypeOK, HarnessTypeOK
  <2>6. Books'
    <3>1. \A d \in Clients : handler[d] = "nack" => handler'[d] = "nack"
      BY <2>1, <2>2
    <3> QED
      BY <2>3, <3>1, BystanderKeeps
  <2>7. Follows(c)'
    BY <1>1, <1>8, StampStartFollows, StampEndFollows
  <2>8. \A d \in Clients : d # c => Same(d)
    BY <2>2, <2>3, <2>4 DEF Same
  <2> QED
    BY <2>5, <2>6, <2>7, <2>8, StepInv
<1> QED
  BY <1>4, <1>5, <1>6, <1>7, <1>8 DEF HandlerNext

LEMMA MainInv ==
  ASSUME IInv, Main
  PROVE  IInv'
<1>1. TypeOK /\ Delivered /\ (\A c \in Clients : Follows(c)) /\ Phases
  BY DEF IInv, Books
<1>2. MainNext /\ UNCHANGED feedVars
  BY DEF Main
<1>3. Books'
  BY MainKeeps
<1>4. Delivered'
  BY <1>1, <1>2, DeliverNone DEF feedVars
<1>5. CASE StartClient
  <2>0. PICK c \in Clients : c = spawned + 1
    BY <1>1, <1>5, ClientsFinite DEF StartClient, Clients, TypeOK, HarnessTypeOK
  <2>1. /\ client' = [client EXCEPT ![c] = "born"] /\ spawned < N
        /\ spawned' = spawned + 1 /\ startwg' = startwg + 1 /\ donewg' = donewg + 1
        /\ UNCHANGED <<main, triggered, errChan, samples, collected, firstErr>>
    BY <1>5, <2>0 DEF StartClient
  <2>2. /\ c > spawned /\ spawned' \in 0..N
        /\ client \in [Clients -> ClientStates]
    BY <1>1, <2>0, <2>1, ClientsFinite DEF TypeOK, HarnessTypeOK
  <2>3. client[c] = "unborn" /\ client'[c] = "born"
    BY <1>1, <2>1, <2>2 DEF Phases
  <2>4. \A d \in Clients : d # c => client'[d] = client[d]
    BY <2>1, <2>2
  <2>5. client' \in [Clients -> ClientStates]
    BY <2>1, <2>2 DEF ClientStates
  <2>6. TypeOK'
    <3>1. startwg' \in Int /\ donewg' \in Int
      BY <1>1, <2>1 DEF TypeOK, HarnessTypeOK
    <3>2. HarnessTypeOK'
      BY <1>1, <2>1, <2>2, <3>1 DEF TypeOK, HarnessTypeOK
    <3> QED
      BY <1>1, <1>2, <2>5, <3>2 DEF TypeOK, feedVars
  <2>7. Follows(c)'
    <3>1. "born" \notin Timed /\ "unborn" \notin Timed /\ "unborn" \in SettingUp
      BY DEF Timed, SettingUp
    <3>2. Follows(c) /\ TypeOK /\ UNCHANGED feedVars
      BY <1>1, <1>2
    <3> QED
      BY <2>3, <3>1, <3>2, TurnFollows
  <2>8. \A d \in Clients : d # c => Same(d)
    BY <1>2, <2>4 DEF Same, feedVars
  <2> QED
    BY <1>3, <1>4, <2>6, <2>7, <2>8, StepInv
<1>6. CASE ConnectFails \/ ClientsStarted \/ ClientsDone \/ Collect \/ Finish
  <2>1. client' = client
    BY <1>6 DEF ConnectFails, ClientsStarted, ClientsDone, Collect, Finish
  <2>2. HarnessTypeOK'
    <3>1. CASE Collect
      <4>1. collected' \in 0..N
        BY <1>1, <3>1, ClientsFinite DEF Collect, TypeOK, HarnessTypeOK
      <4>2. errChan' \in Seq(Outcome) /\ Head(errChan) \in Outcome
        BY <1>1, <3>1, Received DEF Collect
      <4>3. firstErr' \in Clients \cup {NoClient}
        BY <1>1, <3>1, <4>2 DEF Collect, TypeOK, HarnessTypeOK, Outcome
      <4> QED
        BY <1>1, <3>1, <4>1, <4>2, <4>3 DEF Collect, TypeOK, HarnessTypeOK
    <3>2. CASE ConnectFails
      BY <1>1, <3>2 DEF ConnectFails, TypeOK, HarnessTypeOK, MainStates, Ended
    <3>3. CASE ClientsStarted
      BY <1>1, <3>3 DEF ClientsStarted, TypeOK, HarnessTypeOK, MainStates
    <3>4. CASE ClientsDone
      BY <1>1, <3>4 DEF ClientsDone, TypeOK, HarnessTypeOK, MainStates
    <3>5. CASE Finish
      BY <1>1, <3>5 DEF Finish, TypeOK, HarnessTypeOK, MainStates, Ended
    <3> QED
      BY <1>6, <3>1, <3>2, <3>3, <3>4, <3>5
  <2>3. TypeOK'
    BY <1>1, <1>2, <2>1, <2>2 DEF TypeOK, feedVars
  <2>4. \A d \in Clients : Same(d)
    BY <1>2, <2>1 DEF Same, feedVars
  <2>5. \A d \in Clients : Follows(d)'
    BY <1>1, <2>4, SameFollows
  <2> QED
    BY <1>3, <1>4, <2>3, <2>5 DEF IInv
<1> QED
  BY <1>2, <1>5, <1>6 DEF MainNext

LEMMA StutterInv ==
  ASSUME IInv, UNCHANGED vars
  PROVE  IInv'
<1>1. /\ UNCHANGED <<main, spawned, startwg, donewg, triggered, errChan, samples, collected,
                     firstErr, client>>
      /\ UNCHANGED <<kind, progressBar, attached, inbox, received, taken, handler, ch, interval,
                     nacked>>
  BY DEF vars, feedVars
<1>2. TypeOK /\ Delivered
  BY DEF IInv
<1>3. TypeOK' /\ Delivered'
  BY <1>1, <1>2, DeliverNone DEF TypeOK, HarnessTypeOK
<1>4. Books'
  BY <1>1, BystanderKeeps
<1>5. \A d \in Clients : Follows(d)'
  <2>1. \A d \in Clients : Same(d)
    BY <1>1 DEF Same
  <2> QED
    BY <2>1, SameFollows DEF IInv
<1> QED
  BY <1>3, <1>4, <1>5 DEF IInv

LEMMA InitInv == Init => IInv
<1> SUFFICES ASSUME Init PROVE IInv
  OBVIOUS
<1>1. /\ main = "connect" /\ spawned = 0 /\ startwg = 0 /\ donewg = 0 /\ triggered = FALSE
      /\ errChan = <<>> /\ samples = {} /\ collected = 0 /\ firstErr = NoClient
      /\ client = [c \in Clients |-> "unborn"]
  BY DEF Init, HarnessInit
<1>2. /\ kind \in Kinds /\ progressBar \in BOOLEAN
      /\ attached = {} /\ nacked = {}
      /\ inbox = [c \in Clients |-> 0] /\ taken = [c \in Clients |-> 0]
      /\ received = [c \in Clients |-> 0] /\ handler = [c \in Clients |-> "idle"]
      /\ ch = [c \in Clients |-> <<>>] /\ interval = [c \in Clients |-> <<>>]
  BY DEF Init
<1>3. TypeOK
  <2>1. HarnessTypeOK
    <3>1. errChan \in Seq(Outcome)
      BY <1>1, EmptySeq
    <3>2. spawned \in 0..N /\ collected \in 0..N /\ startwg \in Int /\ donewg \in Int
      BY <1>1, ClientsFinite
    <3>3. main \in MainStates /\ triggered \in BOOLEAN
      BY <1>1 DEF MainStates
    <3> QED
      BY <1>1, <3>1, <3>2, <3>3 DEF HarnessTypeOK
  <2>2. 0 \in Nat /\ 0 \in 0..NumStored /\ <<>> \in Seq(Nat) /\ Len(<<>>) = 0
    BY ConsumeAssumption, EmptySeq
  <2>3. "unborn" \in ClientStates /\ "idle" \in HandlerStates
    BY DEF ClientStates, HandlerStates
  <2> QED
    BY <1>1, <1>2, <2>1, <2>2, <2>3 DEF TypeOK
<1>4. Delivered
  <2>1. Total(taken) = 0
    BY <1>2, TotalIsSum, SumOfZeros, ClientsFinite
  <2> QED
    BY <2>1, ConsumeAssumption DEF Delivered
<1>5. ASSUME NEW c \in Clients
      PROVE  Follows(c)
  <2>1. Emitted(c) = <<>> /\ Len(<<>>) = 0 /\ Want(c) \in Nat
    BY <1>2, Wants DEF Emitted
  <2>2. Feed(c)
    BY <1>1, <1>2, <1>3, <2>1, KindFacts DEF Feed, TypeOK
  <2>3. Handling(c)
    BY <1>2 DEF Handling
  <2>4. HandlerStamps(c)
    BY <1>2, <2>1 DEF HandlerStamps
  <2>5. GetStamps(c)
    BY <1>1, <1>2, <2>1 DEF GetStamps
  <2>6. Stamps(c)
    BY <1>1, <1>2, <2>1 DEF Stamps, Timed
  <2> QED
    BY <2>2, <2>3, <2>4, <2>5, <2>6 DEF Follows
<1>6. Books
  <2>1. /\ At(client, OwesDone) = {} /\ At(client, HasReported) = {}
        /\ At(client, HasSampled) = {}
    BY <1>1 DEF At, OwesDone, HasReported, HasSampled
  <2>2. Cardinality({}) = 0 /\ Len(errChan) = 0
    BY <1>1, FS_EmptySet
  <2>3. Accounts
    <3>1. main # "panic" /\ donewg = 0 /\ Len(errChan) + collected = 0
      BY <1>1, <2>2
    <3> QED
      BY <2>1, <2>2, <3>1 DEF Accounts
  <2>4. Phases
    BY <1>1 DEF Phases, Clients
  <2>5. Heard = {}
    BY <1>1 DEF Heard
  <2>6. NilOutcomes
    BY <1>1, <2>2, <2>5 DEF NilOutcomes
  <2>7. ErrorsComeAhead /\ ResultsAreComplete
    BY <1>1, <1>2 DEF ErrorsComeAhead, ResultsAreComplete
  <2> QED
    BY <1>1, <2>1, <2>3, <2>4, <2>6, <2>7 DEF Books
<1> QED
  BY <1>3, <1>4, <1>5, <1>6 DEF IInv

LEMMA NextInv == IInv /\ [Next]_vars => IInv'
<1> SUFFICES ASSUME IInv, [Next]_vars PROVE IInv'
  OBVIOUS
<1>1. ASSUME NEW c \in Clients, ClientNext(c) PROVE IInv'
  BY <1>1, SettingUpInv, FetchingInv, EndingInv, AttachInv, EnterInv, FetchInv, GetInv,
     GotAllInv, TakeStampInv DEF ClientNext
<1> QED
  BY <1>1, MainInv, HandlerInv, ArriveInv, StutterInv DEF Next

THEOREM Invariance == Spec => []IInv
BY InitInv, NextInv, PTL DEF Spec

-----------------------------------------------------------------------------
(***************************************************************************)
(* The properties of the runs.                                             *)
(***************************************************************************)

\* The variables keep the types of the channels, counters and goroutines of
\* the benchmark.
THEOREM TypeCorrect == Spec => []TypeOK
<1>1. IInv => TypeOK
  BY DEF IInv
<1> QED
  BY <1>1, Invariance, PTL

\* The two time stamps a client takes from its channel are those of the first
\* message and of the last one it waits for, whatever the handler does
\* meanwhile, and the shares of the clients add up to the messages of the run.
THEOREM MeasurementsSpanTheRun == Spec => []MeasuresTheRun
<1>1. ASSUME IInv, NEW c \in samples
      PROVE  c \in Clients /\ interval[c] = <<FirstStamp, Want(c)>>
  <2>1. c \in Clients /\ client[c] \in Timed /\ TypeOK /\ Follows(c)
    BY <1>1 DEF IInv, Books, At, HasSampled, Timed
  <2>2. /\ Len(interval[c]) = 2 /\ interval[c] \in Seq(Nat) /\ ch[c] \in Seq(Nat)
        /\ Len(Emitted(c)) = Len(interval[c]) + Len(ch[c]) /\ Len(ch[c]) \in Nat
    BY <2>1, Typed DEF Follows, Stamps
  <2>3. \A k \in 1..2 : Emitted(c)[k] = interval[c][k]
    <3> DEFINE i == interval[c]
               h == ch[c]
    <3>1. i \in Seq(Nat) /\ h \in Seq(Nat) /\ Len(i) = 2
      BY <2>2
    <3>2. Emitted(c) = i \o h
      BY DEF Emitted
    <3>3. i = interval[c]
      OBVIOUS
    <3> HIDE DEF i, h
    <3>4. \A k \in 1..2 : (i \o h)[k] = i[k]
      <4>1. \A k \in 1..2 : k \in 1..(Len(i) + Len(h)) /\ k <= Len(i)
        BY <3>1, LenProperties
      <4> QED
        BY <3>1, <4>1, ConcatProperties
    <3> QED
      BY <3>2, <3>3, <3>4
  <2>4. Emitted(c)[1] = FirstStamp /\ Emitted(c)[2] = Want(c)
    <3>1. Len(Emitted(c)) >= 2
      BY <2>2
    <3> QED
      BY <2>1, <3>1 DEF Follows, Stamps
  <2>5. interval[c][1] = FirstStamp /\ interval[c][2] = Want(c)
    BY <2>3, <2>4
  <2>6. <<FirstStamp, Want(c)>> \in Seq(Nat)
    <3>1. FirstStamp \in Nat /\ Want(c) \in Nat
      BY <2>1, Wants DEF FirstStamp
    <3> QED
      BY <3>1
  <2>7. Len(<<FirstStamp, Want(c)>>) = 2
    OBVIOUS
  <2>8. \A k \in 1..2 : interval[c][k] = <<FirstStamp, Want(c)>>[k]
    BY <2>5
  <2> QED
    BY <2>1, <2>2, <2>6, <2>7, <2>8, SeqEqual
<1>2. ASSUME IInv, main = "results", kind \notin Broadcast
      PROVE  Total([c \in Clients |-> interval[c][2]]) = NumMsg
  <2> DEFINE f == [c \in Clients |-> interval[c][2]]
             share == MsgsPerClient(NumMsg, N)
  <2>1. NumMsg \in Nat /\ N \in Nat \ {0}
    BY SizesAssumption, ClientsFinite
  <2>2. samples = Clients
    BY <1>2 DEF IInv, Books, ResultsAreComplete
  <2>3. ASSUME NEW c \in Clients
        PROVE  f[c] = share[c] /\ share[c] \in Int
    <3>1. interval[c] = <<FirstStamp, Want(c)>>
      BY <1>1, <1>2, <2>2
    <3>2. f[c] = Want(c)
      BY <3>1
    <3>3. Want(c) = share[c] /\ Want(c) \in Nat
      BY <1>2, Wants
    <3> QED
      BY <3>2, <3>3
  <2>4. SumOf(share, Clients) = NumMsg
    <3>1. \A c \in 1..N : share[c] = (NumMsg \div N) + (IF c <= NumMsg % N THEN 1 ELSE 0)
      BY DEF share, MsgsPerClient
    <3> QED
      BY <2>1, <3>1, SharesAddUp DEF Clients
  <2> HIDE DEF f, share
  <2>5. SumOf(f, Clients) = SumOf(share, Clients)
    BY <2>3, ClientsFinite, SumsEqual
  <2>6. Total(f) = NumMsg
    BY <2>4, <2>5, TotalIsSum
  <2> QED
    BY <2>6 DEF f
<1>3. IInv => MeasuresTheRun
  BY <1>1, <1>2 DEF MeasuresTheRun, FirstStamp
<1> QED
  BY <1>3, Invariance, PTL

\* While no acknowledgement fails, errChan and the channel of the samples have
\* room for whoever reports, and donewg is released once per client.
THEOREM NeverBlocks == Spec => []ReportingNeverBlocks
<1>1. ASSUME IInv, nacked = {}
      PROVE  /\ main # "panic"
             /\ \A c \in Clients :
                  /\ client[c] \in {"misfit", "broken", "report"} => Len(errChan) < N
                  /\ client[c] = "sample" => Cardinality(samples) < N
  <2>1. /\ main # "panic" /\ samples = At(client, HasSampled)
        /\ Len(errChan) + collected = Cardinality(At(client, HasReported))
        /\ collected \in Nat /\ Len(errChan) \in Nat /\ N \in Nat
    BY <1>1, ClientsFinite, LenProperties
       DEF IInv, Books, Accounts, TypeOK, HarnessTypeOK
  <2>2. ASSUME NEW c \in Clients, NEW S, client[c] \notin S
        PROVE  Cardinality(At(client, S)) < N
    <3>1. At(client, S) # Clients
      BY <2>2 DEF At
    <3> QED
      BY <2>1, <3>1, AtFinite
  <2>3. ASSUME NEW c \in Clients, client[c] \in {"misfit", "broken", "report"}
        PROVE  Len(errChan) < N
    <3>1. client[c] \notin HasReported
      BY <2>3 DEF HasReported
    <3>2. Cardinality(At(client, HasReported)) < N
          /\ Cardinality(At(client, HasReported)) \in Nat
      BY <2>2, <3>1, AtFinite
    <3> QED
      BY <2>1, <3>2
  <2>4. ASSUME NEW c \in Clients, client[c] = "sample"
        PROVE  Cardinality(samples) < N
    <3>1. client[c] \notin HasSampled
      BY <2>4 DEF HasSampled
    <3> QED
      BY <2>1, <2>2, <3>1
  <2> QED
    BY <2>1, <2>3, <2>4
<1>2. IInv => ReportingNeverBlocks
  BY <1>1 DEF ReportingNeverBlocks
<1> QED
  BY <1>2, Invariance, PTL

\* Results are reported only when every client has handed in a sample and
\* finished and no acknowledgement has failed: its error is in errChan ahead
\* of a nil outcome of its client, so N nil outcomes leave none behind.
THEOREM ResultsHoldAll == Spec => []ResultsAreComplete
<1>1. IInv => ResultsAreComplete
  BY DEF IInv, Books
<1> QED
  BY <1>1, Invariance, PTL
=============================================================================
