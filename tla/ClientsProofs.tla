---------------------------- MODULE ClientsProofs ----------------------------
(***************************************************************************)
(* For any command lines, lines of stdin and losses of the connection: what *)
(* `nats pub` and `nats req` publish reaches the server in the order of the *)
(* input and once, an atomic batch is stored as a whole and only after all *)
(* of stdin was read, and a command that says it succeeded has published   *)
(* all of its input.  And for any number of servers, replicas, checks and  *)
(* clients what the other commands show is so (ReportsHold).               *)
(*                                                                         *)
(* The argument for the publisher compares what was published with where   *)
(* the callback is: it has published what comes before its chunk and copy, *)
(* in order, and if no error may have been passed over, without a gap.  The *)
(* one for the rest is in a part for each command, each with an invariant  *)
(* of its own; the last part puts them together.                           *)
(***************************************************************************)
EXTENDS Clients, NumberProofs, SequenceTheorems

(***************************************************************************)
(* The inductive invariant.                                                *)
(***************************************************************************)

\* What the client has given away: received by the server, then still held.
Given == wire \o outbox

PublisherTypes ==
  /\ job \in Jobs /\ copied \in Nat /\ chunk \in Nat /\ copy \in 1..job.count
  /\ pc \in {"read", "send", "wait", "commit", "adding", "ok", "error"}
  /\ drops \in Nat
  /\ pending \in Seq(Message) /\ wire \in Seq(Message) /\ outbox \in Seq(Message)

\* Where the callback is in its input.
Positions ==
  /\ conn => outbox = <<>>
  /\ drops = 0 => conn
  /\ pc = "read" => Stdin
  /\ pc = "wait" => job.kind = "req"
  /\ pc \in {"commit", "adding"} => job.kind = "atomic"
  /\ main = "ok" => pc = "ok"
  /\ Stdin /\ ~OnEof =>
       /\ chunk <= copied
       /\ eof => source = "eof" /\ chunk = copied
       /\ pc \in {"ok", "commit", "adding"} /\ job.kind # "req" => eof
  /\ ~Stdin \/ OnEof =>
       /\ pc = "read" => chunk = 0
       /\ pc \in {"send", "wait", "ok"} => chunk = 1
  /\ pc \in {"send", "wait"} => chunk >= 1

Ordered(s) == \A a, b \in 1..Len(s) : a < b => Before(s[a], s[b])

\* Everything given away comes before what is sent next.
GivenInOrder ==
  job.kind # "atomic" =>
    /\ Ordered(Given)
    /\ \A k \in 1..Len(Given) :
         /\ Given[k].chunk <= chunk
         /\ pc = "send" /\ Given[k].chunk = chunk => Given[k].copy < copy
         /\ pc = "wait" /\ Given[k].chunk = chunk => Given[k].copy <= copy

\* The first n messages there are, none left out.
Exactly(s, n) ==
  /\ Len(s) = n
  /\ \A k \in 1..n : /\ s[k].chunk = ((k - 1) \div job.count) + 1
                     /\ s[k].copy = ((k - 1) % job.count) + 1

\* How many messages come before the place the callback is at.
Behind == IF pc = "send" THEN (chunk - 1) * job.count + (copy - 1)
          ELSE chunk * job.count

\* Commands that end when a message is not acknowledged, or whose connection
\* has held.
Sure == (job.kind = "js" /\ OnEof) \/ (job.kind = "core" /\ drops = 0)

NothingLeftOut == Sure /\ pc # "error" => outbox = <<>> /\ Exactly(wire, Behind)

\* The atomic batch: what has been read is pending until it is all stored.
BatchPending ==
  job.kind = "atomic" =>
    /\ outbox = <<>> /\ copy = 1
    /\ IF job.headers THEN Exactly(pending, Behind) ELSE pending = <<>>
    /\ pc = "adding" => pending # <<>>
    /\ pc = "ok" => wire # <<>>
    /\ wire # <<>> => /\ pc \in {"ok", "error"} /\ eof
                      /\ Exactly(wire, chunk * job.count)

IInv ==
  /\ PublisherTypes /\ Positions
  /\ GivenInOrder /\ NothingLeftOut /\ BatchPending

-----------------------------------------------------------------------------
(***************************************************************************)
(* Facts about jobs, messages and the order of messages.                   *)
(***************************************************************************)

LEMMA JobFacts ==
  ASSUME job \in Jobs
  PROVE  /\ job.kind \in {"core", "js", "atomic", "req"}
         /\ job.count \in Nat \ {0}
         /\ job.kind = "atomic" => Stdin /\ ~OnEof
BY PublisherAssumption DEF Job, Stdin, OnEof

LEMMA MsgIsMessage ==
  ASSUME NEW c \in Nat, NEW n \in Nat
  PROVE  Msg(c, n) \in Message /\ Msg(c, n).chunk = c /\ Msg(c, n).copy = n
BY DEF Msg, Message

LEMMA MessagesAre ==
  ASSUME NEW s \in Seq(Message), NEW k \in 1..Len(s)
  PROVE  s[k] \in Message /\ s[k].chunk \in Nat /\ s[k].copy \in Nat
<1>1. s[k] \in Message
  BY ElementOfSeq
<1> QED
  BY <1>1 DEF Message

LEMMA CopiesAre ==
  ASSUME job \in Jobs, NEW c \in Nat
  PROVE  /\ Copies(c) \in Seq(Message) /\ Len(Copies(c)) = job.count
         /\ \A k \in 1..job.count : Copies(c)[k].chunk = c /\ Copies(c)[k].copy = k
<1>1. job.count \in Nat
  BY JobFacts
<1>2. \A k \in 1..job.count :
        Msg(c, k) \in Message /\ Msg(c, k).chunk = c /\ Msg(c, k).copy = k
  BY <1>1, MsgIsMessage
<1>3. /\ Copies(c) \in [1..job.count -> Message]
      /\ \A k \in 1..job.count : Copies(c)[k] = Msg(c, k)
  BY <1>2 DEF Copies
<1>4. Copies(c) \in Seq(Message) /\ Len(Copies(c)) = job.count
  BY <1>1, <1>3
<1> QED
  BY <1>2, <1>3, <1>4

\* What the client does with a message it is given.
LEMMA SentOrLost ==
  ASSUME PublisherTypes, conn => outbox = <<>>, NEW m \in Message,
         Reaches(m) \/ Lost \/ Held(m)
  PROVE  /\ Given' = Given \/ Given' = Append(Given, m)
         /\ wire' \in Seq(Message) /\ outbox' \in Seq(Message)
         /\ drops' \in Nat
         /\ conn' => outbox' = <<>>
<1> USE DEF PublisherTypes, Given
<1>1. CASE Reaches(m)
  BY <1>1 DEF Reaches
<1>2. CASE Lost
  BY <1>2 DEF Lost
<1>3. CASE Held(m)
  <2>1. /\ ~conn' /\ wire' = wire /\ outbox' = Append(outbox, m)
        /\ drops' = drops
    BY <1>3 DEF Held
  <2> QED
    BY <2>1
<1> QED
  BY <1>1, <1>2, <1>3

\* One more message leaves the order as it is.
LEMMA OrderSent ==
  ASSUME PublisherTypes, GivenInOrder, job.kind # "atomic", pc = "send",
         Given' = Given \/ Given' = Append(Given, Msg(chunk, copy))
  PROVE  /\ Ordered(Given')
         /\ \A k \in 1..Len(Given') :
              /\ Given'[k].chunk <= chunk
              /\ Given'[k].chunk = chunk => Given'[k].copy <= copy
<1>1. /\ Given \in Seq(Message) /\ chunk \in Nat /\ copy \in Nat
      /\ job.count \in Nat
  BY JobFacts DEF PublisherTypes, Given
<1>2. /\ Msg(chunk, copy) \in Message
      /\ Msg(chunk, copy).chunk = chunk /\ Msg(chunk, copy).copy = copy
  BY <1>1, MsgIsMessage
<1>3. /\ Ordered(Given)
      /\ \A k \in 1..Len(Given) :
           /\ Given[k].chunk <= chunk
           /\ Given[k].chunk = chunk => Given[k].copy < copy
           /\ Given[k].chunk \in Nat /\ Given[k].copy \in Nat
  <2>1. \A k \in 1..Len(Given) : Given[k].chunk \in Nat /\ Given[k].copy \in Nat
    BY <1>1, MessagesAre
  <2> QED
    BY <2>1 DEF GivenInOrder
<1>4. CASE Given' = Given
  BY <1>1, <1>3, <1>4
<1>5. CASE Given' = Append(Given, Msg(chunk, copy))
  <2> DEFINE g == Given
             h == Given'
             m == Msg(chunk, copy)
  <2>1. /\ Len(h) = Len(g) + 1 /\ h[Len(g) + 1] = m /\ Len(g) \in Nat
        /\ \A k \in 1..Len(g) : h[k] = g[k]
    BY <1>1, <1>2, <1>5
  <2> HIDE DEF g, h, m
  <2>2. \A k \in 1..Len(g) : Before(h[k], m)
    BY <1>1, <1>2, <1>3, <2>1 DEF Before, g, m
  <2>3. ASSUME NEW a \in 1..Len(h), NEW b \in 1..Len(h), a < b
        PROVE  Before(h[a], h[b])
    <3>1. a \in 1..Len(g)
      BY <2>1, <2>3
    <3>2. CASE b = Len(g) + 1
      BY <2>1, <2>2, <3>1, <3>2
    <3>3. CASE b # Len(g) + 1
      BY <1>3, <2>1, <2>3, <3>1, <3>3 DEF Ordered, g
    <3> QED
      BY <3>2, <3>3
  <2>4. \A k \in 1..Len(h) :
          h[k].chunk <= chunk /\ (h[k].chunk = chunk => h[k].copy <= copy)
    <3> TAKE k \in 1..Len(h)
    <3>1. CASE k = Len(g) + 1
      BY <1>1, <1>2, <2>1, <3>1 DEF m
    <3>2. CASE k # Len(g) + 1
      <4>1. k \in 1..Len(g)
        BY <2>1, <3>2
      <4> QED
        BY <1>1, <1>3, <2>1, <4>1 DEF g
    <3> QED
      BY <3>1, <3>2
  <2> QED
    BY <2>3, <2>4 DEF Ordered, h
<1> QED
  BY <1>4, <1>5

\* The next message continues the first n.
LEMMA ExactlyNext ==
  ASSUME PublisherTypes, pc = "send", chunk >= 1,
         NEW s \in Seq(Message), Exactly(s, Behind)
  PROVE  /\ Behind \in Nat
         /\ Exactly(Append(s, Msg(chunk, copy)), Behind + 1)
         /\ copy = job.count => Behind + 1 = chunk * job.count
<1> DEFINE q == chunk - 1
           b == job.count
           r == copy - 1
           n == Behind
           t == Append(s, Msg(chunk, copy))
<1>1. q \in Nat /\ b \in Nat \ {0} /\ r \in 0..(b - 1) /\ copy \in Nat
      /\ chunk = q + 1 /\ copy = r + 1
  BY JobFacts DEF PublisherTypes
<1>2. n = q * b + r
  BY DEF Behind
<1> HIDE DEF q, b, r, n
<1>3. n \in Nat /\ n \div b = q /\ n % b = r
  BY <1>1, <1>2, Placed
<1>4. /\ Len(t) = n + 1 /\ t[n + 1] = Msg(chunk, copy)
      /\ \A k \in 1..n : t[k] = s[k]
      /\ Len(s) = n
  <2> DEFINE m == Msg(chunk, copy)
  <2>1. Len(s) = n
    BY DEF Exactly, n
  <2>2. m \in Message
    BY <1>1, MsgIsMessage DEF PublisherTypes
  <2> HIDE DEF m
  <2>3. /\ Len(Append(s, m)) = Len(s) + 1 /\ Append(s, m)[Len(s) + 1] = m
        /\ \A k \in 1..Len(s) : Append(s, m)[k] = s[k]
    BY <2>2, AppendProperties
  <2> QED
    BY <2>1, <2>3 DEF m
<1>5. Msg(chunk, copy).chunk = q + 1 /\ Msg(chunk, copy).copy = r + 1
  BY <1>1, MsgIsMessage DEF PublisherTypes
<1>6. ASSUME NEW k \in 1..(n + 1)
      PROVE  t[k].chunk = ((k - 1) \div b) + 1 /\ t[k].copy = ((k - 1) % b) + 1
  <2>1. CASE k = n + 1
    <3>1. k - 1 = n
      BY <1>3, <2>1
    <3> QED
      BY <1>3, <1>4, <1>5, <2>1, <3>1
  <2>2. CASE k # n + 1
    <3>1. k \in 1..n
      BY <1>3, <2>2
    <3> QED
      BY <1>4, <3>1 DEF Exactly, n, b
  <2> QED
    BY <2>1, <2>2
<1>7. r + 1 = b => n + 1 = (q + 1) * b
  BY <1>1, <1>2
<1>8. Exactly(t, n + 1)
  <2> HIDE DEF t
  <2> QED
    BY <1>4, <1>6 DEF Exactly, b
<1> QED
  BY <1>1, <1>3, <1>7, <1>8 DEF n, b

\* All copies of the chunk continue the first n.
LEMMA ExactlyCopies ==
  ASSUME PublisherTypes, chunk >= 1, NEW s \in Seq(Message),
         Exactly(s, (chunk - 1) * job.count)
  PROVE  /\ s \o Copies(chunk) \in Seq(Message)
         /\ Exactly(s \o Copies(chunk), chunk * job.count)
<1> DEFINE q == chunk - 1
           b == job.count
           n == q * b
           c == Copies(chunk)
           t == s \o c
<1>1. q \in Nat /\ b \in Nat \ {0} /\ n \in Nat /\ chunk = q + 1
      /\ chunk * b = n + b
  BY JobFacts DEF PublisherTypes
<1>2. /\ c \in Seq(Message) /\ Len(c) = b
      /\ \A k \in 1..b : c[k].chunk = chunk /\ c[k].copy = k
  BY JobFacts, CopiesAre DEF PublisherTypes
<1>3. Len(s) = n
  BY DEF Exactly
<1> HIDE DEF c, n, b, q
<1>4. /\ t \in Seq(Message) /\ Len(t) = n + b
      /\ \A k \in 1..(n + b) : t[k] = IF k <= n THEN s[k] ELSE c[k - n]
  BY <1>1, <1>2, <1>3, ConcatProperties
<1> HIDE DEF t
<1>5. ASSUME NEW k \in 1..(n + b)
      PROVE  t[k].chunk = ((k - 1) \div b) + 1 /\ t[k].copy = ((k - 1) % b) + 1
  <2>1. CASE k <= n
    <3>1. k \in 1..n
      BY <1>1, <2>1
    <3>2. s[k].chunk = ((k - 1) \div b) + 1 /\ s[k].copy = ((k - 1) % b) + 1
      BY <3>1 DEF Exactly, n, q, b
    <3> QED
      BY <1>4, <2>1, <3>2
  <2>2. CASE ~(k <= n)
    <3> DEFINE r == k - n - 1
    <3>1. r \in 0..(b - 1) /\ k - n \in 1..b /\ k - n = r + 1 /\ k - 1 = n + r
      BY <1>1, <2>2
    <3>2. t[k] = c[k - n]
      BY <1>4, <2>2
    <3> HIDE DEF r
    <3>3. (q * b + r) \div b = q /\ (q * b + r) % b = r
      BY <1>1, <3>1, Placed
    <3>4. (k - 1) \div b = q /\ (k - 1) % b = r
      BY <3>1, <3>3 DEF n
    <3> QED
      BY <1>1, <1>2, <3>1, <3>2, <3>4
  <2> QED
    BY <2>1, <2>2
<1> QED
  BY <1>1, <1>4, <1>5 DEF Exactly, t, c, b

-----------------------------------------------------------------------------
(***************************************************************************)
(* Which steps there are.                                                  *)
(***************************************************************************)

\* Replies, other processes and other commands leave all of this alone.
Elsewhere ==
  UNCHANGED <<job, copied, source, chunk, copy, eof, pc, pending, main, link>>

LEMMA ElsewhereKeeps ==
  ASSUME IInv, Elsewhere
  PROVE  IInv'
<1>1. /\ job' = job /\ copied' = copied /\ source' = source /\ chunk' = chunk
      /\ copy' = copy /\ eof' = eof /\ pc' = pc /\ pending' = pending
      /\ main' = main /\ conn' = conn /\ drops' = drops /\ outbox' = outbox
      /\ wire' = wire
  BY DEF Elsewhere, link
<1>2. PublisherTypes'
  BY <1>1 DEF IInv, PublisherTypes
<1>3. Positions'
  BY <1>1 DEF IInv, Positions, Stdin, OnEof
<1>4. GivenInOrder'
  BY <1>1 DEF IInv, GivenInOrder, Given, Ordered
<1>5. NothingLeftOut'
  BY <1>1 DEF IInv, NothingLeftOut, Sure, OnEof, Exactly, Behind
<1>6. BatchPending'
  BY <1>1 DEF IInv, BatchPending, Exactly, Behind
<1> QED
  BY <1>2, <1>3, <1>4, <1>5, <1>6 DEF IInv

LEMMA StepKinds ==
  ASSUME [Next]_vars
  PROVE  Environment \/ Callback \/ MainLoop \/ Elsewhere
<1>1. UNCHANGED publisherVars => Elsewhere
  BY DEF publisherVars, input, work, Elsewhere
<1>2. ASSUME NEW m, NEW r, ToInbox(m, r)
      PROVE  Elsewhere
  BY <1>2 DEF ToInbox, input, work, Elsewhere
<1>3. UNCHANGED messagingVars => UNCHANGED publisherVars
  BY DEF messagingVars
<1>4. UNCHANGED vars => UNCHANGED messagingVars
  BY DEF vars
<1>5. ASSUME MessagingNext
      PROVE  Environment \/ Callback \/ MainLoop \/ Elsewhere
  <2>1. Route => Elsewhere
    BY <1>1, <1>2 DEF Route
  <2>2. Measuring => Elsewhere
    BY <1>1 DEF Measuring
  <2>3. ASSUME NEW r \in Repliers,
               Reply(r) \/ ReplierRuns(r) \/ ReplierInterrupted(r) \/ ReplierGivesUp(r)
        PROVE  Elsewhere
    <3>1. CASE Reply(r)
      BY <3>1, <1>2 DEF Reply
    <3>2. CASE ReplierRuns(r) \/ ReplierInterrupted(r) \/ ReplierGivesUp(r)
      BY <3>2, <1>1 DEF ReplierRuns, ReplierInterrupted, ReplierGivesUp, Alone
    <3> QED
      BY <2>3, <3>1, <3>2
  <2> QED
    BY <1>5, <2>1, <2>2, <2>3 DEF MessagingNext, Publishing
<1> QED
  BY <1>1, <1>3, <1>4, <1>5 DEF Next, Messages, Tops, Watches, Pinging, Reporting,
    Exporting, Comparing, Serving, Getting

-----------------------------------------------------------------------------
(***************************************************************************)
(* What the parts of the invariant ask of a step.                          *)
(***************************************************************************)

LEMMA Initially ==
  ASSUME Init
  PROVE  IInv
<1>1. /\ job \in Jobs /\ copied = 0 /\ source = "open"
      /\ chunk = (IF job.stdin THEN 0 ELSE 1) /\ copy = 1 /\ eof = ~job.stdin
      /\ pc = (IF job.stdin THEN "read" ELSE "send")
      /\ pending = <<>> /\ main = "select"
      /\ conn = TRUE /\ drops = 0 /\ outbox = <<>> /\ wire = <<>>
  BY DEF Init, MessagingInit, PublisherInit
<1>2. /\ job.kind \in {"core", "js", "atomic", "req"} /\ job.count \in Nat \ {0}
      /\ job.stdin \in BOOLEAN
      /\ job.kind = "atomic" => job.stdin
  BY <1>1, PublisherAssumption DEF Job
<1>3. Given = <<>> /\ Len(Given) = 0 /\ <<>> \in Seq(Message)
  BY <1>1 DEF Given
<1>4. PublisherTypes
  BY <1>1, <1>2, <1>3 DEF PublisherTypes
<1>5. Positions
  <2>1. CASE job.stdin
    <3>1. ~eof /\ conn /\ pc = "read" /\ chunk = 0 /\ main = "select"
          /\ copied = 0 /\ outbox = <<>>
      BY <1>1, <2>1
    <3> QED
      BY <3>1, <2>1 DEF Positions, Stdin
  <2>2. CASE ~job.stdin
    BY <1>1, <1>2, <2>2 DEF Positions, Stdin
  <2> QED
    BY <2>1, <2>2
<1>6. GivenInOrder
  BY <1>3 DEF GivenInOrder, Ordered
<1>7. Behind = 0 /\ Exactly(<<>>, 0)
  BY <1>1, <1>2 DEF Behind, Exactly
<1>8. NothingLeftOut
  BY <1>1, <1>7 DEF NothingLeftOut
<1>9. BatchPending
  BY <1>1, <1>7 DEF BatchPending
<1> QED
  BY <1>4, <1>5, <1>6, <1>8, <1>9 DEF IInv

\* The order does not change while nothing new is given away and the place
\* of the callback does not move back.
LEMMA OrderKept ==
  ASSUME PublisherTypes, GivenInOrder, job' = job,
         Given' = Given \/ Given' = wire,
         \/ chunk' = chunk /\ pc' \notin {"send", "wait"}
         \/ chunk' = chunk /\ pc' = pc /\ copy' = copy
         \/ chunk' = chunk /\ pc = "wait" /\ copy' = copy + 1
         \/ chunk' = chunk + 1
  PROVE  GivenInOrder'
<1>1. /\ chunk \in Nat /\ copy \in Nat
      /\ wire \in Seq(Message) /\ outbox \in Seq(Message) /\ Given \in Seq(Message)
  BY JobFacts DEF PublisherTypes, Given
<1>2. \A k \in 1..Len(Given) : Given[k].chunk \in Nat /\ Given[k].copy \in Nat
  BY <1>1, MessagesAre
<1>3. /\ Len(Given') \in Nat /\ Len(Given') <= Len(Given)
      /\ \A k \in 1..Len(Given') : k \in 1..Len(Given) /\ Given'[k] = Given[k]
  <2>1. CASE Given' = Given
    BY <1>1, <2>1
  <2>2. CASE Given' = wire
    BY <1>1, <2>2, ConcatProperties DEF Given
  <2> QED
    BY <2>1, <2>2
<1> SUFFICES ASSUME job.kind # "atomic"
             PROVE  GivenInOrder'
  BY DEF GivenInOrder
<1>4. /\ Ordered(Given)
      /\ \A k \in 1..Len(Given) :
           /\ Given[k].chunk <= chunk
           /\ pc = "send" /\ Given[k].chunk = chunk => Given[k].copy < copy
           /\ pc = "wait" /\ Given[k].chunk = chunk => Given[k].copy <= copy
  BY DEF GivenInOrder
<1> DEFINE g == Given
           h == Given'
<1>5. \A a, b \in 1..Len(h) : a < b => Before(h[a], h[b])
  BY <1>3, <1>4 DEF Ordered
<1>6. ASSUME NEW k \in 1..Len(h)
      PROVE  /\ h[k].chunk <= chunk'
             /\ pc' = "send" /\ h[k].chunk = chunk' => h[k].copy < copy'
             /\ pc' = "wait" /\ h[k].chunk = chunk' => h[k].copy <= copy'
  <2>1. /\ h[k].chunk \in Nat /\ h[k].copy \in Nat /\ h[k].chunk <= chunk
        /\ pc = "send" /\ h[k].chunk = chunk => h[k].copy < copy
        /\ pc = "wait" /\ h[k].chunk = chunk => h[k].copy <= copy
    BY <1>2, <1>3, <1>4
  <2> HIDE DEF h
  <2> QED
    BY <1>1, <2>1
<1> QED
  BY <1>5, <1>6 DEF GivenInOrder, Ordered

\* Nor when the message it is at was given away and it goes on to the next.
LEMMA OrderNext ==
  ASSUME PublisherTypes, GivenInOrder, job.kind # "atomic", pc = "send", job' = job,
         Given' = Given \/ Given' = Append(Given, Msg(chunk, copy)),
         chunk' = chunk,
         \/ pc' \notin {"send", "wait"}
         \/ pc' = "wait" /\ copy' = copy
         \/ pc' = "send" /\ copy' = copy + 1
  PROVE  GivenInOrder'
<1>1. chunk \in Nat /\ copy \in Nat
  BY JobFacts DEF PublisherTypes
<1>2. /\ Ordered(Given')
      /\ \A k \in 1..Len(Given') :
           /\ Given'[k].chunk <= chunk
           /\ Given'[k].chunk = chunk => Given'[k].copy <= copy
  BY OrderSent
<1>3. Given' \in Seq(Message)
  <2>1. Given \in Seq(Message)
    BY DEF PublisherTypes, Given
  <2>2. Append(Given, Msg(chunk, copy)) \in Seq(Message)
    BY <1>1, <2>1, MsgIsMessage, AppendProperties
  <2> QED
    BY <2>1, <2>2
<1> DEFINE h == Given'
<1>4. \A k \in 1..Len(h) : h[k].copy \in Nat
  BY <1>3, MessagesAre
<1> HIDE DEF h
<1>5. \A k \in 1..Len(h) : h[k].chunk <= chunk /\ (h[k].chunk = chunk => h[k].copy <= copy)
  BY <1>2 DEF h
<1>6. \A k \in 1..Len(h) :
        /\ h[k].chunk <= chunk'
        /\ pc' = "send" /\ h[k].chunk = chunk' => h[k].copy < copy'
        /\ pc' = "wait" /\ h[k].chunk = chunk' => h[k].copy <= copy'
  BY <1>1, <1>4, <1>5
<1> QED
  BY <1>2, <1>6 DEF GivenInOrder, h, Ordered

-----------------------------------------------------------------------------
(***************************************************************************)
(* The steps around the callback.                                          *)
(***************************************************************************)

\* What an empty outbox means for what was given away.
LEMMA GivenIsWire ==
  ASSUME PublisherTypes
  PROVE  /\ outbox = <<>> => Given = wire
         /\ wire' = wire /\ outbox' = <<>> => Given' = wire
BY ConcatEmptySeq DEF PublisherTypes, Given

LEMMA EnvironmentKeeps ==
  ASSUME IInv, Environment
  PROVE  IInv'
<1> USE DEF IInv
<1>0. job' = job /\ job \in Jobs
  BY DEF Environment, CopyLine, CloseSource, Signal, Disconnect, Reconnect,
    PublisherTypes
<1>1. CASE CopyLine
  <2>1. /\ Stdin /\ source = "open" /\ copied' = copied + 1 /\ source' = source
        /\ chunk' = chunk /\ copy' = copy /\ eof' = eof /\ pc' = pc
        /\ pending' = pending /\ main' = main /\ conn' = conn /\ drops' = drops
        /\ outbox' = outbox /\ wire' = wire
    BY <1>1 DEF CopyLine, work, link
  <2>2. PublisherTypes'
    BY <1>0, <2>1 DEF PublisherTypes
  <2>3. Positions'
    BY <1>0, <2>1 DEF Positions, PublisherTypes, Stdin, OnEof
  <2>4. GivenInOrder'
    BY <1>0, <2>1, OrderKept DEF Given
  <2>5. NothingLeftOut'
    BY <1>0, <2>1 DEF NothingLeftOut, Sure, OnEof, Exactly, Behind
  <2>6. BatchPending'
    BY <1>0, <2>1 DEF BatchPending, Exactly, Behind
  <2> QED
    BY <2>2, <2>3, <2>4, <2>5, <2>6
<1>2. CASE CloseSource
  <2>1. /\ Stdin /\ source = "open" /\ copied' = copied
        /\ chunk' = chunk /\ copy' = copy /\ eof' = eof /\ pc' = pc
        /\ pending' = pending /\ main' = main /\ conn' = conn /\ drops' = drops
        /\ outbox' = outbox /\ wire' = wire
    BY <1>2 DEF CloseSource, work, link
  <2>2. PublisherTypes'
    BY <1>0, <2>1 DEF PublisherTypes
  <2>3. Positions'
    BY <1>0, <2>1 DEF Positions, PublisherTypes, Stdin, OnEof
  <2>4. GivenInOrder'
    BY <1>0, <2>1, OrderKept DEF Given
  <2>5. NothingLeftOut'
    BY <1>0, <2>1 DEF NothingLeftOut, Sure, OnEof, Exactly, Behind
  <2>6. BatchPending'
    BY <1>0, <2>1 DEF BatchPending, Exactly, Behind
  <2> QED
    BY <2>2, <2>3, <2>4, <2>5, <2>6
<1>3. CASE Signal
  BY <1>3, ElsewhereKeeps DEF Signal, Elsewhere, input, work
<1>4. CASE Disconnect
  <2>1. /\ copied' = copied /\ source' = source /\ ~conn' /\ conn
        /\ chunk' = chunk /\ copy' = copy /\ eof' = eof /\ pc' = pc
        /\ pending' = pending /\ main' = main /\ drops' = drops + 1
        /\ outbox' = outbox /\ wire' = wire
    BY <1>4 DEF Disconnect, work, input
  <2>2. PublisherTypes'
    BY <1>0, <2>1 DEF PublisherTypes
  <2>3. drops' # 0
    BY <2>1 DEF PublisherTypes
  <2>4. Positions'
    BY <1>0, <2>1, <2>3 DEF Positions, Stdin, OnEof
  <2>5. GivenInOrder'
    BY <1>0, <2>1, OrderKept DEF Given
  <2>6. NothingLeftOut'
    <3>1. Sure' => Sure
      BY <1>0, <2>3 DEF Sure, OnEof
    <3> QED
      BY <1>0, <2>1, <3>1 DEF NothingLeftOut, Exactly, Behind
  <2>7. BatchPending'
    BY <1>0, <2>1 DEF BatchPending, Exactly, Behind
  <2> QED
    BY <2>2, <2>4, <2>5, <2>6, <2>7
<1>5. CASE Reconnect
  <2>1. /\ copied' = copied /\ source' = source /\ conn' /\ ~conn
        /\ chunk' = chunk /\ copy' = copy /\ eof' = eof /\ pc' = pc
        /\ pending' = pending /\ main' = main /\ drops' = drops
        /\ outbox' = <<>> /\ wire' = Given
    BY <1>5 DEF Reconnect, work, input, Given
  <2>2. Given \in Seq(Message)
    BY DEF PublisherTypes, Given
  <2>3. Given' = Given
    BY <2>1, <2>2, ConcatEmptySeq DEF Given
  <2>4. PublisherTypes'
    BY <1>0, <2>1, <2>2 DEF PublisherTypes
  <2>5. Positions'
    BY <1>0, <2>1 DEF Positions, Stdin, OnEof
  <2>6. GivenInOrder'
    BY <1>0, <2>1, <2>3, OrderKept
  <2>7. outbox = <<>> => wire' = wire
    BY <2>1, GivenIsWire
  <2>8. NothingLeftOut'
    BY <1>0, <2>1, <2>7 DEF NothingLeftOut, Sure, OnEof, Exactly, Behind
  <2>9. BatchPending'
    BY <1>0, <2>1, <2>7 DEF BatchPending, Exactly, Behind
  <2> QED
    BY <2>4, <2>5, <2>6, <2>8, <2>9
<1> QED
  BY <1>1, <1>2, <1>3, <1>4, <1>5 DEF Environment

LEMMA MainKeeps ==
  ASSUME IInv, MainLoop
  PROVE  IInv'
<1> USE DEF IInv
<1>1. /\ job' = job /\ copied' = copied /\ source' = source
      /\ chunk' = chunk /\ copy' = copy /\ eof' = eof /\ pc' = pc
      /\ pending' = pending /\ conn' = conn /\ drops' = drops /\ wire' = wire
      /\ outbox' = outbox \/ outbox' = <<>>
      /\ main' = "ok" => pc = "ok"
  BY DEF MainLoop, RunInterrupted, RunCompleted, CloseAfterSignal, work, input, link
<1>2. PublisherTypes'
  <2>1. outbox' \in Seq(Message)
    BY <1>1, EmptySeq DEF PublisherTypes
  <2> QED
    BY <1>1, <2>1 DEF PublisherTypes
<1>3. Positions'
  BY <1>1 DEF Positions, Stdin, OnEof
<1>4. Given' = Given \/ Given' = wire
  BY <1>1, GivenIsWire DEF Given
<1>5. GivenInOrder'
  BY <1>1, <1>4, OrderKept
<1>6. NothingLeftOut'
  BY <1>1 DEF NothingLeftOut, Sure, OnEof, Exactly, Behind
<1>7. BatchPending'
  BY <1>1 DEF BatchPending, Exactly, Behind
<1> QED
  BY <1>2, <1>3, <1>5, <1>6, <1>7

-----------------------------------------------------------------------------
(***************************************************************************)
(* The callback reads.                                                     *)
(***************************************************************************)

Reads == ReadAll \/ ReadLine \/ ReadEnd \/ ReadFails

\* Reading gives nothing away, and goes on to the next chunk if at all.
LEMMA ReadsOnly ==
  ASSUME Reads
  PROVE  /\ job' = job /\ copied' = copied /\ source' = source
         /\ pending' = pending /\ main' = main /\ conn' = conn
         /\ drops' = drops /\ outbox' = outbox /\ wire' = wire
         /\ pc = "read"
         /\ \/ chunk' = chunk + 1 /\ copy' = 1 /\ pc' = "send"
            \/ chunk' = chunk /\ copy' = copy
               /\ pc' \in {"ok", "commit", "error"}
BY DEF Reads, ReadAll, ReadLine, ReadEnd, ReadFails, Fail, Body, Running, work,
  input, link

LEMMA ReadsMove ==
  ASSUME PublisherTypes, Positions, Reads
  PROVE  Positions'
<1>1. /\ job \in Jobs /\ chunk \in Nat /\ copied \in Nat
      /\ job.kind = "atomic" => Stdin /\ ~OnEof
  BY JobFacts DEF PublisherTypes
<1>2. CASE ReadAll
  <2>1. Stdin /\ OnEof /\ pc' = "send" /\ chunk' = chunk + 1 /\ pc = "read"
    BY <1>2, ReadsOnly DEF ReadAll, Body, Running, Positions
  <2>2. chunk = 0
    BY <2>1 DEF Positions
  <2>3. OnEof' /\ Stdin' /\ chunk' = 1
    BY <2>1, <2>2, ReadsOnly DEF OnEof, Stdin
  <2> QED
    BY <2>1, <2>3, ReadsOnly DEF Positions
<1>3. CASE ReadLine
  <2>1. /\ ~OnEof /\ pc' = "send" /\ chunk' = chunk + 1 /\ pc = "read"
        /\ chunk < copied
        /\ ~eof' \/ (chunk + 1 = copied /\ source = "eof")
    BY <1>3 DEF ReadLine, Body, Running, AtEnd
  <2> QED
    BY <1>1, <2>1, ReadsOnly DEF Positions, OnEof, Stdin
<1>4. CASE ReadEnd
  <2>1. /\ ~OnEof /\ chunk' = chunk /\ pc = "read" /\ chunk = copied
        /\ source = "eof" /\ pc' = IF job.kind = "atomic" THEN "commit" ELSE "ok"
        /\ eof'
    BY <1>4 DEF ReadEnd, Running, AtEnd
  <2> QED
    BY <1>1, <2>1, ReadsOnly DEF Positions, OnEof, Stdin
<1>5. CASE ReadFails
  <2>1. pc' = "error" /\ chunk' = chunk /\ eof' = eof
    BY <1>5 DEF ReadFails, Fail
  <2> QED
    BY <1>1, <2>1, ReadsOnly DEF Positions, OnEof, Stdin
<1> QED
  BY <1>2, <1>3, <1>4, <1>5 DEF Reads

LEMMA ReadsKeep ==
  ASSUME IInv, Reads
  PROVE  IInv'
<1> USE DEF IInv
<1>1. /\ job' = job /\ copied' = copied /\ source' = source
      /\ pending' = pending /\ main' = main /\ conn' = conn
      /\ drops' = drops /\ outbox' = outbox /\ wire' = wire
      /\ pc = "read"
      /\ \/ chunk' = chunk + 1 /\ copy' = 1 /\ pc' = "send"
         \/ chunk' = chunk /\ copy' = copy /\ pc' \in {"ok", "commit", "error"}
  BY ReadsOnly
<1>2. chunk \in Nat /\ job.count \in Nat \ {0} /\ copy \in 1..job.count
  BY JobFacts DEF PublisherTypes
<1>3. PublisherTypes'
  BY <1>1, <1>2 DEF PublisherTypes
<1>4. Positions'
  BY ReadsMove
<1>5. GivenInOrder'
  <2>1. Given' = Given
    BY <1>1 DEF Given
  <2> QED
    BY <1>1, <2>1, OrderKept
<1>6. Behind' = Behind
  <2>1. CASE pc' = "send"
    <3>1. (chunk + 1) - 1 = chunk /\ chunk * job.count \in Nat
      BY <1>2
    <3>2. Behind' = ((chunk + 1) - 1) * job.count + (1 - 1)
      BY <1>1, <2>1 DEF Behind
    <3>3. Behind = chunk * job.count
      BY <1>1 DEF Behind
    <3> QED
      BY <3>1, <3>2, <3>3
  <2>2. CASE pc' # "send"
    BY <1>1, <2>2 DEF Behind
  <2> QED
    BY <2>1, <2>2
<1>7. NothingLeftOut'
  BY <1>1, <1>6 DEF NothingLeftOut, Sure, OnEof, Exactly
<1>8. BatchPending'
  <2>1. job.kind = "atomic" => wire = <<>>
    BY <1>1 DEF BatchPending
  <2>2. job.kind = "atomic" => copy = 1
    BY DEF BatchPending
  <2>3. job.kind = "atomic" =>
          IF job.headers THEN Exactly(pending, Behind) ELSE pending = <<>>
    BY DEF BatchPending
  <2>4. job'.kind = "atomic" =>
          IF job'.headers THEN Exactly(pending, Behind)' ELSE pending' = <<>>
    BY <1>1, <1>6, <2>3 DEF Exactly
  <2> QED
    <3>1. ASSUME job.kind = "atomic"
          PROVE  /\ outbox' = <<>> /\ copy' = 1 /\ wire' = <<>>
                 /\ pc' # "adding"
                 /\ pc' # "ok"
      BY <1>1, <2>1, <2>2, <3>1, ReadsOnly DEF BatchPending, Reads, ReadAll, ReadLine,
        ReadEnd, ReadFails, Body, Fail
    <3> QED
      BY <1>1, <2>4, <3>1 DEF BatchPending
<1> QED
  BY <1>3, <1>4, <1>5, <1>7, <1>8

-----------------------------------------------------------------------------
(***************************************************************************)
(* The callback sends a message.                                           *)
(***************************************************************************)

Sends == PublishFails \/ PublishCore \/ PublishJS \/ PublishJSFails \/ SendRequest

\* After the last copy of a chunk.
Ends == pc' = AfterChunk /\ copy' = copy
Continues == copy < job.count /\ pc' = "send" /\ copy' = copy + 1

LEMMA SendsOnly ==
  ASSUME Sends
  PROVE  /\ job' = job /\ copied' = copied /\ source' = source /\ chunk' = chunk
         /\ eof' = eof /\ pending' = pending /\ main' = main
         /\ pc = "send" /\ job.kind # "atomic"
         /\ \/ UNCHANGED link \/ Lost
            \/ Reaches(Msg(chunk, copy)) \/ Held(Msg(chunk, copy))
         /\ \/ pc' = "error" /\ copy' = copy
            \/ pc' = "wait" /\ copy' = copy /\ job.kind = "req"
            \/ Ends \/ Continues
<1>1. CASE PublishFails
  BY <1>1 DEF PublishFails, Running, Fail, input
<1>2. CASE PublishCore
  BY <1>2 DEF PublishCore, Running, NextCopy, input, Ends, Continues
<1>3. CASE PublishJS
  BY <1>3 DEF PublishJS, Running, NextCopy, input, Ends, Continues
<1>4. CASE PublishJSFails
  BY <1>4 DEF PublishJSFails, Running, input, Ends
<1>5. CASE SendRequest
  BY <1>5 DEF SendRequest, Running, input
<1> QED
  BY <1>1, <1>2, <1>3, <1>4, <1>5 DEF Sends

\* A command that is sure of its messages goes on only when this one reached
\* the server.
LEMMA SendsSurely ==
  ASSUME Sends, Sure', pc' # "error", PublisherTypes, Positions
  PROVE  /\ Sure /\ Reaches(Msg(chunk, copy))
         /\ Continues \/ (copy = job.count /\ Ends)
<1>1. job' = job /\ copy \in 1..job.count /\ job.count \in Nat
  BY SendsOnly, JobFacts DEF PublisherTypes
<1>2. (job.kind = "js" /\ OnEof) \/ (job.kind = "core" /\ drops' = 0)
  BY <1>1 DEF Sure, OnEof
<1>3. CASE PublishCore
  <2>1. drops' = 0
    BY <1>2, <1>3 DEF PublishCore
  <2>2. ~Lost
    BY <2>1 DEF Lost, PublisherTypes
  <2>3. ~Held(Msg(chunk, copy))
    BY <2>1 DEF Held, Positions
  <2>4. Reaches(Msg(chunk, copy))
    BY <1>3, <2>2, <2>3 DEF PublishCore
  <2>5. drops = 0
    BY <2>1, <2>4 DEF Reaches
  <2> QED
    BY <1>1, <1>3, <2>4, <2>5 DEF PublishCore, NextCopy, Ends, Continues, Sure
<1>4. CASE PublishJS
  <2>1. Reaches(Msg(chunk, copy)) /\ drops' = drops
    BY <1>4 DEF PublishJS, Reaches
  <2> QED
    BY <1>1, <1>2, <1>4, <2>1 DEF PublishJS, NextCopy, Ends, Continues, Sure
<1>5. CASE PublishJSFails
  BY <1>2, <1>5 DEF PublishJSFails
<1>6. CASE PublishFails
  BY <1>6 DEF PublishFails, Fail
<1>7. CASE SendRequest
  BY <1>2, <1>7 DEF SendRequest
<1> QED
  BY <1>3, <1>4, <1>5, <1>6, <1>7 DEF Sends

LEMMA SendsKeep ==
  ASSUME IInv, Sends
  PROVE  IInv'
<1> USE DEF IInv
<1> DEFINE m == Msg(chunk, copy)
<1>1. /\ job' = job /\ copied' = copied /\ source' = source /\ chunk' = chunk
      /\ eof' = eof /\ pending' = pending /\ main' = main
      /\ pc = "send" /\ job.kind # "atomic"
      /\ UNCHANGED link \/ Lost \/ Reaches(m) \/ Held(m)
      /\ \/ pc' = "error" /\ copy' = copy
         \/ pc' = "wait" /\ copy' = copy /\ job.kind = "req"
         \/ Ends \/ Continues
  BY SendsOnly
<1>2. /\ chunk \in Nat /\ job.count \in Nat \ {0} /\ copy \in 1..job.count
      /\ copy \in Nat /\ job.kind \in {"core", "js", "atomic", "req"}
  BY JobFacts DEF PublisherTypes
<1>3. m \in Message
  BY <1>2, MsgIsMessage
<1> HIDE DEF m
<1>4. /\ Given' = Given \/ Given' = Append(Given, m)
      /\ wire' \in Seq(Message) /\ outbox' \in Seq(Message) /\ drops' \in Nat
      /\ conn' => outbox' = <<>>
  <2>1. CASE UNCHANGED link
    BY <2>1 DEF link, Given, PublisherTypes, Positions
  <2>2. CASE Lost \/ Reaches(m) \/ Held(m)
    BY <1>3, <2>2, SentOrLost DEF Positions
  <2> QED
    BY <1>1, <2>1, <2>2
<1>5. pc' \in {"error", "wait", "ok", "read", "send"} /\ copy' \in 1..job.count
  BY <1>1, <1>2 DEF Ends, Continues, AfterChunk
<1>6. PublisherTypes'
  BY <1>1, <1>4, <1>5 DEF PublisherTypes
<1>7. drops' = 0 => conn'
  BY <1>1 DEF link, Lost, Reaches, Held, Positions, PublisherTypes
<1>8. Positions'
  <2>1. Stdin' = Stdin /\ OnEof' = OnEof
    BY <1>1 DEF Stdin, OnEof
  <2>2. /\ pc' = "read" => Stdin /\ ~OnEof
        /\ pc' = "ok" => ~Stdin \/ OnEof \/ eof
        /\ pc' = "wait" => job.kind = "req"
    BY <1>1 DEF Ends, Continues, AfterChunk
  <2> QED
    BY <1>1, <1>4, <1>5, <1>7, <2>1, <2>2 DEF Positions
<1>9. GivenInOrder'
  <2>1. \/ pc' \notin {"send", "wait"}
        \/ pc' = "wait" /\ copy' = copy
        \/ pc' = "send" /\ copy' = copy + 1
    BY <1>1 DEF Ends, Continues, AfterChunk
  <2> QED
    BY <1>1, <1>4, <2>1, OrderNext DEF m
<1>10. NothingLeftOut'
  <2> SUFFICES ASSUME Sure', pc' # "error"
               PROVE  outbox' = <<>> /\ Exactly(wire, Behind)'
    BY DEF NothingLeftOut
  <2>1. Sure /\ Reaches(m) /\ (Continues \/ (copy = job.count /\ Ends))
    BY SendsSurely DEF m
  <2>2. outbox' = <<>> /\ Exactly(wire, Behind) /\ wire' = Append(wire, m)
    BY <1>1, <2>1 DEF NothingLeftOut, Reaches
  <2>3. /\ Behind \in Nat /\ Exactly(wire', Behind + 1)
        /\ copy = job.count => Behind + 1 = chunk * job.count
    BY <1>1, <2>2, ExactlyNext DEF m, Positions, PublisherTypes
  <2>4. Behind' = Behind + 1
    <3>1. CASE Continues
      <4>1. Behind = (chunk - 1) * job.count + (copy - 1)
        BY <1>1 DEF Behind
      <4>2. Behind' = (chunk - 1) * job.count + ((copy + 1) - 1)
        BY <1>1, <3>1 DEF Behind, Continues
      <4> QED
        BY <1>2, <4>1, <4>2
    <3>2. CASE copy = job.count /\ Ends
      <4>1. Behind' = chunk * job.count
        BY <1>1, <3>2 DEF Behind, Ends, AfterChunk
      <4> QED
        BY <2>3, <3>2, <4>1
    <3> QED
      BY <2>1, <3>1, <3>2
  <2>5. Exactly(wire, Behind)'
    BY <1>1, <2>3, <2>4 DEF Exactly
  <2> QED
    BY <2>2, <2>5
<1>11. BatchPending'
  BY <1>1 DEF BatchPending
<1> QED
  BY <1>6, <1>8, <1>9, <1>10, <1>11

-----------------------------------------------------------------------------
(***************************************************************************)
(* The callback waits for replies.                                         *)
(***************************************************************************)

Waits == CountReply \/ NobodyListens \/ RequestTimesOut

LEMMA WaitsKeep ==
  ASSUME IInv, Waits
  PROVE  IInv'
<1> USE DEF IInv
<1>1. /\ job' = job /\ copied' = copied /\ source' = source /\ chunk' = chunk
      /\ eof' = eof /\ pending' = pending /\ main' = main
      /\ conn' = conn /\ drops' = drops /\ outbox' = outbox /\ wire' = wire
      /\ pc = "wait"
      /\ \/ pc' = "wait" /\ copy' = copy
         \/ pc' = "ok" /\ copy' = copy
         \/ Ends \/ Continues
  BY DEF Waits, CountReply, NobodyListens, RequestTimesOut, Running, NextCopy, Ends,
    Continues, work, input, link
<1>2. job.kind = "req"
  BY <1>1 DEF Positions
<1>3. job.count \in Nat \ {0} /\ copy \in 1..job.count
  BY JobFacts DEF PublisherTypes
<1>4. pc' \in {"wait", "ok", "read", "send"} /\ copy' \in 1..job.count
  BY <1>1, <1>3 DEF Ends, Continues, AfterChunk
<1>5. PublisherTypes'
  BY <1>1, <1>4 DEF PublisherTypes
<1>6. Positions'
  <2>1. Stdin' = Stdin /\ OnEof' = OnEof
    BY <1>1 DEF Stdin, OnEof
  <2>2. /\ pc' = "read" => Stdin /\ ~OnEof
        /\ pc' = "send" => chunk >= 1
    <3>1. chunk >= 1
      BY <1>1 DEF Positions
    <3> QED
      BY <1>1, <3>1 DEF Ends, Continues, AfterChunk
  <2> QED
    BY <1>1, <1>2, <1>4, <2>1, <2>2 DEF Positions
<1>7. GivenInOrder'
  <2>1. Given' = Given
    BY <1>1 DEF Given
  <2>2. \/ pc' \notin {"send", "wait"}
        \/ pc' = pc /\ copy' = copy
        \/ copy' = copy + 1
    BY <1>1 DEF Ends, Continues, AfterChunk
  <2> QED
    BY <1>1, <2>1, <2>2, OrderKept
<1>8. NothingLeftOut'
  BY <1>1, <1>2 DEF NothingLeftOut, Sure
<1>9. BatchPending'
  BY <1>1, <1>2 DEF BatchPending
<1> QED
  BY <1>5, <1>6, <1>7, <1>8, <1>9

-----------------------------------------------------------------------------
(***************************************************************************)
(* The callback collects a batch and commits it.                           *)
(***************************************************************************)

\* What is committed has the chunks and copies that are pending.
LEMMA BatchIsPending ==
  ASSUME pending \in Seq(Message), pending # <<>>, NEW n \in Nat, Exactly(pending, n)
  PROVE  Batch \in Seq(Message) /\ Batch # <<>> /\ Exactly(Batch, n)
<1> DEFINE l == Len(pending)
<1>1. l \in 1..l /\ l \in Nat
  BY EmptySeq, LenProperties
<1>2. \A k \in 1..l : pending[k] \in Message
  BY <1>1, MessagesAre
<1>3. /\ LastMsg \in Message
      /\ LastMsg.chunk = pending[l].chunk /\ LastMsg.copy = pending[l].copy
  <2>1. pending[l] \in Message
    BY <1>1, <1>2
  <2> QED
    BY <2>1 DEF LastMsg, Message
<1> HIDE DEF l
<1>4. /\ Batch \in Seq(Message) /\ Len(Batch) = l
      /\ \A k \in 1..l : Batch[k] = IF k = l THEN LastMsg ELSE pending[k]
  <2>1. Batch = [pending EXCEPT ![l] = LastMsg]
    BY DEF Batch, l
  <2>2. l \in 1..Len(pending) /\ Len(pending) = l
    BY <1>1 DEF l
  <2> QED
    BY <1>3, <2>1, <2>2, ExceptSeq
<1>5. Batch # <<>>
  BY <1>1, <1>4, EmptySeq
<1>6. l = n
  BY DEF Exactly, l
<1>7. \A k \in 1..n : Batch[k].chunk = pending[k].chunk /\ Batch[k].copy = pending[k].copy
  BY <1>3, <1>4, <1>6
<1> QED
  BY <1>4, <1>5, <1>6, <1>7 DEF Exactly

Batching == AddToBatch \/ CommitRefused \/ CommitStarts \/ AddMsg \/ AddMsgFails
            \/ Commit \/ CommitFails

LEMMA BatchingOnly ==
  ASSUME Batching
  PROVE  /\ job' = job /\ copied' = copied /\ source' = source /\ chunk' = chunk
         /\ copy' = copy /\ eof' = eof /\ main' = main
         /\ (pc = "send" /\ job.kind = "atomic") \/ pc \in {"commit", "adding"}
         /\ Commit \/ UNCHANGED link \/ Lost
         /\ AddToBatch \/ pending' = pending
<1>1. CASE AddToBatch
  BY <1>1 DEF AddToBatch, Running, input
<1>2. CASE CommitRefused \/ CommitStarts
  BY <1>2 DEF CommitRefused, CommitStarts, Running, Fail, input
<1>3. CASE AddMsg \/ AddMsgFails
  BY <1>3 DEF AddMsg, AddMsgFails, Running, Fail, input
<1>4. CASE Commit
  BY <1>4 DEF Commit, Running, input
<1>5. CASE CommitFails
  BY <1>5 DEF CommitFails, Running, Fail, input
<1> QED
  BY <1>1, <1>2, <1>3, <1>4, <1>5 DEF Batching

\* Apart from the commit nothing is given away.
LEMMA BatchingKeeps ==
  ASSUME IInv, Batching, ~Commit
  PROVE  IInv'
<1> USE DEF IInv
<1>1. /\ job' = job /\ copied' = copied /\ source' = source /\ chunk' = chunk
      /\ copy' = copy /\ eof' = eof /\ main' = main
      /\ UNCHANGED link \/ Lost
      /\ AddToBatch \/ pending' = pending
  BY BatchingOnly
<1>2. /\ job.kind = "atomic" /\ Stdin /\ ~OnEof
      /\ chunk \in Nat /\ job.count \in Nat \ {0}
  BY BatchingOnly, JobFacts DEF Positions, PublisherTypes
<1>3. wire' = wire /\ outbox' = <<>> /\ copy' = 1 /\ wire = <<>>
      /\ drops' \in Nat /\ (drops' = 0 => conn')
  BY <1>1, <1>2, BatchingOnly DEF link, Lost, BatchPending, Positions, PublisherTypes
<1>4. CASE AddToBatch
  <2>1. /\ pc = "send" /\ pc' = IF eof THEN "commit" ELSE "read"
        /\ pending' = IF job.headers THEN pending \o Copies(chunk) ELSE pending
        /\ chunk >= 1
    BY <1>4 DEF AddToBatch, Running, Positions
  <2>2. IF job.headers THEN Exactly(pending, (chunk - 1) * job.count) ELSE pending = <<>>
    <3>1. Behind = (chunk - 1) * job.count + (copy - 1) /\ copy = 1
      BY <1>1, <1>3, <2>1 DEF Behind
    <3>2. (chunk - 1) * job.count \in Int
      BY <1>2
    <3>3. Behind = (chunk - 1) * job.count
      BY <3>1, <3>2
    <3> QED
      BY <1>2, <3>3 DEF BatchPending
  <2>3. /\ pending' \in Seq(Message)
        /\ IF job.headers THEN Exactly(pending', chunk * job.count) ELSE pending' = <<>>
    <3>1. CASE job.headers
      BY <2>1, <2>2, <3>1, ExactlyCopies DEF PublisherTypes
    <3>2. CASE ~job.headers
      BY <2>1, <2>2, <3>2 DEF PublisherTypes
    <3> QED
      BY <3>1, <3>2
  <2>4. Behind' = chunk * job.count
    BY <1>1, <2>1 DEF Behind
  <2>5. PublisherTypes'
    BY <1>1, <1>3, <2>1, <2>3 DEF PublisherTypes
  <2>6. Positions'
    BY <1>1, <1>2, <1>3, <2>1 DEF Positions, Stdin, OnEof
  <2>7. GivenInOrder' /\ NothingLeftOut'
    BY <1>1, <1>2 DEF GivenInOrder, NothingLeftOut, Sure
  <2>8. BatchPending'
    BY <1>1, <1>2, <1>3, <2>1, <2>3, <2>4 DEF BatchPending, Exactly
  <2> QED
    BY <2>5, <2>6, <2>7, <2>8
<1>5. CASE ~AddToBatch
  <2>1. /\ pc \in {"commit", "adding"} /\ pc' \in {"adding", "error"}
        /\ pc' = "adding" => pending # <<>>
    BY <1>5 DEF Batching, CommitRefused, CommitStarts, AddMsg, AddMsgFails, CommitFails,
      Running, Fail, BatchPending, Positions
  <2>2. pending' = pending /\ eof
    BY <1>1, <1>2, <1>5, <2>1 DEF Positions
  <2>3. PublisherTypes'
    BY <1>1, <1>3, <2>1, <2>2 DEF PublisherTypes
  <2>4. Positions'
    BY <1>1, <1>2, <1>3, <2>1, <2>2 DEF Positions, Stdin, OnEof
  <2>5. GivenInOrder' /\ NothingLeftOut'
    BY <1>1, <1>2 DEF GivenInOrder, NothingLeftOut, Sure
  <2>6. Behind' = Behind
    BY <1>1, <2>1 DEF Behind
  <2>7. BatchPending'
    BY <1>1, <1>2, <1>3, <2>1, <2>2, <2>6 DEF BatchPending, Exactly
  <2> QED
    BY <2>3, <2>4, <2>5, <2>7
<1> QED
  BY <1>4, <1>5

LEMMA CommitKeeps ==
  ASSUME IInv, Commit
  PROVE  IInv'
<1> USE DEF IInv
<1>1. /\ job' = job /\ copied' = copied /\ source' = source /\ chunk' = chunk
      /\ copy' = copy /\ eof' = eof /\ main' = main /\ pending' = pending
      /\ conn' = conn /\ drops' = drops /\ outbox' = outbox
      /\ wire' = wire \o Batch /\ pc' \in {"ok", "error"} /\ pc = "adding"
  BY DEF Commit, Running, input
<1>2. /\ job.kind = "atomic" /\ Stdin /\ ~OnEof /\ eof
      /\ chunk \in Nat /\ job.count \in Nat \ {0}
  BY <1>1, JobFacts DEF Positions, PublisherTypes
<1>3. /\ wire = <<>> /\ outbox = <<>> /\ copy = 1 /\ pending # <<>>
      /\ Behind = chunk * job.count
      /\ IF job.headers THEN Exactly(pending, Behind) ELSE pending = <<>>
  BY <1>1, <1>2 DEF BatchPending, Behind
<1>4. Behind \in Nat
  BY <1>2, <1>3
<1>5. Batch \in Seq(Message) /\ Batch # <<>> /\ Exactly(Batch, Behind)
  BY <1>3, <1>4, BatchIsPending DEF PublisherTypes
<1>6. wire' = Batch
  BY <1>1, <1>3, <1>5, ConcatEmptySeq
<1>7. PublisherTypes'
  BY <1>1, <1>5, <1>6 DEF PublisherTypes
<1>8. Positions'
  BY <1>1, <1>2 DEF Positions, Stdin, OnEof
<1>9. GivenInOrder' /\ NothingLeftOut'
  BY <1>1, <1>2 DEF GivenInOrder, NothingLeftOut, Sure
<1>10. BatchPending'
  <2>1. Behind' = Behind
    BY <1>1 DEF Behind
  <2> QED
    BY <1>1, <1>2, <1>3, <1>5, <1>6, <2>1 DEF BatchPending, Exactly
<1> QED
  BY <1>7, <1>8, <1>9, <1>10

-----------------------------------------------------------------------------
(***************************************************************************)
(* What follows from the invariant.                                        *)
(***************************************************************************)

LEMMA Inductive == IInv /\ [Next]_vars => IInv'
<1> SUFFICES ASSUME IInv, [Next]_vars PROVE IInv'
  OBVIOUS
<1>1. Callback => Reads \/ Sends \/ Waits \/ (Batching /\ ~Commit) \/ Commit
  BY DEF Callback, Reads, Sends, Waits, Batching
<1> QED
  BY <1>1, StepKinds, EnvironmentKeeps, MainKeeps, ElsewhereKeeps, ReadsKeep,
    SendsKeep, WaitsKeep, BatchingKeeps, CommitKeeps

LEMMA Always == Spec => []IInv
<1>1. Init => IInv
  BY Initially
<1> QED
  BY <1>1, Inductive, PTL DEF Spec

\* The first n messages are in order.
LEMMA ExactlyInOrder ==
  ASSUME NEW s, NEW n \in Nat, Exactly(s, n), job.count \in Nat \ {0}
  PROVE  Ordered(s)
<1> DEFINE b == job.count
<1>1. Len(s) = n
  BY DEF Exactly
<1>2. ASSUME NEW i \in 1..n, NEW j \in 1..n, i < j
      PROVE  Before(s[i], s[j])
  <2> DEFINE x == i - 1
             y == j - 1
             qx == x \div b
             qy == y \div b
             rx == x % b
             ry == y % b
  <2>1. x \in Nat /\ y \in Nat /\ x < y /\ b \in Nat \ {0}
    BY <1>2
  <2>2. s[i].chunk = qx + 1 /\ s[i].copy = rx + 1 /\ s[j].chunk = qy + 1 /\ s[j].copy = ry + 1
    BY DEF Exactly
  <2> HIDE DEF x, y, b
  <2>3. qx \in Nat /\ rx \in Nat /\ rx < b /\ x = b * qx + rx
    BY <2>1, Divided
  <2>4. qy \in Nat /\ ry \in Nat /\ ry < b /\ y = b * qy + ry
    BY <2>1, Divided
  <2> HIDE DEF qx, qy, rx, ry
  <2>5. qx <= qy
    <3> SUFFICES ASSUME qy + 1 <= qx PROVE FALSE
      BY <2>3, <2>4
    <3>1. b * (qy + 1) <= b * qx
      BY <2>1, <2>3, <2>4
    <3>2. b * (qy + 1) = b * qy + b
      BY <2>1, <2>4
    <3> QED
      BY <2>1, <2>3, <2>4, <3>1, <3>2
  <2>6. qx = qy => rx < ry
    BY <2>1, <2>3, <2>4
  <2> QED
    BY <2>2, <2>3, <2>4, <2>5, <2>6 DEF Before
<1> QED
  BY <1>1, <1>2 DEF Ordered

\* They are what is expected when they are all there are.
LEMMA ExactlyExpected ==
  ASSUME NEW s \in Seq(Message), Exactly(s, Chunks * job.count)
  PROVE  Keys(s) = Expected
<1>1. DOMAIN s = 1..(Chunks * job.count)
  BY LenProperties DEF Exactly
<1> QED
  BY <1>1 DEF Keys, Key, Expected, Exactly

(***************************************************************************)
(* What reaches the server, or waits in the client until it is connected    *)
(* again, is in the order of the input and nothing comes twice: through     *)
(* lost connections, refused messages, timeouts and failing requests        *)
(* (publishNatsMsg, publishJetstream, doReq, writeAtomic).                   *)
(***************************************************************************)
THEOREM InputComesInOrder == Spec => []PublishedInOrder
<1>1. IInv => PublishedInOrder
  <2> SUFFICES ASSUME IInv PROVE PublishedInOrder
    OBVIOUS
  <2>1. Given \in Seq(Message) /\ DOMAIN Given = 1..Len(Given)
    BY LenProperties DEF IInv, PublisherTypes, Given
  <2>2. Ordered(Given)
    <3>1. CASE job.kind # "atomic"
      BY <3>1 DEF IInv, GivenInOrder
    <3>2. CASE job.kind = "atomic"
      <4>1. job.count \in Nat \ {0} /\ chunk \in Nat /\ Given = wire
        BY <3>2, JobFacts, GivenIsWire DEF IInv, PublisherTypes, BatchPending
      <4>2. CASE wire = <<>>
        BY <4>1, <4>2 DEF Ordered
      <4>3. CASE wire # <<>>
        <5>1. Exactly(wire, chunk * job.count) /\ chunk * job.count \in Nat
          BY <3>2, <4>1, <4>3 DEF IInv, BatchPending
        <5> QED
          BY <4>1, <5>1, ExactlyInOrder
      <4> QED
        BY <4>2, <4>3
    <3> QED
      BY <3>1, <3>2
  <2> QED
    BY <2>1, <2>2 DEF PublishedInOrder, Ordered, Given
<1> QED
  BY <1>1, Always, PTL

(***************************************************************************)
(* An atomic batch is stored only when stdin was read to its end, and then  *)
(* it is all of it: a signal that closes the pipe, a failing stdin and a    *)
(* lost message leave nothing behind (publishAtomicBatch, writeAtomic).     *)
(***************************************************************************)
THEOREM BatchesAreWhole == Spec => []BatchIsAllOrNothing
<1>1. IInv => BatchIsAllOrNothing
  <2> SUFFICES ASSUME IInv, job.kind = "atomic", wire # <<>>
               PROVE  source = "eof" /\ Keys(wire) = Expected
    BY DEF BatchIsAllOrNothing
  <2>1. eof /\ Exactly(wire, chunk * job.count) /\ Stdin /\ ~OnEof
    BY JobFacts DEF IInv, PublisherTypes, BatchPending
  <2>2. source = "eof" /\ chunk = copied
    BY <2>1 DEF IInv, Positions
  <2>3. Exactly(wire, Chunks * job.count)
    BY <2>1, <2>2 DEF Chunks
  <2> QED
    BY <2>2, <2>3, ExactlyExpected DEF IInv, PublisherTypes
<1> QED
  BY <1>1, Always, PTL

(***************************************************************************)
(* A command that succeeds has published all of its input: always when what *)
(* it published was acknowledged and errors are returned, and with plain    *)
(* publishes, whose Flush is not looked at, when the connection held        *)
(* (publishNatsMsg, doJetstream, writeAtomic).                              *)
(***************************************************************************)
THEOREM SuccessMeansComplete == Spec => []SuccessIsComplete
<1>1. IInv => SuccessIsComplete
  <2> SUFFICES ASSUME IInv, main = "ok", job.kind = "atomic" \/ Sure
               PROVE  Keys(wire) = Expected
    BY DEF SuccessIsComplete, Sure
  <2>1. pc = "ok" /\ job.kind # "req"
    BY DEF IInv, Positions, Sure
  <2>2. chunk = Chunks
    BY <2>1 DEF IInv, Positions, Chunks
  <2>3. Exactly(wire, chunk * job.count)
    <3>1. CASE Sure
      BY <2>1, <3>1 DEF IInv, NothingLeftOut, Behind
    <3>2. CASE job.kind = "atomic"
      BY <2>1, <3>2 DEF IInv, BatchPending
    <3> QED
      BY <3>1, <3>2
  <2> QED
    BY <2>2, <2>3, ExactlyExpected DEF IInv, PublisherTypes
<1> QED
  BY <1>1, Always, PTL

-----------------------------------------------------------------------------
(***************************************************************************)
(* The types of what publishes, answers and measures: replies are of known *)
(* bodies, queues are sequences of messages, and counts do not outrun what *)
(* they count.  They are inductive together with the invariant above.      *)
(***************************************************************************)

Bodies == {"data", "empty", "no_responders"}

(* The rest of what the types of the variables say.                         *)
ProcessTypes ==
  /\ copied <= MaxLines /\ source \in {"open", "eof", "failed"} /\ hung \in BOOLEAN
  /\ signalled \in BOOLEAN /\ main \in {"select", "leaving"} \cup Finished
ReadTypes == chunk <= MaxLines + 1 /\ eof \in BOOLEAN /\ staged \in Int
ReplyTypes == inbox \in Seq(Bodies) /\ got \in Nat
LinkTypes == conn \in BOOLEAN /\ drops <= MaxDrops
DeliveryTypes == delivered \in Nat /\ delivered <= Len(wire)

MessagingTypes ==
  /\ ProcessTypes /\ ReadTypes /\ ReplyTypes /\ LinkTypes /\ DeliveryTypes
  /\ ReplierTypeOK /\ LatencyTypeOK

MessagingInv == IInv /\ MessagingTypes

(* What a step of the publisher does to its types, and to the wire, which   *)
(* gets no shorter.                                                         *)
PublisherKeeps ==
  /\ ProcessTypes' /\ ReadTypes' /\ ReplyTypes' /\ LinkTypes'
  /\ Len(wire') \in Nat /\ Len(wire') >= Len(wire)

LEMMA MessagingFine == MessagingInv => MessagingTypeOK
<1> SUFFICES ASSUME MessagingInv PROVE MessagingTypeOK
    OBVIOUS
<1>1. Len(wire) \in Nat /\ Len(wire) >= 0
    BY LenProperties DEF MessagingInv, IInv, PublisherTypes
<1>2. PublisherTypeOK
    BY PublisherAssumption DEF MessagingInv, MessagingTypes, IInv, PublisherTypes, ProcessTypes,
      ReadTypes, ReplyTypes, LinkTypes, Bodies, PublisherTypeOK
<1>3. delivered \in 0 .. Len(wire)
    BY <1>1 DEF MessagingInv, MessagingTypes, DeliveryTypes
<1> QED BY <1>2, <1>3 DEF MessagingTypeOK, MessagingInv, MessagingTypes

LEMMA MessagingStartsWell == Init => MessagingInv
<1> SUFFICES ASSUME Init PROVE MessagingInv
    OBVIOUS
<1>1. IInv
    BY Initially
<1>2. PublisherInit /\ ReplierInit /\ LatencyInit /\ delivered = 0
    BY DEF Init, MessagingInit
<1>3. \A S : <<>> \in Seq(S) /\ Len(<<>>) = 0
    BY EmptySeq
<1>4. ProcessTypes /\ ReadTypes /\ LinkTypes
  <2>1. job.stdin \in BOOLEAN
      BY <1>2, PublisherAssumption DEF PublisherInit, Job
  <2>2. ProcessTypes
    <3>1. copied = 0 /\ source = "open" /\ hung = FALSE /\ signalled = FALSE /\ main = "select"
        BY <1>2 DEF PublisherInit
    <3>2. 0 <= MaxLines
        BY PublisherAssumption
    <3> QED BY <3>1, <3>2 DEF ProcessTypes
  <2>3. ReadTypes
    <3>1. eof = ~job.stdin /\ (chunk = 0 \/ chunk = 1) /\ staged = 0
        BY <1>2 DEF PublisherInit
    <3>2. eof \in BOOLEAN
        BY <3>1
    <3>3. chunk <= MaxLines + 1
        BY <3>1, PublisherAssumption
    <3> QED BY <3>1, <3>2, <3>3 DEF ReadTypes
  <2>4. LinkTypes
    <3>1. conn = TRUE /\ drops = 0
        BY <1>2 DEF PublisherInit
    <3>2. 0 <= MaxDrops
        BY PublisherAssumption
    <3> QED BY <3>1, <3>2 DEF LinkTypes
  <2> QED BY <2>2, <2>3, <2>4
<1>5. ReplyTypes
    BY <1>2, <1>3 DEF PublisherInit, ReplyTypes
<1>6. DeliveryTypes
    BY <1>2, <1>3 DEF PublisherInit, DeliveryTypes
<1>7. ReplierTypeOK
  <2>1. rqueue \in [Repliers -> Seq(Message)]
      BY <1>2, <1>3 DEF ReplierInit
  <2> QED BY <1>2, <2>1 DEF ReplierInit, ReplierTypeOK, Gone
<1>8. LatencyTypeOK
    BY <1>2 DEF LatencyInit, LatencyTypeOK
<1> QED BY <1>1, <1>4, <1>5, <1>6, <1>7, <1>8 DEF MessagingInv, MessagingTypes

LEMMA LinkMoves ==
  ASSUME PublisherTypes, LinkTypes,
         \/ UNCHANGED link \/ Lost
         \/ Reaches(Msg(chunk, copy)) \/ Held(Msg(chunk, copy))
  PROVE  LinkTypes' /\ Len(wire') \in Nat /\ Len(wire') >= Len(wire)
<1>1. Len(wire) \in Nat /\ chunk \in Nat /\ copy \in Nat /\ drops \in Nat /\ wire \in Seq(Message)
    BY LenProperties, JobFacts DEF PublisherTypes
<1>2. Len(Append(wire, Msg(chunk, copy))) = Len(wire) + 1
  <2>1. Msg(chunk, copy) \in Message
      BY <1>1, MsgIsMessage
  <2> QED BY <1>1, <2>1, AppendProperties
<1>3. Len(wire') \in Nat /\ Len(wire') >= Len(wire)
  <2>1. wire' = wire \/ wire' = Append(wire, Msg(chunk, copy))
      BY DEF Lost, Reaches, Held, link
  <2> QED BY <1>1, <1>2, <2>1
<1>4. LinkTypes'
  <2>1. (conn' = conn /\ drops' = drops) \/ (conn' = FALSE /\ drops < MaxDrops /\
          drops' = drops + 1)
      BY DEF Lost, Reaches, Held, link
  <2>2. conn' \in BOOLEAN
      BY <2>1 DEF LinkTypes
  <2>3. MaxDrops \in Nat
      BY PublisherAssumption
  <2>4. drops' <= MaxDrops
      BY <1>1, <2>1, <2>3 DEF LinkTypes
  <2> QED BY <2>2, <2>4 DEF LinkTypes
<1> QED BY <1>3, <1>4

LEMMA EnvironmentTypes == ASSUME MessagingInv, Environment \/ MainLoop PROVE PublisherKeeps
<1>0. /\ PublisherTypes /\ ProcessTypes /\ ReadTypes /\ ReplyTypes /\ LinkTypes
      /\ MaxLines \in Nat /\ MaxDrops \in Nat /\ copied \in Nat /\ drops \in Nat
      /\ wire \in Seq(Message) /\ outbox \in Seq(Message) /\ Len(wire) \in Nat /\
           Len(outbox) \in Nat
    BY PublisherAssumption, LenProperties DEF MessagingInv, MessagingTypes, IInv, PublisherTypes
<1>1. ReadTypes' /\ ReplyTypes'
  <2>1. chunk' = chunk /\ eof' = eof /\ staged' = staged /\ inbox' = inbox /\ got' = got
    <3>1. CASE CopyLine \/ CloseSource \/ Signal \/ RunInterrupted
        BY <3>1 DEF CopyLine, CloseSource, Signal, RunInterrupted, work, replies
    <3>2. CASE RunCompleted \/ CloseAfterSignal \/ Disconnect \/ Reconnect
        BY <3>2 DEF RunCompleted, CloseAfterSignal, Disconnect, Reconnect, work, replies
    <3> QED BY <3>1, <3>2 DEF Environment, MainLoop
  <2> QED BY <1>0, <2>1 DEF ReadTypes, ReplyTypes
<1>2. ProcessTypes'
  <2>1. CASE CopyLine
      BY <1>0, <2>1 DEF CopyLine, ProcessTypes
  <2>2. CASE CloseSource
      BY <1>0, <2>2 DEF CloseSource, ProcessTypes
  <2>3. CASE Signal
      BY <1>0, <2>3 DEF Signal, ProcessTypes, input
  <2>4. CASE RunInterrupted
    <3>1. Stdin \in BOOLEAN
        BY <1>0, PublisherAssumption DEF PublisherTypes, Job, Stdin
    <3> QED BY <1>0, <2>4, <3>1 DEF RunInterrupted, ProcessTypes
  <2>5. CASE RunCompleted \/ CloseAfterSignal
      BY <1>0, <2>5 DEF RunCompleted, CloseAfterSignal, ProcessTypes, input, Finished
  <2>6. CASE Disconnect \/ Reconnect
      BY <1>0, <2>6 DEF Disconnect, Reconnect, ProcessTypes, input
  <2> QED BY <2>1, <2>2, <2>3, <2>4, <2>5, <2>6 DEF Environment, MainLoop
<1>3. LinkTypes'
  <2>1. CASE CopyLine \/ CloseSource \/ Signal \/ RunInterrupted
      BY <1>0, <2>1 DEF CopyLine, CloseSource, Signal, RunInterrupted, LinkTypes, link
  <2>2. CASE RunCompleted \/ CloseAfterSignal \/ Disconnect \/ Reconnect
    <3>1. \/ conn' = conn /\ drops' = drops
          \/ conn' = TRUE /\ drops' = drops
          \/ conn' = FALSE /\ drops < MaxDrops /\ drops' = drops + 1
        BY <2>2 DEF RunCompleted, CloseAfterSignal, Disconnect, Reconnect
    <3>2. conn' \in BOOLEAN
        BY <1>0, <3>1 DEF LinkTypes
    <3>3. drops' <= MaxDrops
        BY <1>0, <3>1 DEF LinkTypes
    <3> QED BY <3>2, <3>3 DEF LinkTypes
  <2> QED BY <2>1, <2>2 DEF Environment, MainLoop
<1>4. Len(wire') \in Nat /\ Len(wire') >= Len(wire)
  <2>1. wire' = wire \/ wire' = wire \o outbox
    <3>1. CASE CopyLine \/ CloseSource \/ Signal \/ RunInterrupted
        BY <3>1 DEF CopyLine, CloseSource, Signal, RunInterrupted, link
    <3>2. CASE RunCompleted \/ CloseAfterSignal \/ Disconnect \/ Reconnect
        BY <3>2 DEF RunCompleted, CloseAfterSignal, Disconnect, Reconnect
    <3> QED BY <3>1, <3>2 DEF Environment, MainLoop
  <2>2. Len(wire \o outbox) = Len(wire) + Len(outbox)
      BY <1>0, ConcatProperties
  <2> QED BY <1>0, <2>1, <2>2
<1> QED BY <1>1, <1>2, <1>3, <1>4 DEF PublisherKeeps

LEMMA CallbackTypes == ASSUME MessagingInv, Callback PROVE PublisherKeeps
<1>0. /\ IInv /\ PublisherTypes /\ ProcessTypes /\ ReadTypes /\ ReplyTypes /\ LinkTypes
      /\ MaxLines \in Nat /\ copied \in Nat /\ chunk \in Nat /\ copy \in Nat
      /\ wire \in Seq(Message) /\ Len(wire) \in Nat
    BY PublisherAssumption, LenProperties, JobFacts DEF MessagingInv, MessagingTypes, IInv,
         PublisherTypes
<1>k. Reads \/ Sends \/ Waits \/ Batching
    BY DEF Callback, Reads, Sends, Waits, Batching
<1>1. ProcessTypes'
  <2>1. copied' = copied /\ source' = source /\ hung' = hung /\ signalled' = signalled /\
          main' = main
    <3>1. CASE Reads
        BY <3>1 DEF Reads, ReadAll, ReadLine, ReadEnd, ReadFails, Body, Fail, input
    <3>2. CASE PublishFails \/ PublishCore \/ PublishJS
        BY <3>2 DEF PublishFails, PublishCore, PublishJS, Fail, NextCopy, input
    <3>3. CASE PublishJSFails \/ SendRequest
        BY <3>3 DEF PublishJSFails, SendRequest, input
    <3>4. CASE Waits
        BY <3>4 DEF Waits, CountReply, NobodyListens, RequestTimesOut, NextCopy, input
    <3>5. CASE Batching
        BY <3>5 DEF Batching, AddToBatch, CommitRefused, CommitStarts, AddMsg, AddMsgFails, Commit,
          CommitFails, Fail, input
    <3> QED BY <1>k, <3>1, <3>2, <3>3, <3>4, <3>5 DEF Sends
  <2> QED BY <1>0, <2>1 DEF ProcessTypes
<1>2. ReadTypes'
  <2>1. CASE Reads
    <3>1. staged' = staged /\ (eof' \in BOOLEAN \/ eof' = eof)
        BY <2>1 DEF Reads, ReadAll, ReadLine, ReadEnd, ReadFails, Body, Fail
    <3>2. chunk' <= MaxLines + 1
      <4>1. CASE ReadAll
        <5>1. chunk = 0 /\ chunk' = chunk + 1
          <6>1. pc = "read" /\ OnEof /\ Stdin /\ chunk' = chunk + 1
              BY <1>0, <4>1 DEF ReadAll, Running, Body, IInv, Positions
          <6> QED BY <1>0, <6>1 DEF IInv, Positions
        <5> QED BY <1>0, <5>1
      <4>2. CASE ReadLine
          BY <1>0, <4>2 DEF ReadLine, Body, ProcessTypes
      <4>3. CASE ReadEnd \/ ReadFails
          BY <1>0, <4>3 DEF ReadEnd, ReadFails, Fail, ReadTypes
      <4> QED BY <2>1, <4>1, <4>2, <4>3 DEF Reads
    <3> QED BY <1>0, <3>1, <3>2 DEF ReadTypes
  <2>2. CASE Sends
    <3>1. chunk' = chunk /\ eof' = eof /\ staged' = staged
      <4>1. CASE PublishFails \/ PublishCore \/ PublishJS
          BY <4>1 DEF PublishFails, PublishCore, PublishJS, Fail, NextCopy
      <4>2. CASE PublishJSFails \/ SendRequest
          BY <4>2 DEF PublishJSFails, SendRequest
      <4> QED BY <2>2, <4>1, <4>2 DEF Sends
    <3> QED BY <1>0, <3>1 DEF ReadTypes
  <2>3. CASE Waits
    <3>1. chunk' = chunk /\ eof' = eof /\ staged' = staged
        BY <2>3 DEF Waits, CountReply, NobodyListens, RequestTimesOut, NextCopy, work
    <3> QED BY <1>0, <3>1 DEF ReadTypes
  <2>4. CASE Batching
    <3>1. chunk' = chunk /\ eof' = eof
        BY <2>4, BatchingOnly
    <3>2. staged' \in Int
      <4>1. CASE AddMsg
          BY <1>0, <4>1 DEF AddMsg, ReadTypes
      <4>2. CASE ~AddMsg
          BY <1>0, <2>4, <4>2 DEF Batching, AddToBatch, CommitRefused, CommitStarts, AddMsgFails,
               Commit,
            CommitFails, Fail, ReadTypes
      <4> QED BY <4>1, <4>2
    <3> QED BY <1>0, <3>1, <3>2 DEF ReadTypes
  <2> QED BY <1>k, <2>1, <2>2, <2>3, <2>4
<1>3. ReplyTypes'
  <2>1. CASE SendRequest
    <3>1. <<>> \in Seq(Bodies)
        BY EmptySeq
    <3> QED BY <2>1, <3>1 DEF SendRequest, ReplyTypes
  <2>2. CASE CountReply \/ NobodyListens
    <3>1. inbox # <<>> /\ inbox' = Tail(inbox) /\ (got' = got + 1 \/ got' = got)
        BY <2>2 DEF CountReply, NobodyListens
    <3>2. Tail(inbox) \in Seq(Bodies)
        BY <1>0, <3>1, HeadTailProperties DEF ReplyTypes
    <3> QED BY <1>0, <3>1, <3>2 DEF ReplyTypes
  <2>3. CASE ~SendRequest /\ ~CountReply /\ ~NobodyListens
    <3>1. UNCHANGED replies
      <4>1. CASE Reads
          BY <4>1 DEF Reads, ReadAll, ReadLine, ReadEnd, ReadFails, Body, Fail, replies
      <4>2. CASE PublishFails \/ PublishCore \/ PublishJS
          BY <4>2 DEF PublishFails, PublishCore, PublishJS, Fail, replies
      <4>3. CASE PublishJSFails \/ RequestTimesOut
          BY <4>3 DEF PublishJSFails, RequestTimesOut, replies
      <4>4. CASE Batching
          BY <4>4 DEF Batching, AddToBatch, CommitRefused, CommitStarts, AddMsg, AddMsgFails,
               Commit,
            CommitFails, Fail, replies
      <4> QED BY <1>k, <2>3, <4>1, <4>2, <4>3, <4>4 DEF Sends, Waits
    <3> QED BY <1>0, <3>1 DEF ReplyTypes, replies
  <2> QED BY <2>1, <2>2, <2>3
<1>4. LinkTypes' /\ Len(wire') \in Nat /\ Len(wire') >= Len(wire)
  <2>1. CASE Commit
    <3>1. wire' = wire \o Batch /\ pc = "adding" /\ conn' = conn /\ drops' = drops
        BY <2>1 DEF Commit, Running
    <3>2. job.kind = "atomic"
        BY <1>0, <3>1 DEF IInv, Positions
    <3>3. pending # <<>> /\ pending \in Seq(Message) /\ Exactly(pending, Behind)
        BY <1>0, <3>1, <3>2 DEF IInv, BatchPending, PublisherTypes
    <3>4. Behind \in Nat
      <4>1. Len(pending) \in Nat
          BY <3>3, LenProperties
      <4> QED BY <3>3, <4>1 DEF Exactly
    <3>5. Batch \in Seq(Message)
        BY <3>3, <3>4, BatchIsPending
    <3>6. Len(wire \o Batch) = Len(wire) + Len(Batch) /\ Len(Batch) \in Nat
        BY <1>0, <3>5, ConcatProperties, LenProperties
    <3> QED BY <1>0, <3>1, <3>6 DEF LinkTypes
  <2>2. CASE ~Commit
    <3>1. \/ UNCHANGED link \/ Lost
          \/ Reaches(Msg(chunk, copy)) \/ Held(Msg(chunk, copy))
      <4>1. CASE Reads
          BY <4>1, ReadsOnly DEF link
      <4>2. CASE Sends
          BY <4>2, SendsOnly
      <4>3. CASE Waits
          BY <4>3 DEF Waits, CountReply, NobodyListens, RequestTimesOut
      <4>4. CASE Batching
          BY <2>2, <4>4, BatchingOnly
      <4> QED BY <1>k, <4>1, <4>2, <4>3, <4>4
    <3> QED BY <1>0, <3>1, LinkMoves
  <2> QED BY <2>1, <2>2
<1> QED BY <1>1, <1>2, <1>3, <1>4 DEF PublisherKeeps

LEMMA PublisherStill ==
  ASSUME MessagingInv, UNCHANGED publisherVars PROVE PublisherKeeps
<1>1. /\ copied' = copied /\ source' = source /\ hung' = hung /\ signalled' = signalled /\
           main' = main
      /\ chunk' = chunk /\ eof' = eof /\ staged' = staged /\ inbox' = inbox /\ got' = got
      /\ conn' = conn /\ drops' = drops /\ wire' = wire
    BY DEF publisherVars, input, work, replies, link
<1>2. Len(wire) \in Nat
    BY LenProperties DEF MessagingInv, IInv, PublisherTypes
<1> QED BY <1>1, <1>2 DEF MessagingInv, MessagingTypes, ProcessTypes, ReadTypes, ReplyTypes,
      LinkTypes,
      PublisherKeeps

LEMMA InboxTypes ==
  ASSUME MessagingInv, NEW m, NEW r \in Bodies, ToInbox(m, r) PROVE PublisherKeeps
<1>1. /\ copied' = copied /\ source' = source /\ hung' = hung /\ signalled' = signalled /\
           main' = main
      /\ chunk' = chunk /\ eof' = eof /\ staged' = staged /\ got' = got
      /\ conn' = conn /\ drops' = drops /\ wire' = wire
      /\ inbox' = inbox \/ inbox' = Append(inbox, r)
    BY DEF ToInbox, input, work, link
<1>2. Len(wire) \in Nat
    BY LenProperties DEF MessagingInv, IInv, PublisherTypes
<1>3. inbox \in Seq(Bodies) /\ Append(inbox, r) \in Seq(Bodies)
    BY AppendProperties DEF MessagingInv, MessagingTypes, ReplyTypes
<1> QED BY <1>1, <1>2, <1>3 DEF MessagingInv, MessagingTypes, ProcessTypes, ReadTypes, ReplyTypes,
      LinkTypes,
      PublisherKeeps

LEMMA LatencyTypes == ASSUME LatencyTypeOK, LatencyNext PROVE LatencyTypeOK'
<1>1. CASE Prepare
    BY <1>1 DEF LatencyTypeOK, Prepare
<1>2. CASE ProbeArrives
    BY <1>2 DEF LatencyTypeOK, ProbeArrives
<1>3. CASE RouteFails \/ RouteKnown \/ AllPublished \/ Report
    BY <1>3 DEF LatencyTypeOK, RouteFails, RouteKnown, AllPublished, Report
<1>4. CASE PublishTimed
    BY <1>4 DEF LatencyTypeOK, PublishTimed
<1>5. CASE Receive
    BY <1>5 DEF LatencyTypeOK, Receive
<1> QED BY <1>1, <1>2, <1>3, <1>4, <1>5 DEF LatencyNext

LEMMA QueueTypes ==
  ASSUME ReplierTypeOK, NEW r \in Repliers, rqueue[r] # <<>>
  PROVE  [rqueue EXCEPT ![r] = Tail(@)] \in [Repliers -> Seq(Message)]
<1>1. rqueue[r] \in Seq(Message)
    BY DEF ReplierTypeOK
<1>2. Tail(rqueue[r]) \in Seq(Message)
    BY <1>1, HeadTailProperties
<1> QED BY <1>2 DEF ReplierTypeOK

LEMMA ReplierTypes ==
  ASSUME ReplierTypeOK, NEW r \in Repliers,
         Subscribes(r) \/ Limits(r) \/ Exits(r) \/ Interrupts(r) \/ GivesUp(r) \/ Answers(r)
  PROVE  ReplierTypeOK'
<1>1. CASE Subscribes(r)
    BY <1>1 DEF ReplierTypeOK, Subscribes
<1>2. CASE Limits(r)
    BY <1>2 DEF ReplierTypeOK, Limits, Gone
<1>3. CASE Exits(r) \/ Interrupts(r)
    BY <1>3 DEF ReplierTypeOK, Exits, Interrupts, Gone
<1>4. CASE GivesUp(r)
    BY <1>4, QueueTypes DEF ReplierTypeOK, GivesUp
<1>5. CASE Answers(r)
    BY <1>5, QueueTypes DEF ReplierTypeOK, Answers
<1> QED BY <1>1, <1>2, <1>3, <1>4, <1>5

LEMMA DeliverTypes ==
  ASSUME ReplierTypeOK, NEW m \in Message, Deliver(m) PROVE ReplierTypeOK'
<1>1. ASSUME NEW r \in Repliers
      PROVE  (IF r \in Reached THEN Append(rqueue[r], m) ELSE rqueue[r]) \in Seq(Message)
  <2>1. rqueue[r] \in Seq(Message)
      BY DEF ReplierTypeOK
  <2>2. Append(rqueue[r], m) \in Seq(Message)
      BY <2>1, AppendProperties
  <2> QED BY <2>1, <2>2
<1>2. rqueue' \in [Repliers -> Seq(Message)]
    BY <1>1 DEF Deliver
<1>3. rgot' \in [Repliers -> Nat]
    BY DEF Deliver, ReplierTypeOK
<1> QED BY <1>2, <1>3 DEF Deliver, ReplierTypeOK

LEMMA MessagingGoesOn == ASSUME MessagingInv, [Next]_vars, MessagingNext PROVE MessagingInv'
<1>1. IInv'
    BY Inductive DEF MessagingInv
<1>2. ReplierTypeOK /\ LatencyTypeOK /\ DeliveryTypes /\ PublisherTypes
    BY DEF MessagingInv, MessagingTypes, IInv
<1>3. ASSUME PublisherKeeps, ReplierTypeOK', LatencyTypeOK', DeliveryTypes' PROVE MessagingInv'
    BY <1>1, <1>3 DEF PublisherKeeps, MessagingInv, MessagingTypes
<1>4. ASSUME PublisherKeeps, delivered' = delivered PROVE DeliveryTypes'
  <2>1. Len(wire) \in Nat
      BY <1>2, LenProperties DEF PublisherTypes
  <2> QED BY <1>2, <1>4, <2>1 DEF PublisherKeeps, DeliveryTypes
<1>5. UNCHANGED replierVars => ReplierTypeOK'
    BY <1>2 DEF replierVars, ReplierTypeOK
<1>6. UNCHANGED latencyVars => LatencyTypeOK'
    BY <1>2 DEF latencyVars, LatencyTypeOK
<1>7. CASE Publishing(Environment) \/ Publishing(Callback) \/ Publishing(MainLoop)
  <2>1. Environment \/ Callback \/ MainLoop
      BY <1>7 DEF Publishing
  <2>2. UNCHANGED replierVars /\ UNCHANGED latencyVars /\ delivered' = delivered
      BY <1>7 DEF Publishing
  <2> QED BY <1>3, <1>4, <1>5, <1>6, <2>1, <2>2, EnvironmentTypes, CallbackTypes
<1>8. CASE Measuring
  <2>1. LatencyNext /\ UNCHANGED publisherVars /\ UNCHANGED replierVars /\ delivered' = delivered
      BY <1>8 DEF Measuring
  <2> QED BY <1>2, <1>3, <1>4, <1>5, <2>1, LatencyTypes, PublisherStill
<1>9. CASE Route
  <2> DEFINE m == wire[delivered + 1]
  <2>1. /\ delivered < Len(wire) /\ delivered' = delivered + 1 /\ Deliver(m)
        /\ UNCHANGED latencyVars
        /\ UNCHANGED publisherVars \/ ToInbox(m, "no_responders")
      BY <1>9 DEF Route
  <2>2. Len(wire) \in Nat /\ delivered \in Nat /\ wire \in Seq(Message)
      BY <1>2, LenProperties DEF PublisherTypes, DeliveryTypes
  <2>3. m \in Message
      BY <2>1, <2>2, ElementOfSeq
  <2>4. "no_responders" \in Bodies
      BY DEF Bodies
  <2>5. PublisherKeeps
      BY <2>1, <2>4, InboxTypes, PublisherStill
  <2>6. wire' = wire
      BY <2>1 DEF publisherVars, link, ToInbox
  <2>7. DeliveryTypes'
      BY <2>1, <2>2, <2>6 DEF DeliveryTypes
  <2> QED BY <1>2, <1>3, <1>6, <2>1, <2>3, <2>5, <2>7, DeliverTypes
<1>10. ASSUME NEW r \in Repliers,
              Reply(r) \/ ReplierRuns(r) \/ ReplierInterrupted(r) \/ ReplierGivesUp(r)
       PROVE  MessagingInv'
  <2>1. CASE Reply(r)
    <3>1. PICK body \in {"data", "empty"} : ToInbox(Head(rqueue[r]), body)
        BY <2>1 DEF Reply
    <3>2. body \in Bodies
        BY DEF Bodies
    <3>3. Answers(r) /\ UNCHANGED latencyVars /\ delivered' = delivered
        BY <2>1 DEF Reply
    <3>4. PublisherKeeps
        BY <3>1, <3>2, InboxTypes
    <3> QED BY <1>2, <1>3, <1>4, <1>6, <3>3, <3>4, ReplierTypes
  <2>2. CASE ReplierRuns(r) \/ ReplierInterrupted(r) \/ ReplierGivesUp(r)
    <3>1. Alone /\ (Subscribes(r) \/ Limits(r) \/ Exits(r) \/ Interrupts(r) \/ GivesUp(r))
        BY <2>2 DEF ReplierRuns, ReplierInterrupted, ReplierGivesUp
    <3>2. UNCHANGED publisherVars /\ UNCHANGED latencyVars /\ delivered' = delivered
        BY <3>1 DEF Alone
    <3> QED BY <1>2, <1>3, <1>4, <1>6, <3>1, <3>2, ReplierTypes, PublisherStill
  <2> QED BY <1>10, <2>1, <2>2
<1> QED BY <1>7, <1>8, <1>9, <1>10 DEF MessagingNext

LEMMA MessagingStays == ASSUME MessagingInv, [Next]_vars,
  UNCHANGED messagingVars PROVE MessagingInv'
<1>1. IInv'
    BY Inductive DEF MessagingInv
<1>2. UNCHANGED publisherVars /\ UNCHANGED replierVars /\ UNCHANGED latencyVars /\
        delivered' = delivered
    BY DEF messagingVars
<1>3. PublisherKeeps /\ wire' = wire
    BY <1>2, PublisherStill DEF publisherVars, link
<1>4. ReplierTypeOK' /\ LatencyTypeOK' /\ DeliveryTypes'
    BY <1>2, <1>3 DEF MessagingInv, MessagingTypes, replierVars, latencyVars, ReplierTypeOK,
      LatencyTypeOK, DeliveryTypes
<1> QED BY <1>1, <1>3, <1>4 DEF PublisherKeeps, MessagingInv, MessagingTypes

-----------------------------------------------------------------------------
(***************************************************************************)
(* The top display.  A sample gets newer from the screen over the text and *)
(* the hand of the monitor to what was taken last, and of the samples of   *)
(* an order that is not the chosen one, those still on their way and those *)
(* that were drawn make two at most.                                       *)
(***************************************************************************)

TopRecords ==
  [limit : Refreshes, order : 0 .. MaxOrders, taken : 0 .. MaxSamples, text : Sample,
   screen : Sample \cup {Torn}, main : {"check", "ui", "render"} \cup TopOver,
   monitor : {"fetch", "asked", "send", "wait"}, sample : Sample,
   update : {"receive", "write", "redraw"}, new : Sample,
   drawing : {"none", "stats", "resize"}, redraws : Nat, resizes : 0 .. MaxResizes,
   waiting : 0 .. MaxResizes, typing : {"nothing", "order", "limit"}, typed : 0 .. 1,
   mistake : {"none", "stop", "clear"}, stale : Nat]

(* Samples get newer the closer they are to where they come from.           *)
SamplesInOrder ==
  /\ top.screen.seq <= top.text.seq
  /\ top.text.seq <= top.new.seq /\ top.new.seq <= top.sample.seq /\ top.sample.seq <= top.taken
  /\ top.text.order <= top.new.order /\ top.new.order <= top.sample.order
  /\ top.sample.order <= top.order
  /\ top.update = "redraw" => top.new = top.text

(* What may still be drawn in an order that is not the chosen one.          *)
Late(held, sample) == IF held /\ sample.order # top.order THEN 1 ELSE 0
LateOnes ==
  Late(top.monitor \in {"asked", "send"}, top.sample) + Late(top.update # "receive", top.new)
    + Late(top.main = "render" /\ top.drawing = "stats", top.text)

TopInv ==
  /\ top \in TopRecords /\ SamplesInOrder
  /\ top.waiting <= top.resizes
  /\ top.stale + LateOnes <= 2
  /\ top.limit > 0 => top.redraws <= top.limit /\ (top.main \notin TopOver =>
       top.redraws < top.limit)

LEMMA TopStartsWell == ASSUME top \in TopStarts PROVE TopInv
<1>1. top \in TopRecords
    BY TopAssumption DEF TopStarts, TopRecords, Sample, Empty
<1>2. SamplesInOrder /\ LateOnes = 0
    BY DEF TopStarts, SamplesInOrder, LateOnes, Late, Empty
<1> QED BY <1>1, <1>2, TopAssumption DEF TopStarts, TopInv, TopOver

(* Fields that a step leaves as they are.                                   *)
TopSame(fields) == \A f \in fields : top'[f] = top[f]

LEMMA TopStill ==
  ASSUME TopInv, top' \in TopRecords,
         TopSame({"limit", "order", "taken", "text", "screen", "sample", "update", "new",
                  "redraws", "stale"}),
         top'.waiting <= top'.resizes,
         top'.main \notin TopOver => top.main \notin TopOver,
         top'.monitor \in {"asked", "send"} => top.monitor \in {"asked", "send"},
         top'.main = "render" /\ top'.drawing = "stats" => 
             top.main = "render" /\ top.drawing = "stats"
  PROVE  TopInv' /\ ScreenGoesOn
<1>1. /\ top'.limit = top.limit /\ top'.order = top.order /\ top'.taken = top.taken
      /\ top'.text = top.text /\ top'.screen = top.screen /\ top'.sample = top.sample
      /\ top'.update = top.update /\ top'.new = top.new /\ top'.redraws = top.redraws
      /\ top'.stale = top.stale
  BY DEF TopSame
<1>2. SamplesInOrder'
  BY <1>1 DEF TopInv, SamplesInOrder
<1>3. LateOnes' <= LateOnes /\ LateOnes \in 0..3 /\ LateOnes' \in 0..3
  BY <1>1 DEF LateOnes, Late
<1>4. ScreenGoesOn
  BY <1>1 DEF ScreenGoesOn, TopInv, TopRecords, Sample, Torn
<1>5. top'.stale + LateOnes' <= 2
  BY <1>1, <1>3 DEF TopInv, TopRecords
<1> QED BY <1>1, <1>2, <1>4, <1>5 DEF TopInv

LEMMA TopQuiet ==
  ASSUME TopInv,
         \/ TopChecks \/ GetsConnz \/ MonitorTicks \/ TakesResize \/ PressesQ \/ StartsTyping \/
              Types
         \/ Mistypes \/ Corrects
  PROVE  TopInv' /\ ScreenGoesOn
<1> USE DEF TopRecords, TopSame, TopOver, InUI
<1>1. top \in TopRecords /\ top.waiting <= top.resizes
    BY DEF TopInv
<1>2. CASE TopChecks
    BY <1>1, <1>2, TopStill DEF TopChecks
<1>3. CASE GetsConnz \/ MonitorTicks
    BY <1>1, <1>3, TopStill DEF GetsConnz, MonitorTicks
<1>4. CASE TakesResize
  <2>1. top.waiting - 1 \in 0 .. MaxResizes /\ top.waiting - 1 <= top.resizes
      BY <1>1, <1>4, TopAssumption DEF TakesResize
  <2>2. top' \in TopRecords
      BY <1>1, <1>4, <2>1 DEF TakesResize
  <2>3. /\ top'.waiting = top.waiting - 1 /\ top'.resizes = top.resizes
        /\ top'.drawing = "resize" /\ top'.monitor = top.monitor /\ top.main = "ui"
        /\ TopSame({"limit", "order", "taken", "text", "screen", "sample", "update", "new",
                    "redraws", "stale"})
      BY <1>1, <1>4 DEF TakesResize
  <2> QED BY <2>1, <2>2, <2>3, TopStill
<1>5. CASE PressesQ \/ StartsTyping \/ Mistypes
    BY <1>1, <1>5, TopStill DEF PressesQ, StartsTyping, Mistypes
<1>6. CASE Types
  <2>1. PICK n \in 0 .. 1 : top' = [top EXCEPT !.typed = n]
    <3>1. top.typed \in {0, 1} /\ top.typed + 1 \in {1, 2} /\ top.typed - 1 \in {-1, 0}
        BY <1>1
    <3>2. CASE top.typed < 1
        BY <1>1, <1>6, <3>1, <3>2 DEF Types
    <3>3. CASE top.typed > 0
        BY <1>1, <1>6, <3>1, <3>3 DEF Types
    <3> QED BY <3>1, <3>2, <3>3
  <2> QED BY <1>1, <2>1, TopStill
<1>7. CASE Corrects
  <2>1. top' \in TopRecords
    <3>1. CASE top' = [top EXCEPT !.mistake = "clear", !.typing = "nothing"]
        BY <1>1, <3>1
    <3>2. CASE top' = [top EXCEPT !.mistake = "none", !.typed = 0]
      <4>1. 0 \in 0 .. 1
          OBVIOUS
      <4> QED BY <1>1, <3>2, <4>1
    <3> QED BY <1>7, <3>1, <3>2 DEF Corrects
  <2>2. /\ top'.waiting = top.waiting /\ top'.resizes = top.resizes
        /\ top'.main = top.main /\ top'.drawing = top.drawing /\ top'.monitor = top.monitor
        /\ TopSame({"limit", "order", "taken", "text", "screen", "sample", "update", "new",
                    "redraws", "stale"})
      BY <1>1, <1>7 DEF Corrects
  <2> QED BY <1>1, <2>1, <2>2, TopStill
<1> QED BY <1>2, <1>3, <1>4, <1>5, <1>6, <1>7

LEMMA TopSamples ==
  ASSUME TopInv, AsksConnz
  PROVE  TopInv' /\ ScreenGoesOn
<1>1. top \in TopRecords
    BY DEF TopInv
<1>2. PICK n \in 0 .. MaxSamples, s \in Sample :
        n = top.taken + 1 /\ s = [seq |-> n, order |-> top.order]
  <2>1. /\ top.taken + 1 \in 0 .. MaxSamples
        /\ [seq |-> top.taken + 1, order |-> top.order] \in Sample
      BY <1>1, TopAssumption DEF TopRecords, AsksConnz, Sample
  <2> QED BY <2>1
<1>3. top' = [top EXCEPT !.monitor = "asked", !.taken = n, !.sample = s]
    BY <1>1, <1>2 DEF AsksConnz, TopRecords
<1>4. /\ top' \in TopRecords /\ top'.taken = n /\ top'.sample = s /\ top'.monitor = "asked"
      /\ TopSame({"text", "screen", "new", "update", "main", "drawing", "order", "stale",
                  "redraws", "limit", "waiting", "resizes"})
    BY <1>1, <1>3 DEF TopRecords, TopSame
<1>5. /\ top'.screen = top.screen /\ top'.text = top.text /\ top'.new = top.new
      /\ top'.update = top.update /\ top'.main = top.main /\ top'.drawing = top.drawing
      /\ top'.order = top.order /\ top'.stale = top.stale /\ top'.redraws = top.redraws
      /\ top'.limit = top.limit /\ top'.waiting = top.waiting /\ top'.resizes = top.resizes
    BY <1>4 DEF TopSame
<1>6. SamplesInOrder'
    BY <1>1, <1>2, <1>4, <1>5 DEF SamplesInOrder, TopInv, TopRecords, Sample, Torn
<1>7. LateOnes' <= LateOnes /\ LateOnes \in 0 .. 3 /\ LateOnes' \in 0 .. 3
    BY <1>2, <1>4, <1>5 DEF LateOnes, Late
<1>8. ScreenGoesOn
    BY <1>1, <1>5 DEF ScreenGoesOn, TopRecords, Sample, Torn
<1> QED BY <1>1, <1>4, <1>5, <1>6, <1>7, <1>8 DEF TopInv, TopRecords

LEMMA TopHandsOver ==
  ASSUME TopInv, HandsOver \/ WritesText \/ TakesStats
  PROVE  TopInv' /\ ScreenGoesOn
<1>1. top \in TopRecords
    BY DEF TopInv
<1>2. top' \in TopRecords
  <2>1. top.sample \in Sample /\ top.new \in Sample
      BY <1>1 DEF TopRecords
  <2>2. CASE HandsOver
      BY <1>1, <2>1, <2>2 DEF TopRecords, HandsOver
  <2>3. CASE WritesText
      BY <1>1, <2>1, <2>3 DEF TopRecords, WritesText
  <2>4. CASE TakesStats
      BY <1>1, <2>4 DEF TopRecords, TakesStats
  <2> QED BY <2>2, <2>3, <2>4
<1>3. /\ top'.screen = top.screen /\ top'.taken = top.taken /\ top'.sample = top.sample
      /\ top'.order = top.order /\ top'.stale = top.stale /\ top'.redraws = top.redraws
      /\ top'.limit = top.limit /\ top'.waiting = top.waiting /\ top'.resizes = top.resizes
    BY <1>1 DEF TopRecords, HandsOver, WritesText, TakesStats
<1>4. top.main \notin TopOver
    BY DEF HandsOver, WritesText, TakesStats, InUI, TopOver
<1>5. SamplesInOrder' /\ LateOnes' <= LateOnes
  <2>1. CASE HandsOver
    <3>1. /\ top'.text = top.text /\ top'.main = top.main /\ top'.drawing = top.drawing
          /\ top.monitor = "send" /\ top'.monitor = "wait" /\ top.update = "receive"
          /\ top'.update = "write" /\ top'.new = top.sample
        BY <1>1, <2>1 DEF TopRecords, HandsOver
    <3>2. SamplesInOrder'
        BY <1>1, <1>3, <3>1 DEF TopInv, SamplesInOrder, TopRecords, Sample
    <3> QED BY <1>3, <3>1, <3>2 DEF LateOnes, Late
  <2>2. CASE WritesText
    <3>1. /\ top'.text = top.new /\ top'.main = top.main /\ top'.drawing = top.drawing
          /\ top'.monitor = top.monitor /\ top.update = "write" /\ top'.update = "redraw"
          /\ top'.new = top.new
        BY <1>1, <2>2 DEF TopRecords, WritesText
    <3>2. SamplesInOrder'
        BY <1>1, <1>3, <3>1 DEF TopInv, SamplesInOrder, TopRecords, Sample, Torn
    <3>3. top.text.order = top.order => top.new.order = top.order
        BY <1>1 DEF TopInv, SamplesInOrder, TopRecords, Sample
    <3> QED BY <1>3, <3>1, <3>2, <3>3 DEF LateOnes, Late
  <2>3. CASE TakesStats
    <3>1. /\ top'.text = top.text /\ top.main = "ui" /\ top'.main = "render"
          /\ top'.drawing = "stats" /\ top'.monitor = top.monitor /\ top.update = "redraw"
          /\ top'.update = "receive" /\ top'.new = top.new
        BY <1>1, <2>3 DEF TopRecords, TakesStats
    <3>2. SamplesInOrder' /\ top.new = top.text
        BY <1>1, <1>3, <3>1 DEF TopInv, SamplesInOrder
    <3> QED BY <1>3, <3>1, <3>2 DEF LateOnes, Late
  <2> QED BY <2>1, <2>2, <2>3
<1>6. LateOnes \in 0 .. 3 /\ LateOnes' \in 0 .. 3
    BY DEF LateOnes, Late
<1>7. ScreenGoesOn
    BY <1>1, <1>3 DEF ScreenGoesOn, TopRecords, Sample, Torn
<1> QED BY <1>1, <1>2, <1>3, <1>4, <1>5, <1>6, <1>7 DEF TopInv, TopRecords

LEMMA TopDraws ==
  ASSUME TopInv, Renders
  PROVE  TopInv' /\ ScreenGoesOn
<1>1. top \in TopRecords
    BY DEF TopInv
<1>2. PICK seen \in {top.text, Torn} :
        LET stats == top.drawing = "stats"
            n == IF stats THEN top.redraws + 1 ELSE top.redraws
        IN top' = [top EXCEPT !.screen = seen, !.redraws = n,
                              !.main = IF stats /\ LastRefresh(n) THEN "done" ELSE "ui",
                              !.stale = IF stats /\ seen # Torn /\ seen.order # top.order
                                        THEN @ + 1 ELSE @]
    BY DEF Renders, Text
<1> DEFINE stats == top.drawing = "stats"
           n == IF stats THEN top.redraws + 1 ELSE top.redraws
           next == IF stats /\ LastRefresh(n) THEN "done" ELSE "ui"
           stale == IF stats /\ seen # Torn /\ seen.order # top.order THEN top.stale + 1
                    ELSE top.stale
<1>3. n \in Nat /\ stale \in Nat /\ next \in {"done", "ui"} /\ seen \in Sample \cup {Torn}
    BY <1>1, <1>2 DEF TopRecords
<1>10. top.limit > 0 => n <= top.limit /\ (next \notin TopOver => n < top.limit)
  <2>1. top.limit \in Nat /\ top.redraws \in Nat /\ (top.limit > 0 => top.redraws < top.limit)
      BY <1>1, TopAssumption DEF TopInv, TopRecords, Renders, TopOver
  <2> QED BY <2>1 DEF LastRefresh, TopOver
<1>12. stale <= top.stale + (IF stats /\ top.text.order # top.order THEN 1 ELSE 0)
    BY <1>1, <1>2 DEF TopRecords
<1>13. top' = [top EXCEPT !.screen = seen, !.redraws = n, !.main = next, !.stale = stale]
    BY <1>1, <1>2 DEF TopRecords
<1> HIDE DEF n, next, stale
<1>4. top' \in TopRecords
  <2>1. next \in {"check", "ui", "render"} \cup TopOver
      BY <1>3 DEF TopOver
  <2> QED BY <1>1, <1>3, <1>13, <2>1 DEF TopRecords
<1>5. /\ top'.screen = seen /\ top'.redraws = n /\ top'.main = next /\ top'.stale = stale
      /\ top'.limit = top.limit /\ top'.order = top.order /\ top'.taken = top.taken
      /\ top'.text = top.text /\ top'.monitor = top.monitor /\ top'.sample = top.sample
      /\ top'.update = top.update /\ top'.new = top.new /\ top'.drawing = top.drawing
      /\ top'.waiting = top.waiting /\ top'.resizes = top.resizes
    BY <1>1, <1>13 DEF TopRecords
<1>6. top.text.seq \in Nat /\ top.screen.seq <= top.text.seq
    BY <1>1 DEF TopInv, SamplesInOrder, TopRecords, Sample
<1>7. SamplesInOrder'
    BY <1>5, <1>6, <1>2 DEF TopInv, SamplesInOrder, Torn
<1>8. ScreenGoesOn
    BY <1>2, <1>5, <1>6 DEF ScreenGoesOn
<1>9. top'.stale + LateOnes' <= top.stale + LateOnes
  <2>1. top.main = "render"
      BY DEF Renders
  <2>2. /\ Late(top.main = "render" /\ top.drawing = "stats", top.text)
             = (IF stats /\ top.text.order # top.order THEN 1 ELSE 0)
        /\ Late(top.main = "render" /\ top.drawing = "stats", top.text)' = 0
        /\ Late(top.monitor \in {"asked", "send"}, top.sample)'
             = Late(top.monitor \in {"asked", "send"}, top.sample)
        /\ Late(top.update # "receive", top.new)' = Late(top.update # "receive", top.new)
      BY <1>3, <1>5, <2>1 DEF Late
  <2>4. /\ Late(top.monitor \in {"asked", "send"}, top.sample) \in 0 .. 1
        /\ Late(top.update # "receive", top.new) \in 0 .. 1
      BY DEF Late
  <2> QED BY <1>1, <1>3, <1>5, <1>12, <2>2, <2>4 DEF LateOnes, TopRecords
<1>11. top.stale + LateOnes \in Int /\ top'.stale + LateOnes' \in Int
    BY <1>1, <1>4 DEF LateOnes, Late, TopRecords
<1> QED BY <1>4, <1>5, <1>7, <1>8, <1>9, <1>10, <1>11 DEF TopInv

LEMMA TopOptions ==
  ASSUME TopInv, EntersOption \/ Resizes
  PROVE  TopInv' /\ ScreenGoesOn
<1>1. top \in TopRecords /\ top.main = "ui"
    BY DEF TopInv, EntersOption, Resizes
<1>2. CASE Resizes
  <2>1. /\ top.resizes + 1 \in 0 .. MaxResizes /\ top.waiting + 1 \in 0 .. MaxResizes
        /\ top.waiting + 1 <= top.resizes + 1
      BY <1>1, <1>2, TopAssumption DEF TopInv, TopRecords, Resizes
  <2>2. top' \in TopRecords
      BY <1>1, <1>2, <2>1 DEF Resizes, TopRecords
  <2>3. top'.resizes = top.resizes + 1 /\ top'.waiting = top.waiting + 1
        /\ TopSame({"limit", "order", "taken", "text", "screen", "sample", "update", "new",
                    "redraws", "stale", "main", "monitor", "drawing"})
      BY <1>1, <1>2 DEF Resizes, TopRecords, TopSame
  <2>4. top'.main = top.main /\ top'.monitor = top.monitor /\ top'.drawing = top.drawing
      BY <2>3 DEF TopSame
  <2>5. TopSame({"limit", "order", "taken", "text", "screen", "sample", "update", "new",
                 "redraws", "stale"})
      BY <2>3 DEF TopSame
  <2> QED BY <2>1, <2>2, <2>3, <2>4, <2>5, TopStill
<1>3. CASE EntersOption
  <2> DEFINE o == IF top.typing = "order" THEN top.order + 1 ELSE top.order
             stale == IF top.typing = "order" THEN 0 ELSE top.stale
  <2>1. top' = [top EXCEPT !.typing = "nothing", !.typed = 0, !.order = o, !.stale = stale]
      BY <1>1, <1>3 DEF EntersOption, TopRecords
  <2>2. o \in 0 .. MaxOrders /\ stale \in Nat /\ o >= top.order
      BY <1>1, <1>3, TopAssumption DEF EntersOption, TopRecords
  <2>8. /\ top.typing = "order" => stale = 0
        /\ top.typing # "order" => o = top.order /\ stale = top.stale
      OBVIOUS
  <2> HIDE DEF o, stale
  <2>3. top' \in TopRecords
    <3>1. "nothing" \in {"nothing", "order", "limit"} /\ 0 \in 0 .. 1
        OBVIOUS
    <3> QED BY <1>1, <2>1, <2>2, <3>1 DEF TopRecords
  <2>4. /\ top'.order = o /\ top'.stale = stale
        /\ top'.limit = top.limit /\ top'.taken = top.taken /\ top'.screen = top.screen
        /\ top'.text = top.text /\ top'.monitor = top.monitor /\ top'.sample = top.sample
        /\ top'.update = top.update /\ top'.new = top.new /\ top'.drawing = top.drawing
        /\ top'.redraws = top.redraws /\ top'.main = top.main
        /\ top'.waiting = top.waiting /\ top'.resizes = top.resizes
      BY <1>1, <2>1 DEF TopRecords
  <2>5. SamplesInOrder'
      BY <1>1, <2>2, <2>4 DEF TopInv, SamplesInOrder, TopRecords, Sample
  <2>6. ScreenGoesOn
      BY <1>1, <2>4 DEF ScreenGoesOn, TopRecords, Sample, Torn
  <2>7. stale + LateOnes' <= 2
    <3>1. CASE top.typing = "order"
      <4>1. stale = 0 /\ top'.main = "ui"
          BY <1>1, <2>4, <2>8, <3>1
      <4> QED BY <4>1 DEF LateOnes, Late
    <3>2. CASE top.typing # "order"
      <4>1. o = top.order /\ stale = top.stale
          BY <2>8, <3>2
      <4>2. LateOnes' = LateOnes
          BY <2>4, <4>1 DEF LateOnes, Late
      <4> QED BY <4>1, <4>2 DEF TopInv
    <3> QED BY <3>1, <3>2
  <2> QED BY <2>3, <2>4, <2>5, <2>6, <2>7 DEF TopInv
<1> QED BY <1>2, <1>3

LEMMA TopGoesOn ==
  ASSUME TopInv, TopRuns \/ Corrects \/ UserTypes
  PROVE  TopInv' /\ ScreenGoesOn
BY TopQuiet, TopSamples, TopHandsOver, TopDraws, TopOptions DEF TopRuns, UserTypes

LEMMA TopFine == TopInv => TopTypeOK /\ ScreenFollows
<1> SUFFICES ASSUME TopInv PROVE TopTypeOK /\ ScreenFollows
    OBVIOUS
<1>1. top \in TopRecords
    BY DEF TopInv
<1>2. LateOnes \in 0 .. 3
    BY DEF LateOnes, Late
<1> QED BY <1>1, <1>2 DEF TopInv, TopTypeOK, ScreenFollows, TopRecords

-----------------------------------------------------------------------------
(***************************************************************************)
(* The watches.  A figure that was sent and not taken into account is      *)
(* still on its way, in the updates or in the hand of the handler, behind  *)
(* every older one of its server: whatever order the servers are heard in, *)
(* what a watch saw last is the latest as soon as nothing of the server is *)
(* expected.                                                               *)
(***************************************************************************)

WatchRecords ==
  [kind : {"accounts", "servers", "jetstream", "api"},
   main : {"connect", "subscribe", "on", "done", "error"}, window : {"shut", "open"},
   sent : [Sources -> Figure], answered : SUBSET Sources, answers : Seq(Letter),
   updates : Seq(Letter), answer : Letter, update : Letter, seen : [Sources -> Figure],
   old : SUBSET Sources, ages : Int, shown : [Sources -> Figure], rows : Int,
   fresh : SUBSET Sources]

(* Letters are of updates that were sent, those of a server in their order. *)
Genuine(m) == 1 <= m.figure /\ m.figure <= watch.sent[m.source]
LettersHold ==
  /\ watch.update # NoLetter => Genuine(watch.update)
  /\ watch.answer # NoLetter => Genuine(watch.answer)
  /\ \A k \in 1 .. Len(watch.updates) : Genuine(watch.updates[k])
  /\ \A k \in 1 .. Len(watch.answers) : Genuine(watch.answers[k])
  /\ \A i, j \in 1 .. Len(watch.updates) :
       i < j /\ watch.updates[i].source = watch.updates[j].source =>
         watch.updates[i].figure < watch.updates[j].figure
  /\ \A i \in 1 .. Len(watch.updates) :
       watch.update # NoLetter /\ watch.update.source = watch.updates[i].source =>
         watch.update.figure < watch.updates[i].figure

(* An update on its way, by its figure.                                     *)
Comes(s, n) ==
  \/ watch.update # NoLetter /\ watch.update.source = s /\ watch.update.figure = n
  \/ \E k \in 1 .. Len(watch.updates) : watch.updates[k].source = s /\ watch.updates[k].figure = n
OnItsWay(s) == \E n \in Nat : Comes(s, n)

FiguresHold(s) ==
  /\ watch.seen[s] <= watch.sent[s] /\ watch.shown[s] <= watch.sent[s]
  /\ ~Heeded(s) => watch.seen[s] = 0 /\ watch.shown[s] = 0
LatestComes(s) ==
  /\ OnItsWay(s) => Comes(s, watch.sent[s])
  /\ s \in watch.fresh /\ Heeded(s) /\ ~OnItsWay(s) => watch.seen[s] = watch.sent[s]
  /\ watch.kind = "api" /\ Heeded(s) =>
       \A n \in Nat : (watch.seen[s] < n /\ n <= watch.sent[s]) <=> Comes(s, n)

PhasesHold ==
  /\ watch.main \in {"connect", "subscribe"} =>
       watch.updates = <<>> /\ watch.update = NoLetter /\ watch.fresh = {}
  /\ watch.window = "shut" => watch.answers = <<>>
  /\ watch.main = "connect" => watch.window = "shut"
  /\ watch.fresh # {} => watch.window = "shut" /\ watch.answer = NoLetter
  /\ watch.kind = "api" => watch.window = "shut" /\ watch.answer = NoLetter
  /\ watch.kind # "api" => \A s \in Sources : watch.sent[s] >= 1

WatchInv ==
  /\ watch \in WatchRecords /\ LettersHold /\ PhasesHold
  /\ \A s \in Sources : FiguresHold(s) /\ LatestComes(s)

LEMMA WatchTyped ==
  ASSUME WatchInv
  PROVE  /\ Figure \subseteq Nat /\ NoLetter \in Letter /\ NoLetter.figure = 0
         /\ watch \in WatchRecords
         /\ watch.sent \in [Sources -> Figure] /\ watch.seen \in [Sources -> Figure]
         /\ watch.shown \in [Sources -> Figure]
         /\ watch.updates \in Seq(Letter) /\ watch.answers \in Seq(Letter)
         /\ watch.update \in Letter /\ watch.answer \in Letter
         /\ Len(watch.updates) \in Nat /\ Len(watch.answers) \in Nat
         /\ \A k \in 1 .. Len(watch.updates) : watch.updates[k] \in Letter
         /\ \A k \in 1 .. Len(watch.answers) : watch.answers[k] \in Letter
<1>1. watch \in WatchRecords
    BY DEF WatchInv
<1>2. MaxUpdates \in Nat /\ \E s : s \in Sources
    BY WatchAssumption
<1>3. (CHOOSE s \in Sources : TRUE) \in Sources
    BY <1>2
<1>4. NoLetter \in Letter /\ NoLetter.figure = 0
    BY <1>2, <1>3 DEF NoLetter, Letter, Figure
<1>5. watch.updates \in Seq(Letter) /\ watch.answers \in Seq(Letter)
      /\ watch.update \in Letter /\ watch.answer \in Letter
      /\ watch.sent \in [Sources -> Figure] /\ watch.seen \in [Sources -> Figure]
      /\ watch.shown \in [Sources -> Figure]
    BY <1>1 DEF WatchRecords
<1>6. /\ Len(watch.updates) \in Nat /\ Len(watch.answers) \in Nat
      /\ \A k \in 1 .. Len(watch.updates) : watch.updates[k] \in Letter
      /\ \A k \in 1 .. Len(watch.answers) : watch.answers[k] \in Letter
    BY <1>5, LenProperties
<1>7. Figure \subseteq Nat
    BY <1>2 DEF Figure
<1> QED BY <1>1, <1>4, <1>5, <1>6, <1>7

LEMMA WatchStartsWell == ASSUME watch \in WatchStarts PROVE WatchInv
<1>1. PICK k \in {"accounts", "servers", "jetstream", "api"} :
        watch = [kind |-> k, main |-> "connect", window |-> "shut",
                 sent |-> [s \in Sources |-> IF k = "api" THEN 0 ELSE 1],
                 answered |-> {}, answers |-> <<>>, updates |-> <<>>,
                 answer |-> NoLetter, update |-> NoLetter,
                 seen |-> Nothing, old |-> {}, ages |-> 0, shown |-> Nothing, rows |-> 0,
                 fresh |-> {}]
    BY DEF WatchStarts
<1>2. MaxUpdates \in Nat /\ \E s : s \in Sources
    BY WatchAssumption
<1>3. (CHOOSE s \in Sources : TRUE) \in Sources
    BY <1>2
<1>4. NoLetter \in Letter
    BY <1>2, <1>3 DEF NoLetter, Letter, Figure
<1>5. PICK f \in [Sources -> Figure] : f = [s \in Sources |-> IF k = "api" THEN 0 ELSE 1]
  <2>1. [s \in Sources |-> IF k = "api" THEN 0 ELSE 1] \in [Sources -> Figure]
    <3>1. 0 \in Figure /\ 1 \in Figure
        BY <1>2 DEF Figure
    <3>2. (IF k = "api" THEN 0 ELSE 1) \in Figure
        BY <3>1
    <3> QED BY <3>2
  <2> QED BY <2>1
<1>6. Nothing \in [Sources -> Figure] /\ \A s \in Sources : Nothing[s] = 0
    BY <1>2 DEF Figure, Nothing
<1>7. <<>> \in Seq(Letter) /\ Len(<<>>) = 0
    OBVIOUS
<1>8. watch \in WatchRecords
    BY <1>1, <1>4, <1>5, <1>6, <1>7 DEF WatchRecords
<1>9. /\ watch.kind = k /\ watch.main = "connect" /\ watch.window = "shut" /\ watch.sent = f
      /\ watch.answers = <<>> /\ watch.updates = <<>> /\ watch.answer = NoLetter
      /\ watch.update = NoLetter /\ watch.seen = Nothing /\ watch.shown = Nothing /\
           watch.fresh = {}
    BY <1>1, <1>5
<1>10. LettersHold
    BY <1>7, <1>9 DEF LettersHold
<1>11. PhasesHold
    BY <1>5, <1>9 DEF PhasesHold
<1>12. ASSUME NEW s \in Sources PROVE FiguresHold(s) /\ LatestComes(s)
  <2>1. f[s] \in Nat /\ Nothing[s] = 0 /\ (k = "api" => f[s] = 0)
      BY <1>5, <1>6
  <2>2. \A n : ~Comes(s, n)
      BY <1>7, <1>9 DEF Comes
  <2> QED BY <1>9, <2>1, <2>2 DEF FiguresHold, LatestComes, OnItsWay
<1> QED BY <1>8, <1>10, <1>11, <1>12 DEF WatchInv

(* What goes on beside the updates.                                         *)
WatchKeeps ==
  /\ watch'.kind = watch.kind /\ watch'.sent = watch.sent /\ watch'.updates = watch.updates
  /\ watch'.update = watch.update /\ watch'.fresh = watch.fresh

LEMMA UpdatesStay ==
  ASSUME WatchInv, WatchKeeps, watch' \in WatchRecords, LettersHold', PhasesHold',
           watch'.seen = watch.seen,
         \A s \in Sources : watch'.shown[s] <= watch.sent[s] /\ (~Heeded(s) => watch'.shown[s] = 0)
  PROVE  WatchInv'
<1>1. ASSUME NEW s \in Sources PROVE FiguresHold(s)' /\ LatestComes(s)'
  <2>1. FiguresHold(s) /\ LatestComes(s)
      BY DEF WatchInv
  <2>2. (Heeded(s) <=> Heeded(s)') /\ \A n : Comes(s, n) <=> Comes(s, n)'
      BY DEF WatchKeeps, Heeded, Comes
  <2>3. OnItsWay(s) <=> OnItsWay(s)'
      BY <2>2 DEF OnItsWay
  <2> QED BY <2>1, <2>2, <2>3 DEF FiguresHold, LatestComes, WatchKeeps
<1> QED BY <1>1 DEF WatchInv

LEMMA WatchQuiet ==
  ASSUME WatchInv, WatchConnects \/ WatchSubscribes \/ WatchInterrupted \/
           \E s \in Sources : Ages(s)
  PROVE  WatchInv'
<1>0. watch \in WatchRecords
    BY DEF WatchInv
<1>1. PICK to \in {"connect", "subscribe", "on", "done", "error"}, window \in {"shut", "open"},
           old \in SUBSET Sources, ages \in Int :
        /\ watch' = [watch EXCEPT !.main = to, !.window = window, !.old = old, !.ages = ages]
        /\ to \in {"connect", "subscribe"} => watch.main = "connect" \/ to = watch.main
        /\ to = "connect" => watch.main = "connect" /\ window = watch.window
        /\ window # watch.window => Pings /\ watch.main = "connect"
  <2>0. watch.main \in {"connect", "subscribe", "on", "done", "error"} /\
          watch.window \in {"shut", "open"}
        /\ watch.old \in SUBSET Sources /\ watch.ages \in Int
      BY <1>0 DEF WatchRecords
  <2>1. CASE WatchConnects
    <3>1. PICK to \in {"error", "subscribe"}, window \in {"shut", "open"} :
            /\ watch' = [watch EXCEPT !.main = to, !.window = window]
            /\ window # watch.window => Pings
            /\ watch.main = "connect"
      <4>1. CASE watch' = [watch EXCEPT !.main = "error"]
        <5>1. watch' = [watch EXCEPT !.main = "error", !.window = watch.window]
            BY <1>0, <4>1 DEF WatchRecords
        <5> QED BY <2>0, <2>1, <5>1 DEF WatchConnects
      <4>2. CASE watch' = [watch EXCEPT !.main = "subscribe",
                   !.window = IF Pings THEN "open" ELSE "shut"]
        <5>1. CASE Pings
            BY <2>1, <4>2, <5>1 DEF WatchConnects
        <5>2. CASE ~Pings
          <6>1. watch' = [watch EXCEPT !.main = "subscribe", !.window = "shut"]
              BY <4>2, <5>2
          <6>2. watch.window = "shut" /\ watch.main = "connect"
              BY <1>0, <2>1 DEF WatchConnects, WatchInv, PhasesHold
          <6> QED BY <6>1, <6>2
        <5> QED BY <5>1, <5>2
      <4>3. CASE watch' = [watch EXCEPT !.main = "subscribe"]
        <5>1. watch' = [watch EXCEPT !.main = "subscribe", !.window = watch.window]
            BY <1>0, <4>3 DEF WatchRecords
        <5> QED BY <2>0, <2>1, <5>1 DEF WatchConnects
      <4> QED BY <2>1, <4>1, <4>2, <4>3 DEF WatchConnects
    <3>2. watch' = [watch EXCEPT !.main = to, !.window = window, !.old = watch.old,
            !.ages = watch.ages]
        BY <1>0, <3>1 DEF WatchRecords
    <3>3. to \in {"connect", "subscribe", "on", "done", "error"} /\ to # "connect"
        OBVIOUS
    <3>4. /\ window # watch.window => Pings /\ watch.main = "connect"
          /\ watch.main = "connect"
        BY <3>1
    <3> QED BY <2>0, <3>2, <3>3, <3>4
  <2>2. CASE WatchSubscribes \/ WatchInterrupted
    <3>1. PICK to \in {"on", "error", "done"} : watch' = [watch EXCEPT !.main = to]
        BY <2>2 DEF WatchSubscribes, WatchInterrupted
    <3>2. watch' = [watch EXCEPT !.main = to, !.window = watch.window, !.old = watch.old,
            !.ages = watch.ages]
        BY <1>0, <3>1 DEF WatchRecords
    <3>3. to \in {"connect", "subscribe", "on", "done", "error"} /\ to \notin {"connect",
            "subscribe"}
        OBVIOUS
    <3> QED BY <2>0, <3>2, <3>3
  <2>3. CASE \E s \in Sources : Ages(s)
    <3>1. PICK s \in Sources : Ages(s)
        BY <2>3
    <3>2. watch' = [watch EXCEPT !.main = watch.main, !.window = watch.window,
            !.old = watch.old \cup {s},
                                 !.ages = watch.ages + 1]
        BY <1>0, <3>1 DEF Ages, WatchRecords
    <3>3. watch.old \cup {s} \in SUBSET Sources /\ watch.ages + 1 \in Int
        BY <2>0
    <3> QED BY <2>0, <3>2, <3>3
  <2> QED BY <2>1, <2>2, <2>3
<1>2. watch' \in WatchRecords
    BY <1>0, <1>1 DEF WatchRecords
<1>3. /\ WatchKeeps /\ watch'.seen = watch.seen /\ watch'.shown = watch.shown
      /\ watch'.answers = watch.answers /\ watch'.answer = watch.answer
      /\ watch'.main = to /\ watch'.window = window
    BY <1>0, <1>1 DEF WatchRecords, WatchKeeps
<1>4. LettersHold'
    BY <1>3 DEF WatchInv, LettersHold, Genuine, WatchKeeps
<1>5. PhasesHold'
  <2>1. PhasesHold
      BY DEF WatchInv
  <2>2. watch.kind = "api" => ~Pings
      BY DEF Pings
  <2>3. window \in {"shut", "open"}
      BY <1>1
  <2> QED BY <1>1, <1>3, <2>1, <2>2, <2>3 DEF PhasesHold, WatchKeeps
<1> QED BY <1>2, <1>3, <1>4, <1>5, UpdatesStay DEF WatchInv, FiguresHold

LEMMA WatchRedraws == ASSUME WatchInv, Redraws PROVE WatchInv'
<1>0. watch \in WatchRecords
    BY DEF WatchInv
<1>1. PICK to \in {"on", "error"}, shown \in [Sources -> Figure], rows \in Int :
        /\ watch' = [watch EXCEPT !.main = to, !.shown = shown, !.rows = rows]
        /\ \A s \in Sources : shown[s] \in {0, watch.seen[s], watch.shown[s]}
  <2>1. CASE watch' = [watch EXCEPT !.main = "error"]
    <3>1. watch' = [watch EXCEPT !.main = "error", !.shown = watch.shown, !.rows = watch.rows]
        BY <1>0, <2>1 DEF WatchRecords
    <3>2. watch.shown \in [Sources -> Figure] /\ watch.rows \in Int
        BY <1>0 DEF WatchRecords
    <3> QED BY <3>1, <3>2
  <2>2. ASSUME NEW rows \in 0 .. Cardinality(Sources), NEW chosen,
               watch' = [watch EXCEPT !.shown = Drawn(chosen), !.rows = rows]
        PROVE  \E to \in {"on", "error"}, shown \in [Sources -> Figure], r \in Int :
                 /\ watch' = [watch EXCEPT !.main = to, !.shown = shown, !.rows = r]
                 /\ \A s \in Sources : shown[s] \in {0, watch.seen[s], watch.shown[s]}
    <3>1. Drawn(chosen) \in [Sources -> Figure]
          /\ \A s \in Sources : Drawn(chosen)[s] \in {0, watch.seen[s], watch.shown[s]}
      <4>1. 0 \in Figure /\ watch.seen \in [Sources -> Figure]
          BY <1>0, WatchAssumption DEF WatchRecords, Figure
      <4> QED BY <4>1 DEF Drawn
    <3>2. watch' = [watch EXCEPT !.main = "on", !.shown = Drawn(chosen), !.rows = rows]
        BY <1>0, <2>2 DEF WatchRecords, Redraws
    <3>3. rows \in Int
        OBVIOUS
    <3> QED BY <3>1, <3>2, <3>3
  <2> QED BY <2>1, <2>2 DEF Redraws
<1>2. watch' \in WatchRecords
    BY <1>0, <1>1 DEF WatchRecords
<1>3. /\ WatchKeeps /\ watch'.seen = watch.seen /\ watch'.shown = shown
      /\ watch'.answers = watch.answers /\ watch'.answer = watch.answer
      /\ watch'.main = to /\ watch'.window = watch.window
    BY <1>0, <1>1 DEF WatchRecords, WatchKeeps
<1>4. LettersHold'
    BY <1>3 DEF WatchInv, LettersHold, Genuine, WatchKeeps
<1>5. PhasesHold'
    BY <1>1, <1>3 DEF PhasesHold, WatchKeeps, WatchInv
<1>6. \A s \in Sources : shown[s] <= watch.sent[s] /\ (~Heeded(s) => shown[s] = 0)
  <2> TAKE s \in Sources
  <2>1. FiguresHold(s) /\ shown[s] \in {0, watch.seen[s], watch.shown[s]} /\ watch.sent[s] \in Nat
      BY <1>1, WatchTyped DEF WatchInv
  <2> QED BY <2>1 DEF FiguresHold
<1> QED BY <1>2, <1>3, <1>4, <1>5, <1>6, UpdatesStay

(* The answers to the ping, until they are handled.                         *)
LEMMA AnswersCome ==
  ASSUME WatchInv, TakesAnswer \/ ShutsWindow \/ \E s \in Sources : ServerAnswers(s) PROVE WatchInv'
<1>0. watch \in WatchRecords /\ PhasesHold /\ LettersHold
    BY DEF WatchInv
<1>1. PICK window \in {"shut", "open"}, heard \in SUBSET Sources, answers \in Seq(Letter),
             answer \in Letter :
        /\ watch' = [watch EXCEPT !.window = window, !.answered = heard, !.answers = answers,
             !.answer = answer]
        /\ \A k \in 1 .. Len(answers) : Genuine(answers[k])
        /\ answer # NoLetter => Genuine(answer)
        /\ window = "shut" => answers = <<>>
        /\ window # "shut" => window = watch.window
        /\ watch.fresh # {} => window = "shut" /\ answer = NoLetter
        /\ watch.kind = "api" => window = "shut" /\ answer = NoLetter
  <2>0. /\ watch.window \in {"shut", "open"} /\ watch.answered \in SUBSET Sources
        /\ watch.answers \in Seq(Letter) /\ watch.answer \in Letter
      BY <1>0 DEF WatchRecords
  <2>1. CASE TakesAnswer
    <3>1. Head(watch.answers) \in Letter /\ Tail(watch.answers) \in Seq(Letter)
          /\ Head(watch.answers) = watch.answers[1] /\ 1 \in 1 .. Len(watch.answers)
          /\ \A k \in 1 .. Len(Tail(watch.answers)) :
               k + 1 \in 1 .. Len(watch.answers) /\ Tail(watch.answers)[k] = watch.answers[k + 1]
        BY <2>0, <2>1, HeadTailProperties, EmptySeq, LenProperties DEF TakesAnswer
    <3>2. watch.window # "shut"
        BY <1>0, <2>1 DEF TakesAnswer, PhasesHold
    <3>3. watch' = [watch EXCEPT !.window = watch.window, !.answered = watch.answered,
                                 !.answers = Tail(watch.answers), !.answer = Head(watch.answers)]
        BY <1>0, <2>1 DEF TakesAnswer, WatchRecords
    <3>4. Genuine(Head(watch.answers)) /\
            \A k \in 1 .. Len(Tail(watch.answers)) : Genuine(Tail(watch.answers)[k])
        BY <1>0, <3>1 DEF LettersHold
    <3>5. watch.fresh = {} /\ watch.kind # "api"
        BY <1>0, <3>2 DEF PhasesHold
    <3> QED BY <2>0, <3>1, <3>2, <3>3, <3>4, <3>5
  <2>2. CASE ShutsWindow
    <3>1. watch' = [watch EXCEPT !.window = "shut", !.answered = watch.answered,
                                 !.answers = <<>>, !.answer = watch.answer]
        BY <1>0, <2>2 DEF ShutsWindow, WatchRecords
    <3>2. <<>> \in Seq(Letter) /\ Len(<<>>) = 0
        OBVIOUS
    <3>3. \A k \in 1 .. Len(<<>>) : FALSE
        BY <3>2
    <3>4. /\ watch.answer # NoLetter => Genuine(watch.answer)
          /\ watch.fresh # {} => watch.answer = NoLetter
          /\ watch.kind = "api" => watch.answer = NoLetter
        BY <1>0 DEF LettersHold, PhasesHold
    <3> DEFINE e == <<>>
    <3> HIDE DEF e
    <3>5. e \in Seq(Letter) /\ (\A k \in 1 .. Len(e) : Genuine(e[k])) /\ e = <<>>
        BY <3>2, <3>3 DEF e
    <3> QED BY <2>0, <3>1, <3>4, <3>5
  <2>3. CASE \E s \in Sources : ServerAnswers(s)
    <3>1. PICK s \in Sources : ServerAnswers(s)
        BY <2>3
    <3> DEFINE m == [source |-> s, figure |-> watch.sent[s]]
    <3>2. m \in Letter /\ m.source = s /\ m.figure = watch.sent[s] /\ watch.sent[s] \in Nat
        BY WatchTyped DEF Letter
    <3>3. watch' = [watch EXCEPT !.window = watch.window, !.answered = watch.answered \cup {s},
                                 !.answers = Append(watch.answers, m), !.answer = watch.answer]
        BY <1>0, <3>1 DEF ServerAnswers, WatchRecords
    <3>4. watch.window = "open"
        BY <3>1 DEF ServerAnswers
    <3> HIDE DEF m
    <3>5. /\ Append(watch.answers, m) \in Seq(Letter)
          /\ Len(Append(watch.answers, m)) = Len(watch.answers) + 1
          /\ Append(watch.answers, m)[Len(watch.answers) + 1] = m
          /\ \A k \in 1 .. Len(watch.answers) : Append(watch.answers, m)[k] = watch.answers[k]
          /\ Len(watch.answers) \in Nat
        BY <2>0, <3>2, AppendProperties, LenProperties
    <3>6. watch.kind # "api" /\ watch.fresh = {} /\ Genuine(m)
        BY <1>0, <3>2, <3>4 DEF PhasesHold, Genuine
    <3>7. \A k \in 1 .. Len(Append(watch.answers, m)) : Genuine(Append(watch.answers, m)[k])
      <4> TAKE k \in 1 .. Len(Append(watch.answers, m))
      <4>1. k \in 1 .. Len(watch.answers) \/ k = Len(watch.answers) + 1
          BY <3>5
      <4> QED BY <1>0, <3>5, <3>6, <4>1 DEF LettersHold
    <3>8. watch.answered \cup {s} \in SUBSET Sources
        BY <2>0
    <3>9. watch.answer # NoLetter => Genuine(watch.answer)
        BY <1>0 DEF LettersHold
    <3> QED BY <2>0, <3>3, <3>4, <3>5, <3>6, <3>7, <3>8, <3>9
  <2> QED BY <2>1, <2>2, <2>3
<1>2. watch' \in WatchRecords
    BY <1>0, <1>1 DEF WatchRecords
<1>3. /\ WatchKeeps /\ watch'.seen = watch.seen /\ watch'.shown = watch.shown
      /\ watch'.answers = answers /\ watch'.answer = answer
      /\ watch'.main = watch.main /\ watch'.window = window
    BY <1>0, <1>1 DEF WatchRecords, WatchKeeps
<1>4. LettersHold'
    BY <1>0, <1>1, <1>3 DEF LettersHold, Genuine, WatchKeeps
<1>5. PhasesHold'
    BY <1>0, <1>1, <1>3 DEF PhasesHold, WatchKeeps
<1> QED BY <1>2, <1>3, <1>4, <1>5, UpdatesStay DEF WatchInv, FiguresHold

LEMMA AnswerKept == ASSUME WatchInv, HandlesAnswer PROVE WatchInv'
<1>0. watch \in WatchRecords /\ PhasesHold /\ LettersHold
    BY DEF WatchInv
<1> DEFINE m == watch.answer
<1>1. /\ m \in Letter /\ m.source \in Sources /\ m.figure \in Figure /\ Genuine(m) /\
           NoLetter \in Letter
      /\ watch.fresh = {} /\ watch.kind # "api"
  <2>1. m \in Letter /\ m # NoLetter /\ NoLetter \in Letter
      BY WatchTyped DEF HandlesAnswer
  <2> QED BY <1>0, <2>1 DEF Letter, LettersHold, PhasesHold
<1> HIDE DEF m
<1>2. PICK seen \in [Sources -> Figure] :
        /\ watch' = [watch EXCEPT !.seen = seen, !.answer = NoLetter]
        /\ seen = watch.seen \/ (Kept(m) /\ seen = [watch.seen EXCEPT ![m.source] = m.figure])
  <2>0. watch.seen \in [Sources -> Figure]
      BY <1>0 DEF WatchRecords
  <2>1. CASE Kept(m)
    <3>1. watch' = [watch EXCEPT !.seen = [watch.seen EXCEPT ![m.source] = m.figure],
            !.answer = NoLetter]
        BY <1>0, <2>1 DEF HandlesAnswer, m, WatchRecords
    <3>2. [watch.seen EXCEPT ![m.source] = m.figure] \in [Sources -> Figure]
        BY <1>1, <2>0
    <3> QED BY <2>1, <3>1, <3>2
  <2>2. CASE ~Kept(m)
    <3>1. watch' = [watch EXCEPT !.seen = watch.seen, !.answer = NoLetter]
        BY <1>0, <2>2 DEF HandlesAnswer, m, WatchRecords
    <3> QED BY <2>0, <3>1
  <2> QED BY <2>1, <2>2
<1>3. watch' \in WatchRecords
    BY <1>0, <1>1, <1>2 DEF WatchRecords
<1>4. /\ watch'.kind = watch.kind /\ watch'.sent = watch.sent /\ watch'.updates = watch.updates
      /\ watch'.update = watch.update /\ watch'.fresh = watch.fresh /\ watch'.seen = seen
      /\ watch'.shown = watch.shown /\ watch'.answers = watch.answers /\ watch'.answer = NoLetter
      /\ watch'.main = watch.main /\ watch'.window = watch.window
    BY <1>0, <1>2 DEF WatchRecords
<1>5. LettersHold'
    BY <1>0, <1>4 DEF LettersHold, Genuine
<1>6. PhasesHold'
    BY <1>0, <1>4 DEF PhasesHold
<1>7. ASSUME NEW s \in Sources PROVE FiguresHold(s)' /\ LatestComes(s)'
  <2>1. FiguresHold(s) /\ LatestComes(s)
      BY DEF WatchInv
  <2>2. (Heeded(s) <=> Heeded(s)') /\ \A n : Comes(s, n) <=> Comes(s, n)'
      BY <1>4 DEF Heeded, Comes
  <2>3. OnItsWay(s) <=> OnItsWay(s)'
      BY <2>2 DEF OnItsWay
  <2>4. seen[s] = watch.seen[s] \/ (s = m.source /\ seen[s] = m.figure /\ Kept(m))
      BY <1>1, <1>2, WatchTyped
  <2>5. s = m.source /\ Kept(m) => Heeded(s)
    <3>1. watch.kind \in {"accounts", "servers"} <=> (watch.kind = "accounts" \/
            watch.kind = "servers")
        OBVIOUS
    <3> QED BY DEF Kept, Heeded
  <2>6. FiguresHold(s)'
      BY <1>1, <1>4, <2>1, <2>2, <2>4, <2>5 DEF FiguresHold, Genuine
  <2>7. LatestComes(s)'
      BY <1>1, <1>4, <2>1, <2>2, <2>3 DEF LatestComes
  <2> QED BY <2>6, <2>7
<1> QED BY <1>3, <1>5, <1>6, <1>7 DEF WatchInv

(* The updates.                                                             *)
LEMMA UpdateSent == ASSUME WatchInv, NEW c \in Sources, ServerSends(c) PROVE WatchInv'
<1>0. watch \in WatchRecords /\ PhasesHold /\ LettersHold
    BY DEF WatchInv
<1>1. PICK n \in Figure : n = watch.sent[c] + 1 /\ watch.main \in {"subscribe", "on"}
  <2>1. watch.sent[c] \in Nat /\ watch.sent[c] <= MaxUpdates /\ MaxUpdates \in Nat
      BY WatchTyped, WatchAssumption DEF ServerSends
  <2>2. watch.sent[c] + 1 \in Figure
      BY <2>1 DEF Figure
  <2> QED BY <2>2 DEF ServerSends
<1>a. /\ n \in Nat /\ n >= 1 /\ watch.sent[c] \in Nat /\ n > watch.sent[c]
      /\ watch.sent \in [Sources -> Figure]
      /\ \A s \in Sources : watch.sent[s] \in Nat /\ watch.seen[s] \in Nat /\ watch.shown[s] \in Nat
  <2>1. /\ watch.sent \in [Sources -> Figure]
        /\ \A s \in Sources : watch.sent[s] \in Nat /\ watch.seen[s] \in Nat /\
             watch.shown[s] \in Nat
      BY WatchTyped
  <2> QED BY <1>1, <2>1
<1>2. PICK m \in Letter : m = [source |-> c, figure |-> n] /\ m.source = c /\ m.figure = n
  <2>1. [source |-> c, figure |-> n] \in Letter
      BY DEF Letter
  <2> QED BY <2>1
<1>3. PICK sending \in [Sources -> Figure] : sending = [watch.sent EXCEPT ![c] = n]
    BY <1>1, <1>a
<1>4. /\ sending[c] = n /\ \A s \in Sources : s # c => sending[s] = watch.sent[s]
      /\ \A s \in Sources : watch.sent[s] <= sending[s] /\ sending[s] \in Nat
    BY <1>1, <1>a, <1>3
<1>5. CASE watch.main = "subscribe"
  <2>1. PICK x \in [Sources -> Figure] :
          watch' = [watch EXCEPT !.sent = x] /\
            (IF watch.kind = "api" THEN x = watch.sent ELSE x = sending)
    <3>1. CASE watch.kind = "api"
      <4>1. watch' = [watch EXCEPT !.sent[c] = @]
          BY <1>5, <3>1 DEF ServerSends
      <4>2. watch' = [watch EXCEPT !.sent = watch.sent]
          BY <1>0, <1>1, <1>a, <4>1 DEF WatchRecords
      <4> QED BY <1>1, <1>a, <3>1, <4>2
    <3>2. CASE watch.kind # "api"
      <4>1. watch' = [watch EXCEPT !.sent[c] = n]
          BY <1>1, <1>5, <3>2 DEF ServerSends
      <4>2. watch' = [watch EXCEPT !.sent = sending]
          BY <1>0, <1>3, <4>1 DEF WatchRecords
      <4> QED BY <3>2, <4>2
    <3> QED BY <3>1, <3>2
  <2>2. watch' \in WatchRecords
      BY <1>0, <2>1 DEF WatchRecords
  <2>3. /\ watch'.kind = watch.kind /\ watch'.sent = x /\ watch'.updates = watch.updates
        /\ watch'.update = watch.update /\ watch'.fresh = watch.fresh /\ watch'.seen = watch.seen
        /\ watch'.shown = watch.shown /\ watch'.answers = watch.answers /\
             watch'.answer = watch.answer
        /\ watch'.main = watch.main /\ watch'.window = watch.window
      BY <1>0, <2>1 DEF WatchRecords
  <2>4. watch.updates = <<>> /\ watch.update = NoLetter /\ watch.fresh = {} /\ Len(<<>>) = 0
      BY <1>0, <1>5, EmptySeq DEF PhasesHold
  <2>5. \A s \in Sources : x[s] \in Nat /\ watch.sent[s] <= x[s] /\ (watch.kind = "api" =>
          x[s] = watch.sent[s])
      BY <1>1, <1>a, <1>4, <2>1
  <2>6. \A k \in 1 .. Len(watch.answers) : Genuine(watch.answers[k])'
    <3> TAKE k \in 1 .. Len(watch.answers)
    <3>1. Genuine(watch.answers[k]) /\ watch.answers[k].source \in Sources /\
            watch.answers[k].figure \in Nat
        BY <1>0, WatchTyped DEF LettersHold, Letter
    <3> QED BY <1>1, <1>a, <2>3, <2>5, <3>1 DEF Genuine
  <2>7. watch.answer # NoLetter => Genuine(watch.answer)'
    <3>1. watch.answer.source \in Sources /\ watch.answer.figure \in Nat
        BY WatchTyped DEF Letter
    <3> QED BY <1>0, <1>1, <1>a, <2>3, <2>5, <3>1 DEF LettersHold, Genuine
  <2>8. LettersHold'
      BY <2>3, <2>4, <2>6, <2>7 DEF LettersHold
  <2>9. PhasesHold'
      BY <1>0, <1>1, <1>a, <2>3, <2>5 DEF PhasesHold
  <2>10. ASSUME NEW s \in Sources PROVE FiguresHold(s)' /\ LatestComes(s)'
    <3>1. FiguresHold(s) /\ LatestComes(s)
        BY DEF WatchInv
    <3>2. (Heeded(s) <=> Heeded(s)') /\ \A k : ~Comes(s, k) /\ ~Comes(s, k)'
        BY <2>3, <2>4 DEF Heeded, Comes
    <3>3. ~OnItsWay(s)'
        BY <3>2 DEF OnItsWay
    <3>4. FiguresHold(s)'
        BY <1>1, <1>a, <2>3, <2>5, <3>1, <3>2 DEF FiguresHold
    <3>5. watch.kind = "api" => x[s] = watch.sent[s]
        BY <2>5
    <3>6. LatestComes(s)'
        BY <2>3, <2>4, <3>1, <3>2, <3>3, <3>5 DEF LatestComes
    <3> QED BY <3>4, <3>6
  <2> QED BY <2>2, <2>8, <2>9, <2>10 DEF WatchInv
<1>6. CASE watch.main = "on"
  <2>1. PICK fresh \in SUBSET Sources :
          /\ watch' = [watch EXCEPT !.sent = sending, !.updates = Append(watch.updates, m),
               !.fresh = fresh]
          /\ \A s \in fresh : s \in watch.fresh \/ (s = c /\ watch.window = "shut" /\
               watch.answer = NoLetter)
    <3>1. watch' = [watch EXCEPT !.sent[c] = n, !.updates = Append(@, m),
                        !.fresh = IF watch.window = "shut" /\ watch.answer = NoLetter
                                  THEN @ \cup {c} ELSE @]
        BY <1>1, <1>2, <1>6 DEF ServerSends
    <3> DEFINE fresh == IF watch.window = "shut" /\ watch.answer = NoLetter
                        THEN watch.fresh \cup {c} ELSE watch.fresh
    <3>2. fresh \in SUBSET Sources
        BY <1>0 DEF WatchRecords
    <3>3. \A s \in fresh : s \in watch.fresh \/ (s = c /\ watch.window = "shut" /\
            watch.answer = NoLetter)
        OBVIOUS
    <3>4. watch' = [watch EXCEPT !.sent = sending, !.updates = Append(watch.updates, m),
            !.fresh = fresh]
        BY <1>0, <1>3, <3>1 DEF WatchRecords
    <3> HIDE DEF fresh
    <3> QED BY <3>2, <3>3, <3>4
  <2>2. PICK updates \in Seq(Letter) : updates = Append(watch.updates, m)
      BY <1>2, AppendProperties, WatchTyped
  <2> DEFINE L == Len(watch.updates)
  <2>3. /\ L \in Nat /\ Len(updates) = L + 1 /\ updates[L + 1] = m
        /\ \A k \in 1 .. L : updates[k] = watch.updates[k]
      BY <1>2, <2>2, AppendProperties, WatchTyped
  <2>4. \A k \in 1 .. L + 1 : k \in 1 .. L \/ k = L + 1
      BY <2>3
  <2>5. L + 1 \in 1 .. L + 1 /\ \A k \in 1 .. L : k \in 1 .. L + 1 /\ k < L + 1
      BY <2>3
  <2>6. watch' \in WatchRecords
      BY <1>0, <2>1, <2>2 DEF WatchRecords
  <2>7. /\ watch'.kind = watch.kind /\ watch'.sent = sending /\ watch'.updates = updates
        /\ watch'.update = watch.update /\ watch'.fresh = fresh /\ watch'.seen = watch.seen
        /\ watch'.shown = watch.shown /\ watch'.answers = watch.answers /\
             watch'.answer = watch.answer
        /\ watch'.main = watch.main /\ watch'.window = watch.window
      BY <1>0, <2>1, <2>2 DEF WatchRecords
  <2>8. ASSUME NEW d \in Letter, Genuine(d) PROVE Genuine(d)' /\ (d.source = c => d.figure < n)
    <3>1. d.source \in Sources /\ d.figure \in Nat
        BY <1>1, <1>a, WatchTyped DEF Letter
    <3> QED BY <1>1, <1>a, <1>4, <2>7, <2>8, <3>1 DEF Genuine
  <2>9. LettersHold'
    <3>1. \A k \in 1 .. L : Genuine(watch.updates[k]) /\ watch.updates[k] \in Letter
        BY <1>0, WatchTyped DEF LettersHold
    <3>2. \A k \in 1 .. L : Genuine(updates[k])' /\ (updates[k].source = c => updates[k].figure < n)
        BY <2>3, <2>7, <2>8, <3>1
    <3>3. Genuine(m)'
        BY <1>1, <1>a, <1>2, <1>4, <2>7 DEF Genuine
    <3>4. \A k \in 1 .. Len(updates) : Genuine(updates[k])'
        BY <2>3, <2>4, <2>7, <3>2, <3>3
    <3>5. watch.update # NoLetter => Genuine(watch.update)' /\ (watch.update.source = c =>
            watch.update.figure < n)
        BY <1>0, <2>7, <2>8, WatchTyped DEF LettersHold
    <3>6. watch.answer # NoLetter => Genuine(watch.answer)'
        BY <1>0, <2>7, <2>8, WatchTyped DEF LettersHold
    <3>7. \A k \in 1 .. Len(watch.answers) : Genuine(watch.answers[k])'
        BY <1>0, <2>7, <2>8, WatchTyped DEF LettersHold
    <3>8. \A i, j \in 1 .. Len(updates) :
            i < j /\ updates[i].source = updates[j].source => updates[i].figure < updates[j].figure
      <4> TAKE i, j \in 1 .. Len(updates)
      <4>1. CASE j \in 1 .. L /\ i \in 1 .. L
          BY <1>0, <2>3, <4>1 DEF LettersHold
      <4>2. CASE j = L + 1 /\ i \in 1 .. L
          BY <1>2, <2>3, <3>2, <4>2
      <4>3. CASE i = L + 1
          BY <2>3, <4>3
      <4> QED BY <2>3, <2>4, <4>1, <4>2, <4>3
    <3>9. \A i \in 1 .. Len(updates) :
            watch.update # NoLetter /\ watch.update.source = updates[i].source =>
              watch.update.figure < updates[i].figure
      <4> TAKE i \in 1 .. Len(updates)
      <4>1. CASE i \in 1 .. L
          BY <1>0, <2>3, <4>1 DEF LettersHold
      <4>2. CASE i = L + 1
          BY <1>2, <2>3, <3>5, <4>2
      <4> QED BY <2>3, <2>4, <4>1, <4>2
    <3> QED BY <2>7, <3>4, <3>5, <3>6, <3>7, <3>8, <3>9 DEF LettersHold
  <2>10. PhasesHold'
    <3>1. watch.kind # "api" => \A s \in Sources : sending[s] >= 1
        BY <1>0, <1>1, <1>a, <1>4 DEF PhasesHold
    <3>2. fresh # {} => watch.window = "shut" /\ watch.answer = NoLetter
        BY <1>0, <2>1 DEF PhasesHold
    <3> QED BY <1>0, <1>6, <2>7, <3>1, <3>2 DEF PhasesHold
  <2>11. \A s \in Sources : \A k : Comes(s, k)' <=> Comes(s, k) \/ (s = c /\ k = n)
    <3> TAKE s \in Sources
    <3> TAKE k
    <3>1. Comes(s, k) => Comes(s, k)'
        BY <2>3, <2>5, <2>7 DEF Comes
    <3>2. s = c /\ k = n => Comes(s, k)'
        BY <1>2, <2>3, <2>5, <2>7 DEF Comes
    <3>3. Comes(s, k)' => Comes(s, k) \/ (s = c /\ k = n)
      <4> SUFFICES ASSUME Comes(s, k)' PROVE Comes(s, k) \/ (s = c /\ k = n)
          OBVIOUS
      <4>1. CASE watch.update # NoLetter /\ watch.update.source = s /\ watch.update.figure = k
          BY <4>1 DEF Comes
      <4>2. CASE \E i \in 1 .. L + 1 : updates[i].source = s /\ updates[i].figure = k
        <5>1. PICK i \in 1 .. L + 1 : updates[i].source = s /\ updates[i].figure = k
            BY <4>2
        <5>2. CASE i \in 1 .. L
            BY <2>3, <5>1, <5>2 DEF Comes
        <5>3. CASE i = L + 1
            BY <1>2, <2>3, <5>1, <5>3
        <5> QED BY <2>4, <5>2, <5>3
      <4> QED BY <2>3, <2>7, <4>1, <4>2 DEF Comes
    <3> QED BY <3>1, <3>2, <3>3
  <2>12. ASSUME NEW s \in Sources PROVE FiguresHold(s)' /\ LatestComes(s)'
    <3>1. FiguresHold(s) /\ LatestComes(s) /\ (Heeded(s) <=> Heeded(s)')
        BY <2>7 DEF WatchInv, Heeded
    <3>2. FiguresHold(s)'
        BY <1>1, <1>a, <1>4, <2>7, <3>1 DEF FiguresHold
    <3>3. CASE s = c
      <4>1. Comes(s, n)' /\ OnItsWay(s)'
          BY <1>1, <1>a, <2>11, <3>3 DEF OnItsWay
      <4>2. watch.kind = "api" /\ Heeded(s) =>
              \A k \in Nat : (watch.seen[s] < k /\ k <= n) <=> Comes(s, k)'
        <5> SUFFICES ASSUME watch.kind = "api" /\ Heeded(s), NEW k \in Nat
                     PROVE  (watch.seen[s] < k /\ k <= n) <=> Comes(s, k)'
            OBVIOUS
        <5>1. (watch.seen[s] < k /\ k <= watch.sent[s]) <=> Comes(s, k)
            BY <3>1 DEF LatestComes
        <5>2. k <= n <=> k <= watch.sent[s] \/ k = n
            BY <1>1, <1>a, <3>3
        <5>3. watch.seen[s] < n
            BY <1>1, <1>a, <3>1, <3>3 DEF FiguresHold
        <5> QED BY <2>11, <3>3, <5>1, <5>2, <5>3
      <4> QED BY <1>4, <2>7, <3>1, <3>2, <3>3, <4>1, <4>2 DEF LatestComes
    <3>4. CASE s # c
      <4>1. \A k : Comes(s, k)' <=> Comes(s, k)
          BY <2>11, <3>4
      <4>2. OnItsWay(s)' <=> OnItsWay(s)
          BY <4>1 DEF OnItsWay
      <4>3. s \in fresh => s \in watch.fresh
          BY <2>1, <3>4
      <4>4. sending[s] = watch.sent[s]
          BY <1>4, <3>4
      <4> QED BY <2>7, <3>1, <3>2, <4>1, <4>2, <4>3, <4>4 DEF LatestComes
    <3> QED BY <3>3, <3>4
  <2> QED BY <2>6, <2>9, <2>10, <2>12 DEF WatchInv
<1> QED BY <1>1, <1>a, <1>5, <1>6

LEMMA UpdateTaken == ASSUME WatchInv, TakesUpdate PROVE WatchInv'
<1>0. watch \in WatchRecords /\ PhasesHold /\ LettersHold
    BY DEF WatchInv
<1> DEFINE L == Len(watch.updates)
<1>1. PICK m \in Letter, updates \in Seq(Letter) :
        /\ watch' = [watch EXCEPT !.update = m, !.updates = updates]
        /\ L \in Nat /\ 1 \in 1 .. L /\ m = watch.updates[1] /\ Len(updates) = L - 1
        /\ \A k \in 1 .. Len(updates) : updates[k] = watch.updates[k + 1]
  <2>1. watch.updates # <<>> /\ watch.updates \in Seq(Letter) /\ L \in Nat \ {0}
      BY EmptySeq, WatchTyped DEF TakesUpdate
  <2>2. Head(watch.updates) \in Letter /\ Tail(watch.updates) \in Seq(Letter)
        /\ Len(Tail(watch.updates)) = L - 1
        /\ \A k \in 1 .. Len(Tail(watch.updates)) : Tail(watch.updates)[k] = watch.updates[k + 1]
      BY <2>1, HeadTailProperties
  <2>3. Head(watch.updates) = watch.updates[1]
      BY <2>1
  <2>4. watch' = [watch EXCEPT !.update = Head(watch.updates), !.updates = Tail(watch.updates)]
      BY <1>0 DEF TakesUpdate, WatchRecords
  <2>5. 1 \in 1 .. L
      BY <2>1
  <2> DEFINE h == Head(watch.updates)
             u == Tail(watch.updates)
  <2>6. h \in Letter /\ u \in Seq(Letter) /\ h = watch.updates[1] /\ Len(u) = L - 1
        /\ \A k \in 1 .. Len(u) : u[k] = watch.updates[k + 1]
      BY <2>2, <2>3
  <2>7. watch' = [watch EXCEPT !.update = h, !.updates = u]
      BY <2>4
  <2> HIDE DEF h, u
  <2> QED BY <2>1, <2>5, <2>6, <2>7
<1>2. watch' \in WatchRecords
    BY <1>0, <1>1 DEF WatchRecords
<1>3. /\ watch'.kind = watch.kind /\ watch'.sent = watch.sent /\ watch'.updates = updates
      /\ watch'.update = m /\ watch'.fresh = watch.fresh /\ watch'.seen = watch.seen
      /\ watch'.shown = watch.shown /\ watch'.answers = watch.answers /\
           watch'.answer = watch.answer
      /\ watch'.main = watch.main /\ watch'.window = watch.window
    BY <1>0, <1>1 DEF WatchRecords
<1>4. \A k \in 1 .. Len(updates) : k + 1 \in 1 .. L /\ 1 < k + 1
    BY <1>1
<1>5. Genuine(m) /\ m # NoLetter
  <2>1. Genuine(m)
      BY <1>0, <1>1 DEF LettersHold
  <2> QED BY <2>1, WatchTyped DEF Genuine
<1>6. LettersHold'
  <2>1. \A k \in 1 .. Len(updates) : Genuine(updates[k])
      BY <1>0, <1>1, <1>4 DEF LettersHold
  <2>2. \A i, j \in 1 .. Len(updates) :
          i < j /\ updates[i].source = updates[j].source => updates[i].figure < updates[j].figure
    <3> TAKE i, j \in 1 .. Len(updates)
    <3>1. /\ i + 1 \in 1 .. L /\ j + 1 \in 1 .. L /\ (i < j => i + 1 < j + 1)
          /\ updates[i] = watch.updates[i + 1] /\ updates[j] = watch.updates[j + 1]
        BY <1>1, <1>4
    <3> QED BY <1>0, <3>1 DEF LettersHold
  <2>3. \A i \in 1 .. Len(updates) : m.source = updates[i].source => m.figure < updates[i].figure
    <3> TAKE i \in 1 .. Len(updates)
    <3>1. i + 1 \in 1 .. L /\ 1 < i + 1 /\ updates[i] = watch.updates[i + 1]
        BY <1>1, <1>4
    <3> QED BY <1>0, <1>1, <3>1 DEF LettersHold
  <2> QED BY <1>0, <1>3, <1>5, <2>1, <2>2, <2>3 DEF LettersHold, Genuine
<1>7. watch.updates # <<>> /\ watch.update = NoLetter
    BY DEF TakesUpdate
<1>8. PhasesHold'
    BY <1>0, <1>3, <1>7 DEF PhasesHold
<1>9. \A s \in Sources : \A n : Comes(s, n)' <=> Comes(s, n)
  <2> TAKE s \in Sources
  <2> TAKE n
  <2>1. Comes(s, n)' => Comes(s, n)
    <3> SUFFICES ASSUME Comes(s, n)' PROVE Comes(s, n)
        OBVIOUS
    <3>1. CASE m.source = s /\ m.figure = n
        BY <1>1, <3>1 DEF Comes
    <3>2. CASE \E k \in 1 .. Len(updates) : updates[k].source = s /\ updates[k].figure = n
        BY <1>1, <1>4, <3>2 DEF Comes
    <3> QED BY <1>3, <3>1, <3>2 DEF Comes
  <2>2. Comes(s, n) => Comes(s, n)'
    <3> SUFFICES ASSUME Comes(s, n) PROVE Comes(s, n)'
        OBVIOUS
    <3>1. PICK k \in 1 .. L : watch.updates[k].source = s /\ watch.updates[k].figure = n
        BY <1>7 DEF Comes
    <3>2. CASE k = 1
        BY <1>1, <1>3, <1>5, <3>1, <3>2 DEF Comes
    <3>3. CASE k # 1
      <4>1. k - 1 \in 1 .. Len(updates) /\ (k - 1) + 1 = k
          BY <1>1, <3>3
      <4>2. updates[k - 1] = watch.updates[k]
          BY <1>1, <4>1
      <4> QED BY <1>3, <3>1, <4>1, <4>2 DEF Comes
    <3> QED BY <3>2, <3>3
  <2> QED BY <2>1, <2>2
<1>10. ASSUME NEW s \in Sources PROVE FiguresHold(s)' /\ LatestComes(s)'
  <2>1. FiguresHold(s) /\ LatestComes(s) /\ (Heeded(s) <=> Heeded(s)')
      BY <1>3 DEF WatchInv, Heeded
  <2>2. \A n : Comes(s, n) <=> Comes(s, n)'
      BY <1>9
  <2>3. OnItsWay(s) <=> OnItsWay(s)'
      BY <2>2 DEF OnItsWay
  <2> QED BY <1>3, <2>1, <2>2, <2>3 DEF FiguresHold, LatestComes
<1> QED BY <1>2, <1>6, <1>8, <1>10 DEF WatchInv

LEMMA UpdateKept == ASSUME WatchInv, HandlesUpdate PROVE WatchInv'
<1>0. watch \in WatchRecords /\ PhasesHold /\ LettersHold
    BY DEF WatchInv
<1> DEFINE m == watch.update
           c == watch.update.source
<1>1. /\ m \in Letter /\ c \in Sources /\ m.figure \in Figure /\ m.figure \in Nat /\ Genuine(m)
      /\ NoLetter \in Letter /\ m # NoLetter /\ m.source = c
  <2>1. m \in Letter /\ m # NoLetter /\ NoLetter \in Letter /\ Figure \subseteq Nat
      BY WatchTyped DEF HandlesUpdate
  <2> QED BY <1>0, <2>1 DEF Letter, LettersHold
<1>2. /\ Comes(c, m.figure) /\ FiguresHold(c) /\ LatestComes(c)
      /\ watch.sent[c] \in Nat /\ watch.seen[c] \in Nat
    BY <1>1, WatchTyped DEF Comes, WatchInv
<1>3. Kept(m) <=> Heeded(c)
  <2>1. watch.kind \in {"accounts", "servers"} <=> (watch.kind = "accounts" \/
          watch.kind = "servers")
      OBVIOUS
  <2> QED BY DEF Kept, Heeded
<1>4. Heeded(c) /\ watch.kind = "api" => watch.seen[c] + 1 = m.figure
  <2> SUFFICES ASSUME Heeded(c), watch.kind = "api" PROVE watch.seen[c] + 1 = m.figure
      OBVIOUS
  <2>1. \A n \in Nat : (watch.seen[c] < n /\ n <= watch.sent[c]) <=> Comes(c, n)
      BY <1>2 DEF LatestComes
  <2>2. watch.seen[c] < m.figure /\ m.figure <= watch.sent[c]
      BY <1>1, <1>2, <2>1
  <2>3. Comes(c, watch.seen[c] + 1)
      BY <1>1, <1>2, <2>1, <2>2
  <2>4. CASE m.figure = watch.seen[c] + 1
      BY <2>4
  <2>5. CASE m.figure # watch.seen[c] + 1
    <3>1. PICK k \in 1 .. Len(watch.updates) :
            watch.updates[k].source = c /\ watch.updates[k].figure = watch.seen[c] + 1
        BY <1>1, <2>3, <2>5 DEF Comes
    <3>2. m.figure < watch.seen[c] + 1
        BY <1>0, <1>1, <3>1 DEF LettersHold
    <3> QED BY <1>1, <1>2, <2>2, <3>2
  <2> QED BY <2>4, <2>5
<1> HIDE DEF m, c
<1>5. PICK seen \in [Sources -> Figure], old \in SUBSET Sources :
        /\ watch' = [watch EXCEPT !.seen = seen, !.update = NoLetter, !.old = old]
        /\ IF Heeded(c) THEN seen = [watch.seen EXCEPT ![c] = m.figure] ELSE seen = watch.seen
  <2>0. watch.seen \in [Sources -> Figure] /\ watch.old \in SUBSET Sources
      BY <1>0 DEF WatchRecords
  <2>1. CASE Kept(m)
    <3>1. (IF watch.kind = "api" THEN watch.seen[c] + 1 ELSE m.figure) = m.figure
        BY <1>3, <1>4, <2>1
    <3>2. watch' = [watch EXCEPT !.update = NoLetter,
                      !.seen[c] = IF watch.kind = "api" THEN @ + 1 ELSE m.figure, !.old = @ \ {c}]
        BY <2>1 DEF HandlesUpdate, m, c
    <3>3. watch' = [watch EXCEPT !.seen = [watch.seen EXCEPT ![c] = m.figure], !.update = NoLetter,
                                 !.old = watch.old \ {c}]
        BY <1>0, <3>1, <3>2 DEF WatchRecords
    <3>4. [watch.seen EXCEPT ![c] = m.figure] \in [Sources -> Figure] /\
            watch.old \ {c} \in SUBSET Sources
        BY <1>1, <2>0
    <3> QED BY <1>3, <2>1, <3>3, <3>4
  <2>2. CASE ~Kept(m)
    <3>1. watch' = [watch EXCEPT !.seen = watch.seen, !.update = NoLetter, !.old = watch.old]
        BY <1>0, <2>2 DEF HandlesUpdate, m, WatchRecords
    <3> QED BY <1>3, <2>0, <2>2, <3>1
  <2> QED BY <2>1, <2>2
<1>6. watch' \in WatchRecords
    BY <1>0, <1>1, <1>5 DEF WatchRecords
<1>7. /\ watch'.kind = watch.kind /\ watch'.sent = watch.sent /\ watch'.updates = watch.updates
      /\ watch'.update = NoLetter /\ watch'.fresh = watch.fresh /\ watch'.seen = seen
      /\ watch'.shown = watch.shown /\ watch'.answers = watch.answers /\
           watch'.answer = watch.answer
      /\ watch'.main = watch.main /\ watch'.window = watch.window
    BY <1>0, <1>5 DEF WatchRecords
<1>8. LettersHold' /\ PhasesHold'
    BY <1>0, <1>7 DEF LettersHold, PhasesHold, Genuine
<1>9. \A s \in Sources : \A n : Comes(s, n)' <=> Comes(s, n) /\ (s = c => n # m.figure)
  <2> TAKE s \in Sources
  <2> TAKE n
  <2>1. Comes(s, n)' <=> \E k \in 1 .. Len(watch.updates) :
                           watch.updates[k].source = s /\ watch.updates[k].figure = n
      BY <1>7 DEF Comes
  <2>2. Comes(s, n) <=> (s = c /\ n = m.figure) \/ Comes(s, n)'
      BY <1>1, <2>1 DEF Comes, m, c
  <2>3. s = c /\ n = m.figure => ~Comes(s, n)'
    <3> SUFFICES ASSUME s = c, n = m.figure, Comes(s, n)' PROVE FALSE
        OBVIOUS
    <3>1. PICK k \in 1 .. Len(watch.updates) : watch.updates[k].source = c /\
                 watch.updates[k].figure = m.figure
        BY <2>1
    <3>2. m.figure < m.figure
        BY <1>0, <1>1, <3>1 DEF LettersHold, m, c
    <3> QED BY <1>1, <3>2
  <2> QED BY <2>2, <2>3
<1>10. ASSUME NEW s \in Sources PROVE FiguresHold(s)' /\ LatestComes(s)'
  <2>1. FiguresHold(s) /\ LatestComes(s) /\ (Heeded(s) <=> Heeded(s)')
        /\ watch.seen \in [Sources -> Figure]
      BY <1>7, WatchTyped DEF WatchInv, Heeded
  <2>2. CASE s # c
    <3>1. seen[s] = watch.seen[s]
        BY <1>1, <1>5, <2>1, <2>2
    <3>2. FiguresHold(s)'
        BY <1>7, <2>1, <3>1 DEF FiguresHold
    <3>3. \A n : Comes(s, n)' <=> Comes(s, n)
        BY <1>9, <2>2
    <3>4. OnItsWay(s)' <=> OnItsWay(s)
        BY <3>3 DEF OnItsWay
    <3> QED BY <1>7, <2>1, <3>1, <3>2, <3>3, <3>4 DEF LatestComes
  <2>3. CASE s = c
    <3>1. Heeded(s) => seen[s] = m.figure
        BY <1>1, <1>5, <2>1, <2>3
    <3>2. ~Heeded(s) => seen[s] = watch.seen[s]
        BY <1>5, <2>3
    <3>3. FiguresHold(s)'
        BY <1>1, <1>7, <2>1, <2>3, <3>1, <3>2 DEF FiguresHold, Genuine
    <3>4. Comes(s, watch.sent[s])
        BY <1>1, <1>2, <2>3 DEF LatestComes, OnItsWay
    <3>5. watch.sent[s] # m.figure => Comes(s, watch.sent[s])' /\ OnItsWay(s)'
      <4> DEFINE latest == watch.sent[s]
      <4>1. watch.sent[s]' = watch.sent[s] /\ latest \in Nat
          BY <1>2, <1>7, <2>3
      <4>2. PICK n \in Nat : n = latest
          BY <4>1
      <4>3. n # m.figure => Comes(s, n)'
          BY <1>9, <2>3, <3>4, <4>2
      <4> QED BY <4>1, <4>2, <4>3 DEF OnItsWay
    <3>6. ASSUME OnItsWay(s)' PROVE watch.sent[s] # m.figure
      <4>1. PICK n \in Nat : Comes(s, n)'
          BY <3>6 DEF OnItsWay
      <4>2. PICK k \in 1 .. Len(watch.updates) : watch.updates[k].source = s /\
                   watch.updates[k].figure = n
          BY <1>7, <4>1 DEF Comes
      <4>3. m.figure < n /\ n <= watch.sent[s]
          BY <1>0, <1>1, <2>3, <4>2 DEF LettersHold, Genuine, m, c
      <4> QED BY <1>1, <1>2, <2>3, <4>3
    <3>7. OnItsWay(s)' => Comes(s, watch.sent[s])'
        BY <3>5, <3>6
    <3>8. Heeded(s) /\ ~OnItsWay(s)' => seen[s] = watch.sent[s]
        BY <3>1, <3>5
    <3>9. watch.kind = "api" /\ Heeded(s) =>
            \A n \in Nat : (seen[s] < n /\ n <= watch.sent[s]) <=> Comes(s, n)'
      <4> SUFFICES ASSUME watch.kind = "api", Heeded(s), NEW n \in Nat
                   PROVE  (seen[s] < n /\ n <= watch.sent[s]) <=> Comes(s, n)'
          OBVIOUS
      <4>1. (watch.seen[s] < n /\ n <= watch.sent[s]) <=> Comes(s, n)
          BY <2>1 DEF LatestComes
      <4>2. watch.seen[s] + 1 = seen[s] /\ watch.seen[s] \in Nat
          BY <1>2, <1>4, <2>3, <3>1
      <4>3. seen[s] < n <=> watch.seen[s] < n /\ n # seen[s]
          BY <4>2
      <4>4. Comes(s, n)' <=> Comes(s, n) /\ n # seen[s]
          BY <1>9, <2>3, <3>1
      <4> QED BY <4>1, <4>3, <4>4
    <3> QED BY <1>7, <2>1, <3>3, <3>7, <3>8, <3>9 DEF LatestComes
  <2> QED BY <2>2, <2>3
<1> QED BY <1>6, <1>8, <1>10 DEF WatchInv

LEMMA WatchGoesOn == ASSUME WatchInv, WatchStep PROVE WatchInv'
BY WatchQuiet, WatchRedraws, AnswersCome, AnswerKept, UpdateSent, UpdateTaken,
     UpdateKept DEF WatchStep

LEMMA WatchFine == WatchInv => WatchTypeOK /\ WatchCatchesUp
<1> SUFFICES ASSUME WatchInv PROVE WatchTypeOK /\ WatchCatchesUp
    OBVIOUS
<1>1. WatchTypeOK
    BY WatchTyped DEF WatchTypeOK, WatchRecords
<1>2. ASSUME NEW s \in Sources PROVE Coming(s) <=> OnItsWay(s)
  <2>1. DOMAIN watch.updates = 1 .. Len(watch.updates)
      BY WatchTyped, LenProperties
  <2>2. \A k \in 1 .. Len(watch.updates) : watch.updates[k].figure \in Nat
      BY WatchTyped DEF Letter
  <2>3. watch.update.figure \in Nat
      BY WatchTyped DEF Letter
  <2> QED BY <2>1, <2>2, <2>3 DEF Coming, OnItsWay, Comes
<1>3. WatchCatchesUp
    BY <1>2 DEF WatchCatchesUp, WatchInv, FiguresHold, LatestComes
<1> QED BY <1>1, <1>3

-----------------------------------------------------------------------------
(***************************************************************************)
(* The ping.  The times are noted after the answers are counted, one at a  *)
(* time, so that there are never more of them than answers.                *)
(***************************************************************************)

PingRecords ==
  [expect : 0 .. Word - 1, given : 0 .. Word - 1, seen : 0 .. Pinged, times : 0 .. Pinged,
   last : 0 .. Pinged, cancelled : BOOLEAN,
   main : {"connect", "wait", "summary", "compare", "subtract", "done", "error", "exit"},
   cause : {"none", "stopped", "heard"}, summed : 0 .. Pinged, missing : -1 .. Word - 1]

PingInv ==
  /\ ping \in PingRecords
  /\ ping.given > 0 => ping.expect = ping.given
  /\ ping.last <= ping.seen
  /\ ping.times + (IF ping.last > 0 THEN 1 ELSE 0) <= ping.seen
  /\ ping.summed <= ping.times
  /\ ping.cancelled => ping.expect > 0 /\ ping.seen >= ping.expect
  /\ ping.cause = "heard" => ping.cancelled
  /\ ping.main = "done" /\ ping.missing = -1 => ping.expect \in {0, ping.seen}
  /\ ping.main = "done" /\ ping.missing >= 0 => ping.missing = Missing

LEMMA PingStartsWell == ASSUME ping \in PingStarts PROVE PingInv
<1>1. PICK e \in Expects :
        ping = [expect |-> e, given |-> e, seen |-> 0, times |-> 0, last |-> 0, cancelled |-> FALSE,
                main |-> "connect", cause |-> "none", summed |-> 0, missing |-> 0]
    BY DEF PingStarts
<1>2. e \in 0 .. Word - 1 /\ 0 \in 0 .. Pinged /\ 0 \in -1 .. Word - 1
    BY PingAssumption
<1>3. ping \in PingRecords
    BY <1>1, <1>2 DEF PingRecords
<1> QED BY <1>1, <1>2, <1>3 DEF PingInv

LEMMA PingHears == ASSUME PingInv, HearsNonsense \/ HearsServer \/ NotesServer PROVE PingInv'
<1>1. ping \in PingRecords /\ ping.main # "done"
    BY DEF PingInv, HearsNonsense, HearsServer, NotesServer, PingListens
<1>2. CASE HearsNonsense
  <2>1. ping' = [ping EXCEPT !.main = "exit"]
      BY <1>2 DEF HearsNonsense
  <2>2. ping' \in PingRecords
      BY <1>1, <2>1 DEF PingRecords
  <2> QED BY <1>1, <2>1, <2>2 DEF PingInv, PingRecords
<1>3. CASE HearsServer
  <2>1. PICK n \in 0 .. Pinged : n = ping.seen + 1
      BY <1>1, <1>3, PingAssumption DEF HearsServer, PingRecords
  <2>2. ping' = [ping EXCEPT !.seen = n, !.last = n]
      BY <1>3, <1>1, <2>1 DEF HearsServer, PingRecords
  <2>3. ping' \in PingRecords
      BY <1>1, <2>1, <2>2 DEF PingRecords
  <2>4. ping.last = 0
      BY <1>3 DEF HearsServer
  <2>5. /\ ping'.seen = n /\ ping'.last = n /\ ping'.expect = ping.expect
        /\ ping'.given = ping.given /\ ping'.times = ping.times /\ ping'.summed = ping.summed
        /\ ping'.cancelled = ping.cancelled /\ ping'.cause = ping.cause /\ ping'.main = ping.main
      BY <1>1, <2>2 DEF PingRecords
  <2>6. ping.cancelled => ping.expect > 0 /\ n >= ping.expect
      BY <1>1, <2>1 DEF PingInv, PingRecords
  <2> QED BY <1>1, <2>1, <2>3, <2>4, <2>5, <2>6 DEF PingInv, PingRecords
<1>4. CASE NotesServer
  <2>1. PICK a \in IF SetsExpect THEN 0 .. Pinged ELSE {ping.expect} :
          ping' = [ping EXCEPT !.expect = a, !.times = @ + 1, !.last = 0,
                               !.cancelled = @ \/ AllHeard(a)]
      BY <1>4 DEF NotesServer
  <2>2. a \in 0 .. Word - 1
      BY <1>1, <2>1, PingAssumption DEF PingRecords
  <2>3. ping.last > 0 /\ ping.times + 1 \in 0 .. Pinged /\ ping.times + 1 <= ping.seen
    <3>1. ping.last > 0 /\ ping.times \in 0 .. Pinged /\ ping.seen \in 0 .. Pinged
        BY <1>1, <1>4 DEF NotesServer, PingRecords
    <3>2. ping.times + 1 <= ping.seen
        BY <3>1 DEF PingInv
    <3> QED BY <3>1, <3>2, PingAssumption
  <2>4. ping' \in PingRecords
    <3>1. ping' = [ping EXCEPT !.expect = a, !.times = ping.times + 1, !.last = 0,
                               !.cancelled = ping.cancelled \/ AllHeard(a)]
        BY <1>1, <2>1 DEF PingRecords
    <3>2. (ping.cancelled \/ AllHeard(a)) \in BOOLEAN /\ 0 \in 0 .. Pinged
        BY PingAssumption
    <3>3. PICK can \in BOOLEAN, n \in 0 .. Pinged :
            can = (ping.cancelled \/ AllHeard(a)) /\ n = ping.times + 1
        BY <2>3, <3>2
    <3>4. ping' = [ping EXCEPT !.expect = a, !.times = n, !.last = 0, !.cancelled = can]
        BY <3>1, <3>3
    <3> QED BY <1>1, <2>2, <3>2, <3>4 DEF PingRecords
  <2>5. /\ ping'.seen = ping.seen /\ ping'.last = 0 /\ ping'.expect = a
        /\ ping'.given = ping.given /\ ping'.times = ping.times + 1 /\ ping'.summed = ping.summed
        /\ ping'.cancelled = (ping.cancelled \/ AllHeard(a))
        /\ ping'.cause = ping.cause /\ ping'.main = ping.main
      BY <1>1, <2>1 DEF PingRecords
  <2>6. a = ping.expect \/ ping.expect = 0
      BY <2>1 DEF SetsExpect
  <2>7. ping.cancelled \/ AllHeard(a) => a > 0 /\ ping.seen >= a
      BY <1>1, <2>2, <2>3, <2>6 DEF AllHeard, PingInv, PingRecords
  <2>8. ping.given > 0 => a = ping.given
      BY <1>1, <2>6 DEF PingInv, PingRecords
  <2> QED BY <1>1, <2>3, <2>4, <2>5, <2>7, <2>8 DEF PingInv, PingRecords
<1> QED BY <1>2, <1>3, <1>4

LEMMA PingMoves == ASSUME PingInv, PingMain PROVE PingInv'
<1>1. ping \in PingRecords /\ ping.main # "done"
    BY DEF PingInv, PingMain, PingConnects, PingWaited, SumsUp, Compares, Subtracts
<1>2. CASE PingConnects \/ SumsUp
  <2>1. PICK next \in {"wait", "error", "compare"} : ping' = [ping EXCEPT !.main = next]
      BY <1>2 DEF PingConnects, SumsUp
  <2> QED BY <1>1, <2>1 DEF PingInv, PingRecords
<1>3. CASE PingWaited
  <2>1. PICK cause \in {"stopped", "heard"} :
          /\ ping' = [ping EXCEPT !.main = "summary", !.cause = cause, !.summed = ping.times]
          /\ cause = "heard" => ping.cancelled
      BY <1>3 DEF PingWaited
  <2>2. ping' \in PingRecords
      BY <1>1, <2>1 DEF PingRecords
  <2> QED BY <1>1, <2>1, <2>2 DEF PingInv, PingRecords
<1>4. CASE Compares
  <2>1. PICK next \in {"done", "subtract"}, m \in {-1, 0} :
          /\ ping' = [ping EXCEPT !.main = next, !.missing = m]
          /\ next = "done" => m = -1 /\ ping.expect \in {0, ping.seen}
      BY <1>4 DEF Compares
  <2>2. m \in -1 .. Word - 1
      BY <2>1, PingAssumption
  <2>3. ping' \in PingRecords
      BY <1>1, <2>1, <2>2 DEF PingRecords
  <2> QED BY <1>1, <2>1, <2>2, <2>3 DEF PingInv, PingRecords
<1>5. CASE Subtracts
  <2>1. ping.expect - ping.seen \in Int
      BY <1>1 DEF PingRecords
  <2>2. Missing \in 0 .. Word - 1
      BY <2>1, PingAssumption DEF Missing
  <2>3. PICK m \in 0 .. Word - 1 : m = Missing
      BY <2>2
  <2>4. ping' = [ping EXCEPT !.main = "done", !.missing = m] /\ m \in -1 .. Word - 1
      BY <1>5, <2>3, PingAssumption DEF Subtracts
  <2>5. ping' \in PingRecords
      BY <1>1, <2>4 DEF PingRecords
  <2>6. /\ ping'.expect = ping.expect /\ ping'.seen = ping.seen /\ ping'.missing = m
        /\ ping'.given = ping.given /\ ping'.times = ping.times /\ ping'.summed = ping.summed
        /\ ping'.cancelled = ping.cancelled /\ ping'.cause = ping.cause /\ ping'.last = ping.last
      BY <1>1, <2>4 DEF PingRecords
  <2>7. Missing' = m
      BY <2>3, <2>6 DEF Missing
  <2> QED BY <1>1, <2>3, <2>5, <2>6, <2>7 DEF PingInv
<1> QED BY <1>2, <1>3, <1>4, <1>5 DEF PingMain

LEMMA PingFine == PingInv => PingTypeOK /\ PingIsTrue
<1> SUFFICES ASSUME PingInv PROVE PingTypeOK /\ PingIsTrue
    OBVIOUS
<1>1. ping \in PingRecords
    BY DEF PingInv
<1>2. ping.expect \in 0 .. Word - 1 /\ ping.seen \in 0 .. Pinged /\ Pinged \in Nat /\ Pinged < Word
      /\ Word \in Nat
    BY <1>1, PingAssumption DEF PingRecords
<1>3. ping.expect >= Pinged => Missing = ping.expect - ping.seen
  <2> SUFFICES ASSUME ping.expect >= Pinged PROVE Missing = ping.expect - ping.seen
      OBVIOUS
  <2>1. ping.expect - ping.seen \in 0 .. Word - 1
      BY <1>2
  <2>2. \A d \in 0 .. Word - 1 : d % Word = d
      BY <1>2
  <2> QED BY <2>1, <2>2 DEF Missing
<1>4. PingTypeOK
    BY <1>1, <1>2 DEF PingInv, PingTypeOK, PingRecords
<1> QED BY <1>1, <1>2, <1>3, <1>4 DEF PingInv, PingIsTrue, PingRecords

-----------------------------------------------------------------------------
(***************************************************************************)
(* The connections report.  Tables of the servers are increasing, so that  *)
(* what comes behind the page read last is not listed yet, whatever is     *)
(* opened and closed meanwhile; and where nothing changes all that comes   *)
(* before is listed, but for the one that each offset passes over.         *)
(***************************************************************************)

ConnzFields ==
  connz = [main |-> connz.main, filter |-> connz.filter, watching |-> connz.watching,
           table |-> connz.table, opened |-> connz.opened, offset |-> connz.offset,
           more |-> connz.more, pages |-> connz.pages, churn |-> connz.churn, deaf |-> connz.deaf]

ConnzTyped ==
  /\ ConnzFields /\ connz.main \in {"discover", "first", "pages", "drawn", "done", "error"}
  /\ connz.filter \in BOOLEAN /\ connz.deaf \in BOOLEAN /\ connz.more \in BOOLEAN
  /\ connz.table \in [Hosts -> Seq(1 .. MaxConns)]
  /\ connz.opened \in [Hosts -> 0 .. MaxConns]
  /\ connz.churn \in 0 .. MaxChurn /\ \E m \in Nat : connz.offset = m * (PageSize + 1)
  /\ connz.main \in {"drawn", "done"} => ~connz.more

(* Connections are numbered as they are opened.                             *)
TablesHold ==
  \A h \in Hosts :
    /\ \A k \in 1 .. Len(connz.table[h]) : connz.table[h][k] <= connz.opened[h]
    /\ \A i, j \in 1 .. Len(connz.table[h]) : i < j => connz.table[h][i] < connz.table[h][j]

PagesHold(pages) ==
  /\ \A p \in pages : /\ p.host \in Hosts
                      /\ \A c \in p.conns : c \in Nat /\ c <= connz.opened[p.host] /\ Wants(c)
  /\ \A p, q \in pages : p.host = q.host /\ p # q => p.conns \cap q.conns = {}

(* What comes next is not gathered yet.                                     *)
Ahead(pages, offset) ==
  \A p \in pages : \A k \in 1 .. Len(connz.table[p.host]) :
    k > offset + PageSize => connz.table[p.host][k] \notin p.conns

ListedIn(pages, h) == UNION {p.conns : p \in {q \in pages : q.host = h}}
GotTo(h, offset) ==
  {connz.table[h][k] : k \in {i \in 1 .. Len(connz.table[h]) :
                                i <= offset + PageSize /\ i % (PageSize + 1) # 0}}
AllReached(pages, offset, more) ==
  \A h \in Hosts : /\ ListedIn(pages, h) = GotTo(h, offset)
                   /\ ~more => Len(connz.table[h]) <= offset + PageSize
Undisturbed == connz.churn = 0 /\ ~connz.deaf /\ ~connz.filter

ConnzInv ==
  /\ ConnzTyped /\ TablesHold /\ PagesHold(connz.pages)
  /\ connz.main = "pages" => Ahead(connz.pages, connz.offset)
  /\ connz.main \in {"pages", "drawn", "done"} /\ Undisturbed =>
       AllReached(connz.pages, connz.offset, connz.more)

LEMMA SequenceIs ==
  ASSUME NEW S, NEW n \in Nat, NEW f \in [1 .. n -> S] PROVE f \in Seq(S) /\ Len(f) = n
<1>1. f \in Seq(S)
    BY SeqDef
<1>2. Len(f) \in Nat /\ DOMAIN f = 1 .. Len(f) /\ DOMAIN f = 1 .. n
    BY <1>1, LenProperties
<1> QED BY <1>1, <1>2

LEMMA TableIs ==
  ASSUME ConnzTyped, NEW h \in Hosts
  PROVE  /\ connz.table[h] \in Seq(1 .. MaxConns) /\ Len(connz.table[h]) \in Nat
         /\ DOMAIN connz.table[h] = 1 .. Len(connz.table[h])
         /\ \A k \in 1 .. Len(connz.table[h]) : connz.table[h][k] \in 1 .. MaxConns
                                                /\ connz.table[h][k] \in Nat
         /\ connz.opened[h] \in Nat /\ PageSize \in Nat \ {0} /\ MaxConns \in Nat
<1>1. connz.table[h] \in Seq(1 .. MaxConns) /\ connz.opened[h] \in 0 .. MaxConns
    BY DEF ConnzTyped
<1> QED BY <1>1, LenProperties, ConnectionsAssumption

LEMMA ConnzStartsWell == ASSUME connz \in ConnzStarts PROVE ConnzInv
<1>1. PICK f \in BOOLEAN, w \in BOOLEAN, n \in [Hosts -> 0 .. MaxConns] :
        connz = [main |-> "discover", filter |-> f, watching |-> w,
                 table |-> [h \in Hosts |-> Upto(n[h])], opened |-> n, offset |-> 0, more |-> FALSE,
                 pages |-> {}, churn |-> 0, deaf |-> FALSE]
    BY DEF ConnzStarts
<1>2. ASSUME NEW h \in Hosts
      PROVE  /\ Upto(n[h]) \in Seq(1 .. MaxConns) /\ Len(Upto(n[h])) = n[h] /\ n[h] \in Nat
             /\ \A k \in 1 .. n[h] : Upto(n[h])[k] = k
  <2>1. n[h] \in Nat /\ n[h] <= MaxConns
      BY ConnectionsAssumption
  <2>2. Upto(n[h]) \in [1 .. n[h] -> 1 .. MaxConns]
      BY <2>1, ConnectionsAssumption DEF Upto
  <2>3. \A k \in 1 .. n[h] : Upto(n[h])[k] = k
      BY DEF Upto
  <2> QED BY <2>1, <2>2, <2>3, SequenceIs
<1>3. ConnzFields
    BY <1>1 DEF ConnzFields
<1>4. /\ connz.main = "discover" /\ connz.filter = f /\ connz.deaf = FALSE /\ connz.more = FALSE
      /\ connz.table = [h \in Hosts |-> Upto(n[h])] /\ connz.opened = n /\ connz.churn = 0
      /\ connz.offset = 0 /\ connz.pages = {}
    BY <1>1
<1>5. \A h \in Hosts : connz.table[h] = Upto(n[h])
    BY <1>4
<1>6. connz.table \in [Hosts -> Seq(1 .. MaxConns)]
    BY <1>2, <1>4
<1>7. 0 \in 0 .. MaxChurn /\ 0 \in Nat /\ 0 = 0 * (PageSize + 1)
    BY ConnectionsAssumption
<1>8. ConnzTyped
    BY <1>3, <1>4, <1>6, <1>7 DEF ConnzTyped
<1>9. TablesHold
  <2> SUFFICES ASSUME NEW h \in Hosts
               PROVE  /\ \A k \in 1 .. Len(connz.table[h]) : connz.table[h][k] <= connz.opened[h]
                      /\ \A i, j \in 1 .. Len(connz.table[h]) : i < j =>
                           connz.table[h][i] < connz.table[h][j]
      BY DEF TablesHold
  <2> QED BY <1>2, <1>4, <1>5
<1> QED BY <1>4, <1>8, <1>9 DEF ConnzInv, PagesHold

LEMMA ConnzPauses ==
  ASSUME ConnzInv, Discovers \/ Reports \/ ReportsAgain \/ ReportInterrupted PROVE ConnzInv'
<1>0. ConnzTyped /\ ConnzFields
    BY DEF ConnzInv, ConnzTyped
<1>1. CASE ReportsAgain
  <2>1. /\ ConnzFields' /\ connz'.main = "first" /\ connz'.filter = connz.filter
        /\ connz'.deaf = connz.deaf /\ connz'.more = connz.more /\ connz'.table = connz.table
        /\ connz'.opened = connz.opened /\ connz'.churn = 0 /\ connz'.offset = connz.offset
        /\ connz'.pages = {}
      BY <1>0, <1>1 DEF ReportsAgain, ConnzFields
  <2>2. 0 \in 0 .. MaxChurn
      BY ConnectionsAssumption
  <2>3. ConnzTyped'
      BY <1>0, <2>1, <2>2 DEF ConnzTyped
  <2> QED BY <2>1, <2>3 DEF ConnzInv, TablesHold, PagesHold
<1>2. CASE Discovers \/ Reports \/ ReportInterrupted
  <2>1. PICK to \in {"first", "error", "drawn", "done"} : 
          /\ connz' = [connz EXCEPT !.main = to]
          /\ to \in {"drawn", "done"} => connz.main \in {"pages", "drawn"} /\ ~connz.more
    <3>1. CASE Discovers
        BY <3>1 DEF Discovers
    <3>2. CASE Reports
        BY <3>2 DEF Reports
    <3>3. CASE ReportInterrupted
        BY <1>0, <3>3 DEF ReportInterrupted, ConnzTyped
    <3> QED BY <1>2, <3>1, <3>2, <3>3
  <2>2. /\ ConnzFields' /\ connz'.main = to /\ connz'.filter = connz.filter
        /\ connz'.deaf = connz.deaf /\ connz'.more = connz.more /\ connz'.table = connz.table
        /\ connz'.opened = connz.opened /\ connz'.churn = connz.churn /\
             connz'.offset = connz.offset
        /\ connz'.pages = connz.pages
      BY <1>0, <2>1 DEF ConnzFields
  <2>3. ConnzTyped'
      BY <1>0, <2>1, <2>2 DEF ConnzTyped
  <2>4. TablesHold' /\ PagesHold(connz.pages)'
      BY <2>2 DEF ConnzInv, TablesHold, PagesHold, Wants
  <2>5. to # "pages"
      OBVIOUS
  <2>6. to \in {"drawn", "done"} /\ Undisturbed' => AllReached(connz.pages, connz.offset,
          connz.more)'
    <3>1. Undisturbed' <=> Undisturbed
        BY <2>2 DEF Undisturbed
    <3>2. \A h \in Hosts : GotTo(h, connz.offset)' = GotTo(h, connz.offset)
        BY <2>2 DEF GotTo
    <3>3. AllReached(connz.pages, connz.offset, connz.more) =>
            AllReached(connz.pages, connz.offset, connz.more)'
        BY <2>2, <3>2 DEF AllReached
    <3> QED BY <2>1, <3>1, <3>3 DEF ConnzInv
  <2> QED BY <2>2, <2>3, <2>4, <2>5, <2>6 DEF ConnzInv
<1> QED BY <1>1, <1>2

(* What a server answers, once it is filtered.                              *)
Fetched(h, offset) == RemoveFiltered(PageOf(h, offset))

LEMMA FetchedIs ==
  ASSUME ConnzTyped, TablesHold, NEW h \in Hosts, NEW o \in Nat
  PROVE  /\ PageOf(h, o).host = h /\ PageOf(h, o).offset = o /\ PageOf(h,
              o).total = Len(connz.table[h])
         /\ PageOf(h, o).conns = {connz.table[h][k] : k \in {i \in 1 .. Len(connz.table[h]) :
                                                               o < i /\ i <= o + PageSize}}
         /\ Fetched(h, o) = [PageOf(h, o) EXCEPT !.conns = {c \in PageOf(h, o).conns : Wants(c)}]
         /\ Fetched(h, o).host = h /\ Fetched(h, o).offset = o
         /\ Fetched(h, o).total = Len(connz.table[h])
         /\ Fetched(h, o).conns = {c \in PageOf(h, o).conns : Wants(c)}
         /\ \A c \in Fetched(h, o).conns : c \in Nat /\ c <= connz.opened[h] /\ Wants(c)
         /\ \A k \in 1 .. Len(connz.table[h]) : k > o + PageSize =>
              connz.table[h][k] \notin Fetched(h, o).conns
<1> DEFINE p == PageOf(h, o)
<1>1. DOMAIN connz.table[h] = 1 .. Len(connz.table[h])
    BY TableIs
<1>2. /\ p.host = h /\ p.offset = o /\ p.total = Len(connz.table[h])
      /\ p.conns = {connz.table[h][k] : k \in {i \in 1 .. Len(connz.table[h]) : o < i /\
           i <= o + PageSize}}
    BY <1>1 DEF PageOf
<1>3. p = [host |-> p.host, offset |-> p.offset, total |-> p.total, conns |-> p.conns]
    BY DEF PageOf
<1> HIDE DEF p
<1>4. Fetched(h, o) = [p EXCEPT !.conns = {c \in p.conns : Wants(c)}]
    BY <1>3 DEF Fetched, RemoveFiltered, p
<1>5. /\ Fetched(h, o).host = h /\ Fetched(h, o).offset = o /\ Fetched(h,
           o).total = Len(connz.table[h])
      /\ Fetched(h, o).conns = {c \in p.conns : Wants(c)}
    BY <1>2, <1>3, <1>4
<1>6. ASSUME NEW c \in p.conns
      PROVE  c \in Nat /\ c <= connz.opened[h]
             /\ \A k \in 1 .. Len(connz.table[h]) : k > o + PageSize => connz.table[h][k] # c
  <2>1. PICK i \in 1 .. Len(connz.table[h]) : o < i /\ i <= o + PageSize /\ c = connz.table[h][i]
      BY <1>2
  <2>2. c \in Nat /\ c <= connz.opened[h]
      BY <2>1, TableIs DEF TablesHold
  <2>3. \A k \in 1 .. Len(connz.table[h]) : k > o + PageSize => connz.table[h][k] # c
    <3> TAKE k \in 1 .. Len(connz.table[h])
    <3> HAVE k > o + PageSize
    <3>1. i < k
        BY <2>1, TableIs
    <3>2. connz.table[h][i] < connz.table[h][k] /\ connz.table[h][i] \in Nat /\
            connz.table[h][k] \in Nat
        BY <3>1, TableIs DEF TablesHold
    <3> QED BY <2>1, <3>2
  <2> QED BY <2>2, <2>3
<1> QED BY <1>2, <1>4, <1>5, <1>6 DEF p

(* Pages that were just read.                                               *)
JustRead(new, hosts, o) ==
  /\ hosts \subseteq Hosts
  /\ \A p \in new : \E h \in hosts : p = Fetched(h, o)
  /\ \A h \in hosts : Fetched(h, o).conns # {} => Fetched(h, o) \in new

LEMMA NewPages ==
  ASSUME ConnzTyped, TablesHold, NEW new, NEW hosts, NEW o \in Nat, JustRead(new, hosts, o)
  PROVE  PagesHold(new) /\ Ahead(new, o)
<1>1. ASSUME NEW p \in new
      PROVE  /\ p.host \in Hosts /\ p = Fetched(p.host, o)
             /\ \A c \in p.conns : c \in Nat /\ c <= connz.opened[p.host] /\ Wants(c)
             /\ \A k \in 1 .. Len(connz.table[p.host]) :
                  k > o + PageSize => connz.table[p.host][k] \notin p.conns
  <2>1. PICK h \in Hosts : p = Fetched(h, o)
      BY DEF JustRead
  <2> QED BY <2>1, FetchedIs
<1>2. ASSUME NEW p \in new, NEW q \in new, p.host = q.host PROVE p = q
    BY <1>1, <1>2
<1> QED BY <1>1, <1>2 DEF PagesHold, Ahead

LEMMA NewListed ==
  ASSUME ConnzTyped, TablesHold, NEW new, NEW o \in Nat, JustRead(new, Hosts, o), ~connz.filter,
         NEW h \in Hosts
  PROVE  ListedIn(new, h) = {connz.table[h][k] : k \in {i \in 1 .. Len(connz.table[h]) :
                                                           o < i /\ i <= o + PageSize}}
<1> DEFINE S == {connz.table[h][k] : k \in {i \in 1 .. Len(connz.table[h]) : o < i /\
      i <= o + PageSize}}
<1>1. Fetched(h, o).conns = S /\ Fetched(h, o).host = h
  <2>1. /\ PageOf(h, o).conns = S /\ Fetched(h, o).conns = {c \in PageOf(h, o).conns : Wants(c)}
        /\ Fetched(h, o).host = h
      BY FetchedIs
  <2>2. \A c : Wants(c)
      BY DEF Wants
  <2> HIDE DEF S
  <2> QED BY <2>1, <2>2
<1> HIDE DEF S
<1>2. \A p \in new : p.host = h => p = Fetched(h, o)
  <2> TAKE p \in new
  <2>1. PICK g \in Hosts : p = Fetched(g, o)
      BY DEF JustRead
  <2> QED BY <2>1, FetchedIs
<1>3. S # {} => Fetched(h, o) \in new
    BY <1>1 DEF JustRead
<1>4. ListedIn(new, h) \subseteq S
    BY <1>1, <1>2 DEF ListedIn
<1>5. S \subseteq ListedIn(new, h)
    BY <1>1, <1>3 DEF ListedIn
<1> QED BY <1>4, <1>5 DEF S

LEMMA MoreIsTold ==
  ASSUME ConnzTyped, TablesHold, NEW h \in Hosts, NEW o \in Nat, Len(connz.table[h]) > o + PageSize
  PROVE  /\ PageOf(h, o).conns # {} /\ HasMore(PageOf(h, o))
         /\ ~connz.filter => Fetched(h, o).conns # {} /\ HasMore(Fetched(h, o))
<1>1. o + 1 \in 1 .. Len(connz.table[h]) /\ o < o + 1 /\ o + 1 <= o + PageSize
    BY TableIs
<1>2. connz.table[h][o + 1] \in PageOf(h, o).conns
    BY <1>1, FetchedIs
<1>3. HasMore(PageOf(h, o)) /\ HasMore(Fetched(h, o))
    BY FetchedIs DEF HasMore
<1>4. ~connz.filter => connz.table[h][o + 1] \in Fetched(h, o).conns
    BY <1>2, FetchedIs DEF Wants
<1> QED BY <1>2, <1>3, <1>4

(* The offsets of pages are the places that are left out.                   *)
LEMMA OffsetsAre ==
  ASSUME NEW m \in Nat
  PROVE  /\ (m * (PageSize + 1)) % (PageSize + 1) = 0
         /\ \A i \in Nat : m * (PageSize + 1) < i /\ i <= m * (PageSize + 1) + PageSize =>
                             i % (PageSize + 1) # 0
<1>1. PageSize + 1 \in Nat \ {0} /\ PageSize \in Nat \ {0} /\ (PageSize + 1) - 1 = PageSize
    BY ConnectionsAssumption
<1>2. m * (PageSize + 1) \in Nat
    BY <1>1
<1>3. PICK o \in Nat : o = m * (PageSize + 1)
    BY <1>2
<1>4. \A r \in 0 .. PageSize : (o + r) % (PageSize + 1) = r
    BY <1>1, <1>3, Placed
<1>5. o % (PageSize + 1) = 0
  <2>1. 0 \in 0 .. PageSize /\ o + 0 = o
      BY <1>1
  <2> QED BY <1>4, <2>1
<1>6. ASSUME NEW i \in Nat, o < i, i <= o + PageSize PROVE i % (PageSize + 1) # 0
  <2>1. i - o \in 0 .. PageSize /\ o + (i - o) = i /\ i - o # 0
      BY <1>1, <1>6
  <2> QED BY <1>4, <2>1
<1> QED BY <1>3, <1>5, <1>6

LEMMA FirstReached ==
  ASSUME ConnzTyped, NEW h \in Hosts
  PROVE  GotTo(h, 0) = {connz.table[h][k] : k \in {i \in 1 .. Len(connz.table[h]) :
                                                        0 < i /\ i <= 0 + PageSize}}
<1>1. \A i \in 1 .. Len(connz.table[h]) :
        i <= 0 + PageSize /\ i % (PageSize + 1) # 0 <=> 0 < i /\ i <= 0 + PageSize
  <2>1. 0 \in Nat /\ 0 * (PageSize + 1) = 0
      BY ConnectionsAssumption
  <2>2. \A i \in Nat : 0 < i /\ i <= 0 + PageSize => i % (PageSize + 1) # 0
      BY <2>1, OffsetsAre
  <2>3. Len(connz.table[h]) \in Nat
      BY TableIs
  <2> QED BY <2>2, <2>3
<1> QED BY <1>1 DEF GotTo

LEMMA NextReached ==
  ASSUME ConnzTyped, NEW h \in Hosts, NEW o \in Nat, NEW m \in Nat, o = m * (PageSize + 1)
  PROVE  GotTo(h, o + PageSize + 1) =
           GotTo(h, o) \cup {connz.table[h][k] : k \in {i \in 1 .. Len(connz.table[h]) :
                                 o + PageSize + 1 < i /\ i <= o + PageSize + 1 + PageSize}}
<1>1. Len(connz.table[h]) \in Nat /\ PageSize \in Nat \ {0}
    BY TableIs
<1>2. PICK n \in Nat : n = o + PageSize + 1 /\ n = (m + 1) * (PageSize + 1)
    BY <1>1
<1>3. n % (PageSize + 1) = 0 /\ \A i \in Nat : n < i /\ i <= n + PageSize => i % (PageSize + 1) # 0
    BY <1>2, OffsetsAre
<1>4. \A i \in 1 .. Len(connz.table[h]) :
        i <= n + PageSize /\ i % (PageSize + 1) # 0 <=>
          (i <= o + PageSize /\ i % (PageSize + 1) # 0) \/ (n < i /\ i <= n + PageSize)
  <2> TAKE i \in 1 .. Len(connz.table[h])
  <2>1. i \in Nat
      BY <1>1
  <2>2. i <= o + PageSize \/ i = n \/ n < i
      BY <1>1, <1>2, <2>1
  <2>3. i <= o + PageSize => i <= n + PageSize
      BY <1>1, <1>2, <2>1
  <2> QED BY <1>3, <2>1, <2>2, <2>3
<1> DEFINE A == {i \in 1 .. Len(connz.table[h]) : i <= n + PageSize /\ i % (PageSize + 1) # 0}
           B == {i \in 1 .. Len(connz.table[h]) : i <= o + PageSize /\ i % (PageSize + 1) # 0}
           C == {i \in 1 .. Len(connz.table[h]) : n < i /\ i <= n + PageSize}
<1>5. A = B \cup C
    BY <1>4
<1>6. GotTo(h, n) = {connz.table[h][k] : k \in A} /\ GotTo(h, o) = {connz.table[h][k] : k \in B}
    BY DEF GotTo
<1> HIDE DEF A, B, C
<1>7. GotTo(h, n) = GotTo(h, o) \cup {connz.table[h][k] : k \in C}
    BY <1>5, <1>6
<1> QED BY <1>2, <1>7 DEF C

LEMMA FirstPageRead == ASSUME ConnzInv, FirstPage PROVE ConnzInv'
<1>0. ConnzTyped /\ ConnzFields /\ TablesHold
    BY DEF ConnzInv, ConnzTyped
<1>1. CASE connz' = [connz EXCEPT !.main = "error"]
  <2>1. /\ ConnzFields' /\ connz'.main = "error" /\ connz'.filter = connz.filter
        /\ connz'.deaf = connz.deaf /\ connz'.more = connz.more /\ connz'.table = connz.table
        /\ connz'.opened = connz.opened /\ connz'.churn = connz.churn /\
             connz'.offset = connz.offset
        /\ connz'.pages = connz.pages
      BY <1>0, <1>1 DEF ConnzFields
  <2>2. ConnzTyped'
      BY <1>0, <2>1 DEF ConnzTyped
  <2> QED BY <2>1, <2>2 DEF ConnzInv, TablesHold, PagesHold, Wants
<1>2. CASE connz' # [connz EXCEPT !.main = "error"]
  <2>1. PICK hosts \in SUBSET Hosts :
          LET pages == NotEmpty(RemoveAll(Answered(hosts, 0)))
          IN connz' = [connz EXCEPT !.main = "pages", !.pages = pages, !.offset = 0,
                                    !.more = \E page \in pages : HasMore(page),
                                    !.deaf = hosts # Hosts]
      BY <1>2 DEF FirstPage
  <2>2. PICK new : new = NotEmpty(RemoveAll(Answered(hosts, 0)))
      OBVIOUS
  <2>3. PICK more \in BOOLEAN : more <=> \E page \in new : HasMore(page)
      OBVIOUS
  <2>4. PICK deaf \in BOOLEAN : deaf <=> hosts # Hosts
      OBVIOUS
  <2>5. connz' = [connz EXCEPT !.main = "pages", !.pages = new, !.offset = 0, !.more = more,
          !.deaf = deaf]
      BY <2>1, <2>2, <2>3, <2>4
  <2>6. /\ ConnzFields' /\ connz'.main = "pages" /\ connz'.filter = connz.filter
        /\ connz'.deaf = deaf /\ connz'.more = more /\ connz'.table = connz.table
        /\ connz'.opened = connz.opened /\ connz'.churn = connz.churn /\ connz'.offset = 0
        /\ connz'.pages = new
      BY <1>0, <2>5 DEF ConnzFields
  <2>7. 0 \in Nat /\ 0 = 0 * (PageSize + 1)
      BY ConnectionsAssumption
  <2>8. ConnzTyped'
      BY <1>0, <2>6, <2>7 DEF ConnzTyped
  <2>9. JustRead(new, hosts, 0)
      BY <2>2 DEF JustRead, NotEmpty, RemoveAll, Answered, Fetched
  <2>10. PagesHold(new) /\ Ahead(new, 0)
      BY <1>0, <2>7, <2>9, NewPages
  <2>11. PagesHold(new)' /\ Ahead(new, 0)' /\ TablesHold'
      BY <1>0, <2>6, <2>10 DEF PagesHold, Ahead, TablesHold, Wants
  <2>12. ASSUME Undisturbed' PROVE AllReached(new, 0, more)'
    <3>1. ~deaf /\ hosts = Hosts /\ ~connz.filter /\ JustRead(new, Hosts, 0)
        BY <2>4, <2>6, <2>9, <2>12 DEF Undisturbed
    <3>2. ASSUME NEW h \in Hosts
          PROVE  ListedIn(new, h) = GotTo(h, 0) /\ (~more => Len(connz.table[h]) <= 0 + PageSize)
      <4>1. ListedIn(new, h) = GotTo(h, 0)
          BY <1>0, <2>7, <3>1, NewListed, FirstReached
      <4>2. ASSUME Len(connz.table[h]) > 0 + PageSize PROVE more
        <5>1. Fetched(h, 0).conns # {} /\ HasMore(Fetched(h, 0))
            BY <1>0, <2>7, <3>1, <4>2, MoreIsTold
        <5> QED BY <2>3, <3>1, <5>1 DEF JustRead
      <4> QED BY <1>0, <4>1, <4>2, TableIs
    <3>3. \A h \in Hosts : GotTo(h, 0)' = GotTo(h, 0)
        BY <2>6 DEF GotTo
    <3> QED BY <2>6, <3>2, <3>3 DEF AllReached
  <2> QED BY <2>6, <2>8, <2>11, <2>12 DEF ConnzInv
<1> QED BY <1>1, <1>2

LEMMA NextPageRead == ASSUME ConnzInv, NextPage PROVE ConnzInv'
<1>0. ConnzTyped /\ ConnzFields /\ TablesHold /\ connz.main = "pages"
    BY DEF ConnzInv, ConnzTyped, NextPage
<1>1. CASE connz' = [connz EXCEPT !.main = "error"]
  <2>1. /\ ConnzFields' /\ connz'.main = "error" /\ connz'.filter = connz.filter
        /\ connz'.deaf = connz.deaf /\ connz'.more = connz.more /\ connz'.table = connz.table
        /\ connz'.opened = connz.opened /\ connz'.churn = connz.churn /\
             connz'.offset = connz.offset
        /\ connz'.pages = connz.pages
      BY <1>0, <1>1 DEF ConnzFields
  <2>2. ConnzTyped'
      BY <1>0, <2>1 DEF ConnzTyped
  <2> QED BY <2>1, <2>2 DEF ConnzInv, TablesHold, PagesHold, Wants
<1>2. CASE connz' # [connz EXCEPT !.main = "error"]
  <2>a. PICK m \in Nat, o \in Nat : o = m * (PageSize + 1) /\ connz.offset = o
    <3>1. \A m \in Nat : m * (PageSize + 1) \in Nat
        BY ConnectionsAssumption
    <3> QED BY <1>0, <3>1 DEF ConnzTyped
  <2>b. PICK n \in Nat : n = NextOffset(o) /\ n = o + PageSize + 1 /\ n = (m + 1) * (PageSize + 1)
    <3>1. o + PageSize + 1 \in Nat /\ o + PageSize + 1 = (m + 1) * (PageSize + 1)
        BY <2>a, ConnectionsAssumption
    <3> QED BY <3>1 DEF NextOffset
  <2>1. PICK hosts \in SUBSET Hosts :
          connz' = [connz EXCEPT
            !.offset = n, !.pages = @ \cup RemoveAll(NotEmpty(Answered(hosts, n))),
            !.more = \E page \in NotEmpty(Answered(hosts, n)) : HasMore(page),
            !.deaf = @ \/ hosts # Hosts]
      BY <1>2, <2>a, <2>b DEF NextPage
  <2>2. PICK new : new = RemoveAll(NotEmpty(Answered(hosts, n)))
      OBVIOUS
  <2>3. PICK more \in BOOLEAN : more <=> \E page \in NotEmpty(Answered(hosts, n)) : HasMore(page)
      OBVIOUS
  <2>4. PICK deaf \in BOOLEAN : deaf <=> connz.deaf \/ hosts # Hosts
      OBVIOUS
  <2>5. connz' = [connz EXCEPT !.offset = n, !.pages = connz.pages \cup new, !.more = more,
          !.deaf = deaf]
    <3>1. (connz.deaf \/ hosts # Hosts) = deaf
        BY <2>4
    <3>2. (\E page \in NotEmpty(Answered(hosts, n)) : HasMore(page)) = more
        BY <2>3
    <3> QED BY <1>0, <2>1, <2>2, <3>1, <3>2 DEF ConnzFields
  <2>6. /\ ConnzFields' /\ connz'.main = "pages" /\ connz'.filter = connz.filter
        /\ connz'.deaf = deaf /\ connz'.more = more /\ connz'.table = connz.table
        /\ connz'.opened = connz.opened /\ connz'.churn = connz.churn /\ connz'.offset = n
        /\ connz'.pages = connz.pages \cup new
      BY <1>0, <2>5 DEF ConnzFields
  <2>7. m + 1 \in Nat
      OBVIOUS
  <2>8. ConnzTyped'
      BY <1>0, <2>b, <2>6, <2>7 DEF ConnzTyped
  <2>9. JustRead(new, hosts, n)
    <3>1. \A h \in hosts : Fetched(h, n).conns # {} => PageOf(h, n).conns # {}
      <4> TAKE h \in hosts
      <4>1. Fetched(h, n).conns = {c \in PageOf(h, n).conns : Wants(c)}
          BY <1>0, FetchedIs
      <4> QED BY <4>1
    <3> QED BY <2>2, <3>1 DEF JustRead, NotEmpty, RemoveAll, Answered, Fetched
  <2>10. PagesHold(new) /\ Ahead(new, n) /\ PagesHold(connz.pages) /\ Ahead(connz.pages, o)
      BY <1>0, <2>a, <2>9, NewPages DEF ConnzInv
  <2>11. ASSUME NEW p \in connz.pages, NEW q \in new,
                  p.host = q.host PROVE p.conns \cap q.conns = {}
    <3>1. PICK h \in Hosts : q = Fetched(h, n)
        BY <2>9 DEF JustRead
    <3>2. q.host = h /\ p.host = h
        BY <1>0, <2>11, <3>1, FetchedIs
    <3>3. ASSUME NEW c \in q.conns PROVE c \notin p.conns
      <4>1. c \in PageOf(h, n).conns
          BY <1>0, <3>1, <3>3, FetchedIs
      <4>2. PICK k \in 1 .. Len(connz.table[h]) : n < k /\ c = connz.table[h][k]
          BY <1>0, <4>1, FetchedIs
      <4>3. k > o + PageSize
          BY <1>0, <2>b, <4>2, TableIs
      <4> QED BY <2>10, <3>2, <4>2, <4>3 DEF Ahead
    <3> QED BY <3>3
  <2>12. PagesHold(connz.pages \cup new)
    <3>1. ASSUME NEW p \in connz.pages \cup new, NEW q \in connz.pages \cup new, p.host = q.host,
                   p # q
          PROVE  p.conns \cap q.conns = {}
      <4>1. CASE p \in connz.pages /\ q \in connz.pages
          BY <2>10, <3>1, <4>1 DEF PagesHold
      <4>2. CASE p \in new /\ q \in new
          BY <2>10, <3>1, <4>2 DEF PagesHold
      <4>3. CASE p \in connz.pages /\ q \in new
          BY <2>11, <3>1, <4>3
      <4>4. CASE p \in new /\ q \in connz.pages
          BY <2>11, <3>1, <4>4
      <4> QED BY <3>1, <4>1, <4>2, <4>3, <4>4
    <3> QED BY <2>10, <3>1 DEF PagesHold
  <2>13. Ahead(connz.pages \cup new, n)
    <3> SUFFICES ASSUME NEW p \in connz.pages \cup new, NEW k \in 1 .. Len(connz.table[p.host]),
                        k > n + PageSize
                 PROVE  connz.table[p.host][k] \notin p.conns
        BY DEF Ahead
    <3>1. p.host \in Hosts
        BY <2>10 DEF PagesHold
    <3>2. k > o + PageSize
        BY <1>0, <2>b, <3>1, TableIs
    <3> QED BY <2>10, <3>2 DEF Ahead
  <2>14. PagesHold(connz.pages)' /\ Ahead(connz.pages, connz.offset)' /\ TablesHold'
      BY <1>0, <2>6, <2>12, <2>13 DEF PagesHold, Ahead, TablesHold, Wants
  <2>15. ASSUME Undisturbed' PROVE AllReached(connz.pages, connz.offset, connz.more)'
    <3>1. ~connz.deaf /\ hosts = Hosts /\ ~connz.filter /\ JustRead(new, Hosts, n) /\ Undisturbed
        BY <2>4, <2>6, <2>9, <2>15 DEF Undisturbed
    <3>2. ASSUME NEW h \in Hosts
          PROVE  /\ ListedIn(connz.pages \cup new, h) = GotTo(h, n)
                 /\ ~more => Len(connz.table[h]) <= n + PageSize
      <4>1. ListedIn(connz.pages \cup new, h) = ListedIn(connz.pages, h) \cup ListedIn(new, h)
          BY DEF ListedIn
      <4>2. ListedIn(connz.pages, h) = GotTo(h, o)
          BY <1>0, <2>a, <3>1 DEF ConnzInv, AllReached
      <4>3. ListedIn(new, h) = {connz.table[h][k] : k \in {i \in 1 .. Len(connz.table[h]) :
                                                              n < i /\ i <= n + PageSize}}
          BY <1>0, <3>1, NewListed
      <4>4. GotTo(h, n) = GotTo(h, o) \cup ListedIn(new, h)
          BY <1>0, <2>a, <2>b, <4>3, NextReached
      <4>5. ASSUME Len(connz.table[h]) > n + PageSize PROVE more
        <5>1. PageOf(h, n).conns # {} /\ HasMore(PageOf(h, n))
            BY <1>0, <4>5, MoreIsTold
        <5>2. PageOf(h, n) \in NotEmpty(Answered(hosts, n))
            BY <3>1, <5>1 DEF NotEmpty, Answered
        <5> QED BY <2>3, <5>1, <5>2
      <4>6. Len(connz.table[h]) \in Nat /\ PageSize \in Nat
          BY <1>0, TableIs
      <4>7. ListedIn(connz.pages \cup new, h) = GotTo(h, n)
          BY <4>1, <4>2, <4>4
      <4>8. ~more => Len(connz.table[h]) <= n + PageSize
          BY <4>5, <4>6
      <4> QED BY <4>7, <4>8
    <3>3. \A h \in Hosts : GotTo(h, n)' = GotTo(h, n)
        BY <2>6 DEF GotTo
    <3> QED BY <2>6, <3>2, <3>3 DEF AllReached
  <2> QED BY <2>6, <2>8, <2>14, <2>15 DEF ConnzInv
<1> QED BY <1>1, <1>2

(* A connection comes or goes: what comes after a place was after it.       *)
LEMMA TableChanges ==
  ASSUME ConnzInv, NEW h \in Hosts, NEW s \in Seq(1 .. MaxConns), NEW n \in 0 .. MaxConns,
         connz.main \in {"first", "pages"}, connz.churn < MaxChurn, connz.opened[h] <= n,
         connz' = [connz EXCEPT !.churn = connz.churn + 1,
           !.opened = [connz.opened EXCEPT ![h] = n],
                                !.table = [connz.table EXCEPT ![h] = s]],
         \A k \in 1 .. Len(s) : s[k] <= n,
         \A i, j \in 1 .. Len(s) : i < j => s[i] < s[j],
         \A k \in 1 .. Len(s) : \/ s[k] > connz.opened[h]
                                \/ \E j \in 1 .. Len(connz.table[h]) : j >= k /\
                                     s[k] = connz.table[h][j]
  PROVE  ConnzInv'
<1>0. ConnzTyped /\ ConnzFields /\ TablesHold /\ PagesHold(connz.pages)
    BY DEF ConnzInv, ConnzTyped
<1>1. /\ ConnzFields' /\ connz'.main = connz.main /\ connz'.filter = connz.filter
      /\ connz'.deaf = connz.deaf /\ connz'.more = connz.more
      /\ connz'.table = [connz.table EXCEPT ![h] = s]
      /\ connz'.opened = [connz.opened EXCEPT ![h] = n] /\ connz'.churn = connz.churn + 1
      /\ connz'.offset = connz.offset /\ connz'.pages = connz.pages
    BY <1>0 DEF ConnzFields
<1>2. /\ connz'.table[h] = s /\ connz'.opened[h] = n
      /\ \A g \in Hosts : g # h => connz'.table[g] = connz.table[g] /\
           connz'.opened[g] = connz.opened[g]
      /\ \A g \in Hosts : connz.opened[g] \in Nat /\ connz'.opened[g] \in Nat
                          /\ connz.opened[g] <= connz'.opened[g]
      /\ connz'.table \in [Hosts -> Seq(1 .. MaxConns)] /\
           connz'.opened \in [Hosts -> 0 .. MaxConns]
    BY <1>0, <1>1, ConnectionsAssumption DEF ConnzTyped
<1>3. connz.churn + 1 \in 0 .. MaxChurn /\ connz.churn + 1 # 0
    BY <1>0, ConnectionsAssumption DEF ConnzTyped
<1>4. ConnzTyped'
    BY <1>0, <1>1, <1>2, <1>3 DEF ConnzTyped
<1>5. TablesHold'
    BY <1>0, <1>2 DEF TablesHold
<1>6. PagesHold(connz.pages)'
  <2>1. ASSUME NEW p \in connz.pages, NEW c \in p.conns PROVE c <= connz'.opened[p.host]
    <3>1. p.host \in Hosts /\ c \in Nat /\ c <= connz.opened[p.host]
        BY <1>0, <2>1 DEF PagesHold
    <3> QED BY <1>2, <3>1
  <2> QED BY <1>0, <1>1, <2>1 DEF PagesHold, Wants
<1>7. ASSUME connz.main = "pages" PROVE Ahead(connz.pages, connz.offset)'
  <2>0. connz.offset \in Nat /\ PageSize \in Nat
    <3>1. \A m \in Nat : m * (PageSize + 1) \in Nat
        BY ConnectionsAssumption
    <3> QED BY <1>0, <3>1, ConnectionsAssumption DEF ConnzTyped
  <2>1. Ahead(connz.pages, connz.offset)
      BY <1>7 DEF ConnzInv
  <2>2. ASSUME NEW p \in connz.pages, NEW k \in 1 .. Len(connz'.table[p.host]),
                 k > connz.offset + PageSize
        PROVE  connz'.table[p.host][k] \notin p.conns
    <3>0. p.host \in Hosts
        BY <1>0 DEF PagesHold
    <3>1. CASE p.host # h
        BY <1>2, <2>1, <2>2, <3>0, <3>1 DEF Ahead
    <3>2. CASE p.host = h
      <4>a. connz'.table[p.host] = s
          BY <1>2, <3>2
      <4>b. k \in 1 .. Len(s)
          BY <4>a
      <4>c. Len(s) \in Nat /\ s[k] \in 1 .. MaxConns
          BY <4>b, LenProperties, ElementOfSeq
      <4>0. connz'.table[p.host] = s /\ k \in 1 .. Len(s) /\ Len(s) \in Nat /\
              s[k] \in 1 .. MaxConns
          BY <4>a, <4>b, <4>c
      <4>1. CASE s[k] > connz.opened[h]
        <5>1. \A c \in p.conns : c \in Nat /\ c <= connz.opened[h]
            BY <1>0, <3>2 DEF PagesHold
        <5>2. connz.opened[h] \in Nat /\ s[k] \in Nat
            BY <1>2, <4>0, ConnectionsAssumption
        <5> QED BY <4>0, <4>1, <5>1, <5>2
      <4>2. CASE ~(s[k] > connz.opened[h])
        <5>1. PICK j \in 1 .. Len(connz.table[h]) : j >= k /\ s[k] = connz.table[h][j]
            BY <4>0, <4>2
        <5>2. j > connz.offset + PageSize
            BY <1>0, <2>0, <2>2, <4>0, <5>1, TableIs
        <5> QED BY <2>1, <3>2, <4>0, <5>1, <5>2 DEF Ahead
      <4> QED BY <4>1, <4>2
    <3> QED BY <3>1, <3>2
  <2> QED BY <1>1, <2>2 DEF Ahead
<1>8. ~Undisturbed'
    BY <1>1, <1>3 DEF Undisturbed
<1> QED BY <1>1, <1>4, <1>5, <1>6, <1>7, <1>8 DEF ConnzInv

LEMMA ConnzChurns == ASSUME ConnzInv, NEW h \in Hosts, Churns(h) PROVE ConnzInv'
<1>0. /\ ConnzTyped /\ ConnzFields /\ TablesHold
      /\ connz.main \in {"first", "pages"} /\ connz.churn < MaxChurn
    BY DEF ConnzInv, ConnzTyped, Churns
<1> DEFINE T == connz.table[h]
           L == Len(connz.table[h])
           n == connz.opened[h]
<1>1. /\ T \in Seq(1 .. MaxConns) /\ L \in Nat /\ n \in Nat /\ n \in 0 .. MaxConns /\
           MaxConns \in Nat
      /\ \A k \in 1 .. L : T[k] \in Nat /\ T[k] <= n /\ T[k] \in 1 .. MaxConns
      /\ \A i, j \in 1 .. L : i < j => T[i] < T[j]
    BY <1>0, TableIs DEF TablesHold, ConnzTyped
<1>2. CASE /\ n < MaxConns
           /\ connz' = [connz EXCEPT !.churn = @ + 1, !.opened[h] = @ + 1,
                                     !.table[h] = Append(@, connz.opened[h] + 1)]
  <2>1. n + 1 \in 1 .. MaxConns /\ n + 1 \in 0 .. MaxConns /\ n <= n + 1
      BY <1>1, <1>2
  <2>2. PICK s \in Seq(1 .. MaxConns) :
          /\ s = Append(T, n + 1) /\ Len(s) = L + 1 /\ s[L + 1] = n + 1
          /\ \A k \in 1 .. L : s[k] = T[k]
    <3>1. PICK s : s = Append(T, n + 1)
        OBVIOUS
    <3> HIDE DEF T, n
    <3>2. /\ s \in Seq(1 .. MaxConns) /\ Len(s) = Len(T) + 1 /\ s[Len(T) + 1] = n + 1
          /\ \A k \in 1 .. Len(T) : s[k] = T[k]
        BY <1>1, <2>1, <3>1, AppendProperties
    <3>3. Len(T) = L
        BY DEF T
    <3> QED BY <3>1, <3>2, <3>3
  <2>3. connz' = [connz EXCEPT !.churn = connz.churn + 1,
          !.opened = [connz.opened EXCEPT ![h] = n + 1],
                               !.table = [connz.table EXCEPT ![h] = s]]
      BY <1>0, <1>2, <2>2 DEF ConnzFields, ConnzTyped
  <2>4. \A k \in 1 .. Len(s) : k \in 1 .. L \/ k = L + 1
      BY <1>1, <2>2
  <2>5. \A k \in 1 .. Len(s) : s[k] <= n + 1 /\ s[k] \in Nat
    <3> TAKE k \in 1 .. Len(s)
    <3>1. CASE k \in 1 .. L
      <4>1. s[k] = T[k] /\ T[k] \in Nat /\ T[k] <= n
          BY <1>1, <2>2, <3>1
      <4> QED BY <1>1, <4>1
    <3>2. CASE k = L + 1
        BY <1>1, <2>2, <3>2
    <3> QED BY <2>4, <3>1, <3>2
  <2>6. \A i, j \in 1 .. Len(s) : i < j => s[i] < s[j]
    <3> TAKE i, j \in 1 .. Len(s)
    <3> HAVE i < j
    <3>0. i \in Nat /\ j \in Nat /\ i >= 1 /\ j <= L + 1
        BY <1>1, <2>2
    <3>1. i \in 1 .. L /\ (j \in 1 .. L \/ j = L + 1)
      <4>1. i <= L
          BY <1>1, <3>0
      <4>2. i \in 1 .. L
          BY <1>1, <3>0, <4>1
      <4>3. j <= L \/ j = L + 1
        <5>1. L \in Nat
            BY <1>1
        <5> HIDE DEF L
        <5> QED BY <3>0, <5>1
      <4> QED BY <1>1, <3>0, <4>2, <4>3
    <3>2. CASE j \in 1 .. L
        BY <1>1, <2>2, <3>1, <3>2
    <3>3. CASE j = L + 1
      <4>1. s[i] = T[i] /\ T[i] <= n /\ T[i] \in Nat
          BY <1>1, <2>2, <3>1
      <4>2. s[j] = n + 1
          BY <2>2, <3>3
      <4> QED BY <1>1, <4>1, <4>2
    <3> QED BY <3>1, <3>2, <3>3
  <2>7. \A k \in 1 .. Len(s) : s[k] > n \/ \E j \in 1 .. L : j >= k /\ s[k] = T[j]
    <3> TAKE k \in 1 .. Len(s)
    <3>1. CASE k \in 1 .. L
        BY <1>1, <2>2, <3>1
    <3>2. CASE k = L + 1
        BY <1>1, <2>2, <3>2
    <3> QED BY <2>4, <3>1, <3>2
  <2> QED BY <1>0, <2>1, <2>3, <2>5, <2>6, <2>7, TableChanges
<1>3. ASSUME NEW k \in DOMAIN T, connz' = [connz EXCEPT !.churn = @ + 1, !.table[h] = Without(@, k)]
      PROVE  ConnzInv'
  <2>0. k \in 1 .. L
      BY <1>0, TableIs
  <2>1. L - 1 \in Nat
      BY <1>1, <2>0
  <2>2. PICK s \in Seq(1 .. MaxConns) :
          /\ s = Without(T, k) /\ Len(s) = L - 1
          /\ \A i \in 1 .. L - 1 : s[i] = IF i < k THEN T[i] ELSE T[i + 1]
    <3>1. Without(T, k) \in [1 .. L - 1 -> 1 .. MaxConns]
          /\ \A i \in 1 .. L - 1 : Without(T, k)[i] = IF i < k THEN T[i] ELSE T[i + 1]
      <4>1. \A i \in 1 .. L - 1 : i \in 1 .. L /\ i + 1 \in 1 .. L
          BY <1>1
      <4>2. \A i \in 1 .. L - 1 : (IF i < k THEN T[i] ELSE T[i + 1]) \in 1 .. MaxConns
          BY <1>1, <4>1
      <4> HIDE DEF T
      <4>3. Without(T, k) = [i \in 1 .. L - 1 |-> IF i < k THEN T[i] ELSE T[i + 1]]
          BY DEF Without, T
      <4> QED BY <4>2, <4>3
    <3>2. PICK s : s = Without(T, k)
        OBVIOUS
    <3>3. s \in [1 .. L - 1 -> 1 .. MaxConns]
        BY <3>1, <3>2
    <3>4. s \in Seq(1 .. MaxConns) /\ Len(s) = L - 1
        BY <2>1, <3>3, SequenceIs
    <3> HIDE DEF T, L
    <3> QED BY <3>1, <3>2, <3>4
  <2>3. connz' = [connz EXCEPT !.churn = connz.churn + 1, !.opened = [connz.opened EXCEPT ![h] = n],
                               !.table = [connz.table EXCEPT ![h] = s]]
      BY <1>0, <1>3, <2>2 DEF ConnzFields, ConnzTyped
  <2>4. \A i \in 1 .. Len(s) : \E j \in 1 .. L : j >= i /\ s[i] = T[j] /\ (i < k => j = i) /\
          (i >= k => j = i + 1)
    <3> TAKE i \in 1 .. Len(s)
    <3>1. i \in 1 .. L /\ i + 1 \in 1 .. L /\ i \in 1 .. L - 1
        BY <1>1, <2>2
    <3>2. CASE i < k
      <4>1. s[i] = T[i] /\ ~(i >= k) /\ i >= i
          BY <1>1, <2>0, <2>2, <3>1, <3>2
      <4> HIDE DEF T, L
      <4> QED BY <3>1, <3>2, <4>1
    <3>3. CASE ~(i < k)
      <4>1. s[i] = T[i + 1] /\ i + 1 >= i
          BY <1>1, <2>0, <2>2, <3>1, <3>3
      <4> HIDE DEF T, L
      <4> QED BY <3>1, <3>3, <4>1
    <3> QED BY <3>2, <3>3
  <2>5. \A i \in 1 .. Len(s) : s[i] <= n
      BY <1>1, <2>4
  <2>6. \A i, j \in 1 .. Len(s) : i < j => s[i] < s[j]
    <3> TAKE i, j \in 1 .. Len(s)
    <3> HAVE i < j
    <3>1. PICK a \in 1 .. L : s[i] = T[a] /\ (i < k => a = i) /\ (i >= k => a = i + 1)
        BY <2>4
    <3>2. PICK b \in 1 .. L : s[j] = T[b] /\ (j < k => b = j) /\ (j >= k => b = j + 1)
        BY <2>4
    <3>3. i \in Nat /\ j \in Nat /\ k \in Nat
        BY <1>1, <2>0, <2>2
    <3>4. a < b
        BY <3>1, <3>2, <3>3
    <3> QED BY <1>1, <3>1, <3>2, <3>4
  <2>7. \A i \in 1 .. Len(s) : s[i] > n \/ \E j \in 1 .. L : j >= i /\ s[i] = T[j]
      BY <2>4
  <2>8. n <= n
      BY <1>1
  <2> QED BY <1>0, <1>1, <2>3, <2>5, <2>6, <2>7, <2>8, TableChanges
<1> QED BY <1>2, <1>3 DEF Churns

LEMMA ConnzGoesOn == ASSUME ConnzInv, ConnzStep PROVE ConnzInv'
BY ConnzPauses, FirstPageRead, NextPageRead, ConnzChurns DEF ConnzStep, ConnzRuns

LEMMA ConnzFine == ConnzInv => ConnzTypeOK /\ ConnectionsOnce
<1> SUFFICES ASSUME ConnzInv PROVE ConnzTypeOK /\ ConnectionsOnce
    OBVIOUS
<1>0. ConnzTyped /\ PagesHold(connz.pages)
    BY DEF ConnzInv
<1>1. ConnzTypeOK
    BY <1>0 DEF ConnzTyped, ConnzTypeOK
<1>2. ASSUME NEW h \in Hosts
      PROVE  /\ \A p, q \in PagesOf(h) : p # q => p.conns \cap q.conns = {}
             /\ \A c \in Listed(h) : Wants(c)
      BY <1>0 DEF PagesHold, PagesOf, Listed
<1>3. ASSUME NEW h \in Hosts, connz.main \in {"drawn", "done"}, Undisturbed
      PROVE  Listed(h) =
               {connz.table[h][k] : k \in {i \in DOMAIN connz.table[h] : i % (PageSize + 1) # 0}}
  <2>1. Listed(h) = ListedIn(connz.pages, h)
      BY DEF Listed, PagesOf, ListedIn
  <2>2. Listed(h) = GotTo(h, connz.offset) /\ Len(connz.table[h]) <= connz.offset + PageSize
      BY <1>0, <1>3, <2>1 DEF ConnzInv, ConnzTyped, AllReached
  <2>3. connz.offset \in Nat
    <3>1. \A m \in Nat : m * (PageSize + 1) \in Nat
        BY ConnectionsAssumption
    <3> QED BY <1>0, <3>1 DEF ConnzTyped
  <2>4. DOMAIN connz.table[h] = 1 .. Len(connz.table[h]) /\ Len(connz.table[h]) \in Nat /\
          PageSize \in Nat
      BY <1>0, TableIs
  <2>5. \A i \in 1 .. Len(connz.table[h]) : i <= connz.offset + PageSize
      BY <2>2, <2>3, <2>4
  <2> QED BY <2>2, <2>4, <2>5 DEF GotTo
<1> QED BY <1>1, <1>2, <1>3 DEF ConnectionsOnce, Undisturbed

-----------------------------------------------------------------------------
(***************************************************************************)
(* The exporter.  A check has a holder of its mutex from the connection to *)
(* the manager, and one connection for its manager or for its holder; a    *)
(* scrape has one result for each check that is behind it.                 *)
(***************************************************************************)

ScrapePcs == {"context", "connect", "connecting", "manage", "check"}

ExporterRecords ==
  [main : {"read", "serve", "error"}, nc : [EachCheck -> BOOLEAN], mgr : [EachCheck -> BOOLEAN],
   mu : [EachCheck -> SUBSET Scrapes], live : [EachCheck -> Nat], unmanaged : [EachCheck -> Nat],
   fails : Nat, pc : [Scrapes -> ScrapePcs], at : [Scrapes -> 1 .. Len(Checks) + 1],
   results : [Scrapes -> [EachCheck -> Nat]], critical : [Scrapes -> SUBSET EachCheck]]

(* The scrape is between Lock and Unlock of the check; it connected, but has *)
(* no manager yet.                                                          *)
Holds(s, c) == exporter.at[s] = c /\ exporter.pc[s] \in {"connecting", "manage"}
Managing(s, c) == exporter.at[s] = c /\ exporter.pc[s] = "manage"

ScrapesInOrder ==
  \A s \in Scrapes :
    /\ exporter.pc[s] # "context" =>
         exporter.at[s] \in EachCheck /\ Checks[exporter.at[s]].kind # "unknown"
    /\ \A c \in EachCheck :
         exporter.results[s][c] =
           IF c < exporter.at[s] /\ Checks[c].kind # "unknown" THEN 1 ELSE 0

MutexHolds ==
  \A c \in EachCheck :
    /\ \A s \in Scrapes : s \in exporter.mu[c] <=> Holds(s, c)
    /\ \A s, t \in exporter.mu[c] : s = t

ConnectionsCounted ==
  \A c \in EachCheck :
    /\ exporter.mgr[c] => exporter.nc[c]
    /\ \A s \in Scrapes : Managing(s, c) => ~exporter.mgr[c] /\ exporter.nc[c] /\ Checks[c].reuse
    /\ exporter.live[c] = exporter.unmanaged[c]
         + (IF exporter.mgr[c] \/ \E s \in Scrapes : Managing(s, c) THEN 1 ELSE 0)
    /\ ~Checks[c].reuse => exporter.live[c] = 0 /\ ~exporter.mgr[c]

ExporterInv ==
  exporter \in ExporterRecords /\ ScrapesInOrder /\ MutexHolds /\ ConnectionsCounted

LEMMA ChecksAre ==
  /\ Len(Checks) \in Nat /\ EachCheck = 1 .. Len(Checks)
  /\ \A c \in EachCheck : Checks[c].kind \in Kinds /\ Checks[c].reuse \in BOOLEAN
<1>1. Checks \in Seq([kind : Kinds, reuse : BOOLEAN])
    BY ExporterAssumption
<1>2. Len(Checks) \in Nat /\ EachCheck = 1 .. Len(Checks)
    BY <1>1, LenProperties DEF EachCheck
<1>3. \A c \in EachCheck : Checks[c] \in [kind : Kinds, reuse : BOOLEAN]
    BY <1>1, <1>2, ElementOfSeq
<1> QED BY <1>2, <1>3

LEMMA ExporterStartsWell == ASSUME exporter \in ExporterStarts PROVE ExporterInv
<1>1. exporter = [main |-> "read", nc |-> [c \in EachCheck |-> FALSE],
        mgr |-> [c \in EachCheck |-> FALSE],
    mu |-> [c \in EachCheck |-> {}], live |-> [c \in EachCheck |-> 0],
    unmanaged |-> [c \in EachCheck |-> 0], fails |-> 0,
    pc |-> [s \in Scrapes |-> "context"], at |-> [s \in Scrapes |-> 1],
    results |-> [s \in Scrapes |-> [c \in EachCheck |-> 0]],
    critical |-> [s \in Scrapes |-> {}]]
    BY DEF ExporterStarts
<1>2. 1 \in 1 .. Len(Checks) + 1 /\ EachCheck = 1 .. Len(Checks)
    BY ChecksAre
<1> HIDE DEF EachCheck
<1>3. exporter \in ExporterRecords
    BY <1>1, <1>2 DEF ExporterRecords, ScrapePcs
<1>4. ScrapesInOrder
  <2>1. \A s \in Scrapes :
          /\ exporter.pc[s] = "context" /\ exporter.at[s] = 1
          /\ \A c \in EachCheck : exporter.results[s][c] = 0
      BY <1>1
  <2>2. \A c \in EachCheck : ~(c < 1)
      BY <1>2, ChecksAre
  <2> QED BY <2>1, <2>2 DEF ScrapesInOrder
<1>5. MutexHolds
    BY <1>1 DEF MutexHolds, Holds
<1>6. ConnectionsCounted
    BY <1>1 DEF ConnectionsCounted, Managing
<1> QED BY <1>3, <1>4, <1>5, <1>6 DEF ExporterInv

(* What a scrape changes: itself and the check it is at.                    *)
NotMine(s, c) ==
  /\ \A d \in EachCheck \ {c} : exporter'.results[s][d] = exporter.results[s][d]
  /\ \A t \in Scrapes \ {s} :
       /\ exporter'.pc[t] = exporter.pc[t] /\ exporter'.at[t] = exporter.at[t]
       /\ exporter'.results[t] = exporter.results[t]
  /\ \A d \in EachCheck \ {c} :
       /\ exporter'.mu[d] = exporter.mu[d] /\ exporter'.nc[d] = exporter.nc[d]
       /\ exporter'.mgr[d] = exporter.mgr[d] /\ exporter'.live[d] = exporter.live[d]
       /\ exporter'.unmanaged[d] = exporter.unmanaged[d]

(* What it may become.                                                      *)
MayBecome(s, c, p, n, r, m, nc, mgr, live, unmanaged) ==
  /\ n \in {c, c + 1}
  /\ p # "context" => n = c /\ Checks[c].kind # "unknown"
  /\ r = IF n = c \/ Checks[c].kind = "unknown" THEN exporter.results[s][c]
         ELSE exporter.results[s][c] + 1
  /\ IF p \in {"connecting", "manage"} THEN m = {s} /\ exporter.mu[c] \subseteq {s}
     ELSE m = exporter.mu[c] \ {s}
  /\ mgr => nc
  /\ p = "manage" => ~mgr /\ nc
  /\ \/ /\ nc = exporter.nc[c] /\ mgr = exporter.mgr[c] /\ live = exporter.live[c]
        /\ unmanaged = exporter.unmanaged[c] /\ p # "manage" /\ exporter.pc[s] # "manage"
     \/ /\ exporter.mu[c] = {s} /\ Checks[c].reuse
        /\ live = unmanaged + (IF mgr \/ p = "manage" THEN 1 ELSE 0)

Becomes(s, c) ==
  /\ exporter' \in ExporterRecords /\ NotMine(s, c)
  /\ MayBecome(s, c, exporter'.pc[s], exporter'.at[s], exporter'.results[s][c], exporter'.mu[c],
               exporter'.nc[c], exporter'.mgr[c], exporter'.live[c], exporter'.unmanaged[c])

LEMMA ScrapeKeeps ==
  ASSUME ExporterInv, NEW s \in Scrapes, NEW c \in EachCheck, c = exporter.at[s], Becomes(s, c)
  PROVE  ExporterInv'
<1> HIDE DEF EachCheck
<1>0. exporter' \in ExporterRecords
    BY DEF Becomes
<1>10. PICK p \in ScrapePcs, n, r \in Nat, m \in SUBSET Scrapes,
         nc \in BOOLEAN, mgr \in BOOLEAN, live \in Nat, unmanaged \in Nat :
         /\ exporter'.pc[s] = p /\ exporter'.at[s] = n /\ exporter'.results[s][c] = r
         /\ exporter'.mu[c] = m /\ exporter'.nc[c] = nc /\ exporter'.mgr[c] = mgr
         /\ exporter'.live[c] = live /\ exporter'.unmanaged[c] = unmanaged
         /\ MayBecome(s, c, p, n, r, m, nc, mgr, live, unmanaged)
    BY <1>0 DEF Becomes, ExporterRecords
<1>11. /\ n \in {c, c + 1}
       /\ p # "context" => n = c /\ Checks[c].kind # "unknown"
       /\ r = IF n = c \/ Checks[c].kind = "unknown" THEN exporter.results[s][c]
              ELSE exporter.results[s][c] + 1
       /\ IF p \in {"connecting", "manage"} THEN m = {s} /\ exporter.mu[c] \subseteq {s}
          ELSE m = exporter.mu[c] \ {s}
       /\ mgr => nc
       /\ p = "manage" => ~mgr /\ nc
       /\ \/ /\ nc = exporter.nc[c] /\ mgr = exporter.mgr[c] /\ live = exporter.live[c]
             /\ unmanaged = exporter.unmanaged[c] /\ p # "manage" /\ exporter.pc[s] # "manage"
          \/ /\ exporter.mu[c] = {s} /\ Checks[c].reuse
             /\ live = unmanaged + (IF mgr \/ p = "manage" THEN 1 ELSE 0)
    BY <1>10 DEF MayBecome
<1>1. exporter \in ExporterRecords /\ c \in 1 .. Len(Checks) /\ EachCheck = 1 .. Len(Checks)
      /\ Len(Checks) \in Nat
    BY ChecksAre DEF ExporterInv
<1>2. /\ exporter'.pc[s] = p /\ exporter'.at[s] = n /\ exporter'.results[s][c] = r
      /\ \A d \in EachCheck \ {c} : exporter'.results[s][d] = exporter.results[s][d]
      /\ \A t \in Scrapes \ {s} :
           /\ exporter'.pc[t] = exporter.pc[t] /\ exporter'.at[t] = exporter.at[t]
           /\ exporter'.results[t] = exporter.results[t]
    BY <1>10 DEF NotMine, Becomes
<1>3. /\ exporter'.mu[c] = m /\ exporter'.nc[c] = nc /\ exporter'.mgr[c] = mgr
      /\ exporter'.live[c] = live /\ exporter'.unmanaged[c] = unmanaged
      /\ \A d \in EachCheck \ {c} :
           /\ exporter'.mu[d] = exporter.mu[d] /\ exporter'.nc[d] = exporter.nc[d]
           /\ exporter'.mgr[d] = exporter.mgr[d] /\ exporter'.live[d] = exporter.live[d]
           /\ exporter'.unmanaged[d] = exporter.unmanaged[d]
    BY <1>10 DEF NotMine, Becomes
<1>4. ScrapesInOrder'
  <2> SUFFICES ASSUME NEW t \in Scrapes
               PROVE  /\ exporter'.pc[t] # "context" =>
                           exporter'.at[t] \in EachCheck /\ Checks[exporter'.at[t]].kind # "unknown"
                      /\ \A d \in EachCheck :
                           exporter'.results[t][d] =
                             IF d < exporter'.at[t] /\ Checks[d].kind # "unknown" THEN 1 ELSE 0
      BY DEF ScrapesInOrder, EachCheck
  <2>1. CASE t = s
    <3>1. ASSUME NEW d \in EachCheck, d # c
          PROVE  exporter'.results[t][d] =
                             IF d < exporter'.at[t] /\ Checks[d].kind # "unknown" THEN 1 ELSE 0
      <4>1. d < n <=> d < c
          BY <1>1, <1>11, <3>1
      <4>2. exporter.results[s][d] = IF d < c /\ Checks[d].kind # "unknown" THEN 1 ELSE 0
          BY DEF ExporterInv, ScrapesInOrder
      <4> QED BY <1>2, <2>1, <3>1, <4>1, <4>2
    <3>2. exporter.results[s][c] = 0
        BY <1>1 DEF ExporterInv, ScrapesInOrder
    <3>3. exporter'.results[t][c] =
                             IF c < exporter'.at[t] /\ Checks[c].kind # "unknown" THEN 1 ELSE 0
        BY <1>1, <1>2, <1>11, <2>1, <3>2
    <3> QED BY <1>2, <1>11, <2>1, <3>1, <3>3
  <2>2. CASE t # s
      BY <1>2, <2>2 DEF ExporterInv, ScrapesInOrder
  <2> QED BY <2>1, <2>2
<1>5. MutexHolds'
  <2> SUFFICES ASSUME NEW d \in EachCheck
               PROVE  /\ \A t \in Scrapes : t \in exporter'.mu[d] <=> Holds(t, d)'
                      /\ \A t, u \in exporter'.mu[d] : t = u
      BY DEF MutexHolds, EachCheck
  <2>1. /\ \A t \in Scrapes : t \in exporter.mu[d] <=> Holds(t, d)
        /\ \A t, u \in exporter.mu[d] : t = u
      BY DEF ExporterInv, MutexHolds
  <2>2. \A t \in Scrapes \ {s} : Holds(t, d)' <=> Holds(t, d)
      BY <1>2 DEF Holds
  <2>3. CASE d = c
    <3>1. Holds(s, d)' <=> p \in {"connecting", "manage"}
        BY <1>1, <1>2, <1>11, <2>3 DEF Holds
    <3>2. \A t \in Scrapes : t \in exporter'.mu[d] <=> Holds(t, d)'
      <4>1. CASE p \in {"connecting", "manage"}
          BY <1>3, <1>11, <2>1, <2>2, <2>3, <3>1, <4>1
      <4>2. CASE p \notin {"connecting", "manage"}
          BY <1>3, <1>11, <2>1, <2>2, <2>3, <3>1, <4>2
      <4> QED BY <4>1, <4>2
    <3>3. \A t, u \in exporter'.mu[d] : t = u
        BY <1>3, <1>11, <2>1, <2>3
    <3> QED BY <3>2, <3>3
  <2>4. CASE d # c
    <3>1. ~Holds(s, d)
        BY <2>4 DEF Holds
    <3>2. ~Holds(s, d)'
        BY <1>1, <1>2, <1>11, <2>4 DEF Holds, ScrapePcs
    <3> QED BY <1>3, <2>1, <2>2, <2>4, <3>1, <3>2
  <2> QED BY <2>3, <2>4
<1>6. ConnectionsCounted'
  <2> SUFFICES ASSUME NEW d \in EachCheck
               PROVE  /\ exporter'.mgr[d] => exporter'.nc[d]
                      /\ \A t \in Scrapes :
                           Managing(t, d)' => ~exporter'.mgr[d] /\ exporter'.nc[d] /\
                             Checks[d].reuse
                      /\ exporter'.live[d] = exporter'.unmanaged[d]
                           + (IF exporter'.mgr[d] \/ \E t \in Scrapes : Managing(t,
                             d)' THEN 1 ELSE 0)
                      /\ ~Checks[d].reuse => exporter'.live[d] = 0 /\ ~exporter'.mgr[d]
      BY DEF ConnectionsCounted, EachCheck
  <2>1. /\ exporter.mgr[d] => exporter.nc[d]
        /\ \A t \in Scrapes :
             Managing(t, d) => ~exporter.mgr[d] /\ exporter.nc[d] /\ Checks[d].reuse
        /\ exporter.live[d] = exporter.unmanaged[d]
             + (IF exporter.mgr[d] \/ \E t \in Scrapes : Managing(t, d) THEN 1 ELSE 0)
        /\ ~Checks[d].reuse => exporter.live[d] = 0 /\ ~exporter.mgr[d]
      BY DEF ExporterInv, ConnectionsCounted
  <2>2. \A t \in Scrapes \ {s} : Managing(t, d)' <=> Managing(t, d)
      BY <1>2 DEF Managing
  <2>3. CASE d = c
    <3>1. Managing(s, d)' <=> p = "manage"
        BY <1>1, <1>2, <1>11, <2>3 DEF Managing
    <3>2. CASE /\ nc = exporter.nc[c] /\ mgr = exporter.mgr[c] /\ live = exporter.live[c]
               /\ unmanaged = exporter.unmanaged[c] /\ p # "manage" /\ exporter.pc[s] # "manage"
      <4>1. ~Managing(s, d) /\ ~Managing(s, d)'
          BY <3>1, <3>2 DEF Managing
      <4>2. (\E t \in Scrapes : Managing(t, d)') <=> (\E t \in Scrapes : Managing(t, d))
          BY <2>2, <4>1
      <4> QED BY <1>3, <1>11, <2>1, <2>2, <2>3, <3>2, <4>1, <4>2
    <3>3. CASE /\ exporter.mu[c] = {s} /\ Checks[c].reuse
               /\ live = unmanaged + (IF mgr \/ p = "manage" THEN 1 ELSE 0)
      <4>1. \A t \in Scrapes \ {s} : ~Holds(t, d)
          BY <2>3, <3>3 DEF ExporterInv, MutexHolds
      <4>2. \A t \in Scrapes \ {s} : ~Managing(t, d)
          BY <4>1 DEF Holds, Managing
      <4>3. (\E t \in Scrapes : Managing(t, d)') <=> p = "manage"
          BY <2>2, <3>1, <4>2
      <4> QED BY <1>3, <1>11, <2>2, <2>3, <3>1, <3>3, <4>2, <4>3
    <3> QED BY <1>11, <3>2, <3>3
  <2>4. CASE d # c
    <3>1. ~Managing(s, d)
        BY <2>4 DEF Managing
    <3>2. ~Managing(s, d)'
        BY <1>1, <1>2, <1>11, <2>4 DEF Managing, ScrapePcs
    <3>3. (\E t \in Scrapes : Managing(t, d)') <=> (\E t \in Scrapes : Managing(t, d))
        BY <2>2, <3>1, <3>2
    <3> QED BY <1>3, <2>1, <2>2, <2>4, <3>1, <3>2, <3>3
  <2> QED BY <2>3, <2>4
<1> QED BY <1>0, <1>4, <1>5, <1>6 DEF ExporterInv

(* What Collects makes of a state.                                          *)
Collected(g, e, s, c) ==
  /\ g \in ExporterRecords
  /\ g.main = e.main /\ g.mu = e.mu /\ g.nc = e.nc /\ g.mgr = e.mgr
  /\ g.live = e.live /\ g.unmanaged = e.unmanaged /\ g.fails = e.fails
  /\ g.pc[s] = "context" /\ g.at[s] = c + 1 /\ g.results[s][c] = e.results[s][c] + 1
  /\ \A d \in EachCheck \ {c} : g.results[s][d] = e.results[s][d]
  /\ \A t \in Scrapes \ {s} :
       g.pc[t] = e.pc[t] /\ g.at[t] = e.at[t] /\ g.results[t] = e.results[t]

LEMMA CollectsIs ==
  ASSUME NEW e \in ExporterRecords, NEW s \in Scrapes, NEW c \in EachCheck, c = e.at[s],
         NEW failing \in BOOLEAN
  PROVE  Collected(Collects(s, e, failing), e, s, c)
<1> DEFINE g == Collects(s, e, failing)
<1> HIDE DEF EachCheck
<1>1. c \in 1 .. Len(Checks) /\ c + 1 \in 1 .. Len(Checks) + 1
    BY ChecksAre
<1>2. PICK n \in Nat, k \in 1 .. Len(Checks) + 1, bad \in SUBSET EachCheck :
        /\ n = e.results[s][c] + 1 /\ k = c + 1
        /\ bad = IF failing THEN e.critical[s] \cup {c} ELSE e.critical[s]
  <2>1. e.results[s][c] \in Nat /\ e.critical[s] \in SUBSET EachCheck
      BY DEF ExporterRecords
  <2>2. e.results[s][c] + 1 \in Nat
      BY <2>1
  <2>3. (IF failing THEN e.critical[s] \cup {c} ELSE e.critical[s]) \in SUBSET EachCheck
      BY <2>1
  <2> QED BY <1>1, <2>2, <2>3
<1>3. g = [e EXCEPT !.pc[s] = "context", !.at[s] = k, !.results[s][c] = n, !.critical[s] = bad]
    BY <1>2 DEF Collects, ExporterRecords
<1> HIDE DEF g
<1>4. /\ [e.pc EXCEPT ![s] = "context"] \in [Scrapes -> ScrapePcs]
      /\ [e.at EXCEPT ![s] = k] \in [Scrapes -> 1 .. Len(Checks) + 1]
      /\ [e.results EXCEPT ![s][c] = n] \in [Scrapes -> [EachCheck -> Nat]]
      /\ [e.critical EXCEPT ![s] = bad] \in [Scrapes -> SUBSET EachCheck]
    BY DEF ExporterRecords, ScrapePcs
<1>5. PICK pcs \in [Scrapes -> ScrapePcs], at \in [Scrapes -> 1 .. Len(Checks) + 1],
           results \in [Scrapes -> [EachCheck -> Nat]], critical \in [Scrapes -> SUBSET EachCheck] :
        /\ pcs = [e.pc EXCEPT ![s] = "context"] /\ at = [e.at EXCEPT ![s] = k]
        /\ results = [e.results EXCEPT ![s][c] = n] /\ critical = [e.critical EXCEPT ![s] = bad]
    BY <1>4
<1>6. g = [e EXCEPT !.pc = pcs, !.at = at, !.results = results, !.critical = critical]
    BY <1>3, <1>5 DEF ExporterRecords
<1>7. g \in ExporterRecords
    BY <1>6 DEF ExporterRecords
<1>8. /\ g.main = e.main /\ g.mu = e.mu /\ g.nc = e.nc /\ g.mgr = e.mgr
      /\ g.live = e.live /\ g.unmanaged = e.unmanaged /\ g.fails = e.fails
      /\ g.pc = pcs /\ g.at = at /\ g.results = results
    BY <1>6 DEF ExporterRecords
<1>9. /\ pcs[s] = "context" /\ at[s] = c + 1 /\ results[s][c] = e.results[s][c] + 1
      /\ \A d \in EachCheck \ {c} : results[s][d] = e.results[s][d]
      /\ \A t \in Scrapes \ {s} :
           pcs[t] = e.pc[t] /\ at[t] = e.at[t] /\ results[t] = e.results[t]
    BY <1>2, <1>5 DEF ExporterRecords
<1>10. Collected(g, e, s, c)
    BY <1>7, <1>8, <1>9 DEF Collected
<1> QED BY <1>10 DEF g

LEMMA ExporterMoves ==
  ASSUME ExporterInv, NEW s \in Scrapes, Scraping(s)
  PROVE  ExporterInv'
<1> HIDE DEF EachCheck
<1>0. exporter \in ExporterRecords /\ exporter.at[s] \in EachCheck
    BY DEF ExporterInv, Scraping, LoadsContext, LocksCheck, Reuses, Connects, Manages, Examines,
           InScrape
<1>1. PICK c \in EachCheck : c = exporter.at[s]
    BY <1>0
<1>2. /\ c \in 1 .. Len(Checks) /\ c # c + 1 /\ c + 1 \in 1 .. Len(Checks) + 1
      /\ exporter.results[s][c] \in Nat /\ exporter.mu[c] \in SUBSET Scrapes
      /\ exporter.nc[c] \in BOOLEAN /\ exporter.mgr[c] \in BOOLEAN
      /\ exporter.live[c] \in Nat /\ exporter.unmanaged[c] \in Nat /\ exporter.fails \in Nat
  <2>1. c \in 1 .. Len(Checks) /\ Len(Checks) \in Nat
      BY <1>1, ChecksAre
  <2>2. c # c + 1 /\ c + 1 \in 1 .. Len(Checks) + 1
      BY <2>1
  <2> QED BY <1>0, <1>1, <2>1, <2>2 DEF ExporterRecords
<1>3. /\ exporter.pc[s] # "context" => Checks[c].kind # "unknown"
      /\ \A t \in Scrapes : t \in exporter.mu[c] <=> Holds(t, c)
      /\ \A t, u \in exporter.mu[c] : t = u
      /\ exporter.mgr[c] => exporter.nc[c]
      /\ Managing(s, c) => ~exporter.mgr[c] /\ exporter.nc[c] /\ Checks[c].reuse
      /\ exporter.live[c] = exporter.unmanaged[c]
           + (IF exporter.mgr[c] \/ \E t \in Scrapes : Managing(t, c) THEN 1 ELSE 0)
    BY <1>1 DEF ExporterInv, ScrapesInOrder, MutexHolds, ConnectionsCounted
<1>4. /\ exporter.pc[s] \notin {"connecting", "manage"} => exporter.mu[c] = exporter.mu[c] \ {s}
      /\ exporter.pc[s] \in {"connecting", "manage"} => exporter.mu[c] = {s}
    BY <1>1, <1>3 DEF Holds
(* The end of the check, when nothing is held.                              *)
<1>5. ASSUME NEW failing \in BOOLEAN, exporter' = Collects(s, exporter, failing),
             exporter.pc[s] \notin {"connecting", "manage"}, Checks[c].kind # "unknown"
      PROVE  Becomes(s, c)
  <2>1. Collected(exporter', exporter, s, c)
      BY <1>0, <1>1, <1>5, CollectsIs
  <2>2. exporter' \in ExporterRecords /\ NotMine(s, c)
      BY <2>1 DEF Collected, NotMine
  <2>3. /\ exporter'.mu = exporter.mu /\ exporter'.nc = exporter.nc /\ exporter'.mgr = exporter.mgr
        /\ exporter'.live = exporter.live /\ exporter'.unmanaged = exporter.unmanaged
        /\ exporter'.pc[s] = "context" /\ exporter'.at[s] = c + 1
        /\ exporter'.results[s][c] = exporter.results[s][c] + 1
      BY <2>1 DEF Collected
  <2> QED BY <1>2, <1>3, <1>4, <1>5, <2>2, <2>3 DEF Becomes, MayBecome
(* A step that changes nothing else.                                        *)
<1>6. ASSUME NEW p \in {"connect", "check"}, exporter' = [exporter EXCEPT !.pc[s] = p],
             exporter.pc[s] = "context", Checks[c].kind # "unknown"
      PROVE  Becomes(s, c)
  <2>1. PICK pcs \in [Scrapes -> ScrapePcs] : pcs = [exporter.pc EXCEPT ![s] = p]
      BY <1>0, <1>6 DEF ExporterRecords, ScrapePcs
  <2>2. exporter' = [exporter EXCEPT !.pc = pcs]
      BY <1>0, <1>6, <2>1 DEF ExporterRecords
  <2>3. /\ exporter' \in ExporterRecords
        /\ exporter'.mu = exporter.mu /\ exporter'.nc = exporter.nc /\ exporter'.mgr = exporter.mgr
        /\ exporter'.live = exporter.live /\ exporter'.unmanaged = exporter.unmanaged
        /\ exporter'.pc = pcs /\ exporter'.at = exporter.at /\ exporter'.results = exporter.results
      BY <1>0, <2>2 DEF ExporterRecords
  <2>4. NotMine(s, c) /\ exporter'.pc[s] = p
      BY <1>0, <2>1, <2>3 DEF NotMine, ExporterRecords
  <2> QED BY <1>1, <1>2, <1>3, <1>4, <1>6, <2>3, <2>4 DEF Becomes, MayBecome
(* A check that ends without a connection or a manager gives up the mutex.  *)
<1>7. ASSUME NEW e \in ExporterRecords, exporter' = Unlocked(Collects(s, e, TRUE), c),
             e.pc = exporter.pc, e.at = exporter.at, e.results = exporter.results,
             \A d \in EachCheck \ {c} :
               /\ e.mu[d] = exporter.mu[d] /\ e.nc[d] = exporter.nc[d]
               /\ e.mgr[d] = exporter.mgr[d] /\ e.live[d] = exporter.live[d]
               /\ e.unmanaged[d] = exporter.unmanaged[d],
             ~e.mgr[c], e.live[c] = e.unmanaged[c], exporter.pc[s] \in {"connecting", "manage"},
             Checks[c].reuse
      PROVE  Becomes(s, c)
  <2> DEFINE g == Collects(s, e, TRUE)
  <2>1. Collected(g, e, s, c) /\ exporter' = [g EXCEPT !.mu[c] = {}]
      BY <1>1, <1>7, CollectsIs DEF Unlocked
  <2> HIDE DEF g
  <2> HIDE DEF Unlocked
  <2>2. /\ g \in ExporterRecords
        /\ g.mu = e.mu /\ g.nc = e.nc /\ g.mgr = e.mgr
        /\ g.live = e.live /\ g.unmanaged = e.unmanaged
        /\ g.pc[s] = "context" /\ g.at[s] = c + 1 /\ g.results[s][c] = e.results[s][c] + 1
        /\ \A d \in EachCheck \ {c} : g.results[s][d] = e.results[s][d]
        /\ \A t \in Scrapes \ {s} :
             g.pc[t] = e.pc[t] /\ g.at[t] = e.at[t] /\ g.results[t] = e.results[t]
      BY <2>1 DEF Collected
  <2>3. PICK mu \in [EachCheck -> SUBSET Scrapes] : mu = [g.mu EXCEPT ![c] = {}]
      BY <2>2 DEF ExporterRecords
  <2>4. exporter' = [g EXCEPT !.mu = mu]
      BY <2>1, <2>2, <2>3 DEF ExporterRecords
  <2>5. /\ exporter' \in ExporterRecords /\ exporter'.mu = mu
        /\ exporter'.nc = g.nc /\ exporter'.mgr = g.mgr /\ exporter'.live = g.live
        /\ exporter'.unmanaged = g.unmanaged /\ exporter'.pc = g.pc /\ exporter'.at = g.at
        /\ exporter'.results = g.results
      BY <2>2, <2>4 DEF ExporterRecords
  <2>6. mu[c] = {} /\ \A d \in EachCheck \ {c} : mu[d] = g.mu[d]
      BY <2>2, <2>3 DEF ExporterRecords
  <2>7. NotMine(s, c)
    <3>1. \A d \in EachCheck \ {c} : exporter'.results[s][d] = exporter.results[s][d]
      <4> TAKE d \in EachCheck \ {c}
      <4>1. exporter'.results = g.results
          BY <2>5
      <4>2. g.results[s][d] = e.results[s][d]
          BY <2>2
      <4>3. e.results = exporter.results
          BY <1>7
      <4> QED BY <4>1, <4>2, <4>3
    <3>2. \A t \in Scrapes \ {s} :
            /\ exporter'.pc[t] = exporter.pc[t] /\ exporter'.at[t] = exporter.at[t]
            /\ exporter'.results[t] = exporter.results[t]
      <4> TAKE t \in Scrapes \ {s}
      <4>1. exporter'.pc = g.pc /\ exporter'.at = g.at /\ exporter'.results = g.results
          BY <2>5
      <4>2. g.pc[t] = e.pc[t] /\ g.at[t] = e.at[t] /\ g.results[t] = e.results[t]
          BY <2>2
      <4>3. e.pc = exporter.pc /\ e.at = exporter.at /\ e.results = exporter.results
          BY <1>7
      <4> QED BY <4>1, <4>2, <4>3
    <3>3. \A d \in EachCheck \ {c} :
            /\ exporter'.mu[d] = exporter.mu[d] /\ exporter'.nc[d] = exporter.nc[d]
            /\ exporter'.mgr[d] = exporter.mgr[d] /\ exporter'.live[d] = exporter.live[d]
            /\ exporter'.unmanaged[d] = exporter.unmanaged[d]
      <4> TAKE d \in EachCheck \ {c}
      <4>1. /\ exporter'.mu = mu /\ exporter'.nc = g.nc /\ exporter'.mgr = g.mgr
            /\ exporter'.live = g.live /\ exporter'.unmanaged = g.unmanaged
          BY <2>5
      <4>2. /\ g.mu = e.mu /\ g.nc = e.nc /\ g.mgr = e.mgr /\ mu[d] = g.mu[d]
            /\ g.live = e.live /\ g.unmanaged = e.unmanaged
          BY <2>2, <2>6
      <4>3. /\ e.mu[d] = exporter.mu[d] /\ e.nc[d] = exporter.nc[d]
            /\ e.mgr[d] = exporter.mgr[d] /\ e.live[d] = exporter.live[d]
            /\ e.unmanaged[d] = exporter.unmanaged[d]
          BY <1>7
      <4> QED BY <4>1, <4>2, <4>3
    <3> QED BY <3>1, <3>2, <3>3 DEF NotMine
  <2>8. /\ exporter'.mu[c] = {} /\ ~exporter'.mgr[c]
        /\ exporter'.live[c] = exporter'.unmanaged[c] /\ exporter'.unmanaged[c] \in Nat
        /\ exporter'.pc[s] = "context" /\ exporter'.at[s] = c + 1
        /\ exporter'.results[s][c] = exporter.results[s][c] + 1
    <3>1. e.unmanaged[c] \in Nat
        BY <1>7 DEF ExporterRecords
    <3>2. exporter'.mu[c] = {} /\ ~exporter'.mgr[c]
        BY <1>7, <2>2, <2>5, <2>6
    <3>3. exporter'.live[c] = e.live[c] /\ exporter'.unmanaged[c] = e.unmanaged[c]
        BY <2>2, <2>5
    <3>4. /\ exporter'.pc[s] = "context" /\ exporter'.at[s] = c + 1
          /\ exporter'.results[s][c] = exporter.results[s][c] + 1
        BY <1>7, <2>2, <2>5
    <3> QED BY <1>7, <3>1, <3>2, <3>3, <3>4
  <2>9. /\ exporter.mu[c] = {s} /\ {} = exporter.mu[c] \ {s} /\ Checks[c].kind # "unknown"
      BY <1>3, <1>4, <1>7
  <2>10. Checks[c].reuse /\ c + 1 \in {c, c + 1} /\ exporter.mu[c] = {s}
      BY <1>7, <2>9
  <2>11. exporter' \in ExporterRecords
      BY <2>5
  <2> QED BY <1>2, <2>7, <2>8, <2>9, <2>10, <2>11 DEF Becomes, MayBecome
<1>8. CASE LoadsContext(s)
  <2>1. exporter.pc[s] = "context"
      BY <1>8 DEF LoadsContext, InScrape
  <2>2. CASE Checks[c].kind = "unknown"
    <3>1. exporter' = [exporter EXCEPT !.at[s] = c + 1]
        BY <1>0, <1>1, <1>8, <2>2 DEF LoadsContext, ExporterRecords
    <3>2. PICK at \in [Scrapes -> 1 .. Len(Checks) + 1] : at = [exporter.at EXCEPT ![s] = c + 1]
        BY <1>0, <1>2 DEF ExporterRecords
    <3>3. exporter' = [exporter EXCEPT !.at = at]
        BY <1>0, <3>1, <3>2 DEF ExporterRecords
    <3>4. /\ exporter' \in ExporterRecords
          /\ exporter'.mu = exporter.mu /\ exporter'.nc = exporter.nc /\
               exporter'.mgr = exporter.mgr
          /\ exporter'.live = exporter.live /\ exporter'.unmanaged = exporter.unmanaged
          /\ exporter'.pc = exporter.pc /\ exporter'.at = at
          /\ exporter'.results = exporter.results
        BY <1>0, <3>3 DEF ExporterRecords
    <3>5. NotMine(s, c) /\ exporter'.at[s] = c + 1
        BY <1>0, <3>2, <3>4 DEF NotMine, ExporterRecords
    <3>6. Becomes(s, c)
        BY <1>2, <1>3, <1>4, <2>1, <2>2, <3>4, <3>5 DEF Becomes, MayBecome
    <3> QED BY <1>1, <3>6, ScrapeKeeps
  <2>3. CASE Checks[c].kind # "unknown" /\ exporter' = Collects(s, exporter, TRUE)
    <3>1. Becomes(s, c)
        BY <1>5, <2>1, <2>3
    <3> QED BY <1>1, <3>1, ScrapeKeeps
  <2>4. CASE /\ Checks[c].kind # "unknown"
             /\ exporter' = Goes(s, IF Checks[c].kind = "connecting" THEN "connect" ELSE "check")
    <3>1. PICK p \in {"connect", "check"} : exporter' = [exporter EXCEPT !.pc[s] = p]
        BY <2>4 DEF Goes
    <3>2. Becomes(s, c)
        BY <1>6, <2>1, <2>4, <3>1
    <3> QED BY <1>1, <3>2, ScrapeKeeps
  <2> QED BY <1>1, <1>8, <2>2, <2>3, <2>4 DEF LoadsContext
<1>9. CASE Examines(s)
  <2>1. exporter.pc[s] = "check" /\ \E failing \in BOOLEAN : exporter' = Collects(s, exporter,
          failing)
      BY <1>9 DEF Examines, InScrape
  <2>2. Becomes(s, c)
      BY <1>3, <1>5, <2>1
  <2> QED BY <1>1, <2>2, ScrapeKeeps
<1>10. CASE LocksCheck(s)
  <2>1. exporter.pc[s] = "connect" /\ exporter.mu[c] = {}
      BY <1>1, <1>10 DEF LocksCheck, InScrape
  <2>2. PICK pcs \in [Scrapes -> ScrapePcs], mu \in [EachCheck -> SUBSET Scrapes] :
          pcs = [exporter.pc EXCEPT ![s] = "connecting"] /\ mu = [exporter.mu EXCEPT ![c] = {s}]
      BY <1>0 DEF ExporterRecords, ScrapePcs
  <2>3. exporter' = [exporter EXCEPT !.pc = pcs, !.mu = mu]
      BY <1>0, <1>1, <1>10, <2>2 DEF LocksCheck, Goes, ExporterRecords
  <2>4. /\ exporter' \in ExporterRecords
        /\ exporter'.mu = mu /\ exporter'.nc = exporter.nc /\ exporter'.mgr = exporter.mgr
        /\ exporter'.live = exporter.live /\ exporter'.unmanaged = exporter.unmanaged
        /\ exporter'.pc = pcs /\ exporter'.at = exporter.at
        /\ exporter'.results = exporter.results
      BY <1>0, <2>3 DEF ExporterRecords
  <2>5. NotMine(s, c) /\ exporter'.pc[s] = "connecting" /\ exporter'.mu[c] = {s}
      BY <1>0, <2>2, <2>4 DEF NotMine, ExporterRecords
  <2>6. Becomes(s, c)
      BY <1>1, <1>2, <1>3, <1>4, <2>1, <2>4, <2>5 DEF Becomes, MayBecome
  <2> QED BY <1>1, <2>6, ScrapeKeeps
<1>11. CASE Reuses(s)
  <2>1. exporter.pc[s] = "connecting"
      BY <1>11 DEF Reuses, InScrape
  <2>2. PICK pcs \in [Scrapes -> ScrapePcs], mu \in [EachCheck -> SUBSET Scrapes] :
          pcs = [exporter.pc EXCEPT ![s] = "check"] /\ mu = [exporter.mu EXCEPT ![c] = {}]
      BY <1>0 DEF ExporterRecords, ScrapePcs
  <2>3. exporter' = [exporter EXCEPT !.pc = pcs, !.mu = mu]
      BY <1>0, <1>1, <1>11, <2>2 DEF Reuses, Goes, Unlocked, ExporterRecords
  <2>4. /\ exporter' \in ExporterRecords
        /\ exporter'.mu = mu /\ exporter'.nc = exporter.nc /\ exporter'.mgr = exporter.mgr
        /\ exporter'.live = exporter.live /\ exporter'.unmanaged = exporter.unmanaged
        /\ exporter'.pc = pcs /\ exporter'.at = exporter.at
        /\ exporter'.results = exporter.results
      BY <1>0, <2>3 DEF ExporterRecords
  <2>5. NotMine(s, c) /\ exporter'.pc[s] = "check" /\ exporter'.mu[c] = {}
      BY <1>0, <2>2, <2>4 DEF NotMine, ExporterRecords
  <2>6. Becomes(s, c)
    <3>1. {} = exporter.mu[c] \ {s} /\ exporter.pc[s] # "manage" /\ Checks[c].kind # "unknown"
        BY <1>3, <1>4, <2>1
    <3> QED BY <1>1, <1>2, <1>3, <2>4, <2>5, <3>1 DEF Becomes, MayBecome
  <2> QED BY <1>1, <2>6, ScrapeKeeps
<1>12. CASE Connects(s)
  <2>1. /\ exporter.pc[s] = "connecting" /\ Checks[c].reuse /\ ~exporter.mgr[c]
        /\ exporter.mu[c] = {s} /\ exporter.live[c] = exporter.unmanaged[c]
        /\ Checks[c].kind # "unknown"
    <3>1. exporter.pc[s] = "connecting" /\ Checks[c].reuse /\ ~exporter.mgr[c]
        BY <1>1, <1>3, <1>12 DEF Connects, InScrape
    <3>2. \A t \in Scrapes : ~Managing(t, c)
        BY <1>3, <1>4, <3>1 DEF Managing, Holds
    <3> QED BY <1>2, <1>3, <1>4, <3>1, <3>2
  <2>2. CASE exporter' = [Goes(s, "manage") EXCEPT !.nc[c] = TRUE, !.live[c] = @ + 1]
    <3>1. PICK n \in Nat : n = exporter.live[c] + 1
        BY <1>2
    <3>2. PICK pcs \in [Scrapes -> ScrapePcs], nc \in [EachCheck -> BOOLEAN],
               live \in [EachCheck -> Nat] :
            /\ pcs = [exporter.pc EXCEPT ![s] = "manage"] /\ nc = [exporter.nc EXCEPT ![c] = TRUE]
            /\ live = [exporter.live EXCEPT ![c] = n]
        BY <1>0 DEF ExporterRecords, ScrapePcs
    <3>3. exporter' = [exporter EXCEPT !.pc = pcs, !.nc = nc, !.live = live]
        BY <1>0, <2>2, <3>1, <3>2 DEF Goes, ExporterRecords
    <3>4. /\ exporter' \in ExporterRecords
          /\ exporter'.mu = exporter.mu /\ exporter'.nc = nc /\ exporter'.mgr = exporter.mgr
          /\ exporter'.live = live /\ exporter'.unmanaged = exporter.unmanaged
          /\ exporter'.pc = pcs /\ exporter'.at = exporter.at
          /\ exporter'.results = exporter.results
        BY <1>0, <3>3 DEF ExporterRecords
    <3>5. /\ NotMine(s, c) /\ exporter'.pc[s] = "manage" /\ exporter'.nc[c]
          /\ exporter'.live[c] = exporter.unmanaged[c] + 1
        BY <1>0, <2>1, <3>1, <3>2, <3>4 DEF NotMine, ExporterRecords
    <3>6. Becomes(s, c)
        BY <1>1, <1>2, <2>1, <3>4, <3>5 DEF Becomes, MayBecome
    <3> QED BY <1>1, <3>6, ScrapeKeeps
  <2>3. CASE exporter' = Unlocked(Collects(s, [exporter EXCEPT !.nc[c] = FALSE, !.fails = @ + 1],
                                           TRUE), c)
    <3> DEFINE e == [exporter EXCEPT !.nc[c] = FALSE, !.fails = @ + 1]
    <3>1. PICK nc \in [EachCheck -> BOOLEAN], n \in Nat :
            nc = [exporter.nc EXCEPT ![c] = FALSE] /\ n = exporter.fails + 1
      <4>1. exporter.fails + 1 \in Nat
          BY <1>2
      <4>2. [exporter.nc EXCEPT ![c] = FALSE] \in [EachCheck -> BOOLEAN]
          BY <1>0 DEF ExporterRecords
      <4> QED BY <4>1, <4>2
    <3>2. e = [exporter EXCEPT !.nc = nc, !.fails = n]
        BY <1>0, <3>1 DEF ExporterRecords
    <3>3. exporter' = Unlocked(Collects(s, e, TRUE), c)
        BY <2>3
    <3> HIDE DEF e
    <3>4. /\ e \in ExporterRecords
          /\ e.mu = exporter.mu /\ e.nc = nc /\ e.mgr = exporter.mgr
          /\ e.live = exporter.live /\ e.unmanaged = exporter.unmanaged
          /\ e.pc = exporter.pc /\ e.at = exporter.at /\ e.results = exporter.results
        BY <1>0, <3>2 DEF ExporterRecords
    <3>5. \A d \in EachCheck \ {c} : nc[d] = exporter.nc[d]
        BY <1>0, <3>1 DEF ExporterRecords
    <3>6. Becomes(s, c)
        BY <1>7, <2>1, <3>3, <3>4, <3>5
    <3> QED BY <1>1, <3>6, ScrapeKeeps
  <2> QED BY <1>1, <1>12, <2>2, <2>3 DEF Connects
<1>13. CASE Manages(s)
  <2>1. /\ exporter.pc[s] = "manage" /\ Checks[c].reuse /\ ~exporter.mgr[c] /\ exporter.nc[c]
        /\ exporter.mu[c] = {s} /\ exporter.live[c] = exporter.unmanaged[c] + 1
        /\ Checks[c].kind # "unknown"
    <3>1. exporter.pc[s] = "manage"
        BY <1>13 DEF Manages, InScrape
    <3>2. Managing(s, c)
        BY <1>1, <3>1 DEF Managing
    <3> QED BY <1>2, <1>3, <1>4, <3>1, <3>2
  <2>2. CASE exporter' = Unlocked([Goes(s, "check") EXCEPT !.mgr[c] = TRUE], c)
    <3>1. PICK pcs \in [Scrapes -> ScrapePcs], mgr \in [EachCheck -> BOOLEAN],
               mu \in [EachCheck -> SUBSET Scrapes] :
            /\ pcs = [exporter.pc EXCEPT ![s] = "check"] /\ mgr = [exporter.mgr EXCEPT ![c] = TRUE]
            /\ mu = [exporter.mu EXCEPT ![c] = {}]
        BY <1>0 DEF ExporterRecords, ScrapePcs
    <3>2. exporter' = [exporter EXCEPT !.pc = pcs, !.mgr = mgr, !.mu = mu]
        BY <1>0, <2>2, <3>1 DEF Goes, Unlocked, ExporterRecords
    <3>3. /\ exporter' \in ExporterRecords
          /\ exporter'.mu = mu /\ exporter'.nc = exporter.nc /\ exporter'.mgr = mgr
          /\ exporter'.live = exporter.live /\ exporter'.unmanaged = exporter.unmanaged
          /\ exporter'.pc = pcs /\ exporter'.at = exporter.at
          /\ exporter'.results = exporter.results
        BY <1>0, <3>2 DEF ExporterRecords
    <3>4. /\ NotMine(s, c) /\ exporter'.pc[s] = "check" /\ exporter'.mgr[c]
          /\ exporter'.mu[c] = {} /\ {} = exporter.mu[c] \ {s}
        BY <1>0, <2>1, <3>1, <3>3 DEF NotMine, ExporterRecords
    <3>5. Becomes(s, c)
        BY <1>1, <1>2, <2>1, <3>3, <3>4 DEF Becomes, MayBecome
    <3> QED BY <1>1, <3>5, ScrapeKeeps
  <2>3. CASE exporter' = Unlocked(Collects(s, [exporter EXCEPT !.mgr[c] = FALSE, !.fails = @ + 1,
                                                 !.unmanaged[c] = @ + 1], TRUE), c)
    <3> DEFINE e == [exporter EXCEPT !.mgr[c] = FALSE, !.fails = @ + 1, !.unmanaged[c] = @ + 1]
    <3>1. PICK n \in Nat, fails \in Nat : n = exporter.unmanaged[c] + 1 /\
                 fails = exporter.fails + 1
        BY <1>2
    <3>2. PICK mgr \in [EachCheck -> BOOLEAN], unmanaged \in [EachCheck -> Nat] :
            /\ mgr = [exporter.mgr EXCEPT ![c] = FALSE]
            /\ unmanaged = [exporter.unmanaged EXCEPT ![c] = n]
        BY <1>0 DEF ExporterRecords
    <3>3. e = [exporter EXCEPT !.mgr = mgr, !.fails = fails, !.unmanaged = unmanaged]
        BY <1>0, <3>1, <3>2 DEF ExporterRecords
    <3>4. exporter' = Unlocked(Collects(s, e, TRUE), c)
        BY <2>3
    <3> HIDE DEF e
    <3>5. /\ e \in ExporterRecords
          /\ e.mu = exporter.mu /\ e.nc = exporter.nc /\ e.mgr = mgr
          /\ e.live = exporter.live /\ e.unmanaged = unmanaged
          /\ e.pc = exporter.pc /\ e.at = exporter.at /\ e.results = exporter.results
        BY <1>0, <3>3 DEF ExporterRecords
    <3>6. /\ ~mgr[c] /\ unmanaged[c] = exporter.live[c]
          /\ \A d \in EachCheck \ {c} :
               mgr[d] = exporter.mgr[d] /\ unmanaged[d] = exporter.unmanaged[d]
        BY <1>0, <2>1, <3>1, <3>2 DEF ExporterRecords
    <3>7. Becomes(s, c)
        BY <1>7, <2>1, <3>4, <3>5, <3>6
    <3> QED BY <1>1, <3>7, ScrapeKeeps
  <2> QED BY <1>1, <1>13, <2>2, <2>3 DEF Manages
<1> QED BY <1>8, <1>9, <1>10, <1>11, <1>12, <1>13 DEF Scraping

LEMMA ExporterReads == ASSUME ExporterInv, ReadsConfig PROVE ExporterInv'
<1>1. PICK next \in {"serve", "error"} : exporter' = [exporter EXCEPT !.main = next]
    BY DEF ReadsConfig
<1>2. exporter \in ExporterRecords
    BY DEF ExporterInv
<1>3. /\ exporter' \in ExporterRecords
      /\ exporter'.mu = exporter.mu /\ exporter'.nc = exporter.nc /\ exporter'.mgr = exporter.mgr
      /\ exporter'.live = exporter.live /\ exporter'.unmanaged = exporter.unmanaged
      /\ exporter'.pc = exporter.pc /\ exporter'.at = exporter.at
      /\ exporter'.results = exporter.results
    BY <1>1, <1>2 DEF ExporterRecords
<1> QED BY <1>3 DEF ExporterInv, ScrapesInOrder, MutexHolds, ConnectionsCounted, Holds, Managing

LEMMA ExporterFine == ExporterInv => ExporterTypeOK /\ OneConnectionEach
<1> SUFFICES ASSUME ExporterInv PROVE ExporterTypeOK /\ OneConnectionEach
    OBVIOUS
<1> HIDE DEF EachCheck
<1>1. exporter \in ExporterRecords
    BY DEF ExporterInv
<1>2. ExporterTypeOK
    BY <1>1 DEF ExporterTypeOK, ExporterRecords, ScrapePcs
<1>3. \A c \in EachCheck : exporter.live[c] <= exporter.unmanaged[c] + 1
                          /\ (~Checks[c].reuse => exporter.live[c] = 0)
  <2> TAKE c \in EachCheck
  <2>1. exporter.live[c] \in Nat /\ exporter.unmanaged[c] \in Nat
      BY <1>1 DEF ExporterRecords
  <2>2. /\ exporter.live[c] = exporter.unmanaged[c] + 1 \/ exporter.live[c] = exporter.unmanaged[c]
        /\ ~Checks[c].reuse => exporter.live[c] = 0
      BY <2>1 DEF ExporterInv, ConnectionsCounted
  <2> QED BY <2>1, <2>2
<1>4. \A s \in Scrapes, c \in EachCheck :
        Scraped(s) => exporter.results[s][c] = (IF Checks[c].kind = "unknown" THEN 0 ELSE 1)
  <2> TAKE s \in Scrapes, c \in EachCheck
  <2>1. c \in 1 .. Len(Checks) /\ Len(Checks) \in Nat
      BY ChecksAre
  <2>2. Scraped(s) => c < exporter.at[s]
      BY <1>1, <2>1 DEF Scraped, ExporterRecords
  <2> QED BY <2>2 DEF ExporterInv, ScrapesInOrder
<1> QED BY <1>2, <1>3, <1>4 DEF OneConnectionEach

-----------------------------------------------------------------------------
(***************************************************************************)
(* The comparison of replicas.  Rows are about servers that replied, where *)
(* two replies differ no server is in sync, and where all replies are the  *)
(* same none is unsynced but one that is behind its own consumer.          *)
(***************************************************************************)

CheckFields ==
  check = [kind |-> check.kind, unsynced |-> check.unsynced, group |-> check.group,
           main |-> check.main, replicas |-> check.replicas, replies |-> check.replies,
           rows |-> check.rows]

(* What the rows of a report say is so.                                     *)
RowsAreTrue(rows) ==
  /\ \A row \in rows : row.peer \in Replied
  /\ \A p, q \in Replied :
       ~Alike(p, q) =>
         (\A row \in rows : row.peer = p => row.status # "IN_SYNC") /\
           \E row \in rows : row.peer = p
  /\ (\A p, q \in Replied : check.replies[p] = check.replies[q]) =>
       \A row \in rows : row.status \notin {"UNSYNCED", "MULTILEADER"}
                         \/ check.replies[row.peer].last < check.replies[row.peer].delivered

CheckInv ==
  /\ CheckFields /\ check.kind \in {"stream", "consumer"}
  /\ check.main \in {"connect", "gather", "compare", "done", "error", "panic"}
  /\ check.replicas \in [Peers -> ReplicaStates(check.kind)]
  /\ Replied \subseteq Peers /\ \A p \in Replied : check.replies[p] \in ReplicaStates(check.kind)
  /\ check.main # "done" => check.rows = {}
  /\ check.main = "done" => RowsAreTrue(check.rows)

LEMMA CheckStartsWell == ASSUME check \in CheckStarts PROVE CheckInv
<1>0. PICK k \in {"stream", "consumer"} :
        \E u \in BOOLEAN, g \in {"none", "unnamed", "named"},
           r \in [Peers -> {s \in ReplicaStates(k) : s.last = 1 /\ s.delivered = 0}] :
          check = [kind |-> k, unsynced |-> u, group |-> g, main |-> "connect", replicas |-> r,
                   replies |-> <<>>, rows |-> {}]
    BY DEF CheckStarts
<1>1. PICK u \in BOOLEAN, g \in {"none", "unnamed", "named"},
           r \in [Peers -> {s \in ReplicaStates(k) : s.last = 1 /\ s.delivered = 0}] :
        check = [kind |-> k, unsynced |-> u, group |-> g, main |-> "connect", replicas |-> r,
                 replies |-> <<>>, rows |-> {}]
    BY <1>0
<1>2. r \in [Peers -> ReplicaStates(k)]
    OBVIOUS
<1>3. DOMAIN <<>> = {}
    OBVIOUS
<1>4. CheckFields /\ check.replies = <<>> /\ check.replicas = r /\ check.kind = k /\ check.rows = {}
      /\ check.main = "connect"
    BY <1>1 DEF CheckFields
<1> QED BY <1>2, <1>3, <1>4 DEF CheckInv, Replied

(* Two replicas that are not alike differ in what is compared.              *)
LEMMA DifferenceShows ==
  ASSUME CheckInv, check.kind = "stream", NEW p \in Replied, NEW q \in Replied, ~Alike(p, q)
  PROVE  Unequal(check.replies[p], check.replies[q])
<1> DEFINE a == check.replies[p]
           b == check.replies[q]
<1>1. a.last \in Nat /\ b.last \in Nat /\ a.lost \in Nat /\ b.lost \in Nat
    BY ReplicaAssumption DEF CheckInv, ReplicaStates, Position
<1>2. CASE a.last # b.last
    BY <1>2 DEF Unequal, LastSeq
<1>3. CASE a.last = b.last
  <2>1. ~(Lacks(a) <=> Lacks(b))
      BY <1>3 DEF Alike
  <2> DEFINE T == (a.last * (a.last + 1)) \div 2
  <2>2. T = (b.last * (b.last + 1)) \div 2
      BY <1>3
  <2>3. T \in Int
      BY <1>1
  <2> HIDE DEF T
  <2>4. Bytes(a) = T - (IF Lacks(a) THEN a.lost ELSE 0)
        /\ Bytes(b) = T - (IF Lacks(b) THEN b.lost ELSE 0)
    <3>1. Bytes(a) = T - (IF Lacks(a) THEN a.lost ELSE 0)
        BY DEF T, Bytes
    <3>2. Bytes(b) = T - (IF Lacks(b) THEN b.lost ELSE 0)
        BY <2>2 DEF Bytes
    <3> QED BY <3>1, <3>2
  <2> HIDE DEF a, b
  <2>5. Bytes(b) # Bytes(a) /\ Msgs(b) # Msgs(a)
    <3>1. Lacks(a) => a.lost > 0
        BY <1>1 DEF Lacks
    <3>2. Lacks(b) => b.lost > 0
        BY <1>1 DEF Lacks
    <3>3. CASE Lacks(a)
        BY <1>1, <1>3, <2>1, <2>3, <2>4, <3>1, <3>3 DEF Msgs
    <3>4. CASE ~Lacks(a)
        BY <1>1, <1>3, <2>1, <2>3, <2>4, <3>2, <3>4 DEF Msgs
    <3> QED BY <3>3, <3>4
  <2> QED BY <2>5 DEF Unequal, a, b
<1> QED BY <1>2, <1>3

(* What the check of a stream shows.                                        *)
LEMMA StreamChecked ==
  ASSUME CheckInv, check.kind = "stream", NEW rows \in StreamRows PROVE RowsAreTrue(rows)
<1> DEFINE shown == {p \in Replied : Shown(check.replies[p])}
           Row(p, s) == [peer |-> p, status |-> StreamStatus(p, check.replies[p], s)]
<1>1. PICK f \in [shown -> {"IN_SYNC", "UNSYNCED", "MULTILEADER"}] :
        /\ \A p \in shown : f[p] \in StreamStatuses(check.replies[p])
        /\ rows = {Row(p, f[p]) : p \in shown}
    BY DEF StreamRows
<1>2. \A p \in shown : Row(p, f[p]) \in rows /\ Row(p, f[p]).peer = p
                       /\ Row(p, f[p]).status = StreamStatus(p, check.replies[p], f[p])
    BY <1>1
<1>3. \A row \in rows : row.peer \in shown /\ row.status = StreamStatus(row.peer,
        check.replies[row.peer], f[row.peer])
    BY <1>1
<1> HIDE DEF Row
<1>4. ASSUME NEW p \in Replied, NEW q \in Replied, ~Alike(p, q)
      PROVE  (\A row \in rows : row.peer = p => row.status # "IN_SYNC") /\
               \E row \in rows : row.peer = p
  <2>1. Unequal(check.replies[p], check.replies[q])
      BY <1>4, DifferenceShows
  <2>2. "IN_SYNC" \notin StreamStatuses(check.replies[p])
      BY <2>1 DEF StreamStatuses
  <2>3. p \in shown
      BY <2>2 DEF Shown, Faulty
  <2>4. f[p] # "IN_SYNC"
      BY <1>1, <2>2, <2>3
  <2>5. StreamStatus(p, check.replies[p], f[p]) # "IN_SYNC"
      BY <2>4 DEF StreamStatus
  <2> QED BY <1>2, <1>3, <2>3, <2>5
<1>5. ASSUME \A p, q \in Replied : check.replies[p] = check.replies[q], NEW row \in rows
      PROVE  row.status \notin {"UNSYNCED", "MULTILEADER"}
  <2>1. row.peer \in Replied /\ row.peer \in shown
      BY <1>3
  <2> DEFINE r == check.replies[row.peer]
  <2>2. \A q \in Replied : check.replies[q] = r
      BY <1>5, <2>1
  <2> HIDE DEF r
  <2>3. ~Unequal(r, r) /\ ~OtherLeader(r, r)
      BY DEF Unequal, OtherLeader
  <2>4. StreamStatuses(r) = {"IN_SYNC"}
      BY <2>2, <2>3 DEF StreamStatuses
  <2>5. f[row.peer] = "IN_SYNC"
      BY <1>1, <2>1, <2>4 DEF r
  <2> QED BY <1>3, <2>5 DEF StreamStatus
<1> QED BY <1>3, <1>4, <1>5 DEF RowsAreTrue

(* What the check of a consumer shows.                                      *)
LEMMA ConsumerChecked == ASSUME CheckInv, check.kind = "consumer" PROVE RowsAreTrue(ConsumerRows)
<1> DEFINE shown == {p \in Replied : Shown(check.replies[p])}
           Status(p) == ConsumerStatus(p, check.replies[p], Faults(check.replies[p]))
           Row(p) == [peer |-> p, status |-> Status(p)]
           rows == ConsumerRows
<1>1. rows = {Row(p) : p \in shown}
    BY DEF ConsumerRows
<1> HIDE DEF rows
<1>2. \A p \in shown : Row(p) \in rows /\ Row(p).peer = p /\ Row(p).status = Status(p)
    BY <1>1
<1>3. \A row \in rows : row.peer \in shown /\ row.status = Status(row.peer)
    BY <1>1
<1> HIDE DEF Row
<1>4. ASSUME NEW p \in Replied, NEW q \in Replied, ~Alike(p, q)
      PROVE  (\A row \in rows : row.peer = p => row.status # "IN_SYNC") /\
               \E row \in rows : row.peer = p
  <2>1. check.replies[q].delivered # check.replies[p].delivered
      BY <1>4 DEF Alike
  <2>2. Faults(check.replies[p]) # {}
      BY <2>1 DEF Faults
  <2>3. p \in shown
      BY <2>2 DEF Shown, Faulty
  <2>4. Status(p) # "IN_SYNC"
      BY <2>2 DEF ConsumerStatus
  <2> QED BY <1>2, <1>3, <2>3, <2>4
<1>5. ASSUME \A p, q \in Replied : check.replies[p] = check.replies[q], NEW row \in rows
      PROVE  row.status \notin {"UNSYNCED", "MULTILEADER"}
             \/ check.replies[row.peer].last < check.replies[row.peer].delivered
  <2>1. row.peer \in Replied /\ row.peer \in shown
      BY <1>3
  <2> DEFINE r == check.replies[row.peer]
  <2>2. \A q \in Replied : check.replies[q] = r
      BY <1>5, <2>1
  <2> HIDE DEF r
  <2>3. ~OtherLeader(r, r)
      BY DEF OtherLeader
  <2>4. Faults(r) = {} \/ r.last < r.delivered
      BY <2>2, <2>3 DEF Faults
  <2>5. Status(row.peer) = ConsumerStatus(row.peer, r, Faults(r))
      BY DEF r
  <2>6. Status(row.peer) \notin {"UNSYNCED", "MULTILEADER"} \/ r.last < r.delivered
      BY <2>4, <2>5 DEF ConsumerStatus
  <2> QED BY <1>3, <2>6 DEF r
<1> QED BY <1>3, <1>4, <1>5 DEF RowsAreTrue, rows

(* The states of a replica, as its fields tell.                             *)
LEMMA ReplicasMove ==
  ASSUME CheckInv, NEW p \in Peers, NEW r \in ReplicaStates(check.kind),
         check' = [check EXCEPT !.replicas[p] = r], check.main # "done"
  PROVE  CheckInv'
<1>1. /\ check'.replicas = [check.replicas EXCEPT ![p] = r] /\ check'.kind = check.kind
      /\ check'.main = check.main /\ check'.replies = check.replies /\ check'.rows = check.rows
      /\ check'.group = check.group /\ check'.unsynced = check.unsynced /\ CheckFields'
    BY DEF CheckInv, CheckFields
<1>2. check'.replicas \in [Peers -> ReplicaStates(check.kind)]
    BY <1>1 DEF CheckInv
<1> QED BY <1>1, <1>2 DEF CheckInv, Replied

LEMMA CheckGoesOn == ASSUME CheckInv, CheckStep PROVE CheckInv'
<1>0. CheckFields /\ check.kind \in {"stream", "consumer"}
      /\ check.replicas \in [Peers -> ReplicaStates(check.kind)]
    BY DEF CheckInv
<1>1. ASSUME NEW p \in Peers, Applies(p) PROVE CheckInv'
  <2>1. /\ check.replicas[p] \in ReplicaStates(check.kind) /\ check.main # "done"
        /\ check.replicas[p].last < MaxApplied
      BY <1>0, <1>1 DEF Applies
  <2>2. [check.replicas[p] EXCEPT !.last = @ + 1] \in ReplicaStates(check.kind)
      BY <2>1, ReplicaAssumption DEF ReplicaStates
  <2>3. check' = [check EXCEPT !.replicas[p] = [check.replicas[p] EXCEPT !.last = @ + 1]]
      BY <1>0, <1>1 DEF Applies, CheckFields
  <2> QED BY <2>1, <2>2, <2>3, ReplicasMove
<1>2. ASSUME NEW p \in Peers, Delivers(p) PROVE CheckInv'
  <2>1. /\ check.replicas[p] \in ReplicaStates(check.kind) /\ check.main # "done"
        /\ check.replicas[p].delivered < MaxApplied /\ check.kind = "consumer"
      BY <1>0, <1>2 DEF Delivers
  <2>2. [check.replicas[p] EXCEPT !.delivered = @ + 1] \in ReplicaStates(check.kind)
      BY <2>1, ReplicaAssumption DEF ReplicaStates, Position
  <2>3. check' = [check EXCEPT !.replicas[p] = [check.replicas[p] EXCEPT !.delivered = @ + 1]]
      BY <1>0, <1>2 DEF Delivers, CheckFields
  <2> QED BY <2>1, <2>2, <2>3, ReplicasMove
<1>3. ASSUME NEW p \in Peers, Replies(p) PROVE CheckInv'
  <2> DEFINE f == [q \in Replied \cup {p} |-> IF q = p THEN check.replicas[p] ELSE check.replies[q]]
  <2>1. check.main # "done" /\ check' = [check EXCEPT !.replies = f]
      BY <1>3 DEF Replies
  <2>2. DOMAIN f \subseteq Peers /\ \A q \in DOMAIN f : f[q] \in ReplicaStates(check.kind)
      BY <1>0 DEF CheckInv
  <2> HIDE DEF f
  <2>3. /\ check'.replicas = check.replicas /\ check'.kind = check.kind
        /\ check'.main = check.main /\ check'.replies = f /\ check'.rows = check.rows
        /\ CheckFields'
      BY <1>0, <2>1 DEF CheckFields
  <2> QED BY <2>1, <2>2, <2>3 DEF CheckInv, Replied
<1>4. ASSUME CheckConnects \/ GatherEnds \/ ((ChecksStream \/ ChecksConsumer) /\
               check'.main = "panic")
      PROVE  CheckInv'
  <2>1. PICK m \in {"gather", "error", "compare", "panic"} : check' = [check EXCEPT !.main = m]
    <3>1. CASE CheckConnects
        BY <3>1 DEF CheckConnects
    <3>2. CASE GatherEnds
        BY <3>2 DEF GatherEnds
    <3>3. CASE ChecksStream /\ check'.main = "panic"
      <4>1. ASSUME NEW rows, check' = [check EXCEPT !.main = "done", !.rows = rows] PROVE FALSE
          BY <1>0, <3>3, <4>1 DEF CheckFields
      <4> QED BY <3>3, <4>1 DEF ChecksStream
    <3>4. CASE ChecksConsumer /\ check'.main = "panic"
      <4>1. ASSUME check' = [check EXCEPT !.main = "done", !.rows = ConsumerRows] PROVE FALSE
          BY <1>0, <3>4, <4>1 DEF CheckFields
      <4> QED BY <3>4, <4>1 DEF ChecksConsumer
    <3> QED BY <1>4, <3>1, <3>2, <3>3, <3>4
  <2>2. /\ check'.replicas = check.replicas /\ check'.kind = check.kind
        /\ check'.main = m /\ check'.replies = check.replies /\ check'.rows = check.rows
        /\ CheckFields'
      BY <1>0, <2>1 DEF CheckFields
  <2>3. check.main # "done"
      BY <1>4 DEF CheckConnects, GatherEnds, ChecksStream, ChecksConsumer
  <2> QED BY <2>2, <2>3 DEF CheckInv, Replied
<1>5. ASSUME (ChecksStream \/ ChecksConsumer) /\ check'.main # "panic" PROVE CheckInv'
  <2>1. PICK rows : RowsAreTrue(rows) /\ check' = [check EXCEPT !.main = "done", !.rows = rows]
    <3>1. ASSUME check' = [check EXCEPT !.main = "panic"] PROVE FALSE
        BY <1>0, <1>5, <3>1 DEF CheckFields
    <3>2. CASE ChecksStream
        BY <3>1, <3>2, StreamChecked DEF ChecksStream
    <3>3. CASE ChecksConsumer
        BY <3>1, <3>3, ConsumerChecked DEF ChecksConsumer
    <3> QED BY <1>5, <3>2, <3>3
  <2>2. /\ check'.replicas = check.replicas /\ check'.kind = check.kind
        /\ check'.main = "done" /\ check'.replies = check.replies /\ check'.rows = rows
        /\ CheckFields'
      BY <1>0, <2>1 DEF CheckFields
  <2>3. Replied' = Replied /\ \A p, q : Alike(p, q) <=> Alike(p, q)'
      BY <2>2 DEF Replied, Alike
  <2>4. RowsAreTrue(check.rows)'
      BY <2>1, <2>2, <2>3 DEF RowsAreTrue
  <2> QED BY <2>2, <2>3, <2>4 DEF CheckInv
<1> QED BY <1>1, <1>2, <1>3, <1>4, <1>5 DEF CheckStep, CheckRuns

LEMMA CheckFine == CheckInv => CheckTypeOK /\ NoneWronglyInSync /\ NoneWronglyUnsynced
BY DEF CheckInv, CheckTypeOK, NoneWronglyInSync, NoneWronglyUnsynced, RowsAreTrue

-----------------------------------------------------------------------------
(***************************************************************************)
(* The service under load.  The first wait group counts the clients before *)
(* their start, the second those that did not release it: as long as none  *)
(* failed twice it has one count for each client that was started and has  *)
(* not failed, and it falls below zero only after a client failed twice.   *)
(***************************************************************************)

Misfits == {"misfit", "start", "release"}
BeforeStart == {"add", "flush", "misfit", "start"}

ServeRecords ==
  [main : {"spawn", "serving", "collect", "error", "panic"}, spawned : 0 .. NumServers,
   startwg : 0 .. NumServers, donewg : -1 .. NumServers, errChan : 0 .. NumServers,
   collected : 0 .. NumServers,
   client : [Servers -> {"unborn", "serve", "over"} \cup BeforeStart \cup Misfits],
   handler : [Servers -> {"none", "idle", "failed", "sent"}], failed : [Servers -> Nat]]

(* Who has not released the first wait group, and who the second for what   *)
(* went wrong, if it went wrong once.                                       *)
Waiting == {c \in Servers : serve.client[c] \in BeforeStart}
Released(c) ==
  serve.failed[c] = 1 /\ serve.client[c] \notin Misfits /\ serve.handler[c] \notin {"failed",
    "sent"}
Owing == {c \in Servers : serve.client[c] # "unborn" /\ ~Released(c)}

NoneTwice == \A c \in Servers : serve.failed[c] <= 1
AllFailed == \A c \in Servers : serve.failed[c] > 0

FailuresNoted ==
  \A c \in Servers :
    /\ serve.client[c] = "unborn" <=> c > serve.spawned
    /\ serve.client[c] \in {"unborn", "add"} => serve.failed[c] = 0 /\ serve.handler[c] = "none"
    /\ serve.client[c] \in Misfits \cup {"over"} => serve.failed[c] >= 1
    /\ serve.handler[c] \in {"failed", "sent"} => serve.failed[c] >= 1
    /\ serve.client[c] \in Misfits \cup {"over"} /\ serve.handler[c] \in {"failed", "sent"} =>
         serve.failed[c] >= 2

ServeInv ==
  /\ serve \in ServeRecords /\ FailuresNoted
  /\ serve.main \in {"serving", "collect"} => serve.spawned = NumServers
  /\ serve.startwg = Cardinality(Waiting)
  /\ serve.main = "panic" <=> serve.donewg = -1
  /\ serve.donewg <= serve.spawned
  /\ NoneTwice => serve.donewg = Cardinality(Owing)
  /\ serve.main = "collect" \/ serve.collected > 0 => AllFailed \/ ~NoneTwice

LEMMA ServersAre ==
  /\ NumServers \in Nat \ {0} /\ Servers = 1 .. NumServers /\ IsFiniteSet(Servers)
  /\ \A S \in SUBSET Servers : IsFiniteSet(S) /\ Cardinality(S) \in 0 .. NumServers
<1>1. IsFiniteSet(Servers) /\ Servers = 1 .. NumServers /\ Servers # {}
    BY ServiceServerAssumption DEF NumServers
<1>2. NumServers \in Nat
    BY <1>1, FS_CardinalityType DEF NumServers
<1>3. NumServers # 0
    BY <1>1, <1>2
<1>4. ASSUME NEW S \in SUBSET Servers PROVE IsFiniteSet(S) /\ Cardinality(S) \in 0 .. NumServers
  <2>1. IsFiniteSet(S) /\ Cardinality(S) <= NumServers
      BY <1>1, FS_Subset DEF NumServers
  <2> QED BY <1>2, <2>1, FS_CardinalityType
<1> QED BY <1>1, <1>2, <1>3, <1>4

(* Who is counted, but for one.                                             *)
LEMMA OneMore ==
  ASSUME NEW S \in SUBSET Servers, NEW c \in Servers
  PROVE  Cardinality(S) = Cardinality(S \ {c}) + (IF c \in S THEN 1 ELSE 0)
<1>1. IsFiniteSet(S) /\ Cardinality(S) \in Nat
    BY ServersAre
<1>2. Cardinality(S \ {c}) = IF c \in S THEN Cardinality(S) - 1 ELSE Cardinality(S)
    BY <1>1, FS_RemoveElement
<1> QED BY <1>1, <1>2

LEMMA ServeStartsWell == ASSUME serve \in ServeStarts PROVE ServeInv
<1>1. serve = [main |-> "spawn", spawned |-> 0, startwg |-> 0, donewg |-> 0, errChan |-> 0,
        collected |-> 0,
    client |-> [c \in Servers |-> "unborn"], handler |-> [c \in Servers |-> "none"],
    failed |-> [c \in Servers |-> 0]]
    BY DEF ServeStarts
<1>2. 0 \in 0 .. NumServers /\ 0 \in -1 .. NumServers /\ \A c \in Servers : c > 0
    BY ServersAre
<1>3. serve \in ServeRecords
    BY <1>1, <1>2 DEF ServeRecords
<1>4. FailuresNoted
    BY <1>1, <1>2 DEF FailuresNoted, Misfits
<1>5. Waiting = {} /\ Owing = {}
    BY <1>1 DEF Waiting, Owing, BeforeStart
<1> QED BY <1>1, <1>3, <1>4, <1>5, FS_EmptySet DEF ServeInv

(* What a step does to one client and the wait groups.                      *)
ServerStays(c) ==
  \A d \in Servers \ {c} :
    /\ serve'.client[d] = serve.client[d] /\ serve'.handler[d] = serve.handler[d]
    /\ serve'.failed[d] = serve.failed[d]

LEMMA CountsKept ==
  ASSUME ServeInv, NEW c \in Servers, ServerStays(c)
  PROVE  /\ Waiting' \in SUBSET Servers /\ Owing' \in SUBSET Servers
         /\ Cardinality(Waiting') = Cardinality(Waiting)
              + (IF c \in Waiting' THEN 1 ELSE 0) - (IF c \in Waiting THEN 1 ELSE 0)
         /\ Cardinality(Owing') = Cardinality(Owing)
              + (IF c \in Owing' THEN 1 ELSE 0) - (IF c \in Owing THEN 1 ELSE 0)
<1>1. Waiting \in SUBSET Servers /\ Owing \in SUBSET Servers /\ Waiting' \in SUBSET Servers /\
        Owing' \in SUBSET Servers
    BY DEF Waiting, Owing
<1>2. Waiting' \ {c} = Waiting \ {c}
    BY DEF Waiting, ServerStays
<1>3. Owing' \ {c} = Owing \ {c}
    BY DEF Owing, Released, ServerStays
<1>4. /\ Cardinality(Waiting') = Cardinality(Waiting' \ {c}) + (IF c \in Waiting' THEN 1 ELSE 0)
      /\ Cardinality(Waiting) = Cardinality(Waiting \ {c}) + (IF c \in Waiting THEN 1 ELSE 0)
      /\ Cardinality(Owing') = Cardinality(Owing' \ {c}) + (IF c \in Owing' THEN 1 ELSE 0)
      /\ Cardinality(Owing) = Cardinality(Owing \ {c}) + (IF c \in Owing THEN 1 ELSE 0)
    BY <1>1, OneMore
<1>5. Cardinality(Waiting \ {c}) \in Nat /\ Cardinality(Owing \ {c}) \in Nat
  <2>1. Waiting \ {c} \in SUBSET Servers /\ Owing \ {c} \in SUBSET Servers
      BY <1>1
  <2> QED BY <2>1, ServersAre
<1>6. \A n \in Nat, a, b \in {0, 1} : n + a = (n + b) + a - b
    OBVIOUS
<1>7. /\ Cardinality(Waiting') = Cardinality(Waiting \ {c}) + (IF c \in Waiting' THEN 1 ELSE 0)
      /\ Cardinality(Owing') = Cardinality(Owing \ {c}) + (IF c \in Owing' THEN 1 ELSE 0)
    BY <1>2, <1>3, <1>4
<1>8. /\ (IF c \in Waiting' THEN 1 ELSE 0) \in {0, 1} /\ (IF c \in Waiting THEN 1 ELSE 0) \in {0, 1}
      /\ (IF c \in Owing' THEN 1 ELSE 0) \in {0, 1} /\ (IF c \in Owing THEN 1 ELSE 0) \in {0, 1}
    OBVIOUS
<1> QED BY <1>1, <1>4, <1>5, <1>6, <1>7, <1>8

(* A step of a client or its handler keeps the invariant.                   *)
ServerStep(c) ==
  /\ serve' \in ServeRecords /\ ServerStays(c)
  /\ serve'.spawned = serve.spawned /\ serve'.collected = serve.collected
  /\ serve.client[c] # "unborn" /\ serve'.client[c] # "unborn"
  /\ serve'.failed[c] >= serve.failed[c]
  /\ serve'.client[c] = "add" => serve'.failed[c] = 0 /\ serve'.handler[c] = "none"
  /\ serve'.client[c] \in Misfits \cup {"over"} => serve'.failed[c] >= 1
  /\ serve'.handler[c] \in {"failed", "sent"} => serve'.failed[c] >= 1
  /\ serve'.client[c] \in Misfits \cup {"over"} /\ serve'.handler[c] \in {"failed", "sent"} =>
       serve'.failed[c] >= 2
  /\ serve'.startwg = serve.startwg
       + (IF serve'.client[c] \in BeforeStart THEN 1 ELSE 0) - (IF serve.client[c] \in BeforeStart THEN 1 ELSE 0)
  /\ serve'.failed[c] <= 1 =>
       serve'.donewg = serve.donewg + (IF c \in Owing' THEN 1 ELSE 0) - (IF c \in Owing THEN 1 ELSE 0)
  /\ serve'.donewg <= serve.donewg
  /\ serve'.main = IF serve'.donewg = -1 THEN "panic" ELSE serve.main

LEMMA ServerKeeps ==
  ASSUME ServeInv, serve.main # "panic", NEW c \in Servers, ServerStep(c)
  PROVE  ServeInv'
<1>1. serve \in ServeRecords /\ serve' \in ServeRecords
    BY DEF ServeInv, ServerStep
<1>2. /\ \A d \in Servers \ {c} :
           /\ serve'.client[d] = serve.client[d] /\ serve'.handler[d] = serve.handler[d]
           /\ serve'.failed[d] = serve.failed[d]
      /\ serve'.spawned = serve.spawned /\ serve'.collected = serve.collected
    BY DEF ServerStep, ServerStays
<1>3. FailuresNoted'
  <2> SUFFICES ASSUME NEW d \in Servers
               PROVE
      (/\ serve.client[d] = "unborn" <=> d > serve.spawned
       /\ serve.client[d] \in {"unborn", "add"} => serve.failed[d] = 0 /\ serve.handler[d] = "none"
       /\ serve.client[d] \in Misfits \cup {"over"} => serve.failed[d] >= 1
       /\ serve.handler[d] \in {"failed", "sent"} => serve.failed[d] >= 1
       /\ serve.client[d] \in Misfits \cup {"over"} /\ serve.handler[d] \in {"failed", "sent"} =>
            serve.failed[d] >= 2)'
      BY DEF FailuresNoted
  <2>1. CASE d = c
      BY <1>2, <2>1 DEF ServerStep, ServeInv, FailuresNoted
  <2>2. CASE d # c
      BY <1>2, <2>2 DEF ServeInv, FailuresNoted
  <2> QED BY <2>1, <2>2
<1>4. (c \in Waiting <=> serve.client[c] \in BeforeStart) /\
        (c \in Waiting' <=> serve'.client[c] \in BeforeStart)
    BY DEF Waiting
<1>5. serve'.startwg = Cardinality(Waiting')
    BY <1>4, CountsKept DEF ServerStep, ServeInv
<1>6. NoneTwice' => NoneTwice /\ serve'.failed[c] <= 1
  <2>1. \A d \in Servers : serve'.failed[d] \in Nat /\ serve.failed[d] \in Nat /\
          serve'.failed[d] >= serve.failed[d]
    <3>1. serve'.failed[c] >= serve.failed[c]
        BY DEF ServerStep
    <3> QED BY <1>1, <1>2, <3>1 DEF ServeRecords
  <2> QED BY <2>1 DEF NoneTwice
<1>7. NoneTwice' => serve'.donewg = Cardinality(Owing')
    BY <1>6, CountsKept DEF ServerStep, ServeInv
<1>8. serve.donewg # -1 /\ serve.main # "panic"
    BY DEF ServeInv
<1>9. serve'.main = "panic" <=> serve'.donewg = -1
    BY <1>8 DEF ServerStep
<1>10. serve'.donewg <= serve'.spawned
  <2>1. serve.donewg \in Int /\ serve'.donewg \in Int /\ serve.spawned \in Nat
      BY <1>1 DEF ServeRecords
  <2> QED BY <1>2, <2>1 DEF ServerStep, ServeInv
<1>11. serve'.main \in {"serving", "collect"} => serve'.spawned = NumServers
    BY <1>2 DEF ServerStep, ServeInv
<1>12. serve'.main = "collect" \/ serve'.collected > 0 => AllFailed' \/ ~NoneTwice'
  <2>1. AllFailed => AllFailed'
    <3>1. \A d \in Servers : serve'.failed[d] \in Nat /\ serve.failed[d] \in Nat /\
            serve'.failed[d] >= serve.failed[d]
      <4>1. serve'.failed[c] >= serve.failed[c]
          BY DEF ServerStep
      <4> QED BY <1>1, <1>2, <4>1 DEF ServeRecords
    <3> QED BY <3>1 DEF AllFailed
  <2>2. serve'.main = "collect" => serve.main = "collect"
      BY DEF ServerStep
  <2> QED BY <1>2, <1>6, <2>1, <2>2 DEF ServeInv
<1> QED BY <1>1, <1>3, <1>5, <1>7, <1>9, <1>10, <1>11, <1>12 DEF ServeInv

LEMMA ServerMoves ==
  ASSUME ServeInv, serve.main # "panic", NEW c \in Servers,
         \/ AddsService(c) \/ FlushesService(c) \/ ServerGivesUp(c) \/ ReplyFails(c)
         \/ HandlerReports(c)
  PROVE  ServeInv'
<1>1. /\ serve \in ServeRecords /\ serve.donewg \in 0 .. NumServers /\ serve.failed[c] \in Nat
      /\ serve.startwg = Cardinality(Waiting) /\ serve.startwg \in 0 .. NumServers
      /\ serve.client[c] = "unborn" <=> c > serve.spawned
      /\ serve.client[c] \in {"unborn", "add"} => serve.failed[c] = 0 /\ serve.handler[c] = "none"
      /\ serve.client[c] \in Misfits \cup {"over"} => serve.failed[c] >= 1
      /\ serve.handler[c] \in {"failed", "sent"} => serve.failed[c] >= 1
      /\ serve.client[c] \in Misfits \cup {"over"} /\ serve.handler[c] \in {"failed", "sent"} =>
           serve.failed[c] >= 2
    BY ServersAre DEF ServeInv, FailuresNoted, ServeRecords
<1>2. serve.client[c] \in BeforeStart => serve.startwg - 1 \in 0 .. NumServers
  <2> SUFFICES ASSUME serve.client[c] \in BeforeStart PROVE serve.startwg - 1 \in 0 .. NumServers
      OBVIOUS
  <2>1. c \in Waiting /\ Waiting \in SUBSET Servers /\ Waiting \ {c} \in SUBSET Servers
      BY DEF Waiting
  <2>2. Cardinality(Waiting) = Cardinality(Waiting \ {c}) + 1 /\
          Cardinality(Waiting \ {c}) \in 0 .. NumServers
      BY <2>1, OneMore, ServersAre
  <2>3. NumServers \in Nat
      BY ServersAre
  <2> QED BY <1>1, <2>2, <2>3
<1>4. serve.donewg - 1 \in -1 .. NumServers /\ serve.errChan \in 0 .. NumServers
      /\ serve.startwg \in Int /\ serve.donewg \in Int /\ serve.failed[c] + 1 \in Nat
      /\ serve.main \in {"spawn", "serving", "collect", "error"}
      /\ (c \in Owing <=> serve.client[c] # "unborn" /\ ~Released(c))
      /\ (c \in Owing' <=> serve'.client[c] # "unborn" /\ ~Released(c)')
    BY <1>1, ServersAre DEF ServeRecords, Owing
<1>5. CASE serve.client[c] = "add" /\ serve' = [serve EXCEPT !.client[c] = "flush",
             !.handler[c] = "idle"]
  <2>1. serve.client[c] = "add"
      BY <1>1, <1>5
  <2>2. PICK client \in [Servers -> {"unborn", "serve", "over"} \cup BeforeStart \cup Misfits],
            handler \in [Servers -> {"none", "idle", "failed", "sent"}] :
          /\ client = [serve.client EXCEPT ![c] = "flush"]
          /\ handler = [serve.handler EXCEPT ![c] = "idle"]
      BY <1>1, <1>4 DEF ServeRecords, BeforeStart, Misfits
  <2>3. serve' = [serve EXCEPT !.client = client, !.handler = handler]
      BY <1>1, <1>5, <2>2 DEF ServeRecords, SendsError, ReleasesDone
  <2>4. serve' \in ServeRecords
      BY <1>1, <1>4, <2>1, <2>3 DEF ServeRecords
  <2>5. /\ serve'.client = client
        /\ serve'.handler = handler
        /\ serve'.failed = serve.failed
        /\ serve'.startwg = serve.startwg
        /\ serve'.donewg = serve.donewg
        /\ serve'.main = serve.main
        /\ serve'.spawned = serve.spawned
        /\ serve'.collected = serve.collected
      BY <1>1, <2>3 DEF ServeRecords
  <2>6. /\ client[c] = "flush"
        /\ handler[c] = "idle"
        /\ \A d \in Servers \ {c} : client[d] = serve.client[d] /\ handler[d] = serve.handler[d]
      BY <1>1, <2>2 DEF ServeRecords
  <2>7. ServerStays(c)
      BY <2>5, <2>6 DEF ServerStays
  <2>8. ServerStep(c)
      BY <1>1, <1>4, <2>1, <2>4, <2>5, <2>6, <2>7 DEF ServerStep, Owing, Released, BeforeStart,
           Misfits
  <2> QED BY <2>8, ServerKeeps
<1>6. CASE serve.client[c] \in {"add", "flush"} /\ serve' = [serve EXCEPT !.client[c] = "misfit",
             !.failed[c] = @ + 1]
  <2>1. serve.client[c] \in {"add", "flush"}
      BY <1>1, <1>6
  <2>2. PICK client \in [Servers -> {"unborn", "serve", "over"} \cup BeforeStart \cup Misfits],
            failing \in [Servers -> Nat] :
          /\ client = [serve.client EXCEPT ![c] = "misfit"]
          /\ failing = [serve.failed EXCEPT ![c] = serve.failed[c] + 1]
      BY <1>1, <1>4 DEF ServeRecords, BeforeStart, Misfits
  <2>3. serve' = [serve EXCEPT !.client = client, !.failed = failing]
      BY <1>1, <1>6, <2>2 DEF ServeRecords, SendsError, ReleasesDone
  <2>4. serve' \in ServeRecords
      BY <1>1, <1>4, <2>1, <2>3 DEF ServeRecords
  <2>5. /\ serve'.client = client
        /\ serve'.handler = serve.handler
        /\ serve'.failed = failing
        /\ serve'.startwg = serve.startwg
        /\ serve'.donewg = serve.donewg
        /\ serve'.main = serve.main
        /\ serve'.spawned = serve.spawned
        /\ serve'.collected = serve.collected
      BY <1>1, <2>3 DEF ServeRecords
  <2>6. /\ client[c] = "misfit"
        /\ failing[c] = serve.failed[c] + 1
        /\ \A d \in Servers \ {c} : client[d] = serve.client[d] /\ failing[d] = serve.failed[d]
      BY <1>1, <2>2 DEF ServeRecords
  <2>7. ServerStays(c)
      BY <2>5, <2>6 DEF ServerStays
  <2>8. ServerStep(c)
      BY <1>1, <1>4, <2>1, <2>4, <2>5, <2>6, <2>7 DEF ServerStep, Owing, Released, BeforeStart,
           Misfits
  <2> QED BY <2>8, ServerKeeps
<1>7. CASE serve.client[c] = "flush" /\ serve' = [serve EXCEPT !.client[c] = "serve",
             !.startwg = @ - 1]
  <2>1. serve.client[c] = "flush" /\ serve.startwg - 1 \in 0 .. NumServers
      BY <1>1, <1>7, <1>2 DEF BeforeStart
  <2>2. PICK client \in [Servers -> {"unborn", "serve", "over"} \cup BeforeStart \cup Misfits] :
          /\ client = [serve.client EXCEPT ![c] = "serve"]
      BY <1>1, <1>4 DEF ServeRecords, BeforeStart, Misfits
  <2>3. serve' = [serve EXCEPT !.client = client, !.startwg = serve.startwg - 1]
      BY <1>1, <1>7, <2>2 DEF ServeRecords, SendsError, ReleasesDone
  <2>4. serve' \in ServeRecords
      BY <1>1, <1>4, <2>1, <2>3 DEF ServeRecords
  <2>5. /\ serve'.client = client
        /\ serve'.handler = serve.handler
        /\ serve'.failed = serve.failed
        /\ serve'.startwg = serve.startwg - 1
        /\ serve'.donewg = serve.donewg
        /\ serve'.main = serve.main
        /\ serve'.spawned = serve.spawned
        /\ serve'.collected = serve.collected
      BY <1>1, <2>3 DEF ServeRecords
  <2>6. /\ client[c] = "serve"
        /\ \A d \in Servers \ {c} : client[d] = serve.client[d]
      BY <1>1, <2>2 DEF ServeRecords
  <2>7. ServerStays(c)
      BY <2>5, <2>6 DEF ServerStays
  <2>8. ServerStep(c)
      BY <1>1, <1>4, <2>1, <2>4, <2>5, <2>6, <2>7 DEF ServerStep, Owing, Released, BeforeStart,
           Misfits
  <2> QED BY <2>8, ServerKeeps
<1>8. CASE serve.client[c] = "misfit" /\ SendsError([serve EXCEPT !.client[c] = "start"])
  <2>1. serve.client[c] = "misfit" /\ serve.errChan + 1 \in 0 .. NumServers
      BY <1>1, <1>8, <1>4, ServersAre DEF SendsError, ServeRecords
  <2>2. PICK client \in [Servers -> {"unborn", "serve", "over"} \cup BeforeStart \cup Misfits] :
          /\ client = [serve.client EXCEPT ![c] = "start"]
      BY <1>1, <1>4 DEF ServeRecords, BeforeStart, Misfits
  <2>3. serve' = [serve EXCEPT !.client = client, !.errChan = serve.errChan + 1]
      BY <1>1, <1>8, <2>2 DEF ServeRecords, SendsError, ReleasesDone
  <2>4. serve' \in ServeRecords
      BY <1>1, <1>4, <2>1, <2>3 DEF ServeRecords
  <2>5. /\ serve'.client = client
        /\ serve'.handler = serve.handler
        /\ serve'.failed = serve.failed
        /\ serve'.startwg = serve.startwg
        /\ serve'.donewg = serve.donewg
        /\ serve'.main = serve.main
        /\ serve'.spawned = serve.spawned
        /\ serve'.collected = serve.collected
      BY <1>1, <2>3 DEF ServeRecords
  <2>6. /\ client[c] = "start"
        /\ \A d \in Servers \ {c} : client[d] = serve.client[d]
      BY <1>1, <2>2 DEF ServeRecords
  <2>7. ServerStays(c)
      BY <2>5, <2>6 DEF ServerStays
  <2>8. ServerStep(c)
      BY <1>1, <1>4, <2>1, <2>4, <2>5, <2>6, <2>7 DEF ServerStep, Owing, Released, BeforeStart,
           Misfits
  <2> QED BY <2>8, ServerKeeps
<1>9. CASE serve.client[c] = "start" /\ serve' = [serve EXCEPT !.client[c] = "release",
             !.startwg = @ - 1]
  <2>1. serve.client[c] = "start" /\ serve.startwg - 1 \in 0 .. NumServers
      BY <1>1, <1>9, <1>2 DEF BeforeStart
  <2>2. PICK client \in [Servers -> {"unborn", "serve", "over"} \cup BeforeStart \cup Misfits] :
          /\ client = [serve.client EXCEPT ![c] = "release"]
      BY <1>1, <1>4 DEF ServeRecords, BeforeStart, Misfits
  <2>3. serve' = [serve EXCEPT !.client = client, !.startwg = serve.startwg - 1]
      BY <1>1, <1>9, <2>2 DEF ServeRecords, SendsError, ReleasesDone
  <2>4. serve' \in ServeRecords
      BY <1>1, <1>4, <2>1, <2>3 DEF ServeRecords
  <2>5. /\ serve'.client = client
        /\ serve'.handler = serve.handler
        /\ serve'.failed = serve.failed
        /\ serve'.startwg = serve.startwg - 1
        /\ serve'.donewg = serve.donewg
        /\ serve'.main = serve.main
        /\ serve'.spawned = serve.spawned
        /\ serve'.collected = serve.collected
      BY <1>1, <2>3 DEF ServeRecords
  <2>6. /\ client[c] = "release"
        /\ \A d \in Servers \ {c} : client[d] = serve.client[d]
      BY <1>1, <2>2 DEF ServeRecords
  <2>7. ServerStays(c)
      BY <2>5, <2>6 DEF ServerStays
  <2>8. ServerStep(c)
      BY <1>1, <1>4, <2>1, <2>4, <2>5, <2>6, <2>7 DEF ServerStep, Owing, Released, BeforeStart,
           Misfits
  <2> QED BY <2>8, ServerKeeps
<1>10. CASE serve.client[c] = "release" /\ ReleasesDone([serve EXCEPT !.client[c] = "over"])
  <2>1. serve.client[c] = "release" /\
          (IF serve.donewg = 0 THEN "panic" ELSE serve.main) \in {"spawn", "serving", "collect",
            "error", "panic"}
      BY <1>1, <1>10, <1>4
  <2>2. PICK client \in [Servers -> {"unborn", "serve", "over"} \cup BeforeStart \cup Misfits] :
          /\ client = [serve.client EXCEPT ![c] = "over"]
      BY <1>1, <1>4 DEF ServeRecords, BeforeStart, Misfits
  <2>3. serve' = [serve EXCEPT !.client = client, !.donewg = serve.donewg - 1,
          !.main = IF serve.donewg = 0 THEN "panic" ELSE serve.main]
      BY <1>1, <1>10, <2>2 DEF ServeRecords, SendsError, ReleasesDone
  <2>4. serve' \in ServeRecords
      BY <1>1, <1>4, <2>1, <2>3 DEF ServeRecords
  <2>5. /\ serve'.client = client
        /\ serve'.handler = serve.handler
        /\ serve'.failed = serve.failed
        /\ serve'.startwg = serve.startwg
        /\ serve'.donewg = serve.donewg - 1
        /\ serve'.main = IF serve.donewg = 0 THEN "panic" ELSE serve.main
        /\ serve'.spawned = serve.spawned
        /\ serve'.collected = serve.collected
      BY <1>1, <2>3 DEF ServeRecords
  <2>6. /\ client[c] = "over"
        /\ \A d \in Servers \ {c} : client[d] = serve.client[d]
      BY <1>1, <2>2 DEF ServeRecords
  <2>7. ServerStays(c)
      BY <2>5, <2>6 DEF ServerStays
  <2>8. ServerStep(c)
      BY <1>1, <1>4, <2>1, <2>4, <2>5, <2>6, <2>7 DEF ServerStep, Owing, Released, BeforeStart,
           Misfits
  <2> QED BY <2>8, ServerKeeps
<1>11. CASE ReplyFails(c)
  <2>1. serve.handler[c] = "idle"
      BY <1>1, <1>11 DEF ReplyFails
  <2>2. PICK handler \in [Servers -> {"none", "idle", "failed", "sent"}],
            failing \in [Servers -> Nat] :
          /\ handler = [serve.handler EXCEPT ![c] = "failed"]
          /\ failing = [serve.failed EXCEPT ![c] = serve.failed[c] + 1]
      BY <1>1, <1>4 DEF ServeRecords, BeforeStart, Misfits
  <2>3. serve' = [serve EXCEPT !.handler = handler, !.failed = failing]
      BY <1>1, <1>11, <2>2 DEF ServeRecords, ReplyFails
  <2>4. serve' \in ServeRecords
      BY <1>1, <1>4, <2>1, <2>3 DEF ServeRecords
  <2>5. /\ serve'.client = serve.client
        /\ serve'.handler = handler
        /\ serve'.failed = failing
        /\ serve'.startwg = serve.startwg
        /\ serve'.donewg = serve.donewg
        /\ serve'.main = serve.main
        /\ serve'.spawned = serve.spawned
        /\ serve'.collected = serve.collected
      BY <1>1, <2>3 DEF ServeRecords
  <2>6. /\ handler[c] = "failed"
        /\ failing[c] = serve.failed[c] + 1
        /\ \A d \in Servers \ {c} : handler[d] = serve.handler[d] /\ failing[d] = serve.failed[d]
      BY <1>1, <2>2 DEF ServeRecords
  <2>7. ServerStays(c)
      BY <2>5, <2>6 DEF ServerStays
  <2>8. ServerStep(c)
      BY <1>1, <1>4, <2>1, <2>4, <2>5, <2>6, <2>7 DEF ServerStep, Owing, Released, BeforeStart,
           Misfits
  <2> QED BY <2>8, ServerKeeps
<1>12. CASE serve.handler[c] = "failed" /\ SendsError([serve EXCEPT !.handler[c] = "sent"])
  <2>1. serve.handler[c] = "failed" /\ serve.errChan + 1 \in 0 .. NumServers
      BY <1>1, <1>12, <1>4, ServersAre DEF SendsError, ServeRecords
  <2>2. PICK handler \in [Servers -> {"none", "idle", "failed", "sent"}] :
          /\ handler = [serve.handler EXCEPT ![c] = "sent"]
      BY <1>1, <1>4 DEF ServeRecords, BeforeStart, Misfits
  <2>3. serve' = [serve EXCEPT !.handler = handler, !.errChan = serve.errChan + 1]
      BY <1>1, <1>12, <2>2 DEF ServeRecords, SendsError, ReleasesDone
  <2>4. serve' \in ServeRecords
      BY <1>1, <1>4, <2>1, <2>3 DEF ServeRecords
  <2>5. /\ serve'.client = serve.client
        /\ serve'.handler = handler
        /\ serve'.failed = serve.failed
        /\ serve'.startwg = serve.startwg
        /\ serve'.donewg = serve.donewg
        /\ serve'.main = serve.main
        /\ serve'.spawned = serve.spawned
        /\ serve'.collected = serve.collected
      BY <1>1, <2>3 DEF ServeRecords
  <2>6. /\ handler[c] = "sent"
        /\ \A d \in Servers \ {c} : handler[d] = serve.handler[d]
      BY <1>1, <2>2 DEF ServeRecords
  <2>7. ServerStays(c)
      BY <2>5, <2>6 DEF ServerStays
  <2>8. ServerStep(c)
      BY <1>1, <1>4, <2>1, <2>4, <2>5, <2>6, <2>7 DEF ServerStep, Owing, Released, BeforeStart,
           Misfits
  <2> QED BY <2>8, ServerKeeps
<1>13. CASE serve.handler[c] = "sent" /\ ReleasesDone([serve EXCEPT !.handler[c] = "idle"])
  <2>1. serve.handler[c] = "sent" /\
          (IF serve.donewg = 0 THEN "panic" ELSE serve.main) \in {"spawn", "serving", "collect",
            "error", "panic"}
      BY <1>1, <1>13, <1>4
  <2>2. PICK handler \in [Servers -> {"none", "idle", "failed", "sent"}] :
          /\ handler = [serve.handler EXCEPT ![c] = "idle"]
      BY <1>1, <1>4 DEF ServeRecords, BeforeStart, Misfits
  <2>3. serve' = [serve EXCEPT !.handler = handler, !.donewg = serve.donewg - 1,
          !.main = IF serve.donewg = 0 THEN "panic" ELSE serve.main]
      BY <1>1, <1>13, <2>2 DEF ServeRecords, SendsError, ReleasesDone
  <2>4. serve' \in ServeRecords
      BY <1>1, <1>4, <2>1, <2>3 DEF ServeRecords
  <2>5. /\ serve'.client = serve.client
        /\ serve'.handler = handler
        /\ serve'.failed = serve.failed
        /\ serve'.startwg = serve.startwg
        /\ serve'.donewg = serve.donewg - 1
        /\ serve'.main = IF serve.donewg = 0 THEN "panic" ELSE serve.main
        /\ serve'.spawned = serve.spawned
        /\ serve'.collected = serve.collected
      BY <1>1, <2>3 DEF ServeRecords
  <2>6. /\ handler[c] = "idle"
        /\ \A d \in Servers \ {c} : handler[d] = serve.handler[d]
      BY <1>1, <2>2 DEF ServeRecords
  <2>7. ServerStays(c)
      BY <2>5, <2>6 DEF ServerStays
  <2>8. ServerStep(c)
      BY <1>1, <1>4, <2>1, <2>4, <2>5, <2>6, <2>7 DEF ServerStep, Owing, Released, BeforeStart,
           Misfits
  <2> QED BY <2>8, ServerKeeps
<1> QED
  BY <1>5, <1>6, <1>7, <1>8, <1>9, <1>10, <1>11, <1>12, <1>13
     DEF AddsService, FlushesService, ServerGivesUp, HandlerReports

LEMMA ServeSpawnsWell == ASSUME ServeInv, ServeSpawns PROVE ServeInv'
<1>1. /\ serve \in ServeRecords /\ serve.main = "spawn" /\ serve.donewg # -1
      /\ serve.spawned \in 0 .. NumServers - 1 /\ NumServers \in Nat
    BY ServersAre DEF ServeInv, ServeSpawns, ServeRecords
<1>2. CASE serve' = [serve EXCEPT !.main = "error"]
  <2>1. serve' \in ServeRecords
      BY <1>1, <1>2 DEF ServeRecords
  <2>2. /\ serve'.client = serve.client /\ serve'.handler = serve.handler
        /\ serve'.failed = serve.failed /\ serve'.spawned = serve.spawned
        /\ serve'.startwg = serve.startwg /\ serve'.donewg = serve.donewg
        /\ serve'.collected = serve.collected /\ serve'.main = "error"
      BY <1>1, <1>2 DEF ServeRecords
  <2>3. /\ FailuresNoted' /\ Waiting' = Waiting /\ Owing' = Owing
        /\ NoneTwice' = NoneTwice /\ AllFailed' = AllFailed
      BY <2>2 DEF ServeInv, FailuresNoted, Waiting, Owing, Released, NoneTwice, AllFailed
  <2> QED BY <1>1, <2>1, <2>2, <2>3 DEF ServeInv
<1>3. CASE \E c \in Servers :
             /\ c = serve.spawned + 1
             /\ serve' = [serve EXCEPT !.spawned = c, !.startwg = @ + 1, !.donewg = @ + 1,
                                        !.client[c] = "add"]
  <2>1. PICK c \in Servers :
             /\ c = serve.spawned + 1
             /\ serve' = [serve EXCEPT !.spawned = c, !.startwg = @ + 1, !.donewg = @ + 1,
                                        !.client[c] = "add"]
      BY <1>3
  <2>2. PICK client \in [Servers -> {"unborn", "serve", "over"} \cup BeforeStart \cup Misfits] :
          client = [serve.client EXCEPT ![c] = "add"]
      BY <1>1 DEF ServeRecords, BeforeStart
  <2>3. serve' = [serve EXCEPT !.spawned = c, !.startwg = serve.startwg + 1,
                               !.donewg = serve.donewg + 1, !.client = client]
      BY <1>1, <2>1, <2>2 DEF ServeRecords
  <2>4. /\ serve'.client = client /\ serve'.handler = serve.handler
        /\ serve'.failed = serve.failed /\ serve'.spawned = c
        /\ serve'.startwg = serve.startwg + 1 /\ serve'.donewg = serve.donewg + 1
        /\ serve'.collected = serve.collected /\ serve'.main = "spawn"
      BY <1>1, <2>3 DEF ServeRecords
  <2>5. client[c] = "add" /\ \A d \in Servers \ {c} : client[d] = serve.client[d]
      BY <1>1, <2>2 DEF ServeRecords
  <2>6. /\ serve.client[c] = "unborn" /\ serve.failed[c] = 0 /\ serve.handler[c] = "none"
        /\ ServerStays(c)
    <3>1. c > serve.spawned
        BY <1>1, <2>1
    <3> QED BY <2>4, <2>5, <3>1 DEF ServeInv, FailuresNoted, ServerStays
  <2>7. c \notin Waiting /\ c \in Waiting' /\ c \notin Owing /\ c \in Owing'
      BY <2>4, <2>5, <2>6 DEF Waiting, Owing, Released, BeforeStart
  <2>8. /\ Cardinality(Waiting') = Cardinality(Waiting) + 1
        /\ Cardinality(Owing') = Cardinality(Owing) + 1
        /\ Cardinality(Waiting) \in 0 .. NumServers /\ Cardinality(Waiting') \in 0 .. NumServers
        /\ Cardinality(Owing) \in 0 .. NumServers
    <3>1. Waiting \in SUBSET Servers /\ Owing \in SUBSET Servers /\ Waiting' \in SUBSET Servers
        BY DEF Waiting, Owing
    <3>2. /\ Cardinality(Waiting) \in 0 .. NumServers /\ Cardinality(Waiting') \in 0 .. NumServers
          /\ Cardinality(Owing) \in 0 .. NumServers
        BY <3>1, ServersAre
    <3>3. /\ Cardinality(Waiting') = Cardinality(Waiting) + 1 - 0
          /\ Cardinality(Owing') = Cardinality(Owing) + 1 - 0
        BY <2>6, <2>7, CountsKept
    <3> QED BY <3>2, <3>3
  <2>9. /\ serve.startwg + 1 \in 0 .. NumServers /\ serve.donewg + 1 \in 0 .. NumServers
        /\ c \in 0 .. NumServers /\ serve.donewg + 1 <= c
    <3>1. serve.startwg = Cardinality(Waiting) /\ serve.donewg <= serve.spawned /\
            serve.donewg \in -1 .. NumServers
        BY <1>1 DEF ServeInv, ServeRecords
    <3> QED BY <1>1, <2>1, <2>8, <3>1
  <2>10. serve' \in ServeRecords
    <3>1. serve.donewg + 1 \in -1 .. NumServers
        BY <2>9
    <3>2. PICK startwg \in 0 .. NumServers, donewg \in -1 .. NumServers :
            startwg = serve.startwg + 1 /\ donewg = serve.donewg + 1
        BY <2>9, <3>1
    <3>3. serve' = [serve EXCEPT !.spawned = c, !.startwg = startwg, !.donewg = donewg,
            !.client = client]
        BY <2>3, <3>2
    <3> QED BY <1>1, <2>9, <3>3 DEF ServeRecords
  <2>11. FailuresNoted'
    <3> SUFFICES ASSUME NEW d \in Servers
                 PROVE
        (/\ serve.client[d] = "unborn" <=> d > serve.spawned
         /\ serve.client[d] \in {"unborn", "add"} => serve.failed[d] = 0 /\
              serve.handler[d] = "none"
         /\ serve.client[d] \in Misfits \cup {"over"} => serve.failed[d] >= 1
         /\ serve.handler[d] \in {"failed", "sent"} => serve.failed[d] >= 1
         /\ serve.client[d] \in Misfits \cup {"over"} /\ serve.handler[d] \in {"failed", "sent"} =>
              serve.failed[d] >= 2)'
        BY DEF FailuresNoted
    <3>1. CASE d = c
        BY <1>1, <2>1, <2>4, <2>5, <2>6, <3>1 DEF Misfits
    <3>2. CASE d # c
      <4>1. d \in Nat /\ c \in Nat
          BY ServersAre
      <4>2. d > serve.spawned <=> d > c
          BY <1>1, <2>1, <3>2, <4>1
      <4> QED BY <2>4, <2>5, <3>2, <4>2 DEF ServeInv, FailuresNoted
    <3> QED BY <3>1, <3>2
  <2>12. NoneTwice' = NoneTwice /\ AllFailed' = AllFailed
      BY <2>4 DEF NoneTwice, AllFailed
  <2>13. serve.donewg + 1 # -1 /\ (NoneTwice => serve.donewg + 1 = Cardinality(Owing'))
         /\ serve.startwg + 1 = Cardinality(Waiting')
      BY <2>8, <2>9 DEF ServeInv
  <2> QED BY <1>1, <2>4, <2>9, <2>10, <2>11, <2>12, <2>13 DEF ServeInv
<1>4. serve.spawned + 1 \in Servers
    BY <1>1, ServersAre
<1> QED BY <1>2, <1>3, <1>4 DEF ServeSpawns

LEMMA ServeMainMoves ==
  ASSUME ServeInv, ServeStarted \/ ServeDone \/ ServeCollects
  PROVE  ServeInv'
<1>1. serve \in ServeRecords /\ serve.main \notin {"panic", "error"} /\ NumServers \in Nat
    BY ServersAre DEF ServeInv, ServeStarted, ServeDone, ServeCollects
<1>2. PICK to \in {"serving", "collect", "error"}, errChan, collected \in 0 .. NumServers :
        /\ serve' = [serve EXCEPT !.main = to, !.errChan = errChan, !.collected = collected]
        /\ to \in {"serving", "collect"} => serve.spawned = NumServers
        /\ to = "collect" \/ collected > 0 =>
             serve.main = "collect" \/ serve.collected > 0
             \/ (serve.main = "serving" /\ serve.donewg = 0)
  <2>1. serve.errChan \in 0 .. NumServers /\ serve.collected \in 0 .. NumServers
      BY <1>1 DEF ServeRecords
  <2>2. CASE ServeStarted
    <3>1. serve' = [serve EXCEPT !.main = "serving", !.errChan = serve.errChan,
            !.collected = serve.collected]
        BY <1>1, <2>2 DEF ServeStarted, ServeRecords
    <3> QED BY <2>1, <2>2, <3>1 DEF ServeStarted
  <2>3. CASE ServeDone
    <3>1. serve' = [serve EXCEPT !.main = "collect", !.errChan = serve.errChan,
            !.collected = serve.collected]
        BY <1>1, <2>3 DEF ServeDone, ServeRecords
    <3> QED BY <2>1, <2>3, <3>1 DEF ServeDone, ServeInv
  <2>4. CASE serve.main = "collect" /\ serve' = [serve EXCEPT !.main = "error"]
    <3>1. serve' = [serve EXCEPT !.main = "error", !.errChan = serve.errChan,
            !.collected = serve.collected]
        BY <1>1, <2>4 DEF ServeRecords
    <3> QED BY <2>1, <2>4, <3>1
  <2>5. CASE /\ serve.main = "collect" /\ serve.collected # NumServers /\ serve.errChan > 0
             /\ serve' = [serve EXCEPT !.errChan = @ - 1, !.collected = @ + 1]
    <3>1. serve' = [serve EXCEPT !.main = "collect", !.errChan = serve.errChan - 1,
                                 !.collected = serve.collected + 1]
        BY <1>1, <2>5 DEF ServeRecords
    <3>2. serve.errChan - 1 \in 0 .. NumServers /\ serve.collected + 1 \in 0 .. NumServers
        BY <1>1, <2>1, <2>5
    <3>3. serve.spawned = NumServers
        BY <2>5 DEF ServeInv
    <3> QED BY <2>5, <3>1, <3>2, <3>3
  <2> QED BY <2>2, <2>3, <2>4, <2>5 DEF ServeCollects
<1>3. serve' \in ServeRecords
    BY <1>1, <1>2 DEF ServeRecords
<1>4. /\ serve'.client = serve.client /\ serve'.handler = serve.handler
      /\ serve'.failed = serve.failed /\ serve'.spawned = serve.spawned
      /\ serve'.startwg = serve.startwg /\ serve'.donewg = serve.donewg
      /\ serve'.collected = collected /\ serve'.main = to
    BY <1>1, <1>2 DEF ServeRecords
<1>5. /\ FailuresNoted' /\ Waiting' = Waiting /\ Owing' = Owing
      /\ NoneTwice' = NoneTwice /\ AllFailed' = AllFailed
    BY <1>4 DEF ServeInv, FailuresNoted, Waiting, Owing, Released, NoneTwice, AllFailed
<1>6. serve.donewg # -1
    BY <1>1 DEF ServeInv
(* Whom the second wait group does not wait for has failed.                 *)
<1>7. serve.main = "serving" /\ serve.donewg = 0 /\ NoneTwice => AllFailed
  <2> SUFFICES ASSUME serve.main = "serving", serve.donewg = 0, NoneTwice, NEW c \in Servers
               PROVE  serve.failed[c] > 0
      BY DEF AllFailed
  <2>1. Owing \in SUBSET Servers /\ Cardinality(Owing) = 0
      BY DEF ServeInv, Owing
  <2>2. Owing = {}
      BY <2>1, ServersAre, FS_EmptySet
  <2>3. serve.client[c] # "unborn"
    <3>1. serve.spawned = NumServers /\ ~(c > NumServers)
        BY ServersAre DEF ServeInv
    <3> QED BY <3>1 DEF ServeInv, FailuresNoted
  <2>4. Released(c)
      BY <2>2, <2>3 DEF Owing
  <2> QED BY <2>4 DEF Released
<1>8. to = "collect" \/ collected > 0 => AllFailed \/ ~NoneTwice
    BY <1>2, <1>7 DEF ServeInv
<1> QED BY <1>2, <1>3, <1>4, <1>5, <1>6, <1>8 DEF ServeInv

LEMMA ServeGoesOn == ASSUME ServeInv, ServeStep PROVE ServeInv'
BY ServerMoves, ServeSpawnsWell, ServeMainMoves DEF ServeStep, ServeRuns, ServeOver

LEMMA ServeFine == ServeInv => ServeTypeOK /\ ServesUntilAllFail
<1> SUFFICES ASSUME ServeInv PROVE ServeTypeOK /\ ServesUntilAllFail
    OBVIOUS
<1>1. serve \in ServeRecords
    BY DEF ServeInv
<1>2. ServeTypeOK
    BY <1>1 DEF ServeTypeOK, ServeRecords
<1>3. ~NoneTwice => \E c \in Servers : serve.failed[c] > 1
    BY <1>1 DEF NoneTwice, ServeRecords
<1>4. serve.main = "panic" => ~NoneTwice
  <2> SUFFICES ASSUME serve.main = "panic", NoneTwice PROVE FALSE
      OBVIOUS
  <2>1. Owing \in SUBSET Servers /\ Cardinality(Owing) = -1
      BY DEF ServeInv, Owing
  <2>2. Cardinality(Owing) \in 0 .. NumServers
      BY <2>1, ServersAre
  <2> QED BY <2>1, <2>2
<1> QED BY <1>2, <1>3, <1>4 DEF ServesUntilAllFail, ServeInv, AllFailed

-----------------------------------------------------------------------------
(***************************************************************************)
(* Direct gets.  What is between the start and the next sequence was       *)
(* handled and nothing behind it was, for every option but that of         *)
(* subjects, whose messages come in no such order.                         *)
(***************************************************************************)

DirectRecords ==
  [option : StartOptions, since : 1 .. 3, stop : BOOLEAN, limit : {0, DirectLimit},
   main : {"info", "get", "done", "error", "panic"}, next : 0 .. MaxSeq + 1, from : Nat,
   start : BOOLEAN, msgs : SUBSET Nat, last : Nat, handled : SUBSET Nat,
   count : 0 .. DirectLimit, again : BOOLEAN, cancelled : BOOLEAN]

(* Where the loop is in the stream.                                         *)
LoopInOrder ==
  /\ direct.next <= direct.last + 1 /\ ~direct.again
  /\ \A h \in direct.handled : h < direct.next
  /\ direct.start => direct.handled = {} /\ direct.from = direct.since
  /\ direct.start => direct.main # "info" 
  /\ ~direct.start =>
       \A s \in direct.msgs : direct.from <= s /\ s < direct.next => s \in direct.handled
  /\ direct.main = "done" /\ ~direct.cancelled =>
       \A s \in direct.msgs : s >= direct.from => s \in direct.handled

DirectInv ==
  /\ direct \in DirectRecords
  /\ 2 <= direct.last /\ direct.last <= MaxSeq /\ \A s \in direct.msgs : 1 <= s /\ s <= direct.last
  /\ IF direct.limit > 0 THEN direct.cancelled <=> direct.count = direct.limit
     ELSE direct.count = 0
  /\ direct.main = "info" => direct.handled = {} /\ ~direct.start
  /\ direct.option # "subjects" => LoopInOrder

LEMMA MinIs ==
  ASSUME NEW S \in SUBSET Nat, S # {}
  PROVE  Min(S) \in S /\ \A y \in S : Min(S) <= y
<1>1. \E x \in S : \A y \in S : x <= y
    BY LeastNumber
<1> QED BY <1>1 DEF Min

LEMMA DirectStartsWell == ASSUME direct \in DirectStarts PROVE DirectInv
<1>1. PICK o \in StartOptions, since \in 1 .. 3, stop \in BOOLEAN, limit \in {0, DirectLimit},
           msgs \in SUBSET (1 .. 2) :
        direct = [option |-> o, since |-> since, stop |-> stop, limit |-> limit, main |-> "info",
          next |-> 0,
                  from |-> 0, start |-> FALSE, msgs |-> msgs, last |-> 2, handled |-> {},
                    count |-> 0,
                  again |-> FALSE, cancelled |-> FALSE]
    BY DEF DirectStarts
<1>2. msgs \in SUBSET Nat /\ 0 \in 0 .. MaxSeq + 1 /\ 0 \in 0 .. DirectLimit /\ 2 <= MaxSeq
      /\ \A s \in msgs : 1 <= s /\ s <= 2
    BY DirectAssumption
<1>3. direct \in DirectRecords
    BY <1>1, <1>2 DEF DirectRecords
<1>4. LoopInOrder
    BY <1>1, <1>2 DEF LoopInOrder
<1>5. /\ direct.last = 2 /\ direct.msgs = msgs /\ direct.limit = limit /\ direct.count = 0
      /\ ~direct.cancelled /\ direct.handled = {} /\ ~direct.start
    BY <1>1
<1>6. IF direct.limit > 0 THEN direct.cancelled <=> direct.count = direct.limit ELSE direct.count = 0
    BY <1>5, DirectAssumption
<1>7. 2 <= direct.last /\ direct.last <= MaxSeq /\ \A s \in direct.msgs : 1 <= s /\ s <= direct.last
  <2>1. MaxSeq \in Nat /\ direct.last = 2 /\ direct.msgs = msgs
      BY <1>5, DirectAssumption
  <2>2. 2 <= 2 /\ 2 <= MaxSeq
      BY <2>1, DirectAssumption
  <2>3. \A s \in direct.msgs : 1 <= s /\ s <= 2
      BY <1>2, <2>1
  <2> QED BY <2>1, <2>2, <2>3
<1> QED BY <1>3, <1>4, <1>5, <1>6, <1>7 DEF DirectInv

(* Where the state of the stream says to start.                             *)
LEMMA StartIs ==
  ASSUME DirectInv
  PROVE  /\ StartSequence \in 0 .. MaxSeq + 1
         /\ direct.option # "subjects" => StartSequence <= direct.last + 1
<1>1. direct \in DirectRecords /\ direct.last <= MaxSeq /\ 2 <= direct.last
    BY DEF DirectInv
<1>2. direct.option \in StartOptions /\ direct.since \in 1 .. 3 /\ direct.last \in Nat
      /\ MaxSeq \in Nat /\ MaxSeq >= 2
    BY <1>1, DirectAssumption DEF DirectRecords
<1>3. FirstOfStream \in 0 .. direct.last + 1
  <2>1. CASE direct.msgs = {}
      BY <1>2, <2>1 DEF FirstOfStream
  <2>2. CASE direct.msgs # {}
    <3>1. direct.msgs \in SUBSET Nat
        BY <1>1 DEF DirectRecords
    <3>2. Min(direct.msgs) \in direct.msgs
        BY <2>2, <3>1, MinIs
    <3>3. Min(direct.msgs) \in Nat /\ Min(direct.msgs) <= direct.last
        BY <3>1, <3>2 DEF DirectInv
    <3> QED BY <1>2, <2>2, <3>3 DEF FirstOfStream
  <2> QED BY <2>1, <2>2
<1> QED BY <1>1, <1>2, <1>3 DEF StartSequence, StartOptions

LEMMA DirectReads == ASSUME DirectInv, ReadsState PROVE DirectInv'
<1>1. direct \in DirectRecords /\ direct.main = "info" /\ direct.handled = {} /\ ~direct.start
    BY DEF DirectInv, ReadsState
<1>2. CASE direct' = [direct EXCEPT !.main = "panic"]
  <2>1. direct' \in DirectRecords
      BY <1>1, <1>2 DEF DirectRecords
  <2>2. /\ direct'.last = direct.last /\ direct'.msgs = direct.msgs /\ direct'.limit = direct.limit
        /\ direct'.count = direct.count /\ direct'.cancelled = direct.cancelled
        /\ direct'.handled = direct.handled /\ direct'.start = direct.start /\
             direct'.option = direct.option
        /\ direct'.next = direct.next /\ direct'.from = direct.from /\ direct'.again = direct.again
        /\ direct'.since = direct.since /\ direct'.main = "panic"
      BY <1>1, <1>2 DEF DirectRecords
  <2>3. LoopInOrder => LoopInOrder'
      BY <1>1, <2>2 DEF LoopInOrder
  <2> QED BY <2>1, <2>2, <2>3 DEF DirectInv
<1>3. CASE direct' = [direct EXCEPT !.main = "get", !.next = StartSequence,
                     !.start = direct.option = "since",
                     !.from = IF direct.option = "since" THEN direct.since ELSE StartSequence]
  <2>1. PICK next \in 0 .. MaxSeq + 1, from \in Nat, start \in BOOLEAN :
          /\ next = StartSequence /\ start = (direct.option = "since")
          /\ from = IF direct.option = "since" THEN direct.since ELSE StartSequence
    <3>1. StartSequence \in 0 .. MaxSeq + 1 /\ direct.since \in 1 .. 3
        BY <1>1, StartIs DEF DirectRecords
    <3>2. StartSequence \in Nat /\ direct.since \in Nat
        BY <3>1, DirectAssumption
    <3> QED BY <3>1, <3>2
  <2>2. direct' = [direct EXCEPT !.main = "get", !.next = next, !.start = start, !.from = from]
      BY <1>1, <1>3, <2>1 DEF DirectRecords
  <2>3. direct' \in DirectRecords
      BY <1>1, <2>2 DEF DirectRecords
  <2>4. /\ direct'.last = direct.last /\ direct'.msgs = direct.msgs /\ direct'.limit = direct.limit
        /\ direct'.count = direct.count /\ direct'.cancelled = direct.cancelled
        /\ direct'.handled = {} /\ direct'.start = start /\ direct'.option = direct.option
        /\ direct'.next = next /\ direct'.from = from /\ direct'.again = direct.again
        /\ direct'.since = direct.since /\ direct'.main = "get"
      BY <1>1, <2>2 DEF DirectRecords
  <2>5. direct.option # "subjects" => LoopInOrder'
    <3> SUFFICES ASSUME direct.option # "subjects" PROVE LoopInOrder'
        OBVIOUS
    <3>1. next <= direct.last + 1 /\ ~direct.again
        BY <2>1, StartIs DEF DirectInv, LoopInOrder
    <3>2. start => from = direct.since
        BY <2>1
    <3>3. ~start => \A s \in direct.msgs : ~(from <= s /\ s < next)
      <4>1. ~start => from = next
          BY <2>1
      <4>2. \A s \in direct.msgs : s \in Nat
          BY <1>1 DEF DirectRecords
      <4> QED BY <4>1, <4>2
    <3> QED BY <2>4, <3>1, <3>2, <3>3 DEF LoopInOrder
  <2> QED BY <1>1, <2>3, <2>4, <2>5 DEF DirectInv
<1> QED BY <1>2, <1>3 DEF ReadsState

(* What a batch brings: the first there is from the place of the loop on.   *)
LEMMA BatchIs ==
  ASSUME DirectInv
  PROVE  LET from == IF direct.start THEN direct.since ELSE direct.next IN
         /\ \A s \in DirectBatch : s \in direct.msgs
         /\ direct.option # "subjects" =>
              /\ \A s \in DirectBatch :
                   from <= s /\ \A m \in direct.msgs : m >= from => s <= m
              /\ DirectBatch = {} => \A m \in direct.msgs : ~(m >= from)
<1> DEFINE from == IF direct.start THEN direct.since ELSE direct.next
           found == {s \in direct.msgs : s >= from}
<1>1. direct.msgs \in SUBSET Nat /\ found \in SUBSET Nat /\ from \in Int
    BY DirectAssumption DEF DirectInv, DirectRecords
<1>2. found # {} => Min(found) \in found /\ \A y \in found : Min(found) <= y
    BY <1>1, MinIs
<1>3. DirectBatch = IF direct.option = "subjects" THEN {s \in direct.msgs : s <= direct.next}
                    ELSE IF found = {} THEN {} ELSE {Min(found)}
    BY DEF DirectBatch
<1>4. \A s \in found : s \in direct.msgs /\ from <= s
    BY <1>1
<1>5. \A m \in direct.msgs : m >= from => m \in found
    OBVIOUS
<1> HIDE DEF from, found
<1>6. \A s \in DirectBatch : s \in direct.msgs
  <2>1. CASE direct.option = "subjects"
      BY <1>3, <2>1
  <2>2. CASE direct.option # "subjects" /\ found = {}
      BY <1>3, <2>2
  <2>3. CASE direct.option # "subjects" /\ found # {}
      BY <1>2, <1>3, <1>4, <2>3
  <2> QED BY <2>1, <2>2, <2>3
<1>7. ASSUME direct.option # "subjects"
      PROVE  /\ \A s \in DirectBatch :
                   from <= s /\ \A m \in direct.msgs : m >= from => s <= m
             /\ DirectBatch = {} => \A m \in direct.msgs : ~(m >= from)
  <2>1. CASE found = {}
    <3>1. DirectBatch = {}
        BY <1>3, <1>7, <2>1
    <3> QED BY <1>5, <2>1, <3>1
  <2>2. CASE found # {}
    <3>1. DirectBatch = {Min(found)}
        BY <1>3, <1>7, <2>2
    <3>2. Min(found) \in found /\ \A y \in found : Min(found) <= y
        BY <1>2, <2>2
    <3> QED BY <1>4, <1>5, <3>1, <3>2
  <2> QED BY <2>1, <2>2
<1> QED BY <1>6, <1>7 DEF from

LEMMA DirectGetsOne == ASSUME DirectInv, GetsMessage PROVE DirectInv'
<1>1. direct \in DirectRecords /\ direct.main = "get" /\ ~direct.cancelled
    BY DEF DirectInv, GetsMessage
<1>2. PICK s \in DirectBatch :
       direct' = [direct EXCEPT
         !.start = FALSE, !.handled = @ \cup {s},
         !.again = @ \/ \E h \in direct.handled : h >= s,
         !.count = IF direct.limit > 0 THEN @ + 1 ELSE @,
         !.cancelled = direct.limit > 0 /\ direct.count + 1 = direct.limit,
         !.next = IF direct.option = "subjects" THEN Min({@ + 1, MaxSeq + 1}) ELSE s + 1]
    BY DEF GetsMessage
<1>3. s \in direct.msgs /\ s \in Nat /\ 1 <= s /\ s <= direct.last /\ direct.last \in Nat
      /\ direct.next \in 0 .. MaxSeq + 1 /\ MaxSeq \in Nat /\ direct.msgs \in SUBSET Nat
      /\ direct.limit \in {0, DirectLimit} /\ direct.count \in 0 .. DirectLimit
      /\ DirectLimit \in Nat \ {0} /\ direct.last <= MaxSeq /\ direct.handled \in SUBSET Nat
      /\ direct.from \in Nat /\ direct.since \in 1 .. 3
    BY <1>1, BatchIs, DirectAssumption DEF DirectInv, DirectRecords
<1> DEFINE count == IF direct.limit > 0 THEN direct.count + 1 ELSE direct.count
           cancelled == direct.limit > 0 /\ direct.count + 1 = direct.limit
           again == direct.again \/ \E h \in direct.handled : h >= s
           next == IF direct.option = "subjects" THEN Min({direct.next + 1, MaxSeq + 1}) ELSE s + 1
           handled == direct.handled \cup {s}
<1>4. /\ count \in 0 .. DirectLimit
      /\ IF direct.limit > 0 THEN cancelled <=> count = direct.limit ELSE count = 0
      /\ cancelled \in BOOLEAN /\ again \in BOOLEAN /\ handled \in SUBSET Nat
  <2>1. IF direct.limit > 0 THEN direct.count # direct.limit ELSE direct.count = 0
      BY <1>1 DEF DirectInv
  <2>2. direct.again \in BOOLEAN
      BY <1>1 DEF DirectRecords
  <2> QED BY <1>3, <2>1, <2>2
<1>5. next \in 0 .. MaxSeq + 1
  <2>1. CASE direct.option = "subjects"
    <3>1. {direct.next + 1, MaxSeq + 1} \in SUBSET Nat /\ {direct.next + 1, MaxSeq + 1} # {}
        BY <1>3
    <3>2. /\ Min({direct.next + 1, MaxSeq + 1}) \in {direct.next + 1, MaxSeq + 1}
          /\ Min({direct.next + 1, MaxSeq + 1}) <= MaxSeq + 1
        BY <3>1, MinIs
    <3> QED BY <1>3, <2>1, <3>2
  <2>2. CASE direct.option # "subjects"
      BY <1>3, <2>2
  <2> QED BY <2>1, <2>2
<1>6. direct' = [direct EXCEPT !.start = FALSE, !.handled = handled, !.again = again,
                               !.count = count, !.cancelled = cancelled, !.next = next]
    BY <1>1, <1>2 DEF DirectRecords
<1>7. direct.option # "subjects" => next = s + 1
    OBVIOUS
<1>8. (\A h \in direct.handled : ~(h >= s)) /\ ~direct.again => ~again
    OBVIOUS
<1>9. s \in handled /\ direct.handled \subseteq handled /\
        \A h \in handled : h \in direct.handled \/ h = s
    OBVIOUS
<1> HIDE DEF count, cancelled, again, next, handled
<1>10. direct' \in DirectRecords
    BY <1>1, <1>4, <1>5, <1>6 DEF DirectRecords
<1>11. /\ direct'.last = direct.last /\ direct'.msgs = direct.msgs /\ direct'.limit = direct.limit
       /\ direct'.count = count /\ direct'.cancelled = cancelled
       /\ direct'.handled = handled /\ direct'.start = FALSE /\ direct'.option = direct.option
       /\ direct'.next = next /\ direct'.from = direct.from /\ direct'.again = again
       /\ direct'.since = direct.since /\ direct'.main = "get"
    BY <1>1, <1>6 DEF DirectRecords
<1>12. direct.option # "subjects" => LoopInOrder'
  <2> SUFFICES ASSUME direct.option # "subjects" PROVE LoopInOrder'
      OBVIOUS
  <2> DEFINE from == IF direct.start THEN direct.since ELSE direct.next
  <2>1. from <= s /\ \A m \in direct.msgs : m >= from => s <= m
      BY BatchIs
  <2>2. LoopInOrder /\ from \in Nat
      BY <1>3 DEF DirectInv
  <2>3. \A h \in direct.handled : h < s
    <3>1. CASE direct.start
        BY <2>2, <3>1 DEF LoopInOrder
    <3>2. CASE ~direct.start
        BY <1>3, <2>1, <2>2, <3>2 DEF LoopInOrder
    <3> QED BY <3>1, <3>2
  <2>4. ~again
      BY <1>3, <1>8, <2>2, <2>3 DEF LoopInOrder
  <2>5. \A h \in handled : h < next
      BY <1>3, <1>7, <1>9, <2>3
  <2>6. ASSUME NEW m \in direct.msgs, direct.from <= m, m < next PROVE m \in handled
    <3>1. m \in Nat /\ m <= s
        BY <1>3, <1>7, <2>6
    <3>2. CASE m >= from
        BY <1>3, <1>9, <2>1, <2>2, <3>1, <3>2
    <3>3. CASE ~(m >= from)
      <4>1. ~direct.start /\ m < direct.next
          BY <1>3, <2>2, <2>6, <3>1, <3>3 DEF LoopInOrder
      <4>2. m \in direct.handled
          BY <2>2, <2>6, <4>1 DEF LoopInOrder
      <4> QED BY <1>9, <4>2
    <3> QED BY <3>2, <3>3
  <2>7. next <= direct.last + 1
      BY <1>3, <1>7
  <2> QED BY <1>11, <2>4, <2>5, <2>6, <2>7 DEF LoopInOrder
<1> QED BY <1>4, <1>10, <1>11, <1>12 DEF DirectInv

LEMMA DirectGetsNone == ASSUME DirectInv, GetsNothing \/ GetFails \/ GetCancelled PROVE DirectInv'
<1>1. direct \in DirectRecords /\ direct.main = "get"
    BY DEF DirectInv, GetsNothing, GetFails, GetCancelled
<1>2. PICK start \in BOOLEAN, to \in {"get", "done", "error"} :
        /\ direct' = [direct EXCEPT !.start = start, !.main = to]
        /\ \/ start = direct.start /\ (to = "error" \/ direct.cancelled)
           \/ ~start /\ DirectBatch = {}
  <2>1. CASE GetsNothing
      BY <1>1, <2>1 DEF GetsNothing
  <2>2. CASE GetFails \/ GetCancelled
    <3>1. direct.start \in BOOLEAN /\ direct = [direct EXCEPT !.start = direct.start]
        BY <1>1 DEF DirectRecords
    <3> QED BY <1>1, <2>2, <3>1 DEF GetFails, GetCancelled, DirectRecords
  <2> QED BY <2>1, <2>2
<1>3. direct' \in DirectRecords
    BY <1>1, <1>2 DEF DirectRecords
<1>4. /\ direct'.last = direct.last /\ direct'.msgs = direct.msgs /\ direct'.limit = direct.limit
      /\ direct'.count = direct.count /\ direct'.cancelled = direct.cancelled
      /\ direct'.handled = direct.handled /\ direct'.start = start /\ direct'.option = direct.option
      /\ direct'.next = direct.next /\ direct'.from = direct.from /\ direct'.again = direct.again
      /\ direct'.since = direct.since /\ direct'.main = to
    BY <1>1, <1>2 DEF DirectRecords
<1>5. direct.option # "subjects" => LoopInOrder'
  <2> SUFFICES ASSUME direct.option # "subjects" PROVE LoopInOrder'
      OBVIOUS
  <2>1. LoopInOrder
      BY DEF DirectInv
  <2>2. CASE start = direct.start /\ (to = "error" \/ direct.cancelled)
      BY <1>2, <1>4, <2>1, <2>2 DEF LoopInOrder
  <2>3. CASE ~start /\ DirectBatch = {}
    <3>1. direct.msgs \in SUBSET Nat /\ direct.from \in Nat /\ direct.next \in Nat
        BY <1>1, DirectAssumption DEF DirectRecords
    <3>2. \A m \in direct.msgs : ~(m >= IF direct.start THEN direct.since ELSE direct.next)
        BY <2>3, BatchIs
    <3>3. \A m \in direct.msgs : m >= direct.from => m \in direct.handled
      <4> TAKE m \in direct.msgs
      <4>1. CASE direct.start
          BY <2>1, <3>1, <3>2, <4>1 DEF LoopInOrder
      <4>2. CASE ~direct.start
          BY <2>1, <3>1, <3>2, <4>2 DEF LoopInOrder
      <4> QED BY <4>1, <4>2
    <3> QED BY <1>2, <1>4, <2>1, <2>3, <3>1, <3>3 DEF LoopInOrder
  <2> QED BY <1>2, <2>2, <2>3
<1> QED BY <1>1, <1>2, <1>3, <1>4, <1>5 DEF DirectInv

LEMMA DirectChanges == ASSUME DirectInv, StoresMessage \/ RemovesMessage PROVE DirectInv'
<1>1. /\ direct \in DirectRecords /\ ~DirectOver /\ direct.last \in Nat /\
           direct.msgs \in SUBSET Nat
      /\ direct.last <= MaxSeq /\ MaxSeq \in Nat /\ direct.next \in Nat
    BY DirectAssumption DEF DirectInv, StoresMessage, RemovesMessage, DirectRecords
<1>2. PICK msgs \in SUBSET Nat, last \in Nat :
        /\ direct' = [direct EXCEPT !.msgs = msgs, !.last = last]
        /\ direct.last <= last /\ last <= MaxSeq
        /\ \A s \in msgs : s \in direct.msgs \/ (s = direct.last + 1 /\ last = direct.last + 1)
  <2>1. CASE StoresMessage
    <3>1. direct.last + 1 \in Nat /\ direct.last + 1 <= MaxSeq
          /\ direct.msgs \cup {direct.last + 1} \in SUBSET Nat
        BY <1>1, <2>1 DEF StoresMessage
    <3>2. direct' = [direct EXCEPT !.msgs = direct.msgs \cup {direct.last + 1},
            !.last = direct.last + 1]
        BY <1>1, <2>1 DEF StoresMessage, DirectRecords
    <3> DEFINE m == direct.msgs \cup {direct.last + 1}
               l == direct.last + 1
    <3>3. m \in SUBSET Nat /\ l \in Nat /\ direct.last <= l /\ l <= MaxSeq
        BY <1>1, <3>1
    <3>4. \A s \in m : s \in direct.msgs \/ (s = direct.last + 1 /\ l = direct.last + 1)
        OBVIOUS
    <3> HIDE DEF m, l
    <3>5. direct' = [direct EXCEPT !.msgs = m, !.last = l]
        BY <3>2 DEF m, l
    <3> QED BY <3>3, <3>4, <3>5
  <2>2. CASE RemovesMessage
    <3>1. PICK s \in direct.msgs : direct' = [direct EXCEPT !.msgs = @ \ {s}]
        BY <2>2 DEF RemovesMessage
    <3>2. direct' = [direct EXCEPT !.msgs = direct.msgs \ {s}, !.last = direct.last]
        BY <1>1, <3>1 DEF DirectRecords
    <3> DEFINE m == direct.msgs \ {s}
               l == direct.last
    <3>3. m \in SUBSET Nat /\ l \in Nat /\ direct.last <= l /\ l <= MaxSeq
        BY <1>1
    <3>4. \A d \in m : d \in direct.msgs \/ (d = direct.last + 1 /\ l = direct.last + 1)
        OBVIOUS
    <3> HIDE DEF m, l
    <3>5. direct' = [direct EXCEPT !.msgs = m, !.last = l]
        BY <3>2 DEF m, l
    <3> QED BY <3>3, <3>4, <3>5
  <2> QED BY <2>1, <2>2
<1>3. direct' \in DirectRecords
    BY <1>1, <1>2 DEF DirectRecords
<1>4. /\ direct'.last = last /\ direct'.msgs = msgs /\ direct'.limit = direct.limit
      /\ direct'.count = direct.count /\ direct'.cancelled = direct.cancelled
      /\ direct'.handled = direct.handled /\ direct'.start = direct.start /\
           direct'.option = direct.option
      /\ direct'.next = direct.next /\ direct'.from = direct.from /\ direct'.again = direct.again
      /\ direct'.since = direct.since /\ direct'.main = direct.main
    BY <1>1, <1>2 DEF DirectRecords
<1>5. direct.option # "subjects" => LoopInOrder'
  <2> SUFFICES ASSUME direct.option # "subjects" PROVE LoopInOrder'
      OBVIOUS
  <2>1. LoopInOrder
      BY DEF DirectInv
  <2>2. direct.next <= last + 1
      BY <1>1, <1>2, <2>1 DEF LoopInOrder
  <2>3. \A s \in msgs : s < direct.next => s \in direct.msgs
      BY <1>1, <1>2, <2>1 DEF LoopInOrder
  <2> QED BY <1>1, <1>4, <2>1, <2>2, <2>3 DEF LoopInOrder, DirectOver
<1>6. \A s \in msgs : 1 <= s /\ s <= last
    BY <1>1, <1>2 DEF DirectInv
<1>7. 2 <= last
    BY <1>1, <1>2 DEF DirectInv
<1> QED BY <1>2, <1>3, <1>4, <1>5, <1>6, <1>7 DEF DirectInv

LEMMA DirectGoesOn == ASSUME DirectInv, DirectStep PROVE DirectInv'
BY DirectReads, DirectGetsOne, DirectGetsNone, DirectChanges DEF DirectStep, DirectRuns

LEMMA DirectFine == DirectInv => DirectTypeOK /\ DirectOnce
<1> SUFFICES ASSUME DirectInv PROVE DirectTypeOK /\ DirectOnce
    OBVIOUS
<1>1. direct \in DirectRecords
    BY DEF DirectInv
<1>2. /\ direct.next \in 0 .. MaxSeq + 1 /\ direct.msgs \in SUBSET Nat /\ direct.from \in Nat
      /\ direct.count \in 0 .. DirectLimit /\ direct.last \in Nat
      /\ direct.limit \in {0, DirectLimit} /\ DirectLimit \in Nat
    BY <1>1, DirectAssumption DEF DirectRecords
<1>3. direct.msgs \subseteq 1 .. direct.last
    BY <1>2 DEF DirectInv
<1>4. DirectTypeOK
    BY <1>2, <1>3 DEF DirectTypeOK
<1>5. direct.limit > 0 => direct.count <= direct.limit
    BY <1>2
<1>6. direct.option # "subjects" => LoopInOrder
    BY DEF DirectInv
<1>7. \A s \in direct.msgs : s \in direct.from .. direct.next - 1 => direct.from <= s /\
        s < direct.next
    BY <1>2, DirectAssumption
<1> QED BY <1>4, <1>5, <1>6, <1>7 DEF DirectOnce, LoopInOrder

-----------------------------------------------------------------------------
(***************************************************************************)
(* All of the program: each command keeps the invariant of its own part and *)
(* leaves the variables of the others alone.                                *)
(***************************************************************************)
AllInv ==
  /\ command \in Commands /\ MessagingInv
  /\ TopInv /\ WatchInv /\ PingInv /\ ConnzInv /\ ExporterInv /\ CheckInv /\ ServeInv /\ DirectInv

(* What belongs to another command starts like its own would.               *)
LEMMA StartsAre ==
  ASSUME NEW name, NEW starts, starts # {} PROVE Starting(name, starts) \subseteq starts
BY DEF Starting

LEMMA ReportsMayStart ==
  TopStarts # {} /\ WatchStarts # {} /\ PingStarts # {} /\ ConnzStarts # {}
<1>1. TopStarts # {}
  BY TopAssumption DEF TopStarts
<1>2. WatchStarts # {}
  BY DEF WatchStarts
<1>3. PingStarts # {}
  BY PingAssumption DEF PingStarts
<1>4. ConnzStarts # {}
  <2>1. PICK n : n = [h \in Hosts |-> 0]
    OBVIOUS
  <2>2. n \in [Hosts -> 0 .. MaxConns]
    BY <2>1, ConnectionsAssumption
  <2>3. PICK c : c = [main |-> "discover", filter |-> FALSE, watching |-> FALSE,
                      table |-> [h \in Hosts |-> Upto(n[h])], opened |-> n, offset |-> 0,
                      more |-> FALSE, pages |-> {}, churn |-> 0, deaf |-> FALSE]
    OBVIOUS
  <2>4. \E f \in BOOLEAN, w \in BOOLEAN, m \in [Hosts -> 0 .. MaxConns] :
          c = [main |-> "discover", filter |-> f, watching |-> w,
               table |-> [h \in Hosts |-> Upto(m[h])], opened |-> m, offset |-> 0,
               more |-> FALSE, pages |-> {}, churn |-> 0, deaf |-> FALSE]
    BY <2>2, <2>3
  <2> QED
    BY <2>4 DEF ConnzStarts
<1> QED
  BY <1>1, <1>2, <1>3, <1>4

LEMMA ChecksMayStart ==
  ExporterStarts # {} /\ CheckStarts # {} /\ ServeStarts # {} /\ DirectStarts # {}
<1>1. ExporterStarts # {}
  BY DEF ExporterStarts
<1>2. CheckStarts # {}
  <2>1. PICK s : s = [last |-> 1, lost |-> 0, delivered |-> 0, leader |-> {}]
    OBVIOUS
  <2>2. s \in ReplicaStates("stream") /\ s.last = 1 /\ s.delivered = 0
    BY <2>1, ReplicaAssumption DEF ReplicaStates, Position, Leaders
  <2>3. PICK r : r = [p \in Peers |-> s]
    OBVIOUS
  <2>4. r \in [Peers -> {t \in ReplicaStates("stream") : t.last = 1 /\ t.delivered = 0}]
    BY <2>2, <2>3
  <2>5. PICK F, nothing, none :
          /\ F = [Peers -> {t \in ReplicaStates("stream") : t.last = 1 /\ t.delivered = 0}]
          /\ nothing = <<>> /\ none = {}
    OBVIOUS
  <2>6. PICK c : c = [kind |-> "stream", unsynced |-> TRUE, group |-> "none",
                      main |-> "connect", replicas |-> r, replies |-> nothing, rows |-> none]
    OBVIOUS
  <2>7. \E u \in BOOLEAN, g \in {"none", "unnamed", "named"}, v \in F :
          c = [kind |-> "stream", unsynced |-> u, group |-> g, main |-> "connect",
               replicas |-> v, replies |-> nothing, rows |-> none]
    BY <2>4, <2>5, <2>6
  <2>8. c \in {[kind |-> "stream", unsynced |-> u, group |-> g, main |-> "connect",
                replicas |-> v, replies |-> nothing, rows |-> none] :
                  u \in BOOLEAN, g \in {"none", "unnamed", "named"}, v \in F}
    BY <2>7
  <2> QED
    BY <2>5, <2>8 DEF CheckStarts
<1>3. ServeStarts # {}
  BY DEF ServeStarts
<1>4. DirectStarts # {}
  <2>1. "all" \in StartOptions /\ 1 \in 1 .. 3 /\ {} \in SUBSET (1 .. 2)
    BY DEF StartOptions
  <2>2. PICK c : c = [option |-> "all", since |-> 1, stop |-> TRUE, limit |-> 0, main |-> "info",
                      next |-> 0, from |-> 0, start |-> FALSE, msgs |-> {}, last |-> 2,
                      handled |-> {}, count |-> 0, again |-> FALSE, cancelled |-> FALSE]
    OBVIOUS
  <2>3. \E o \in StartOptions, s \in 1 .. 3, stop \in BOOLEAN, limit \in {0, DirectLimit},
           msgs \in SUBSET (1 .. 2) :
          c = [option |-> o, since |-> s, stop |-> stop, limit |-> limit, main |-> "info",
               next |-> 0, from |-> 0, start |-> FALSE, msgs |-> msgs, last |-> 2,
               handled |-> {}, count |-> 0, again |-> FALSE, cancelled |-> FALSE]
    BY <2>1, <2>2
  <2> QED
    BY <2>3 DEF DirectStarts
<1> QED
  BY <1>1, <1>2, <1>3, <1>4

LEMMA AllStartWell == Init => AllInv
<1> SUFFICES ASSUME Init PROVE AllInv
  OBVIOUS
<1>1. /\ top \in TopStarts /\ watch \in WatchStarts /\ ping \in PingStarts /\ connz \in ConnzStarts
  BY ReportsMayStart, StartsAre DEF Init
<1>2. /\ exporter \in ExporterStarts /\ check \in CheckStarts /\ serve \in ServeStarts
      /\ direct \in DirectStarts
  BY ChecksMayStart, StartsAre DEF Init
<1>3. command \in Commands
  BY DEF Init
<1> QED
  BY <1>1, <1>2, <1>3, MessagingStartsWell, TopStartsWell, WatchStartsWell, PingStartsWell,
     ConnzStartsWell, ExporterStartsWell, CheckStartsWell, ServeStartsWell, DirectStartsWell
     DEF AllInv

(* The parts that a step leaves alone.                                      *)
LEMMA TopStays == ASSUME TopInv, UNCHANGED top PROVE TopInv'
BY DEF TopInv, TopRecords, SamplesInOrder, Late, LateOnes

LEMMA WatchStays == ASSUME WatchInv, UNCHANGED watch PROVE WatchInv'
BY DEF WatchInv, WatchRecords, LettersHold, Genuine, Comes, OnItsWay, FiguresHold, LatestComes,
       PhasesHold, Heeded

LEMMA PingStays == ASSUME PingInv, UNCHANGED ping PROVE PingInv'
BY DEF PingInv, PingRecords, Missing

LEMMA ConnzStays == ASSUME ConnzInv, UNCHANGED connz PROVE ConnzInv'
BY DEF ConnzInv, ConnzFields, ConnzTyped, TablesHold, PagesHold, Ahead, ListedIn, GotTo,
       AllReached, Undisturbed, Wants

LEMMA ExporterStays == ASSUME ExporterInv, UNCHANGED exporter PROVE ExporterInv'
BY DEF ExporterInv, ExporterRecords, ScrapesInOrder, MutexHolds, ConnectionsCounted, Holds,
       Managing

LEMMA CheckStays == ASSUME CheckInv, UNCHANGED check PROVE CheckInv'
BY DEF CheckInv, CheckFields, RowsAreTrue, Replied, Alike

LEMMA ServeStays == ASSUME ServeInv, UNCHANGED serve PROVE ServeInv'
BY DEF ServeInv, ServeRecords, FailuresNoted, Waiting, Released, Owing, NoneTwice, AllFailed

LEMMA DirectStays == ASSUME DirectInv, UNCHANGED direct PROVE DirectInv'
BY DEF DirectInv, DirectRecords, LoopInOrder

(* One step: the part of the command that runs, and all the others.         *)
LEMMA AllGoOn ==
  ASSUME AllInv, [Next]_vars PROVE AllInv' /\ [ScreenGoesOn]_top
<1>1. /\ command \in Commands /\ MessagingInv
      /\ TopInv /\ WatchInv /\ PingInv /\ ConnzInv /\ ExporterInv /\ CheckInv /\ ServeInv
      /\ DirectInv
  BY DEF AllInv
<1>2. command' = command
  <2>1. MessagingNext => command' = command
    BY DEF MessagingNext, Publishing, Measuring, Route, Reply, Delivers, Alone, ReplierRuns,
           ReplierInterrupted, ReplierGivesUp
  <2> QED
    BY <2>1 DEF Next, vars, messagingVars, Messages, Tops, Watches, Pinging, Reporting, Exporting,
                Comparing, Serving, Getting
<1>3. CASE Messages(MessagingNext)
  <2>1. MessagingInv'
    BY <1>1, <1>3, MessagingGoesOn DEF Messages
  <2> QED
    BY <1>1, <1>2, <1>3, <2>1, TopStays, WatchStays, PingStays, ConnzStays, ExporterStays,
       CheckStays, ServeStays, DirectStays DEF AllInv, Messages
<1>4. CASE Tops(TopRuns \/ Corrects \/ UserTypes)
  <2>1. MessagingInv'
    BY <1>1, <1>4, MessagingStays DEF Tops
  <2>2. TopInv' /\ ScreenGoesOn
    BY <1>1, <1>4, TopGoesOn DEF Tops
  <2> QED
    BY <1>1, <1>2, <1>4, <2>1, <2>2, WatchStays, PingStays, ConnzStays, ExporterStays,
       CheckStays, ServeStays, DirectStays DEF AllInv, Tops
<1>5. CASE Watches(WatchStep)
  <2>1. MessagingInv'
    BY <1>1, <1>5, MessagingStays DEF Watches
  <2>2. WatchInv'
    BY <1>1, <1>5, WatchGoesOn DEF Watches
  <2> QED
    BY <1>1, <1>2, <1>5, <2>1, <2>2, TopStays, PingStays, ConnzStays, ExporterStays,
       CheckStays, ServeStays, DirectStays DEF AllInv, Watches
<1>6. CASE Pinging(PingStep)
  <2>1. MessagingInv'
    BY <1>1, <1>6, MessagingStays DEF Pinging
  <2>2. PingInv'
    BY <1>1, <1>6, PingMoves, PingHears DEF Pinging, PingStep
  <2> QED
    BY <1>1, <1>2, <1>6, <2>1, <2>2, TopStays, WatchStays, ConnzStays, ExporterStays,
       CheckStays, ServeStays, DirectStays DEF AllInv, Pinging
<1>7. CASE Reporting(ConnzStep)
  <2>1. MessagingInv'
    BY <1>1, <1>7, MessagingStays DEF Reporting
  <2>2. ConnzInv'
    BY <1>1, <1>7, ConnzGoesOn DEF Reporting
  <2> QED
    BY <1>1, <1>2, <1>7, <2>1, <2>2, TopStays, WatchStays, PingStays, ExporterStays,
       CheckStays, ServeStays, DirectStays DEF AllInv, Reporting
<1>8. CASE Exporting(ExporterStep)
  <2>1. MessagingInv'
    BY <1>1, <1>8, MessagingStays DEF Exporting
  <2>2. ExporterInv'
    BY <1>1, <1>8, ExporterMoves, ExporterReads DEF Exporting, ExporterStep
  <2> QED
    BY <1>1, <1>2, <1>8, <2>1, <2>2, TopStays, WatchStays, PingStays, ConnzStays,
       CheckStays, ServeStays, DirectStays DEF AllInv, Exporting
<1>9. CASE Comparing(CheckStep)
  <2>1. MessagingInv'
    BY <1>1, <1>9, MessagingStays DEF Comparing
  <2>2. CheckInv'
    BY <1>1, <1>9, CheckGoesOn DEF Comparing
  <2> QED
    BY <1>1, <1>2, <1>9, <2>1, <2>2, TopStays, WatchStays, PingStays, ConnzStays,
       ExporterStays, ServeStays, DirectStays DEF AllInv, Comparing
<1>10. CASE Serving(ServeStep)
  <2>1. MessagingInv'
    BY <1>1, <1>10, MessagingStays DEF Serving
  <2>2. ServeInv'
    BY <1>1, <1>10, ServeGoesOn DEF Serving
  <2> QED
    BY <1>1, <1>2, <1>10, <2>1, <2>2, TopStays, WatchStays, PingStays, ConnzStays,
       ExporterStays, CheckStays, DirectStays DEF AllInv, Serving
<1>11. CASE Getting(DirectStep)
  <2>1. MessagingInv'
    BY <1>1, <1>11, MessagingStays DEF Getting
  <2>2. DirectInv'
    BY <1>1, <1>11, DirectGoesOn DEF Getting
  <2> QED
    BY <1>1, <1>2, <1>11, <2>1, <2>2, TopStays, WatchStays, PingStays, ConnzStays,
       ExporterStays, CheckStays, ServeStays DEF AllInv, Getting
<1>12. CASE UNCHANGED vars
  <2>1. MessagingInv'
    BY <1>1, <1>12, MessagingStays DEF vars
  <2> QED
    BY <1>1, <1>2, <1>12, <2>1, TopStays, WatchStays, PingStays, ConnzStays, ExporterStays,
       CheckStays, ServeStays, DirectStays DEF AllInv, vars
<1> QED
  BY <1>3, <1>4, <1>5, <1>6, <1>7, <1>8, <1>9, <1>10, <1>11, <1>12 DEF Next

LEMMA AllAlways == Spec => []AllInv
<1>1. AllInv /\ [Next]_vars => AllInv'
  BY AllGoOn
<1> QED
  BY AllStartWell, <1>1, PTL DEF Spec

(***************************************************************************)
(* Every variable has its type, for any number of servers, replicas, checks *)
(* and clients.                                                             *)
(***************************************************************************)
THEOREM TypeCorrect == Spec => []TypeOK
<1>1. AllInv => TypeOK
  BY MessagingFine, TopFine, WatchFine, PingFine, ConnzFine, ExporterFine, CheckFine, ServeFine,
     DirectFine DEF AllInv, TypeOK
<1> QED
  BY <1>1, AllAlways, PTL

(***************************************************************************)
(* What the commands show is so: the screen of top follows the choices of  *)
(* the user but for two samples (topAction), a watch catches up with the   *)
(* servers, a ping counts right, no connection is listed twice and, but for *)
(* the one that each offset passes over, none is left out (getConnz), each *)
(* check has one connection, replicas are rightly compared, a service that *)
(* is served ends with its clients, and direct gets bring each message once. *)
(***************************************************************************)
THEOREM ReportsHold == Spec => []ReportsAreTrue
<1>1. AllInv => ReportsAreTrue
  BY TopFine, WatchFine, PingFine, ConnzFine, ExporterFine, CheckFine, ServeFine, DirectFine
     DEF AllInv, ReportsAreTrue
<1> QED
  BY <1>1, AllAlways, PTL

(***************************************************************************)
(* The screen of top does not go back in time, whatever is typed, resized  *)
(* and drawn while samples come in (the goroutines of topAction).          *)
(***************************************************************************)
THEOREM ScreensOnlyGoOn == Spec => ScreensGoOn
<1>1. AllInv /\ [Next]_vars => [ScreenGoesOn]_top
  BY AllGoOn
<1> QED
  BY <1>1, AllAlways, PTL DEF Spec, ScreensGoOn
=============================================================================
