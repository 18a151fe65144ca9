----------------------------- MODULE Publisher -----------------------------
(***************************************************************************)
(* `nats pub` and `nats req`: internal/util/publisher.go runs a callback    *)
(* of pub_command.go or req_command.go on a goroutine while the main        *)
(* goroutine waits for it or for a signal; another goroutine copies stdin   *)
(* into a pipe the callback reads from.  A signal closes the reading end    *)
(* of that pipe and lets main return, with the callback still running       *)
(* until the connection is closed.                                          *)
(*                                                                         *)
(* A chunk is what one call of ReadStdin returns: a line when sending on    *)
(* newlines, all of stdin when sending on EOF.  Without stdin the body      *)
(* given on the command line is the only chunk.  Each is sent --count times *)
(*                                                                         *)
(* An operator whose comment says "Mutant" is no part of the model: it is   *)
(* the operator it names with a plausible bug, which a property refutes.   *)
(***************************************************************************)
EXTENDS Integers, Sequences

CONSTANTS
  Jobs,      \* the command lines to consider
  MaxLines,  \* bound: lines that arrive on stdin
  Wanted,    \* --replies of `nats req`, 0 waits until the timeout
  MaxDrops   \* bound: times the connection is lost

(* A command line: which of the four callbacks runs, when it sends, whether *)
(* stdin is its input, whether the headers it was given can be parsed, and  *)
(* whether --reply was given.                                              *)
Job == [kind : {"core", "js", "atomic", "req"}, sendOn : {"eof", "newline"},
        stdin : BOOLEAN, headers : BOOLEAN, replyTo : BOOLEAN, count : Nat \ {0}]

ASSUME PublisherAssumption ==
  /\ \A j \in Jobs : j \in Job /\ (j.kind = "atomic" => j.stdin /\ j.sendOn = "newline")
  /\ MaxLines \in Nat /\ Wanted \in Nat /\ MaxDrops \in Nat

VARIABLES
  job,        \* the command line of this process
  copied,     \* lines the copying goroutine has moved into the pipe's reader
  source,     \* how the writing end of the pipe stands
  hung,       \* has main closed the reading end after a signal?
  chunk,      \* the chunk the callback works on, 0 before the first
  copy,       \* which of its copies is next
  eof,        \* has the callback seen the end of its input?
  pc,         \* where the callback is
  pending,    \* the messages of the atomic batch
  staged,     \* how many of them the server holds, -1 when one was lost
  inbox,      \* replies that wait for the callback, of the current request
  got,        \* replies the callback has counted
  signalled,  \* has a signal arrived?
  main,       \* where the main goroutine is, or how the command ended
  conn,       \* is the connection up?
  drops,      \* times it was lost
  outbox,     \* what the client holds until it is connected again
  wire        \* what the server has received or stored, in order

input == <<copied, source, hung>>
work == <<chunk, copy, eof, pc, pending, staged>>
replies == <<inbox, got>>
link == <<conn, drops, outbox, wire>>
publisherVars == <<job, input, work, replies, signalled, main, link>>

Finished == {"ok", "error", "interrupted"}
Stdin == job.stdin
OnEof == job.sendOn = "eof"

(* A message: the copy of a chunk, whether it carries the subject and the   *)
(* headers that were asked for, and what a reply to it would reach.         *)
Msg(c, n) ==
  [chunk |-> c, copy |-> n, dressed |-> TRUE,
   reply |-> IF job.kind = "req" THEN "inbox" ELSE IF job.replyTo THEN "subject" ELSE "none"]
Message == [chunk : Nat, copy : Nat, dressed : BOOLEAN,
            reply : {"inbox", "subject", "none"}]
Copies(c) == [n \in 1 .. job.count |-> Msg(c, n)]

PublisherInit ==
  /\ job \in Jobs
  /\ copied = 0 /\ source = "open" /\ hung = FALSE
  /\ chunk = (IF job.stdin THEN 0 ELSE 1) /\ copy = 1 /\ eof = ~job.stdin
  /\ pc = (IF job.stdin THEN "read" ELSE "send")
  /\ pending = <<>> /\ staged = 0
  /\ inbox = <<>> /\ got = 0
  /\ signalled = FALSE /\ main = "select"
  /\ conn = TRUE /\ drops = 0 /\ outbox = <<>> /\ wire = <<>>

-----------------------------------------------------------------------------
(* The process around the callback *)

(* NewPublisher's goroutine: io.Copy moves stdin into the pipe until stdin  *)
(* ends or fails, and then closes the writing end.                          *)
CopyLine ==
  /\ Stdin /\ source = "open" /\ ~hung /\ main \notin Finished /\ copied < MaxLines
  /\ copied' = copied + 1
  /\ UNCHANGED <<job, source, hung, work, replies, signalled, main, link>>

CloseSource ==
  /\ Stdin /\ source = "open" /\ main \notin Finished
  /\ source' \in {"eof", "failed"}
  /\ UNCHANGED <<job, copied, hung, work, replies, signalled, main, link>>

Signal ==
  /\ ~signalled /\ main = "select"
  /\ signalled' = TRUE
  /\ UNCHANGED <<job, input, work, replies, main, link>>

(* Mutant of RunInterrupted: Run waits for the callback after a signal. *)
RunWaitsForCallback ==
  /\ main = "select" /\ signalled /\ pc \in {"ok", "error"}
  /\ main' = "leaving"
  /\ UNCHANGED <<job, input, work, replies, signalled, link>>

(* Run's select.  With both channels ready either case may be taken.        *)
RunInterrupted ==
  /\ main = "select" /\ signalled
  /\ hung' = Stdin
  /\ main' = "leaving"
  /\ UNCHANGED <<job, copied, source, work, replies, signalled, link>>

(* nc.Close: what the client still holds is lost, and the process ends.     *)
RunCompleted ==
  /\ main = "select" /\ pc \in {"ok", "error"}
  /\ main' = pc /\ outbox' = <<>>
  /\ UNCHANGED <<job, input, work, replies, signalled, conn, drops, wire>>

CloseAfterSignal ==
  /\ main = "leaving"
  /\ main' = "interrupted" /\ outbox' = <<>>
  /\ UNCHANGED <<job, input, work, replies, signalled, conn, drops, wire>>

(* The connection is lost while nothing is being sent.                      *)
Disconnect ==
  /\ conn /\ drops < MaxDrops /\ main \notin Finished
  /\ conn' = FALSE /\ drops' = drops + 1
  /\ UNCHANGED <<job, input, work, replies, signalled, main, outbox, wire>>

(* MaxReconnects(-1): the client reconnects and sends what it held.         *)
Reconnect ==
  /\ ~conn /\ main \notin Finished
  /\ conn' = TRUE /\ wire' = wire \o outbox /\ outbox' = <<>>
  /\ UNCHANGED <<job, input, work, replies, signalled, main, drops>>

-----------------------------------------------------------------------------
(* The callback: reading *)

Running(at) == pc = at /\ main \notin Finished

(* Mutant of AtEnd: the reader is closed without an error. *)
AtEndWhenHung == source = "eof" \/ hung

(* The read end of a closed pipe fails, unless the writer had closed it     *)
(* and nobody the reader; what the buffered reader already holds is         *)
(* returned first.                                                          *)
AtEnd == source = "eof" /\ ~hung
Broken == hung \/ source = "failed"

Body == /\ chunk' = chunk + 1 /\ copy' = 1 /\ pc' = "send"
        /\ UNCHANGED <<job, input, pending, staged, replies, signalled, main, link>>

(* ReadStdin on EOF returns all of stdin at once, and an empty stdin is     *)
(* still a body.                                                            *)
ReadAll ==
  /\ Running("read") /\ OnEof /\ AtEnd
  /\ eof' = TRUE /\ Body

(* ReadStdin on newline returns the next line; a last line without newline  *)
(* that ends where the reader's buffer does comes together with the end.    *)
ReadLine ==
  /\ Running("read") /\ ~OnEof /\ chunk < copied
  /\ \/ eof' = FALSE
     \/ AtEnd /\ chunk + 1 = copied /\ eof' = TRUE
  /\ Body

(* The end of stdin: nothing is left, the batch is committed or the command *)
(* is done.                                                                 *)
ReadEnd ==
  /\ Running("read") /\ ~OnEof /\ chunk = copied /\ AtEnd
  /\ eof' = TRUE
  /\ pc' = IF job.kind = "atomic" THEN "commit" ELSE "ok"
  /\ UNCHANGED <<job, input, chunk, copy, pending, staged, replies, signalled, main, link>>

Fail == /\ pc' = "error"
        /\ UNCHANGED <<job, input, chunk, copy, eof, pending, staged, replies, signalled, main>>

ReadFails ==
  /\ Running("read") /\ Broken /\ (OnEof \/ chunk = copied)
  /\ Fail /\ UNCHANGED link

-----------------------------------------------------------------------------
(* The callback: sending *)

(* Where the loops of the callbacks go after a chunk, and after a copy.     *)
AfterChunk == IF ~Stdin \/ OnEof \/ eof THEN "ok" ELSE "read"

(* Mutant of NextCopy: the copies are counted from zero. *)
NextCopyFromZero ==
  /\ IF copy <= job.count THEN copy' = copy + 1 /\ pc' = "send"
                          ELSE copy' = copy /\ pc' = AfterChunk
  /\ UNCHANGED <<job, input, chunk, eof, pending, staged, signalled, main>>

NextCopy ==
  /\ IF copy < job.count THEN copy' = copy + 1 /\ pc' = "send"
                     ELSE copy' = copy /\ pc' = AfterChunk
  /\ UNCHANGED <<job, input, chunk, eof, pending, staged, signalled, main>>

(* What becomes of one message given to the client: it reaches the server,  *)
(* is lost with the connection, or waits for the next connection.           *)
Reaches(m) == conn /\ wire' = Append(wire, m) /\ UNCHANGED <<conn, drops, outbox>>
Lost == conn /\ drops < MaxDrops /\ conn' = FALSE /\ drops' = drops + 1
             /\ UNCHANGED <<outbox, wire>>
Held(m) == ~conn /\ outbox' = Append(outbox, m) /\ UNCHANGED <<conn, drops, wire>>

(* PrepareMsg and PublishMsg refuse a message, or LastError reports what    *)
(* the server said of it.                                                   *)
PublishFails ==
  /\ Running("send") /\ job.kind \in {"core", "req"}
  /\ \/ UNCHANGED link
     \/ job.kind = "core" /\ job.headers
        /\ (Reaches(Msg(chunk, copy)) \/ Lost \/ Held(Msg(chunk, copy)))
  /\ Fail

(* publishNatsMsg: the error of Flush is not looked at.                     *)
PublishCore ==
  /\ Running("send") /\ job.kind = "core" /\ job.headers
  /\ \/ Reaches(Msg(chunk, copy))
     \/ Lost
     \/ Held(Msg(chunk, copy))
  /\ NextCopy /\ UNCHANGED replies

(* doJetstream: the message is stored and its acknowledgement arrives.      *)
PublishJS ==
  /\ Running("send") /\ job.kind = "js" /\ job.headers
  /\ Reaches(Msg(chunk, copy))
  /\ NextCopy /\ UNCHANGED replies

(* Mutant of PublishJSFails: a failed request is sent again. *)
PublishJSRetries ==
  /\ Running("send") /\ job.kind = "js" /\ job.headers
  /\ Reaches(Msg(chunk, copy)) \/ Lost \/ Held(Msg(chunk, copy))
  /\ UNCHANGED <<job, input, work, replies, signalled, main>>

(* Mutant of PublishJSFails: the error is always only logged. *)
PublishJSLogsErrors ==
  /\ Running("send") /\ job.kind = "js"
  /\ UNCHANGED link /\ pc' = AfterChunk
  /\ UNCHANGED <<job, input, chunk, copy, eof, pending, staged, replies, signalled, main>>

(* The request or its acknowledgement fails: sending on EOF returns the     *)
(* error, sending on newline logs it and leaves the other copies out.       *)
PublishJSFails ==
  /\ Running("send") /\ job.kind = "js"
  /\ \/ UNCHANGED link
     \/ job.headers /\ (Reaches(Msg(chunk, copy)) \/ Lost \/ Held(Msg(chunk, copy)))
  /\ pc' = IF OnEof THEN "error" ELSE AfterChunk
  /\ UNCHANGED <<job, input, chunk, copy, eof, pending, staged, replies, signalled, main>>

(* addToBatch: all copies, or none when the headers cannot be parsed, which *)
(* is only logged.                                                          *)
AddToBatch ==
  /\ Running("send") /\ job.kind = "atomic"
  /\ pending' = IF job.headers THEN pending \o Copies(chunk) ELSE pending
  /\ pc' = IF eof THEN "commit" ELSE "read"
  /\ UNCHANGED <<job, input, chunk, copy, eof, staged, replies, signalled, main, link>>

-----------------------------------------------------------------------------
(* writeAtomic *)

(* Nothing to publish, no stream, or a stream that does not allow it.       *)
CommitRefused == Running("commit") /\ Fail /\ UNCHANGED link

CommitStarts ==
  /\ Running("commit") /\ pending # <<>>
  /\ pc' = "adding"
  /\ UNCHANGED <<job, input, chunk, copy, eof, pending, staged, replies, signalled, main, link>>

Unstaged == IF staged = -1 THEN {} ELSE staged + 1 .. Len(pending) - 1

(* AddMsg hands one message to the server, which may not get it; an error   *)
(* gives the batch up.                                                      *)
AddMsg ==
  /\ Running("adding") /\ Unstaged # {}
  /\ \/ conn /\ staged' = staged + 1 /\ UNCHANGED link
     \/ Lost /\ staged' = -1
     \/ ~conn /\ staged' = -1 /\ UNCHANGED link
  /\ UNCHANGED <<job, input, chunk, copy, eof, pc, pending, replies, signalled, main>>

AddMsgFails == Running("adding") /\ Unstaged # {} /\ Fail /\ UNCHANGED link

(* Commit sends the body of the last message, to the subject of the command *)
(* line and without its headers; the server stores the batch if it has all  *)
(* of it.                                                                   *)
LastMsg == [pending[Len(pending)] EXCEPT !.dressed = FALSE, !.reply = "none"]
Batch == [pending EXCEPT ![Len(pending)] = LastMsg]

Commit ==
  /\ Running("adding") /\ Unstaged = {} /\ staged # -1 /\ conn
  /\ wire' = wire \o Batch
  /\ pc' \in {"ok", "error"}
  /\ UNCHANGED <<job, input, chunk, copy, eof, pending, staged, replies, signalled, main,
                 conn, drops, outbox>>

CommitFails == Running("adding") /\ Unstaged = {} /\ Fail /\ (UNCHANGED link \/ Lost)

-----------------------------------------------------------------------------
(* doReq *)

(* Subscribe to a new inbox and send the request.                           *)
SendRequest ==
  /\ Running("send") /\ job.kind = "req" /\ job.headers
  /\ \/ Reaches(Msg(chunk, copy))
     \/ Lost
     \/ Held(Msg(chunk, copy))
  /\ inbox' = <<>> /\ got' = 0 /\ pc' = "wait"
  /\ UNCHANGED <<job, input, chunk, copy, eof, pending, staged, signalled, main>>

(* NextMsg returned a reply: enough have come, or the first empty one has.  *)
Enough(r) == Wanted > 0 /\ (got + 1 = Wanted \/ r = "empty")

CountReply ==
  /\ Running("wait") /\ inbox # <<>> /\ Head(inbox) # "no_responders"
  /\ inbox' = Tail(inbox) /\ got' = got + 1
  /\ IF Enough(Head(inbox)) THEN NextCopy
     ELSE UNCHANGED <<job, input, work, signalled, main>>
  /\ UNCHANGED link

(* Nobody listens: the command ends, whatever is left of its input.         *)
NobodyListens ==
  /\ Running("wait") /\ inbox # <<>> /\ Head(inbox) = "no_responders"
  /\ inbox' = Tail(inbox) /\ pc' = "ok"
  /\ UNCHANGED <<job, input, chunk, copy, eof, pending, staged, got, signalled, main, link>>

(* NextMsg times out: the next request is sent.  How long it waits, the     *)
(* timeout at first and the average of the replies and --reply-timeout      *)
(* later, is left open: it may time out before any reply.                   *)
RequestTimesOut ==
  /\ Running("wait")
  /\ NextCopy /\ UNCHANGED <<replies, link>>

Callback ==
  \/ ReadAll \/ ReadLine \/ ReadEnd \/ ReadFails
  \/ PublishFails \/ PublishCore \/ PublishJS \/ PublishJSFails
  \/ AddToBatch \/ CommitRefused \/ CommitStarts \/ AddMsg \/ AddMsgFails
  \/ Commit \/ CommitFails
  \/ SendRequest \/ CountReply \/ NobodyListens \/ RequestTimesOut

MainLoop == RunInterrupted \/ RunCompleted \/ CloseAfterSignal

Environment == CopyLine \/ CloseSource \/ Signal \/ Disconnect \/ Reconnect
=============================================================================
