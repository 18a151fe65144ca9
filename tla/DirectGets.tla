----------------------------- MODULE DirectGets -----------------------------
(***************************************************************************)
(* `nats sub --direct` (directSubscribe in cli/sub_command.go): a loop of   *)
(* batched direct gets, of one message each, from the sequence after the    *)
(* last one, while messages are stored and removed.  The handlers it calls  *)
(* are those of Subscribe, of which the limit is kept here.                 *)
(***************************************************************************)
EXTENDS Integers, FiniteSets, FiniteSetsExt

CONSTANTS
  MaxSeq,       \* the last message that is ever stored
  DirectLimit   \* --count, if there is one

ASSUME DirectAssumption == MaxSeq \in Nat /\ MaxSeq >= 2 /\ DirectLimit \in Nat \ {0}

VARIABLE direct

StartOptions == {"sequence", "last", "all", "new", "since", "subjects"}

(* A stream with or without gaps; since is the first message that is recent *)
(* enough for --since, or the sequence of --start-sequence.                 *)
DirectStarts ==
  {[option |-> o, since |-> s, stop |-> stop, limit |-> limit, main |-> "info", next |-> 0,
    from |-> 0, start |-> FALSE, msgs |-> msgs, last |-> 2, handled |-> {}, count |-> 0,
    again |-> FALSE, cancelled |-> FALSE] :
      o \in StartOptions, s \in 1 .. 3, stop \in BOOLEAN, limit \in {0, DirectLimit},
      msgs \in SUBSET (1 .. 2)}

DirectOver == direct.main \in {"done", "error", "panic"}

(* Where it starts: the state of the stream tells, which is read before the *)
(* error that comes in its place is looked at.                              *)
FirstOfStream == IF direct.msgs = {} THEN direct.last + 1 ELSE Min(direct.msgs)

StartSequence ==
  CASE direct.option = "sequence" -> direct.since
    [] direct.option = "all" -> FirstOfStream
    [] direct.option \in {"last", "subjects"} -> direct.last
    [] direct.option \in {"new", "since"} -> direct.last + 1

ReadsState ==
  /\ direct.main = "info"
  /\ \/ direct' = [direct EXCEPT !.main = "panic"]
     \/ direct' = [direct EXCEPT !.main = "get", !.next = StartSequence,
                     !.start = direct.option = "since",
                     !.from = IF direct.option = "since" THEN direct.since ELSE StartSequence]

(* What a batch of one message brings: the first from the sequence on, or   *)
(* from the start time on, which the first batch alone asks for, or the     *)
(* last message of some subject.                                            *)
DirectBatch ==
  LET from == IF direct.start THEN direct.since ELSE direct.next
      found == {s \in direct.msgs : s >= from}
  IN IF direct.option = "subjects" THEN {s \in direct.msgs : s <= direct.next}
     ELSE IF found = {} THEN {} ELSE {Min(found)}

(* The handler cancels what is running once there are enough messages.      *)
GetsMessage ==
  /\ direct.main = "get" /\ ~direct.cancelled
  /\ \E s \in DirectBatch :
       direct' = [direct EXCEPT
         !.start = FALSE, !.handled = @ \cup {s},
         !.again = @ \/ \E h \in direct.handled : h >= s,
         !.count = IF direct.limit > 0 THEN @ + 1 ELSE @,
         !.cancelled = direct.limit > 0 /\ direct.count + 1 = direct.limit,
         !.next = IF direct.option = "subjects" THEN Min({@ + 1, MaxSeq + 1}) ELSE s + 1]

(* ErrNoMessages: without the option to stop it asks again at once.         *)
GetsNothing ==
  /\ direct.main = "get" /\ ~direct.cancelled /\ DirectBatch = {}
  /\ direct' = [direct EXCEPT !.start = FALSE, !.main = IF direct.stop THEN "done" ELSE @]

GetFails == direct.main = "get" /\ direct' = [direct EXCEPT !.main = "error"]
GetCancelled ==
  direct.main = "get" /\ direct.cancelled /\ direct' = [direct EXCEPT !.main = "done"]

DirectRuns == ReadsState \/ GetsMessage \/ GetsNothing \/ GetCancelled

(* Others store messages, and remove any.                                   *)
StoresMessage ==
  /\ ~DirectOver /\ direct.last < MaxSeq
  /\ direct' = [direct EXCEPT !.last = @ + 1, !.msgs = @ \cup {direct.last + 1}]
RemovesMessage ==
  /\ ~DirectOver
  /\ \E s \in direct.msgs : direct' = [direct EXCEPT !.msgs = @ \ {s}]

DirectStep == DirectRuns \/ (~direct.cancelled /\ GetFails) \/ StoresMessage \/ RemovesMessage

-----------------------------------------------------------------------------
DirectTypeOK ==
  /\ direct.next \in 0 .. MaxSeq + 1 /\ direct.msgs \subseteq 1 .. direct.last
  /\ direct.count \in 0 .. DirectLimit

(* Messages are handled in the order of the stream and none twice, and none *)
(* is passed over that is still there, whatever is stored and removed       *)
(* meanwhile; no more of them than the limit; and one that stops because    *)
(* there are no more has handled all there are.  Asked for the last message *)
(* per subject it may bring one again and again (direct).                   *)
DirectOnce ==
  /\ direct.limit > 0 => direct.count <= direct.limit
  /\ direct.option # "subjects" =>
       /\ ~direct.again
       /\ \A s \in direct.msgs : s \in direct.from .. direct.next - 1 /\ ~direct.start =>
            s \in direct.handled
       /\ direct.main = "done" /\ ~direct.cancelled =>
            \A s \in direct.msgs : s >= direct.from => s \in direct.handled

(* With the option to stop it does, as others store no more in the end.     *)
DirectEnds == direct.stop /\ direct.option # "subjects" => DirectOver
=============================================================================
