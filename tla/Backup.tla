------------------------------- MODULE Backup -------------------------------
(***************************************************************************)
(* `nats backup account` (backupCmd.accountAction in cli/backup_command.go): *)
(* the streams of an account are backed up one after the other, a failure  *)
(* of one is remembered and the others are still tried.  Each backup       *)
(* (backupStream) has an idle timer of its own, whose function cancels the *)
(* snapshot and then says so in a variable, timedOut, that backupStream     *)
(* reads when the snapshot returns.  Nothing orders the write before the    *)
(* read, and the timer is never stopped.                                   *)
(*                                                                         *)
(* The library's SnapshotToDirectory returns without an error when its      *)
(* context is cancelled: timedOut is only looked at in that case.           *)
(*                                                                         *)
(* An operator whose comment says "Mutant" is no part of the model: it is   *)
(* the operator it names with a plausible bug, which a property refutes.   *)
(***************************************************************************)
EXTENDS Naturals

CONSTANTS
  Streams,     \* the streams of the account
  Chunks       \* chunks of a snapshot

NoStream == "no stream"

ASSUME BackupAssumption ==
  /\ Chunks \in Nat \ {0}
  /\ NoStream \notin Streams

VARIABLES
  disk,       \* what the directory holds of each stream
  failOnWarn, healthCheck,   \* options
  memory,     \* the streams that are kept in memory, known when they are tried
  cmd,        \* where the command is, or how it ended
  listed,     \* the streams mgr.Streams() returned
  todo,       \* those of them still to be backed up
  cur,        \* the one being backed up
  good, errs, warns,  \* how the others went
  timer,      \* the idle timer of each stream: "due" is time to fire
  firing,     \* timers whose function has cancelled and not yet said so
  cancelled,  \* streams whose context is cancelled
  timedOut,   \* the variable of that name of each backupStream
  sent,       \* chunks the library has of the current stream
  received,   \* chunks the callback knows of
  checking,   \* the server is checking the stream's health
  unseen      \* history: streams whose timer was firing when timedOut was read

options == <<failOnWarn, healthCheck>>
outcome == <<good, errs, warns, memory>>
idle == <<timer, firing, cancelled, timedOut>>
snapshot == <<sent, received, checking>>
backupVars ==
  <<disk, options, cmd, listed, todo, cur, outcome, idle, snapshot, unseen>>

(***************************************************************************)
(* The directory of the backup: one subdirectory for each stream, which     *)
(* `nats backup restore account` reads (Restore).  What is in one is the    *)
(* work of the library: nothing, files without the backup.json that is      *)
(* written last, a backup that lacks its end, or a whole one.               *)
(***************************************************************************)
Contents == {"none", "partial", "cut", "whole"}

DirectoryTypeOK == disk \in [Streams -> Contents]

DirectoryInit == disk = [s \in Streams |-> "none"]

Directories == {s \in Streams : disk[s] # "none"}

-----------------------------------------------------------------------------
Ended == {"ok", "failed", "declined"}

BackupTypeOK ==
  /\ DirectoryTypeOK
  /\ failOnWarn \in BOOLEAN /\ healthCheck \in BOOLEAN
  /\ memory \subseteq Streams
  /\ cmd \in {"list", "confirm", "next", "snapshot", "returned"} \cup Ended
  /\ listed \subseteq Streams /\ todo \subseteq listed
  /\ cur \in listed \cup {NoStream}
  /\ good \subseteq listed /\ errs \subseteq listed /\ warns \subseteq listed
  /\ timer \in [Streams -> {"off", "armed", "due"}]
  /\ firing \subseteq Streams /\ cancelled \subseteq Streams
  /\ timedOut \subseteq Streams
  /\ sent \in 0..Chunks /\ received \in 0..Chunks
  /\ checking \in BOOLEAN
  /\ unseen \subseteq Streams

BackupInit ==
  /\ DirectoryInit
  /\ failOnWarn \in BOOLEAN /\ healthCheck \in BOOLEAN
  /\ memory = {}
  /\ cmd = "list"
  /\ listed = {} /\ todo = {} /\ cur = NoStream
  /\ good = {} /\ errs = {} /\ warns = {}
  /\ timer = [s \in Streams |-> "off"]
  /\ firing = {} /\ cancelled = {} /\ timedOut = {}
  /\ sent = 0 /\ received = 0
  /\ checking = FALSE
  /\ unseen = {}

(***************************************************************************)
(* accountAction.                                                          *)
(***************************************************************************)

\* mgr.Streams() tells which streams it could not ask: missing ones are always
\* an error, offline ones unless --force, which also spares the question that
\* comes before the target directory is created.
List ==
  /\ cmd = "list"
  /\ \E missing, offline \in SUBSET Streams, force \in BOOLEAN :
       /\ missing \cap offline = {}
       /\ listed' = Streams \ (missing \cup offline)
       /\ cmd' \in IF \/ missing # {}
                      \/ ~force /\ offline # {}
                      \/ listed' = {}
                   THEN {"failed"}
                   ELSE IF force THEN {"next", "failed"} ELSE {"confirm"}
  /\ todo' = listed'
  /\ UNCHANGED <<disk, options, cur, outcome, idle, snapshot, unseen>>

\* The user is asked, and the target directory is created.
Confirm ==
  /\ cmd = "confirm"
  /\ cmd' \in {"next", "declined", "failed"}
  /\ UNCHANGED <<disk, options, listed, todo, cur, outcome, idle, snapshot,
                 unseen>>

\* backupStream starts its timer, then the snapshot.
Begin(s) ==
  /\ cmd = "next" /\ s \in todo
  /\ todo' = todo \ {s}
  /\ cur' = s
  /\ timer' = [timer EXCEPT ![s] = "armed"]
  /\ sent' = 0 /\ received' = 0
  /\ checking' = healthCheck
  /\ memory' \in {memory, memory \cup {s}}
  /\ cmd' = "snapshot"
  /\ UNCHANGED <<disk, options, listed, good, errs, warns, firing, cancelled,
                 timedOut, unseen>>

\* Mutant of Failed: the loop ends with the first stream that fails.
FailedStops(memoryOnly) ==
  /\ errs' = IF memoryOnly THEN errs ELSE errs \cup {cur}
  /\ warns' = IF memoryOnly THEN warns \cup {cur} ELSE warns
  /\ cmd' = IF memoryOnly THEN "next" ELSE "failed"
  /\ cur' = NoStream
  /\ UNCHANGED <<good, memory>>

\* Mutant of Failed: the name is cleared before it is recorded.
FailedUnnamed(memoryOnly) ==
  /\ errs' = IF memoryOnly THEN errs ELSE errs \cup {NoStream}
  /\ warns' = IF memoryOnly THEN warns \cup {NoStream} ELSE warns
  /\ cmd' = "next"
  /\ cur' = NoStream
  /\ UNCHANGED <<good, memory>>

\* backupStream returns an error; a stream in memory is only worth a warning.
Failed(memoryOnly) ==
  /\ errs' = IF memoryOnly THEN errs ELSE errs \cup {cur}
  /\ warns' = IF memoryOnly THEN warns \cup {cur} ELSE warns
  /\ cmd' = "next"
  /\ cur' = NoStream
  /\ UNCHANGED <<good, memory>>

\* The process is gone, and its timers with it.
Exit ==
  /\ timer' = [s \in Streams |-> "off"]
  /\ firing' = {} /\ cancelled' = {} /\ timedOut' = {}
  /\ sent' = 0 /\ received' = 0 /\ checking' = FALSE

\* Mutant of Finish: a failure counts as a warning does.
FinishLeniently ==
  /\ cmd = "next" /\ todo = {}
  /\ cmd' = IF errs \cup warns # {} /\ failOnWarn THEN "failed" ELSE "ok"
  /\ Exit
  /\ UNCHANGED <<disk, options, listed, todo, cur, outcome, unseen>>

Finish ==
  /\ cmd = "next" /\ todo = {}
  /\ cmd' = IF errs # {} \/ (warns # {} /\ failOnWarn) THEN "failed" ELSE "ok"
  /\ Exit
  /\ UNCHANGED <<disk, options, listed, todo, cur, outcome, unseen>>

(***************************************************************************)
(* SnapshotToDirectory, and the progress it reports.                       *)
(***************************************************************************)

Running == cmd = "snapshot"

HealthChecked ==
  /\ Running /\ checking
  /\ checking' = FALSE
  /\ UNCHANGED <<disk, options, cmd, listed, todo, cur, outcome, idle, sent,
                 received, unseen>>

Chunk ==
  /\ Running /\ ~checking /\ cur \notin memory
  /\ sent < Chunks
  /\ sent' = sent + 1
  /\ UNCHANGED <<disk, options, cmd, listed, todo, cur, outcome, idle,
                 received, checking, unseen>>

\* Mutant of Notify: any report resets the timer.
NotifyResets ==
  /\ Running
  /\ timer' = [timer EXCEPT ![cur] = "armed"]
  /\ received' = sent
  /\ UNCHANGED <<disk, options, cmd, listed, todo, cur, outcome, firing,
                 cancelled, timedOut, sent, checking, unseen>>

\* The callback resets the timer if there are chunks it has not heard of.
Notify ==
  /\ Running
  /\ sent # received
  /\ timer' = [timer EXCEPT ![cur] = "armed"]
  /\ received' = sent
  /\ UNCHANGED <<disk, options, cmd, listed, todo, cur, outcome, firing,
                 cancelled, timedOut, sent, checking, unseen>>

\* It returns without an error: all is there, or the context was cancelled.
Return ==
  /\ Running /\ cur \notin memory
  /\ \/ sent = Chunks /\ disk' = [disk EXCEPT ![cur] = "whole"]
     \/ cur \in cancelled /\ disk' = [disk EXCEPT ![cur] = "cut"]
  /\ cmd' = "returned"
  /\ UNCHANGED <<options, listed, todo, cur, outcome, idle, snapshot, unseen>>

\* It returns an error, with or without files left behind.
ReturnError ==
  /\ Running /\ cur \notin memory
  /\ \E rest \in {"none", "partial"} : disk' = [disk EXCEPT ![cur] = rest]
  /\ Failed(FALSE)
  /\ UNCHANGED <<options, listed, todo, idle, snapshot, unseen>>

\* A stream in memory is refused.
ReturnNotSupported ==
  /\ Running /\ cur \in memory
  /\ \E rest \in {"none", "partial"} : disk' = [disk EXCEPT ![cur] = rest]
  /\ Failed(TRUE)
  /\ UNCHANGED <<options, listed, todo, idle, snapshot, unseen>>

\* The rest of backupStream.
LookAtTimedOut ==
  /\ cmd = "returned"
  /\ unseen' = IF cur \in firing THEN unseen \cup {cur} ELSE unseen
  /\ IF cur \in timedOut
     THEN Failed(FALSE)
     ELSE /\ good' = good \cup {cur} /\ cmd' = "next" /\ cur' = NoStream
          /\ UNCHANGED <<errs, warns, memory>>
  /\ UNCHANGED <<disk, options, listed, todo, idle, snapshot>>

(***************************************************************************)
(* The idle timers, also those of streams that are finished.               *)
(***************************************************************************)

TimePasses(s) ==
  /\ timer[s] = "armed"
  /\ timer' = [timer EXCEPT ![s] = "due"]
  /\ UNCHANGED <<disk, options, cmd, listed, todo, cur, outcome, firing,
                 cancelled, timedOut, snapshot, unseen>>

\* Mutant of Fire: the function uses the context of the stream that is current.
FireCurrent(s) ==
  /\ timer[s] = "due"
  /\ timer' = [timer EXCEPT ![s] = "off"]
  /\ firing' = firing \cup {s}
  /\ cancelled' = cancelled \cup ({cur} \ {NoStream})
  /\ UNCHANGED <<disk, options, cmd, listed, todo, cur, outcome, timedOut,
                 snapshot, unseen>>

Fire(s) ==
  /\ timer[s] = "due"
  /\ timer' = [timer EXCEPT ![s] = "off"]
  /\ firing' = firing \cup {s}
  /\ cancelled' = cancelled \cup {s}
  /\ UNCHANGED <<disk, options, cmd, listed, todo, cur, outcome, timedOut,
                 snapshot, unseen>>

SayTimedOut(s) ==
  /\ s \in firing
  /\ firing' = firing \ {s}
  /\ timedOut' = timedOut \cup {s}
  /\ UNCHANGED <<disk, options, cmd, listed, todo, cur, outcome, timer,
                 cancelled, snapshot, unseen>>

Timer(s) == TimePasses(s) \/ Fire(s) \/ SayTimedOut(s)

Timers == \E s \in Streams : Timer(s)

Command ==
  \/ List \/ Finish
  \/ \E s \in Streams : Begin(s)
  \/ Notify \/ Return \/ ReturnNotSupported \/ LookAtTimedOut

Server == HealthChecked \/ Chunk \/ ReturnError

BackupNext == Command \/ Confirm \/ Server \/ Timers

\* The command runs and time passes; the server may fall silent and the user
\* need not answer.
BackupFairness ==
  /\ WF_backupVars(Command)
  /\ \A s \in Streams : WF_backupVars(Timer(s))

BackupSpec == BackupInit /\ [][BackupNext]_backupVars /\ BackupFairness

(***************************************************************************)
(* Properties.                                                             *)
(***************************************************************************)

\* A backup that reports success holds every stream in full, with two
\* exceptions: streams in memory, which are reported as warnings, and streams
\* whose timer had cancelled the snapshot and not yet said so.  Of the latter
\* the directory has what had arrived, and the report does not tell.
SuccessIsWhole ==
  cmd = "ok" =>
    \A s \in listed :
      \/ disk[s] = "whole"
      \/ s \in memory /\ s \in warns /\ ~failOnWarn
      \/ s \in unseen /\ disk[s] = "cut"

\* A failure does not keep the other streams from being backed up: once the
\* command has begun, every stream it listed is accounted for exactly once.
EveryStreamIsTried ==
  cmd \in {"ok", "failed"} /\ good \cup errs \cup warns # {} =>
    /\ good \cup errs \cup warns = listed
    /\ good \cap errs = {} /\ (good \cup errs) \cap warns = {}

\* Once it has begun the command ends, also when the server falls silent.
BackupEnds == cmd = "next" ~> cmd \in Ended

\* "Health Check was requested, this can take a long time without progress
\* reports": the snapshot is not cancelled while the server is checking.
HealthCheckIsAwaited == Running /\ checking => cur \notin cancelled
=============================================================================
