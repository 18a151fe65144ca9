------------------------------ MODULE Restore -------------------------------
(***************************************************************************)
(* `nats backup restore account` (restoreAccountAction and restoreStream in *)
(* cli/backup_command.go): the names of the streams that exist are fetched *)
(* once, every subdirectory is checked against them, and then the streams  *)
(* are restored one after the other until the first failure ends the       *)
(* process.  Others may create streams meanwhile.                          *)
(*                                                                         *)
(* An operator whose comment says "Mutant" is no part of the model: it is   *)
(* the operator it names with a plausible bug, which a property refutes.   *)
(***************************************************************************)
EXTENDS Backup

VARIABLES
  account,    \* the streams of the account that is restored into
  step,       \* where the command is, or how it ended
  existing,   \* existingStreams
  left        \* subdirectories not yet checked, then not yet restored

restoreVars == <<disk, account, step, existing, left>>

Restored == {s \in Streams : account[s] \in {"whole", "cut"}}
Present == {s \in Streams : account[s] # "absent"}

RestoreTypeOK ==
  /\ DirectoryTypeOK
  /\ account \in [Streams -> {"absent", "foreign", "whole", "cut"}]
  /\ step \in {"idle", "check", "restore", "restored", "refused", "failed"}
  /\ existing \subseteq Streams
  /\ left \subseteq Directories

RestoreInit ==
  /\ account = [s \in Streams |-> "absent"]
  /\ step = "idle"
  /\ existing = {} /\ left = {}

\* mgr.StreamNames() and os.ReadDir().
Names ==
  /\ step = "idle"
  /\ existing' = Present
  /\ left' = Directories
  /\ step' = "check"
  /\ UNCHANGED <<disk, account>>

NamesFail ==
  /\ step = "idle"
  /\ step' = "failed"
  /\ UNCHANGED <<disk, account, existing, left>>

\* Mutant of Check: each directory is restored as soon as it is checked.
CheckLazily ==
  /\ step = "check"
  /\ step' = "restore"
  /\ left' = Directories
  /\ UNCHANGED <<disk, account, existing>>

\* All directories are checked before the first is restored.
Check ==
  /\ step = "check"
  /\ IF \E s \in left : s \in existing \/ disk[s] = "partial"
     THEN step' = "refused" /\ UNCHANGED left
     ELSE step' = "restore" /\ left' = Directories
  /\ UNCHANGED <<disk, account, existing>>

\* mgr.IsKnownStream(): the stream has come into being since.
Known(s) ==
  /\ step = "restore" /\ s \in left
  /\ s \in Present
  /\ step' = "failed"
  /\ UNCHANGED <<disk, account, existing, left>>

\* Mutant of RestoreOne: a failing restore is passed over.
RestoreOneOrNot(s) ==
  /\ step = "restore" /\ s \in left
  /\ s \notin Present
  /\ disk[s] \in {"cut", "whole"}
  /\ \/ account' = [account EXCEPT ![s] = disk[s]]
     \/ UNCHANGED account
  /\ left' = left \ {s}
  /\ UNCHANGED <<disk, step, existing>>

\* The server takes what is in the directory, if it can make sense of it.
RestoreOne(s) ==
  /\ step = "restore" /\ s \in left
  /\ s \notin Present
  /\ disk[s] \in {"cut", "whole"}
  /\ account' = [account EXCEPT ![s] = disk[s]]
  /\ left' = left \ {s}
  /\ UNCHANGED <<disk, step, existing>>

\* fatalIfError() in restoreStream, before or after the stream is there.
RestoreFails(s) ==
  /\ step = "restore" /\ s \in left
  /\ \/ UNCHANGED account
     \/ /\ s \notin Present /\ disk[s] \in {"cut", "whole"}
        /\ account' = [account EXCEPT ![s] = disk[s]]
  /\ step' = "failed"
  /\ UNCHANGED <<disk, existing, left>>

AllRestored ==
  /\ step = "restore" /\ left = {}
  /\ step' = "restored"
  /\ UNCHANGED <<disk, account, existing, left>>

\* Somebody else creates a stream, or has done so before.
Create(s) ==
  /\ step \in {"idle", "check", "restore"}
  /\ account[s] = "absent"
  /\ account' = [account EXCEPT ![s] = "foreign"]
  /\ UNCHANGED <<disk, step, existing, left>>

RestoreCommand ==
  \/ Names \/ NamesFail \/ Check \/ AllRestored
  \/ \E s \in Streams : Known(s) \/ RestoreOne(s) \/ RestoreFails(s)

RestoreNext == RestoreCommand \/ \E s \in Streams : Create(s)

(***************************************************************************)
(* Properties.                                                             *)
(***************************************************************************)

\* What the check looks for stops the restore before it has changed anything:
\* no stream is restored while there is a directory without a backup.json or
\* one whose stream already existed when the names were fetched.  A directory
\* with a backup.json is not looked into: a backup that lacks its end passes.
NothingRestoredInVain ==
  Restored # {} =>
    \A s \in Directories : disk[s] # "partial" /\ s \notin existing

\* A restore that reports success has restored every directory there is.
RestoreIsComplete ==
  step = "restored" => \A s \in Directories : account[s] = disk[s]
=============================================================================
