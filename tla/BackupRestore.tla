--------------------------- MODULE BackupRestore ----------------------------
(***************************************************************************)
(* An account is backed up, and what the backup has left in the directory,  *)
(* however it ended, is restored into an account.                          *)
(***************************************************************************)
EXTENDS Restore

vars == <<backupVars, restoreVars>>

TypeOK == BackupTypeOK /\ RestoreTypeOK

Init == BackupInit /\ RestoreInit

BackupStep ==
  /\ BackupNext
  /\ UNCHANGED <<account, step, existing, left>>

RestoreStep ==
  /\ cmd \in {"ok", "failed"}
  /\ RestoreNext
  /\ UNCHANGED <<options, cmd, listed, todo, cur, outcome, idle, snapshot,
                 unseen>>

Next == BackupStep \/ RestoreStep

Spec == Init /\ [][Next]_vars /\ BackupFairness

\* What a successful restore of a successful backup brings back: of every
\* stream that was listed the whole, with two exceptions and no other.  A stream
\* in memory, which the backup warned of, is not restored; and a stream whose
\* idle timer had cancelled the snapshot and not yet set timedOut when
\* backupStream read it is restored without its end, and nobody is told.
\* Nothing is restored that was not listed.
RoundTrip ==
  cmd = "ok" /\ step = "restored" =>
    /\ Restored \subseteq listed
    /\ \A s \in listed :
         \/ account[s] = "whole"
         \/ s \in memory \cap warns /\ ~failOnWarn /\ s \notin Restored
         \/ s \in unseen /\ account[s] = "cut"
=============================================================================
