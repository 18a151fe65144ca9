------------------------ MODULE BackupRestoreProofs -------------------------
(***************************************************************************)
(* For any set of streams and any size of their snapshots: an account      *)
(* backup that reports success holds what it says, all streams are tried,  *)
(* a restore changes nothing when it could have known that it must fail,   *)
(* and one that reports success brings back what was backed up.            *)
(*                                                                         *)
(* The first rests on timers: whoever is cancelled is either still being   *)
(* told so or has been told, so a snapshot that was cut short is noticed    *)
(* unless its timer is in between.  The last rests on nothing writing to    *)
(* the directory once the backup has ended.                                *)
(***************************************************************************)
EXTENDS BackupRestore, TLAPS

(***************************************************************************)
(* The inductive invariant.                                                *)
(***************************************************************************)

Accounted == good \cup errs \cup warns

\* Where each listed stream is: to do, current, or accounted for, once.
Accounting ==
  /\ cmd \in {"snapshot", "returned"} <=> cur # NoStream
  /\ cur \notin todo \cup Accounted
  /\ Accounted \cap todo = {}
  /\ listed \ {cur} = todo \cup Accounted
  /\ good \cap errs = {} /\ (good \cup errs) \cap warns = {}
  /\ warns \subseteq memory
  /\ cmd \in {"list", "confirm"} => Accounted = {} /\ cur = NoStream
  /\ cmd \in Ended => todo = {} \/ Accounted = {}
  /\ cmd = "ok" => todo = {} /\ errs = {} /\ (warns # {} => ~failOnWarn)

\* What the directory holds of the streams that went well.
Holdings ==
  /\ cancelled \subseteq firing \cup timedOut
  /\ \A s \in good : disk[s] = "whole" \/ (disk[s] = "cut" /\ s \in unseen)
  /\ cmd = "returned" =>
       disk[cur] = "whole" \/ (disk[cur] = "cut" /\ cur \in cancelled)

\* Restored directories are in the account.
Restoring ==
  /\ step = "idle" => left = {}
  /\ step # "idle" => cmd \in {"ok", "failed"}
  /\ step = "restore" =>
       \A s \in Directories \ left : account[s] = disk[s]
  /\ step = "restored" => \A s \in Directories : account[s] = disk[s]

IInv == TypeOK /\ Accounting /\ Holdings /\ Restoring

-----------------------------------------------------------------------------
(***************************************************************************)
(* The invariant holds at first and survives every step.                   *)
(***************************************************************************)

LEMMA Initially == Init => IInv
<1> SUFFICES ASSUME Init PROVE IInv
  OBVIOUS
<1>1. BackupTypeOK
  <2>1. failOnWarn \in BOOLEAN /\ healthCheck \in BOOLEAN /\ checking \in BOOLEAN
    BY Zenon DEF Init, BackupInit
  <2>2. DirectoryTypeOK
    BY DEF Init, BackupInit, DirectoryInit, DirectoryTypeOK, Contents
  <2>3. /\ cmd = "list" /\ memory = {} /\ listed = {} /\ todo = {}
        /\ cur = NoStream /\ good = {} /\ errs = {} /\ warns = {}
        /\ timer \in [Streams -> {"off", "armed", "due"}]
        /\ firing = {} /\ cancelled = {} /\ timedOut = {} /\ unseen = {}
        /\ sent \in 0..Chunks /\ received \in 0..Chunks
    BY BackupAssumption DEF Init, BackupInit
  <2> QED
    BY <2>1, <2>2, <2>3, Zenon DEF BackupTypeOK
<1>2. RestoreTypeOK
  BY <1>1 DEF BackupTypeOK, RestoreTypeOK, Init, RestoreInit
<1>3. Accounting
  BY BackupAssumption DEF Init, BackupInit, Accounting, Accounted, Ended
<1>4. Holdings /\ Restoring
  BY DEF Init, BackupInit, RestoreInit, Holdings, Restoring
<1> QED
  BY <1>1, <1>2, <1>3, <1>4 DEF IInv, TypeOK

Flags ==
  /\ failOnWarn \in BOOLEAN /\ healthCheck \in BOOLEAN /\ checking \in BOOLEAN

Data ==
  /\ disk \in [Streams -> Contents]
  /\ memory \subseteq Streams
  /\ cmd \in {"list", "confirm", "next", "snapshot", "returned"} \cup Ended
  /\ listed \subseteq Streams /\ todo \subseteq listed
  /\ cur \in listed \cup {NoStream}
  /\ good \subseteq listed /\ errs \subseteq listed /\ warns \subseteq listed
  /\ timer \in [Streams -> {"off", "armed", "due"}]
  /\ firing \subseteq Streams /\ cancelled \subseteq Streams
  /\ timedOut \subseteq Streams
  /\ sent \in 0..Chunks /\ received \in 0..Chunks
  /\ unseen \subseteq Streams

LEMMA BackupTypeParts == BackupTypeOK <=> Flags /\ Data
BY Zenon DEF BackupTypeOK, DirectoryTypeOK, Flags, Data

LEMMA FlagsStep == Flags /\ BackupNext => Flags'
<1> SUFFICES ASSUME Flags, BackupNext PROVE Flags'
  OBVIOUS
<1>1. failOnWarn' = failOnWarn /\ healthCheck' = healthCheck
  BY Zenon DEF BackupNext, Command, Server, Timers, Timer, List, Confirm,
    Finish, Exit, Begin, Notify, Return, ReturnNotSupported, ReturnError,
    LookAtTimedOut, Failed, HealthChecked, Chunk, TimePasses, Fire,
    SayTimedOut, options
<1>2. checking' = checking \/ checking' = FALSE \/ checking' = healthCheck
  BY Zenon DEF BackupNext, Command, Server, Timers, Timer, List, Confirm,
    Finish, Exit, Begin, Notify, Return, ReturnNotSupported, ReturnError,
    LookAtTimedOut, Failed, HealthChecked, Chunk, TimePasses, Fire,
    SayTimedOut, snapshot
<1> QED
  BY <1>1, <1>2, Zenon DEF Flags

\* The backup's steps and the types of its variables.
LEMMA DataStep ==
  ASSUME Data, BackupNext,
         cmd \in {"snapshot", "returned"} => cur # NoStream,
         cmd = "list" => Accounted = {} /\ cur = NoStream
  PROVE  Data'
<1> USE DEF Data, Contents, Ended, options, outcome, idle, snapshot
<1>1. CASE List
  <2>1. /\ listed' \subseteq Streams /\ todo' = listed'
        /\ cmd' \in {"failed", "next", "confirm"}
    BY <1>1 DEF List
  <2>2. cur = NoStream /\ good = {} /\ errs = {} /\ warns = {}
    BY <1>1 DEF List, Accounted
  <2> QED
    BY <1>1, <2>1, <2>2 DEF List
<1>2. CASE Confirm
  BY <1>2 DEF Confirm
<1>3. CASE Finish
  BY <1>3, BackupAssumption DEF Finish, Exit
<1>4. ASSUME NEW s \in Streams, Begin(s) PROVE Data'
  BY <1>4, BackupAssumption DEF Begin
<1>5. CASE Notify
  BY <1>5 DEF Notify, Running
<1>6. CASE Return
  BY <1>6 DEF Return, Running
<1>7. CASE ReturnNotSupported \/ ReturnError
  <2>1. /\ cur \in listed
        /\ \E rest \in {"none", "partial"} : disk' = [disk EXCEPT ![cur] = rest]
    BY <1>7 DEF ReturnNotSupported, ReturnError, Running
  <2>2. disk' \in [Streams -> Contents]
    BY <2>1
  <2> QED
    BY <1>7, <2>1, <2>2, BackupAssumption DEF ReturnNotSupported, ReturnError, Failed, Running
<1>8. CASE LookAtTimedOut
  BY <1>8 DEF LookAtTimedOut, Failed
<1>9. CASE HealthChecked \/ Chunk
  BY <1>9, BackupAssumption DEF HealthChecked, Chunk, Running
<1>10. ASSUME NEW s \in Streams, Timer(s) PROVE Data'
  BY <1>10 DEF Timer, TimePasses, Fire, SayTimedOut
<1> QED
  BY <1>1, <1>2, <1>3, <1>4, <1>5, <1>6, <1>7, <1>8, <1>9, <1>10
  DEF BackupNext, Command, Server, Timers

LEMMA AccountingStep ==
  ASSUME Data, Accounting, BackupNext
  PROVE  Accounting'
<1> USE BackupAssumption DEF Accounting, Accounted, Ended, options, outcome,
        idle, snapshot
<1>1. CASE List
  <2>1. /\ todo' = listed' /\ listed' \subseteq Streams /\ cur' = NoStream
        /\ good' = {} /\ errs' = {} /\ warns' = {}
        /\ cmd' \in {"failed", "next", "confirm"}
    BY <1>1 DEF List
  <2> QED
    BY <2>1
<1>2. CASE Confirm
  BY <1>2 DEF Confirm
<1>3. CASE Finish
  BY <1>3 DEF Finish
<1>4. ASSUME NEW s \in Streams, Begin(s) PROVE Accounting'
  BY <1>4 DEF Begin, Data
<1>5. CASE Notify \/ Return \/ HealthChecked \/ Chunk
  BY <1>5 DEF Notify, Return, HealthChecked, Chunk, Running
<1>6. CASE ReturnNotSupported \/ ReturnError
  <2>1. cur \in listed /\ cur # NoStream
    BY <1>6 DEF ReturnNotSupported, ReturnError, Running, Data
  <2>2. /\ todo' = todo /\ listed' = listed /\ cur' = NoStream /\ cmd' = "next"
        /\ good' = good /\ memory' = memory
        /\ \/ errs' = errs \cup {cur} /\ warns' = warns
           \/ errs' = errs /\ warns' = warns \cup {cur} /\ cur \in memory
    BY <1>6 DEF ReturnNotSupported, ReturnError, Failed
  <2>3. NoStream \notin listed
    BY DEF Data
  <2> QED
    BY <2>1, <2>2, <2>3 DEF Data
<1>7. CASE LookAtTimedOut
  <2>1. cur \in listed /\ cur # NoStream
    BY <1>7 DEF LookAtTimedOut, Data
  <2>2. /\ todo' = todo /\ listed' = listed /\ cur' = NoStream /\ cmd' = "next"
        /\ warns' = warns /\ memory' = memory
        /\ \/ errs' = errs \cup {cur} /\ good' = good
           \/ errs' = errs /\ good' = good \cup {cur}
    BY <1>7 DEF LookAtTimedOut, Failed
  <2>3. NoStream \notin listed
    BY DEF Data
  <2> QED
    BY <2>1, <2>2, <2>3 DEF Data
<1>8. ASSUME NEW s \in Streams, Timer(s) PROVE Accounting'
  BY <1>8 DEF Timer, TimePasses, Fire, SayTimedOut
<1> QED
  BY <1>1, <1>2, <1>3, <1>4, <1>5, <1>6, <1>7, <1>8
  DEF BackupNext, Command, Server, Timers

\* Cancelling and saying so: a snapshot that was cut is noticed unless its
\* timer is in between.
LEMMA HoldingsStep ==
  ASSUME Data, Accounting, Holdings, BackupNext
  PROVE  Holdings'
<1> USE DEF Holdings, options, outcome, idle, snapshot
<1>1. CASE List \/ Confirm
  BY <1>1 DEF List, Confirm
<1>2. CASE Finish
  BY <1>2 DEF Finish, Exit
<1>3. ASSUME NEW s \in Streams, Begin(s) PROVE Holdings'
  BY <1>3 DEF Begin
<1>4. CASE Notify \/ HealthChecked \/ Chunk
  BY <1>4 DEF Notify, HealthChecked, Chunk, Running
<1>5. CASE Return
  <2>1. cur \in Streams /\ cur \notin good
    BY <1>5 DEF Return, Running, Data, Accounting, Accounted
  <2>2. \A s \in good : disk'[s] = disk[s]
    BY <1>5, <2>1 DEF Return, Data
  <2>3. disk'[cur] = "whole" \/ (disk'[cur] = "cut" /\ cur \in cancelled)
    BY <1>5, <2>1 DEF Return, Data
  <2> QED
    BY <1>5, <2>2, <2>3 DEF Return
<1>6. CASE ReturnNotSupported \/ ReturnError
  <2>1. cur \in Streams /\ cur \notin good
    BY <1>6 DEF ReturnNotSupported, ReturnError, Running, Data, Accounting,
                Accounted
  <2>2. /\ \E rest \in {"none", "partial"} : disk' = [disk EXCEPT ![cur] = rest]
        /\ good' = good /\ unseen' = unseen /\ cmd' = "next"
        /\ cancelled' = cancelled /\ firing' = firing /\ timedOut' = timedOut
    BY <1>6 DEF ReturnNotSupported, ReturnError, Failed
  <2>3. \A s \in good : disk'[s] = disk[s]
    BY <2>1, <2>2 DEF Data
  <2> QED
    BY <2>2, <2>3
<1>7. CASE LookAtTimedOut
  BY <1>7 DEF LookAtTimedOut, Failed
<1>8. ASSUME NEW s \in Streams, Timer(s) PROVE Holdings'
  BY <1>8 DEF Timer, TimePasses, Fire, SayTimedOut
<1> QED
  BY <1>1, <1>2, <1>3, <1>4, <1>5, <1>6, <1>7, <1>8
  DEF BackupNext, Command, Server, Timers

\* Nobody writes to the directory when the backup has ended.
LEMMA EndedIsQuiet ==
  ASSUME cmd \in {"ok", "failed"}, BackupNext
  PROVE  cmd' = cmd /\ disk' = disk
BY DEF BackupNext, Command, Server, Timers, Timer, List, Confirm, Finish,
  Begin, Notify, Return, ReturnNotSupported, ReturnError, LookAtTimedOut,
  HealthChecked, Chunk, TimePasses, Fire, SayTimedOut, Running

LEMMA RestoringStep ==
  ASSUME RestoreTypeOK, Restoring, RestoreNext, cmd \in {"ok", "failed"},
         cmd' = cmd
  PROVE  RestoreTypeOK' /\ Restoring'
<1> USE DEF RestoreTypeOK, Restoring, DirectoryTypeOK, Directories, Contents
<1>1. CASE Names \/ NamesFail \/ AllRestored
  BY <1>1 DEF Names, NamesFail, AllRestored, Present
<1>2. CASE Check
  BY <1>2 DEF Check
<1>3. ASSUME NEW s \in Streams, Known(s) PROVE RestoreTypeOK' /\ Restoring'
  BY <1>3 DEF Known
<1>4. ASSUME NEW s \in Streams, RestoreOne(s)
      PROVE  RestoreTypeOK' /\ Restoring'
  BY <1>4 DEF RestoreOne
<1>5. ASSUME NEW s \in Streams, RestoreFails(s)
      PROVE  RestoreTypeOK' /\ Restoring'
  BY <1>5 DEF RestoreFails
<1>6. ASSUME NEW s \in Streams, Create(s) PROVE RestoreTypeOK' /\ Restoring'
  BY <1>6 DEF Create
<1> QED
  BY <1>1, <1>2, <1>3, <1>4, <1>5, <1>6 DEF RestoreNext, RestoreCommand

LEMMA Inductive == IInv /\ [Next]_vars => IInv'
<1> SUFFICES ASSUME IInv, [Next]_vars PROVE IInv'
  OBVIOUS
<1>0. Flags /\ Data
  BY BackupTypeParts DEF IInv, TypeOK
<1>1. CASE BackupStep
  <2>1. Flags'
    BY <1>0, <1>1, FlagsStep DEF BackupStep
  <2>2. Data' /\ Accounting' /\ Holdings'
    BY <1>0, <1>1, DataStep, AccountingStep, HoldingsStep
    DEF BackupStep, IInv, Accounting
  <2>3. BackupTypeOK'
    BY <2>1, <2>2, Zenon DEF BackupTypeOK, DirectoryTypeOK, Flags, Data
  <2>4. RestoreTypeOK' /\ Restoring'
    <3>1. /\ account' = account /\ step' = step /\ existing' = existing
          /\ left' = left /\ RestoreTypeOK /\ Restoring /\ BackupNext
          /\ disk' \in [Streams -> Contents]
      BY <1>1, <2>2 DEF BackupStep, IInv, TypeOK, Data
    <3>2. CASE step = "idle"
      BY <3>1, <3>2 DEF RestoreTypeOK, Restoring, DirectoryTypeOK
    <3>3. CASE step # "idle"
      <4>1. cmd' = cmd /\ disk' = disk
        BY <3>1, <3>3, EndedIsQuiet DEF Restoring
      <4> QED
        BY <3>1, <4>1 DEF RestoreTypeOK, Restoring, DirectoryTypeOK, Directories
    <3> QED
      BY <3>2, <3>3
  <2> QED
    BY <2>2, <2>3, <2>4 DEF IInv, TypeOK
<1>2. CASE RestoreStep
  <2>1. RestoreTypeOK' /\ Restoring'
    BY <1>2, RestoringStep DEF RestoreStep, IInv, TypeOK
  <2>2. /\ failOnWarn' = failOnWarn /\ healthCheck' = healthCheck
        /\ checking' = checking
    BY <1>2, Zenon DEF RestoreStep, options, snapshot
  <2>3. Flags'
    BY <1>0, <2>2, Zenon DEF Flags
  <2>4. disk' = disk
    BY <1>2 DEF RestoreStep, RestoreNext, RestoreCommand, Names, NamesFail,
      Check, AllRestored, Known, RestoreOne, RestoreFails, Create
  <2>5. Data' /\ Accounting' /\ Holdings'
    BY <1>0, <1>2, <2>4
    DEF RestoreStep, options, outcome, idle, snapshot, Data, Accounting,
        Accounted, Holdings, IInv
  <2>6. BackupTypeOK'
    BY <2>3, <2>5, Zenon DEF BackupTypeOK, DirectoryTypeOK, Flags, Data
  <2> QED
    BY <2>1, <2>5, <2>6 DEF IInv, TypeOK
<1>3. CASE UNCHANGED vars
  <2>1. /\ failOnWarn' = failOnWarn /\ healthCheck' = healthCheck
        /\ checking' = checking
    BY <1>3, Zenon DEF vars, backupVars, options, snapshot
  <2>2. Flags'
    BY <1>0, <2>1, Zenon DEF Flags
  <2>3. Data' /\ Accounting' /\ Holdings' /\ RestoreTypeOK' /\ Restoring'
    BY <1>0, <1>3
    DEF vars, backupVars, restoreVars, options, outcome, idle, snapshot, Data,
        Accounting, Accounted, Holdings, RestoreTypeOK, Restoring, Directories,
        DirectoryTypeOK, IInv, TypeOK
  <2>4. BackupTypeOK'
    BY <2>2, <2>3, Zenon DEF BackupTypeOK, DirectoryTypeOK, Flags, Data
  <2> QED
    BY <2>3, <2>4 DEF IInv, TypeOK
<1> QED
  BY <1>1, <1>2, <1>3 DEF Next

LEMMA Always == Spec => []IInv
BY Initially, Inductive, PTL DEF Spec

-----------------------------------------------------------------------------
(***************************************************************************)
(* The theorems.                                                           *)
(***************************************************************************)

\* The variables of the two commands keep their types, for any streams.
THEOREM TypeCorrect == Spec => []TypeOK
BY Always, PTL DEF IInv

LEMMA WholeOrExcused == IInv => SuccessIsWhole
<1> SUFFICES ASSUME IInv, cmd = "ok", NEW s \in listed
             PROVE  \/ disk[s] = "whole"
                    \/ s \in memory /\ s \in warns /\ ~failOnWarn
                    \/ s \in unseen /\ disk[s] = "cut"
  BY DEF SuccessIsWhole
<1>1. /\ cur = NoStream /\ todo = {} /\ errs = {} /\ warns \subseteq memory
      /\ listed \subseteq Streams
      /\ listed \ {cur} = todo \cup good \cup errs \cup warns
  BY DEF IInv, Accounting, Accounted, TypeOK, BackupTypeOK
<1>2. warns # {} => ~failOnWarn
  BY DEF IInv, Accounting
<1>3. s \in good \/ s \in warns
  BY <1>1, BackupAssumption
<1> QED
  BY <1>1, <1>2, <1>3 DEF IInv, Holdings

\* An account backup reports success only if it holds every stream it listed,
\* but for those in memory and those whose timer was just about to report.
THEOREM SuccessHoldsAll == Spec => []SuccessIsWhole
BY WholeOrExcused, Always, PTL

\* No failure keeps accountAction from trying the other streams.
THEOREM AllAreTried == Spec => []EveryStreamIsTried
<1>1. IInv => EveryStreamIsTried
  <2> SUFFICES ASSUME IInv, cmd \in {"ok", "failed"}, Accounted # {}
               PROVE  /\ Accounted = listed
                      /\ good \cap errs = {} /\ (good \cup errs) \cap warns = {}
    BY DEF EveryStreamIsTried, Accounted
  <2>1. cur = NoStream /\ todo = {} /\ listed \ {cur} = todo \cup Accounted
    BY DEF IInv, Accounting, Ended
  <2>2. NoStream \notin listed
    BY BackupAssumption DEF IInv, TypeOK, BackupTypeOK
  <2>3. Accounted = listed
    BY <2>1, <2>2
  <2> QED
    BY <2>3 DEF IInv, Accounting
<1> QED
  BY <1>1, Always, PTL

\* A restore that reports success has restored every directory, as it is.
THEOREM RestoreHoldsAll == Spec => []RestoreIsComplete
<1>1. IInv => RestoreIsComplete
  BY DEF IInv, Restoring, RestoreIsComplete
<1> QED
  BY <1>1, Always, PTL

-----------------------------------------------------------------------------
(***************************************************************************)
(* The check comes first.                                                  *)
(***************************************************************************)

\* Nothing is restored before the check, which looks at every directory, and
\* the directory stays as it was checked.
Refusing ==
  /\ step \in {"idle", "check"} => Restored = {}
  /\ step = "check" => left = Directories
  /\ step = "restore" \/ Restored # {} =>
       \A s \in Directories : disk[s] # "partial" /\ s \notin existing

LEMMA RefusingStep == IInv /\ Refusing /\ [Next]_vars => Refusing'
<1> SUFFICES ASSUME IInv, Refusing, [Next]_vars PROVE Refusing'
  OBVIOUS
<1> USE DEF Refusing, Restored, Directories
<1>0. /\ account \in [Streams -> {"absent", "foreign", "whole", "cut"}]
      /\ disk \in [Streams -> Contents]
  BY DEF IInv, TypeOK, RestoreTypeOK, DirectoryTypeOK
<1>1. CASE BackupStep
  <2>1. /\ account' = account /\ step' = step /\ existing' = existing
        /\ left' = left
    BY <1>1 DEF BackupStep
  <2>2. CASE step = "idle"
    BY <2>1, <2>2
  <2>3. CASE step # "idle"
    <3>1. disk' = disk
      BY <1>1, <2>3, EndedIsQuiet DEF BackupStep, IInv, Restoring
    <3> QED
      BY <2>1, <3>1
  <2> QED
    BY <2>2, <2>3
<1>2. CASE RestoreStep
  <2>1. CASE Names \/ NamesFail \/ AllRestored
    BY <2>1 DEF Names, NamesFail, AllRestored
  <2>2. CASE Check
    BY <2>2 DEF Check
  <2>3. ASSUME NEW s \in Streams, Known(s) PROVE Refusing'
    BY <2>3 DEF Known
  <2>4. ASSUME NEW s \in Streams, RestoreOne(s) PROVE Refusing'
    BY <2>4 DEF RestoreOne
  <2>5. ASSUME NEW s \in Streams, RestoreFails(s) PROVE Refusing'
    BY <2>5 DEF RestoreFails
  <2>6. ASSUME NEW s \in Streams, Create(s) PROVE Refusing'
    <3>1. Restored' = Restored
      BY <1>0, <2>6 DEF Create
    <3> QED
      BY <2>6, <3>1 DEF Create
  <2> QED
    BY <1>2, <2>1, <2>2, <2>3, <2>4, <2>5, <2>6
    DEF RestoreStep, RestoreNext, RestoreCommand
<1>3. CASE UNCHANGED vars
  BY <1>3 DEF vars, backupVars, restoreVars
<1> QED
  BY <1>1, <1>2, <1>3 DEF Next

\* No stream is restored while a directory has no backup.json or is named
\* like a stream that existed when the names were fetched: all directories are
\* checked before the first stream is restored.  What else may be wrong with a
\* backup, that its end is missing say, the check does not see.
THEOREM RestoreChecksFirst == Spec => []NothingRestoredInVain
<1>1. Init => Refusing
  BY DEF Init, RestoreInit, Refusing, Restored
<1>2. Refusing => NothingRestoredInVain
  BY DEF Refusing, NothingRestoredInVain
<1> QED
  BY <1>1, <1>2, RefusingStep, Always, PTL DEF Spec

-----------------------------------------------------------------------------
(***************************************************************************)
(* There and back.                                                         *)
(***************************************************************************)

\* The directory holds streams that were listed, and none that is in memory
\* as a backup; what is restored comes from the directory.
Returning ==
  /\ cmd = "list" => Directories = {}
  /\ Directories \subseteq listed
  /\ \A s \in warns : disk[s] \in {"none", "partial"}
  /\ step = "idle" => Restored = {}
  /\ Restored \subseteq Directories

LEMMA DirectoryStep ==
  ASSUME Data, Accounting, BackupNext,
         cmd = "list" => Directories = {},
         Directories \subseteq listed,
         \A s \in warns : disk[s] \in {"none", "partial"}
  PROVE  /\ cmd' = "list" => Directories' = {}
         /\ Directories' \subseteq listed'
         /\ \A s \in warns' : disk'[s] \in {"none", "partial"}
<1> USE DEF Directories, options, outcome, idle, snapshot
<1>1. CASE List
  <2>1. /\ listed' \subseteq Streams /\ disk' = disk /\ warns' = warns
        /\ cmd' # "list" /\ Directories = {}
    BY <1>1 DEF List
  <2> QED
    BY <2>1
<1>2. CASE Confirm \/ Finish
  BY <1>2 DEF Confirm, Finish
<1>3. ASSUME NEW s \in Streams, Begin(s)
      PROVE  /\ cmd' = "list" => Directories' = {}
             /\ Directories' \subseteq listed'
             /\ \A t \in warns' : disk'[t] \in {"none", "partial"}
  BY <1>3 DEF Begin
<1>4. CASE Notify \/ HealthChecked \/ Chunk
  BY <1>4 DEF Notify, HealthChecked, Chunk, Running
<1>5. CASE Return
  <2>1. /\ cur \in listed /\ cur \in Streams /\ cur \notin warns /\ cmd' = "returned"
        /\ listed' = listed /\ warns' = warns
    BY <1>5 DEF Return, Running, Data, Accounting, Accounted
  <2>2. PICK rest \in Contents : disk' = [disk EXCEPT ![cur] = rest]
    BY <1>5 DEF Return, Contents
  <2>3. \A s \in Streams : s # cur => disk'[s] = disk[s]
    BY <2>1, <2>2 DEF Data
  <2>4. warns \subseteq Streams
    BY DEF Data
  <2> QED
    BY <2>1, <2>3, <2>4
<1>6. CASE ReturnNotSupported \/ ReturnError
  <2>1. /\ cur \in listed /\ cur \in Streams /\ cmd' = "next"
        /\ listed' = listed /\ warns' \subseteq warns \cup {cur}
    BY <1>6 DEF ReturnNotSupported, ReturnError, Failed, Running, Data, Accounting
  <2>2. PICK rest \in {"none", "partial"} : disk' = [disk EXCEPT ![cur] = rest]
    BY <1>6 DEF ReturnNotSupported, ReturnError
  <2>3. /\ \A s \in Streams : s # cur => disk'[s] = disk[s]
        /\ disk'[cur] \in {"none", "partial"}
    BY <2>1, <2>2 DEF Data
  <2>4. warns \subseteq Streams
    BY DEF Data
  <2> QED
    BY <2>1, <2>3, <2>4
<1>7. CASE LookAtTimedOut
  BY <1>7 DEF LookAtTimedOut, Failed
<1>8. ASSUME NEW s \in Streams, Timer(s)
      PROVE  /\ cmd' = "list" => Directories' = {}
             /\ Directories' \subseteq listed'
             /\ \A t \in warns' : disk'[t] \in {"none", "partial"}
  BY <1>8 DEF Timer, TimePasses, Fire, SayTimedOut
<1> QED
  BY <1>1, <1>2, <1>3, <1>4, <1>5, <1>6, <1>7, <1>8
  DEF BackupNext, Command, Server, Timers

LEMMA ReturningStep == IInv /\ Returning /\ [Next]_vars => Returning'
<1> SUFFICES ASSUME IInv, Returning, [Next]_vars PROVE Returning'
  OBVIOUS
<1>0. /\ account \in [Streams -> {"absent", "foreign", "whole", "cut"}]
      /\ left \subseteq Directories
  BY DEF IInv, TypeOK, RestoreTypeOK
<1>1. CASE BackupStep
  <2>1. /\ account' = account /\ step' = step /\ BackupNext
    BY <1>1 DEF BackupStep
  <2>2. /\ cmd' = "list" => Directories' = {}
        /\ Directories' \subseteq listed'
        /\ \A s \in warns' : disk'[s] \in {"none", "partial"}
    BY <2>1, BackupTypeParts, DirectoryStep DEF Returning, IInv, TypeOK
  <2>3. Restored' = Restored
    BY <2>1 DEF Restored
  <2>4. Restored' \subseteq Directories'
    <3>1. CASE step = "idle"
      BY <2>3, <3>1 DEF Returning
    <3>2. CASE step # "idle"
      <4>1. disk' = disk
        BY <2>1, <3>2, EndedIsQuiet DEF IInv, Restoring
      <4> QED
        BY <2>3, <4>1 DEF Returning, Directories
    <3> QED
      BY <3>1, <3>2
  <2> QED
    BY <2>1, <2>2, <2>3, <2>4 DEF Returning
<1>2. CASE RestoreStep
  <2>1. /\ cmd' = cmd /\ listed' = listed /\ warns' = warns /\ disk' = disk
        /\ cmd \in {"ok", "failed"} /\ RestoreNext
    BY <1>2 DEF RestoreStep, outcome, RestoreNext, RestoreCommand, Names, NamesFail,
      Check, AllRestored, Known, RestoreOne, RestoreFails, Create
  <2>2. /\ step' = "idle" => Restored' = {}
        /\ Restored' \subseteq Directories
    <3> USE DEF Restored, Returning
    <3>1. CASE Names \/ NamesFail \/ Check \/ AllRestored
      BY <3>1 DEF Names, NamesFail, Check, AllRestored
    <3>2. ASSUME NEW s \in Streams, Known(s) \/ Create(s)
          PROVE  Restored' \subseteq Restored /\ (step' = "idle" => step = "idle")
      BY <1>0, <3>2 DEF Known, Create
    <3>3. ASSUME NEW s \in Streams, RestoreOne(s) \/ RestoreFails(s)
          PROVE  Restored' \subseteq Restored \cup {s} /\ s \in left /\ step' # "idle"
      BY <1>0, <3>3 DEF RestoreOne, RestoreFails
    <3> QED
      BY <1>0, <2>1, <3>1, <3>2, <3>3 DEF RestoreNext, RestoreCommand
  <2>3. Directories' = Directories
    BY <2>1 DEF Directories
  <2> QED
    BY <2>1, <2>2, <2>3 DEF Returning
<1>3. CASE UNCHANGED vars
  BY <1>3 DEF vars, backupVars, restoreVars, outcome, Returning, Directories, Restored
<1> QED
  BY <1>1, <1>2, <1>3 DEF Next

\* A successful restore of a successful backup brings back every listed stream
\* in full, but for those in memory, which are not restored and were warned
\* of, and those whose timer backupStream overtook, which come back without
\* their end and without a word.  It brings back nothing that was not listed.
THEOREM RoundTripHolds == Spec => []RoundTrip
<1>1. Init => Returning
  BY DEF Init, BackupInit, DirectoryInit, RestoreInit, Returning, Directories, Restored
<1>2. IInv /\ Returning => RoundTrip
  <2> SUFFICES ASSUME IInv, Returning, cmd = "ok", step = "restored"
               PROVE  /\ Restored \subseteq listed
                      /\ \A s \in listed :
                           \/ account[s] = "whole"
                           \/ s \in memory \cap warns /\ ~failOnWarn /\ s \notin Restored
                           \/ s \in unseen /\ account[s] = "cut"
    BY DEF RoundTrip
  <2>1. Restored \subseteq listed
    BY DEF Returning
  <2>2. ASSUME NEW s \in listed
        PROVE  \/ account[s] = "whole"
               \/ s \in memory \cap warns /\ ~failOnWarn /\ s \notin Restored
               \/ s \in unseen /\ account[s] = "cut"
    <3>1. /\ s \in Streams
          /\ disk[s] # "none" => account[s] = disk[s]
      BY DEF IInv, TypeOK, BackupTypeOK, Restoring, Directories
    <3>2. CASE disk[s] = "whole"
      BY <3>1, <3>2
    <3>3. CASE s \in memory /\ s \in warns /\ ~failOnWarn
      <4>1. disk[s] \in {"none", "partial"}
        BY <3>3 DEF Returning
      <4>2. s \notin Restored
        BY <3>1, <4>1 DEF Returning, Restored, Directories
      <4> QED
        BY <3>3, <4>2
    <3>4. CASE s \in unseen /\ disk[s] = "cut"
      BY <3>1, <3>4
    <3> QED
      BY <3>2, <3>3, <3>4, WholeOrExcused DEF SuccessIsWhole
  <2> QED
    BY <2>1, <2>2
<1> QED
  BY <1>1, <1>2, ReturningStep, Always, PTL DEF Spec
=============================================================================
