SPECIFICATION FairSpec
CONSTANTS
  Subs = {s1, s2}
  Inbox = inbox
  Limit = 1
  NumMsg = 3
  Buffer = 1
  Modes = {"async", "match", "stream"}
  Waits = {TRUE, FALSE}
  Backups = {TRUE, FALSE}
  Endings = {TRUE, FALSE}
INVARIANTS
  TypeOK
  CountersAgree
  LimitHolds
  BackupIsComplete
PROPERTIES
  Quits
CHECK_DEADLOCK FALSE
