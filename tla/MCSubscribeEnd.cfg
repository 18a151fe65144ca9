SPECIFICATION FairSpec
CONSTANTS
  Subs = {s1}
  Inbox = inbox
  Limit = 0
  NumMsg = 2
  Buffer = 2
  Modes = {"stream"}
  Waits = {FALSE}
  Backups = {FALSE}
  Endings = {TRUE}
PROPERTIES
  StopsAtEnd
CHECK_DEADLOCK FALSE
