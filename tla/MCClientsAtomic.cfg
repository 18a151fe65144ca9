SPECIFICATION Spec
CONSTANTS
  r1 = r1
  Jobs <- MCAtomic
  MaxLines = 2
  Wanted = 0
  MaxDrops = 1
  Repliers <- MCRepliers
  ReplyLimit = 0
  Seconds = 0
  Rate = 1
  s1 = s1
  s2 = s2
  h1 = h1
  h2 = h2
  g1 = g1
  g2 = g2
  n1 = n1
  n2 = n2
  Refreshes = {0, 2}
  MaxSamples = 2
  MaxOrders = 1
  MaxResizes = 1
  Sources = {s1, s2}
  Plain = {s2}
  MaxUpdates = 1
  MaxAges = 1
  Pinged = 3
  Expects = {0, 1, 2, 3, 4}
  Word = 8
  Hosts = {h1, h2}
  PageSize = 1
  MaxConns = 3
  MaxChurn = 1
  Scrapes = {g1, g2}
  Checks <- MCChecks
  MaxFails = 2
  Peers = {n1, n2}
  MaxApplied = 2
  Servers = {1, 2}
  MaxFailures = 2
  MaxSeq = 4
  DirectLimit = 2
  Commands = {"publish"}
INVARIANT BatchKeepsHeaders
CHECK_DEADLOCK FALSE
