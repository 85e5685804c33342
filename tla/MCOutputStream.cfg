CONSTANTS
  u1 = u1
  u2 = u2
  Clients <- MCClients
  MaxChunks = 2
  MaxRefresh = 1
SPECIFICATION FairSpec
CHECK_DEADLOCK FALSE
INVARIANTS ScreensComplete
PROPERTIES StreamEnds
