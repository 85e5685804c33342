SPECIFICATION Spec
CONSTANTS
  Panes <- MCPanes
  Titles = {"x"}
  Reports <- MCReports
  MaxQueue = 4
  MaxSteps = 3
INVARIANTS ShownMatches WaitNotStale AttentionReached
CHECK_DEADLOCK FALSE
