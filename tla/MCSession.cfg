CONSTANTS
  s1 = s1
  s2 = s2
  h1 = h1
  h2 = h2
  Sessions <- MCSessions
  Typed = {s1}
  Handles <- MCHandles
  MaxChildren = 2
  MaxWrites = 2
SPECIFICATION FairSpec
CHECK_DEADLOCK FALSE
INVARIANTS PipesOwned NoOrphans ReportedOnce StraysOnlyAfterClose
PROPERTIES WorkEnds
