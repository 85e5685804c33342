SPECIFICATION Spec
CONSTANTS
  WideChars <- MCWide
  Marks <- MCMarks
  Sizes <- MCSizes
  Controls <- MCControls
  Ticks <- MCTicks
  Preludes <- MCPreludes
  MaxHistory = 2
  MaxSteps = 3
  NoMirror = NoMirror
INVARIANT MirrorDraws
PROPERTIES ScreensKept
CHECK_DEADLOCK FALSE
