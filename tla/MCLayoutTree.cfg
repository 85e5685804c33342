SPECIFICATION BothSpec
CONSTANTS
  Base = 2
  Definitions <- MCDefinitions
  MaxPaneId = 5
  Trees <- MCTrees
  Areas <- MCAreas
  Inset = 1
  Unit = 2
  Moves <- MCMoves
  Amounts = {1, 3}
  MaxPanes = 4
  MaxSteps = 2
INVARIANTS TreeSound PanesTile DirectionsLink
PROPERTIES ImplementsTabLayout OrderStable ResizesHeeded
