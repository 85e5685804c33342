SPECIFICATION InputSpec
CONSTANTS
  Keys <- MCKeys
  Kind <- MCKind
  Layouts <- MCLayouts
  Letters <- MCLetters
  Literals <- MCLiterals
  Aliases <- MCAliases
  Specs <- MCSpecs
  Cells <- MCCells
  ModesTried <- MCModes
  Sessions = {"a", "b"}
  Rows = 2
  Cols = 2
  MaxHistory = 3
  Histories = {2}
  Queries <- MCQueries
  Notches <- MCNotches
  Height = 76
  Points = {0, 13, 40, 63, 75}
  MaxSteps = 4
INVARIANTS OneEffect PressesEnd ReadAsMeant ViewsKept
PROPERTIES ScrollsLand
