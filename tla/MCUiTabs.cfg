SPECIFICATION TabsSpec
CONSTANTS
  Starts <- MCStarts
  Others <- MCOthers
  Names = {"w", "v"}
  MaxTabs = 3
  MaxAsked = 5
  MaxSteps = 4
  Given <- MCGiven
  Open <- MCOpen
  Entered = {"new", "blank"}
  TabLimit = 2
  Unfit = {"blank"}
  Profiles = {"cmd", "typed"}
  Items = 3
  MaxVisible = 2
  Labels = {20, 150}
  Widths = {90}
  Windows = {330, 600}
  Places <- MCPlaces
  MaxMoves = 3
INVARIANTS InStep  HitAsDrawn
PROPERTIES ActsOnClicked OneTabMoves
CHECK_DEADLOCK FALSE
