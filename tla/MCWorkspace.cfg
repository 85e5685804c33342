CONSTANTS
  Definitions <- MCDefinitions
  MaxPaneId = 3
  MaxSessionId = 3
  MaxTabs = 2
SPECIFICATION Spec
CHECK_DEADLOCK FALSE
INVARIANTS LayoutsSound SessionsNotShared
PROPERTIES OwnershipLostOnlyThere RecreateRestoresOwnership SessionIdsFresh
