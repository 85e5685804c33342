SPECIFICATION BothSpec
CONSTANTS
  Idents = {"dev", "ops", "cmd", "other", "main", "shell", "pane-1", "pane-2", "pane-3", "pane-4", "tab-1", "tab-2", "tab-3", "tab-4"}
  Builtins = {"cmd"}
  NoProfile = "none"
  Names = {"dev", "ops", "My Work"}
  Opens <- MCOpens
  Texts = {"shell"}
  Written <- MCWritten
  Paths <- MCPaths
  Profiles = {"mine"}
  MaxPanes = 4
  MaxSteps = 5
  KeySpecs = {"Enter", "Shift+Enter", "Alt+Enter", "Ctrl+J", "Ctrl+A"}
  Size <- MCSize
  GlobalProfiles <- MCGlobalProfiles
  GlobalDefault = "cmd"
  HostEnv <- MCHostEnv
  Name <- MCName
  Reference <- MCReference
  Agents <- MCAgents
  PwshFound = TRUE
  Files <- MCFiles
  Requests <- MCRequests
  PromptTexts <- MCPrompts
  Picked = {"own", "cmd", "powershell"}
  MaxLaunched = 3
  MaxTaken = 4
INVARIANT PromptsAnswered
CHECK_DEADLOCK FALSE
