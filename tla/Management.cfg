CONSTANTS
  EGood = {"a", "b"}
  EFatal = {"x"}
  EFailing = {"y"}
  EKeep = 1
  EMaxWrites = 2
  EMaxFaults = 1
  IFiles = {"s", "t"}
  IRetention = 2
  IBackupsKept = 1
  IMaxOps = 3
  IMaxFaults = 1
  TKinds = {"counted", "own"}
  TMaxBytes = 4
  TMaxProcesses = 2
  TMaxReloads = 1
SPECIFICATION PartSpec
INVARIANTS PartsTyped EditIsUndoable InstallIsRight TotalsGoOn
PROPERTY EngineFollows
CHECK_DEADLOCK FALSE
