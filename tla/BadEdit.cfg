CONSTANTS
  EGood = {"a", "b"}
  EFatal = {"x"}
  EFailing = {"y"}
  EKeep = 1
  EMaxWrites = 2
  EMaxFaults = 1
SPECIFICATION EngineSpec
INVARIANT BadEditReverted
CHECK_DEADLOCK FALSE
