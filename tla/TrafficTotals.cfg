CONSTANTS
  TKinds = {"counted"}
  TMaxBytes = 4
  TMaxProcesses = 2
  TMaxReloads = 1
SPECIFICATION TrafficSpec
INVARIANT TotalsTrue
CHECK_DEADLOCK FALSE
