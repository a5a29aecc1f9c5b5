CONSTANTS
  NumEndpoints = 2
  NeedStreak = 2
  Transports = {"tcp", "tcpmux", "kcp", "quic", "ws", "wsmux", "udp"}
  MaxFaults = 1
  Targets = {"t", "u"}
  Members = 2
  backendMaxGroups = 1
  backendMaxFailed = 2
  DKeepers = {"k", "l"}
  DConns = {"c", "d", "e"}
  DStreams = {"s"}
  DCursor = 2
  DMaxFaults = 1
  PfKinds = {"l3", "edge"}
  PfTargets = 2
  PfUsers = {"u", "v"}
  PfPeers = {"p", "q"}
  PfFlows = {"f", "g"}
  PfSessions = {"m", "n"}
  PfMax = 2
  PfCursor = 2
SPECIFICATION PartSpec
INVARIANTS PartsTyped ClientIsRight DirectIsRight ForwarderIsRight
PROPERTIES ChoicesAreRight ClientConnects ComesAndGoes
CHECK_DEADLOCK FALSE
