CONSTANTS
  Transports = {"tcp", "tcpmux", "kcp", "quic", "ws", "wsmux"}
  Locals = {"a", "b", "c"}
  Tunnels = {"s", "t"}
  Peers = {"p"}
  Handlers = {"h"}
  ChannelSize = 1
  MaxConnections = 2
  MuxCon = 2
  MaxRestarts = 1
  MaxDrift = 0
  MaxLost = 1
  UAddrs = {"a", "b"}
  UPeers = {"p"}
  UTunnels = {"t", "u"}
  UFlows = {"f", "g"}
  UChannel = 1
  UPayload = 1
  UMaxFaults = 1
  UMaxRuns = 1
  PTransports = {"tcp", "tcpmux", "kcp", "quic", "ws", "wsmux", "udp"}
  PMax = 4
  PPerMapping = 2
  PEntries <- Entries
  PPairs <- Pairs
  PMaxRuns = 1
  PoolTransports = {"tcp", "tcpmux", "kcp", "quic", "ws", "wsmux", "udp"}
  Conns = {"c", "d", "e"}
  ConnPoolSize = 1
  AggressivePool = FALSE
  Ticks = 1
  FlowSize = 2
  MaxLoad = 1
  MaxSize = 5
  MaxPoolRestarts = 1
SPECIFICATION PartSpec
INVARIANTS PartsTyped ForwardingIsRight UdpIsRight PortsAgree PoolIsRight
CHECK_DEADLOCK FALSE
