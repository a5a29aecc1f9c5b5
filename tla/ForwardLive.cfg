CONSTANTS
  Transports = {"tcp", "ws", "tcpmux"}
  Locals = {"a", "b"}
  Tunnels = {"s", "t"}
  Peers = {"p"}
  Handlers = {"h"}
  ChannelSize = 1
  MaxConnections = 2
  MuxCon = 2
  MaxRestarts = 1
  MaxDrift = 0
  MaxLost = 1
  Kinds = {"buffered", "splice", "ws", "flow", "udp"}
  MaxChunks = 2
SPECIFICATION HalfSpec
INVARIANT RelayIsRight
PROPERTY NothingIsStuck
CHECK_DEADLOCK FALSE
