CONSTANTS
  Transports = {"tcp", "tcpmux", "kcp", "quic", "ws", "wsmux"}
  Locals = {"a", "b"}
  Tunnels = {"s", "t"}
  Peers = {"p"}
  Handlers = {"h"}
  ChannelSize = 1
  MaxConnections = 2
  MuxCon = 2
  MaxRestarts = 0
  MaxDrift = 0
  MaxLost = 1
SPECIFICATION Spec
INVARIANT NoSlotLost
CHECK_DEADLOCK FALSE
