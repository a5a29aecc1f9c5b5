CONSTANTS
  Transports = {"tcp", "tcpmux"}
  Conns = {1, 2, 3}
  Clients = {"k"}
  Hosts = {"h"}
  Signals = {"v2", "legacy"}
  Nonces = {1, 2, 3, 4}
  ChannelSize = 1
  MaxFaults = 1
  CtlTransports = {"kcp", "quic", "ws", "wsmux", "udp"}
  CtlConns = {1, 2, 3}
  CtlClients = {"k"}
  CtlChannelSize = 1
  MaxPending = 2
  CtlMaxFaults = 3
SPECIFICATION ServerSpec
INVARIANT PoolHasControl
PROPERTIES StreamReconnects OtherAdopts
