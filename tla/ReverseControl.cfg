CONSTANTS
  Transports = {"tcp", "tcpmux"}
  Conns = {1, 2, 3}
  Clients = {k, l}
  Hosts = {h, i}
  Signals = {"v2", "legacy"}
  Nonces = {1, 2, 3, 4}
  ChannelSize = 1
  MaxFaults = 1
SPECIFICATION Spec
SYMMETRY Symmetry
CONSTRAINT OneMuxClient
INVARIANTS TypeOK PoolIsAuthorised
