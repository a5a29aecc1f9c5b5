CONSTANTS
  Sealers = {tun, prober}
  replayWindowBits = 3
  rejectAfterMessages = 7
  CounterMax = 8
  SendBound = 9
  minMTU = 3
  Ceiling = 7
  Configured = 6
  Sizes = {2, 3, 4, 6, 9}
  probeAttempts = 2
  ProbeIds = {1, 2}
SPECIFICATION LayerSpec
INVARIANTS TypeOK NonceUsedOnce DeliveredOnce AcceptIsExact SearchIsRight
PROPERTIES ImplementsOnce RoundEnds
