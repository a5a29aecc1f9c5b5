CONSTANTS
  Ids = {1, 2, 3}
  Keys = {1, 2}
  Addrs = {"a"}
  handshakeAttempts = 2
  ReplyBuffer = 1
  previousGrace = 0
  rekeyAfterTime = 2
  rejectAfterTime = 3
  MaxFaults = 0
  FData = 2
  FParity = 1
  FWindow = 1
  FMaxGroup = 2
  FMaxInc = 2
  FMaxWire = 2
  FMaxFaults = 2
  MPaths = 3
  MCounter = 8
  MQueue = 2
  MMaxWrites = 10
SPECIFICATION PartSpec
INVARIANTS PartsTyped ConfirmedKeysAgree MismatchNeverUp DeliveryIsRight SwallowedByTwin
PROPERTY RekeyKeepsInFlight
