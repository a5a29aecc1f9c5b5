CONSTANTS
  Ids = {1, 2}
  Keys = {1, 2}
  Addrs = {"a", "b"}
  handshakeAttempts = 1
  ReplyBuffer = 1
  previousGrace = 0
  rekeyAfterTime = 1
  rejectAfterTime = 2
  MaxFaults = 1
SPECIFICATION FairSpec
INVARIANT ReportedIffLive
PROPERTIES HandshakeNeverDiverts KeepsComingUp
