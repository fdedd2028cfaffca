SPECIFICATION Spec
CONSTANTS
  NodeId = {1, 2}
  Ep = {1}
  version = version
  app = app
  NoData = NoData
  AppTLV <- MCAppTLV
  VersionTLV = version
  PeerInterval = {2, 5}
  UpdateMod = 16
  GraceInterval = 2
  MinPruneInterval = 1
  RollOverAge = 50
  ExpirationAge = 60
  TrickleImin = 4
  TrickleImax = 8
  TrickleK = 1
  KeepaliveInterval = 4
  MultiplierNum = 21
  MultiplierDen = 10
  MinDelay = 2
  MaxDelay = 10
  OwnId = 1
  InitTLV <- MCInitTLV
  LocalTLV <- NoTLV
  Reactions <- NoReactions
  RandomValues = {0, 1}
  RemoteStates <- KeepaliveStates
  Peers <- MCPeers
  AcceptMulticast = TRUE
  UpdateBump = 2
  StartTime = 2
  MaxTime = 13
  MaxLocal = 1
  MaxEpChanges = 3
  MaxMessages = 2
  MaxTlvs = 1
  Lateness = 0
INVARIANTS
  TimerCoversDeadlines
  KeepaliveKept
  PeersFresh
CHECK_DEADLOCK FALSE
