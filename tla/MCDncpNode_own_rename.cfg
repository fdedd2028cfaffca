SPECIFICATION Spec
CONSTANTS
  NodeId = {1, 2, 3}
  Ep = {1}
  version = version
  app = app
  NoData = NoData
  AppTLV <- MCAppTLV
  VersionTLV = version
  PeerInterval = {}
  UpdateMod = 16
  GraceInterval = 2
  MinPruneInterval = 1
  RollOverAge = 50
  ExpirationAge = 60
  TrickleImin = 4
  TrickleImax = 8
  TrickleK = 1
  KeepaliveInterval = 20
  MultiplierNum = 21
  MultiplierDen = 10
  MinDelay = 1
  MaxDelay = 10
  OwnId = 1
  InitTLV <- MCInitTLV
  LocalTLV <- MCLocalTLV
  Reactions <- NoReactions
  RandomValues = {0}
  RemoteStates <- OwnStates
  Peers <- MCPeers
  AcceptMulticast = TRUE
  UpdateBump = 2
  StartTime = 2
  MaxTime = 7
  MaxLocal = 1
  MaxEpChanges = 1
  MaxMessages = 3
  MaxTlvs = 1
  Lateness = 0
INVARIANTS
  OwnNodeReported
CHECK_DEADLOCK FALSE
