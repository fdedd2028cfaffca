SPECIFICATION Spec
CONSTANTS
  NodeId = {1, 2}
  Ep = {1}
  version = version
  app = app
  NoData = NoData
  AppTLV <- MCAppTLV
  VersionTLV = version
  PeerInterval = {}
  UpdateMod = 16
  GraceInterval = 2
  MinPruneInterval = 1
  RollOverAge = 4
  ExpirationAge = 6
  TrickleImin = 4
  TrickleImax = 8
  TrickleK = 1
  KeepaliveInterval = 20
  MultiplierNum = 21
  MultiplierDen = 10
  MinDelay = 1
  MaxDelay = 3
  OwnId = 1
  InitTLV <- MCInitTLV
  LocalTLV <- MCLocalTLV
  Reactions <- NoReactions
  RandomValues = {0}
  RemoteStates <- NoStates
  Peers <- MCPeers
  AcceptMulticast = TRUE
  UpdateBump = 2
  StartTime = 2
  MaxTime = 12
  MaxLocal = 4
  MaxEpChanges = 0
  MaxMessages = 0
  MaxTlvs = 1
  Lateness = 0
INVARIANTS
  OwnNodeNeverPurged
CHECK_DEADLOCK FALSE
