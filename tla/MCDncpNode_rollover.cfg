SPECIFICATION Spec
CONSTANTS
  NodeId = {1, 2}
  Ep = {1}
  version = version
  app = app
  NoData = NoData
  AppTLV <- MCAppTLV
  VersionTLV = version
  PeerInterval = {}
  UpdateMod = 4
  GraceInterval = 2
  MinPruneInterval = 1
  RollOverAge = 4
  ExpirationAge = 6
  TrickleImin = 4
  TrickleImax = 8
  TrickleK = 1
  KeepaliveInterval = 20
  MultiplierNum = 21
  MultiplierDen = 10
  MinDelay = 2
  MaxDelay = 3
  OwnId = 1
  InitTLV <- MCInitTLV
  LocalTLV <- NoTLV
  Reactions <- NoReactions
  RandomValues = {0}
  RemoteStates <- PeerStates
  Peers <- MCPeers
  AcceptMulticast = TRUE
  UpdateBump = 2
  StartTime = 2
  MaxTime = 12
  MaxLocal = 1
  MaxEpChanges = 1
  MaxMessages = 3
  MaxTlvs = 1
  Lateness = 0
INVARIANTS
  OwnNodeNeverPurged
  OwnDataFresh
PROPERTIES
  PublishedAdvances
CHECK_DEADLOCK FALSE
