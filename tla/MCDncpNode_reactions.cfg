SPECIFICATION Spec
CONSTANTS
  NodeId = {1, 2}
  Ep = {1}
  version = version
  app = app
  NoData = NoData
  AppTLV <- MCAppTLV
  VersionTLV = version
  PeerInterval = {}
  UpdateMod = 16
  GraceInterval = 2
  MinPruneInterval = 1
  RollOverAge = 50
  ExpirationAge = 60
  TrickleImin = 4
  TrickleImax = 8
  TrickleK = 1
  KeepaliveInterval = 20
  MultiplierNum = 21
  MultiplierDen = 10
  MinDelay = 1
  MaxDelay = 10
  OwnId = 1
  InitTLV <- MCInitTLV
  LocalTLV <- MCLocalTLV
  Reactions <- SomeReactions
  RandomValues = {0}
  RemoteStates <- PeerStates
  Peers <- MCPeers
  AcceptMulticast = TRUE
  UpdateBump = 2
  StartTime = 2
  MaxTime = 5
  MaxLocal = 0
  MaxEpChanges = 1
  MaxMessages = 2
  MaxTlvs = 1
  Lateness = 1
INVARIANTS
  SubscriberTlvsExact
  TimerCoversDeadlines
PROPERTIES
  ChangesAreWoken
CHECK_DEADLOCK FALSE
