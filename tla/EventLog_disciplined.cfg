SPECIFICATION AlertSpec
CONSTANTS
  Gateways = {g1, g2}
  Clis = {c1}
  Pruners = {p1, p2}
  NoProc = NoProc
  Retention = 1
  GapThreshold = 2
  MaxEvents = 3
  MaxClock = 4
  NChannels = 2
SYMMETRY Symmetry
INVARIANTS TypeOK ChainVerifies NothingLost GapsAreAlerted DeliveryIsHonest
PROPERTIES PruneKeepsFresh ImplementsAuditChain
