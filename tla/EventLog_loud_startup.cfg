SPECIFICATION AlertSpecLoudStartup
CONSTANTS
  Gateways = {g1}
  Clis = {c1}
  Pruners = {}
  NoProc = NoProc
  Retention = 1
  GapThreshold = 2
  MaxEvents = 4
  MaxClock = 4
  NChannels = 2
INVARIANT ChainVerifies
