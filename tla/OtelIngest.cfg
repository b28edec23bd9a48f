SPECIFICATION SdkSpec
CONSTANTS
  Clis = {c1}
  Tokens = {k1}
  TTLs = {}
  NoExpiry = NoExpiry
  MaxClock = 0
  MaxAudit = 1
  Gateways = {g1, g2}
  Calls = {x1}
  read = read
  hb = hb
  Tools = {read, hb}
  Heartbeat = hb
  a1 = a1
  Agents = {a1}
  AgentOf <- MCAgentOf
  Scopes <- MCScopes
  Unscoped = Unscoped
  Names = {n1}
  NoToken = NoToken
  NoCall = NoCall
  Refresh = 2
  RequireToken = FALSE
  Reports = {r1}
  Malformed = Malformed
  MaxItems = 2
  Blocks = {"ok", "raised", "cancelled"}
SYMMETRY Symmetry
INVARIANTS BatchInOrder ScopeReportsAlerted DiscoveredOnce SightingsAreAnnounced
           ReportsTellTruth
CHECK_DEADLOCK FALSE
