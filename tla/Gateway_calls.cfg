SPECIFICATION GwSpec
CONSTANTS
  Clis = {c1}
  Tokens = {k1}
  TTLs = {1}
  NoExpiry = NoExpiry
  MaxClock = 3
  MaxAudit = 2
  Gateways = {g1}
  Calls = {x1, x2}
  read = read
  hb = hb
  Tools = {read, hb}
  Heartbeat = hb
  a1 = a1
  Agents = {a1}
  AgentOf <- MCAgentOf
  Scopes <- MCScopes
  Unscoped = Unscoped
  Names = {n1}
  NoToken = NoToken
  NoCall = NoCall
  Refresh = 2
  RequireToken = FALSE
SYMMETRY Symmetry
INVARIANTS GwTypeOK AuthorityBound AnswersAreLogged RejectionIsAlerted
CHECK_DEADLOCK FALSE
