SPECIFICATION CredSpec
CONSTANTS
  Clis = {c1, c2}
  Tokens = {k1, k2}
  TTLs = {1, 2}
  NoExpiry = NoExpiry
  MaxClock = 3
  MaxAudit = 4
SYMMETRY Symmetry
PROPERTY NeverResurrected
CHECK_DEADLOCK FALSE
