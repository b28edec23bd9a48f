SPECIFICATION Spec
CONSTANTS
  Humans = {h1, h2}
  MAX_FAILED_ATTEMPTS = 2
  LOCKOUT_DURATION = 2
  PENDING_LOGIN_TTL = 1
  SESSION_TTL = 2
  MaxClock = 3
  MaxProvisions = 2
  MaxTokens = 1
SYMMETRY Symmetry
INVARIANTS TypeOK GuessBound OneShot 
CHECK_DEADLOCK FALSE
