SPECIFICATION Spec
CONSTANTS
  Writers = {w1, w2}
  NoKey = NoKey
  EmptyKey = EmptyKey
  MaxEvents = 3
  MaxCheckpoints = 3
SYMMETRY Symmetry
INVARIANT NoFalseAlarm
CHECK_DEADLOCK FALSE
