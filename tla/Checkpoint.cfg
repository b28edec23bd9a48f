SPECIFICATION Spec
CONSTANTS
  Writers = {w1, w2}
  NoKey = NoKey
  EmptyKey = EmptyKey
  MaxEvents = 3
  MaxCheckpoints = 3
SYMMETRY Symmetry
INVARIANTS TypeOK SignedByInstallKey FileVerifies AnchorsAdvance AcceptsUnpruned
PROPERTY KeyNeverReplaced
CHECK_DEADLOCK FALSE
