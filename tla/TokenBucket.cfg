SPECIFICATION Spec
CONSTANTS
  Agents = {a1, a2}
  Threads = {t1, t2}
  Rate = 1
  Burst = 5
  Cost = 2
  MaxClock = 3
SYMMETRY Symmetry
INVARIANTS TypeOK WindowBound
PROPERTY RefusedOnlyWhenSpent
