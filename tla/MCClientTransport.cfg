CONSTANTS
  Carriers = {k1, k2}
  Flushers = {f1}
  Closers = {c1, c2}
  MaxQueue = 1
  MaxBatch = 1
  None = None
SPECIFICATION Spec
SYMMETRY Symmetry
INVARIANTS
  FailureTold
  NothingLeftBehind
  TruthfulAlone
CHECK_DEADLOCK FALSE
