CONSTANTS
  N = 2
  Workers = {w1, w2}
  MaxAttempts = 3
  Budget = 10
  Base = 2
  Ceiling = 4
  RetryAfters = {1, 3}
  None = None
SPECIFICATION FairSpec
INVARIANTS
  SuccessMeansAccepted
PROPERTIES
  SentInTime
  OnlyWaitersOvertake
  ExportReturns
CHECK_DEADLOCK FALSE
