CONSTANTS
  None = None
  Calls <- MCCalls
  MaxSources = 1
  Items <- MCItems
  Workers = {w1, w2}
  Spans = {s1}
SPECIFICATION FairSpec
INVARIANTS
  SilenceMeansStored
  ItemsSettled
  AskedOrRefused
  DatasetsOnce
PROPERTIES
  ReplayReturns
CHECK_DEADLOCK FALSE
