CONSTANTS
  t1 = t1
  r1 = r1
  c1 = c1
  c2 = c2
  None = None
  Traces <- MCTraces
  Spans <- MCSpans
  TraceOf <- MCTraceOf
  Roots <- MCRoots
  Parent <- MCParent
  Finalized <- MCFinalized
  MaxClosed = 1
  MaxStates = 2
SPECIFICATION Spec
INVARIANTS
  CompletionConserved
  FinalizersSettled
  DropHonoured
PROPERTIES
  FinalizersFirst
CHECK_DEADLOCK FALSE
