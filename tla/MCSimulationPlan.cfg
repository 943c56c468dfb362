CONSTANTS
  t1 = t1
  t2 = t2
  r1 = r1
  c1 = c1
  e1 = e1
  None = None
  Traces <- MCTraces
  Spans <- MCSpans
  TraceOf <- MCTraceOf
  Roots <- MCRoots
  Kept = {}
  Unplanned = {}
  Ignored <- MCRoots
  Plans <- MCPlans
  MaxHeld = 2
SPECIFICATION Spec
INVARIANTS
  RecordsConserved
  ContentNeedsPlan
  CompletionFollowsSpans
  FlushMissesOnlyEvicted
CHECK_DEADLOCK FALSE
