CONSTANTS
  t1 = t1
  t2 = t2
  r1 = r1
  r2 = r2
  c1 = c1
  g1 = g1
  None = None
  Traces <- MCOneTrace
  Spans <- MCOneTraceSpans
  TraceOf <- MCTraceOf
  Roots <- MCRoots
  Parent <- MCChild
  Kept = {}
  Unplanned = {}
  Ignored = {}
  Plans <- MCOnePlan
  MaxHeld = 1
  MaxClosed = 1
  Nested = FALSE
SPECIFICATION FairSpec
PROPERTIES
  CompletionWaitsForSpans
  CompletionSent
  DrainsEnd
CHECK_DEADLOCK FALSE
