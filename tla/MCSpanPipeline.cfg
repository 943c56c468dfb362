CONSTANTS
  t1 = t1
  t2 = t2
  r1 = r1
  r2 = r2
  c1 = c1
  g1 = g1
  None = None
  Traces <- MCTwoTraces
  Spans <- MCTwoTraceSpans
  TraceOf <- MCTraceOf
  Roots <- MCRoots
  Parent <- MCSiblings
  Kept <- MCKept
  Unplanned = {}
  Ignored = {}
  Plans <- MCPlans
  MaxHeld = 6
  MaxClosed = 1
  Nested = TRUE
SPECIFICATION PipelineSpec
PROPERTIES
  KeepsPromise
CHECK_DEADLOCK FALSE
CONSTRAINT MCDrops
