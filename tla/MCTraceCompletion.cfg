CONSTANTS
  Traces = {t1, t2, t3}
  Spans = {s1, s2}
  MaxClosed = 2
SPECIFICATION Spec
SYMMETRY Symmetry
INVARIANTS
  ClosedLedger
PROPERTIES
  CountStable
