CONSTANTS
  a = a
  b = b
  s = s
  t = t
  Goroutines = {1, 2}
  Main = {1, 2}
  Calls = {a, b, s, t}
  Kind <- MCKind
SPECIFICATION ScopeSpec
INVARIANTS
  TraceRefusedOnlyInsideSpan
CHECK_DEADLOCK FALSE
