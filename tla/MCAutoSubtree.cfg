CONSTANTS
  outer = outer
  inner = inner
  t1 = t1
  t2 = t2
  n1 = n1
  n2 = n2
  a = a
  b = b
  u = u
  g = g
  Roots = {outer, inner}
  FnCalls = {t1, t2, n1, n2}
  Opens <- MCOpens
  Around <- MCAround
  Declared = {t1, t2}
  Options <- MCOptions
  Goroutines = {1, 2}
  Main = {1}
  Calls = {a, b, u, t1, t2, n1, g}
  Kind <- MCKind
SPECIFICATION MCSpec
INVARIANTS
  CompletionLast
  LimitExact
  AutoScopeExact
PROPERTIES
  SubtreesComplete
CHECK_DEADLOCK FALSE
