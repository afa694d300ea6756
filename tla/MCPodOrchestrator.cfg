CONSTANTS
  c1 = c1  c2 = c2  c3 = c3  v1 = v1  m1 = m1  h1 = h1
  d1 = d1  d2 = d2
  None = None
  PodIds <- MCPods
  Kind <- MCKind
  MaxConcurrentRuns = 1
  Destroyers = {d1, d2}
  Faulty <- MCFaulty
SPECIFICATION OSpec
CHECK_DEADLOCK FALSE
SYMMETRY Symmetric
INVARIANTS
  ListedPodsAreUp
