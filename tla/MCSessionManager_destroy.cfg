CONSTANTS
  s1 = s1  s2 = s2  s3 = s3  a1 = a1
  c1 = c1  c2 = c2  c3 = c3  n1 = n1
  None = None
  PodIds <- MCPodIds
  Kind <- MCKind
  MaxConcurrentRuns = 1
  Destroyers = {}
  Faulty <- MCPodIds
  Sessions <- MCSessions
  AI = {a1}
  NoRepo = {s3}
  PodOf <- MCPodOf
  Nodes = {n1}
  Slots <- MCSlots
SPECIFICATION SSpec
INVARIANTS
  DestroyFreesResources
