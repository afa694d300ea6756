CONSTANTS
  b1 = b1  b2 = b2
  Unset = Unset
  BackendIds <- MCBackendIds
  Algorithms <- MCAlgorithms
  MaxListed = 3
  MaxOpen = 2
SPECIFICATION FairBalancerSpec
INVARIANTS
  CountsFollowConnections
  RoundsAreFair
PROPERTIES
  HealthSettles
