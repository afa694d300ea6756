CONSTANTS
  n1 = n1  n2 = n2  a = a  b = b
  p1 = p1  p2 = p2  p3 = p3  p4 = p4  g1 = g1
  None = None
  NodeIds <- MCNodeIds
  NodeObjs <- MCNodeObjs
  IdOf <- MCIdOf
  Pods <- MCPods
  Quantities <- MCQuantities
  Capacity <- MCCapacity
  Demand <- MCDemand
  Devices <- MCDevices
  GpuCount <- MCGpuCount
  Capable <- MCCapable
  Priority <- MCPriority
  AllowChurn = FALSE
SPECIFICATION FairSpec
INVARIANTS
  GpusBelongToAssigned
  PlacementsAgree
PROPERTIES
  PreemptionReturns
