CONSTANTS
  IPB = 2
  RPB = 3
  Word = 64
  Devices <- MCDevices
  InodeCounts <- MCInodeCounts
  ClusterSizes <- MCClusterSizes
SPECIFICATION Spec
INVARIANTS
  RegionsTile
  FreeListsComplete
PROPERTIES
  Ends
CHECK_DEADLOCK FALSE
