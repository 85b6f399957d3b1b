SPECIFICATION Spec
CONSTANTS
  N_DIRECT = 1
  N_INDIRECT = 2
  RPC = 2
  CTotal = 7
  Asked = {0, 1, 2, 3, 5, 8}
INVARIANTS Exclusive NothingLost CountExact
PROPERTIES AllocOnly KeepsPrefix
CHECK_DEADLOCK FALSE
