SPECIFICATION Spec
CONSTANTS
  CTotal = 8
  FCT_CACHE_SIZE = 2
  RPC = 4
  Byte = 16
  Word = 16
PROPERTY AllocGives
CHECK_DEADLOCK FALSE
