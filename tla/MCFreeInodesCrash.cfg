CONSTANTS
  ITotal = 5
  NULL_REFERENCE = 63
  Now = 62
SPECIFICATION SpecCrash
INVARIANTS
  HeldNotFree
PROPERTIES
  NoDoubleAlloc
