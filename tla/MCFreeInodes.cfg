CONSTANTS
  ITotal = 5
  NULL_REFERENCE = 63
  Now = 62
SPECIFICATION Spec
INVARIANTS
  TypeOK
  ListSound
  NeverOvercounts
  HeldIsInUse
  DiskIsCurrent
PROPERTIES
  NoDoubleAlloc
  PoolSpec
