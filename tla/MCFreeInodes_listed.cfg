CONSTANTS
  ITotal = 3
  NULL_REFERENCE = 63
  Now = 62
SPECIFICATION Spec
INVARIANT FreedIsListed
