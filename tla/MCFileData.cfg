CONSTANTS
  BPC = 2
  N_DIRECT = 1
  N_INDIRECT = 1
  RPC = 2
  Word = 32
  Tag = {a, b}
  Asked <- MCWrites
  Lengths = {3, 14}
  Zero = Zero
  Junk = Junk
SYMMETRY Symmetric
CHECK_DEADLOCK FALSE
SPECIFICATION Spec
INVARIANTS
  ReadsBack
  SizeCovers
  ReadsAll
PROPERTIES
  ByteFileSpec
