CONSTANTS
  Inode = {0, 1, 2}
  Root = 0
  IPB = 4
  Cluster = {1, 2}
  Name = {a, b}
  DPC = 3
  NoEntry = NoEntry
  MaxOpen = 1
SYMMETRY Symmetric
SPECIFICATION Spec
INVARIANTS
  NamesInUse
  NoShare
  UnsavedOnlyAdds
PROPERTIES
  LastCloseSaved
  NameKept
