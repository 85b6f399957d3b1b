SPECIFICATION Spec
CONSTANTS
  Name = {a, b, c, d, e, f}
  Inode = {i, j}
  NULL_REFERENCE = NULL_REFERENCE
  NoName = NoName
  DPC = 3
  EntrySize = 4
  MaxFcn = 5
INVARIANTS Packed NamesOnce ListsAll
PROPERTIES ListsOnce DirectorySpec
VIEW View
SYMMETRY Symmetry
CHECK_DEADLOCK FALSE
