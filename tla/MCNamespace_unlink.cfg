SPECIFICATION Spec
CONSTANTS
  Inode = {r, i, j}
  Root = r
  Name = {a, b}
  Dot = Dot
  DotDot = DotDot
  DPC = 2
  MAX_REF_COUNT = 4
  Protected = 1
PROPERTIES CountedDownWithEntry
