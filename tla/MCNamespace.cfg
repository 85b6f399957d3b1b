SPECIFICATION Spec
CONSTANTS
  Inode = {r, i, j}
  Root = r
  Name = {a, b, c}
  Dot = Dot
  DotDot = DotDot
  DPC = 2
  MAX_REF_COUNT = 3
  Protected = 1
INVARIANTS NoDangling OneName NothingElseLost ParentIsParent CountsNames
SYMMETRY Symmetry
