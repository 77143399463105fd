SPECIFICATION Spec
CONSTANTS
  d = d
  f = f
  g = g
  x = x
  y = y
  Top = Top
  Absent = Absent
  Directory = Directory
  None = None
  Paths = {d, f, g}
  Parent <- MCParent
  Blocks = {x, y}
  BufLen = 2
  MaxBlocks = 2
INVARIANTS TypeOK MoveKeepsContent AcceptedMeansAnswered
PROPERTY ImplementsService
SYMMETRY Interchangeable
