\* Two processes with four lines each; a file is rotated from two lines on.
CONSTANTS
  Procs = {p1, p2}
  Inodes = {i1, i2, i3, i4}
  None = None
  MaxSize = 1
  MaxLines = 4
  MaxFaults = 2
SPECIFICATION Spec
SYMMETRY MCSymmetry
CHECK_DEADLOCK FALSE
INVARIANTS
  TypeOK
  SizeBounded
  LinesInOrder
  SequentialKeepsRecent
