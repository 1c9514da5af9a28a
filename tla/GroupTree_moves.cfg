SPECIFICATION Spec
CONSTANTS
  Groups = {g1, g2, g3, g4, g5}
  NoGroup = NoGroup
  Blank = Blank
  MaxDepth = 3
  Changes = {t1, t2}
  MaxChanges = 6
SYMMETRY Symmetric
INVARIANTS
  PathsTrue
  DepthBounded
CHECK_DEADLOCK FALSE
