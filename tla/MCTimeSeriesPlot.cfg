SPECIFICATION Spec
CONSTANTS
  Cols = 4
  Rows = 2
  ClearWidth = 1
  Heights = {0, 2}
  MaxFrame = 6
  MaxGap = 4
  MaxBack = 1
INVARIANTS RegularNeverThrows NoHoles StaleOnlyAtEdge RestoreInside OneCursor
PROPERTIES LinesJoin
