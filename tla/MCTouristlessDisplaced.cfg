SPECIFICATION Spec
CONSTANTS
  Images = 2
  Span = 5
  Rects <- MCRects
  MaxRects = 1
  MaxGarbage = 1
  Shifts = {2}
  Nested = FALSE
INVARIANTS PastedIsClean
