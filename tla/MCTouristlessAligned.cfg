SPECIFICATION Spec
CONSTANTS
  Images = 3
  Span = 5
  Rects <- MCRects
  MaxRects = 2
  MaxGarbage = 1
  Shifts = {}
  Nested = TRUE
INVARIANTS PastedIsClean RestIsUntouched StaysOnlyIfNoneFree ResultOrReason
