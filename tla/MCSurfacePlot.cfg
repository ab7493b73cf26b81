CONSTANTS
  PhotoRows = 3
  PhotoCols = 2
  RowStep = 2
  Erosions = 3
  MaxCalls = 3
  Grays <- MCGrays
  Scales <- MCScales
  Unreadable = Unreadable
SPECIFICATION SurfaceSpec
INVARIANTS WindowsAgree UprightByParity
PROPERTIES ErosionsRecur
