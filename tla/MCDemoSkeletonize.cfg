SPECIFICATION Spec
CONSTANTS
  Cols = 3
  Rows = 2
  Pixels <- MCPixels
  Nbr <- MCNbr
  MaxGray = 2
  Unreadable = Unreadable
INVARIANTS SkeletonFits FinishedIsShown FinishedIsSum
PROPERTIES IsPeeling RoundEnds
