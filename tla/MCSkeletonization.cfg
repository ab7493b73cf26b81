SPECIFICATION Spec
CONSTANTS
  Cols = 4
  Rows = 2
  Pixels <- MCPixels
  Nbr <- MCNbr
  MaxGray = 1
  Unreadable = Unreadable
INVARIANTS SkeletonIsNear FileIsSkeleton
PROPERTIES IsPeeling Terminates
