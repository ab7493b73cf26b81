SPECIFICATION AngleSpec
CONSTANTS
  Programs = {"KBR", "TBR", "TCR", "KCS", "KBR.py", "TBR.py", "KCS.py"}
  Deviation = 4
  HalfRange = 2
  MaxAngle = 8
  MaxIter = 4
  Crop = 2
  Means <- MCMeans
  MinMean = 2
  Sizes <- MCSizes
  NoAngle = NoAngle
INVARIANTS WrittenIsFirstBest PageOrReason
