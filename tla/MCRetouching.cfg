SPECIFICATION Spec
CONSTANTS
  Width = 3
  Points <- MCPoints
  Turns = 2
  MaxBoxes = 3
  NoPoint = NoPoint
  Untold = Untold
  Images = 2
  MaxRects = 1
  MaxPrinted = 3
  Zoom = 2
INVARIANTS DragsArePrinted ReadsWhatWasDrawn ReplacedAsDrawn
