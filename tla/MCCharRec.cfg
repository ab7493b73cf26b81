SPECIFICATION CharRecSpec
CONSTANTS
  PixelNumber = 2
  Folders <- MCLabelled
  Epochs = {0, 2}
  NoFile = NoFile
  Null = Null
INVARIANTS CharRecTypeOK DataIsPictures CrashesExplained
