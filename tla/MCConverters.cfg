SPECIFICATION Spec
CONSTANTS
  Programs = {"jpeg_tiff", "tiff_jpeg", "tiff_png", "tiff_webp", "jpeg_webp", "png_tiff"}
  Sizes <- MCSizes
  Pixels <- MCPixels
  Pictures <- MCPictures
  FaultSets <- MCFaultSets
  Word = 32
  MaxInt = 15
  Noise = Noise
  NoFile = NoFile
INVARIANTS TypeOK OutputIsGray CrashesExplained ExitsGiveBack
