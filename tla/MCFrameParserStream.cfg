CONSTANTS
  Frames <- MCFramesStream
  MaxFrames = 1
  MaxCut = 1
  Exponents <- MCExponents
  TypeWidths <- MCMinimalTypes
SPECIFICATION FairSpec
PROPERTIES
  StreamRefinement
