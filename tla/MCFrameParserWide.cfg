CONSTANTS
  Frames <- MCFramesWide
  MaxFrames = 2
  MaxCut = 8
  Exponents <- MCExponents
  TypeWidths <- MCWideTypes
SPECIFICATION Spec
INVARIANTS
  SweepMatchesReference
