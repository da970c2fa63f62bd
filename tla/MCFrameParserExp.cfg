CONSTANTS
  Frames <- MCFramesAck
  MaxFrames = 1
  MaxCut = 0
  Exponents <- MCExponents
  TypeWidths <- MCMinimalTypes
SPECIFICATION Spec
INVARIANTS
  AckDelayDefaultUntilSet
