CONSTANTS
  Frames <- MCFrames
  MaxFrames = 2
  MaxCut = 1
  Exponents <- MCExponents
  TypeWidths <- MCMinimalTypes
SPECIFICATION Spec
INVARIANTS
  TypeOK
  SweepMatchesReference
PROPERTIES
  CallsConsume
