CONSTANTS
  Frames <- MCFramesErr
  MaxFrames = 1
  MaxCut = 0
  Exponents <- MCExponents
  TypeWidths <- MCMinimalTypes
SPECIFICATION Spec
INVARIANTS
  TransportErrorsCarryType
