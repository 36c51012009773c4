SPECIFICATION Spec
CONSTANTS
  AccOne = 1024
  S114 = 16
  S19 = 4
  S10 = 4
  S15 = 8
  Steps = {64, 128, 256}
  Mantissa = 4
  RampLen = 512
  RampDiv = 256
  FracLen = 4
  Rates <- EveryRate
INVARIANTS
  TypeOK
PROPERTIES
  WrapMuted
