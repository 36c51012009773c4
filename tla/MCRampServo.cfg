SPECIFICATION FairSpec
CONSTANTS
  AccOne = 64
  S114 = 16
  S19 = 4
  S10 = 4
  S15 = 8
  Steps = {2, 4, 8, 16}
  Mantissa = 4
  RampLen = 32
  RampDiv = 4
  FracLen = 4
PROPERTIES
  NeverWraps
  ServoParks
