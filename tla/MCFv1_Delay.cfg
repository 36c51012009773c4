SPECIFICATION AuditSpec
CONSTANTS
  AccOne = 16
  S114 = 4
  S19 = 4
  S10 = 4
  S15 = 8
  Steps = {2, 4, 8}
  Mantissa = 2
  RampLen = 8
  RampDiv = 4
  FracLen = 2
  DelayLen = 4
  ProgLen = 4
  GP <- OneGP
  Programs <- DelayAndSilence
  Frames <- OneFrame
  PotLevels = {20}
  RamSeeds = {3}
  AdcSeeds = {1, 6}
  RateLen = 4
  LcgMod = 64
  LcgMul = 5
  LcgAdd = 3
  SeedMask = 9
  DitherSpan = 4
  BitAnd <- MCAnd
  BitOr <- MCOr
  BitXor <- MCXor
  LogOf <- MCLog
  ExpOf <- MCExp
  MaxDraws = 6
CONSTRAINT OneAtATime
INVARIANTS
  NoiseRestarts
PROPERTIES
  IsDelayLine
