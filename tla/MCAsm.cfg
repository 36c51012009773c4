SPECIFICATION Spec
CHECK_DEADLOCK FALSE
CONSTANTS
  IntMax = 33554431
  RealMax = 33554431
  BitAnd <- MCAnd
  BitOr <- MCOr
  BitXor <- MCXor
  PowF <- MCPowF
  SkipMax = 2
  RawMax = 33554431
  ProgLen = 5
  DelayLen = 32768
  Tokens <- MCTokens
  Sources <- MCSources
INVARIANTS
  TypeOK
  BlocksApart
  SkipsLand
  EquMeans
  InstructionsKept
  CoefficientsNearest
  WordsFaithful
  PrintedReadsBack
