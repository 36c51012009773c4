SPECIFICATION FairSpec
CONSTANTS
  Taps = 4
  Grid = 12
  HostRates = {2, 3, 4, 6}
  ChipRates = {2, 3, 4, 5, 6, 8, 10, 12}
  MaxFed = 120
CHECK_DEADLOCK FALSE
INVARIANTS
  DryNeedsDrift
  LatencyHolds
  ConvertersAligned
  HistoryFits
  ChipOnTime
PROPERTIES
  PrimingEnds
