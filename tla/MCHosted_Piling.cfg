SPECIFICATION Spec
CONSTANTS
  Taps = 4
  Grid = 7
  HostRates = {1}
  ChipRates = {3}
  MaxFed = 40
CHECK_DEADLOCK FALSE
INVARIANTS
  HistoryReserved
