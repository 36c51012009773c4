SPECIFICATION Spec
CONSTANTS
  Taps = 4
  Grid = 7
  HostRates = {3}
  ChipRates = {2}
  MaxFed = 40
CHECK_DEADLOCK FALSE
INVARIANTS
  NeverDry
