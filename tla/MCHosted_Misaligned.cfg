SPECIFICATION Spec
CONSTANTS
  Taps = 4
  Grid = 4
  HostRates = {11}
  ChipRates = {2}
  MaxFed = 40
CHECK_DEADLOCK FALSE
INVARIANTS
  ConvertersAligned
