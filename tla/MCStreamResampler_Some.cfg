SPECIFICATION StreamSpec
CONSTANTS
  Taps = 4
  Grid = 6
  Rates <- SomeRates
  MaxPushed = 24
CHECK_DEADLOCK FALSE
INVARIANTS
  HistoryAligned
  WindowExact
  NoPanic
