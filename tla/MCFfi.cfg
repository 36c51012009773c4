SPECIFICATION Spec
CONSTANTS
  NaN = NaN
  HostRates <- MCHostRates
  ChipRates <- MCChipRates
  SlotLen = 8
  UsizeMax = 31
  BankLens <- MCBankLens
  Indexes <- MCIndexes
  Texts = {"echo"}
  Messages <- MCMessages
  Caps = {0, 1, 4, 8}
  Bufs = {"A", "B"}
  Frames = {0, 2}
  MaxEvents = 3
  MaxCalls = 4
CHECK_DEADLOCK FALSE
INVARIANTS
  EngineRates
  LoadedAsAsked
  SettingsSurvive
  ErrorExplains
  BlockIsFrames
  ReportFits
PROPERTY RefusedLeavesEngine
