CONSTANTS
  F_S = 44100
  AMP_ONE = 524288
  PEAK_CAP = 1048575
  ParMax = 127
  PeakUnit = 10
  TimeRange <- MCRange
  Limit <- MCLimit
  Slack <- MCSlack
  Notes <- MCNotes
  RegMod = 1048576
  Events <- MCTurns
  MaxEvents = 1
  PedalMin = 64
  Globals0 <- MCGlobals0
SPECIFICATION CtlSpec
INVARIANTS
  SettingsCurrent
  SettingsFit
