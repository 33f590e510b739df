CONSTANTS
  AmpMod = 256
  StepMod = 128
  PhaseMod = 1
  EntrySpan = 1
  PedalOn = 64
  BendOne = 1
  NumKeys = 1
  F <- MCUnitF
  Velocities = {0, 64}
  CtrlWrites <- MCCtrlWrites
  CtrlInit <- MCZero
  F_S = 1000
  AMP_ONE = 4
  PEAK_CAP = 7
  ParMax = 127
  PeakUnit = 1
  TimeRange <- MCRange
  Limit <- MCLimit
  Slack <- MCNoSlack
  Notes <- MCKeys
  RegMod = 128
  Events <- MCHardOff
  MaxEvents = 1
  PedalMin = 64
  Globals0 <- MCGlobals0
SPECIFICATION SysSpec
INVARIANTS
  KeyUpReleases
