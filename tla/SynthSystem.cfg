CONSTANTS
  AmpMod = 4
  StepMod = 4
  PhaseMod = 1
  EntrySpan = 1
  PedalOn = 2
  BendOne = 1
  NumKeys = 2
  F <- MCUnitF
  Velocities = {0, 64}
  CtrlWrites <- MCEnvelopeWrites
  CtrlInit <- MCZero
  F_S = 1000
  AMP_ONE = 2
  PEAK_CAP = 3
  ParMax = 127
  PeakUnit = 1
  TimeRange <- MCRange
  Limit <- MCLimit
  Slack <- MCNoSlack
  Notes <- MCKeys
  RegMod = 4
  Events <- MCPlayAll
  MaxEvents = 1
  PedalMin = 2
  Globals0 <- MCGlobals0
SPECIFICATION FairSysSpec
INVARIANTS
  KeyUpReleases
  PedalFollows
PROPERTIES
  ReleaseKeepsVelocity
  EngineSpec
  NotesEnd
