CONSTANTS
  AmpMod = 3
  StepMod = 3
  PhaseMod = 2
  EntrySpan = 1
  PedalOn = 1
  BendOne = 1
  NumKeys = 2
  Depth = 2
  F <- MCUnitF
  Velocities = {0}
  CtrlWrites <- MCPedal
  CtrlInit <- MCVoiceCtrl
SPECIFICATION FairPathSpec
INVARIANTS FifoTypeOK NothingDropped StallsBetweenSamples StreamContiguous
PROPERTIES QueueSpec PressHeard ReleasedEnds
