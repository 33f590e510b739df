CONSTANTS
  AmpMod = 16
  StepMod = 16
  PhaseMod = 2
  EntrySpan = 1
  PedalOn = 1
  BendOne = 1
  NumKeys = 2
  F <- MCUnitF
  Velocities = {0}
  CtrlWrites <- MCPedalBend
  CtrlInit <- MCFrameCtrl
SPECIFICATION Spec
INVARIANTS
  TypeOK
  MixedInOrder
  MixedComplete
  SampleIsOwn
  DecisionHolds
  SilencedWhenQuiet
PROPERTIES
  AttackReachesPeak
  NeverLouder
