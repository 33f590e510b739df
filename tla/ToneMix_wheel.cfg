SPECIFICATION Spec
CONSTANTS
  SampleHalf = 4
  ModSpan = 4
  AmpSpan = 4
  VelSpan = 2
  GainUnit = 2
INVARIANTS
  MixedBetween
