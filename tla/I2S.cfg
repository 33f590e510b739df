CONSTANTS
  Width = 8
  Samples = {s1, s2}
SPECIFICATION I2SSpec
INVARIANTS
  WholeSample
PROPERTIES
  BothChannels
  OfferedIsPlayed
