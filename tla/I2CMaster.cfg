SPECIFICATION Spec
CONSTANTS
  Script <- MCScript
  Volumes = {0, 127}
  Depth = 4
  Retries = 3
  OtherMaster = TRUE
INVARIANTS
  CodecKnown
  NothingLeftOver
PROPERTIES
  ScriptEnds
