SPECIFICATION LiveSpec
CONSTANTS
  Entries = 2
  Devices <- MCDevices
  Configurations <- MCConfigurations
  Novation <- MCNovation
  ChunkSizes = {2, 5}
  MaxRetries = 3
INVARIANTS OneAddress HeldWhileRunning ErrorLeavesNoLimbo
PROPERTIES RunningIsReady AttachIsDecided DetachIsCleared
CHECK_DEADLOCK FALSE
