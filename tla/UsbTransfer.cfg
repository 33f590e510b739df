SPECIFICATION LiveSpec
CONSTANTS
  MaxEvents = 3
  Total = 5
  ChunkPackets = 2
  ControlNaks = 3
  RetryLimit = 3
INVARIANTS DescriptorWhole
PROPERTIES ChannelSpec EventArrives
