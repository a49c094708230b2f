CONSTANTS
  MaxPackets = 4
  Delays = {0, 1, 2}
  Packets <- MCPackets
  Counts <- MCCounts
  Limit = 12
  MaxSamples = 13
  FrameSize = 1
  PacketSize = 2
SPECIFICATION MCSpec
INVARIANTS
  NothingSkipped
  InBuffer
  InOrder
  BufferBounded
  NeverRefused
PROPERTIES
  IsFrameSource
  LoopEnds
  IsFifo
CHECK_DEADLOCK FALSE
