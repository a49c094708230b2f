CONSTANTS
  FrameSize = 2
  MaxPackets = 3
  DecoderDelay = 0
  Packets <- MCPackets
SPECIFICATION Spec
INVARIANT EncoderDrained
CHECK_DEADLOCK FALSE
