CONSTANTS
  FrameSize = 2
  MaxPackets = 3
  DecoderDelay = 0
  SwrCapacity = 11
  Packets <- MCPackets
SPECIFICATION MCSpec
INVARIANTS
  TunedInPlace
  GainOfWhole
PROPERTY TwoPassKeepsPromise
CHECK_DEADLOCK FALSE
