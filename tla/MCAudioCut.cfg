CONSTANTS
  FrameSize = 2
  MaxPackets = 3
  DecoderDelay = 0
  SampleRate = 1700
  Planar = TRUE
  Channels = 2
  Packets <- MCPackets
  Windows <- MCWindows
SPECIFICATION CutSpec
INVARIANTS
  WindowInTime
PROPERTY CutKeepsPromise
CHECK_DEADLOCK FALSE
