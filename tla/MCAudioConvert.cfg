CONSTANTS
  FrameSize = 2
  MaxPackets = 3
  DecoderDelay = 0
  Packets <- MCPackets
SPECIFICATION FairSpec
INVARIANTS
  TypeOK
  SwrEmptied
  EncoderReady
  ShortFrameIsLast
  AllReleased
  HandleOutlivedByContext
PROPERTIES
  KeepsPromise
  Terminates
CHECK_DEADLOCK FALSE
