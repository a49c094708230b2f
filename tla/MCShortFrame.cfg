CONSTANTS
  Channels <- MCChannels
  FrameSizes <- MCFrameSizes
  Unit = 2
  MaxBlocks = 4
SPECIFICATION Spec
INVARIANTS
  ChannelsInPlace
CHECK_DEADLOCK FALSE
