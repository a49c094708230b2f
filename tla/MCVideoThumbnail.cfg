CONSTANTS
  Streams <- MCStreams
  Requests <- MCRequests
  Ms = 2
  DecoderDelay = 1
SPECIFICATION FairSpec
INVARIANTS
  FirstFrameReached
  AllServed
PROPERTIES
  SeekKeeps
  Terminates
CHECK_DEADLOCK FALSE
