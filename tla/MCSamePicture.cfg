CONSTANTS
  Streams <- MCStreams
  Requests <- MCRequests
  Ms = 2
  DecoderDelay = 1
SPECIFICATION Spec
INVARIANT SamePicture
CHECK_DEADLOCK FALSE
