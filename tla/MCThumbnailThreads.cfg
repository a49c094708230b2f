CONSTANTS
  Streams <- MCStreams
  Requests <- MCRequests
  Pictures <- MCPictures
  Ms = 2
  DecoderDelay = 1
SPECIFICATION FairSpec
INVARIANTS
  RunsInLiveObject
  PicturesInOrder
  WholeJpeg
PROPERTY
  Returns
CHECK_DEADLOCK FALSE
