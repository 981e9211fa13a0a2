SPECIFICATION FairSpec
CONSTANTS
  Prebuffer = 2
  NoBuffer = NoBuffer
  MaxFrames = 6
  MaxFlushes = 2
  MaxFailures = 1
CHECK_DEADLOCK FALSE
INVARIANTS DeviceGetsFramesInOrder
PROPERTIES PlaybackEnds
