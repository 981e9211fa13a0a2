SPECIFICATION FairSpec
CONSTANTS
  Clips <- MCClips
  CodecDelay = 1
  EncoderDelay = 1
  BoxDuration = 3
  MaxDistance = 3
  Nothing = Nothing
  Error = Error
  None = None
  MaxFailures = 1
INVARIANTS ClipIsWhole EncoderGetsItsImages BoxesMeetTheirFrame
PROPERTIES ClipEnds
CHECK_DEADLOCK FALSE
