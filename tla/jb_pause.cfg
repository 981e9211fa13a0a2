CONSTANTS
  BufferTime = 0
  PausedTime = 3
  Jumpstart = TRUE
  JumpGap = 1
  TargetGap = 1
  Second = 2
  Delays <- SomeDelays
  NoParam = NoParam
  Disorder = 2
  MaxPts = 6
  MaxFrames = 3
SPECIFICATION FairSpec
PROPERTIES WindowKept MediaOrdered FillersEnd
