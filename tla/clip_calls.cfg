SPECIFICATION ReaderSpec
CONSTANTS
  Frames <- LateStart
  ClipFrames = {f1, f2, f3}
  NoFrame = NoFrame
  FirstGoBack = 1
  MaxMs = 12
  MaxHeld = 2
CHECK_DEADLOCK FALSE
INVARIANTS FramesAreOwned
PROPERTIES RightFrames CallsReturn ReaderKeepsItsPlace
