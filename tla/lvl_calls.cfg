SPECIFICATION FairSpec
CONSTANTS
  MaxFrames = 4
  MaxOpens = 3
  MaxTries = 2
  MaxAttempts = 2
  SkippedFrames = 1
CHECK_DEADLOCK FALSE
INVARIANTS OneServerAnswers
PROPERTIES FramesAreFresh DeathIsNoticed
