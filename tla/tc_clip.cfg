\* Two threads share a clip with audio: reads, seeks, graph edits and a close overlap.
\* The system may really stop: a close can wait for a producer that waits for
\* space, so deadlock is not checked.
SPECIFICATION FairSpec
CHECK_DEADLOCK FALSE
CONSTANTS
  Clients = {c1, c2}
  NoClient = NoClient
  Source <- MixedSource
  MaxQueueSize = 1
  MaxDropGap = 1000000
  Lossy = FALSE
  HasTimeout = FALSE
  FpsLimited = TRUE
  SilentFpsLimiter = FALSE
  SourceFails = FALSE
  CloseOverlaps = FALSE
  MaxSeeks = 2
INVARIANTS TypeOK QueueIsExact GraphChangesAlone
PROPERTIES ConnectorIsChannel ReadsAreAnswered
