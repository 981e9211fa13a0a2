\* Two threads share a live stream: the producer drops frames instead of waiting.
SPECIFICATION FairSpec
CONSTANTS
  Clients = {c1, c2}
  NoClient = NoClient
  Source <- UnevenSource
  MaxQueueSize = 1
  MaxDropGap = 1000000
  Lossy = TRUE
  HasTimeout = TRUE
  FpsLimited = TRUE
  SilentFpsLimiter = TRUE
  SourceFails = TRUE
  CloseOverlaps = FALSE
  MaxSeeks = 1
INVARIANTS LiveQueueBounded
PROPERTIES CallsReturn
