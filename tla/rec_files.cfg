SPECIFICATION ReaderSpec
CONSTANTS
  Sources <- MixedSources
  Lags = {0, 1}
  MaxDuration = 2
  None = None
  MaxRequests = 1
  MaxFailures = 1
  BufferSize = 2
  MaxSize = 6
INVARIANTS FramesNameTheirFile RecordingIsWhole ClipsAreFound SavedAsWritten
