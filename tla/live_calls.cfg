\* Two threads of the application prepare, enable and disable streaming and read frames
\* while the connector's thread reads the graph.
SPECIFICATION Spec
CONSTANTS
  Callers = {c1, c2}
  Producer = producer
  NoThread = NoThread
  BufferTime = 0
  PausedTime = 1
  MaxFrames = 4
  MaxRecordings = 2
SYMMETRY Symmetry
INVARIANTS SubgraphInUse RecordingsExact PauseFollowsRecorder
