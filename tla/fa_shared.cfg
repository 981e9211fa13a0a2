SPECIFICATION PacketSpec
CONSTANTS
  Owner = owner
  NoThread = none
  Releasers = {r1, r2}
  Frames = {f1, f2, f3}
  DesiredCount = 1
  MaxDrift = 1
  Sizes = {1, 3}
  Chunks = {2}
  GrowFactor = 2
  ReallocFactor = 2
  Padding = 1
  MaxRoom = 5
SYMMETRY MCSymmetry
CHECK_DEADLOCK FALSE
INVARIANTS PoolServesPackets GoneWithLastFrame
