SPECIFICATION Spec
CONSTANTS
  None = None
  Nothing = Nothing
  Error = Error
  Later = Later
  Cameras <- AllCameras
  Transforms <- AllTransforms
  Devices <- AllDevices
  DefaultIncrement = 4
  MaxTimeRetreat = 10
  ResetTimeJump = 12
  MaxTimeJump = 20
  FramesForFps = 2
  Increments = {3, 5}
  MaxFailures = 2
  CodecDelay = 1
  MaxFramesToSkip = 1
  MaxPacketsWithNoFrames = 2
  TransformDelay = 1
  MaxPortions = 2
INVARIANTS TimesIncrease PicturesAreKept StallIsNoticed AudioIsAsAnnounced
PROPERTIES CameraIsReached
