SPECIFICATION ViewerSpec
CONSTANTS
  Views <- MCViews
  Fps = 10
  Filenames = {f1, f2}
  None = None
  Camera <- MCCamera
  Requests <- MCRequests
CHECK_DEADLOCK FALSE
INVARIANTS GraphServesViewer JpegKeepsItsFrame
PROPERTIES ViewerSeesItsView
