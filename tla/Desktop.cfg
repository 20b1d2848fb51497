SPECIFICATION Spec
CONSTANTS
  Threads <- MCThreads
  Kept = {"DIR", "FIL", "LRQ", "PLC", "TXT"}
  Watched = {"LRQ", "TXT"}
  Scenes <- MCScenes
  FIND_PAGE_SIZE = 1
  MAX_RESULTS = 2
  MAX_WATCH_QUEUE = 8
  BufferSize = 3
  MaxRetries = 1
  None = None
PROPERTY SearchesComplete
PROPERTY ViewerCatchesUp
PROPERTY RequestsLaunch
PROPERTY AutostartUnlessEarly
PROPERTY ResizeSettles
CHECK_DEADLOCK FALSE
