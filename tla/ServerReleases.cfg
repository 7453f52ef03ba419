\* The server really stops: after -H, on an error, or at shutdown.
SPECIFICATION Spec
CONSTANTS
  Dirs = 1
  Files = 1
  FileLen = 1
  Rate = 1
  Burst = 1
  MAX_DATA = 1
  CHNNR = 1
  CHNIDS = 4
PROPERTIES TermReleases
CHECK_DEADLOCK FALSE
