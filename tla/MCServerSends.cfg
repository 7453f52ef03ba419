\* One channel is enough.
SPECIFICATION Spec
CONSTANTS
  Dirs = 1
  Files = 2
  FileLen = 2
  Rate = 1
  Burst = 2
  MAX_DATA = 2
  CHNNR = 2
  CHNIDS = 4
PROPERTIES ChannelSends
CHECK_DEADLOCK FALSE
