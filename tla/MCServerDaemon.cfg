\* The daemon is small; the other programs have the least there can be.
\* A program that is stopped, or stuck in its exit, makes no step.
SPECIFICATION SocketSpec
CONSTANTS
  Dirs = 1
  Files = 1
  FileLen = 1
  Rate = 1
  Burst = 1
  MAX_DATA = 1
  CHNNR = 1
  CHNIDS = 2
  PROCNUM = 1
  Clients = 1
  Source = {s1}
  Channel = {1}
  PIPE_BUF = 1
  MaxMsgs = 1
PROPERTIES SigtermNormal
CHECK_DEADLOCK FALSE
