\* Three directories, so that one can fail, the list can have a second entry, and
\* there can be one channel more than the table has room for;
\* three clients of a server with two children, so that one is too many; two
\* senders and one channel beside the list, messages that do not fit the pipe.
\* A program that is stopped, or stuck in its exit, makes no step.
SPECIFICATION SocketSpec
CONSTANTS
  Dirs = 3
  Files = 1
  FileLen = 1
  Rate = 1
  Burst = 1
  MAX_DATA = 2
  CHNNR = 2
  CHNIDS = 4
  PROCNUM = 2
  Clients = 3
  Source = {s1, s2}
  Channel = {1}
  PIPE_BUF = 2
  MaxMsgs = 3
INVARIANTS ListBacked ListerReadsLive PlayerFed
PROPERTIES TermEndsAll ClientsServed
CHECK_DEADLOCK FALSE
