\* Three directories for a table of two channels (in the code 201 for 200).
SPECIFICATION Spec
CONSTANTS
  Dirs = 3
  Files = 1
  FileLen = 1
  Rate = 1
  Burst = 1
  MAX_DATA = 1
  CHNNR = 2
  CHNIDS = 4
INVARIANTS ChnidInRange
CHECK_DEADLOCK FALSE
