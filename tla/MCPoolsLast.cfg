\* Three workers: two compete for a task while main waits for the slot.
\* main may block for good (its second lock), so no deadlock check.
SPECIFICATION PoolSpec
CONSTANTS
  Worker = {w1, w2, w3}
  LEFT = 8
  RIGHT = 11
  Main = main
PROPERTIES PoolLastConsumed
CHECK_DEADLOCK FALSE
