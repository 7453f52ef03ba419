\* Bytes of the source exceed a buffer and a burst; a fetch may ask for more
\* than the burst, as in the programs (BUFSIZE 1024, BURST 100).  Three rows
\* and four signals: a signal can come in every row, twice in one of them.
\* The process stops at its end.
SPECIFICATION PacedSpec
CONSTANTS
  CPS = 2
  BURST = 3
  BUFSIZE = 4
  MaxBytes = 5
  STARS = 2
  ROWS = 3
  MaxSent = 4
INVARIANTS AllCopied HandlersSafe
PROPERTIES AllEnd KeepsPromise
CHECK_DEADLOCK FALSE
