\* Liveness and the promise of TokenBucket: no symmetry.
SPECIFICATION FairSpec
CONSTANTS
  Thread = {t1, t2}
  Bucket = {b1, b2}
  MYTBF_MAX = 1
  MaxCps = 1
  MaxBurst = 2
  MaxSize = 2
  NULL = NULL
PROPERTIES SleeperServed ExitEnds KeepsPromise
