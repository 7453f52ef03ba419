\* Two callers, two slots and a third struct: inits that race for a slot, a
\* full table, two fetchers on one bucket, a slot that changes hands while the
\* refill thread is between two slots, exit with buckets registered.
SPECIFICATION Spec
CONSTANTS
  Thread = {t1, t2}
  Bucket = {b1, b2, b3}
  MYTBF_MAX = 2
  MaxCps = 1
  MaxBurst = 2
  MaxSize = 2
  NULL = NULL
SYMMETRY Symmetry
INVARIANTS NoLostWakeup NoUseAfterFree NoLeak ExitReleasesAll IInv
