\* Two callers and one slot: one of them finds the table full.  A buffer is
\* filled twice and written in parts.
SPECIFICATION RelaySpec
CONSTANTS
  a1 = a1
  a2 = a2
  d1 = d1
  d2 = d2
  d3 = d3
  d4 = d4
  Fd = {d1, d2, d3, d4}
  Opened = {d2}
  Adder = {a1, a2}
  Pairs <- DisjointPairs
  REL_JOBMAX = 1
  BUFSIZE = 2
  MaxBytes = 3
  NoJob = NoJob
INVARIANTS AllBytesFaithful AllFlagsRestored NoneBlocks EventsMatch
PROPERTIES EndsTogether
