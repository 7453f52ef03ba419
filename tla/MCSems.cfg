\* Five threads; requests of one to three units compete for three.  Four of
\* them add to the file.
SPECIFICATION SemsSpec
CONSTANTS
  Thread = {0, 1, 2, 3, 4}
  InitVal = 3
  MaxUnits = 3
INVARIANTS SleepersUnmet UnitsAccounted DestroyAfterLast CountExact
PROPERTIES KeepsPromise MainEnds
