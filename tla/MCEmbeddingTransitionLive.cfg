\* The same with one revision: liveness.
SPECIFICATION FairSpec
CONSTANTS
  Docs = {d1}
  Spaces = {A, B}
  Workers = {w1, w2}
  FirstSpace = A
  NoSpace = NoSpace
  MaxAttempts = 2
  MaxRevision = 1
  MaxGeneration = 2
  MaxChanges = 1
  MaxFaults = 1
PROPERTIES TransitionEnds DocumentsSettle
CHECK_DEADLOCK FALSE
