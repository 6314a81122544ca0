\* One change of the embedding model under one document, two workers, an edit of
\* the document or of its setting, and a fault.
SPECIFICATION Spec
CONSTANTS
  Docs = {d1}
  Spaces = {A, B}
  Workers = {w1, w2}
  FirstSpace = A
  NoSpace = NoSpace
  MaxAttempts = 2
  MaxRevision = 2
  MaxGeneration = 2
  MaxChanges = 1
  MaxFaults = 1
INVARIANTS TypeOK RetrievableIsSearchable CompletedMeansCovered
SYMMETRY Symmetry
CHECK_DEADLOCK FALSE
