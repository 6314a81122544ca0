SPECIFICATION Spec
CONSTANTS
  MaxSends = 2
  Authorities = {"operator"}
  Workers = {w1}
  Sweeps = {s1}
  Teammates = {t1}
  MaxAttempts = 1
  MaxDeferrals = 0
  MaxFaults = 1
SYMMETRY Symmetry
INVARIANTS UnsentNeverReachedProvider OneCopyPerSend FailureTellsTheTruth
PROPERTIES DecisionsAreFresh
CHECK_DEADLOCK FALSE
