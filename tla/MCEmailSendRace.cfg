\* One send, two workers and a sweep that race over it, one fault.
SPECIFICATION FairSpec
CONSTANTS
  MaxSends = 1
  Authorities = {"operator", "automatic"}
  Workers = {w1, w2}
  Sweeps = {s1}
  Teammates = {}
  MaxAttempts = 2
  MaxDeferrals = 1
  MaxFaults = 1
INVARIANTS TypeOK UnsentNeverReachedProvider OneCopyPerSend
PROPERTIES SendsSettle
CHECK_DEADLOCK FALSE
