SPECIFICATION FairSpec
CONSTANTS
  MaxSends = 1
  Authorities = {"operator"}
  Workers = {w1}
  Sweeps = {s1}
  Teammates = {t1}
  MaxAttempts = 1
  MaxDeferrals = 0
  MaxFaults = 1
PROPERTIES BadNewsFindsItsFailure
CHECK_DEADLOCK FALSE
