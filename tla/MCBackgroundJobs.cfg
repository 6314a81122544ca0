\* A level-triggered key and one that is not, two producers, two drains, a crash,
\* a stall and a handler that runs past its deadline.
SPECIFICATION FairSpec
CONSTANTS
  Keys = {k1, k2}
  RerunKeys = {k1}
  Jobs = {j1}
  Producers = {p1, p2}
  Drains = {d1, d2}
  MaxAttempts = 2
  MaxJobs = 1
  MaxTx = 2
  MaxCrashes = 1
  MaxStalls = 1
  MaxLate = 1
  None = None
INVARIANTS TypeOK NoLostChange HandlersRaceOnlyByCause RetryBudget
PROPERTIES ClaimsEndOnce JobsSettle ImplementsLevelTriggered
CHECK_DEADLOCK FALSE
