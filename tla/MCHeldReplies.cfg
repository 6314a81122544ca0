\* Two messages, two drains, a policy change, an act of a teammate, a fault.
SPECIFICATION Spec
CONSTANTS
  MaxMail = 2
  MaxPolicy = 2
  MaxActs = 1
  MaxFaults = 1
  MaxAttempts = 2
  FirstModes = {"auto"}
  Reviewers = {r1, r2}
  Teammates = {t1}
  NoOne = NoOne
INVARIANTS TypeOK LiveDraftIsCurrent NewestMailIsAttended
PROPERTIES SentRepliesAreCurrent
SYMMETRY Symmetry
CHECK_DEADLOCK FALSE
