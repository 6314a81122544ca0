\* Two messages, the second recorded while the first is under review.
SPECIFICATION Spec
CONSTANTS
  MaxMail = 2
  MaxPolicy = 1
  MaxActs = 0
  MaxFaults = 0
  MaxAttempts = 2
  FirstModes = {"auto"}
  Reviewers = {r1, r2}
  Teammates = {t1}
  NoOne = NoOne
INVARIANTS OneAutomaticReply
SYMMETRY Symmetry
CHECK_DEADLOCK FALSE
