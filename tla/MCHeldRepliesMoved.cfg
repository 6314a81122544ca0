\* One message whose review the policy moves under.
SPECIFICATION Spec
CONSTANTS
  MaxMail = 1
  MaxPolicy = 2
  MaxActs = 0
  MaxFaults = 1
  MaxAttempts = 2
  FirstModes = {"auto"}
  Reviewers = {r1, r2}
  Teammates = {t1}
  NoOne = NoOne
INVARIANTS MovedPolicyIsReviewedAgain
SYMMETRY Symmetry
CHECK_DEADLOCK FALSE
