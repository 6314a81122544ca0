\* Two messages of a mailbox that drafts, reviews that fail and lapse: liveness.
SPECIFICATION FairSpec
CONSTANTS
  MaxMail = 2
  MaxPolicy = 1
  MaxActs = 0
  MaxFaults = 1
  MaxAttempts = 2
  FirstModes = {"draft"}
  Reviewers = {r1, r2}
  Teammates = {t1}
  NoOne = NoOne
PROPERTIES DueReviewEnds
CHECK_DEADLOCK FALSE
