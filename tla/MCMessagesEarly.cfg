SPECIFICATION SafetySpec
CONSTANTS
  Kinds = {"REVIEW_REQUEST"}
  Ladder <- MCShortLadder
  Runs = {j1}
  Requests = {r1}
  Starts = {1, 3}
  Lead = 1
  ReviewDelay = 1
  RetryDelay = 1
  MaxAttempts = 2
  MaxScheduled <- MCMaxScheduled
  MaxTime = 4
PROPERTY SentInItsTime
CHECK_DEADLOCK FALSE
