SPECIFICATION Spec
CONSTANTS
  Kinds = {"BOOKING_REMINDER", "BOOKING_CONFIRMATION", "BOOKING_CANCELLED"}
  Ladder <- MCFreeLadder
  Runs = {j1}
  Requests = {r1}
  Starts = {1}
  Lead = 1
  ReviewDelay = 0
  RetryDelay = 1
  MaxAttempts = 2
  MaxScheduled <- MCMaxScheduled
  MaxTime = 1
PROPERTIES
  Settles
CHECK_DEADLOCK FALSE
