SPECIFICATION SafetySpec
CONSTANTS
  Kinds = {"BOOKING_REMINDER", "BOOKING_CONFIRMATION", "BOOKING_CANCELLED", "PAYMENT_REMINDER"}
  Ladder <- MCFreeLadder
  Runs = {j1, j2}
  Requests = {r1}
  Starts = {1}
  Lead = 1
  ReviewDelay = 1
  RetryDelay = 0
  MaxAttempts = 2
  MaxScheduled <- MCMaxScheduled
  MaxTime = 0
SYMMETRY MCSymmetry
INVARIANTS
  TypeOK
  
CHECK_DEADLOCK FALSE
