SPECIFICATION SafetySpec
CONSTANTS
  Payments = {p1, p2}
  Submissions = {s1, s2, s3}
  Handlers = {h1, h2}
  Operations = {o1, o2}
  StartsAt = 3
  Hold = 1
  Extension = 1
  MaxHold = 2
  ReviewWindow = 2
  Cooldown = 1
  MaxSubmissions = 2
  MaxAttempts = 2
  MaxTime = 0
INVARIANTS OperationUsedOnce
SYMMETRY MCSymmetry
CHECK_DEADLOCK FALSE
