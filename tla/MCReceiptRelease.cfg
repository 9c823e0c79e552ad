SPECIFICATION Spec
CONSTANTS
  Payments = {p1}
  Submissions = {s1}
  Handlers = {h1, h2}
  Operations = {o1}
  StartsAt = 3
  Hold = 1
  Extension = 1
  MaxHold = 2
  ReviewWindow = 2
  Cooldown = 1
  MaxSubmissions = 2
  MaxAttempts = 2
  MaxTime = 3
PROPERTY HoldEnds
CHECK_DEADLOCK FALSE
