SPECIFICATION Spec
CONSTANTS
  Bookings = {b1}
  Requests = {r1, r2, r3}
  ann = ann
  bob = bob
  chair = chair
  cut = cut
  wash = wash
  Staff = {ann, bob}
  Resources = {chair}
  Services = {cut}
  Assigned <- MCAssigned
  BranchOf <- MCBranchOf
  Needs <- MCNeeds
  Duration <- MCDuration
  BufferBefore <- MCBufferBefore
  BufferAfter <- MCBufferAfter
  MaxBuffer = 1
  Opening = 0
  Closing = 3
  MinLead = 0
  MaxAdvance = 2
  ChangeWindow = 1
  MaxReschedules = 1
  MaxTime = 2
SYMMETRY MCSymmetry
INVARIANTS LimitOvershootBounded
CHECK_DEADLOCK FALSE
