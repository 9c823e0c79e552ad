SPECIFICATION Spec
CONSTANTS
  Bookings = {b1, b2}
  Requests = {r1, r2}
  ann = ann
  bob = bob
  chair = chair
  cut = cut
  wash = wash
  Staff = {ann, bob}
  Resources = {chair}
  Services = {cut, wash}
  Assigned <- MCAssigned
  BranchOf <- MCBranchOf
  Needs <- MCNeeds
  Duration <- MCDuration
  BufferBefore <- MCBufferBefore
  BufferAfter <- MCBufferAfter
  MaxBuffer = 1
  Opening = 1
  Closing = 3
  MinLead = 0
  MaxAdvance = 1
  ChangeWindow = 0
  MaxReschedules = 1
  MaxTime = 0
SYMMETRY MCSymmetry
INVARIANTS NoDoubleBooking
CHECK_DEADLOCK FALSE
