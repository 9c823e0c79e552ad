SPECIFICATION Spec
CONSTANTS
  Bookings = {b1, b2}
  Requests = {r1}
  ann = ann
  bob = bob
  chair = chair
  cut = cut
  wash = wash
  Staff = {ann, bob}
  Resources = {chair}
  Services = {cut, wash}
  Assigned <- MCAssigned
  BranchOf <- MCBranchOf
  Needs <- MCNeeds
  Duration <- MCDuration
  BufferBefore <- MCWideBefore
  BufferAfter <- MCWideAfter
  MaxBuffer = 1
  Opening = 1
  Closing = 4
  MinLead = 0
  MaxAdvance = 3
  ChangeWindow = 0
  MaxReschedules = 1
  MaxTime = 0
SYMMETRY MCSymmetry
INVARIANTS NoUnexplainedOverlap
CHECK_DEADLOCK FALSE
