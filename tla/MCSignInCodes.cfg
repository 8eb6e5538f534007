SPECIFICATION Spec
CONSTANTS
  LockAfter = 10
  LockSeconds = 900
  DeviceWindowSeconds = 3600
  DeviceFailuresMax = 20
  LockoutMailSeconds = 86400
  StepSeconds = 1
  Users = {u1}
  Slots = {s1, s2}
  DevicesKept = 1
  CodeCount = 1
  Horizon = 1
  MaxHash = 2
  MaxNonce = 2
  MaxCookie = 2
  MaxBatch = 2
SYMMETRY SlotSymmetry
INVARIANTS
  CodesOnlyWhileEnrolled
CHECK_DEADLOCK FALSE
