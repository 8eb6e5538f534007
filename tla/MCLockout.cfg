SPECIFICATION Spec
CONSTANTS
  LockAfter = 2
  LockSeconds = 3
  DeviceWindowSeconds = 2
  DeviceFailuresMax = 1
  LockoutMailSeconds = 4
  StepSeconds = 5
  Accounts <- SomeAccounts
  Slots = {s1, s2}
  MaxLag = 1
  Horizon = 4
  MaxHash = 1
  MaxUnlocks = 1
SYMMETRY SlotSymmetry
INVARIANTS
  GuessesBounded
  DeviceGuessesBounded
  EveryLockWarned
PROPERTIES
  LockOnlyAfterFailures
  StrangersBlockNoDevice
CHECK_DEADLOCK FALSE
