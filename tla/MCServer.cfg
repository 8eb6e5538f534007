CONSTANTS
  Conns = {c1, c2}
  Reasons = {deadline}
  MaxBytes = 3
  MaxRejected = 2
SPECIFICATION Spec
CHECK_DEADLOCK FALSE
INVARIANT RejectionsLogged
PROPERTY NoRequestCut
PROPERTY ShutdownEnds
