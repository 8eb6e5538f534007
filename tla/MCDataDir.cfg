CONSTANTS
  p1 = p1
  p2 = p2
  k1 = k1
  k2 = k2
  Procs <- MCProcs
  Nobody = Nobody
  Nothing = Nothing
  Binaries = {1, 3}
  Secrets <- MCSecrets
  NoKey = NoKey
  Damaged = Damaged
  Sources <- MCSources
  Kept = 2
  MaxStarts = 4
  MaxWrites = 2
  MaxFaults = 1
SYMMETRY MCSymmetry
SPECIFICATION Spec
CHECK_DEADLOCK FALSE
INVARIANT ListensOnItsDatabase
INVARIANT UpgradeHasCopy
INVARIANT CommitsSurvive
PROPERTY BackupNeverReplaced
