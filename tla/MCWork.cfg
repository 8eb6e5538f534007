CONSTANTS
  j1 = j1
  j2 = j2
  j3 = j3
  j4 = j4
  j5 = j5
  Jobs <- MCJobs
  Writes = 2
  Readers = 2
SYMMETRY MCSymmetry
SPECIFICATION Spec
INVARIANT PermitsConserved
INVARIANT HashingBounded
INVARIANT ReaderIsFree
