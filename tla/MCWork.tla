-------------------------------- MODULE MCWork -------------------------------
(* Five pieces of work: one more than the readers, the hashing permits and *)
(* the writer and its queue can take.                                      *)
EXTENDS Work, TLC

CONSTANTS j1, j2, j3, j4, j5

MCJobs == {j1, j2, j3, j4, j5}
MCSymmetry == Permutations(MCJobs)
=============================================================================
