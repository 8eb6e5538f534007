------------------------------ MODULE MCDataDir ------------------------------
(* Two processes at a time, releases with one and with three migrations,   *)
(* and four files an operator may restore.                                *)
EXTENDS DataDir, TLC

CONSTANTS p1, p2, k1, k2

MCProcs == {p1, p2}
MCSecrets == {k1, k2}
MCSymmetry == Permutations(MCProcs) \cup Permutations(MCSecrets)
MCSources == {Damaged} \cup {Contents(1, k, 0) : k \in MCSecrets \cup {NoKey}}
=============================================================================
