------------------------------ MODULE MCHostMap ------------------------------
(* Small instances of HostMap for TLC. *)
EXTENDS HostMap, TLC

CONSTANTS s1, s2, h1, h2, a1, a2

MCSlugs == {s1, s2}
MCHosts == {h1, h2}
MCAdmins == {a1, a2}
=============================================================================
