------------------------------- MODULE MCServer ------------------------------
(* Two connections, each with up to a request and a half outstanding.      *)
(* Reasons are counted apart, so one is enough.                            *)
EXTENDS Server
=============================================================================
