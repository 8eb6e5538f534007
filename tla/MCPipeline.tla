----------------------------- MODULE MCPipeline -----------------------------
(* A small instance of Pipeline for TLC: a project that gains, moves and   *)
(* loses its custom domain, or has it from before it became the main host, *)
(* and one unknown host.                                                   *)
EXTENDS Pipeline, TLC

CONSTANTS main, h1, h2, s1, s2, proxy, client

MCHosts == {main, h1, h2}
MCSlugs == {s1, s2}
MCAddresses == {proxy, client, h1}

NoProjects == [entries |-> (main :> 0), domains |-> <<>>]
OneProject(h) == [entries |-> (h :> 1 @@ main :> 0), domains |-> (s1 :> h)]

MCMaps == {NoProjects, OneProject(h1), OneProject(h2), OneProject(main)}
MCTrusted == {proxy}
=============================================================================
