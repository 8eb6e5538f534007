-------------------------------- MODULE Routes --------------------------------
(***************************************************************************)
(* Every route as data, and the checks a request passes on its way to a    *)
(* handler: host and admin isolation, Fetch Metadata and Origin, rate      *)
(* classes, and the client address they are keyed by.  A path is named by  *)
(* the pattern it matches, "*" being a path no pattern matches.  GET       *)
(* stands for GET and HEAD, "other" for every method but GET and POST.     *)
(***************************************************************************)
EXTENDS Integers, Sequences, Functions

Methods == {"GET", "POST", "other"}

(* What a header with at most one legal value holds. *)
Absent == "absent"
Repeated == "repeated"

Sites == {Absent, Repeated, "same-origin", "none", "cross-site", "odd"}
Modes == {Absent, "navigate", "other"}

-----------------------------------------------------------------------------
(* routing/table.rs.  Every route declares the default body class, rejects *)
(* multipart bodies and is not exempt from the origin check, so those      *)
(* three declarations are not repeated here.                               *)

Route(host, path, methods, access, cache, rate) ==
  [host |-> host, path |-> path, methods |-> methods, access |-> access,
   cache |-> cache, rate |-> rate]

PublicRoutes ==
  {Route("internal", "/healthz", {"GET"}, "public", "no-store", <<>>),
   Route("internal", "/.well-known/kohaku/tls-ask", {"GET"}, "public", "no-store", <<>>),
   Route("main", "/", {"GET"}, "public", "no-cache", <<"read">>),
   Route("both", "/static/{name}", {"GET"}, "public", "static", <<>>),
   Route("main", "*", Methods, "public", "no-store", <<"read">>),
   Route("project", "*", Methods, "public", "no-store", <<"read">>)}

AdminRoute(path, methods, access, rate) ==
  Route("main", path, methods, access, "no-store", rate)

AccountRoutes ==
  {AdminRoute("/admin", {"GET"}, "session", <<"read">>),
   AdminRoute("/admin/login", {"GET", "POST"}, "public", <<"read", "login">>),
   AdminRoute("/admin/logout", {"POST"}, "session", <<>>),
   AdminRoute("/admin/account", {"GET"}, "session", <<"read">>),
   AdminRoute("/admin/account/password", {"POST"}, "session", <<"login">>),
   AdminRoute("/admin/account/totp", {"POST"}, "session", <<"login">>),
   AdminRoute("/admin/account/totp/confirm", {"POST"}, "session", <<"login">>),
   AdminRoute("/admin/account/totp/disable", {"POST"}, "session", <<"login">>)}

(* "/admin/" has an entry of its own with the declarations of              *)
(* "/admin/{*rest}", which stands for both.                                *)
MoreAdminRoutes ==
  {AdminRoute("/admin/account/recovery-codes", {"POST"}, "session", <<"login">>),
   AdminRoute("/admin/account/sessions/end-others", {"POST"}, "session", <<>>),
   AdminRoute("/admin/reset", {"GET", "POST"}, "public", <<"read", "reset">>),
   AdminRoute("/admin/reset/{token}", {"GET", "POST"}, "public", <<"read", "login">>),
   AdminRoute("/admin/projects", {"GET", "POST"}, "admin", <<"read">>),
   AdminRoute("/admin/p/{slug}/settings", {"GET", "POST"}, "admin", <<"read">>),
   AdminRoute("/admin/p/{slug}/delete", {"POST"}, "admin", <<>>),
   AdminRoute("/admin/{*rest}", Methods, "session", <<"read">>)}

(* The three patterns under /p/{slug} declare the same; the handler tells  *)
(* only paths under api apart.                                             *)
ProjectRoutes ==
  {Route("main", p, Methods, "public", "redirect", <<"read">>) :
     p \in {"/p/{slug}", "/p/{slug}/api"}}

Table == PublicRoutes \cup AccountRoutes \cup MoreAdminRoutes \cup ProjectRoutes

Paths == {r.path : r \in Table}

Internal(path) == \E r \in Table : r.host = "internal" /\ r.path = path

(* build: the route a router serves a path by; its fallback is the route   *)
(* of "*".                                                                 *)
RouteOf(kind, path) ==
  LET serves(p) == {r \in Table : r.path = p /\ r.host \in {kind, "both"}}
  IN  CHOOSE r \in (IF serves(path) = {} THEN serves("*") ELSE serves(path)) : TRUE

IsAdminPath(path) == path \in {r.path : r \in AccountRoutes \cup MoreAdminRoutes}

-----------------------------------------------------------------------------
(* http/fetch.rs *)

Safe(method) == method = "GET"

BugOriginAllowed(site, origin, expected) ==
  \/ site = "same-origin"
  \/ site = Absent /\ origin = expected

OriginAllowed(site, origin, expected) ==
  /\ origin # Repeated
  /\ \/ site = "same-origin" /\ origin \in {Absent, expected}
     \/ site = Absent /\ origin = expected

AdminIsolationAllows(method, path, site, mode) ==
  IsAdminPath(path) /\ Safe(method)
    => \/ site \in {Absent, "same-origin", "none"}
       \/ site = "cross-site" /\ mode = "navigate"

-----------------------------------------------------------------------------
(* limits/rate.rs: the methods a rate class covers. *)

AppliesTo(class, method) ==
  IF class = "read" THEN Safe(method) ELSE method = "POST"

-----------------------------------------------------------------------------
(* limits/client_ip.rs.  An X-Forwarded-For is the sequence of its entries *)
(* over all its lines; Malformed stands for an entry that is no address.   *)

Malformed == "malformed"

BugResolve(peer, forwarded, trusted) ==
  IF peer \notin trusted \/ forwarded = <<>> \/ Malformed \in Range(forwarded)
    THEN peer
    ELSE LET others == {i \in DOMAIN forwarded : forwarded[i] \notin trusted}
         IN  IF others = {} THEN forwarded[1]
             ELSE forwarded[CHOOSE i \in others : \A j \in others : i <= j]

(* The last entry that is no trusted proxy, or the first of all; the peer  *)
(* when it is no proxy itself, sends no list, or sends a malformed one.    *)
Resolve(peer, forwarded, trusted) ==
  IF peer \notin trusted \/ forwarded = <<>> \/ Malformed \in Range(forwarded)
    THEN peer
    ELSE LET others == {i \in DOMAIN forwarded : forwarded[i] \notin trusted}
         IN  IF others = {} THEN forwarded[1]
             ELSE forwarded[CHOOSE i \in others : \A j \in others : j <= i]
=============================================================================
