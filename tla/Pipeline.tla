------------------------------ MODULE Pipeline ------------------------------
(***************************************************************************)
(* A request on its way through the HTTP service: the dispatcher, the      *)
(* layers of its route, its handler, and the response on its way back      *)
(* out.  Everything before the session is read runs without waiting, so it *)
(* is one step; from there on other work interleaves: the host map is      *)
(* rebuilt, and the deadline drops the request.                            *)
(***************************************************************************)
EXTENDS Routes

CONSTANTS
  Maps,       \* host maps the request may meet: [entries, domains]
  MainHost,   \* KOHAKU_BASE_URL's host
  Hosts,      \* host names requests carry, the main host among them
  Slugs,      \* slugs /p/{slug} paths carry
  NoArg,      \* any other request carries none
  Addresses,  \* client and proxy addresses
  Trusted,    \* KOHAKU_TRUSTED_PROXIES
  MaxEntries  \* bound: entries of X-Forwarded-For

ASSUME HostsAssumption ==
  /\ MainHost \in Hosts
  /\ \A m \in Maps : /\ DOMAIN m.entries \subseteq Hosts
                     /\ \A h \in DOMAIN m.entries :
                          m.entries[h] \in Nat /\ (m.entries[h] = 0 => h = MainHost)
                     /\ MainHost \in DOMAIN m.entries
                     /\ \A s \in DOMAIN m.domains :
                          m.domains[s] \in DOMAIN m.entries /\ m.entries[m.domains[s]] # 0

ASSUME AddressAssumption ==
  Trusted \subseteq Addresses /\ Malformed \notin Addresses /\ MaxEntries \in Nat

VARIABLES
  map,    \* SharedHostMap: entries (0 is the main host) and custom domains
  req,    \* the request
  at,     \* where it stands
  routed, \* RoutedHost: its entry; -1 on internal paths and unknown hosts
  drawn,  \* rate classes it took a token of
  user,   \* SessionUser, once the session layer has read it
  resp    \* the response

requestVars == <<map, req, at, routed, drawn, user, resp>>

(* A request is what the checks look at: the slug of /p/{slug} paths and   *)
(* the domain tls-ask is asked about, Sec-Fetch-Mode only beside a         *)
(* cross-site Sec-Fetch-Site, which stands for same-site too.  An origin   *)
(* is named by its host; a Host that is missing, repeated or unreadable is *)
(* one that no map holds.                                                  *)
Arguments(path) ==
  CASE path \in {"/p/{slug}", "/p/{slug}/api"}     -> Slugs
    [] path = "/.well-known/kohaku/tls-ask"        -> Hosts \cup {NoArg}
    [] OTHER                                       -> {NoArg}

Requests ==
  {r \in [path : Paths, arg : Slugs \cup Hosts \cup {NoArg}, method : Methods, host : Hosts, site : Sites,
           mode : Modes, origin : Hosts \cup {Absent, Repeated}] :
     /\ r.arg \in Arguments(r.path)
     /\ r.site # "cross-site" => r.mode = Absent}

NoUser == "none"
NoResponse == [status |-> 0, reason |-> "none", cache |-> "none", to |-> MainHost]

-----------------------------------------------------------------------------
(* Responses *)

BugCacheControl(class, status, method, hashed) ==
  CASE class = "static"   -> IF hashed THEN "immutable" ELSE "no-cache"
    [] class = "redirect" -> "max-age=3600"
    [] OTHER              -> class

(* cache_layer: the Cache-Control of a response of the route.              *)
CacheControl(class, status, method, hashed) ==
  CASE class = "static"   -> IF hashed /\ status = 200 /\ Safe(method) THEN "immutable" ELSE "no-cache"
    [] class = "redirect" -> IF status = 308 THEN "max-age=3600" ELSE "no-store"
    [] OTHER              -> class

(* headers::layer counts a response by its Rejected mark, or by a status   *)
(* only a body cap or the deadline gives, and fills in what a response     *)
(* made outside the routers does not have.                                 *)
Counted(status, reason) ==
  IF reason # "none" THEN reason
  ELSE IF status = 408 THEN "deadline"
  ELSE IF status = 413 THEN "body_too_large"
  ELSE "none"

Respond(status, reason, cache, to) ==
  /\ at' = "answered"
  /\ resp' = [status |-> status, reason |-> Counted(status, reason),
              cache |-> IF cache = "none" THEN "no-store" ELSE cache, to |-> to]

(* A response of the request's route.                                      *)
Answer(route, status, reason) ==
  Respond(status, reason, CacheControl(route.cache, status, req'.method, FALSE), MainHost)

Kind(entry) == IF entry = 0 THEN "main" ELSE "project"
MyRoute == RouteOf(IF routed = -1 THEN "internal" ELSE Kind(routed), req.path)

-----------------------------------------------------------------------------
(* From the dispatcher to the body cap, in the layers' order               *)

ExpectedOrigin(host, entry) == IF entry = 0 THEN MainHost ELSE host

(* origin_layer *)
CrossSite(r, entry) ==
  ~Safe(r.method) /\ ~OriginAllowed(r.site, r.origin, ExpectedOrigin(r.host, entry))

(* rate_layer takes a token of every class that covers the method.         *)
Covering(route, method) == {c \in Range(route.rate) : AppliesTo(c, method)}

(* multipart_layer: any request may carry a multipart body, which no route *)
(* takes.                                                                  *)
Multipart(route) == Answer(route, 415, "multipart")

BugLayers(r, entry, route) ==
  \/ /\ drawn' = Covering(route, r.method)
     /\ IF CrossSite(r, entry)
          THEN Answer(route, 403, "cross_site")
          ELSE at' = (IF route.access = "public" THEN "handler" ELSE "session") /\ UNCHANGED resp

(* Origin check, rate classes, multipart and Content-Length, each of which *)
(* may answer; then the session layer, on the routes that have it.         *)
Layers(r, entry, route) ==
  IF CrossSite(r, entry)
    THEN Answer(route, 403, "cross_site") /\ drawn' = {}
    ELSE \/ /\ Covering(route, r.method) # {}
            /\ Answer(route, 429, "rate_limited") /\ drawn' = {}
         \/ /\ drawn' = Covering(route, r.method)
            /\ \/ Multipart(route)
               \/ Answer(route, 413, "none")
               \/ at' = (IF route.access = "public" THEN "handler" ELSE "session") /\ UNCHANGED resp

(* Dispatcher: internal paths first, for any host; then the host map.      *)
Dispatch(r) ==
  \/ /\ Internal(r.path)
     /\ routed' = -1 /\ drawn' = {}
     /\ \/ at' = "handler" /\ UNCHANGED resp
        \/ Answer(RouteOf("internal", r.path), 413, "none")
  \/ /\ ~Internal(r.path) /\ r.host \notin DOMAIN map.entries
     /\ routed' = -1 /\ drawn' = {} /\ Respond(421, "unknown_host", "none", MainHost)
  \/ /\ ~Internal(r.path) /\ r.host \in DOMAIN map.entries
     /\ LET entry == map.entries[r.host]
        IN  /\ routed' = entry
            /\ IF entry = 0 /\ ~AdminIsolationAllows(r.method, r.path, r.site, r.mode)
                 THEN drawn' = {} /\ Respond(403, "admin_isolation", "none", MainHost)
                 ELSE Layers(r, entry, RouteOf(Kind(entry), r.path))

Arrive(r) ==
  /\ at = "idle"
  /\ req' = r
  /\ Dispatch(r)
  /\ UNCHANGED <<map, user>>

-----------------------------------------------------------------------------
(* The session layers, which wait for a reader and for the body            *)

(* session::layer: no session sends GET to the login page and refuses the  *)
(* rest, as does a failing read with a 500.                                *)
Session ==
  /\ at = "session"
  /\ \E u \in {NoUser, "member", "admin"} :
       /\ user' = u
       /\ \/ u = NoUser /\ \E s \in {IF Safe(req.method) THEN 303 ELSE 403, 500} : Answer(MyRoute, s, "none")
          \/ u # NoUser /\ at' = (IF Safe(req.method) THEN "admitted" ELSE "csrf") /\ UNCHANGED resp
  /\ UNCHANGED <<map, req, routed, drawn>>

(* check_csrf reads the whole body: a wrong token, another content type    *)
(* and a body over its cap are all refused the same way.                   *)
Csrf ==
  /\ at = "csrf"
  /\ \/ Answer(MyRoute, 403, "none")
     \/ at' = "admitted" /\ UNCHANGED resp
  /\ UNCHANGED <<map, req, routed, drawn, user>>

(* admin_layer: other accounts get the 404 of a path that is none.         *)
Admitted ==
  /\ at = "admitted"
  /\ IF MyRoute.access = "admin" /\ user # "admin"
       THEN Answer(MyRoute, 404, "none")
       ELSE at' = "handler" /\ UNCHANGED resp
  /\ UNCHANGED <<map, req, routed, drawn, user>>

-----------------------------------------------------------------------------
(* Handlers *)

Mapped(s) == s \in DOMAIN map.domains

(* canonical: 308 to the custom domain the slug's project has now.         *)
Redirect ==
  IF req.path = "/p/{slug}" /\ Safe(req.method) /\ Mapped(req.arg)
    THEN Respond(308, "none", CacheControl("redirect", 308, req.method, FALSE), map.domains[req.arg])
    ELSE Answer(MyRoute, 404, "none")

(* assets::serve *)
Asset ==
  \/ Respond(200, "none", CacheControl("static", 200, req.method, TRUE), MainHost)
  \/ Answer(MyRoute, 404, "none")

(* tls_ask: 200 for exactly one domain, a project's.                       *)
TlsAsk ==
  LET allowed == req.arg \in DOMAIN map.entries /\ map.entries[req.arg] # 0
  IN  Answer(MyRoute, IF allowed THEN 200 ELSE 404, "none")

(* Pages and forms of the admin area, which other modules model: what      *)
(* they may answer.                                                        *)
Page ==
  \E s \in {200, 303, 400, 404, 415, 422, 429, 500} : Answer(MyRoute, s, "none")

Busy == Answer(MyRoute, 503, "busy") \/ Answer(MyRoute, 413, "none")

Handler ==
  /\ at = "handler"
  /\ UNCHANGED <<map, req, routed, drawn, user>>
  /\ CASE req.method \notin MyRoute.methods             -> Answer(MyRoute, 405, "none")
       [] MyRoute.path \in {"*", "/admin/{*rest}"}      -> Answer(MyRoute, 404, "none")
       [] MyRoute.cache = "redirect"                    -> Redirect
       [] MyRoute.cache = "static"                      -> Asset
       [] MyRoute.path = "/.well-known/kohaku/tls-ask"  -> TlsAsk
       [] MyRoute.path \in {"/", "/healthz"}            -> Answer(MyRoute, 200, "none")
       [] OTHER                                         -> Page \/ Busy

(* TimeoutLayer, inside the error and cache layers; not on internal paths. *)
Deadline ==
  /\ at \in {"session", "csrf", "admitted", "handler"} /\ routed # -1
  /\ Answer(MyRoute, 408, "none")
  /\ UNCHANGED <<map, req, routed, drawn, user>>

(* A rebuild replaces the whole map.                                       *)
Rebuild ==
  /\ at \in {"session", "csrf", "admitted", "handler"}
  /\ map' \in Maps \ {map}
  /\ UNCHANGED <<req, at, routed, drawn, user, resp>>

RequestInit ==
  /\ map \in Maps /\ at = "idle"
  /\ req = [path |-> "*", arg |-> NoArg, method |-> "GET", host |-> MainHost,
            site |-> Absent, mode |-> Absent, origin |-> Absent]
  /\ routed = -1 /\ drawn = {} /\ user = NoUser /\ resp = NoResponse

RequestNext ==
  (\E r \in Requests : Arrive(r)) \/ Session \/ Csrf \/ Admitted \/ Handler \/ Deadline \/ Rebuild

RequestSpec == RequestInit /\ [][RequestNext]_requestVars

-----------------------------------------------------------------------------
(* Properties *)

(* The forms anybody may use.                                              *)
OpenForms == {"/admin/login", "/admin/reset", "/admin/reset/{token}"}
ProjectForms == {"/admin/projects", "/admin/p/{slug}/settings", "/admin/p/{slug}/delete"}

(* The browser says the request comes from a page of the host it is for.   *)
SameOrigin(r) ==
  /\ r.site = "same-origin" \/ (r.site = Absent /\ r.origin = r.host)
  /\ r.origin \in {Absent, r.host}

(* No handler runs for a request that may not have its effect, whatever    *)
(* the host map becomes while it waits: an admin path needs the main host, *)
(* and outside the open forms a session, the admin's for projects; a       *)
(* method other than GET needs a page of the same host.                    *)
HandlerIsEntitled ==
  at = "handler" =>
    /\ ~Safe(req.method) /\ ~Internal(req.path) => SameOrigin(req)
    /\ IsAdminPath(req.path) /\ routed = 0 /\ req.path \notin OpenForms => user # NoUser
    /\ req.path \in ProjectForms /\ routed = 0 => user = "admin"
    /\ routed = 0 => req.host = MainHost

(* request-limits: a request turned away for its host or its origin takes  *)
(* no token, an internal path and an asset never do, a GET any other route *)
(* serves takes one of `read', and a form open to strangers one of its own *)
(* class: no stranger reaches password hashing or the reset mail for free. *)
TokensTaken ==
  at # "idle" =>
    /\ resp.reason \in {"unknown_host", "cross_site", "admin_isolation"} => drawn = {}
    /\ Internal(req.path) \/ req.path = "/static/{name}" => drawn = {}
    /\ at = "handler" /\ routed # -1 /\ Safe(req.method) /\ req.path # "/static/{name}"
         /\ "GET" \in MyRoute.methods => drawn = {"read"}
    /\ at = "handler" /\ routed = 0 /\ req.method = "POST" /\ req.path \in OpenForms
         => drawn \in {{"login"}, {"reset"}}

(* A response a browser or a cache may keep is the landing page, an asset, *)
(* or a redirect to the domain the project has when it is sent.  Nothing   *)
(* of the admin area and no error of a project's path is ever kept.        *)
KeptResponsesArePublic ==
  /\ resp.cache \in {"none", "no-store", "no-cache", "immutable", "max-age=3600"}
  /\ resp.cache = "immutable" => resp.status = 200 /\ req.path = "/static/{name}"
  /\ resp.cache = "no-cache" => req.path \in {"/", "/static/{name}"}
  /\ resp.cache = "max-age=3600" => resp.status = 308 /\ routed = 0 /\ Mapped(req.arg)
                                    /\ resp.to = map.domains[req.arg]

(* Entries a client puts before its own address in X-Forwarded-For do not  *)
(* change the address it is limited by, as long as they are well formed.   *)
Lists == UNION {[1..n -> Addresses] : n \in 0..MaxEntries}
ForgedEntriesIgnored ==
  at = "handler" /\ drawn # {} =>
    \A peer \in Addresses, own \in Lists, forged \in Lists :
      (\E i \in DOMAIN own : own[i] \notin Trusted)
        => Resolve(peer, forged \o own, Trusted) = Resolve(peer, own, Trusted)
=============================================================================
