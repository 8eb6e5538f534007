------------------------------- MODULE HostMap -------------------------------
(***************************************************************************)
(* Projects and the host map built from them: the projects table, the      *)
(* admin requests that change it and then publish the change, `kohaku      *)
(* project create' in a process of its own, and the watcher that polls for *)
(* commits it was not told of.  Every rebuild runs on the one watcher      *)
(* connection, whose mutex it holds from reading the table to replacing    *)
(* the map.                                                                *)
(***************************************************************************)
EXTENDS Integers, Sequences, FiniteSets

CONSTANTS
  Slugs,       \* project slugs that pass parse_slug
  Hosts,       \* normalized DNS names
  NoHost,      \* a project without a custom domain
  MainHosts,   \* hosts KOHAKU_BASE_URL names in one start or another
  Admins,      \* admin requests running at once
  Watch,       \* the watcher task
  MaxCommits,  \* bound: commits to the projects table
  MaxFaults    \* bound: failed rebuilds, dropped requests and restarts

ASSUME NamesAssumption ==
  /\ NoHost \notin Hosts /\ Watch \notin Admins
  /\ MainHosts \subseteq Hosts /\ MainHosts # {}

ASSUME BoundsAssumption == MaxCommits \in Nat /\ MaxFaults \in Nat

VARIABLES
  projects,  \* table projects: id -> slug and public_host
  nextId,    \* its AUTOINCREMENT
  mainHost,  \* base_url.host() of the running server
  map,       \* SharedHostMap: host -> entry, slug -> custom domain
  seen,      \* the data_version the watcher last rebuilt at; empty: none yet
  mutex,     \* who holds the watcher connection; empty: nobody
  task,      \* where each admin request and the watcher stand
  faults,    \* failures so far
  log,       \* history: the table after each commit
  shown      \* history: the commit `map' was built from

table == <<projects, nextId, log>>
vars  == <<table, mainHost, map, shown, seen, mutex, task, faults>>

Ids == 1..MaxCommits
Tasks == Admins \cup {Watch}
Main == 0  \* HostEntry::Main; a project's entry is its id

(* PRAGMA data_version on the watcher connection: it moves with every      *)
(* commit of another connection, and the watcher connection commits        *)
(* nothing.                                                                *)
data_version == Len(log)

-----------------------------------------------------------------------------
(* The map of a table *)

Owner(t, h) == CHOOSE i \in DOMAIN t : t[i].host = h

Mapping(t, entries) ==
  [entries |-> entries,
   domains |-> [s \in {t[i].slug : i \in DOMAIN t} |->
                  t[CHOOSE i \in DOMAIN t : t[i].slug = s].host]]

WithHost(t) == [i \in {j \in DOMAIN t : t[j].host # NoHost} |-> t[i]]

(* `load': the main host, then every project with a custom domain, each    *)
(* `insert' replacing the entry a host already has.                        *)
Load(t, main) ==
  LET with == WithHost(t)
      hosts == {with[i].host : i \in DOMAIN with}
  IN  Mapping(with, [h \in {main} \cup hosts |-> IF h \in hosts THEN Owner(with, h) ELSE Main])

-----------------------------------------------------------------------------
(* Initial state: a new database, the server started *)

Idle == [at |-> "idle"]

Init ==
  /\ projects = <<>> /\ nextId = 1 /\ log = <<<<>>>>
  /\ mainHost \in MainHosts
  /\ map = Load(<<>>, mainHost) /\ shown = 1
  /\ seen = {} /\ mutex = {}
  /\ task = [x \in Tasks |-> Idle]
  /\ faults = 0

Fault == faults < MaxFaults /\ faults' = faults + 1

Goto(x, s) == task' = [task EXCEPT ![x] = s]

-----------------------------------------------------------------------------
(* Transactions on the projects table *)

SlugTaken(s) == \E i \in DOMAIN projects : projects[i].slug = s

BugHostTaken(h, except) ==
  except = Main /\ h # NoHost /\ \E i \in DOMAIN projects : projects[i].host = h

(* host_taken *)
HostTaken(h, except) ==
  h # NoHost /\ \E i \in DOMAIN projects \ {except} : projects[i].host = h

(* Of a project's settings routing sees the custom domain only.            *)
Project(s, h) == [slug |-> s, host |-> h]

(* The custom domains parse_host accepts: any but the server's own host.   *)
ParsedHosts == (Hosts \ {mainHost}) \cup {NoHost}

Store(t) ==
  /\ Len(log) <= MaxCommits
  /\ projects' = t
  /\ log' = Append(log, t)

BugNewId == CHOOSE i \in Ids : i \notin DOMAIN projects /\ \A j \in DOMAIN projects : j < i

(* AUTOINCREMENT: an id is never given twice. *)
NewId == nextId

(* projects::create *)
Insert(s, h) ==
  /\ ~SlugTaken(s) /\ ~HostTaken(h, Main)
  /\ Store([i \in DOMAIN projects \cup {NewId} |->
              IF i = NewId THEN Project(s, h) ELSE projects[i]])
  /\ nextId' = nextId + 1

(* projects::update: a change to the host, to the other settings (which    *)
(* routing does not see), or to both.                                      *)
Update(i, h) ==
  /\ i \in DOMAIN projects /\ ~HostTaken(h, i)
  /\ Store([projects EXCEPT ![i].host = h])
  /\ UNCHANGED nextId

(* projects::delete *)
Remove(i) ==
  /\ i \in DOMAIN projects
  /\ Store([j \in DOMAIN projects \ {i} |-> projects[j]])
  /\ UNCHANGED nextId

-----------------------------------------------------------------------------
(* Admin requests.  A request dropped while its transaction runs (deadline *)
(* or client gone) commits all the same, and nobody publishes the change.  *)

Committed(a) ==
  \/ Goto(a, [at |-> "publish"]) /\ UNCHANGED faults
  \/ Goto(a, Idle) /\ Fault

(* POST /admin/projects *)
Create(a) ==
  /\ task[a].at = "idle"
  /\ \E s \in Slugs, h \in ParsedHosts : Insert(s, h)
  /\ Committed(a)
  /\ UNCHANGED <<mainHost, map, shown, seen, mutex>>

(* projects::find, a lookup by slug; the request goes on with the id.      *)
Lookup(i) == [at |-> "found", id |-> i, slug |-> projects[i].slug]

(* POST .../settings and .../delete look the slug up on a reader first.    *)
Find(a) ==
  /\ task[a].at = "idle"
  /\ \E i \in DOMAIN projects : Goto(a, Lookup(i))
  /\ UNCHANGED <<table, mainHost, map, shown, seen, mutex, faults>>

Save(a) ==
  /\ task[a].at = "found"
  /\ \E h \in ParsedHosts : Update(task[a].id, h)
  /\ Committed(a)
  /\ UNCHANGED <<mainHost, map, shown, seen, mutex>>

Delete(a) ==
  /\ task[a].at = "found"
  /\ Remove(task[a].id)
  /\ Committed(a)
  /\ UNCHANGED <<mainHost, map, shown, seen, mutex>>

(* Refused, unchanged, already deleted, or dropped before its transaction: *)
(* the table stays as it is.                                               *)
NoChange(a) ==
  /\ task[a].at = "found"
  /\ Goto(a, Idle)
  /\ UNCHANGED <<table, mainHost, map, shown, seen, mutex, faults>>

(* kohaku project create, beside the server or while it is down.           *)
CliCreate ==
  /\ \E s \in Slugs, h \in ParsedHosts : Insert(s, h)
  /\ UNCHANGED <<mainHost, map, shown, seen, mutex, task, faults>>

-----------------------------------------------------------------------------
(* Rebuilds on the watcher connection *)

BugFree == TRUE
Free == mutex = {}

(* `refresh': takes the connection and reads the table. *)
Refresh(a) ==
  /\ task[a].at = "publish"
  /\ Free
  /\ mutex' = {a}
  /\ Goto(a, [at |-> "loaded", read |-> Len(log), new |-> Load(projects, mainHost)])
  /\ UNCHANGED <<table, mainHost, map, shown, seen, faults>>

(* A tick of the watcher: data_version is read before the table.           *)
Poll ==
  /\ task[Watch].at = "idle"
  /\ Free
  /\ IF seen = {data_version}
       THEN UNCHANGED <<mutex, task>>
       ELSE mutex' = {Watch} /\ Goto(Watch, [at |-> "polled", version |-> data_version])
  /\ UNCHANGED <<table, mainHost, map, shown, seen, faults>>

WatchLoad ==
  /\ task[Watch].at = "polled"
  /\ Goto(Watch, [at |-> "loaded", version |-> task[Watch].version,
                  read |-> Len(log), new |-> Load(projects, mainHost)])
  /\ UNCHANGED <<table, mainHost, map, shown, seen, mutex, faults>>

BugReplace(x) ==
  /\ task[x].at = "loaded"
  /\ map' = [map EXCEPT !.entries = task[x].new.entries] /\ shown' = task[x].read
  /\ mutex' = mutex \ {x} /\ Goto(x, Idle)
  /\ UNCHANGED <<table, mainHost, seen, faults>>

(* SharedHostMap::replace, and the connection is free again; the watcher   *)
(* moves on to the version it polled.                                      *)
Replace(x) ==
  /\ task[x].at = "loaded"
  /\ map' = task[x].new /\ shown' = task[x].read
  /\ mutex' = mutex \ {x}
  /\ IF x = Watch
       THEN seen' = {task[x].version} ELSE UNCHANGED seen
  /\ Goto(x, Idle)
  /\ UNCHANGED <<table, mainHost, faults>>

(* A statement of the rebuild fails: the old map stays, the request        *)
(* succeeds and the watcher tries again at its next tick.                  *)
BugSeenAfterFailure(x) == seen' = IF x = Watch THEN {task[x].version} ELSE seen
SeenAfterFailure(x) == seen' = seen

RebuildFails(x) ==
  /\ \/ task[x].at = "publish" /\ Free
     \/ task[x].at = "polled"
  /\ Fault
  /\ mutex' = mutex \ {x}
  /\ SeenAfterFailure(x)
  /\ Goto(x, Idle)
  /\ UNCHANGED <<table, mainHost, map, shown>>

-----------------------------------------------------------------------------
(* A stop or crash and the next start: requests and the watcher's memory   *)
(* are lost, the map is built before anything listens, and the operator    *)
(* may have changed KOHAKU_BASE_URL.                                       *)
Restart ==
  /\ Fault
  /\ mainHost' \in MainHosts
  /\ map' = Load(projects, mainHost') /\ shown' = Len(log)
  /\ seen' = {} /\ mutex' = {}
  /\ task' = [x \in Tasks |-> Idle]
  /\ UNCHANGED table

Next ==
  \/ \E a \in Admins : Create(a) \/ Find(a) \/ Save(a) \/ Delete(a) \/ NoChange(a) \/ Refresh(a)
  \/ CliCreate \/ Poll \/ WatchLoad \/ Restart
  \/ \E x \in Tasks : Replace(x) \/ RebuildFails(x)

Spec == Init /\ [][Next]_vars

(* The watcher keeps ticking, and a blocking thread that holds or waits    *)
(* for the connection goes on.  Admin requests need not.                   *)
FairSpec ==
  Spec /\ WF_vars(Poll) /\ WF_vars(WatchLoad) /\ \A x \in Tasks : WF_vars(Replace(x))

-----------------------------------------------------------------------------
(* Properties *)

(* Requests are routed by a map that is exactly one commit of the table,   *)
(* never a mixture of two, under the running server's base URL.            *)
MapIsACommit == map = Load(log[shown], mainHost)

(* Whoever holds a project's id across a step - a request between its      *)
(* lookup by slug and its transaction, or the host map after the project   *)
(* was deleted - finds that project under it or none, never another.       *)
IdNamesOneProject ==
  /\ \A a \in Admins :
       task[a].at = "found" /\ task[a].id \in DOMAIN projects
         => projects[task[a].id].slug = task[a].slug
  /\ \A h \in DOMAIN map.entries :
       map.entries[h] \in DOMAIN projects
         => map.entries[h] \in DOMAIN log[shown]
            /\ log[shown][map.entries[h]].slug = projects[map.entries[h]].slug

(* The canonical redirect of /p/{slug} leads to a host that serves the     *)
(* project with that slug, and no other project, in every map requests are *)
(* ever routed by: no creations, updates and restarts give two projects    *)
(* one host (host_taken, load).  Left out is a domain that the operator    *)
(* has since made the server's own host as well: one entry cannot serve    *)
(* both.                                                                   *)
RedirectReachesProject ==
  \A s \in DOMAIN map.domains :
    LET h == map.domains[s]
    IN  h # mainHost =>
          /\ h \in DOMAIN map.entries
          /\ map.entries[h] \in DOMAIN log[shown]
          /\ log[shown][map.entries[h]].slug = s

(* The map implements HostPromise: whole commits, never going back.  An    *)
(* admin whose change was published sees it on every later request: no     *)
(* rebuild that read the table earlier takes it back.                      *)
Promise == INSTANCE HostPromise
MapPromise == Promise!Spec

(* Whenever commits pause the map catches up with the last one, whether    *)
(* its own request published it or not: a request dropped after its        *)
(* commit, a failed rebuild and a project created by another process are   *)
(* all picked up by the watcher.                                           *)
EveryCommitShown == []<>(shown = Len(log))
=============================================================================
