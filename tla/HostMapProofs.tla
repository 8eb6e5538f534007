---------------------------- MODULE HostMapProofs ----------------------------
(***************************************************************************)
(* The host map is always one commit of the projects table and never goes  *)
(* back, and an id held across steps names one project, for any number of  *)
(* requests, projects and hosts and any failures and restarts.             *)
(***************************************************************************)
EXTENDS HostMap, SequenceTheorems, TLAPS

Row == [slug : Slugs, host : Hosts \cup {NoHost}]
Tables == UNION {[D -> Row] : D \in SUBSET Nat}

(* The history ends with the table, ids were given below the counter, and  *)
(* an id still in the table has named its slug in every commit.            *)
Logged ==
  /\ log \in Seq(Tables) /\ Len(log) >= 1 /\ log[Len(log)] = projects
  /\ nextId \in Nat \ {0}
  /\ \A n \in 1..Len(log) :
       /\ DOMAIN log[n] \subseteq 1..(nextId - 1)
       /\ \A i \in DOMAIN log[n] \cap DOMAIN projects : log[n][i].slug = projects[i].slug

Shown == shown \in 1..Len(log) /\ MapIsACommit

(* Whoever is rebuilding holds the connection, alone, and has read a       *)
(* commit at least as new as the one shown.                                *)
Held ==
  /\ task = [x \in Tasks |-> task[x]]
  /\ mutex = {x \in Tasks : task[x].at \in {"polled", "loaded"}}
  /\ \A x, y \in mutex : x = y
  /\ \A x \in Tasks : task[x].at = "loaded" =>
       task[x].read \in shown..Len(log) /\ task[x].new = Load(log[task[x].read], mainHost)

Found ==
  \A a \in Admins : task[a].at = "found" =>
    /\ task[a].id \in 1..(nextId - 1)
    /\ task[a].id \in DOMAIN projects => projects[task[a].id].slug = task[a].slug

Inv == Logged /\ Shown /\ Held /\ Found

-----------------------------------------------------------------------------
(* Commits *)

(* What every commit does to the history: it adds the new table, keeps the *)
(* old ones, and gives no id to another project.                           *)
Committing ==
  /\ Logged'
  /\ Len(log') = Len(log) + 1
  /\ \A n \in 1..Len(log) : log'[n] = log[n]
  /\ SubSeq(log', 1, Len(log)) = log
  /\ nextId' >= nextId
  /\ \A i \in DOMAIN projects' : i < nextId =>
       i \in DOMAIN projects /\ projects'[i].slug = projects[i].slug

(* Storing a table whose old ids keep their slugs is such a commit         *)
(* (Transaction::commit in projects/mod.rs).                               *)
LEMMA StoreCommits ==
  ASSUME Logged, NEW t \in Tables, Store(t),
         nextId' \in Nat, nextId' >= nextId, DOMAIN t \subseteq 1..(nextId' - 1),
         \A i \in DOMAIN t : i < nextId => i \in DOMAIN projects /\ t[i].slug = projects[i].slug
  PROVE  Committing
<1>1. log' = Append(log, t) /\ projects' = t
  BY DEF Store
<1>2. log \in Seq(Tables) /\ Len(log) \in Nat /\ Len(log) >= 1 /\ nextId \in Nat \ {0}
  BY DEF Logged
<1>3. /\ log' \in Seq(Tables) /\ Len(log') = Len(log) + 1
      /\ \A n \in 1..Len(log) : log'[n] = log[n]
      /\ log'[Len(log) + 1] = t
  BY <1>1, <1>2, AppendProperties
<1>4. SubSeq(log', 1, Len(log)) = log
  BY <1>1, <1>2
<1>5. ASSUME NEW n \in 1..Len(log')
      PROVE  /\ DOMAIN log'[n] \subseteq 1..(nextId' - 1)
             /\ \A i \in DOMAIN log'[n] \cap DOMAIN projects' : log'[n][i].slug = projects'[i].slug
  <2>1. CASE n = Len(log) + 1
    BY <2>1, <1>1, <1>3
  <2>2. CASE n \in 1..Len(log)
    <3>1. /\ log'[n] = log[n] /\ DOMAIN log[n] \subseteq 1..(nextId - 1)
          /\ \A i \in DOMAIN log[n] \cap DOMAIN projects : log[n][i].slug = projects[i].slug
      BY <2>2, <1>3 DEF Logged
    <3>2. DOMAIN log[n] \subseteq 1..(nextId' - 1)
      BY <3>1, <1>2
    <3>3. ASSUME NEW i \in DOMAIN log[n], i \in DOMAIN t
          PROVE  log[n][i].slug = t[i].slug
      <4>1. i < nextId
        BY <3>1, <1>2
      <4> QED BY <4>1, <3>1, <3>3
    <3> QED BY <3>1, <3>2, <3>3, <1>1
  <2> QED BY <2>1, <2>2, <1>2, <1>3
<1> QED BY <1>1, <1>2, <1>3, <1>4, <1>5 DEF Committing, Logged

(* create, update and delete commit so.                                    *)
LEMMA CreateCommits ==
  ASSUME Logged, NEW s \in Slugs, NEW h \in Hosts \cup {NoHost}, Insert(s, h)
  PROVE  Committing
<1> DEFINE t == [i \in DOMAIN projects \cup {nextId} |->
                   IF i = nextId THEN [slug |-> s, host |-> h] ELSE projects[i]]
<1>1. Store(t) /\ nextId' = nextId + 1
  BY DEF Insert, NewId, Project
<1>2. nextId \in Nat \ {0} /\ projects \in Tables /\ DOMAIN projects \subseteq 1..(nextId - 1)
  BY DEF Logged
<1>3. PICK D \in SUBSET Nat : projects \in [D -> Row]
  BY <1>2 DEF Tables
<1>4. t \in [D \cup {nextId} -> Row] /\ D \cup {nextId} \in SUBSET Nat
  BY <1>2, <1>3 DEF Row
<1>5. t \in Tables
  BY <1>4 DEF Tables
<1>6. DOMAIN t \subseteq 1..(nextId' - 1) /\ nextId' \in Nat /\ nextId' >= nextId
  BY <1>1, <1>2
<1>7. \A i \in DOMAIN t : i < nextId => i \in DOMAIN projects /\ t[i].slug = projects[i].slug
  BY <1>2
<1> HIDE DEF t
<1> QED BY <1>1, <1>5, <1>6, <1>7, StoreCommits

(* projects::update keeps the row's id and slug.                           *)
LEMMA UpdateCommits ==
  ASSUME Logged, NEW k, NEW h \in Hosts \cup {NoHost}, Update(k, h)
  PROVE  Committing
<1> DEFINE t == [projects EXCEPT ![k].host = h]
<1>1. Store(t) /\ nextId' = nextId /\ k \in DOMAIN projects
  BY DEF Update
<1>2. nextId \in Nat \ {0} /\ projects \in Tables /\ DOMAIN projects \subseteq 1..(nextId - 1)
  BY DEF Logged
<1>3. PICK D \in SUBSET Nat : projects \in [D -> Row]
  BY <1>2 DEF Tables
<1>4. t \in [D -> Row] /\ \A i \in D : t[i].slug = projects[i].slug
  BY <1>1, <1>3 DEF Row
<1>5. t \in Tables /\ DOMAIN t = DOMAIN projects
  BY <1>3, <1>4 DEF Tables
<1>6. \A i \in DOMAIN t : i < nextId => i \in DOMAIN projects /\ t[i].slug = projects[i].slug
  BY <1>3, <1>4
<1> HIDE DEF t
<1> QED BY <1>1, <1>2, <1>5, <1>6, StoreCommits

(* projects::delete leaves every other row as it was.                      *)
LEMMA DeleteCommits ==
  ASSUME Logged, NEW k, Remove(k)
  PROVE  Committing
<1> DEFINE t == [j \in DOMAIN projects \ {k} |-> projects[j]]
<1>1. Store(t) /\ nextId' = nextId
  BY DEF Remove
<1>2. nextId \in Nat \ {0} /\ projects \in Tables /\ DOMAIN projects \subseteq 1..(nextId - 1)
  BY DEF Logged
<1>3. PICK D \in SUBSET Nat : projects \in [D -> Row]
  BY <1>2 DEF Tables
<1>4. t \in [D \ {k} -> Row] /\ D \ {k} \in SUBSET Nat
  BY <1>3
<1>5. t \in Tables
  BY <1>4 DEF Tables
<1>6. DOMAIN t \subseteq DOMAIN projects /\ \A i \in DOMAIN t : t[i].slug = projects[i].slug
  OBVIOUS
<1> HIDE DEF t
<1> QED BY <1>1, <1>2, <1>5, <1>6, StoreCommits

(* A commit leaves the map, the rebuilds and the ids held as sound as they *)
(* were, whether its request goes on to publish or is dropped.             *)
LEMMA CommitStep ==
  ASSUME Inv, Committing, UNCHANGED <<mainHost, map, shown, mutex>>,
         \/ UNCHANGED task
         \/ \E a \in Admins : /\ task[a].at \in {"idle", "found"}
                              /\ \E v \in {[at |-> "publish"], Idle} : task' = [task EXCEPT ![a] = v]
  PROVE  Inv'
<1>1. Logged'
  BY DEF Committing
<1>2. Len(log) \in Nat /\ Len(log') = Len(log) + 1 /\ \A n \in 1..Len(log) : log'[n] = log[n]
  BY DEF Inv, Logged, Committing
<1>3. Shown'
  BY <1>2 DEF Inv, Shown, MapIsACommit
<1>4. /\ task' = [x \in Tasks |-> task'[x]]
      /\ \A x \in Tasks : \/ task'[x] = task[x]
                          \/ /\ x \in Admins /\ task[x].at \in {"idle", "found"}
                             /\ task'[x].at \in {"publish", "idle"}
  <2>1. task = [x \in Tasks |-> task[x]]
    BY DEF Inv, Held
  <2>2. \A v \in {[at |-> "publish"], Idle} : v.at \in {"publish", "idle"}
    BY DEF Idle
  <2>3. CASE UNCHANGED task
    BY <2>1, <2>3
  <2>4. ASSUME NEW a \in Admins, task[a].at \in {"idle", "found"},
               NEW v \in {[at |-> "publish"], Idle}, task' = [task EXCEPT ![a] = v]
        PROVE  /\ task' = [x \in Tasks |-> task'[x]]
               /\ \A x \in Tasks : \/ task'[x] = task[x]
                                   \/ /\ x \in Admins /\ task[x].at \in {"idle", "found"}
                                      /\ task'[x].at \in {"publish", "idle"}
    <3>1. v.at \in {"publish", "idle"} /\ a \in Tasks
      BY <2>2 DEF Tasks
    <3>2. /\ task' = [x \in Tasks |-> task'[x]] /\ task'[a] = v
          /\ \A x \in Tasks : x # a => task'[x] = task[x]
      BY <2>1, <2>4, <3>1
    <3> QED BY <2>4, <3>1, <3>2
  <2> QED BY <2>3, <2>4
<1>5. Held'
  <2>1. mutex' = {x \in Tasks : task'[x].at \in {"polled", "loaded"}}
    BY <1>4 DEF Inv, Held
  <2>2. ASSUME NEW x \in Tasks, task'[x].at = "loaded"
        PROVE  task'[x].read \in shown'..Len(log') /\ task'[x].new = Load(log'[task'[x].read], mainHost')
    <3>1. task'[x] = task[x]
      BY <1>4, <2>2
    <3>2. task[x].read \in shown..Len(log) /\ task[x].new = Load(log[task[x].read], mainHost) /\ shown \in 1..Len(log)
      BY <3>1, <2>2 DEF Inv, Held, Shown
    <3>3. task[x].read \in 1..Len(log)
      BY <3>2, <1>2
    <3> QED BY <3>1, <3>2, <3>3, <1>2
  <2> QED BY <1>4, <2>1, <2>2 DEF Inv, Held
<1>6. Found'
  <2> SUFFICES ASSUME NEW a \in Admins, task'[a].at = "found"
               PROVE  /\ task'[a].id \in 1..(nextId' - 1)
                      /\ task'[a].id \in DOMAIN projects' => projects'[task'[a].id].slug = task'[a].slug
    BY DEF Found
  <2>1. task'[a] = task[a]
    BY <1>4 DEF Tasks
  <2>2. /\ task[a].id \in 1..(nextId - 1)
        /\ task[a].id \in DOMAIN projects => projects[task[a].id].slug = task[a].slug
    BY <2>1 DEF Inv, Found
  <2>3. nextId \in Nat /\ nextId' \in Nat /\ nextId' >= nextId
    BY <1>1 DEF Inv, Logged, Committing
  <2>4. task[a].id < nextId /\ task[a].id \in 1..(nextId' - 1)
    BY <2>2, <2>3
  <2> QED BY <2>1, <2>2, <2>4 DEF Committing
<1> QED BY <1>1, <1>3, <1>5, <1>6 DEF Inv

-----------------------------------------------------------------------------
(* The inductive invariant, one action at a time *)

(* At start-up serve publishes a map of the table it has just read.        *)
LEMMA InitInv == Init => Inv
<1> SUFFICES ASSUME Init PROVE Inv
  OBVIOUS
<1> DEFINE none == <<>>
<1>1. none \in [{} -> Row] /\ DOMAIN none = {}
  OBVIOUS
<1>2. none \in Tables
  BY <1>1 DEF Tables
<1>3. log = <<none>> /\ projects = none /\ nextId = 1 /\ shown = 1 /\ map = Load(none, mainHost)
  BY DEF Init
<1>4. log \in Seq(Tables) /\ Len(log) = 1 /\ log[1] = none
  BY <1>2, <1>3
<1>5. Logged
  BY <1>1, <1>3, <1>4 DEF Logged
<1>6. Shown
  BY <1>3, <1>4 DEF Shown, MapIsACommit
<1>7. \A x \in Tasks : task[x].at = "idle"
  BY DEF Init, Idle
<1>8. Held
  BY <1>7 DEF Init, Held
<1>9. Found
  BY <1>7 DEF Found, Tasks
<1> QED BY <1>5, <1>6, <1>8, <1>9 DEF Inv

(* A request that committed goes on to refresh, or was dropped.            *)
LEMMA CommittedGoes ==
  ASSUME NEW a \in Admins, Committed(a)
  PROVE  \E v \in {[at |-> "publish"], Idle} : task' = [task EXCEPT ![a] = v]
BY DEF Committed, Goto

(* POST /admin/projects commits a row under an id never given before.      *)
LEMMA CreateInv == ASSUME Inv, NEW a \in Admins, Create(a) PROVE Inv' /\ Committing
<1>1. PICK s \in Slugs, h \in ParsedHosts : Insert(s, h)
  BY DEF Create
<1>2. h \in Hosts \cup {NoHost}
  BY DEF ParsedHosts
<1>3. Committing
  BY <1>1, <1>2, CreateCommits DEF Inv
<1>4. task[a].at = "idle" /\ Committed(a) /\ UNCHANGED <<mainHost, map, shown, mutex>>
  BY DEF Create
<1> QED BY <1>3, <1>4, CommitStep, CommittedGoes

(* POST .../settings commits to the id it found, whose slug never changes. *)
LEMMA SaveInv == ASSUME Inv, NEW a \in Admins, Save(a) PROVE Inv' /\ Committing
<1>1. PICK h \in ParsedHosts : Update(task[a].id, h)
  BY DEF Save
<1>2. h \in Hosts \cup {NoHost}
  BY DEF ParsedHosts
<1>3. Committing
  BY <1>1, <1>2, UpdateCommits DEF Inv
<1>4. task[a].at = "found" /\ Committed(a) /\ UNCHANGED <<mainHost, map, shown, mutex>>
  BY DEF Save
<1> QED BY <1>3, <1>4, CommitStep, CommittedGoes

(* POST .../delete commits to the id it found.                             *)
LEMMA DeleteInv == ASSUME Inv, NEW a \in Admins, Delete(a) PROVE Inv' /\ Committing
<1>1. Committing
  BY DeleteCommits DEF Inv, Delete
<1>2. task[a].at = "found" /\ Committed(a) /\ UNCHANGED <<mainHost, map, shown, mutex>>
  BY DEF Delete
<1> QED BY <1>1, <1>2, CommitStep, CommittedGoes

(* `kohaku project create` commits from another process.                   *)
LEMMA CliCreateInv == ASSUME Inv, CliCreate PROVE Inv' /\ Committing
<1>1. PICK s \in Slugs, h \in ParsedHosts : Insert(s, h)
  BY DEF CliCreate
<1>2. h \in Hosts \cup {NoHost}
  BY DEF ParsedHosts
<1>3. Committing
  BY <1>1, <1>2, CreateCommits DEF Inv
<1> QED BY <1>3, CommitStep DEF CliCreate

(* A step that changes no table and no map, and moves one task v.          *)
LEMMA TaskStep ==
  ASSUME Inv, NEW x \in Tasks, NEW v, task' = [task EXCEPT ![x] = v],
         UNCHANGED <<table, mainHost, map, shown>>,
         \/ task[x].at \notin {"polled", "loaded"} /\ v.at \notin {"polled", "loaded"} /\ mutex' = mutex
         \/ v.at \in {"polled", "loaded"} /\ (mutex = {} \/ task[x].at \in {"polled", "loaded"}) /\ mutex' = {x}
         \/ v.at \notin {"polled", "loaded"} /\ mutex' = mutex \ {x},
         v.at = "loaded" => v.read = Len(log) /\ v.new = Load(projects, mainHost),
         v.at = "found" /\ x \in Admins =>
           v.id \in DOMAIN projects /\ v.slug = projects[v.id].slug
  PROVE  Inv'
<1>1. /\ log' = log /\ projects' = projects /\ nextId' = nextId /\ mainHost' = mainHost
      /\ map' = map /\ shown' = shown
  BY DEF table
<1>2. Logged' /\ Shown'
  BY <1>1 DEF Inv, Logged, Shown, MapIsACommit
<1>3. /\ task = [y \in Tasks |-> task[y]]
      /\ mutex = {y \in Tasks : task[y].at \in {"polled", "loaded"}}
      /\ \A y, z \in mutex : y = z
  BY DEF Inv, Held
<1>4. /\ task' = [y \in Tasks |-> task'[y]] /\ task'[x] = v
      /\ \A y \in Tasks : y # x => task'[y] = task[y]
  BY <1>3
<1>5. mutex' = {y \in Tasks : task'[y].at \in {"polled", "loaded"}} /\ \A y, z \in mutex' : y = z
  BY <1>3, <1>4
<1>6. ASSUME NEW y \in Tasks, task'[y].at = "loaded"
      PROVE  task'[y].read \in shown'..Len(log') /\ task'[y].new = Load(log'[task'[y].read], mainHost')
  <2>1. CASE y = x
    <3>1. v.read = Len(log) /\ v.new = Load(log[Len(log)], mainHost)
      BY <2>1, <1>4, <1>6 DEF Inv, Logged
    <3>2. Len(log) \in shown..Len(log)
      BY DEF Inv, Logged, Shown
    <3> QED BY <2>1, <3>1, <3>2, <1>1, <1>4
  <2>2. CASE y # x
    BY <2>2, <1>1, <1>4, <1>6 DEF Inv, Held
  <2> QED BY <2>1, <2>2
<1>7. Held'
  BY <1>4, <1>5, <1>6 DEF Held
<1>8. Found'
  <2> SUFFICES ASSUME NEW a \in Admins, task'[a].at = "found"
               PROVE  /\ task'[a].id \in 1..(nextId - 1)
                      /\ task'[a].id \in DOMAIN projects => projects[task'[a].id].slug = task'[a].slug
    BY <1>1 DEF Found
  <2>1. CASE a = x
    BY <2>1, <1>4 DEF Inv, Logged
  <2>2. CASE a # x
    BY <2>2, <1>4 DEF Inv, Found, Tasks
  <2> QED BY <2>1, <2>2
<1> QED BY <1>2, <1>7, <1>8 DEF Inv

(* projects::find gives a request an id and the slug it names.             *)
LEMMA FindInv == ASSUME Inv, NEW a \in Admins, Find(a) PROVE Inv'
<1>1. PICK i \in DOMAIN projects : Goto(a, [at |-> "found", id |-> i, slug |-> projects[i].slug])
  BY DEF Find, Lookup
<1> DEFINE v == [at |-> "found", id |-> i, slug |-> projects[i].slug]
<1>2. v.at = "found" /\ v.id = i /\ v.slug = projects[i].slug
  OBVIOUS
<1>3. /\ task' = [task EXCEPT ![a] = v] /\ a \in Tasks /\ task[a].at = "idle"
      /\ UNCHANGED <<table, mainHost, map, shown, mutex>>
  BY <1>1 DEF Find, Lookup, Goto, Tasks
<1> HIDE DEF v
<1> QED BY <1>2, <1>3, TaskStep

(* A request whose transaction changes nothing ends.                       *)
LEMMA NoChangeInv == ASSUME Inv, NEW a \in Admins, NoChange(a) PROVE Inv'
<1>1. /\ task' = [task EXCEPT ![a] = Idle] /\ a \in Tasks /\ task[a].at = "found"
      /\ UNCHANGED <<table, mainHost, map, shown, mutex>> /\ Idle.at = "idle"
  BY DEF NoChange, Goto, Tasks, Idle
<1> QED BY <1>1, TaskStep

(* hosts::refresh reads the table after its request's commit.              *)
LEMMA RefreshInv == ASSUME Inv, NEW a \in Admins, Refresh(a) PROVE Inv'
<1> DEFINE v == [at |-> "loaded", read |-> Len(log), new |-> Load(projects, mainHost)]
<1>1. v.at = "loaded" /\ v.read = Len(log) /\ v.new = Load(projects, mainHost)
  OBVIOUS
<1>2. /\ task' = [task EXCEPT ![a] = v] /\ a \in Tasks /\ mutex = {} /\ mutex' = {a}
      /\ UNCHANGED <<table, mainHost, map, shown>>
  BY DEF Refresh, Goto, Tasks, Free
<1> HIDE DEF v
<1> QED BY <1>1, <1>2, TaskStep

(* hosts::watch compares data_version and changes no map.                  *)
LEMMA PollInv == ASSUME Inv, Poll PROVE Inv'
<1> DEFINE v == [at |-> "polled", version |-> data_version]
<1>1. v.at = "polled"
  OBVIOUS
<1>2. Watch \in Tasks /\ mutex = {} /\ UNCHANGED <<table, mainHost, map, shown>>
  BY DEF Poll, Tasks, Free
<1>3. CASE mutex' = {Watch} /\ task' = [task EXCEPT ![Watch] = v]
  <2> HIDE DEF v
  <2> QED BY <1>1, <1>2, <1>3, TaskStep
<1>4. CASE UNCHANGED <<mutex, task>>
  <2>1. /\ projects' = projects /\ nextId' = nextId /\ log' = log /\ mainHost' = mainHost
        /\ map' = map /\ shown' = shown /\ mutex' = mutex /\ task' = task
    BY <1>2, <1>4 DEF table
  <2>2. Logged' /\ Shown'
    BY <2>1 DEF Inv, Logged, Shown, MapIsACommit
  <2>3. Held' /\ Found'
    BY <2>1 DEF Inv, Held, Found
  <2> QED BY <2>2, <2>3 DEF Inv
<1> QED BY <1>3, <1>4 DEF Poll, Goto

(* hosts::watch reads the table after the version it saw.                  *)
LEMMA WatchLoadInv == ASSUME Inv, WatchLoad PROVE Inv'
<1> DEFINE v == [at |-> "loaded", version |-> task[Watch].version, read |-> Len(log), new |-> Load(projects, mainHost)]
<1>1. v.at = "loaded" /\ v.read = Len(log) /\ v.new = Load(projects, mainHost)
  OBVIOUS
<1>2. /\ task' = [task EXCEPT ![Watch] = v] /\ Watch \in Tasks /\ task[Watch].at = "polled"
      /\ UNCHANGED <<table, mainHost, map, shown, mutex>>
  BY DEF WatchLoad, Goto, Tasks
<1>3. mutex = {Watch}
  BY <1>2 DEF Inv, Held
<1> HIDE DEF v
<1> QED BY <1>1, <1>2, <1>3, TaskStep

(* A rebuild that fails leaves the map in place.                           *)
LEMMA FailInv == ASSUME Inv, NEW x \in Tasks, RebuildFails(x) PROVE Inv'
<1>1. /\ task' = [task EXCEPT ![x] = Idle] /\ mutex' = mutex \ {x} /\ Idle.at = "idle"
      /\ UNCHANGED <<table, mainHost, map, shown>>
  BY DEF RebuildFails, Goto, Idle
<1> QED BY <1>1, TaskStep

(* HostMap::replace publishes a rebuild only over an older one.            *)
LEMMA ReplaceInv == ASSUME Inv, NEW x \in Tasks, Replace(x) PROVE Inv' /\ shown' \in shown..Len(log)
<1>1. /\ task[x].at = "loaded" /\ map' = task[x].new /\ shown' = task[x].read /\ mutex' = mutex \ {x}
      /\ task' = [task EXCEPT ![x] = Idle] /\ Idle.at = "idle" /\ mainHost' = mainHost
      /\ log' = log /\ projects' = projects /\ nextId' = nextId
  BY DEF Replace, Goto, Idle, table
<1>2. task[x].read \in shown..Len(log) /\ task[x].new = Load(log[task[x].read], mainHost)
  BY <1>1 DEF Inv, Held
<1>3. shown \in 1..Len(log) /\ Len(log) \in Nat
  BY DEF Inv, Shown, Logged
<1>4. Logged'
  BY <1>1 DEF Inv, Logged
<1>5. Shown'
  BY <1>1, <1>2, <1>3 DEF Shown, MapIsACommit
<1>6. /\ task = [y \in Tasks |-> task[y]]
      /\ mutex = {y \in Tasks : task[y].at \in {"polled", "loaded"}} /\ \A y, z \in mutex : y = z
  BY DEF Inv, Held
<1>7. mutex = {x} /\ \A y \in Tasks : y # x => task[y].at \notin {"polled", "loaded"}
  BY <1>1, <1>6
<1>8. /\ task' = [y \in Tasks |-> task'[y]] /\ task'[x] = Idle
      /\ \A y \in Tasks : y # x => task'[y] = task[y]
  BY <1>1, <1>6
<1>9. Held'
  BY <1>1, <1>7, <1>8 DEF Held
<1>10. Found'
  BY <1>1, <1>8 DEF Inv, Found, Tasks
<1> QED BY <1>1, <1>2, <1>4, <1>5, <1>9, <1>10 DEF Inv

(* A restart reads the table as it is and forgets the requests.            *)
LEMMA RestartInv == ASSUME Inv, Restart PROVE Inv' /\ shown' \in shown..Len(log)
<1>1. /\ log' = log /\ projects' = projects /\ nextId' = nextId /\ mutex' = {}
      /\ map' = Load(projects, mainHost') /\ shown' = Len(log)
      /\ task' = [x \in Tasks |-> Idle] /\ Idle.at = "idle"
  BY DEF Restart, table, Idle
<1>2. Logged' /\ Len(log) \in Nat /\ Len(log) >= 1 /\ log[Len(log)] = projects /\ shown \in 1..Len(log)
  BY <1>1 DEF Inv, Logged, Shown
<1>3. Shown'
  BY <1>1, <1>2 DEF Shown, MapIsACommit
<1>4. \A x \in Tasks : task'[x].at = "idle"
  BY <1>1
<1>5. Held'
  BY <1>1, <1>4 DEF Held
<1>6. Found'
  BY <1>4 DEF Found, Tasks
<1> QED BY <1>1, <1>2, <1>3, <1>5, <1>6 DEF Inv

(* Every step keeps the invariant.                                         *)
LEMMA NextInv == Inv /\ [Next]_vars => Inv'
<1> SUFFICES ASSUME Inv, [Next]_vars PROVE Inv'
  OBVIOUS
<1>1. ASSUME NEW a \in Admins, Create(a) \/ Find(a) \/ Save(a) \/ Delete(a) \/ NoChange(a) \/ Refresh(a)
      PROVE  Inv'
  BY <1>1, CreateInv, FindInv, SaveInv, DeleteInv, NoChangeInv, RefreshInv
<1>2. CASE CliCreate \/ Poll \/ WatchLoad \/ Restart
  BY <1>2, CliCreateInv, PollInv, WatchLoadInv, RestartInv
<1>3. ASSUME NEW x \in Tasks, Replace(x) \/ RebuildFails(x)
      PROVE  Inv'
  BY <1>3, ReplaceInv, FailInv
<1>4. CASE UNCHANGED vars
  BY <1>4 DEF Inv, Logged, Shown, MapIsACommit, Held, Found, vars, table
<1> QED BY <1>1, <1>2, <1>3, <1>4 DEF Next

(* The invariant of the table, the map and the rebuilds under way          *)
(* (projects, hosts::refresh, hosts::watch) holds in every reachable       *)
(* state.                                                                  *)
THEOREM Invariance == Spec => []Inv
BY InitInv, NextInv, PTL DEF Spec

-----------------------------------------------------------------------------
(* What follows *)

(* Requests are routed by exactly one commit of the projects table, however*)
(* many admin requests, commands and watcher ticks rebuild the map         *)
(* (hosts::load, refresh, watch).                                          *)
THEOREM RoutedByACommit == Spec => []MapIsACommit
<1>1. Inv => MapIsACommit
  BY DEF Inv, Shown
<1> QED BY <1>1, Invariance, PTL

(* The entries of a map are the main host's and projects of its table.     *)
LEMMA EntriesAreProjects ==
  ASSUME NEW t, NEW main, NEW h \in DOMAIN Load(t, main).entries
  PROVE  Load(t, main).entries[h] = Main \/ Load(t, main).entries[h] \in DOMAIN t
<1> DEFINE with == WithHost(t)
           hosts == {with[i].host : i \in DOMAIN with}
           entries == [g \in {main} \cup hosts |-> IF g \in hosts THEN Owner(with, g) ELSE Main]
<1>1. Load(t, main).entries = entries
  BY DEF Load, Mapping
<1>2. ASSUME h \in hosts PROVE Owner(with, h) \in DOMAIN with
  <2>1. \E i \in DOMAIN with : with[i].host = h
    BY <1>2
  <2> HIDE DEF with
  <2> QED BY <2>1 DEF Owner
<1>3. DOMAIN with \subseteq DOMAIN t
  BY DEF WithHost
<1>4. h \in {main} \cup hosts
  BY <1>1
<1>5. entries[h] = IF h \in hosts THEN Owner(with, h) ELSE Main
  BY <1>4
<1> HIDE DEF entries, hosts, with
<1> QED BY <1>1, <1>2, <1>3, <1>5

(* An id held by a request or by the map names the project it named when   *)
(* it was read, or none (AUTOINCREMENT in 0003_projects.sql).              *)
THEOREM IdsNameOneProject == Spec => []IdNamesOneProject
<1>1. Inv => IdNamesOneProject
  <2> SUFFICES ASSUME Inv PROVE IdNamesOneProject
    OBVIOUS
  <2>1. ASSUME NEW h \in DOMAIN map.entries, map.entries[h] \in DOMAIN projects
        PROVE  /\ map.entries[h] \in DOMAIN log[shown]
               /\ log[shown][map.entries[h]].slug = projects[map.entries[h]].slug
    <3>1. map = Load(log[shown], mainHost) /\ shown \in 1..Len(log)
      BY DEF Inv, Shown, MapIsACommit
    <3>2. map.entries[h] = Main \/ map.entries[h] \in DOMAIN log[shown]
      BY <2>1, <3>1, EntriesAreProjects
    <3>3. map.entries[h] # Main
      <4>1. DOMAIN projects \subseteq 1..(nextId - 1)
        BY DEF Inv, Logged
      <4> QED BY <2>1, <4>1 DEF Main
    <3> QED BY <2>1, <3>1, <3>2, <3>3 DEF Inv, Logged
  <2> QED BY <2>1 DEF IdNamesOneProject, Inv, Found
<1> QED BY <1>1, Invariance, PTL

(* The map implements HostPromise: it shows whole commits and never an     *)
(* older one than before, so a published change is never taken back by a   *)
(* rebuild that read the table earlier.                                    *)
THEOREM NeverGoesBack == Spec => MapPromise
<1>1. Init => Promise!Init
  BY DEF Init, Promise!Init
<1>2. Inv /\ [Next]_vars => [Promise!Next]_(Promise!vars)
  <2> SUFFICES ASSUME Inv, [Next]_vars PROVE [Promise!Next]_(Promise!vars)
    OBVIOUS
  <2>1. ASSUME Committing, shown' = shown PROVE Promise!Commit
    BY <2>1 DEF Committing, Promise!Commit
  <2>2. ASSUME shown' \in shown..Len(log), log' = log PROVE Promise!Show
    BY <2>2 DEF Promise!Show
  <2>3. ASSUME NEW a \in Admins, Create(a) \/ Save(a) \/ Delete(a) PROVE Promise!Commit
    BY <2>1, <2>3, CreateInv, SaveInv, DeleteInv DEF Create, Save, Delete
  <2>4. CASE CliCreate
    BY <2>1, <2>4, CliCreateInv DEF CliCreate, Promise!Next
  <2>5. ASSUME NEW a \in Admins, Find(a) \/ NoChange(a) \/ Refresh(a) PROVE UNCHANGED <<log, shown>>
    BY <2>5 DEF Find, NoChange, Refresh, table
  <2>6. CASE Poll \/ WatchLoad
    BY <2>6 DEF Poll, WatchLoad, table, Promise!vars
  <2>7. CASE Restart
    BY <2>2, <2>7, RestartInv DEF Restart, table, Promise!Next
  <2>8. ASSUME NEW x \in Tasks, Replace(x) PROVE Promise!Show
    BY <2>2, <2>8, ReplaceInv DEF Replace, table
  <2>9. ASSUME NEW x \in Tasks, RebuildFails(x) PROVE UNCHANGED <<log, shown>>
    BY <2>9 DEF RebuildFails, table
  <2>10. CASE UNCHANGED vars
    BY <2>10 DEF vars, table, Promise!vars
  <2> QED BY <2>3, <2>4, <2>5, <2>6, <2>7, <2>8, <2>9, <2>10 DEF Next, Promise!Next, Promise!vars
<1> QED BY <1>1, <1>2, Invariance, PTL DEF Spec, MapPromise, Promise!Spec

-----------------------------------------------------------------------------
(* Canonical redirects *)

(* No two projects share a slug or a custom domain.                        *)
Unique(t) ==
  \A i, j \in DOMAIN t : /\ t[i].slug = t[j].slug => i = j
                         /\ t[i].host # NoHost /\ t[i].host = t[j].host => i = j

AllUnique == \A n \in 1..Len(log) : Unique(log[n])

(* Every custom domain of map m serves its project of table t.             *)
Serves(m, t) ==
  \A s \in DOMAIN m.domains :
    /\ m.domains[s] \in DOMAIN m.entries
    /\ m.entries[m.domains[s]] \in DOMAIN t
    /\ t[m.entries[m.domains[s]]].slug = s

(* In the map of a table with unique slugs and domains every custom domain *)
(* serves its project (hosts::load).                                       *)
LEMMA DomainsServe ==
  ASSUME NEW t, Unique(t), NEW main
  PROVE  Serves(Load(t, main), t)
<1> SUFFICES ASSUME NEW s \in DOMAIN Load(t, main).domains
             PROVE  /\ Load(t, main).domains[s] \in DOMAIN Load(t, main).entries
                    /\ Load(t, main).entries[Load(t, main).domains[s]] \in DOMAIN t
                    /\ t[Load(t, main).entries[Load(t, main).domains[s]]].slug = s
  BY DEF Serves
<1> DEFINE with == WithHost(t)
           hosts == {with[i].host : i \in DOMAIN with}
           entries == [g \in {main} \cup hosts |-> IF g \in hosts THEN Owner(with, g) ELSE Main]
           k == CHOOSE i \in DOMAIN with : with[i].slug = s
           domains == [u \in {with[i].slug : i \in DOMAIN with} |-> with[CHOOSE i \in DOMAIN with : with[i].slug = u].host]
           h == with[k].host
           o == Owner(with, h)
<1>1. Load(t, main).entries = entries /\ Load(t, main).domains = domains
  BY DEF Load, Mapping
<1>2. /\ DOMAIN with \subseteq DOMAIN t /\ \A i \in DOMAIN with : with[i] = t[i] /\ with[i].host # NoHost
  BY DEF WithHost
<1>3. s \in {with[i].slug : i \in DOMAIN with} /\ domains[s] = h
  BY <1>1
<1> HIDE DEF with
<1>4. k \in DOMAIN with /\ with[k].slug = s
  BY <1>3
<1> HIDE DEF k
<1>5. o \in DOMAIN with /\ with[o].host = h
  BY <1>4 DEF Owner
<1> HIDE DEF o
<1>6. o = k
  BY <1>2, <1>4, <1>5 DEF Unique
<1>7. h \in hosts
  BY <1>4
<1>8. h \in DOMAIN entries /\ entries[h] = o
  BY <1>7 DEF o
<1> HIDE DEF entries, domains, hosts, h
<1> QED BY <1>1, <1>2, <1>3, <1>4, <1>6, <1>8

(* The uniqueness checks of create and update keep slugs and domains       *)
(* apart, whatever commits in between (projects::create, update, delete).  *)
LEMMA StoreUnique ==
  ASSUME Logged, AllUnique, NEW t \in Tables, Unique(t), Store(t)
  PROVE  AllUnique'
<1>1. log' = Append(log, t) /\ log \in Seq(Tables)
  BY DEF Store, Logged
<1>2. /\ Len(log') = Len(log) + 1 /\ log'[Len(log) + 1] = t /\ Len(log) \in Nat
      /\ \A n \in 1..Len(log) : log'[n] = log[n]
  BY <1>1, AppendProperties
<1>3. ASSUME NEW n \in 1..Len(log') PROVE Unique(log'[n])
  <2>1. CASE n = Len(log) + 1
    BY <1>2, <2>1
  <2>2. CASE n \in 1..Len(log)
    BY <1>2, <2>2 DEF AllUnique
  <2> QED BY <1>2, <2>1, <2>2
<1> QED BY <1>3 DEF AllUnique

(* projects::create refuses a slug or domain that another project has.     *)
LEMMA CreateUnique ==
  ASSUME Logged, AllUnique, NEW s \in Slugs, NEW h \in Hosts \cup {NoHost}, Insert(s, h)
  PROVE  AllUnique'
<1> DEFINE t == [i \in DOMAIN projects \cup {nextId} |->
                   IF i = nextId THEN [slug |-> s, host |-> h] ELSE projects[i]]
<1>1. Store(t) /\ ~SlugTaken(s) /\ ~HostTaken(h, Main)
  BY DEF Insert, NewId, Project
<1>2. /\ nextId \in Nat \ {0} /\ projects \in Tables /\ DOMAIN projects \subseteq 1..(nextId - 1)
      /\ Unique(projects)
  BY DEF Logged, AllUnique
<1>3. PICK D \in SUBSET Nat : projects \in [D -> Row]
  BY <1>2 DEF Tables
<1>4. t \in [D \cup {nextId} -> Row] /\ D \cup {nextId} \in SUBSET Nat
  BY <1>2, <1>3 DEF Row
<1>5. t \in Tables
  BY <1>4 DEF Tables
<1>6. /\ nextId \notin DOMAIN projects /\ DOMAIN t = DOMAIN projects \cup {nextId}
      /\ t[nextId].slug = s /\ t[nextId].host = h /\ \A i \in DOMAIN projects : t[i] = projects[i]
  BY <1>2
<1>7. \A i \in DOMAIN projects : projects[i].slug # s
  BY <1>1 DEF SlugTaken
<1>8. \A i \in DOMAIN projects : h # NoHost => projects[i].host # h
  BY <1>1, <1>2 DEF HostTaken, Main
<1> HIDE DEF t
<1>9. Unique(t)
  BY <1>2, <1>6, <1>7, <1>8 DEF Unique
<1> QED BY <1>1, <1>5, <1>9, StoreUnique

(* projects::update refuses a domain that another project has.             *)
LEMMA UpdateUnique ==
  ASSUME Logged, AllUnique, NEW k, NEW h \in Hosts \cup {NoHost}, Update(k, h)
  PROVE  AllUnique'
<1> DEFINE t == [projects EXCEPT ![k].host = h]
<1>1. Store(t) /\ k \in DOMAIN projects /\ ~HostTaken(h, k)
  BY DEF Update
<1>2. projects \in Tables /\ Unique(projects)
  BY DEF Logged, AllUnique
<1>3. PICK D \in SUBSET Nat : projects \in [D -> Row]
  BY <1>2 DEF Tables
<1>4. /\ t \in [D -> Row] /\ \A i \in D : t[i].slug = projects[i].slug
      /\ t[k].host = h /\ \A i \in D \ {k} : t[i] = projects[i]
  BY <1>1, <1>3 DEF Row
<1>5. t \in Tables /\ DOMAIN t = DOMAIN projects /\ D = DOMAIN projects
  BY <1>3, <1>4 DEF Tables
<1>6. \A i \in DOMAIN projects \ {k} : h # NoHost => projects[i].host # h
  BY <1>1 DEF HostTaken
<1> HIDE DEF t
<1>7. Unique(t)
  BY <1>2, <1>4, <1>5, <1>6 DEF Unique
<1> QED BY <1>1, <1>5, <1>7, StoreUnique

(* projects::delete makes no two projects alike.                           *)
LEMMA DeleteUnique ==
  ASSUME Logged, AllUnique, NEW k, Remove(k)
  PROVE  AllUnique'
<1> DEFINE t == [j \in DOMAIN projects \ {k} |-> projects[j]]
<1>1. Store(t)
  BY DEF Remove
<1>2. projects \in Tables /\ Unique(projects)
  BY DEF Logged, AllUnique
<1>3. PICK D \in SUBSET Nat : projects \in [D -> Row]
  BY <1>2 DEF Tables
<1>4. t \in [D \ {k} -> Row] /\ D \ {k} \in SUBSET Nat
  BY <1>3
<1>5. t \in Tables
  BY <1>4 DEF Tables
<1>6. DOMAIN t \subseteq DOMAIN projects /\ \A i \in DOMAIN t : t[i] = projects[i]
  OBVIOUS
<1> HIDE DEF t
<1>7. Unique(t)
  BY <1>2, <1>6 DEF Unique
<1> QED BY <1>1, <1>5, <1>7, StoreUnique

(* A canonical redirect to a domain other than the server's own leads to a *)
(* host that serves its project, for any projects, requests and restarts   *)
(* (projects/redirect.rs, host_taken, hosts::load).                        *)
THEOREM RedirectsReach == Spec => []RedirectReachesProject
<1>1. Init => AllUnique
  BY DEF Init, AllUnique, Unique
<1>2. Inv /\ AllUnique /\ [Next]_vars => AllUnique'
  <2> SUFFICES ASSUME Logged, AllUnique, [Next]_vars PROVE AllUnique'
    BY DEF Inv
  <2>1. ASSUME NEW s \in Slugs, NEW h \in ParsedHosts, Insert(s, h) PROVE AllUnique'
    BY <2>1, CreateUnique DEF ParsedHosts
  <2>2. ASSUME NEW k, NEW h \in ParsedHosts, Update(k, h) PROVE AllUnique'
    BY <2>2, UpdateUnique DEF ParsedHosts
  <2>3. ASSUME NEW a \in Admins, Create(a) \/ Save(a) \/ Delete(a) PROVE AllUnique'
    BY <2>1, <2>2, <2>3, DeleteUnique DEF Create, Save, Delete
  <2>4. CASE CliCreate
    BY <2>1, <2>4 DEF CliCreate
  <2>5. ASSUME log' = log PROVE AllUnique'
    BY <2>5 DEF AllUnique
  <2>6. ASSUME NEW a \in Admins, Find(a) \/ NoChange(a) \/ Refresh(a) PROVE log' = log
    BY <2>6 DEF Find, NoChange, Refresh, table
  <2>7. CASE Poll \/ WatchLoad \/ Restart
    BY <2>5, <2>7 DEF Poll, WatchLoad, Restart, table
  <2>8. ASSUME NEW x \in Tasks, Replace(x) \/ RebuildFails(x) PROVE log' = log
    BY <2>8 DEF Replace, RebuildFails, table
  <2>9. CASE UNCHANGED vars
    BY <2>5, <2>9 DEF vars, table
  <2> QED BY <2>3, <2>4, <2>5, <2>6, <2>7, <2>8, <2>9 DEF Next
<1>3. Inv /\ AllUnique => RedirectReachesProject
  <2> SUFFICES ASSUME Inv, AllUnique PROVE RedirectReachesProject
    OBVIOUS
  <2>1. map = Load(log[shown], mainHost) /\ Unique(log[shown])
    BY DEF Inv, Shown, MapIsACommit, AllUnique
  <2>2. Serves(Load(log[shown], mainHost), log[shown])
    BY <2>1, DomainsServe
  <2>3. Serves(map, log[shown])
    BY <2>1, <2>2
  <2> QED BY <2>3 DEF RedirectReachesProject, Serves
<1> QED BY <1>1, <1>2, <1>3, Invariance, PTL DEF Spec
=============================================================================
