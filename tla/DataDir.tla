------------------------------- MODULE DataDir -------------------------------
(***************************************************************************)
(* The data directory and the kohaku processes that share it: `serve',     *)
(* which upgrades the database before it listens, `restore', which         *)
(* replaces it, `backup', and the one-shot admin and project commands.     *)
(* The database is its main file and the write-ahead log beside it.  A     *)
(* process may fail or be killed between any two steps; the operating      *)
(* system then frees the lock it held.                                     *)
(***************************************************************************)
EXTENDS Integers, FiniteSets

CONSTANTS
  Procs,      \* processes running at once
  Nobody,     \* holder of a free lock
  Nothing,    \* a file that does not exist
  Binaries,   \* newest migration of each release that may be started
  Secrets,    \* instance secrets; NoKey is a missing keycheck row
  NoKey,
  Sources,    \* files given to `restore': contents, or Damaged
  Damaged,
  Kept,       \* PRE_MIGRATE_KEPT
  MaxStarts,  \* bound: processes started
  MaxWrites,  \* bound: commits
  MaxFaults   \* bound: failed steps and kills

(* A database is told by its schema version, keycheck and last commit.     *)
Databases == [version : Nat, key : Secrets \cup {NoKey}, data : Nat]

ASSUME BinariesAssumption == Binaries \subseteq Nat \ {0} /\ NoKey \notin Secrets
ASSUME FilesAssumption == Nobody \notin Procs /\ Damaged # Nothing /\ Nothing \notin Databases
ASSUME SourcesAssumption == Sources \subseteq Databases \cup {Damaged}
ASSUME LimitsAssumption ==
  Kept \in Nat \ {0} /\ MaxStarts \in Nat /\ MaxWrites \in Nat /\ MaxFaults \in Nat

VARIABLES
  main,    \* kohaku.db
  wal,     \* kohaku.db-wal: the contents with its commits applied, or Nothing
  copies,  \* pre-migrate-v{version}-{time}.db in backups/
  target,  \* the file a `backup <file>' names
  lock,    \* who holds kohaku.lock
  proc,    \* each process: its command, step, release, secret and temporary file
  clock,   \* the time serve last read, once it held the lock
  starts,  \* processes started so far
  writes,  \* commits so far
  faults,  \* failures so far
  kept,    \* history: the contents after the last commit or completed restore
  cut      \* history: since then a restore removed the log

files == <<main, wal, copies, target>>
times == <<clock, starts>>
history == <<kept, cut>>
vars  == <<files, lock, proc, times, writes, faults, history>>

Contents(v, k, d) == [version |-> v, key |-> k, data |-> d]
Empty == Contents(0, NoKey, 0)

(* What a connection reads.                                                *)
Live == IF wal = Nothing THEN main ELSE wal

(* A process: its command and step, its release and secret, its temporary  *)
(* file.                                                                   *)
Process(c, s, b, k, t) == [cmd |-> c, at |-> s, binary |-> b, secret |-> k, tmp |-> t]
Idle == Process("none", "idle", 0, NoKey, Nothing)

Goto(p, s) == proc' = [proc EXCEPT ![p].at = s]
GotoTmp(p, s, c) == proc' = [proc EXCEPT ![p] = Process(@.cmd, s, @.binary, @.secret, c)]

Running(p) == proc[p].at \notin {"idle", "failed"}
Connected(p) == proc[p].cmd = "serve" /\ proc[p].at \in {"opened", "copying", "copied", "renamed", "migrate", "listening"}

(* A transaction commits c.  Another connection may be open, so it stays   *)
(* in the write-ahead log.                                                 *)
Commit(c) == wal' = c /\ kept' = c /\ cut' = FALSE /\ UNCHANGED main

Init ==
  /\ main \in {Nothing} \cup {Contents(0, NoKey, 1)} \cup {Contents(b, k, 1) : b \in Binaries, k \in Secrets}
  /\ wal = Nothing /\ copies = {} /\ target = Nothing
  /\ lock = Nobody /\ proc = [p \in Procs |-> Idle]
  /\ clock = 0 /\ starts = 0 /\ writes = 1 /\ faults = 0 /\ kept = main /\ cut = FALSE

-----------------------------------------------------------------------------
(* Processes *)

Start(p) ==
  /\ ~Running(p) /\ starts < MaxStarts
  /\ starts' = starts + 1
  /\ \E cmd \in {"serve", "restore", "backup"}, b \in Binaries, k \in Secrets :
       proc' = [proc EXCEPT ![p] = Process(cmd, "started", b, k, Nothing)]
  /\ UNCHANGED <<files, lock, clock, writes, faults, history>>

BugFree == TRUE
Free == lock = Nobody

(* InstanceLock::acquire, the first step of `serve' and `restore': refused *)
(* at once when another process holds the lock.                            *)
Acquire(p) ==
  /\ proc[p].at = "started" /\ proc[p].cmd \in {"serve", "restore"}
  /\ IF Free THEN lock' = p /\ Goto(p, "locked") ELSE UNCHANGED lock /\ Goto(p, "failed")
  /\ UNCHANGED <<files, times, writes, faults, history>>

Release(p) == lock' = IF lock = p THEN Nobody ELSE lock

(* The last connection to close checkpoints the log and removes it.        *)
Others(p) == {q \in Procs \ {p} : Connected(q)}
Closed(p) ==
  IF Others(p) = {} THEN main' = Live /\ wal' = Nothing ELSE UNCHANGED <<main, wal>>

(* An error return: connections are closed and the lock is dropped.        *)
Leave(p, s) ==
  /\ Release(p)
  /\ proc' = [proc EXCEPT ![p] = Process(@.cmd, s, 0, NoKey, Nothing)]

Fault == faults < MaxFaults /\ faults' = faults + 1

(* Killed: files stay as they are.                                         *)
Kill(p) ==
  /\ Running(p) /\ Fault
  /\ Leave(p, "idle")
  /\ UNCHANGED <<files, times, writes, history>>

-----------------------------------------------------------------------------
(* serve: open_and_prepare *)

(* create_file and open, and now_unix: a start later than another may      *)
(* still read the same second.                                             *)
Open(p) ==
  /\ proc[p].cmd = "serve" /\ proc[p].at = "locked"
  /\ IF main = Nothing THEN main' = Empty /\ kept' = Empty /\ cut' = FALSE ELSE UNCHANGED <<main, history>>
  /\ clock' \in {clock, clock + 1}
  /\ Goto(p, "opened")
  /\ UNCHANGED <<wal, copies, target, lock, starts, writes, faults>>

(* prepare: downgrade guard, not-Kohaku refusal, keycheck.  A database of  *)
(* version 1 or later has the table `meta', which the first migration made.*)
Refused(c, binary, secret) ==
  \/ c.version > binary
  \/ (c.version = 0 /\ c.data > 0)
  \/ (c.version > 0 /\ c.key \notin {secret, NoKey})

Refuse(p) ==
  /\ proc[p].at = "opened" /\ Refused(Live, proc[p].binary, proc[p].secret)
  /\ Leave(p, "failed") /\ Closed(p)
  /\ UNCHANGED <<copies, target, times, writes, faults, history>>

(* A missing keycheck row is completed; then an older database is copied   *)
(* before it is migrated.                                                  *)
Check(p) ==
  /\ proc[p].at = "opened" /\ ~Refused(Live, proc[p].binary, proc[p].secret)
  /\ IF Live.version > 0 /\ Live.key = NoKey
       THEN Commit([Live EXCEPT !.key = proc[p].secret])
       ELSE UNCHANGED <<main, wal, history>>
  /\ Goto(p, IF Live.version \in 1..proc[p].binary - 1 THEN "copying" ELSE "migrate")
  /\ UNCHANGED <<copies, target, lock, times, writes, faults>>

(* The order of names in backups/: by time, then by name.                  *)
Newer(c, d) == c.time > d.time \/ (c.time = d.time /\ c.of.version > d.of.version)

BugPruned(cs) == {c \in cs : Cardinality({d \in cs : Newer(c, d)}) < Kept}

(* prune_pre_migration_copies keeps the newest.                            *)
Pruned(cs) == {c \in cs : Cardinality({d \in cs : Newer(d, c)}) < Kept}

(* pre_migration_copy: a temporary file, filled, flushed and renamed over  *)
(* any copy of the same name, and only then are older copies removed, one  *)
(* file at a time and the oldest first.                                    *)
Vacuum(p) ==
  /\ proc[p].at = "copying"
  /\ GotoTmp(p, "copied", Live)
  /\ UNCHANGED <<files, lock, times, writes, faults, history>>

Rename(p) ==
  /\ proc[p].at = "copied"
  /\ LET c == [time |-> clock, of |-> proc[p].tmp]
     IN  copies' = {d \in copies : Newer(d, c) \/ Newer(c, d)} \cup {c}
  /\ Goto(p, "renamed")
  /\ UNCHANGED <<main, wal, target, lock, times, writes, faults, history>>

Prune(p) ==
  /\ proc[p].at = "renamed"
  /\ LET excess == copies \ Pruned(copies)
     IN  \/ excess = {} /\ UNCHANGED copies /\ Goto(p, "migrate")
         \/ \E c \in excess :
              /\ \A d \in excess \ {c} : Newer(d, c)
              /\ copies' = copies \ {c} /\ UNCHANGED proc
  /\ UNCHANGED <<main, wal, target, lock, times, writes, faults, history>>

(* apply: one migration and its version in one transaction, the first with *)
(* the keycheck.                                                           *)
Migrate(p) ==
  /\ proc[p].at = "migrate" /\ Live.version < proc[p].binary
  /\ Commit(Contents(Live.version + 1, IF Live.key = NoKey THEN proc[p].secret ELSE Live.key, Live.data))
  /\ UNCHANGED <<copies, target, lock, proc, times, writes, faults>>

Listen(p) ==
  /\ proc[p].at = "migrate" /\ Live.version >= proc[p].binary
  /\ GotoTmp(p, "listening", Nothing)
  /\ UNCHANGED <<files, lock, times, writes, faults, history>>

(* A failing step: open, copy, migration, or anything before listening.    *)
Fail(p) ==
  /\ Connected(p) /\ proc[p].at # "listening" /\ Fault
  /\ Leave(p, "failed") /\ Closed(p)
  /\ UNCHANGED <<copies, target, times, writes, history>>

Write(p) ==
  /\ proc[p].at = "listening" /\ writes < MaxWrites
  /\ writes' = writes + 1
  /\ Commit([Live EXCEPT !.data = writes'])
  /\ UNCHANGED <<copies, target, lock, proc, times, faults>>

Checkpoint(p) ==
  /\ proc[p].at = "listening" /\ wal # Nothing
  /\ main' = wal
  /\ UNCHANGED <<wal, copies, target, lock, proc, times, writes, faults, history>>

(* SIGTERM: the connections are closed before the lock is dropped.         *)
Stop(p) ==
  /\ proc[p].at = "listening"
  /\ Leave(p, "idle") /\ Closed(p)
  /\ UNCHANGED <<copies, target, times, writes, faults, history>>

-----------------------------------------------------------------------------
(* restore *)

Restoring(p, s) == proc[p].cmd = "restore" /\ proc[p].at = s

(* The source is copied, checked, and the restore recorded in the copy.    *)
Candidate(p) ==
  /\ Restoring(p, "locked") /\ writes < MaxWrites
  /\ writes' = writes + 1
  /\ \E c \in Sources \cup {d.of : d \in copies} :
       IF c = Damaged \/ c.version = 0
         THEN Leave(p, "failed")
         ELSE GotoTmp(p, "checked", [c EXCEPT !.data = writes']) /\ UNCHANGED lock
  /\ UNCHANGED <<files, times, faults, history>>

RemoveWal(p) ==
  /\ Restoring(p, "checked")
  /\ wal' = Nothing /\ cut' = TRUE /\ Goto(p, "no_wal")
  /\ UNCHANGED <<main, copies, target, lock, times, writes, faults, kept>>

(* The shared-memory file holds nothing that is not rebuilt.               *)
RemoveShm(p) ==
  /\ Restoring(p, "no_wal") /\ Goto(p, "no_shm")
  /\ UNCHANGED <<files, lock, times, writes, faults, history>>

BugReplace(p) ==
  /\ Restoring(p, "checked")
  /\ main' = proc[p].tmp /\ kept' = proc[p].tmp /\ cut' = FALSE
  /\ Goto(p, "replaced")
  /\ UNCHANGED <<wal, copies, target, lock, times, writes, faults>>

Replace(p) ==
  /\ Restoring(p, "no_shm")
  /\ main' = proc[p].tmp /\ kept' = proc[p].tmp /\ cut' = FALSE
  /\ Goto(p, "replaced")
  /\ UNCHANGED <<wal, copies, target, lock, times, writes, faults>>

Restored(p) ==
  /\ Restoring(p, "replaced") /\ Leave(p, "idle")
  /\ UNCHANGED <<files, times, writes, faults, history>>

(* A step fails: the candidate is removed.                                 *)
RestoreFails(p) ==
  /\ \E s \in {"locked", "checked", "no_wal", "no_shm", "replaced"} : Restoring(p, s)
  /\ Fault /\ Leave(p, "failed")
  /\ UNCHANGED <<files, times, writes, history>>

-----------------------------------------------------------------------------
(* backup <file>, which takes no lock *)

Backing(p, s) == proc[p].cmd = "backup" /\ proc[p].at = s

(* An existing target, a missing database or another secret is refused.    *)
(* The connection is closed before the snapshot is published.              *)
Snapshot(p) ==
  /\ Backing(p, "started")
  /\ IF target # Nothing \/ main = Nothing
       THEN Leave(p, "failed") /\ UNCHANGED <<main, wal>>
       ELSE /\ Closed(p)
            /\ IF Live.key = proc[p].secret
                 THEN GotoTmp(p, "snapshot", Live) /\ UNCHANGED lock
                 ELSE Leave(p, "failed")
  /\ UNCHANGED <<copies, target, times, writes, faults, history>>

BugLink(p) ==
  /\ Backing(p, "snapshot")
  /\ target' = proc[p].tmp /\ Leave(p, "idle")
  /\ UNCHANGED <<main, wal, copies, times, writes, faults, history>>

(* hard_link refuses a target that appeared meanwhile; a backup that is    *)
(* published may still be reported as failed, when the directory cannot be *)
(* flushed.                                                                *)
Link(p) ==
  /\ Backing(p, "snapshot")
  /\ \/ target = Nothing /\ target' = proc[p].tmp /\ Leave(p, "idle") /\ UNCHANGED faults
     \/ target = Nothing /\ target' = proc[p].tmp /\ Leave(p, "failed") /\ Fault
     \/ target # Nothing /\ UNCHANGED <<target, faults>> /\ Leave(p, "failed")
  /\ UNCHANGED <<main, wal, copies, times, writes, history>>

BackupFails(p) ==
  /\ Backing(p, "snapshot") /\ Fault /\ Leave(p, "failed")
  /\ UNCHANGED <<files, times, writes, history>>

-----------------------------------------------------------------------------
(* admin unlock, admin reset-password and project create: open_current,    *)
(* one transaction, exit.  No lock is taken.                               *)
Command ==
  /\ main # Nothing /\ Live.version \in Binaries /\ Live.key \in Secrets
  /\ writes < MaxWrites /\ writes' = writes + 1
  /\ LET c == [Live EXCEPT !.data = writes']
     IN  /\ kept' = c /\ cut' = FALSE
         /\ IF \E p \in Procs : Connected(p)
              THEN wal' = c /\ UNCHANGED main
              ELSE main' = c /\ wal' = Nothing
  /\ UNCHANGED <<copies, target, lock, proc, times, faults>>

Next ==
  \/ \E p \in Procs :
       \/ Start(p) \/ Acquire(p) \/ Kill(p)
       \/ Open(p) \/ Refuse(p) \/ Check(p) \/ Vacuum(p) \/ Rename(p) \/ Prune(p) \/ Migrate(p)
       \/ Listen(p) \/ Fail(p) \/ Write(p) \/ Checkpoint(p) \/ Stop(p)
       \/ Candidate(p) \/ RemoveWal(p) \/ RemoveShm(p) \/ Replace(p) \/ Restored(p) \/ RestoreFails(p)
       \/ Snapshot(p) \/ Link(p) \/ BackupFails(p)
  \/ Command

Spec == Init /\ [][Next]_vars

-----------------------------------------------------------------------------
(* Properties *)

(* A server that listens serves a database of its own release and secret:  *)
(* no restore, other release or other server gets between its checks and   *)
(* its requests (InstanceLock, prepare).                                   *)
ListensOnItsDatabase ==
  \A p \in Procs : proc[p].at = "listening" =>
    lock = p /\ Live.version = proc[p].binary /\ Live.key = proc[p].secret

(* Once a migration of an existing database has committed, the copy taken  *)
(* before it is in backups/ until the server listens, whatever was pruned  *)
(* (pre_migration_copy).                                                   *)
UpgradeHasCopy ==
  \A p \in Procs :
    /\ proc[p].at = "migrate" /\ proc[p].tmp # Nothing
    /\ Live.version > proc[p].tmp.version
    => proc[p].tmp \in {c.of : c \in copies}

(* What was committed or restored last is what the next connection reads,  *)
(* through refused, failed and killed starts, upgrades, shutdowns, backups *)
(* and restores -- except after a restore removed the log, until it has    *)
(* replaced the main file or, when it was cut there, something commits     *)
(* (Db::open, restore, InstanceLock).                                      *)
CommitsSurvive == cut \/ Live = kept

(* A backup that exists is never overwritten, also when two backups race   *)
(* for one name (backup_to_file).                                          *)
BackupNeverReplaced == [][target # Nothing => target' = target]_vars

(* "Why a restore refused or failed; the live database is unchanged in     *)
(* every case" (RestoreError).  Another restore may be at work on the      *)
(* files while it holds the lock.                                          *)
FailedRestoreChangesNothing ==
  lock = Nobody => \A p \in Procs : proc[p].cmd = "restore" /\ proc[p].at = "failed" => Live = kept
=============================================================================
