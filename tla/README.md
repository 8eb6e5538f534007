# Kohaku: TLA+ models, checks and proofs

Kohaku is a self-hosted inbox for bug reports: one Rust process with an SQLite
database, an HTTP server for public and admin pages, one mail worker, one job
scheduler, and a CLI that opens the same database from other processes. This
directory holds models of the parts where order, time and failure matter, the
TLC configurations that check them, and TLAPS proofs of every safety property
the passing runs check. Liveness is model-checked only.

## The system and its parts

| Part | Source | State it owns | Who runs it |
|---|---|---|---|
| Mail outbox | `mail/outbox.rs`, `mail/mod.rs` | table `outbox`, wake-up permit, the worker's loop | queuing handlers, one worker task |
| Mail transport | `mail/smtp.rs`, `mail/dev.rs` | none | a task per attempt, 60 s timeout |
| Reset tokens | `auth/reset.rs`, `auth/mail.rs`, `admin/reset.rs` | table `tokens` | handlers, CLI, the worker |
| Jobs | `jobs.rs` | next run times | one scheduler task |
| Credential check, lockout | `auth/credentials.rs`, `auth/commands.rs` | counters of table `users` | handlers, CLI |
| Sessions, devices | `auth/session.rs`, `admin/login.rs`, `admin/mod.rs` | tables `sessions`, `known_devices` | every admin request |
| Account pages, second factor | `admin/account.rs`, `auth/totp.rs`, `auth/recovery.rs` | `users`, `recovery_codes` | handlers |
| Database access | `db/mod.rs` | one writer, pooled readers | every handler |
| Start-up, migrations, lock | `db/migrate.rs`, `db/current.rs`, `db/lock.rs` | schema version, lock file, pre-migration copies | server, CLI |
| Backup and restore | `db/backup.rs` | database files | CLI |
| Limits | `limits/*.rs` | in-memory buckets and semaphores | every request |
| Host routing, projects | `routing/*.rs`, `projects/*.rs`, `admin/projects.rs` | table `projects`, the shared host map | handlers, watcher task, CLI |
| HTTP server, shutdown | `http/*.rs`, `serve.rs` | activity counters | server tasks |
| Audit log, keys, configuration, logging, pages | the rest | append-only or none | everywhere |

`PROJECT.json` lists every part with its status, every definition with the
lines it models, and the hazards: the places where an order, a stale read, a
crash or a limit could break the code and a test would hardly show it.

## Modules

| Module | What it is |
|---|---|
| `MailDelivery` | abstract promise of the outbox: each mail is attempted while open, settled once, never attempted again |
| `Outbox` | the outbox, its worker, retention and the reset tokens, with faults, crashes and restarts |
| `MCOutbox` | instances for TLC: `MCOutbox.cfg`, `MCOutboxLive.cfg` |
| `OutboxProofs` | theorems about `Outbox` |
| `Account` | an account row and the pure decisions of the credential check on it |
| `Lockout`, `MCLockout`, `LockoutProofs` | concurrent credential checks of one account over time |
| `SignIn`, `MCSignIn`, `SignInProofs` | sessions, device cookies, enrollment and recovery codes under concurrent requests |
| `RateLimiter`, `MCRateLimiter`, `RateLimiterProofs` | token buckets per network, their cap and sweep, and the mail budgets of the reset form |
| `HostPromise` | abstract promise of the host map: some whole commit of the projects table, never an older one than before |
| `HostMap`, `MCHostMap`, `HostMapProofs` | the projects table, the requests and commands that change it, and the rebuilds of the map |
| `Routes` | the route table and the pure rules of a request: origin, isolation, rate classes, client address |
| `Pipeline`, `MCPipeline` | one request through the dispatcher and every layer, beside session ends and map rebuilds |
| `RequestProofs` | theorems about `Work` and `Pipeline` |
| `DataDir`, `MCDataDir`, `DataDirProofs` | processes that share one data directory: lock, upgrade, serve, backup, restore, commands |
| `Work`, `MCWork` | hashing, public write, reader and writer permits under dropped requests |
| `Server`, `MCServer`, `ServerProofs` | connections, rejection counters and the shutdown |

`Lockout` and `SignIn` share `Account`, so both decide by the same definitions.
Definitions named `Bug...` are wrong variants of the definition that follows
them. No specification uses them; each one, put in its place, breaks the
property it is listed with in `PROJECT.json`.

### Outbox

One action per write transaction or worker step. A row holds what the code's
decisions read: kind, recipient, placeholder flag, token carried, next attempt,
queue and expiry times, attempts, outcome. `worker` is the place in
`Worker::run`: `picking`, `sending`, `waiting` (asleep), `paused` (after an
error), `down`.

- The transactions that queue mail are `RequestReset`, `RequestUnknown`,
  `Lockout`, `ChangePassword` and `LinkSubmit`. `CliResetPassword` issues a
  token and mails nothing.
- `Pick`, `WakeUp`, `RecordSent` and `RecordFailed` are the worker;
  `SmtpAccepts` is the server, external to the code.
- `PickFails`, `RecordFails`, `RolledBack` and `RetentionStepFails` are the
  error paths. `Crash` loses everything that is not in the database.

`enqueue` leaves the permit before its transaction commits. The model does both
at once, because the worker's `pick` needs the same writer and cannot run in
between. A server that accepts after the attempt has ended is modelled as one
that accepts just before: the program sees no difference. `MaxLag` is how old
a handler's clock reading may be when its transaction runs.

### Account, Lockout, SignIn

A password is a version number and a seed is a version number; a TOTP code is
the pair of seed and step. `credentials::check` is two steps: it reads the
clock and the account and verifies the password (`Begin`, `Login`, `Reauth`),
and later decides in one transaction by the time it read first. Between the two,
anything may happen. `Lockout` keeps the counters, the clock and the lockout
mail. `SignIn` drops the counters (there a check may fail at any time) and
keeps the sessions. A request that entered through the session layer keeps the
session id and account it read; `confirm_totp` reads the clock then or later, before
it waits for the writer. Session ids are SQLite row ids: one more than
the largest present, so an ended session's id may be given again. Ends by age
(idle, absolute, device lifetime) are `Retention`, which may delete any. The
password and factor a session passed are kept as history.

In `Lockout` whether a check carries a device cookie is an input. Nothing in
`src/` creates or disables accounts; `SignIn` starts with them in place.

### RateLimiter

A bucket is its theoretical arrival time, as in the code. A demand names the
keyed buckets it needs (one for IPv4, two for IPv6), its overflow bucket and,
for the mail budget, the instance-wide bucket. A request is a sequence of
demands: the route's class, and for a reset request then the address and the
mail source. `Begin` and `ReadClock` read the clock, `Admit` and `Reject` run
under the lock, so other requests and a sweep may come between. `MaxLag` bounds
how long a reading waits. Each `Admit` is all of `admit_with`: every bucket
checked, then every bucket taken from, or none. What an earlier demand of the
same request took stays taken, as the request-limits specification orders it.
`load` is a history variable, the reference: on a perfect clock, how long the
tokens given so far still need to come back. It knows nothing of arrival times,
caps or sweeps.

### HostMap

The projects table is a function from ids to slug and custom domain; `log` is
the history of its commits. `Create`, `Find`, `Save`, `Delete` and `NoChange`
are the admin pages, in the code's two steps of a lookup by slug and a
transaction by id. `CliCreate` is `kohaku project create` in its own process.
A request that committed publishes its change (`Refresh`, `Replace`); the
watcher polls `data_version` and rebuilds (`Poll`, `WatchLoad`, `Replace`).
All rebuilds share one connection, so one runs at a time. `RebuildFails` keeps
the old map, a request may be dropped after its commit (`Committed`), and
`Restart` may come with another `KOHAKU_BASE_URL`. The CLI is taken to have the
server's base URL. Commits to other tables, which also move `data_version` and
cause a rebuild of the same map, are left out.

### Routes and Pipeline

`Routes` is the route table as data, and the decisions of the layers as
operators. `Pipeline` sends one request through them in the order
`routing/build.rs` nests them: dispatch by host and path, cross-site rules, rate
classes, body caps (`Arrive`), session (`Session`), CSRF field (`Csrf`), the
redirects and the handler (`Admitted`, `Handler`), and on the way out the status,
cache header and counted reason. Between any two of its steps the session may
end, the map be rebuilt or the deadline pass. A header value is one of a few
classes; `cross-site` stands for `same-site` too, since the code treats them
alike. Left out: template errors, the read errors of asset files in development
builds, and the 400 for a redirect location that cannot be encoded.

### DataDir

The database is its main file and its write-ahead log, each a schema version, a
keycheck and the number of its last commit. `serve` is `Acquire`, `Open`,
`Refuse` or `Check`, `Vacuum`, `Rename`, `Prune`, `Migrate`, `Listen`, then
`Write`, `Checkpoint` and `Stop`. `restore` is `Acquire`, `Candidate`,
`RemoveWal`, `RemoveShm`, `Replace`, `Restored`. `backup` is `Snapshot` and
`Link`. `Command` is a one-shot command beside any of them. `Fail`,
`RestoreFails` and `BackupFails` are error returns and `Kill` ends a process
between any two steps. What SQLite does at the close of the last connection is
external (`Closed`). The model has crashes of processes, not of the machine:
what was written stays written. `serve` reads the time once, when it opens the
database; a later start reads the same second or a later one. That the wall clock
does not step back is an assumption, and `UpgradeHasCopy` needs it: after a step
back the copy just taken may be the oldest. A command, and a backup's snapshot,
are one step each; interleaving them with the file steps of a restore more finely
is not modelled. `kept` is history: the contents after the last commit or
completed restore. `cut` says that a restore has removed the log since then. A
database of version 1 or later without the table `meta`, which `serve` refuses,
is left out: the first migration makes that table.

### Work

A piece of work waits, is given a permit, runs and returns it. `Abandon` is the
request being dropped at any point: what waits is cancelled, what runs goes on.
`DropOrder` is the order in which the locals of `Db::read` are dropped. A public
write's own permit goes back when its closure returns (`Worked`), the writer's
only after the commit or rollback (`Done`). The
order of a semaphore's waiters is left open, which allows more than tokio does.

### Server

A request is two halves, so that half a request can have arrived. A connection
keeps the counts of `Activity` (`read`, `answered_at`, `in_flight`) and the place
of its task in the shutdown: `serving`, `window` (ARRIVED_BYTES_WINDOW),
`waiting`, `closing`. hyper is external: `PollRead` and `Call` do what the
wrappers in `http/server.rs` see of it. That bytes which have arrived are read
within the 50 ms window is a timing assumption. The sweep's flush (`Take`, then
`Write`) may run until the jobs have ended, which `Drained` waits for. The last
flush is one pass over the reasons (`LastTake`): what is counted after it has
passed a reason would never be logged. The worker and the watcher, which `serve`
also awaits, are taken to end.
`MaxBytes` bounds what a client sends ahead of its answers, not how many
requests a connection carries.

## What the runs check

| Run | Shows |
|---|---|
| `outbox` | no lost wake-up; rows match their fate; duplicates only after a lost outcome; attempts in order; at most one unused token per account; a given-up mail's link stays dead; `Outbox` implements `MailDelivery` |
| `outbox_live` | every queued mail is eventually settled |
| `lockout` | counted failures are bounded in time with and without a device cookie; locks start, end and are announced as stated; strangers do not block devices |
| `sign_in` | sessions and device cookies match the current password and second factor; required factor on; no code accepted twice; types and caps |
| `sign_in_codes` | violation, see findings |
| `rate_limiter` | the map keeps its cap; no bucket gives more than its budget, up to the slack of stale readings |
| `host_map` | the map is one commit's; ids, and canonical redirects to a domain of their own, lead to the right project; `HostMap` implements `HostPromise`; the map catches up with the last commit |
| `requests` | who reaches a handler, which rate tokens a request pays, what a cache may keep, whose address is charged |
| `data_dir` | a listening server has its own lock, version and key; an upgrade in progress has its copy; what was committed or restored last is what is read, unless a restore was cut after it removed the log; backups are not replaced |
| `restore_failure` | violation, see findings |
| `work` | permits are conserved; hashing is bounded, abandoned hashes included; a read permit means a free reader |
| `server` | no begun request is cut by the drain; rejections are logged once; a server told to stop stops |

Every passing run ends within two minutes on two cores; the largest, `lockout`,
has two million states. Deadlock is checked in `host_map` and `work`, where some
step can always be taken. Elsewhere clients may stop, a request or a process
may end, or the bounded clock ends.

`ForgedEntriesIgnored` is a statement about the operator `Resolve`, over all
lists of forwarded entries up to the bound: well-formed entries before the
client's own address do not change which address is charged.

### Bounds

Times are scaled to ticks that keep their order. Outbox: lifetimes of 2 and 3
ticks under an age limit of 3 and delays 1 and 2, so that both kinds of
deadline, the last repeated delay and the attempt exactly at the deadline
occur; two rows and two tokens, so that order, overlap and replacement occur;
handlers' clocks up to one tick old; one fault, since the properties are per
row and each fault path is then tried at every point. `Prompt` makes the clock
wait for tasks that can run.

Lockout: two overlapping checks, a lock after 2 failures for 3 ticks, a device
window of 2 ticks with 1 failure, a mail every 4 ticks, clock readings up to
1 tick old. One lock, its end and the next, and three device windows, fit in
the horizon. Two accounts are tried: one without password or factor, one with
both.

SignIn: two overlapping requests, two passwords, two seeds, two sessions, one
device cookie kept, one batch of one recovery code. The account is a maintainer
or the enrolled admin. Two requests suffice for the races listed as hazards:
each is one request's stale data against one commit. The run has one account;
the proofs cover any number. The clock has two instants, one step apart, so every
code is within the accepted window at both; a code too old or too early, which
only `MatchingStep` refuses, is left to the proofs, which hold for any horizon.
The violation of `sign_in_codes` needs a second batch.

RateLimiter: two overlapping requests, two /64 networks of one /48, a cap of
3 buckets of the 5 keys, so that overflow buckets are used with one or both keys
missing; two sweeps, readings up to 1 tick old, capacities of 1 and 2. The slack
in `WithinBudget` is exact at these bounds: without the term for the first
reading, or without the one for each sweep, TLC finds a violation. At the code's
scale a reading is stale by the wait for one mutex, against intervals of 200 ms
(25 ms for a /48) and more.

HostMap: two slugs, two hosts of which either may be the server's own, two
admin requests, three commits and one fault. Two requests and the watcher are
three rebuilders, enough for one to overtake another; three commits, for a
project to be created, deleted and its id's successor created.

Pipeline: three hosts, two slugs, four maps (no project with a domain, and one
project on either of two domains or on the main host's name, which it had before
`KOHAKU_BASE_URL` was changed to it), three addresses of which one is a trusted proxy,
two forwarded entries. Every route, method and class of header value is tried.

DataDir: two processes at a time, four started in all, releases with one and
three migrations, two secrets; to restore, a damaged file, one without a keycheck
and one of each secret; two commits and one fault. `Kept` is 2, as in the code. Four starts are
what it takes for a third copy to be made and one to be pruned: an upgrade
killed half-way, its repetition, a restore and another upgrade. Processes and
secrets are interchangeable. The violation of
`restore_failure` needs a second fault, and two starts: a server that is killed and
the one restore, so that no other restore can have cut the log.

Work: five pieces of work on two public writes and two readers, so that every
semaphore is exhausted with one more waiting. Server: two connections, up to a
request and a half sent ahead, two rejections. The proofs below cover every
number of both.

### Fairness

All of it is weak fairness, and none of it binds clients.

- `outbox_live`: the clock advances, the runtime runs the worker and the
  scheduler when they can run, an attempt ends (each has a 60 s timeout), and a
  supervisor restarts a stopped process. Faults and crashes are finitely many.
  Nothing is assumed of the SMTP server, and no queuing action is fair.
- `host_map`: the watcher keeps ticking and a blocking thread that has the
  connection goes on (`Poll`, `WatchLoad`, `Replace`). Admin requests need not.
- `server`: the grace timer fires, aborted tasks end, `serve` goes on to its
  last flush and the flush is written. A handler may hang for ever, and the
  server still stops.

## What is proved

`OutboxProofs` proves, for every set of users, every choice of lifetimes,
delays and bounds that satisfies the assumptions named in `Outbox`:

| Theorem | Statement |
|---|---|
| `TypeCorrect` | `Spec => []TypeOK` |
| `AttemptBeforeDeadline` | `Spec => []NextBeforeDeadline` |
| `NoRowVanishes` | `Spec => []RowsMatchFate` |
| `NoLostWakeup` | `Spec => []SleepCoversEveryRow` |
| `OnlyNewestLinkWorks` | `Spec => []OneUnusedToken` |
| `NoNeedlessDuplicate` | `Spec => []DuplicateOnlyAfterLostOutcome` |
| `SentInOrder` | `Spec => AttemptsInOrder` |
| `LinksDieWithTheirMail` | `Spec => GivenUpLinkIsDead` |
| `PromiseKept` | `Spec => DeliveryPromise`, the refinement of `MailDelivery` |

The type invariant is split into rows, tokens and process (`RowsOK`,
`TokensOK`, `ProcessOK`). Most steps change rows only by removing some or by
changing their outcome, which `KeepRows` states once. `NextBeforeDeadline` needs
`QueuedInPast`: a row's queue time is not after the clock. The wake-up theorem
rests on the row lemmas: a step that adds a row or moves one earlier either sets
the permit or ends the sleep. `NoNeedlessDuplicate` is not inductive alone.
`AcceptancesAccounted` says that every accepted mail is settled as sent, in
flight, or in `lost`; with `RowsMatchFate` a mail being sent again must then be
in `lost`.

`SentInOrder` and `LinksDieWithTheirMail` are about steps, and rest on `RowsFit`:
only a reset mail is a placeholder or carries a token, and that token was issued
for the row's own account. Without it, giving a mail up could kill the tokens of
another account than the one whose link it carries. `OldTokens` says what a step
may do to tokens already issued: remove them or use them up. `PromiseKept` maps
the worker's current row to the mail being attempted. Each action is a step of
`MailDelivery` or changes nothing it speaks of; an outcome counts as sent only
when the server accepted (`AcceptedIsDelivered`), and what is settled has left
the table (`RowsMatchFate`).

`RateLimiterProofs` proves every property of `RateLimiter`, for all networks,
budgets, demands, numbers of requests and sweeps, and any `MaxLag`, from
`BudgetAssumption` (bucket names are distinct, capacities and intervals
positive) and `RateBoundsAssumption` (bounds are natural, the keys finite):

| Theorem | Statement |
|---|---|
| `LimiterTypeCorrect` | `Spec => []TypeOK` |
| `MemoryBounded` | `Spec => []BucketsBounded` |
| `DebtIsBounded` | `Spec => []DebtBounded` |
| `BudgetKept` | `Spec => []WithinBudget` |

`WithinBudget` is not inductive: it does not say how a bucket's arrival time
and its load are related. `Sound` does: the load of a held bucket is zero or at
most `tat - now` plus the slack, where `tat - now` may be negative. With zero
in place of a negative value the statement would not be inductive: a stale
reading taken from a full bucket would break it.
A bucket that is not held has at most the slack of the sweeps so far. Lemmas
show that taking, creating, sweeping and time keep this for one bucket, then
for a map of buckets, then for each action. `Inv` was checked with TLC first.

`HostMapProofs`, for any slugs, hosts, requests, commits and faults:

| Theorem | Statement |
|---|---|
| `RoutedByACommit` | `Spec => []MapIsACommit` |
| `IdsNameOneProject` | `Spec => []IdNamesOneProject` |
| `NeverGoesBack` | `Spec => MapPromise`, the refinement of `HostPromise` |
| `RedirectsReach` | `Spec => []RedirectReachesProject` |

The invariant adds to the properties that only the holder of the watcher
connection has read a table it has not yet shown, that what it read is a commit
at least as new as the one shown (`Held`), and that an id still in the table
has named the same slug in every commit of the history (`Logged`). With two
holders a slower one would show an older commit; with ids given twice the third
would not be inductive. `RedirectsReach` needs in addition that slugs and
domains are unique in the table after every commit (`AllUnique`).

`LockoutProofs` proves every property of `Lockout`, for any thresholds,
durations and lag, any number of checks in progress and any horizon:

| Theorem | Statement |
|---|---|
| `GuessesStayBounded` | `Spec => []GuessesBounded` |
| `DeviceGuessesStayBounded` | `Spec => []DeviceGuessesBounded` |
| `LocksWarned` | `Spec => []EveryLockWarned` |
| `LocksEarned` | `Spec => LockOnlyAfterFailures` |
| `DevicesLeftAlone` | `Spec => StrangersBlockNoDevice` |

The bounds relate the oldest failure on record to the newest, the row only keeps
counts. `GuessesLocked` ties them: the failures since the last lock number
`acct.failed`, and the lock outlasts each earlier one by its duration less the
lag. `GuessesWindowed` does so for the device window and the one before it.
`Warned` adds that the mail `mailedAt` speaks of was really queued.

`SignInProofs`, for any number of accounts and of requests in progress:

| Theorem | Statement |
|---|---|
| `PasswordHolds` | `Spec => []SessionsUnderCurrentPassword` |
| `SecondFactorHolds` | `Spec => []SessionsPassedSecondFactor` |
| `DevicesHold` | `Spec => []DevicesCurrent` |
| `RequiredFactorStays` | `Spec => []RequiredFactorOn` |
| `CodesOnce` | `Spec => []CodeAcceptedOnce` |
| `TypesHold` | `Spec => []TypeOK`, the device cap and unique session cookies included |

The first four need little more than types, and that a request on the page that
turns the second factor off belongs to an account that may do without
(`Request`, `AdminsEnrolled`): roles never change, so what it read stays true.
`CodeAcceptedOnce` is far from inductive. `SeedsApart` says that a seed is one
account's or one session's pending one, never both. `StepsSpent` says that an
accepted TOTP code belongs to no pending seed, and lies at or before the last
step of the account that has the seed. `RecoverySpent` says that a recovery code
is one account's and, once accepted, nobody's. `PassKeeps` shows once what the
five pages that re-authenticate share, from what `decide` spends (`Spends`).

The cap on device cookies is a statement about a cardinality. `add_device` keeps
the cookies with fewer than `DevicesKept` newer ones; `WithDeviceCaps` shows that
at most `DevicesKept` are left, since the number of newer ones tells two cookies
apart. For that no two cookies of an account may be equal (`DevicesApart`), which
holds because each is drawn fresh. `SignInAssumption` only says that the bounds
are natural numbers, some of them positive.

`RequestProofs`, for any finite set of work and any limits:

| Theorem | Statement |
|---|---|
| `PermitsNeverLost` | `Spec => []PermitsConserved` |
| `PermitMeansReader` | `Spec => []ReaderIsFree` |
| `HashingStaysBounded` | `Spec => []HashingBounded` |

The invariant ties each step of a piece of work to the permit it may hold
(`Holds`) and the pool to the readers out of it. Each action changes one piece
of work, so `CountChange` reduces a change of a cardinality to that one. A read
permit held by work that has not taken its reader makes one more holder than
there are readers out; by conservation the pool is then not empty.

`RequestProofs` also proves every property of `Pipeline`, for any hosts, host
maps, slugs, addresses and trusted proxies:

| Theorem | Statement |
|---|---|
| `OnlyEntitledHandled` | `RequestSpec => []HandlerIsEntitled` |
| `TokensAreTaken` | `RequestSpec => []TokensTaken` |
| `OnlyPublicKept` | `RequestSpec => []KeptResponsesArePublic` |
| `ForgedNeverCount` | `RequestSpec => []ForgedEntriesIgnored` |

`Declares` says what the properties need of a route: which access, rate classes
and cache class its path comes with. `TableDeclares` shows it of every route of
the table, so a route added later has to satisfy it. `Passed` says what the
layers behind a request have established; the map may be rebuilt at any point
after `Arrive`, so it speaks of `routed`, the entry the request was dispatched by,
and never of the map. `ForgedNeverCount` rests on `ResolveIsLast`: the address
`Resolve` returns is the last entry that is no trusted proxy, which a longer list
in front does not move. `HostsAssumption` says of a map that only the main host's
entry is the main one, and that a slug's domain is the host of some project. The
main host's name may belong to a project, as it does after the change of
`KOHAKU_BASE_URL` listed below.

`ServerProofs`, for any connections, reasons and bounds:

| Theorem | Statement |
|---|---|
| `BegunRequestsFinish` | `Spec => NoRequestCut` |
| `EveryRejectionLogged` | `Spec => []RejectionsLogged` |

`ConnOK` relates a connection's counts: what was answered has been read and what
was read has been sent, a request in flight has been read whole, and a task
past its window has read something of every request it owes. Without the last
conjunct the step `Graceful` could close on a request it has not noticed.
`CountsInv` says that the last flush leaves at 0 each reason it has passed, which
holds because no connection and no accept loop is left to count a rejection, and
that it begins with nothing half written by the sweep.

`DataDirProofs`, for any processes, releases, secrets, restorable files and
bounds:

| Theorem | Statement |
|---|---|
| `ServedDatabaseFits` | `Spec => []ListensOnItsDatabase` |
| `CommittedDataStays` | `Spec => []CommitsSurvive` |
| `BackupsStay` | `Spec => BackupNeverReplaced` |
| `UpgradesHaveCopies` | `KeptSuffices` implies `Spec => []UpgradeHasCopy` |

`ProcOK` says what each step of a process implies of the files and the lock: the
lock is held exactly from `Acquire` to the end, a database past `Check` fits the
release and the secret (`Fits`), a restore past `RemoveWal` has no log beside the
main file. Two lemmas carry the proof: while p holds the lock no other process
claims anything of the files, so p may change them (`HolderStep`); a process
without it keeps what a connection reads (`GuestStep`). `SourcesAssumption` says
that a file to restore is a database or is recognised as damaged.

`UpgradesHaveCopies` has a hypothesis. Copies are ordered by second and then by
version, so one of the same second and a higher version counts as newer and may
push out the one just taken: a start, a restore and another start within one
second do that. `KeptSuffices` says that `Kept` is at least the number of
versions older than any release. The code has two (`PRE_MIGRATE_KEPT`,
`migrate.rs:44`) and three migrations, so it holds; it will not once there is a
fourth, unless the constant grows with it. `CopiesOK` says that no copy is from
the future and that second and version tell copies apart, so that the newest copy
has fewer than `Kept` before it (`NewestIsKept`). The constants of the `data_dir`
run satisfy it.

`CommitsSurvive` says `Live = kept` unless `cut`. It is not inductive alone: a
restore that replaces the main file under a log would hide what it restored, so
`ProcOK` must give that no log is there from `RemoveWal` to `Replace`, which holds
because every server that could write one is kept out by the lock. `Survives`
states for a step that it keeps what is read, sets `kept` to it, or cuts.

The assumptions of every module are evaluated by TLC in the runs that extend it.

Only model-checked: the liveness properties `EveryMailSettled`,
`EveryCommitShown` and `ShutdownEnds`. They need fairness and `ENABLED`, which are
out of the prover's reach. The two properties of the violation runs do not hold
and have no theorem.

## Findings

1. `admin/account.rs:418`: `regenerate_codes` trusts an enrollment read before
   its transaction and may store recovery codes for an account that has just
   turned two-factor login off (`sign_in_codes`).
2. `db/backup.rs:187`: `restore` removes the write-ahead log before it replaces
   the main file. When a later step fails, the database that stays has lost the
   commits that were only in the log, although the comment at `backup.rs:144`
   and the data-storage specification say that a failed restore changes nothing
   (`restore_failure`).

Smaller disagreements between code and text, met while modelling. The models
follow the code, and no property claims otherwise:

- `auth/mail.rs:41`: a given-up reset mail kills every unused token of the
  account, not only the one it carries, as the comment at line 39 reads. A link
  made later by `kohaku admin reset-password` dies with it.
- `auth/credentials.rs:26` promises one lockout mail a day. After an unlock, a
  second lock within the same second queues another (line 323).
- `admin/account.rs:273`, and logout: a request that outlives its session may
  write to a later session with the same row id; the comment at line 259 assumes
  it cannot.
- request-limits specification, lines 101-104: the `read` class does not cover
  a GET on the admin routes that take only POST.
- A chunked body over the cap on a route with a session is answered 403 by
  `check_csrf`, not 413.
- `routing/hosts.rs:72` and `:105`: after a change of `KOHAKU_BASE_URL` a
  project whose custom domain is the new host replaces the main host's entry;
  the host-routing specification (line 33) gives that host to the main router.
  One entry cannot serve both, and `RedirectReachesProject` leaves the case out.
- `backup_to_file` leaves the new backup in place when the removal of the
  temporary file or the sync of the directory fails, and reports an error
  (the second disjunct of `Link`).
- `serve.rs:172`: the lock is dropped before abandoned blocking work has ended;
  the data-storage specification (line 117) holds it until the process exits.
- `http/server.rs`: bytes of the next request that are read while a request is
  in flight look idle once that one is answered, so a drain may close on them.
  `NoRequestCut` excludes exactly this case.

## Not modelled

Cryptography, formatting, page layout, header syntax, argument and environment
parsing and logging have no state that a property here speaks of. The audit log
is written in the transactions modelled and never read by them. Session ages are
abstracted as said above. `backup -` and `restore --list` only read. The removal
of stale temporary files deletes what no other step reads. The dev mailbox is a
file sink. Power loss, as opposed to the end of a process, would need a model of
what the file system keeps.
