------------------------------- MODULE Outbox -------------------------------
(***************************************************************************)
(* The persistent mail outbox: the transactions that queue mail, the one   *)
(* delivery worker, the hourly retention run, and the reset tokens the     *)
(* mails carry.  Every action that touches `rows' or `tokens' is one write *)
(* transaction of the code; the worker's place in its loop, the wake-up    *)
(* permit and the retention schedule are lost in a crash.                  *)
(***************************************************************************)
EXTENDS Integers, Sequences, FiniteSets

CONSTANTS
  Users,             \* enabled maintainer accounts with a password
  NoUser,            \* the user_id of a placeholder row
  MaxAge,            \* MAX_AGE
  ResetLifetime,     \* RESET_LIFETIME
  SecurityLifetime,  \* SECURITY_LIFETIME
  RetryDelays,       \* RETRY_DELAYS
  ErrorPause,        \* WORKER_ERROR_PAUSE
  RetentionEvery,    \* RETENTION_EVERY
  MaxLag,            \* bound: how stale a captured time may be when it is used
  Prompt,            \* bound: if TRUE, time waits for a task that can run
  Horizon,           \* bound: last instant of the clock
  MaxRows,           \* bound: rows ever queued
  MaxTokens,         \* bound: tokens ever issued
  MaxFaults          \* bound: failed transactions, crashes and stops

ASSUME UsersAssumption == NoUser \notin Users

ASSUME TimesAssumption ==
  /\ MaxAge \in Nat \ {0} /\ ResetLifetime \in Nat \ {0}
  /\ SecurityLifetime \in Nat \ {0} /\ ErrorPause \in Nat /\ RetentionEvery \in Nat \ {0}
  /\ RetryDelays \in Seq(Nat \ {0}) /\ RetryDelays # <<>>

ASSUME BoundsAssumption ==
  /\ {MaxLag, Horizon, MaxRows, MaxTokens, MaxFaults} \subseteq Nat
  /\ Prompt \in BOOLEAN

VARIABLES
  now,            \* wall clock
  rows,           \* table outbox: id -> row
  nextId,         \* AUTOINCREMENT of outbox: ids are never reused
  tokens,         \* table tokens (purpose reset): id -> token
  nextToken,      \* AUTOINCREMENT of tokens
  worker,         \* the worker's place in Worker::run and Worker::attempt
  current,        \* the row being attempted
  alarm,          \* when the worker's sleep ends; empty: never
  wake,           \* the Notify permit of Wakeup
  job,            \* the scheduler's place in jobs::run and retention
  nextRetention,  \* Schedule::next_retention
  faults,         \* transactions that failed and crashes so far
  fate,           \* history: what became of each row
  delivered,      \* history: rows the SMTP server accepted
  duplicated,     \* history: rows it accepted more than once
  accepted,       \* history: the attempt in flight was accepted
  lost            \* history: rows with an acceptance the outbox never recorded

db        == <<rows, nextId, tokens, nextToken>>
loop      == <<worker, current, alarm>>
schedule  == <<job, nextRetention>>
smtp      == <<delivered, duplicated, accepted, lost>>
vars      == <<now, db, loop, wake, schedule, faults, fate, smtp>>

-----------------------------------------------------------------------------
(* Mail kinds and rows *)

Ids == 1..MaxRows
TokenIds == 1..MaxTokens
NoToken == 0

(* The kinds by what the outbox tells apart: RESET_LINK, and LOCKOUT and   *)
(* PASSWORD_CHANGED, which declare the same of everything.                 *)
Kinds == {"reset_link", "warning"}

Security(kind) == kind = "warning"
TokenBearing(kind) == kind = "reset_link"
Lifetime(kind) == IF kind = "reset_link" THEN ResetLifetime ELSE SecurityLifetime

Row == [kind : Kinds, user : Users \cup {NoUser}, placeholder : BOOLEAN,
        carries : TokenIds \cup {NoToken}, next : Nat, queued : Nat, expires : Nat,
        attempts : Nat, outcome : {"none", "sent", "given_up"}]

Token == [user : Users, expires : Nat, used : BOOLEAN]

(* The row `enqueue' inserts at time t, due at once; `carries' is the      *)
(* token of the link in its body.                                          *)
NewRow(kind, user, carries, t) ==
  [kind |-> kind, user |-> user, placeholder |-> user = NoUser, carries |-> carries,
   next |-> t, queued |-> t, expires |-> t + Lifetime(kind), attempts |-> 0,
   outcome |-> "none"]

Deadline(r) ==
  IF r.queued + MaxAge <= r.expires THEN r.queued + MaxAge ELSE r.expires

(* The delay after the n-th failure: the last one repeats. *)
Delay(n) == RetryDelays[IF n <= Len(RetryDelays) THEN n ELSE Len(RetryDelays)]

(* The next attempt after the n-th failure, ended at t; none at or after   *)
(* the deadline.                                                           *)
NextAttempt(n, t, deadline) == {m \in {t + Delay(n)} : m < deadline}

Unsent(rws) == {i \in DOMAIN rws : rws[i].outcome = "none"}

BugDue(rws) == {i \in DOMAIN rws : rws[i].next <= now}
Due(rws) == {i \in Unsent(rws) : rws[i].next <= now}

Without(f, S) == [i \in DOMAIN f \ S |-> f[i]]

-----------------------------------------------------------------------------
(* Initial state: an empty database, the process just started *)

Init ==
  /\ now = 0
  /\ rows = <<>> /\ nextId = 1
  /\ tokens = <<>> /\ nextToken = 1
  /\ worker = "picking" /\ current = 0 /\ alarm = {} /\ wake = FALSE
  /\ job = "idle" /\ nextRetention = 0
  /\ faults = 0
  /\ fate = [i \in Ids |-> "none"]
  /\ delivered = {} /\ duplicated = {} /\ accepted = FALSE /\ lost = {}

Serving == worker # "down"

Fault == faults < MaxFaults /\ faults' = faults + 1

(* The times a handler that reads the clock before it waits for the writer *)
(* may be using.                                                           *)
Recent == {t \in 0..now : now - t <= MaxLag}

(* The worker or the scheduler has something to do other than waiting for  *)
(* the SMTP server.                                                        *)
Runnable ==
  \/ worker = "picking"
  \/ worker \in {"waiting", "paused"} /\ (wake \/ \E a \in alarm : a <= now)
  \/ job = "sign_in"
  \/ job = "idle" /\ now >= nextRetention

Tick ==
  /\ now < Horizon
  /\ Prompt => ~Runnable
  /\ now' = now + 1
  /\ UNCHANGED <<db, loop, wake, schedule, faults, fate, smtp>>

-----------------------------------------------------------------------------
(* Queuing mail *)

Insert(row) ==
  /\ nextId <= MaxRows
  /\ row.expires <= Horizon
  /\ rows' = [i \in DOMAIN rows \cup {nextId} |-> IF i = nextId THEN row ELSE rows[i]]
  /\ nextId' = nextId + 1
  /\ fate' = [fate EXCEPT ![nextId] = "queued"]

(* Inserts a row in the caller's transaction and leaves a wake-up permit. *)
BugEnqueue(row) == Insert(row) /\ UNCHANGED wake
Enqueue(row) == Insert(row) /\ wake' = TRUE

Invalidated(tks, us) ==
  [k \in DOMAIN tks |-> IF tks[k].user \in us THEN [tks[k] EXCEPT !.used = TRUE] ELSE tks[k]]

BugIssueResetToken(u, t) ==
  /\ nextToken <= MaxTokens
  /\ tokens' = [k \in DOMAIN tokens \cup {nextToken} |->
                  IF k = nextToken
                    THEN [user |-> u, expires |-> t + ResetLifetime, used |-> FALSE]
                    ELSE tokens[k]]
  /\ nextToken' = nextToken + 1

(* A new token of u, after invalidating its others. *)
IssueResetToken(u, t) ==
  /\ nextToken <= MaxTokens
  /\ tokens' = [k \in DOMAIN tokens \cup {nextToken} |->
                  IF k = nextToken
                    THEN [user |-> u, expires |-> t + ResetLifetime, used |-> FALSE]
                    ELSE Invalidated(tokens, {u})[k]]
  /\ nextToken' = nextToken + 1

(* POST /admin/reset for an account. *)
RequestReset(u) ==
  /\ Serving
  /\ \E t \in Recent :
       /\ IssueResetToken(u, t)
       /\ Enqueue(NewRow("reset_link", u, nextToken, t))
  /\ UNCHANGED <<now, loop, schedule, faults, smtp>>

(* POST /admin/reset for an address without one: the same work, but the    *)
(* row is a placeholder.                                                   *)
RequestUnknown ==
  /\ Serving
  /\ \E t \in Recent : Enqueue(NewRow("reset_link", NoUser, NoToken, t))
  /\ UNCHANGED <<now, tokens, nextToken, loop, schedule, faults, smtp>>

(* kohaku admin reset-password: another process, a link but no mail. *)
CliResetPassword(u) ==
  /\ \E t \in Recent : IssueResetToken(u, t)
  /\ UNCHANGED <<now, rows, nextId, loop, wake, schedule, faults, fate, smtp>>

(* The failure that locks the account queues its warning. *)
Lockout(u) ==
  /\ Serving
  /\ \E t \in Recent : Enqueue(NewRow("warning", u, NoToken, t))
  /\ UNCHANGED <<now, tokens, nextToken, loop, schedule, faults, smtp>>

(* A new password, by the account page: every reset token of the account   *)
(* is used up and the account warned.                                      *)
ChangePassword(u) ==
  /\ Serving
  /\ \E t \in Recent : Enqueue(NewRow("warning", u, NoToken, t))
  /\ tokens' = Invalidated(tokens, {u})
  /\ UNCHANGED <<now, nextToken, loop, schedule, faults, smtp>>

(* POST /admin/reset/{token}: the same, if the token is still good. *)
LinkSubmit(k) ==
  /\ Serving
  /\ k \in DOMAIN tokens /\ ~tokens[k].used
  /\ \E t \in Recent :
       /\ tokens[k].expires > t
       /\ Enqueue(NewRow("warning", tokens[k].user, NoToken, t))
  /\ tokens' = Invalidated(tokens, {tokens[k].user})
  /\ UNCHANGED <<now, nextToken, loop, schedule, faults, smtp>>

(* A transaction that queued a mail is rolled back: the wake-up stays. *)
RolledBack ==
  /\ Serving
  /\ Fault
  /\ wake' = TRUE
  /\ UNCHANGED <<now, db, loop, schedule, fate, smtp>>

-----------------------------------------------------------------------------
(* Giving up *)

Expired(t) == {i \in Unsent(rows) : Deadline(rows[i]) <= t}

(* What give_up leaves of the rows S: token-bearing ones are deleted, the  *)
(* others marked...                                                        *)
BugGiveUp(rws, S) ==
  [i \in DOMAIN rws |-> IF i \in S THEN [rws[i] EXCEPT !.outcome = "given_up"] ELSE rws[i]]

GiveUp(rws, S) ==
  LET kept == Without(rws, {i \in S : TokenBearing(rws[i].kind)})
  IN  [i \in DOMAIN kept |-> IF i \in S THEN [kept[i] EXCEPT !.outcome = "given_up"]
                                        ELSE kept[i]]

(* ...and of the tokens: expire_reset_token uses up every token of the     *)
(* row's account.                                                          *)
BugExpireResetTokens(S) == tokens

ExpireResetTokens(S) ==
  Invalidated(tokens, {rows[i].user : i \in {j \in S : rows[j].kind = "reset_link"}})

Settled(S, what) == [i \in Ids |-> IF i \in S THEN what ELSE fate[i]]

-----------------------------------------------------------------------------
(* The worker *)

BugBefore(r, i, s, j) == r.next < s.next \/ (r.next = s.next /\ i < j)

(* The order the worker attempts due rows in. *)
Before(r, i, s, j) ==
  \/ Security(r.kind) /\ ~Security(s.kind)
  \/ /\ Security(r.kind) = Security(s.kind)
     /\ \/ r.next < s.next
        \/ r.next = s.next /\ r.queued < s.queued
        \/ r.next = s.next /\ r.queued = s.queued /\ i < j

(* pick: gives up expired rows, drops due placeholders, then takes the     *)
(* first due row, or sleeps until the earliest next attempt.               *)
Pick ==
  /\ worker = "picking"
  /\ LET gone  == Expired(now)
         kept  == GiveUp(rows, gone)
         blank == {i \in Due(kept) : kept[i].placeholder}
         left  == Without(kept, blank)
     IN  /\ rows' = left
         /\ tokens' = ExpireResetTokens(gone)
         /\ fate' = [i \in Ids |-> IF i \in blank THEN "discarded"
                                   ELSE Settled(gone, "given_up")[i]]
         /\ \/ \E i \in Due(left) :
                 /\ \A j \in Due(left) \ {i} : Before(left[i], i, left[j], j)
                 /\ worker' = "sending" /\ current' = i /\ alarm' = {}
            \/ /\ Due(left) = {}
               /\ worker' = "waiting" /\ current' = 0
               /\ \/ Unsent(left) = {} /\ alarm' = {}
                  \/ \E i \in Unsent(left) :
                       /\ \A j \in Unsent(left) : left[i].next <= left[j].next
                       /\ alarm' = {left[i].next}
  /\ UNCHANGED <<now, nextId, nextToken, wake, schedule, faults, smtp>>

PickFails ==
  /\ worker = "picking"
  /\ now + ErrorPause <= Horizon
  /\ Fault
  /\ worker' = "paused" /\ current' = 0 /\ alarm' = {now + ErrorPause}
  /\ UNCHANGED <<now, db, wake, schedule, fate, smtp>>

BugWakeUp ==
  /\ worker \in {"waiting", "paused"}
  /\ wake /\ wake' = FALSE
  /\ worker' = "picking" /\ current' = 0 /\ alarm' = {}
  /\ UNCHANGED <<now, db, schedule, faults, fate, smtp>>

(* The sleep ends: a permit, which it consumes, or the alarm. *)
WakeUp ==
  /\ worker \in {"waiting", "paused"}
  /\ \/ wake /\ wake' = FALSE
     \/ (\E a \in alarm : a <= now) /\ UNCHANGED wake
  /\ worker' = "picking" /\ current' = 0 /\ alarm' = {}
  /\ UNCHANGED <<now, db, schedule, faults, fate, smtp>>

(* The SMTP server takes the message data of the attempt in flight. *)
SmtpAccepts ==
  /\ worker = "sending" /\ ~accepted
  /\ accepted' = TRUE
  /\ delivered' = delivered \cup {current}
  /\ duplicated' = duplicated \cup (delivered \cap {current})
  /\ UNCHANGED <<now, db, loop, wake, schedule, faults, fate, lost>>

(* The history of an attempt that leaves without its acceptance recorded. *)
Unacknowledged == lost' = IF accepted THEN lost \cup {current} ELSE lost

AttemptOver ==
  /\ worker' = "picking" /\ current' = 0 /\ UNCHANGED alarm
  /\ accepted' = FALSE /\ UNCHANGED <<delivered, duplicated>>

Tried(rws, i) == [rws EXCEPT ![i].attempts = @ + 1]

BugMarkSent(rws, i) == Tried(rws, i)

(* What a recorded acceptance leaves of row i. *)
MarkSent(rws, i) ==
  IF TokenBearing(rws[i].kind)
    THEN Without(rws, {i})
    ELSE [Tried(rws, i) EXCEPT ![i].outcome = "sent"]

(* The attempt returned Ok, which it does only once the server accepted,   *)
(* and `record' writes that.                                               *)
RecordSent ==
  /\ worker = "sending" /\ accepted
  /\ IF current \in Unsent(rows)
       THEN /\ rows' = MarkSent(rows, current)
            /\ fate' = Settled({current}, "sent")
            /\ UNCHANGED lost
       ELSE UNCHANGED <<rows, fate>> /\ Unacknowledged
  /\ AttemptOver
  /\ UNCHANGED <<now, nextId, tokens, nextToken, wake, schedule, faults>>

(* The attempt failed, panicked or timed out, whether the server accepted  *)
(* or not: it is scheduled again, or given up when the next one would      *)
(* start at or after the deadline.                                         *)
RecordFailed ==
  /\ worker = "sending"
  /\ IF current \in Unsent(rows)
       THEN LET tried == Tried(rows, current)
                r     == tried[current]
                again == NextAttempt(r.attempts, now, Deadline(r))
            IN  \/ \E m \in again : /\ rows' = [tried EXCEPT ![current].next = m]
                                    /\ UNCHANGED <<tokens, fate>>
                \/ /\ again = {}
                   /\ rows' = GiveUp(tried, {current})
                   /\ tokens' = ExpireResetTokens({current})
                   /\ fate' = Settled({current}, "given_up")
       ELSE UNCHANGED <<rows, tokens, fate>>
  /\ Unacknowledged
  /\ AttemptOver
  /\ UNCHANGED <<now, nextId, nextToken, wake, schedule, faults>>

(* The outcome cannot be written: it is only logged. *)
RecordFails ==
  /\ worker = "sending"
  /\ Fault
  /\ Unacknowledged
  /\ AttemptOver
  /\ UNCHANGED <<now, db, wake, schedule, fate>>

-----------------------------------------------------------------------------
(* Retention *)

(* The hourly run, rescheduled from its due time.  Its first transaction   *)
(* gives up expired rows and deletes every row with an outcome...          *)
NextRun ==
  nextRetention' =
    nextRetention + RetentionEvery * ((now - nextRetention) \div RetentionEvery + 1)

RetentionOutbox ==
  /\ job = "idle" /\ now >= nextRetention
  /\ NextRun
  /\ \E t \in Recent :
       LET gone == Expired(t)
           kept == GiveUp(rows, gone)
       IN  /\ rows' = Without(kept, DOMAIN kept \ Unsent(kept))
           /\ tokens' = ExpireResetTokens(gone)
           /\ fate' = Settled(gone, "given_up")
  /\ job' = "sign_in"
  /\ UNCHANGED <<now, nextId, nextToken, loop, wake, faults, smtp>>

(* ...and a later one deletes used and expired reset tokens. *)
RetentionSignIn ==
  /\ job = "sign_in"
  /\ \E t \in Recent :
       tokens' = Without(tokens, {k \in DOMAIN tokens :
                                    tokens[k].used \/ tokens[k].expires <= t})
  /\ job' = "idle"
  /\ UNCHANGED <<now, rows, nextId, nextToken, loop, wake, nextRetention,
                 faults, fate, smtp>>

(* A failed step is logged and the run goes on to the next one. *)
RetentionStepFails ==
  /\ Fault
  /\ \/ job = "idle" /\ now >= nextRetention /\ NextRun /\ job' = "sign_in"
     \/ job = "sign_in" /\ job' = "idle" /\ UNCHANGED nextRetention
  /\ UNCHANGED <<now, db, loop, wake, fate, smtp>>

-----------------------------------------------------------------------------
(* The process *)

(* A crash, or a stop, which abandons the attempt in flight unrecorded. *)
Crash ==
  /\ Serving
  /\ Fault
  /\ worker' = "down" /\ current' = 0 /\ alarm' = {} /\ wake' = FALSE
  /\ job' = "down" /\ nextRetention' = 0
  /\ Unacknowledged /\ accepted' = FALSE
  /\ UNCHANGED <<now, db, fate, delivered, duplicated>>

Start ==
  /\ ~Serving
  /\ worker' = "picking" /\ job' = "idle" /\ nextRetention' = now
  /\ UNCHANGED <<now, db, current, alarm, wake, faults, fate, smtp>>

-----------------------------------------------------------------------------
Queuing ==
  \/ \E u \in Users :
       RequestReset(u) \/ CliResetPassword(u) \/ Lockout(u) \/ ChangePassword(u)
  \/ RequestUnknown
  \/ \E k \in TokenIds : LinkSubmit(k)
  \/ RolledBack

Working ==
  Pick \/ PickFails \/ WakeUp \/ SmtpAccepts
    \/ RecordSent \/ RecordFailed \/ RecordFails

Retaining ==
  RetentionOutbox \/ RetentionSignIn \/ RetentionStepFails

Next == Tick \/ Queuing \/ Working \/ Retaining \/ Crash \/ Start

Spec == Init /\ [][Next]_vars

(***************************************************************************)
(* Fairness: the clock moves, the runtime runs the worker and scheduler    *)
(* tasks, an attempt ends at the latest by its 60 s timeout, and a         *)
(* supervisor restarts the process.  Nothing is assumed of clients or of   *)
(* the SMTP server.                                                        *)
(***************************************************************************)
Fairness ==
  /\ WF_vars(Tick)
  /\ WF_vars(Pick) /\ WF_vars(WakeUp)
  /\ WF_vars(RecordSent \/ RecordFailed)
  /\ WF_vars(RetentionOutbox) /\ WF_vars(RetentionSignIn)
  /\ WF_vars(Start)

FairSpec == Spec /\ Fairness

-----------------------------------------------------------------------------
(* Properties *)

WorkerStates == {"down", "picking", "sending", "waiting", "paused"}

(* Type invariant: rows and tokens are well formed and have ids below      *)
(* their AUTOINCREMENT counters; the worker names a row exactly while it   *)
(* attempts one.                                                           *)
TypeOK ==
  /\ now \in 0..Horizon
  /\ nextId \in 1..(MaxRows + 1) /\ nextToken \in 1..(MaxTokens + 1)
  /\ DOMAIN rows \subseteq 1..(nextId - 1) /\ rows \in [DOMAIN rows -> Row]
  /\ DOMAIN tokens \subseteq 1..(nextToken - 1) /\ tokens \in [DOMAIN tokens -> Token]
  /\ worker \in WorkerStates
  /\ current \in Ids \cup {0} /\ (current # 0 <=> worker = "sending")
  /\ alarm \in SUBSET Nat /\ wake \in BOOLEAN
  /\ job \in {"down", "idle", "sign_in"} /\ nextRetention \in Nat
  /\ faults \in 0..MaxFaults
  /\ fate \in [Ids -> {"none", "queued", "sent", "given_up", "discarded"}]
  /\ delivered \subseteq Ids /\ duplicated \subseteq Ids /\ lost \subseteq Ids
  /\ accepted \in BOOLEAN /\ (accepted => worker = "sending")

(* No lost wake-up: while the worker sleeps with no permit pending, every  *)
(* unsent row's next attempt is covered by the alarm, whatever was queued, *)
(* recorded or deleted since it looked (Worker::run, enqueue, Wakeup).     *)
SleepCoversEveryRow ==
  worker = "waiting" /\ ~wake =>
    \A i \in Unsent(rows) : \E a \in alarm : a <= rows[i].next

(* An unsent row always has an attempt scheduled before its deadline, so   *)
(* none waits for a turn it can never have (next_attempt, deadline).       *)
NextBeforeDeadline ==
  \A i \in Unsent(rows) : rows[i].queued <= rows[i].next /\ rows[i].next < Deadline(rows[i])

(* A row is in the table unsent exactly as long as its fate is open, and a *)
(* settled token-bearing row is gone: no unsent row vanishes without being *)
(* given up or discarded, and no copy of a settled token stays (give_up,   *)
(* record, pick, retention).                                               *)
RowsMatchFate ==
  /\ \A i \in Ids : fate[i] = "queued" <=> i \in Unsent(rows)
  /\ \A i \in DOMAIN rows : TokenBearing(rows[i].kind) => fate[i] = "queued"

(* The server accepts a mail a second time only after an acceptance the    *)
(* outbox could not record: a timeout that raced the reply, a failed write *)
(* or a stop between the two (Worker::attempt, record).                    *)
DuplicateOnlyAfterLostOutcome == duplicated \subseteq lost

(* An account has at most one unused reset token, whichever of the form,   *)
(* the CLI and a password change touched it last (issue_reset_token).      *)
OneUnusedToken ==
  \A k, l \in DOMAIN tokens :
    ~tokens[k].used /\ ~tokens[l].used /\ tokens[k].user = tokens[l].user => k = l

GivenUpNow == {i \in Ids : fate[i] = "queued" /\ fate'[i] = "given_up"}

DeadToken(k) == k < nextToken /\ (k \in DOMAIN tokens => tokens[k].used)

(* The transaction that gives a reset mail up leaves its link dead, and a  *)
(* dead link never works again (give_up, expire_reset_token).              *)
GivenUpLinkIsDead ==
  [][\A k \in TokenIds :
       DeadToken(k) \/ (\E i \in GivenUpNow : rows[i].carries = k) => DeadToken(k)']_vars

(* The worker starts an attempt only on an unsent, due row that is not a   *)
(* placeholder, before its deadline, and on a normal row only when no      *)
(* security row could be sent instead (pick).                              *)
AttemptsInOrder ==
  [][worker = "picking" /\ worker' = "sending" =>
       LET r == rows[current']
       IN  /\ current' \in Due(rows) /\ ~r.placeholder /\ now < Deadline(r)
           /\ \A j \in Due(rows) :
                Security(rows[j].kind) /\ now < Deadline(rows[j]) => Security(r.kind)]_vars

(* Every queued mail is eventually sent, given up or discarded, whatever   *)
(* fails, as long as failures and crashes stop (Worker::run).              *)
EveryMailSettled ==
  \A i \in Ids : fate[i] = "queued" ~> fate[i] # "queued"

(* The outbox implements the delivery promise. *)
Promise == INSTANCE MailDelivery
             WITH sending <- IF worker = "sending" THEN {current} ELSE {}

DeliveryPromise == Promise!Spec

=============================================================================
