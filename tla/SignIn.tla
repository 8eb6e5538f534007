------------------------------- MODULE SignIn -------------------------------
(***************************************************************************)
(* Signing in and the account pages: sessions, device cookies, two-factor  *)
(* enrollment and recovery codes, under concurrent requests.  A request    *)
(* reads its session, then, if it must re-authenticate, the account, and   *)
(* acts in a write transaction of its own; it still holds what it read.    *)
(* The failure counts and the lock are Lockout's, reset tokens Outbox's:   *)
(* here a check may fail at any time.                                      *)
(***************************************************************************)
EXTENDS Account, FiniteSets

CONSTANTS
  Users,        \* accounts
  Slots,        \* requests in progress at once
  DevicesKept,  \* DEVICES_KEPT
  CodeCount,    \* COUNT of recovery codes
  Horizon,      \* bound: last instant of the clock
  MaxHash,      \* bound: passwords of an account
  MaxNonce,     \* bound: nonces ever drawn
  MaxCookie,    \* bound: cookies ever issued
  MaxBatch      \* bound: batches of recovery codes ever drawn

ASSUME SignInAssumption ==
  /\ {DevicesKept, CodeCount, MaxHash, MaxNonce} \subseteq Nat \ {0}
  /\ {Horizon, MaxCookie, MaxBatch} \subseteq Nat

VARIABLES
  now,       \* wall clock
  users,     \* table users
  codes,     \* table recovery_codes, by account
  sessions,  \* table sessions: id -> session
  devices,   \* table known_devices, by account
  reqs,      \* what each request holds
  nonces,    \* nonces drawn so far
  cookies,   \* cookies issued so far
  batches,   \* batches of recovery codes drawn so far
  accepted,  \* history: second factors accepted
  replayed   \* history: second factors accepted more than once

tables == <<users, codes, sessions, devices>>
drawn  == <<nonces, cookies, batches>>
vars   == <<now, tables, reqs, drawn, accepted, replayed>>

Idle == [phase |-> "idle"]
NoSession == 0
None == [nonce |-> 0]

(* The accounts, made outside src/: at most one admin, already enrolled,   *)
(* for without a second factor it can do nothing here.                     *)
NewUsers ==
  {us \in [Users -> {NewAccount("maintainer", 1, 0), NewAccount("admin", 1, 1)}] :
     \A u, v \in Users : us[u].role = "admin" /\ us[v].role = "admin" => u = v}

(* A batch of new recovery codes. *)
Batch(n) == ((n - 1) * CodeCount + 1)..(n * CodeCount)

Init ==
  /\ now = 0
  /\ users \in NewUsers
  /\ codes = [u \in Users |-> {}]
  /\ sessions = <<>> /\ devices = [u \in Users |-> {}]
  /\ reqs = [r \in Slots |-> Idle]
  /\ nonces = 1 /\ cookies = 0 /\ batches = 0
  /\ accepted = {} /\ replayed = {}

Tick == now < Horizon /\ now' = now + 1 /\ UNCHANGED <<tables, reqs, drawn, accepted, replayed>>

Done(r) == reqs' = [reqs EXCEPT ![r] = Idle]

-----------------------------------------------------------------------------
(* Rows *)

Without(f, S) == [i \in DOMAIN f \ S |-> f[i]]

SessionsOf(u) == {i \in DOMAIN sessions : sessions[i].user = u}

(* SQLite's rowid: one more than the largest in the table, so the id of an *)
(* ended session may be given again.                                       *)
NextRowid(f) ==
  CHOOSE n \in 1..(Cardinality(DOMAIN f) + MaxCookie + 1) :
    /\ \A i \in DOMAIN f : i < n
    /\ n = 1 \/ n - 1 \in DOMAIN f

(* A new session; the password and the second factor it passed are history.*)
Created(u, typed) ==
  LET id == NextRowid(sessions)
      s  == [user |-> u, cookie |-> cookies + 1, pending |-> None,
             hash |-> typed, nonce |-> users[u].nonce]
  IN  [i \in DOMAIN sessions \cup {id} |-> IF i = id THEN s ELSE sessions[i]]

BugWithDevice(ds, d) == ds \cup {d}

(* A new device cookie, evicting the oldest beyond DevicesKept. *)
WithDevice(ds, d) ==
  LET all == ds \cup {d}
      newer(e) == {f \in all : f.t > e.t \/ (f.t = e.t /\ f.cookie > e.cookie)}
  IN  {e \in all : Cardinality(newer(e)) < DevicesKept}

(* A password set or reset ends every session and forgets every device. *)
BugEndAll(u) ==
  /\ sessions' = Without(sessions, SessionsOf(u))
  /\ UNCHANGED devices

EndAll(u) ==
  /\ sessions' = Without(sessions, SessionsOf(u))
  /\ devices' = [devices EXCEPT ![u] = {}]

(* New recovery codes replace the account's others. *)
ReplaceCodes(u) ==
  /\ batches < MaxBatch /\ batches' = batches + 1
  /\ codes' = [codes EXCEPT ![u] = Batch(batches + 1)]

Accept(c) ==
  /\ accepted' = accepted \cup {c}
  /\ replayed' = replayed \cup (accepted \cap {c})

-----------------------------------------------------------------------------
(* Requests *)

Reauthenticated == {"password", "start", "disable", "codes"}
Direct == {"confirm", "end_others", "logout"}

(* The session layer: the request carries the cookie of session i and      *)
(* keeps what `current' read of it.  Two pages refuse at once by that.     *)
Enter(r, i) ==
  /\ reqs[r] = Idle
  /\ i \in DOMAIN sessions
  /\ LET u == sessions[i].user
         enrolled == users[u].nonce # 0
     IN  \E p \in Reauthenticated \cup Direct :
           /\ p = "disable" => ~RequiresTwoFactor(users[u].role)
           /\ p = "codes" => enrolled
           /\ reqs' = [reqs EXCEPT ![r] = [phase |-> "entered", page |-> p, user |-> u, id |-> i, t |-> now]]
  /\ UNCHANGED <<now, tables, drawn, accepted, replayed>>

Steps == 0..StepAt(Horizon)

(* What a client types as second factor: nothing while the account has     *)
(* none, else a code of its app or a recovery code, used before or not.    *)
Typeable(u) ==
  IF users[u].nonce = 0
    THEN {NoCode}
    ELSE {TotpCode(users[u].nonce, s) : s \in Steps} \cup
         {RecoveryCode(c) : c \in UNION {Batch(n) : n \in 1..batches}}

Checking(p, u, i, device, code) ==
  [phase |-> "checking", page |-> p, user |-> u, id |-> i, device |-> device,
   code |-> code, t |-> now, hash |-> users[u].hash]

(* credentials::check reads the clock and the account and hashes; only a   *)
(* request with the password of that moment can pass.                      *)
Login(r, u) ==
  /\ reqs[r] = Idle
  /\ \E code \in Typeable(u), d \in {d.cookie : d \in devices[u]} \cup {0} :
       reqs' = [reqs EXCEPT ![r] = Checking("login", u, NoSession, d, code)]
  /\ UNCHANGED <<now, tables, drawn, accepted, replayed>>

Reauth(r) ==
  /\ reqs[r].phase = "entered" /\ reqs[r].page \in Reauthenticated
  /\ \E code \in Typeable(reqs[r].user) :
       reqs' = [reqs EXCEPT ![r] = Checking(reqs[r].page, reqs[r].user, reqs[r].id, 0, code)]
  /\ UNCHANGED <<now, tables, drawn, accepted, replayed>>

(* Any refusal, failure or lost client before the request's transaction    *)
(* changed anything here.                                                  *)
Fails(r) ==
  /\ reqs[r] # Idle
  /\ Done(r)
  /\ UNCHANGED <<now, tables, drawn, accepted, replayed>>

-----------------------------------------------------------------------------
(* The decision, on the account as it is now: every factor passed... *)
Passed(r, page) ==
  /\ reqs[r].phase = "checking" /\ reqs[r].page = page
  /\ LET v == reqs[r]
         a == users[v.user]
     IN  /\ PasswordOk(a, v.hash)
         /\ IF a.nonce = 0 THEN ~RequiresTwoFactor(a.role)
                           ELSE CodeAccepted(a, codes[v.user], v.code, v.t)

(* ...and what that leaves of the row and the codes of u. *)
RowPassed(u, code) ==
  IF users[u].nonce = 0 THEN users[u] ELSE Cleared(StepRecorded(users[u], code))

CodesPassed(u, code) ==
  [codes EXCEPT ![u] = IF users[u].nonce = 0 THEN @ ELSE CodesLeft(@, code)]

FactorPassed(u, code) ==
  IF users[u].nonce = 0 THEN UNCHANGED <<accepted, replayed>> ELSE Accept(code)

(* POST /admin/login: a session, and a device cookie unless the browser    *)
(* has one of the account.                                                 *)
LoginPasses(r) ==
  /\ Passed(r, "login")
  /\ cookies < MaxCookie /\ cookies' = cookies + 1
  /\ LET v == reqs[r]
         d == [cookie |-> cookies + 1, t |-> v.t, hash |-> v.hash,
               nonce |-> users[v.user].nonce]
     IN  /\ users' = [users EXCEPT ![v.user] = RowPassed(v.user, v.code)]
         /\ codes' = CodesPassed(v.user, v.code)
         /\ sessions' = Created(v.user, v.hash)
         /\ devices' = IF \E e \in devices[v.user] : e.cookie = v.device
                         THEN devices
                         ELSE [devices EXCEPT ![v.user] = WithDevice(@, d)]
         /\ FactorPassed(v.user, v.code)
  /\ Done(r)
  /\ UNCHANGED <<now, nonces, batches>>

(* POST /admin/account/password. *)
ChangePassword(r) ==
  /\ Passed(r, "password")
  /\ LET v == reqs[r]
     IN  /\ users[v.user].hash < MaxHash
         /\ users' = [users EXCEPT ![v.user] = [RowPassed(v.user, v.code) EXCEPT !.hash = @ + 1]]
         /\ codes' = CodesPassed(v.user, v.code)
         /\ EndAll(v.user)
         /\ FactorPassed(v.user, v.code)
  /\ Done(r)
  /\ UNCHANGED <<now, drawn>>

(* POST /admin/account/totp: a nonce kept on the session until confirmed.  *)
(* Who drew it is part of it.                                              *)
StartTotp(r) ==
  /\ Passed(r, "start")
  /\ nonces < MaxNonce /\ nonces' = nonces + 1
  /\ LET v == reqs[r]
         pending == [nonce |-> nonces + 1, user |-> v.user]
     IN  /\ users' = [users EXCEPT ![v.user] = RowPassed(v.user, v.code)]
         /\ codes' = CodesPassed(v.user, v.code)
         /\ sessions' = [i \in DOMAIN sessions |->
                           IF i = v.id THEN [sessions[i] EXCEPT !.pending = pending]
                                       ELSE sessions[i]]
         /\ FactorPassed(v.user, v.code)
  /\ Done(r)
  /\ UNCHANGED <<now, devices, cookies, batches>>

BugOthersEnded(u, id) == sessions
OthersEnded(u, id) == Without(sessions, SessionsOf(u) \ {id})

(* POST /admin/account/totp/confirm: a code of the pending seed enrolls    *)
(* it.  The seed is derived from the nonce and the request's account; the  *)
(* clock was read before the request waited for the writer.                *)
ConfirmTotp(r) ==
  /\ reqs[r].phase = "entered" /\ reqs[r].page = "confirm"
  /\ LET v    == reqs[r]
         pend == sessions[v.id].pending
         kept == OthersEnded(v.user, v.id)
     IN  /\ v.id \in DOMAIN sessions /\ pend # None /\ pend.user = v.user
         /\ \E t \in v.t..now, step \in Steps :
              LET code == TotpCode(pend.nonce, step)
              IN  /\ MatchingStep(pend.nonce, code, t) # {}
                  /\ users' = [users EXCEPT ![v.user] =
                                 [[@ EXCEPT !.nonce = pend.nonce] EXCEPT !.lastStep = step]]
                  /\ Accept(code)
         /\ ReplaceCodes(v.user)
         /\ sessions' = [i \in DOMAIN kept |->
                           IF i = v.id
                             THEN [[kept[i] EXCEPT !.pending = None]
                                      EXCEPT !.nonce = IF kept[i].user = v.user THEN pend.nonce
                                                                                ELSE @]
                             ELSE kept[i]]
         /\ devices' = [devices EXCEPT ![v.user] = {}]
  /\ Done(r)
  /\ UNCHANGED <<now, nonces, cookies>>

(* POST /admin/account/totp/disable. *)
DisableTotp(r) ==
  /\ Passed(r, "disable")
  /\ LET v == reqs[r]
     IN  /\ users' = [users EXCEPT ![v.user] =
                        [[RowPassed(v.user, v.code) EXCEPT !.nonce = 0] EXCEPT !.lastStep = Null]]
         /\ codes' = [codes EXCEPT ![v.user] = {}]
         /\ devices' = [devices EXCEPT ![v.user] = {}]
         /\ FactorPassed(v.user, v.code)
  /\ Done(r)
  /\ UNCHANGED <<now, sessions, drawn>>

(* POST /admin/account/recovery-codes. *)
RegenerateCodes(r) ==
  /\ Passed(r, "codes")
  /\ users' = [users EXCEPT ![reqs[r].user] = RowPassed(reqs[r].user, reqs[r].code)]
  /\ ReplaceCodes(reqs[r].user)
  /\ FactorPassed(reqs[r].user, reqs[r].code)
  /\ Done(r)
  /\ UNCHANGED <<now, sessions, devices, nonces, cookies>>

(* POST /admin/account/sessions/end-others and POST /admin/logout. *)
EndOthers(r) ==
  /\ reqs[r].phase = "entered" /\ reqs[r].page = "end_others"
  /\ sessions' = OthersEnded(reqs[r].user, reqs[r].id)
  /\ Done(r)
  /\ UNCHANGED <<now, users, codes, devices, drawn, accepted, replayed>>

Logout(r) ==
  /\ reqs[r].phase = "entered" /\ reqs[r].page = "logout"
  /\ sessions' = Without(sessions, {reqs[r].id})
  /\ Done(r)
  /\ UNCHANGED <<now, users, codes, devices, drawn, accepted, replayed>>

(* POST /admin/reset/{token} with a good token of u. *)
LinkSubmit(u) ==
  /\ users[u].hash < MaxHash
  /\ users' = [users EXCEPT ![u].hash = @ + 1]
  /\ EndAll(u)
  /\ UNCHANGED <<now, codes, reqs, drawn, accepted, replayed>>

(* Retention deletes the sessions and device cookies that ended by age,    *)
(* which may be any.                                                       *)
Retention ==
  /\ \E gone \in SUBSET DOMAIN sessions, old \in SUBSET UNION {devices[u] : u \in Users} :
       /\ sessions' = Without(sessions, gone)
       /\ devices' = [u \in Users |-> devices[u] \ old]
  /\ UNCHANGED <<now, users, codes, reqs, drawn, accepted, replayed>>

-----------------------------------------------------------------------------
Decide(r) ==
  \/ LoginPasses(r) \/ ChangePassword(r) \/ StartTotp(r) \/ DisableTotp(r)
  \/ RegenerateCodes(r) \/ ConfirmTotp(r) \/ EndOthers(r) \/ Logout(r)

Next ==
  \/ Tick
  \/ \E r \in Slots :
       \/ \E i \in DOMAIN sessions : Enter(r, i)
       \/ \E u \in Users : Login(r, u)
       \/ Reauth(r) \/ Fails(r) \/ Decide(r)
  \/ \E u \in Users : LinkSubmit(u)
  \/ Retention

Spec == Init /\ [][Next]_vars

-----------------------------------------------------------------------------
(* Properties *)

(* Type invariant; also, device cookies stay within their cap (add_device) *)
(* and no two sessions share a cookie.                                     *)
TypeOK ==
  /\ now \in 0..Horizon
  /\ users \in [Users -> AccountRow]
  /\ \A u \in Users : users[u].hash <= MaxHash /\ users[u].nonce <= nonces
  /\ codes \in [Users -> SUBSET (1..(CodeCount * MaxBatch))]
  /\ \A i \in DOMAIN sessions : sessions[i].user \in Users /\ sessions[i].cookie <= cookies
  /\ \A i, j \in DOMAIN sessions : sessions[i].cookie = sessions[j].cookie => i = j
  /\ \A u \in Users : Cardinality(devices[u]) <= DevicesKept
  /\ \A r \in Slots : reqs[r].phase \in {"idle", "entered", "checking"}
  /\ nonces <= MaxNonce /\ cookies <= MaxCookie /\ batches <= MaxBatch

(* Every session was begun with the password in force now: a password      *)
(* change or reset ends them all, and a login that verified the old one    *)
(* before it begins none after it (end_all, decide).                       *)
SessionsUnderCurrentPassword ==
  \A i \in DOMAIN sessions : sessions[i].hash = users[sessions[i].user].hash

(* While an account has a second factor on, every session of it passed     *)
(* that very enrollment (confirm_totp, decide).                            *)
SessionsPassedSecondFactor ==
  \A i \in DOMAIN sessions :
    users[sessions[i].user].nonce \in {0, sessions[i].nonce}

(* A device cookie on file was issued under the password and the second    *)
(* factor in force now (end_all, confirm_totp, disable_totp).              *)
DevicesCurrent ==
  \A u \in Users : \A d \in devices[u] :
    d.hash = users[u].hash /\ d.nonce = users[u].nonce

(* An account whose role requires a second factor has a session only while *)
(* it has one on (disable_totp, decide).                                   *)
RequiredFactorOn ==
  \A i \in DOMAIN sessions :
    users[sessions[i].user].role = "admin" => users[sessions[i].user].nonce # 0

(* No TOTP code and no recovery code is accepted twice, however requests   *)
(* race (code_accepted, consume, confirm_totp).                            *)
CodeAcceptedOnce == replayed = {}

(* An account has recovery codes only while two-factor login is on.        *)
CodesOnlyWhileEnrolled == \A u \in Users : codes[u] # {} => users[u].nonce # 0

=============================================================================
