------------------------------ MODULE Lockout ------------------------------
(***************************************************************************)
(* Concurrent credential checks of one account.  A check reads the clock,  *)
(* the account and the device cookie, hashes the password with no lock     *)
(* held, and decides in one write transaction from the time it read first. *)
(* Meanwhile other checks decide, the password changes and kohaku admin    *)
(* unlock runs.  Recovery codes are left to SignIn.                        *)
(***************************************************************************)
EXTENDS Account, Sequences

CONSTANTS
  Accounts,    \* the rows the account may start with
  Slots,       \* checks in progress at once
  MaxLag,      \* bound: how stale a captured time may be when it is used
  Horizon,     \* bound: last instant of the clock
  MaxHash,     \* bound: passwords ever set
  MaxUnlocks   \* bound: uses of kohaku admin unlock

ASSUME LockoutAssumption ==
  /\ {MaxLag, Horizon, MaxHash, MaxUnlocks} \subseteq Nat
  /\ \A a \in Accounts : \E role \in Roles, hash \in 0..MaxHash, nonce \in {0, 1} :
       a = NewAccount(role, hash, nonce)

VARIABLES
  now,      \* wall clock
  acct,     \* the account's row
  reqs,     \* what each check holds between its read and its decision
  unlocks,  \* uses of unlock so far
  mails,    \* history: the time of each lockout mail queued
  guesses,  \* history: when the last failures without a device cookie were counted
  devGuesses  \* history: the same with one; both since the last reset of the counts

vars == <<now, acct, reqs, unlocks, mails, guesses, devGuesses>>

Idle == [t |-> Null]

(* The last n entries of s with x appended. *)
Pushed(s, x, n) ==
  LET all == Append(s, x) IN IF Len(all) <= n THEN all ELSE Tail(all)

GuessWindow == LockAfter + 1
DevGuessWindow == 2 * DeviceFailuresMax + 1

Init ==
  /\ now = 0
  /\ acct \in Accounts
  /\ reqs = [r \in Slots |-> Idle]
  /\ unlocks = 0 /\ mails = <<>> /\ guesses = <<>> /\ devGuesses = <<>>

(* Checks wait for a hashing permit for 2 s at most and hash for a bounded *)
(* time.                                                                   *)
Tick ==
  /\ now < Horizon
  /\ \A r \in Slots : reqs[r] # Idle => now - reqs[r].t < MaxLag
  /\ now' = now + 1
  /\ UNCHANGED <<acct, reqs, unlocks, mails, guesses, devGuesses>>

-----------------------------------------------------------------------------
(* What a client may type: a wrong password, or the right one and a code,  *)
(* which only an enrolled account asks for.                                *)
Typed ==
  {[typed |-> 0, code |-> NoCode], [typed |-> acct.hash, code |-> NoCode]}
    \cup {[typed |-> acct.hash, code |-> TotpCode(acct.nonce, StepAt(now))] :
            x \in {acct.nonce} \ {0}}

(* A check starts with a right or a wrong password, and reads.  `known' is *)
(* whether it carries a device cookie of the account.                      *)
Begin(r) ==
  /\ reqs[r] = Idle
  /\ \E known \in BOOLEAN, in \in Typed :
       reqs' = [reqs EXCEPT ![r] =
                  [t |-> now, known |-> known, typed |-> in.typed, code |-> in.code,
                   hash |-> Verified(acct, known, now, in.typed)]]
  /\ UNCHANGED <<now, acct, unlocks, mails, guesses, devGuesses>>

Done(r) == reqs' = [reqs EXCEPT ![r] = Idle]

(* No hashing permit in time, or the client went away: nothing is counted. *)
Busy(r) ==
  /\ reqs[r] # Idle
  /\ Done(r)
  /\ UNCHANGED <<now, acct, unlocks, mails, guesses, devGuesses>>

Deciding(r) == reqs[r] # Idle /\ ~Blocked(acct, reqs[r].known, reqs[r].t)

Refused(r) ==
  /\ reqs[r] # Idle /\ Blocked(acct, reqs[r].known, reqs[r].t)
  /\ Done(r)
  /\ UNCHANGED <<now, acct, unlocks, mails, guesses, devGuesses>>

PasswordRight(r) == Deciding(r) /\ PasswordOk(acct, reqs[r].hash)

CodeRight(r) ==
  acct.nonce # 0 => CodeAccepted(acct, {}, reqs[r].code, reqs[r].t)

SecondFactorMissing(r) == acct.nonce = 0 /\ RequiresTwoFactor(acct.role)

(* A counted failure: the password, or the code after it. *)
Fails(r) ==
  /\ \/ Deciding(r) /\ ~PasswordOk(acct, reqs[r].hash)
     \/ PasswordRight(r) /\ ~CodeRight(r)
  /\ LET v == reqs[r]
     IN  /\ acct' = CountFailure(acct, v.known, v.t)
         /\ mails' = IF QueuesLockoutMail(acct, v.known, v.t) THEN Append(mails, v.t) ELSE mails
         /\ IF v.known
              THEN /\ devGuesses' = Pushed(devGuesses, now, DevGuessWindow)
                   /\ UNCHANGED guesses
              ELSE /\ guesses' = Pushed(guesses, now, GuessWindow)
                   /\ UNCHANGED devGuesses
  /\ Done(r)
  /\ UNCHANGED <<now, unlocks>>

TwoFactorRequired(r) ==
  /\ PasswordRight(r) /\ SecondFactorMissing(r)
  /\ Done(r)
  /\ UNCHANGED <<now, acct, unlocks, mails, guesses, devGuesses>>

(* Every factor passed: the code is used up, the counts are reset, and the *)
(* work of the check runs, which may set a new password.                   *)
Succeeds(r) ==
  /\ PasswordRight(r) /\ ~SecondFactorMissing(r) /\ CodeRight(r)
  /\ LET passed == Cleared(IF acct.nonce = 0 THEN acct ELSE StepRecorded(acct, reqs[r].code))
     IN  \/ acct' = passed
         \/ acct.hash < MaxHash /\ acct' = [passed EXCEPT !.hash = @ + 1]
  /\ guesses' = <<>> /\ devGuesses' = <<>>
  /\ Done(r)
  /\ UNCHANGED <<now, unlocks, mails>>

-----------------------------------------------------------------------------
(* A new password by a reset link leaves the counts and the lock. *)
LinkSubmit ==
  /\ acct.hash < MaxHash
  /\ acct' = [acct EXCEPT !.hash = @ + 1]
  /\ UNCHANGED <<now, reqs, unlocks, mails, guesses, devGuesses>>

(* kohaku admin unlock, in another process. *)
Unlock ==
  /\ unlocks < MaxUnlocks /\ unlocks' = unlocks + 1
  /\ acct' = Unlocked(acct)
  /\ guesses' = <<>> /\ devGuesses' = <<>>
  /\ UNCHANGED <<now, reqs, mails>>

Check(r) ==
  Begin(r) \/ Busy(r) \/ Refused(r) \/ Fails(r) \/ TwoFactorRequired(r) \/ Succeeds(r)

Next == Tick \/ (\E r \in Slots : Check(r)) \/ LinkSubmit \/ Unlock

Spec == Init /\ [][Next]_vars

-----------------------------------------------------------------------------
(* Properties *)

(* However many checks without a device cookie run at once, and however    *)
(* stale the time each decides by, LockAfter + 1 failures in a row with no *)
(* success and no unlock between them take at least the lock's duration    *)
(* (blocked, count_failure).                                               *)
GuessesBounded ==
  Len(guesses) = GuessWindow =>
    guesses[GuessWindow] - guesses[1] >= LockSeconds - MaxLag

(* With a device cookie: twice the window's allowance and one more span at *)
(* least one window (blocked, count_failure).                              *)
DeviceGuessesBounded ==
  Len(devGuesses) = DevGuessWindow =>
    devGuesses[DevGuessWindow] - devGuesses[1] >= DeviceWindowSeconds - MaxLag

(* A lock starts only at the LockAfter-th failure since the counts were    *)
(* last reset, and nothing but unlock ends or shortens a lock              *)
(* (count_failure, unlock).                                                *)
LockOnlyAfterFailures ==
  [][acct'.lockedUntil # acct.lockedUntil =>
       IF unlocks' # unlocks
         THEN acct'.lockedUntil = Null
         ELSE /\ acct'.lockedUntil > acct.lockedUntil
              /\ Len(guesses') >= LockAfter]_vars

(* The account is warned of every lock: a lock that starts at s has a      *)
(* lockout mail queued later than s - LockoutMailSeconds (count_failure).  *)
EveryLockWarned ==
  acct.lockedUntil # Null =>
    \E i \in DOMAIN mails :
      mails[i] > acct.lockedUntil - LockSeconds - LockoutMailSeconds

(* Failures without a device cookie never keep out a browser that has one: *)
(* only a check with a cookie moves the device window, unless the counts   *)
(* are reset, after which no failure is on record (count_failure).         *)
StrangersBlockNoDevice ==
  [][acct'.devFailures # acct.devFailures \/ acct'.windowStart # acct.windowStart =>
       \/ guesses' = <<>>
       \/ \E r \in Slots : reqs[r] # Idle /\ reqs'[r] = Idle /\ reqs[r].known]_vars

=============================================================================
