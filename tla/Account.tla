------------------------------ MODULE Account ------------------------------
(***************************************************************************)
(* An account row and the decisions of the credential check on it: the     *)
(* lock, the device window, the password, the second factor.  Passwords    *)
(* and seeds are versions: hash n is the n-th password set (0: none), and  *)
(* nonce n the n-th enrollment drawn (0: none).  No code sets `disabled'.  *)
(***************************************************************************)
EXTENDS Integers

CONSTANTS
  LockAfter,             \* LOCK_AFTER
  LockSeconds,           \* LOCK_SECONDS
  DeviceWindowSeconds,   \* DEVICE_WINDOW_SECONDS
  DeviceFailuresMax,     \* DEVICE_FAILURES_MAX
  LockoutMailSeconds,    \* LOCKOUT_MAIL_SECONDS
  StepSeconds            \* STEP_SECONDS

ASSUME AccountAssumption ==
  /\ LockAfter \in Nat \ {0} /\ LockSeconds \in Nat \ {0}
  /\ DeviceWindowSeconds \in Nat \ {0} /\ DeviceFailuresMax \in Nat \ {0}
  /\ LockoutMailSeconds \in Nat \ {0} /\ StepSeconds \in Nat \ {0}

Null == -1

Roles == {"admin", "maintainer"}

Time == Nat \cup {Null}

AccountRow ==
  [role : Roles, hash : Nat, nonce : Nat, lastStep : Time, failed : 0..(LockAfter - 1),
   lockedUntil : Time, mailedAt : Time, devFailures : 0..DeviceFailuresMax,
   windowStart : Time]

NewAccount(role, hash, nonce) ==
  [role |-> role, hash |-> hash, nonce |-> nonce, lastStep |-> Null, failed |-> 0,
   lockedUntil |-> Null, mailedAt |-> Null, devFailures |-> 0, windowStart |-> Null]

BugRequiresTwoFactor(role) == role = "maintainer"
RequiresTwoFactor(role) == role = "admin"

-----------------------------------------------------------------------------
(* Whether a request, by its device cookie, may not sign in at t whatever  *)
(* it submits.                                                             *)
Locked(a, t) == a.lockedUntil # Null /\ a.lockedUntil > t

InWindow(a, t) == a.windowStart # Null /\ a.windowStart + DeviceWindowSeconds > t

Blocked(a, known, t) ==
  IF known THEN InWindow(a, t) /\ a.devFailures >= DeviceFailuresMax ELSE Locked(a, t)

(* The hash that the password, `typed', matched; 0 when it matched none or *)
(* the request may not try.                                                *)
Verified(a, known, t, typed) ==
  IF ~Blocked(a, known, t) /\ typed = a.hash THEN typed ELSE 0

(* The password must match the hash stored now, not one changed meanwhile. *)
BugPasswordOk(a, hash) == hash # 0
PasswordOk(a, hash) == hash # 0 /\ hash = a.hash

StepAt(t) == t \div StepSeconds

(* A code is a recovery code, or the TOTP code of a seed at a step.        *)
NoCode == [kind |-> "none"]
TotpCode(nonce, step) == [kind |-> "totp", nonce |-> nonce, step |-> step]
RecoveryCode(n) == [kind |-> "recovery", code |-> n]

(* The step of the seed that a typed code is accepted for; empty: none. *)
MatchingStep(nonce, code, t) ==
  {s \in (StepAt(t) - 1)..(StepAt(t) + 1) : code = TotpCode(nonce, s)}

(* A TOTP code of a later step than the last accepted one, or an unused    *)
(* recovery code of the account.                                           *)
BugCodeAccepted(a, codes, code, t) ==
  \/ MatchingStep(a.nonce, code, t) # {}
  \/ \E c \in codes : code = RecoveryCode(c)

CodeAccepted(a, codes, code, t) ==
  \/ \E s \in MatchingStep(a.nonce, code, t) : a.lastStep = Null \/ a.lastStep < s
  \/ \E c \in codes : code = RecoveryCode(c)

(* What accepting it leaves of the row and of the recovery codes. *)
StepRecorded(a, code) ==
  IF code.kind = "totp" THEN [a EXCEPT !.lastStep = code.step] ELSE a

CodesLeft(codes, code) == {c \in codes : code # RecoveryCode(c)}

-----------------------------------------------------------------------------
BugCountDeviceFailure(a, t) ==
  IF InWindow(a, t)
    THEN [a EXCEPT !.devFailures = @ + 1]
    ELSE [[a EXCEPT !.devFailures = 1] EXCEPT !.windowStart = IF @ = Null THEN t ELSE @]

(* One counted failure, of a request that is not blocked.  With a device   *)
(* cookie, in the window, which starts at its first failure...             *)
CountDeviceFailure(a, t) ==
  IF InWindow(a, t)
    THEN [a EXCEPT !.devFailures = @ + 1]
    ELSE [[a EXCEPT !.devFailures = 1] EXCEPT !.windowStart = t]

(* ...without one, toward the lock, which starts at the last of them.      *)
BugLockStarts(a) == a.failed + 2 >= LockAfter
LockStarts(a) == a.failed + 1 >= LockAfter

BugCountLoginFailure(a, t) ==
  IF a.failed >= LockAfter
    THEN [[a EXCEPT !.failed = 0] EXCEPT !.lockedUntil = t + LockSeconds]
    ELSE [a EXCEPT !.failed = @ + 1]

CountLoginFailure(a, t) ==
  IF LockStarts(a)
    THEN [[[a EXCEPT !.failed = 0]
              EXCEPT !.lockedUntil = t + LockSeconds]
              EXCEPT !.mailedAt = IF @ = Null \/ @ <= t - LockoutMailSeconds THEN t ELSE @]
    ELSE [a EXCEPT !.failed = @ + 1]

BugCountFailure(a, known, t) ==
  IF ~known /\ LockStarts(a) THEN CountLoginFailure(a, t) ELSE CountDeviceFailure(a, t)

CountFailure(a, known, t) ==
  IF known THEN CountDeviceFailure(a, t) ELSE CountLoginFailure(a, t)

BugQueuesLockoutMail(a, known, t) == ~known /\ LockStarts(a) /\ a.mailedAt = t

(* The failure queues the lockout mail: the update returned that the lock  *)
(* and the mail are of this very time.                                     *)
QueuesLockoutMail(a, known, t) ==
  /\ ~known
  /\ CountLoginFailure(a, t).lockedUntil = t + LockSeconds
  /\ CountLoginFailure(a, t).mailedAt = t

(* A success resets both counts and leaves the lock. *)
Cleared(a) ==
  [[[a EXCEPT !.failed = 0] EXCEPT !.devFailures = 0] EXCEPT !.windowStart = Null]

(* kohaku admin unlock also ends the lock. *)
Unlocked(a) == [Cleared(a) EXCEPT !.lockedUntil = Null]
=============================================================================
