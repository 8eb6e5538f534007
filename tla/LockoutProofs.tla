---------------------------- MODULE LockoutProofs ----------------------------
(***************************************************************************)
(* Proofs about Lockout, for any thresholds, durations, lag and number of  *)
(* checks in progress: how fast failures can be counted, when a lock       *)
(* starts, who is warned of it, and who can move the device window.        *)
(***************************************************************************)
EXTENDS Lockout, SequenceTheorems, TLAPS

Row ==
  [role : Roles, hash : Nat, nonce : Nat, lastStep : Int, failed : 0..(LockAfter - 1),
   lockedUntil : Time, mailedAt : Time, devFailures : 0..DeviceFailuresMax,
   windowStart : Time]

(* What a check holds; its time is at most MaxLag old.                     *)
Held(q) ==
  \/ q = Idle
  \/ /\ q.t \in Nat /\ q.t <= now /\ now - q.t <= MaxLag
     /\ q.known \in BOOLEAN
     /\ q.code.kind = "totp" => q.code.step \in Int

Types ==
  /\ now \in Nat /\ unlocks \in Nat
  /\ acct \in Row
  /\ reqs = [r \in Slots |-> reqs[r]]
  /\ \A r \in Slots : Held(reqs[r])

(* The failures without a device cookie: those since the last lock number  *)
(* acct.failed, and the lock outlasts every one up to its own.             *)
GuessesLocked(gs, a, t) ==
  /\ gs \in Seq(Nat) /\ Len(gs) <= GuessWindow
  /\ \A j \in 1..Len(gs) : gs[j] <= t
  /\ a.failed <= Len(gs)
  /\ \A j \in 1..Len(gs) : j <= Len(gs) - a.failed =>
       a.lockedUntil # Null /\ gs[j] - MaxLag + LockSeconds <= a.lockedUntil
  /\ Len(gs) = GuessWindow => gs[GuessWindow] - gs[1] >= LockSeconds - MaxLag

(* The failures with one: the last acct.devFailures are of the current     *)
(* window, the DeviceFailuresMax before them at most of the one before,    *)
(* and that one started a window's length earlier or more.                 *)
GuessesWindowed(gs, a, t) ==
  /\ gs \in Seq(Nat) /\ Len(gs) <= DevGuessWindow
  /\ \A j \in 1..Len(gs) : gs[j] <= t
  /\ a.devFailures <= Len(gs)
  /\ a.windowStart <= t
  /\ Len(gs) # 0 => a.windowStart # Null
  /\ a.windowStart # Null => a.devFailures # 0
  /\ \A j \in 1..Len(gs) : j <= Len(gs) - a.devFailures + 1 => gs[j] - MaxLag <= a.windowStart
  /\ \A j \in 1..Len(gs) : j <= Len(gs) - a.devFailures - DeviceFailuresMax =>
       gs[j] - MaxLag + DeviceWindowSeconds <= a.windowStart
  /\ Len(gs) = DevGuessWindow => gs[DevGuessWindow] - gs[1] >= DeviceWindowSeconds - MaxLag

(* The mails: the last one was queued, and a lock has one of its day.      *)
Warned(ms, a) ==
  /\ ms \in Seq(Nat)
  /\ a.mailedAt # Null => \E i \in 1..Len(ms) : ms[i] = a.mailedAt
  /\ a.lockedUntil # Null =>
       \E i \in 1..Len(ms) : ms[i] > a.lockedUntil - LockSeconds - LockoutMailSeconds

Inv ==
  /\ Types
  /\ GuessesLocked(guesses, acct, now)
  /\ GuessesWindowed(devGuesses, acct, now)
  /\ Warned(mails, acct)

-----------------------------------------------------------------------------
(* Helpers *)

(* The constants are numbers, and the durations are positive.              *)
LEMMA Numbers ==
  /\ LockAfter \in Nat \ {0} /\ LockSeconds \in Nat \ {0} /\ DeviceWindowSeconds \in Nat \ {0}
  /\ DeviceFailuresMax \in Nat \ {0} /\ LockoutMailSeconds \in Nat \ {0} /\ MaxLag \in Nat
  /\ StepSeconds \in Nat \ {0}
BY AccountAssumption, LockoutAssumption

(* The counters and times of a row (users).                                *)
LEMMA RowNumbers ==
  \A a \in Row : /\ a.failed \in Nat /\ a.failed <= LockAfter - 1 /\ a.lockedUntil \in Int
                 /\ a.mailedAt \in Int
                 /\ a.devFailures \in Nat /\ a.devFailures <= DeviceFailuresMax
                 /\ a.windowStart \in Int
<1> SUFFICES ASSUME NEW a \in Row
             PROVE  /\ a.failed \in Nat /\ a.failed <= LockAfter - 1 /\ a.lockedUntil \in Int
                    /\ a.mailedAt \in Int
                    /\ a.devFailures \in Nat /\ a.devFailures <= DeviceFailuresMax
                    /\ a.windowStart \in Int
  OBVIOUS
<1>1. /\ a.failed \in 0..(LockAfter - 1) /\ a.devFailures \in 0..DeviceFailuresMax
      /\ a.lockedUntil \in Time /\ a.mailedAt \in Time /\ a.windowStart \in Time
  BY DEF Row
<1>2. Time \subseteq Int
  BY DEF Time, Null
<1>3. /\ a.failed \in Nat /\ a.failed <= LockAfter - 1
      /\ a.devFailures \in Nat /\ a.devFailures <= DeviceFailuresMax
  BY <1>1, Numbers
<1> QED BY <1>1, <1>2, <1>3

(* A history of n entries drops its first one for a new one.               *)
Dropped(s, n) == IF Len(s) + 1 <= n THEN 0 ELSE 1

(* A history keeps its last n entries (Pushed).                            *)
LEMMA PushedProperties ==
  ASSUME NEW s \in Seq(Nat), NEW x \in Nat, NEW n \in Nat \ {0}, Len(s) <= n
  PROVE  /\ Pushed(s, x, n) \in Seq(Nat)
         /\ Len(Pushed(s, x, n)) = Len(s) + 1 - Dropped(s, n)
         /\ Pushed(s, x, n)[Len(s) + 1 - Dropped(s, n)] = x
         /\ \A j \in 1..(Len(s) - Dropped(s, n)) : Pushed(s, x, n)[j] = s[j + Dropped(s, n)]
<1> DEFINE all == Append(s, x)
           L == Len(s)
<1>1. /\ all \in Seq(Nat) /\ all # <<>> /\ Len(all) = L + 1 /\ L \in Nat
      /\ \A i \in 1..L : all[i] = s[i]
      /\ all[L + 1] = x
  BY AppendProperties
<1>2. Pushed(s, x, n) = IF Len(all) <= n THEN all ELSE Tail(all)
  BY DEF Pushed
<1> HIDE DEF all
<1>3. CASE L + 1 <= n
  <2>1. Pushed(s, x, n) = all /\ Dropped(s, n) = 0
    BY <1>1, <1>2, <1>3 DEF Dropped
  <2>2. \A j \in 1..(L - 0) : all[j] = s[j + 0]
    BY <1>1
  <2>3. L + 1 - 0 = L + 1
    BY <1>1
  <2> QED BY <1>1, <2>1, <2>2, <2>3
<1>4. CASE ~(L + 1 <= n)
  <2> DEFINE p == Tail(all)
  <2>1. Pushed(s, x, n) = p /\ Dropped(s, n) = 1
    BY <1>1, <1>2, <1>4 DEF Dropped
  <2>2. p \in Seq(Nat) /\ Len(p) = L /\ \A i \in 1..L : p[i] = all[i + 1]
    BY <1>1, HeadTailProperties
  <2> HIDE DEF p
  <2>3. L \in 1..L /\ L + 1 - 1 = L
    BY <1>1, <1>4
  <2>4. p[L] = x
    BY <1>1, <2>2, <2>3
  <2>5. ASSUME NEW j \in 1..(L - 1) PROVE p[j] = s[j + 1]
    <3>1. j \in 1..L /\ j + 1 \in 1..L
      BY <1>1
    <3> QED BY <1>1, <2>2, <3>1
  <2> QED BY <2>1, <2>2, <2>3, <2>4, <2>5
<1> QED BY <1>3, <1>4

-----------------------------------------------------------------------------
(* What a counted failure does to the row *)

(* Without a device cookie (count_failure).                                *)
LEMMA LoginFailureRow ==
  ASSUME NEW a \in Row, NEW t \in Nat
  PROVE  LET b == CountLoginFailure(a, t)
         IN  /\ b \in Row /\ b.devFailures = a.devFailures /\ b.windowStart = a.windowStart
             /\ IF LockStarts(a)
                  THEN /\ b.failed = 0 /\ b.lockedUntil = t + LockSeconds
                       /\ b.mailedAt = IF a.mailedAt = Null \/ a.mailedAt <= t - LockoutMailSeconds
                                         THEN t ELSE a.mailedAt
                  ELSE /\ b.failed = a.failed + 1 /\ b.lockedUntil = a.lockedUntil
                       /\ b.mailedAt = a.mailedAt
<1> DEFINE m == IF a.mailedAt = Null \/ a.mailedAt <= t - LockoutMailSeconds THEN t ELSE a.mailedAt
           b1 == [a EXCEPT !.failed = 0]
           b2 == [b1 EXCEPT !.lockedUntil = t + LockSeconds]
           b3 == [b2 EXCEPT !.mailedAt = m]
           c == [a EXCEPT !.failed = a.failed + 1]
<1>1. /\ b1 \in Row /\ b1.failed = 0 /\ b1.mailedAt = a.mailedAt
      /\ b1.devFailures = a.devFailures /\ b1.windowStart = a.windowStart
  BY Numbers DEF Row
<1>2. CASE LockStarts(a)
  <2>1. CountLoginFailure(a, t) = [b2 EXCEPT !.mailedAt =
          IF b2.mailedAt = Null \/ b2.mailedAt <= t - LockoutMailSeconds THEN t ELSE b2.mailedAt]
    BY <1>2, Zenon DEF CountLoginFailure
  <2> HIDE DEF b1
  <2>2. t + LockSeconds \in Time
    BY Numbers DEF Time
  <2>3. /\ b2 \in Row /\ b2.failed = 0 /\ b2.mailedAt = a.mailedAt /\ b2.lockedUntil = t + LockSeconds
        /\ b2.devFailures = a.devFailures /\ b2.windowStart = a.windowStart
    BY <1>1, <2>2 DEF Row
  <2> HIDE DEF b2
  <2>4. CountLoginFailure(a, t) = b3
    BY <2>1, <2>3
  <2>5. m \in Time
    BY DEF Row, Time
  <2> HIDE DEF m
  <2>6. /\ b3 \in Row /\ b3.failed = 0 /\ b3.mailedAt = m /\ b3.lockedUntil = t + LockSeconds
        /\ b3.devFailures = a.devFailures /\ b3.windowStart = a.windowStart
    BY <2>3, <2>5 DEF Row
  <2> HIDE DEF b3
  <2> QED BY <1>2, <2>4, <2>6 DEF m
<1>3. CASE ~LockStarts(a)
  <2>1. CountLoginFailure(a, t) = c
    BY <1>3 DEF CountLoginFailure
  <2>2. a.failed + 1 \in 0..(LockAfter - 1)
    BY <1>3, Numbers DEF LockStarts, Row
  <2>3. /\ c \in Row /\ c.failed = a.failed + 1 /\ c.mailedAt = a.mailedAt
        /\ c.lockedUntil = a.lockedUntil
        /\ c.devFailures = a.devFailures /\ c.windowStart = a.windowStart
    BY <2>2 DEF Row
  <2> HIDE DEF c
  <2> QED BY <1>3, <2>1, <2>3
<1> QED BY <1>2, <1>3

(* With one, of a check that is not blocked (count_failure).               *)
LEMMA DeviceFailureRow ==
  ASSUME NEW a \in Row, NEW t \in Nat, ~(InWindow(a, t) /\ a.devFailures >= DeviceFailuresMax)
  PROVE  LET b == CountDeviceFailure(a, t)
         IN  /\ b \in Row /\ b.failed = a.failed /\ b.lockedUntil = a.lockedUntil
             /\ b.mailedAt = a.mailedAt
             /\ IF InWindow(a, t)
                  THEN b.devFailures = a.devFailures + 1 /\ b.windowStart = a.windowStart
                  ELSE b.devFailures = 1 /\ b.windowStart = t
<1> DEFINE b1 == [a EXCEPT !.devFailures = 1]
           b2 == [b1 EXCEPT !.windowStart = t]
           c == [a EXCEPT !.devFailures = a.devFailures + 1]
<1>1. CASE InWindow(a, t)
  <2>1. CountDeviceFailure(a, t) = c
    BY <1>1 DEF CountDeviceFailure
  <2>2. a.devFailures + 1 \in 0..DeviceFailuresMax
    BY <1>1, Numbers DEF Row
  <2>3. /\ c \in Row /\ c.failed = a.failed /\ c.mailedAt = a.mailedAt
        /\ c.lockedUntil = a.lockedUntil
        /\ c.devFailures = a.devFailures + 1 /\ c.windowStart = a.windowStart
    BY <2>2 DEF Row
  <2> HIDE DEF c
  <2> QED BY <1>1, <2>1, <2>3
<1>2. CASE ~InWindow(a, t)
  <2>1. CountDeviceFailure(a, t) = b2
    BY <1>2 DEF CountDeviceFailure
  <2>2. /\ b1 \in Row /\ b1.failed = a.failed /\ b1.mailedAt = a.mailedAt
        /\ b1.lockedUntil = a.lockedUntil /\ b1.devFailures = 1
    BY Numbers DEF Row
  <2> HIDE DEF b1
  <2>3. /\ b2 \in Row /\ b2.failed = a.failed /\ b2.mailedAt = a.mailedAt
        /\ b2.lockedUntil = a.lockedUntil /\ b2.devFailures = 1 /\ b2.windowStart = t
    BY <2>2 DEF Row, Time
  <2> HIDE DEF b2
  <2> QED BY <1>2, <2>1, <2>3
<1> QED BY <1>1, <1>2

(* A success resets both counts and leaves the lock and its warning        *)
(* (clear_failures).                                                       *)
LEMMA ClearedRow ==
  ASSUME NEW a \in Row
  PROVE  LET b == Cleared(a)
         IN  /\ b \in Row /\ b.failed = 0 /\ b.devFailures = 0 /\ b.windowStart = Null
             /\ b.lockedUntil = a.lockedUntil /\ b.mailedAt = a.mailedAt
<1> DEFINE b1 == [a EXCEPT !.failed = 0]
           b2 == [b1 EXCEPT !.devFailures = 0]
           b3 == [b2 EXCEPT !.windowStart = Null]
<1>1. Cleared(a) = b3
  BY DEF Cleared
<1>2. b1 \in Row /\ b1.failed = 0 /\ b1.lockedUntil = a.lockedUntil /\ b1.mailedAt = a.mailedAt
  BY Numbers DEF Row
<1> HIDE DEF b1
<1>3. /\ b2 \in Row /\ b2.failed = 0 /\ b2.devFailures = 0
      /\ b2.lockedUntil = a.lockedUntil /\ b2.mailedAt = a.mailedAt
  BY <1>2, Numbers DEF Row
<1> HIDE DEF b2
<1>4. /\ b3 \in Row /\ b3.failed = 0 /\ b3.devFailures = 0 /\ b3.windowStart = Null
      /\ b3.lockedUntil = a.lockedUntil /\ b3.mailedAt = a.mailedAt
  BY <1>3 DEF Row, Time
<1> HIDE DEF b3
<1> QED BY <1>1, <1>4

-----------------------------------------------------------------------------
(* What a counted failure does to the histories *)

(* A failure without a device cookie, decided by a time at most MaxLag old *)
(* of a check the lock does not block (blocked, count_failure).            *)
LEMMA LoginFailureKeeps ==
  ASSUME NEW gs, NEW a \in Row, NEW b \in Row, NEW n \in Nat, NEW t \in Nat,
         t <= n, n - t <= MaxLag, ~Locked(a, t),
         GuessesLocked(gs, a, n),
         IF LockStarts(a)
           THEN b.failed = 0 /\ b.lockedUntil = t + LockSeconds
           ELSE b.failed = a.failed + 1 /\ b.lockedUntil = a.lockedUntil
  PROVE  GuessesLocked(Pushed(gs, n, GuessWindow), b, n)
<1> DEFINE p == Pushed(gs, n, GuessWindow)
           L == Len(gs)
           P == Len(p)
<1>1. /\ gs \in Seq(Nat) /\ L <= GuessWindow /\ L \in Nat /\ a.failed <= L
      /\ \A j \in 1..L : gs[j] \in Nat /\ gs[j] <= n
      /\ \A j \in 1..L : j <= L - a.failed =>
           a.lockedUntil # Null /\ gs[j] - MaxLag + LockSeconds <= a.lockedUntil
  BY LenProperties DEF GuessesLocked
<1>2. GuessWindow \in Nat \ {0} /\ GuessWindow = LockAfter + 1
  BY Numbers DEF GuessWindow
<1> DEFINE d == Dropped(gs, GuessWindow)
<1>3. p \in Seq(Nat) /\ P = L + 1 - d /\ p[P] = n /\ \A j \in 1..(L - d) : p[j] = gs[j + d]
  BY <1>1, <1>2, PushedProperties
<1>4. /\ d \in {0, 1} /\ (d = 1 => L = GuessWindow) /\ P \in Nat /\ P <= GuessWindow
      /\ P - 1 = L - d /\ \A j \in 1..(P - 1) : j + d \in 1..L /\ p[j] = gs[j + d]
  <2>1. d \in {0, 1} /\ (d = 1 => L = GuessWindow) /\ (d = 0 => L + 1 <= GuessWindow)
    BY <1>1, <1>2 DEF Dropped
  <2> HIDE DEF d, p, P, L
  <2>2. P \in Nat /\ P <= GuessWindow /\ P - 1 = L - d
    BY <1>1, <1>2, <1>3, <2>1
  <2>3. \A j \in 1..(P - 1) : j + d \in 1..L
    BY <1>1, <2>1, <2>2
  <2> QED BY <1>3, <2>1, <2>2, <2>3
<1>5. /\ a.failed \in Nat /\ a.failed <= LockAfter - 1 /\ a.lockedUntil \in Int
      /\ b.failed \in Nat /\ b.failed <= LockAfter - 1 /\ b.lockedUntil \in Int
  BY RowNumbers
<1>6. a.lockedUntil = Null \/ a.lockedUntil <= t
  BY <1>5 DEF Locked
<1> HIDE DEF p, P, L, d
<1>len. /\ P = L + 1 - d /\ L \in Nat /\ d \in {0, 1} /\ P \in Nat
        /\ (d = 1 => L = GuessWindow) /\ P - 1 = L - d
  BY <1>1, <1>3, <1>4
<1>7. \A j \in 1..P : p[j] \in Nat /\ p[j] <= n
  <2> TAKE j \in 1..P
  <2>1. CASE j = P
    BY <1>3, <2>1
  <2>2. CASE j \in 1..(P - 1)
    BY <1>1, <1>4, <2>2
  <2> QED BY <1>3, <2>1, <2>2
<1>8. b.failed <= P
  <2>1. a.failed <= L
    BY <1>1
  <2>2. CASE d = 0
    BY <1>len, <1>5, <2>1, <2>2
  <2>3. CASE d = 1
    BY <1>len, <1>2, <1>5, <2>3, Numbers
  <2> QED BY <1>len, <2>2, <2>3
<1>9. ASSUME NEW j \in 1..P, j <= P - b.failed
       PROVE  b.lockedUntil # Null /\ p[j] - MaxLag + LockSeconds <= b.lockedUntil
  <2>1. CASE LockStarts(a)
    <3>1. p[j] - MaxLag <= t
      BY <1>7, Numbers
    <3> QED BY <1>7, <2>1, <3>1, Numbers DEF Null
  <2>2. CASE ~LockStarts(a)
    <3>1. b.failed = a.failed + 1 /\ b.lockedUntil = a.lockedUntil
      BY <2>2
    <3>2. j \in 1..(P - 1) /\ j + d \in Nat /\ j + d <= L - a.failed
      BY <1>len, <1>5, <1>9, <3>1
    <3>3. j + d \in 1..L /\ p[j] = gs[j + d]
      BY <1>4, <3>2
    <3> QED BY <1>1, <3>1, <3>2, <3>3
  <2> QED BY <2>1, <2>2
<1>10. ASSUME P = GuessWindow PROVE p[GuessWindow] - p[1] >= LockSeconds - MaxLag
  <2>1. 1 \in 1..(P - 1) /\ 1 + d \in 1..L /\ p[1] = gs[1 + d]
    BY <1>2, <1>4, <1>10, Numbers
  <2>2. 1 + d <= L - a.failed
    BY <1>1, <1>2, <1>4, <1>5, <1>10, Numbers
  <2>3. a.lockedUntil # Null /\ gs[1 + d] - MaxLag + LockSeconds <= a.lockedUntil
    BY <1>1, <2>1, <2>2
  <2>4. a.lockedUntil <= t /\ t <= n
    BY <1>6, <2>3
  <2>5. gs[1 + d] \in Nat
    BY <1>1, <2>1
  <2>6. p[GuessWindow] = n
    BY <1>3, <1>10
  <2> QED BY <1>5, <2>1, <2>3, <2>4, <2>5, <2>6, Numbers
<1> QED BY <1>3, <1>4, <1>7, <1>8, <1>9, <1>10 DEF GuessesLocked, P, p

(* A failure with one, of a check the window does not block (blocked,      *)
(* count_failure).                                                         *)
LEMMA DeviceFailureKeeps ==
  ASSUME NEW gs, NEW a \in Row, NEW b \in Row, NEW n \in Nat, NEW t \in Nat,
         t <= n, n - t <= MaxLag,
         GuessesWindowed(gs, a, n),
         IF InWindow(a, t)
           THEN b.devFailures = a.devFailures + 1 /\ b.windowStart = a.windowStart
           ELSE b.devFailures = 1 /\ b.windowStart = t
  PROVE  GuessesWindowed(Pushed(gs, n, DevGuessWindow), b, n)
<1> DEFINE p == Pushed(gs, n, DevGuessWindow)
           L == Len(gs)
           P == Len(p)
           M == DeviceFailuresMax
           W == DeviceWindowSeconds
<1>1. /\ gs \in Seq(Nat) /\ L <= DevGuessWindow /\ L \in Nat /\ a.devFailures <= L
      /\ a.windowStart <= n /\ (L # 0 => a.windowStart # Null)
      /\ a.windowStart # Null => a.devFailures # 0
      /\ \A j \in 1..L : gs[j] \in Nat /\ gs[j] <= n
      /\ \A j \in 1..L : j <= L - a.devFailures + 1 => gs[j] - MaxLag <= a.windowStart
      /\ \A j \in 1..L : j <= L - a.devFailures - M => gs[j] - MaxLag + W <= a.windowStart
  BY LenProperties DEF GuessesWindowed
<1>2. DevGuessWindow \in Nat \ {0} /\ DevGuessWindow = 2 * M + 1
  BY Numbers DEF DevGuessWindow
<1> DEFINE d == Dropped(gs, DevGuessWindow)
<1>3. p \in Seq(Nat) /\ P = L + 1 - d /\ p[P] = n /\ \A j \in 1..(L - d) : p[j] = gs[j + d]
  BY <1>1, <1>2, PushedProperties
<1>4. /\ d \in {0, 1} /\ (d = 1 => L = DevGuessWindow) /\ P \in Nat /\ P <= DevGuessWindow
      /\ P - 1 = L - d /\ \A j \in 1..(P - 1) : j + d \in 1..L /\ p[j] = gs[j + d]
  <2>1. d \in {0, 1} /\ (d = 1 => L = DevGuessWindow) /\ (d = 0 => L + 1 <= DevGuessWindow)
    BY <1>1, <1>2 DEF Dropped
  <2> HIDE DEF d, p, P, L
  <2>2. P \in Nat /\ P <= DevGuessWindow /\ P - 1 = L - d
    BY <1>1, <1>2, <1>3, <2>1
  <2>3. \A j \in 1..(P - 1) : j + d \in 1..L
    BY <1>1, <2>1, <2>2
  <2> QED BY <1>3, <2>1, <2>2, <2>3
<1>5. /\ a.devFailures \in Nat /\ a.devFailures <= M /\ a.windowStart \in Int
      /\ b.devFailures \in Nat /\ b.devFailures <= M /\ b.windowStart \in Int
  BY RowNumbers
<1> HIDE DEF p, P, L, d
<1>len. /\ P = L + 1 - d /\ L \in Nat /\ d \in {0, 1} /\ P \in Nat
        /\ (d = 1 => L = DevGuessWindow) /\ P - 1 = L - d
  BY <1>1, <1>3, <1>4
<1>6. \A j \in 1..P : p[j] \in Nat /\ p[j] <= n
  <2> TAKE j \in 1..P
  <2>1. CASE j = P
    BY <1>3, <2>1
  <2>2. CASE j \in 1..(P - 1)
    BY <1>1, <1>4, <2>2
  <2> QED BY <1>3, <2>1, <2>2
<1>7. b.devFailures <= P
  <2>1. a.devFailures <= L
    BY <1>1
  <2>2. CASE d = 0
    BY <1>len, <1>5, <2>1, <2>2
  <2>3. CASE d = 1
    BY <1>len, <1>2, <1>5, <2>3, Numbers
  <2> QED BY <1>len, <2>2, <2>3
<1>8. b.windowStart <= n /\ b.windowStart # Null /\ b.devFailures # 0
  <2>1. CASE InWindow(a, t)
    BY <1>1, <1>5, <2>1 DEF InWindow
  <2>2. CASE ~InWindow(a, t)
    BY <2>2 DEF Null
  <2> QED BY <2>1, <2>2
<1>9. ASSUME NEW j \in 1..P, j <= P - b.devFailures + 1
       PROVE  p[j] - MaxLag <= b.windowStart
  <2>1. CASE ~InWindow(a, t)
    <3>1. b.windowStart = t /\ p[j] \in Nat /\ p[j] <= n
      BY <1>6, <2>1
    <3> QED BY <3>1, Numbers
  <2>2. CASE InWindow(a, t)
    <3>1. b.devFailures = a.devFailures + 1 /\ b.windowStart = a.windowStart
      BY <2>2
    <3>2. CASE j \in 1..(P - 1)
      <4>1. j + d \in 1..L /\ p[j] = gs[j + d]
        BY <1>4, <3>2
      <4>2. j + d <= L - a.devFailures + 1
        BY <1>len, <1>5, <1>9, <3>1
      <4> QED BY <1>1, <3>1, <4>1, <4>2
    <3>3. CASE j = P
      <4>1. a.devFailures = 0
        BY <1>3, <1>5, <1>9, <3>1, <3>3
      <4>2. a.devFailures # 0
        BY <1>1, <2>2 DEF InWindow
      <4> QED BY <4>1, <4>2
    <3> QED BY <1>3, <3>2, <3>3
  <2> QED BY <2>1, <2>2
<1>10. ASSUME NEW j \in 1..P, j <= P - b.devFailures - M
       PROVE  p[j] - MaxLag + W <= b.windowStart
  <2>1. j \in 1..(P - 1)
    BY <1>3, <1>5, <1>10, Numbers
  <2>2. j + d \in 1..L /\ p[j] = gs[j + d] /\ gs[j + d] \in Nat
    BY <1>1, <1>4, <2>1
  <2>3. CASE InWindow(a, t)
    <3>1. b.devFailures = a.devFailures + 1 /\ b.windowStart = a.windowStart
      BY <2>3
    <3>2. j + d <= L - a.devFailures - M
      BY <1>len, <1>5, <1>10, <3>1, Numbers
    <3> QED BY <1>1, <2>2, <3>1, <3>2
  <2>4. CASE ~InWindow(a, t)
    <3>1. b.devFailures = 1 /\ b.windowStart = t
      BY <2>4
    <3>2. j + d <= L - a.devFailures + 1
      BY <1>len, <1>5, <1>10, <3>1, Numbers
    <3>3. gs[j + d] - MaxLag <= a.windowStart
      BY <1>1, <2>2, <3>2
    <3>4. a.windowStart # Null
      BY <1>1, <2>2
    <3>5. a.windowStart + W <= t
      BY <1>5, <2>4, <3>4, Numbers DEF InWindow
    <3> QED BY <1>5, <2>2, <3>1, <3>3, <3>5, Numbers
  <2> QED BY <2>3, <2>4
<1>11. ASSUME P = DevGuessWindow PROVE p[DevGuessWindow] - p[1] >= W - MaxLag
  <2>1. 1 \in 1..P /\ 1 <= P - b.devFailures - M
    BY <1>2, <1>5, <1>11, Numbers
  <2>2. p[1] - MaxLag + W <= b.windowStart /\ p[1] \in Nat
    BY <1>6, <1>10, <2>1
  <2>3. p[DevGuessWindow] = n
    BY <1>3, <1>11
  <2> QED BY <1>5, <1>8, <2>2, <2>3, Numbers
<1> QED BY <1>3, <1>4, <1>6, <1>7, <1>8, <1>9, <1>10, <1>11 DEF GuessesWindowed, P, p

(* A lock that starts has a warning of its day: one queued now, or the     *)
(* last one, which is not a day old (count_failure).                       *)
LEMMA LockWarned ==
  ASSUME NEW ms, NEW a \in Row, NEW b \in Row, NEW t \in Nat, Warned(ms, a),
         b.lockedUntil = t + LockSeconds,
         b.mailedAt = IF a.mailedAt = Null \/ a.mailedAt <= t - LockoutMailSeconds
                        THEN t ELSE a.mailedAt
  PROVE  Warned(IF b.mailedAt = t THEN Append(ms, t) ELSE ms, b)
<1>1. ms \in Seq(Nat) /\ Len(ms) \in Nat
  BY LenProperties DEF Warned
<1>2. b.lockedUntil - LockSeconds - LockoutMailSeconds = t - LockoutMailSeconds
  BY Numbers
<1>3. t > t - LockoutMailSeconds
  BY Numbers
<1>4. CASE b.mailedAt = t
  <2> DEFINE new == Append(ms, t)
  <2>1. new \in Seq(Nat) /\ Len(new) = Len(ms) + 1 /\ new[Len(ms) + 1] = t
    BY <1>1, AppendProperties
  <2>2. Len(ms) + 1 \in 1..Len(new)
    BY <1>1, <2>1
  <2> HIDE DEF new
  <2>3. Warned(new, b)
    BY <1>2, <1>3, <1>4, <2>1, <2>2 DEF Warned
  <2> QED BY <1>4, <2>3 DEF new
<1>5. CASE b.mailedAt # t
  <2>1. b.mailedAt = a.mailedAt /\ a.mailedAt # Null /\ ~(a.mailedAt <= t - LockoutMailSeconds)
    BY <1>5
  <2>2. PICK i \in 1..Len(ms) : ms[i] = a.mailedAt
    BY <2>1 DEF Warned
  <2>3. ms[i] > t - LockoutMailSeconds
    BY <2>1, <2>2, RowNumbers, Numbers
  <2>4. Warned(ms, b)
    BY <1>1, <1>2, <2>1, <2>2, <2>3 DEF Warned
  <2> QED BY <1>5, <2>4
<1> QED BY <1>4, <1>5

(* Later, and with the same counts and times, the histories are as good.   *)
LEMMA HistoriesKept ==
  ASSUME NEW a \in Row, NEW b, NEW t \in Nat, NEW u \in Nat, t <= u,
         b.failed = a.failed, b.lockedUntil = a.lockedUntil, b.mailedAt = a.mailedAt,
         b.devFailures = a.devFailures, b.windowStart = a.windowStart
  PROVE  /\ \A gs : GuessesLocked(gs, a, t) => GuessesLocked(gs, b, u)
         /\ \A gs : GuessesWindowed(gs, a, t) => GuessesWindowed(gs, b, u)
         /\ \A ms : Warned(ms, a) => Warned(ms, b)
<1>1. ASSUME NEW gs, GuessesLocked(gs, a, t) PROVE GuessesLocked(gs, b, u)
  <2>1. \A j \in 1..Len(gs) : gs[j] \in Nat /\ gs[j] <= t
    BY <1>1, LenProperties DEF GuessesLocked
  <2>2. \A j \in 1..Len(gs) : gs[j] <= u
    BY <2>1
  <2> QED BY <1>1, <2>2 DEF GuessesLocked
<1>2. ASSUME NEW gs, GuessesWindowed(gs, a, t) PROVE GuessesWindowed(gs, b, u)
  <2>1. \A j \in 1..Len(gs) : gs[j] \in Nat /\ gs[j] <= t
    BY <1>2, LenProperties DEF GuessesWindowed
  <2>2. \A j \in 1..Len(gs) : gs[j] <= u
    BY <2>1
  <2>3. a.windowStart <= u
    BY <1>2, RowNumbers DEF GuessesWindowed
  <2> QED BY <1>2, <2>2, <2>3 DEF GuessesWindowed
<1>3. ASSUME NEW ms, Warned(ms, a) PROVE Warned(ms, b)
  BY <1>3 DEF Warned
<1> QED BY <1>1, <1>2, <1>3

(* No failure is on record for an account whose counts were reset.         *)
LEMMA HistoriesReset ==
  ASSUME NEW b, NEW t \in Nat, b.failed = 0, b.devFailures = 0, b.windowStart = Null
  PROVE  GuessesLocked(<<>>, b, t) /\ GuessesWindowed(<<>>, b, t)
<1>1. <<>> \in Seq(Nat) /\ Len(<<>>) = 0
  BY EmptySeq
<1>2. GuessWindow > 0 /\ DevGuessWindow > 0 /\ GuessWindow \in Nat /\ DevGuessWindow \in Nat
  BY Numbers DEF GuessWindow, DevGuessWindow
<1>3. Null <= t
  BY DEF Null
<1> QED BY <1>1, <1>2, <1>3 DEF GuessesLocked, GuessesWindowed

-----------------------------------------------------------------------------
(* Steps *)

(* A check that ends leaves the others what they hold.                     *)
LEMMA DoneHeld ==
  ASSUME Types, NEW r \in Slots, Done(r), now' = now
  PROVE  reqs' = [q \in Slots |-> reqs'[q]] /\ \A q \in Slots : Held(reqs[q])'
<1>1. reqs' = [q \in Slots |-> IF q = r THEN Idle ELSE reqs[q]]
  BY DEF Done, Types
<1>2. ASSUME NEW q \in Slots PROVE Held(reqs[q])'
  <2>1. Held(reqs[q])
    BY DEF Types
  <2>2. CASE reqs'[q] = Idle
    BY <2>2 DEF Held
  <2>3. CASE reqs'[q] = reqs[q]
    BY <2>1, <2>3 DEF Held
  <2> QED BY <1>1, <2>2, <2>3
<1> QED BY <1>1, <1>2

(* A check begins, or waits while the clock goes on (check).               *)
LEMMA WaitInv ==
  ASSUME Inv, Tick \/ \E r \in Slots : Begin(r)
  PROVE  Inv'
<1>1. /\ acct' = acct /\ unlocks' = unlocks /\ mails' = mails /\ guesses' = guesses
      /\ devGuesses' = devGuesses
  BY DEF Tick, Begin
<1>2. Types /\ now \in Nat /\ acct \in Row
  BY DEF Inv, Types
<1>3. now' \in Nat /\ now <= now'
  BY <1>2 DEF Tick, Begin
<1>4. GuessesLocked(guesses', acct', now') /\ GuessesWindowed(devGuesses', acct', now') /\ Warned(mails', acct')
  BY <1>1, <1>2, <1>3, HistoriesKept DEF Inv
<1>5. reqs' = [q \in Slots |-> reqs'[q]] /\ \A q \in Slots : Held(reqs[q])'
  <2>1. CASE Tick
    <3>1. reqs' = reqs /\ now' = now + 1
      BY <2>1 DEF Tick
    <3>2. ASSUME NEW q \in Slots PROVE Held(reqs[q])'
      <4>1. Held(reqs[q]) /\ (reqs[q] # Idle => now - reqs[q].t < MaxLag)
        BY <1>2, <2>1 DEF Types, Tick
      <4>2. CASE reqs[q] = Idle
        BY <3>1, <4>2 DEF Held
      <4>3. CASE reqs[q] # Idle
        <5>1. reqs[q].t \in Nat /\ reqs[q].t <= now /\ now - reqs[q].t < MaxLag
          BY <4>1, <4>3 DEF Held
        <5>2. reqs[q].t <= now' /\ now' - reqs[q].t <= MaxLag
          BY <1>2, <3>1, <5>1, Numbers
        <5> QED BY <3>1, <4>1, <4>3, <5>1, <5>2 DEF Held
      <4> QED BY <4>2, <4>3
    <3> QED BY <1>2, <3>1, <3>2 DEF Types
  <2>2. ASSUME NEW r \in Slots, Begin(r)
        PROVE  reqs' = [q \in Slots |-> reqs'[q]] /\ \A q \in Slots : Held(reqs[q])'
    <3>1. PICK known \in BOOLEAN, in \in Typed :
            reqs' = [reqs EXCEPT ![r] =
                       [t |-> now, known |-> known, typed |-> in.typed, code |-> in.code,
                        hash |-> Verified(acct, known, now, in.typed)]]
      BY <2>2 DEF Begin
    <3> DEFINE v == [t |-> now, known |-> known, typed |-> in.typed, code |-> in.code,
                     hash |-> Verified(acct, known, now, in.typed)]
    <3>2. now' = now
      BY <2>2 DEF Begin
    <3>3. in.code.kind = "totp" => in.code.step \in Int
      <4>1. StepAt(now) \in Int
        BY <1>2, Numbers DEF StepAt
      <4>2. in.code = NoCode \/ in.code = TotpCode(acct.nonce, StepAt(now))
        BY DEF Typed
      <4> QED BY <4>1, <4>2 DEF NoCode, TotpCode
    <3>4. v.t = now /\ v.known \in BOOLEAN /\ v.code = in.code
      OBVIOUS
    <3> HIDE DEF v
    <3>5. now <= now /\ now - now <= MaxLag
      BY <1>2, Numbers
    <3>6. reqs' = [q \in Slots |-> IF q = r THEN v ELSE reqs[q]]
      BY <1>2, <3>1 DEF Types, v
    <3>7. ASSUME NEW q \in Slots PROVE Held(reqs[q])'
      <4>1. CASE q = r
        <5>1. reqs'[q] = v
          BY <3>6, <4>1
        <5> QED BY <1>2, <3>2, <3>3, <3>4, <3>5, <5>1 DEF Held
      <4>2. CASE q # r
        <5>1. reqs'[q] = reqs[q] /\ Held(reqs[q])
          BY <1>2, <3>6, <4>2 DEF Types
        <5> QED BY <3>2, <5>1 DEF Held
      <4> QED BY <4>1, <4>2
    <3> QED BY <3>6, <3>7
  <2> QED BY <2>1, <2>2
<1> QED BY <1>1, <1>2, <1>3, <1>4, <1>5 DEF Inv, Types

(* A check that ends with nothing counted (Outcome::Busy, blocked,         *)
(* Outcome::TwoFactorRequired).                                            *)
LEMMA NothingCountedInv ==
  ASSUME Inv, NEW r \in Slots, Busy(r) \/ Refused(r) \/ TwoFactorRequired(r)
  PROVE  Inv'
<1>1. /\ Done(r) /\ now' = now /\ acct' = acct /\ unlocks' = unlocks /\ mails' = mails
      /\ guesses' = guesses /\ devGuesses' = devGuesses
  BY DEF Busy, Refused, TwoFactorRequired
<1>2. Types
  BY DEF Inv
<1>3. reqs' = [q \in Slots |-> reqs'[q]] /\ \A q \in Slots : Held(reqs[q])'
  BY <1>1, <1>2, DoneHeld
<1>4. Types'
  BY <1>1, <1>2, <1>3 DEF Types, Row, Roles, Time
<1> QED BY <1>1, <1>4 DEF Inv

(* What a check holds that counts a failure: it was not blocked at its     *)
(* time (blocked, count_failure).                                          *)
LEMMA FailureCounted ==
  ASSUME Inv, NEW r \in Slots, Fails(r)
  PROVE  /\ reqs[r].t \in Nat /\ reqs[r].t <= now /\ now - reqs[r].t <= MaxLag
         /\ reqs[r] # Idle /\ reqs'[r] = Idle
         /\ \/ /\ reqs[r].known
               /\ ~(InWindow(acct, reqs[r].t) /\ acct.devFailures >= DeviceFailuresMax)
               /\ acct' = CountDeviceFailure(acct, reqs[r].t)
               /\ mails' = mails /\ guesses' = guesses
               /\ devGuesses' = Pushed(devGuesses, now, DevGuessWindow)
            \/ /\ ~reqs[r].known
               /\ ~Locked(acct, reqs[r].t)
               /\ acct' = CountLoginFailure(acct, reqs[r].t)
               /\ mails' = IF QueuesLockoutMail(acct, reqs[r].known, reqs[r].t)
                             THEN Append(mails, reqs[r].t) ELSE mails
               /\ guesses' = Pushed(guesses, now, GuessWindow) /\ devGuesses' = devGuesses
<1> DEFINE v == reqs[r]
<1>1. v # Idle /\ ~Blocked(acct, v.known, v.t)
  BY DEF Fails, Deciding, PasswordRight
<1>2. /\ v.t \in Nat /\ v.t <= now /\ now - v.t <= MaxLag /\ v.known \in BOOLEAN
  BY <1>1 DEF Inv, Types, Held
<1>3. reqs'[r] = Idle
  BY DEF Fails, Done, Inv, Types
<1>4. /\ acct' = CountFailure(acct, v.known, v.t)
      /\ mails' = IF QueuesLockoutMail(acct, v.known, v.t) THEN Append(mails, v.t) ELSE mails
      /\ IF v.known
           THEN devGuesses' = Pushed(devGuesses, now, DevGuessWindow) /\ guesses' = guesses
           ELSE guesses' = Pushed(guesses, now, GuessWindow) /\ devGuesses' = devGuesses
  BY DEF Fails
<1> HIDE DEF v
<1>5. CASE v.known
  <2>1. acct' = CountDeviceFailure(acct, v.t)
    BY <1>4, <1>5 DEF CountFailure
  <2>2. mails' = mails
    BY <1>4, <1>5 DEF QueuesLockoutMail
  <2>3. ~(InWindow(acct, v.t) /\ acct.devFailures >= DeviceFailuresMax)
    BY <1>1, <1>5 DEF Blocked
  <2> QED BY <1>1, <1>2, <1>3, <1>4, <1>5, <2>1, <2>2, <2>3 DEF v
<1>6. CASE ~v.known
  <2>1. acct' = CountLoginFailure(acct, v.t)
    BY <1>4, <1>6 DEF CountFailure
  <2>2. ~Locked(acct, v.t)
    BY <1>1, <1>6 DEF Blocked
  <2> QED BY <1>1, <1>2, <1>3, <1>4, <1>6, <2>1, <2>2 DEF v
<1> QED BY <1>5, <1>6

(* A counted failure (count_failure).                                      *)
LEMMA FailsInv ==
  ASSUME Inv, NEW r \in Slots, Fails(r)
  PROVE  Inv'
<1> DEFINE t == reqs[r].t
<1>1. Types /\ acct \in Row /\ now \in Nat /\ unlocks \in Nat
  BY DEF Inv, Types
<1>2. now' = now /\ unlocks' = unlocks /\ Done(r)
  BY DEF Fails
<1>3. reqs' = [q \in Slots |-> reqs'[q]] /\ \A q \in Slots : Held(reqs[q])'
  BY <1>1, <1>2, DoneHeld
<1>4. t \in Nat /\ t <= now /\ now - t <= MaxLag
  BY FailureCounted
<1>5. now <= now
  BY <1>1
<1> HIDE DEF t
<1>6. /\ acct' \in Row /\ GuessesLocked(guesses', acct', now)
      /\ GuessesWindowed(devGuesses', acct', now) /\ Warned(mails', acct')
  <2>1. CASE /\ ~(InWindow(acct, t) /\ acct.devFailures >= DeviceFailuresMax)
             /\ acct' = CountDeviceFailure(acct, t)
             /\ mails' = mails /\ guesses' = guesses
             /\ devGuesses' = Pushed(devGuesses, now, DevGuessWindow)
    <3> DEFINE b == CountDeviceFailure(acct, t)
    <3>1. /\ b \in Row /\ b.failed = acct.failed /\ b.lockedUntil = acct.lockedUntil
          /\ b.mailedAt = acct.mailedAt
          /\ IF InWindow(acct, t)
               THEN b.devFailures = acct.devFailures + 1 /\ b.windowStart = acct.windowStart
               ELSE b.devFailures = 1 /\ b.windowStart = t
      BY <1>1, <1>4, <2>1, DeviceFailureRow
    <3>2. acct' = b
      BY <2>1
    <3> HIDE DEF b
    <3>3. GuessesWindowed(Pushed(devGuesses, now, DevGuessWindow), b, now)
      BY <1>1, <1>4, <3>1, DeviceFailureKeeps DEF Inv
    <3>4. GuessesLocked(guesses, b, now)
      BY <3>1 DEF Inv, GuessesLocked
    <3>5. Warned(mails, b)
      BY <3>1 DEF Inv, Warned
    <3> QED BY <2>1, <3>1, <3>2, <3>3, <3>4, <3>5
  <2>2. CASE /\ ~reqs[r].known /\ ~Locked(acct, t)
             /\ acct' = CountLoginFailure(acct, t)
             /\ mails' = IF QueuesLockoutMail(acct, reqs[r].known, t) THEN Append(mails, t) ELSE mails
             /\ guesses' = Pushed(guesses, now, GuessWindow) /\ devGuesses' = devGuesses
    <3> DEFINE b == CountLoginFailure(acct, t)
    <3>1. /\ b \in Row /\ b.devFailures = acct.devFailures /\ b.windowStart = acct.windowStart
          /\ IF LockStarts(acct)
               THEN /\ b.failed = 0 /\ b.lockedUntil = t + LockSeconds
                    /\ b.mailedAt = IF acct.mailedAt = Null \/ acct.mailedAt <= t - LockoutMailSeconds
                                      THEN t ELSE acct.mailedAt
               ELSE /\ b.failed = acct.failed + 1 /\ b.lockedUntil = acct.lockedUntil
                    /\ b.mailedAt = acct.mailedAt
      BY <1>1, <1>4, LoginFailureRow
    <3>2. acct' = b
      BY <2>2
    <3>3. mails' = IF b.lockedUntil = t + LockSeconds /\ b.mailedAt = t THEN Append(mails, t) ELSE mails
      BY <2>2 DEF QueuesLockoutMail
    <3> HIDE DEF b
    <3>4. GuessesLocked(Pushed(guesses, now, GuessWindow), b, now)
      <4>1. IF LockStarts(acct)
              THEN b.failed = 0 /\ b.lockedUntil = t + LockSeconds
              ELSE b.failed = acct.failed + 1 /\ b.lockedUntil = acct.lockedUntil
        BY <3>1
      <4>2. GuessesLocked(guesses, acct, now) /\ ~Locked(acct, t)
        BY <2>2 DEF Inv
      <4> QED BY <1>1, <1>4, <3>1, <4>1, <4>2, LoginFailureKeeps
    <3>5. GuessesWindowed(devGuesses, b, now)
      BY <3>1 DEF Inv, GuessesWindowed
    <3>6. Warned(mails', b)
      <4>1. CASE LockStarts(acct)
        <5>1. mails' = IF b.mailedAt = t THEN Append(mails, t) ELSE mails
          BY <3>1, <3>3, <4>1
        <5>2. Warned(IF b.mailedAt = t THEN Append(mails, t) ELSE mails, b)
          BY <1>1, <1>4, <3>1, <4>1, LockWarned DEF Inv
        <5> QED BY <5>1, <5>2
      <4>2. CASE ~LockStarts(acct)
        <5>1. b.lockedUntil = acct.lockedUntil /\ b.mailedAt = acct.mailedAt
          BY <3>1, <4>2
        <5>2. acct.lockedUntil = Null \/ acct.lockedUntil <= t
          BY <1>1, <1>4, <2>2, RowNumbers DEF Locked
        <5>3. b.lockedUntil # t + LockSeconds
          BY <1>1, <1>4, <5>1, <5>2, RowNumbers, Numbers DEF Null
        <5>4. mails' = mails
          BY <3>3, <5>3
        <5> QED BY <5>1, <5>4 DEF Inv, Warned
      <4> QED BY <4>1, <4>2
    <3> QED BY <2>2, <3>1, <3>2, <3>4, <3>5, <3>6
  <2> QED BY <2>1, <2>2, FailureCounted DEF t
<1> QED BY <1>1, <1>2, <1>3, <1>6 DEF Inv, Types

(* A check that succeeds resets the counts and may set a new password      *)
(* (decide, clear_failures).                                               *)
LEMMA SucceedsRow ==
  ASSUME Inv, NEW r \in Slots, Succeeds(r)
  PROVE  /\ acct' \in Row /\ acct'.failed = 0 /\ acct'.devFailures = 0 /\ acct'.windowStart = Null
         /\ acct'.lockedUntil = acct.lockedUntil /\ acct'.mailedAt = acct.mailedAt
<1> DEFINE a == IF acct.nonce = 0 THEN acct ELSE StepRecorded(acct, reqs[r].code)
           b == Cleared(a)
           c == [b EXCEPT !.hash = @ + 1]
<1>1. reqs[r] # Idle /\ acct \in Row
  BY DEF Succeeds, PasswordRight, Deciding, Inv, Types
<1>2. reqs[r].code.kind = "totp" => reqs[r].code.step \in Int
  BY <1>1 DEF Inv, Types, Held
<1>3. acct' = b \/ acct' = c
  BY DEF Succeeds
<1>4. a \in Row /\ a.lockedUntil = acct.lockedUntil /\ a.mailedAt = acct.mailedAt
  BY <1>1, <1>2 DEF StepRecorded, Row
<1> HIDE DEF a
<1>5. /\ b \in Row /\ b.failed = 0 /\ b.devFailures = 0 /\ b.windowStart = Null
      /\ b.lockedUntil = acct.lockedUntil /\ b.mailedAt = acct.mailedAt
  BY <1>4, ClearedRow
<1> HIDE DEF b
<1>6. /\ c \in Row /\ c.failed = 0 /\ c.devFailures = 0 /\ c.windowStart = Null
      /\ c.lockedUntil = acct.lockedUntil /\ c.mailedAt = acct.mailedAt
  BY <1>5 DEF Row
<1> HIDE DEF c
<1> QED BY <1>3, <1>5, <1>6

(* A success keeps the invariant (decide).                                 *)
LEMMA SucceedsInv ==
  ASSUME Inv, NEW r \in Slots, Succeeds(r)
  PROVE  Inv'
<1>1. /\ acct' \in Row /\ acct'.failed = 0 /\ acct'.devFailures = 0 /\ acct'.windowStart = Null
      /\ acct'.lockedUntil = acct.lockedUntil /\ acct'.mailedAt = acct.mailedAt
  BY SucceedsRow
<1>2. /\ Done(r) /\ now' = now /\ unlocks' = unlocks /\ mails' = mails
      /\ guesses' = <<>> /\ devGuesses' = <<>>
  BY DEF Succeeds
<1>3. Types /\ now \in Nat /\ unlocks \in Nat
  BY DEF Inv, Types
<1>4. reqs' = [q \in Slots |-> reqs'[q]] /\ \A q \in Slots : Held(reqs[q])'
  BY <1>2, <1>3, DoneHeld
<1>5. GuessesLocked(<<>>, acct', now) /\ GuessesWindowed(<<>>, acct', now)
  BY <1>1, <1>3, HistoriesReset
<1>6. Warned(mails, acct')
  BY <1>1 DEF Inv, Warned
<1> QED BY <1>1, <1>2, <1>3, <1>4, <1>5, <1>6 DEF Inv, Types

(* kohaku admin unlock also ends the lock (unlock).                        *)
LEMMA UnlockedRow ==
  ASSUME NEW a \in Row
  PROVE  LET b == Unlocked(a)
         IN  /\ b \in Row /\ b.failed = 0 /\ b.devFailures = 0 /\ b.windowStart = Null
             /\ b.lockedUntil = Null /\ b.mailedAt = a.mailedAt
<1> DEFINE c == Cleared(a)
           d == [c EXCEPT !.lockedUntil = Null]
<1>1. Unlocked(a) = d
  BY DEF Unlocked
<1>2. /\ c \in Row /\ c.failed = 0 /\ c.devFailures = 0 /\ c.windowStart = Null
      /\ c.mailedAt = a.mailedAt
  BY ClearedRow
<1> HIDE DEF c
<1>3. /\ d \in Row /\ d.failed = 0 /\ d.devFailures = 0 /\ d.windowStart = Null
      /\ d.lockedUntil = Null /\ d.mailedAt = a.mailedAt
  BY <1>2 DEF Row, Time
<1> HIDE DEF d
<1> QED BY <1>1, <1>3

(* An unlock or a new password by a reset link (unlock, link_submit).      *)
LEMMA OutsideInv ==
  ASSUME Inv, Unlock \/ LinkSubmit
  PROVE  Inv'
<1>1. Types /\ now \in Nat /\ unlocks \in Nat /\ acct \in Row
  BY DEF Inv, Types
<1>2. now' = now /\ reqs' = reqs /\ mails' = mails /\ unlocks' \in Nat
  BY <1>1 DEF Unlock, LinkSubmit
<1>3. reqs' = [q \in Slots |-> reqs'[q]] /\ \A q \in Slots : Held(reqs[q])'
  BY <1>1, <1>2 DEF Types, Held
<1>4. CASE Unlock
  <2>1. acct' = Unlocked(acct) /\ guesses' = <<>> /\ devGuesses' = <<>>
    BY <1>4 DEF Unlock
  <2>2. /\ acct' \in Row /\ acct'.failed = 0 /\ acct'.devFailures = 0 /\ acct'.windowStart = Null
        /\ acct'.lockedUntil = Null /\ acct'.mailedAt = acct.mailedAt
    BY <1>1, <2>1, UnlockedRow
  <2>3. GuessesLocked(<<>>, acct', now) /\ GuessesWindowed(<<>>, acct', now)
    BY <1>1, <2>2, HistoriesReset
  <2>4. Warned(mails, acct')
    BY <2>2 DEF Inv, Warned
  <2> QED BY <1>1, <1>2, <1>3, <2>1, <2>2, <2>3, <2>4 DEF Inv, Types
<1>5. CASE LinkSubmit
  <2> DEFINE b == [acct EXCEPT !.hash = @ + 1]
  <2>1. acct' = b /\ guesses' = guesses /\ devGuesses' = devGuesses
    BY <1>5 DEF LinkSubmit
  <2>2. /\ b \in Row /\ b.failed = acct.failed /\ b.lockedUntil = acct.lockedUntil
        /\ b.mailedAt = acct.mailedAt
        /\ b.devFailures = acct.devFailures /\ b.windowStart = acct.windowStart
    BY <1>1 DEF Row
  <2> HIDE DEF b
  <2>3. GuessesLocked(guesses, b, now) /\ GuessesWindowed(devGuesses, b, now) /\ Warned(mails, b)
    BY <2>2 DEF Inv, GuessesLocked, GuessesWindowed, Warned
  <2> QED BY <1>1, <1>2, <1>3, <2>1, <2>2, <2>3 DEF Inv, Types
<1> QED BY <1>4, <1>5

-----------------------------------------------------------------------------
(* A new account has no failure, lock or mail on record.                   *)
LEMMA InitInv == Init => Inv
<1> SUFFICES ASSUME Init PROVE Inv
  OBVIOUS
<1>1. PICK role \in Roles, hash \in 0..MaxHash, nonce \in {0, 1} : acct = NewAccount(role, hash, nonce)
  BY LockoutAssumption DEF Init
<1>2. hash \in Nat /\ nonce \in Nat
  <2>1. MaxHash \in Nat
    BY LockoutAssumption
  <2> QED BY <2>1
<1>3. Null \in Time /\ Null \in Int /\ 0 \in 0..(LockAfter - 1) /\ 0 \in 0..DeviceFailuresMax
  BY Numbers DEF Time, Null
<1>4. /\ acct \in Row /\ acct.failed = 0 /\ acct.devFailures = 0 /\ acct.windowStart = Null
      /\ acct.lockedUntil = Null /\ acct.mailedAt = Null
  BY <1>1, <1>2, <1>3 DEF NewAccount, Row
<1>5. /\ now = 0 /\ unlocks = 0 /\ mails = <<>> /\ guesses = <<>> /\ devGuesses = <<>>
      /\ reqs = [r \in Slots |-> Idle]
  BY DEF Init
<1>6. reqs = [r \in Slots |-> reqs[r]] /\ \A r \in Slots : Held(reqs[r])
  BY <1>5 DEF Held
<1>7. GuessesLocked(guesses, acct, now) /\ GuessesWindowed(devGuesses, acct, now)
  BY <1>4, <1>5, HistoriesReset
<1>8. Warned(mails, acct)
  BY <1>4, <1>5, EmptySeq DEF Warned
<1> QED BY <1>4, <1>5, <1>6, <1>7, <1>8 DEF Inv, Types

(* The invariant holds in every state, whatever checks run at once.        *)
THEOREM Invariance == Spec => []Inv
<1>1. Inv /\ [Next]_vars => Inv'
  <2> SUFFICES ASSUME Inv, [Next]_vars PROVE Inv'
    OBVIOUS
  <2>1. CASE Tick
    BY <2>1, WaitInv
  <2>2. ASSUME NEW r \in Slots, Check(r) PROVE Inv'
    BY <2>2, WaitInv, NothingCountedInv, FailsInv, SucceedsInv DEF Check
  <2>3. CASE LinkSubmit \/ Unlock
    BY <2>3, OutsideInv
  <2>4. CASE UNCHANGED vars
    BY <2>4 DEF vars, Inv, Types, Held
  <2> QED BY <2>1, <2>2, <2>3, <2>4 DEF Next
<1> QED BY <1>1, InitInv, PTL DEF Spec

(* LockAfter + 1 failures in a row without a device cookie take at least   *)
(* the lock's duration, less the lag (blocked, count_failure).             *)
THEOREM GuessesStayBounded == Spec => []GuessesBounded
<1>1. Inv => GuessesBounded
  BY DEF Inv, GuessesLocked, GuessesBounded
<1> QED BY <1>1, Invariance, PTL

(* Twice the window's allowance and one more take a window at least, less  *)
(* the lag (blocked, count_failure).                                       *)
THEOREM DeviceGuessesStayBounded == Spec => []DeviceGuessesBounded
<1>1. Inv => DeviceGuessesBounded
  BY DEF Inv, GuessesWindowed, DeviceGuessesBounded
<1> QED BY <1>1, Invariance, PTL

(* Every lock has a warning of its day (count_failure).                    *)
THEOREM LocksWarned == Spec => []EveryLockWarned
<1>1. Inv => EveryLockWarned
  BY LenProperties DEF Inv, Warned, EveryLockWarned
<1> QED BY <1>1, Invariance, PTL

(* A lock starts only at the LockAfter-th failure, and only unlock ends or *)
(* shortens one (count_failure, unlock).                                   *)
THEOREM LocksEarned == Spec => LockOnlyAfterFailures
<1> DEFINE A == acct'.lockedUntil # acct.lockedUntil =>
                  IF unlocks' # unlocks
                    THEN acct'.lockedUntil = Null
                    ELSE /\ acct'.lockedUntil > acct.lockedUntil
                         /\ Len(guesses') >= LockAfter
<1>1. Inv /\ [Next]_vars => A
  <2> SUFFICES ASSUME Inv, [Next]_vars, acct'.lockedUntil # acct.lockedUntil
               PROVE  IF unlocks' # unlocks
                        THEN acct'.lockedUntil = Null
                        ELSE acct'.lockedUntil > acct.lockedUntil /\ Len(guesses') >= LockAfter
    OBVIOUS
  <2>1. acct \in Row /\ unlocks \in Nat
    BY DEF Inv, Types
  <2>2. ASSUME NEW r \in Slots, Fails(r)
        PROVE  unlocks' = unlocks /\ acct'.lockedUntil > acct.lockedUntil /\ Len(guesses') >= LockAfter
    <3> DEFINE t == reqs[r].t
    <3>1. t \in Nat /\ unlocks' = unlocks
      BY <2>2, FailureCounted DEF Fails
    <3>2. acct' # CountDeviceFailure(acct, t)
          \/ (InWindow(acct, t) /\ acct.devFailures >= DeviceFailuresMax)
      BY <2>1, <3>1, DeviceFailureRow
    <3>3. /\ ~Locked(acct, t) /\ acct' = CountLoginFailure(acct, t)
          /\ guesses' = Pushed(guesses, now, GuessWindow)
      BY <2>2, <3>2, FailureCounted
    <3>4. LockStarts(acct) /\ acct'.lockedUntil = t + LockSeconds
      BY <2>1, <3>1, <3>3, LoginFailureRow
    <3>5. acct.lockedUntil \in Int /\ (acct.lockedUntil = Null \/ acct.lockedUntil <= t)
      BY <2>1, <3>1, <3>3, RowNumbers DEF Locked
    <3>6. acct'.lockedUntil > acct.lockedUntil
      BY <3>1, <3>4, <3>5, Numbers DEF Null
    <3>7. /\ guesses \in Seq(Nat) /\ Len(guesses) <= GuessWindow /\ acct.failed <= Len(guesses)
          /\ now \in Nat /\ GuessWindow \in Nat \ {0} /\ GuessWindow = LockAfter + 1
      BY Numbers DEF Inv, GuessesLocked, Types, GuessWindow
    <3>8. Len(guesses') = Len(guesses) + 1 - Dropped(guesses, GuessWindow) /\ Len(guesses) \in Nat
      BY <3>3, <3>7, PushedProperties, LenProperties
    <3>9. Len(guesses') >= LockAfter
      <4>1. acct.failed \in Nat /\ acct.failed + 1 >= LockAfter
        BY <2>1, <3>4, RowNumbers DEF LockStarts
      <4> QED BY <3>7, <3>8, <4>1, Numbers DEF Dropped
    <3> QED BY <3>1, <3>6, <3>9
  <2>3. CASE Unlock
    <3>1. unlocks' # unlocks /\ acct' = Unlocked(acct)
      BY <2>1, <2>3 DEF Unlock
    <3> QED BY <2>1, <3>1, UnlockedRow
  <2>4. CASE LinkSubmit
    BY <2>1, <2>4 DEF LinkSubmit, Row
  <2>5. CASE Tick \/ UNCHANGED vars
    BY <2>5 DEF Tick, vars
  <2>6. ASSUME NEW r \in Slots, Begin(r) \/ Busy(r) \/ Refused(r) \/ TwoFactorRequired(r)
        PROVE  FALSE
    BY <2>6 DEF Begin, Busy, Refused, TwoFactorRequired
  <2>7. ASSUME NEW r \in Slots, Succeeds(r) PROVE FALSE
    BY <2>7, SucceedsRow
  <2> QED BY <2>2, <2>3, <2>4, <2>5, <2>6, <2>7 DEF Next, Check
<1> QED BY <1>1, Invariance, PTL DEF Spec, LockOnlyAfterFailures

(* Only a check with a device cookie moves the device window, unless the   *)
(* counts are reset (count_failure).                                       *)
THEOREM DevicesLeftAlone == Spec => StrangersBlockNoDevice
<1> DEFINE A == acct'.devFailures # acct.devFailures \/ acct'.windowStart # acct.windowStart =>
                  \/ guesses' = <<>>
                  \/ \E r \in Slots : reqs[r] # Idle /\ reqs'[r] = Idle /\ reqs[r].known
<1>1. Inv /\ [Next]_vars => A
  <2> SUFFICES ASSUME Inv, [Next]_vars,
                      acct'.devFailures # acct.devFailures \/ acct'.windowStart # acct.windowStart
               PROVE  \/ guesses' = <<>>
                      \/ \E r \in Slots : reqs[r] # Idle /\ reqs'[r] = Idle /\ reqs[r].known
    OBVIOUS
  <2>1. acct \in Row
    BY DEF Inv, Types
  <2>2. ASSUME NEW r \in Slots, Fails(r)
        PROVE  reqs[r] # Idle /\ reqs'[r] = Idle /\ reqs[r].known
    <3>1. reqs[r].t \in Nat /\ reqs[r] # Idle /\ reqs'[r] = Idle
      BY <2>2, FailureCounted
    <3>2. acct' # CountLoginFailure(acct, reqs[r].t)
      BY <2>1, <3>1, LoginFailureRow
    <3> QED BY <2>2, <3>1, <3>2, FailureCounted
  <2>3. CASE Unlock
    BY <2>3 DEF Unlock
  <2>4. CASE LinkSubmit
    BY <2>1, <2>4 DEF LinkSubmit, Row
  <2>5. CASE Tick \/ UNCHANGED vars
    BY <2>5 DEF Tick, vars
  <2>6. ASSUME NEW r \in Slots, Begin(r) \/ Busy(r) \/ Refused(r) \/ TwoFactorRequired(r)
        PROVE  FALSE
    BY <2>6 DEF Begin, Busy, Refused, TwoFactorRequired
  <2>7. ASSUME NEW r \in Slots, Succeeds(r) PROVE guesses' = <<>>
    BY <2>7 DEF Succeeds
  <2> QED BY <2>2, <2>3, <2>4, <2>5, <2>6, <2>7 DEF Next, Check
<1> QED BY <1>1, Invariance, PTL DEF Spec, StrangersBlockNoDevice
=============================================================================
