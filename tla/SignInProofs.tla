---------------------------- MODULE SignInProofs ----------------------------
(***************************************************************************)
(* Proofs about SignIn, for any number of accounts and of requests in      *)
(* progress: sessions and device cookies are those of the password and the *)
(* second factor in force, no code is accepted twice, and the tables keep  *)
(* their types and caps.                                                   *)
(***************************************************************************)
EXTENDS SignIn, FiniteSetTheorems, TLAPS

Pendings == [nonce : {0}] \cup [nonce : Nat \ {0}, user : Users]

SessionRow == [user : Users, cookie : Nat, pending : Pendings, hash : Nat, nonce : Nat]

Code == {NoCode} \cup [kind : {"totp"}, nonce : Nat, step : Nat]
                 \cup [kind : {"recovery"}, code : Nat]

(* What a request holds; only an account that may do without a second      *)
(* factor got past the first test of the page that turns it off.           *)
Request(q) ==
  \/ q = Idle
  \/ /\ q.phase \in {"entered", "checking"}
     /\ q.user \in Users
     /\ q.page = "disable" => users[q.user].role # "admin"
     /\ q.phase = "checking" => q.code \in Code /\ q.hash \in Nat

Types ==
  /\ users \in [Users -> AccountRow]
  /\ codes \in [Users -> SUBSET Nat]
  /\ \A i \in DOMAIN sessions : sessions[i] \in SessionRow
  /\ devices = [u \in Users |-> devices[u]]
  /\ reqs = [r \in Slots |-> reqs[r]]
  /\ \A r \in Slots : Request(reqs[r])
  /\ nonces \in Nat /\ cookies \in Nat /\ batches \in Nat

(* An account whose role requires a second factor always has one.          *)
AdminsEnrolled == \A u \in Users : users[u].role = "admin" => users[u].nonce # 0

(* Seeds are of one account or of one pending enrollment.                  *)
SeedsApart ==
  /\ \A u \in Users : users[u].nonce <= nonces
  /\ \A u, w \in Users : users[u].nonce # 0 /\ users[u].nonce = users[w].nonce => u = w
  /\ \A i \in DOMAIN sessions : sessions[i].pending.nonce <= nonces
  /\ \A i, j \in DOMAIN sessions :
       sessions[i].pending.nonce # 0 /\ sessions[i].pending.nonce = sessions[j].pending.nonce => i = j
  /\ \A i \in DOMAIN sessions, u \in Users :
       sessions[i].pending.nonce # 0 => sessions[i].pending.nonce # users[u].nonce

(* A TOTP code once accepted is of a seed that is no longer pending, and   *)
(* at or before the last step of the account that has the seed.            *)
StepsSpent ==
  \A n \in Nat, s \in Nat : TotpCode(n, s) \in accepted =>
    /\ n # 0 /\ n <= nonces
    /\ \A i \in DOMAIN sessions : sessions[i].pending.nonce # n
    /\ \A u \in Users : users[u].nonce = n => s <= users[u].lastStep

(* A recovery code is of one account, and of none once accepted.           *)
RecoverySpent ==
  /\ \A u \in Users : \A c \in codes[u] : c <= batches * CodeCount
  /\ \A u, w \in Users : \A c \in codes[u] : c \in codes[w] => u = w
  /\ \A c \in Nat : RecoveryCode(c) \in accepted =>
       /\ c <= batches * CodeCount
       /\ \A u \in Users : c \notin codes[u]

Inv ==
  /\ Types
  /\ SessionsUnderCurrentPassword /\ SessionsPassedSecondFactor /\ DevicesCurrent
  /\ AdminsEnrolled
  /\ SeedsApart /\ StepsSpent /\ RecoverySpent /\ CodeAcceptedOnce

-----------------------------------------------------------------------------
(* Codes of different kinds, seeds, steps or numbers differ (TotpCode,     *)
(* RecoveryCode).                                                          *)
LEMMA CodesDiffer ==
  /\ \A n, s, m, t : TotpCode(n, s) = TotpCode(m, t) => n = m /\ s = t
  /\ \A c, d : RecoveryCode(c) = RecoveryCode(d) => c = d
  /\ \A n, s, c : TotpCode(n, s) # RecoveryCode(c)
  /\ \A n, s : TotpCode(n, s).kind = "totp" /\ TotpCode(n, s).step = s
  /\ \A c : RecoveryCode(c).kind = "recovery"
<1>1. \A n, s : /\ TotpCode(n, s).kind = "totp" /\ TotpCode(n, s).step = s
                /\ TotpCode(n, s).nonce = n
  BY DEF TotpCode
<1>2. \A c : RecoveryCode(c).kind = "recovery" /\ RecoveryCode(c).code = c
  BY DEF RecoveryCode
<1> QED BY <1>1, <1>2

(* The codes of a new batch are above all drawn before (recovery::replace).*)
LEMMA BatchIsNew ==
  ASSUME NEW n \in Nat
  PROVE  /\ n * CodeCount \in Nat /\ n * CodeCount <= (n + 1) * CodeCount
         /\ Batch(n + 1) \subseteq Nat
         /\ \A c \in Batch(n + 1) : n * CodeCount < c /\ c <= (n + 1) * CodeCount
<1>1. CodeCount \in Nat
  BY SignInAssumption
<1>2. (n + 1) - 1 = n
  OBVIOUS
<1>3. n * CodeCount \in Nat /\ (n + 1) * CodeCount = n * CodeCount + CodeCount
  BY <1>1
<1> DEFINE k == n * CodeCount
<1>4. Batch(n + 1) = (k + 1)..(k + CodeCount)
  BY <1>2, <1>3 DEF Batch
<1>5. k \in Nat /\ (n + 1) * CodeCount = k + CodeCount
  BY <1>3
<1> HIDE DEF k
<1>6. /\ k <= k + CodeCount /\ (k + 1)..(k + CodeCount) \subseteq Nat
      /\ \A c \in (k + 1)..(k + CodeCount) : k < c /\ c <= k + CodeCount
  BY <1>1, <1>5
<1> QED BY <1>4, <1>5, <1>6 DEF k

(* The numbers of an account's row (users).                                *)
LEMMA RowTypes ==
  \A a \in AccountRow : a.nonce \in Nat /\ a.lastStep \in Int /\ a.lastStep >= -1
<1> SUFFICES ASSUME NEW a \in AccountRow
             PROVE  a.nonce \in Nat /\ a.lastStep \in Int /\ a.lastStep >= -1
  OBVIOUS
<1>1. a.nonce \in Nat /\ a.lastStep \in Time
  BY DEF AccountRow
<1> QED BY <1>1 DEF Time, Null

(* A request that passes keeps the password, the seed and the role of its  *)
(* account (decide).                                                       *)
LEMMA RowPassedKeeps ==
  ASSUME Types, NEW u \in Users, NEW code \in Code
  PROVE  /\ RowPassed(u, code) \in AccountRow
         /\ RowPassed(u, code).hash = users[u].hash
         /\ RowPassed(u, code).nonce = users[u].nonce
         /\ RowPassed(u, code).role = users[u].role
         /\ users[u].nonce # 0 =>
              RowPassed(u, code).lastStep = IF code.kind = "totp" THEN code.step ELSE users[u].lastStep
<1> DEFINE a == users[u]
           b == StepRecorded(a, code)
<1>1. a \in AccountRow
  BY DEF Types
<1>2. code.kind = "totp" => code.step \in Nat
  BY DEF Code, NoCode
<1>3. /\ b \in AccountRow /\ b.hash = a.hash /\ b.nonce = a.nonce /\ b.role = a.role
      /\ b.lastStep = IF code.kind = "totp" THEN code.step ELSE a.lastStep
  BY <1>1, <1>2 DEF StepRecorded, AccountRow, Time
<1> HIDE DEF b
<1> DEFINE c1 == [b EXCEPT !.failed = 0]
           c2 == [c1 EXCEPT !.devFailures = 0]
           c3 == [c2 EXCEPT !.windowStart = Null]
<1>4. /\ c1 \in AccountRow /\ c1.hash = b.hash /\ c1.nonce = b.nonce /\ c1.role = b.role
      /\ c1.lastStep = b.lastStep
  BY <1>3, AccountAssumption DEF AccountRow
<1> HIDE DEF c1
<1>5. /\ c2 \in AccountRow /\ c2.hash = c1.hash /\ c2.nonce = c1.nonce /\ c2.role = c1.role
      /\ c2.lastStep = c1.lastStep
  BY <1>4, AccountAssumption DEF AccountRow
<1> HIDE DEF c2
<1>6. /\ c3 \in AccountRow /\ c3.hash = c2.hash /\ c3.nonce = c2.nonce /\ c3.role = c2.role
      /\ c3.lastStep = c2.lastStep
  BY <1>5 DEF AccountRow, Time
<1>7. Cleared(b) = c3
  BY DEF Cleared, c1, c2
<1> HIDE DEF c3
<1>8. RowPassed(u, code) = IF a.nonce = 0 THEN a ELSE c3
  BY <1>7 DEF RowPassed, b
<1> HIDE DEF a
<1> QED BY <1>1, <1>3, <1>4, <1>5, <1>6, <1>8 DEF a

-----------------------------------------------------------------------------
(* Steps that accept a second factor *)

(* The last step an account accepted a code at, after a request passed.    *)
LastPassed(u, code) ==
  IF code.kind = "totp" THEN code.step ELSE users[u].lastStep

(* How a request that passes spends its second factor: none is asked for,  *)
(* or a TOTP code of a later step than the last, or a code of the account. *)
Spends(u, code) ==
  \/ users[u].nonce = 0 /\ accepted' = accepted
  \/ /\ users[u].nonce # 0 /\ accepted' = accepted \cup {code}
     /\ \E s \in Nat : /\ code = TotpCode(users[u].nonce, s)
                       /\ users[u].lastStep < s /\ LastPassed(u, code) = s
  \/ /\ users[u].nonce # 0 /\ accepted' = accepted \cup {code}
     /\ \E c \in codes[u] : code = RecoveryCode(c)
     /\ LastPassed(u, code) = users[u].lastStep

(* A request that passes the check spends a second factor that was not     *)
(* spent (decide, code_accepted).                                          *)
LEMMA PassSpends ==
  ASSUME Inv, NEW r \in Slots, NEW page, Passed(r, page),
         FactorPassed(reqs[r].user, reqs[r].code)
  PROVE  /\ reqs[r].user \in Users /\ reqs[r].code \in Code
         /\ reqs[r].hash = users[reqs[r].user].hash
         /\ page = "disable" => users[reqs[r].user].role # "admin"
         /\ Spends(reqs[r].user, reqs[r].code)
         /\ CodeAcceptedOnce'
<1> DEFINE u == reqs[r].user
           code == reqs[r].code
           a == users[u]
<1>1. reqs[r].phase = "checking" /\ reqs[r].page = page /\ Request(reqs[r])
  BY DEF Passed, Inv, Types
<1>2. reqs[r] # Idle
  BY <1>1 DEF Idle
<1>3. u \in Users /\ code \in Code /\ (page = "disable" => a.role # "admin")
  BY <1>1, <1>2 DEF Request
<1>4. reqs[r].hash = a.hash
  BY DEF Passed, PasswordOk
<1>5. a \in AccountRow /\ codes[u] \subseteq Nat
  BY <1>3 DEF Inv, Types
<1>6. a.lastStep \in Int /\ a.lastStep >= -1
  BY <1>5 DEF AccountRow, Time, Null
<1>7. CASE a.nonce = 0
  <2>1. accepted' = accepted /\ replayed' = replayed
    BY <1>7 DEF FactorPassed
  <2> QED BY <1>3, <1>4, <1>7, <2>1 DEF Spends, Inv, CodeAcceptedOnce
<1>8. CASE a.nonce # 0
  <2>1. accepted' = accepted \cup {code} /\ replayed' = replayed \cup (accepted \cap {code})
    BY <1>8 DEF FactorPassed, Accept
  <2>2. CodeAccepted(a, codes[u], code, reqs[r].t)
    BY <1>8 DEF Passed
  <2>3. replayed = {}
    BY DEF Inv, CodeAcceptedOnce
  <2>4. ASSUME NEW s \in MatchingStep(a.nonce, code, reqs[r].t), a.lastStep = Null \/ a.lastStep < s
        PROVE  Spends(u, code) /\ code \notin accepted
    <3>1. code = TotpCode(a.nonce, s)
      BY <2>4 DEF MatchingStep
    <3>2. code.kind = "totp" /\ code.step = s
      BY <3>1, CodesDiffer
    <3>3. s \in Nat
      BY <1>3, <3>2 DEF Code, NoCode
    <3>4. a.lastStep < s
      BY <1>6, <2>4, <3>3 DEF Null
    <3>5. LastPassed(u, code) = s
      BY <3>2 DEF LastPassed
    <3>6. Spends(u, code)
      BY <1>8, <2>1, <3>1, <3>3, <3>4, <3>5 DEF Spends
    <3>7. a.nonce \in Nat
      BY <1>5 DEF AccountRow
    <3>8. TotpCode(a.nonce, s) \in accepted => s <= a.lastStep
      BY <1>3, <3>3, <3>7 DEF Inv, StepsSpent
    <3>9. code \notin accepted
      BY <1>6, <3>1, <3>3, <3>4, <3>8
    <3> QED BY <3>6, <3>9
  <2>5. ASSUME NEW c \in codes[u], code = RecoveryCode(c)
        PROVE  Spends(u, code) /\ code \notin accepted
    <3>1. code.kind = "recovery"
      BY <2>5, CodesDiffer
    <3>2. LastPassed(u, code) = a.lastStep
      BY <3>1 DEF LastPassed
    <3>3. c \in Nat
      BY <1>5
    <3>4. RecoveryCode(c) \notin accepted
      BY <1>3, <3>3 DEF Inv, RecoverySpent
    <3> QED BY <1>8, <2>1, <2>5, <3>2, <3>4 DEF Spends
  <2>6. Spends(u, code) /\ code \notin accepted
    BY <2>2, <2>4, <2>5 DEF CodeAccepted
  <2>7. replayed' = {}
    BY <2>1, <2>3, <2>6
  <2> QED BY <1>3, <1>4, <2>6, <2>7 DEF CodeAcceptedOnce
<1> QED BY <1>7, <1>8

(* Seeds stay apart when none is drawn or confirmed: an account keeps or   *)
(* drops its seed, a session keeps or drops its pending one.               *)
LEMMA SeedsStayApart ==
  ASSUME Types, SeedsApart, nonces' = nonces,
         \A w \in Users : users'[w].nonce \in {0, users[w].nonce},
         \A i \in DOMAIN sessions' :
           \/ sessions'[i].pending = None
           \/ i \in DOMAIN sessions /\ sessions'[i].pending = sessions[i].pending
  PROVE  SeedsApart'
<1>1. None.nonce = 0 /\ nonces \in Nat
  BY DEF None, Types
<1>2. \A i \in DOMAIN sessions' :
        sessions'[i].pending.nonce # 0 =>
          i \in DOMAIN sessions /\ sessions'[i].pending.nonce = sessions[i].pending.nonce
  BY <1>1
<1>3. \A u \in Users : users'[u].nonce <= nonces'
  BY <1>1 DEF SeedsApart
<1>4. \A u, w \in Users : users'[u].nonce # 0 /\ users'[u].nonce = users'[w].nonce => u = w
  BY DEF SeedsApart
<1>5. \A i \in DOMAIN sessions' : sessions'[i].pending.nonce <= nonces'
  BY <1>1, <1>2 DEF SeedsApart
<1>6. \A i, j \in DOMAIN sessions' :
        sessions'[i].pending.nonce # 0 /\ sessions'[i].pending.nonce = sessions'[j].pending.nonce => i = j
  BY <1>2 DEF SeedsApart
<1>7. \A i \in DOMAIN sessions', u \in Users :
        sessions'[i].pending.nonce # 0 => sessions'[i].pending.nonce # users'[u].nonce
  BY <1>2 DEF SeedsApart
<1> QED BY <1>3, <1>4, <1>5, <1>6, <1>7 DEF SeedsApart

(* A pending seed after a step: none, the session's old one or a new one.  *)
PendingsGoOn ==
  \A i \in DOMAIN sessions' :
    \/ sessions'[i].pending = None
    \/ i \in DOMAIN sessions /\ sessions'[i].pending = sessions[i].pending
    \/ sessions'[i].pending.nonce > nonces

(* The accounts after a step in which only u may accept a code.            *)
StepsGoOn(u, code) ==
  \A w \in Users :
    /\ users'[w].nonce \in {0, users[w].nonce}
    /\ users'[w].lastStep \in Int
    /\ users'[w].nonce # 0 =>
         \/ users'[w].lastStep = users[w].lastStep /\ (accepted' = accepted \/ w # u)
         \/ w = u /\ accepted' # accepted /\ users'[w].lastStep = LastPassed(u, code)

(* Accepted TOTP codes stay spent when no seed is confirmed: a pending     *)
(* seed is an old one or new, and an account that keeps its seed never     *)
(* goes back a step (code_accepted).                                       *)
LEMMA StepsStaySpent ==
  ASSUME Types, SeedsApart, StepsSpent, nonces' \in Nat, nonces <= nonces', PendingsGoOn,
         NEW u \in Users, NEW code, accepted' = accepted \/ Spends(u, code), StepsGoOn(u, code)
  PROVE  StepsSpent'
<1> SUFFICES ASSUME NEW n \in Nat, NEW s \in Nat, TotpCode(n, s) \in accepted'
             PROVE  /\ n # 0 /\ n <= nonces'
                    /\ \A i \in DOMAIN sessions' : sessions'[i].pending.nonce # n
                    /\ \A w \in Users : users'[w].nonce = n => s <= users'[w].lastStep
  BY DEF StepsSpent
<1>1. /\ None.nonce = 0 /\ nonces \in Nat /\ nonces' \in Nat
      /\ \A w \in Users : users[w].nonce \in Nat /\ users[w].lastStep \in Int
      /\ \A i \in DOMAIN sessions : sessions[i].pending.nonce \in Nat
  BY DEF None, Types, AccountRow, Time, Null, SessionRow, Pendings
<1> USE DEF PendingsGoOn, StepsGoOn
<1>2. CASE TotpCode(n, s) \in accepted
  <2>1. /\ n # 0 /\ n <= nonces
        /\ \A i \in DOMAIN sessions : sessions[i].pending.nonce # n
        /\ \A w \in Users : users[w].nonce = n => s <= users[w].lastStep
    BY <1>2 DEF StepsSpent
  <2>2. n <= nonces'
    BY <1>1, <2>1
  <2>3. ASSUME NEW i \in DOMAIN sessions' PROVE sessions'[i].pending.nonce # n
    BY <1>1, <2>1
  <2>4. ASSUME NEW w \in Users, users'[w].nonce = n PROVE s <= users'[w].lastStep
    <3>1. users[w].nonce = n /\ s <= users[w].lastStep
      BY <2>1, <2>4
    <3>2. CASE users'[w].lastStep = users[w].lastStep
      BY <3>1, <3>2
    <3>3. CASE w = u /\ accepted' # accepted /\ users'[w].lastStep = LastPassed(u, code)
      <4>1. users[u].lastStep <= LastPassed(u, code)
        BY <1>1, <3>3, SMTT(20) DEF Spends
      <4> QED BY <1>1, <3>1, <3>3, <4>1
    <3> QED BY <2>1, <2>4, <3>2, <3>3
  <2> QED BY <2>1, <2>2, <2>3, <2>4
<1>3. CASE TotpCode(n, s) \notin accepted
  <2>1. accepted' # accepted /\ TotpCode(n, s) = code
    BY <1>3 DEF Spends
  <2>2. n = users[u].nonce /\ users[u].nonce # 0 /\ LastPassed(u, code) = s
    BY <1>3, <2>1, CodesDiffer DEF Spends
  <2>3. n # 0 /\ n <= nonces
    BY <2>2 DEF SeedsApart
  <2>4. ASSUME NEW i \in DOMAIN sessions' PROVE sessions'[i].pending.nonce # n
    <3>1. CASE sessions'[i].pending = None
      BY <1>1, <2>3, <3>1
    <3>2. CASE i \in DOMAIN sessions /\ sessions'[i].pending = sessions[i].pending
      BY <2>2, <2>3, <3>2 DEF SeedsApart
    <3>3. CASE sessions'[i].pending.nonce > nonces
      BY <1>1, <2>3, <3>3
    <3> QED BY <3>1, <3>2, <3>3
  <2>5. ASSUME NEW w \in Users, users'[w].nonce = n PROVE s <= users'[w].lastStep
    <3>1. users[w].nonce = n
      BY <2>3, <2>5
    <3>2. w = u
      BY <2>2, <2>3, <3>1 DEF SeedsApart
    <3>3. users'[w].lastStep = s
      BY <2>1, <2>2, <2>3, <2>5, <3>2
    <3> QED BY <3>3
  <2> QED BY <1>1, <2>3, <2>4, <2>5
<1> QED BY <1>2, <1>3

(* Accepted recovery codes stay spent: a code that is accepted leaves its  *)
(* account, and a new batch has none drawn before (consume, replace).      *)
LEMMA RecoveryStaysSpent ==
  ASSUME Types, RecoverySpent, NEW u \in Users, NEW code,
         \/ \A c \in Nat : RecoveryCode(c) \in accepted' => RecoveryCode(c) \in accepted
         \/ Spends(u, code),
         \A w \in Users \ {u} : codes'[w] = codes[w],
         \/ batches' = batches /\ codes'[u] \subseteq codes[u]
                               /\ (accepted' # accepted => codes'[u] \subseteq CodesLeft(codes[u], code))
         \/ batches' = batches + 1 /\ codes'[u] = Batch(batches + 1)
  PROVE  RecoverySpent'
<1> DEFINE b == batches * CodeCount
           B == batches' * CodeCount
<1>1. /\ b \in Nat /\ batches \in Nat
      /\ batches' = batches => B = b
      /\ batches' = batches + 1 => b <= B /\ B \in Int /\ \A c \in Batch(batches + 1) : c \in Nat /\ b < c /\ c <= B
  BY BatchIsNew, SignInAssumption DEF Types
<1>2. \A w \in Users : codes[w] \subseteq Nat
  BY DEF Types
<1>3. /\ \A w \in Users : \A c \in codes[w] : c <= b
      /\ \A v, w \in Users : \A c \in codes[v] : c \in codes[w] => v = w
      /\ \A c \in Nat : RecoveryCode(c) \in accepted => c <= b /\ \A w \in Users : c \notin codes[w]
  BY DEF RecoverySpent
<1> HIDE DEF b, B
<1>4. b <= B /\ B \in Int
  BY <1>1
<1>5. \A w \in Users : \A c \in codes'[w] :
        c \in Nat /\ c <= B /\ (c \in codes[w] \/ (w = u /\ b < c))
  <2> TAKE w \in Users
  <2>1. CASE w # u
    BY <1>2, <1>3, <1>4, <1>1, <2>1
  <2>2. CASE w = u /\ codes'[u] \subseteq codes[u]
    BY <1>2, <1>3, <1>4, <1>1, <2>2
  <2>3. CASE w = u /\ batches' = batches + 1 /\ codes'[u] = Batch(batches + 1)
    BY <1>1, <2>3
  <2> QED BY <2>1, <2>2, <2>3
<1>6. ASSUME NEW v \in Users, NEW w \in Users, NEW c \in codes'[v], c \in codes'[w] PROVE v = w
  BY <1>1, <1>3, <1>5, <1>6
<1>7. ASSUME NEW c \in Nat, RecoveryCode(c) \in accepted'
      PROVE  c <= B /\ \A w \in Users : c \notin codes'[w]
  <2>1. CASE RecoveryCode(c) \in accepted
    BY <1>1, <1>3, <1>4, <1>5, <2>1
  <2>2. CASE RecoveryCode(c) \notin accepted
    <3>1. Spends(u, code)
      BY <1>7, <2>2
    <3>2. accepted' # accepted /\ RecoveryCode(c) = code
      BY <1>7, <2>2, <3>1 DEF Spends
    <3>3. c \in codes[u]
      BY <3>2, <3>1, CodesDiffer, SMTT(20) DEF Spends
    <3>4. c <= b
      BY <1>3, <3>3
    <3>5. c \notin CodesLeft(codes[u], code)
      BY <3>2 DEF CodesLeft
    <3>6. c \notin codes'[u]
      BY <1>1, <3>2, <3>4, <3>5
    <3>7. \A w \in Users : c \notin codes'[w]
      BY <1>3, <3>3, <3>6
    <3> QED BY <1>1, <1>4, <3>4, <3>7
  <2> QED BY <2>1, <2>2
<1> QED BY <1>5, <1>6, <1>7 DEF RecoverySpent, B

-----------------------------------------------------------------------------
(* What the steps of requests have in common *)

(* Accounts never change their role, so a request that ended leaves the    *)
(* others what they hold.                                                  *)
LEMMA DoneKeepsRequests ==
  ASSUME Types, NEW r \in Slots, Done(r), \A w \in Users : users'[w].role = users[w].role
  PROVE  reqs' = [q \in Slots |-> reqs'[q]] /\ \A q \in Slots : Request(reqs[q])'
<1>1. reqs' = [q \in Slots |-> IF q = r THEN Idle ELSE reqs[q]]
  BY DEF Done, Types
<1>2. ASSUME NEW q \in Slots PROVE Request(reqs[q])'
  <2>1. Request(reqs[q])
    BY DEF Types
  <2>2. CASE reqs'[q] = Idle
    BY <2>2 DEF Request
  <2>3. CASE reqs'[q] = reqs[q]
    BY <2>1, <2>3 DEF Request
  <2> QED BY <1>1, <2>2, <2>3
<1> QED BY <1>1, <1>2

(* A session after a step: one from before it, unless its account got a    *)
(* new password, or one under the password and the seed of row.            *)
SessionGoesOn(i, u, row) ==
  /\ sessions'[i] \in SessionRow
  /\ \/ /\ i \in DOMAIN sessions
        /\ sessions'[i].user = sessions[i].user /\ sessions'[i].hash = sessions[i].hash
        /\ sessions'[i].nonce = sessions[i].nonce
        /\ sessions[i].user = u => row.hash = users[u].hash
     \/ sessions'[i].user = u /\ sessions'[i].hash = row.hash /\ sessions'[i].nonce = row.nonce

(* A device cookie likewise, but its account keeps its seed too.           *)
DeviceGoesOn(w, d, u, row) ==
  \/ /\ d \in devices[w]
     /\ w = u => row.hash = users[u].hash /\ row.nonce = users[u].nonce
  \/ w = u /\ d.hash = row.hash /\ d.nonce = row.nonce

(* Sessions and device cookies stay current when account u's row becomes   *)
(* row, with its seed or none.                                             *)
LEMMA CurrentStays ==
  ASSUME Types, SessionsUnderCurrentPassword, SessionsPassedSecondFactor, DevicesCurrent,
         NEW u \in Users, NEW row, users' = [users EXCEPT ![u] = row],
         row.nonce \in {0, users[u].nonce},
         \A i \in DOMAIN sessions' : SessionGoesOn(i, u, row),
         \A w \in Users : \A d \in devices'[w] : DeviceGoesOn(w, d, u, row)
  PROVE  SessionsUnderCurrentPassword' /\ SessionsPassedSecondFactor' /\ DevicesCurrent'
<1>1. users'[u] = row /\ \A w \in Users \ {u} : users'[w] = users[w]
  BY DEF Types
<1>2. \A i \in DOMAIN sessions : sessions[i].user \in Users
  BY DEF Types, SessionRow
<1>3. ASSUME NEW i \in DOMAIN sessions'
      PROVE  /\ sessions'[i].hash = users'[sessions'[i].user].hash
             /\ users'[sessions'[i].user].nonce \in {0, sessions'[i].nonce}
  <2>1. SessionGoesOn(i, u, row)
    BY <1>3
  <2>2. CASE sessions'[i].user = u /\ sessions'[i].hash = row.hash /\ sessions'[i].nonce = row.nonce
    BY <1>1, <2>2
  <2>3. CASE /\ i \in DOMAIN sessions
             /\ sessions'[i].user = sessions[i].user /\ sessions'[i].hash = sessions[i].hash
             /\ sessions'[i].nonce = sessions[i].nonce
             /\ sessions[i].user = u => row.hash = users[u].hash
    <3>1. /\ sessions[i].hash = users[sessions[i].user].hash
          /\ users[sessions[i].user].nonce \in {0, sessions[i].nonce}
      BY <2>3 DEF SessionsUnderCurrentPassword, SessionsPassedSecondFactor
    <3>2. CASE sessions[i].user = u
      BY <1>1, <2>3, <3>1, <3>2
    <3>3. CASE sessions[i].user # u
      BY <1>1, <1>2, <2>3, <3>1, <3>3
    <3> QED BY <3>2, <3>3
  <2> QED BY <2>1, <2>2, <2>3 DEF SessionGoesOn
<1>4. ASSUME NEW w \in Users, NEW d \in devices'[w]
      PROVE  d.hash = users'[w].hash /\ d.nonce = users'[w].nonce
  <2>1. DeviceGoesOn(w, d, u, row)
    BY <1>4
  <2>2. CASE w = u /\ d.hash = row.hash /\ d.nonce = row.nonce
    BY <1>1, <2>2
  <2>3. CASE d \in devices[w] /\ (w = u => row.hash = users[u].hash /\ row.nonce = users[u].nonce)
    <3>1. d.hash = users[w].hash /\ d.nonce = users[w].nonce
      BY <2>3 DEF DevicesCurrent
    <3> QED BY <1>1, <2>3, <3>1
  <2> QED BY <2>1, <2>2, <2>3 DEF DeviceGoesOn
<1> QED BY <1>3, <1>4 DEF SessionsUnderCurrentPassword, SessionsPassedSecondFactor, DevicesCurrent

(* A request that passes every factor keeps the invariant, but for the     *)
(* seeds, whatever its page then does within these bounds (decide).        *)
LEMMA PassKeeps ==
  ASSUME Inv, NEW r \in Slots, NEW page, Passed(r, page), Done(r),
         FactorPassed(reqs[r].user, reqs[r].code),
         NEW row \in AccountRow,
         users' = [users EXCEPT ![reqs[r].user] = row],
         row.role = users[reqs[r].user].role,
         row.nonce \in {0, users[reqs[r].user].nonce},
         page = "disable" \/ row.nonce = users[reqs[r].user].nonce,
         row.nonce # 0 => row.lastStep = RowPassed(reqs[r].user, reqs[r].code).lastStep,
         nonces' \in Nat, nonces <= nonces', cookies' \in Nat,
         \A i \in DOMAIN sessions' : SessionGoesOn(i, reqs[r].user, row),
         \A i \in DOMAIN sessions' :
           \/ sessions'[i].pending = None
           \/ i \in DOMAIN sessions /\ sessions'[i].pending = sessions[i].pending
           \/ sessions'[i].pending.nonce > nonces,
         devices' = [w \in Users |-> devices'[w]],
         \A w \in Users : \A d \in devices'[w] : DeviceGoesOn(w, d, reqs[r].user, row),
         codes' \in [Users -> SUBSET Nat],
         \A w \in Users \ {reqs[r].user} : codes'[w] = codes[w],
         \/ /\ batches' = batches /\ codes'[reqs[r].user] \subseteq codes[reqs[r].user]
            /\ users[reqs[r].user].nonce # 0 =>
                 codes'[reqs[r].user] \subseteq CodesLeft(codes[reqs[r].user], reqs[r].code)
         \/ batches' = batches + 1 /\ codes'[reqs[r].user] = Batch(batches + 1)
  PROVE  /\ Types'
         /\ SessionsUnderCurrentPassword' /\ SessionsPassedSecondFactor' /\ DevicesCurrent'
         /\ AdminsEnrolled' /\ StepsSpent' /\ RecoverySpent' /\ CodeAcceptedOnce'
<1> DEFINE u == reqs[r].user
           code == reqs[r].code
<1>1. /\ u \in Users /\ code \in Code /\ CodeAcceptedOnce' /\ Spends(u, code)
      /\ page = "disable" => users[u].role # "admin"
  BY PassSpends
<1>2. /\ Types /\ SessionsUnderCurrentPassword /\ SessionsPassedSecondFactor /\ DevicesCurrent
      /\ AdminsEnrolled /\ SeedsApart /\ StepsSpent /\ RecoverySpent
  BY DEF Inv
<1> HIDE DEF u, code
<1>3. /\ users' \in [Users -> AccountRow] /\ users'[u] = row
      /\ \A w \in Users \ {u} : users'[w] = users[w]
  BY <1>1, <1>2 DEF Types, u
<1>4. \A w \in Users : users'[w].role = users[w].role /\ users'[w].nonce \in {0, users[w].nonce}
  BY <1>1, <1>3 DEF u
<1>5. Types'
  <2>1. reqs' = [q \in Slots |-> reqs'[q]] /\ \A q \in Slots : Request(reqs[q])'
    BY <1>2, <1>4, DoneKeepsRequests
  <2>2. batches' \in Nat
    BY <1>2 DEF Types
  <2>3. \A i \in DOMAIN sessions' : sessions'[i] \in SessionRow
    BY DEF SessionGoesOn
  <2> QED BY <1>3, <2>1, <2>2, <2>3 DEF Types, SessionRow, Pendings
<1>6. SessionsUnderCurrentPassword' /\ SessionsPassedSecondFactor' /\ DevicesCurrent'
  BY <1>1, <1>2, CurrentStays DEF u
<1>7. AdminsEnrolled'
  BY <1>1, <1>2, <1>3 DEF AdminsEnrolled, u
<1>8. /\ users[u].nonce # 0 => (row.nonce # 0 => row.lastStep = LastPassed(u, code))
      /\ users[u].nonce = 0 => row.nonce = 0 /\ accepted' = accepted
      /\ accepted' = accepted => users[u].nonce = 0
  <2>1. users[u].nonce # 0 => RowPassed(u, code).lastStep = LastPassed(u, code)
    BY <1>1, <1>2, RowPassedKeeps DEF LastPassed
  <2>2. users[u].nonce = 0 => row.nonce = 0 /\ accepted' = accepted
    BY <1>1 DEF Spends, u
  <2>3. users[u].nonce # 0 => code \notin accepted /\ code \in accepted'
    <3>1. CASE users[u].nonce # 0
      <4>1. replayed' = replayed \cup (accepted \cap {code}) /\ accepted' = accepted \cup {code}
        BY <3>1 DEF FactorPassed, Accept, u, code
      <4>2. replayed' = {}
        BY <1>1 DEF CodeAcceptedOnce
      <4> QED BY <4>1, <4>2
    <3> QED BY <3>1
  <2> QED BY <2>1, <2>2, <2>3 DEF u, code
<1>9. StepsSpent'
  <2>1. \A w \in Users : users'[w].lastStep \in Int
    BY <1>3, RowTypes
  <2>2. \A w \in Users : users'[w].nonce # 0 =>
          \/ users'[w].lastStep = users[w].lastStep /\ (accepted' = accepted \/ w # u)
          \/ w = u /\ accepted' # accepted /\ users'[w].lastStep = LastPassed(u, code)
    BY <1>3, <1>8
  <2>3. PendingsGoOn
    BY DEF PendingsGoOn
  <2>4. StepsGoOn(u, code)
    BY <1>4, <2>1, <2>2 DEF StepsGoOn
  <2> QED BY <1>1, <1>2, <2>3, <2>4, StepsStaySpent
<1>10. RecoverySpent'
  <2>1. \/ batches' = batches /\ codes'[u] \subseteq codes[u]
                              /\ (accepted' # accepted => codes'[u] \subseteq CodesLeft(codes[u], code))
        \/ batches' = batches + 1 /\ codes'[u] = Batch(batches + 1)
    BY <1>8 DEF u, code
  <2>2. \A w \in Users \ {u} : codes'[w] = codes[w]
    BY DEF u
  <2> QED BY <1>1, <1>2, <2>1, <2>2, RecoveryStaysSpent
<1> QED BY <1>1, <1>5, <1>6, <1>7, <1>9, <1>10

-----------------------------------------------------------------------------
(* One lemma for each kind of step *)

(* A request that passes leaves its account no more recovery codes than it *)
(* had, and not the one it used (consume).                                 *)
LEMMA CodesPassedKeeps ==
  ASSUME Types, NEW u \in Users, NEW code, codes' = CodesPassed(u, code)
  PROVE  /\ codes' \in [Users -> SUBSET Nat]
         /\ \A w \in Users \ {u} : codes'[w] = codes[w]
         /\ codes'[u] \subseteq codes[u]
         /\ users[u].nonce # 0 => codes'[u] \subseteq CodesLeft(codes[u], code)
<1> DEFINE left == IF users[u].nonce = 0 THEN codes[u] ELSE CodesLeft(codes[u], code)
<1>1. codes \in [Users -> SUBSET Nat] /\ codes' = [codes EXCEPT ![u] = left]
  BY DEF Types, CodesPassed
<1>2. left \subseteq codes[u] /\ (users[u].nonce # 0 => left = CodesLeft(codes[u], code))
  BY DEF CodesLeft
<1> HIDE DEF left
<1> QED BY <1>1, <1>2, Zenon

(* New recovery codes are the account's only ones (recovery::replace).     *)
LEMMA ReplaceCodesKeeps ==
  ASSUME Types, NEW u \in Users, ReplaceCodes(u)
  PROVE  /\ codes' \in [Users -> SUBSET Nat]
         /\ \A w \in Users \ {u} : codes'[w] = codes[w]
         /\ batches' = batches + 1 /\ codes'[u] = Batch(batches + 1)
<1>1. codes \in [Users -> SUBSET Nat] /\ Batch(batches + 1) \subseteq Nat
  BY BatchIsNew DEF Types
<1> QED BY <1>1 DEF ReplaceCodes

(* A login begins a session under the password it verified (login).        *)
LEMMA LoginPassesInv ==
  ASSUME Inv, NEW r \in Slots, LoginPasses(r)
  PROVE  Inv'
<1> DEFINE u == reqs[r].user
           code == reqs[r].code
           row == RowPassed(u, code)
           d == [cookie |-> cookies + 1, t |-> reqs[r].t, hash |-> reqs[r].hash,
                 nonce |-> users[u].nonce]
<1>1. /\ Passed(r, "login") /\ Done(r) /\ FactorPassed(u, code) /\ cookies' = cookies + 1
      /\ users' = [users EXCEPT ![u] = row] /\ codes' = CodesPassed(u, code)
      /\ sessions' = Created(u, reqs[r].hash)
      /\ devices' = IF \E e \in devices[u] : e.cookie = reqs[r].device
                      THEN devices ELSE [devices EXCEPT ![u] = WithDevice(@, d)]
      /\ nonces' = nonces /\ batches' = batches
  BY DEF LoginPasses
<1>2. Types /\ SeedsApart
  BY DEF Inv
<1>3. u \in Users /\ code \in Code /\ reqs[r].hash = users[u].hash
  BY <1>1, PassSpends
<1>4. /\ row \in AccountRow /\ row.hash = users[u].hash /\ row.nonce = users[u].nonce
      /\ row.role = users[u].role
  BY <1>2, <1>3, RowPassedKeeps
<1> HIDE DEF row
<1>5. nonces \in Nat /\ cookies' \in Nat /\ users[u] \in AccountRow
  BY <1>1, <1>2, <1>3 DEF Types
<1>6. ASSUME NEW i \in DOMAIN sessions'
      PROVE  /\ SessionGoesOn(i, u, row)
             /\ \/ sessions'[i].pending = None
                \/ i \in DOMAIN sessions /\ sessions'[i].pending = sessions[i].pending
  <2> DEFINE s == [user |-> u, cookie |-> cookies + 1, pending |-> None,
                   hash |-> reqs[r].hash, nonce |-> users[u].nonce]
             id == NextRowid(sessions)
  <2> HIDE DEF id
  <2>1. sessions' = [j \in DOMAIN sessions \cup {id} |-> IF j = id THEN s ELSE sessions[j]]
    BY <1>1 DEF Created, id
  <2>2. s \in SessionRow
    BY <1>1, <1>3, <1>5 DEF SessionRow, Pendings, None, AccountRow
  <2>3. s.user = u /\ s.hash = row.hash /\ s.nonce = row.nonce /\ s.pending = None
    BY <1>3, <1>4
  <2> HIDE DEF s
  <2>4. CASE sessions'[i] = s
    BY <2>2, <2>3, <2>4 DEF SessionGoesOn
  <2>5. CASE i \in DOMAIN sessions /\ sessions'[i] = sessions[i]
    BY <1>2, <1>4, <2>5 DEF SessionGoesOn, Types
  <2> QED BY <1>6, <2>1, <2>4, <2>5
<1>7. /\ devices' = [w \in Users |-> devices'[w]]
      /\ \A w \in Users : \A e \in devices'[w] : DeviceGoesOn(w, e, u, row)
  <2>1. /\ devices' = [w \in Users |-> devices'[w]]
        /\ \A w \in Users : \A e \in devices'[w] : e \in devices[w] \/ (w = u /\ e = d)
    <3>1. WithDevice(devices[u], d) \subseteq devices[u] \cup {d}
      BY DEF WithDevice
    <3>2. devices = [w \in Users |-> devices[w]]
      BY <1>2 DEF Types
    <3>3. CASE devices' = devices
      BY <3>2, <3>3
    <3>4. CASE devices' = [devices EXCEPT ![u] = WithDevice(devices[u], d)]
      <4> HIDE DEF d
      <4>1. devices' = [w \in Users |-> IF w = u THEN WithDevice(devices[u], d) ELSE devices[w]]
        BY <3>2, <3>4
      <4> QED BY <3>1, <4>1
    <3> QED BY <1>1, <3>3, <3>4
  <2>2. d.hash = row.hash /\ d.nonce = row.nonce
    BY <1>3, <1>4
  <2> QED BY <1>4, <2>1, <2>2 DEF DeviceGoesOn
<1>8. /\ codes' \in [Users -> SUBSET Nat]
      /\ \A w \in Users \ {u} : codes'[w] = codes[w]
      /\ codes'[u] \subseteq codes[u]
      /\ users[u].nonce # 0 => codes'[u] \subseteq CodesLeft(codes[u], code)
  BY <1>1, <1>2, <1>3, CodesPassedKeeps
<1>9. SeedsApart'
  <2>1. \A w \in Users : users'[w].nonce = users[w].nonce
    BY <1>1, <1>2, <1>3, <1>4 DEF Types
  <2> QED BY <1>1, <1>2, <1>6, <2>1, SeedsStayApart
<1>10. row.lastStep = RowPassed(u, code).lastStep
  BY DEF row
<1>11. nonces' \in Nat /\ nonces <= nonces'
  BY <1>1, <1>5, SMTT(20)
<1>12. /\ Types'
       /\ SessionsUnderCurrentPassword' /\ SessionsPassedSecondFactor' /\ DevicesCurrent'
       /\ AdminsEnrolled' /\ StepsSpent' /\ RecoverySpent' /\ CodeAcceptedOnce'
  BY <1>1, <1>4, <1>5, <1>6, <1>7, <1>8, <1>10, <1>11, PassKeeps, ZenonT(30)
<1> QED BY <1>9, <1>12 DEF Inv

(* A new password ends every session of its account and forgets its        *)
(* devices (end_all).                                                      *)
LEMMA EndAllKeeps ==
  ASSUME Types, NEW u \in Users, EndAll(u), NEW row
  PROVE  /\ \A i \in DOMAIN sessions' :
              /\ SessionGoesOn(i, u, row)
              /\ i \in DOMAIN sessions /\ sessions'[i].pending = sessions[i].pending
         /\ devices' = [w \in Users |-> devices'[w]]
         /\ \A w \in Users : \A d \in devices'[w] : DeviceGoesOn(w, d, u, row)
<1>1. \A i \in DOMAIN sessions' :
        i \in DOMAIN sessions /\ sessions'[i] = sessions[i] /\ sessions[i].user # u
  BY DEF EndAll, Without, SessionsOf
<1>2. devices' = [w \in Users |-> IF w = u THEN {} ELSE devices[w]]
  BY DEF EndAll, Types
<1>3. \A i \in DOMAIN sessions : sessions[i] \in SessionRow
  BY DEF Types
<1> QED BY <1>1, <1>2, <1>3 DEF SessionGoesOn, DeviceGoesOn

(* A password change in a session (password).                              *)
LEMMA ChangePasswordInv ==
  ASSUME Inv, NEW r \in Slots, ChangePassword(r)
  PROVE  Inv'
<1> DEFINE u == reqs[r].user
           code == reqs[r].code
           passed == RowPassed(u, code)
           row == [passed EXCEPT !.hash = @ + 1]
<1>1. /\ Passed(r, "password") /\ Done(r) /\ FactorPassed(u, code) /\ EndAll(u)
      /\ users' = [users EXCEPT ![u] = row] /\ codes' = CodesPassed(u, code)
      /\ nonces' = nonces /\ batches' = batches /\ cookies' = cookies
  BY DEF ChangePassword, drawn
<1>2. Types /\ SeedsApart
  BY DEF Inv
<1>3. u \in Users /\ code \in Code
  BY <1>1, PassSpends
<1>4. passed \in AccountRow /\ passed.nonce = users[u].nonce /\ passed.role = users[u].role
  BY <1>2, <1>3, RowPassedKeeps
<1> HIDE DEF passed
<1>5. /\ row \in AccountRow /\ row.nonce = users[u].nonce /\ row.role = users[u].role
      /\ row.lastStep = passed.lastStep
  BY <1>4 DEF AccountRow
<1> HIDE DEF row
<1>6. nonces \in Nat /\ cookies \in Nat /\ users \in [Users -> AccountRow]
  BY <1>2 DEF Types
<1>7. /\ \A i \in DOMAIN sessions' :
           /\ SessionGoesOn(i, u, row)
           /\ i \in DOMAIN sessions /\ sessions'[i].pending = sessions[i].pending
      /\ devices' = [w \in Users |-> devices'[w]]
      /\ \A w \in Users : \A d \in devices'[w] : DeviceGoesOn(w, d, u, row)
  BY <1>1, <1>2, <1>3, EndAllKeeps
<1>8. /\ codes' \in [Users -> SUBSET Nat]
      /\ \A w \in Users \ {u} : codes'[w] = codes[w]
      /\ codes'[u] \subseteq codes[u]
      /\ users[u].nonce # 0 => codes'[u] \subseteq CodesLeft(codes[u], code)
  BY <1>1, <1>2, <1>3, CodesPassedKeeps
<1>9. SeedsApart'
  <2>1. \A w \in Users : users'[w].nonce = users[w].nonce
    BY <1>1, <1>3, <1>5, <1>6
  <2> QED BY <1>1, <1>2, <1>7, <2>1, SeedsStayApart
<1>10. row.lastStep = RowPassed(u, code).lastStep
  BY <1>5 DEF passed
<1>11. nonces' \in Nat /\ nonces <= nonces' /\ cookies' \in Nat
  BY <1>1, <1>6
<1>12. /\ Types'
       /\ SessionsUnderCurrentPassword' /\ SessionsPassedSecondFactor' /\ DevicesCurrent'
       /\ AdminsEnrolled' /\ StepsSpent' /\ RecoverySpent' /\ CodeAcceptedOnce'
  BY <1>1, <1>5, <1>7, <1>8, <1>10, <1>11, PassKeeps, ZenonT(30)
<1> QED BY <1>9, <1>12 DEF Inv

(* An enrollment begins with a seed nobody has (start_totp).               *)
LEMMA StartTotpInv ==
  ASSUME Inv, NEW r \in Slots, StartTotp(r)
  PROVE  Inv'
<1> DEFINE u == reqs[r].user
           code == reqs[r].code
           row == RowPassed(u, code)
           pending == [nonce |-> nonces + 1, user |-> u]
<1>1. /\ Passed(r, "start") /\ Done(r) /\ FactorPassed(u, code)
      /\ users' = [users EXCEPT ![u] = row] /\ codes' = CodesPassed(u, code)
      /\ sessions' = [i \in DOMAIN sessions |->
                        IF i = reqs[r].id THEN [sessions[i] EXCEPT !.pending = pending]
                                          ELSE sessions[i]]
      /\ nonces' = nonces + 1 /\ batches' = batches /\ cookies' = cookies /\ devices' = devices
  BY DEF StartTotp
<1>2. Types /\ SeedsApart
  BY DEF Inv
<1>3. u \in Users /\ code \in Code
  BY <1>1, PassSpends
<1>4. /\ row \in AccountRow /\ row.hash = users[u].hash /\ row.nonce = users[u].nonce
      /\ row.role = users[u].role
  BY <1>2, <1>3, RowPassedKeeps
<1>5. row.lastStep = RowPassed(u, code).lastStep
  OBVIOUS
<1> HIDE DEF row
<1>6. nonces \in Nat /\ cookies \in Nat /\ users \in [Users -> AccountRow]
  BY <1>2 DEF Types
<1>7. pending \in Pendings /\ pending.nonce = nonces + 1
  BY <1>3, <1>6 DEF Pendings
<1> HIDE DEF pending
<1>8. ASSUME NEW i \in DOMAIN sessions'
      PROVE  /\ SessionGoesOn(i, u, row)
             /\ i \in DOMAIN sessions
             /\ \/ sessions'[i].pending = sessions[i].pending
                \/ i = reqs[r].id /\ sessions'[i].pending = pending
  <2>1. i \in DOMAIN sessions /\ sessions[i] \in SessionRow
    BY <1>1, <1>2 DEF Types
  <2>2. CASE i = reqs[r].id
    <3>1. sessions'[i] = [sessions[i] EXCEPT !.pending = pending]
      BY <1>1, <2>1, <2>2
    <3>2. /\ sessions'[i] \in SessionRow /\ sessions'[i].pending = pending
          /\ sessions'[i].user = sessions[i].user /\ sessions'[i].hash = sessions[i].hash
          /\ sessions'[i].nonce = sessions[i].nonce
      BY <1>7, <2>1, <3>1 DEF SessionRow
    <3> QED BY <1>4, <2>1, <2>2, <3>2 DEF SessionGoesOn
  <2>3. CASE i # reqs[r].id
    <3>1. sessions'[i] = sessions[i]
      BY <1>1, <2>1, <2>3
    <3> QED BY <1>4, <2>1, <3>1 DEF SessionGoesOn
  <2> QED BY <2>2, <2>3
<1>9. /\ devices' = [w \in Users |-> devices'[w]]
      /\ \A w \in Users : \A d \in devices'[w] : DeviceGoesOn(w, d, u, row)
  BY <1>1, <1>2, <1>4 DEF Types, DeviceGoesOn
<1>10. /\ codes' \in [Users -> SUBSET Nat]
       /\ \A w \in Users \ {u} : codes'[w] = codes[w]
       /\ codes'[u] \subseteq codes[u]
       /\ users[u].nonce # 0 => codes'[u] \subseteq CodesLeft(codes[u], code)
  BY <1>1, <1>2, <1>3, CodesPassedKeeps
<1>11. SeedsApart'
  <2>1. /\ \A w \in Users : users'[w].nonce = users[w].nonce /\ users[w].nonce \in Nat
        /\ \A i \in DOMAIN sessions : sessions[i].pending.nonce \in Nat
    BY <1>1, <1>2, <1>3, <1>4, <1>6 DEF AccountRow, Types, SessionRow, Pendings
  <2>2. \A w \in Users : users'[w].nonce <= nonces'
    BY <1>1, <1>2, <1>6, <2>1 DEF SeedsApart
  <2>3. \A v, w \in Users : users'[v].nonce # 0 /\ users'[v].nonce = users'[w].nonce => v = w
    BY <1>2, <2>1 DEF SeedsApart
  <2>4. \A i \in DOMAIN sessions : sessions[i].pending.nonce <= nonces
    BY <1>2 DEF SeedsApart
  <2>5. \A i \in DOMAIN sessions' : sessions'[i].pending.nonce <= nonces'
    BY <1>1, <1>6, <1>7, <1>8, <2>1, <2>4
  <2>6. ASSUME NEW i \in DOMAIN sessions', NEW j \in DOMAIN sessions',
               sessions'[i].pending.nonce # 0, sessions'[i].pending.nonce = sessions'[j].pending.nonce
        PROVE  i = j
    <3>1. CASE sessions'[i].pending = sessions[i].pending /\ sessions'[j].pending = sessions[j].pending
      BY <1>2, <1>8, <2>6, <3>1 DEF SeedsApart
    <3>2. CASE i = reqs[r].id /\ j = reqs[r].id
      BY <3>2
    <3>3. CASE sessions'[i].pending = sessions[i].pending /\ sessions'[j].pending = pending
      BY <1>6, <1>7, <1>8, <2>1, <2>4, <2>6, <3>3
    <3>4. CASE sessions'[i].pending = pending /\ sessions'[j].pending = sessions[j].pending
      BY <1>6, <1>7, <1>8, <2>1, <2>4, <2>6, <3>4
    <3> QED BY <1>8, <3>1, <3>2, <3>3, <3>4
  <2>7. ASSUME NEW i \in DOMAIN sessions', NEW w \in Users, sessions'[i].pending.nonce # 0
        PROVE  sessions'[i].pending.nonce # users'[w].nonce
    <3>1. CASE sessions'[i].pending = sessions[i].pending
      BY <1>2, <1>8, <2>1, <2>7, <3>1 DEF SeedsApart
    <3>2. CASE sessions'[i].pending = pending
      <4>1. users[w].nonce <= nonces
        BY <1>2 DEF SeedsApart
      <4> QED BY <1>6, <1>7, <2>1, <3>2, <4>1
    <3> QED BY <1>8, <3>1, <3>2
  <2> QED BY <2>2, <2>3, <2>5, <2>6, <2>7 DEF SeedsApart
<1>12. nonces' \in Nat /\ nonces <= nonces' /\ cookies' \in Nat
  BY <1>1, <1>6
<1>13. \A i \in DOMAIN sessions' :
         \/ sessions'[i].pending = None
         \/ i \in DOMAIN sessions /\ sessions'[i].pending = sessions[i].pending
         \/ sessions'[i].pending.nonce > nonces
  BY <1>6, <1>7, <1>8
<1>14. /\ Types'
       /\ SessionsUnderCurrentPassword' /\ SessionsPassedSecondFactor' /\ DevicesCurrent'
       /\ AdminsEnrolled' /\ StepsSpent' /\ RecoverySpent' /\ CodeAcceptedOnce'
  BY <1>1, <1>4, <1>5, <1>8, <1>9, <1>10, <1>12, <1>13, PassKeeps, ZenonT(30)
<1> QED BY <1>11, <1>14 DEF Inv

(* Turning the second factor off, which no admin can (disable_totp).       *)
LEMMA DisableTotpInv ==
  ASSUME Inv, NEW r \in Slots, DisableTotp(r)
  PROVE  Inv'
<1> DEFINE u == reqs[r].user
           code == reqs[r].code
           passed == RowPassed(u, code)
           off == [passed EXCEPT !.nonce = 0]
           row == [off EXCEPT !.lastStep = Null]
<1>1. /\ Passed(r, "disable") /\ Done(r) /\ FactorPassed(u, code)
      /\ users' = [users EXCEPT ![u] = row] /\ codes' = [codes EXCEPT ![u] = {}]
      /\ devices' = [devices EXCEPT ![u] = {}] /\ sessions' = sessions
      /\ nonces' = nonces /\ batches' = batches /\ cookies' = cookies
  BY DEF DisableTotp, drawn
<1>2. Types /\ SeedsApart
  BY DEF Inv
<1>3. u \in Users /\ code \in Code
  BY <1>1, PassSpends
<1>4. passed \in AccountRow /\ passed.hash = users[u].hash /\ passed.role = users[u].role
  BY <1>2, <1>3, RowPassedKeeps
<1> HIDE DEF passed
<1>5. off \in AccountRow /\ off.hash = users[u].hash /\ off.role = users[u].role /\ off.nonce = 0
  BY <1>4 DEF AccountRow
<1> HIDE DEF off
<1>6. row \in AccountRow /\ row.hash = users[u].hash /\ row.role = users[u].role /\ row.nonce = 0
  BY <1>5 DEF AccountRow, Time
<1> HIDE DEF row
<1>7. nonces \in Nat /\ cookies \in Nat /\ users \in [Users -> AccountRow]
  BY <1>2 DEF Types
<1>8. \A i \in DOMAIN sessions' :
        /\ SessionGoesOn(i, u, row)
        /\ i \in DOMAIN sessions /\ sessions'[i].pending = sessions[i].pending
  BY <1>1, <1>2, <1>6 DEF SessionGoesOn, Types
<1>9. /\ devices' = [w \in Users |-> devices'[w]]
      /\ \A w \in Users : \A d \in devices'[w] : DeviceGoesOn(w, d, u, row)
  <2>1. devices' = [w \in Users |-> IF w = u THEN {} ELSE devices[w]]
    BY <1>1, <1>2 DEF Types
  <2> QED BY <2>1 DEF DeviceGoesOn
<1>10. /\ codes' \in [Users -> SUBSET Nat]
       /\ \A w \in Users \ {u} : codes'[w] = codes[w]
       /\ codes'[u] \subseteq codes[u] /\ codes'[u] \subseteq CodesLeft(codes[u], code)
  BY <1>1, <1>2, <1>3 DEF Types
<1>11. SeedsApart'
  <2>1. \A w \in Users : users'[w].nonce \in {0, users[w].nonce}
    BY <1>1, <1>3, <1>6, <1>7
  <2> QED BY <1>1, <1>2, <1>8, <2>1, SeedsStayApart
<1>12. nonces' \in Nat /\ nonces <= nonces' /\ cookies' \in Nat
  BY <1>1, <1>7
<1>13. /\ Types'
       /\ SessionsUnderCurrentPassword' /\ SessionsPassedSecondFactor' /\ DevicesCurrent'
       /\ AdminsEnrolled' /\ StepsSpent' /\ RecoverySpent' /\ CodeAcceptedOnce'
  BY <1>1, <1>6, <1>8, <1>9, <1>10, <1>12, PassKeeps, ZenonT(30)
<1> QED BY <1>11, <1>13 DEF Inv

(* New recovery codes (regenerate_codes).                                  *)
LEMMA RegenerateCodesInv ==
  ASSUME Inv, NEW r \in Slots, RegenerateCodes(r)
  PROVE  Inv'
<1> DEFINE u == reqs[r].user
           code == reqs[r].code
           row == RowPassed(u, code)
<1>1. /\ Passed(r, "codes") /\ Done(r) /\ FactorPassed(u, code) /\ ReplaceCodes(u)
      /\ users' = [users EXCEPT ![u] = row]
      /\ devices' = devices /\ sessions' = sessions
      /\ nonces' = nonces /\ cookies' = cookies
  BY DEF RegenerateCodes
<1>2. Types /\ SeedsApart
  BY DEF Inv
<1>3. u \in Users /\ code \in Code
  BY <1>1, PassSpends
<1>4. /\ row \in AccountRow /\ row.hash = users[u].hash /\ row.nonce = users[u].nonce
      /\ row.role = users[u].role
  BY <1>2, <1>3, RowPassedKeeps
<1>5. row.lastStep = RowPassed(u, code).lastStep
  OBVIOUS
<1> HIDE DEF row
<1>6. nonces \in Nat /\ cookies \in Nat /\ users \in [Users -> AccountRow]
  BY <1>2 DEF Types
<1>7. \A i \in DOMAIN sessions' :
        /\ SessionGoesOn(i, u, row)
        /\ i \in DOMAIN sessions /\ sessions'[i].pending = sessions[i].pending
  BY <1>1, <1>2, <1>4 DEF SessionGoesOn, Types
<1>8. /\ devices' = [w \in Users |-> devices'[w]]
      /\ \A w \in Users : \A d \in devices'[w] : DeviceGoesOn(w, d, u, row)
  BY <1>1, <1>2, <1>4 DEF Types, DeviceGoesOn
<1>9. /\ codes' \in [Users -> SUBSET Nat]
      /\ \A w \in Users \ {u} : codes'[w] = codes[w]
      /\ batches' = batches + 1 /\ codes'[u] = Batch(batches + 1)
  BY <1>1, <1>2, <1>3, ReplaceCodesKeeps
<1>10. SeedsApart'
  <2>1. \A w \in Users : users'[w].nonce = users[w].nonce
    BY <1>1, <1>3, <1>4, <1>6
  <2> QED BY <1>1, <1>2, <1>7, <2>1, SeedsStayApart
<1>11. nonces' \in Nat /\ nonces <= nonces' /\ cookies' \in Nat
  BY <1>1, <1>6
<1>12. /\ Types'
       /\ SessionsUnderCurrentPassword' /\ SessionsPassedSecondFactor' /\ DevicesCurrent'
       /\ AdminsEnrolled' /\ StepsSpent' /\ RecoverySpent' /\ CodeAcceptedOnce'
  BY <1>1, <1>4, <1>5, <1>7, <1>8, <1>9, <1>11, PassKeeps
<1> QED BY <1>10, <1>12 DEF Inv

(* A confirmed enrollment: the seed was of this session only and none of   *)
(* its codes was accepted; the account's other sessions end (confirm_totp).*)
LEMMA ConfirmTotpInv ==
  ASSUME Inv, NEW r \in Slots, ConfirmTotp(r)
  PROVE  Inv'
<1> DEFINE u == reqs[r].user
           id == reqs[r].id
           pend == sessions[id].pending
           n == pend.nonce
           kept == OthersEnded(u, id)
<1>1. reqs[r].phase = "entered" /\ Request(reqs[r])
  BY Zenon DEF ConfirmTotp, Inv, Types
<1>2. u \in Users
  <2>1. reqs[r] # Idle
    BY <1>1 DEF Idle
  <2> QED BY <1>1, <2>1 DEF Request
<1>3. /\ Types /\ SessionsUnderCurrentPassword /\ SessionsPassedSecondFactor /\ DevicesCurrent
      /\ AdminsEnrolled /\ SeedsApart /\ StepsSpent /\ RecoverySpent /\ CodeAcceptedOnce
  BY DEF Inv
<1>4. PICK step \in Steps :
        /\ users' = [users EXCEPT ![u] = [[@ EXCEPT !.nonce = n] EXCEPT !.lastStep = step]]
        /\ Accept(TotpCode(n, step))
  BY Zenon DEF ConfirmTotp
<1>5. /\ id \in DOMAIN sessions /\ pend # None
      /\ ReplaceCodes(u) /\ Done(r) /\ nonces' = nonces /\ cookies' = cookies
      /\ devices' = [devices EXCEPT ![u] = {}]
  BY Zenon DEF ConfirmTotp
<1>ended. sessions' = [i \in DOMAIN kept |->
            IF i = id
              THEN [[kept[i] EXCEPT !.pending = None]
                       EXCEPT !.nonce = IF kept[i].user = u THEN n ELSE @]
              ELSE kept[i]]
  BY Zenon DEF ConfirmTotp
<1>6. step \in Nat
  <2>1. Horizon \in Nat /\ StepSeconds \in Nat \ {0}
    BY SignInAssumption, AccountAssumption
  <2>2. StepAt(Horizon) \in Int
    BY <2>1 DEF StepAt
  <2> QED BY <2>2 DEF Steps
<1>7. n \in Nat \ {0} /\ n <= nonces /\ nonces \in Nat
  <2>1. pend \in Pendings
    BY <1>3, <1>5 DEF Types, SessionRow
  <2>2. n \in Nat \ {0}
    BY <1>5, <2>1 DEF Pendings, None
  <2> QED BY <1>3, <1>5, <2>2 DEF SeedsApart, Types
<1>8. /\ \A w \in Users : users[w].nonce # n
      /\ \A i \in DOMAIN sessions : i # id => sessions[i].pending.nonce # n
      /\ \A s \in Nat : TotpCode(n, s) \notin accepted
  BY <1>3, <1>5, <1>7 DEF SeedsApart, StepsSpent
<1>9. /\ users' \in [Users -> AccountRow] /\ \A w \in Users \ {u} : users'[w] = users[w]
      /\ users'[u].nonce = n /\ users'[u].lastStep = step
      /\ users'[u].hash = users[u].hash /\ users'[u].role = users[u].role
  <2> DEFINE a == [users[u] EXCEPT !.nonce = n]
             b == [a EXCEPT !.lastStep = step]
  <2>1. users \in [Users -> AccountRow] /\ users' = [users EXCEPT ![u] = b]
    BY <1>3, <1>4 DEF Types
  <2>2. a \in AccountRow /\ a.nonce = n /\ a.hash = users[u].hash /\ a.role = users[u].role
    BY <1>2, <1>7, <2>1 DEF AccountRow
  <2> HIDE DEF a
  <2>3. /\ b \in AccountRow /\ b.nonce = n /\ b.hash = users[u].hash /\ b.role = users[u].role
        /\ b.lastStep = step
    BY <1>6, <2>2 DEF AccountRow, Time
  <2> HIDE DEF b
  <2> QED BY <1>2, <2>1, <2>3
<1>10. ASSUME NEW i \in DOMAIN sessions'
       PROVE  /\ i \in DOMAIN sessions /\ sessions'[i] \in SessionRow
              /\ sessions'[i].user = sessions[i].user /\ sessions'[i].hash = sessions[i].hash
              /\ i = id => sessions'[i].pending = None
              /\ i # id => sessions'[i] = sessions[i] /\ sessions[i].user # u
              /\ sessions'[i].nonce = IF sessions[i].user = u THEN n ELSE sessions[i].nonce
  <2>1. i \in DOMAIN sessions /\ kept[i] = sessions[i] /\ (i # id => sessions[i].user # u)
    BY <1>ended, Zenon DEF OthersEnded, Without, SessionsOf
  <2>2. sessions[i] \in SessionRow
    BY <1>3, <2>1 DEF Types
  <2> HIDE DEF kept
  <2>3. CASE i = id
    <3> DEFINE a == [sessions[i] EXCEPT !.pending = None]
               m == IF sessions[i].user = u THEN n ELSE sessions[i].nonce
               b == [a EXCEPT !.nonce = m]
    <3>1. /\ a \in SessionRow /\ a.user = sessions[i].user /\ a.hash = sessions[i].hash
          /\ a.pending = None /\ a.nonce = sessions[i].nonce
      BY <2>2 DEF SessionRow, Pendings, None
    <3>2. sessions'[i] = b
      BY <1>ended, <2>1, <2>3, <3>1, Zenon
    <3> HIDE DEF a
    <3>3. m \in Nat
      BY <1>7, <2>2 DEF SessionRow
    <3> HIDE DEF m
    <3>4. /\ b \in SessionRow /\ b.user = sessions[i].user /\ b.hash = sessions[i].hash
          /\ b.pending = None /\ b.nonce = m
      BY <3>1, <3>3 DEF SessionRow
    <3> HIDE DEF b
    <3> QED BY <2>1, <2>3, <3>2, <3>4 DEF m
  <2>4. CASE i # id
    BY <1>ended, <2>1, <2>2, <2>4, Zenon
  <2> QED BY <2>3, <2>4
<1>11. devices' = [w \in Users |-> IF w = u THEN {} ELSE devices[w]]
  BY <1>3, <1>5 DEF Types
<1>12. /\ codes' \in [Users -> SUBSET Nat]
       /\ \A w \in Users \ {u} : codes'[w] = codes[w]
       /\ batches' = batches + 1 /\ codes'[u] = Batch(batches + 1)
  BY <1>2, <1>3, <1>5, ReplaceCodesKeeps
<1>13. accepted' = accepted \cup {TotpCode(n, step)} /\ replayed' = {}
  BY <1>3, <1>4, <1>6, <1>8 DEF Accept, CodeAcceptedOnce
<1> HIDE DEF u, id, pend, n, kept
<1>14. Types'
  <2>1. \A w \in Users : users'[w].role = users[w].role
    BY <1>9
  <2>2. reqs' = [q \in Slots |-> reqs'[q]] /\ \A q \in Slots : Request(reqs[q])'
    BY <1>3, <1>5, <2>1, DoneKeepsRequests
  <2>3. nonces' \in Nat /\ cookies' \in Nat /\ batches' \in Nat
    BY <1>3, <1>5, <1>12 DEF Types
  <2>4. devices' = [w \in Users |-> devices'[w]]
    BY <1>11
  <2> QED BY <1>9, <1>10, <1>12, <2>2, <2>3, <2>4 DEF Types, SessionRow, Pendings
<1>15. SessionsUnderCurrentPassword' /\ SessionsPassedSecondFactor'
  <2>1. ASSUME NEW i \in DOMAIN sessions'
        PROVE  /\ sessions'[i].hash = users'[sessions'[i].user].hash
               /\ users'[sessions'[i].user].nonce \in {0, sessions'[i].nonce}
    <3>1. /\ sessions[i].hash = users[sessions[i].user].hash
          /\ users[sessions[i].user].nonce \in {0, sessions[i].nonce}
          /\ sessions[i].user \in Users
      BY <1>3, <1>10 DEF SessionsUnderCurrentPassword, SessionsPassedSecondFactor, Types, SessionRow
    <3>2. CASE sessions[i].user = u
      BY <1>9, <1>10, <3>1, <3>2
    <3>3. CASE sessions[i].user # u
      BY <1>9, <1>10, <3>1, <3>3
    <3> QED BY <3>2, <3>3
  <2> QED BY <2>1 DEF SessionsUnderCurrentPassword, SessionsPassedSecondFactor
<1>16. DevicesCurrent' /\ AdminsEnrolled'
  BY <1>3, <1>7, <1>9, <1>11 DEF DevicesCurrent, AdminsEnrolled
<1>17. \A i \in DOMAIN sessions' : sessions'[i].pending.nonce # 0 =>
         /\ i \in DOMAIN sessions /\ i # id
         /\ sessions'[i].pending.nonce = sessions[i].pending.nonce
  BY <1>10 DEF None
<1>18. SeedsApart'
  <2>1. SeedsApart /\ nonces' = nonces
    BY <1>3, <1>5
  <2>2. \A w \in Users : users'[w].nonce = IF w = u THEN n ELSE users[w].nonce
    BY <1>9
  <2>3. \A w \in Users : users'[w].nonce <= nonces'
    BY <1>7, <2>1, <2>2 DEF SeedsApart
  <2>4. \A v, w \in Users : users'[v].nonce # 0 /\ users'[v].nonce = users'[w].nonce => v = w
    BY <1>8, <2>1, <2>2 DEF SeedsApart
  <2>5. ASSUME NEW i \in DOMAIN sessions' PROVE sessions'[i].pending.nonce <= nonces'
    <3>1. CASE sessions'[i].pending.nonce = 0
      BY <1>7, <2>1, <3>1
    <3>2. CASE sessions'[i].pending.nonce # 0
      BY <1>17, <2>1, <3>2 DEF SeedsApart
    <3> QED BY <3>1, <3>2
  <2>6. \A i, j \in DOMAIN sessions' :
          sessions'[i].pending.nonce # 0 /\ sessions'[i].pending.nonce = sessions'[j].pending.nonce => i = j
    BY <1>17, <2>1 DEF SeedsApart
  <2>7. ASSUME NEW i \in DOMAIN sessions', NEW w \in Users, sessions'[i].pending.nonce # 0
        PROVE  sessions'[i].pending.nonce # users'[w].nonce
    <3>1. /\ i \in DOMAIN sessions /\ i # id /\ sessions[i].pending.nonce # 0
          /\ sessions'[i].pending.nonce = sessions[i].pending.nonce
      BY <1>17, <2>7
    <3>2. sessions[i].pending.nonce # n /\ sessions[i].pending.nonce # users[w].nonce
      BY <1>8, <2>1, <3>1 DEF SeedsApart
    <3> QED BY <2>2, <3>1, <3>2
  <2> QED BY <2>3, <2>4, <2>5, <2>6, <2>7 DEF SeedsApart
<1>19. StepsSpent'
  <2> SUFFICES ASSUME NEW m \in Nat, NEW s \in Nat, TotpCode(m, s) \in accepted'
               PROVE  /\ m # 0 /\ m <= nonces'
                      /\ \A i \in DOMAIN sessions' : sessions'[i].pending.nonce # m
                      /\ \A w \in Users : users'[w].nonce = m => s <= users'[w].lastStep
    BY DEF StepsSpent
  <2>1. CASE TotpCode(m, s) \in accepted
    <3>1. /\ m # 0 /\ m <= nonces /\ m # n
          /\ \A i \in DOMAIN sessions : sessions[i].pending.nonce # m
          /\ \A w \in Users : users[w].nonce = m => s <= users[w].lastStep
      BY <1>3, <1>8, <2>1 DEF StepsSpent
    <3>2. m <= nonces'
      BY <1>5, <3>1
    <3>3. \A i \in DOMAIN sessions' : sessions'[i].pending.nonce # m
      BY <1>17, <3>1
    <3>4. \A w \in Users : users'[w].nonce = m => s <= users'[w].lastStep
      BY <1>9, <3>1
    <3> QED BY <3>1, <3>2, <3>3, <3>4
  <2>2. CASE TotpCode(m, s) \notin accepted
    <3>1. m = n /\ s = step
      BY <1>13, <2>2, CodesDiffer
    <3>2. \A w \in Users : users'[w].nonce = m => w = u
      BY <1>8, <1>9, <3>1
    <3>3. \A i \in DOMAIN sessions' : sessions'[i].pending.nonce # m
      BY <1>7, <1>8, <1>17, <3>1
    <3>4. \A w \in Users : users'[w].nonce = m => s <= users'[w].lastStep
      BY <1>6, <1>9, <3>1, <3>2
    <3>5. m # 0 /\ m <= nonces'
      BY <1>5, <1>7, <3>1
    <3> QED BY <3>3, <3>4, <3>5
  <2> QED BY <2>1, <2>2
<1>20. RecoverySpent'
  <2>1. \A c \in Nat : RecoveryCode(c) \in accepted' => RecoveryCode(c) \in accepted
    BY <1>13, CodesDiffer
  <2> QED BY <1>2, <1>3, <1>12, <2>1, RecoveryStaysSpent
<1> QED BY <1>13, <1>14, <1>15, <1>16, <1>18, <1>19, <1>20 DEF Inv, CodeAcceptedOnce

(* Nothing but what one request holds changes (current, check).            *)
LEMMA RequestInv ==
  ASSUME Inv, NEW r \in Slots, NEW q, Request(q), reqs' = [reqs EXCEPT ![r] = q],
         UNCHANGED <<tables, drawn, accepted, replayed>>
  PROVE  Inv'
<1>1. /\ users' = users /\ codes' = codes /\ sessions' = sessions /\ devices' = devices
      /\ nonces' = nonces /\ cookies' = cookies /\ batches' = batches
      /\ accepted' = accepted /\ replayed' = replayed
  BY DEF tables, drawn
<1>2. reqs = [p \in Slots |-> reqs[p]] /\ \A p \in Slots : Request(reqs[p])
  BY DEF Inv, Types
<1>3. reqs' = [p \in Slots |-> IF p = r THEN q ELSE reqs[p]]
  BY <1>2
<1>4. \A p \in Slots : Request(reqs[p])'
  BY <1>1, <1>2, <1>3 DEF Request
<1>5. reqs' = [p \in Slots |-> reqs'[p]]
  BY <1>3
<1>6. Types'
  BY <1>1, <1>4, <1>5 DEF Inv, Types, SessionRow, Pendings
<1>7. SessionsUnderCurrentPassword' /\ SessionsPassedSecondFactor' /\ DevicesCurrent' /\ AdminsEnrolled'
  BY <1>1, Zenon DEF Inv, SessionsUnderCurrentPassword, SessionsPassedSecondFactor, DevicesCurrent, AdminsEnrolled
<1>8. SeedsApart' /\ StepsSpent' /\ RecoverySpent' /\ CodeAcceptedOnce'
  BY <1>1 DEF Inv, SeedsApart, StepsSpent, RecoverySpent, CodeAcceptedOnce
<1> QED BY <1>6, <1>7, <1>8 DEF Inv

(* What a client types is a code (LoginForm, Reauth).                      *)
LEMMA TypeableIsCode ==
  ASSUME Types, NEW u \in Users
  PROVE  Typeable(u) \subseteq Code
<1>1. users[u].nonce \in Nat /\ batches \in Nat
  BY DEF Types, AccountRow
<1>2. \A s \in Steps : s \in Nat
  <2>1. Horizon \in Nat /\ StepSeconds \in Nat \ {0}
    BY SignInAssumption, AccountAssumption
  <2>2. StepAt(Horizon) \in Int
    BY <2>1 DEF StepAt
  <2> QED BY <2>2 DEF Steps
<1>3. ASSUME NEW n \in 1..batches PROVE Batch(n) \subseteq Nat
  <2>1. n - 1 \in Nat /\ (n - 1) + 1 = n
    BY <1>1
  <2>2. Batch((n - 1) + 1) \subseteq Nat
    BY <2>1, BatchIsNew
  <2> QED BY <2>1, <2>2
<1>4. \A s \in Steps : TotpCode(users[u].nonce, s) \in Code
  BY <1>1, <1>2 DEF TotpCode, Code
<1>5. \A c \in Nat : RecoveryCode(c) \in Code
  BY DEF RecoveryCode, Code
<1>6. NoCode \in Code
  BY DEF Code
<1> QED BY <1>3, <1>4, <1>5, <1>6 DEF Typeable

(* A request enters with a session (current).                              *)
LEMMA EnterInv ==
  ASSUME Inv, NEW r \in Slots, NEW i \in DOMAIN sessions, Enter(r, i)
  PROVE  Inv'
<1> DEFINE u == sessions[i].user
           Entered(p) == [phase |-> "entered", page |-> p, user |-> u, id |-> i, t |-> now]
<1>1. PICK p \in Reauthenticated \cup Direct :
        /\ p = "disable" => ~RequiresTwoFactor(users[u].role)
        /\ reqs' = [reqs EXCEPT ![r] = Entered(p)]
  BY DEF Enter
<1>2. u \in Users
  BY DEF Inv, Types, SessionRow
<1>3. Request(Entered(p))
  BY <1>1, <1>2 DEF Request, RequiresTwoFactor
<1>4. UNCHANGED <<tables, drawn, accepted, replayed>>
  BY DEF Enter
<1> QED BY <1>1, <1>3, <1>4, RequestInv, Zenon

(* The check of a login begins (login, check).                             *)
LEMMA LoginInv ==
  ASSUME Inv, NEW r \in Slots, NEW u \in Users, Login(r, u)
  PROVE  Inv'
<1>1. PICK code \in Typeable(u), d \in {d.cookie : d \in devices[u]} \cup {0} :
        reqs' = [reqs EXCEPT ![r] = Checking("login", u, NoSession, d, code)]
  BY DEF Login
<1>2. code \in Code /\ users[u].hash \in Nat
  BY TypeableIsCode DEF Inv, Types, AccountRow
<1>3. Request(Checking("login", u, NoSession, d, code))
  BY <1>2, Zenon DEF Request, Checking
<1>4. UNCHANGED <<tables, drawn, accepted, replayed>>
  BY Zenon DEF Login
<1> QED BY <1>1, <1>3, <1>4, RequestInv, Zenon

(* The check of a request with a session begins (Reauth, check).           *)
LEMMA ReauthInv ==
  ASSUME Inv, NEW r \in Slots, Reauth(r)
  PROVE  Inv'
<1> DEFINE v == reqs[r]
<1>1. PICK code \in Typeable(v.user) :
        reqs' = [reqs EXCEPT ![r] = Checking(v.page, v.user, v.id, 0, code)]
  BY DEF Reauth
<1>2. v.phase = "entered" /\ Request(v)
  BY DEF Reauth, Inv, Types
<1>3. v.user \in Users /\ (v.page = "disable" => users[v.user].role # "admin")
  <2>1. v # Idle
    BY <1>2 DEF Idle
  <2> QED BY <1>2, <2>1 DEF Request
<1>4. code \in Code /\ users[v.user].hash \in Nat
  BY <1>3, TypeableIsCode DEF Inv, Types, AccountRow
<1>5. Request(Checking(v.page, v.user, v.id, 0, code))
  BY <1>3, <1>4, Zenon DEF Request, Checking
<1>6. UNCHANGED <<tables, drawn, accepted, replayed>>
  BY DEF Reauth
<1> QED BY <1>1, <1>5, <1>6, RequestInv

(* Sessions and device cookies that end take nothing else along            *)
(* (end_others, logout, retention).                                        *)
LEMMA EndingInv ==
  ASSUME Inv, UNCHANGED <<users, codes, drawn, accepted, replayed>>,
         reqs' = [q \in Slots |-> reqs'[q]], \A q \in Slots : Request(reqs[q])',
         \A i \in DOMAIN sessions' : i \in DOMAIN sessions /\ sessions'[i] = sessions[i],
         devices' = [w \in Users |-> devices'[w]],
         \A w \in Users : devices'[w] \subseteq devices[w]
  PROVE  Inv'
<1>1. /\ users' = users /\ codes' = codes /\ accepted' = accepted /\ replayed' = replayed
      /\ nonces' = nonces /\ cookies' = cookies /\ batches' = batches
  BY DEF drawn
<1>2. Types'
  BY <1>1 DEF Inv, Types, SessionRow, Pendings
<1>3. SessionsUnderCurrentPassword' /\ SessionsPassedSecondFactor' /\ DevicesCurrent' /\ AdminsEnrolled'
  BY <1>1 DEF Inv, SessionsUnderCurrentPassword, SessionsPassedSecondFactor, DevicesCurrent, AdminsEnrolled
<1>4. SeedsApart'
  BY <1>1 DEF Inv, SeedsApart
<1>5. StepsSpent'
  BY <1>1 DEF Inv, StepsSpent
<1>6. RecoverySpent' /\ CodeAcceptedOnce'
  BY <1>1 DEF Inv, RecoverySpent, CodeAcceptedOnce
<1> QED BY <1>2, <1>3, <1>4, <1>5, <1>6 DEF Inv

(* POST /admin/account/sessions/end-others and POST /admin/logout.         *)
LEMMA LeaveInv ==
  ASSUME Inv, NEW r \in Slots, EndOthers(r) \/ Logout(r)
  PROVE  Inv'
<1>1. Done(r) /\ UNCHANGED <<users, codes, devices, drawn, accepted, replayed>>
  BY DEF EndOthers, Logout
<1>2. \A i \in DOMAIN sessions' : i \in DOMAIN sessions /\ sessions'[i] = sessions[i]
  BY Zenon DEF EndOthers, Logout, OthersEnded, Without
<1>3. Types
  BY DEF Inv
<1>4. reqs' = [q \in Slots |-> reqs'[q]] /\ \A q \in Slots : Request(reqs[q])'
  BY <1>1, <1>3, DoneKeepsRequests
<1>5. devices' = [w \in Users |-> devices'[w]]
  BY <1>1, <1>3 DEF Types
<1> QED BY <1>1, <1>2, <1>4, <1>5, EndingInv

(* Retention (retention).                                                  *)
LEMMA RetentionInv ==
  ASSUME Inv, Retention
  PROVE  Inv'
<1>1. UNCHANGED <<users, codes, reqs, drawn, accepted, replayed>>
  BY DEF Retention
<1>2. \A i \in DOMAIN sessions' : i \in DOMAIN sessions /\ sessions'[i] = sessions[i]
  BY DEF Retention, Without
<1>3. /\ devices' = [w \in Users |-> devices'[w]]
      /\ \A w \in Users : devices'[w] \subseteq devices[w]
  BY DEF Retention
<1>4. reqs = [q \in Slots |-> reqs[q]] /\ \A q \in Slots : Request(reqs[q])
  BY DEF Inv, Types
<1>5. reqs' = [q \in Slots |-> reqs'[q]]
  BY <1>1, <1>4
<1>6. \A q \in Slots : Request(reqs[q])'
  BY <1>1, <1>4 DEF Request
<1> QED BY <1>1, <1>2, <1>3, <1>5, <1>6, EndingInv

(* A new password by a reset link (link_submit).                           *)
LEMMA LinkSubmitInv ==
  ASSUME Inv, NEW u \in Users, LinkSubmit(u)
  PROVE  Inv'
<1> DEFINE row == [users[u] EXCEPT !.hash = @ + 1]
<1>1. users' = [users EXCEPT ![u] = row]
  BY DEF LinkSubmit
<1>2. /\ EndAll(u) /\ codes' = codes /\ reqs' = reqs /\ accepted' = accepted /\ replayed' = replayed
      /\ nonces' = nonces /\ cookies' = cookies /\ batches' = batches
  BY DEF LinkSubmit, drawn
<1>3. /\ Types /\ SessionsUnderCurrentPassword /\ SessionsPassedSecondFactor /\ DevicesCurrent
      /\ AdminsEnrolled /\ SeedsApart /\ StepsSpent /\ RecoverySpent /\ CodeAcceptedOnce
  BY DEF Inv
<1>4. users \in [Users -> AccountRow]
  BY <1>3 DEF Types
<1>5. /\ row \in AccountRow /\ row.nonce = users[u].nonce /\ row.role = users[u].role
      /\ row.lastStep = users[u].lastStep
  BY <1>4 DEF AccountRow
<1> HIDE DEF row
<1>6. /\ users' \in [Users -> AccountRow]
      /\ \A w \in Users : /\ users'[w].nonce = users[w].nonce /\ users'[w].role = users[w].role
                          /\ users'[w].lastStep = users[w].lastStep
  BY <1>1, <1>4, <1>5
<1>7. /\ \A i \in DOMAIN sessions' :
           /\ SessionGoesOn(i, u, row)
           /\ i \in DOMAIN sessions /\ sessions'[i].pending = sessions[i].pending
      /\ devices' = [w \in Users |-> devices'[w]]
      /\ \A w \in Users : \A d \in devices'[w] : DeviceGoesOn(w, d, u, row)
  BY <1>2, <1>3, EndAllKeeps
<1>8. Types'
  <2>1. reqs' = [q \in Slots |-> reqs'[q]]
    BY <1>2, <1>3 DEF Types
  <2>2. \A q \in Slots : Request(reqs[q])'
    BY <1>2, <1>3, <1>6 DEF Types, Request
  <2>3. \A i \in DOMAIN sessions' : sessions'[i] \in SessionRow
    BY <1>7 DEF SessionGoesOn
  <2> QED BY <1>2, <1>3, <1>6, <1>7, <2>1, <2>2, <2>3 DEF Types, SessionRow, Pendings
<1>9. SessionsUnderCurrentPassword' /\ SessionsPassedSecondFactor' /\ DevicesCurrent'
  BY <1>1, <1>3, <1>5, <1>7, CurrentStays
<1>10. AdminsEnrolled'
  BY <1>3, <1>6 DEF AdminsEnrolled
<1>11. SeedsApart'
  BY <1>2, <1>3, <1>6, <1>7, SeedsStayApart
<1>12. StepsSpent'
  BY <1>2, <1>3, <1>6, <1>7 DEF StepsSpent
<1>13. RecoverySpent' /\ CodeAcceptedOnce'
  BY <1>2, <1>3, Zenon DEF RecoverySpent, CodeAcceptedOnce
<1> QED BY <1>8, <1>9, <1>10, <1>11, <1>12, <1>13 DEF Inv

-----------------------------------------------------------------------------
(* The accounts as they are made: one admin at most has the first seed.    *)
LEMMA InitInv == Init => Inv
<1> SUFFICES ASSUME Init PROVE Inv
  OBVIOUS
<1>1. /\ users \in NewUsers /\ codes = [u \in Users |-> {}] /\ sessions = <<>>
      /\ devices = [u \in Users |-> {}] /\ reqs = [r \in Slots |-> Idle]
      /\ nonces = 1 /\ cookies = 0 /\ batches = 0 /\ accepted = {} /\ replayed = {}
  BY DEF Init
<1>2. ASSUME NEW role \in Roles, NEW m \in Nat
      PROVE  /\ NewAccount(role, 1, m) \in AccountRow
             /\ NewAccount(role, 1, m).role = role /\ NewAccount(role, 1, m).nonce = m
  <2>1. Null \in Time /\ 0 \in 0..(LockAfter - 1) /\ 0 \in 0..DeviceFailuresMax
    BY AccountAssumption DEF Time
  <2> QED BY <2>1 DEF NewAccount, AccountRow
<1>3. users \in [Users -> {NewAccount("maintainer", 1, 0), NewAccount("admin", 1, 1)}]
  BY <1>1 DEF NewUsers
<1>4. \A u, v \in Users : users[u].role = "admin" /\ users[v].role = "admin" => u = v
  BY <1>1 DEF NewUsers
<1>5. /\ users \in [Users -> AccountRow]
      /\ \A u \in Users : users[u].nonce \in {0, 1} /\ (users[u].role = "admin" <=> users[u].nonce = 1)
  <2>1. "admin" \in Roles /\ "maintainer" \in Roles
    BY DEF Roles
  <2>2. /\ NewAccount("maintainer", 1, 0) \in AccountRow /\ NewAccount("admin", 1, 1) \in AccountRow
        /\ NewAccount("maintainer", 1, 0).role = "maintainer" /\ NewAccount("maintainer", 1, 0).nonce = 0
        /\ NewAccount("admin", 1, 1).role = "admin" /\ NewAccount("admin", 1, 1).nonce = 1
    BY <1>2, <2>1
  <2> QED BY <1>3, <2>2
<1>6. DOMAIN sessions = {}
  BY <1>1
<1>7. Types
  <2>1. codes \in [Users -> SUBSET Nat] /\ devices = [u \in Users |-> devices[u]]
    BY <1>1
  <2>2. reqs = [r \in Slots |-> reqs[r]] /\ \A r \in Slots : Request(reqs[r])
    BY <1>1 DEF Request
  <2>3. nonces \in Nat /\ cookies \in Nat /\ batches \in Nat
    BY <1>1
  <2> QED BY <1>5, <1>6, <2>1, <2>2, <2>3 DEF Types
<1>8. SessionsUnderCurrentPassword /\ SessionsPassedSecondFactor /\ DevicesCurrent /\ AdminsEnrolled
  BY <1>1, <1>5, <1>6, SMTT(20) DEF SessionsUnderCurrentPassword, SessionsPassedSecondFactor,
                          DevicesCurrent, AdminsEnrolled
<1>9. SeedsApart
  BY <1>1, <1>4, <1>5, <1>6 DEF SeedsApart
<1>10. StepsSpent /\ RecoverySpent /\ CodeAcceptedOnce
  BY <1>1 DEF StepsSpent, RecoverySpent, CodeAcceptedOnce
<1> QED BY <1>7, <1>8, <1>9, <1>10 DEF Inv

(* The invariant holds in every state, whatever requests run at once.      *)
THEOREM Invariance == Spec => []Inv
<1>1. Inv /\ [Next]_vars => Inv'
  <2> SUFFICES ASSUME Inv, [Next]_vars PROVE Inv'
    OBVIOUS
  <2>1. CASE Tick \/ UNCHANGED vars
    <3>1. UNCHANGED <<tables, reqs, drawn, accepted, replayed>>
      BY <2>1 DEF Tick, vars
    <3>2. reqs = [q \in Slots |-> reqs[q]] /\ \A q \in Slots : Request(reqs[q])
      BY DEF Inv, Types
    <3>3. /\ UNCHANGED <<users, codes, drawn, accepted, replayed>>
          /\ sessions' = sessions /\ devices' = devices /\ reqs' = reqs
      BY <3>1 DEF tables
    <3>4. reqs' = [q \in Slots |-> reqs'[q]]
      BY <3>2, <3>3
    <3>5. \A q \in Slots : Request(reqs[q])'
      BY <3>2, <3>3 DEF Request
    <3>6. devices' = [w \in Users |-> devices'[w]]
      BY <3>3 DEF Inv, Types
    <3> QED BY <3>3, <3>4, <3>5, <3>6, EndingInv
  <2>2. ASSUME NEW r \in Slots, NEW i \in DOMAIN sessions, Enter(r, i) PROVE Inv'
    BY <2>2, EnterInv
  <2>3. ASSUME NEW r \in Slots, NEW u \in Users, Login(r, u) PROVE Inv'
    BY <2>3, LoginInv
  <2>4. ASSUME NEW r \in Slots, Reauth(r) PROVE Inv'
    BY <2>4, ReauthInv
  <2>5. ASSUME NEW r \in Slots, Fails(r) PROVE Inv'
    <3>1. /\ reqs' = [reqs EXCEPT ![r] = Idle] /\ Request(Idle)
          /\ UNCHANGED <<tables, drawn, accepted, replayed>>
      BY <2>5 DEF Fails, Done, Request
    <3> QED BY <3>1, RequestInv
  <2>6. ASSUME NEW r \in Slots, Decide(r) PROVE Inv'
    BY <2>6, LoginPassesInv, ChangePasswordInv, StartTotpInv, DisableTotpInv,
       RegenerateCodesInv, ConfirmTotpInv, LeaveInv DEF Decide
  <2>7. ASSUME NEW u \in Users, LinkSubmit(u) PROVE Inv'
    BY <2>7, LinkSubmitInv
  <2>8. CASE Retention
    BY <2>8, RetentionInv
  <2> QED BY <2>1, <2>2, <2>3, <2>4, <2>5, <2>6, <2>7, <2>8 DEF Next
<1> QED BY <1>1, InitInv, PTL DEF Spec

(* Every session was begun with the password in force now, whatever logins *)
(* and password changes race (end_all, decide).                            *)
THEOREM PasswordHolds == Spec => []SessionsUnderCurrentPassword
<1>1. Inv => SessionsUnderCurrentPassword
  BY DEF Inv
<1> QED BY <1>1, Invariance, PTL

(* Every session of an account with a second factor passed that very       *)
(* enrollment (confirm_totp, decide).                                      *)
THEOREM SecondFactorHolds == Spec => []SessionsPassedSecondFactor
<1>1. Inv => SessionsPassedSecondFactor
  BY DEF Inv
<1> QED BY <1>1, Invariance, PTL

(* A device cookie on file is of the password and the second factor in     *)
(* force (end_all, confirm_totp, disable_totp).                            *)
THEOREM DevicesHold == Spec => []DevicesCurrent
<1>1. Inv => DevicesCurrent
  BY DEF Inv
<1> QED BY <1>1, Invariance, PTL

(* An account whose role requires a second factor has one while it has a   *)
(* session (disable_totp, decide).                                         *)
THEOREM RequiredFactorStays == Spec => []RequiredFactorOn
<1>1. Inv => RequiredFactorOn
  BY DEF Inv, Types, SessionRow, AdminsEnrolled, RequiredFactorOn
<1> QED BY <1>1, Invariance, PTL

(* No TOTP code and no recovery code is accepted twice (code_accepted,     *)
(* consume, confirm_totp).                                                 *)
THEOREM CodesOnce == Spec => []CodeAcceptedOnce
<1>1. Inv => CodeAcceptedOnce
  BY DEF Inv
<1> QED BY <1>1, Invariance, PTL
-----------------------------------------------------------------------------
(* Bounds, and the cap on device cookies *)

Bounded ==
  /\ now \in 0..Horizon /\ nonces <= MaxNonce /\ cookies <= MaxCookie /\ batches <= MaxBatch
  /\ \A u \in Users : users[u].hash <= MaxHash
  /\ \A u \in Users : \A c \in codes[u] : c >= 1
  /\ \A r \in Slots : reqs[r].phase = "checking" => reqs[r].t \in Nat

(* Sessions do not share cookies.                                          *)
SessionsApart ==
  /\ \A i \in DOMAIN sessions : sessions[i].cookie <= cookies
  /\ \A i, j \in DOMAIN sessions : sessions[i].cookie = sessions[j].cookie => i = j

(* An account's device cookies differ, and there are few of them.          *)
Devices(ds, n) ==
  /\ \A d \in ds : d.cookie \in Nat /\ d.cookie <= n /\ d.t \in Nat
  /\ \A d, e \in ds : d.cookie = e.cookie => d = e

Capped(ds) == IsFiniteSet(ds) /\ Cardinality(ds) <= DevicesKept

DevicesApart == \A u \in Users : Devices(devices[u], cookies) /\ Capped(devices[u])

(* Keeping those with fewer than DevicesKept newer ones keeps at most      *)
(* DevicesKept: a cookie is told by how many are newer (add_device).       *)
LEMMA WithDeviceCaps ==
  ASSUME NEW ds, NEW n \in Nat, NEW d, Devices(ds, n), Capped(ds),
         d.cookie = n + 1, d.t \in Nat
  PROVE  Devices(WithDevice(ds, d), n + 1) /\ Capped(WithDevice(ds, d))
<1> DEFINE all == ds \cup {d}
           newer(e) == {f \in all : f.t > e.t \/ (f.t = e.t /\ f.cookie > e.cookie)}
           K == {e \in all : Cardinality(newer(e)) < DevicesKept}
           T == 0..(DevicesKept - 1)
           rank == [e \in K |-> Cardinality(newer(e))]
<1>1. WithDevice(ds, d) = K
  BY DEF WithDevice
<1>2. Devices(all, n + 1)
  <2>1. ASSUME NEW e \in ds PROVE e.cookie \in Nat /\ e.cookie <= n + 1 /\ e.t \in Nat /\ e.cookie # d.cookie
    BY DEF Devices
  <2> QED BY <2>1 DEF Devices
<1>3. IsFiniteSet(all)
  BY FS_AddElement DEF Capped
<1>4. \A e \in all : e.cookie \in Nat /\ e.t \in Nat
  BY <1>2 DEF Devices
<1>5. \A e, f \in all : e.cookie = f.cookie => e = f
  BY <1>2 DEF Devices
<1> HIDE DEF all
<1>6. ASSUME NEW e \in all PROVE IsFiniteSet(newer(e)) /\ Cardinality(newer(e)) \in Nat
  <2>1. newer(e) \in SUBSET all
    OBVIOUS
  <2> HIDE DEF newer
  <2>2. IsFiniteSet(newer(e))
    BY <1>3, <2>1, FS_Subset
  <2> QED BY <2>2, FS_CardinalityType
<1>7. ASSUME NEW e \in all, NEW f \in newer(e) PROVE Cardinality(newer(f)) < Cardinality(newer(e))
  <2>1. f \in all /\ e.t \in Nat /\ f.t \in Nat /\ e.cookie \in Nat /\ f.cookie \in Nat
    BY <1>4
  <2>2. \A g \in newer(f) : g \in newer(e) \ {f}
    BY <1>4, <1>7, <2>1
  <2>3. IsFiniteSet(newer(e)) /\ Cardinality(newer(e)) \in Nat /\ Cardinality(newer(f)) \in Nat
    BY <1>6, <2>1
  <2> HIDE DEF newer
  <2>4. IsFiniteSet(newer(e) \ {f}) /\ Cardinality(newer(e) \ {f}) = Cardinality(newer(e)) - 1
    BY <1>7, <2>3, FS_RemoveElement
  <2>5. Cardinality(newer(f)) <= Cardinality(newer(e) \ {f})
    <3>1. newer(f) \in SUBSET (newer(e) \ {f})
      BY <2>2
    <3> QED BY <2>4, <3>1, FS_Subset
  <2> QED BY <2>3, <2>4, <2>5
<1>8. ASSUME NEW e \in all, NEW f \in all, e # f PROVE f \in newer(e) \/ e \in newer(f)
  BY <1>4, <1>5, <1>8
<1>9. K \subseteq all
  OBVIOUS
<1>10. ASSUME NEW e \in K PROVE Cardinality(newer(e)) \in T
  <2>1. DevicesKept \in Nat /\ Cardinality(newer(e)) \in Nat /\ Cardinality(newer(e)) < DevicesKept
    BY <1>6, SignInAssumption
  <2> HIDE DEF newer
  <2> QED BY <2>1
<1>11. ASSUME NEW e \in K, NEW f \in K, Cardinality(newer(e)) = Cardinality(newer(f)) PROVE e = f
  <2>1. SUFFICES ASSUME e # f PROVE FALSE
    OBVIOUS
  <2>2. e \in all /\ f \in all
    BY <1>9
  <2>3. Cardinality(newer(e)) \in Nat /\ Cardinality(newer(f)) \in Nat
    BY <1>6, <2>2
  <2>4. Cardinality(newer(f)) < Cardinality(newer(e)) \/ Cardinality(newer(e)) < Cardinality(newer(f))
    BY <1>7, <1>8, <2>1, <2>2
  <2> HIDE DEF newer, K
  <2> QED BY <1>11, <2>3, <2>4
<1> HIDE DEF newer, K
<1>12. rank \in [K -> T] /\ \A e, f \in K : rank[e] = rank[f] => e = f
  BY <1>10, <1>11
<1> HIDE DEF rank
<1>13. rank \in Injection(K, T)
  BY <1>12 DEF Injection, IsInjective
<1>14. IsFiniteSet(T) /\ Cardinality(T) = DevicesKept
  <2>1. DevicesKept \in Nat /\ DevicesKept >= 1 /\ 0 \in Int /\ DevicesKept - 1 \in Int
    BY SignInAssumption
  <2>2. \A a, b \in Int : IsFiniteSet(a..b) /\ Cardinality(a..b) = IF a > b THEN 0 ELSE b - a + 1
    BY FS_Interval
  <2> DEFINE m == DevicesKept - 1
  <2>3. m \in Int /\ ~(0 > m) /\ m - 0 + 1 = DevicesKept
    BY <2>1
  <2>4. T = 0..m
    OBVIOUS
  <2> HIDE DEF m, T
  <2>5. IsFiniteSet(0..m) /\ Cardinality(0..m) = IF 0 > m THEN 0 ELSE m - 0 + 1
    BY <2>1, <2>2, <2>3
  <2> QED BY <2>3, <2>4, <2>5
<1> HIDE DEF T
<1>15. IsFiniteSet(K) /\ Cardinality(K) <= DevicesKept
  BY <1>13, <1>14, FS_Injection
<1>16. Devices(K, n + 1)
  BY <1>2, <1>9 DEF Devices
<1> QED BY <1>1, <1>15, <1>16 DEF Capped

(* Fewer device cookies stay capped.                                       *)
LEMMA FewerDevices ==
  ASSUME NEW ds, NEW n \in Nat, NEW m \in Nat, n <= m, Devices(ds, n), Capped(ds), NEW es \in SUBSET ds
  PROVE  Devices(es, m) /\ Capped(es)
<1>1. Devices(es, m)
  BY DEF Devices
<1>2. IsFiniteSet(es) /\ Cardinality(es) <= Cardinality(ds)
  BY FS_Subset DEF Capped
<1>3. Cardinality(es) \in Nat /\ Cardinality(ds) \in Nat /\ DevicesKept \in Nat
  BY <1>2, FS_CardinalityType, SignInAssumption DEF Capped
<1> QED BY <1>1, <1>2, <1>3 DEF Capped

(* A request that passed holds its account, its code and the time of its   *)
(* check (decide).                                                         *)
LEMMA PassedHolds ==
  ASSUME Inv, Bounded, NEW r \in Slots, NEW page, Passed(r, page)
  PROVE  reqs[r].user \in Users /\ reqs[r].code \in Code /\ reqs[r].t \in Nat
<1>1. reqs[r].phase = "checking" /\ Request(reqs[r])
  BY DEF Passed, Inv, Types
<1>2. reqs[r] # Idle
  BY <1>1 DEF Idle
<1> QED BY <1>1, <1>2 DEF Request, Bounded

(* A request that only entered holds its account (current).                *)
LEMMA EnteredHolds ==
  ASSUME Inv, NEW r \in Slots, reqs[r].phase = "entered"
  PROVE  reqs[r].user \in Users
<1>1. Request(reqs[r]) /\ reqs[r] # Idle
  BY DEF Inv, Types, Idle
<1> QED BY <1>1 DEF Request

(* The pages that pass every factor.                                       *)
Passes(r) ==
  LoginPasses(r) \/ ChangePassword(r) \/ StartTotp(r) \/ DisableTotp(r) \/ RegenerateCodes(r)

(* The clock and the counters stay within the bounds.                      *)
LEMMA CountersStay ==
  ASSUME Bounded, Types, [Next]_vars
  PROVE  (now \in 0..Horizon /\ nonces <= MaxNonce /\ cookies <= MaxCookie /\ batches <= MaxBatch)'
<1>1. /\ now \in Nat /\ nonces \in Nat /\ cookies \in Nat /\ batches \in Nat
      /\ {Horizon, MaxNonce, MaxCookie, MaxBatch} \subseteq Nat
  BY SignInAssumption DEF Bounded, Types
<1>2. now' = now \/ (now < Horizon /\ now' = now + 1)
  BY Zenon DEF Next, Decide, Tick, Enter, Login, Reauth, Fails, LoginPasses, ChangePassword, StartTotp,
     DisableTotp, RegenerateCodes, ConfirmTotp, EndOthers, Logout, LinkSubmit, Retention, vars
<1> DEFINE Counted == /\ nonces' = nonces \/ (nonces < MaxNonce /\ nonces' = nonces + 1)
                      /\ cookies' = cookies \/ (cookies < MaxCookie /\ cookies' = cookies + 1)
                      /\ batches' = batches \/ (batches < MaxBatch /\ batches' = batches + 1)
<1>3. Counted
  <2>1. CASE UNCHANGED drawn
    BY <2>1 DEF drawn
  <2>2. ASSUME NEW r \in Slots, LoginPasses(r) \/ StartTotp(r) PROVE Counted
    BY <2>2 DEF LoginPasses, StartTotp
  <2>3. ASSUME NEW r \in Slots, RegenerateCodes(r) \/ ConfirmTotp(r) PROVE Counted
    BY <2>3, Zenon DEF RegenerateCodes, ConfirmTotp, ReplaceCodes
  <2>4. ASSUME NEW r \in Slots, Decide(r) PROVE Counted
    BY <2>1, <2>2, <2>3, <2>4, Zenon DEF Decide, ChangePassword, DisableTotp, EndOthers, Logout
  <2>5. CASE UNCHANGED vars
    BY <2>1, <2>5 DEF vars
  <2> QED BY <2>1, <2>4, <2>5, Zenon DEF Next, Tick, Enter, Login, Reauth, Fails, LinkSubmit, Retention
<1> QED BY <1>1, <1>2, <1>3, SMTT(20) DEF Bounded

(* The steps that change the accounts, the sessions and device cookies, or *)
(* what a request holds.                                                   *)
LEMMA TablesStay ==
  ASSUME [Next]_vars
  PROVE  /\ \/ users' = users /\ codes' = codes
            \/ \E r \in Slots : Passes(r) \/ ConfirmTotp(r)
            \/ \E u \in Users : LinkSubmit(u) /\ codes' = codes
         /\ \/ sessions' = sessions /\ devices' = devices
            \/ \E r \in Slots : Passes(r) \/ ConfirmTotp(r) \/ EndOthers(r) \/ Logout(r)
            \/ \E u \in Users : LinkSubmit(u)
            \/ Retention
         /\ \/ reqs' = reqs
            \/ \E r \in Slots : Done(r)
            \/ \E r \in Slots, i \in DOMAIN sessions : Enter(r, i)
            \/ \E r \in Slots, u \in Users : Login(r, u)
            \/ \E r \in Slots : Reauth(r)
<1>1. CASE Tick \/ UNCHANGED vars
  BY <1>1 DEF Tick, vars, tables
<1>2. ASSUME NEW r \in Slots, Fails(r) \/ Reauth(r) \/ (\E i \in DOMAIN sessions : Enter(r, i))
                              \/ (\E u \in Users : Login(r, u))
      PROVE  /\ users' = users /\ codes' = codes /\ sessions' = sessions /\ devices' = devices
             /\ \/ Done(r) \/ Reauth(r)
                \/ \E i \in DOMAIN sessions : Enter(r, i)
                \/ \E u \in Users : Login(r, u)
  BY <1>2, Zenon DEF Fails, Reauth, Enter, Login, tables
<1>3. ASSUME NEW r \in Slots, Decide(r)
      PROVE  /\ Done(r)
             /\ \/ Passes(r) \/ ConfirmTotp(r)
                \/ (EndOthers(r) \/ Logout(r)) /\ users' = users /\ codes' = codes
  BY <1>3, Zenon DEF Decide, Passes, LoginPasses, ChangePassword, StartTotp, DisableTotp, RegenerateCodes,
     ConfirmTotp, EndOthers, Logout
<1>4. ASSUME NEW u \in Users, LinkSubmit(u) PROVE codes' = codes /\ reqs' = reqs
  BY <1>4 DEF LinkSubmit
<1>5. CASE Retention
  BY <1>5 DEF Retention
<1> QED BY <1>1, <1>2, <1>3, <1>4, <1>5, Zenon DEF Next

(* A password set is one more than the last, within its bound.             *)
LEMMA HashesStay ==
  ASSUME Inv, Bounded, [Next]_vars, NEW w \in Users
  PROVE  users'[w].hash <= MaxHash
<1>0. /\ Types /\ users \in [Users -> AccountRow] /\ users[w].hash <= MaxHash /\ MaxHash \in Nat
      /\ \A u \in Users : users[u].hash \in Nat
  BY SignInAssumption DEF Inv, Types, Bounded, AccountRow
<1>1. CASE users' = users
  BY <1>0, <1>1
<1>2. ASSUME NEW u \in Users, NEW row, users' = [users EXCEPT ![u] = row], row.hash <= MaxHash
      PROVE  users'[w].hash <= MaxHash
  BY <1>0, <1>2
<1>3. ASSUME NEW r \in Slots, Passes(r) PROVE users'[w].hash <= MaxHash
  <2> DEFINE u == reqs[r].user
             row == RowPassed(u, reqs[r].code)
  <2>1. u \in Users /\ reqs[r].code \in Code
    BY <1>3, PassedHolds DEF Passes, LoginPasses, ChangePassword, StartTotp, DisableTotp, RegenerateCodes
  <2>2. row \in AccountRow /\ row.hash = users[u].hash
    BY <1>0, <2>1, RowPassedKeeps
  <2>3. users[u].hash <= MaxHash /\ users[u].hash \in Nat
    BY <1>0, <2>1 DEF Bounded
  <2> HIDE DEF row
  <2>4. CASE users' = [users EXCEPT ![u] = row]
    BY <1>2, <2>1, <2>2, <2>3, <2>4
  <2>5. CASE ChangePassword(r)
    <3> DEFINE new == [row EXCEPT !.hash = @ + 1]
    <3>1. users' = [users EXCEPT ![u] = new] /\ users[u].hash < MaxHash
      BY <2>5 DEF ChangePassword, row
    <3>2. new.hash = users[u].hash + 1
      BY <2>2 DEF AccountRow
    <3> HIDE DEF new
    <3>3. new.hash <= MaxHash
      BY <1>0, <2>3, <3>1, <3>2
    <3> QED BY <1>2, <2>1, <3>1, <3>3
  <2>6. CASE DisableTotp(r)
    <3> DEFINE new == [[row EXCEPT !.nonce = 0] EXCEPT !.lastStep = Null]
    <3>1. users' = [users EXCEPT ![u] = new]
      BY <2>6 DEF DisableTotp, row
    <3>2. new.hash = row.hash
      BY <2>2 DEF AccountRow
    <3> HIDE DEF new
    <3> QED BY <1>2, <2>1, <2>2, <2>3, <3>1, <3>2
  <2> QED BY <1>3, <2>4, <2>5, <2>6 DEF Passes, LoginPasses, StartTotp, RegenerateCodes, row
<1>4. ASSUME NEW r \in Slots, ConfirmTotp(r) PROVE users'[w].hash <= MaxHash
  <2> DEFINE u == reqs[r].user
             pend == sessions[reqs[r].id].pending
  <2>1. u \in Users
    BY <1>4, EnteredHolds DEF ConfirmTotp
  <2>2. PICK step \in Steps :
          users' = [users EXCEPT ![u] = [[@ EXCEPT !.nonce = pend.nonce] EXCEPT !.lastStep = step]]
    BY <1>4 DEF ConfirmTotp
  <2> DEFINE new == [[users[u] EXCEPT !.nonce = pend.nonce] EXCEPT !.lastStep = step]
  <2>3. new.hash = users[u].hash
    BY <1>0, <2>1 DEF AccountRow
  <2>4. users' = [users EXCEPT ![u] = new]
    BY <2>2
  <2> HIDE DEF new
  <2>5. new.hash <= MaxHash
    BY <2>1, <2>3 DEF Bounded
  <2> QED BY <1>2, <2>1, <2>4, <2>5
<1>5. ASSUME NEW u \in Users, LinkSubmit(u) PROVE users'[w].hash <= MaxHash
  <2> DEFINE new == [users[u] EXCEPT !.hash = @ + 1]
  <2>1. users' = [users EXCEPT ![u] = new] /\ users[u].hash < MaxHash
    BY <1>5 DEF LinkSubmit
  <2>2. new.hash = users[u].hash + 1
    BY <1>0 DEF AccountRow
  <2> HIDE DEF new
  <2>3. new.hash <= MaxHash
    BY <1>0, <2>1, <2>2
  <2> QED BY <1>2, <2>1, <2>3
<1> QED BY <1>1, <1>3, <1>4, <1>5, TablesStay

(* Recovery codes are numbered from one (recovery::replace).               *)
LEMMA CodesStay ==
  ASSUME Inv, Bounded, [Next]_vars, NEW w \in Users, NEW c \in codes'[w]
  PROVE  c >= 1
<1>0. /\ Types /\ codes \in [Users -> SUBSET Nat] /\ \A u \in Users : \A b \in codes[u] : b >= 1
  BY DEF Inv, Types, Bounded
<1>1. CASE codes' = codes
  BY <1>0, <1>1
<1>2. ASSUME NEW u \in Users, ReplaceCodes(u) PROVE c >= 1
  <2>1. /\ \A v \in Users \ {u} : codes'[v] = codes[v]
        /\ codes'[u] = Batch(batches + 1)
    BY <1>0, <1>2, ReplaceCodesKeeps
  <2>2. \A b \in Batch(batches + 1) : b \in Nat /\ batches * CodeCount < b /\ batches * CodeCount \in Nat
    BY <1>0, BatchIsNew DEF Types
  <2>3. CASE w = u
    <3> DEFINE k == batches * CodeCount
    <3>1. c \in Nat /\ k < c /\ k \in Nat
      BY <2>1, <2>2, <2>3
    <3> HIDE DEF k
    <3> QED BY <3>1
  <2> QED BY <1>0, <2>1, <2>3
<1>3. ASSUME NEW r \in Slots, Passes(r) PROVE c >= 1
  <2> DEFINE u == reqs[r].user
  <2>1. u \in Users
    BY <1>3, PassedHolds DEF Passes, LoginPasses, ChangePassword, StartTotp, DisableTotp, RegenerateCodes
  <2>2. CASE codes' = CodesPassed(u, reqs[r].code)
    <3>1. /\ \A v \in Users \ {u} : codes'[v] = codes[v]
          /\ codes'[u] \subseteq codes[u]
      BY <1>0, <2>1, <2>2, CodesPassedKeeps
    <3> QED BY <1>0, <3>1
  <2>3. CASE DisableTotp(r)
    <3>1. codes' = [codes EXCEPT ![u] = {}]
      BY <2>3 DEF DisableTotp
    <3> QED BY <1>0, <3>1
  <2>4. CASE RegenerateCodes(r)
    BY <1>2, <2>1, <2>4 DEF RegenerateCodes
  <2> QED BY <1>3, <2>2, <2>3, <2>4 DEF Passes, LoginPasses, ChangePassword, StartTotp
<1>4. ASSUME NEW r \in Slots, ConfirmTotp(r) PROVE c >= 1
  BY <1>2, <1>4, EnteredHolds DEF ConfirmTotp
<1> QED BY <1>1, <1>3, <1>4, TablesStay

(* A request holds the time at which its check began (check).              *)
LEMMA RequestsStay ==
  ASSUME Inv, Bounded, [Next]_vars, NEW q \in Slots, reqs'[q].phase = "checking"
  PROVE  reqs'[q].t \in Nat
<1>0. reqs = [r \in Slots |-> reqs[r]] /\ now \in Nat
  BY SignInAssumption DEF Inv, Types, Bounded
<1>1. ASSUME NEW r \in Slots, NEW v, reqs' = [reqs EXCEPT ![r] = v], v.phase = "checking" => v.t \in Nat
      PROVE  reqs'[q].t \in Nat
  <2>1. reqs'[q] = IF q = r THEN v ELSE reqs[q]
    BY <1>0, <1>1
  <2> QED BY <1>1, <2>1 DEF Bounded
<1>2. \A p, u, i, d, code : Checking(p, u, i, d, code).t = now
  BY DEF Checking
<1>3. CASE reqs' = reqs
  BY <1>3 DEF Bounded
<1>4. ASSUME NEW r \in Slots, Done(r) PROVE reqs'[q].t \in Nat
  BY <1>1, <1>4 DEF Done, Idle
<1>5. ASSUME NEW r \in Slots, NEW i \in DOMAIN sessions, Enter(r, i) PROVE reqs'[q].t \in Nat
  <2>1. PICK p : reqs' = [reqs EXCEPT ![r] = [phase |-> "entered", page |-> p, user |-> sessions[i].user, id |-> i, t |-> now]]
    BY <1>5 DEF Enter
  <2>2. [phase |-> "entered", page |-> p, user |-> sessions[i].user, id |-> i, t |-> now].phase # "checking"
    OBVIOUS
  <2> QED BY <1>1, <2>1, <2>2
<1>6. ASSUME NEW r \in Slots, NEW u \in Users, Login(r, u) PROVE reqs'[q].t \in Nat
  <2>1. PICK code, d : reqs' = [reqs EXCEPT ![r] = Checking("login", u, NoSession, d, code)]
    BY <1>6 DEF Login
  <2>2. Checking("login", u, NoSession, d, code).t \in Nat
    BY <1>0, <1>2
  <2> QED BY <1>1, <2>1, <2>2
<1>7. ASSUME NEW r \in Slots, Reauth(r) PROVE reqs'[q].t \in Nat
  <2>1. PICK code : reqs' = [reqs EXCEPT ![r] = Checking(reqs[r].page, reqs[r].user, reqs[r].id, 0, code)]
    BY <1>7 DEF Reauth
  <2>2. Checking(reqs[r].page, reqs[r].user, reqs[r].id, 0, code).t \in Nat
    BY <1>0, <1>2
  <2> QED BY <1>1, <2>1, <2>2
<1> QED BY <1>3, <1>4, <1>5, <1>6, <1>7, TablesStay

(* A session keeps its cookie, and a new one has a new cookie; device      *)
(* cookies are only taken away, but for the one a login adds (login,       *)
(* add_device).                                                            *)
LEMMA RowsStay ==
  ASSUME Inv, Bounded, [Next]_vars
  PROVE  \/ /\ \A i \in DOMAIN sessions' : i \in DOMAIN sessions /\ sessions'[i].cookie = sessions[i].cookie
            /\ \A u \in Users : devices'[u] \subseteq devices[u]
         \/ \E r \in Slots : LoginPasses(r)
<1> DEFINE SameCookies ==
             \A i \in DOMAIN sessions' : i \in DOMAIN sessions /\ sessions'[i].cookie = sessions[i].cookie
           FewerOnFile == \A u \in Users : devices'[u] \subseteq devices[u]
<1>0. devices = [u \in Users |-> devices[u]] /\ \A i \in DOMAIN sessions : sessions[i] \in SessionRow
  BY DEF Inv, Types
<1>1. ASSUME sessions' = sessions PROVE SameCookies
  BY <1>1
<1>2. ASSUME devices' = devices PROVE FewerOnFile
  BY <1>2
<1>3. ASSUME NEW S, sessions' = Without(sessions, S) PROVE SameCookies
  BY <1>3 DEF Without
<1>4. ASSUME NEW u \in Users, devices' = [devices EXCEPT ![u] = {}] PROVE FewerOnFile
  BY <1>0, <1>4
<1>5. ASSUME NEW u \in Users, EndAll(u) PROVE SameCookies /\ FewerOnFile
  BY <1>3, <1>4, <1>5, Zenon DEF EndAll
<1>6. ASSUME NEW r \in Slots, ChangePassword(r) \/ StartTotp(r) \/ DisableTotp(r) \/ RegenerateCodes(r)
      PROVE  SameCookies /\ FewerOnFile
  <2>1. reqs[r].user \in Users
    BY <1>6, PassedHolds DEF ChangePassword, StartTotp, DisableTotp, RegenerateCodes
  <2>2. CASE ChangePassword(r)
    BY <1>5, <2>1, <2>2 DEF ChangePassword
  <2>3. CASE StartTotp(r)
    <3>1. devices' = devices
      BY <2>3 DEF StartTotp
    <3>2. PICK pending : sessions' = [i \in DOMAIN sessions |->
            IF i = reqs[r].id THEN [sessions[i] EXCEPT !.pending = pending] ELSE sessions[i]]
      BY <2>3 DEF StartTotp
    <3>3. \A i \in DOMAIN sessions : [sessions[i] EXCEPT !.pending = pending].cookie = sessions[i].cookie
      BY <1>0 DEF SessionRow
    <3>4. SameCookies
      BY <3>2, <3>3
    <3> QED BY <1>2, <3>1, <3>4
  <2>4. CASE DisableTotp(r)
    BY <1>1, <1>4, <2>1, <2>4 DEF DisableTotp
  <2>5. CASE RegenerateCodes(r)
    BY <1>1, <1>2, <2>5 DEF RegenerateCodes
  <2> QED BY <1>6, <2>2, <2>3, <2>4, <2>5
<1>7. ASSUME NEW r \in Slots, ConfirmTotp(r) PROVE SameCookies /\ FewerOnFile
  <2> DEFINE v == reqs[r]
             kept == OthersEnded(v.user, v.id)
             n == sessions[v.id].pending.nonce
             New(s) == [[s EXCEPT !.pending = None] EXCEPT !.nonce = IF s.user = v.user THEN n ELSE @]
  <2>1. /\ devices' = [devices EXCEPT ![v.user] = {}]
        /\ sessions' = [i \in DOMAIN kept |-> IF i = v.id THEN New(kept[i]) ELSE kept[i]]
    BY <1>7 DEF ConfirmTotp
  <2>2. v.user \in Users
    BY <1>7, EnteredHolds DEF ConfirmTotp
  <2>3. DOMAIN kept \subseteq DOMAIN sessions /\ \A i \in DOMAIN kept : kept[i] = sessions[i]
    BY DEF OthersEnded, Without
  <2>4. \A s \in SessionRow : New(s).cookie = s.cookie
    BY DEF SessionRow
  <2> HIDE DEF New, kept
  <2>5. SameCookies
    BY <1>0, <2>1, <2>3, <2>4
  <2> QED BY <1>4, <2>1, <2>2, <2>5
<1>8. ASSUME NEW r \in Slots, EndOthers(r) \/ Logout(r) PROVE SameCookies /\ FewerOnFile
  BY <1>2, <1>3, <1>8 DEF EndOthers, Logout, OthersEnded
<1>9. ASSUME NEW u \in Users, LinkSubmit(u) PROVE SameCookies /\ FewerOnFile
  BY <1>5, <1>9 DEF LinkSubmit
<1>10. ASSUME Retention PROVE SameCookies /\ FewerOnFile
  <2>1. SameCookies
    BY <1>3, <1>10, Zenon DEF Retention
  <2>2. FewerOnFile
    BY <1>10 DEF Retention
  <2> QED BY <2>1, <2>2
<1> HIDE DEF SameCookies, FewerOnFile
<1>11. (SameCookies /\ FewerOnFile) \/ \E r \in Slots : LoginPasses(r)
  <2>1. CASE sessions' = sessions /\ devices' = devices
    BY <1>1, <1>2, <2>1
  <2> QED BY <1>6, <1>7, <1>8, <1>9, <1>10, <2>1, TablesStay DEF Passes
<1> QED BY <1>11 DEF SameCookies, FewerOnFile

(* Every step keeps the cookies of sessions apart, and those of devices    *)
(* apart and within their cap.                                             *)
LEMMA CookiesStay ==
  ASSUME Inv, Bounded, SessionsApart, DevicesApart, [Next]_vars
  PROVE  SessionsApart' /\ DevicesApart'
<1>0. /\ cookies \in Nat /\ cookies' \in Nat /\ cookies <= cookies' /\ devices = [u \in Users |-> devices[u]]
      /\ \A i \in DOMAIN sessions : sessions[i].cookie \in Nat
  <2>1. cookies \in Nat /\ \A i \in DOMAIN sessions : sessions[i].cookie \in Nat
    BY DEF Inv, Types, SessionRow
  <2>2. cookies' = cookies \/ cookies' = cookies + 1
    BY Zenon DEF Next, Decide, Tick, Enter, Login, Reauth, Fails, LoginPasses, ChangePassword, StartTotp,
       DisableTotp, RegenerateCodes, ConfirmTotp, EndOthers, Logout, LinkSubmit, Retention, vars, drawn
  <2> QED BY <2>1, <2>2 DEF Inv, Types
<1>1. CASE /\ \A i \in DOMAIN sessions' : i \in DOMAIN sessions /\ sessions'[i].cookie = sessions[i].cookie
           /\ \A u \in Users : devices'[u] \subseteq devices[u]
  <2>1. SessionsApart'
    BY <1>0, <1>1 DEF SessionsApart
  <2>2. ASSUME NEW u \in Users PROVE Devices(devices'[u], cookies') /\ Capped(devices'[u])
    <3>1. devices'[u] \in SUBSET devices[u] /\ Devices(devices[u], cookies) /\ Capped(devices[u])
      BY <1>1 DEF DevicesApart
    <3> QED BY <1>0, <3>1, FewerDevices
  <2>3. DevicesApart'
    BY <2>2 DEF DevicesApart
  <2> QED BY <2>1, <2>3
<1>2. ASSUME NEW r \in Slots, LoginPasses(r) PROVE SessionsApart' /\ DevicesApart'
  <2> DEFINE v == reqs[r]
             d == [cookie |-> cookies + 1, t |-> v.t, hash |-> v.hash, nonce |-> users[v.user].nonce]
             s == [user |-> v.user, cookie |-> cookies + 1, pending |-> None,
                   hash |-> v.hash, nonce |-> users[v.user].nonce]
             id == NextRowid(sessions)
  <2>1. /\ cookies' = cookies + 1 /\ sessions' = Created(v.user, v.hash)
        /\ devices' = IF \E e \in devices[v.user] : e.cookie = v.device
                        THEN devices ELSE [devices EXCEPT ![v.user] = WithDevice(@, d)]
    BY <1>2 DEF LoginPasses
  <2>2. v.user \in Users /\ v.t \in Nat
    BY <1>2, PassedHolds DEF LoginPasses
  <2>3. SessionsApart'
    <3>1. sessions' = [i \in DOMAIN sessions \cup {id} |-> IF i = id THEN s ELSE sessions[i]]
      BY <2>1 DEF Created
    <3>2. s.cookie = cookies + 1
      OBVIOUS
    <3> HIDE DEF s, id
    <3>3. \A i \in DOMAIN sessions' :
            \/ i = id /\ sessions'[i].cookie = cookies + 1
            \/ i \in DOMAIN sessions /\ sessions'[i] = sessions[i]
      BY <3>1, <3>2
    <3>4. \A i \in DOMAIN sessions : sessions[i].cookie < cookies + 1 /\ sessions[i].cookie \in Nat
      BY <1>0 DEF SessionsApart
    <3>5. \A i \in DOMAIN sessions' : sessions'[i].cookie <= cookies + 1
      BY <1>0, <3>3, <3>4
    <3>6. \A i, j \in DOMAIN sessions' : sessions'[i].cookie = sessions'[j].cookie => i = j
      <4> SUFFICES ASSUME NEW i \in DOMAIN sessions', NEW j \in DOMAIN sessions',
                          sessions'[i].cookie = sessions'[j].cookie
                   PROVE  i = j
        OBVIOUS
      <4>1. CASE i \in DOMAIN sessions /\ sessions'[i] = sessions[i] /\ j \in DOMAIN sessions /\ sessions'[j] = sessions[j]
        BY <4>1 DEF SessionsApart
      <4>2. CASE i = id /\ sessions'[i].cookie = cookies + 1 /\ j \in DOMAIN sessions /\ sessions'[j] = sessions[j]
        BY <1>0, <3>4, <4>2
      <4>3. CASE j = id /\ sessions'[j].cookie = cookies + 1 /\ i \in DOMAIN sessions /\ sessions'[i] = sessions[i]
        BY <1>0, <3>4, <4>3
      <4> QED BY <3>3, <4>1, <4>2, <4>3
    <3> QED BY <2>1, <3>5, <3>6 DEF SessionsApart
  <2>4. ASSUME NEW u \in Users PROVE Devices(devices'[u], cookies') /\ Capped(devices'[u])
    <3>1. Devices(devices[u], cookies) /\ Capped(devices[u])
      BY DEF DevicesApart
    <3>2. d.cookie = cookies + 1 /\ d.t \in Nat
      BY <2>2
    <3> HIDE DEF d
    <3>3. devices'[u] = devices[u] \/ devices'[u] = WithDevice(devices[u], d)
      BY <1>0, <2>1, <2>2
    <3>4. CASE devices'[u] = devices[u]
      BY <1>0, <3>1, <3>4, FewerDevices
    <3>5. CASE devices'[u] = WithDevice(devices[u], d)
      <4>1. Devices(WithDevice(devices[u], d), cookies + 1) /\ Capped(WithDevice(devices[u], d))
        BY <1>0, <3>1, <3>2, WithDeviceCaps
      <4> QED BY <2>1, <3>5, <4>1
    <3> QED BY <3>3, <3>4, <3>5
  <2>5. DevicesApart'
    BY <2>4 DEF DevicesApart
  <2> QED BY <2>3, <2>5
<1> QED BY <1>1, <1>2, RowsStay

(* Every reachable state is well typed and within its bounds, no two       *)
(* sessions share a cookie, and no account has more than DevicesKept       *)
(* device cookies, whatever logins run at once (add_device, insert).       *)
THEOREM TypesHold == Spec => []TypeOK
<1> DEFINE TInv == Bounded /\ SessionsApart /\ DevicesApart
<1>1. Init => TInv
  <2> SUFFICES ASSUME Init PROVE TInv
    OBVIOUS
  <2>1. /\ now = 0 /\ users \in NewUsers /\ codes = [u \in Users |-> {}] /\ sessions = <<>>
        /\ devices = [u \in Users |-> {}] /\ reqs = [r \in Slots |-> Idle]
        /\ nonces = 1 /\ cookies = 0 /\ batches = 0
    BY DEF Init
  <2>2. /\ {MaxHash, MaxNonce, DevicesKept} \subseteq Nat \ {0}
        /\ {Horizon, MaxCookie, MaxBatch} \subseteq Nat
    BY SignInAssumption
  <2>3. \A u \in Users : users[u].hash = 1
    BY <2>1, SMTT(20) DEF NewUsers, NewAccount
  <2>4. Bounded
    BY <2>1, <2>2, <2>3, SMTT(20) DEF Bounded, Idle
  <2>5. SessionsApart
    BY <2>1 DEF SessionsApart
  <2>6. Devices({}, cookies) /\ Capped({})
    BY <2>2, FS_EmptySet, SMTT(20) DEF Devices, Capped
  <2>7. DevicesApart
    BY <2>1, <2>6 DEF DevicesApart
  <2> QED BY <2>4, <2>5, <2>7
<1>2. Inv /\ TInv /\ [Next]_vars => TInv'
  <2> SUFFICES ASSUME Inv, TInv, [Next]_vars PROVE TInv'
    OBVIOUS
  <2>1. (now \in 0..Horizon /\ nonces <= MaxNonce /\ cookies <= MaxCookie /\ batches <= MaxBatch)'
    BY CountersStay DEF Inv
  <2>2. Bounded'
    BY <2>1, HashesStay, CodesStay, RequestsStay DEF Bounded
  <2> QED BY <2>2, CookiesStay
<1>3. Inv /\ TInv => TypeOK
  <2> SUFFICES ASSUME Inv, TInv PROVE TypeOK
    OBVIOUS
  <2>1. Types /\ SeedsApart /\ RecoverySpent
    BY DEF Inv
  <2>2. codes \in [Users -> SUBSET (1..(CodeCount * MaxBatch))]
    <3>1. /\ CodeCount \in Nat /\ MaxBatch \in Nat /\ batches \in Nat /\ batches <= MaxBatch
      BY <2>1, SignInAssumption DEF Bounded, Types
    <3>2. PICK k \in Nat : MaxBatch = batches + k
      <4>1. MaxBatch - batches \in Nat /\ MaxBatch = batches + (MaxBatch - batches)
        BY <3>1
      <4> QED BY <4>1
    <3>3. CodeCount * (batches + k) = batches * CodeCount + k * CodeCount
      BY <3>1
    <3>4. batches * CodeCount \in Nat /\ k * CodeCount \in Nat
      BY <3>1
    <3>5. CodeCount * MaxBatch \in Nat /\ batches * CodeCount <= CodeCount * MaxBatch
      <4> DEFINE a == batches * CodeCount
                 b == k * CodeCount
      <4>1. a \in Nat /\ b \in Nat /\ CodeCount * MaxBatch = a + b
        BY <3>2, <3>3, <3>4
      <4> HIDE DEF a, b
      <4>2. CodeCount * MaxBatch \in Nat /\ a <= CodeCount * MaxBatch
        BY <4>1
      <4> QED BY <4>2 DEF a
    <3> DEFINE top == CodeCount * MaxBatch
               last == batches * CodeCount
    <3>6. \A u \in Users : \A c \in codes[u] : c \in Nat /\ c >= 1 /\ c <= last
      BY <2>1 DEF Types, RecoverySpent, Bounded
    <3>7. top \in Nat /\ last \in Nat /\ last <= top
      BY <3>4, <3>5
    <3>8. codes = [u \in Users |-> codes[u]]
      BY <2>1 DEF Types
    <3> HIDE DEF top, last
    <3>9. \A u \in Users : codes[u] \subseteq 1..top
      BY <3>6, <3>7
    <3>10. codes \in [Users -> SUBSET (1..top)]
      BY <3>8, <3>9
    <3> QED BY <3>10 DEF top
  <2>3. \A r \in Slots : reqs[r].phase \in {"idle", "entered", "checking"}
    BY <2>1 DEF Types, Request, Idle
  <2>4. \A u \in Users : Cardinality(devices[u]) <= DevicesKept
    BY DEF DevicesApart, Capped
  <2>5. \A i \in DOMAIN sessions : sessions[i].user \in Users
    BY <2>1 DEF Types, SessionRow
  <2>6. \A u \in Users : users[u].nonce <= nonces
    BY <2>1 DEF SeedsApart
  <2>7. users \in [Users -> AccountRow]
    BY <2>1 DEF Types
  <2> QED BY <2>2, <2>3, <2>4, <2>5, <2>6, <2>7 DEF TypeOK, Bounded, SessionsApart
<1> HIDE DEF TInv
<1> QED BY <1>1, <1>2, <1>3, Invariance, PTL DEF Spec
=============================================================================
