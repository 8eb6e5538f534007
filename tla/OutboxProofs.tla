---------------------------- MODULE OutboxProofs ----------------------------
(***************************************************************************)
(* Proofs about Outbox, for every number of users, rows, tokens and faults *)
(* and every choice of the time constants: its invariants, the order of    *)
(* attempts, dead links, and that it implements MailDelivery.              *)
(***************************************************************************)
EXTENDS Outbox, TLAPS

-----------------------------------------------------------------------------
(* What the helpers on rows and tokens return *)

(* Removing rows keeps the others as they are. *)
LEMMA WithoutKeeps ==
  ASSUME NEW f, NEW S
  PROVE  /\ DOMAIN Without(f, S) = DOMAIN f \ S
         /\ \A i \in DOMAIN Without(f, S) : Without(f, S)[i] = f[i]
BY DEF Without

(* Giving up S removes its token-bearing rows and leaves every other row   *)
(* outside S as it is; no row of S is unsent afterwards.                   *)
LEMMA GiveUpKeeps ==
  ASSUME NEW rws, rws \in [DOMAIN rws -> Row], NEW S
  PROVE  /\ DOMAIN GiveUp(rws, S) \subseteq DOMAIN rws
         /\ \A i \in DOMAIN GiveUp(rws, S) : GiveUp(rws, S)[i] \in Row
         /\ \A i \in DOMAIN GiveUp(rws, S) : i \in S => ~TokenBearing(rws[i].kind)
         /\ \A i \in DOMAIN GiveUp(rws, S) : GiveUp(rws, S)[i].kind = rws[i].kind
         /\ Unsent(GiveUp(rws, S)) = Unsent(rws) \ S
         /\ \A i \in DOMAIN GiveUp(rws, S) : i \notin S => GiveUp(rws, S)[i] = rws[i]
BY DEF GiveUp, Without, Unsent, Row

(* Invalidating tokens only uses some up: same ids, accounts and expiries. *)
LEMMA InvalidatedKeeps ==
  ASSUME NEW tks, tks \in [DOMAIN tks -> Token], NEW us
  PROVE  /\ DOMAIN Invalidated(tks, us) = DOMAIN tks
         /\ Invalidated(tks, us) \in [DOMAIN tks -> Token]
         /\ \A k \in DOMAIN tks : /\ Invalidated(tks, us)[k].user = tks[k].user
                                  /\ tks[k].used => Invalidated(tks, us)[k].used
                                  /\ tks[k].user \in us => Invalidated(tks, us)[k].used
BY DEF Invalidated, Token

(* A new row is well formed, unsent and due before its deadline. *)
LEMMA NewRowType ==
  ASSUME NEW kind \in Kinds, NEW u \in Users \cup {NoUser},
         NEW c \in TokenIds \cup {NoToken}, NEW t \in Nat
  PROVE  /\ NewRow(kind, u, c, t) \in Row
         /\ NewRow(kind, u, c, t).outcome = "none"
         /\ NewRow(kind, u, c, t).next = t /\ NewRow(kind, u, c, t).queued = t
         /\ t < Deadline(NewRow(kind, u, c, t))
<1>1. Lifetime(kind) \in Nat \ {0}
  BY TimesAssumption DEF Lifetime
<1>. QED  BY <1>1, TimesAssumption DEF NewRow, Row, Deadline

(* Counting an attempt changes nothing else. *)
LEMMA TriedType ==
  ASSUME NEW rws, rws \in [DOMAIN rws -> Row], NEW i \in DOMAIN rws
  PROVE  /\ Tried(rws, i) \in [DOMAIN rws -> Row]
         /\ Tried(rws, i)[i].attempts = rws[i].attempts + 1
         /\ Tried(rws, i)[i].kind = rws[i].kind /\ Tried(rws, i)[i].outcome = rws[i].outcome
         /\ Tried(rws, i)[i].queued = rws[i].queued
         /\ Deadline(Tried(rws, i)[i]) = Deadline(rws[i])
         /\ \A j \in DOMAIN rws \ {i} : Tried(rws, i)[j] = rws[j]
         /\ Unsent(Tried(rws, i)) = Unsent(rws)
<1>1. rws[i] \in Row
  OBVIOUS
<1>2. [rws[i] EXCEPT !.attempts = @ + 1] \in Row
  BY <1>1 DEF Row
<1>3. Tried(rws, i) = [rws EXCEPT ![i] = [rws[i] EXCEPT !.attempts = @ + 1]]
  BY DEF Tried
<1>4. /\ Tried(rws, i) \in [DOMAIN rws -> Row]
      /\ Tried(rws, i)[i] = [rws[i] EXCEPT !.attempts = @ + 1]
      /\ \A j \in DOMAIN rws \ {i} : Tried(rws, i)[j] = rws[j]
  BY <1>2, <1>3
<1>5. /\ Tried(rws, i)[i].attempts = rws[i].attempts + 1
      /\ Tried(rws, i)[i].kind = rws[i].kind /\ Tried(rws, i)[i].outcome = rws[i].outcome
      /\ Tried(rws, i)[i].queued = rws[i].queued /\ Tried(rws, i)[i].expires = rws[i].expires
  BY <1>1, <1>4 DEF Row
<1>6. Deadline(Tried(rws, i)[i]) = Deadline(rws[i])
  BY <1>5 DEF Deadline
<1>7. Unsent(Tried(rws, i)) = Unsent(rws)
  BY <1>4, <1>5 DEF Unsent
<1>. QED  BY <1>4, <1>5, <1>6, <1>7

(* Retry delays are positive, whatever the number of failures. *)
LEMMA DelayType ==
  ASSUME NEW n \in Nat \ {0}
  PROVE  Delay(n) \in Nat \ {0}
BY TimesAssumption DEF Delay

LEMMA DivNat ==
  ASSUME NEW a \in Nat, NEW b \in Nat \ {0}
  PROVE  a \div b \in Nat
OBVIOUS

LEMMA DeadlineType ==
  ASSUME NEW r \in Row
  PROVE  Deadline(r) \in Nat
BY TimesAssumption DEF Deadline, Row

-----------------------------------------------------------------------------
(* Type correctness *)

(* The part of the type invariant that is about the database... *)
RowsOK ==
  /\ nextId \in 1..(MaxRows + 1)
  /\ DOMAIN rows \subseteq 1..(nextId - 1) /\ rows \in [DOMAIN rows -> Row]
  /\ fate \in [Ids -> {"none", "queued", "sent", "given_up", "discarded"}]

TokensOK ==
  /\ nextToken \in 1..(MaxTokens + 1)
  /\ DOMAIN tokens \subseteq 1..(nextToken - 1) /\ tokens \in [DOMAIN tokens -> Token]

(* ...and the part that is about the process and the history. *)
ProcessOK ==
  /\ now \in 0..Horizon
  /\ worker \in WorkerStates
  /\ current \in Ids \cup {0} /\ (current # 0 <=> worker = "sending")
  /\ alarm \in SUBSET Nat /\ wake \in BOOLEAN
  /\ job \in {"down", "idle", "sign_in"} /\ nextRetention \in Nat
  /\ faults \in 0..MaxFaults
  /\ delivered \subseteq Ids /\ duplicated \subseteq Ids /\ lost \subseteq Ids
  /\ accepted \in BOOLEAN /\ (accepted => worker = "sending")

LEMMA TypeParts == TypeOK <=> RowsOK /\ TokensOK /\ ProcessOK
BY DEF TypeOK, RowsOK, TokensOK, ProcessOK

LEMMA EnqueueType ==
  ASSUME RowsOK, NEW row \in Row, Enqueue(row)
  PROVE  RowsOK' /\ wake' = TRUE /\ rows'[nextId] = row /\ nextId \in Ids
         /\ DOMAIN rows' = DOMAIN rows \cup {nextId}
         /\ \A i \in DOMAIN rows : rows'[i] = rows[i] /\ i # nextId
BY BoundsAssumption DEF RowsOK, Enqueue, Insert, Ids

LEMMA IssueType ==
  ASSUME TokensOK, NEW u \in Users, NEW t \in Nat, IssueResetToken(u, t)
  PROVE  TokensOK' /\ nextToken \in TokenIds
<1>1. Invalidated(tokens, {u}) \in [DOMAIN tokens -> Token]
  BY InvalidatedKeeps DEF TokensOK
<1>2. [user |-> u, expires |-> t + ResetLifetime, used |-> FALSE] \in Token
  BY TimesAssumption DEF Token
<1>3. nextToken \in TokenIds /\ nextToken' \in 1..(MaxTokens + 1)
  BY BoundsAssumption DEF TokensOK, IssueResetToken, TokenIds
<1>4. DOMAIN tokens' = DOMAIN tokens \cup {nextToken}
  BY DEF IssueResetToken
<1>5. ASSUME NEW k \in DOMAIN tokens'
      PROVE  tokens'[k] \in Token
  <2>1. CASE k = nextToken
    BY <1>2, <1>4, <2>1 DEF IssueResetToken
  <2>2. CASE k # nextToken
    <3>1. tokens'[k] = Invalidated(tokens, {u})[k] /\ k \in DOMAIN tokens
      BY <1>4, <2>2 DEF IssueResetToken
    <3>. QED  BY <1>1, <3>1
  <2>. QED  BY <2>1, <2>2
<1>6. tokens' \in [DOMAIN tokens' -> Token]
  BY <1>5 DEF IssueResetToken
<1>7. nextToken' = nextToken + 1 /\ nextToken \in Nat
  BY BoundsAssumption DEF TokensOK, IssueResetToken
<1>8. DOMAIN tokens' \subseteq 1..(nextToken' - 1)
  BY <1>4, <1>7, BoundsAssumption DEF TokensOK
<1>. QED  BY <1>3, <1>6, <1>8 DEF TokensOK

LEMMA InvalidatedType ==
  ASSUME TokensOK, NEW us, tokens' = Invalidated(tokens, us), nextToken' = nextToken
  PROVE  TokensOK'
BY InvalidatedKeeps DEF TokensOK

LEMMA RecentType == ProcessOK => Recent \subseteq Nat /\ \A t \in Recent : t <= now
BY BoundsAssumption DEF ProcessOK, Recent

(* The process part of the type invariant, action by action. *)
LEMMA ProcessStep ==
  ASSUME TypeOK, Next
  PROVE  ProcessOK'
<1>. USE BoundsAssumption, TimesAssumption
<1>p. RowsOK /\ TokensOK /\ ProcessOK
  BY TypeParts
<1>1. CASE Tick
  BY <1>1, <1>p DEF Tick, ProcessOK, loop, schedule, smtp
<1>2. CASE Queuing
  <2>1. /\ UNCHANGED <<now, loop, schedule, smtp>>
        /\ wake' \in BOOLEAN /\ faults' \in 0..MaxFaults
    <3>1. CASE RolledBack
      BY <3>1, <1>p DEF RolledBack, Fault, ProcessOK
    <3>2. ASSUME NEW u \in Users,
                 RequestReset(u) \/ CliResetPassword(u) \/ Lockout(u) \/ ChangePassword(u)
          PROVE  UNCHANGED <<now, loop, schedule, smtp, faults>> /\ wake' \in {wake, TRUE}
      BY <3>2 DEF RequestReset, CliResetPassword, Lockout, ChangePassword, Enqueue
    <3>3. ASSUME RequestUnknown \/ \E k \in TokenIds : LinkSubmit(k)
          PROVE  UNCHANGED <<now, loop, schedule, smtp, faults>> /\ wake' = TRUE
      BY <3>3 DEF RequestUnknown, LinkSubmit, Enqueue
    <3>. QED  BY <1>2, <1>p, <3>1, <3>2, <3>3 DEF Queuing, ProcessOK
  <2>. QED  BY <1>p, <2>1 DEF ProcessOK, loop, schedule, smtp
<1>3. CASE Pick
  <2>1. worker' \in {"sending", "waiting"} /\ (worker' = "waiting" => current' = 0)
    BY <1>3 DEF Pick
  <2>2. worker' = "sending" => current' \in DOMAIN rows
    <3>1. DOMAIN GiveUp(rows, Expired(now)) \subseteq DOMAIN rows
      BY <1>p, GiveUpKeeps DEF RowsOK
    <3>2. \A S : DOMAIN Without(GiveUp(rows, Expired(now)), S) \subseteq DOMAIN rows
      BY <3>1 DEF Without
    <3>. QED  BY <1>3, <3>2 DEF Pick, Due, Unsent
  <2>3. alarm' \in SUBSET Nat
    <3>1. ASSUME NEW S, NEW i \in Unsent(Without(GiveUp(rows, Expired(now)), S))
          PROVE  Without(GiveUp(rows, Expired(now)), S)[i].next \in Nat
      <4>1. i \in DOMAIN GiveUp(rows, Expired(now))
        BY <3>1 DEF Unsent, Without
      <4>2. GiveUp(rows, Expired(now))[i] \in Row
        BY <1>p, <4>1, GiveUpKeeps DEF RowsOK
      <4>3. Without(GiveUp(rows, Expired(now)), S)[i] = GiveUp(rows, Expired(now))[i]
        BY <3>1 DEF Unsent, Without
      <4>. QED  BY <4>2, <4>3 DEF Row
    <3>2. \/ alarm' = {}
          \/ \E S : \E i \in Unsent(Without(GiveUp(rows, Expired(now)), S)) :
               alarm' = {Without(GiveUp(rows, Expired(now)), S)[i].next}
      BY <1>3 DEF Pick
    <3>. QED  BY <3>1, <3>2, SMTT(20)
  <2>4. UNCHANGED <<now, wake, schedule, faults, smtp>>
    BY <1>3 DEF Pick
  <2>5. accepted = FALSE /\ worker = "picking"
    BY <1>3, <1>p DEF Pick, ProcessOK
  <2>6. DOMAIN rows \subseteq Ids
    BY <1>p, SMTT(20) DEF RowsOK, Ids
  <2>. QED  BY <1>p, <2>1, <2>2, <2>3, <2>4, <2>5, <2>6
            DEF ProcessOK, schedule, smtp, WorkerStates, Ids
<1>4. CASE PickFails
  <2>1. /\ worker = "picking" /\ worker' = "paused" /\ current' = 0 /\ alarm' = {now + ErrorPause}
        /\ UNCHANGED <<now, wake, job, nextRetention, delivered, duplicated, accepted, lost>>
    BY <1>4 DEF PickFails, schedule, smtp
  <2>2. alarm' \in SUBSET Nat
    BY <1>p, <2>1 DEF ProcessOK
  <2>3. faults' \in 0..MaxFaults
    BY <1>4, <1>p DEF PickFails, Fault, ProcessOK
  <2>4. ~accepted
    BY <1>p, <2>1 DEF ProcessOK
  <2>. QED  BY <1>p, <2>1, <2>2, <2>3, <2>4 DEF ProcessOK, WorkerStates
<1>5. CASE WakeUp
  BY <1>5, <1>p DEF WakeUp, ProcessOK, schedule, smtp, WorkerStates
<1>6. CASE SmtpAccepts
  BY <1>6, <1>p DEF SmtpAccepts, ProcessOK, schedule, loop, WorkerStates
<1>7. CASE RecordSent \/ RecordFailed \/ RecordFails
  <2>1. lost' \subseteq Ids /\ faults' \in 0..MaxFaults
    <3>1. lost' = lost \/ Unacknowledged
      BY <1>7 DEF RecordSent, RecordFailed, RecordFails
    <3>2. faults' = faults \/ Fault
      BY <1>7 DEF RecordSent, RecordFailed, RecordFails
    <3>. QED  BY <1>p, <3>1, <3>2, SMTT(20) DEF Unacknowledged, Fault, ProcessOK
  <2>2. AttemptOver /\ UNCHANGED <<now, wake, schedule>>
    BY <1>7 DEF RecordSent, RecordFailed, RecordFails
  <2>. QED  BY <1>p, <2>1, <2>2 DEF AttemptOver, ProcessOK, schedule, WorkerStates
<1>8. CASE Retaining
  <2>1. /\ UNCHANGED <<now, loop, wake, smtp>>
        /\ job' \in {"idle", "sign_in"} /\ faults' \in 0..MaxFaults
    BY <1>8, <1>p, SMTT(20) DEF Retaining, RetentionOutbox, RetentionSignIn, RetentionStepFails, Fault,
       ProcessOK
  <2>2. nextRetention' \in Nat
    <3>1. CASE NextRun /\ now >= nextRetention
      <4>1. now - nextRetention \in Nat /\ RetentionEvery \in Nat \ {0}
        BY <1>p, <3>1 DEF ProcessOK
      <4>2. (now - nextRetention) \div RetentionEvery \in Nat
        BY <4>1, DivNat
      <4>. QED  BY <1>p, <3>1, <4>1, <4>2 DEF NextRun, ProcessOK
    <3>2. CASE UNCHANGED nextRetention
      BY <1>p, <3>2 DEF ProcessOK
    <3>. QED  BY <1>8, <3>1, <3>2 DEF Retaining, RetentionOutbox, RetentionSignIn,
              RetentionStepFails
  <2>. QED  BY <1>p, <2>1, <2>2 DEF ProcessOK, loop, smtp
<1>9. CASE Crash
  <2>1. lost' \subseteq Ids /\ faults' \in 0..MaxFaults
    BY <1>9, <1>p, SMTT(20) DEF Crash, Fault, Unacknowledged, ProcessOK
  <2>2. nextRetention' \in Nat /\ alarm' \in SUBSET Nat /\ current' = 0 /\ accepted' = FALSE
    BY <1>9 DEF Crash
  <2>3. /\ worker' = "down" /\ job' = "down" /\ wake' = FALSE
        /\ UNCHANGED <<now, delivered, duplicated>>
    BY <1>9 DEF Crash
  <2>. QED  BY <1>p, <2>1, <2>2, <2>3 DEF ProcessOK, WorkerStates
<1>10. CASE Start
  BY <1>10, <1>p DEF Start, Serving, ProcessOK, smtp, WorkerStates
<1>. QED  BY <1>1, <1>2, <1>3, <1>4, <1>5, <1>6, <1>7, <1>8, <1>9, <1>10 DEF Next, Working

-----------------------------------------------------------------------------
(* What a step does to the rows *)

Settlings == {"sent", "given_up", "discarded"}

(* Rows are only removed or settled: those still unsent are as they were,  *)
(* except the ones of E, which are rescheduled, and exactly those no       *)
(* longer unsent get a settled fate.                                       *)
KeepRows(E) ==
  /\ nextId' = nextId
  /\ rows' \in [DOMAIN rows' -> Row] /\ DOMAIN rows' \subseteq DOMAIN rows
  /\ \A i \in DOMAIN rows' : rows'[i].kind = rows[i].kind
  /\ Unsent(rows') \subseteq Unsent(rows)
  /\ \A i \in Unsent(rows') \ E : rows'[i] = rows[i]
  /\ \A i \in DOMAIN rows' \ Unsent(rows') :
       i \in Unsent(rows) => ~TokenBearing(rows[i].kind)
  /\ fate' \in [Ids -> {"none", "queued", "sent", "given_up", "discarded"}]
  /\ \A i \in Ids : IF i \in Unsent(rows) \ Unsent(rows')
                      THEN fate'[i] \in Settlings
                      ELSE fate'[i] = fate[i]

LEMMA KeepRowsType == ASSUME RowsOK, NEW E, KeepRows(E)  PROVE RowsOK'
BY DEF RowsOK, KeepRows

LEMMA UnchangedRows == ASSUME RowsOK, UNCHANGED <<rows, nextId, fate>>  PROVE KeepRows({})
BY DEF RowsOK, KeepRows, Unsent

(* The worker's look at the queue gives up and discards, and no more. *)
LEMMA PickRows == ASSUME TypeOK, Pick  PROVE KeepRows({})
<1>. DEFINE gone  == Expired(now)
            kept  == GiveUp(rows, gone)
            blank == {i \in Due(kept) : kept[i].placeholder}
            left  == Without(kept, blank)
<1>p. RowsOK
  BY TypeParts
<1>1. rows' = left /\ nextId' = nextId
  BY DEF Pick
<1>2. fate' = [i \in Ids |-> IF i \in blank THEN "discarded"
                             ELSE Settled(gone, "given_up")[i]]
  BY DEF Pick
<1>3. rows \in [DOMAIN rows -> Row] /\ gone \subseteq Unsent(rows)
  BY <1>p DEF RowsOK, Expired
<1>4. blank \subseteq Unsent(kept)
  BY DEF Due
<1>k. /\ DOMAIN kept \subseteq DOMAIN rows
      /\ \A i \in DOMAIN kept : kept[i] \in Row /\ kept[i].kind = rows[i].kind
      /\ \A i \in DOMAIN kept : i \in gone => ~TokenBearing(rows[i].kind)
      /\ Unsent(kept) = Unsent(rows) \ gone
      /\ \A i \in DOMAIN kept : i \notin gone => kept[i] = rows[i]
  BY <1>3, GiveUpKeeps
<1>. HIDE DEF gone, kept, blank
<1>l. DOMAIN left = DOMAIN kept \ blank /\ \A i \in DOMAIN left : left[i] = kept[i]
  BY WithoutKeeps
<1>f. left = [i \in DOMAIN left |-> left[i]]
  BY DEF Without
<1>. HIDE DEF left
<1>5. Unsent(left) = Unsent(rows) \ (gone \cup blank)
  BY <1>k, <1>l DEF Unsent
<1>6. /\ fate' \in [Ids -> {"none", "queued", "sent", "given_up", "discarded"}]
      /\ \A i \in Ids : IF i \in Unsent(rows) \ Unsent(left)
                          THEN fate'[i] \in Settlings
                          ELSE fate'[i] = fate[i]
  BY <1>p, <1>2, <1>3, <1>4, <1>5, <1>k DEF Settled, Settlings, RowsOK
<1>7. left \in [DOMAIN left -> Row] /\ DOMAIN left \subseteq DOMAIN rows
      /\ \A i \in DOMAIN left : left[i].kind = rows[i].kind
  BY <1>k, <1>l, <1>f
<1>8. \A i \in Unsent(left) : left[i] = rows[i]
  BY <1>k, <1>l, <1>5 DEF Unsent
<1>9. \A i \in DOMAIN left \ Unsent(left) :
        i \in Unsent(rows) => ~TokenBearing(rows[i].kind)
  BY <1>k, <1>l, <1>5
<1>. QED  BY <1>1, <1>5, <1>6, <1>7, <1>8, <1>9 DEF KeepRows

(* So does the retention run, which also deletes what is settled. *)
LEMMA RetentionRows == ASSUME TypeOK, RetentionOutbox  PROVE KeepRows({})
<1>p. RowsOK
  BY TypeParts
<1>1. PICK t \in Recent :
        /\ rows' = Without(GiveUp(rows, Expired(t)),
                           DOMAIN GiveUp(rows, Expired(t)) \ Unsent(GiveUp(rows, Expired(t))))
        /\ fate' = Settled(Expired(t), "given_up")
  BY DEF RetentionOutbox
<1>. DEFINE gone == Expired(t)
            kept == GiveUp(rows, gone)
            left == Without(kept, DOMAIN kept \ Unsent(kept))
<1>2. rows' = left /\ nextId' = nextId /\ fate' = Settled(gone, "given_up")
  BY <1>1 DEF RetentionOutbox
<1>3. rows \in [DOMAIN rows -> Row] /\ gone \subseteq Unsent(rows)
  BY <1>p DEF RowsOK, Expired
<1>k. /\ DOMAIN kept \subseteq DOMAIN rows
      /\ \A i \in DOMAIN kept : kept[i] \in Row /\ kept[i].kind = rows[i].kind
      /\ Unsent(kept) = Unsent(rows) \ gone
      /\ \A i \in DOMAIN kept : i \notin gone => kept[i] = rows[i]
  BY <1>3, GiveUpKeeps
<1>. HIDE DEF gone, kept
<1>u. Unsent(kept) \subseteq DOMAIN kept
  BY DEF Unsent
<1>l. DOMAIN left = Unsent(kept) /\ \A i \in DOMAIN left : left[i] = kept[i]
  BY <1>u DEF Without
<1>f. left = [i \in DOMAIN left |-> left[i]]
  BY DEF Without
<1>. HIDE DEF left
<1>4. Unsent(left) = Unsent(rows) \ gone /\ DOMAIN left = Unsent(left)
  BY <1>k, <1>l DEF Unsent
<1>5. /\ fate' \in [Ids -> {"none", "queued", "sent", "given_up", "discarded"}]
      /\ \A i \in Ids : IF i \in Unsent(rows) \ Unsent(left)
                          THEN fate'[i] \in Settlings
                          ELSE fate'[i] = fate[i]
  BY <1>p, <1>2, <1>3, <1>4 DEF Settled, Settlings, RowsOK
<1>6. left \in [DOMAIN left -> Row] /\ DOMAIN left \subseteq DOMAIN rows
      /\ \A i \in DOMAIN left : left[i].kind = rows[i].kind
  BY <1>k, <1>l, <1>f, <1>4 DEF Unsent
<1>7. \A i \in Unsent(left) : left[i] = rows[i]
  BY <1>k, <1>l, <1>4 DEF Unsent
<1>. QED  BY <1>2, <1>4, <1>5, <1>6, <1>7 DEF KeepRows

(* A recorded acceptance settles the row it is about, if still unsent. *)
LEMMA RecordSentRows == ASSUME TypeOK, RecordSent  PROVE KeepRows({})
<1>p. RowsOK /\ nextId' = nextId
  BY TypeParts DEF RecordSent
<1>1. CASE current \notin Unsent(rows)
  BY <1>p, <1>1, UnchangedRows DEF RecordSent
<1>2. CASE current \in Unsent(rows)
  <2>1. rows' = MarkSent(rows, current) /\ fate' = Settled({current}, "sent")
    BY <1>2 DEF RecordSent
  <2>2. current \in DOMAIN rows /\ rows[current] \in Row /\ rows \in [DOMAIN rows -> Row]
    BY <1>p, <1>2 DEF RowsOK, Unsent
  <2>3. CASE TokenBearing(rows[current].kind)
    <3>1. rows' = Without(rows, {current})
      BY <2>1, <2>3 DEF MarkSent
    <3>2. /\ DOMAIN rows' = DOMAIN rows \ {current}
          /\ \A i \in DOMAIN rows' : rows'[i] = rows[i]
          /\ rows' \in [DOMAIN rows' -> Row]
      BY <2>2, <3>1 DEF Without
    <3>3. Unsent(rows') = Unsent(rows) \ {current}
      BY <3>2 DEF Unsent
    <3>4. /\ fate' \in [Ids -> {"none", "queued", "sent", "given_up", "discarded"}]
          /\ \A i \in Ids : IF i \in Unsent(rows) \ Unsent(rows')
                              THEN fate'[i] \in Settlings
                              ELSE fate'[i] = fate[i]
      BY <1>p, <2>1, <3>3, <1>2 DEF Settled, Settlings, RowsOK
    <3>. QED  BY <1>p, <3>2, <3>3, <3>4 DEF KeepRows, Unsent
  <2>4. CASE ~TokenBearing(rows[current].kind)
    <3>1. rows' = [Tried(rows, current) EXCEPT ![current].outcome = "sent"]
      BY <2>1, <2>4 DEF MarkSent
    <3>t. /\ Tried(rows, current) \in [DOMAIN rows -> Row]
          /\ Tried(rows, current)[current].kind = rows[current].kind
          /\ \A i \in DOMAIN rows \ {current} : Tried(rows, current)[i] = rows[i]
      BY <2>2, TriedType
    <3>a. Tried(rows, current)[current] \in Row
      BY <2>2, <3>t
    <3>b. /\ [Tried(rows, current)[current] EXCEPT !.outcome = "sent"] \in Row
          /\ [Tried(rows, current)[current] EXCEPT !.outcome = "sent"].kind = Tried(rows, current)[current].kind
          /\ [Tried(rows, current)[current] EXCEPT !.outcome = "sent"].outcome = "sent"
      BY <3>a DEF Row
    <3>c. rows' = [Tried(rows, current) EXCEPT ![current] = [Tried(rows, current)[current] EXCEPT !.outcome = "sent"]]
      BY <2>2, <3>1, <3>t
    <3>2. /\ DOMAIN rows' = DOMAIN rows
          /\ \A i \in DOMAIN rows \ {current} : rows'[i] = rows[i]
          /\ rows'[current] \in Row /\ rows'[current].kind = rows[current].kind
          /\ rows'[current].outcome = "sent"
          /\ rows' = [i \in DOMAIN rows |-> rows'[i]]
      BY <2>2, <3>b, <3>c, <3>t
    <3>3. Unsent(rows') = Unsent(rows) \ {current}
      BY <3>2, <2>2 DEF Unsent
    <3>4. /\ fate' \in [Ids -> {"none", "queued", "sent", "given_up", "discarded"}]
          /\ \A i \in Ids : IF i \in Unsent(rows) \ Unsent(rows')
                              THEN fate'[i] \in Settlings
                              ELSE fate'[i] = fate[i]
      BY <1>p, <2>1, <3>3, <1>2 DEF Settled, Settlings, RowsOK
    <3>5. rows' \in [DOMAIN rows' -> Row] /\ \A i \in DOMAIN rows' : rows'[i].kind = rows[i].kind
      BY <3>2, <2>2
    <3>. QED  BY <1>p, <2>4, <3>2, <3>3, <3>4, <3>5 DEF KeepRows, Unsent
  <2>. QED  BY <2>3, <2>4
<1>. QED  BY <1>1, <1>2

(* A recorded failure reschedules the row it is about for before its       *)
(* deadline, or gives it up.                                               *)
LEMMA RecordFailedRows ==
  ASSUME TypeOK, RecordFailed
  PROVE  /\ KeepRows({current})
         /\ current \in Unsent(rows') =>
              /\ now <= rows'[current].next /\ rows'[current].next < Deadline(rows'[current])
              /\ rows'[current].queued = rows[current].queued
<1>p. RowsOK /\ nextId' = nextId /\ now \in Nat
  BY TypeParts, BoundsAssumption DEF RecordFailed, ProcessOK
<1>1. CASE current \notin Unsent(rows)
  BY <1>p, <1>1 DEF RecordFailed, RowsOK, KeepRows, Unsent
<1>2. CASE current \in Unsent(rows)
  <2>. DEFINE tried == Tried(rows, current)
              r     == tried[current]
              again == NextAttempt(r.attempts, now, Deadline(r))
  <2>1. current \in DOMAIN rows /\ rows[current] \in Row /\ rows \in [DOMAIN rows -> Row]
    BY <1>p, <1>2 DEF RowsOK, Unsent
  <2>2. /\ tried \in [DOMAIN rows -> Row] /\ r \in Row
        /\ r.attempts = rows[current].attempts + 1
        /\ r.kind = rows[current].kind /\ r.outcome = "none" /\ r.queued = rows[current].queued
        /\ \A j \in DOMAIN rows \ {current} : tried[j] = rows[j]
        /\ Unsent(tried) = Unsent(rows)
    BY <1>2, <2>1, TriedType DEF Unsent
  <2>3. r.attempts \in Nat \ {0} /\ Deadline(r) \in Nat
    BY <2>1, <2>2, DeadlineType DEF Row
  <2>4. Delay(r.attempts) \in Nat \ {0}
    BY <2>3, DelayType
  <2>5. \A m \in again : m \in Nat /\ now <= m /\ m < Deadline(r)
    BY <1>p, <2>3, <2>4 DEF NextAttempt
  <2>6. \/ \E m \in again : rows' = [tried EXCEPT ![current].next = m] /\ fate' = fate
        \/ rows' = GiveUp(tried, {current}) /\ fate' = Settled({current}, "given_up")
    BY <1>2 DEF RecordFailed
  <2>. HIDE DEF tried, again
  <2>7. ASSUME NEW m \in again, rows' = [tried EXCEPT ![current].next = m], fate' = fate
        PROVE  /\ KeepRows({current})
               /\ now <= rows'[current].next /\ rows'[current].next < Deadline(rows'[current])
               /\ rows'[current].queued = rows[current].queued
    <3>. DEFINE s == [r EXCEPT !.next = m]
    <3>1. s \in Row /\ s.kind = r.kind /\ s.outcome = "none" /\ s.queued = r.queued
          /\ s.next = m /\ s.expires = r.expires
      BY <2>2, <2>5, <2>7 DEF Row
    <3>2. Deadline(s) = Deadline(r)
      BY <3>1 DEF Deadline
    <3>3. rows' = [tried EXCEPT ![current] = s]
      BY <2>7
    <3>. HIDE DEF s
    <3>4. /\ rows' \in [DOMAIN rows -> Row] /\ rows'[current] = s
          /\ \A j \in DOMAIN rows \ {current} : rows'[j] = rows[j]
      BY <2>1, <2>2, <3>1, <3>3
    <3>5. Unsent(rows') = Unsent(rows)
      BY <1>2, <3>1, <3>4 DEF Unsent
    <3>6. \A i \in DOMAIN rows : rows'[i].kind = rows[i].kind
      BY <2>2, <3>1, <3>4
    <3>7. KeepRows({current})
      BY <1>p, <2>7, <3>4, <3>5, <3>6 DEF KeepRows, RowsOK, Unsent
    <3>. QED  BY <2>2, <2>5, <2>7, <3>1, <3>2, <3>4, <3>7
  <2>8. ASSUME rows' = GiveUp(tried, {current}), fate' = Settled({current}, "given_up")
        PROVE  KeepRows({current}) /\ current \notin Unsent(rows')
    <3>1. tried \in [DOMAIN tried -> Row] /\ DOMAIN tried = DOMAIN rows
      BY <2>2
    <3>2. /\ DOMAIN rows' \subseteq DOMAIN rows
          /\ \A i \in DOMAIN rows' : rows'[i] \in Row /\ rows'[i].kind = tried[i].kind
          /\ \A i \in DOMAIN rows' : i \in {current} => ~TokenBearing(tried[i].kind)
          /\ Unsent(rows') = Unsent(tried) \ {current}
          /\ \A i \in DOMAIN rows' : i \notin {current} => rows'[i] = tried[i]
      BY <2>8, <3>1, GiveUpKeeps
    <3>3. rows' = [i \in DOMAIN rows' |-> rows'[i]]
      BY <2>8 DEF GiveUp
    <3>4. Unsent(rows') = Unsent(rows) \ {current}
      BY <2>2, <3>2
    <3>5. /\ fate' \in [Ids -> {"none", "queued", "sent", "given_up", "discarded"}]
          /\ \A i \in Ids : IF i \in Unsent(rows) \ Unsent(rows')
                              THEN fate'[i] \in Settlings
                              ELSE fate'[i] = fate[i]
      BY <1>p, <1>2, <2>8, <3>4 DEF Settled, Settlings, RowsOK
    <3>6. rows' \in [DOMAIN rows' -> Row] /\ \A i \in DOMAIN rows' : rows'[i].kind = rows[i].kind
      BY <2>2, <3>2, <3>3
    <3>7. \A i \in DOMAIN rows' \ Unsent(rows') :
            i \in Unsent(rows) => ~TokenBearing(rows[i].kind)
      BY <2>2, <3>2, <3>4
    <3>8. \A i \in Unsent(rows') \ {current} : rows'[i] = rows[i]
      BY <2>2, <3>2, <3>4 DEF Unsent
    <3>. QED  BY <1>p, <3>2, <3>4, <3>5, <3>6, <3>7, <3>8 DEF KeepRows
  <2>. QED  BY <2>6, <2>7, <2>8
<1>. QED  BY <1>1, <1>2

(* The rows a transaction may queue: unsent, due at once, not expired. *)
FreshRows ==
  {r \in Row : /\ r.outcome = "none" /\ r.queued <= now
               /\ r.next = r.queued /\ r.next < Deadline(r)}

LEMMA FreshNewRow ==
  ASSUME ProcessOK, NEW t \in Recent, NEW kind \in Kinds, NEW u \in Users \cup {NoUser},
         NEW c \in TokenIds \cup {NoToken}
  PROVE  NewRow(kind, u, c, t) \in FreshRows
<1>1. t \in Nat /\ t <= now
  BY RecentType
<1>. QED  BY <1>1, NewRowType DEF FreshRows

(* The tokens, and what happens to the rows, in a queuing transaction. *)
LEMMA QueuingStep ==
  ASSUME TypeOK, Queuing
  PROVE  /\ TokensOK'
         /\ KeepRows({}) \/ \E row \in FreshRows : Enqueue(row)
<1>p. RowsOK /\ TokensOK /\ ProcessOK
  BY TypeParts
<1>k. "warning" \in Kinds /\ "reset_link" \in Kinds /\ NoToken \in TokenIds \cup {NoToken}
  BY DEF Kinds
<1>1. ASSUME NEW u \in Users, RequestReset(u)
      PROVE  TokensOK' /\ \E row \in FreshRows : Enqueue(row)
  <2>1. PICK t \in Recent : /\ IssueResetToken(u, t)
                            /\ Enqueue(NewRow("reset_link", u, nextToken, t))
    BY <1>1 DEF RequestReset
  <2>2. TokensOK' /\ nextToken \in TokenIds
    BY <1>p, <2>1, IssueType, RecentType
  <2>. QED  BY <1>p, <1>k, <2>1, <2>2, FreshNewRow
<1>2. ASSUME NEW u \in Users, CliResetPassword(u)
      PROVE  TokensOK' /\ KeepRows({})
  BY <1>p, <1>2, IssueType, RecentType, UnchangedRows DEF CliResetPassword
<1>3. ASSUME NEW u \in Users, Lockout(u)
      PROVE  TokensOK' /\ \E row \in FreshRows : Enqueue(row)
  BY <1>p, <1>k, <1>3, FreshNewRow DEF Lockout, TokensOK
<1>4. ASSUME NEW u \in Users, ChangePassword(u)
      PROVE  TokensOK' /\ \E row \in FreshRows : Enqueue(row)
  <2>1. TokensOK'
    BY <1>p, <1>4, InvalidatedType DEF ChangePassword
  <2>. QED  BY <1>p, <1>k, <1>4, <2>1, FreshNewRow DEF ChangePassword
<1>5. ASSUME RequestUnknown
      PROVE  TokensOK' /\ \E row \in FreshRows : Enqueue(row)
  BY <1>p, <1>k, <1>5, FreshNewRow DEF RequestUnknown, TokensOK
<1>6. ASSUME NEW k \in TokenIds, LinkSubmit(k)
      PROVE  TokensOK' /\ \E row \in FreshRows : Enqueue(row)
  <2>1. TokensOK'
    BY <1>p, <1>6, InvalidatedType DEF LinkSubmit
  <2>2. tokens[k].user \in Users
    BY <1>p, <1>6 DEF LinkSubmit, TokensOK, Token
  <2>. QED  BY <1>p, <1>k, <1>6, <2>1, <2>2, FreshNewRow DEF LinkSubmit
<1>7. ASSUME RolledBack  PROVE TokensOK' /\ KeepRows({})
  BY <1>p, <1>7, UnchangedRows DEF RolledBack, db, TokensOK
<1>. QED  BY <1>1, <1>2, <1>3, <1>4, <1>5, <1>6, <1>7 DEF Queuing

(* Every step queues one fresh row, records a failure, or only settles. *)
LEMMA RowsStep ==
  ASSUME TypeOK, [Next]_vars
  PROVE  \/ KeepRows({})
         \/ RecordFailed /\ KeepRows({current})
         \/ Queuing /\ \E row \in FreshRows : Enqueue(row)
<1>p. RowsOK
  BY TypeParts
<1>1. CASE Tick \/ PickFails \/ WakeUp \/ SmtpAccepts \/ RecordFails \/ RetentionSignIn
             \/ RetentionStepFails \/ Crash \/ Start
  <2>1. UNCHANGED <<rows, nextId, fate>>
    BY <1>1 DEF Tick, PickFails, WakeUp, SmtpAccepts, RecordFails, RetentionSignIn,
       RetentionStepFails, Crash, Start, db
  <2>. QED  BY <1>p, <2>1, UnchangedRows
<1>2. CASE UNCHANGED vars
  BY <1>p, <1>2, UnchangedRows DEF vars, db
<1>3. CASE Queuing
  BY <1>3, QueuingStep
<1>4. CASE Pick \/ RetentionOutbox \/ RecordSent \/ RecordFailed
  BY <1>4, PickRows, RetentionRows, RecordSentRows, RecordFailedRows
<1>. QED  BY <1>1, <1>2, <1>3, <1>4 DEF Next, Working, Retaining

LEMMA TokensStep ==
  ASSUME TypeOK, Next
  PROVE  TokensOK'
<1>p. TokensOK
  BY TypeParts
<1>1. CASE Tick \/ PickFails \/ WakeUp \/ SmtpAccepts \/ RecordSent \/ RecordFails
             \/ RetentionStepFails \/ Crash \/ Start
  <2>1. UNCHANGED <<tokens, nextToken>>
    BY <1>1 DEF Tick, PickFails, WakeUp, SmtpAccepts, RecordSent, RecordFails,
       RetentionStepFails, Crash, Start, db
  <2>. QED  BY <1>p, <2>1 DEF TokensOK
<1>2. CASE Queuing
  BY <1>2, QueuingStep
<1>3. CASE Pick
  BY <1>p, <1>3, InvalidatedType DEF Pick, ExpireResetTokens
<1>4. CASE RecordFailed
  <2>1. nextToken' = nextToken /\ (tokens' = tokens \/ tokens' = ExpireResetTokens({current}))
    BY <1>4 DEF RecordFailed
  <2>. QED  BY <1>p, <2>1, InvalidatedType DEF ExpireResetTokens, TokensOK
<1>5. CASE RetentionOutbox
  BY <1>p, <1>5, InvalidatedType DEF RetentionOutbox, ExpireResetTokens
<1>6. CASE RetentionSignIn
  <2>1. PICK S : tokens' = Without(tokens, S)
    BY <1>6 DEF RetentionSignIn
  <2>2. nextToken' = nextToken
    BY <1>6 DEF RetentionSignIn
  <2>. QED  BY <1>p, <2>1, <2>2 DEF Without, TokensOK
<1>. QED  BY <1>1, <1>2, <1>3, <1>4, <1>5, <1>6 DEF Next, Working, Retaining

(* Every reachable state is well typed. *)
LEMMA TypeStep == ASSUME TypeOK, [Next]_vars  PROVE TypeOK'
<1>1. CASE Next
  <2>1. RowsOK
    BY TypeParts
  <2>2. RowsOK'
    BY <1>1, <2>1, RowsStep, KeepRowsType, EnqueueType DEF FreshRows
  <2>3. TokensOK' /\ ProcessOK'
    BY <1>1, ProcessStep, TokensStep
  <2>. QED  BY <2>2, <2>3 DEF TypeOK, RowsOK, TokensOK, ProcessOK
<1>2. CASE UNCHANGED vars
  BY <1>2 DEF TypeOK, vars, db, loop, schedule, smtp
<1>. QED  BY <1>1, <1>2

LEMMA TypeInit == Init => TypeOK
<1>1. Init => /\ rows \in [DOMAIN rows -> Row] /\ DOMAIN rows = {}
              /\ tokens \in [DOMAIN tokens -> Token] /\ DOMAIN tokens = {}
  BY DEF Init
<1>2. Init => RowsOK
  BY <1>1, BoundsAssumption DEF Init, RowsOK
<1>3. Init => TokensOK
  BY <1>1, BoundsAssumption DEF Init, TokensOK
<1>4. Init => ProcessOK
  <2>1. Horizon \in Nat /\ MaxFaults \in Nat
    BY BoundsAssumption
  <2>2. Init => now \in 0..Horizon /\ faults \in 0..MaxFaults /\ nextRetention \in Nat
    BY <2>1 DEF Init
  <2>3. Init => worker \in WorkerStates /\ job \in {"down", "idle", "sign_in"}
    BY DEF Init, WorkerStates
  <2>4. Init => /\ current = 0 /\ worker # "sending" /\ accepted = FALSE /\ wake = FALSE
                /\ alarm = {} /\ delivered = {} /\ duplicated = {} /\ lost = {}
    BY DEF Init
  <2>. QED  BY <2>2, <2>3, <2>4 DEF ProcessOK
<1>. QED  BY <1>2, <1>3, <1>4, TypeParts

(* Type correctness of the outbox, the worker and the schedule (TypeOK),   *)
(* whatever the sizes and the times.                                       *)
THEOREM TypeCorrect == Spec => []TypeOK
BY TypeInit, TypeStep, PTL DEF Spec

-----------------------------------------------------------------------------
(* The outbox's safety invariants *)

(* A row was queued no later than now: with it, a retry scheduled from the *)
(* clock is never before the row was queued.                               *)
QueuedInPast == \A i \in Unsent(rows) : rows[i].queued <= now

LEMMA ScheduleStep ==
  ASSUME TypeOK, NextBeforeDeadline, QueuedInPast, [Next]_vars
  PROVE  NextBeforeDeadline' /\ QueuedInPast'
<1>p. RowsOK /\ ProcessOK
  BY TypeParts
<1>n. now \in Nat /\ now' \in Nat /\ now <= now'
  <2>1. now' = now \/ Tick
    BY DEF Next, Queuing, Working, Retaining, RequestReset, RequestUnknown, CliResetPassword,
       Lockout, ChangePassword, LinkSubmit, RolledBack, Pick, PickFails, WakeUp, SmtpAccepts,
       RecordSent, RecordFailed, RecordFails, RetentionOutbox, RetentionSignIn,
       RetentionStepFails, Crash, Start, vars
  <2>. QED  BY <1>p, <2>1 DEF ProcessOK, Tick
<1>1. CASE KeepRows({})
  <2>1. Unsent(rows') \subseteq Unsent(rows) /\ \A i \in Unsent(rows') : rows'[i] = rows[i]
    BY <1>1 DEF KeepRows
  <2>2. \A i \in Unsent(rows) : rows[i].queued \in Nat
    BY <1>p DEF RowsOK, Row, Unsent
  <2>. QED  BY <1>n, <2>1, <2>2 DEF NextBeforeDeadline, QueuedInPast
<1>2. CASE RecordFailed
  <2>1. Unsent(rows') \subseteq Unsent(rows)
        /\ \A i \in Unsent(rows') \ {current} : rows'[i] = rows[i]
    BY <1>2, RecordFailedRows DEF KeepRows
  <2>2. current \in Unsent(rows') =>
          /\ now <= rows'[current].next /\ rows'[current].next < Deadline(rows'[current])
          /\ rows'[current].queued = rows[current].queued
    BY <1>2, RecordFailedRows
  <2>3. \A i \in Unsent(rows) : rows[i].queued \in Nat
    BY <1>p DEF RowsOK, Row, Unsent
  <2>4. RowsOK'
    BY TypeStep, TypeParts, PTL
  <2>5. \A i \in Unsent(rows') : rows'[i].next \in Nat /\ rows'[i].queued \in Nat
    BY <2>4 DEF RowsOK, Row, Unsent
  <2>. QED  BY <1>n, <2>1, <2>2, <2>3, <2>5 DEF NextBeforeDeadline, QueuedInPast
<1>3. ASSUME NEW row \in FreshRows, Enqueue(row)
      PROVE  NextBeforeDeadline' /\ QueuedInPast'
  <2>1. /\ row \in Row /\ row.queued <= now /\ row.next = row.queued
        /\ row.next < Deadline(row)
    BY <1>3 DEF FreshRows
  <2>2. /\ rows'[nextId] = row /\ DOMAIN rows' = DOMAIN rows \cup {nextId}
        /\ \A i \in DOMAIN rows : rows'[i] = rows[i]
    BY <1>p, <1>3, <2>1, EnqueueType
  <2>3. \A i \in Unsent(rows') : i = nextId \/ (i \in Unsent(rows) /\ rows'[i] = rows[i])
    BY <2>2 DEF Unsent
  <2>4. row.queued \in Nat /\ row.next \in Nat
        /\ \A i \in Unsent(rows) : rows[i].queued \in Nat
    BY <1>p, <2>1 DEF Row, RowsOK, Unsent
  <2>. QED  BY <1>n, <2>1, <2>2, <2>3, <2>4 DEF NextBeforeDeadline, QueuedInPast
<1>. QED  BY <1>1, <1>2, <1>3, RowsStep

(* No unsent row waits for a turn it can never have: its next attempt is   *)
(* before its deadline, from `enqueue' on and after every failure          *)
(* (next_attempt, deadline).                                               *)
THEOREM AttemptBeforeDeadline == Spec => []NextBeforeDeadline
<1>1. Init => NextBeforeDeadline /\ QueuedInPast
  BY DEF Init, NextBeforeDeadline, QueuedInPast, Unsent
<1>. QED  BY <1>1, TypeCorrect, ScheduleStep, PTL DEF Spec

(* An unsent row is in the table exactly as long as its mail is neither    *)
(* sent, given up nor discarded, and no settled row keeps a token          *)
(* (give_up, record, pick, retention).                                     *)
THEOREM NoRowVanishes == Spec => []RowsMatchFate
<1>1. Init => RowsMatchFate
  BY DEF Init, RowsMatchFate, Unsent
<1>2. ASSUME TypeOK, RowsMatchFate, [Next]_vars
      PROVE  RowsMatchFate'
  <2>p. RowsOK
    BY <1>2, TypeParts
  <2>1. ASSUME NEW E, KeepRows(E)
        PROVE  RowsMatchFate'
    <3>1. \A i \in Ids : fate'[i] = "queued" <=> i \in Unsent(rows')
      BY <1>2, <2>1 DEF KeepRows, RowsMatchFate, Settlings
    <3>2. DOMAIN rows \subseteq Ids
      BY <2>p, BoundsAssumption DEF RowsOK, Ids
    <3>3. \A i \in DOMAIN rows' : TokenBearing(rows'[i].kind) => i \in Unsent(rows')
      BY <1>2, <2>1, <3>2 DEF KeepRows, RowsMatchFate
    <3>. QED  BY <2>1, <3>1, <3>2, <3>3 DEF KeepRows, RowsMatchFate
  <2>2. ASSUME NEW row \in FreshRows, Enqueue(row)
        PROVE  RowsMatchFate'
    <3>1. row \in Row /\ row.outcome = "none"
      BY <2>2 DEF FreshRows
    <3>2. /\ rows'[nextId] = row /\ DOMAIN rows' = DOMAIN rows \cup {nextId} /\ nextId \in Ids
          /\ \A i \in DOMAIN rows : rows'[i] = rows[i] /\ i # nextId
      BY <2>p, <2>2, <3>1, EnqueueType
    <3>3. Unsent(rows') = Unsent(rows) \cup {nextId}
      BY <3>1, <3>2 DEF Unsent
    <3>4. fate' = [fate EXCEPT ![nextId] = "queued"] /\ fate = [i \in Ids |-> fate[i]]
      BY <2>p, <2>2 DEF Enqueue, Insert, RowsOK
    <3>5. DOMAIN rows \subseteq Ids
      BY <2>p, BoundsAssumption DEF RowsOK, Ids
    <3>6. fate'[nextId] = "queued" /\ \A i \in Ids \ {nextId} : fate'[i] = fate[i]
      BY <3>2, <3>4
    <3>. QED  BY <1>2, <3>2, <3>3, <3>5, <3>6 DEF RowsMatchFate
  <2>. QED  BY <1>2, <2>1, <2>2, RowsStep
<1>. QED  BY <1>1, <1>2, TypeCorrect, PTL DEF Spec

(* No lost wake-up: while the worker sleeps with no permit pending, its    *)
(* alarm covers every unsent row (Worker::run, enqueue, Wakeup).           *)
THEOREM NoLostWakeup == Spec => []SleepCoversEveryRow
<1>1. Init => SleepCoversEveryRow
  BY DEF Init, SleepCoversEveryRow
<1>2. ASSUME TypeOK, SleepCoversEveryRow, [Next]_vars
      PROVE  SleepCoversEveryRow'
  <2>p. RowsOK /\ ProcessOK
    BY <1>2, TypeParts
  <2>1. ASSUME KeepRows({}), UNCHANGED <<worker, alarm>>, wake' \in {wake, TRUE}
        PROVE  SleepCoversEveryRow'
    <3>1. Unsent(rows') \subseteq Unsent(rows) /\ \A i \in Unsent(rows') : rows'[i] = rows[i]
      BY <2>1 DEF KeepRows
    <3>2. worker' = "waiting" /\ ~wake' => worker = "waiting" /\ ~wake
      BY <2>1
    <3>. QED  BY <1>2, <2>1, <3>1, <3>2 DEF SleepCoversEveryRow
  <2>2. ASSUME worker' # "waiting"  PROVE SleepCoversEveryRow'
    BY <2>2 DEF SleepCoversEveryRow
  <2>3. CASE UNCHANGED vars
    <3>1. UNCHANGED <<rows, worker, alarm, wake>>
      BY <2>3 DEF vars, db, loop
    <3>. QED  BY <1>2, <3>1 DEF SleepCoversEveryRow, Unsent
  <2>4. CASE Tick \/ Retaining
    <3>1. KeepRows({})
      <4>1. CASE Tick \/ RetentionSignIn \/ RetentionStepFails
        BY <2>p, <4>1, UnchangedRows DEF Tick, RetentionSignIn, RetentionStepFails, db
      <4>2. CASE RetentionOutbox
        BY <1>2, <4>2, RetentionRows
      <4>. QED  BY <2>4, <4>1, <4>2 DEF Retaining
    <3>2. UNCHANGED <<worker, alarm, wake>>
      BY <2>4 DEF Tick, Retaining, RetentionOutbox, RetentionSignIn, RetentionStepFails, loop
    <3>. QED  BY <2>1, <3>1, <3>2
  <2>5. CASE Queuing
    <3>1. KeepRows({}) \/ \E row \in FreshRows : Enqueue(row)
      BY <1>2, <2>5, QueuingStep
    <3>2. UNCHANGED <<worker, alarm>> /\ wake' \in {wake, TRUE}
      BY <2>5 DEF Queuing, RequestReset, RequestUnknown, CliResetPassword, Lockout,
         ChangePassword, LinkSubmit, RolledBack, Enqueue, loop
    <3>3. ASSUME NEW row \in FreshRows, Enqueue(row)  PROVE SleepCoversEveryRow'
      BY <3>3 DEF Enqueue, SleepCoversEveryRow
    <3>. QED  BY <2>1, <3>1, <3>2, <3>3
  <2>6. CASE Pick
    <3>1. CASE worker' = "waiting"
      <4>1. \/ Unsent(rows') = {}
            \/ \E i \in Unsent(rows') : /\ \A j \in Unsent(rows') : rows'[i].next <= rows'[j].next
                                        /\ alarm' = {rows'[i].next}
        BY <2>6, <3>1 DEF Pick
      <4>. QED  BY <4>1 DEF SleepCoversEveryRow
    <3>. QED  BY <2>2, <3>1
  <2>7. CASE PickFails \/ WakeUp \/ RecordSent \/ RecordFailed \/ RecordFails \/ Crash \/ Start
    <3>1. worker' \in {"paused", "picking", "down"}
      BY <2>7 DEF PickFails, WakeUp, RecordSent, RecordFailed, RecordFails, AttemptOver, Crash,
         Start
    <3>. QED  BY <2>2, <3>1
  <2>8. CASE SmtpAccepts
    <3>1. KeepRows({}) /\ UNCHANGED <<worker, alarm, wake>>
      BY <2>p, <2>8, UnchangedRows DEF SmtpAccepts, db, loop
    <3>. QED  BY <2>1, <3>1
  <2>. QED  BY <1>2, <2>3, <2>4, <2>5, <2>6, <2>7, <2>8 DEF Next, Working
<1>. QED  BY <1>1, <1>2, TypeCorrect, PTL DEF Spec

-----------------------------------------------------------------------------
(* Reset tokens *)

(* Tokens are only used up or deleted. *)
TokensKept ==
  /\ DOMAIN tokens' \subseteq DOMAIN tokens
  /\ \A k \in DOMAIN tokens' : /\ tokens'[k].user = tokens[k].user
                               /\ tokens[k].used => tokens'[k].used

LEMMA InvalidatedIsKept ==
  ASSUME TokensOK, NEW us, tokens' = Invalidated(tokens, us)
  PROVE  TokensKept
BY InvalidatedKeeps DEF TokensOK, TokensKept

LEMMA TokenCases ==
  ASSUME TypeOK, [Next]_vars
  PROVE  TokensKept \/ \E u \in Users, t \in Recent : IssueResetToken(u, t)
<1>p. TokensOK
  BY TypeParts
<1>1. ASSUME tokens' = tokens  PROVE TokensKept
  BY <1>1 DEF TokensKept
<1>2. CASE Tick \/ PickFails \/ WakeUp \/ SmtpAccepts \/ RecordSent \/ RecordFails
             \/ RetentionStepFails \/ Crash \/ Start \/ UNCHANGED vars
  <2>1. tokens' = tokens
    BY <1>2 DEF Tick, PickFails, WakeUp, SmtpAccepts, RecordSent, RecordFails,
       RetentionStepFails, Crash, Start, vars, db
  <2>. QED  BY <1>1, <2>1
<1>3. ASSUME Queuing
      PROVE  TokensKept \/ \E u \in Users, t \in Recent : IssueResetToken(u, t)
  <2>1. ASSUME NEW u \in Users, RequestReset(u) \/ CliResetPassword(u)
        PROVE  \E t \in Recent : IssueResetToken(u, t)
    BY <2>1 DEF RequestReset, CliResetPassword
  <2>2. ASSUME NEW u \in Users, Lockout(u) \/ ChangePassword(u)  PROVE TokensKept
    BY <1>p, <1>1, <2>2, InvalidatedIsKept DEF Lockout, ChangePassword
  <2>3. ASSUME NEW k \in TokenIds, LinkSubmit(k)  PROVE TokensKept
    BY <1>p, <2>3, InvalidatedIsKept DEF LinkSubmit
  <2>4. ASSUME RequestUnknown \/ RolledBack  PROVE TokensKept
    BY <1>1, <2>4 DEF RequestUnknown, RolledBack, db
  <2>. QED  BY <1>3, <2>1, <2>2, <2>3, <2>4 DEF Queuing
<1>4. CASE Pick \/ RetentionOutbox \/ RecordFailed
  <2>1. tokens' = tokens \/ \E S : tokens' = ExpireResetTokens(S)
    BY <1>4 DEF Pick, RetentionOutbox, RecordFailed
  <2>. QED  BY <1>p, <1>1, <2>1, InvalidatedIsKept DEF ExpireResetTokens
<1>5. CASE RetentionSignIn
  BY <1>5 DEF RetentionSignIn, Without, TokensKept
<1>. QED  BY <1>2, <1>3, <1>4, <1>5 DEF Next, Working, Retaining

(* An account never has two unused reset tokens (issue_reset_token), so of *)
(* several links sent or shown, only the newest works.                     *)
THEOREM OnlyNewestLinkWorks == Spec => []OneUnusedToken
<1>1. Init => OneUnusedToken
  BY DEF Init, OneUnusedToken
<1>2. ASSUME TypeOK, OneUnusedToken, [Next]_vars
      PROVE  OneUnusedToken'
  <2>1. CASE TokensKept
    BY <1>2, <2>1 DEF TokensKept, OneUnusedToken
  <2>2. ASSUME NEW u \in Users, NEW t \in Recent, IssueResetToken(u, t)
        PROVE  OneUnusedToken'
    <3>p. TokensOK
      BY <1>2, TypeParts
    <3>1. DOMAIN tokens' = DOMAIN tokens \cup {nextToken} /\ tokens'[nextToken].user = u
      BY <2>2 DEF IssueResetToken
    <3>2. ASSUME NEW k \in DOMAIN tokens, k # nextToken
          PROVE  /\ tokens'[k].user = tokens[k].user
                 /\ tokens[k].used => tokens'[k].used
                 /\ tokens[k].user = u => tokens'[k].used
      <4>1. tokens'[k] = Invalidated(tokens, {u})[k]
        BY <2>2, <3>2 DEF IssueResetToken
      <4>2. /\ Invalidated(tokens, {u})[k].user = tokens[k].user
            /\ tokens[k].used => Invalidated(tokens, {u})[k].used
            /\ tokens[k].user \in {u} => Invalidated(tokens, {u})[k].used
        BY <3>p, InvalidatedKeeps DEF TokensOK
      <4>. QED  BY <4>1, <4>2
    <3>. QED  BY <1>2, <3>1, <3>2 DEF OneUnusedToken
  <2>. QED  BY <1>2, <2>1, <2>2, TokenCases
<1>. QED  BY <1>1, <1>2, TypeCorrect, PTL DEF Spec

-----------------------------------------------------------------------------
(* Duplicates *)

(* What makes DuplicateOnlyAfterLostOutcome inductive: an accepted mail is *)
(* recorded as sent, has a lost acceptance, or is the one in flight; a     *)
(* mail being sent is not one recorded as sent; ids not yet given out have *)
(* no fate.                                                                *)
AcceptancesAccounted ==
  /\ \A i \in delivered : i \in lost \/ fate[i] = "sent" \/ (accepted /\ current = i)
  /\ worker = "sending" => fate[current] \in {"queued", "given_up"}
  /\ \A i \in Ids : i >= nextId => fate[i] = "none"

DupInv ==
  TypeOK /\ RowsMatchFate /\ AcceptancesAccounted /\ DuplicateOnlyAfterLostOutcome

(* A settled fate is final, and an id keeps no fate until it is given out. *)
LEMMA FateStep ==
  ASSUME DupInv, [Next]_vars
  PROVE  /\ \A i \in Ids : fate[i] = "sent" => fate'[i] = "sent"
         /\ \A i \in Ids : fate[i] = "given_up" => fate'[i] = "given_up"
         /\ \A i \in Ids : i >= nextId' => fate'[i] = "none"
<1>p. RowsOK
  BY TypeParts DEF DupInv
<1>1. ASSUME NEW E, KeepRows(E)
      PROVE  /\ \A i \in Ids : fate[i] # "queued" => fate'[i] = fate[i]
             /\ \A i \in Ids : i >= nextId' => fate'[i] = "none"
  <2>1. \A i \in Ids : fate[i] # "queued" => fate'[i] = fate[i]
    BY <1>1 DEF DupInv, RowsMatchFate, KeepRows
  <2>. QED  BY <1>1, <2>1 DEF DupInv, AcceptancesAccounted, KeepRows
<1>2. ASSUME NEW row \in FreshRows, Enqueue(row)
      PROVE  /\ \A i \in Ids : fate[i] \in {"sent", "given_up"} => fate'[i] = fate[i]
             /\ \A i \in Ids : i >= nextId' => fate'[i] = "none"
  <2>1. fate' = [fate EXCEPT ![nextId] = "queued"] /\ nextId' = nextId + 1 /\ nextId \in Nat
    BY <1>p, <1>2, BoundsAssumption DEF Enqueue, Insert, RowsOK
  <2>2. \A i \in Ids : i >= nextId => fate[i] = "none"
    BY DEF DupInv, AcceptancesAccounted
  <2>3. fate = [i \in Ids |-> fate[i]] /\ Ids \subseteq Nat
    BY <1>p, BoundsAssumption DEF RowsOK, Ids
  <2>. QED  BY <2>1, <2>2, <2>3
<1>. QED  BY <1>1, <1>2, RowsStep DEF DupInv

LEMMA DupStep == ASSUME DupInv, [Next]_vars, RowsMatchFate'  PROVE DupInv'
<1>t. TypeOK /\ TypeOK'
  BY TypeStep DEF DupInv
<1>p. RowsOK /\ ProcessOK /\ RowsOK' /\ ProcessOK'
  BY <1>t, TypeParts DEF TypeOK, RowsOK, ProcessOK
<1>f. /\ \A i \in Ids : fate[i] = "sent" => fate'[i] = "sent"
      /\ \A i \in Ids : fate[i] = "given_up" => fate'[i] = "given_up"
      /\ \A i \in Ids : i >= nextId' => fate'[i] = "none"
  BY FateStep
<1>i. delivered \subseteq Ids /\ (worker = "sending" => current \in Ids)
      /\ (accepted => worker = "sending")
  BY <1>p DEF ProcessOK
<1>a. /\ \A i \in delivered : i \in lost \/ fate[i] = "sent" \/ (accepted /\ current = i)
      /\ worker = "sending" => fate[current] \in {"queued", "given_up"}
      /\ duplicated \subseteq lost
  BY DEF DupInv, AcceptancesAccounted, DuplicateOnlyAfterLostOutcome
<1>g. SUFFICES /\ \A i \in delivered' :
                    i \in lost' \/ fate'[i] = "sent" \/ (accepted' /\ current' = i)
               /\ worker' = "sending" => fate'[current'] \in {"queued", "given_up"}
               /\ duplicated' \subseteq lost'
  BY <1>t, <1>f DEF DupInv, AcceptancesAccounted, DuplicateOnlyAfterLostOutcome
<1>1. ASSUME UNCHANGED <<delivered, duplicated, accepted, lost, worker, current>>,
             worker = "sending" => fate'[current] \in {fate[current], "given_up"}
      PROVE  /\ \A i \in delivered' :
                  i \in lost' \/ fate'[i] = "sent" \/ (accepted' /\ current' = i)
             /\ worker' = "sending" => fate'[current'] \in {"queued", "given_up"}
             /\ duplicated' \subseteq lost'
  BY <1>1, <1>f, <1>i, <1>a
<1>2. CASE Tick \/ RetentionSignIn \/ RetentionStepFails \/ UNCHANGED vars
  <2>1. UNCHANGED <<delivered, duplicated, accepted, lost, worker, current, fate>>
    BY <1>2 DEF Tick, RetentionSignIn, RetentionStepFails, vars, loop, smtp
  <2>. QED  BY <1>1, <2>1
<1>3. CASE RetentionOutbox
  <2>1. UNCHANGED <<delivered, duplicated, accepted, lost, worker, current>>
    BY <1>3 DEF RetentionOutbox, loop, smtp
  <2>2. \E S : fate' = Settled(S, "given_up")
    BY <1>3 DEF RetentionOutbox
  <2>3. worker = "sending" => fate'[current] \in {fate[current], "given_up"}
    BY <1>i, <2>2 DEF Settled
  <2>. QED  BY <1>1, <2>1, <2>3
<1>4. CASE Queuing
  <2>1. UNCHANGED <<delivered, duplicated, accepted, lost, worker, current>>
    BY <1>4 DEF Queuing, RequestReset, RequestUnknown, CliResetPassword, Lockout,
       ChangePassword, LinkSubmit, RolledBack, loop, smtp
  <2>2. fate' = fate \/ fate' = [fate EXCEPT ![nextId] = "queued"]
    BY <1>4 DEF Queuing, RequestReset, RequestUnknown, CliResetPassword, Lockout,
       ChangePassword, LinkSubmit, RolledBack, Enqueue, Insert
  <2>3. worker = "sending" => current # nextId
    BY <1>a, <1>i, <1>p, BoundsAssumption DEF DupInv, AcceptancesAccounted, RowsOK, Ids
  <2>4. worker = "sending" => fate'[current] = fate[current]
    BY <1>i, <1>p, <2>2, <2>3 DEF RowsOK
  <2>. QED  BY <1>1, <2>1, <2>4
<1>5. CASE Pick
  <2>1. UNCHANGED <<delivered, duplicated, accepted, lost>> /\ accepted = FALSE
    BY <1>5, <1>p DEF Pick, smtp, ProcessOK
  <2>2. worker' = "sending" => current' \in Unsent(rows')
    BY <1>5 DEF Pick, Due
  <2>3. Unsent(rows') \subseteq Ids
    BY <1>p, BoundsAssumption DEF RowsOK, Ids, Unsent
  <2>4. worker' = "sending" => fate'[current'] = "queued"
    BY <2>2, <2>3 DEF RowsMatchFate
  <2>. QED  BY <1>f, <1>i, <1>a, <2>1, <2>4
<1>6. CASE PickFails \/ WakeUp \/ Start
  <2>1. /\ UNCHANGED <<delivered, duplicated, accepted, lost, fate>> /\ worker # "sending"
        /\ worker' # "sending"
    BY <1>6 DEF PickFails, WakeUp, Start, Serving, smtp
  <2>. QED  BY <1>i, <1>a, <2>1
<1>7. CASE SmtpAccepts
  <2>1. /\ worker = "sending" /\ accepted = FALSE /\ accepted' = TRUE
        /\ delivered' = delivered \cup {current}
        /\ duplicated' = duplicated \cup (delivered \cap {current})
        /\ UNCHANGED <<worker, current, fate, lost>>
    BY <1>7, <1>p DEF SmtpAccepts, loop, ProcessOK
  <2>2. current \in delivered => current \in lost
    BY <1>a, <2>1
  <2>. QED  BY <1>i, <1>a, <2>1, <2>2
<1>8. ASSUME worker' # "sending", UNCHANGED <<delivered, duplicated>>,
             Unacknowledged \/ (UNCHANGED lost /\ fate'[current] = "sent")
      PROVE  /\ \A i \in delivered' :
                  i \in lost' \/ fate'[i] = "sent" \/ (accepted' /\ current' = i)
             /\ worker' = "sending" => fate'[current'] \in {"queued", "given_up"}
             /\ duplicated' \subseteq lost'
  BY <1>8, <1>f, <1>i, <1>a DEF Unacknowledged
<1>9. CASE RecordSent
  <2>1. worker' # "sending" /\ UNCHANGED <<delivered, duplicated>> /\ worker = "sending"
    BY <1>9 DEF RecordSent, AttemptOver
  <2>2. Unacknowledged \/ (UNCHANGED lost /\ fate' = Settled({current}, "sent"))
    BY <1>9 DEF RecordSent
  <2>. QED  BY <1>8, <1>i, <2>1, <2>2 DEF Settled
<1>10. CASE RecordFailed \/ RecordFails \/ Crash
  <2>1. worker' # "sending" /\ UNCHANGED <<delivered, duplicated>> /\ Unacknowledged
    BY <1>10 DEF RecordFailed, RecordFails, Crash, AttemptOver
  <2>. QED  BY <1>8, <2>1
<1>. QED  BY <1>2, <1>3, <1>4, <1>5, <1>6, <1>7, <1>9, <1>10 DEF Next, Working, Retaining

(* A mail reaches the server twice only after an acceptance that was never *)
(* recorded: every recorded one is final (Worker::attempt, record).        *)
THEOREM NoNeedlessDuplicate == Spec => []DuplicateOnlyAfterLostOutcome
<1>1. Init /\ TypeOK /\ RowsMatchFate => DupInv
  BY DEF Init, DupInv, AcceptancesAccounted, DuplicateOnlyAfterLostOutcome
<1>2. DupInv => DuplicateOnlyAfterLostOutcome
  BY DEF DupInv
<1>. QED  BY <1>1, <1>2, TypeCorrect, NoRowVanishes, DupStep, PTL DEF Spec
-----------------------------------------------------------------------------
(* Links and the order of attempts *)

(* What is true of a queued row and the token its link carries: only a     *)
(* reset mail carries one or is a placeholder, and a token it carries has  *)
(* been issued, for the row's own account.                                 *)
RowFits(r, tks, n) ==
  /\ r.placeholder => r.kind = "reset_link"
  /\ r.carries # NoToken =>
       /\ r.kind = "reset_link" /\ r.carries < n
       /\ r.carries \in DOMAIN tks => tks[r.carries].user = r.user

RowsFit == \A i \in Unsent(rows) : RowFits(rows[i], tokens, nextToken)

(* Nothing the worker records of a row changes which mail it is. *)
SameMail(r, s) ==
  r.kind = s.kind /\ r.user = s.user /\ r.placeholder = s.placeholder /\ r.carries = s.carries

(* A failed attempt reschedules the same mail (record). *)
LEMMA RecordFailedMail ==
  ASSUME TypeOK, RecordFailed, current \in Unsent(rows')
  PROVE  SameMail(rows'[current], rows[current])
<1>p. RowsOK
  BY TypeParts
<1>1. CASE current \notin Unsent(rows)
  BY <1>1 DEF RecordFailed, SameMail
<1>2. CASE current \in Unsent(rows)
  <2>1. current \in DOMAIN rows /\ rows[current] \in Row /\ rows \in [DOMAIN rows -> Row]
    BY <1>p, <1>2 DEF RowsOK, Unsent
  <2>. DEFINE r == [rows[current] EXCEPT !.attempts = @ + 1]
              tried == Tried(rows, current)
  <2>2. tried = [rows EXCEPT ![current] = r]
    BY <2>1 DEF Tried
  <2>3. SameMail(r, rows[current]) /\ r \in Row
    BY <2>1 DEF SameMail, Row
  <2>. HIDE DEF r
  <2>4. tried[current] = r /\ DOMAIN tried = DOMAIN rows /\ tried \in [DOMAIN tried -> Row]
    BY <2>1, <2>2, <2>3
  <2>. HIDE DEF tried
  <2>5. \/ \E m : rows' = [tried EXCEPT ![current].next = m]
        \/ rows' = GiveUp(tried, {current})
    BY <1>2 DEF RecordFailed, tried
  <2>6. rows' # GiveUp(tried, {current})
    BY <2>4, GiveUpKeeps
  <2>7. PICK m : rows' = [tried EXCEPT ![current] = [tried[current] EXCEPT !.next = m]]
    BY <2>5, <2>6
  <2>8. rows'[current] = [r EXCEPT !.next = m]
    BY <2>1, <2>4, <2>7
  <2>9. SameMail([r EXCEPT !.next = m], r)
    BY <2>3 DEF SameMail, Row
  <2>. QED  BY <2>3, <2>8, <2>9 DEF SameMail
<1>. QED  BY <1>1, <1>2

(* A queuing transaction inserts at most one row, and it fits. *)
LEMMA QueuedFits ==
  ASSUME TypeOK, Queuing
  PROVE  \/ UNCHANGED rows
         \/ \E row \in Row : Enqueue(row) /\ RowFits(row, tokens', nextToken')
<1>p. RowsOK /\ TokensOK /\ ProcessOK
  BY TypeParts
<1>w. ASSUME NEW u \in Users, NEW t \in Recent
      PROVE  /\ NewRow("warning", u, NoToken, t) \in Row
             /\ RowFits(NewRow("warning", u, NoToken, t), tokens', nextToken')
  <2>1. t \in Nat /\ u # NoUser
    BY <1>p, RecentType, UsersAssumption
  <2>2. NewRow("warning", u, NoToken, t) \in Row
    BY <2>1, NewRowType DEF Kinds
  <2>. QED  BY <2>1, <2>2, Zenon DEF NewRow, RowFits
<1>1. ASSUME NEW u \in Users, RequestReset(u)
      PROVE  \E row \in Row : Enqueue(row) /\ RowFits(row, tokens', nextToken')
  <2>1. PICK t \in Recent : /\ IssueResetToken(u, t)
                            /\ Enqueue(NewRow("reset_link", u, nextToken, t))
    BY <1>1 DEF RequestReset
  <2>2. nextToken \in TokenIds /\ t \in Nat
    BY <1>p, <2>1, IssueType, RecentType
  <2>3. nextToken' = nextToken + 1 /\ tokens'[nextToken].user = u
    BY <2>1 DEF IssueResetToken
  <2>4. NewRow("reset_link", u, nextToken, t) \in Row
    BY <2>2, NewRowType DEF Kinds
  <2>5. nextToken < nextToken'
    BY <2>2, <2>3 DEF TokenIds
  <2>6. RowFits(NewRow("reset_link", u, nextToken, t), tokens', nextToken')
    BY <2>3, <2>5 DEF NewRow, RowFits
  <2>. QED  BY <2>1, <2>4, <2>6
<1>2. ASSUME NEW u \in Users, Lockout(u) \/ ChangePassword(u)
      PROVE  \E row \in Row : Enqueue(row) /\ RowFits(row, tokens', nextToken')
  <2>1. PICK t \in Recent : Enqueue(NewRow("warning", u, NoToken, t))
    BY <1>2 DEF Lockout, ChangePassword
  <2>. QED  BY <1>w, <2>1
<1>3. ASSUME NEW k \in TokenIds, LinkSubmit(k)
      PROVE  \E row \in Row : Enqueue(row) /\ RowFits(row, tokens', nextToken')
  <2>1. tokens[k].user \in Users
    BY <1>p, <1>3 DEF LinkSubmit, TokensOK, Token
  <2>2. PICK t \in Recent : Enqueue(NewRow("warning", tokens[k].user, NoToken, t))
    BY <1>3 DEF LinkSubmit
  <2>. QED  BY <1>w, <2>1, <2>2
<1>4. ASSUME RequestUnknown
      PROVE  \E row \in Row : Enqueue(row) /\ RowFits(row, tokens', nextToken')
  <2>1. PICK t \in Recent : Enqueue(NewRow("reset_link", NoUser, NoToken, t))
    BY <1>4 DEF RequestUnknown
  <2>2. t \in Nat
    BY <1>p, RecentType
  <2>3. NewRow("reset_link", NoUser, NoToken, t) \in Row
    BY <2>2, NewRowType DEF Kinds
  <2>4. RowFits(NewRow("reset_link", NoUser, NoToken, t), tokens', nextToken')
    BY DEF NewRow, RowFits
  <2>. QED  BY <2>1, <2>3, <2>4
<1>5. ASSUME NEW u \in Users, CliResetPassword(u)  PROVE UNCHANGED rows
  BY <1>5 DEF CliResetPassword
<1>6. ASSUME RolledBack  PROVE UNCHANGED rows
  BY <1>6 DEF RolledBack, db
<1>. QED  BY <1>1, <1>2, <1>3, <1>4, <1>5, <1>6 DEF Queuing

(* Tokens issued before a step keep their account, and stay used. *)
LEMMA OldTokens ==
  ASSUME TypeOK, [Next]_vars
  PROVE  /\ nextToken \in Nat /\ nextToken' \in Nat /\ nextToken <= nextToken'
         /\ \A k \in DOMAIN tokens' : k < nextToken =>
              /\ k \in DOMAIN tokens /\ tokens'[k].user = tokens[k].user
              /\ tokens[k].used => tokens'[k].used
<1>p. TokensOK /\ nextToken \in Nat
  BY TypeParts, BoundsAssumption DEF TokensOK
<1>1. nextToken' = nextToken \/ nextToken' = nextToken + 1
  BY Zenon DEF Next, Queuing, Working, Retaining, RequestReset, RequestUnknown, CliResetPassword,
     Lockout, ChangePassword, LinkSubmit, RolledBack, Pick, PickFails, WakeUp, SmtpAccepts,
     RecordSent, RecordFailed, RecordFails, RetentionOutbox, RetentionSignIn,
     RetentionStepFails, Crash, Start, Tick, vars, db, IssueResetToken
<1>3. ASSUME NEW u \in Users, NEW t \in Recent, IssueResetToken(u, t),
             NEW k \in DOMAIN tokens', k < nextToken
      PROVE  /\ k \in DOMAIN tokens /\ tokens'[k].user = tokens[k].user
             /\ tokens[k].used => tokens'[k].used
  <2>1. k # nextToken
    BY <1>p, <1>3
  <2>2. k \in DOMAIN tokens /\ tokens'[k] = Invalidated(tokens, {u})[k]
    BY <1>3, <2>1 DEF IssueResetToken
  <2>3. tokens \in [DOMAIN tokens -> Token]
    BY <1>p DEF TokensOK
  <2>4. /\ Invalidated(tokens, {u})[k].user = tokens[k].user
        /\ tokens[k].used => Invalidated(tokens, {u})[k].used
    BY <2>2, <2>3, InvalidatedKeeps
  <2>. QED  BY <2>2, <2>4
<1>4. nextToken' \in Nat /\ nextToken <= nextToken'
  BY <1>p, <1>1
<1>5. \A k \in DOMAIN tokens' : k < nextToken =>
        /\ k \in DOMAIN tokens /\ tokens'[k].user = tokens[k].user
        /\ tokens[k].used => tokens'[k].used
  <2>1. CASE TokensKept
    BY <2>1, Zenon DEF TokensKept
  <2>2. CASE \E u \in Users, t \in Recent : IssueResetToken(u, t)
    BY <2>2, <1>3, Zenon
  <2>. QED  BY <2>1, <2>2, TokenCases, Zenon
<1>. QED  BY <1>p, <1>4, <1>5, Zenon

LEMMA RowsFitStep ==
  ASSUME TypeOK, RowsFit, [Next]_vars
  PROVE  RowsFit'
<1>p. RowsOK /\ TokensOK
  BY TypeParts
<1>1. ASSUME NEW r, RowFits(r, tokens, nextToken), NEW s, SameMail(s, r),
             s.carries # NoToken => s.carries \in Nat
      PROVE  RowFits(s, tokens', nextToken')
  <2>1. CASE s.carries = NoToken
    BY <1>1, <2>1 DEF RowFits, SameMail
  <2>2. CASE s.carries # NoToken
    <3>1. /\ s.kind = "reset_link" /\ s.carries \in Nat /\ s.carries < nextToken
          /\ s.carries \in DOMAIN tokens => tokens[s.carries].user = s.user
      BY <1>1, <2>2 DEF RowFits, SameMail
    <3>2. s.carries < nextToken'
      BY <3>1, OldTokens
    <3>3. s.carries \in DOMAIN tokens' => /\ s.carries \in DOMAIN tokens
                                         /\ tokens'[s.carries].user = tokens[s.carries].user
      BY <3>1, OldTokens
    <3>. QED  BY <1>1, <3>1, <3>2, <3>3 DEF RowFits, SameMail
  <2>. QED  BY <2>1, <2>2
<1>2. ASSUME NEW i \in Unsent(rows), NEW s, SameMail(s, rows[i])
      PROVE  RowFits(s, tokens', nextToken')
  <2>1. rows[i] \in Row /\ RowFits(rows[i], tokens, nextToken)
    BY <1>p DEF RowsFit, RowsOK, Unsent
  <2>2. s.carries # NoToken => s.carries \in Nat
    BY <1>2, <2>1 DEF SameMail, Row, TokenIds
  <2>. QED  BY <1>1, <1>2, <2>1, <2>2
<1>3. CASE KeepRows({})
  <2>1. \A i \in Unsent(rows') : i \in Unsent(rows) /\ rows'[i] = rows[i]
    BY <1>3 DEF KeepRows
  <2>. QED  BY <1>2, <2>1 DEF RowsFit, SameMail
<1>4. CASE RecordFailed /\ KeepRows({current})
  <2>1. \A i \in Unsent(rows') : i \in Unsent(rows) /\ (i # current => rows'[i] = rows[i])
    BY <1>4 DEF KeepRows
  <2>2. \A i \in Unsent(rows') : SameMail(rows'[i], rows[i])
    BY <1>4, <2>1, RecordFailedMail DEF SameMail
  <2>. QED  BY <1>2, <2>1, <2>2 DEF RowsFit
<1>5. CASE Queuing
  <2>1. CASE UNCHANGED rows
    BY <1>2, <2>1 DEF RowsFit, SameMail, Unsent
  <2>2. ASSUME NEW row \in Row, Enqueue(row), RowFits(row, tokens', nextToken')
        PROVE  RowsFit'
    <3>1. /\ rows'[nextId] = row /\ DOMAIN rows' = DOMAIN rows \cup {nextId}
          /\ \A i \in DOMAIN rows : rows'[i] = rows[i]
      BY <1>p, <2>2, EnqueueType, Zenon
    <3>2. \A i \in Unsent(rows') : i = nextId \/ (i \in Unsent(rows) /\ rows'[i] = rows[i])
      BY <3>1 DEF Unsent
    <3>. QED  BY <1>2, <2>2, <3>1, <3>2 DEF RowsFit, SameMail
  <2>. QED  BY <1>5, <2>1, <2>2, QueuedFits
<1>. QED  BY <1>3, <1>4, <1>5, RowsStep

LEMMA FitInvariance == Spec => [](TypeOK /\ RowsFit)
<1>1. Init => RowsFit
  BY DEF Init, RowsFit, Unsent
<1>. QED  BY <1>1, TypeCorrect, RowsFitStep, PTL DEF Spec

(* An attempt starts only on an unsent, due row that is no placeholder and *)
(* not expired, and on a reset mail only when no warning could be sent     *)
(* instead (pick).                                                         *)
LEMMA PickInOrder ==
  ASSUME TypeOK, RowsFit, Pick, worker' = "sending"
  PROVE  /\ current' \in Due(rows) /\ ~rows[current'].placeholder
         /\ now < Deadline(rows[current'])
         /\ \A j \in Due(rows) :
              Security(rows[j].kind) /\ now < Deadline(rows[j]) => Security(rows[current'].kind)
<1>. DEFINE gone  == Expired(now)
            kept  == GiveUp(rows, gone)
            blank == {i \in Due(kept) : kept[i].placeholder}
            left  == Without(kept, blank)
<1>p. RowsOK /\ now \in Nat
  BY TypeParts, BoundsAssumption DEF ProcessOK
<1>1. /\ current' \in Due(left)
      /\ \A j \in Due(left) \ {current'} : Before(left[current'], current', left[j], j)
  BY DEF Pick
<1>2. rows \in [DOMAIN rows -> Row]
  BY <1>p DEF RowsOK
<1>3. \A i \in Unsent(rows) : i \in DOMAIN rows /\ Deadline(rows[i]) \in Nat
  BY <1>2, DeadlineType DEF Unsent
<1>4. /\ \A i \in gone : Deadline(rows[i]) <= now
      /\ \A i \in Unsent(rows) \ gone : now < Deadline(rows[i])
  BY <1>p, <1>3 DEF Expired
<1>k. /\ DOMAIN kept \subseteq DOMAIN rows
      /\ Unsent(kept) = Unsent(rows) \ gone
      /\ \A i \in DOMAIN kept : i \notin gone => kept[i] = rows[i]
  BY <1>2, GiveUpKeeps
<1>b. \A i \in Due(kept) : i \in blank <=> kept[i].placeholder
  OBVIOUS
<1>s. blank \subseteq Due(kept)
  OBVIOUS
<1>. HIDE DEF gone, kept, blank
<1>l. DOMAIN left = DOMAIN kept \ blank /\ \A i \in DOMAIN left : left[i] = kept[i]
  BY WithoutKeeps, Zenon
<1>. HIDE DEF left
<1>5. \A i \in Due(kept) : i \in Unsent(rows) \ gone /\ kept[i] = rows[i] /\ rows[i].next <= now
  BY <1>k DEF Due, Unsent
<1>6. \A i \in Due(left) : i \in Due(kept) \ blank /\ left[i] = rows[i]
  BY <1>k, <1>l, <1>5 DEF Due, Unsent
<1>7. current' \in Due(kept) \ blank /\ left[current'] = rows[current']
  BY <1>1, <1>6
<1>8. current' \in Due(rows) /\ ~rows[current'].placeholder /\ now < Deadline(rows[current'])
  BY <1>4, <1>5, <1>7, <1>b DEF Due
<1>9. ASSUME NEW j \in Due(rows), Security(rows[j].kind), now < Deadline(rows[j])
      PROVE  Security(rows[current'].kind)
  <2>1. j \in Unsent(rows) /\ rows[j].next <= now
    BY DEF Due
  <2>2. j \notin gone
    BY <1>p, <1>3, <1>4, <1>9, <2>1
  <2>3. j \in Unsent(kept) /\ j \in DOMAIN kept /\ kept[j] = rows[j]
    BY <1>k, <2>1, <2>2 DEF Unsent
  <2>4. ~rows[j].placeholder
    BY <1>9, <2>1 DEF RowsFit, RowFits, Security
  <2>5. j \in Due(kept) \ blank
    BY <1>b, <2>1, <2>3, <2>4 DEF Due
  <2>6. j \in Due(left) /\ left[j] = rows[j]
    BY <1>l, <2>1, <2>3, <2>5 DEF Due, Unsent
  <2>7. CASE j # current'
    <3>1. Before(rows[current'], current', rows[j], j)
      BY <1>1, <1>7, <2>6, <2>7
    <3>. QED  BY <1>9, <3>1, Zenon DEF Before
  <2>. QED  BY <1>9, <2>7
<1>. QED  BY <1>8, <1>9

(* The worker's choice keeps that order in every behaviour (pick). *)
THEOREM SentInOrder == Spec => AttemptsInOrder
<1>. DEFINE A == worker = "picking" /\ worker' = "sending" =>
                   LET r == rows[current']
                   IN  /\ current' \in Due(rows) /\ ~r.placeholder /\ now < Deadline(r)
                       /\ \A j \in Due(rows) :
                            Security(rows[j].kind) /\ now < Deadline(rows[j]) => Security(r.kind)
<1>1. TypeOK /\ RowsFit /\ [Next]_vars => A
  <2>. SUFFICES ASSUME TypeOK, RowsFit, [Next]_vars, worker = "picking", worker' = "sending"
                PROVE  A
    OBVIOUS
  <2>1. Pick
    BY DEF Next, Queuing, Working, Retaining, RequestReset, RequestUnknown, CliResetPassword,
       Lockout, ChangePassword, LinkSubmit, RolledBack, PickFails, WakeUp, SmtpAccepts,
       RecordSent, RecordFailed, RecordFails, RetentionOutbox, RetentionSignIn,
       RetentionStepFails, Crash, Start, Serving, Tick, vars, loop
  <2>. QED  BY <2>1, PickInOrder
<1>. QED  BY <1>1, FitInvariance, PTL DEF Spec, AttemptsInOrder

(* Giving rows up uses up the tokens their links carry (give_up,           *)
(* expire_reset_token).                                                    *)
LEMMA ExpiredLinks ==
  ASSUME TypeOK, RowsFit, NEW S, tokens' = ExpireResetTokens(S), nextToken' = nextToken,
         NEW i \in S, i \in Unsent(rows), NEW k \in TokenIds, rows[i].carries = k
  PROVE  DeadToken(k)'
<1>p. TokensOK
  BY TypeParts
<1>1. k # NoToken
  BY DEF TokenIds, NoToken
<1>2. /\ rows[i].kind = "reset_link" /\ k < nextToken
      /\ k \in DOMAIN tokens => tokens[k].user = rows[i].user
  BY <1>1 DEF RowsFit, RowFits
<1>. DEFINE us == {rows[j].user : j \in {l \in S : rows[l].kind = "reset_link"}}
<1>3. rows[i].user \in us
  BY <1>2
<1>4. tokens' = Invalidated(tokens, us)
  BY DEF ExpireResetTokens
<1>. HIDE DEF us
<1>5. tokens \in [DOMAIN tokens -> Token]
  BY <1>p DEF TokensOK
<1>6. /\ DOMAIN Invalidated(tokens, us) = DOMAIN tokens
      /\ \A l \in DOMAIN tokens : tokens[l].user \in us => Invalidated(tokens, us)[l].used
  BY <1>5, InvalidatedKeeps
<1>. QED  BY <1>2, <1>3, <1>4, <1>6 DEF DeadToken

(* The transaction that gives a reset mail up leaves its link dead, and a  *)
(* dead link never works again (give_up, expire_reset_token).              *)
THEOREM LinksDieWithTheirMail == Spec => GivenUpLinkIsDead
<1>. DEFINE A == \A k \in TokenIds :
                   DeadToken(k) \/ (\E i \in GivenUpNow : rows[i].carries = k) => DeadToken(k)'
<1>1. TypeOK /\ RowsFit /\ RowsMatchFate /\ [Next]_vars => A
  <2>. SUFFICES ASSUME TypeOK, RowsFit, RowsMatchFate, [Next]_vars, NEW k \in TokenIds,
                       DeadToken(k) \/ (\E i \in GivenUpNow : rows[i].carries = k)
                PROVE  DeadToken(k)'
    OBVIOUS
  <2>1. CASE DeadToken(k)
    <3>1. k \in Nat
      BY DEF TokenIds
    <3>. QED  BY <2>1, <3>1, OldTokens DEF DeadToken
  <2>2. ASSUME NEW i \in GivenUpNow, rows[i].carries = k  PROVE DeadToken(k)'
    <3>1. i \in Ids /\ fate[i] = "queued" /\ fate'[i] = "given_up"
      BY <2>2 DEF GivenUpNow
    <3>2. i \in Unsent(rows)
      BY <3>1 DEF RowsMatchFate
    <3>3. ASSUME NEW S, tokens' = ExpireResetTokens(S), nextToken' = nextToken, i \in S
          PROVE  DeadToken(k)'
      BY <2>2, <3>2, <3>3, ExpiredLinks
    <3>4. CASE Pick
      <4>1. /\ tokens' = ExpireResetTokens(Expired(now)) /\ nextToken' = nextToken
            /\ fate'[i] \in {"discarded", Settled(Expired(now), "given_up")[i]}
        BY <3>1, <3>4, Zenon DEF Pick
      <4>2. i \in Expired(now)
        BY <3>1, <4>1 DEF Settled
      <4>. QED  BY <3>3, <4>1, <4>2
    <3>5. CASE RetentionOutbox
      <4>1. PICK t \in Recent : /\ tokens' = ExpireResetTokens(Expired(t))
                                /\ fate' = Settled(Expired(t), "given_up")
        BY <3>5 DEF RetentionOutbox
      <4>2. nextToken' = nextToken
        BY <3>5 DEF RetentionOutbox
      <4>3. i \in Expired(t)
        BY <3>1, <4>1 DEF Settled
      <4>. QED  BY <3>3, <4>1, <4>2, <4>3
    <3>6. CASE RecordFailed
      <4>1. /\ tokens' = ExpireResetTokens({current}) /\ nextToken' = nextToken
            /\ fate' = Settled({current}, "given_up")
        BY <3>1, <3>6 DEF RecordFailed
      <4>2. i = current
        BY <3>1, <4>1 DEF Settled
      <4>. QED  BY <3>3, <4>1, <4>2
    <3>7. CASE RecordSent
      <4>1. fate' = fate \/ fate' = Settled({current}, "sent")
        BY <3>7 DEF RecordSent
      <4>. QED  BY <3>1, <4>1 DEF Settled
    <3>8. CASE Queuing
      <4>1. fate' = fate \/ fate' = [fate EXCEPT ![nextId] = "queued"]
        BY <3>8, Zenon DEF Queuing, RequestReset, RequestUnknown, CliResetPassword, Lockout,
           ChangePassword, LinkSubmit, RolledBack, Enqueue, Insert
      <4>2. fate = [j \in Ids |-> fate[j]]
        BY DEF TypeOK
      <4>. QED  BY <3>1, <4>1, <4>2
    <3>9. fate' # fate
      BY <3>1
    <3>. QED  BY <3>4, <3>5, <3>6, <3>7, <3>8, <3>9
              DEF Next, Working, Retaining, PickFails, WakeUp, SmtpAccepts, RecordFails,
                  RetentionSignIn, RetentionStepFails, Crash, Start, Tick, vars
  <2>. QED  BY <2>1, <2>2
<1>. QED  BY <1>1, FitInvariance, NoRowVanishes, PTL DEF Spec, GivenUpLinkIsDead

-----------------------------------------------------------------------------
(* The refinement of MailDelivery *)

(* An accepted attempt is of a mail the server has. *)
AcceptedIsDelivered == accepted => current \in delivered

LEMMA AcceptedStep ==
  ASSUME TypeOK, AcceptedIsDelivered, [Next]_vars
  PROVE  AcceptedIsDelivered'
<1>1. CASE SmtpAccepts
  BY <1>1 DEF SmtpAccepts, loop, AcceptedIsDelivered
<1>2. CASE Pick \/ PickFails \/ WakeUp \/ Start
  <2>1. accepted' = accepted /\ worker # "sending"
    BY <1>2, Zenon DEF Pick, PickFails, WakeUp, Start, Serving, smtp
  <2>. QED  BY <2>1 DEF AcceptedIsDelivered, TypeOK
<1>3. CASE RecordSent \/ RecordFailed \/ RecordFails \/ Crash
  BY <1>3 DEF RecordSent, RecordFailed, RecordFails, AttemptOver, Crash, AcceptedIsDelivered
<1>4. CASE Tick \/ Queuing \/ Retaining \/ UNCHANGED vars
  <2>1. UNCHANGED <<accepted, current, delivered>>
    BY <1>4, Zenon DEF Tick, Queuing, RequestReset, RequestUnknown, CliResetPassword, Lockout,
       ChangePassword, LinkSubmit, RolledBack, Retaining, RetentionOutbox, RetentionSignIn,
       RetentionStepFails, vars, loop, smtp
  <2>. QED  BY <2>1 DEF AcceptedIsDelivered
<1>. QED  BY <1>1, <1>2, <1>3, <1>4 DEF Next, Working

Sending == IF worker = "sending" THEN {current} ELSE {}

(* A queuing transaction queues one mail, or none. *)
LEMMA QueueRefines ==
  ASSUME DupInv, Queuing
  PROVE  [Promise!Next]_(Promise!vars)
<1>p. RowsOK
  BY TypeParts DEF DupInv
<1>1. UNCHANGED <<delivered, worker, current>>
  BY Zenon DEF Queuing, RequestReset, RequestUnknown, CliResetPassword, Lockout,
     ChangePassword, LinkSubmit, RolledBack, loop, smtp
<1>2. \/ fate' = fate
      \/ nextId <= MaxRows /\ fate' = [fate EXCEPT ![nextId] = "queued"]
  BY Zenon DEF Queuing, RequestReset, RequestUnknown, CliResetPassword, Lockout,
     ChangePassword, LinkSubmit, RolledBack, Enqueue, Insert
<1>3. CASE fate' = fate
  BY <1>1, <1>3 DEF Promise!vars
<1>4. CASE nextId <= MaxRows /\ fate' = [fate EXCEPT ![nextId] = "queued"]
  <2>1. nextId \in Ids /\ nextId \in Nat
    BY <1>p, <1>4, BoundsAssumption DEF RowsOK, Ids
  <2>2. fate[nextId] = "none"
    BY <2>1 DEF DupInv, AcceptancesAccounted
  <2>3. Promise!Queue(nextId)
    BY <1>1, <1>4, <2>2 DEF Promise!Queue
  <2>. QED  BY <2>1, <2>3 DEF Promise!Next
<1>. QED  BY <1>2, <1>3, <1>4

(* The worker's look at the queue settles and then starts one attempt. *)
LEMMA PickRefines ==
  ASSUME DupInv, RowsMatchFate', TypeOK', Pick
  PROVE  Promise!Next
<1>. DEFINE gone  == Expired(now)
            kept  == GiveUp(rows, gone)
            blank == {i \in Due(kept) : kept[i].placeholder}
<1>p. RowsOK /\ DOMAIN rows \subseteq Ids
  BY TypeParts, BoundsAssumption DEF DupInv, RowsOK, Ids
<1>1. /\ fate' = [i \in Ids |-> IF i \in blank THEN "discarded"
                                ELSE Settled(gone, "given_up")[i]]
      /\ delivered' = delivered /\ worker = "picking" /\ worker' \in {"sending", "waiting"}
      /\ worker' = "sending" => current' \in Unsent(rows')
  BY Zenon DEF Pick, smtp, Due
<1>2. gone \subseteq Unsent(rows) /\ rows \in [DOMAIN rows -> Row]
  BY <1>p DEF Expired, RowsOK
<1>3. blank \subseteq Unsent(rows) \ gone
  <2>1. Unsent(kept) = Unsent(rows) \ gone
    BY <1>2, GiveUpKeeps
  <2>. QED  BY <2>1 DEF Due
<1>. HIDE DEF gone, blank
<1>4. Unsent(rows) \subseteq Ids /\ \A i \in Unsent(rows) : fate[i] = "queued"
  BY <1>p DEF DupInv, RowsMatchFate, Unsent
<1>5. gone \in SUBSET Ids /\ blank \in SUBSET Ids /\ \A i \in gone \cup blank : fate[i] = "queued"
  BY <1>2, <1>3, <1>4
<1>6. fate' = [i \in Ids |-> IF i \in gone THEN "given_up"
                             ELSE IF i \in blank THEN "discarded" ELSE fate[i]]
  BY <1>1, <1>3 DEF Settled
<1>7. worker' = "sending" => current' \in Ids /\ fate'[current'] = "queued"
  <2>1. DOMAIN rows' \subseteq Ids
    BY BoundsAssumption DEF TypeOK, Ids
  <2>. QED  BY <1>1, <2>1 DEF RowsMatchFate, Unsent
<1>. DEFINE next == IF worker' = "sending" THEN {current'} ELSE {}
<1>8. next \in SUBSET Ids /\ (next # {} => \E i \in Ids : next = {i} /\ fate'[i] = "queued")
  BY <1>7
<1>. HIDE DEF next
<1>9. Promise!Settle(gone, blank, next)
  BY <1>1, <1>5, <1>6, <1>8 DEF Promise!Settle, next
<1>. QED  BY <1>5, <1>8, <1>9 DEF Promise!Next

(* The retention run settles, beside whatever attempt is in flight. *)
LEMMA RetentionRefines ==
  ASSUME DupInv, RetentionOutbox
  PROVE  Promise!Next
<1>p. RowsOK /\ DOMAIN rows \subseteq Ids /\ ProcessOK
  BY TypeParts, BoundsAssumption DEF DupInv, RowsOK, Ids
<1>1. PICK t \in Recent : fate' = Settled(Expired(t), "given_up")
  BY DEF RetentionOutbox
<1>2. UNCHANGED <<delivered, worker, current>>
  BY DEF RetentionOutbox, smtp, loop
<1>3. Expired(t) \in SUBSET Ids /\ \A i \in Expired(t) : fate[i] = "queued"
  BY <1>p DEF Expired, Unsent, DupInv, RowsMatchFate
<1>4. Sending \in SUBSET Ids
  BY <1>p DEF Sending, ProcessOK
<1>5. Promise!Settle(Expired(t), {}, Sending)
  BY <1>1, <1>2, <1>3 DEF Promise!Settle, Settled, Sending
<1>6. {} \in SUBSET Ids
  OBVIOUS
<1>. QED  BY <1>3, <1>4, <1>5, <1>6 DEF Promise!Next

(* The end of an attempt, recorded or not. *)
LEMMA AttemptRefines ==
  ASSUME DupInv, AcceptedIsDelivered,
         RecordSent \/ RecordFailed \/ RecordFails \/ (Crash /\ worker = "sending")
  PROVE  Promise!Next
<1>p. RowsOK /\ ProcessOK
  BY TypeParts DEF DupInv
<1>1. worker = "sending" /\ worker' # "sending" /\ delivered' = delivered
  BY DEF RecordSent, RecordFailed, RecordFails, AttemptOver, Crash
<1>2. current \in Ids
  BY <1>1, <1>p DEF ProcessOK
<1>3. current \in Unsent(rows) => fate[current] = "queued"
  BY <1>2 DEF DupInv, RowsMatchFate
<1>4. /\ accepted => current \in delivered
      /\ fate = [i \in Ids |-> fate[i]]
  BY <1>p DEF AcceptedIsDelivered, RowsOK
<1>5. \A f : Settled({current}, f) = [fate EXCEPT ![current] = f]
  BY <1>4 DEF Settled
<1>6. \/ fate' = fate
      \/ /\ current \in Unsent(rows) /\ accepted
         /\ fate' = Settled({current}, "sent")
      \/ current \in Unsent(rows) /\ fate' = Settled({current}, "given_up")
  BY DEF RecordSent, RecordFailed, RecordFails, Crash
<1>7. Promise!Finish(current)
  BY <1>1, <1>3, <1>4, <1>5, <1>6, Zenon DEF Promise!Finish
<1>. QED  BY <1>2, <1>7 DEF Promise!Next

(* The outbox implements MailDelivery: every mail has one fate that is     *)
(* final once settled, one mail at a time is being sent, never a settled   *)
(* one, and none counts as sent that the server did not accept, through    *)
(* retries, retention runs, failed writes, crashes and restarts.           *)
THEOREM PromiseKept == Spec => DeliveryPromise
<1>1. Init => Promise!Init
  BY DEF Init, Promise!Init
<1>2. /\ DupInv /\ AcceptedIsDelivered /\ [Next]_vars /\ DupInv'
      => [Promise!Next]_(Promise!vars)
  <2>. SUFFICES ASSUME DupInv, AcceptedIsDelivered, [Next]_vars, DupInv'
                PROVE  [Promise!Next]_(Promise!vars)
    OBVIOUS
  <2>1. CASE Tick \/ RetentionSignIn \/ RetentionStepFails \/ UNCHANGED vars
    <3>1. UNCHANGED <<fate, delivered, worker, current>>
      BY <2>1 DEF Tick, RetentionSignIn, RetentionStepFails, vars, loop, smtp
    <3>. QED  BY <3>1 DEF Promise!vars
  <2>2. CASE PickFails \/ WakeUp \/ Start \/ (Crash /\ worker # "sending")
    <3>1. UNCHANGED <<fate, delivered>> /\ worker # "sending" /\ worker' # "sending"
      BY <2>2 DEF PickFails, WakeUp, Start, Serving, Crash, smtp
    <3>. QED  BY <3>1 DEF Promise!vars
  <2>3. CASE SmtpAccepts
    <3>1. Promise!Accept(current)
      BY <2>3 DEF SmtpAccepts, loop, Promise!Accept
    <3>2. current \in Ids
      BY <2>3 DEF SmtpAccepts, DupInv, TypeOK
    <3>. QED  BY <3>1, <3>2 DEF Promise!Next
  <2>4. CASE Pick
    BY <2>4, PickRefines DEF DupInv
  <2>. QED  BY <2>1, <2>2, <2>3, <2>4, QueueRefines, RetentionRefines, AttemptRefines
            DEF Next, Working, Retaining
<1>3. Init /\ TypeOK /\ RowsMatchFate => DupInv
  BY DEF Init, DupInv, AcceptancesAccounted, DuplicateOnlyAfterLostOutcome
<1>4. Init => AcceptedIsDelivered
  BY DEF Init, AcceptedIsDelivered
<1>. QED  BY <1>1, <1>2, <1>3, <1>4, TypeCorrect, NoRowVanishes, DupStep, AcceptedStep, PTL
          DEF Spec, DeliveryPromise, Promise!Spec
=============================================================================
