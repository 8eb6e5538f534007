------------------------- MODULE RateLimiterProofs -------------------------
(***************************************************************************)
(* The limiter keeps every budget and its memory bound, for any number of  *)
(* networks, requests and sweeps and any staleness of the clock readings.  *)
(***************************************************************************)
EXTENDS RateLimiter, FiniteSetTheorems, TLAPS

(* What a held bucket with arrival time tat and load l owes at time n, k   *)
(* sweeps done: no more than a refill, and no less than what was taken,    *)
(* but for the slack of stale readings.                                    *)
Sound(b, tat, l, n, k) ==
  /\ tat \in Nat
  /\ tat <= n + Capacity[b] * Interval[b]
  /\ l = 0 \/ l <= tat - n + MaxLag * (1 + k)

(* The same for every bucket of S, those that f lacks being almost unloaded.*)
AllSound(f, S, ld, n, k) ==
  \A b \in S : IF b \in DOMAIN f THEN Sound(b, f[b], ld[b], n, k)
                                 ELSE ld[b] <= MaxLag * k

(* Clock readings in use are at most MaxLag old. *)
Fresh ==
  /\ \A r \in Slots : \A t \in reqs[r].at : now <= t + MaxLag
  /\ \A t \in sweep : now <= t + MaxLag

Inv ==
  /\ TypeOK
  /\ Fresh
  /\ sweep # {} => sweeps < MaxSweeps
  /\ BucketsBounded
  /\ AllSound(buckets, Keys, load, now, sweeps)
  /\ AllSound(overflow, Overflows, load, now, sweeps)
  /\ Sound(Instance, instance, load[Instance], now, sweeps)

-----------------------------------------------------------------------------
(* One bucket *)

(* A refill is one interval more than the tolerance of Bucket::admits. *)
LEMMA RefillStep ==
  ASSUME NEW b \in Buckets
  PROVE  /\ Capacity[b] \in Nat /\ Interval[b] \in Nat
         /\ Capacity[b] * Interval[b] \in Nat
         /\ Interval[b] * (Capacity[b] - 1) + Interval[b] = Capacity[b] * Interval[b]
         /\ Interval[b] <= Capacity[b] * Interval[b]
<1>1. Capacity[b] \in Nat \ {0} /\ Interval[b] \in Nat \ {0}
  BY BudgetAssumption
<1>2. \A c, i \in Nat \ {0} : c * i \in Nat /\ i * (c - 1) + i = c * i /\ i <= c * i
  OBVIOUS
<1> QED BY <1>1, <1>2

(* The slack of stale readings grows by one staleness with every sweep. *)
LEMMA SlackStep ==
  ASSUME NEW k \in Nat
  PROVE  /\ MaxLag \in Nat
         /\ MaxLag * k \in Nat /\ MaxLag * (1 + k) \in Nat
         /\ MaxLag * (1 + k) = MaxLag * k + MaxLag
         /\ MaxLag * (1 + (k + 1)) = MaxLag * (1 + k) + MaxLag
<1>1. MaxLag \in Nat
  BY RateBoundsAssumption
<1>2. \A m \in Nat : /\ m * k \in Nat /\ m * (1 + k) \in Nat
                     /\ m * (1 + k) = m * k + m
                     /\ m * (1 + (k + 1)) = m * (1 + k) + m
  OBVIOUS
<1> QED BY <1>1, <1>2

(* Bucket::take with a stale reading keeps a bucket that admits sound. *)
LEMMA TakeSound ==
  ASSUME NEW b \in Buckets, NEW tat, NEW l \in Nat, NEW n \in Nat, NEW k \in Nat,
         NEW t \in Nat, t <= n, n <= t + MaxLag,
         Sound(b, tat, l, n, k), Admits(b, tat, t)
  PROVE  Sound(b, Taken(b, tat, t), l + Interval[b], n, k)
<1> DEFINE C == Capacity[b] * Interval[b]
           I == Interval[b]
           A == Interval[b] * (Capacity[b] - 1)
           X == MaxLag * (1 + k)
           Y == MaxLag * k
<1>1. C \in Nat /\ I \in Nat /\ A + I = C /\ A \in Int
  BY RefillStep
<1>2. X \in Nat /\ Y \in Nat /\ MaxLag \in Nat /\ X = Y + MaxLag
  BY SlackStep
<1>3. tat \in Nat /\ tat <= t + A /\ (l = 0 \/ l <= tat - n + X)
  BY DEF Sound, Admits
<1>4. I <= C
  BY RefillStep
<1> HIDE DEF C, I, A, X, Y
<1>5. Taken(b, tat, t) = Later(tat, t) + I
  BY DEF Taken, I
<1>6. /\ Taken(b, tat, t) \in Nat
      /\ Taken(b, tat, t) <= n + C
      /\ l + I <= Taken(b, tat, t) - n + X
  BY <1>1, <1>2, <1>3, <1>4, <1>5 DEF Later
<1> QED BY <1>6 DEF Sound, C, I, X

(* A bucket created full and taken from is sound. *)
LEMMA CreateSound ==
  ASSUME NEW b \in Buckets, NEW l \in Nat, NEW n \in Nat, NEW k \in Nat,
         NEW t \in Nat, t <= n, n <= t + MaxLag, l <= MaxLag * k
  PROVE  Sound(b, Taken(b, t, t), l + Interval[b], n, k)
<1> DEFINE C == Capacity[b] * Interval[b]
           I == Interval[b]
           X == MaxLag * (1 + k)
           Y == MaxLag * k
<1>1. C \in Nat /\ I \in Nat /\ I <= C
  BY RefillStep
<1>2. X \in Nat /\ Y \in Nat /\ MaxLag \in Nat /\ X = Y + MaxLag /\ l <= Y
  BY SlackStep
<1> HIDE DEF C, I, X, Y
<1>3. Taken(b, t, t) = Later(t, t) + I
  BY DEF Taken, I
<1>4. /\ Taken(b, t, t) \in Nat
      /\ Taken(b, t, t) <= n + C
      /\ l + I <= Taken(b, t, t) - n + X
  BY <1>1, <1>2, <1>3 DEF Later
<1> QED BY <1>4 DEF Sound, C, I, X

(* Time passing refills a bucket and its load alike. *)
LEMMA TickSound ==
  ASSUME NEW b \in Buckets, NEW tat, NEW l \in Nat, NEW n \in Nat, NEW k \in Nat,
         Sound(b, tat, l, n, k)
  PROVE  Sound(b, tat, Later(l - 1, 0), n + 1, k)
<1> DEFINE C == Capacity[b] * Interval[b]
           X == MaxLag * (1 + k)
<1>1. C \in Nat /\ X \in Nat
  BY RefillStep, SlackStep
<1>2. tat \in Nat /\ tat <= n + C /\ (l = 0 \/ l <= tat - n + X)
  BY DEF Sound
<1> HIDE DEF C, X
<1>3. /\ tat <= (n + 1) + C
      /\ Later(l - 1, 0) = 0 \/ Later(l - 1, 0) <= tat - (n + 1) + X
  BY <1>1, <1>2 DEF Later
<1> QED BY <1>2, <1>3 DEF Sound, C, X

(* A sweep with a stale reading removes a bucket only with next to no load.*)
LEMMA SweepSound ==
  ASSUME NEW b \in Buckets, NEW tat, NEW l \in Nat, NEW n \in Nat, NEW k \in Nat,
         NEW t \in Nat, t <= n, Sound(b, tat, l, n, k)
  PROVE  /\ Sound(b, tat, l, n, k + 1)
         /\ IsFull(b, tat, t) => l <= MaxLag * (k + 1)
<1> DEFINE C == Capacity[b] * Interval[b]
           X == MaxLag * (1 + k)
           Z == MaxLag * (1 + (k + 1))
<1>1. C \in Nat /\ X \in Nat /\ Z = X + MaxLag /\ MaxLag \in Nat
  BY RefillStep, SlackStep
<1>2. tat \in Nat /\ tat <= n + C /\ (l = 0 \/ l <= tat - n + X)
  BY DEF Sound
<1>3. MaxLag * (k + 1) = X
  BY <1>1
<1> HIDE DEF C, X, Z
<1>4. l = 0 \/ l <= tat - n + Z
  BY <1>1, <1>2
<1>5. tat <= t => l <= X
  BY <1>1, <1>2
<1> QED BY <1>2, <1>3, <1>4, <1>5 DEF Sound, IsFull, C, Z

-----------------------------------------------------------------------------
(* Maps of buckets *)

(* Taking a token of each of ks, of which the held ones admit, keeps a map *)
(* sound; only they are charged.                                           *)
LEMMA TakenFromSound ==
  ASSUME NEW S \in SUBSET Buckets, NEW f, NEW ks \in SUBSET S,
         NEW ld \in [Buckets -> Nat], NEW ld2, NEW n \in Nat, NEW k \in Nat,
         NEW t \in Nat, t <= n, n <= t + MaxLag,
         AllSound(f, S, ld, n, k),
         \A b \in ks \cap DOMAIN f : Admits(b, f[b], t),
         \A b \in S : ld2[b] = IF b \in ks THEN ld[b] + Interval[b] ELSE ld[b]
  PROVE  AllSound(TakenFrom(f, ks, t), S, ld2, n, k)
<1> DEFINE g == TakenFrom(f, ks, t)
<1> SUFFICES ASSUME NEW b \in S
             PROVE  IF b \in DOMAIN g THEN Sound(b, g[b], ld2[b], n, k)
                                      ELSE ld2[b] <= MaxLag * k
  BY DEF AllSound
<1>1. DOMAIN g = DOMAIN f \cup ks
  BY DEF TakenFrom
<1>2. b \in Buckets /\ ld[b] \in Nat
  OBVIOUS
<1>3. IF b \in DOMAIN f THEN Sound(b, f[b], ld[b], n, k) ELSE ld[b] <= MaxLag * k
  BY DEF AllSound
<1>4. CASE b \in ks /\ b \in DOMAIN f
  <2>1. g[b] = Taken(b, f[b], t) /\ ld2[b] = ld[b] + Interval[b]
    BY <1>4 DEF TakenFrom
  <2>2. Sound(b, Taken(b, f[b], t), ld[b] + Interval[b], n, k)
    BY <1>2, <1>3, <1>4, TakeSound
  <2> QED BY <1>1, <1>4, <2>1, <2>2
<1>5. CASE b \in ks /\ b \notin DOMAIN f
  <2>1. g[b] = Taken(b, t, t) /\ ld2[b] = ld[b] + Interval[b]
    BY <1>5 DEF TakenFrom
  <2>2. Sound(b, Taken(b, t, t), ld[b] + Interval[b], n, k)
    BY <1>2, <1>3, <1>5, CreateSound
  <2> QED BY <1>1, <1>5, <2>1, <2>2
<1>6. CASE b \notin ks
  <2>1. ld2[b] = ld[b] /\ (b \in DOMAIN f => g[b] = f[b])
    BY <1>6 DEF TakenFrom
  <2> QED BY <1>1, <1>3, <1>6, <2>1
<1> QED BY <1>4, <1>5, <1>6

(* The sweep of a map keeps it sound. *)
LEMMA KeptSound ==
  ASSUME NEW S \in SUBSET Buckets, NEW f, NEW ld \in [Buckets -> Nat],
         NEW n \in Nat, NEW k \in Nat, NEW t \in Nat, t <= n,
         AllSound(f, S, ld, n, k)
  PROVE  AllSound(Kept(f, t), S, ld, n, k + 1)
<1> DEFINE g == Kept(f, t)
<1> SUFFICES ASSUME NEW b \in S
             PROVE  IF b \in DOMAIN g THEN Sound(b, g[b], ld[b], n, k + 1)
                                      ELSE ld[b] <= MaxLag * (k + 1)
  BY DEF AllSound
<1>1. DOMAIN g = {c \in DOMAIN f : ~IsFull(c, f[c], t)} /\ \A c \in DOMAIN g : g[c] = f[c]
  BY DEF Kept
<1>2. b \in Buckets /\ ld[b] \in Nat
  OBVIOUS
<1>3. CASE b \in DOMAIN f
  <2>1. Sound(b, f[b], ld[b], n, k)
    BY <1>3 DEF AllSound
  <2>2. /\ Sound(b, f[b], ld[b], n, k + 1)
        /\ IsFull(b, f[b], t) => ld[b] <= MaxLag * (k + 1)
    BY <1>2, <2>1, SweepSound
  <2> QED BY <1>1, <1>3, <2>2
<1>4. CASE b \notin DOMAIN f
  <2>1. ld[b] <= MaxLag * k
    BY <1>4 DEF AllSound
  <2>2. MaxLag * (k + 1) = MaxLag * k + MaxLag /\ MaxLag \in Nat /\ MaxLag * k \in Nat
    BY SlackStep
  <2>3. ld[b] <= MaxLag * (k + 1)
    BY <1>2, <2>1, <2>2
  <2> QED BY <1>1, <1>4, <2>3
<1> QED BY <1>3, <1>4

(* Time passing keeps a map sound. *)
LEMMA TickAllSound ==
  ASSUME NEW S \in SUBSET Buckets, NEW f, NEW ld \in [Buckets -> Nat], NEW ld2,
         NEW n \in Nat, NEW k \in Nat, AllSound(f, S, ld, n, k),
         \A b \in S : ld2[b] = Later(ld[b] - 1, 0)
  PROVE  AllSound(f, S, ld2, n + 1, k)
<1> SUFFICES ASSUME NEW b \in S
             PROVE  IF b \in DOMAIN f THEN Sound(b, f[b], ld2[b], n + 1, k)
                                      ELSE ld2[b] <= MaxLag * k
  BY DEF AllSound
<1>1. b \in Buckets /\ ld[b] \in Nat /\ ld2[b] = Later(ld[b] - 1, 0)
  OBVIOUS
<1>2. CASE b \in DOMAIN f
  <2>1. Sound(b, f[b], ld[b], n, k)
    BY <1>2 DEF AllSound
  <2> QED BY <1>1, <1>2, <2>1, TickSound
<1>3. CASE b \notin DOMAIN f
  <2>1. ld[b] <= MaxLag * k /\ MaxLag * k \in Nat
    BY <1>3, SlackStep DEF AllSound
  <2>2. Later(ld[b] - 1, 0) <= MaxLag * k
    BY <1>1, <2>1 DEF Later
  <2> QED BY <1>1, <1>3, <2>2
<1> QED BY <1>2, <1>3

-----------------------------------------------------------------------------
(* The invariant *)

(* A limiter without buckets is sound. *)
LEMMA InitInv == Init => Inv
<1> SUFFICES ASSUME Init PROVE Inv
  OBVIOUS
<1> USE DEF Init
<1>1. DOMAIN buckets = {} /\ DOMAIN overflow = {}
  OBVIOUS
<1>2. 0 \in Nat /\ MaxLag * 0 = 0 /\ MaxLag \in Nat
  BY RateBoundsAssumption
<1>3. load \in [Buckets -> Nat] /\ \A b \in Buckets : load[b] = 0
  OBVIOUS
<1>4. TypeOK
  <2>1. buckets \in [DOMAIN buckets -> Nat] /\ overflow \in [DOMAIN overflow -> Nat]
    BY <1>1
  <2>2. reqs \in [Slots -> [at : SUBSET (0..now), todo : Seq(Demand)]]
    BY DEF Idle
  <2>3. now \in 0..Horizon /\ sweeps \in 0..MaxSweeps
    BY RateBoundsAssumption
  <2> QED BY <1>1, <1>3, <2>1, <2>2, <2>3 DEF TypeOK
<1>5. Fresh
  BY DEF Fresh, Idle
<1>6. BucketsBounded
  BY <1>1, FS_EmptySet, RateBoundsAssumption DEF BucketsBounded
<1>7. AllSound(buckets, Keys, load, now, sweeps) /\ AllSound(overflow, Overflows, load, now, sweeps)
  BY <1>1, <1>2, <1>3 DEF AllSound, Buckets
<1>8. Sound(Instance, instance, load[Instance], now, sweeps)
  <2>1. Instance \in Buckets
    BY DEF Buckets
  <2>2. Capacity[Instance] * Interval[Instance] \in Nat
    BY <2>1, RefillStep
  <2>3. instance = 0 /\ now = 0 /\ load[Instance] = 0
    BY <2>1
  <2> QED BY <2>2, <2>3 DEF Sound
<1> QED BY <1>4, <1>5, <1>6, <1>7, <1>8 DEF Inv

(* Steps that touch no bucket and only set aside a current reading. *)
LEMMA BeginInv == ASSUME Inv, NEW r \in Slots, Begin(r) PROVE Inv'
<1> USE DEF Inv
<1>1. PICK p \in Pipelines : reqs' = [reqs EXCEPT ![r] = [at |-> {now}, todo |-> p]]
  BY DEF Begin
<1>2. p \in Seq(Demand) /\ now \in Nat /\ MaxLag \in Nat
  BY BudgetAssumption, RateBoundsAssumption DEF TypeOK
<1>3. TypeOK'
  <2>1. reqs' \in [Slots -> [at : SUBSET (0..now), todo : Seq(Demand)]]
    BY <1>1, <1>2 DEF TypeOK
  <2> QED BY <2>1 DEF TypeOK, Begin
<1>4. Fresh'
  BY <1>1, <1>2 DEF Fresh, Begin, TypeOK
<1> QED BY <1>3, <1>4 DEF Begin, BucketsBounded

LEMMA ReadClockInv == ASSUME Inv, NEW r \in Slots, ReadClock(r) PROVE Inv'
<1> USE DEF Inv
<1>1. reqs' = [reqs EXCEPT ![r] = [at |-> {now}, todo |-> reqs[r].todo]]
  BY DEF ReadClock
<1>2. now \in Nat /\ MaxLag \in Nat
  BY RateBoundsAssumption DEF TypeOK
<1>3. TypeOK'
  <2>1. reqs' \in [Slots -> [at : SUBSET (0..now), todo : Seq(Demand)]]
    BY <1>1, <1>2 DEF TypeOK
  <2> QED BY <2>1 DEF TypeOK, ReadClock
<1>4. Fresh'
  BY <1>1, <1>2 DEF Fresh, ReadClock, TypeOK
<1> QED BY <1>3, <1>4 DEF ReadClock, BucketsBounded

LEMMA RejectInv == ASSUME Inv, NEW r \in Slots, Reject(r) PROVE Inv'
<1> USE DEF Inv
<1>1. reqs' = [reqs EXCEPT ![r] = Idle]
  BY DEF Reject
<1>2. TypeOK'
  <2>1. Idle \in [at : SUBSET (0..now), todo : Seq(Demand)]
    BY DEF Idle
  <2>2. reqs' \in [Slots -> [at : SUBSET (0..now), todo : Seq(Demand)]]
    BY <1>1, <2>1 DEF TypeOK
  <2> QED BY <2>2 DEF TypeOK, Reject
<1>3. Fresh'
  BY <1>1 DEF Fresh, Reject, TypeOK, Idle
<1> QED BY <1>2, <1>3 DEF Reject, BucketsBounded

LEMMA BeginSweepInv == ASSUME Inv, BeginSweep PROVE Inv'
<1> USE DEF Inv
<1>1. sweep' = {now} /\ now \in Nat /\ MaxLag \in Nat
  BY RateBoundsAssumption DEF BeginSweep, TypeOK
<1>2. TypeOK'
  BY <1>1 DEF TypeOK, BeginSweep
<1>3. Fresh'
  BY <1>1 DEF Fresh, BeginSweep
<1> QED BY <1>2, <1>3 DEF BeginSweep, BucketsBounded

(* A sweep that read the clock before waiting for the lock. *)
LEMMA SweepInv == ASSUME Inv, Sweep PROVE Inv'
<1> USE DEF Inv
<1>1. PICK t \in sweep : buckets' = Kept(buckets, t) /\ overflow' = Kept(overflow, t)
  BY DEF Sweep
<1>2. now \in Nat /\ t \in Nat /\ t <= now /\ sweeps \in Nat /\ load \in [Buckets -> Nat]
  BY DEF TypeOK
<1>3. Keys \in SUBSET Buckets /\ Overflows \in SUBSET Buckets /\ Instance \in Buckets
  BY DEF Buckets
<1>4. UNCHANGED <<now, instance, reqs, load>> /\ sweep' = {} /\ sweeps' = sweeps + 1
  BY DEF Sweep
<1>5. AllSound(buckets, Keys, load, now, sweeps)'
  <2>1. AllSound(Kept(buckets, t), Keys, load, now, sweeps + 1)
    BY <1>2, <1>3, KeptSound
  <2> QED BY <1>1, <1>4, <2>1
<1>6. AllSound(overflow, Overflows, load, now, sweeps)'
  <2>1. AllSound(Kept(overflow, t), Overflows, load, now, sweeps + 1)
    BY <1>2, <1>3, KeptSound
  <2> QED BY <1>1, <1>4, <2>1
<1>7. Sound(Instance, instance, load[Instance], now, sweeps)'
  <2>1. load[Instance] \in Nat
    BY <1>2, <1>3
  <2>2. Sound(Instance, instance, load[Instance], now, sweeps + 1)
    BY <1>2, <1>3, <2>1, SweepSound
  <2> QED BY <1>4, <2>2
<1>8. DOMAIN buckets' \subseteq DOMAIN buckets /\ DOMAIN overflow' \subseteq DOMAIN overflow
  BY <1>1 DEF Kept
<1>9. TypeOK'
  <2>1. buckets' \in [DOMAIN buckets' -> Nat]
    BY <1>1 DEF Kept, TypeOK
  <2>2. overflow' \in [DOMAIN overflow' -> Nat]
    BY <1>1 DEF Kept, TypeOK
  <2>3. sweeps' \in 0..MaxSweeps
    BY <1>1, <1>2, <1>4, RateBoundsAssumption
  <2> QED BY <1>4, <1>8, <2>1, <2>2, <2>3 DEF TypeOK
<1>10. Fresh'
  BY <1>4 DEF Fresh
<1>11. BucketsBounded'
  <2>1. IsFiniteSet(DOMAIN buckets)
    BY FS_Subset, RateBoundsAssumption DEF TypeOK
  <2>2. /\ Cardinality(DOMAIN buckets') <= Cardinality(DOMAIN buckets)
        /\ IsFiniteSet(DOMAIN buckets')
    BY <1>8, <2>1, FS_Subset
  <2>3. Cardinality(DOMAIN buckets) \in Nat /\ Cardinality(DOMAIN buckets') \in Nat
    BY <2>1, <2>2, FS_CardinalityType
  <2> QED BY <2>2, <2>3, RateBoundsAssumption DEF BucketsBounded
<1> QED BY <1>4, <1>5, <1>6, <1>7, <1>9, <1>10, <1>11

(* The clock. *)
LEMMA TickInv == ASSUME Inv, Tick PROVE Inv'
<1> USE DEF Inv
<1>1. /\ now' = now + 1 /\ now < Horizon
      /\ load' = [b \in Buckets |-> Later(load[b] - 1, 0)]
      /\ UNCHANGED <<buckets, overflow, instance, reqs, sweep, sweeps>>
  BY DEF Tick
<1>2. now \in Nat /\ sweeps \in Nat /\ load \in [Buckets -> Nat]
  BY DEF TypeOK
<1>3. Keys \in SUBSET Buckets /\ Overflows \in SUBSET Buckets /\ Instance \in Buckets
  BY DEF Buckets
<1>4. \A b \in Buckets : load'[b] = Later(load[b] - 1, 0)
  BY <1>1
<1>5. AllSound(buckets, Keys, load, now, sweeps)'
  <2>1. AllSound(buckets, Keys, load', now + 1, sweeps)
    BY <1>2, <1>3, <1>4, TickAllSound
  <2> QED BY <1>1, <2>1
<1>6. AllSound(overflow, Overflows, load, now, sweeps)'
  <2>1. AllSound(overflow, Overflows, load', now + 1, sweeps)
    BY <1>2, <1>3, <1>4, TickAllSound
  <2> QED BY <1>1, <2>1
<1>7. Sound(Instance, instance, load[Instance], now, sweeps)'
  <2>1. load[Instance] \in Nat
    BY <1>2, <1>3
  <2>2. Sound(Instance, instance, Later(load[Instance] - 1, 0), now + 1, sweeps)
    BY <1>2, <1>3, <2>1, TickSound
  <2> QED BY <1>1, <1>3, <1>4, <2>2
<1>8. TypeOK'
  <2>1. load' \in [Buckets -> Nat]
    BY <1>1, <1>2 DEF Later
  <2>2. now' \in 0..Horizon
    BY <1>1, <1>2, RateBoundsAssumption
  <2>3. 0..now \subseteq 0..now'
    BY <1>1, <1>2
  <2>4. reqs' \in [Slots -> [at : SUBSET (0..now'), todo : Seq(Demand)]]
    <3>1. \A r \in Slots : reqs[r] \in [at : SUBSET (0..now'), todo : Seq(Demand)]
      BY <2>3 DEF TypeOK
    <3> QED BY <1>1, <3>1 DEF TypeOK
  <2> QED BY <1>1, <2>1, <2>2, <2>3, <2>4 DEF TypeOK
<1>9. Fresh'
  <2>1. MaxLag \in Nat
    BY RateBoundsAssumption
  <2>2. ASSUME NEW r \in Slots, NEW t \in reqs[r].at PROVE now + 1 <= t + MaxLag
    <3>1. t \in Nat /\ now - t < MaxLag
      BY DEF Tick, TypeOK
    <3> QED BY <1>2, <2>1, <3>1
  <2>3. ASSUME NEW t \in sweep PROVE now + 1 <= t + MaxLag
    <3>1. t \in Nat /\ now - t < MaxLag
      BY DEF Tick, TypeOK
    <3> QED BY <1>2, <2>1, <3>1
  <2> QED BY <1>1, <2>2, <2>3 DEF Fresh
<1> QED BY <1>1, <1>5, <1>6, <1>7, <1>8, <1>9 DEF BucketsBounded

(* The buckets of a demand that cannot all be created are not. *)
LEMMA OwnBounded ==
  ASSUME TypeOK, BucketsBounded, NEW d \in Demand
  PROVE  Cardinality(DOMAIN buckets \cup Own(d)) <= MaxBuckets
<1>1. IsFiniteSet(DOMAIN buckets) /\ IsFiniteSet(Missing(d))
  <2>1. DOMAIN buckets \subseteq Keys /\ Missing(d) \subseteq Keys /\ IsFiniteSet(Keys)
    BY RateBoundsAssumption DEF TypeOK, Missing, Demand
  <2> QED BY <2>1, FS_Subset
<1>2. Cardinality(DOMAIN buckets) \in Nat /\ Cardinality(Missing(d)) \in Nat
  BY <1>1, FS_CardinalityType
<1>3. MaxBuckets \in Nat /\ Cardinality(DOMAIN buckets) <= MaxBuckets
  BY RateBoundsAssumption DEF BucketsBounded
<1>4. CASE UseOverflow(d) \/ Missing(d) = {}
  <2>1. DOMAIN buckets \cup Own(d) = DOMAIN buckets
    BY <1>4 DEF Own, Missing
  <2> QED BY <1>3, <2>1
<1>5. CASE ~UseOverflow(d) /\ Missing(d) # {}
  <2>1. DOMAIN buckets \cup Own(d) = DOMAIN buckets \cup Missing(d)
    BY <1>5 DEF Own, Missing
  <2>2. DOMAIN buckets \cap Missing(d) = {}
    BY DEF Missing
  <2>3. Cardinality(DOMAIN buckets \cup Missing(d))
          = Cardinality(DOMAIN buckets) + Cardinality(Missing(d))
    <3>1. Cardinality(DOMAIN buckets \cup Missing(d))
            = Cardinality(DOMAIN buckets) + Cardinality(Missing(d))
                - Cardinality(DOMAIN buckets \cap Missing(d))
      BY <1>1, FS_Union
    <3>2. Cardinality(DOMAIN buckets \cap Missing(d)) = 0
      BY <2>2, FS_EmptySet
    <3> QED BY <1>2, <3>1, <3>2
  <2>4. Cardinality(DOMAIN buckets) + Cardinality(Missing(d)) <= MaxBuckets
    BY <1>2, <1>3, <1>5 DEF UseOverflow
  <2> QED BY <2>1, <2>3, <2>4
<1> QED BY <1>4, <1>5

(* An admitted demand takes from its own and shared buckets with a reading *)
(* that other requests and sweeps may have overtaken.                      *)
LEMMA AdmitInv == ASSUME Inv, NEW r \in Slots, Admit(r) PROVE Inv'
<1> USE DEF Inv
<1> DEFINE d == Head(reqs[r].todo)
           rest == Tail(reqs[r].todo)
<1>1. PICK t \in reqs[r].at :
        /\ Admitted(d, t)
        /\ buckets' = TakenFrom(buckets, Own(d), t)
        /\ overflow' = TakenFrom(overflow, Shared(d), t)
        /\ instance' = IF d.extra = {} THEN instance ELSE Taken(Instance, instance, t)
        /\ load' = [b \in Buckets |-> IF b \in Own(d) \cup Shared(d) \cup d.extra
                                        THEN load[b] + Interval[b] ELSE load[b]]
        /\ reqs' = [reqs EXCEPT ![r] = [at |-> NextReading(rest, t), todo |-> rest]]
  BY DEF Admit
<1>2. UNCHANGED <<now, sweep, sweeps>>
  BY DEF Admit
<1>3. reqs[r].todo \in Seq(Demand) /\ reqs[r].todo # <<>>
  BY DEF TypeOK, Admit, Active
<1>4. d \in Demand /\ rest \in Seq(Demand)
  BY <1>3
<1> HIDE DEF d, rest
<1>5. Own(d) \subseteq Keys /\ Shared(d) \subseteq Overflows /\ d.extra \subseteq {Instance}
  BY <1>4 DEF Own, Shared, Demand
<1>6. /\ now \in Nat /\ t \in Nat /\ t <= now /\ sweeps \in Nat
      /\ load \in [Buckets -> Nat]
  BY DEF TypeOK
<1>7. now <= t + MaxLag
  BY DEF Fresh
<1>8. Keys \in SUBSET Buckets /\ Overflows \in SUBSET Buckets /\ Instance \in Buckets
  BY DEF Buckets
<1>9. /\ Keys \cap Overflows = {} /\ Instance \notin Keys /\ Instance \notin Overflows
  BY BudgetAssumption
<1>10. AllSound(buckets, Keys, load, now, sweeps)'
  <2>1. \A b \in Keys : load'[b] = IF b \in Own(d) THEN load[b] + Interval[b] ELSE load[b]
    BY <1>1, <1>5, <1>8, <1>9
  <2>2. \A b \in Own(d) \cap DOMAIN buckets : Admits(b, buckets[b], t)
    BY <1>1 DEF Admitted, Own
  <2>3. AllSound(TakenFrom(buckets, Own(d), t), Keys, load', now, sweeps)
    BY <1>5, <1>6, <1>7, <1>8, <2>1, <2>2, TakenFromSound
  <2> QED BY <1>1, <1>2, <2>3
<1>11. AllSound(overflow, Overflows, load, now, sweeps)'
  <2>1. \A b \in Overflows : load'[b] = IF b \in Shared(d) THEN load[b] + Interval[b] ELSE load[b]
    BY <1>1, <1>5, <1>8, <1>9
  <2>2. \A b \in Shared(d) \cap DOMAIN overflow : Admits(b, overflow[b], t)
    BY <1>1 DEF Admitted, Shared
  <2>3. AllSound(TakenFrom(overflow, Shared(d), t), Overflows, load', now, sweeps)
    BY <1>5, <1>6, <1>7, <1>8, <2>1, <2>2, TakenFromSound
  <2> QED BY <1>1, <1>2, <2>3
<1>12. Sound(Instance, instance, load[Instance], now, sweeps)'
  <2>1. CASE d.extra = {}
    <3>1. load'[Instance] = load[Instance] /\ instance' = instance
      BY <1>1, <1>5, <1>8, <1>9, <2>1
    <3> QED BY <1>2, <3>1
  <2>2. CASE d.extra # {}
    <3>1. /\ load'[Instance] = load[Instance] + Interval[Instance]
          /\ instance' = Taken(Instance, instance, t)
      BY <1>1, <1>5, <1>8, <1>9, <2>2
    <3>2. Admits(Instance, instance, t) /\ load[Instance] \in Nat
      BY <1>1, <1>6, <1>8, <2>2 DEF Admitted
    <3>3. Sound(Instance, Taken(Instance, instance, t),
                load[Instance] + Interval[Instance], now, sweeps)
      BY <1>6, <1>7, <1>8, <3>2, TakeSound
    <3> QED BY <1>2, <3>1, <3>3
  <2> QED BY <2>1, <2>2
<1>13. DOMAIN buckets' = DOMAIN buckets \cup Own(d) /\ DOMAIN overflow' = DOMAIN overflow \cup Shared(d)
  BY <1>1 DEF TakenFrom
<1>14. TypeOK'
  <2>1. DOMAIN buckets' \subseteq Keys /\ DOMAIN overflow' \subseteq Overflows
    BY <1>5, <1>13 DEF TypeOK
  <2>2. \A b \in DOMAIN buckets' : buckets'[b] \in Nat
    BY <1>10, <2>1 DEF AllSound, Sound
  <2>3. buckets' \in [DOMAIN buckets' -> Nat]
    BY <1>1, <2>2 DEF TakenFrom
  <2>4. \A b \in DOMAIN overflow' : overflow'[b] \in Nat
    BY <1>11, <2>1 DEF AllSound, Sound
  <2>5. overflow' \in [DOMAIN overflow' -> Nat]
    BY <1>1, <2>4 DEF TakenFrom
  <2>6. instance' \in Nat
    BY <1>12 DEF Sound
  <2>7. load' \in [Buckets -> Nat]
    <3>1. \A b \in Buckets : load[b] \in Nat /\ load[b] + Interval[b] \in Nat
      BY <1>6, RefillStep
    <3> QED BY <1>1, <3>1
  <2>8. reqs' \in [Slots -> [at : SUBSET (0..now), todo : Seq(Demand)]]
    <3>1. NextReading(rest, t) \in SUBSET (0..now)
      BY <1>6 DEF NextReading
    <3> QED BY <1>1, <1>4, <3>1 DEF TypeOK
  <2> QED BY <1>2, <2>1, <2>3, <2>5, <2>6, <2>7, <2>8 DEF TypeOK
<1>15. Fresh'
  <2>1. \A u \in NextReading(rest, t) : now <= u + MaxLag
    BY <1>7 DEF NextReading
  <2> QED BY <1>1, <1>2, <2>1 DEF Fresh, TypeOK
<1>16. BucketsBounded'
  BY <1>4, <1>13, OwnBounded DEF BucketsBounded
<1> QED BY <1>2, <1>10, <1>11, <1>12, <1>14, <1>15, <1>16

(* Every step of the limiter keeps the invariant. *)
LEMMA NextInv == Inv /\ [Next]_vars => Inv'
<1> SUFFICES ASSUME Inv, [Next]_vars PROVE Inv'
  OBVIOUS
<1>1. CASE Tick
  BY <1>1, TickInv
<1>2. CASE BeginSweep
  BY <1>2, BeginSweepInv
<1>3. CASE Sweep
  BY <1>3, SweepInv
<1>4. ASSUME NEW r \in Slots, Begin(r) PROVE Inv'
  BY <1>4, BeginInv
<1>5. ASSUME NEW r \in Slots, ReadClock(r) PROVE Inv'
  BY <1>5, ReadClockInv
<1>6. ASSUME NEW r \in Slots, Admit(r) PROVE Inv'
  BY <1>6, AdmitInv
<1>7. ASSUME NEW r \in Slots, Reject(r) PROVE Inv'
  BY <1>7, RejectInv
<1>8. CASE UNCHANGED vars
  <2>1. TypeOK' /\ Fresh' /\ BucketsBounded'
    BY <1>8 DEF vars, Inv, TypeOK, Fresh, BucketsBounded
  <2> QED BY <1>8, <2>1 DEF vars, Inv
<1> QED BY <1>1, <1>2, <1>3, <1>4, <1>5, <1>6, <1>7, <1>8 DEF Next

LEMMA AlwaysInv == Spec => []Inv
<1> QED BY InitInv, NextInv, PTL DEF Spec

-----------------------------------------------------------------------------
(* What the limiter guarantees *)

(* The limiter's state stays well formed through every admission and sweep.*)
THEOREM LimiterTypeCorrect == Spec => []TypeOK
<1>1. Inv => TypeOK
  BY DEF Inv
<1> QED BY <1>1, AlwaysInv, PTL

(* admit_with never lets the map outgrow MaxBuckets, for any number of     *)
(* networks asking at once.                                                *)
THEOREM MemoryBounded == Spec => []BucketsBounded
<1>1. Inv => BucketsBounded
  BY DEF Inv
<1> QED BY <1>1, AlwaysInv, PTL

(* Every bucket is full again within one refill (Bucket::take). *)
THEOREM DebtIsBounded == Spec => []DebtBounded
<1>1. Inv => DebtBounded
  BY DEF Inv, TypeOK, AllSound, Sound, DebtBounded
<1> QED BY <1>1, AlwaysInv, PTL

(* No bucket gives more than its budget, whatever the order in which       *)
(* requests and sweeps use the times they read (Limiter::admit_with and    *)
(* Limiter::sweep).                                                        *)
THEOREM BudgetKept == Spec => []WithinBudget
<1>1. ASSUME NEW b \in Buckets, NEW tat, NEW l \in Nat, NEW n \in Nat, NEW k \in Nat,
             Sound(b, tat, l, n, k)
      PROVE  l <= Capacity[b] * Interval[b] + MaxLag * (1 + k)
  <2> DEFINE C == Capacity[b] * Interval[b]
             X == MaxLag * (1 + k)
  <2>1. C \in Nat /\ X \in Nat
    BY RefillStep, SlackStep
  <2>2. tat \in Nat /\ tat <= n + C /\ (l = 0 \/ l <= tat - n + X)
    BY <1>1 DEF Sound
  <2> HIDE DEF C, X
  <2>3. l <= C + X
    BY <2>1, <2>2
  <2> QED BY <2>3 DEF C, X
<1>2. ASSUME NEW b \in Buckets, NEW l \in Nat, NEW k \in Nat, l <= MaxLag * k
      PROVE  l <= Capacity[b] * Interval[b] + MaxLag * (1 + k)
  <2> DEFINE C == Capacity[b] * Interval[b]
             X == MaxLag * (1 + k)
             Y == MaxLag * k
  <2>1. C \in Nat /\ X \in Nat /\ Y \in Nat /\ X = Y + MaxLag /\ MaxLag \in Nat /\ l <= Y
    BY <1>2, RefillStep, SlackStep
  <2> HIDE DEF C, X, Y
  <2>2. l <= C + X
    BY <2>1
  <2> QED BY <2>2 DEF C, X
<1>3. Inv => WithinBudget
  <2> SUFFICES ASSUME Inv, NEW b \in Buckets
               PROVE  load[b] <= Capacity[b] * Interval[b] + MaxLag * (1 + sweeps)
    BY DEF WithinBudget
  <2>1. load[b] \in Nat /\ now \in Nat /\ sweeps \in Nat
    BY DEF Inv, TypeOK
  <2>2. CASE b \in Keys
    BY <1>1, <1>2, <2>1, <2>2 DEF Inv, AllSound
  <2>3. CASE b \in Overflows
    BY <1>1, <1>2, <2>1, <2>3 DEF Inv, AllSound
  <2>4. CASE b = Instance
    BY <1>1, <2>1, <2>4 DEF Inv
  <2> QED BY <2>2, <2>3, <2>4 DEF Buckets
<1> QED BY <1>3, AlwaysInv, PTL
=============================================================================
