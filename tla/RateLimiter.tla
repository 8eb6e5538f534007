---------------------------- MODULE RateLimiter ----------------------------
(***************************************************************************)
(* The per-network token buckets and the mail budgets on top of them.  A   *)
(* bucket is its theoretical arrival time: full once that is not after     *)
(* now.  A request reads the clock, then waits for the limiter's lock; the *)
(* sweep does the same, so times are used out of order.                    *)
(***************************************************************************)
EXTENDS Integers, Sequences, FiniteSets

CONSTANTS
  Keys,        \* keys of the bucket map: class and prefix, mail source, mail address
  Overflows,   \* the shared overflow buckets
  Instance,    \* the instance-wide mail bucket
  Capacity,    \* Budget::capacity of each bucket
  Interval,    \* Budget::interval of each bucket
  Pipelines,   \* what requests demand: sequences of demands, in handler order
  MaxBuckets,  \* MAX_BUCKETS
  Slots,       \* requests in progress at once
  MaxLag,      \* bound: how stale a captured time may be when it is used
  MaxSweeps,   \* bound: sweeps
  Horizon      \* bound: last instant of the clock

Buckets == Keys \cup Overflows \cup {Instance}

Demand == [keys : SUBSET Keys, overflow : Overflows, extra : SUBSET {Instance}]

ASSUME BudgetAssumption ==
  /\ Keys \cap Overflows = {} /\ Instance \notin Keys \cup Overflows
  /\ Capacity \in [Buckets -> Nat \ {0}] /\ Interval \in [Buckets -> Nat \ {0}]
  /\ Pipelines \subseteq Seq(Demand)

ASSUME RateBoundsAssumption ==
  /\ {MaxBuckets, MaxLag, MaxSweeps, Horizon} \subseteq Nat
  /\ IsFiniteSet(Keys)

VARIABLES
  now,       \* monotonic clock, from the limiter's start
  buckets,   \* Inner::buckets: key -> arrival time
  overflow,  \* Inner::overflow
  instance,  \* MailBudget::instance
  reqs,      \* per request: the time it read, if any, and the demands still to pass
  sweep,     \* the time a sweep read before it waits for the lock; empty: none
  sweeps,    \* sweeps done
  load       \* history: time needed to regain what was taken, on a perfect clock

vars == <<now, buckets, overflow, instance, reqs, sweep, sweeps, load>>

Idle == [at |-> {}, todo |-> <<>>]

Init ==
  /\ now = 0
  /\ buckets = <<>> /\ overflow = <<>> /\ instance = 0
  /\ reqs = [r \in Slots |-> Idle]
  /\ sweep = {} /\ sweeps = 0
  /\ load = [b \in Buckets |-> 0]

-----------------------------------------------------------------------------
(* Buckets *)

Admits(b, tat, t) == tat <= t + Interval[b] * (Capacity[b] - 1)

Later(s, t) == IF s > t THEN s ELSE t

Taken(b, tat, t) == Later(tat, t) + Interval[b]

(* The map with a token taken from each of ks, full ones added for those   *)
(* it lacks.                                                               *)
TakenFrom(f, ks, t) ==
  [b \in DOMAIN f \cup ks |->
     IF b \in ks THEN Taken(b, IF b \in DOMAIN f THEN f[b] ELSE t, t) ELSE f[b]]

BugIsFull(b, tat, t) == tat <= t + Interval[b]
IsFull(b, tat, t) == tat <= t

Kept(f, t) == [b \in {c \in DOMAIN f : ~IsFull(c, f[c], t)} |-> f[b]]

-----------------------------------------------------------------------------
(* Requests *)

Active(r) == reqs[r].todo # <<>>

(* rate_layer: the clock is read, the lock is still to be taken. *)
Begin(r) ==
  /\ ~Active(r)
  /\ \E p \in Pipelines : reqs' = [reqs EXCEPT ![r] = [at |-> {now}, todo |-> p]]
  /\ UNCHANGED <<now, buckets, overflow, instance, sweep, sweeps, load>>

(* The handler behind the layer reads the clock for its own demands. *)
ReadClock(r) ==
  /\ Active(r) /\ reqs[r].at = {}
  /\ reqs' = [reqs EXCEPT ![r] = [at |-> {now}, todo |-> reqs[r].todo]]
  /\ UNCHANGED <<now, buckets, overflow, instance, sweep, sweeps, load>>

Missing(d) == d.keys \ DOMAIN buckets

BugUseOverflow(d) == Missing(d) # {} /\ Cardinality(DOMAIN buckets) > MaxBuckets

(* A missing bucket cannot be created. *)
UseOverflow(d) ==
  Missing(d) # {} /\ Cardinality(DOMAIN buckets) + Cardinality(Missing(d)) > MaxBuckets

Admitted(d, t) ==
  /\ \A k \in d.keys \cap DOMAIN buckets : Admits(k, buckets[k], t)
  /\ UseOverflow(d) /\ d.overflow \in DOMAIN overflow
       => Admits(d.overflow, overflow[d.overflow], t)
  /\ d.extra # {} => Admits(Instance, instance, t)

(* The reading with which a request goes on to its next demand: the mail   *)
(* budget is asked with the one of the address limit, any other has its    *)
(* own.                                                                    *)
NextReading(rest, t) == IF rest # <<>> /\ Head(rest).extra # {} THEN {t} ELSE {}

(* The keyed buckets that a request takes from. *)
Own(d) == IF UseOverflow(d) THEN d.keys \cap DOMAIN buckets ELSE d.keys

Shared(d) == IF UseOverflow(d) THEN {d.overflow} ELSE {}

(* admit_with: a token of every bucket of the first demand. *)
Admit(r) ==
  /\ Active(r)
  /\ \E t \in reqs[r].at :
       LET d    == Head(reqs[r].todo)
           rest == Tail(reqs[r].todo)
       IN  /\ Admitted(d, t)
           /\ buckets' = TakenFrom(buckets, Own(d), t)
           /\ overflow' = TakenFrom(overflow, Shared(d), t)
           /\ instance' = IF d.extra = {} THEN instance ELSE Taken(Instance, instance, t)
           /\ load' = [b \in Buckets |-> IF b \in Own(d) \cup Shared(d) \cup d.extra
                                           THEN load[b] + Interval[b] ELSE load[b]]
           /\ reqs' = [reqs EXCEPT ![r] = [at |-> NextReading(rest, t), todo |-> rest]]
  /\ UNCHANGED <<now, sweep, sweeps>>

(* A rejected request takes nothing; what earlier demands took stays taken.*)
Reject(r) ==
  /\ Active(r)
  /\ \E t \in reqs[r].at : ~Admitted(Head(reqs[r].todo), t)
  /\ reqs' = [reqs EXCEPT ![r] = Idle]
  /\ UNCHANGED <<now, buckets, overflow, instance, sweep, sweeps, load>>

-----------------------------------------------------------------------------
(* The sweep, every SWEEP_EVERY. *)
BeginSweep ==
  /\ sweep = {} /\ sweeps < MaxSweeps
  /\ sweep' = {now}
  /\ UNCHANGED <<now, buckets, overflow, instance, reqs, sweeps, load>>

Sweep ==
  /\ \E t \in sweep : buckets' = Kept(buckets, t) /\ overflow' = Kept(overflow, t)
  /\ sweep' = {} /\ sweeps' = sweeps + 1
  /\ UNCHANGED <<now, instance, reqs, load>>

Tick ==
  /\ now < Horizon
  /\ \A r \in Slots : \A t \in reqs[r].at : now - t < MaxLag
  /\ \A t \in sweep : now - t < MaxLag
  /\ now' = now + 1
  /\ load' = [b \in Buckets |-> Later(load[b] - 1, 0)]
  /\ UNCHANGED <<buckets, overflow, instance, reqs, sweep, sweeps>>

Next ==
  \/ Tick \/ BeginSweep \/ Sweep
  \/ \E r \in Slots : Begin(r) \/ ReadClock(r) \/ Admit(r) \/ Reject(r)

Spec == Init /\ [][Next]_vars

-----------------------------------------------------------------------------
(* Properties *)

(* Type invariant. *)
TypeOK ==
  /\ now \in 0..Horizon
  /\ DOMAIN buckets \subseteq Keys /\ buckets \in [DOMAIN buckets -> Nat]
  /\ DOMAIN overflow \subseteq Overflows /\ overflow \in [DOMAIN overflow -> Nat]
  /\ instance \in Nat
  /\ reqs \in [Slots -> [at : SUBSET (0..now), todo : Seq(Demand)]]
  /\ sweep \subseteq 0..now /\ sweeps \in 0..MaxSweeps
  /\ load \in [Buckets -> Nat]

(* Memory stays bounded: however many networks ask at once, the map never  *)
(* holds more than MaxBuckets buckets (admit_with).                        *)
BucketsBounded == Cardinality(DOMAIN buckets) <= MaxBuckets

(* No bucket, shared, swept, recreated or raced, lets more through than    *)
(* its budget: what was taken from it needs at most a full refill, plus    *)
(* the staleness of one time reading and of one more for each sweep.       *)
WithinBudget ==
  \A b \in Buckets : load[b] <= Capacity[b] * Interval[b] + MaxLag * (1 + sweeps)

(* A bucket is full again at the latest one full refill from now, so it is *)
(* never held longer than that for a network that went away (take, sweep). *)
DebtBounded ==
  /\ \A k \in DOMAIN buckets : buckets[k] <= now + Capacity[k] * Interval[k]
  /\ \A o \in DOMAIN overflow : overflow[o] <= now + Capacity[o] * Interval[o]
  /\ instance <= now + Capacity[Instance] * Interval[Instance]
=============================================================================
