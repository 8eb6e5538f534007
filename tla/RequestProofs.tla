--------------------------- MODULE RequestProofs ----------------------------
(***************************************************************************)
(* A request's two ways to be held up.  Work: the permits of every         *)
(* semaphore are conserved, so that hashing stays bounded and a read       *)
(* permit means a free reader, for any number of requests, readers and     *)
(* public writes, however requests are dropped.  Pipeline: what the layers *)
(* before a handler and the response after it guarantee, for every set of  *)
(* hosts, host maps, slugs, addresses and trusted proxies.                 *)
(***************************************************************************)
EXTENDS Work, Pipeline, FiniteSetTheorems, WellFoundedInduction, TLAPS

-----------------------------------------------------------------------------
(* Work: permits *)

(* What a piece of work may hold at each of its steps.                     *)
Holds(r) ==
  CASE r.at \in {"none", "waiting", "busy"}            -> r.holds = "none"
    [] r.at = "ending"                                 -> r.holds = "none"
    [] r.at \in {"queued", "writing"}                  -> r.holds \in {"none", "public_writes"}
    [] r.at = "hashing"                                -> /\ r.holds \in {"hashing", "hashing_reserved"}
                                                          /\ r.kind = "stranger" => r.holds = "hashing"
    [] r.at \in {"admitted", "reading", "returned"}    -> r.holds = "read_permits"

Jobrecs ==
  [kind : {"none", "known", "stranger", "page", "retention", "public"},
   at : {"none", "waiting", "queued", "busy", "hashing", "admitted", "reading", "returned", "writing", "ending"},
   holds : Semaphores \cup {"none"},
   wanted : BOOLEAN]

Typed ==
  /\ job \in [Jobs -> Jobrecs] /\ free \in [Semaphores -> Nat] /\ pool \in Int
  /\ \A j \in Jobs : Holds(job[j])

Reading == {j \in Jobs : job[j].at = "reading"}

Inv == Typed /\ PermitsConserved /\ pool + Cardinality(Reading) = Readers

(* What r takes of semaphore s and of the pool.                            *)
Takes(r, s) == IF Has(r, s) THEN 1 ELSE 0
Reads(r) == IF r.at = "reading" THEN 1 ELSE 0

(* Changing one member's property changes the number of those that have it *)
(* by one or not at all.                                                   *)
LEMMA CountChange ==
  ASSUME NEW S, NEW T, NEW j \in Jobs, S \subseteq Jobs, T \subseteq Jobs,
         \A i \in Jobs \ {j} : i \in S <=> i \in T
  PROVE  /\ Cardinality(S) \in Nat /\ Cardinality(T) \in Nat
         /\ Cardinality(T) = Cardinality(S) + (IF j \in T THEN 1 ELSE 0) - (IF j \in S THEN 1 ELSE 0)
<1>1. IsFiniteSet(S) /\ IsFiniteSet(T)
  BY JobsAssumption, FS_Subset
<1>2. Cardinality(S) \in Nat /\ Cardinality(T) \in Nat
  BY <1>1, FS_CardinalityType
<1>3. CASE j \in S <=> j \in T
  <2>1. S = T
    BY <1>3
  <2> QED BY <1>2, <2>1, <1>3
<1>4. CASE j \in T /\ j \notin S
  <2>1. T = S \cup {j}
    BY <1>4
  <2>2. Cardinality(T) = Cardinality(S) + 1
    BY <1>1, <1>4, <2>1, FS_AddElement
  <2> QED BY <1>2, <1>4, <2>2
<1>5. CASE j \in S /\ j \notin T
  <2>1. S = T \cup {j}
    BY <1>5
  <2>2. Cardinality(S) = Cardinality(T) + 1
    BY <1>1, <1>5, <2>1, FS_AddElement
  <2> QED BY <1>2, <1>5, <2>2
<1> QED BY <1>3, <1>4, <1>5

(* A step of one piece of work that takes and returns what it comes to     *)
(* hold and holds no more keeps the books balanced.                        *)
LEMMA BalancedStep ==
  ASSUME Inv, NEW j \in Jobs, NEW v \in Jobrecs, Holds(v),
         job' = [job EXCEPT ![j] = v],
         free' \in [Semaphores -> Int],
         \A s \in Semaphores : free'[s] >= 0 /\ free'[s] = free[s] + Takes(job[j], s) - Takes(v, s),
         pool' = pool + Reads(job[j]) - Reads(v)
  PROVE  Inv'
<1>1. /\ job \in [Jobs -> Jobrecs] /\ free \in [Semaphores -> Nat] /\ pool \in Int
      /\ \A i \in Jobs : Holds(job[i])
  BY DEF Inv, Typed
<1>2. job' \in [Jobs -> Jobrecs] /\ job'[j] = v /\ \A i \in Jobs \ {j} : job'[i] = job[i]
  BY <1>1
<1>3. \A s \in Semaphores : Takes(v, s) \in Int /\ Takes(job[j], s) \in Int
  BY DEF Takes
<1>4. free' \in [Semaphores -> Nat]
  BY <1>1, <1>3
<1>5. pool' \in Int
  BY <1>1 DEF Reads
<1>6. \A i \in Jobs : Holds(job'[i])
  BY <1>1, <1>2
<1>7. Typed'
  BY <1>2, <1>4, <1>5, <1>6 DEF Typed, Holds
<1>8. ASSUME NEW s \in Semaphores
      PROVE  free'[s] >= 0 /\ free'[s] + Cardinality(Holding(s)') = Capacity[s]
  <2>1. Holding(s) \subseteq Jobs /\ Holding(s)' \subseteq Jobs
    BY DEF Holding
  <2>2. \A i \in Jobs \ {j} : i \in Holding(s) <=> i \in Holding(s)'
    BY <1>2 DEF Holding, Has
  <2>3. (j \in Holding(s) <=> Has(job[j], s)) /\ (j \in Holding(s)' <=> Has(v, s))
    BY <1>2 DEF Holding, Has
  <2>4. /\ Cardinality(Holding(s)) \in Nat /\ Cardinality(Holding(s)') \in Nat
        /\ Cardinality(Holding(s)') = Cardinality(Holding(s)) + Takes(v, s) - Takes(job[j], s)
    BY <2>1, <2>2, <2>3, CountChange DEF Takes
  <2>5. free[s] + Cardinality(Holding(s)) = Capacity[s] /\ free[s] \in Nat
    BY <1>1 DEF Inv, PermitsConserved
  <2> QED BY <1>3, <2>4, <2>5
<1>9. PermitsConserved'
  BY <1>8 DEF PermitsConserved
<1>10. pool' + Cardinality(Reading') = Readers
  <2>1. Reading \subseteq Jobs /\ Reading' \subseteq Jobs
    BY DEF Reading
  <2>2. \A i \in Jobs \ {j} : i \in Reading <=> i \in Reading'
    BY <1>2 DEF Reading
  <2>3. (j \in Reading <=> job[j].at = "reading") /\ (j \in Reading' <=> v.at = "reading")
    BY <1>2 DEF Reading
  <2>4. /\ Cardinality(Reading) \in Nat /\ Cardinality(Reading') \in Nat
        /\ Cardinality(Reading') = Cardinality(Reading) + Reads(v) - Reads(job[j])
    BY <2>1, <2>2, <2>3, CountChange DEF Reads
  <2>5. Reads(v) \in Int /\ Reads(job[j]) \in Int
    BY DEF Reads
  <2> QED BY <1>1, <2>4, <2>5 DEF Inv
<1> QED BY <1>7, <1>9, <1>10 DEF Inv

-----------------------------------------------------------------------------
(* A start-up has every permit free and every reader in the pool.          *)
LEMMA InitInv == Init => Inv
<1> SUFFICES ASSUME Init PROVE Inv
  OBVIOUS
<1>1. Typed
  <2>1. NoJob \in Jobrecs /\ Holds(NoJob)
    BY DEF NoJob, Jobrecs, Holds, Semaphores
  <2>2. Capacity \in [Semaphores -> Nat]
    BY LimitsAssumption DEF Capacity, Semaphores
  <2> QED BY <2>1, <2>2, LimitsAssumption DEF Init, Typed
<1>2. Reading = {} /\ \A s \in Semaphores : Holding(s) = {}
  BY DEF Init, Reading, Holding, Has, NoJob, Semaphores
<1>3. Cardinality({}) = 0
  BY FS_EmptySet
<1>4. PermitsConserved
  BY <1>2, <1>3, LimitsAssumption DEF PermitsConserved, Init, Capacity, Semaphores
<1> QED BY <1>1, <1>2, <1>3, <1>4, LimitsAssumption DEF Inv, Init

(* The types of what a step reads.                                         *)
LEMMA Types ==
  ASSUME Inv, NEW j \in Jobs
  PROVE  /\ job[j] \in Jobrecs /\ Holds(job[j]) /\ pool \in Int
         /\ free \in [Semaphores -> Nat]
  BY DEF Inv, Typed

(* A new request takes nothing yet, or its public write permit.            *)
LEMMA CallInv ==
  ASSUME Inv, NEW j \in Jobs, Call(j)
  PROVE  Inv'
<1>1. PICK kind \in {"known", "stranger", "page", "retention"} :
        job' = [job EXCEPT ![j] =
          [kind |-> kind, at |-> IF kind = "retention" THEN "queued" ELSE "waiting", holds |-> "none", wanted |-> TRUE]]
  BY DEF Call
<1> DEFINE v == [kind |-> kind, at |-> IF kind = "retention" THEN "queued" ELSE "waiting", holds |-> "none", wanted |-> TRUE]
<1>2. v \in Jobrecs /\ Holds(v)
  BY DEF Jobrecs, Holds, Semaphores
<1>3. job[j].at = "none" /\ job[j].holds = "none"
  BY DEF Call, NoJob
<1>4. v.at \in {"queued", "waiting"} /\ v.holds = "none"
  OBVIOUS
<1>5. job' = [job EXCEPT ![j] = v]
  BY <1>1
<1> HIDE DEF v
<1>6. \A s \in Semaphores : Takes(job[j], s) = 0 /\ Takes(v, s) = 0
  BY <1>3, <1>4 DEF Takes, Has, Semaphores
<1>7. Reads(job[j]) = 0 /\ Reads(v) = 0
  BY <1>3, <1>4 DEF Reads
<1>8. free' = free /\ pool' = pool
  BY DEF Call
<1>9. free' \in [Semaphores -> Int]
  BY <1>8, Types
<1>10. \A s \in Semaphores : free'[s] >= 0 /\ free'[s] = free[s] + Takes(job[j], s) - Takes(v, s)
  BY <1>6, <1>8, Types
<1>11. pool' = pool + Reads(job[j]) - Reads(v)
  BY <1>7, <1>8, Types
<1> QED BY <1>2, <1>5, <1>9, <1>10, <1>11, BalancedStep

(* A public write starts only with its permit, or is refused.              *)
LEMMA PublicWriteInv ==
  ASSUME Inv, NEW j \in Jobs, PublicWrite(j)
  PROVE  Inv'
<1> DEFINE ok == free["public_writes"] > 0
           v == [kind |-> "public", at |-> IF ok THEN "queued" ELSE "busy",
                 holds |-> IF ok THEN "public_writes" ELSE "none", wanted |-> TRUE]
<1>1. /\ job' = [job EXCEPT ![j] = v]
      /\ free' = IF ok THEN [free EXCEPT !["public_writes"] = @ - 1] ELSE free
      /\ pool' = pool
  BY DEF PublicWrite
<1>2. v \in Jobrecs /\ Holds(v)
  BY DEF Jobrecs, Holds, Semaphores
<1>3. job[j].at = "none" /\ job[j].holds = "none"
  BY DEF PublicWrite, NoJob
<1>4. v.at \in {"queued", "busy"} /\ v.holds = IF ok THEN "public_writes" ELSE "none"
  OBVIOUS
<1> HIDE DEF v
<1>5. \A s \in Semaphores : Takes(job[j], s) = 0 /\ Takes(v, s) = IF ok /\ s = "public_writes" THEN 1 ELSE 0
  BY <1>3, <1>4 DEF Takes, Has, Semaphores
<1>6. Reads(job[j]) = 0 /\ Reads(v) = 0
  BY <1>3, <1>4 DEF Reads
<1>7. /\ free' \in [Semaphores -> Int]
      /\ \A s \in Semaphores : free'[s] >= 0 /\ free'[s] = free[s] + Takes(job[j], s) - Takes(v, s)
  BY <1>1, <1>5, Types DEF Semaphores
<1>8. pool' = pool + Reads(job[j]) - Reads(v)
  BY <1>1, <1>6, Types
<1>9. job' = [job EXCEPT ![j] = v]
  BY <1>1
<1> QED BY <1>2, <1>7, <1>8, <1>9, BalancedStep

(* What goes back with j's permit.                                         *)
LEMMA ReturnedPermit ==
  ASSUME Inv, NEW j \in Jobs
  PROVE  /\ Returned(j) \in [Semaphores -> Nat]
         /\ \A s \in Semaphores :
              Returned(j)[s] = free[s] + (IF job[j].holds = s THEN 1 ELSE 0)
  BY Types DEF Returned

(* No work holds the writer's permit in its holds field.                   *)
LEMMA WriterNotHeld ==
  ASSUME NEW r \in Jobrecs, Holds(r)
  PROVE  /\ r.holds # "write_permits"
         /\ r.at \in {"none", "waiting", "busy"} => r.holds = "none"
         /\ r.at = "hashing" => r.holds \in {"hashing", "hashing_reserved"}
         /\ r.at \in {"admitted", "reading", "returned"} => r.holds = "read_permits"
  BY DEF Jobrecs, Holds

(* Work that is over holds no permit and no reader.                        *)
LEMMA NoJobTakesNothing ==
  /\ NoJob \in Jobrecs /\ Holds(NoJob) /\ Reads(NoJob) = 0
  /\ \A s \in Semaphores : Takes(NoJob, s) = 0
  BY DEF NoJob, Jobrecs, Holds, Reads, Takes, Has, Semaphores

(* A dropped request returns what waited for it held, and no more.         *)
LEMMA AbandonInv ==
  ASSUME Inv, NEW j \in Jobs, Abandon(j)
  PROVE  Inv'
<1>1. CASE Waits(j)
  <2>1. job' = [job EXCEPT ![j] = NoJob] /\ free' = Returned(j) /\ pool' = pool
    BY <1>1 DEF Abandon
  <2>2. job[j].at \notin {"writing", "ending", "reading"}
    BY <1>1 DEF Waits
  <2>3. \A s \in Semaphores : Takes(job[j], s) = IF job[j].holds = s THEN 1 ELSE 0
    BY <2>2, Types, WriterNotHeld DEF Takes, Has
  <2>4. Reads(job[j]) = 0
    BY <2>2 DEF Reads
  <2>5. /\ free' \in [Semaphores -> Int]
        /\ \A s \in Semaphores : free'[s] >= 0 /\ free'[s] = free[s] + Takes(job[j], s) - Takes(NoJob, s)
    BY <2>1, <2>3, Types, ReturnedPermit, NoJobTakesNothing
  <2>6. pool' = pool + Reads(job[j]) - Reads(NoJob)
    BY <2>1, <2>4, Types, NoJobTakesNothing
  <2> QED BY <2>1, <2>5, <2>6, NoJobTakesNothing, BalancedStep
<1>2. CASE ~Waits(j)
  <2> DEFINE v == [job[j] EXCEPT !.wanted = FALSE]
  <2>1. job' = [job EXCEPT ![j] = v] /\ free' = free /\ pool' = pool
    BY <1>2 DEF Abandon
  <2>2. v \in Jobrecs /\ v.at = job[j].at /\ v.holds = job[j].holds /\ v.kind = job[j].kind
    BY Types DEF Jobrecs
  <2> HIDE DEF v
  <2>3. Holds(v) /\ Reads(v) = Reads(job[j]) /\ \A s \in Semaphores : Takes(v, s) = Takes(job[j], s)
    BY <2>2, Types DEF Holds, Reads, Takes, Has
  <2>4. Reads(v) \in Int /\ \A s \in Semaphores : Takes(v, s) \in Int
    BY DEF Reads, Takes
  <2>5. \A s \in Semaphores : free'[s] >= 0 /\ free'[s] = free[s] + Takes(job[j], s) - Takes(v, s)
    BY <2>1, <2>3, <2>4, Types
  <2>6. pool' = pool + Reads(job[j]) - Reads(v)
    BY <2>1, <2>3, <2>4, Types
  <2>7. free' \in [Semaphores -> Int]
    BY <2>1, Types
  <2> QED BY <2>1, <2>2, <2>3, <2>5, <2>6, <2>7, BalancedStep
<1> QED BY <1>1, <1>2

(* The record Step leaves.                                                 *)
LEMMA Moved ==
  ASSUME Inv, NEW j \in Jobs,
         NEW a \in {"busy", "hashing", "admitted", "reading", "returned", "writing", "ending"},
         NEW h \in Semaphores \cup {"none"}, Step(j, a, h)
  PROVE  \E v \in Jobrecs :
           job' = [job EXCEPT ![j] = v] /\ v.at = a /\ v.holds = h /\ v.kind = job[j].kind
<1> DEFINE v == [kind |-> job[j].kind, at |-> a, holds |-> h, wanted |-> job[j].wanted]
<1>1. v \in Jobrecs
  BY Types DEF Jobrecs
<1>2. v.at = a /\ v.holds = h /\ v.kind = job[j].kind
  OBVIOUS
<1>3. job' = [job EXCEPT ![j] = v]
  BY DEF Step
<1> QED BY <1>1, <1>2, <1>3

(* A waiter takes a permit of a semaphore it may use.                      *)
LEMMA GrantInv ==
  ASSUME Inv, NEW j \in Jobs, Grant(j)
  PROVE  Inv'
<1>1. PICK s \in Permits(job[j].kind) :
        /\ free[s] > 0
        /\ Step(j, IF s = "read_permits" THEN "admitted" ELSE "hashing", s)
        /\ free' = [free EXCEPT ![s] = @ - 1]
  BY DEF Grant
<1>2. /\ s \in {"read_permits", "hashing", "hashing_reserved"}
      /\ job[j].kind = "stranger" => s = "hashing"
  BY <1>1, Types DEF Permits, Jobrecs
<1> DEFINE a == IF s = "read_permits" THEN "admitted" ELSE "hashing"
<1>3. a \in {"hashing", "admitted"} /\ s \in Semaphores
  BY <1>2 DEF Semaphores
<1>4. PICK v \in Jobrecs :
        job' = [job EXCEPT ![j] = v] /\ v.at = a /\ v.holds = s /\ v.kind = job[j].kind
  BY <1>1, <1>3, Moved
<1>5. Holds(v)
  BY <1>2, <1>4 DEF Holds
<1>6. job[j].at = "waiting" /\ job[j].holds = "none" /\ pool' = pool
  BY Types, WriterNotHeld DEF Grant
<1>7. \A t \in Semaphores : Takes(job[j], t) = 0 /\ Takes(v, t) = IF t = s THEN 1 ELSE 0
  BY <1>2, <1>4, <1>6 DEF Takes, Has, Semaphores
<1>8. free' \in [Semaphores -> Int]
  BY <1>1, <1>3, Types
<1>9. \A t \in Semaphores : free'[t] >= 0 /\ free'[t] = free[t] + Takes(job[j], t) - Takes(v, t)
  BY <1>1, <1>3, <1>7, Types
<1>10. Reads(job[j]) = 0 /\ Reads(v) = 0
  BY <1>4, <1>6 DEF Reads
<1>11. pool' = pool + Reads(job[j]) - Reads(v)
  BY <1>6, <1>10, Types
<1> QED BY <1>4, <1>5, <1>8, <1>9, <1>11, BalancedStep

(* A request told to come back later holds nothing.                        *)
LEMMA HashingTimeoutInv ==
  ASSUME Inv, NEW j \in Jobs, HashingTimeout(j)
  PROVE  Inv'
<1>1. PICK v \in Jobrecs :
        job' = [job EXCEPT ![j] = v] /\ v.at = "busy" /\ v.holds = "none" /\ v.kind = job[j].kind
  BY Moved DEF HashingTimeout
<1>2. Holds(v)
  BY <1>1 DEF Holds
<1>3. job[j].at = "waiting" /\ job[j].holds = "none" /\ pool' = pool /\ free' = free
  BY Types, WriterNotHeld DEF HashingTimeout
<1>4. \A s \in Semaphores : Takes(job[j], s) = 0 /\ Takes(v, s) = 0
  BY <1>1, <1>3 DEF Takes, Has, Semaphores
<1>5. free' \in [Semaphores -> Int]
  BY <1>3, Types
<1>6. \A s \in Semaphores : free'[s] >= 0 /\ free'[s] = free[s] + Takes(job[j], s) - Takes(v, s)
  BY <1>3, <1>4, Types
<1>7. pool' = pool + Reads(job[j]) - Reads(v)
  BY <1>1, <1>3, Types DEF Reads
<1> QED BY <1>1, <1>2, <1>5, <1>6, <1>7, BalancedStep

(* The writer's permit is taken by the work that writes.                   *)
LEMMA StartWriteInv ==
  ASSUME Inv, NEW j \in Jobs, StartWrite(j)
  PROVE  Inv'
<1>1. job[j].at = "queued" /\ job[j].holds \in {"none", "public_writes"}
  BY Types DEF StartWrite, Holds
<1>2. job[j].holds \in Semaphores \cup {"none"}
  BY <1>1 DEF Semaphores
<1>3. PICK v \in Jobrecs :
        job' = [job EXCEPT ![j] = v] /\ v.at = "writing" /\ v.holds = job[j].holds /\ v.kind = job[j].kind
  BY <1>2, Moved DEF StartWrite
<1>4. Holds(v)
  BY <1>1, <1>3 DEF Holds
<1>5. \A s \in Semaphores : Takes(v, s) = Takes(job[j], s) + IF s = "write_permits" THEN 1 ELSE 0
  BY <1>1, <1>3 DEF Takes, Has
<1>6. \A s \in Semaphores : Takes(job[j], s) \in Int
  BY DEF Takes
<1>7. /\ free["write_permits"] > 0 /\ pool' = pool
      /\ free' = [free EXCEPT !["write_permits"] = @ - 1]
  BY DEF StartWrite
<1>8. free' \in [Semaphores -> Int]
  BY <1>7, Types DEF Semaphores
<1>9. \A s \in Semaphores : free'[s] >= 0 /\ free'[s] = free[s] + Takes(job[j], s) - Takes(v, s)
  BY <1>5, <1>6, <1>7, Types DEF Semaphores
<1>10. pool' = pool + Reads(job[j]) - Reads(v)
  BY <1>1, <1>3, <1>7, Types DEF Reads
<1> QED BY <1>3, <1>4, <1>8, <1>9, <1>10, BalancedStep

(* A reader leaves the pool with the work that holds its permit.           *)
LEMMA TakeInv ==
  ASSUME Inv, NEW j \in Jobs, Take(j)
  PROVE  Inv'
<1>1. job[j].at = "admitted" /\ job[j].holds = "read_permits"
  BY Types, WriterNotHeld DEF Take
<1>2. PICK v \in Jobrecs :
        job' = [job EXCEPT ![j] = v] /\ v.at = "reading" /\ v.holds = "read_permits" /\ v.kind = job[j].kind
  BY <1>1, Moved DEF Take, Semaphores
<1>3. Holds(v)
  BY <1>2 DEF Holds
<1>4. \A s \in Semaphores : Takes(v, s) = Takes(job[j], s) /\ Takes(v, s) \in Int
  BY <1>1, <1>2 DEF Takes, Has
<1>5. pool' = pool - 1 /\ free' = free
  BY DEF Take
<1>6. free' \in [Semaphores -> Int]
  BY <1>5, Types
<1>7. \A s \in Semaphores : free'[s] >= 0 /\ free'[s] = free[s] + Takes(job[j], s) - Takes(v, s)
  BY <1>4, <1>5, Types
<1>8. pool' = pool + Reads(job[j]) - Reads(v)
  BY <1>1, <1>2, <1>5, Types DEF Reads
<1> QED BY <1>2, <1>3, <1>6, <1>7, <1>8, BalancedStep

(* The reader goes back first, then its permit.                            *)
LEMMA ReadDoneInv ==
  ASSUME Inv, NEW j \in Jobs, ReadDone(j)
  PROVE  Inv'
<1>1. CASE job[j].at = "reading"
  <2>1. job[j].holds = "read_permits"
    BY <1>1, Types, WriterNotHeld
  <2>2. Step(j, "returned", "read_permits") /\ pool' = pool + 1 /\ free' = free
    BY <1>1, <2>1 DEF ReadDone, Drop, DropOrder
  <2>3. PICK v \in Jobrecs :
          job' = [job EXCEPT ![j] = v] /\ v.at = "returned" /\ v.holds = "read_permits" /\ v.kind = job[j].kind
    BY <2>2, Moved DEF Semaphores
  <2>4. Holds(v)
    BY <2>3 DEF Holds
  <2>5. \A s \in Semaphores : Takes(v, s) = Takes(job[j], s) /\ Takes(v, s) \in Int
    BY <1>1, <2>1, <2>3 DEF Takes, Has
  <2>6. free' \in [Semaphores -> Int]
    BY <2>2, Types
  <2>7. \A s \in Semaphores : free'[s] >= 0 /\ free'[s] = free[s] + Takes(job[j], s) - Takes(v, s)
    BY <2>2, <2>5, Types
  <2>8. pool' = pool + Reads(job[j]) - Reads(v)
    BY <1>1, <2>2, <2>3, Types DEF Reads
  <2> QED BY <2>3, <2>4, <2>6, <2>7, <2>8, BalancedStep
<1>2. CASE job[j].at = "returned"
  <2>1. job[j].holds = "read_permits"
    BY <1>2, Types, WriterNotHeld
  <2>2. /\ job' = [job EXCEPT ![j] = NoJob] /\ pool' = pool
        /\ free' = [free EXCEPT !["read_permits"] = @ + 1]
    BY <1>2 DEF ReadDone, Drop, DropOrder
  <2>3. \A s \in Semaphores : Takes(job[j], s) = IF s = "read_permits" THEN 1 ELSE 0
    BY <1>2, <2>1 DEF Takes, Has
  <2>4. free' \in [Semaphores -> Int]
    BY <2>2, Types DEF Semaphores
  <2>5. \A s \in Semaphores : free'[s] >= 0 /\ free'[s] = free[s] + Takes(job[j], s) - Takes(NoJob, s)
    BY <2>2, <2>3, Types, NoJobTakesNothing DEF Semaphores
  <2>6. Reads(job[j]) = 0
    BY <1>2 DEF Reads
  <2>7. pool' = pool + Reads(job[j]) - Reads(NoJob)
    BY <2>2, <2>6, Types, NoJobTakesNothing
  <2> QED BY <2>2, <2>4, <2>5, <2>7, NoJobTakesNothing, BalancedStep
<1> QED BY <1>1, <1>2 DEF ReadDone

(* A write's own work returns its public permit before the transaction is  *)
(* over.                                                                   *)
LEMMA WorkedInv ==
  ASSUME Inv, NEW j \in Jobs, Worked(j)
  PROVE  Inv'
<1>1. job[j].at = "writing" /\ free' = Returned(j) /\ pool' = pool
  BY DEF Worked
<1>2. PICK v \in Jobrecs :
        job' = [job EXCEPT ![j] = v] /\ v.at = "ending" /\ v.holds = "none" /\ v.kind = job[j].kind
  BY Moved DEF Worked
<1>3. Holds(v)
  BY <1>2 DEF Holds
<1>4. job[j].holds # "write_permits"
  BY Types, WriterNotHeld
<1>5. \A s \in Semaphores : Takes(job[j], s) = Takes(v, s) + IF job[j].holds = s THEN 1 ELSE 0
  BY <1>1, <1>2, <1>4 DEF Takes, Has, Semaphores
<1>6. free' \in [Semaphores -> Int]
  BY <1>1, ReturnedPermit
<1>7. \A s \in Semaphores : Takes(v, s) \in Int
  BY DEF Takes
<1>8. \A s \in Semaphores : free'[s] >= 0 /\ free'[s] = free[s] + Takes(job[j], s) - Takes(v, s)
  BY <1>1, <1>5, <1>7, Types, ReturnedPermit
<1>9. pool' = pool + Reads(job[j]) - Reads(v)
  BY <1>1, <1>2, Types DEF Reads
<1> QED BY <1>2, <1>3, <1>6, <1>8, <1>9, BalancedStep

(* Finished work returns what was moved into it.                           *)
LEMMA DoneInv ==
  ASSUME Inv, NEW j \in Jobs, Done(j)
  PROVE  Inv'
<1>1. /\ job[j].at \in {"hashing", "writing", "ending"} /\ pool' = pool
      /\ job' = [job EXCEPT ![j] = NoJob]
      /\ free' = IF job[j].at = "hashing" THEN Returned(j) ELSE [Returned(j) EXCEPT !["write_permits"] = @ + 1]
  BY DEF Done
<1>2. job[j].holds # "write_permits"
  BY Types, WriterNotHeld
<1>3. \A s \in Semaphores : Takes(job[j], s) =
        (IF job[j].holds = s THEN 1 ELSE 0) + (IF s = "write_permits" /\ job[j].at # "hashing" THEN 1 ELSE 0)
  BY <1>1, <1>2 DEF Takes, Has
<1>4. free' \in [Semaphores -> Int]
  BY <1>1, ReturnedPermit DEF Semaphores
<1>5. \A s \in Semaphores : free'[s] = Returned(j)[s] + IF s = "write_permits" /\ job[j].at # "hashing" THEN 1 ELSE 0
  BY <1>1, ReturnedPermit DEF Semaphores
<1>6. \A s \in Semaphores : free'[s] >= 0 /\ free'[s] = free[s] + Takes(job[j], s) - Takes(NoJob, s)
  BY <1>3, <1>5, Types, ReturnedPermit, NoJobTakesNothing
<1>7. Reads(job[j]) = 0
  BY <1>1 DEF Reads
<1>8. pool' = pool + Reads(job[j]) - Reads(NoJob)
  BY <1>1, <1>7, Types, NoJobTakesNothing
<1> QED BY <1>1, <1>4, <1>6, <1>8, NoJobTakesNothing, BalancedStep

(* Every step keeps the books balanced.                                    *)
LEMMA NextInv == Inv /\ [Next]_vars => Inv'
<1> SUFFICES ASSUME Inv, [Next]_vars PROVE Inv'
  OBVIOUS
<1>1. CASE Next
  <2>1. PICK j \in Jobs :
          \/ Call(j) \/ PublicWrite(j) \/ Abandon(j) \/ Grant(j) \/ HashingTimeout(j)
          \/ StartWrite(j) \/ Take(j) \/ ReadDone(j) \/ Worked(j) \/ Done(j)
    BY <1>1 DEF Next
  <2> QED
    BY <2>1, CallInv, PublicWriteInv, AbandonInv, GrantInv, HashingTimeoutInv, StartWriteInv,
       TakeInv, ReadDoneInv, WorkedInv, DoneInv
<1>2. CASE UNCHANGED vars
  BY <1>2 DEF vars, Inv, Typed, PermitsConserved, Holding, Has, Reading, Holds
<1> QED BY <1>1, <1>2

-----------------------------------------------------------------------------
(* Db::read, Db::write and Permits return what they take: the permits of   *)
(* every semaphore are conserved, for any number of requests.              *)
THEOREM PermitsNeverLost == Spec => []PermitsConserved
<1>1. Inv => PermitsConserved
  BY DEF Inv
<1> QED BY <1>1, InitInv, NextInv, PTL DEF Spec

(* Pooled::take never finds the pool empty: whoever holds a read permit    *)
(* and has not taken a reader is one more permit than there are readers    *)
(* out.                                                                    *)
THEOREM PermitMeansReader == Spec => []ReaderIsFree
<1>1. Inv => ReaderIsFree
  <2> SUFFICES ASSUME Inv, NEW j \in Jobs, job[j].at = "admitted" PROVE pool > 0
    BY DEF ReaderIsFree
  <2>1. \A i \in Jobs : i \in Reading \cup {j} => i \in Holding("read_permits")
    BY Types, WriterNotHeld DEF Reading, Holding, Has
  <2>2. /\ Reading \cup {j} \subseteq Holding("read_permits")
        /\ Holding("read_permits") \subseteq Jobs /\ Reading \subseteq Jobs /\ j \notin Reading
    BY <2>1 DEF Reading, Holding
  <2>3. IsFiniteSet(Holding("read_permits")) /\ IsFiniteSet(Reading)
    BY <2>2, JobsAssumption, FS_Subset
  <2>4. Cardinality(Reading \cup {j}) = Cardinality(Reading) + 1
    BY <2>2, <2>3, FS_AddElement
  <2>5. Cardinality(Reading \cup {j}) <= Cardinality(Holding("read_permits"))
    BY <2>2, <2>3, FS_Subset
  <2>6. Cardinality(Reading) \in Nat /\ Cardinality(Holding("read_permits")) \in Nat
    BY <2>3, FS_CardinalityType
  <2>7. free["read_permits"] >= 0 /\ free["read_permits"] + Cardinality(Holding("read_permits")) = Readers
    BY DEF Inv, PermitsConserved, Capacity, Semaphores
  <2>8. pool + Cardinality(Reading) = Readers /\ pool \in Int /\ free["read_permits"] \in Nat
    BY DEF Inv, Typed, Semaphores
  <2> QED BY <2>4, <2>5, <2>6, <2>7, <2>8, LimitsAssumption
<1> QED BY <1>1, InitInv, NextInv, PTL DEF Spec

(* Permits::hashing bounds the hashes that run, those no request waits for *)
(* included, and keeps one for known devices.                              *)
THEOREM HashingStaysBounded == Spec => []HashingBounded
<1>1. Inv => HashingBounded
  <2> SUFFICES ASSUME Inv PROVE HashingBounded
    OBVIOUS
  <2> DEFINE A == Holding("hashing")
             B == Holding("hashing_reserved")
             H == {j \in Jobs : job[j].at = "hashing"}
             S == {j \in H : job[j].kind = "stranger"}
  <2>1. \A j \in Jobs : job[j].at = "hashing" =>
          /\ job[j].holds \in {"hashing", "hashing_reserved"}
          /\ job[j].kind = "stranger" => job[j].holds = "hashing"
    BY Types DEF Holds
  <2>2. H \subseteq A \cup B /\ S \subseteq A /\ A \subseteq Jobs /\ B \subseteq Jobs
    BY <2>1 DEF Holding, Has
  <2>3. IsFiniteSet(A) /\ IsFiniteSet(B)
    BY <2>2, JobsAssumption, FS_Subset
  <2>4. /\ free["hashing"] \in Nat /\ free["hashing"] + Cardinality(A) = 1
        /\ free["hashing_reserved"] \in Nat /\ free["hashing_reserved"] + Cardinality(B) = 1
    BY DEF Inv, Typed, PermitsConserved, Capacity, Semaphores
  <2> HIDE DEF A, B, H, S
  <2>5. Cardinality(A) \in Nat /\ Cardinality(B) \in Nat
    BY <2>3, FS_CardinalityType
  <2>6. Cardinality(A) <= 1 /\ Cardinality(B) <= 1
    BY <2>4, <2>5
  <2>7. /\ IsFiniteSet(A \cup B) /\ IsFiniteSet(A \cap B)
        /\ Cardinality(A \cup B) = Cardinality(A) + Cardinality(B) - Cardinality(A \cap B)
    BY <2>3, FS_Union, FS_Intersection
  <2>8. Cardinality(A \cap B) \in Nat /\ Cardinality(A \cup B) \in Nat
    BY <2>7, FS_CardinalityType
  <2>9. /\ IsFiniteSet(H) /\ Cardinality(H) <= Cardinality(A \cup B)
        /\ IsFiniteSet(S) /\ Cardinality(S) <= Cardinality(A)
    BY <2>2, <2>3, <2>7, FS_Subset
  <2>10. Cardinality(H) \in Nat /\ Cardinality(S) \in Nat
    BY <2>9, FS_CardinalityType
  <2>11. Cardinality(H) <= 2 /\ Cardinality(S) <= 1
    BY <2>5, <2>6, <2>7, <2>8, <2>9, <2>10
  <2> QED BY <2>11 DEF HashingBounded, H, S
<1> QED BY <1>1, InitInv, NextInv, PTL DEF Spec

-----------------------------------------------------------------------------
(* Pipeline: the route table *)

Static == "/static/{name}"

LEMMA RatesOf ==
  /\ Range(<<>>) = {}
  /\ \A a : Range(<<a>>) = {a}
  /\ \A a, b : Range(<<a, b>>) = {a, b}
<1>1. Range(<<>>) = {}
  BY DEF Range
<1>2. ASSUME NEW a  PROVE Range(<<a>>) = {a}
  BY DEF Range
<1>3. ASSUME NEW a, NEW b  PROVE Range(<<a, b>>) = {a, b}
  <2>. DEFINE f == <<a, b>>
  <2>1. DOMAIN f = {1, 2} /\ f[1] = a /\ f[2] = b
    OBVIOUS
  <2>. HIDE DEF f
  <2>2. Range(f) = {a, b}
    BY <2>1 DEF Range
  <2>. QED  BY <2>2 DEF f
<1>. QED  BY <1>1, <1>2, <1>3

(* What the table declares: who a route admits, what may be kept of it and *)
(* which rate classes it draws from.                                       *)
Declares(r) ==
  /\ r.host \in {"internal", "main", "project", "both"}
  /\ r.host = "internal" <=> r.path \in {"/healthz", "/.well-known/kohaku/tls-ask"}
  /\ r.host = "both" <=> r.path = Static
  /\ IsAdminPath(r.path) => r.host = "main"
  /\ IsAdminPath(r.path) /\ r.path \notin OpenForms => r.access # "public"
  /\ r.path \in ProjectForms => r.access = "admin"
  /\ r.cache \in {"no-store", "no-cache", "static", "redirect"}
  /\ r.cache = "no-cache" => r.path = "/"
  /\ r.cache = "static" => r.path = Static
  /\ r.cache = "redirect" => r.host = "main"
  /\ r.path = Static => Range(r.rate) = {}
  /\ Range(r.rate) \subseteq {"read", "login", "reset"}
  /\ r.path # Static /\ r.host # "internal" /\ "GET" \in r.methods => "read" \in Range(r.rate)
  /\ r.path \in OpenForms => Range(r.rate) \in {{"read", "login"}, {"read", "reset"}}

(* The fields of a route, so that the proofs need not open records. *)
LEMMA RouteFields ==
  \A h, p, m, a, c, t :
    LET r == Route(h, p, m, a, c, t)
    IN  r.host = h /\ r.path = p /\ r.methods = m /\ r.access = a /\ r.cache = c /\ r.rate = t
BY DEF Route

AdminPaths ==
  {"/admin", "/admin/login", "/admin/logout", "/admin/account", "/admin/account/password",
   "/admin/account/totp", "/admin/account/totp/confirm", "/admin/account/totp/disable",
   "/admin/account/recovery-codes", "/admin/account/sessions/end-others", "/admin/reset",
   "/admin/reset/{token}", "/admin/projects", "/admin/p/{slug}/settings",
   "/admin/p/{slug}/delete", "/admin/{*rest}"}

LEMMA AdminPathsAre == \A p : IsAdminPath(p) => p \in AdminPaths
<1>1. \A p \in AdminPaths : \A m, a, t : AdminRoute(p, m, a, t).path \in AdminPaths
  BY RouteFields DEF AdminRoute
<1>2. \A r \in AccountRoutes : r.path \in AdminPaths
  <2>1. {"/admin", "/admin/login", "/admin/logout", "/admin/account", "/admin/account/password",
         "/admin/account/totp", "/admin/account/totp/confirm", "/admin/account/totp/disable"}
           \subseteq AdminPaths
    BY DEF AdminPaths
  <2>. QED  BY <1>1, <2>1 DEF AccountRoutes
<1>3. \A r \in MoreAdminRoutes : r.path \in AdminPaths
  <2>1. {"/admin/account/recovery-codes", "/admin/account/sessions/end-others", "/admin/reset",
         "/admin/reset/{token}", "/admin/projects", "/admin/p/{slug}/settings",
         "/admin/p/{slug}/delete", "/admin/{*rest}"} \subseteq AdminPaths
    BY DEF AdminPaths
  <2>. QED  BY <1>1, <2>1 DEF MoreAdminRoutes
<1>. QED  BY <1>2, <1>3 DEF IsAdminPath

LEMMA AdminDeclares ==
  ASSUME NEW p \in AdminPaths, NEW m, NEW a, NEW t, NEW rs, Range(t) = rs,
         rs \subseteq {"read", "login", "reset"}, "GET" \in m => "read" \in rs,
         p \in OpenForms => rs \in {{"read", "login"}, {"read", "reset"}},
         p \notin OpenForms => a # "public", p \in ProjectForms => a = "admin"
  PROVE  Declares(AdminRoute(p, m, a, t))
<1>. DEFINE r == AdminRoute(p, m, a, t)
<1>1. r.host = "main" /\ r.path = p /\ r.methods = m /\ r.access = a
      /\ r.cache = "no-store" /\ r.rate = t
  BY RouteFields DEF AdminRoute
<1>2. p # Static /\ p \notin {"/healthz", "/.well-known/kohaku/tls-ask"}
  BY DEF AdminPaths, Static
<1>. HIDE DEF r
<1>3. Declares(r)
  BY <1>1, <1>2 DEF Declares
<1>. QED  BY <1>3 DEF r

LEMMA OtherDeclares ==
  ASSUME NEW h \in {"internal", "main", "project", "both"}, NEW p, p \notin AdminPaths, NEW m, NEW c,
         NEW t, NEW rs, Range(t) = rs, rs \subseteq {"read"},
         h = "internal" <=> p \in {"/healthz", "/.well-known/kohaku/tls-ask"},
         h = "both" <=> p = Static, c \in {"no-store", "no-cache", "static", "redirect"},
         c = "no-cache" => p = "/", c = "static" => p = Static, c = "redirect" => h = "main",
         p = Static => rs = {}, h \in {"main", "project"} => rs = {"read"}
  PROVE  Declares(Route(h, p, m, "public", c, t))
<1>. DEFINE r == Route(h, p, m, "public", c, t)
<1>1. r.host = h /\ r.path = p /\ r.methods = m /\ r.access = "public"
      /\ r.cache = c /\ r.rate = t
  BY RouteFields
<1>2. p \notin OpenForms /\ p \notin ProjectForms /\ ~IsAdminPath(p)
  BY AdminPathsAre DEF AdminPaths, OpenForms, ProjectForms
<1>. HIDE DEF r
<1>3. Declares(r)
  BY <1>1, <1>2 DEF Declares
<1>. QED  BY <1>3 DEF r

LEMMA TableDeclares == \A r \in Table : Declares(r)
<1>1. \A r \in PublicRoutes : Declares(r)
  <2>. USE DEF AdminPaths, Static
  <2>1. /\ Declares(Route("internal", "/healthz", {"GET"}, "public", "no-store", <<>>))
        /\ Declares(Route("internal", "/.well-known/kohaku/tls-ask", {"GET"}, "public", "no-store", <<>>))
    BY RatesOf, OtherDeclares
  <2>2. Declares(Route("main", "/", {"GET"}, "public", "no-cache", <<"read">>))
    BY RatesOf, OtherDeclares
  <2>3. Declares(Route("both", "/static/{name}", {"GET"}, "public", "static", <<>>))
    BY RatesOf, OtherDeclares
  <2>4. /\ Declares(Route("main", "*", Methods, "public", "no-store", <<"read">>))
        /\ Declares(Route("project", "*", Methods, "public", "no-store", <<"read">>))
    BY RatesOf, OtherDeclares
  <2>. QED  BY <2>1, <2>2, <2>3, <2>4 DEF PublicRoutes
<1>2. \A p \in AdminPaths \ (OpenForms \cup ProjectForms) : 
        /\ Declares(AdminRoute(p, {"GET"}, "session", <<"read">>))
        /\ Declares(AdminRoute(p, Methods, "session", <<"read">>))
        /\ Declares(AdminRoute(p, {"POST"}, "session", <<>>))
        /\ Declares(AdminRoute(p, {"POST"}, "session", <<"login">>))
  BY RatesOf, AdminDeclares
<1>o. /\ Declares(AdminRoute("/admin/login", {"GET", "POST"}, "public", <<"read", "login">>))
      /\ Declares(AdminRoute("/admin/reset", {"GET", "POST"}, "public", <<"read", "reset">>))
      /\ Declares(AdminRoute("/admin/reset/{token}", {"GET", "POST"}, "public", <<"read", "login">>))
  <2>1. /\ OpenForms \subseteq AdminPaths /\ \A p \in OpenForms : p \notin ProjectForms
        /\ {"/admin/login", "/admin/reset", "/admin/reset/{token}"} = OpenForms
    BY DEF OpenForms, AdminPaths, ProjectForms
  <2>2. ASSUME NEW p \in OpenForms, NEW c \in {"login", "reset"}
        PROVE  Declares(AdminRoute(p, {"GET", "POST"}, "public", <<"read", c>>))
    <3>. DEFINE t == <<"read", c>>
    <3>1. Range(t) = {"read", c}
      BY RatesOf
    <3>. HIDE DEF t
    <3>2. Declares(AdminRoute(p, {"GET", "POST"}, "public", t))
      BY <2>1, <3>1, AdminDeclares
    <3>. QED  BY <3>2 DEF t
  <2>. QED  BY <2>1, <2>2
<1>p. /\ Declares(AdminRoute("/admin/projects", {"GET", "POST"}, "admin", <<"read">>))
      /\ Declares(AdminRoute("/admin/p/{slug}/settings", {"GET", "POST"}, "admin", <<"read">>))
      /\ Declares(AdminRoute("/admin/p/{slug}/delete", {"POST"}, "admin", <<>>))
  <2>1. /\ ProjectForms \subseteq AdminPaths /\ \A p \in ProjectForms : p \notin OpenForms
        /\ {"/admin/projects", "/admin/p/{slug}/settings", "/admin/p/{slug}/delete"} = ProjectForms
    BY DEF OpenForms, AdminPaths, ProjectForms
  <2>2. ASSUME NEW p \in ProjectForms
        PROVE  Declares(AdminRoute(p, {"GET", "POST"}, "admin", <<"read">>))
    <3>1. Range(<<"read">>) = {"read"}
      BY RatesOf
    <3>. QED  BY <2>1, <3>1, AdminDeclares
  <2>3. ASSUME NEW p \in ProjectForms
        PROVE  Declares(AdminRoute(p, {"POST"}, "admin", <<>>))
    <3>1. Range(<<>>) = {}
      BY RatesOf
    <3>. QED  BY <2>1, <3>1, AdminDeclares
  <2>. QED  BY <2>1, <2>2, <2>3
<1>3. \A r \in AccountRoutes : Declares(r)
  <2>1. {"/admin", "/admin/logout", "/admin/account", "/admin/account/password",
         "/admin/account/totp", "/admin/account/totp/confirm", "/admin/account/totp/disable"}
           \subseteq AdminPaths \ (OpenForms \cup ProjectForms)
    BY DEF AdminPaths, OpenForms, ProjectForms
  <2>. QED  BY <1>2, <1>o, <2>1 DEF AccountRoutes
<1>4. \A r \in MoreAdminRoutes : Declares(r)
  <2>1. {"/admin/account/recovery-codes", "/admin/account/sessions/end-others", "/admin/{*rest}"}
           \subseteq AdminPaths \ (OpenForms \cup ProjectForms)
    BY DEF AdminPaths, OpenForms, ProjectForms
  <2>. QED  BY <1>2, <1>o, <1>p, <2>1 DEF MoreAdminRoutes
<1>5. \A r \in ProjectRoutes : Declares(r)
  <2>1. \A p \in {"/p/{slug}", "/p/{slug}/api"} :
          p \notin AdminPaths /\ p # Static /\ p \notin {"/healthz", "/.well-known/kohaku/tls-ask"}
    BY DEF AdminPaths, Static
  <2>2. \A p \in {"/p/{slug}", "/p/{slug}/api"} :
          Declares(Route("main", p, Methods, "public", "redirect", <<"read">>))
    BY <2>1, RatesOf, OtherDeclares
  <2>. QED  BY <2>2 DEF ProjectRoutes
<1>. QED  BY <1>1, <1>3, <1>4, <1>5 DEF Table

-----------------------------------------------------------------------------
(* The route that serves a request *)

Serves(r, kind, path) == r \in Table /\ r.path = path /\ r.host \in {kind, "both"}

(* A router serves a path by a route of its own kind: the path's, or the   *)
(* fallback's when it has none.                                            *)
LEMMA RouteServes ==
  ASSUME NEW kind \in {"main", "project"}, NEW path
  PROVE  LET r == RouteOf(kind, path)
         IN  /\ r \in Table /\ r.host \in {kind, "both"}
             /\ r.path \in {path, "*"}
             /\ (\E q \in Table : Serves(q, kind, path)) => r.path = path
<1>. DEFINE serves(p) == {r \in Table : r.path = p /\ r.host \in {kind, "both"}}
            S == IF serves(path) = {} THEN serves("*") ELSE serves(path)
<1>1. serves("*") # {}
  <2>. DEFINE f == Route(kind, "*", Methods, "public", "no-store", <<"read">>)
  <2>1. f \in Table
    BY DEF Table, PublicRoutes
  <2>2. f.path = "*" /\ f.host = kind
    BY RouteFields
  <2>. QED  BY <2>1, <2>2
<1>2. S # {} /\ RouteOf(kind, path) = CHOOSE r \in S : TRUE
  BY <1>1 DEF RouteOf
<1>3. RouteOf(kind, path) \in S
  BY <1>2
<1>4. (\E q \in Table : Serves(q, kind, path)) => serves(path) # {}
  BY DEF Serves
<1>. QED  BY <1>3, <1>4

(* The internal router serves its own paths only. *)
LEMMA InternalServes ==
  ASSUME NEW path, Internal(path)
  PROVE  LET r == RouteOf("internal", path)
         IN  r \in Table /\ r.host \in {"internal", "both"} /\ r.path = path
<1>. DEFINE S == {r \in Table : r.path = path /\ r.host \in {"internal", "both"}}
<1>1. S # {}
  BY DEF Internal
<1>2. RouteOf("internal", path) = CHOOSE r \in S : TRUE
  BY <1>1 DEF RouteOf
<1>. QED  BY <1>1, <1>2

(* What the dispatcher and the layers rely on of the route they find. *)
LEMMA RouteDeclares ==
  ASSUME NEW entry \in Nat, NEW path, ~Internal(path)
  PROVE  LET r == RouteOf(Kind(entry), path)
         IN  /\ r \in Table /\ r.path \in {path, "*"}
             /\ r.cache = "redirect" => entry = 0
             /\ path = Static => Range(r.rate) = {}
             /\ path # Static /\ "GET" \in r.methods => Covering(r, "GET") = {"read"}
             /\ entry = 0 /\ IsAdminPath(path) /\ path \notin OpenForms => r.access # "public"
             /\ entry = 0 /\ path \in ProjectForms => r.access = "admin"
             /\ entry = 0 /\ path \in OpenForms => Covering(r, "POST") \in {{"login"}, {"reset"}}
<1>. DEFINE kind == Kind(entry)
            r == RouteOf(kind, path)
<1>1. kind \in {"main", "project"} /\ (entry = 0 <=> kind = "main")
  BY DEF Kind
<1>. HIDE DEF kind
<1>2. /\ r \in Table /\ r.host \in {kind, "both"} /\ r.path \in {path, "*"}
      /\ (\E q \in Table : Serves(q, kind, path)) => r.path = path
  BY <1>1, RouteServes
<1>. HIDE DEF r
<1>3. Declares(r)
  BY <1>2, TableDeclares
<1>4. path = Static => r.path = path
  <2>. DEFINE q == Route("both", "/static/{name}", {"GET"}, "public", "static", <<>>)
  <2>1. q \in Table
    BY Zenon DEF Table, PublicRoutes
  <2>2. q.path = Static /\ q.host = "both"
    BY DEF Route, Static
  <2>. HIDE DEF q
  <2>. QED  BY <1>2, <2>1, <2>2 DEF Serves
<1>5. kind = "main" /\ IsAdminPath(path) => r.path = path
  <2>1. IsAdminPath(path) => \E q \in Table : q.path = path
    BY DEF IsAdminPath, Table
  <2>2. \A q \in Table : q.path = path /\ IsAdminPath(path) => q.host = "main"
    BY TableDeclares DEF Declares
  <2>. QED  BY <1>2, <2>1, <2>2 DEF Serves
<1>6. path \in OpenForms \cup ProjectForms => IsAdminPath(path)
  <2>1. \A p, m, a, t : AdminRoute(p, m, a, t).path = p
    BY RouteFields DEF AdminRoute
  <2>2. /\ AdminRoute("/admin/login", {"GET", "POST"}, "public", <<"read", "login">>) \in AccountRoutes
        /\ AdminRoute("/admin/reset", {"GET", "POST"}, "public", <<"read", "reset">>) \in MoreAdminRoutes
        /\ AdminRoute("/admin/reset/{token}", {"GET", "POST"}, "public", <<"read", "login">>)
             \in MoreAdminRoutes
        /\ AdminRoute("/admin/projects", {"GET", "POST"}, "admin", <<"read">>) \in MoreAdminRoutes
        /\ AdminRoute("/admin/p/{slug}/settings", {"GET", "POST"}, "admin", <<"read">>)
             \in MoreAdminRoutes
        /\ AdminRoute("/admin/p/{slug}/delete", {"POST"}, "admin", <<>>) \in MoreAdminRoutes
    BY Zenon DEF AccountRoutes, MoreAdminRoutes
  <2>3. \A p, m, a, t : AdminRoute(p, m, a, t) \in AccountRoutes \cup MoreAdminRoutes => IsAdminPath(p)
    BY <2>1 DEF IsAdminPath
  <2>4. /\ IsAdminPath("/admin/login") /\ IsAdminPath("/admin/reset")
        /\ IsAdminPath("/admin/reset/{token}") /\ IsAdminPath("/admin/projects")
        /\ IsAdminPath("/admin/p/{slug}/settings") /\ IsAdminPath("/admin/p/{slug}/delete")
    BY <2>2, <2>3
  <2>. QED  BY <2>4 DEF OpenForms, ProjectForms
<1>7. r.cache = "redirect" => entry = 0
  BY <1>1, <1>2, <1>3 DEF Declares
<1>8. path = Static => Range(r.rate) = {}
  BY <1>3, <1>4 DEF Declares
<1>9. path # Static /\ "GET" \in r.methods => Covering(r, "GET") = {"read"}
  <2>1. path # Static => r.path # Static /\ r.host # "internal"
    BY <1>1, <1>2, <1>3 DEF Declares, Static
  <2>2. /\ Range(r.rate) \subseteq {"read", "login", "reset"}
        /\ path # Static /\ "GET" \in r.methods => "read" \in Range(r.rate)
    BY <1>3, <2>1 DEF Declares
  <2>. QED  BY <2>2 DEF Covering, AppliesTo, Safe
<1>10. entry = 0 /\ IsAdminPath(path) /\ path \notin OpenForms => r.access # "public"
  BY <1>1, <1>3, <1>5 DEF Declares
<1>11. entry = 0 /\ path \in ProjectForms => r.access = "admin"
  BY <1>1, <1>3, <1>5, <1>6 DEF Declares
<1>12. entry = 0 /\ path \in OpenForms => Covering(r, "POST") \in {{"login"}, {"reset"}}
  <2>1. entry = 0 /\ path \in OpenForms => Range(r.rate) \in {{"read", "login"}, {"read", "reset"}}
    BY <1>1, <1>3, <1>5, <1>6 DEF Declares
  <2>2. Range(r.rate) = {"read", "login"} => Covering(r, "POST") = {"login"}
    BY DEF Covering, AppliesTo, Safe
  <2>3. Range(r.rate) = {"read", "reset"} => Covering(r, "POST") = {"reset"}
    BY DEF Covering, AppliesTo, Safe
  <2>. QED  BY <2>1, <2>2, <2>3
<1>. QED  BY <1>2, <1>7, <1>8, <1>9, <1>10, <1>11, <1>12 DEF r, kind

-----------------------------------------------------------------------------
(* The request's way in and the response's way out *)

Inside == {"session", "csrf", "admitted", "handler"}
TurnedAway == {"unknown_host", "cross_site", "admin_isolation"}

(* What the layers a request has passed have established about it. *)
Passed ==
  /\ ~Internal(req.path) /\ routed \in Nat /\ (routed = 0 => req.host = MainHost)
  /\ ~Safe(req.method) => SameOrigin(req)
  /\ drawn = Covering(MyRoute, req.method)
  /\ at \in {"csrf", "admitted"} => user # NoUser
  /\ at = "handler" /\ MyRoute.access # "public" => user # NoUser
  /\ at = "handler" /\ MyRoute.access = "admin" => user = "admin"

InternalPassed == Internal(req.path) /\ routed = -1 /\ at = "handler" /\ drawn = {}

(* What holds of the tokens taken once the response is made. *)
Settled ==
  /\ resp.reason \in TurnedAway => drawn = {}
  /\ Internal(req.path) \/ req.path = Static => drawn = {}

RequestInv ==
  /\ map \in Maps
  /\ at \in {"idle", "answered"} \cup Inside
  /\ at # "answered" => resp = NoResponse
  /\ at \in Inside => Passed \/ InternalPassed
  /\ at = "answered" => Settled /\ KeptResponsesArePublic

(* A response of a route keeps to its cache class, and only the layers'    *)
(* own reasons count as turning the request away.                          *)
LEMMA AnswerKeeps ==
  ASSUME NEW route \in Table, route.path = req'.path \/ route.path = "*", NEW status, status # 308,
         NEW reason, Answer(route, status, reason)
  PROVE  /\ at' = "answered"
         /\ resp'.reason \in TurnedAway => reason \in TurnedAway
         /\ KeptResponsesArePublic'
<1>1. Declares(route)
  BY TableDeclares
<1>. DEFINE c == CacheControl(route.cache, status, req'.method, FALSE)
<1>2. /\ c \in {"no-store", "no-cache"}
      /\ c = "no-cache" => req'.path \in {"/", Static}
  BY <1>1 DEF CacheControl, Declares, Static
<1>3. at' = "answered" /\ resp' = [status |-> status, reason |-> Counted(status, reason),
                                   cache |-> IF c = "none" THEN "no-store" ELSE c, to |-> MainHost]
  BY DEF Answer, Respond
<1>. HIDE DEF c
<1>4. resp'.cache = c /\ resp'.reason = Counted(status, reason)
  BY <1>2, <1>3
<1>5. Counted(status, reason) \in TurnedAway => reason \in TurnedAway
  BY DEF Counted, TurnedAway
<1>6. KeptResponsesArePublic'
  BY <1>2, <1>4 DEF KeptResponsesArePublic, Static
<1>. QED  BY <1>3, <1>4, <1>5, <1>6

(* The same for a response made before any route is found. *)
LEMMA PlainKeeps ==
  ASSUME NEW status, NEW reason \in TurnedAway, Respond(status, reason, "none", MainHost)
  PROVE  at' = "answered" /\ KeptResponsesArePublic'
<1>1. at' = "answered" /\ resp'.cache = "no-store"
  BY DEF Respond
<1>. QED  BY <1>1 DEF KeptResponsesArePublic

(* A request the layers let in has passed them; one they answer is settled. *)
LEMMA LayersKeep ==
  ASSUME NEW r, req' = r, NEW entry \in Nat, routed' = entry, ~Internal(r.path),
         entry = 0 => r.host = MainHost, resp = NoResponse,
         Layers(r, entry, RouteOf(Kind(entry), r.path)), map' \in Maps
  PROVE  RequestInv'
<1>. DEFINE route == RouteOf(Kind(entry), r.path)
<1>1. /\ route \in Table /\ (route.path = r.path \/ route.path = "*")
      /\ r.path = Static => Range(route.rate) = {}
  BY RouteDeclares
<1>2. MyRoute' = route
  BY DEF MyRoute
<1>3. r.path = Static => Covering(route, r.method) = {}
  BY <1>1 DEF Covering
<1>4. /\ CrossSite(r, entry) => Answer(route, 403, "cross_site") /\ drawn' = {}
      /\ ~CrossSite(r, entry) =>
           \/ Answer(route, 429, "rate_limited") /\ drawn' = {}
           \/ /\ drawn' = Covering(route, r.method)
              /\ \/ Answer(route, 415, "multipart")
                 \/ Answer(route, 413, "none")
                 \/ /\ at' = (IF route.access = "public" THEN "handler" ELSE "session")
                    /\ resp' = resp
  BY DEF Layers, Multipart
<1>. HIDE DEF route
<1>5. ASSUME NEW status, status # 308, NEW reason, Answer(route, status, reason),
             drawn' = {} \/ (drawn' = Covering(route, r.method) /\ reason \notin TurnedAway)
      PROVE  RequestInv'
  <2>1. /\ at' = "answered" /\ KeptResponsesArePublic'
        /\ resp'.reason \in TurnedAway => reason \in TurnedAway
    BY <1>1, <1>5, AnswerKeeps
  <2>2. Settled'
    BY <1>3, <1>5, <2>1 DEF Settled
  <2>. QED  BY <2>1, <2>2 DEF RequestInv, Inside
<1>6. CASE CrossSite(r, entry)
  BY <1>4, <1>5, <1>6
<1>7. CASE ~CrossSite(r, entry)
  <2>1. CASE Answer(route, 429, "rate_limited") /\ drawn' = {}
    <3>1. drawn' = {} /\ \E reason : Answer(route, 429, reason)
      BY <2>1
    <3>. QED  BY <1>5, <3>1
  <2>2. CASE /\ drawn' = Covering(route, r.method)
             /\ Answer(route, 415, "multipart") \/ Answer(route, 413, "none")
    <3>1. /\ drawn' = Covering(route, r.method)
          /\ \E reason : /\ reason \notin TurnedAway
                         /\ Answer(route, 415, reason) \/ Answer(route, 413, reason)
      BY <2>2 DEF TurnedAway
    <3>. QED  BY <1>5, <3>1
  <2>3. CASE /\ drawn' = Covering(route, r.method)
             /\ at' = (IF route.access = "public" THEN "handler" ELSE "session")
             /\ resp' = resp
    <3>1. ~Safe(r.method) => SameOrigin(r)
      BY <1>7 DEF CrossSite, OriginAllowed, SameOrigin, ExpectedOrigin
    <3>2. at' \in {"handler", "session"} /\ (at' = "handler" => route.access = "public")
      BY <2>3
    <3>3. Passed'
      BY <1>2, <2>3, <3>1, <3>2 DEF Passed
    <3>. QED  BY <2>3, <3>2, <3>3 DEF RequestInv, Inside
  <2>. QED  BY <1>4, <1>7, <2>1, <2>2, <2>3
<1>. QED  BY <1>6, <1>7

LEMMA ArriveKeeps ==
  ASSUME RequestInv, NEW r \in Requests, Arrive(r)
  PROVE  RequestInv'
<1>1. at = "idle" /\ req' = r /\ map' = map /\ map \in Maps /\ resp = NoResponse
  BY DEF Arrive, RequestInv
<1>2. CASE /\ Internal(r.path) /\ routed' = -1 /\ drawn' = {}
           /\ \/ at' = "handler" /\ UNCHANGED resp
              \/ Answer(RouteOf("internal", r.path), 413, "none")
  <2>1. CASE at' = "handler" /\ UNCHANGED resp
    BY <1>1, <1>2, <2>1 DEF RequestInv, InternalPassed, Inside
  <2>2. CASE Answer(RouteOf("internal", r.path), 413, "none")
    <3>1. RouteOf("internal", r.path) \in Table /\ RouteOf("internal", r.path).path = r.path
      BY <1>2, InternalServes
    <3>2. \E reason : Answer(RouteOf("internal", r.path), 413, reason)
      BY <2>2
    <3>3. at' = "answered" /\ KeptResponsesArePublic'
      BY <1>1, <3>1, <3>2, AnswerKeeps
    <3>. QED  BY <1>1, <1>2, <3>3 DEF RequestInv, Settled, Inside
  <2>. QED  BY <1>2, <2>1, <2>2
<1>3. ASSUME NEW status, NEW reason \in TurnedAway, drawn' = {}, Respond(status, reason, "none", MainHost)
      PROVE  RequestInv'
  <2>1. at' = "answered" /\ KeptResponsesArePublic'
    BY <1>3, PlainKeeps
  <2>. QED  BY <1>1, <1>3, <2>1 DEF RequestInv, Settled, Inside
<1>4. CASE drawn' = {} /\ Respond(421, "unknown_host", "none", MainHost)
  <2>1. "unknown_host" \in TurnedAway
    BY DEF TurnedAway
  <2>. QED  BY <1>3, <1>4, <2>1
<1>5. CASE ~Internal(r.path) /\ r.host \in DOMAIN map.entries
  <2>. DEFINE entry == map.entries[r.host]
  <2>1. entry \in Nat /\ (entry = 0 => r.host = MainHost)
    BY <1>1, <1>5, HostsAssumption
  <2>2. /\ routed' = entry
        /\ \/ drawn' = {} /\ Respond(403, "admin_isolation", "none", MainHost)
           \/ Layers(r, entry, RouteOf(Kind(entry), r.path))
    BY <1>5 DEF Arrive, Dispatch
  <2>. HIDE DEF entry
  <2>3. "admin_isolation" \in TurnedAway
    BY DEF TurnedAway
  <2>. QED  BY <1>1, <1>3, <1>5, <2>1, <2>2, <2>3, LayersKeep
<1>. QED  BY <1>2, <1>4, <1>5 DEF Arrive, Dispatch

(* The route of a request inside is one of the table, its path's or the    *)
(* fallback's.                                                             *)
LEMMA MyRouteFound ==
  ASSUME RequestInv, at \in Inside
  PROVE  /\ MyRoute \in Table /\ (MyRoute.path = req.path \/ MyRoute.path = "*")
         /\ MyRoute.cache = "redirect" => routed = 0
         /\ MyRoute.cache = "static" => req.path = Static
         /\ Internal(req.path) \/ req.path = Static => drawn = {}
<1>1. CASE Passed
  <2>1. routed \in Nat /\ ~Internal(req.path) /\ drawn = Covering(MyRoute, req.method)
    BY <1>1 DEF Passed
  <2>2. MyRoute = RouteOf(Kind(routed), req.path)
    BY <2>1 DEF MyRoute
  <2>3. /\ MyRoute \in Table /\ (MyRoute.path = req.path \/ MyRoute.path = "*")
        /\ MyRoute.cache = "redirect" => routed = 0
        /\ req.path = Static => Range(MyRoute.rate) = {}
    BY <2>1, <2>2, RouteDeclares
  <2>4. MyRoute.cache = "static" => req.path = Static
    BY <2>3, TableDeclares DEF Declares, Static
  <2>5. req.path = Static => drawn = {}
    BY <2>1, <2>3 DEF Covering
  <2>. QED  BY <2>1, <2>3, <2>4, <2>5
<1>2. CASE InternalPassed
  <2>1. MyRoute = RouteOf("internal", req.path) /\ Internal(req.path) /\ drawn = {}
    BY <1>2 DEF MyRoute, InternalPassed
  <2>2. /\ MyRoute \in Table /\ MyRoute.path = req.path
        /\ MyRoute.host \in {"internal", "both"}
    BY <2>1, InternalServes
  <2>3. MyRoute.cache # "redirect" /\ (MyRoute.cache = "static" => req.path = Static)
    BY <2>2, TableDeclares DEF Declares
  <2>. QED  BY <2>1, <2>2, <2>3
<1>. QED  BY <1>1, <1>2 DEF RequestInv

(* Answering a request from inside settles it. *)
LEMMA InsideAnswer ==
  ASSUME RequestInv, at \in Inside, UNCHANGED <<map, req, routed, drawn>>,
         NEW status, status # 308, NEW reason, reason \notin TurnedAway,
         Answer(MyRoute, status, reason)
  PROVE  RequestInv'
<1>1. MyRoute \in Table /\ (MyRoute.path = req'.path \/ MyRoute.path = "*")
  BY MyRouteFound
<1>2. at' = "answered" /\ resp'.reason \notin TurnedAway /\ KeptResponsesArePublic'
  BY <1>1, AnswerKeeps
<1>3. Settled'
  BY <1>2, MyRouteFound DEF Settled
<1>. QED  BY <1>2, <1>3 DEF RequestInv, Inside

(* So does the next layer letting it on, when it adds what that layer      *)
(* establishes.                                                            *)
LEMMA LetOn ==
  ASSUME RequestInv, Passed, at \in Inside, UNCHANGED <<map, req, routed, drawn, resp>>,
         at' \in {"csrf", "admitted", "handler"},
         at' \in {"csrf", "admitted"} => user' # NoUser,
         at' = "handler" => /\ MyRoute.access # "public" => user' # NoUser
                            /\ MyRoute.access = "admin" => user' = "admin"
  PROVE  RequestInv'
<1>1. MyRoute' = MyRoute
  BY DEF MyRoute
<1>2. Passed'
  BY <1>1 DEF Passed
<1>3. at # "answered" /\ resp = NoResponse
  BY DEF RequestInv, Inside
<1>. QED  BY <1>2, <1>3 DEF RequestInv, Inside

LEMMA SessionKeeps ==
  ASSUME RequestInv, Session
  PROVE  RequestInv'
<1>1. at = "session" /\ at \in Inside /\ UNCHANGED <<map, req, routed, drawn>>
  BY DEF Session, Inside
<1>2. Passed
  BY <1>1 DEF RequestInv, InternalPassed
<1>3. \/ \E status : status # 308 /\ Answer(MyRoute, status, "none")
      \/ user' # NoUser /\ at' \in {"csrf", "admitted"} /\ UNCHANGED resp
  BY DEF Session
<1>4. "none" \notin TurnedAway
  BY DEF TurnedAway
<1>. QED  BY <1>1, <1>2, <1>3, <1>4, InsideAnswer, LetOn

LEMMA CsrfKeeps ==
  ASSUME RequestInv, Csrf
  PROVE  RequestInv'
<1>1. at = "csrf" /\ at \in Inside /\ UNCHANGED <<map, req, routed, drawn, user>>
  BY DEF Csrf, Inside
<1>2. Passed /\ user # NoUser
  BY <1>1 DEF RequestInv, InternalPassed, Passed
<1>3. \/ \E reason : reason \notin TurnedAway /\ Answer(MyRoute, 403, reason)
      \/ at' = "admitted" /\ UNCHANGED resp
  BY DEF Csrf, TurnedAway
<1>. QED  BY <1>1, <1>2, <1>3, InsideAnswer, LetOn

LEMMA AdmittedKeeps ==
  ASSUME RequestInv, Admitted
  PROVE  RequestInv'
<1>1. at = "admitted" /\ at \in Inside /\ UNCHANGED <<map, req, routed, drawn, user>>
  BY DEF Admitted, Inside
<1>2. Passed /\ user # NoUser
  BY <1>1 DEF RequestInv, InternalPassed, Passed
<1>3. \/ \E reason : reason \notin TurnedAway /\ Answer(MyRoute, 404, reason)
      \/ at' = "handler" /\ UNCHANGED resp /\ (MyRoute.access = "admin" => user = "admin")
  BY DEF Admitted, TurnedAway
<1>. QED  BY <1>1, <1>2, <1>3, InsideAnswer, LetOn

LEMMA DeadlineKeeps ==
  ASSUME RequestInv, Deadline
  PROVE  RequestInv'
<1>1. at \in Inside /\ UNCHANGED <<map, req, routed, drawn, user>>
  BY DEF Deadline, Inside
<1>2. \E reason : reason \notin TurnedAway /\ Answer(MyRoute, 408, reason)
  BY DEF Deadline, TurnedAway
<1>. QED  BY <1>1, <1>2, InsideAnswer

LEMMA RebuildKeeps ==
  ASSUME RequestInv, Rebuild
  PROVE  RequestInv'
<1>1. at \in Inside /\ UNCHANGED <<req, at, routed, drawn, user, resp>> /\ map' \in Maps
  BY DEF Rebuild, Inside
<1>2. MyRoute' = MyRoute
  BY <1>1 DEF MyRoute
<1>3. (Passed => Passed') /\ (InternalPassed => InternalPassed')
  BY <1>1, <1>2 DEF Passed, InternalPassed
<1>. QED  BY <1>1, <1>3 DEF RequestInv, Inside

(* A handler answers as its route, but for the redirect to a project's own *)
(* domain and an asset under its hashed name.                              *)
LEMMA HandlerAnswers ==
  ASSUME Handler
  PROVE  \/ \E status, reason :
              status # 308 /\ reason \notin TurnedAway /\ Answer(MyRoute, status, reason)
         \/ MyRoute.cache = "redirect" /\ Redirect
         \/ MyRoute.cache = "static" /\ Asset
<1>. DEFINE Codes == {200, 303, 400, 404, 405, 413, 415, 422, 429, 500, 503}
            plain == \E status \in Codes : \E reason :
                       reason \notin TurnedAway /\ Answer(MyRoute, status, reason)
<1>1. \/ Answer(MyRoute, 405, "none") \/ Answer(MyRoute, 404, "none") \/ Answer(MyRoute, 200, "none")
      \/ MyRoute.cache = "redirect" /\ Redirect
      \/ MyRoute.cache = "static" /\ Asset
      \/ TlsAsk \/ Page \/ Busy
  BY DEF Handler
<1>2. ASSUME NEW status \in Codes, Answer(MyRoute, status, "none")  PROVE plain
  <2>1. "none" \notin TurnedAway
    BY DEF TurnedAway
  <2>. HIDE DEF Codes
  <2>. QED  BY <1>2, <2>1
<1>3. Answer(MyRoute, 503, "busy") => plain
  BY DEF TurnedAway
<1>4. plain => \E status, reason :
                 status # 308 /\ reason \notin TurnedAway /\ Answer(MyRoute, status, reason)
  OBVIOUS
<1>. HIDE DEF plain
<1>5. Answer(MyRoute, 405, "none") \/ Answer(MyRoute, 404, "none") \/ Answer(MyRoute, 200, "none")
      \/ Answer(MyRoute, 413, "none") => plain
  BY <1>2
<1>6. TlsAsk => plain
  BY <1>5 DEF TlsAsk
<1>7. Page => plain
  BY <1>2 DEF Page
<1>8. Busy => plain
  BY <1>3, <1>5 DEF Busy
<1>. QED  BY <1>1, <1>4, <1>5, <1>6, <1>7, <1>8

(* The redirect may be kept: it goes to the domain the project has now. *)
LEMMA RedirectKeeps ==
  ASSUME RequestInv, at = "handler", UNCHANGED <<map, req, routed, drawn>>,
         MyRoute.cache = "redirect", Redirect
  PROVE  RequestInv'
<1>1. at \in Inside
  BY DEF Inside
<1>2. CASE req.path = "/p/{slug}" /\ Safe(req.method) /\ Mapped(req.arg)
  <2>1. Respond(308, "none", CacheControl("redirect", 308, req.method, FALSE), map.domains[req.arg])
    BY <1>2 DEF Redirect
  <2>2. /\ at' = "answered" /\ resp'.status = 308 /\ resp'.cache = "max-age=3600"
        /\ resp'.to = map.domains[req.arg] /\ resp'.reason \notin TurnedAway
    <3>. DEFINE c == CacheControl("redirect", 308, req.method, FALSE)
    <3>1. c = "max-age=3600"
      BY DEF CacheControl
    <3>2. Counted(308, "none") = "none"
      BY DEF Counted
    <3>. HIDE DEF c
    <3>3. /\ at' = "answered"
          /\ resp' = [status |-> 308, reason |-> "none", cache |-> c, to |-> map.domains[req.arg]]
      BY <2>1, <3>1, <3>2 DEF Respond, c
    <3>. QED  BY <3>1, <3>3 DEF TurnedAway
  <2>3. routed = 0
    BY <1>1, MyRouteFound
  <2>4. KeptResponsesArePublic'
    <3>1. Mapped(req.arg)'
      BY <1>2 DEF Mapped
    <3>2. resp'.cache \in {"none", "no-store", "no-cache", "immutable", "max-age=3600"}
      BY <2>2
    <3>3. resp'.cache # "immutable" /\ resp'.cache # "no-cache"
      BY <2>2
    <3>. QED  BY <2>2, <2>3, <3>1, <3>2, <3>3 DEF KeptResponsesArePublic
  <2>5. Settled'
    BY <1>1, <2>2, MyRouteFound DEF Settled
  <2>. QED  BY <2>2, <2>4, <2>5 DEF RequestInv, Inside
<1>3. CASE ~(req.path = "/p/{slug}" /\ Safe(req.method) /\ Mapped(req.arg))
  <2>1. \E reason : reason \notin TurnedAway /\ Answer(MyRoute, 404, reason)
    BY <1>3 DEF Redirect, TurnedAway
  <2>. QED  BY <1>1, <2>1, InsideAnswer
<1>. QED  BY <1>2, <1>3

(* So may an asset under its hashed name. *)
LEMMA AssetKeeps ==
  ASSUME RequestInv, at = "handler", UNCHANGED <<map, req, routed, drawn>>,
         MyRoute.cache = "static", Asset
  PROVE  RequestInv'
<1>1. at \in Inside /\ req.path = Static
  BY MyRouteFound DEF Inside
<1>2. CASE Respond(200, "none", CacheControl("static", 200, req.method, TRUE), MainHost)
  <2>. DEFINE c == CacheControl("static", 200, req.method, TRUE)
  <2>1. c \in {"immutable", "no-cache"}
    BY DEF CacheControl
  <2>. HIDE DEF c
  <2>2. /\ at' = "answered"
        /\ resp' = [status |-> 200, reason |-> "none", cache |-> c, to |-> MainHost]
    <3>1. Counted(200, "none") = "none"
      BY DEF Counted
    <3>. QED  BY <1>2, <2>1, <3>1 DEF Respond, c
  <2>3. resp'.status = 200 /\ resp'.cache = c /\ resp'.reason \notin TurnedAway
    BY <2>2 DEF TurnedAway
  <2>4. KeptResponsesArePublic'
    <3>1. resp'.cache \in {"none", "no-store", "no-cache", "immutable", "max-age=3600"}
      BY <2>1, <2>3
    <3>2. resp'.cache # "max-age=3600"
      BY <2>1, <2>3
    <3>3. req'.path = "/static/{name}"
      BY <1>1 DEF Static
    <3>4. req'.path \in {"/", "/static/{name}"}
      BY <3>3
    <3>. QED  BY <2>3, <3>1, <3>2, <3>3, <3>4 DEF KeptResponsesArePublic
  <2>5. Settled'
    BY <1>1, <2>3, MyRouteFound DEF Settled
  <2>. QED  BY <2>2, <2>4, <2>5 DEF RequestInv, Inside
<1>3. CASE Answer(MyRoute, 404, "none")
  <2>1. \E reason : reason \notin TurnedAway /\ Answer(MyRoute, 404, reason)
    BY <1>3 DEF TurnedAway
  <2>. QED  BY <1>1, <2>1, InsideAnswer
<1>. QED  BY <1>2, <1>3 DEF Asset

LEMMA HandlerKeeps ==
  ASSUME RequestInv, Handler
  PROVE  RequestInv'
<1>1. at = "handler" /\ at \in Inside /\ UNCHANGED <<map, req, routed, drawn>>
  BY DEF Handler, Inside
<1>. QED  BY <1>1, HandlerAnswers, InsideAnswer, RedirectKeeps, AssetKeeps

LEMMA RequestInvariance == RequestSpec => []RequestInv
<1>1. RequestInit => RequestInv
  BY DEF RequestInit, RequestInv, Inside
<1>2. RequestInv /\ [RequestNext]_requestVars => RequestInv'
  <2>. SUFFICES ASSUME RequestInv, [RequestNext]_requestVars  PROVE RequestInv'
    OBVIOUS
  <2>1. CASE UNCHANGED requestVars
    <3>1. UNCHANGED <<map, req, at, routed, drawn, user, resp>>
      BY <2>1 DEF requestVars
    <3>2. MyRoute' = MyRoute
      BY <3>1 DEF MyRoute
    <3>3. (Passed => Passed') /\ (InternalPassed => InternalPassed')
      BY <3>1, <3>2 DEF Passed, InternalPassed
    <3>4. Settled => Settled'
      BY <3>1 DEF Settled
    <3>5. KeptResponsesArePublic => KeptResponsesArePublic'
      <4>. DEFINE K(rsp, rq, rt, mapped, domains) ==
                    /\ rsp.cache \in {"none", "no-store", "no-cache", "immutable", "max-age=3600"}
                    /\ rsp.cache = "immutable" => rsp.status = 200 /\ rq.path = "/static/{name}"
                    /\ rsp.cache = "no-cache" => rq.path \in {"/", "/static/{name}"}
                    /\ rsp.cache = "max-age=3600" => rsp.status = 308 /\ rt = 0 /\ mapped
                                                      /\ rsp.to = domains[rq.arg]
      <4>1. KeptResponsesArePublic <=> K(resp, req, routed, Mapped(req.arg), map.domains)
        BY Zenon DEF KeptResponsesArePublic
      <4>2. KeptResponsesArePublic' <=> K(resp', req', routed', Mapped(req.arg)', map'.domains)
        BY Zenon DEF KeptResponsesArePublic
      <4>3. Mapped(req.arg)' = Mapped(req.arg)
        BY <3>1 DEF Mapped
      <4>. HIDE DEF K
      <4>. QED  BY <3>1, <4>1, <4>2, <4>3
    <3>. QED  BY <3>1, <3>3, <3>4, <3>5 DEF RequestInv
  <2>. QED  BY <2>1, ArriveKeeps, SessionKeeps, CsrfKeeps, AdmittedKeeps, HandlerKeeps,
               DeadlineKeeps, RebuildKeeps DEF RequestNext
<1>. QED  BY <1>1, <1>2, PTL DEF RequestSpec

(* A handler runs only for a request that may have its effect: on the main *)
(* host for admin paths, with the session and the rank its route declares, *)
(* and from a page of the same host when its method is not GET, whatever   *)
(* the table's routes, the host maps and the rebuilds while it waits       *)
(* (dispatch, origin_layer, session::layer, check_csrf, admin_layer).      *)
THEOREM OnlyEntitledHandled == RequestSpec => []HandlerIsEntitled
<1>1. RequestInv => HandlerIsEntitled
  <2>. SUFFICES ASSUME RequestInv, at = "handler"  PROVE HandlerIsEntitled
    BY DEF HandlerIsEntitled
  <2>1. CASE Passed
    <3>1. MyRoute = RouteOf(Kind(routed), req.path) /\ routed \in Nat /\ ~Internal(req.path)
      BY <2>1 DEF MyRoute, Passed
    <3>2. /\ routed = 0 /\ IsAdminPath(req.path) /\ req.path \notin OpenForms => MyRoute.access # "public"
          /\ routed = 0 /\ req.path \in ProjectForms => MyRoute.access = "admin"
      BY <3>1, RouteDeclares
    <3>. QED  BY <2>1, <3>2 DEF Passed, HandlerIsEntitled
  <2>2. CASE InternalPassed
    BY <2>2 DEF InternalPassed, HandlerIsEntitled
  <2>. QED  BY <2>1, <2>2 DEF RequestInv, Inside
<1>. QED  BY <1>1, RequestInvariance, PTL

(* Requests turned away for their host or origin take no rate token, and   *)
(* every one a handler serves has taken those its route declares, read for *)
(* a GET and the form's own class for a form open to strangers             *)
(* (rate_layer behind origin_layer).                                       *)
THEOREM TokensAreTaken == RequestSpec => []TokensTaken
<1>1. RequestInv => TokensTaken
  <2>. SUFFICES ASSUME RequestInv, at # "idle"  PROVE TokensTaken
    BY DEF TokensTaken
  <2>1. CASE at = "answered"
    BY <2>1 DEF RequestInv, Settled, TokensTaken, TurnedAway, Static
  <2>2. CASE at \in Inside
    <3>1. resp.reason \notin TurnedAway
      <4>1. resp.reason = "none"
        BY <2>2 DEF RequestInv, NoResponse, Inside
      <4>. QED  BY <4>1 DEF TurnedAway
    <3>2. Internal(req.path) \/ req.path = Static => drawn = {}
      BY <2>2, MyRouteFound
    <3>3. CASE Passed
      <4>1. /\ MyRoute = RouteOf(Kind(routed), req.path) /\ routed \in Nat /\ ~Internal(req.path)
            /\ drawn = Covering(MyRoute, req.method)
        BY <3>3 DEF MyRoute, Passed
      <4>2. /\ req.path # Static /\ "GET" \in MyRoute.methods => Covering(MyRoute, "GET") = {"read"}
            /\ routed = 0 /\ req.path \in OpenForms => Covering(MyRoute, "POST") \in {{"login"}, {"reset"}}
        BY <4>1, RouteDeclares
      <4>. QED  BY <3>1, <3>2, <4>1, <4>2 DEF TokensTaken, TurnedAway, Static, Safe
    <3>4. CASE InternalPassed
      <4>1. routed = -1 /\ routed # 0
        BY <3>4 DEF InternalPassed
      <4>. QED  BY <3>1, <3>2, <4>1 DEF TokensTaken, TurnedAway, Static
    <3>. QED  BY <2>2, <3>3, <3>4 DEF RequestInv
  <2>. QED  BY <2>1, <2>2 DEF RequestInv
<1>. QED  BY <1>1, RequestInvariance, PTL

(* Whatever a browser or a cache may keep is the landing page, an asset or *)
(* a redirect to the domain the project has when it is sent (cache_layer,  *)
(* canonical).                                                             *)
THEOREM OnlyPublicKept == RequestSpec => []KeptResponsesArePublic
<1>1. RequestInv => KeptResponsesArePublic
  <2>1. ASSUME resp.cache = "none"  PROVE KeptResponsesArePublic
    BY <2>1 DEF KeptResponsesArePublic
  <2>2. NoResponse.cache = "none"
    BY DEF NoResponse
  <2>. QED  BY <2>1, <2>2 DEF RequestInv
<1>. QED  BY <1>1, RequestInvariance, PTL

-----------------------------------------------------------------------------
(* The client address *)

(* A set of naturals has a least member (the well-foundedness of <). *)
LEMMA LeastNatural == \A T \in SUBSET Nat : T # {} => \E x \in T : \A y \in T : x <= y
<1>. SUFFICES ASSUME NEW T \in SUBSET Nat, T # {}  PROVE \E x \in T : \A y \in T : x <= y
  OBVIOUS
<1>. DEFINE R == OpToRel(<, Nat)
<1>1. IsWellFoundedOn(R, Nat)
  BY NatLessThanWellFounded
<1>2. \A x, y \in Nat : x < y => <<x, y>> \in R
  BY DEF OpToRel
<1>. HIDE DEF R
<1>3. PICK x \in T : \A y \in T : ~ (<<y, x>> \in R)
  BY <1>1, WFMin
<1>4. ASSUME NEW y \in T  PROVE x <= y
  <2>1. x \in Nat /\ y \in Nat
    OBVIOUS
  <2>2. ~(y < x)
    BY <1>2, <1>3, <2>1
  <2>. QED  BY <2>1, <2>2
<1>. QED  BY <1>4

LEMMA Greatest ==
  ASSUME NEW S, NEW n \in Nat, S \subseteq 1..n, S # {}
  PROVE  \E x \in S : \A y \in S : y <= x
<1>. DEFINE T == {n - i : i \in S}
<1>0. \A i \in S : i \in 1..n /\ n - i \in Nat
  OBVIOUS
<1>1. T \in SUBSET Nat /\ T # {}
  BY <1>0
<1>2. PICK x \in T : \A y \in T : x <= y
  BY <1>1, LeastNatural
<1>3. PICK i \in S : x = n - i
  OBVIOUS
<1>4. \A j \in S : j <= i
  BY <1>0, <1>2, <1>3
<1>. QED  BY <1>4

Untrusted(list) == {i \in DOMAIN list : list[i] \notin Trusted}

(* What resolve returns of a well-formed list with an entry outside the    *)
(* trusted proxies: the last such entry.                                   *)
LEMMA ResolveIsLast ==
  ASSUME NEW peer \in Trusted, NEW list \in Seq(Addresses),
         NEW m \in Untrusted(list), \A i \in Untrusted(list) : i <= m
  PROVE  Resolve(peer, list, Trusted) = list[m]
<1>1. list # <<>> /\ Untrusted(list) # {} /\ DOMAIN list = 1..Len(list) /\ Len(list) \in Nat
  BY DEF Untrusted
<1>2. Malformed \notin Range(list)
  BY AddressAssumption DEF Range
<1>3. Untrusted(list) \subseteq Nat
  BY <1>1 DEF Untrusted
<1>. DEFINE c == CHOOSE i \in Untrusted(list) : \A j \in Untrusted(list) : j <= i
<1>4. c \in Untrusted(list) /\ \A j \in Untrusted(list) : j <= c
  OBVIOUS
<1>5. Resolve(peer, list, Trusted) = list[c]
  BY <1>1, <1>2 DEF Resolve, Untrusted
<1>. HIDE DEF c
<1>6. c = m
  BY <1>3, <1>4
<1>. QED  BY <1>5, <1>6

LEMMA ForgedIgnored ==
  ASSUME NEW peer \in Addresses, NEW own \in Seq(Addresses), NEW forged \in Seq(Addresses),
         \E i \in DOMAIN own : own[i] \notin Trusted
  PROVE  Resolve(peer, forged \o own, Trusted) = Resolve(peer, own, Trusted)
<1>1. CASE peer \notin Trusted
  BY <1>1 DEF Resolve
<1>2. CASE peer \in Trusted
  <2>1. Untrusted(own) # {} /\ Untrusted(own) \subseteq 1..Len(own) /\ Len(own) \in Nat
    BY DEF Untrusted
  <2>2. PICK m \in Untrusted(own) : \A i \in Untrusted(own) : i <= m
    BY <2>1, Greatest
  <2>3. Resolve(peer, own, Trusted) = own[m]
    BY <1>2, <2>2, ResolveIsLast
  <2>. DEFINE all == forged \o own
              n   == Len(forged)
  <2>4. /\ all \in Seq(Addresses) /\ n \in Nat
        /\ DOMAIN all = 1..(n + Len(own)) /\ DOMAIN own = 1..Len(own)
        /\ \A i \in 1..Len(own) : all[n + i] = own[i]
    BY <2>1
  <2>. HIDE DEF all, n
  <2>5. m \in 1..Len(own) /\ own[m] \notin Trusted
    BY <2>1 DEF Untrusted
  <2>6. n + m \in Untrusted(all) /\ all[n + m] = own[m]
    BY <2>1, <2>4, <2>5 DEF Untrusted
  <2>7. ASSUME NEW i \in Untrusted(all)  PROVE i <= n + m
    <3>1. i \in 1..(n + Len(own)) /\ all[i] \notin Trusted
      BY <2>4 DEF Untrusted
    <3>2. CASE i > n
      <4>1. i - n \in 1..Len(own) /\ n + (i - n) = i
        BY <2>1, <2>4, <3>1, <3>2
      <4>2. own[i - n] = all[i]
        BY <2>4, <4>1
      <4>3. i - n \in Untrusted(own)
        BY <2>4, <3>1, <4>1, <4>2 DEF Untrusted
      <4>. QED  BY <2>2, <2>4, <2>5, <3>1, <4>3
    <3>. QED  BY <2>1, <2>4, <2>5, <3>1, <3>2
  <2>8. Resolve(peer, all, Trusted) = all[n + m]
    BY <1>2, <2>4, <2>6, <2>7, ResolveIsLast
  <2>. QED  BY <2>3, <2>6, <2>8 DEF all
<1>. QED  BY <1>1, <1>2

(* Entries a client puts before its own in X-Forwarded-For never change    *)
(* the address it is limited by, in lists of any length (resolve).         *)
THEOREM ForgedNeverCount == RequestSpec => []ForgedEntriesIgnored
<1>1. Lists \subseteq Seq(Addresses)
  BY AddressAssumption DEF Lists
<1>2. ForgedEntriesIgnored
  BY <1>1, ForgedIgnored DEF ForgedEntriesIgnored
<1>. QED  BY <1>2, PTL
=============================================================================
