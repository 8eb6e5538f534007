-------------------------------- MODULE Work ---------------------------------
(***************************************************************************)
(* The blocking work of a server -- password hashes, database reads and    *)
(* writes -- and what bounds it: the hashing and public write permits and  *)
(* the database's one writer and few readers.  Work outlives the request   *)
(* that started it: a deadline, a client that leaves or the end of the     *)
(* shutdown's grace period drops the request, and only waiting with it.    *)
(***************************************************************************)
EXTENDS Integers, FiniteSets

CONSTANTS
  Jobs,     \* pieces of work that may exist at once
  Writes,   \* PUBLIC_WRITES
  Readers   \* READERS

ASSUME LimitsAssumption == Writes \in Nat \ {0} /\ Readers \in Nat \ {0}
ASSUME JobsAssumption == IsFiniteSet(Jobs)

VARIABLES
  job,   \* each piece of work, and whether a request waits for it
  free,  \* permits not taken, by semaphore
  pool   \* readers in the pool

vars == <<job, free, pool>>

NoJob == [kind |-> "none", at |-> "none", holds |-> "none", wanted |-> FALSE]

(* Permits::default and Db::new                                            *)
Semaphores == {"public_writes", "hashing", "hashing_reserved", "read_permits", "write_permits"}
Capacity ==
  [s \in Semaphores |-> CASE s = "public_writes" -> Writes [] s = "read_permits" -> Readers [] OTHER -> 1]

Init == job = [j \in Jobs |-> NoJob] /\ free = Capacity /\ pool = Readers

Step(j, s, h) ==
  job' = [job EXCEPT ![j] = [kind |-> job[j].kind, at |-> s, holds |-> h, wanted |-> job[j].wanted]]

Waits(j) == job[j].at \in {"waiting", "queued", "busy"}

(* The permit that j's work was given, if any, is free again.              *)
Returned(j) == [s \in Semaphores |-> IF job[j].holds = s THEN free[s] + 1 ELSE free[s]]

(* A login waits for a hashing permit and a page for a reader; a retention *)
(* step queues for the writer.                                             *)
Call(j) ==
  /\ job[j] = NoJob
  /\ \E kind \in {"known", "stranger", "page", "retention"} :
       job' = [job EXCEPT ![j] =
         [kind |-> kind, at |-> IF kind = "retention" THEN "queued" ELSE "waiting", holds |-> "none", wanted |-> TRUE]]
  /\ UNCHANGED <<free, pool>>

(* A reset link takes a public write permit and queues for the writer, or  *)
(* is refused at once.                                                     *)
PublicWrite(j) ==
  /\ job[j] = NoJob
  /\ LET ok == free["public_writes"] > 0
     IN  /\ job' = [job EXCEPT ![j] =
              [kind |-> "public", at |-> IF ok THEN "queued" ELSE "busy",
               holds |-> IF ok THEN "public_writes" ELSE "none", wanted |-> TRUE]]
         /\ free' = IF ok THEN [free EXCEPT !["public_writes"] = @ - 1] ELSE free
  /\ UNCHANGED pool

BugAbandon(j) ==
  /\ job[j].wanted
  /\ job' = [job EXCEPT ![j] = IF Waits(j) THEN NoJob ELSE [@ EXCEPT !.wanted = FALSE, !.holds = "none"]]
  /\ free' = Returned(j)
  /\ UNCHANGED pool

BugLeak(j) ==
  /\ job[j].wanted
  /\ job' = [job EXCEPT ![j] = IF Waits(j) THEN NoJob ELSE [@ EXCEPT !.wanted = FALSE]]
  /\ UNCHANGED <<free, pool>>

(* The request is dropped, or the 503 is sent: what waits is cancelled and *)
(* returns its permit, what runs keeps it.                                 *)
Abandon(j) ==
  /\ job[j].wanted
  /\ job' = [job EXCEPT ![j] = IF Waits(j) THEN NoJob ELSE [@ EXCEPT !.wanted = FALSE]]
  /\ free' = IF Waits(j) THEN Returned(j) ELSE free
  /\ UNCHANGED pool

(* The semaphores a request may take a permit of.                          *)
Permits(kind) ==
  CASE kind = "page"     -> {"read_permits"}
    [] kind = "known"    -> {"hashing", "hashing_reserved"}
    [] kind = "stranger" -> {"hashing"}
    [] OTHER             -> {}

(* Permits::hashing and Db::read: whichever waiter is next gets the permit *)
(* and its work starts; a known device prefers the reserved one.           *)
Grant(j) ==
  /\ job[j].at = "waiting"
  /\ \E s \in Permits(job[j].kind) :
       /\ free[s] > 0
       /\ s = "hashing" /\ job[j].kind = "known" => free["hashing_reserved"] = 0
       /\ Step(j, IF s = "read_permits" THEN "admitted" ELSE "hashing", s)
       /\ free' = [free EXCEPT ![s] = @ - 1]
  /\ UNCHANGED pool

(* HASHING_WAIT passed: a permit that is there is still taken.             *)
HashingTimeout(j) ==
  /\ job[j].at = "waiting" /\ job[j].kind # "page"
  /\ \A s \in Permits(job[j].kind) : free[s] = 0
  /\ Step(j, "busy", "none")
  /\ UNCHANGED <<free, pool>>

(* Db::write: the writer is free.                                          *)
StartWrite(j) ==
  /\ job[j].at = "queued" /\ free["write_permits"] > 0
  /\ Step(j, "writing", job[j].holds)
  /\ free' = [free EXCEPT !["write_permits"] = @ - 1]
  /\ UNCHANGED pool

Take(j) ==
  /\ job[j].at = "admitted"
  /\ pool' = pool - 1 /\ Step(j, "reading", job[j].holds)
  /\ UNCHANGED free

BugDropOrder == <<"permit", "reader">>

(* The locals of Db::read's closure are dropped in reverse: the reader     *)
(* goes back to the pool before its permit.                                *)
DropOrder == <<"reader", "permit">>

Drop(what) ==
  IF what = "reader" THEN pool' = pool + 1 /\ UNCHANGED free
                     ELSE free' = [free EXCEPT !["read_permits"] = @ + 1] /\ UNCHANGED pool

ReadDone(j) ==
  \/ /\ job[j].at = "reading" /\ Drop(DropOrder[1])
     /\ Step(j, "returned", job[j].holds)
  \/ /\ job[j].at = "returned" /\ Drop(DropOrder[2])
     /\ job' = [job EXCEPT ![j] = NoJob]

(* `work' returned, and its public write permit with it; the commit, or    *)
(* the rollback, is still to come.                                         *)
Worked(j) ==
  /\ job[j].at = "writing"
  /\ Step(j, "ending", "none") /\ free' = Returned(j)
  /\ UNCHANGED pool

(* A computed hash, or a transaction over -- or never begun, for BEGIN may *)
(* fail: the permits moved into the blocking closure go with it.           *)
Done(j) ==
  /\ job[j].at \in {"hashing", "writing", "ending"}
  /\ job' = [job EXCEPT ![j] = NoJob]
  /\ free' = IF job[j].at = "hashing" THEN Returned(j) ELSE [Returned(j) EXCEPT !["write_permits"] = @ + 1]
  /\ UNCHANGED pool

Next ==
  \E j \in Jobs :
    \/ Call(j) \/ PublicWrite(j) \/ Abandon(j) \/ Grant(j) \/ HashingTimeout(j)
    \/ StartWrite(j) \/ Take(j) \/ ReadDone(j) \/ Worked(j) \/ Done(j)

Spec == Init /\ [][Next]_vars

-----------------------------------------------------------------------------
(* Properties *)

Has(r, s) == IF s = "write_permits" THEN r.at \in {"writing", "ending"} ELSE r.holds = s
Holding(s) == {j \in Jobs : Has(job[j], s)}

(* No permit is lost or made, whoever drops a request and whenever: those  *)
(* free and those held by work are the semaphore's, so abandoned work      *)
(* never shrinks a bound for good nor runs outside it.                     *)
PermitsConserved ==
  \A s \in Semaphores : free[s] >= 0 /\ free[s] + Cardinality(Holding(s)) = Capacity[s]

(* "At most 2 argon2id computations SHALL run at once", and one at most    *)
(* for logins without a device cookie, which leaves the other to known     *)
(* devices -- counting those no request waits for any more                 *)
(* (Permits::hashing, check_credentials).                                  *)
HashingBounded ==
  LET hashing == {j \in Jobs : job[j].at = "hashing"}
  IN  /\ Cardinality(hashing) <= 2
      /\ Cardinality({j \in hashing : job[j].kind = "stranger"}) <= 1

(* "A read permit guarantees a free reader": Pooled::take never finds the  *)
(* pool empty, whatever order work ends and requests are dropped in.       *)
ReaderIsFree == \A j \in Jobs : job[j].at = "admitted" => pool > 0
=============================================================================
