---------------------------- MODULE DataDirProofs ----------------------------
(***************************************************************************)
(* Proofs about the data directory, for any processes, releases, secrets   *)
(* and restored files: what a server serves, what stays committed, and     *)
(* the copy an upgrade leaves behind.                                      *)
(***************************************************************************)
EXTENDS DataDir, FiniteSetTheorems, TLAPS

ServeSteps == {"opened", "copying", "copied", "renamed", "migrate", "listening"}
Prepared == {"copying", "copied", "renamed", "migrate", "listening"}
RestoreSteps == {"checked", "no_wal", "no_shm", "replaced"}
Locked == {"locked"} \cup ServeSteps \cup RestoreSteps

ProcRecs == [cmd : {"none", "serve", "restore", "backup"},
             at : {"idle", "failed", "started", "snapshot"} \cup Locked,
             binary : Nat, secret : Secrets \cup {NoKey}, tmp : Databases \cup {Nothing}]

View(m, w) == IF w = Nothing THEN m ELSE w

(* Only the first migration writes a database without a keycheck.          *)
Keyed(c) == c # Nothing /\ c.version = 0 => c.key = NoKey

(* A database that release b with secret k has accepted.                   *)
Fits(c, b, k) == c.version <= b /\ c.key \in {k, NoKey} /\ (c.version > 0 => c.key = k)

FilesOK(m, w) ==
  /\ m \in Databases \cup {Nothing} /\ w \in Databases \cup {Nothing}
  /\ m = Nothing => w = Nothing
  /\ Keyed(m) /\ Keyed(w)

(* What the step of process q says of the files m, w and the lock's owner. *)
ProcOK(r, q, m, w, owner) ==
  /\ owner = q <=> r.at \in Locked
  /\ r.at \in ServeSteps => r.cmd = "serve" /\ m # Nothing
  /\ r.at \in {"started", "locked"} \cup ServeSteps => r.binary > 0 /\ r.secret # NoKey
  /\ r.at = "copied" => r.tmp # Nothing
  /\ r.at \in {"checked", "no_wal", "no_shm"} => r.tmp # Nothing /\ r.tmp.version > 0
  /\ r.at \in {"no_wal", "no_shm"} => w = Nothing
  /\ r.at \in Prepared => Fits(View(m, w), r.binary, r.secret)
  /\ r.at = "listening" => View(m, w).version = r.binary

FilesInv ==
  /\ FilesOK(main, wal) /\ lock \in Procs \cup {Nobody}
  /\ copies \subseteq [time : Nat, of : Databases]
  /\ clock \in Nat /\ writes \in Nat

ProcsInv ==
  /\ proc \in [Procs -> ProcRecs]
  /\ \A q \in Procs : ProcOK(proc[q], q, main, wal, lock)

Inv == FilesInv /\ ProcsInv

(* What one step may do to the contents of the database.                   *)
Survives ==
  \/ Live' = Live /\ UNCHANGED history
  \/ Live' = kept'
  \/ cut'

USE DEF times, history

-----------------------------------------------------------------------------
(* Files and processes *)

(* What a connection reads is a database once kohaku.db exists.            *)
LEMMA LiveIsDatabase ==
  ASSUME FilesInv, main # Nothing
  PROVE  Live \in Databases /\ Live # Nothing /\ Keyed(Live) /\ Live = View(main, wal)
BY FilesAssumption DEF FilesInv, FilesOK, Live, View

(* A commit is read by the next connection (Commit).                       *)
LEMMA Committed ==
  ASSUME FilesInv, main # Nothing, NEW c \in Databases, Keyed(c), Commit(c)
  PROVE  FilesOK(main', wal') /\ View(main', wal') = c /\ Live' = c /\ kept' = c /\ main' # Nothing
<1>1. c # Nothing
  BY FilesAssumption
<1> QED BY <1>1 DEF FilesInv, FilesOK, Commit, View, Live

(* Closing a connection changes no contents (Closed).                      *)
LEMMA ClosingKeeps ==
  ASSUME FilesInv, main # Nothing, NEW p, Closed(p)
  PROVE  /\ FilesOK(main', wal') /\ Live' = Live /\ View(main', wal') = Live /\ main' # Nothing
         /\ wal = Nothing => wal' = Nothing
BY LiveIsDatabase DEF FilesInv, FilesOK, Closed, View, Live, Keyed

(* A process record is one of the typed ones (Process).                    *)
LEMMA ProcessType ==
  ASSUME NEW c \in {"none", "serve", "restore", "backup"},
         NEW s \in {"idle", "failed", "started", "snapshot"} \cup Locked,
         NEW b \in Nat, NEW k \in Secrets \cup {NoKey}, NEW t \in Databases \cup {Nothing}
  PROVE  /\ Process(c, s, b, k, t) \in ProcRecs
         /\ Process(c, s, b, k, t).cmd = c /\ Process(c, s, b, k, t).at = s
         /\ Process(c, s, b, k, t).binary = b /\ Process(c, s, b, k, t).secret = k
         /\ Process(c, s, b, k, t).tmp = t
BY DEF Process, ProcRecs

(* Moving on changes a process's step and nothing else (Goto).             *)
LEMMA GotoKeeps ==
  ASSUME proc \in [Procs -> ProcRecs], NEW p \in Procs,
         NEW s \in {"idle", "failed", "started", "snapshot"} \cup Locked, Goto(p, s)
  PROVE  /\ proc' \in [Procs -> ProcRecs] /\ \A q \in Procs \ {p} : proc'[q] = proc[q]
         /\ proc'[p].at = s /\ proc'[p].cmd = proc[p].cmd /\ proc'[p].binary = proc[p].binary
         /\ proc'[p].secret = proc[p].secret /\ proc'[p].tmp = proc[p].tmp
BY DEF Goto, ProcRecs

(* Moving on with a temporary file (GotoTmp).                              *)
LEMMA GotoTmpKeeps ==
  ASSUME proc \in [Procs -> ProcRecs], NEW p \in Procs,
         NEW s \in {"idle", "failed", "started", "snapshot"} \cup Locked,
         NEW c \in Databases \cup {Nothing}, GotoTmp(p, s, c)
  PROVE  /\ proc' \in [Procs -> ProcRecs] /\ \A q \in Procs \ {p} : proc'[q] = proc[q]
         /\ proc'[p].at = s /\ proc'[p].cmd = proc[p].cmd /\ proc'[p].binary = proc[p].binary
         /\ proc'[p].secret = proc[p].secret /\ proc'[p].tmp = c
<1>1. /\ proc[p] \in ProcRecs /\ proc[p].cmd \in {"none", "serve", "restore", "backup"}
      /\ proc[p].binary \in Nat /\ proc[p].secret \in Secrets \cup {NoKey}
  BY DEF ProcRecs
<1> DEFINE r == Process(proc[p].cmd, s, proc[p].binary, proc[p].secret, c)
<1>2. /\ r \in ProcRecs /\ r.at = s /\ r.cmd = proc[p].cmd /\ r.binary = proc[p].binary
      /\ r.secret = proc[p].secret /\ r.tmp = c
  BY <1>1, ProcessType
<1>3. proc' = [proc EXCEPT ![p] = r]
  BY DEF GotoTmp
<1> HIDE DEF r
<1> QED BY <1>2, <1>3

(* A process that ends frees only its own lock (Leave).                    *)
LEMMA LeaveKeeps ==
  ASSUME proc \in [Procs -> ProcRecs], NEW p \in Procs, NEW s \in {"idle", "failed"}, Leave(p, s)
  PROVE  /\ proc' \in [Procs -> ProcRecs] /\ \A q \in Procs \ {p} : proc'[q] = proc[q]
         /\ proc'[p].at = s /\ lock' = IF lock = p THEN Nobody ELSE lock
<1>1. proc[p].cmd \in {"none", "serve", "restore", "backup"}
  BY DEF ProcRecs
<1> DEFINE r == Process(proc[p].cmd, s, 0, NoKey, Nothing)
<1>2. r \in ProcRecs /\ r.at = s
  BY <1>1, ProcessType
<1>3. proc' = [proc EXCEPT ![p] = r] /\ lock' = IF lock = p THEN Nobody ELSE lock
  BY DEF Leave, Release
<1> HIDE DEF r
<1> QED BY <1>2, <1>3

(* A process that has ended claims nothing of the files.                   *)
LEMMA EndedOK ==
  ASSUME NEW r, r.at \in {"idle", "failed"}, NEW q, NEW m, NEW w, NEW owner, owner # q
  PROVE  ProcOK(r, q, m, w, owner)
BY DEF ProcOK, Locked, ServeSteps, RestoreSteps, Prepared

(* While p holds the lock the other processes claim nothing of the files,  *)
(* so p may change them (InstanceLock).                                    *)
LEMMA HolderStep ==
  ASSUME Inv, NEW p \in Procs, lock = p, lock' \in {p, Nobody},
         proc' \in [Procs -> ProcRecs], \A q \in Procs \ {p} : proc'[q] = proc[q],
         ProcOK(proc'[p], p, main', wal', lock')
  PROVE  ProcsInv'
<1>1. ASSUME NEW q \in Procs \ {p} PROVE ProcOK(proc'[q], q, main', wal', lock')
  <2>1. ProcOK(proc[q], q, main, wal, lock) /\ proc'[q] = proc[q] /\ lock # q /\ lock' # q
    BY FilesAssumption DEF Inv, ProcsInv
  <2>2. proc[q].at \notin Locked /\ (proc[q].at = "started" => proc[q].binary > 0 /\ proc[q].secret # NoKey)
    BY <2>1 DEF ProcOK
  <2> QED BY <2>1, <2>2 DEF ProcOK, Locked, ServeSteps, RestoreSteps, Prepared
<1> QED BY <1>1 DEF ProcsInv

(* A step that keeps what the database holds, but for its data, keeps what *)
(* a process claims of it.                                                 *)
LEMMA ClaimKept ==
  ASSUME NEW r, NEW q, ProcOK(r, q, main, wal, lock), lock' = q <=> lock = q,
         main # Nothing => /\ main' # Nothing
                           /\ View(main', wal').version = View(main, wal).version
                           /\ View(main', wal').key = View(main, wal).key,
         r.at \in {"no_wal", "no_shm"} => wal' = Nothing
  PROVE  ProcOK(r, q, main', wal', lock')
<1>1. r.at \in Prepared => r.at \in ServeSteps
  BY DEF Prepared, ServeSteps
<1>2. r.at = "listening" => r.at \in ServeSteps
  BY DEF ServeSteps
<1> QED BY <1>1, <1>2 DEF ProcOK, Fits

(* A process that does not hold the lock, and keeps what the database      *)
(* holds, leaves the others' claims alone.                                 *)
LEMMA GuestStep ==
  ASSUME Inv, NEW p \in Procs, \A q \in Procs \ {p} : lock' = q <=> lock = q,
         proc' \in [Procs -> ProcRecs], \A q \in Procs \ {p} : proc'[q] = proc[q],
         main # Nothing => main' # Nothing /\ View(main', wal') = View(main, wal),
         wal = Nothing => wal' = Nothing,
         ProcOK(proc'[p], p, main', wal', lock')
  PROVE  ProcsInv'
<1>1. ASSUME NEW q \in Procs \ {p} PROVE ProcOK(proc'[q], q, main', wal', lock')
  <2>1. ProcOK(proc[q], q, main, wal, lock) /\ proc'[q] = proc[q] /\ (lock' = q <=> lock = q)
    BY DEF Inv, ProcsInv
  <2>2. proc[q].at \in {"no_wal", "no_shm"} => wal' = Nothing
    BY <2>1 DEF ProcOK
  <2> QED BY <2>1, <2>2, ClaimKept
<1> QED BY <1>1 DEF ProcsInv

-----------------------------------------------------------------------------
(* Every step keeps the invariant *)

(* An installation starts with no process and at most a database.          *)
LEMMA InitInv == Init => Inv
<1> SUFFICES ASSUME Init PROVE Inv
  OBVIOUS
<1>1. main \in Databases \cup {Nothing} /\ Keyed(main)
  BY BinariesAssumption DEF Init, Contents, Databases, Keyed
<1>2. FilesInv
  BY <1>1 DEF Init, FilesInv, FilesOK, Keyed
<1>3. Idle \in ProcRecs /\ Idle.at = "idle"
  BY ProcessType, SMTT(20) DEF Idle
<1>4. proc = [q \in Procs |-> Idle] /\ lock = Nobody
  BY DEF Init
<1>5. ProcsInv
  BY <1>3, <1>4, EndedOK, FilesAssumption DEF ProcsInv
<1> QED BY <1>2, <1>5 DEF Inv

(* The facts about p that its steps use.                                   *)
LEMMA HolderFacts ==
  ASSUME Inv, NEW p \in Procs
  PROVE  /\ proc \in [Procs -> ProcRecs] /\ proc[p] \in ProcRecs /\ FilesInv
         /\ ProcOK(proc[p], p, main, wal, lock)
         /\ proc[p].at \in Locked => lock = p
         /\ proc[p].at \in ServeSteps =>
              /\ main # Nothing /\ lock = p /\ proc[p].cmd = "serve"
              /\ Live \in Databases /\ Live # Nothing /\ Keyed(Live) /\ Live = View(main, wal)
<1>1. FilesInv /\ proc \in [Procs -> ProcRecs] /\ ProcOK(proc[p], p, main, wal, lock)
  BY DEF Inv, ProcsInv
<1>2. proc[p].at \in ServeSteps => main # Nothing /\ proc[p].at \in Locked /\ proc[p].cmd = "serve"
  BY <1>1 DEF ProcOK, Locked
<1>3. proc[p].at \in Locked => lock = p
  BY <1>1 DEF ProcOK
<1> QED BY <1>1, <1>2, <1>3, LiveIsDatabase

(* A process that ends, by an error return, a kill or having finished,     *)
(* keeps the invariant when it keeps what the database holds.              *)
LEMMA LeavingInv ==
  ASSUME Inv, NEW p \in Procs, NEW s \in {"idle", "failed"}, Leave(p, s),
         FilesOK(main', wal'), main # Nothing => main' # Nothing /\ View(main', wal') = View(main, wal),
         wal = Nothing => wal' = Nothing, copies' = copies, clock' = clock, writes' \in Nat
  PROVE  Inv'
<1>1. /\ proc' \in [Procs -> ProcRecs] /\ \A q \in Procs \ {p} : proc'[q] = proc[q]
      /\ proc'[p].at \in {"idle", "failed"} /\ lock' = IF lock = p THEN Nobody ELSE lock
  BY HolderFacts, LeaveKeeps
<1>2. lock' \in Procs \cup {Nobody} /\ lock' # p /\ \A q \in Procs \ {p} : lock' = q <=> lock = q
  BY <1>1, FilesAssumption DEF Inv, FilesInv
<1>3. FilesInv'
  BY <1>2 DEF Inv, FilesInv
<1>4. ProcOK(proc'[p], p, main', wal', lock')
  BY <1>1, <1>2, EndedOK
<1>5. ProcsInv'
  BY <1>1, <1>2, <1>4, GuestStep
<1> QED BY <1>3, <1>5 DEF Inv

(* A process that ends and leaves the files alone keeps the invariant.     *)
LEMMA LeavingFilesInv ==
  ASSUME Inv, NEW p \in Procs, NEW s \in {"idle", "failed"}, Leave(p, s),
         UNCHANGED <<main, wal, copies, clock>>, writes' \in Nat
  PROVE  Inv'
<1>1. FilesOK(main', wal') /\ View(main', wal') = View(main, wal)
  BY DEF Inv, FilesInv
<1> QED BY <1>1, LeavingInv

(* A server that ends closes its connections (Refuse, Fail, Stop).         *)
LEMMA ClosingInv ==
  ASSUME Inv, NEW p \in Procs, NEW s \in {"idle", "failed"}, Leave(p, s), Closed(p),
         proc[p].at \in ServeSteps, UNCHANGED <<copies, clock, writes>>
  PROVE  Inv' /\ Live' = Live
<1>1. main # Nothing /\ FilesInv /\ Live = View(main, wal)
  BY HolderFacts
<1>2. /\ FilesOK(main', wal') /\ Live' = Live /\ View(main', wal') = Live /\ main' # Nothing
      /\ wal = Nothing => wal' = Nothing
  BY <1>1, ClosingKeeps
<1>3. writes' \in Nat
  BY <1>1 DEF FilesInv
<1> QED BY <1>1, <1>2, <1>3, LeavingInv

(* A started process, and one whose lock was refused or granted (Start,    *)
(* InstanceLock::acquire), keeps the invariant.                            *)
LEMMA StartInv == ASSUME Inv, NEW p \in Procs, Start(p) PROVE Inv'
<1>1. PICK cmd \in {"serve", "restore", "backup"}, b \in Binaries, k \in Secrets :
        proc' = [proc EXCEPT ![p] = Process(cmd, "started", b, k, Nothing)]
  BY DEF Start
<1> DEFINE r == Process(cmd, "started", b, k, Nothing)
<1>2. b \in Nat /\ b > 0 /\ k # NoKey
  BY BinariesAssumption
<1>3. r \in ProcRecs /\ r.at = "started" /\ r.binary = b /\ r.secret = k
  BY <1>2, ProcessType
<1>4. /\ UNCHANGED <<main, wal, copies, lock, clock, writes>>
      /\ proc[p].at \in {"idle", "failed"}
  BY DEF Start, files, Running
<1>5. proc \in [Procs -> ProcRecs] /\ lock # p
  BY <1>4, HolderFacts DEF ProcOK, Locked, ServeSteps, RestoreSteps
<1>6. proc' = [proc EXCEPT ![p] = r]
  BY <1>1
<1> HIDE DEF r
<1>7. /\ proc' \in [Procs -> ProcRecs] /\ \A q \in Procs \ {p} : proc'[q] = proc[q]
      /\ proc'[p] = r
  BY <1>3, <1>5, <1>6
<1>8. ProcOK(proc'[p], p, main', wal', lock')
  BY <1>2, <1>3, <1>4, <1>5, <1>7 DEF ProcOK, Locked, ServeSteps, RestoreSteps, Prepared
<1>9. ProcsInv'
  BY <1>4, <1>7, <1>8, GuestStep
<1> QED BY <1>4, <1>9 DEF Inv, FilesInv

(* The lock is granted to one process at a time (InstanceLock::acquire).   *)
LEMMA AcquireInv == ASSUME Inv, NEW p \in Procs, Acquire(p) PROVE Inv'
<1>1. /\ UNCHANGED <<main, wal, copies, clock, writes>>
      /\ proc[p].at = "started"
      /\ \/ lock = Nobody /\ lock' = p /\ Goto(p, "locked")
         \/ lock' = lock /\ Goto(p, "failed")
  BY DEF Acquire, Free, files
<1>2. /\ proc \in [Procs -> ProcRecs] /\ lock # p /\ proc[p].binary > 0 /\ proc[p].secret # NoKey
  BY <1>1, HolderFacts DEF ProcOK, Locked, ServeSteps, RestoreSteps
<1>3. /\ proc' \in [Procs -> ProcRecs] /\ \A q \in Procs \ {p} : proc'[q] = proc[q]
      /\ \A q \in Procs \ {p} : lock' = q <=> lock = q
      /\ lock' \in Procs \cup {Nobody}
      /\ proc'[p].binary = proc[p].binary /\ proc'[p].secret = proc[p].secret
      /\ proc'[p].at \in {"locked", "failed"} /\ (proc'[p].at = "locked" <=> lock' = p)
  <2>1. CASE lock = Nobody /\ lock' = p /\ Goto(p, "locked")
    BY <2>1, <1>2, GotoKeeps, FilesAssumption DEF Locked
  <2>2. CASE lock' = lock /\ Goto(p, "failed")
    BY <2>2, <1>2, GotoKeeps DEF Inv, FilesInv
  <2> QED BY <1>1, <2>1, <2>2
<1>4. ProcOK(proc'[p], p, main', wal', lock')
  BY <1>2, <1>3 DEF ProcOK, Locked, ServeSteps, RestoreSteps, Prepared
<1>5. ProcsInv'
  BY <1>1, <1>3, <1>4, GuestStep
<1> QED BY <1>1, <1>3, <1>5 DEF Inv, FilesInv

(* A step of p, which holds the lock before and after it, keeps the        *)
(* invariant when p's own claims hold after it.                            *)
LEMMA OwnStep ==
  ASSUME Inv, NEW p \in Procs, lock = p, lock' = lock, FilesOK(main', wal'),
         proc' \in [Procs -> ProcRecs], \A q \in Procs \ {p} : proc'[q] = proc[q],
         copies' \subseteq [time : Nat, of : Databases], clock' \in Nat, writes' \in Nat,
         ProcOK(proc'[p], p, main', wal', lock')
  PROVE  Inv'
<1>1. ProcsInv'
  BY HolderStep
<1> QED BY <1>1 DEF Inv, FilesInv

(* serve opens the database, or creates an empty one (open_and_prepare).   *)
LEMMA OpenInv == ASSUME Inv, NEW p \in Procs, Open(p) PROVE Inv' /\ Survives
<1>1. /\ proc[p].at = "locked" /\ proc[p].cmd = "serve" /\ Goto(p, "opened")
      /\ UNCHANGED <<wal, copies, lock, writes>> /\ clock' \in {clock, clock + 1}
      /\ IF main = Nothing THEN main' = Empty /\ kept' = Empty ELSE UNCHANGED <<main, kept, cut>>
  BY DEF Open
<1>2. /\ proc \in [Procs -> ProcRecs] /\ lock = p /\ FilesInv
      /\ proc[p].binary > 0 /\ proc[p].secret # NoKey
  BY <1>1, HolderFacts DEF ProcOK, Locked
<1>3. Empty \in Databases /\ Empty # Nothing /\ Keyed(Empty)
  BY FilesAssumption DEF Empty, Contents, Databases, Keyed
<1>4. FilesOK(main', wal') /\ main' # Nothing
  BY <1>1, <1>2, <1>3 DEF FilesInv, FilesOK
<1>5. /\ proc' \in [Procs -> ProcRecs] /\ \A q \in Procs \ {p} : proc'[q] = proc[q]
      /\ proc'[p].at = "opened" /\ proc'[p].cmd = "serve"
      /\ proc'[p].binary = proc[p].binary /\ proc'[p].secret = proc[p].secret
  BY <1>1, <1>2, GotoKeeps DEF Locked, ServeSteps
<1>6. ProcOK(proc'[p], p, main', wal', lock')
  BY <1>1, <1>2, <1>4, <1>5 DEF ProcOK, Locked, ServeSteps, RestoreSteps, Prepared
<1>7. Survives
  BY <1>1, <1>2 DEF Survives, Live, FilesInv, FilesOK
<1>8. copies' \subseteq [time : Nat, of : Databases] /\ clock' \in Nat /\ writes' \in Nat
  BY <1>1, <1>2 DEF FilesInv
<1> QED BY <1>1, <1>2, <1>4, <1>5, <1>6, <1>7, <1>8, OwnStep

(* What prepare lets through fits the server's release and secret.         *)
LEMMA CheckInv == ASSUME Inv, NEW p \in Procs, Check(p) PROVE Inv' /\ Survives
<1> DEFINE b == proc[p].binary
           k == proc[p].secret
           c == [Live EXCEPT !.key = k]
           s == IF Live.version \in 1..b - 1 THEN "copying" ELSE "migrate"
<1>1. /\ proc[p].at = "opened" /\ ~Refused(Live, b, k) /\ Goto(p, s)
      /\ UNCHANGED <<copies, lock, clock, writes>>
      /\ IF Live.version > 0 /\ Live.key = NoKey THEN Commit(c) ELSE UNCHANGED <<main, wal, kept, cut>>
  BY DEF Check
<1>2. /\ proc \in [Procs -> ProcRecs] /\ proc[p] \in ProcRecs /\ lock = p /\ FilesInv /\ main # Nothing
      /\ proc[p].cmd = "serve" /\ b > 0 /\ k # NoKey
      /\ Live \in Databases /\ Live # Nothing /\ Keyed(Live) /\ Live = View(main, wal)
  BY <1>1, HolderFacts DEF ProcOK, ServeSteps
<1>3. b \in Nat /\ k \in Secrets /\ s \in {"copying", "migrate"}
  BY <1>2 DEF ProcRecs
<1> HIDE DEF s
<1>4. c \in Databases /\ c.version = Live.version /\ c.key = k
  BY <1>2, <1>3 DEF Databases
<1>5. Live.version \in Nat /\ Live.version <= b
      /\ (Live.version > 0 => Live.key \in {k, NoKey}) /\ (Live.version = 0 => Live.key = NoKey)
  BY <1>1, <1>2, <1>3 DEF Refused, Databases, Keyed
<1> HIDE DEF c, b, k
<1>6. /\ FilesOK(main', wal') /\ main' # Nothing /\ Fits(View(main', wal'), b, k)
      /\ Survives
  <2>1. CASE Live.version > 0 /\ Live.key = NoKey
    <3>1. Commit(c) /\ Keyed(c)
      BY <1>1, <1>4, <2>1 DEF Keyed
    <3>2. FilesOK(main', wal') /\ View(main', wal') = c /\ Live' = c /\ kept' = c /\ main' # Nothing
      BY <1>2, <1>4, <3>1, Committed
    <3> QED BY <1>4, <1>5, <3>2 DEF Fits, Survives
  <2>2. CASE ~(Live.version > 0 /\ Live.key = NoKey)
    <3>1. UNCHANGED <<main, wal, kept, cut>>
      BY <1>1, <2>2
    <3> QED BY <1>2, <1>5, <2>2, <3>1 DEF Fits, FilesInv, Live, Survives
  <2> QED BY <2>1, <2>2
<1>7. /\ proc' \in [Procs -> ProcRecs] /\ \A q \in Procs \ {p} : proc'[q] = proc[q]
      /\ proc'[p].at = s /\ proc'[p].cmd = "serve"
      /\ proc'[p].binary = b /\ proc'[p].secret = k
  BY <1>1, <1>2, <1>3, GotoKeeps DEF Locked, ServeSteps, b, k
<1>8. ProcOK(proc'[p], p, main', wal', lock')
  BY <1>1, <1>2, <1>3, <1>6, <1>7 DEF ProcOK, Locked, ServeSteps, RestoreSteps
<1>9. copies' \subseteq [time : Nat, of : Databases] /\ clock' \in Nat /\ writes' \in Nat
  BY <1>1, <1>2 DEF FilesInv
<1> QED BY <1>1, <1>2, <1>6, <1>7, <1>8, <1>9, OwnStep

(* A step of the upgrade that leaves the database alone keeps it fit       *)
(* (pre_migration_copy, prune_pre_migration_copies, the listener's start). *)
LEMMA UpgradeStep ==
  ASSUME Inv, NEW p \in Procs, proc[p].at \in Prepared, UNCHANGED <<main, wal, lock, clock, writes>>,
         NEW s \in Prepared,
         proc' \in [Procs -> ProcRecs], \A q \in Procs \ {p} : proc'[q] = proc[q],
         proc'[p].at = s, proc'[p].cmd = proc[p].cmd, proc'[p].binary = proc[p].binary,
         proc'[p].secret = proc[p].secret, s = "copied" => proc'[p].tmp # Nothing,
         s = "listening" => Live.version = proc[p].binary,
         copies' \subseteq [time : Nat, of : Databases]
  PROVE  Inv' /\ Live' = Live
<1>1. /\ lock = p /\ FilesInv /\ main # Nothing /\ proc[p].cmd = "serve" /\ Live = View(main, wal)
      /\ ProcOK(proc[p], p, main, wal, lock)
  BY HolderFacts DEF Prepared, ServeSteps
<1>2. /\ Fits(View(main, wal), proc[p].binary, proc[p].secret)
      /\ proc[p].binary > 0 /\ proc[p].secret # NoKey
  BY <1>1 DEF ProcOK, Prepared, ServeSteps
<1>3. ProcOK(proc'[p], p, main', wal', lock')
  BY <1>1, <1>2 DEF ProcOK, Locked, ServeSteps, RestoreSteps, Prepared
<1>4. FilesOK(main', wal') /\ clock' \in Nat /\ writes' \in Nat
  BY <1>1 DEF FilesInv
<1> QED BY <1>1, <1>3, <1>4, OwnStep DEF Live

(* The copy taken before a migration leaves the database alone.            *)
LEMMA CopyInv ==
  ASSUME Inv, NEW p \in Procs, Vacuum(p) \/ Rename(p) \/ Prune(p) \/ Listen(p) PROVE Inv' /\ Live' = Live
<1>0. /\ proc \in [Procs -> ProcRecs] /\ proc[p] \in ProcRecs /\ FilesInv
      /\ ProcOK(proc[p], p, main, wal, lock)
  BY HolderFacts
<1>1. CASE Vacuum(p)
  <2>1. /\ proc[p].at = "copying" /\ GotoTmp(p, "copied", Live)
        /\ UNCHANGED <<main, wal, copies, lock, clock, writes>>
    BY <1>1 DEF Vacuum, files
  <2>2. Live \in Databases /\ Live # Nothing
    BY <2>1, HolderFacts DEF ServeSteps
  <2>3. /\ proc' \in [Procs -> ProcRecs] /\ \A q \in Procs \ {p} : proc'[q] = proc[q]
        /\ proc'[p].at = "copied" /\ proc'[p].cmd = proc[p].cmd /\ proc'[p].binary = proc[p].binary
        /\ proc'[p].secret = proc[p].secret /\ proc'[p].tmp = Live
    BY <1>0, <2>1, <2>2, GotoTmpKeeps DEF Locked, ServeSteps
  <2>4. copies' \subseteq [time : Nat, of : Databases]
    BY <1>0, <2>1 DEF FilesInv
  <2> QED BY <2>1, <2>2, <2>3, <2>4, UpgradeStep DEF Prepared
<1>2. CASE Rename(p)
  <2> DEFINE c == [time |-> clock, of |-> proc[p].tmp]
  <2>1. /\ proc[p].at = "copied" /\ Goto(p, "renamed")
        /\ copies' \subseteq copies \cup {c}
        /\ UNCHANGED <<main, wal, lock, clock, writes>>
    BY <1>2 DEF Rename
  <2>2. proc[p].tmp \in Databases
    BY <1>0, <2>1 DEF ProcOK, ProcRecs
  <2>3. copies' \subseteq [time : Nat, of : Databases]
    BY <1>0, <2>1, <2>2 DEF FilesInv
  <2>4. /\ proc' \in [Procs -> ProcRecs] /\ \A q \in Procs \ {p} : proc'[q] = proc[q]
        /\ proc'[p].at = "renamed" /\ proc'[p].cmd = proc[p].cmd /\ proc'[p].binary = proc[p].binary
        /\ proc'[p].secret = proc[p].secret
    BY <1>0, <2>1, GotoKeeps DEF Locked, ServeSteps
  <2> QED BY <2>1, <2>3, <2>4, UpgradeStep DEF Prepared
<1>3. CASE Prune(p)
  <2>1. /\ proc[p].at = "renamed" /\ (Goto(p, "migrate") \/ proc' = proc) /\ copies' \subseteq copies
        /\ UNCHANGED <<main, wal, lock, clock, writes>>
    BY <1>3 DEF Prune
  <2>3. copies' \subseteq [time : Nat, of : Databases]
    BY <1>0, <2>1 DEF FilesInv
  <2>4. /\ proc' \in [Procs -> ProcRecs] /\ \A q \in Procs \ {p} : proc'[q] = proc[q]
        /\ proc'[p].at \in {"migrate", "renamed"} /\ proc'[p].cmd = proc[p].cmd
        /\ proc'[p].binary = proc[p].binary /\ proc'[p].secret = proc[p].secret
    BY <1>0, <2>1, GotoKeeps DEF Locked, ServeSteps
  <2> QED BY <2>1, <2>3, <2>4, UpgradeStep DEF Prepared
<1>4. CASE Listen(p)
  <2>1. /\ proc[p].at = "migrate" /\ GotoTmp(p, "listening", Nothing) /\ Live.version >= proc[p].binary
        /\ UNCHANGED <<main, wal, copies, lock, clock, writes>>
    BY <1>4 DEF Listen, files
  <2>2. /\ Live \in Databases /\ Live = View(main, wal)
        /\ Fits(View(main, wal), proc[p].binary, proc[p].secret)
    BY <1>0, <2>1, HolderFacts DEF ServeSteps, Prepared, ProcOK
  <2>3. /\ proc' \in [Procs -> ProcRecs] /\ \A q \in Procs \ {p} : proc'[q] = proc[q]
        /\ proc'[p].at = "listening" /\ proc'[p].cmd = proc[p].cmd /\ proc'[p].binary = proc[p].binary
        /\ proc'[p].secret = proc[p].secret
    BY <1>0, <2>1, GotoTmpKeeps DEF Locked, ServeSteps
  <2>4. copies' \subseteq [time : Nat, of : Databases]
    BY <1>0, <2>1 DEF FilesInv
  <2>5. Live.version \in Nat /\ proc[p].binary \in Nat
    BY <1>0, <2>2 DEF Databases, ProcRecs
  <2>6. Live.version = proc[p].binary
    BY <2>1, <2>2, <2>5 DEF Fits
  <2> QED BY <2>1, <2>3, <2>4, <2>6, UpgradeStep DEF Prepared
<1> QED BY <1>1, <1>2, <1>3, <1>4

(* A commit of the server keeps the database fit for it (apply, requests). *)
LEMMA ServerCommit ==
  ASSUME Inv, NEW p \in Procs, proc[p].at \in Prepared, NEW c \in Databases, Commit(c),
         Fits(c, proc[p].binary, proc[p].secret), c.version > 0,
         proc[p].at = "listening" => c.version = proc[p].binary,
         UNCHANGED <<copies, lock, proc, clock>>, writes' \in Nat
  PROVE  Inv' /\ Live' = kept'
<1>1. /\ proc \in [Procs -> ProcRecs] /\ lock = p /\ FilesInv /\ main # Nothing
      /\ ProcOK(proc[p], p, main, wal, lock)
  BY HolderFacts DEF Prepared, ServeSteps
<1>2. FilesOK(main', wal') /\ View(main', wal') = c /\ Live' = c /\ kept' = c /\ main' # Nothing
  BY <1>1, Committed DEF Keyed
<1>3. ProcOK(proc'[p], p, main', wal', lock')
  BY <1>1, <1>2 DEF ProcOK, Prepared, ServeSteps
<1>4. copies' \subseteq [time : Nat, of : Databases] /\ clock' \in Nat
  BY <1>1 DEF FilesInv
<1> QED BY <1>1, <1>2, <1>3, <1>4, OwnStep

(* Each migration raises the version by one, up to the server's release.   *)
LEMMA MigrateInv == ASSUME Inv, NEW p \in Procs, Migrate(p) PROVE Inv' /\ Live' = kept'
<1> DEFINE b == proc[p].binary
           k == proc[p].secret
           key == IF Live.key = NoKey THEN k ELSE Live.key
           c == Contents(Live.version + 1, key, Live.data)
<1>1. /\ proc[p].at = "migrate" /\ Live.version < b /\ Commit(c)
      /\ UNCHANGED <<copies, lock, proc, clock, writes>>
  BY DEF Migrate
<1>2. /\ proc[p] \in ProcRecs /\ FilesInv /\ Live \in Databases
      /\ Fits(Live, b, k)
  BY <1>1, HolderFacts DEF ServeSteps, Prepared, ProcOK
<1>3. b \in Nat /\ k \in Secrets \cup {NoKey} /\ Live.version \in Nat /\ Live.key \in Secrets \cup {NoKey}
      /\ Live.data \in Nat
  BY <1>2 DEF ProcRecs, Databases
<1>4. key = k
  BY <1>2 DEF Fits
<1>5. c \in Databases /\ c.version = Live.version + 1 /\ c.key = k
  BY <1>3, <1>4 DEF Contents, Databases
<1> HIDE DEF c, key
<1>6. Fits(c, b, k) /\ c.version > 0
  BY <1>1, <1>3, <1>5 DEF Fits
<1>7. writes' \in Nat
  BY <1>1, <1>2 DEF FilesInv
<1> QED BY <1>1, <1>5, <1>6, <1>7, ServerCommit DEF Prepared

(* A request's commit changes neither version nor keycheck.                *)
LEMMA WriteInv == ASSUME Inv, NEW p \in Procs, Write(p) PROVE Inv' /\ Live' = kept'
<1> DEFINE b == proc[p].binary
           k == proc[p].secret
           c == [Live EXCEPT !.data = writes']
<1>1. /\ proc[p].at = "listening" /\ Commit(c) /\ writes' = writes + 1
      /\ UNCHANGED <<copies, lock, proc, clock>>
  BY DEF Write
<1>2. /\ proc[p] \in ProcRecs /\ FilesInv /\ Live \in Databases
      /\ Fits(Live, b, k) /\ Live.version = b /\ b > 0
  BY <1>1, HolderFacts DEF ServeSteps, Prepared, ProcOK
<1>3. writes' \in Nat
  BY <1>1, <1>2 DEF FilesInv
<1>4. c \in Databases /\ c.version = Live.version /\ c.key = Live.key
  BY <1>2, <1>3 DEF Databases
<1> HIDE DEF c
<1>5. Fits(c, b, k) /\ c.version = b /\ c.version > 0
  BY <1>2, <1>4 DEF Fits
<1> QED BY <1>1, <1>3, <1>4, <1>5, ServerCommit DEF Prepared

(* A checkpoint moves the log into the main file and changes no contents.  *)
LEMMA CheckpointInv == ASSUME Inv, NEW p \in Procs, Checkpoint(p) PROVE Inv' /\ Live' = Live
<1>1. /\ proc[p].at = "listening" /\ wal # Nothing /\ main' = wal
      /\ UNCHANGED <<wal, copies, lock, proc, clock, writes>>
  BY DEF Checkpoint
<1>2. /\ proc \in [Procs -> ProcRecs] /\ lock = p /\ FilesInv /\ ProcOK(proc[p], p, main, wal, lock)
  BY <1>1, HolderFacts DEF ServeSteps
<1>3. FilesOK(main', wal') /\ View(main', wal') = View(main, wal) /\ main' # Nothing /\ Live' = Live
  BY <1>1, <1>2 DEF FilesInv, FilesOK, View, Live
<1>4. ProcOK(proc[p], p, main', wal', lock')
  BY <1>1, <1>2, <1>3, ClaimKept
<1>5. copies' \subseteq [time : Nat, of : Databases] /\ clock' \in Nat /\ writes' \in Nat
  BY <1>1, <1>2 DEF FilesInv
<1> QED BY <1>1, <1>2, <1>3, <1>4, <1>5, OwnStep

(* The candidate of a restore is a migrated database (restore).            *)
LEMMA CandidateInv == ASSUME Inv, NEW p \in Procs, Candidate(p) PROVE Inv' /\ Live' = Live
<1>1. PICK c \in Sources \cup {d.of : d \in copies} :
        IF c = Damaged \/ c.version = 0
          THEN Leave(p, "failed")
          ELSE GotoTmp(p, "checked", [c EXCEPT !.data = writes']) /\ lock' = lock
  BY DEF Candidate
<1>2. /\ proc[p].at = "locked" /\ writes' = writes + 1 /\ UNCHANGED <<main, wal, copies, clock>>
  BY DEF Candidate, Restoring, files
<1>3. /\ proc \in [Procs -> ProcRecs] /\ FilesInv /\ lock = p
  BY <1>2, HolderFacts DEF Locked
<1>4. writes' \in Nat /\ clock' \in Nat /\ FilesOK(main', wal') /\ copies' \subseteq [time : Nat, of : Databases]
  BY <1>2, <1>3 DEF FilesInv
<1>5. Live' = Live
  BY <1>2 DEF Live
<1>6. CASE c = Damaged \/ c.version = 0
  BY <1>1, <1>2, <1>4, <1>5, <1>6, LeavingFilesInv
<1>7. CASE ~(c = Damaged \/ c.version = 0)
  <2> DEFINE d == [c EXCEPT !.data = writes']
  <2>1. c \in Databases
    BY <1>3, <1>7, SourcesAssumption DEF FilesInv
  <2>2. d \in Databases /\ d.version = c.version /\ d.version > 0
    BY <1>4, <1>7, <2>1 DEF Databases
  <2>3. GotoTmp(p, "checked", d) /\ lock' = lock /\ d # Nothing
    BY <1>1, <1>7, <2>2, FilesAssumption
  <2> HIDE DEF d
  <2>4. /\ proc' \in [Procs -> ProcRecs] /\ \A q \in Procs \ {p} : proc'[q] = proc[q]
        /\ proc'[p].at = "checked" /\ proc'[p].tmp = d
    <3>1. "checked" \in {"idle", "failed", "started", "snapshot"} \cup Locked
      BY DEF Locked, RestoreSteps
    <3>2. d \in Databases \cup {Nothing} /\ GotoTmp(p, "checked", d)
      BY <2>2, <2>3
    <3> QED BY <1>3, <3>1, <3>2, GotoTmpKeeps
  <2>5. ProcOK(proc'[p], p, main', wal', lock')
    BY <1>3, <2>2, <2>3, <2>4 DEF ProcOK, Locked, ServeSteps, RestoreSteps, Prepared
  <2> QED BY <1>3, <1>4, <1>5, <2>3, <2>4, <2>5, OwnStep
<1> QED BY <1>6, <1>7

(* The file steps of a restore: the log is gone before the main file is    *)
(* replaced, so nothing older shadows the restored contents (restore).     *)
LEMMA RestoreStepInv ==
  ASSUME Inv, NEW p \in Procs, RemoveWal(p) \/ RemoveShm(p) \/ Replace(p)
  PROVE  Inv' /\ Survives
<1>0. /\ proc \in [Procs -> ProcRecs] /\ proc[p] \in ProcRecs /\ FilesInv
      /\ ProcOK(proc[p], p, main, wal, lock)
  BY HolderFacts
<1>1. /\ UNCHANGED <<copies, lock, clock, writes>>
      /\ copies' \subseteq [time : Nat, of : Databases] /\ clock' \in Nat /\ writes' \in Nat
  BY <1>0 DEF FilesInv, RemoveWal, RemoveShm, Replace, files
<1>2. CASE RemoveWal(p)
  <2>1. proc[p].at = "checked" /\ wal' = Nothing /\ main' = main /\ cut' /\ Goto(p, "no_wal")
    BY <1>2 DEF RemoveWal, Restoring
  <2>2. lock = p /\ proc[p].tmp # Nothing /\ proc[p].tmp.version > 0
    BY <1>0, <2>1 DEF ProcOK, Locked, RestoreSteps
  <2>3. /\ proc' \in [Procs -> ProcRecs] /\ \A q \in Procs \ {p} : proc'[q] = proc[q]
        /\ proc'[p].at = "no_wal" /\ proc'[p].tmp = proc[p].tmp
    BY <1>0, <2>1, GotoKeeps DEF Locked, RestoreSteps
  <2>4. FilesOK(main', wal')
    BY <1>0, <2>1 DEF FilesInv, FilesOK, Keyed
  <2>5. ProcOK(proc'[p], p, main', wal', lock')
    BY <1>1, <2>1, <2>2, <2>3 DEF ProcOK, Locked, ServeSteps, RestoreSteps, Prepared
  <2> QED BY <1>1, <2>1, <2>2, <2>3, <2>4, <2>5, OwnStep DEF Survives
<1>3. CASE RemoveShm(p)
  <2>1. proc[p].at = "no_wal" /\ UNCHANGED <<main, wal, kept, cut>> /\ Goto(p, "no_shm")
    BY <1>3 DEF RemoveShm, Restoring, files
  <2>2. lock = p /\ proc[p].tmp # Nothing /\ proc[p].tmp.version > 0 /\ wal = Nothing
    BY <1>0, <2>1 DEF ProcOK, Locked, RestoreSteps
  <2>3. /\ proc' \in [Procs -> ProcRecs] /\ \A q \in Procs \ {p} : proc'[q] = proc[q]
        /\ proc'[p].at = "no_shm" /\ proc'[p].tmp = proc[p].tmp
    BY <1>0, <2>1, GotoKeeps DEF Locked, RestoreSteps
  <2>4. FilesOK(main', wal') /\ Survives
    BY <1>0, <2>1 DEF FilesInv, Live, Survives
  <2>5. ProcOK(proc'[p], p, main', wal', lock')
    BY <1>1, <2>1, <2>2, <2>3 DEF ProcOK, Locked, ServeSteps, RestoreSteps, Prepared
  <2> QED BY <1>1, <2>2, <2>3, <2>4, <2>5, OwnStep
<1>4. CASE Replace(p)
  <2>1. /\ proc[p].at = "no_shm" /\ wal' = wal /\ main' = proc[p].tmp /\ kept' = proc[p].tmp
        /\ Goto(p, "replaced")
    BY <1>4 DEF Replace, Restoring
  <2>2. lock = p /\ proc[p].tmp # Nothing /\ proc[p].tmp.version > 0 /\ wal = Nothing
    BY <1>0, <2>1 DEF ProcOK, Locked, RestoreSteps
  <2>3. /\ proc' \in [Procs -> ProcRecs] /\ \A q \in Procs \ {p} : proc'[q] = proc[q]
        /\ proc'[p].at = "replaced"
    BY <1>0, <2>1, GotoKeeps DEF Locked, RestoreSteps
  <2>4. proc[p].tmp \in Databases /\ Keyed(proc[p].tmp)
    BY <1>0, <2>2 DEF ProcRecs, Keyed
  <2>5. FilesOK(main', wal') /\ Survives
    BY <2>1, <2>2, <2>4 DEF FilesOK, Live, Keyed, Survives
  <2>6. ProcOK(proc'[p], p, main', wal', lock')
    BY <1>1, <2>2, <2>3 DEF ProcOK, Locked, ServeSteps, RestoreSteps, Prepared
  <2> QED BY <1>1, <2>2, <2>3, <2>5, <2>6, OwnStep
<1> QED BY <1>2, <1>3, <1>4

(* A backup only reads: closing its connection may checkpoint the log      *)
(* (backup_to_file).                                                       *)
LEMMA SnapshotInv == ASSUME Inv, NEW p \in Procs, Snapshot(p) PROVE Inv' /\ Live' = Live
<1>0. /\ proc \in [Procs -> ProcRecs] /\ FilesInv /\ ProcOK(proc[p], p, main, wal, lock)
  BY HolderFacts
<1>1. /\ proc[p].at = "started" /\ UNCHANGED <<copies, clock, writes>>
  BY DEF Snapshot, Backing
<1>2. lock # p /\ writes' \in Nat
  BY <1>0, <1>1 DEF ProcOK, Locked, ServeSteps, RestoreSteps, FilesInv
<1>3. CASE target # Nothing \/ main = Nothing
  <2>1. Leave(p, "failed") /\ UNCHANGED <<main, wal>>
    BY <1>3 DEF Snapshot
  <2> QED BY <1>1, <1>2, <2>1, LeavingFilesInv DEF Live
<1>4. CASE ~(target # Nothing \/ main = Nothing)
  <2>1. /\ Closed(p)
        /\ \/ GotoTmp(p, "snapshot", Live) /\ lock' = lock
           \/ Leave(p, "failed")
    BY <1>4 DEF Snapshot
  <2>2. Live \in Databases /\ Live = View(main, wal)
    BY <1>0, <1>4, LiveIsDatabase
  <2>3. /\ FilesOK(main', wal') /\ Live' = Live /\ View(main', wal') = Live /\ main' # Nothing
        /\ wal = Nothing => wal' = Nothing
    BY <1>0, <1>4, <2>1, ClosingKeeps
  <2>4. CASE GotoTmp(p, "snapshot", Live) /\ lock' = lock
    <3>1. /\ proc' \in [Procs -> ProcRecs] /\ \A q \in Procs \ {p} : proc'[q] = proc[q]
          /\ proc'[p].at = "snapshot"
      BY <1>0, <2>2, <2>4, GotoTmpKeeps
    <3>2. ProcOK(proc'[p], p, main', wal', lock')
      BY <1>2, <2>4, <3>1 DEF ProcOK, Locked, ServeSteps, RestoreSteps, Prepared
    <3>3. ProcsInv'
      BY <2>2, <2>3, <2>4, <3>1, <3>2, GuestStep
    <3> QED BY <1>0, <1>1, <2>3, <2>4, <3>3 DEF Inv, FilesInv
  <2>5. CASE Leave(p, "failed")
    BY <1>1, <1>2, <2>2, <2>3, <2>5, LeavingInv
  <2> QED BY <2>1, <2>4, <2>5
<1> QED BY <1>3, <1>4

(* A one-shot command commits under the schema and keycheck it found       *)
(* (open_current), so a server beside it stays fit.                        *)
LEMMA CommandInv == ASSUME Inv, Command PROVE Inv' /\ Live' = kept'
<1> DEFINE c == [Live EXCEPT !.data = writes']
<1>1. /\ main # Nothing /\ writes' = writes + 1 /\ kept' = c
      /\ IF \E p \in Procs : Connected(p) THEN wal' = c /\ main' = main ELSE main' = c /\ wal' = Nothing
      /\ UNCHANGED <<copies, lock, proc, clock>>
  BY DEF Command
<1>2. FilesInv /\ ProcsInv /\ Live \in Databases /\ Keyed(Live) /\ Live = View(main, wal) /\ Live # Nothing
  BY <1>1, LiveIsDatabase DEF Inv
<1>3. writes' \in Nat
  BY <1>1, <1>2 DEF FilesInv
<1>4. c \in Databases /\ c.version = Live.version /\ c.key = Live.key
  BY <1>2, <1>3 DEF Databases
<1>5. c # Nothing
  BY <1>4, FilesAssumption
<1>6. Keyed(c)
  BY <1>2, <1>4 DEF Keyed
<1> HIDE DEF c
<1>7. /\ FilesOK(main', wal') /\ View(main', wal') = c /\ Live' = c /\ main' # Nothing
  <2>1. CASE wal' = c /\ main' = main
    BY <1>1, <1>2, <1>4, <1>5, <1>6, <2>1 DEF FilesInv, FilesOK, View, Live
  <2>2. CASE main' = c /\ wal' = Nothing
    BY <1>4, <1>5, <1>6, <2>2 DEF FilesOK, View, Live, Keyed
  <2> QED BY <1>1, <2>1, <2>2
<1>8. ASSUME NEW q \in Procs PROVE ProcOK(proc[q], q, main', wal', lock')
  <2>1. ProcOK(proc[q], q, main, wal, lock)
    BY <1>2 DEF ProcsInv
  <2>2. proc[q].at \in {"no_wal", "no_shm"} => wal' = Nothing
    <3>1. SUFFICES ASSUME proc[q].at \in {"no_wal", "no_shm"}, NEW p \in Procs, Connected(p) PROVE FALSE
      BY <1>1
    <3>2. lock = q
      BY <2>1, <3>1 DEF ProcOK, Locked, RestoreSteps
    <3>3. proc[p].at \in ServeSteps /\ lock = p
      BY <3>1, HolderFacts DEF Connected, ServeSteps
    <3> QED BY <3>1, <3>2, <3>3 DEF ServeSteps
  <2> QED BY <1>1, <1>2, <1>4, <1>7, <2>1, <2>2, ClaimKept
<1>9. ProcsInv'
  BY <1>1, <1>2, <1>8 DEF ProcsInv
<1> QED BY <1>1, <1>2, <1>3, <1>7, <1>9 DEF Inv, FilesInv

-----------------------------------------------------------------------------
(* The theorems *)

(* Every step of every process keeps the invariant, and what is committed. *)
LEMMA NextInv == ASSUME Inv, [Next]_vars PROVE Inv' /\ Survives
<1>1. CASE UNCHANGED vars
  BY <1>1 DEF vars, files, Inv, FilesInv, ProcsInv, Survives, Live
<1>2. CASE Command
  BY <1>2, CommandInv DEF Survives
<1>3. ASSUME NEW p \in Procs,
             \/ Start(p) \/ Acquire(p) \/ Kill(p)
             \/ Open(p) \/ Refuse(p) \/ Check(p) \/ Vacuum(p) \/ Rename(p) \/ Prune(p) \/ Migrate(p)
             \/ Listen(p) \/ Fail(p) \/ Write(p) \/ Checkpoint(p) \/ Stop(p)
             \/ Candidate(p) \/ RemoveWal(p) \/ RemoveShm(p) \/ Replace(p) \/ Restored(p) \/ RestoreFails(p)
             \/ Snapshot(p) \/ Link(p) \/ BackupFails(p)
      PROVE  Inv' /\ Survives
  <2>0. writes \in Nat
    BY DEF Inv, FilesInv
  <2>1. CASE Start(p)
    BY <2>1, StartInv DEF Survives, Start, files, Live
  <2>2. CASE Acquire(p)
    BY <2>2, AcquireInv DEF Survives, Acquire, files, Live
  <2>3. CASE Kill(p)
    BY <2>0, <2>3, LeavingFilesInv DEF Survives, Kill, files, Live
  <2>4. CASE Open(p)
    BY <2>4, OpenInv
  <2>5. CASE Refuse(p)
    BY <2>5, ClosingInv DEF Survives, Refuse, ServeSteps
  <2>6. CASE Check(p)
    BY <2>6, CheckInv
  <2>7. CASE Vacuum(p) \/ Rename(p) \/ Prune(p) \/ Listen(p)
    BY <2>7, CopyInv DEF Survives, Vacuum, Rename, Prune, Listen
  <2>8. CASE Migrate(p)
    BY <2>8, MigrateInv DEF Survives
  <2>9. CASE Fail(p)
    BY <2>9, ClosingInv DEF Survives, Fail, Fault, Connected, ServeSteps
  <2>10. CASE Write(p)
    BY <2>10, WriteInv DEF Survives
  <2>11. CASE Checkpoint(p)
    BY <2>11, CheckpointInv DEF Survives, Checkpoint
  <2>12. CASE Stop(p)
    BY <2>12, ClosingInv DEF Survives, Stop, ServeSteps
  <2>13. CASE Candidate(p)
    BY <2>13, CandidateInv DEF Survives, Candidate
  <2>14. CASE RemoveWal(p) \/ RemoveShm(p) \/ Replace(p)
    BY <2>14, RestoreStepInv
  <2>15. CASE Restored(p)
    BY <2>0, <2>15, LeavingFilesInv DEF Survives, Restored, files, Live
  <2>16. CASE RestoreFails(p)
    BY <2>0, <2>16, LeavingFilesInv DEF Survives, RestoreFails, files, Live
  <2>17. CASE Snapshot(p)
    BY <2>17, SnapshotInv DEF Survives, Snapshot
  <2>18. CASE Link(p)
    <3>1. (Leave(p, "idle") \/ Leave(p, "failed")) /\ UNCHANGED <<main, wal, copies, clock, writes, kept, cut>>
      BY <2>18 DEF Link
    <3> QED BY <2>0, <3>1, LeavingFilesInv DEF Survives, Live
  <2>19. CASE BackupFails(p)
    BY <2>0, <2>19, LeavingFilesInv DEF Survives, BackupFails, files, Live
  <2> QED BY <1>3, <2>1, <2>2, <2>3, <2>4, <2>5, <2>6, <2>7, <2>8, <2>9, <2>10, <2>11, <2>12,
             <2>13, <2>14, <2>15, <2>16, <2>17, <2>18, <2>19
<1> QED BY <1>1, <1>2, <1>3 DEF Next

(* The invariant holds in every reachable state of the data directory.     *)
THEOREM Invariance == Spec => []Inv
<1>1. Init => Inv
  BY InitInv
<1>2. Inv /\ [Next]_vars => Inv'
  BY NextInv
<1> QED BY <1>1, <1>2, PTL DEF Spec

(* A listening server's database is of its release and its secret, for any *)
(* processes, releases and secrets (InstanceLock, prepare).                *)
THEOREM ServedDatabaseFits == Spec => []ListensOnItsDatabase
<1>1. Inv => ListensOnItsDatabase
  <2> SUFFICES ASSUME Inv, NEW p \in Procs, proc[p].at = "listening"
               PROVE  lock = p /\ Live.version = proc[p].binary /\ Live.key = proc[p].secret
    BY DEF ListensOnItsDatabase
  <2>1. /\ lock = p /\ Live = View(main, wal) /\ ProcOK(proc[p], p, main, wal, lock)
    BY HolderFacts DEF ServeSteps
  <2> QED BY <2>1 DEF ProcOK, Fits, Prepared, ServeSteps
<1> QED BY <1>1, Invariance, PTL

(* Whatever fails, is killed, shuts down, upgrades, backs up or restores,  *)
(* the next connection reads what was committed or restored last, unless   *)
(* the last restore was cut after it removed the log (restore, Db::open).  *)
THEOREM CommittedDataStays == Spec => []CommitsSurvive
<1>1. Init => CommitsSurvive
  BY DEF Init, CommitsSurvive, Live
<1>2. Inv /\ CommitsSurvive /\ [Next]_vars => CommitsSurvive'
  BY NextInv DEF Survives, CommitsSurvive
<1> QED BY <1>1, <1>2, Invariance, PTL DEF Spec

(* Whatever runs beside it, an existing backup file stays as it is         *)
(* (backup_to_file).                                                       *)
THEOREM BackupsStay == Spec => BackupNeverReplaced
<1>1. [Next]_vars => [target # Nothing => target' = target]_vars
  <2> SUFFICES ASSUME [Next]_vars, target # Nothing PROVE target' = target
    OBVIOUS
  <2>1. CASE UNCHANGED vars
    BY <2>1 DEF vars, files
  <2>2. CASE Command
    BY <2>2 DEF Command
  <2>3. ASSUME NEW p \in Procs, Start(p) \/ Acquire(p) \/ Kill(p) \/ Open(p) \/ Refuse(p) \/ Check(p) \/ Vacuum(p)
        PROVE  target' = target
    BY <2>3 DEF Start, Acquire, Kill, Open, Refuse, Check, Vacuum, files
  <2>4. ASSUME NEW p \in Procs, Rename(p) \/ Prune(p) \/ Migrate(p) \/ Listen(p) \/ Fail(p) \/ Write(p)
               \/ Checkpoint(p) \/ Stop(p)
        PROVE  target' = target
    BY <2>4 DEF Rename, Prune, Migrate, Listen, Fail, Write, Checkpoint, Stop, files
  <2>5. ASSUME NEW p \in Procs, Candidate(p) \/ RemoveWal(p) \/ RemoveShm(p) \/ Replace(p) \/ Restored(p)
               \/ RestoreFails(p)
        PROVE  target' = target
    BY <2>5 DEF Candidate, RemoveWal, RemoveShm, Replace, Restored, RestoreFails, files
  <2>6. ASSUME NEW p \in Procs, Snapshot(p) \/ Link(p) \/ BackupFails(p) PROVE target' = target
    BY <2>6 DEF Snapshot, Link, BackupFails, files
  <2> QED BY <2>1, <2>2, <2>3, <2>4, <2>5, <2>6 DEF Next
<1> QED BY <1>1, PTL DEF Spec, BackupNeverReplaced
-----------------------------------------------------------------------------
(* The copy taken before an upgrade *)

(* As many copies are kept as a release has older schema versions: two,    *)
(* and three migrations, in this release (PRE_MIGRATE_KEPT, MIGRATIONS).   *)
KeptSuffices == \A b \in Binaries : b - 1 <= Kept

(* No copy is dated in the future, and a time and a version name one copy. *)
CopiesOK(cs, now) ==
  /\ \A c \in cs : c.time <= now /\ c.of.version \in 1..Kept
  /\ \A c, d \in cs : c.time = d.time /\ c.of.version = d.of.version => c = d

(* What a process on its way to an upgrade says of the copies, and of the  *)
(* version of the database.                                                *)
CopyOK(r, cs, version) ==
  /\ r.at \in {"started", "locked", "opened"} => r.tmp = Nothing /\ r.binary \in Binaries
  /\ r.at = "copying" => version \in 1..Kept
  /\ r.at = "copied" => r.tmp.version \in 1..Kept
  /\ r.at = "renamed" => \E c \in cs : c.of = r.tmp /\ \A d \in cs : d.time <= c.time
  /\ r.at = "migrate" /\ r.tmp # Nothing => \E c \in cs : c.of = r.tmp

CopiesInv ==
  /\ CopiesOK(copies, clock)
  /\ \A q \in Procs : CopyOK(proc[q], copies, Live.version)

(* The newest copy has fewer than Kept newer ones: only copies of the same *)
(* second and a higher version come before it, one for each version        *)
(* (prune_pre_migration_copies).                                           *)
LEMMA NewestIsKept ==
  ASSUME copies \subseteq [time : Nat, of : Databases], CopiesOK(copies, clock),
         NEW c \in copies, \A d \in copies : d.time <= c.time
  PROVE  c \in Pruned(copies)
<1> DEFINE N == {d \in copies : Newer(d, c)}
           T == (c.of.version + 1)..Kept
           f == [d \in N |-> d.of.version]
<1>1. Kept \in Nat /\ Kept >= 1
  BY LimitsAssumption
<1>2. c.time \in Nat /\ c.of.version \in Nat /\ c.of.version \in 1..Kept
  BY DEF Databases, CopiesOK
<1>3. ASSUME NEW d \in N PROVE d.time = c.time /\ d.of.version \in T
  <2>1. d \in copies /\ d.time \in Nat /\ d.time <= c.time /\ d.of.version \in 1..Kept
    BY DEF CopiesOK
  <2>2. d.time > c.time \/ (d.time = c.time /\ d.of.version > c.of.version)
    BY DEF Newer
  <2> QED BY <1>1, <1>2, <2>1, <2>2
<1>4. ASSUME NEW d \in N, NEW e \in N, d.of.version = e.of.version PROVE d = e
  <2>1. d \in copies /\ e \in copies /\ d.time = e.time
    BY <1>3
  <2> QED BY <1>4, <2>1 DEF CopiesOK
<1>5. f \in [N -> T]
  BY <1>3
<1>6. \A d, e \in N : f[d] = f[e] => d = e
  BY <1>4
<1> HIDE DEF N, T, f
<1>7. f \in Injection(N, T)
  BY <1>5, <1>6 DEF Injection, IsInjective
<1>8. IsFiniteSet(T) /\ Cardinality(T) = IF c.of.version + 1 > Kept THEN 0 ELSE Kept - (c.of.version + 1) + 1
  <2>1. \A a, b \in Int : IsFiniteSet(a..b) /\ Cardinality(a..b) = IF a > b THEN 0 ELSE b - a + 1
    BY FS_Interval
  <2>2. c.of.version + 1 \in Int /\ Kept \in Int
    BY <1>1, <1>2
  <2> QED BY <2>1, <2>2 DEF T
<1>9. IsFiniteSet(N) /\ Cardinality(N) <= Cardinality(T)
  BY <1>7, <1>8, FS_Injection
<1>10. Cardinality(N) \in Nat
  BY <1>9, FS_CardinalityType
<1>11. Cardinality(N) < Kept
  BY <1>1, <1>2, <1>8, <1>9, <1>10
<1> QED BY <1>11 DEF Pruned, N

(* A renamed copy replaces the one of its name, and is the newest          *)
(* (pre_migration_copy).                                                   *)
LEMMA RenameCopies ==
  ASSUME Inv, CopiesInv, NEW p \in Procs, Rename(p)
  PROVE  CopiesOK(copies', clock') /\ CopyOK(proc'[p], copies', Live'.version)
<1> DEFINE c == [time |-> clock, of |-> proc[p].tmp]
<1>1. /\ proc[p].at = "copied" /\ Goto(p, "renamed") /\ clock' = clock
      /\ copies' = {d \in copies : Newer(d, c) \/ Newer(c, d)} \cup {c}
  BY DEF Rename
<1>2. /\ proc \in [Procs -> ProcRecs] /\ clock \in Nat /\ copies \subseteq [time : Nat, of : Databases]
      /\ proc[p].tmp \in Databases /\ proc[p].tmp.version \in 1..Kept
  BY <1>1, HolderFacts DEF FilesInv, ProcOK, ProcRecs, CopiesInv, CopyOK
<1>3. proc'[p].at = "renamed" /\ proc'[p].tmp = proc[p].tmp
  BY <1>1, <1>2, GotoKeeps DEF Locked, ServeSteps
<1>4. c.time = clock /\ c.of = proc[p].tmp /\ c \in copies'
  BY <1>1
<1> HIDE DEF c
<1>5. \A d \in copies' : d.time <= clock /\ d.of.version \in 1..Kept
  <2>1. \A d \in copies : d.time <= clock /\ d.of.version \in 1..Kept
    BY DEF CopiesInv, CopiesOK
  <2>2. c.time <= clock /\ c.of.version \in 1..Kept
    BY <1>2, <1>4
  <2>3. \A d \in copies' : d \in copies \/ d = c
    BY <1>1, Zenon
  <2> QED BY <2>1, <2>2, <2>3, Zenon
<1>6. ASSUME NEW d \in copies', NEW e \in copies', d.time = e.time, d.of.version = e.of.version
      PROVE  d = e
  <2>1. ASSUME NEW g \in copies', g # c PROVE g \in copies /\ ~(g.time = c.time /\ g.of.version = c.of.version)
    <3>1. g \in copies /\ (Newer(g, c) \/ Newer(c, g))
      BY <1>1, <2>1
    <3>2. g.time \in Nat /\ g.of.version \in Nat /\ c.time \in Nat /\ c.of.version \in Nat
      BY <1>2, <1>4, <3>1 DEF Databases
    <3> QED BY <3>1, <3>2 DEF Newer
  <2> QED BY <1>6, <2>1 DEF CopiesInv, CopiesOK
<1>7. CopiesOK(copies', clock')
  BY <1>1, <1>5, <1>6 DEF CopiesOK
<1> QED BY <1>3, <1>4, <1>5, <1>7 DEF CopyOK

(* Pruning leaves the copy just taken (prune_pre_migration_copies).        *)
LEMMA PruneCopies ==
  ASSUME Inv, CopiesInv, NEW p \in Procs, Prune(p)
  PROVE  CopiesOK(copies', clock') /\ CopyOK(proc'[p], copies', Live'.version)
<1>1. /\ proc[p].at = "renamed" /\ clock' = clock /\ Pruned(copies) \subseteq copies' /\ copies' \subseteq copies
      /\ Goto(p, "migrate") \/ proc' = proc
  BY DEF Prune, Pruned
<1>2. proc \in [Procs -> ProcRecs] /\ copies \subseteq [time : Nat, of : Databases]
  BY HolderFacts DEF FilesInv
<1>3. proc'[p].at \in {"migrate", "renamed"} /\ proc'[p].tmp = proc[p].tmp
  BY <1>1, <1>2, GotoKeeps DEF Locked, ServeSteps
<1>4. PICK c \in copies : c.of = proc[p].tmp /\ \A d \in copies : d.time <= c.time
  BY <1>1 DEF CopiesInv, CopyOK
<1>5. c \in copies' /\ \A d \in copies' : d.time <= c.time
  BY <1>1, <1>2, <1>4, NewestIsKept DEF CopiesInv
<1>7. CopiesOK(copies', clock')
  BY <1>1 DEF CopiesInv, CopiesOK
<1> QED BY <1>3, <1>4, <1>5, <1>7 DEF CopyOK

(* One step of process p.                                                  *)
Steps(p) ==
  \/ Start(p) \/ Acquire(p) \/ Kill(p)
  \/ Open(p) \/ Refuse(p) \/ Check(p) \/ Vacuum(p) \/ Rename(p) \/ Prune(p) \/ Migrate(p)
  \/ Listen(p) \/ Fail(p) \/ Write(p) \/ Checkpoint(p) \/ Stop(p)
  \/ Candidate(p) \/ RemoveWal(p) \/ RemoveShm(p) \/ Replace(p) \/ Restored(p) \/ RestoreFails(p)
  \/ Snapshot(p) \/ Link(p) \/ BackupFails(p)

(* A process's step changes no other process.                              *)
LEMMA OthersStay ==
  ASSUME proc \in [Procs -> ProcRecs], NEW p \in Procs, Steps(p), NEW q \in Procs \ {p}
  PROVE  proc'[q] = proc[q]
<1>1. CASE \E s : Goto(p, s)
  BY <1>1 DEF Goto
<1>2. CASE \E s, c : GotoTmp(p, s, c)
  BY <1>2 DEF GotoTmp
<1>3. CASE \E s : Leave(p, s)
  BY <1>3 DEF Leave
<1>4. CASE proc' = proc
  BY <1>4
<1>5. CASE Start(p)
  BY <1>5 DEF Start
<1>6. CASE Acquire(p) \/ Open(p) \/ Check(p) \/ Rename(p) \/ Prune(p) \/ RemoveWal(p) \/ RemoveShm(p) \/ Replace(p)
  BY <1>1, <1>4, <1>6, Zenon DEF Acquire, Open, Check, Rename, Prune, RemoveWal, RemoveShm, Replace
<1>7. CASE Vacuum(p) \/ Listen(p) \/ Candidate(p) \/ Snapshot(p)
  BY <1>2, <1>3, <1>7, Zenon DEF Vacuum, Listen, Candidate, Snapshot
<1>8. CASE Migrate(p) \/ Write(p) \/ Checkpoint(p)
  BY <1>4, <1>8 DEF Migrate, Write, Checkpoint
<1>9. CASE Kill(p) \/ Refuse(p) \/ Fail(p) \/ Stop(p) \/ Restored(p) \/ RestoreFails(p) \/ Link(p) \/ BackupFails(p)
  BY <1>3, <1>9, Zenon DEF Kill, Refuse, Fail, Stop, Restored, RestoreFails, Link, BackupFails
<1> QED BY <1>5, <1>6, <1>7, <1>8, <1>9 DEF Steps

(* While another process holds the lock, p changes neither the copies nor  *)
(* what the database holds (InstanceLock).                                 *)
LEMMA GuestsOnlyRead ==
  ASSUME Inv, NEW p \in Procs, lock # p, Steps(p)
  PROVE  copies' = copies /\ Live' = Live
<1>1. proc[p].at \notin Locked
  BY HolderFacts
<1>2. CASE Start(p) \/ Acquire(p) \/ Kill(p) \/ Link(p) \/ BackupFails(p)
  BY <1>2 DEF Start, Acquire, Kill, Link, BackupFails, files, Live
<1>3. CASE Snapshot(p)
  BY <1>3, SnapshotInv DEF Snapshot
<1>4. CASE Open(p) \/ Refuse(p) \/ Check(p) \/ Vacuum(p) \/ Rename(p) \/ Prune(p) \/ Migrate(p) \/ Listen(p)
           \/ Fail(p) \/ Write(p) \/ Checkpoint(p) \/ Stop(p)
  BY <1>1, <1>4 DEF Open, Refuse, Check, Vacuum, Rename, Prune, Migrate, Listen, Fail, Connected,
                    Write, Checkpoint, Stop, Locked, ServeSteps
<1>5. CASE Candidate(p) \/ RemoveWal(p) \/ RemoveShm(p) \/ Replace(p) \/ Restored(p) \/ RestoreFails(p)
  BY <1>1, <1>5 DEF Candidate, RemoveWal, RemoveShm, Replace, Restored, RestoreFails, Restoring,
                    Locked, RestoreSteps
<1> QED BY <1>2, <1>3, <1>4, <1>5 DEF Steps

(* A process that is on no step of an upgrade says nothing of the copies.  *)
LEMMA NoUpgrade ==
  ASSUME NEW r, NEW cs, NEW v,
         r.at \in {"idle", "failed", "snapshot", "listening"} \cup RestoreSteps
  PROVE  CopyOK(r, cs, v)
BY DEF CopyOK, RestoreSteps

(* A step before the copy: the process has no temporary file, and a        *)
(* release whose older versions all fit in backups/ (Start,                *)
(* InstanceLock::acquire, open_and_prepare).                               *)
LEMMA BeforeCopy ==
  ASSUME KeptSuffices, Inv, CopiesInv, NEW p \in Procs, Start(p) \/ Acquire(p) \/ Open(p) \/ Check(p) \/ Vacuum(p)
  PROVE  CopiesOK(copies', clock') /\ CopyOK(proc'[p], copies', Live'.version)
<1>0. /\ proc \in [Procs -> ProcRecs] /\ proc[p] \in ProcRecs /\ clock \in Nat
      /\ copies \subseteq [time : Nat, of : Databases] /\ CopyOK(proc[p], copies, Live.version)
  BY HolderFacts DEF FilesInv, CopiesInv
<1>1. CopiesOK(copies', clock')
  <2>1. copies' = copies /\ clock' \in {clock, clock + 1}
    BY DEF Start, Acquire, Open, Check, Vacuum, files
  <2>2. \A c \in copies : c.time \in Nat
    BY <1>0
  <2> QED BY <1>0, <2>1, <2>2 DEF CopiesInv, CopiesOK
<1>2. CASE Start(p)
  <2>1. PICK cmd \in {"serve", "restore", "backup"}, b \in Binaries, k \in Secrets :
          proc' = [proc EXCEPT ![p] = Process(cmd, "started", b, k, Nothing)]
    BY <1>2 DEF Start
  <2> DEFINE r == Process(cmd, "started", b, k, Nothing)
  <2>2. r.at = "started" /\ r.tmp = Nothing /\ r.binary = b
    BY DEF Process
  <2> HIDE DEF r
  <2>3. proc'[p] = r
    BY <1>0, <2>1 DEF r
  <2>4. proc'[p].at = "started" /\ proc'[p].tmp = Nothing /\ proc'[p].binary = b
    BY <2>2, <2>3, Zenon
  <2> QED BY <1>1, <2>4 DEF CopyOK
<1>3. CASE Acquire(p)
  <2>1. proc[p].at = "started" /\ (Goto(p, "locked") \/ Goto(p, "failed"))
    BY <1>3 DEF Acquire
  <2>2. /\ proc'[p].at \in {"locked", "failed"} /\ proc'[p].tmp = proc[p].tmp
        /\ proc'[p].binary = proc[p].binary
    BY <1>0, <2>1, GotoKeeps DEF Locked
  <2> QED BY <1>0, <1>1, <2>1, <2>2 DEF CopyOK
<1>4. CASE Open(p)
  <2>1. proc[p].at = "locked" /\ Goto(p, "opened")
    BY <1>4 DEF Open
  <2>2. proc'[p].at = "opened" /\ proc'[p].tmp = proc[p].tmp /\ proc'[p].binary = proc[p].binary
    BY <1>0, <2>1, GotoKeeps DEF Locked, ServeSteps
  <2> QED BY <1>0, <1>1, <2>1, <2>2 DEF CopyOK
<1>5. CASE Check(p)
  <2> DEFINE s == IF Live.version \in 1..proc[p].binary - 1 THEN "copying" ELSE "migrate"
  <2>1. proc[p].at = "opened" /\ Goto(p, s)
    BY <1>5 DEF Check
  <2>2. proc[p].tmp = Nothing /\ proc[p].binary \in Binaries /\ proc[p].binary \in Nat
        /\ proc[p].binary - 1 <= Kept /\ Kept \in Nat
    BY <1>0, <2>1, BinariesAssumption, LimitsAssumption DEF CopyOK, KeptSuffices
  <2>3. s \in {"copying", "migrate"} /\ (s = "copying" => Live.version \in 1..proc[p].binary - 1)
    OBVIOUS
  <2> HIDE DEF s
  <2>4. proc'[p].at = s /\ proc'[p].tmp = Nothing
    BY <1>0, <2>1, <2>2, <2>3, GotoKeeps DEF Locked, ServeSteps
  <2>5. Live'.version = Live.version
    <3>1. Live \in Databases /\ FilesInv /\ main # Nothing
      BY <2>1, HolderFacts DEF ServeSteps
    <3>2. CASE Live.version > 0 /\ Live.key = NoKey
      <4>1. wal' = [Live EXCEPT !.key = proc[p].secret]
        BY <1>5, <3>2 DEF Check, Commit
      <4>2. wal'.version = Live.version /\ wal' \in Databases
        BY <1>0, <3>1, <4>1 DEF Databases, ProcRecs
      <4> QED BY <4>2, FilesAssumption DEF Live
    <3>3. CASE ~(Live.version > 0 /\ Live.key = NoKey)
      BY <1>5, <3>3 DEF Check, Live
    <3> QED BY <3>2, <3>3
  <2>6. s = "copying" => Live.version \in 1..Kept
    BY <2>2, <2>3
  <2> QED BY <1>1, <2>3, <2>4, <2>5, <2>6 DEF CopyOK
<1>6. CASE Vacuum(p)
  <2>1. proc[p].at = "copying" /\ GotoTmp(p, "copied", Live)
    BY <1>6 DEF Vacuum
  <2>2. Live \in Databases
    BY <2>1, HolderFacts DEF ServeSteps
  <2>3. proc'[p].at = "copied" /\ proc'[p].tmp = Live
    BY <1>0, <2>1, <2>2, GotoTmpKeeps DEF Locked, ServeSteps
  <2> QED BY <1>0, <1>1, <2>1, <2>3 DEF CopyOK
<1> QED BY <1>2, <1>3, <1>4, <1>5, <1>6

(* A step after the copy, or of another command, leaves the copies alone.  *)
LEMMA AfterCopy ==
  ASSUME Inv, CopiesInv, NEW p \in Procs, Steps(p),
         ~(Start(p) \/ Acquire(p) \/ Open(p) \/ Check(p) \/ Vacuum(p) \/ Rename(p) \/ Prune(p))
  PROVE  CopiesOK(copies', clock') /\ CopyOK(proc'[p], copies', Live'.version)
<1>0. proc \in [Procs -> ProcRecs] /\ CopyOK(proc[p], copies, Live.version)
  BY HolderFacts DEF CopiesInv
<1>1. copies' = copies /\ clock' = clock
  <2>1. CASE Kill(p) \/ Refuse(p) \/ Migrate(p) \/ Listen(p) \/ Fail(p) \/ Write(p) \/ Checkpoint(p) \/ Stop(p)
    BY <2>1 DEF Kill, Refuse, Migrate, Listen, Fail, Write, Checkpoint, Stop, files
  <2>2. CASE Candidate(p) \/ RemoveWal(p) \/ RemoveShm(p) \/ Replace(p) \/ Restored(p) \/ RestoreFails(p)
    BY <2>2 DEF Candidate, RemoveWal, RemoveShm, Replace, Restored, RestoreFails, files
  <2>3. CASE Snapshot(p) \/ Link(p) \/ BackupFails(p)
    BY <2>3 DEF Snapshot, Link, BackupFails, files
  <2> QED BY <2>1, <2>2, <2>3 DEF Steps
<1>2. CopiesOK(copies', clock')
  BY <1>1 DEF CopiesInv
<1>3. CASE Migrate(p) \/ Write(p) \/ Checkpoint(p)
  <2>1. proc' = proc /\ proc[p].at \in {"migrate", "listening"}
    BY <1>3 DEF Migrate, Write, Checkpoint
  <2> QED BY <1>0, <1>1, <1>2, <2>1 DEF CopyOK
<1>4. CASE \E s \in {"idle", "failed"} : Leave(p, s)
  BY <1>0, <1>2, <1>4, LeaveKeeps, NoUpgrade
<1>5. CASE Kill(p) \/ Refuse(p) \/ Fail(p) \/ Stop(p) \/ Restored(p) \/ RestoreFails(p) \/ Link(p) \/ BackupFails(p)
  BY <1>4, <1>5, Zenon DEF Kill, Refuse, Fail, Stop, Restored, RestoreFails, Link, BackupFails
<1>6. CASE \E s \in RestoreSteps : Goto(p, s)
  <2>1. PICK s \in RestoreSteps : Goto(p, s)
    BY <1>6
  <2>2. proc'[p].at = s
    BY <1>0, <2>1, GotoKeeps DEF Locked
  <2> QED BY <1>2, <2>1, <2>2, NoUpgrade
<1>7. CASE RemoveWal(p) \/ RemoveShm(p) \/ Replace(p)
  BY <1>6, <1>7, Zenon DEF RemoveWal, RemoveShm, Replace, RestoreSteps
<1>8. CASE \E s \in {"snapshot", "checked", "listening"} : \E c : GotoTmp(p, s, c)
  <2>1. PICK s \in {"snapshot", "checked", "listening"} : \E c : GotoTmp(p, s, c)
    BY <1>8
  <2>2. proc'[p].at = s
    BY <1>0, <2>1 DEF GotoTmp, Process
  <2> QED BY <1>2, <2>1, <2>2, NoUpgrade DEF RestoreSteps
<1>9. CASE Candidate(p) \/ Listen(p) \/ Snapshot(p)
  BY <1>4, <1>8, <1>9, Zenon DEF Candidate, Listen, Snapshot
<1> QED BY <1>3, <1>5, <1>7, <1>9 DEF Steps

(* Every step of every process keeps the copies.                           *)
LEMMA NextCopies == ASSUME KeptSuffices, Inv, CopiesInv, [Next]_vars PROVE CopiesInv'
<1>1. CASE UNCHANGED vars
  BY <1>1 DEF vars, files, CopiesInv, Live
<1>2. CASE Command
  <2>1. UNCHANGED <<copies, proc, clock>> /\ main # Nothing /\ writes' = writes + 1
    BY <1>2 DEF Command
  <2>2. Live' = [Live EXCEPT !.data = writes'] /\ Live \in Databases
    <3>1. Live' = kept'
      BY <1>2, CommandInv
    <3>2. Live \in Databases
      BY <2>1, LiveIsDatabase DEF Inv
    <3> QED BY <1>2, <3>1, <3>2 DEF Command
  <2>3. Live'.version = Live.version
    BY <2>2 DEF Databases
  <2> QED BY <2>1, <2>3 DEF CopiesInv
<1>3. ASSUME NEW p \in Procs, Steps(p) PROVE CopiesInv'
  <2>1. CopiesOK(copies', clock') /\ CopyOK(proc'[p], copies', Live'.version)
    BY <1>3, BeforeCopy, RenameCopies, PruneCopies, AfterCopy
  <2>2. ASSUME NEW q \in Procs \ {p} PROVE CopyOK(proc'[q], copies', Live'.version)
    <3>1. proc'[q] = proc[q] /\ CopyOK(proc[q], copies, Live.version)
      BY <1>3, OthersStay, HolderFacts DEF CopiesInv
    <3>2. CASE lock = p
      <4>1. proc[q].at \notin Locked
        BY <3>2, HolderFacts
      <4> QED BY <3>1, <4>1 DEF CopyOK, Locked, ServeSteps
    <3>3. CASE lock # p
      BY <1>3, <3>1, <3>3, GuestsOnlyRead
    <3> QED BY <3>2, <3>3
  <2> QED BY <2>1, <2>2 DEF CopiesInv
<1> QED BY <1>1, <1>2, <1>3 DEF Next, Steps

(* With as many copies kept as a release has older versions, an upgrade    *)
(* always leaves the copy taken before it, for any processes, releases,    *)
(* failures and kills, and whatever restores and upgrades share a second   *)
(* with it (pre_migration_copy, prune_pre_migration_copies).               *)
THEOREM UpgradesHaveCopies == ASSUME KeptSuffices PROVE Spec => []UpgradeHasCopy
<1>1. Init => CopiesInv
  <2> SUFFICES ASSUME Init PROVE CopiesInv
    OBVIOUS
  <2>1. Idle.at = "idle"
    BY DEF Idle, Process
  <2>2. copies = {} /\ \A q \in Procs : proc[q] = Idle
    BY DEF Init
  <2>3. \A v : CopyOK(Idle, copies, v)
    BY <2>1, NoUpgrade
  <2> QED BY <2>2, <2>3 DEF CopiesInv, CopiesOK
<1>2. Inv /\ CopiesInv /\ [Next]_vars => CopiesInv'
  BY NextCopies
<1>3. CopiesInv => UpgradeHasCopy
  BY DEF CopiesInv, CopyOK, UpgradeHasCopy
<1> QED BY <1>1, <1>2, <1>3, Invariance, PTL DEF Spec
=============================================================================
