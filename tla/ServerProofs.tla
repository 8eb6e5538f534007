---------------------------- MODULE ServerProofs ----------------------------
(***************************************************************************)
(* Proofs about the server's connections and rejection counters, for any   *)
(* connections, reasons and bounds.                                        *)
(***************************************************************************)
EXTENDS Server, TLAPS

Phases == {"accepting", "draining", "aborting", "flushing", "stopped"}

ConnRecs == [task : {"closed", "serving", "window", "waiting", "closing"}, sent : Nat, read : Nat,
             in_flight : BOOLEAN, answered_at : Nat, owed : BOOLEAN, end : {"none", "client", "server", "abort"}]

(* What a connection's counts say of each other.                           *)
ConnOK(k, p) ==
  /\ k.answered_at <= k.read /\ k.read <= k.sent
  /\ k.in_flight => k.task # "closed" /\ k.read >= 2
  /\ k.task # "closed" => k.end = "none"
  /\ k.owed => k.sent > 0
  /\ k.owed /\ k.task = "waiting" => k.read > 0
  /\ k.task \in {"window", "waiting", "closing"} => p # "accepting"
  /\ p \in {"flushing", "stopped"} => k.task = "closed"

ConnsInv ==
  /\ phase \in Phases /\ conn \in [Conns -> ConnRecs]
  /\ \A c \in Conns : ConnOK(conn[c], phase)

Last == {"flushing", "stopped"}

(* What the last flush has reached is at 0, and no rejection comes after.  *)
CountsInv ==
  /\ counts \in [Reasons -> Nat] /\ taken \in [Reasons -> Nat]
  /\ logged \in [Reasons -> Nat] /\ rejected \in [Reasons -> Nat]
  /\ \A r \in Reasons : logged[r] + taken[r] + counts[r] = rejected[r]
  /\ unflushed \subseteq Reasons /\ (phase \notin Last => unflushed = Reasons)
  /\ phase \in Last => \A r \in Reasons : IF r \in unflushed THEN taken[r] = 0 ELSE counts[r] = 0
  /\ phase = "stopped" => unflushed = {} /\ taken = None

Inv == ConnsInv /\ CountsInv

(* A connection whose task has ended is a sound one, in every phase.       *)
LEMMA ClosedOK ==
  ASSUME NEW why \in {"none", "client", "server", "abort"}, NEW p \in Phases
  PROVE  [Closed EXCEPT !.end = why] \in ConnRecs /\ ConnOK([Closed EXCEPT !.end = why], p)
<1> DEFINE k == [Closed EXCEPT !.end = why]
<1>1. k \in ConnRecs
  BY DEF Closed, ConnRecs
<1>2. /\ k.task = "closed" /\ k.sent = 0 /\ k.read = 0 /\ k.in_flight = FALSE
      /\ k.answered_at = 0 /\ k.owed = FALSE
  BY DEF Closed
<1> HIDE DEF k
<1>3. ConnOK(k, p)
  BY <1>2 DEF ConnOK
<1> QED BY <1>1, <1>3 DEF k

(* A start-up (run, Counters::default) has no connection and no count.     *)
LEMMA InitInv == Init => Inv
<1> SUFFICES ASSUME Init PROVE Inv
  OBVIOUS
<1>1. ConnsInv
  <2>1. Closed = [Closed EXCEPT !.end = "none"]
    BY DEF Closed
  <2>2. phase \in Phases /\ conn = [c \in Conns |-> Closed]
    BY DEF Init, Phases
  <2>3. Closed \in ConnRecs /\ ConnOK(Closed, phase)
    BY <2>1, <2>2, ClosedOK
  <2> QED BY <2>2, <2>3 DEF ConnsInv
<1>2. CountsInv
  BY DEF Init, CountsInv, None, Last
<1> QED BY <1>1, <1>2 DEF Inv

(* A step of one connection that leaves the phase alone.                   *)
LEMMA OneConn ==
  ASSUME ConnsInv, NEW c \in Conns, NEW k \in ConnRecs, ConnOK(k, phase),
         conn' = [conn EXCEPT ![c] = k], phase' = phase
  PROVE  ConnsInv'
<1>1. conn' \in [Conns -> ConnRecs]
  BY DEF ConnsInv
<1>2. ASSUME NEW d \in Conns PROVE ConnOK(conn'[d], phase')
  BY DEF ConnsInv
<1> QED BY <1>1, <1>2 DEF ConnsInv

(* The counters do not move.                                               *)
LEMMA CountsKept ==
  ASSUME CountsInv, UNCHANGED counters, phase' = phase \/ {phase, phase'} \cap Last = {}
  PROVE  CountsInv'
  BY DEF CountsInv, counters, Last

(* Counters::increment, before the last flush.                             *)
LEMMA CountInv ==
  ASSUME CountsInv, NEW r \in Reasons, Count(r), phase' = phase, phase \notin Last
  PROVE  CountsInv'
<1>1. /\ counts' = [counts EXCEPT ![r] = counts[r] + 1]
      /\ rejected' = [rejected EXCEPT ![r] = rejected[r] + 1]
      /\ taken' = taken /\ unflushed' = unflushed /\ logged' = logged
  BY DEF Count
<1>2. counts' \in [Reasons -> Nat] /\ rejected' \in [Reasons -> Nat]
  BY <1>1 DEF CountsInv
<1>3. ASSUME NEW q \in Reasons PROVE logged'[q] + taken'[q] + counts'[q] = rejected'[q]
  BY <1>1 DEF CountsInv
<1> QED BY <1>1, <1>2, <1>3 DEF CountsInv, Last

(* Counters::take moves a count to the flush, the sweep's or the last one. *)
LEMMA TakeInv ==
  ASSUME CountsInv, NEW r \in Reasons, Take(r) \/ LastTake(r)
  PROVE  CountsInv'
<1>1. /\ taken' = [taken EXCEPT ![r] = counts[r]] /\ counts' = [counts EXCEPT ![r] = 0]
      /\ phase' = phase /\ phase # "stopped" /\ logged' = logged /\ rejected' = rejected
      /\ \/ phase \notin Last /\ taken[r] = 0 /\ unflushed' = unflushed
         \/ phase \in Last /\ r \in unflushed /\ unflushed' = unflushed \ {r}
  BY DEF Take, LastTake, Swap, Last
<1>2. taken' \in [Reasons -> Nat] /\ counts' \in [Reasons -> Nat] /\ taken[r] = 0
  BY <1>1 DEF CountsInv
<1>3. ASSUME NEW q \in Reasons PROVE logged'[q] + taken'[q] + counts'[q] = rejected'[q]
  BY <1>1, <1>2 DEF CountsInv
<1>4. phase \in Last => \A q \in Reasons : IF q \in unflushed' THEN taken'[q] = 0 ELSE counts'[q] = 0
  BY <1>1 DEF CountsInv
<1> QED BY <1>1, <1>2, <1>3, <1>4 DEF CountsInv

(* Counters::flush writes what it took.                                    *)
LEMMA WriteInv ==
  ASSUME CountsInv, NEW r \in Reasons, Write(r)
  PROVE  CountsInv'
<1>1. /\ logged' = [logged EXCEPT ![r] = logged[r] + taken[r]] /\ taken' = [taken EXCEPT ![r] = 0]
      /\ taken[r] > 0 /\ phase' = phase /\ counts' = counts /\ unflushed' = unflushed /\ rejected' = rejected
  BY DEF Write
<1>2. taken' \in [Reasons -> Nat] /\ logged' \in [Reasons -> Nat]
  BY <1>1 DEF CountsInv
<1>3. ASSUME NEW q \in Reasons PROVE logged'[q] + taken'[q] + counts'[q] = rejected'[q]
  BY <1>1 DEF CountsInv
<1>4. phase # "stopped"
  BY <1>1 DEF CountsInv, None
<1>5. phase \in Last => \A q \in Reasons : IF q \in unflushed THEN taken'[q] = 0 ELSE counts'[q] = 0
  BY <1>1 DEF CountsInv
<1> QED BY <1>1, <1>2, <1>3, <1>4, <1>5 DEF CountsInv

-----------------------------------------------------------------------------
(* Connections *)

(* The types of a connection.                                              *)
LEMMA Types ==
  ASSUME ConnsInv, NEW c \in Conns
  PROVE  /\ conn[c] \in ConnRecs /\ ConnOK(conn[c], phase) /\ phase \in Phases
         /\ conn[c].sent \in Nat /\ conn[c].read \in Nat /\ conn[c].answered_at \in Nat
         /\ conn[c].owed \in BOOLEAN /\ conn[c].in_flight \in BOOLEAN
<1>1. conn[c] \in ConnRecs /\ ConnOK(conn[c], phase) /\ phase \in Phases
  BY DEF ConnsInv
<1> QED BY <1>1 DEF ConnRecs

(* A task that ends leaves a closed connection.                            *)
LEMMA EndInv ==
  ASSUME ConnsInv, NEW c \in Conns, NEW why \in {"client", "server", "abort"}, End(c, why), phase' = phase
  PROVE  ConnsInv'
<1>1. [Closed EXCEPT !.end = why] \in ConnRecs /\ ConnOK([Closed EXCEPT !.end = why], phase)
  BY ClosedOK DEF ConnsInv
<1> QED BY <1>1, OneConn DEF End

(* A connection moves to another task state and nothing else changes.      *)
LEMMA TaskMoves ==
  ASSUME ConnsInv, NEW c \in Conns, NEW t \in {"serving", "window", "waiting", "closing"},
         conn' = [conn EXCEPT ![c].task = t], phase' = phase,
         conn[c].task # "closed", t # "serving" => phase # "accepting",
         t = "waiting" => conn[c].read = conn[c].sent
  PROVE  ConnsInv'
<1> DEFINE k == [conn[c] EXCEPT !.task = t]
<1>1. k \in ConnRecs
  BY Types DEF ConnRecs
<1>2. /\ k.task = t /\ k.sent = conn[c].sent /\ k.read = conn[c].read /\ k.in_flight = conn[c].in_flight
      /\ k.answered_at = conn[c].answered_at /\ k.owed = conn[c].owed /\ k.end = conn[c].end
  BY Types DEF ConnRecs
<1>3. conn' = [conn EXCEPT ![c] = k]
  BY DEF ConnsInv
<1> HIDE DEF k
<1>4. ConnOK(k, phase)
  BY <1>2, Types DEF ConnOK
<1> QED BY <1>1, <1>3, <1>4, OneConn

(* run accepts a connection.                                               *)
LEMMA AcceptInv ==
  ASSUME ConnsInv, NEW c \in Conns, Accept(c)
  PROVE  ConnsInv'
<1> DEFINE k == [Closed EXCEPT !.task = "serving"]
<1>1. k \in ConnRecs
  BY DEF Closed, ConnRecs
<1>2. /\ k.task = "serving" /\ k.sent = 0 /\ k.read = 0 /\ k.in_flight = FALSE
      /\ k.answered_at = 0 /\ k.owed = FALSE
  BY DEF Closed
<1>5. k.end = "none"
  BY DEF Closed
<1>3. conn' = [conn EXCEPT ![c] = k] /\ phase' = phase /\ phase = "accepting"
  BY DEF Accept
<1> HIDE DEF k
<1>4. ConnOK(k, phase)
  BY <1>2, <1>3, <1>5 DEF ConnOK
<1> QED BY <1>1, <1>3, <1>4, OneConn

(* The client sends, and Counted::poll_read reads what was sent.           *)
LEMMA BytesInv ==
  ASSUME ConnsInv, NEW c \in Conns, Send(c) \/ PollRead(c)
  PROVE  ConnsInv'
<1>1. CASE Send(c)
  <2> DEFINE k == [conn[c] EXCEPT !.sent = conn[c].sent + 1]
  <2>1. k \in ConnRecs
    BY Types DEF ConnRecs
  <2>2. /\ k.sent = conn[c].sent + 1 /\ k.task = conn[c].task /\ k.read = conn[c].read
        /\ k.in_flight = conn[c].in_flight /\ k.answered_at = conn[c].answered_at /\ k.owed = conn[c].owed /\ k.end = conn[c].end
    BY Types DEF ConnRecs
  <2>3. conn' = [conn EXCEPT ![c] = k] /\ phase' = phase /\ conn[c].task # "closed"
    BY <1>1 DEF Send, Open, ConnsInv
  <2> HIDE DEF k
  <2>4. ConnOK(k, phase)
    BY <2>2, <2>3, Types DEF ConnOK
  <2> QED BY <2>1, <2>3, <2>4, OneConn
<1>2. CASE PollRead(c)
  <2> DEFINE k == [conn[c] EXCEPT !.read = conn[c].sent]
  <2>1. k \in ConnRecs
    BY Types DEF ConnRecs
  <2>2. /\ k.read = conn[c].sent /\ k.task = conn[c].task /\ k.sent = conn[c].sent
        /\ k.in_flight = conn[c].in_flight /\ k.answered_at = conn[c].answered_at /\ k.owed = conn[c].owed /\ k.end = conn[c].end
    BY Types DEF ConnRecs
  <2>3. conn' = [conn EXCEPT ![c] = k] /\ phase' = phase /\ conn[c].task # "closed" /\ conn[c].read < conn[c].sent
    BY <1>2 DEF PollRead, Open, ConnsInv
  <2> HIDE DEF k
  <2>4. ConnOK(k, phase)
    BY <2>2, <2>3, Types DEF ConnOK
  <2> QED BY <2>1, <2>3, <2>4, OneConn
<1> QED BY <1>1, <1>2

(* WithPeer::call takes a request whose head was read.                     *)
LEMMA CallInv ==
  ASSUME ConnsInv, NEW c \in Conns, Call(c)
  PROVE  ConnsInv'
<1> DEFINE k == [conn[c] EXCEPT !.in_flight = TRUE]
<1>1. k \in ConnRecs
  BY Types DEF ConnRecs
<1>2. /\ k.in_flight = TRUE /\ k.task = conn[c].task /\ k.sent = conn[c].sent /\ k.read = conn[c].read
      /\ k.answered_at = conn[c].answered_at /\ k.owed = conn[c].owed /\ k.end = conn[c].end
  BY Types DEF ConnRecs
<1>3. conn' = [conn EXCEPT ![c] = k] /\ phase' = phase /\ conn[c].task # "closed" /\ conn[c].read >= 2
  BY DEF Call, Open, ConnsInv
<1> HIDE DEF k
<1>4. ConnOK(k, phase)
  BY <1>2, <1>3, Types DEF ConnOK
<1> QED BY <1>1, <1>3, <1>4, OneConn

(* A response ends its request, or its connection.                         *)
LEMMA AnswerInv ==
  ASSUME ConnsInv, NEW c \in Conns, conn[c].in_flight, Answered(c), phase' = phase
  PROVE  ConnsInv'
<1>1. CASE conn[c].task = "closing"
  BY <1>1, EndInv DEF Answered
<1>2. CASE conn[c].task # "closing"
  <2> DEFINE k == [task |-> conn[c].task, sent |-> conn[c].sent - 2, read |-> conn[c].read - 2, in_flight |-> FALSE,
                   answered_at |-> conn[c].read - 2, owed |-> FALSE, end |-> conn[c].end]
  <2>1. conn[c].read >= 2 /\ conn[c].sent >= conn[c].read /\ conn[c].task # "closed"
    BY Types DEF ConnOK
  <2>2. conn[c].read - 2 \in Nat /\ conn[c].sent - 2 \in Nat
    BY <2>1, Types
  <2>3. k \in ConnRecs
    BY <2>2, Types DEF ConnRecs
  <2>4. conn' = [conn EXCEPT ![c] = k]
    BY <1>2 DEF Answered, ConnsInv
  <2>5. /\ k.task = conn[c].task /\ k.sent = conn[c].sent - 2 /\ k.read = conn[c].read - 2
        /\ k.in_flight = FALSE /\ k.answered_at = conn[c].read - 2 /\ k.owed = FALSE /\ k.end = conn[c].end
    OBVIOUS
  <2> HIDE DEF k
  <2>6. ConnOK(k, phase)
    BY <2>1, <2>2, <2>5, Types DEF ConnOK
  <2> QED BY <2>3, <2>4, <2>6, OneConn
<1> QED BY <1>1, <1>2

(* SIGTERM: every connection is told and owed what its client began.       *)
LEMMA ShutdownInv ==
  ASSUME ConnsInv, Shutdown
  PROVE  ConnsInv'
<1> DEFINE K(c) == [conn[c] EXCEPT !.owed = conn[c].sent > 0]
<1>1. conn' = [c \in Conns |-> K(c)] /\ phase = "accepting" /\ phase' = "draining"
  BY DEF Shutdown
<1>2. ASSUME NEW c \in Conns PROVE K(c) \in ConnRecs /\ ConnOK(K(c), "draining")
  <2> DEFINE b == conn[c].sent > 0
             k == [conn[c] EXCEPT !.owed = b]
  <2>1. b \in BOOLEAN
    BY Types
  <2>2. K(c) = k
    OBVIOUS
  <2> HIDE DEF b
  <2>4. k \in ConnRecs
    BY <2>1, Types DEF ConnRecs
  <2>5. /\ k.owed = b /\ k.task = conn[c].task /\ k.sent = conn[c].sent
        /\ k.read = conn[c].read /\ k.in_flight = conn[c].in_flight /\ k.answered_at = conn[c].answered_at
        /\ k.end = conn[c].end
    BY <2>1, Types DEF ConnRecs
  <2>3. conn[c].task \notin {"window", "waiting", "closing"}
    BY <1>1, Types DEF ConnOK
  <2> HIDE DEF K, k
  <2>6. b => conn[c].sent > 0
    BY DEF b
  <2>7. ConnOK(k, "draining")
    BY <2>3, <2>5, <2>6, Types DEF ConnOK
  <2> QED BY <2>2, <2>4, <2>7
<1> HIDE DEF K
<1>3. conn' \in [Conns -> ConnRecs]
  BY <1>1, <1>2
<1>4. ASSUME NEW c \in Conns PROVE ConnOK(conn'[c], phase')
  BY <1>1, <1>2
<1>5. phase' \in Phases
  BY <1>1 DEF Phases
<1> QED BY <1>3, <1>4, <1>5 DEF ConnsInv

(* The grace period ends, the last connection ends, serve returns.         *)
LEMMA PhaseInv ==
  ASSUME ConnsInv, GraceEnds \/ Drained \/ Stop
  PROVE  ConnsInv'
<1>1. conn' = conn /\ phase' \in Phases \ {"accepting"}
  BY DEF GraceEnds, Drained, Stop, Phases
<1>2. phase' \in {"flushing", "stopped"} => \A c \in Conns : conn[c].task = "closed"
  BY Types DEF GraceEnds, Drained, Stop, Open, ConnOK
<1>3. ASSUME NEW c \in Conns PROVE ConnOK(conn'[c], phase')
  BY <1>1, <1>2, Types DEF ConnOK
<1> QED BY <1>1, <1>3 DEF ConnsInv

(* graceful_shutdown closes an idle connection, and a busy one after its   *)
(* response.                                                               *)
LEMMA GracefulInv ==
  ASSUME ConnsInv, NEW c \in Conns, Graceful(c)
  PROVE  ConnsInv'
<1>1. CASE conn[c].in_flight
  <2>1. /\ conn' = [conn EXCEPT ![c].task = "closing"] /\ phase' = phase /\ conn[c].task = "waiting"
    BY <1>1 DEF Graceful
  <2>2. phase # "accepting"
    BY <2>1, Types DEF ConnOK
  <2> QED BY <2>1, <2>2, TaskMoves
<1>2. CASE ~conn[c].in_flight
  BY <1>2, EndInv DEF Graceful
<1> QED BY <1>1, <1>2

(* A step of one connection.                                               *)
LEMMA ConnStepInv ==
  ASSUME Inv, NEW c \in Conns,
         \/ Accept(c) \/ Send(c) \/ PollRead(c) \/ Call(c) \/ Answer(c) \/ ClientGone(c)
         \/ Told(c) \/ WindowEnds(c) \/ Graceful(c) \/ Abort(c)
  PROVE  Inv'
<1> USE DEF Inv
<1>1. CASE Answer(c)
  <2>1. conn[c].in_flight /\ Answered(c) /\ phase' = phase
    BY <1>1 DEF Answer
  <2>2. ConnsInv'
    BY <2>1, AnswerInv
  <2>3. phase \notin Last
    BY <2>1, Types DEF ConnOK, Last
  <2>4. CASE UNCHANGED counters
    BY <2>1, <2>2, <2>3, <2>4, CountsKept
  <2>5. CASE \E r \in Reasons : Count(r)
    BY <2>1, <2>2, <2>3, <2>5, CountInv
  <2> QED BY <1>1, <2>4, <2>5 DEF Answer
<1>2. CASE ~Answer(c)
  <2>1. UNCHANGED counters /\ phase' = phase
    BY <1>2 DEF Accept, Send, PollRead, Call, ClientGone, Told, WindowEnds, Graceful, Abort
  <2>2. CountsInv'
    BY <2>1, CountsKept
  <2>3. CASE Accept(c) \/ Send(c) \/ PollRead(c) \/ Call(c) \/ Graceful(c)
    BY <2>2, <2>3, AcceptInv, BytesInv, CallInv, GracefulInv
  <2>4. CASE ClientGone(c)
    BY <2>2, <2>4, EndInv DEF ClientGone
  <2>5. CASE Abort(c)
    BY <2>2, <2>5, EndInv DEF Abort
  <2>6. CASE Told(c)
    BY <2>2, <2>6, TaskMoves DEF Told
  <2>7. CASE WindowEnds(c)
    <3>1. phase # "accepting"
      BY <2>7, Types DEF WindowEnds, ConnOK
    <3> QED BY <2>2, <2>7, <3>1, TaskMoves DEF WindowEnds
  <2> QED BY <1>2, <2>3, <2>4, <2>5, <2>6, <2>7
<1> QED BY <1>1, <1>2

(* Every step keeps the invariant.                                         *)
LEMMA NextInv == Inv /\ [Next]_vars => Inv'
<1> SUFFICES ASSUME Inv, [Next]_vars PROVE Inv'
  OBVIOUS
<1>1. CASE UNCHANGED vars
  BY <1>1 DEF Inv, ConnsInv, CountsInv, vars, counters
<1>2. ASSUME NEW c \in Conns,
             \/ Accept(c) \/ Send(c) \/ PollRead(c) \/ Call(c) \/ Answer(c) \/ ClientGone(c)
             \/ Told(c) \/ WindowEnds(c) \/ Graceful(c) \/ Abort(c)
      PROVE  Inv'
  BY <1>2, ConnStepInv
<1>3. ASSUME NEW r \in Reasons, AcceptError(r) \/ Take(r) \/ LastTake(r) \/ Write(r) PROVE Inv'
  <2>1. phase' = phase /\ conn' = conn
    BY <1>3 DEF AcceptError, Take, LastTake, Swap, Write
  <2>2. ConnsInv'
    BY <2>1 DEF Inv, ConnsInv
  <2>3. CountsInv'
    <3>1. CASE AcceptError(r)
      BY <3>1, CountInv DEF AcceptError, Inv, Last
    <3>2. CASE Take(r) \/ LastTake(r) \/ Write(r)
      BY <3>2, TakeInv, WriteInv DEF Inv
    <3> QED BY <1>3, <3>1, <3>2
  <2> QED BY <2>2, <2>3 DEF Inv
<1>4. CASE Shutdown
  BY <1>4, ShutdownInv, CountsKept DEF Inv, Shutdown, Last
<1>5. CASE GraceEnds \/ Drained \/ Stop
  <2>1. ASSUME GraceEnds PROVE CountsInv'
    BY <2>1, CountsKept DEF Inv, GraceEnds, Last
  <2>2. ASSUME Drained PROVE CountsInv'
    BY <2>2 DEF Inv, Drained, CountsInv, counters, None, Last
  <2>3. ASSUME Stop PROVE CountsInv'
    BY <2>3 DEF Inv, Stop, CountsInv, counters, Last
  <2>4. CountsInv'
    BY <1>5, <2>1, <2>2, <2>3
  <2> QED BY <1>5, <2>4, PhaseInv DEF Inv
<1> QED BY <1>1, <1>2, <1>3, <1>4, <1>5 DEF Next

(* What the counters and the connections' counts say of each other holds   *)
(* in every reachable state (Activity, Counters).                          *)
THEOREM Invariance == Spec => []Inv
<1>1. Init => Inv
  BY InitInv
<1>2. Inv /\ [Next]_vars => Inv'
  BY NextInv
<1> QED BY <1>1, <1>2, PTL DEF Spec

(* Counters::increment, take and flush lose and double nothing, for any    *)
(* number of rejections beside any number of flushes, and a server that    *)
(* has stopped has logged them all.                                        *)
THEOREM EveryRejectionLogged == Spec => []RejectionsLogged
<1>1. Inv => RejectionsLogged
  <2> SUFFICES ASSUME Inv, NEW r \in Reasons
               PROVE  /\ logged[r] + taken[r] + counts[r] = rejected[r]
                      /\ phase = "stopped" => logged[r] = rejected[r]
    BY DEF RejectionsLogged
  <2>1. /\ logged[r] + taken[r] + counts[r] = rejected[r]
        /\ logged[r] \in Nat /\ taken[r] \in Nat /\ counts[r] \in Nat
    BY DEF Inv, CountsInv
  <2>2. ASSUME phase = "stopped" PROVE taken[r] = 0 /\ counts[r] = 0
    BY <2>2 DEF Inv, CountsInv, None, Last
  <2> QED BY <2>1, <2>2
<1> QED BY <1>1, Invariance, PTL

(* Only an answer and graceful_shutdown end a connection in the server's   *)
(* name.                                                                   *)
LEMMA WhoCloses ==
  ASSUME Inv, Next, NEW c \in Conns, Open(c), conn'[c].end = "server"
  PROVE  (Answer(c) /\ conn[c].task = "closing") \/ (Graceful(c) /\ ~conn[c].in_flight)
<1>1. conn[c].end = "none" /\ conn \in [Conns -> ConnRecs] /\ conn[c] \in ConnRecs
  BY Types DEF Inv, Open, ConnOK, ConnsInv
<1>2. conn'[c] # conn[c]
  BY <1>1
<1>3. CASE \E r \in Reasons : AcceptError(r) \/ Take(r) \/ LastTake(r) \/ Write(r)
  BY <1>2, <1>3 DEF AcceptError, Take, LastTake, Swap, Write
<1>4. CASE GraceEnds \/ Drained \/ Stop
  BY <1>2, <1>4 DEF GraceEnds, Drained, Stop
<1>5. CASE Shutdown
  <2>1. conn'[c].end = conn[c].end
    BY <1>1, <1>5 DEF Shutdown, ConnRecs
  <2> QED BY <2>1, <1>1
<1>6. ASSUME NEW d \in Conns, d # c,
             \/ Accept(d) \/ Send(d) \/ PollRead(d) \/ Call(d) \/ Answer(d) \/ ClientGone(d)
             \/ Told(d) \/ WindowEnds(d) \/ Graceful(d) \/ Abort(d)
      PROVE  FALSE
  <2>1. conn'[c] = conn[c]
    BY <1>1, <1>6 DEF Accept, Send, PollRead, Call, Answer, Answered, ClientGone, Told, WindowEnds, Graceful, Abort, End
  <2> QED BY <1>2, <2>1
<1>7. ASSUME Send(c) \/ PollRead(c) \/ Call(c) \/ Told(c) \/ WindowEnds(c) PROVE FALSE
  <2>1. conn'[c].end = conn[c].end
    BY <1>1, <1>7 DEF Send, PollRead, Call, Told, WindowEnds, ConnRecs
  <2> QED BY <2>1, <1>1
<1>8. ASSUME ClientGone(c) \/ Abort(c) PROVE FALSE
  <2>1. conn'[c].end \in {"client", "abort"}
    BY <1>1, <1>8 DEF ClientGone, Abort, End, Closed
  <2> QED BY <2>1
<1>9. ~Accept(c)
  BY DEF Accept
<1>10. ASSUME Answer(c) PROVE conn[c].task = "closing"
  <2>1. SUFFICES ASSUME conn[c].task # "closing" PROVE FALSE
    OBVIOUS
  <2>2. conn'[c].end = conn[c].end
    BY <1>1, <1>10, <2>1 DEF Answer, Answered
  <2> QED BY <2>2, <1>1
<1>11. ASSUME Graceful(c) PROVE ~conn[c].in_flight
  <2>1. SUFFICES ASSUME conn[c].in_flight PROVE FALSE
    OBVIOUS
  <2>2. conn'[c].end = conn[c].end
    BY <1>1, <1>11, <2>1 DEF Graceful, ConnRecs
  <2> QED BY <2>2, <1>1
<1> QED BY <1>3, <1>4, <1>5, <1>6, <1>7, <1>8, <1>9, <1>10, <1>11 DEF Next

(* The drain of http/server.rs closes no connection on a request whose     *)
(* first bytes came before the shutdown, for any connections that send any *)
(* number of requests, but what answered_at already counts.                *)
THEOREM BegunRequestsFinish == Spec => NoRequestCut
<1> DEFINE Kept(c) ==
      Open(c) /\ conn'[c].end = "server" =>
       \/ conn[c].in_flight /\ conn[c].task = "closing"
       \/ ~conn[c].in_flight /\ ~conn[c].owed
       \/ conn[c].read > 0 /\ conn[c].read = conn[c].answered_at
<1>1. ASSUME Inv, Next PROVE \A c \in Conns : Kept(c)
  <2> SUFFICES ASSUME NEW c \in Conns, Open(c), conn'[c].end = "server", ~(~conn[c].in_flight /\ ~conn[c].owed)
               PROVE  \/ conn[c].in_flight /\ conn[c].task = "closing"
                      \/ conn[c].read > 0 /\ conn[c].read = conn[c].answered_at
    OBVIOUS
  <2>1. (Answer(c) /\ conn[c].task = "closing") \/ (Graceful(c) /\ ~conn[c].in_flight)
    BY <1>1, WhoCloses
  <2>2. CASE Answer(c) /\ conn[c].task = "closing"
    BY <2>2 DEF Answer
  <2>3. CASE Graceful(c) /\ ~conn[c].in_flight
    <3>1. conn[c].task = "waiting" /\ conn[c].owed /\ ~(conn[c].read > conn[c].answered_at)
      BY <2>3 DEF Graceful, Busy, Handling
    <3>2. /\ conn[c].read > 0 /\ conn[c].answered_at <= conn[c].read
          /\ conn[c].read \in Nat /\ conn[c].answered_at \in Nat
      BY <1>1, <3>1, Types DEF Inv, ConnOK
    <3> QED BY <3>1, <3>2
  <2> QED BY <2>1, <2>2, <2>3
<1>2. Inv /\ [Next]_vars => [\A c \in Conns : Kept(c)]_vars
  BY <1>1
<1> QED BY <1>2, Invariance, PTL DEF Spec, NoRequestCut
=============================================================================
