------------------------------- MODULE Server --------------------------------
(***************************************************************************)
(* The server's connections, the rejection counters, and the shutdown that *)
(* ends both: run in http/server.rs and the end of serve.  What a request  *)
(* does between its arrival and its answer is the subject of Pipeline and  *)
(* Work.                                                                   *)
(***************************************************************************)
EXTENDS Integers

CONSTANTS
  Conns,       \* connections
  Reasons,     \* reasons a request may be rejected for
  MaxBytes,    \* bound: halves of requests sent ahead of their answers
  MaxRejected  \* bound: rejections counted

ASSUME LimitsAssumption == MaxBytes \in Nat /\ MaxRejected \in Nat

VARIABLES
  phase,     \* "accepting", "draining", "aborting", "flushing" or "stopped"
  conn,      \* each connection and its task
  counts,    \* Counters: rejections since the last flush
  taken,     \* counts a flush has taken and not written yet
  unflushed, \* reasons whose counter the last flush, in serve, has not reached
  logged,    \* rejections written to the log
  rejected   \* history: rejections

counters == <<counts, taken, unflushed, logged, rejected>>
vars == <<phase, conn, counters>>

(* A request is two halves, so that half of one can have arrived.  Halves  *)
(* are counted from the first request that has no answer yet.              *)
Closed == [task |-> "closed", sent |-> 0, read |-> 0, in_flight |-> FALSE,
           answered_at |-> 0, owed |-> FALSE, end |-> "none"]

None == [r \in Reasons |-> 0]

Init ==
  /\ phase = "accepting" /\ conn = [c \in Conns |-> Closed]
  /\ counts = None /\ taken = None /\ unflushed = Reasons /\ logged = None /\ rejected = None

Open(c) == conn[c].task # "closed"

End(c, why) == conn' = [conn EXCEPT ![c] = [Closed EXCEPT !.end = why]]

-----------------------------------------------------------------------------
(* Counters *)

(* Counters::increment                                                     *)
Count(r) ==
  /\ rejected[r] < MaxRejected
  /\ counts' = [counts EXCEPT ![r] = @ + 1] /\ rejected' = [rejected EXCEPT ![r] = @ + 1]
  /\ UNCHANGED <<taken, unflushed, logged>>

(* Counters::take swaps a count for 0 ...                                  *)
Swap(r) ==
  /\ taken' = [taken EXCEPT ![r] = counts[r]] /\ counts' = [counts EXCEPT ![r] = 0]
  /\ UNCHANGED <<phase, conn, logged, rejected>>

(* ... in the sweep job, every minute until it learns of the shutdown ...  *)
Take(r) ==
  /\ phase \notin {"flushing", "stopped"} /\ counts[r] > 0 /\ taken[r] = 0
  /\ Swap(r) /\ UNCHANGED unflushed

(* ... and once more in serve, whatever there is to take.                  *)
LastTake(r) ==
  /\ phase = "flushing" /\ r \in unflushed
  /\ Swap(r) /\ unflushed' = unflushed \ {r}

(* flush writes what was taken.                                            *)
Write(r) ==
  /\ taken[r] > 0
  /\ logged' = [logged EXCEPT ![r] = @ + taken[r]] /\ taken' = [taken EXCEPT ![r] = 0]
  /\ UNCHANGED <<phase, conn, counts, unflushed, rejected>>

-----------------------------------------------------------------------------
(* Connections *)

BugBusy(c) == conn[c].in_flight

(* Activity::busy and Activity::handling                                   *)
Busy(c) == conn[c].in_flight \/ conn[c].read > conn[c].answered_at
Handling(c) == conn[c].in_flight

Accept(c) ==
  /\ phase = "accepting" /\ ~Open(c)
  /\ conn' = [conn EXCEPT ![c] = [Closed EXCEPT !.task = "serving"]]
  /\ UNCHANGED <<phase, counters>>

AcceptError(r) == phase = "accepting" /\ Count(r) /\ UNCHANGED <<phase, conn>>

(* External: the client sends half a request.                              *)
Send(c) ==
  /\ Open(c) /\ conn[c].sent < MaxBytes
  /\ conn' = [conn EXCEPT ![c].sent = @ + 1]
  /\ UNCHANGED <<phase, counters>>

(* Counted::poll_read, also while the request before is in flight.         *)
PollRead(c) ==
  /\ Open(c) /\ conn[c].read < conn[c].sent
  /\ conn' = [conn EXCEPT ![c].read = conn[c].sent]
  /\ UNCHANGED <<phase, counters>>

(* WithPeer::call, once a head is complete.                                *)
Call(c) ==
  /\ Open(c) /\ conn[c].task # "closing"
  /\ ~conn[c].in_flight /\ conn[c].read >= 2
  /\ conn' = [conn EXCEPT ![c].in_flight = TRUE]
  /\ UNCHANGED <<phase, counters>>

(* The response; the connection closes after it when it was asked to.      *)
Answered(c) ==
  IF conn[c].task = "closing" THEN End(c, "server")
  ELSE conn' = [conn EXCEPT ![c] =
         [task |-> @.task, sent |-> @.sent - 2, read |-> @.read - 2, in_flight |-> FALSE,
          answered_at |-> @.read - 2, owed |-> FALSE, end |-> @.end]]

(* The headers layer counts a rejection on its way out.                    *)
Answer(c) ==
  /\ conn[c].in_flight /\ Answered(c)
  /\ UNCHANGED phase
  /\ UNCHANGED counters \/ \E r \in Reasons : Count(r)

(* External: the client hangs up, or lets the header read timeout pass.    *)
ClientGone(c) == Open(c) /\ End(c, "client") /\ UNCHANGED <<phase, counters>>

-----------------------------------------------------------------------------
(* Shutdown *)

(* SIGTERM: the listener is dropped and every task is told.  A client is   *)
(* owed the request it has sent some of.                                   *)
Shutdown ==
  /\ phase = "accepting" /\ phase' = "draining"
  /\ conn' = [c \in Conns |-> [conn[c] EXCEPT !.owed = conn[c].sent > 0]]
  /\ UNCHANGED counters

Told(c) ==
  /\ phase # "accepting" /\ conn[c].task = "serving"
  /\ conn' = [conn EXCEPT ![c].task = "window"]
  /\ UNCHANGED <<phase, counters>>

(* ARRIVED_BYTES_WINDOW: what has arrived is read within it.               *)
WindowEnds(c) ==
  /\ conn[c].task = "window" /\ conn[c].read = conn[c].sent
  /\ conn' = [conn EXCEPT ![c].task = "waiting"]
  /\ UNCHANGED <<phase, counters>>

(* graceful_shutdown, when no head is arriving any more: an idle           *)
(* connection closes, a busy one after its response.                       *)
Graceful(c) ==
  /\ conn[c].task = "waiting" /\ (Busy(c) => Handling(c))
  /\ IF conn[c].in_flight THEN conn' = [conn EXCEPT ![c].task = "closing"] ELSE End(c, "server")
  /\ UNCHANGED <<phase, counters>>

BugGraceEnds ==
  /\ phase = "draining" /\ phase' = "aborting" /\ \A c \in Conns : ~conn[c].in_flight
  /\ UNCHANGED <<conn, counters>>

(* SHUTDOWN_GRACE has passed.                                              *)
GraceEnds ==
  /\ phase = "draining" /\ phase' = "aborting"
  /\ UNCHANGED <<conn, counters>>

Abort(c) ==
  /\ phase = "aborting" /\ Open(c)
  /\ End(c, "abort")
  /\ UNCHANGED <<phase, counters>>

BugDrained ==
  /\ phase \in {"draining", "aborting"} /\ taken = None
  /\ phase' = "flushing"
  /\ UNCHANGED <<conn, counters>>

(* Every connection has ended and run returns; the sweep job, a flush of   *)
(* which may be half done, is waited for.                                  *)
Drained ==
  /\ phase \in {"draining", "aborting"} /\ taken = None
  /\ \A c \in Conns : ~Open(c)
  /\ phase' = "flushing"
  /\ UNCHANGED <<conn, counters>>

(* The one flush of serve is over and the lock dropped.                    *)
Stop ==
  /\ phase = "flushing" /\ unflushed = {} /\ taken = None
  /\ phase' = "stopped"
  /\ UNCHANGED <<conn, counters>>

Next ==
  \/ \E c \in Conns :
       \/ Accept(c) \/ Send(c) \/ PollRead(c) \/ Call(c) \/ Answer(c) \/ ClientGone(c)
       \/ Told(c) \/ WindowEnds(c) \/ Graceful(c) \/ Abort(c)
  \/ \E r \in Reasons : AcceptError(r) \/ Take(r) \/ LastTake(r) \/ Write(r)
  \/ Shutdown \/ GraceEnds \/ Drained \/ Stop

(* Timers fire, an aborted task ends, and serve goes on; nothing is asked  *)
(* of clients or handlers.                                                 *)
Spec ==
  /\ Init /\ [][Next]_vars
  /\ WF_vars(GraceEnds) /\ WF_vars(Drained) /\ WF_vars(Stop)
  /\ \A c \in Conns : WF_vars(Abort(c))
  /\ \A r \in Reasons : WF_vars(LastTake(r)) /\ WF_vars(Write(r))

-----------------------------------------------------------------------------
(* Properties *)

(* A request begun before shutdown is answered before the server closes    *)
(* its connection, unless the grace period ends or the client leaves,      *)
(* wherever its halves were when shutdown began (Activity, run).  What was *)
(* read while the request before it was in flight looks idle: answered_at  *)
(* counts it.                                                              *)
NoRequestCut ==
  [][\A c \in Conns : Open(c) /\ conn'[c].end = "server" =>
       \/ conn[c].in_flight /\ conn[c].task = "closing"
       \/ ~conn[c].in_flight /\ ~conn[c].owed
       \/ conn[c].read > 0 /\ conn[c].read = conn[c].answered_at]_vars

(* Every rejection is logged once: none is lost or doubled by a rejection  *)
(* beside a flush, and none comes after the last flush, which serve makes  *)
(* once and without looking: all are logged when the server has stopped    *)
(* (Counters::take, serve).                                                *)
RejectionsLogged ==
  \A r \in Reasons :
    /\ logged[r] + taken[r] + counts[r] = rejected[r]
    /\ phase = "stopped" => logged[r] = rejected[r]

(* A server told to stop stops, whatever clients hold open and handlers    *)
(* wait for (run, SHUTDOWN_GRACE).                                         *)
ShutdownEnds == (phase = "draining") ~> (phase = "stopped")
=============================================================================
