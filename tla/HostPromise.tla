----------------------------- MODULE HostPromise -----------------------------
(***************************************************************************)
(* What the in-memory host map promises about the projects table: requests *)
(* are routed by the table as some commit left it, and never by an older   *)
(* commit than before.                                                     *)
(***************************************************************************)
EXTENDS Naturals, Sequences

VARIABLES
  log,    \* the table's contents after each commit, the first before any
  shown   \* the commit requests are routed by

vars == <<log, shown>>

Init == Len(log) = 1 /\ shown = 1

(* A transaction that changes the table commits. *)
Commit ==
  /\ Len(log') = Len(log) + 1
  /\ SubSeq(log', 1, Len(log)) = log
  /\ UNCHANGED shown

(* A rebuild, or a start, shows a commit at least as new. *)
Show == shown' \in shown..Len(log) /\ UNCHANGED log

Next == Commit \/ Show

Spec == Init /\ [][Next]_vars
=============================================================================
