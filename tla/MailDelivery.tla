---------------------------- MODULE MailDelivery ----------------------------
(***************************************************************************)
(* What the outbox promises, without rows, clocks, retries or a worker:    *)
(* every mail has one fate, at most one mail is being sent at a time, a    *)
(* mail whose fate is settled is never sent again, and a mail counts as    *)
(* sent only when the SMTP server accepted it.                             *)
(***************************************************************************)
CONSTANT Ids                 \* row ids; never reused

VARIABLES fate,              \* what became of each mail
          delivered,         \* mails the SMTP server accepted at least once
          sending            \* the mail being sent, at most one

vars == <<fate, delivered, sending>>

Fates == {"none", "queued", "sent", "given_up", "discarded"}

TypeOK ==
  /\ fate \in [Ids -> Fates]
  /\ delivered \subseteq Ids
  /\ sending \subseteq Ids

Init ==
  /\ fate = [i \in Ids |-> "none"]
  /\ delivered = {}
  /\ sending = {}

(* A transaction that queues a mail commits. *)
Queue(i) ==
  /\ fate[i] = "none"
  /\ fate' = [fate EXCEPT ![i] = "queued"]
  /\ UNCHANGED <<delivered, sending>>

(* Mails past their deadline are given up and placeholders dropped, and,   *)
(* with `next', one of those still queued starts to be sent.               *)
Settle(gone, dropped, next) ==
  /\ \A i \in gone \cup dropped : fate[i] = "queued"
  /\ fate' = [i \in Ids |-> IF i \in gone THEN "given_up"
                            ELSE IF i \in dropped THEN "discarded" ELSE fate[i]]
  /\ next # sending => sending = {}
  /\ next # sending => \E i \in Ids : next = {i} /\ fate'[i] = "queued"
  /\ sending' = next
  /\ UNCHANGED delivered

(* The server takes the message of the mail being sent. *)
Accept(i) ==
  /\ i \in sending
  /\ delivered' = delivered \cup {i}
  /\ UNCHANGED <<fate, sending>>

(* The attempt is over: its mail is recorded as sent, given up, or keeps   *)
(* the fate it has (it is retried, or was settled meanwhile).              *)
Finish(i) ==
  /\ i \in sending
  /\ sending' = {}
  /\ \/ fate[i] = "queued" /\ i \in delivered /\ fate' = [fate EXCEPT ![i] = "sent"]
     \/ fate[i] = "queued" /\ fate' = [fate EXCEPT ![i] = "given_up"]
     \/ fate' = fate
  /\ UNCHANGED delivered

Next ==
  \/ \E i \in Ids : Queue(i) \/ Accept(i) \/ Finish(i)
  \/ \E gone, dropped, next \in SUBSET Ids : Settle(gone, dropped, next)

Spec == Init /\ [][Next]_vars
=============================================================================
