-------------------------------- MODULE Mailbox --------------------------------
(***************************************************************************)
(* One agent's mailbox file (tasks/mailbox.py) as a value, and the body of *)
(* each operation under the file's lock as an operator on it.              *)
(*                                                                         *)
(* A mailbox maps each message that can be sent to it to what the file     *)
(* says of it; "absent" is a message that is not in the file.  A message   *)
(* stands for its dedupe key, so sending it again finds the first one.     *)
(* Compaction, which forgets old acknowledged messages, is left out: it    *)
(* waits for 1000 messages and a day.                                      *)
(***************************************************************************)
EXTENDS Naturals

\* max_delivery_attempts of the FileMailbox.
CONSTANT MaxDelivery
ASSUME MaxDeliveryAssumption == MaxDelivery \in Nat \ {0}

MessageStatus == {"absent", "pending", "processing", "acked", "dead_letter"}

\* live: lease_expires_at is still ahead.
Absent == [status |-> "absent", owner |-> 0, attempts |-> 0, live |-> FALSE]
Pending(e) == [e EXCEPT !.status = "pending", !.owner = 0, !.live = FALSE]

Message(Owners) ==
  [status : MessageStatus, owner : Owners \cup {0}, attempts : 0..MaxDelivery, live : BOOLEAN]

\* send(): an existing message with the key is returned, whatever its status.
Sent(box, m) == IF box[m].status = "absent" THEN [box EXCEPT ![m] = Pending(@)] ELSE box

\* The first loop of claim(): a lapsed claim is pending again, and a message
\* that was handed out often enough becomes a dead letter.
Recovered(e) ==
  LET free == IF e.status = "processing" /\ ~e.live THEN Pending(e) ELSE e IN
    IF free.status = "pending" /\ free.attempts >= MaxDelivery
      THEN [free EXCEPT !.status = "dead_letter"] ELSE free

Claimable(box) == {m \in DOMAIN box : Recovered(box[m]).status = "pending"}

\* claim(): everything pending, the limit of 20 being out of the models' reach.
Claimed(box, who) ==
  [m \in DOMAIN box |->
     LET e == Recovered(box[m]) IN
       IF e.status = "pending"
         THEN [status |-> "processing", owner |-> who, attempts |-> e.attempts + 1, live |-> TRUE]
         ELSE e]

\* ack() raises unless the caller still owns every message it names; it does
\* not look at the expiry.
OwnsClaims(box, who, ms) ==
  \A m \in ms : box[m].status = "processing" /\ box[m].owner = who

Acked(box, ms) ==
  [m \in DOMAIN box |->
     IF m \in ms THEN [box[m] EXCEPT !.status = "acked", !.owner = 0, !.live = FALSE]
                 ELSE box[m]]

\* claim_lease_seconds pass.
Lapsed(box, m) == [box EXCEPT ![m].live = FALSE]
===============================================================================
