-------------------------- MODULE DeliveryReceipt --------------------------
(***************************************************************************)
(* What a delivery receipt may claim about a message one agent sent to     *)
(* another (docs/FOR_AGENT_DEVELOPERS.md, "Delivery receipts").  Only the  *)
(* message and its receipt appear here: no session, marker, clock, attempt *)
(* or background task.                                                     *)
(***************************************************************************)
CONSTANT Queries

VARIABLES
  message,    \* what became of the message at the target's engine
  told,       \* the status on the receipt; "none": there is no receipt
  delivered   \* whether the receipt says that the engine has the message

Init == /\ message = [q \in Queries |-> "held"]
        /\ told = [q \in Queries |-> "none"]
        /\ delivered = [q \in Queries |-> FALSE]

\* The receipt comes first, and the message is sent again only if nothing came
\* back from the attempt before.
HandOver(q) ==
  /\ told[q] # "none" /\ message[q] \in {"held", "unanswered"}
  /\ message' = [message EXCEPT ![q] = "sent"]
  /\ UNCHANGED <<told, delivered>>

\* The engine begins to answer and ends, or ends without having begun.
Handle(q) ==
  /\ \/ message[q] = "sent" /\ message' = [message EXCEPT ![q] = "begun"]
     \/ message[q] = "sent" /\ message' = [message EXCEPT ![q] = "unanswered"]
     \/ \E end \in {"answered", "ended"} :
          message[q] = "begun" /\ message' = [message EXCEPT ![q] = end]
  /\ UNCHANGED <<told, delivered>>

\* When each status may be written on a receipt; a reply is never taken back.
MayTell(q, status) ==
  \/ status = "sent"      /\ message[q] \in {"held", "unanswered"}
  \/ status = "replied"   /\ message[q] = "answered"
  \/ status = "timed_out" /\ message[q] # "held"
  \/ status \in {"empty_reply", "failed"} /\ message[q] \in {"unanswered", "ended"}

Statuses == {"sent", "replied", "timed_out", "empty_reply", "failed"}

Tell(q) ==
  /\ told[q] # "replied"
  /\ \E status \in Statuses :
       /\ told[q] = "none" => status = "sent"
       /\ MayTell(q, status)
       /\ told' = [told EXCEPT ![q] = status]
  /\ UNCHANGED <<message, delivered>>

\* Delivery is claimed only when the engine has begun to answer.
NoteDelivery(q) ==
  /\ told[q] # "none" /\ message[q] \in {"begun", "answered", "ended"}
  /\ delivered' = [delivered EXCEPT ![q] = TRUE]
  /\ UNCHANGED <<message, told>>

Next == \E q \in Queries : HandOver(q) \/ Handle(q) \/ Tell(q) \/ NoteDelivery(q)

Spec == Init /\ [][Next]_<<message, told, delivered>>
=============================================================================
