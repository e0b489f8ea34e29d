--------------------------- MODULE A2AQueryProofs ---------------------------
(***************************************************************************)
(* What a delivery receipt is worth, for any number of queries, retries,   *)
(* redeployments, lost instances and failing calls: if receipts can be     *)
(* created, they are truthful, and an answer that was dealt with is on its *)
(* receipt.  And what shares the one document: a message is sent to the    *)
(* engine its session lives on, and answered within its budget.            *)
(***************************************************************************)
EXTENDS A2AQuery, TLAPS

\* Each field of the document, the receipts and the queries keeps its type.
THEOREM TypeCorrect == Spec => []TypeOK
<1> USE DEF TypeOK, Preparing, Request, Background, Begun, Statuses
<1>1. Init => TypeOK
  BY DEF Init, NoMark
<1>2. TypeOK /\ [Next]_vars => TypeOK'
  <2> SUFFICES ASSUME TypeOK, [Next]_vars PROVE TypeOK'
    OBVIOUS
  <2> USE DEF Goto, docVars, queryVars, receiptVars, NoMark
  <2>1. ASSUME NEW q \in Queries, Start(q) PROVE TypeOK'
    BY <2>1 DEF Start
  <2>2. ASSUME NEW q \in Queries, GetA2ASession(q) PROVE TypeOK'
    BY <2>2 DEF GetA2ASession
  <2>3. ASSUME NEW q \in Queries, DeleteA2ASession(q) \/ FreshSession(q) PROVE TypeOK'
    BY <2>3 DEF DeleteA2ASession, FreshSession
  <2>4. ASSUME NEW q \in Queries, MarkRunStarted(q) PROVE TypeOK'
    BY <2>4, BoundsAssumption DEF MarkRunStarted, WriteMark, Earlier
  <2>5. ASSUME NEW q \in Queries, OpenReceipt(q) PROVE TypeOK'
    BY <2>5 DEF OpenReceipt, UpdateReceipt
  <2>6. ASSUME NEW q \in Queries, SendMessage(q) PROVE TypeOK'
    BY <2>6 DEF SendMessage
  <2>7. ASSUME NEW q \in Queries, EngineBegins(q) PROVE TypeOK'
    BY <2>7 DEF EngineBegins, EngineStep
  <2>8. ASSUME NEW q \in Queries, EngineEnds(q) PROVE TypeOK'
    BY <2>8 DEF EngineEnds, EngineStep
  <2>9. ASSUME NEW q \in Queries, RecordDelivery(q) PROVE TypeOK'
    BY <2>9 DEF RecordDelivery, UpdateReceipt
  <2>10. ASSUME NEW q \in Queries, Replied(q) \/ EmptyOrFailed(q) \/ TimedOut(q) PROVE TypeOK'
    BY <2>10 DEF Replied, EmptyOrFailed, TimedOut, WriteMark
  <2>11. ASSUME NEW q \in Queries, CloseReceipt(q) PROVE TypeOK'
    BY <2>11 DEF CloseReceipt, UpdateReceipt
  <2>12. ASSUME NEW q \in Queries, LateReply(q) \/ ClearLate(q) \/ LateEnd(q) PROVE TypeOK'
    BY <2>12 DEF LateReply, ClearLate, LateEnd, UpdateReceipt, WriteMark
  <2>13. ASSUME NEW q \in Queries, QueryLost(q) PROVE TypeOK'
    BY <2>13 DEF QueryLost
  <2>14. ASSUME Redeploy \/ Tick PROVE TypeOK'
    BY <2>14 DEF Redeploy, Tick
  <2>15. ASSUME UNCHANGED vars PROVE TypeOK'
    BY <2>15 DEF vars
  <2>16. QED
    BY <2>1, <2>2, <2>3, <2>4, <2>5, <2>6, <2>7, <2>8, <2>9, <2>10, <2>11, <2>12, <2>13,
       <2>14, <2>15 DEF Next, Prepare, Finish, Engine
<1>3. QED
  BY <1>1, <1>2, PTL DEF Spec
-----------------------------------------------------------------------------
(* The inductive invariant of the receipts. *)

\* Until it is sent, a message is at rest: not sent, or nothing came back.
UnsentIsIdle ==
  \A q \in Queries : pc[q] \in {"idle"} \cup Preparing => run[q] \in {"idle", "dead"}

\* From the moment it is sent it has a receipt, and the engine has it.
SentHasReceipt ==
  \A q \in Queries :
    /\ pc[q] \in {"send", "wait", "tell"} \cup Background \cup {"done"} => told[q] # "none"
    /\ pc[q] \in {"wait", "tell"} \cup Background \cup {"done"} => run[q] # "idle"

\* A query that is over, but for its marker, has seen the end of its run.
OverIsOver ==
  \A q \in Queries : pc[q] \in {"unmark", "done"} => run[q] \notin {"sent", "heard"}

\* What a query is about to record is what it saw.
OutcomeFits ==
  \A q \in Queries : pc[q] = "tell" =>
    \/ out[q] = "replied" /\ run[q] = "text"
    \/ out[q] = "empty_reply" /\ run[q] \in {"dead", "silent"}
    \/ out[q] = "failed" /\ run[q] \in {"broken", "cut"}
    \/ out[q] = "timed_out"

\* A query whose reply is recorded records nothing more.
ReplyIsLast ==
  \A q \in Queries : told[q] = "replied" => pc[q] \in {"done", "unmark", "lost"}

\* Delivery is noted, or about to be, only when something came back.
NotedIsBegun ==
  \A q \in Queries : pending[q] \/ delivered[q] => run[q] \in Begun /\ told[q] # "none"

\* A query that dealt with an answer has it on its receipt.
AnswerRecorded ==
  \A q \in Queries : pc[q] \in {"unmark", "done"} /\ run[q] = "text"
                       => told[q] = "replied" \/ q \in missed

ReceiptInv == /\ TypeOK /\ UnsentIsIdle /\ SentHasReceipt /\ OutcomeFits
              /\ OverIsOver /\ ReplyIsLast /\ NotedIsBegun /\ AnswerRecorded

\* The relay goes on without a receipt only when creating one fails.
ReceiptsAreCreated == "create" \notin Faults

\* No step of a query, of the engine or of Cloud Run breaks it.
LEMMA ReceiptInvStep ==
  ASSUME ReceiptsAreCreated, ReceiptInv, TypeOK', [Next]_vars
  PROVE  ReceiptInv'
<1> DEFINE Parts == /\ UnsentIsIdle' /\ SentHasReceipt' /\ OutcomeFits'
                    /\ OverIsOver' /\ ReplyIsLast' /\ NotedIsBegun' /\ AnswerRecorded'
<1> SUFFICES Parts
  BY DEF ReceiptInv
<1> USE DEF ReceiptInv, TypeOK, UnsentIsIdle, SentHasReceipt, OutcomeFits, OverIsOver,
            ReplyIsLast, NotedIsBegun, AnswerRecorded, Preparing, Request, Background, Begun, Statuses,
            Goto, docVars, queryVars, receiptVars
<1>1. ASSUME NEW q \in Queries, Start(q) PROVE Parts
  BY <1>1 DEF Start
<1>2. ASSUME NEW q \in Queries, GetA2ASession(q) PROVE Parts
  BY <1>2 DEF GetA2ASession
<1>3. ASSUME NEW q \in Queries, DeleteA2ASession(q) \/ FreshSession(q) PROVE Parts
  BY <1>3 DEF DeleteA2ASession, FreshSession
<1>4. ASSUME NEW q \in Queries, MarkRunStarted(q) PROVE Parts
  BY <1>4 DEF MarkRunStarted, WriteMark
<1>5. ASSUME NEW q \in Queries, OpenReceipt(q) PROVE Parts
  BY <1>5 DEF OpenReceipt, UpdateReceipt, ReceiptsAreCreated
<1>6. ASSUME NEW q \in Queries, SendMessage(q) PROVE Parts
  BY <1>6 DEF SendMessage
<1>7. ASSUME NEW q \in Queries, EngineBegins(q) PROVE Parts
  BY <1>7 DEF EngineBegins, EngineStep
<1>8. ASSUME NEW q \in Queries, EngineEnds(q) PROVE Parts
  BY <1>8 DEF EngineEnds, EngineStep
<1>9. ASSUME NEW q \in Queries, RecordDelivery(q) PROVE Parts
  BY <1>9 DEF RecordDelivery, UpdateReceipt
<1>10. ASSUME NEW q \in Queries, Replied(q) \/ EmptyOrFailed(q) \/ TimedOut(q) PROVE Parts
  BY <1>10 DEF Replied, EmptyOrFailed, TimedOut, WriteMark
<1>11. ASSUME NEW q \in Queries, CloseReceipt(q) PROVE Parts
  BY <1>11 DEF CloseReceipt, UpdateReceipt, MayRetry
<1>12. ASSUME NEW q \in Queries, LateReply(q) PROVE Parts
  BY <1>12 DEF LateReply, UpdateReceipt
<1>13. ASSUME NEW q \in Queries, ClearLate(q) \/ LateEnd(q) PROVE Parts
  BY <1>13 DEF ClearLate, LateEnd, WriteMark
<1>14. ASSUME NEW q \in Queries, QueryLost(q) PROVE Parts
  BY <1>14 DEF QueryLost
<1>15. ASSUME Redeploy \/ Tick PROVE Parts
  BY <1>15 DEF Redeploy, Tick
<1>16. ASSUME UNCHANGED vars PROVE Parts
  BY <1>16 DEF vars
<1>17. QED
  BY <1>1, <1>2, <1>3, <1>4, <1>5, <1>6, <1>7, <1>8, <1>9, <1>10, <1>11, <1>12, <1>13,
     <1>14, <1>15, <1>16 DEF Next, Prepare, Finish, Engine

LEMMA ReceiptInvariant == ReceiptsAreCreated => (Spec => []ReceiptInv)
<1> SUFFICES ASSUME ReceiptsAreCreated PROVE Spec => []ReceiptInv
  OBVIOUS
<1>1. Init => ReceiptInv
  <2>1. Init => TypeOK
    BY DEF Init, NoMark, TypeOK, Preparing, Request, Background, Begun, Statuses
  <2>2. QED
    BY <2>1 DEF Init, ReceiptInv, UnsentIsIdle, SentHasReceipt, OutcomeFits, OverIsOver,
                ReplyIsLast, NotedIsBegun, AnswerRecorded, Preparing, Request, Background
<1>2. ReceiptInv /\ TypeOK' /\ [Next]_vars => ReceiptInv'
  BY ReceiptInvStep
<1>3. QED
  BY <1>1, <1>2, TypeCorrect, PTL DEF Spec

\* While receipts can be created, an answer that was dealt with, in time or late,
\* is on its receipt unless an update of the receipt failed.
THEOREM AnswersReachReceipts == ReceiptsAreCreated => (Spec => []AnswersAreTold)
<1>1. ReceiptInv => AnswersAreTold
  BY DEF ReceiptInv, AnswerRecorded, AnswersAreTold
<1>2. QED
  BY <1>1, ReceiptInvariant, PTL
-----------------------------------------------------------------------------
(* The refinement: what a step does to a message and its receipt. *)

\* The mapped steps of the receipts alone: the messages stay where they are.
LEMMA FatesStay ==
  ASSUME run' = run
  PROVE  FateOf' = FateOf
  BY DEF Fate, FateOf

\* A step of the engine, or of the query that sends, moves one message.
LEMMA FateMoves ==
  ASSUME TypeOK, NEW q \in Queries, NEW to, run' = [run EXCEPT ![q] = to]
  PROVE  FateOf'
           = [FateOf EXCEPT ![q] = Fate[to]]
  BY DEF TypeOK, Fate, FateOf

\* Each step of the queries is a step of DeliveryReceipt or leaves it unchanged.
LEMMA ReceiptStep ==
  ASSUME ReceiptsAreCreated, ReceiptInv, ReceiptInv', [Next]_vars
  PROVE  [Receipt!Next]_<<FateOf, told, delivered>>
<1> DEFINE Step == [Receipt!Next]_<<FateOf, told, delivered>>
<1> USE DEF ReceiptInv, TypeOK, Goto, docVars, queryVars, receiptVars
<1>1. ASSUME UNCHANGED <<run, told, delivered>> PROVE Step
  <2>1. FateOf' = FateOf
    BY <1>1, FatesStay
  <2>2. QED
    BY <1>1, <2>1
<1>2. ASSUME NEW q \in Queries, OpenReceipt(q) PROVE Step
  <2>1. run[q] \in {"idle", "dead"} /\ told[q] # "replied" /\ ~delivered[q]
    BY <1>2 DEF OpenReceipt, UnsentIsIdle, Preparing, ReplyIsLast, NotedIsBegun, Begun
  <2>2. FateOf[q] \in {"held", "unanswered"}
    BY <2>1 DEF Fate, FateOf
  <2>3. FateOf' = FateOf
    BY <1>2, FatesStay DEF OpenReceipt
  <2>4. delivered' = delivered
    BY <1>2, <2>1 DEF OpenReceipt, UpdateReceipt
  <2>5. told' = told \/ told' = [told EXCEPT ![q] = "sent"]
    BY <1>2 DEF OpenReceipt, UpdateReceipt
  <2>6. told' = [told EXCEPT ![q] = "sent"] => Receipt!Tell(q)
    BY <2>1, <2>2, <2>3, <2>4 DEF Receipt!Tell, Receipt!MayTell, Receipt!Statuses
  <2>7. QED
    BY <2>3, <2>4, <2>5, <2>6 DEF Receipt!Next
<1>3. ASSUME NEW q \in Queries, SendMessage(q) PROVE Step
  <2>1. run[q] \in {"idle", "dead"} /\ told[q] # "none"
    BY <1>3 DEF SendMessage, UnsentIsIdle, SentHasReceipt, Preparing
  <2>2. FateOf[q] \in {"held", "unanswered"} /\ Fate["sent"] = "sent"
    BY <2>1 DEF Fate, FateOf
  <2>3. FateOf' = [FateOf EXCEPT ![q] = "sent"]
    <3>1. FateOf' = [FateOf EXCEPT ![q] = Fate["sent"]]
      BY <1>3, FateMoves DEF SendMessage
    <3>2. QED
      BY <2>2, <3>1
  <2>4. Receipt!HandOver(q)
    BY <1>3, <2>1, <2>2, <2>3 DEF Receipt!HandOver, SendMessage
  <2>5. QED
    BY <2>4 DEF Receipt!Next
<1>4. ASSUME NEW q \in Queries, EngineBegins(q) \/ EngineEnds(q) PROVE Step
  <2>1. UNCHANGED <<told, delivered>>
    BY <1>4 DEF EngineBegins, EngineEnds, EngineStep
  <2>2. PICK to : /\ run' = [run EXCEPT ![q] = to]
                  /\ \/ run[q] = "sent" /\ to \in {"heard", "dead", "broken"}
                     \/ run[q] = "heard" /\ to \in {"text", "silent", "cut"}
    BY <1>4 DEF EngineBegins, EngineEnds, EngineStep
  <2>3. FateOf' = [FateOf EXCEPT ![q] = Fate[to]]
    BY <2>2, FateMoves
  <2>4. \/ FateOf[q] = "sent" /\ Fate[to] \in {"begun", "unanswered"}
        \/ FateOf[q] = "begun" /\ Fate[to] \in {"answered", "ended"}
    BY <2>2 DEF Fate, FateOf
  <2>5. Receipt!Handle(q)
    BY <2>1, <2>3, <2>4 DEF Receipt!Handle
  <2>6. QED
    BY <2>5 DEF Receipt!Next
<1>5. ASSUME NEW q \in Queries, RecordDelivery(q) PROVE Step
  <2>1. run[q] \in Begun /\ told[q] # "none"
    BY <1>5 DEF RecordDelivery, NotedIsBegun
  <2>2. FateOf[q] \in {"begun", "answered", "ended"}
    BY <2>1 DEF Fate, FateOf, Begun
  <2>3. FateOf' = FateOf
    BY <1>5, FatesStay DEF RecordDelivery
  <2>4. told' = told /\ (delivered' = delivered \/ delivered' = [delivered EXCEPT ![q] = TRUE])
    BY <1>5 DEF RecordDelivery, UpdateReceipt
  <2>5. delivered' = [delivered EXCEPT ![q] = TRUE] => Receipt!NoteDelivery(q)
    BY <2>1, <2>2, <2>3, <2>4 DEF Receipt!NoteDelivery
  <2>6. QED
    BY <2>3, <2>4, <2>5 DEF Receipt!Next
<1>6. ASSUME NEW q \in Queries, NEW status, UpdateReceipt(q, status, delivered[q]), run' = run,
             told[q] # "replied", status \in Receipt!Statuses, Receipt!MayTell(q, status)
      PROVE  Step
  <2>1. FateOf' = FateOf
    BY <1>6, FatesStay
  <2>2. delivered' = delivered
    BY <1>6 DEF UpdateReceipt
  <2>3. told' = told \/ (told[q] # "none" /\ told' = [told EXCEPT ![q] = status])
    BY <1>6 DEF UpdateReceipt
  <2>4. told[q] # "none" /\ told' = [told EXCEPT ![q] = status] => Receipt!Tell(q)
    BY <1>6, <2>1, <2>2 DEF Receipt!Tell
  <2>5. QED
    BY <2>1, <2>2, <2>3, <2>4 DEF Receipt!Next
<1>7. ASSUME NEW q \in Queries, CloseReceipt(q) PROVE Step
  <2>1. told[q] # "replied" /\ run[q] # "idle" /\ run' = run
    BY <1>7 DEF CloseReceipt, ReplyIsLast, SentHasReceipt, Background
  <2>2. UpdateReceipt(q, out[q], delivered[q])
    BY <1>7 DEF CloseReceipt
  <2>3. \/ out[q] = "replied" /\ run[q] = "text"
        \/ out[q] = "empty_reply" /\ run[q] \in {"dead", "silent"}
        \/ out[q] = "failed" /\ run[q] \in {"broken", "cut"}
        \/ out[q] = "timed_out"
    BY <1>7 DEF CloseReceipt, OutcomeFits
  <2>4. run[q] \in {"sent", "dead", "broken"} \cup Begun
    BY <2>1
  <2>5. Receipt!MayTell(q, out[q]) /\ out[q] \in Receipt!Statuses
    BY <2>3, <2>4 DEF Receipt!MayTell, Receipt!Statuses, Fate, FateOf, Begun
  <2>6. QED
    BY <1>6, <2>1, <2>2, <2>5
<1>8. ASSUME NEW q \in Queries, LateReply(q) PROVE Step
  <2>1. told[q] # "replied" /\ run[q] = "text" /\ run' = run
    BY <1>8 DEF LateReply, ReplyIsLast
  <2>2. UpdateReceipt(q, "replied", delivered[q])
    BY <1>8 DEF LateReply
  <2>3. Receipt!MayTell(q, "replied") /\ "replied" \in Receipt!Statuses
    BY <2>1 DEF Receipt!MayTell, Receipt!Statuses, Fate, FateOf
  <2>4. QED
    BY <1>6, <2>1, <2>2, <2>3
<1>9. ASSUME NEW q \in Queries,
             \/ Start(q) \/ GetA2ASession(q) \/ DeleteA2ASession(q) \/ FreshSession(q)
             \/ MarkRunStarted(q) \/ Replied(q) \/ EmptyOrFailed(q) \/ TimedOut(q)
             \/ ClearLate(q) \/ LateEnd(q) \/ QueryLost(q)
      PROVE  UNCHANGED <<run, told, delivered>>
  BY <1>9 DEF Start, GetA2ASession, DeleteA2ASession, FreshSession, MarkRunStarted, Replied,
              EmptyOrFailed, TimedOut, ClearLate, LateEnd, QueryLost
<1>10. ASSUME Redeploy \/ Tick \/ UNCHANGED vars PROVE UNCHANGED <<run, told, delivered>>
  BY <1>10 DEF Redeploy, Tick, vars
<1>11. QED
  BY <1>1, <1>2, <1>3, <1>4, <1>5, <1>7, <1>8, <1>9, <1>10
  DEF Next, Prepare, Finish, Engine

\* While receipts can be created they implement DeliveryReceipt: the receipt comes
\* before the message, no message is repeated once an answer has begun, no status
\* claims what did not happen, and a reply is never taken back.
THEOREM ReceiptsImplement == ReceiptsAreCreated => (Spec => ReceiptsAreTruthful)
<1> SUFFICES ASSUME ReceiptsAreCreated PROVE Spec => ReceiptsAreTruthful
  OBVIOUS
<1>1. Init => Receipt!Init
  BY DEF Init, Receipt!Init, Fate, FateOf
<1>2. ReceiptInv /\ ReceiptInv' /\ [Next]_vars
        => [Receipt!Next]_<<FateOf, told, delivered>>
  BY ReceiptStep
<1>3. QED
  BY <1>1, <1>2, ReceiptInvariant, PTL DEF Spec, ReceiptsAreTruthful, Receipt!Spec
-----------------------------------------------------------------------------
(* The document all queries share. *)

\* The session a query uses was made for the engine the query knows.
SessionsAreMade ==
  /\ sess # NoQuery => pc[sess] # "idle"
  /\ \A q \in Queries : pc[q] \in {"mark", "open", "send", "wait"} =>
       vs[q] \in Queries /\ pc[vs[q]] # "idle" /\ target[vs[q]] = target[q]

\* No wait goes beyond the budget of its request.
WithinBudget ==
  \A q \in Queries :
    /\ pc[q] \in Request => now <= start[q] + RequestBudget
    /\ pc[q] \in {"open", "send", "wait"} => until[q] <= start[q] + RequestBudget

\* A query that dealt with an answer has no marker in the document.
AnsweredUnmarked ==
  /\ sess = NoQuery => mark = NoMark
  /\ \A q \in Queries :
       (pc[q] = "tell" /\ out[q] = "replied") \/ (pc[q] = "done" /\ run[q] = "text")
         => mark.run # q

MarksAreCleared == "clear" \notin Faults

DocumentInv == /\ TypeOK /\ OutcomeFits /\ OverIsOver /\ SessionsAreMade /\ WithinBudget
               /\ MarksAreCleared => AnsweredUnmarked

\* No step of any query breaks what the others rely on.
LEMMA DocumentInvStep ==
  ASSUME DocumentInv, TypeOK', [Next]_vars
  PROVE  DocumentInv'
<1> DEFINE Parts == /\ OutcomeFits' /\ OverIsOver' /\ SessionsAreMade' /\ WithinBudget'
                    /\ MarksAreCleared => AnsweredUnmarked'
<1> SUFFICES Parts
  BY DEF DocumentInv, MarksAreCleared
<1> USE QueriesAssumption, BoundsAssumption
    DEF DocumentInv, TypeOK, OutcomeFits, OverIsOver, SessionsAreMade, WithinBudget,
        AnsweredUnmarked, NoMark, Preparing, Request, Background, Begun, Goto, docVars,
        queryVars, receiptVars
<1>1. ASSUME NEW q \in Queries, Start(q) PROVE Parts
  BY <1>1 DEF Start
<1>2. ASSUME NEW q \in Queries, GetA2ASession(q) PROVE Parts
  BY <1>2 DEF GetA2ASession
<1>3. ASSUME NEW q \in Queries, DeleteA2ASession(q) PROVE Parts
  BY <1>3 DEF DeleteA2ASession
<1>4. ASSUME NEW q \in Queries, FreshSession(q) PROVE Parts
  BY <1>4 DEF FreshSession
<1>5. ASSUME NEW q \in Queries, MarkRunStarted(q) PROVE Parts
  BY <1>5 DEF MarkRunStarted, WriteMark, Earlier
<1>6. ASSUME NEW q \in Queries, OpenReceipt(q) \/ SendMessage(q) PROVE Parts
  <2>1. CASE OpenReceipt(q)
    BY <2>1 DEF OpenReceipt
  <2>2. CASE SendMessage(q)
    BY <2>2 DEF SendMessage
  <2>3. QED
    BY <1>6, <2>1, <2>2
<1>7. ASSUME NEW q \in Queries, EngineBegins(q) \/ EngineEnds(q) PROVE Parts
  BY <1>7 DEF EngineBegins, EngineEnds, EngineStep
<1>8. ASSUME NEW q \in Queries, RecordDelivery(q) PROVE Parts
  BY <1>8 DEF RecordDelivery
<1>9. ASSUME NEW q \in Queries, Replied(q) PROVE Parts
  BY <1>9 DEF Replied, WriteMark, MarksAreCleared
<1>10. ASSUME NEW q \in Queries, EmptyOrFailed(q) PROVE Parts
  BY <1>10 DEF EmptyOrFailed
<1>11. ASSUME NEW q \in Queries, TimedOut(q) PROVE Parts
  BY <1>11 DEF TimedOut, WriteMark
<1>12. ASSUME NEW q \in Queries, CloseReceipt(q) PROVE Parts
  BY <1>12 DEF CloseReceipt, MayRetry
<1>13. ASSUME NEW q \in Queries, LateReply(q) \/ LateEnd(q) PROVE Parts
  BY <1>13 DEF LateReply, LateEnd
<1>14. ASSUME NEW q \in Queries, ClearLate(q) PROVE Parts
  BY <1>14 DEF ClearLate, WriteMark, MarksAreCleared
<1>15. ASSUME NEW q \in Queries, QueryLost(q) PROVE Parts
  BY <1>15 DEF QueryLost
<1>16. ASSUME Redeploy PROVE Parts
  BY <1>16 DEF Redeploy
<1>17. ASSUME Tick PROVE Parts
  BY <1>17, TimingAssumption DEF Tick
<1>18. ASSUME UNCHANGED vars PROVE Parts
  BY <1>18 DEF vars
<1>19. QED
  BY <1>1, <1>2, <1>3, <1>4, <1>5, <1>6, <1>7, <1>8, <1>9, <1>10, <1>11, <1>12, <1>13,
     <1>14, <1>15, <1>16, <1>17, <1>18 DEF Next, Prepare, Finish, Engine

LEMMA DocumentInvariant == Spec => []DocumentInv
<1>1. Init => DocumentInv
  <2>1. Init => TypeOK
    BY DEF Init, NoMark, TypeOK, Preparing, Request, Background, Begun, Statuses
  <2>2. QED
    BY <2>1, QueriesAssumption
    DEF Init, DocumentInv, OutcomeFits, OverIsOver, SessionsAreMade, WithinBudget,
        AnsweredUnmarked, NoMark, Preparing, Request
<1>2. DocumentInv /\ TypeOK' /\ [Next]_vars => DocumentInv'
  BY DocumentInvStep
<1>3. QED
  BY <1>1, <1>2, TypeCorrect, PTL DEF Spec

\* A message is sent with a session that lives on the engine it is sent to,
\* whatever redeployments and other queries do to the document meanwhile.
THEOREM MessagesReachTheirEngine == Spec => []QueriesReachTheirEngine
<1>1. DocumentInv => QueriesReachTheirEngine
  BY DEF DocumentInv, SessionsAreMade, QueriesReachTheirEngine
<1>2. QED
  BY <1>1, DocumentInvariant, PTL

\* A caller is answered within the budget of its request, however late the first
\* attempt failed and whether or not there is a second.
THEOREM BudgetIsKept == Spec => []AnsweredInBudget
<1>1. DocumentInv => AnsweredInBudget
  BY DEF DocumentInv, WithinBudget, AnsweredInBudget
<1>2. QED
  BY <1>1, DocumentInvariant, PTL

\* When clearing a marker does not fail, no later query takes an answered one
\* for cut off, although all of them write the same marker.
THEOREM OnlyUnansweredAreReported ==
  MarksAreCleared => (Spec => AnsweredQueriesNotReported)
<1> SUFFICES ASSUME MarksAreCleared PROVE Spec => AnsweredQueriesNotReported
  OBVIOUS
<1> DEFINE Unreported(q) ==
      pc[q] = "done" /\ run[q] = "text" /\ q \notin reports => q \notin reports'
<1>1. DocumentInv /\ [Next]_vars => [\A q \in Queries : Unreported(q)]_vars
  <2> SUFFICES ASSUME DocumentInv, [Next]_vars, NEW q \in Queries,
                      pc[q] = "done", run[q] = "text", q \notin reports
               PROVE  q \notin reports'
    BY DEF vars
  <2>1. mark.run # q
    BY DEF DocumentInv, AnsweredUnmarked
  <2>2. reports' = reports \/ reports' = reports \cup {mark.run}
    BY DEF Next, Start, Prepare, Finish, Engine, GetA2ASession, DeleteA2ASession,
           FreshSession, MarkRunStarted, OpenReceipt, SendMessage, EngineBegins, EngineEnds,
           EngineStep, RecordDelivery, Replied, EmptyOrFailed, TimedOut, CloseReceipt,
           LateReply, ClearLate, LateEnd, QueryLost, Redeploy, Tick, vars
  <2>3. QED
    BY <2>1, <2>2
<1>2. QED
  BY <1>1, DocumentInvariant, PTL DEF Spec, AnsweredQueriesNotReported
=============================================================================
