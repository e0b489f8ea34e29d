------------------------------ MODULE A2AQuery ------------------------------
(***************************************************************************)
(* The queries of one agent to another on behalf of one user.              *)
(*                                                                         *)
(* A query is one call of the tool query_agent                             *)
(* (api/v1/agents_mcp.py).  All queries of a (caller, target, user) share  *)
(* one Firestore document, which names the Agent Engine session of their   *)
(* conversation and carries one run marker; each has a delivery receipt of *)
(* its own in a subcollection.  A query that stops waiting answers its     *)
(* caller and goes on listening in the background.                         *)
(*                                                                         *)
(* Every `await` ends an action.  The engine is external.  What the healer *)
(* writes into the session when recovery calls it is in SessionRuns.       *)
(***************************************************************************)
EXTENDS Naturals, FiniteSets

CONSTANTS
  Queries,        \* the calls of query_agent
  NoQuery,        \* not a query
  QueryTimeout,   \* QUERY_TIMEOUT_SECONDS
  RequestBudget,  \* REQUEST_BUDGET_SECONDS
  MinRetry,       \* MIN_RETRY_SECONDS
  CutOffAfter,    \* cut_off_after_seconds
  StepLimit,      \* how long a query takes up to its first attempt
  MaxDeploys,     \* bound on the redeployments of the target
  MaxLost,        \* bound on the queries lost with their instance
  Faults,         \* which best-effort Firestore calls may fail
  MaxTime         \* bound on the clock

ASSUME QueriesAssumption == NoQuery \notin Queries

ASSUME BoundsAssumption ==
  /\ {QueryTimeout, RequestBudget, MinRetry, CutOffAfter, StepLimit,
      MaxDeploys, MaxLost, MaxTime} \subseteq Nat
  /\ Faults \subseteq {"read", "save", "drop", "mark", "clear", "create", "update"}

\* A query gets to its first attempt within its budget.
ASSUME TimingAssumption == StepLimit <= RequestBudget

VARIABLES
  now,        \* the clock
  engine,     \* the target's engine: a redeployment gives it another
  sess,       \* the session the document names, after the query that made it
  mark,       \* active_run of the document
  pc,         \* where each query is
  start,      \* when it started: sent_at, and RequestBudget before its deadline
  target,     \* the target's engine as the query read it
  vs,         \* the session the query uses
  until,      \* when its attempt stops waiting
  run,        \* what the engine makes of the message
  out,        \* the outcome the query is about to record
  told,       \* the status on its receipt
  delivered,  \* whether its receipt has a delivered_at
  pending,    \* whether the task that writes delivered_at is still to run
  missed,     \* the queries that had an update of their receipt fail
  reports     \* the runs a run_cut_off event was logged for

docVars     == <<sess, mark>>
queryVars   == <<start, target, vs, until, out>>
receiptVars == <<told, delivered, missed>>
vars == <<now, engine, docVars, pc, queryVars, run, receiptVars, pending, reports>>

NoMark == [run |-> NoQuery, at |-> 0]

\* The awaits of the request, and those of the tasks it leaves behind.
Preparing  == {"read", "drop", "create", "mark", "open", "send"}
Request    == Preparing \cup {"wait", "tell"}
Background == {"listen", "unmark"}

\* The engine has sent something back.
Begun == {"heard", "text", "silent", "cut"}

Earlier(a, b) == IF a < b THEN a ELSE b

Init ==
  /\ now = 1 /\ engine = 1
  /\ sess = NoQuery /\ mark = NoMark
  /\ pc = [q \in Queries |-> "idle"]
  /\ start = [q \in Queries |-> 0]
  /\ target = [q \in Queries |-> 0]
  /\ vs = [q \in Queries |-> NoQuery]
  /\ until = [q \in Queries |-> 0]
  /\ run = [q \in Queries |-> "idle"]
  /\ out = [q \in Queries |-> "none"]
  /\ told = [q \in Queries |-> "none"]
  /\ delivered = [q \in Queries |-> FALSE]
  /\ pending = [q \in Queries |-> FALSE]
  /\ missed = {} /\ reports = {}

Goto(q, from, to) == pc[q] = from /\ pc' = [pc EXCEPT ![q] = to]
-----------------------------------------------------------------------------
(* The session document *)

\* _handle_query_agent up to reading the document: the target is what it was then.
Start(q) ==
  /\ Goto(q, "idle", "read")
  /\ start' = [start EXCEPT ![q] = now]
  /\ target' = [target EXCEPT ![q] = engine]
  /\ UNCHANGED <<now, engine, docVars, vs, until, out, run, receiptVars, pending, reports>>

\* Mutant: whatever session is stored is used, on whatever engine it lives.
GetSessionOfAnyEngine(q) ==
  /\ pc[q] = "read"
  /\ \/ /\ sess # NoQuery
        /\ Goto(q, "read", "mark")
        /\ vs' = [vs EXCEPT ![q] = sess]
     \/ /\ sess = NoQuery
        /\ Goto(q, "read", "create")
        /\ UNCHANGED vs
  /\ UNCHANGED <<now, engine, docVars, start, target, until, out, run, receiptVars,
                 pending, reports>>

\* describe_cut_off of the marker just read.
CutOff == mark # NoMark /\ now >= mark.at + CutOffAfter

\* get_a2a_session: go on in the stored session if it lives on the target's
\* engine, after recovery from a run that was cut off; drop it if it does not.  A
\* failed read finds nothing.
GetA2ASession(q) ==
  /\ pc[q] = "read"
  /\ \/ /\ sess # NoQuery /\ target[sess] = target[q]
        /\ Goto(q, "read", "mark")
        /\ vs' = [vs EXCEPT ![q] = sess]
        /\ reports' = IF CutOff THEN reports \cup {mark.run} ELSE reports
     \/ /\ sess # NoQuery /\ target[sess] # target[q]
        /\ Goto(q, "read", "drop")
        /\ UNCHANGED <<vs, reports>>
     \/ /\ sess = NoQuery \/ "read" \in Faults
        /\ Goto(q, "read", "create")
        /\ UNCHANGED <<vs, reports>>
  /\ UNCHANGED <<now, engine, docVars, start, target, until, out, run, receiptVars, pending>>

\* delete_a2a_session deletes whatever is there by now.
DeleteA2ASession(q) ==
  /\ Goto(q, "drop", "create")
  /\ \/ sess' = NoQuery /\ mark' = NoMark
     \/ "drop" \in Faults /\ UNCHANGED docVars
  /\ UNCHANGED <<now, engine, queryVars, run, receiptVars, pending, reports>>

\* _fresh_session: a new session on the engine the query knows, then a plain set
\* over whatever document is there.
FreshSession(q) ==
  /\ Goto(q, "create", "mark")
  /\ vs' = [vs EXCEPT ![q] = q]
  /\ \/ sess' = q /\ mark' = NoMark
     \/ "save" \in Faults /\ UNCHANGED docVars
  /\ UNCHANGED <<now, engine, start, target, until, out, run, receiptVars, pending, reports>>

\* mark_run_started and clear_active_run are updates: they fail, silently, when
\* the document is gone, and may fail for any other reason.
WriteMark(m, name) ==
  /\ \/ sess # NoQuery /\ mark' = m
     \/ sess = NoQuery /\ mark' = mark
     \/ name \in Faults /\ mark' = mark
  /\ UNCHANGED sess

\* Mutant: the second attempt waits as long as the first, whatever is left.
MarkRunStartedNoDeadline(q) ==
  /\ Goto(q, "mark", "open")
  /\ WriteMark([run |-> q, at |-> now], "mark")
  /\ until' = [until EXCEPT ![q] = now + QueryTimeout]
  /\ UNCHANGED <<now, engine, start, target, vs, out, run, receiptVars, pending, reports>>

\* Mutant: the marker is written without its start time.
MarkRunStartedUndated(q) ==
  /\ Goto(q, "mark", "open")
  /\ WriteMark([run |-> q], "mark")
  /\ until' = [until EXCEPT ![q] = Earlier(now + QueryTimeout, start[q] + RequestBudget)]
  /\ UNCHANGED <<now, engine, start, target, vs, out, run, receiptVars, pending, reports>>

\* _query marks the run and computes how long it may wait.
MarkRunStarted(q) ==
  /\ Goto(q, "mark", "open")
  /\ WriteMark([run |-> q, at |-> now], "mark")
  /\ until' = [until EXCEPT ![q] = Earlier(now + QueryTimeout, start[q] + RequestBudget)]
  /\ UNCHANGED <<now, engine, start, target, vs, out, run, receiptVars, pending, reports>>
-----------------------------------------------------------------------------
(* The message and its receipt *)

\* _QueryRecord._update: nothing without a receipt, and a failure is swallowed.
UpdateReceipt(q, status, flag) ==
  \/ /\ told[q] # "none"
     /\ told' = [told EXCEPT ![q] = status]
     /\ delivered' = [delivered EXCEPT ![q] = flag]
     /\ UNCHANGED missed
  \/ /\ told[q] = "none"
     /\ UNCHANGED receiptVars
  \/ /\ told[q] # "none" /\ "update" \in Faults
     /\ missed' = missed \cup {q}
     /\ UNCHANGED <<told, delivered>>

\* _QueryRecord.opened creates the receipt or, for the second attempt, reopens it.
\* The relay carries on when it cannot.
OpenReceipt(q) ==
  /\ Goto(q, "open", "send")
  /\ \/ /\ told[q] = "none"
        /\ told' = [told EXCEPT ![q] = "sent"]
        /\ UNCHANGED <<delivered, missed>>
     \/ /\ told[q] = "none" /\ "create" \in Faults
        /\ UNCHANGED receiptVars
     \/ /\ told[q] # "none"
        /\ UpdateReceipt(q, "sent", FALSE)
  /\ UNCHANGED <<now, engine, docVars, queryVars, run, pending, reports>>

\* vertex_ai.send_message, as a task of its own.
SendMessage(q) ==
  /\ Goto(q, "send", "wait")
  /\ run' = [run EXCEPT ![q] = "sent"]
  /\ UNCHANGED <<now, engine, docVars, queryVars, receiptVars, pending, reports>>

EngineStep(q, from, to) ==
  /\ run[q] = from
  /\ run' = [run EXCEPT ![q] = to]
  /\ UNCHANGED <<now, engine, docVars, pc, queryVars, receiptVars, reports>>

\* The first chunk: delivered() spawns the task that writes delivered_at.
EngineBegins(q) ==
  /\ EngineStep(q, "sent", "heard")
  /\ pending' = [pending EXCEPT ![q] = told[q] # "none" /\ pc[q] # "lost"]

\* The stream ends: without a chunk, as for a session that is gone; with text;
\* without text; or with an error, before or after its first chunk.
EngineEnds(q) ==
  /\ \/ EngineStep(q, "sent", "dead") \/ EngineStep(q, "sent", "broken")
     \/ EngineStep(q, "heard", "text") \/ EngineStep(q, "heard", "silent")
     \/ EngineStep(q, "heard", "cut")
  /\ UNCHANGED pending

\* The task that delivered() spawned writes delivered_at only.
RecordDelivery(q) ==
  /\ pending[q] /\ pc[q] # "lost"
  /\ pending' = [pending EXCEPT ![q] = FALSE]
  /\ UpdateReceipt(q, told[q], TRUE)
  /\ UNCHANGED <<now, engine, docVars, pc, queryVars, run, reports>>
-----------------------------------------------------------------------------
(* The outcome *)

\* A reply in time: the marker is cleared, then the receipt is closed.
Replied(q) ==
  /\ run[q] = "text"
  /\ Goto(q, "wait", "tell")
  /\ out' = [out EXCEPT ![q] = "replied"]
  /\ WriteMark(NoMark, "clear")
  /\ UNCHANGED <<now, engine, start, target, vs, until, run, receiptVars, pending, reports>>

\* An empty reply or an error leaves the marker.
EmptyOrFailed(q) ==
  /\ run[q] \in {"dead", "silent", "broken", "cut"}
  /\ Goto(q, "wait", "tell")
  /\ out' = [out EXCEPT ![q] = IF run[q] \in {"dead", "silent"} THEN "empty_reply" ELSE "failed"]
  /\ UNCHANGED <<now, engine, docVars, start, target, vs, until, run, receiptVars, pending,
                 reports>>

\* The wait is over and the engine still at work: the marker is written anew.
TimedOut(q) ==
  /\ run[q] \in {"sent", "heard"} /\ now = until[q]
  /\ Goto(q, "wait", "tell")
  /\ out' = [out EXCEPT ![q] = "timed_out"]
  /\ WriteMark([run |-> q, at |-> now], "mark")
  /\ UNCHANGED <<now, engine, start, target, vs, until, run, receiptVars, pending, reports>>

\* Mutant: any empty reply is taken for a dead session.
MayRetryAnyEmpty(q) ==
  /\ run[q] \in {"dead", "silent"} /\ vs[q] # q
  /\ now + MinRetry <= start[q] + RequestBudget

\* The dead-session retry: no chunk from a session that was stored, and enough
\* of the request left.
MayRetry(q) ==
  /\ run[q] = "dead" /\ vs[q] # q
  /\ now + MinRetry <= start[q] + RequestBudget

\* The receipt is closed.  Then the query drops its session for a second attempt,
\* goes on listening, or is over.
CloseReceipt(q) ==
  /\ \/ out[q] = "timed_out" /\ Goto(q, "tell", "listen")
     \/ out[q] # "timed_out" /\ MayRetry(q) /\ Goto(q, "tell", "drop")
     \/ out[q] # "timed_out" /\ ~MayRetry(q) /\ Goto(q, "tell", "done")
  /\ UpdateReceipt(q, out[q], delivered[q])
  /\ UNCHANGED <<now, engine, docVars, queryVars, run, pending, reports>>

\* Mutant: a reply that comes late is stored, and the marker stays.
LateReplyKeepsMark(q) ==
  /\ run[q] = "text"
  /\ Goto(q, "listen", "done")
  /\ UpdateReceipt(q, "replied", delivered[q])
  /\ UNCHANGED <<now, engine, docVars, queryVars, run, pending, reports>>

\* Mutant: the callback stores only that the stream has ended.
LateReplyKeepsStatus(q) ==
  /\ run[q] = "text"
  /\ Goto(q, "listen", "unmark")
  /\ UpdateReceipt(q, told[q], delivered[q])
  /\ UNCHANGED <<now, engine, docVars, queryVars, run, pending, reports>>

\* collect_late_reply, _late_reply: the reply goes on the receipt...
LateReply(q) ==
  /\ run[q] = "text"
  /\ Goto(q, "listen", "unmark")
  /\ UpdateReceipt(q, "replied", delivered[q])
  /\ UNCHANGED <<now, engine, docVars, queryVars, run, pending, reports>>

\* ... and the marker is cleared, whosever it is by now.
ClearLate(q) ==
  /\ Goto(q, "unmark", "done")
  /\ WriteMark(NoMark, "clear")
  /\ UNCHANGED <<now, engine, queryVars, run, receiptVars, pending, reports>>

\* Any other late end adds an error to the receipt and leaves its status.
LateEnd(q) ==
  /\ run[q] \in {"dead", "silent", "broken", "cut"}
  /\ Goto(q, "listen", "done")
  /\ UNCHANGED <<now, engine, docVars, queryVars, run, receiptVars, pending, reports>>
-----------------------------------------------------------------------------
(* Cloud Run, deployments and time *)

\* The instance is reclaimed, with its background tasks (the engine is not
\* told), or the new session could not be created and the call raised.
QueryLost(q) ==
  /\ pc[q] \in Request \cup Background
  /\ Cardinality({r \in Queries : pc[r] = "lost"}) < MaxLost
  /\ Goto(q, pc[q], "lost")
  /\ UNCHANGED <<now, engine, docVars, queryVars, run, receiptVars, pending, reports>>

Redeploy ==
  /\ engine <= MaxDeploys
  /\ engine' = engine + 1
  /\ UNCHANGED <<now, docVars, pc, queryVars, run, receiptVars, pending, reports>>

\* Time passes while a query waits, and before its first attempt, within
\* StepLimit (a session is created, or recovery lists one); its other calls take
\* none.
Tick ==
  /\ now < MaxTime
  /\ \A q \in Queries : pc[q] \in Request =>
       \/ pc[q] = "mark" /\ run[q] = "idle" /\ now < start[q] + StepLimit
       \/ pc[q] = "wait" /\ now < until[q]
  /\ now' = now + 1
  /\ UNCHANGED <<engine, docVars, pc, queryVars, run, receiptVars, pending, reports>>

Prepare(q) == \/ GetA2ASession(q) \/ DeleteA2ASession(q) \/ FreshSession(q)
              \/ MarkRunStarted(q) \/ OpenReceipt(q) \/ SendMessage(q)
Finish(q)  == \/ Replied(q) \/ EmptyOrFailed(q) \/ TimedOut(q) \/ CloseReceipt(q)
              \/ LateReply(q) \/ ClearLate(q) \/ LateEnd(q)
Engine(q)  == EngineBegins(q) \/ EngineEnds(q)

Next ==
  \/ Tick \/ Redeploy
  \/ \E q \in Queries : \/ Start(q) \/ Prepare(q) \/ Finish(q) \/ RecordDelivery(q)
                        \/ Engine(q) \/ QueryLost(q)

Spec == Init /\ [][Next]_vars
-----------------------------------------------------------------------------
(* Properties *)

Statuses == {"none", "sent", "replied", "empty_reply", "timed_out", "failed"}

\* Every variable of the queries, the document and the receipts has its type.
TypeOK ==
  /\ now \in Nat /\ engine \in Nat
  /\ sess \in Queries \cup {NoQuery}
  /\ mark \in [run : Queries \cup {NoQuery}, at : Nat]
  /\ pc \in [Queries -> {"idle", "done", "lost"} \cup Request \cup Background]
  /\ start \in [Queries -> Nat] /\ target \in [Queries -> Nat] /\ until \in [Queries -> Nat]
  /\ vs \in [Queries -> Queries \cup {NoQuery}]
  /\ run \in [Queries -> {"idle", "sent", "dead", "broken"} \cup Begun]
  /\ out \in [Queries -> {"none", "replied", "empty_reply", "timed_out", "failed"}]
  /\ told \in [Queries -> Statuses]
  /\ delivered \in [Queries -> BOOLEAN] /\ pending \in [Queries -> BOOLEAN]
  /\ missed \subseteq Queries /\ reports \subseteq Queries \cup {NoQuery}

\* The message and its receipt, as the abstract specification sees them.
Fate == [idle   |-> "held",  sent |-> "sent",  heard  |-> "begun", text |-> "answered",
         silent |-> "ended", cut  |-> "ended", dead   |-> "unanswered",
         broken |-> "unanswered"]

FateOf == [q \in Queries |-> Fate[run[q]]]

Receipt == INSTANCE DeliveryReceipt WITH message <- FateOf

\* While receipts can be created, they keep the promise of DeliveryReceipt, with
\* retries, late replies, background writes and lost updates: the receipt comes
\* before the message, the message is not repeated once an answer has begun, a
\* status never claims what did not happen, and a reply is never taken back.
ReceiptsAreTruthful == Receipt!Spec

\* A message is sent with a session that lives on the engine it is sent to,
\* however redeployments and other queries change the document.
QueriesReachTheirEngine ==
  \A q \in Queries : pc[q] \in {"send", "wait"} => target[vs[q]] = target[q]

\* The caller is answered within the budget of its request, retry included.
AnsweredInBudget ==
  \A q \in Queries : pc[q] \in Request => now <= start[q] + RequestBudget

\* A query whose answer came, in time or late, and was dealt with, is not logged
\* as cut off by a later one.
AnsweredQueriesNotReported ==
  [][\A q \in Queries : pc[q] = "done" /\ run[q] = "text" /\ q \notin reports
                          => q \notin reports']_vars

\* When a query is over, an answer that came, in time or late, is on its receipt,
\* unless an update of the receipt failed.
AnswersAreTold ==
  \A q \in Queries : pc[q] = "done" /\ run[q] = "text" => told[q] = "replied" \/ q \in missed

\* A query that left no record never reached the target's engine.
NoRecordNotSent ==
  \A q \in Queries : told[q] = "none" => run[q] = "idle"
=============================================================================
