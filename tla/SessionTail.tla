---------------------------- MODULE SessionTail ----------------------------
(***************************************************************************)
(* What app/services/session_healer.py reads off the tail of an Agent      *)
(* Engine session.  A session is a sequence of events, oldest first.  Only *)
(* what the healer tells apart is kept of an event: the tool calls it      *)
(* makes, the calls it answers, whether it carries anything else (text),   *)
(* and which of its calls ADK flagged as long-running.                     *)
(***************************************************************************)
EXTENDS Naturals, Sequences

CONSTANT Calls    \* the ids of function_call parts

Event == [calls : SUBSET Calls, answers : SUBSET Calls, text : BOOLEAN,
          longRunning : SUBSET Calls]

TextEvent ==
  [calls |-> {}, answers |-> {}, text |-> TRUE, longRunning |-> {}]

CallEvent(cs, lr) ==
  [calls |-> cs, answers |-> {}, text |-> FALSE, longRunning |-> lr]

\* build_heal_event makes the shape of the engine's own merged answers: one
\* event that carries every response.
AnswerEvent(cs) ==
  [calls |-> {}, answers |-> cs, text |-> FALSE, longRunning |-> {}]

Answered(events) == UNION {events[i].answers : i \in DOMAIN events}

\* The position of the last event that makes a call (a set: there may be none).
LastCall(events) ==
  {i \in DOMAIN events :
     /\ events[i].calls # {}
     /\ \A j \in DOMAIN events : j > i => events[j].calls = {}}

\* _only_answers_follow: nothing but function_response parts since event i.
OnlyAnswersFollow(events, i) ==
  \A j \in DOMAIN events : j > i => events[j].calls = {} /\ ~events[j].text

\* The unanswered calls of the last call event, unless the model spoke since.
Unanswered(events) ==
  UNION {events[i].calls \ Answered(events) :
           i \in {k \in LastCall(events) : OnlyAnswersFollow(events, k)}}

\* find_orphaned_tool_calls splits them into TailState.long_running and
\* TailState.healable.
LongRunning(events) ==
  Unanswered(events) \cap UNION {events[i].longRunning : i \in LastCall(events)}

Healable(events) == Unanswered(events) \ LongRunning(events)
=============================================================================
