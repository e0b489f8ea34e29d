---------------------------- MODULE SessionRuns ----------------------------
(***************************************************************************)
(* The turns of one user with one agent.                                   *)
(*                                                                         *)
(* A turn is one run of MessageProcessorV2.process_platform_event (a       *)
(* message from a platform) or of ScheduledJobExecutorV2.execute_job (a    *)
(* scheduled prompt).  Both drive the same Firestore session document,     *)
(* sessions/{user}_{agent}, which maps the pair to an Agent Engine session *)
(* and carries one run marker, and the same Agent Engine session, which    *)
(* the healer (session_healer.py) may write into.                          *)
(*                                                                         *)
(* Every `await` of the code is the end of an action: between two of them  *)
(* any other turn, the engine, or a reclaimed Cloud Run instance may act.  *)
(* The Agent Engine is external: it is modelled from what the code in      *)
(* app/services sends it and accepts back.                                 *)
(***************************************************************************)
EXTENDS Naturals, Sequences, FiniteSets

CONSTANTS
  Messages,         \* turns that start from a platform message
  Jobs,             \* turns that start from a scheduled job
  NoTurn,           \* not a turn
  SessionTimeout,   \* session_timeout_minutes
  CutOffAfter,      \* cut_off_after_seconds
  Grace,            \* heal_grace_seconds
  HealOrphans,      \* heal_orphaned_tool_calls
  LongRunningTurns, \* turns whose tool call ADK flags as long-running
  RunLimit,         \* how long a run survives after it was marked started
  StepLimit,        \* how long a turn takes from reading the session to marking
  MaxInFlight,      \* how many turns are handled at once
  MaxLost,          \* bound on the turns lost with their instance
  Faults,           \* which best-effort Firestore calls may fail
  MaxTime           \* bound on the clock

Turns == Messages \cup Jobs

ASSUME TurnsAssumption == /\ Messages \cap Jobs = {}
                          /\ NoTurn \notin Turns
                          /\ LongRunningTurns \subseteq Turns

ASSUME BoundsAssumption ==
  /\ {SessionTimeout, CutOffAfter, Grace, RunLimit, StepLimit,
      MaxInFlight, MaxLost, MaxTime} \subseteq Nat
  /\ HealOrphans \in BOOLEAN
  /\ Faults \subseteq {"read", "drop", "mark", "clear"}

\* config.py: the cut-off is "longer than any run can survive", and the grace
\* is longer than the few Firestore and Sessions API calls that precede a run.
ASSUME TimingAssumption == /\ RunLimit + StepLimit < CutOffAfter
                           /\ StepLimit < Grace

VARIABLES
  now,       \* the clock
  sess,      \* the Agent Engine session the document maps to; NoTurn: no document
  activity,  \* last_activity_at of the document
  mark,      \* active_run of the document
  pc,        \* where each turn is
  readAt,    \* when the turn read the session document
  vs,        \* the Agent Engine session the turn uses
  snap,      \* active_run as the turn read it
  orphans,   \* the calls the turn's healer decided to answer
  tailLen,   \* the tail that decision was based on
  markAt,    \* when the turn marked its run as started
  engine,    \* what the engine is doing for the turn's run
  out,       \* what send_message came back with
  log,       \* the events of each Agent Engine session
  tailAt,    \* the timestamp of the last of them
  reports,   \* the runs a run_cut_off event was logged for
  lastTalk,  \* the turn that last delivered an agent's reply
  prev       \* lastTalk when the turn read the session document

docVars  == <<sess, activity, mark>>
turnVars == <<readAt, vs, snap, prev>>
healVars == <<orphans, tailLen>>
runVars  == <<markAt, engine, out>>
logVars  == <<log, tailAt>>
vars == <<now, docVars, pc, turnVars, healVars, runVars, logVars, reports, lastTalk>>

History == INSTANCE SessionTail WITH Calls <- Turns

NoMark == [run |-> NoTurn, at |-> 0]

\* The awaits before the run is marked, and those after.
Preparing == {"touch", "drop", "store", "list", "recheck", "append", "mark"}
Running   == {"send", "wait", "reply"}
InFlight  == {t \in Turns : pc[t] \in Preparing \cup Running}

\* The engine works on a run until it is over.
Live(t) == engine[t] \in {"model", "tool", "answered"}

Init ==
  /\ now = 1
  /\ sess = NoTurn /\ activity = 0 /\ mark = NoMark
  /\ pc = [t \in Turns |-> "idle"]
  /\ readAt = [t \in Turns |-> 0]
  /\ vs = [t \in Turns |-> NoTurn]
  /\ snap = [t \in Turns |-> NoMark]
  /\ orphans = [t \in Turns |-> {}]
  /\ tailLen = [t \in Turns |-> 0]
  /\ markAt = [t \in Turns |-> 0]
  /\ engine = [t \in Turns |-> "idle"]
  /\ out = [t \in Turns |-> "none"]
  /\ log = [s \in Turns |-> <<>>]
  /\ tailAt = [s \in Turns |-> 0]
  /\ reports = {}
  /\ lastTalk = NoTurn
  /\ prev = [t \in Turns |-> NoTurn]

Goto(t, from, to) == pc[t] = from /\ pc' = [pc EXCEPT ![t] = to]

Store(s, event) ==
  /\ log' = [log EXCEPT ![s] = Append(@, event)]
  /\ tailAt' = [tailAt EXCEPT ![s] = now]
-----------------------------------------------------------------------------
(* The session document *)

\* get_session_by_user finds nothing when there is no document or the read
\* failed; the turn then makes an Agent Engine session, named here by the turn.
\* An expired document is deleted first.
GetSessionByUser(t) ==
  /\ pc[t] = "idle"
  /\ Cardinality(InFlight) < MaxInFlight
  /\ readAt' = [readAt EXCEPT ![t] = now]
  /\ prev' = [prev EXCEPT ![t] = lastTalk]
  /\ \/ /\ sess # NoTurn /\ now <= activity + SessionTimeout
        /\ Goto(t, "idle", "touch")
        /\ vs' = [vs EXCEPT ![t] = sess]
        /\ snap' = [snap EXCEPT ![t] = mark]
     \/ /\ sess # NoTurn /\ now > activity + SessionTimeout
        /\ Goto(t, "idle", "drop")
        /\ vs' = [vs EXCEPT ![t] = t]
        /\ UNCHANGED snap
     \/ /\ sess = NoTurn \/ "read" \in Faults
        /\ Goto(t, "idle", "store")
        /\ vs' = [vs EXCEPT ![t] = t]
        /\ UNCHANGED snap
  /\ UNCHANGED <<now, docVars, healVars, runVars, logVars, reports, lastTalk>>

\* get_session_by_user deletes whatever document is there by now; a failure is
\* swallowed.
DeleteExpired(t) ==
  /\ Goto(t, "drop", "store")
  /\ \/ /\ sess' = NoTurn /\ activity' = 0 /\ mark' = NoMark
     \/ /\ "drop" \in Faults
        /\ UNCHANGED docVars
  /\ UNCHANGED <<now, turnVars, healVars, runVars, logVars, reports, lastTalk>>

\* create_session_for_user: a plain set, over whatever document is there.  The
\* session it returns has no marker, so recovery has nothing to do.
CreateSessionForUser(t) ==
  /\ Goto(t, "store", "mark")
  /\ sess' = vs[t] /\ activity' = now /\ mark' = NoMark
  /\ UNCHANGED <<now, turnVars, healVars, runVars, logVars, reports, lastTalk>>

\* Mutant: any marker counts as a cut-off, whatever its age.
CutOffAnyAge(t) == snap[t] # NoMark

\* Mutant: a marker that is exactly as old as the limit is not.
CutOffTooLate(t) == snap[t] # NoMark /\ now > snap[t].at + CutOffAfter

\* describe_cut_off: the marker the turn read is old enough by now.
CutOff(t) == snap[t] # NoMark /\ now >= snap[t].at + CutOffAfter

\* Mutant: the document is not touched, so it expires while it is in use.
UpdateSessionPlatformsNoTouch(t) ==
  /\ sess # NoTurn /\ Goto(t, "touch", IF CutOff(t) /\ HealOrphans THEN "list" ELSE "mark")
  /\ reports' = IF CutOff(t) THEN reports \cup {snap[t].run} ELSE reports
  /\ UNCHANGED <<now, docVars, turnVars, healVars, runVars, logVars, lastTalk>>

\* update_session_platforms, then _recover_from_cut_off_run up to the healer's
\* first await.  The update raises when the document is gone, and the turn ends.
UpdateSessionPlatforms(t) ==
  /\ \/ /\ sess = NoTurn
        /\ Goto(t, "touch", "lost")
        /\ UNCHANGED <<activity, reports>>
     \/ /\ sess # NoTurn /\ ~CutOff(t)
        /\ Goto(t, "touch", "mark")
        /\ activity' = now
        /\ UNCHANGED reports
     \/ /\ sess # NoTurn /\ CutOff(t)
        /\ Goto(t, "touch", IF HealOrphans THEN "list" ELSE "mark")
        /\ activity' = now
        /\ reports' = reports \cup {snap[t].run}
  /\ UNCHANGED <<now, sess, mark, turnVars, healVars, runVars, logVars, lastTalk>>
-----------------------------------------------------------------------------
(* SessionHealer.heal *)

\* Mutant: the age of the tail is not looked at.
ListTailNoGrace(t) ==
  LET found == History!Healable(log[vs[t]])
  IN
  /\ Goto(t, "list", IF found # {} THEN "recheck" ELSE "mark")
  /\ orphans' = [orphans EXCEPT ![t] = found]
  /\ tailLen' = [tailLen EXCEPT ![t] = Len(log[vs[t]])]
  /\ UNCHANGED <<now, docVars, turnVars, runVars, logVars, reports, lastTalk>>

\* The first listing: go on only with an orphan older than the grace.
ListTail(t) ==
  LET found == History!Healable(log[vs[t]])
      old   == found # {} /\ now >= tailAt[vs[t]] + Grace
  IN
  /\ Goto(t, "list", IF old THEN "recheck" ELSE "mark")
  /\ orphans' = [orphans EXCEPT ![t] = IF old THEN found ELSE {}]
  /\ tailLen' = [tailLen EXCEPT ![t] = IF old THEN Len(log[vs[t]]) ELSE 0]
  /\ UNCHANGED <<now, docVars, turnVars, runVars, logVars, reports, lastTalk>>

\* The second listing: abandoned if the last event is another one.
RecheckTail(t) ==
  /\ Goto(t, "recheck", IF Len(log[vs[t]]) = tailLen[t] THEN "append" ELSE "mark")
  /\ UNCHANGED <<now, docVars, turnVars, healVars, runVars, logVars, reports, lastTalk>>

\* Mutant: the synthetic responses do not carry the ids of the calls.
AppendHealEventNoIds(t) ==
  /\ Goto(t, "append", "mark")
  /\ Store(vs[t], History!AnswerEvent({}))
  /\ UNCHANGED <<now, docVars, turnVars, healVars, runVars, reports, lastTalk>>

\* append_event answers the orphans of the first listing.
AppendHealEvent(t) ==
  /\ Goto(t, "append", "mark")
  /\ Store(vs[t], History!AnswerEvent(orphans[t]))
  /\ UNCHANGED <<now, docVars, turnVars, healVars, runVars, reports, lastTalk>>

\* heal never raises: a Sessions API error only gives up.
HealGivesUp(t) ==
  /\ pc[t] \in {"list", "recheck", "append"}
  /\ Goto(t, pc[t], "mark")
  /\ UNCHANGED <<now, docVars, turnVars, healVars, runVars, logVars, reports, lastTalk>>
-----------------------------------------------------------------------------
(* The run *)

\* mark_run_started and clear_active_run are updates: they fail, silently, when
\* the document is gone, and may fail for any other reason.
WriteMark(m, name) ==
  /\ \/ sess # NoTurn /\ mark' = m
     \/ sess = NoTurn /\ mark' = mark
     \/ name \in Faults /\ mark' = mark
  /\ UNCHANGED <<sess, activity>>

MarkRunStarted(t) ==
  /\ Goto(t, "mark", "send")
  /\ WriteMark([run |-> t, at |-> now], "mark")
  /\ markAt' = [markAt EXCEPT ![t] = now]
  /\ UNCHANGED <<now, turnVars, healVars, engine, out, logVars, reports, lastTalk>>

\* vertex_ai.send_message: the engine stores the prompt and starts its model.
SendMessage(t) ==
  /\ Goto(t, "send", "wait")
  /\ engine' = [engine EXCEPT ![t] = "model"]
  /\ Store(vs[t], History!TextEvent)
  /\ UNCHANGED <<now, docVars, turnVars, healVars, markAt, out, reports, lastTalk>>

\* A provider replays the history only when every call in it was answered
\* exactly once, and in its place: directly after the calls of its event, before
\* anybody spoke or called again.  A long-running call may wait for its answer.
TimesAnswered(events, c) ==
  Cardinality({i \in DOMAIN events : c \in events[i].answers})

InPlace(events, i, c) ==
  \E j \in DOMAIN events :
    /\ i < j /\ c \in events[j].answers
    /\ \A k \in DOMAIN events :
         i < k /\ k <= j => events[k].calls = {} /\ ~events[k].text

Replayable(events) ==
  \A i \in DOMAIN events : \A c \in events[i].calls :
    \/ InPlace(events, i, c) /\ TimesAnswered(events, c) = 1
    \/ c \in events[i].longRunning /\ TimesAnswered(events, c) <= 1

EngineStep(t, from, to, event) ==
  /\ engine[t] \in from
  /\ engine' = [engine EXCEPT ![t] = to]
  /\ Store(vs[t], event)
  /\ UNCHANGED <<now, docVars, pc, turnVars, healVars, markAt, reports, lastTalk>>

\* send_message hears of the run's end only while the turn waits for it.
Hears(t, o) ==
  out' = IF pc[t] = "wait" /\ out[t] = "none" THEN [out EXCEPT ![t] = o] ELSE out

ModelCallsTool(t) ==
  /\ EngineStep(t, {"model"}, "tool", History!CallEvent({t}, {t} \cap LongRunningTurns))
  /\ Replayable(log[vs[t]])
  /\ UNCHANGED out

ToolAnswers(t) ==
  /\ EngineStep(t, {"tool"}, "answered", History!AnswerEvent({t}))
  /\ UNCHANGED out

ModelReplies(t) ==
  /\ EngineStep(t, {"model", "answered"}, "over", History!TextEvent)
  /\ Replayable(log[vs[t]])
  /\ Hears(t, "text")

\* The run ends without a reply: nothing came (a tool that never answered, a
\* model that said nothing), or send_message raised, on a 429 or any other error
\* such as a refused history.
RunEnds(t) ==
  /\ Live(t)
  /\ engine' = [engine EXCEPT ![t] = "over"]
  /\ Hears(t, "empty") \/ Hears(t, "raised")
  /\ UNCHANGED <<now, docVars, pc, turnVars, healVars, markAt, logVars, reports, lastTalk>>

\* AgentStreamError: the Forum lost the stream, the engine may not have noticed.
StreamBreaks(t) ==
  /\ Live(t) /\ pc[t] = "wait" /\ out[t] = "none"
  /\ out' = [out EXCEPT ![t] = "broke"]
  /\ UNCHANGED <<now, docVars, pc, turnVars, healVars, markAt, engine, logVars,
                 reports, lastTalk>>
-----------------------------------------------------------------------------
(* What the turn does with the outcome *)

\* Mutant: an answered run keeps its marker.
CloseOutAnsweredKeepsMark(t) ==
  /\ out[t] = "text"
  /\ Goto(t, "wait", "reply")
  /\ UNCHANGED <<now, docVars, turnVars, healVars, runVars, logVars, reports, lastTalk>>

\* _close_out_run on a reply with text.
CloseOutAnswered(t) ==
  /\ out[t] = "text"
  /\ Goto(t, "wait", "reply")
  /\ WriteMark(NoMark, "clear")
  /\ UNCHANGED <<now, turnVars, healVars, runVars, logVars, reports, lastTalk>>

\* Mutant: the new marker is written without its start time.
LeaveNewMarkUndated(t) ==
  /\ out[t] = "empty"
  /\ Goto(t, "wait", "done")
  /\ WriteMark([run |-> t], "mark")
  /\ UNCHANGED <<now, turnVars, healVars, runVars, logVars, reports, lastTalk>>

\* _close_out_run on an empty reply, and the message path on a broken stream,
\* write the marker anew; what the user is sent then is not an agent's reply.
LeaveNewMark(t) ==
  /\ out[t] = "empty" \/ (out[t] = "broke" /\ t \in Messages)
  /\ Goto(t, "wait", "done")
  /\ WriteMark([run |-> t, at |-> now], "mark")
  /\ UNCHANGED <<now, turnVars, healVars, runVars, logVars, reports, lastTalk>>

\* A 429 and any other exception leave the marker as it is, and so does a
\* broken stream in a scheduled job.
LeaveMark(t) ==
  /\ out[t] = "raised" \/ (out[t] = "broke" /\ t \in Jobs)
  /\ Goto(t, "wait", "done")
  /\ UNCHANGED <<now, docVars, turnVars, healVars, runVars, logVars, reports, lastTalk>>

\* connector.send_message: delivered, or it raised; a scheduled [SILENT] reply
\* is not delivered either.
Reply(t) ==
  /\ Goto(t, "reply", "done")
  /\ lastTalk' \in {t, lastTalk}
  /\ UNCHANGED <<now, docVars, turnVars, healVars, runVars, logVars, reports>>
-----------------------------------------------------------------------------
(* Cloud Run and time *)

\* The instance is reclaimed in the middle of the turn (the engine is not told),
\* or a call before the run raised and the caller's catch-all ended the turn.
TurnLost(t) ==
  /\ pc[t] \in Preparing \cup Running
  /\ Cardinality({u \in Turns : pc[u] = "lost"}) < MaxLost
  /\ Goto(t, pc[t], "lost")
  /\ UNCHANGED <<now, docVars, turnVars, healVars, runVars, logVars, reports, lastTalk>>

\* Time passes as long as no turn and no run outlives its limit.
Tick ==
  /\ now < MaxTime
  /\ \A t \in Turns :
       /\ pc[t] \in Preparing => now < readAt[t] + StepLimit
       /\ pc[t] \in Running \/ Live(t) => now < markAt[t] + RunLimit
  /\ now' = now + 1
  /\ UNCHANGED <<docVars, pc, turnVars, healVars, runVars, logVars, reports, lastTalk>>

Prepare(t) == \/ GetSessionByUser(t) \/ DeleteExpired(t)
              \/ CreateSessionForUser(t) \/ UpdateSessionPlatforms(t)
Heal(t)    == \/ ListTail(t) \/ RecheckTail(t) \/ AppendHealEvent(t) \/ HealGivesUp(t)
Run(t)     == \/ MarkRunStarted(t) \/ SendMessage(t)
Engine(t)  == \/ ModelCallsTool(t) \/ ToolAnswers(t) \/ ModelReplies(t)
              \/ RunEnds(t) \/ StreamBreaks(t)
Finish(t)  == \/ CloseOutAnswered(t) \/ LeaveNewMark(t) \/ LeaveMark(t) \/ Reply(t)

Next ==
  \/ Tick
  \/ \E t \in Turns : Prepare(t) \/ Heal(t) \/ Run(t) \/ Engine(t) \/ Finish(t) \/ TurnLost(t)

Spec == Init /\ [][Next]_vars
-----------------------------------------------------------------------------
(* Properties *)

Marks == [run : Turns \cup {NoTurn}, at : Nat]

\* Every variable of the turns, the document and the engine has its type.
TypeOK ==
  /\ now \in Nat
  /\ sess \in Turns \cup {NoTurn} /\ activity \in Nat /\ mark \in Marks
  /\ pc \in [Turns -> {"idle", "done", "lost"} \cup Preparing \cup Running]
  /\ readAt \in [Turns -> Nat] /\ markAt \in [Turns -> Nat]
  /\ vs \in [Turns -> Turns \cup {NoTurn}]
  /\ snap \in [Turns -> Marks]
  /\ orphans \in [Turns -> SUBSET Turns] /\ tailLen \in [Turns -> Nat]
  /\ engine \in [Turns -> {"idle", "model", "tool", "answered", "over"}]
  /\ out \in [Turns -> {"none", "text", "empty", "raised", "broke"}]
  /\ log \in [Turns -> Seq(History!Event)] /\ tailAt \in [Turns -> Nat]
  /\ reports \subseteq Turns \cup {NoTurn}
  /\ lastTalk \in Turns \cup {NoTurn} /\ prev \in [Turns -> Turns \cup {NoTurn}]

\* A synthetic result is only ever written for a run that is over: the marker
\* of a slow run must keep every other turn's healer away from its tool call.
HealedRunsAreOver ==
  \A t \in Turns : pc[t] = "append" => \A c \in orphans[t] : ~Live(c)

\* A turn that closed its run with a reply is never logged as cut off, however
\* many turns share the marker.
AnsweredRunsNotReported ==
  \A t \in reports \cap Turns : ~(out[t] = "text" /\ pc[t] \in {"reply", "done"})

\* No tool call is answered twice: not by the engine and a healer, and not by
\* two healers.
CallsAnsweredOnce ==
  \A s \in Turns : \A c \in History!Answered(log[s]) : TimesAnswered(log[s], c) = 1

\* The tool calls of the conversation, as the abstract ledger sees them.
RunStatus(c) ==
  CASE engine[c] = "idle" -> "new" [] Live(c) -> "alive" [] OTHER -> "over"

CallStatus(c) ==
  LET events == log[vs[c]]
  IN IF vs[c] = NoTurn \/ ~\E i \in DOMAIN events : c \in events[i].calls THEN "none"
     ELSE CASE TimesAnswered(events, c) = 0 -> "open"
            [] TimesAnswered(events, c) = 1 -> "closed"
            [] OTHER -> "closed again"

Ledger == INSTANCE CallLedger WITH
            Calls  <- Turns,
            run    <- [c \in Turns |-> RunStatus(c)],
            status <- [c \in Turns |-> CallStatus(c)]

\* Turns handled one at a time keep the promise of CallLedger, although runs
\* outlive their turns and instances vanish: a tool call is closed once, by its
\* own run or, after that run is over, by the healer.
CallsFollowLedger == Ledger!Spec

\* The event a healer writes leaves a history the provider accepts: the turn
\* that follows is not refused for the damage the healer just repaired.
HealedSessionsReplay ==
  [][\A t \in Turns : AppendHealEvent(t) => Replayable(log[vs[t]])']_vars

\* A turn that starts within the session timeout of the turn the user last
\* heard from goes on in the same Agent Engine session.
ConversationContinues ==
  \A t \in Turns :
    pc[t] = "wait" /\ prev[t] # NoTurn /\ readAt[t] <= readAt[prev[t]] + SessionTimeout
      => vs[t] = vs[prev[t]]

\* A marker that a later turn writes its own over is reported first, or too
\* young to tell a run that was cut off from one that is slow: between reading
\* the document and marking the run, no turn loses sight of a cut-off.
OldMarkersAreReported ==
  [][mark # NoMark /\ mark' \notin {mark, NoMark} /\ sess' = sess
       => mark.run \in reports \/ now < mark.at + CutOffAfter + StepLimit]_vars
=============================================================================
