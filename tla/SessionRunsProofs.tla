------------------------- MODULE SessionRunsProofs -------------------------
(***************************************************************************)
(* What the marker and the two time limits are worth.  For every number of *)
(* turns in flight, every timing and every loss of an instance: as long as *)
(* the marker of a run is written, no healer writes a result for a tool    *)
(* call whose run may still be going on, and no marker is written over     *)
(* that should have been reported; as long as it is cleared, no run that   *)
(* ended in a reply is reported.  For turns handled one at a time: the     *)
(* conversation keeps its session, a call is answered once, and the        *)
(* provider accepts what a healer leaves.  For turns that overlap, a call  *)
(* is answered again by healers only.                                      *)
(***************************************************************************)
EXTENDS SessionRuns, FiniteSetTheorems, TLAPS

\* The limits are numbers.
LEMMA BoundsAreNat ==
  CutOffAfter \in Nat /\ Grace \in Nat /\ RunLimit \in Nat /\ StepLimit \in Nat
BY BoundsAssumption

\* What the healer answers are calls that some event of the history makes.
LEMMA HealableCalls ==
  ASSUME NEW events \in Seq(History!Event), NEW c \in History!Healable(events)
  PROVE  c \in Turns /\ \E i \in DOMAIN events : c \in events[i].calls
<1>1. PICK i \in DOMAIN events : c \in events[i].calls
  <2>1. c \in History!Unanswered(events)
    BY DEF History!Healable
  <2>2. \E i \in {k \in History!LastCall(events) : History!OnlyAnswersFollow(events, k)} :
          c \in events[i].calls \ History!Answered(events)
    BY <2>1, Zenon DEF History!Unanswered
  <2>3. QED
    BY <2>2 DEF History!LastCall
<1>2. events[i] \in History!Event
  OBVIOUS
<1>3. QED
  BY <1>1, <1>2 DEF History!Event

\* The events the Forum and the engine store are events.
LEMMA EventTypes ==
  /\ History!TextEvent \in History!Event
  /\ \A cs, lr \in SUBSET Turns : History!CallEvent(cs, lr) \in History!Event
  /\ \A cs \in SUBSET Turns : History!AnswerEvent(cs) \in History!Event
BY DEF History!TextEvent, History!CallEvent, History!AnswerEvent, History!Event

\* The markers that are written are markers.
LEMMA MarkTypes ==
  /\ NoMark \in Marks
  /\ \A t \in Turns : now \in Nat => [run |-> t, at |-> now] \in Marks
  /\ \A m \in Marks : m.run \in Turns \cup {NoTurn} /\ m.at \in Nat
BY DEF NoMark, Marks

\* Storing an event keeps the histories histories.
LEMMA StoreType ==
  ASSUME TypeOK, NEW s \in Turns, NEW event \in History!Event, Store(s, event)
  PROVE  log' \in [Turns -> Seq(History!Event)] /\ tailAt' \in [Turns -> Nat]
BY DEF TypeOK, Store
-----------------------------------------------------------------------------
(* Types.  A turn has a session from the moment it read the document.        *)

HasSession == \A t \in Turns : pc[t] # "idle" \/ engine[t] # "idle" => vs[t] \in Turns

TypeInv == TypeOK /\ HasSession

\* The steps before the run keep the types.
LEMMA PrepareType ==
  ASSUME TypeInv, NEW t \in Turns, Prepare(t) PROVE TypeInv'
<1> USE MarkTypes DEF TypeInv, TypeOK, HasSession, Preparing, Running, Goto, docVars,
            turnVars, healVars, runVars, logVars
<1>1. CASE GetSessionByUser(t)
  <2>1. vs' \in [Turns -> Turns \cup {NoTurn}] /\ vs'[t] \in Turns /\ snap' \in [Turns -> Marks]
    <3>1. \E s \in Turns : vs' = [vs EXCEPT ![t] = s]
      <4>1. sess # NoTurn => sess \in Turns
        OBVIOUS
      <4>2. QED
        BY <1>1, <4>1 DEF GetSessionByUser
    <3>2. snap' = [snap EXCEPT ![t] = mark] \/ snap' = snap
      BY <1>1 DEF GetSessionByUser
    <3>3. snap' \in [Turns -> Marks]
      BY <3>2
    <3>4. vs' \in [Turns -> Turns \cup {NoTurn}] /\ vs'[t] \in Turns
      BY <3>1
    <3>5. QED
      BY <3>3, <3>4
  <2>2. pc' \in [Turns -> {"idle", "done", "lost"} \cup Preparing \cup Running]
    BY <1>1 DEF GetSessionByUser
  <2>3. \A u \in Turns : u # t => vs'[u] = vs[u] /\ pc'[u] = pc[u]
    BY <1>1 DEF GetSessionByUser
  <2>4. readAt' \in [Turns -> Nat] /\ prev' \in [Turns -> Turns \cup {NoTurn}]
    BY <1>1 DEF GetSessionByUser
  <2>5. QED
    BY <1>1, <2>1, <2>2, <2>3, <2>4 DEF GetSessionByUser
<1>2. CASE DeleteExpired(t)
  <2>1. sess' \in Turns \cup {NoTurn} /\ activity' \in Nat /\ mark' \in Marks
    BY <1>2 DEF DeleteExpired
  <2>2. QED
    BY <1>2, <2>1 DEF DeleteExpired
<1>3. CASE CreateSessionForUser(t)
  BY <1>3 DEF CreateSessionForUser
<1>4. CASE UpdateSessionPlatforms(t)
  <2>1. reports' \subseteq Turns \cup {NoTurn}
    <3>1. snap[t].run \in Turns \cup {NoTurn}
      OBVIOUS
    <3>2. reports' \in {reports, reports \cup {snap[t].run}}
      BY <1>4, Zenon DEF UpdateSessionPlatforms
    <3>3. QED
      BY <3>1, <3>2
  <2>2. QED
    BY <1>4, <2>1 DEF UpdateSessionPlatforms
<1>5. QED
  BY <1>1, <1>2, <1>3, <1>4 DEF Prepare

\* The steps of the healer keep the types.
LEMMA HealType ==
  ASSUME TypeInv, NEW t \in Turns, Heal(t) PROVE TypeInv'
<1> USE DEF TypeInv, TypeOK, HasSession, Preparing, Running, Goto,
            docVars, turnVars, healVars, runVars, logVars
<1>1. CASE ListTail(t)
  <2>1. History!Healable(log[vs[t]]) \subseteq Turns
    BY <1>1, HealableCalls DEF ListTail
  <2>2. Len(log[vs[t]]) \in Nat
    BY <1>1 DEF ListTail
  <2>3. QED
    BY <1>1, <2>1, <2>2 DEF ListTail
<1>2. CASE RecheckTail(t)
  BY <1>2 DEF RecheckTail
<1>3. CASE AppendHealEvent(t)
  <2>1. log' \in [Turns -> Seq(History!Event)] /\ tailAt' \in [Turns -> Nat]
    BY <1>3, EventTypes, StoreType DEF AppendHealEvent
  <2>2. QED
    BY <1>3, <2>1 DEF AppendHealEvent
<1>4. CASE HealGivesUp(t)
  BY <1>4 DEF HealGivesUp
<1>5. QED
  BY <1>1, <1>2, <1>3, <1>4 DEF Heal

\* Writing the marker leaves a marker there.
LEMMA WriteMarkType ==
  ASSUME TypeOK, NEW m \in Marks, NEW name, WriteMark(m, name)
  PROVE  mark' \in Marks /\ UNCHANGED <<sess, activity>>
BY DEF TypeOK, WriteMark

\* The run's own steps keep the types.
LEMMA RunType ==
  ASSUME TypeInv, NEW t \in Turns, Run(t) PROVE TypeInv'
<1> USE DEF TypeInv, TypeOK, HasSession, Preparing, Running, Goto,
            docVars, turnVars, healVars, runVars, logVars
<1>1. CASE MarkRunStarted(t)
  <2>1. mark' \in Marks /\ UNCHANGED <<sess, activity>>
    BY <1>1, MarkTypes, WriteMarkType DEF MarkRunStarted
  <2>2. QED
    BY <1>1, <2>1 DEF MarkRunStarted
<1>2. CASE SendMessage(t)
  <2>1. log' \in [Turns -> Seq(History!Event)] /\ tailAt' \in [Turns -> Nat]
    BY <1>2, EventTypes, StoreType DEF SendMessage
  <2>2. QED
    BY <1>2, <2>1 DEF SendMessage
<1>3. QED
  BY <1>1, <1>2 DEF Run

\* A step of the engine that stores an event keeps the types.
LEMMA EngineStepType ==
  ASSUME TypeInv, NEW t \in Turns, NEW event \in History!Event,
         EngineStep(t, {"model"}, "tool", event) \/ EngineStep(t, {"tool"}, "answered", event)
         \/ EngineStep(t, {"model", "answered"}, "over", event),
         vs[t] \in Turns,
         out' \in [Turns -> {"none", "text", "empty", "raised", "broke"}]
  PROVE  TypeInv'
<1>1. Store(vs[t], event)
  BY DEF EngineStep
<1>2. log' \in [Turns -> Seq(History!Event)] /\ tailAt' \in [Turns -> Nat]
  BY <1>1, StoreType DEF TypeInv
<1>3. engine' \in [Turns -> {"idle", "model", "tool", "answered", "over"}]
  BY DEF EngineStep, TypeInv, TypeOK
<1>4. QED
  BY <1>2, <1>3 DEF EngineStep, TypeInv, TypeOK, HasSession, docVars, turnVars, healVars

\* The engine's steps keep the types.
LEMMA EngineType ==
  ASSUME TypeInv, NEW t \in Turns, Engine(t) PROVE TypeInv'
<1> DEFINE OutType == out' \in [Turns -> {"none", "text", "empty", "raised", "broke"}]
<1>1. CASE ModelCallsTool(t)
  <2>1. vs[t] \in Turns /\ OutType
    BY <1>1 DEF ModelCallsTool, EngineStep, TypeInv, TypeOK, HasSession
  <2>2. History!CallEvent({t}, {t} \cap LongRunningTurns) \in History!Event
    BY EventTypes
  <2>3. QED
    BY <1>1, <2>1, <2>2, EngineStepType DEF ModelCallsTool
<1>2. CASE ToolAnswers(t)
  <2>1. vs[t] \in Turns /\ OutType
    BY <1>2 DEF ToolAnswers, EngineStep, TypeInv, TypeOK, HasSession
  <2>2. History!AnswerEvent({t}) \in History!Event
    BY EventTypes
  <2>3. QED
    BY <1>2, <2>1, <2>2, EngineStepType DEF ToolAnswers
<1>3. CASE ModelReplies(t)
  <2>1. vs[t] \in Turns /\ OutType
    BY <1>3 DEF ModelReplies, EngineStep, Hears, TypeInv, TypeOK, HasSession
  <2>2. QED
    BY <1>3, <2>1, EventTypes, EngineStepType DEF ModelReplies
<1>4. CASE RunEnds(t)
  BY <1>4 DEF RunEnds, Hears, Live, TypeInv, TypeOK, HasSession, docVars, turnVars, healVars,
              logVars
<1>5. CASE StreamBreaks(t)
  BY <1>5 DEF StreamBreaks, TypeInv, TypeOK, HasSession, docVars, turnVars, healVars, logVars
<1>6. QED
  BY <1>1, <1>2, <1>3, <1>4, <1>5 DEF Engine

\* What a turn does with the outcome, and its loss, keep the types.
LEMMA FinishType ==
  ASSUME TypeInv, NEW t \in Turns, Finish(t) \/ TurnLost(t) PROVE TypeInv'
<1> USE DEF TypeInv, TypeOK, HasSession, Preparing, Running, Goto,
            docVars, turnVars, healVars, runVars, logVars
<1>1. CASE CloseOutAnswered(t)
  <2>1. mark' \in Marks /\ UNCHANGED <<sess, activity>>
    BY <1>1, MarkTypes, WriteMarkType DEF CloseOutAnswered
  <2>2. QED
    BY <1>1, <2>1 DEF CloseOutAnswered
<1>2. CASE LeaveNewMark(t)
  <2>1. mark' \in Marks /\ UNCHANGED <<sess, activity>>
    BY <1>2, MarkTypes, WriteMarkType DEF LeaveNewMark
  <2>2. QED
    BY <1>2, <2>1 DEF LeaveNewMark
<1>3. CASE LeaveMark(t)
  BY <1>3 DEF LeaveMark
<1>4. CASE Reply(t)
  BY <1>4 DEF Reply
<1>5. CASE TurnLost(t)
  BY <1>5 DEF TurnLost
<1>6. QED
  BY <1>1, <1>2, <1>3, <1>4, <1>5 DEF Finish

\* Every variable starts with its type.
LEMMA InitType == Init => TypeInv
BY TurnsAssumption, MarkTypes DEF Init, TypeInv, TypeOK, HasSession

\* The types are an invariant of the whole system.
LEMMA TypeInvariant == Spec => []TypeInv
<1>1. TypeInv /\ [Next]_vars => TypeInv'
  <2> SUFFICES ASSUME TypeInv, [Next]_vars PROVE TypeInv'
    OBVIOUS
  <2>1. CASE Tick
    BY <2>1 DEF Tick, TypeInv, TypeOK, HasSession, docVars, turnVars, healVars, runVars, logVars
  <2>2. CASE UNCHANGED vars
    BY <2>2 DEF vars, TypeInv, TypeOK, HasSession, docVars, turnVars, healVars, runVars, logVars
  <2>3. QED
    BY <2>1, <2>2, PrepareType, HealType, RunType, EngineType, FinishType DEF Next
<1>2. QED
  BY <1>1, InitType, PTL DEF Spec

\* Every variable of the turns, the document and the engine keeps its type.
THEOREM TypeCorrect == Spec => []TypeOK
BY TypeInvariant, PTL DEF TypeInv

-----------------------------------------------------------------------------
(* The inductive invariant of healing.                                       *)
(*                                                                           *)
(* HealedRunsAreOver is not inductive.  The healer of a turn knows only the  *)
(* marker the turn read, which may be another run's, and the age of the      *)
(* tail.  A run on the same Agent Engine session was marked before the turn  *)
(* read the document, and then the marker the turn read is no older than the *)
(* run's own (SnapIsLatest), or after, and then its call is too young for    *)
(* the grace (CallsLogged).  Either way the limits on a run's and a turn's   *)
(* age (InTime) exclude that it is still going on.                           *)

MarksAreWritten == "mark" \notin Faults

Healing == {"list", "recheck", "append"}

NotStarted ==
  \A t \in Turns :
    /\ pc[t] \in {"idle", "send"} \cup Preparing => engine[t] = "idle"
    /\ pc[t] \in {"idle"} \cup Preparing => markAt[t] = 0
    /\ engine[t] # "idle" \/ pc[t] \in Running => markAt[t] > 0

InTime ==
  /\ now >= 1
  /\ \A t \in Turns :
       /\ markAt[t] <= now /\ readAt[t] <= now
       /\ pc[t] \in Preparing => now <= readAt[t] + StepLimit
       /\ pc[t] \in Running \/ Live(t) => now <= markAt[t] + RunLimit

MarkIsLatest ==
  \A c \in Turns :
    sess # NoTurn /\ vs[c] = sess /\ markAt[c] > 0 /\ mark # NoMark => mark.at >= markAt[c]

SnapIsLatest ==
  \A t, c \in Turns :
    pc[t] \in {"touch"} \cup Healing /\ snap[t] # NoMark /\ vs[c] = vs[t] /\ markAt[c] > 0
      => snap[t].at >= markAt[c] \/ markAt[c] >= readAt[t]

HealsCutOffs ==
  \A t \in Turns : pc[t] \in Healing => snap[t] # NoMark /\ now >= snap[t].at + CutOffAfter

CallsLogged ==
  \A s, c \in Turns : \A i \in DOMAIN log[s] :
    c \in log[s][i].calls => vs[c] = s /\ engine[c] # "idle" /\ tailAt[s] >= markAt[c]

OrphansAreOver ==
  \A t \in Turns : pc[t] \in {"recheck", "append"} => \A c \in orphans[t] : engine[c] = "over"

HealInv == /\ NotStarted /\ InTime /\ MarkIsLatest /\ SnapIsLatest
           /\ HealsCutOffs /\ CallsLogged /\ OrphansAreOver

\* The heart of the argument: what the first listing finds is the call of a run
\* that is over.
LEMMA OrphansFoundAreOver ==
  ASSUME TypeInv, HealInv, NEW t \in Turns, pc[t] = "list",
         NEW c \in History!Healable(log[vs[t]]),
         now >= tailAt[vs[t]] + Grace
  PROVE  engine[c] = "over"
<1>1. vs[t] \in Turns /\ log[vs[t]] \in Seq(History!Event)
  BY DEF TypeInv, TypeOK, HasSession
<1>2. c \in Turns /\ \E i \in DOMAIN log[vs[t]] : c \in log[vs[t]][i].calls
  BY <1>1, HealableCalls
<1>3. vs[c] = vs[t] /\ engine[c] # "idle" /\ tailAt[vs[t]] >= markAt[c]
  BY <1>1, <1>2 DEF HealInv, CallsLogged
<1>4. markAt[c] > 0
  BY <1>2, <1>3 DEF HealInv, NotStarted
<1>5. snap[t] # NoMark /\ now >= snap[t].at + CutOffAfter
  BY DEF HealInv, HealsCutOffs, Healing
<1>6. snap[t].at >= markAt[c] \/ markAt[c] >= readAt[t]
  BY <1>2, <1>3, <1>4, <1>5 DEF HealInv, SnapIsLatest, Healing
<1>7. now <= readAt[t] + StepLimit
  BY DEF HealInv, InTime, Preparing
<1>8. /\ now \in Nat /\ markAt[c] \in Nat /\ readAt[t] \in Nat /\ tailAt[vs[t]] \in Nat
      /\ snap[t].at \in Nat
  BY <1>1, <1>2, MarkTypes DEF TypeInv, TypeOK
<1>9. ~Live(c)
  <2> SUFFICES ASSUME Live(c) PROVE FALSE
    OBVIOUS
  <2>1. now <= markAt[c] + RunLimit
    BY <1>2 DEF HealInv, InTime
  <2>2. CASE snap[t].at >= markAt[c]
    BY <1>5, <1>8, <2>1, <2>2, BoundsAssumption, TimingAssumption
  <2>3. CASE markAt[c] >= readAt[t]
    BY <1>3, <1>7, <1>8, <2>3, BoundsAssumption, TimingAssumption
  <2>4. QED
    BY <1>6, <2>2, <2>3
<1>10. QED
  BY <1>2, <1>3, <1>9 DEF Live, TypeInv, TypeOK

\* Storing an event keeps the histories' calls, and adds only its own.
LEMMA StoreCalls ==
  ASSUME TypeInv, HealInv, NEW t \in Turns, vs[t] \in Turns,
         NEW event \in History!Event, Store(vs[t], event),
         event.calls = {} \/ (event.calls = {t} /\ engine'[t] # "idle"),
         UNCHANGED <<now, vs, markAt>>,
         \A c \in Turns : engine[c] # "idle" => engine'[c] # "idle"
  PROVE  CallsLogged'
<1> SUFFICES ASSUME NEW s \in Turns, NEW c \in Turns, NEW i \in DOMAIN log'[s],
                    c \in log'[s][i].calls
             PROVE  vs[c] = s /\ engine'[c] # "idle" /\ tailAt'[s] >= markAt[c]
  BY DEF CallsLogged
<1>1. CASE s # vs[t]
  <2>1. log'[s] = log[s] /\ tailAt'[s] = tailAt[s]
    BY <1>1 DEF Store, TypeInv, TypeOK
  <2>2. vs[c] = s /\ engine[c] # "idle" /\ tailAt[s] >= markAt[c]
    BY <2>1 DEF HealInv, CallsLogged
  <2>3. QED
    BY <2>1, <2>2
<1>2. CASE s = vs[t]
  <2>1. /\ log[s] \in Seq(History!Event)
        /\ log'[s] = Append(log[s], event) /\ tailAt'[s] = now
    BY <1>2 DEF Store, TypeInv, TypeOK
  <2>2. now >= markAt[c]
    BY DEF HealInv, InTime
  <2>3. CASE i \in DOMAIN log[s]
    <3>1. c \in log[s][i].calls
      BY <2>1, <2>3
    <3>2. QED
      BY <2>1, <2>2, <2>3, <3>1 DEF HealInv, CallsLogged
  <2>4. CASE i \notin DOMAIN log[s]
    <3>1. c = t /\ engine'[t] # "idle"
      BY <2>1, <2>4
    <3>2. QED
      BY <1>2, <2>1, <2>2, <3>1
  <2>5. QED
    BY <2>3, <2>4
<1>3. QED
  BY <1>1, <1>2

\* A turn that reads the document learns of a marker that is no older than any
\* run marked so far on the same session.
LEMMA ReadKeepsSnaps ==
  ASSUME NEW t \in Turns, MarkIsLatest, SnapIsLatest, markAt[t] = 0,
         \A u \in Turns : u # t => pc'[u] = pc[u] /\ snap'[u] = snap[u] /\ vs'[u] = vs[u]
                                  /\ readAt'[u] = readAt[u],
         pc'[t] = "touch" => sess # NoTurn /\ vs'[t] = sess /\ snap'[t] = mark,
         pc'[t] \in {"touch", "drop", "store"}, markAt' = markAt
  PROVE  SnapIsLatest'
<1> SUFFICES ASSUME NEW u \in Turns, NEW c \in Turns,
                    pc'[u] \in {"touch"} \cup Healing, snap'[u] # NoMark,
                    vs'[c] = vs'[u], markAt[c] > 0
             PROVE  snap'[u].at >= markAt[c] \/ markAt[c] >= readAt'[u]
  BY DEF SnapIsLatest
<1>1. c # t /\ vs'[c] = vs[c]
  OBVIOUS
<1>2. CASE u = t
  BY <1>1, <1>2 DEF MarkIsLatest, Healing
<1>3. CASE u # t
  BY <1>1, <1>3 DEF SnapIsLatest
<1>4. QED
  BY <1>2, <1>3

\* The steps before the run keep the invariant of healing.
LEMMA PrepareHealInv ==
  ASSUME TypeInv, HealInv, NEW t \in Turns, Prepare(t) PROVE HealInv'
<1> USE DEF TypeInv, TypeOK, Preparing, Running, Healing, Live, Goto,
            docVars, turnVars, healVars, runVars, logVars
<1> USE DEF HealInv
<1>1. CASE GetSessionByUser(t)
  <2> USE <1>1 DEF GetSessionByUser
  <2>1. engine[t] = "idle" /\ markAt[t] = 0
    BY DEF NotStarted
  <2>2. NotStarted' /\ InTime'
    <3>1. NotStarted'
      BY DEF NotStarted
    <3>2. InTime'
      <4>1. now <= now + StepLimit
        BY BoundsAssumption
      <4>2. \A u \in Turns : u # t => pc'[u] = pc[u] /\ readAt'[u] = readAt[u]
        OBVIOUS
      <4>3. pc'[t] \in Preparing /\ readAt'[t] = now
        OBVIOUS
      <4>4. UNCHANGED <<now, markAt, engine>>
        OBVIOUS
      <4>5. QED
        BY <2>1, <4>1, <4>2, <4>3, <4>4 DEF InTime
    <3>3. QED
      BY <3>1, <3>2
  <2>3. MarkIsLatest'
    BY <2>1 DEF MarkIsLatest
  <2>4. SnapIsLatest'
    <3>1. \A u \in Turns : u # t => pc'[u] = pc[u] /\ snap'[u] = snap[u] /\ vs'[u] = vs[u]
                                     /\ readAt'[u] = readAt[u]
      OBVIOUS
    <3>2. pc'[t] = "touch" => sess # NoTurn /\ vs'[t] = sess /\ snap'[t] = mark
      OBVIOUS
    <3>3. pc'[t] \in {"touch", "drop", "store"} /\ markAt' = markAt
      OBVIOUS
    <3>4. QED
      BY <2>1, <3>1, <3>2, <3>3, ReadKeepsSnaps
  <2>5. HealsCutOffs' /\ OrphansAreOver'
    BY DEF HealsCutOffs, OrphansAreOver
  <2>6. CallsLogged'
    BY <2>1 DEF CallsLogged
  <2>7. QED
    BY <2>2, <2>3, <2>4, <2>5, <2>6
<1>2. CASE DeleteExpired(t)
  <2> USE <1>2 DEF DeleteExpired
  <2>1. NotStarted'
    BY DEF NotStarted
  <2>2. InTime'
    BY DEF InTime
  <2>3. MarkIsLatest'
    BY DEF MarkIsLatest
  <2>4. SnapIsLatest'
    BY DEF SnapIsLatest
  <2>5. HealsCutOffs'
    BY DEF HealsCutOffs
  <2>6. CallsLogged'
    BY DEF CallsLogged
  <2>7. OrphansAreOver'
    BY DEF OrphansAreOver
  <2>8. QED
    BY <2>1, <2>2, <2>3, <2>4, <2>5, <2>6, <2>7
<1>3. CASE CreateSessionForUser(t)
  <2> USE <1>3 DEF CreateSessionForUser
  <2>1. NotStarted'
    BY DEF NotStarted
  <2>2. InTime'
    BY DEF InTime
  <2>3. MarkIsLatest'
    BY DEF MarkIsLatest
  <2>4. SnapIsLatest'
    BY DEF SnapIsLatest
  <2>5. HealsCutOffs'
    BY DEF HealsCutOffs
  <2>6. CallsLogged'
    BY DEF CallsLogged
  <2>7. OrphansAreOver'
    BY DEF OrphansAreOver
  <2>8. QED
    BY <2>1, <2>2, <2>3, <2>4, <2>5, <2>6, <2>7
<1>4. CASE UpdateSessionPlatforms(t)
  <2> USE <1>4 DEF UpdateSessionPlatforms, CutOff
  <2>1. NotStarted'
    BY DEF NotStarted
  <2>2. InTime'
    BY DEF InTime
  <2>3. MarkIsLatest'
    BY DEF MarkIsLatest
  <2>4. SnapIsLatest'
    BY DEF SnapIsLatest
  <2>5. HealsCutOffs'
    BY DEF HealsCutOffs
  <2>6. CallsLogged'
    BY DEF CallsLogged
  <2>7. OrphansAreOver'
    BY DEF OrphansAreOver
  <2>8. QED
    BY <2>1, <2>2, <2>3, <2>4, <2>5, <2>6, <2>7
<1>5. QED
  BY <1>1, <1>2, <1>3, <1>4 DEF Prepare

\* The steps of the healer keep the invariant of healing.
LEMMA HealHealInv ==
  ASSUME TypeInv, HealInv, NEW t \in Turns, Heal(t) PROVE HealInv'
<1> USE DEF TypeInv, TypeOK, Preparing, Running, Healing, Live, Goto,
            docVars, turnVars, healVars, runVars, logVars
<1> USE DEF HealInv
<1>1. CASE ListTail(t)
  <2> USE <1>1 DEF ListTail
  <2>1. NotStarted'
    BY DEF NotStarted
  <2>2. InTime'
    BY DEF InTime
  <2>3. MarkIsLatest'
    BY DEF MarkIsLatest
  <2>4. SnapIsLatest'
    BY DEF SnapIsLatest
  <2>5. HealsCutOffs'
    BY DEF HealsCutOffs
  <2>6. CallsLogged'
    BY DEF CallsLogged
  <2>7. OrphansAreOver'
    <3>1. \A c \in orphans'[t] : pc'[t] = "recheck" => engine[c] = "over"
      BY OrphansFoundAreOver
    <3>2. QED
      BY <3>1 DEF OrphansAreOver
  <2>8. QED
    BY <2>1, <2>2, <2>3, <2>4, <2>5, <2>6, <2>7
<1>2. CASE RecheckTail(t)
  <2> USE <1>2 DEF RecheckTail
  <2>1. NotStarted'
    BY DEF NotStarted
  <2>2. InTime'
    BY DEF InTime
  <2>3. MarkIsLatest'
    BY DEF MarkIsLatest
  <2>4. SnapIsLatest'
    BY DEF SnapIsLatest
  <2>5. HealsCutOffs'
    BY DEF HealsCutOffs
  <2>6. CallsLogged'
    BY DEF CallsLogged
  <2>7. OrphansAreOver'
    BY DEF OrphansAreOver
  <2>8. QED
    BY <2>1, <2>2, <2>3, <2>4, <2>5, <2>6, <2>7
<1>3. CASE AppendHealEvent(t)
  <2> USE <1>3 DEF AppendHealEvent
  <2>1. NotStarted'
    BY DEF NotStarted
  <2>2. InTime'
    BY DEF InTime
  <2>3. MarkIsLatest'
    BY DEF MarkIsLatest
  <2>4. SnapIsLatest'
    BY DEF SnapIsLatest
  <2>5. HealsCutOffs'
    BY DEF HealsCutOffs
  <2>6. CallsLogged'
    <3>1. vs[t] \in Turns
      BY DEF HasSession
    <3>2. History!AnswerEvent(orphans[t]) \in History!Event
      BY EventTypes
    <3>3. History!AnswerEvent(orphans[t]).calls = {}
      BY DEF History!AnswerEvent
    <3>4. QED
      BY <3>1, <3>2, <3>3, StoreCalls
  <2>7. OrphansAreOver'
    BY DEF OrphansAreOver
  <2>8. QED
    BY <2>1, <2>2, <2>3, <2>4, <2>5, <2>6, <2>7
<1>4. CASE HealGivesUp(t)
  <2> USE <1>4 DEF HealGivesUp
  <2>1. NotStarted'
    BY DEF NotStarted
  <2>2. InTime'
    BY DEF InTime
  <2>3. MarkIsLatest'
    BY DEF MarkIsLatest
  <2>4. SnapIsLatest'
    BY DEF SnapIsLatest
  <2>5. HealsCutOffs'
    BY DEF HealsCutOffs
  <2>6. CallsLogged'
    BY DEF CallsLogged
  <2>7. OrphansAreOver'
    BY DEF OrphansAreOver
  <2>8. QED
    BY <2>1, <2>2, <2>3, <2>4, <2>5, <2>6, <2>7
<1>5. QED
  BY <1>1, <1>2, <1>3, <1>4 DEF Heal

\* A marker that is written is the one of this run, now.
LEMMA WriteMarkWritten ==
  ASSUME MarksAreWritten, NEW t \in Turns, WriteMark([run |-> t, at |-> now], "mark")
  PROVE  (sess # NoTurn => mark'.at = now) /\ UNCHANGED sess
BY DEF WriteMark, MarksAreWritten

\* The run's own steps keep it, provided that its marker is written.
LEMMA RunHealInv ==
  ASSUME MarksAreWritten, TypeInv, HealInv, NEW t \in Turns, Run(t) PROVE HealInv'
<1> USE DEF TypeInv, TypeOK, Preparing, Running, Healing, Live, Goto,
            docVars, turnVars, healVars, runVars, logVars
<1> USE DEF HealInv
<1>1. CASE MarkRunStarted(t)
  <2>1. /\ sess # NoTurn => mark'.at = now
        /\ UNCHANGED <<now, sess, vs, snap, readAt, engine, log, tailAt, orphans>>
    BY <1>1, WriteMarkWritten DEF MarkRunStarted, turnVars, healVars, logVars
  <2>2. /\ engine[t] = "idle" /\ now > 0
        /\ markAt' = [markAt EXCEPT ![t] = now]
        /\ pc[t] = "mark" /\ pc' = [pc EXCEPT ![t] = "send"]
    BY <1>1 DEF MarkRunStarted, NotStarted, InTime
  <2>3. NotStarted'
    BY <2>1, <2>2 DEF NotStarted
  <2>4. InTime'
    <3>1. now <= now + RunLimit
      BY BoundsAssumption
    <3>2. QED
      BY <2>1, <2>2, <3>1 DEF InTime
  <2>5. MarkIsLatest'
    BY <2>1, <2>2 DEF MarkIsLatest, InTime
  <2>6. SnapIsLatest'
    BY <2>1, <2>2 DEF SnapIsLatest, InTime
  <2>7. HealsCutOffs' /\ OrphansAreOver'
    BY <2>1, <2>2 DEF HealsCutOffs, OrphansAreOver
  <2>8. CallsLogged'
    BY <2>1, <2>2 DEF CallsLogged
  <2>9. QED
    BY <2>3, <2>4, <2>5, <2>6, <2>7, <2>8
<1>2. CASE SendMessage(t)
  <2> USE <1>2 DEF SendMessage
  <2>1. NotStarted'
    BY DEF NotStarted
  <2>2. InTime'
    BY DEF InTime
  <2>3. MarkIsLatest'
    BY DEF MarkIsLatest
  <2>4. SnapIsLatest'
    BY DEF SnapIsLatest
  <2>5. HealsCutOffs'
    BY DEF HealsCutOffs
  <2>6. CallsLogged'
    <3>1. vs[t] \in Turns
      BY DEF HasSession
    <3>2. History!TextEvent.calls = {}
      BY DEF History!TextEvent
    <3>3. QED
      BY <3>1, <3>2, EventTypes, StoreCalls
  <2>7. OrphansAreOver'
    <3>1. engine[t] = "idle" /\ engine' = [engine EXCEPT ![t] = "model"]
      BY DEF NotStarted
    <3>2. pc'[t] = "wait" /\ \A u \in Turns : u # t => pc'[u] = pc[u]
      OBVIOUS
    <3>3. QED
      BY <3>1, <3>2 DEF OrphansAreOver
  <2>8. QED
    BY <2>1, <2>2, <2>3, <2>4, <2>5, <2>6, <2>7
<1>3. QED
  BY <1>1, <1>2 DEF Run

\* The engine's steps keep the invariant of healing.
LEMMA EngineHealInv ==
  ASSUME TypeInv, HealInv, NEW t \in Turns, Engine(t) PROVE HealInv'
<1> USE DEF TypeInv, TypeOK, Preparing, Running, Healing, Live, Goto,
            docVars, turnVars, healVars, runVars, logVars
<1> USE DEF HealInv
<1>1. CASE ModelCallsTool(t)
  <2> USE <1>1 DEF ModelCallsTool, EngineStep
  <2>1. NotStarted'
    BY DEF NotStarted
  <2>2. InTime'
    BY DEF InTime
  <2>3. MarkIsLatest'
    BY DEF MarkIsLatest
  <2>4. SnapIsLatest'
    BY DEF SnapIsLatest
  <2>5. HealsCutOffs'
    BY DEF HealsCutOffs
  <2>6. CallsLogged'
    <3>1. vs[t] \in Turns
      BY DEF HasSession
    <3>2. History!CallEvent({t}, {t} \cap LongRunningTurns).calls = {t}
          /\ History!CallEvent({t}, {t} \cap LongRunningTurns) \in History!Event
      BY EventTypes DEF History!CallEvent
    <3>3. engine'[t] # "idle" /\ \A c \in Turns : engine[c] # "idle" => engine'[c] # "idle"
      OBVIOUS
    <3>4. QED
      BY <3>1, <3>2, <3>3, StoreCalls
  <2>7. OrphansAreOver'
    BY DEF OrphansAreOver
  <2>8. QED
    BY <2>1, <2>2, <2>3, <2>4, <2>5, <2>6, <2>7
<1>2. CASE ToolAnswers(t)
  <2> USE <1>2 DEF ToolAnswers, EngineStep
  <2>1. NotStarted'
    BY DEF NotStarted
  <2>2. InTime'
    BY DEF InTime
  <2>3. MarkIsLatest'
    BY DEF MarkIsLatest
  <2>4. SnapIsLatest'
    BY DEF SnapIsLatest
  <2>5. HealsCutOffs'
    BY DEF HealsCutOffs
  <2>6. CallsLogged'
    <3>1. vs[t] \in Turns
      BY DEF HasSession
    <3>2. History!AnswerEvent({t}).calls = {} /\ History!AnswerEvent({t}) \in History!Event
      BY EventTypes DEF History!AnswerEvent
    <3>3. engine'[t] # "idle" /\ \A c \in Turns : engine[c] # "idle" => engine'[c] # "idle"
      OBVIOUS
    <3>4. QED
      BY <3>1, <3>2, <3>3, StoreCalls
  <2>7. OrphansAreOver'
    BY DEF OrphansAreOver
  <2>8. QED
    BY <2>1, <2>2, <2>3, <2>4, <2>5, <2>6, <2>7
<1>3. CASE ModelReplies(t)
  <2> USE <1>3 DEF ModelReplies, EngineStep
  <2>1. NotStarted'
    BY DEF NotStarted
  <2>2. InTime'
    BY DEF InTime
  <2>3. MarkIsLatest'
    BY DEF MarkIsLatest
  <2>4. SnapIsLatest'
    BY DEF SnapIsLatest
  <2>5. HealsCutOffs'
    BY DEF HealsCutOffs
  <2>6. CallsLogged'
    <3>1. vs[t] \in Turns
      BY DEF HasSession
    <3>2. History!TextEvent.calls = {} /\ History!TextEvent \in History!Event
      BY EventTypes DEF History!TextEvent
    <3>3. engine'[t] # "idle" /\ \A c \in Turns : engine[c] # "idle" => engine'[c] # "idle"
      OBVIOUS
    <3>4. QED
      BY <3>1, <3>2, <3>3, StoreCalls
  <2>7. OrphansAreOver'
    BY DEF OrphansAreOver
  <2>8. QED
    BY <2>1, <2>2, <2>3, <2>4, <2>5, <2>6, <2>7
<1>4. CASE RunEnds(t)
  <2> USE <1>4 DEF RunEnds
  <2>1. NotStarted'
    BY DEF NotStarted
  <2>2. InTime'
    BY DEF InTime
  <2>3. MarkIsLatest'
    BY DEF MarkIsLatest
  <2>4. SnapIsLatest'
    BY DEF SnapIsLatest
  <2>5. HealsCutOffs'
    BY DEF HealsCutOffs
  <2>6. CallsLogged'
    BY DEF CallsLogged
  <2>7. OrphansAreOver'
    BY DEF OrphansAreOver
  <2>8. QED
    BY <2>1, <2>2, <2>3, <2>4, <2>5, <2>6, <2>7
<1>5. CASE StreamBreaks(t)
  <2> USE <1>5 DEF StreamBreaks
  <2>1. NotStarted'
    BY DEF NotStarted
  <2>2. InTime'
    BY DEF InTime
  <2>3. MarkIsLatest'
    BY DEF MarkIsLatest
  <2>4. SnapIsLatest'
    BY DEF SnapIsLatest
  <2>5. HealsCutOffs'
    BY DEF HealsCutOffs
  <2>6. CallsLogged'
    BY DEF CallsLogged
  <2>7. OrphansAreOver'
    BY DEF OrphansAreOver
  <2>8. QED
    BY <2>1, <2>2, <2>3, <2>4, <2>5, <2>6, <2>7
<1>6. QED
  BY <1>1, <1>2, <1>3, <1>4, <1>5 DEF Engine

\* What a turn does with the outcome, and its loss, keep it too.
LEMMA FinishHealInv ==
  ASSUME MarksAreWritten, TypeInv, HealInv, NEW t \in Turns, Finish(t) \/ TurnLost(t)
  PROVE  HealInv'
<1> USE DEF TypeInv, TypeOK, Preparing, Running, Healing, Live, Goto,
            docVars, turnVars, healVars, runVars, logVars
<1> USE DEF HealInv
<1>1. CASE CloseOutAnswered(t)
  <2> USE <1>1 DEF CloseOutAnswered, WriteMark
  <2>1. NotStarted'
    BY DEF NotStarted
  <2>2. InTime'
    BY DEF InTime
  <2>3. MarkIsLatest'
    BY DEF MarkIsLatest
  <2>4. SnapIsLatest'
    BY DEF SnapIsLatest
  <2>5. HealsCutOffs'
    BY DEF HealsCutOffs
  <2>6. CallsLogged'
    BY DEF CallsLogged
  <2>7. OrphansAreOver'
    BY DEF OrphansAreOver
  <2>8. QED
    BY <2>1, <2>2, <2>3, <2>4, <2>5, <2>6, <2>7
<1>2. CASE LeaveNewMark(t)
  <2> USE <1>2 DEF LeaveNewMark, WriteMark
  <2>1. NotStarted'
    BY DEF NotStarted
  <2>2. InTime'
    BY DEF InTime
  <2>3. MarkIsLatest'
    <3>1. (sess # NoTurn => mark'.at = now) /\ sess' = sess
      BY WriteMarkWritten
    <3>2. QED
      BY <3>1 DEF MarkIsLatest, InTime
  <2>4. SnapIsLatest'
    BY DEF SnapIsLatest
  <2>5. HealsCutOffs'
    BY DEF HealsCutOffs
  <2>6. CallsLogged'
    BY DEF CallsLogged
  <2>7. OrphansAreOver'
    BY DEF OrphansAreOver
  <2>8. QED
    BY <2>1, <2>2, <2>3, <2>4, <2>5, <2>6, <2>7
<1>3. CASE LeaveMark(t)
  <2> USE <1>3 DEF LeaveMark
  <2>1. NotStarted'
    BY DEF NotStarted
  <2>2. InTime'
    BY DEF InTime
  <2>3. MarkIsLatest'
    BY DEF MarkIsLatest
  <2>4. SnapIsLatest'
    BY DEF SnapIsLatest
  <2>5. HealsCutOffs'
    BY DEF HealsCutOffs
  <2>6. CallsLogged'
    BY DEF CallsLogged
  <2>7. OrphansAreOver'
    BY DEF OrphansAreOver
  <2>8. QED
    BY <2>1, <2>2, <2>3, <2>4, <2>5, <2>6, <2>7
<1>4. CASE Reply(t)
  <2> USE <1>4 DEF Reply
  <2>1. NotStarted'
    BY DEF NotStarted
  <2>2. InTime'
    BY DEF InTime
  <2>3. MarkIsLatest'
    BY DEF MarkIsLatest
  <2>4. SnapIsLatest'
    BY DEF SnapIsLatest
  <2>5. HealsCutOffs'
    BY DEF HealsCutOffs
  <2>6. CallsLogged'
    BY DEF CallsLogged
  <2>7. OrphansAreOver'
    BY DEF OrphansAreOver
  <2>8. QED
    BY <2>1, <2>2, <2>3, <2>4, <2>5, <2>6, <2>7
<1>5. CASE TurnLost(t)
  <2> USE <1>5 DEF TurnLost
  <2>1. NotStarted'
    BY DEF NotStarted
  <2>2. InTime'
    BY DEF InTime
  <2>3. MarkIsLatest'
    BY DEF MarkIsLatest
  <2>4. SnapIsLatest'
    BY DEF SnapIsLatest
  <2>5. HealsCutOffs'
    BY DEF HealsCutOffs
  <2>6. CallsLogged'
    BY DEF CallsLogged
  <2>7. OrphansAreOver'
    BY DEF OrphansAreOver
  <2>8. QED
    BY <2>1, <2>2, <2>3, <2>4, <2>5, <2>6, <2>7
<1>6. QED
  BY <1>1, <1>2, <1>3, <1>4, <1>5 DEF Finish

\* Time passes within the limits.
LEMMA TickHealInv ==
  ASSUME TypeInv, HealInv, Tick PROVE HealInv'
<1> USE DEF TypeInv, TypeOK, Preparing, Running, Healing, Live, Goto,
            docVars, turnVars, healVars, runVars, logVars
<1> USE DEF HealInv
<1> USE DEF Tick
<1>1. NotStarted'
  BY DEF NotStarted
<1>2. InTime'
  BY BoundsAreNat DEF InTime
<1>3. MarkIsLatest'
  BY DEF MarkIsLatest
<1>4. SnapIsLatest'
  BY DEF SnapIsLatest
<1>5. HealsCutOffs'
  <2>1. \A u \in Turns : snap[u].at \in Nat
    BY MarkTypes
  <2>2. QED
    BY <2>1, BoundsAreNat DEF HealsCutOffs
<1>6. CallsLogged'
  BY DEF CallsLogged
<1>7. OrphansAreOver'
  BY DEF OrphansAreOver
<1>8. QED
  BY <1>1, <1>2, <1>3, <1>4, <1>5, <1>6, <1>7

\* No step of the system breaks the invariant of healing.
LEMMA HealInvStep ==
  ASSUME MarksAreWritten, TypeInv, HealInv, [Next]_vars PROVE HealInv'
<1>1. CASE Tick
  BY <1>1, TickHealInv
<1>2. CASE UNCHANGED vars
  BY <1>2 DEF vars, HealInv, NotStarted, InTime, MarkIsLatest, SnapIsLatest, HealsCutOffs,
              CallsLogged, OrphansAreOver, Live, docVars, turnVars, healVars, runVars, logVars
<1>3. CASE \E t \in Turns : Prepare(t) \/ Heal(t) \/ Run(t) \/ Engine(t) \/ Finish(t) \/ TurnLost(t)
  BY <1>3, PrepareHealInv, HealHealInv, RunHealInv, EngineHealInv, FinishHealInv
<1>4. QED
  BY <1>1, <1>2, <1>3 DEF Next

\* The invariant of healing, as long as the markers of runs are written.
LEMMA HealInvariant == MarksAreWritten => (Spec => []HealInv)
<1> SUFFICES ASSUME MarksAreWritten PROVE Spec => []HealInv
  OBVIOUS
<1>1. Init => HealInv
  <2> SUFFICES ASSUME Init PROVE HealInv
    OBVIOUS
  <2> USE DEF Init, Preparing, Running, Healing, Live
  <2>1. NotStarted /\ HealsCutOffs /\ SnapIsLatest /\ OrphansAreOver
    BY DEF NotStarted, HealsCutOffs, SnapIsLatest, OrphansAreOver
  <2>2. InTime /\ MarkIsLatest
    BY DEF InTime, MarkIsLatest
  <2>3. CallsLogged
    BY DEF CallsLogged
  <2>4. QED
    BY <2>1, <2>2, <2>3 DEF HealInv
<1>2. TypeInv /\ HealInv /\ [Next]_vars => HealInv'
  BY HealInvStep
<1>3. QED
  BY <1>1, <1>2, TypeInvariant, PTL DEF Spec

\* As long as the markers of runs are written, no healer, on any interleaving of
\* any number of turns, answers a tool call whose run may still be going on.
THEOREM OnlyDeadRunsAreHealed == MarksAreWritten => (Spec => []HealedRunsAreOver)
<1> SUFFICES ASSUME MarksAreWritten PROVE Spec => []HealedRunsAreOver
  OBVIOUS
<1>1. TypeInv /\ HealInv => HealedRunsAreOver
  BY DEF HealInv, OrphansAreOver, HealedRunsAreOver, TypeInv, TypeOK, Live
<1>2. QED
  BY <1>1, TypeInvariant, HealInvariant, PTL

-----------------------------------------------------------------------------
(* The clock, whatever calls fail: the two parts of HealInv that do not need *)
(* the markers.                                                              *)

TimeInv == NotStarted /\ InTime

(* The reports.  A marker is the one its run wrote, and not of a run that    *)
(* closed with a reply; a turn about to report what it read either read the  *)
(* marker of a run that is not closed, or read it before that run was        *)
(* closed, which was long before the marker could grow old.                  *)

MarksAreCleared == "clear" \notin Faults

Closed(t) == out[t] = "text" /\ pc[t] \in {"reply", "done"}

NoMarkWithoutDocument == sess = NoTurn => mark = NoMark

MarkIsOfItsRun ==
  mark # NoMark =>
    /\ mark.run \in Turns
    /\ markAt[mark.run] > 0 /\ mark.at >= markAt[mark.run]
    /\ ~Closed(mark.run)

SnapIsOfItsRun ==
  \A t \in Turns : pc[t] = "touch" /\ snap[t] # NoMark =>
    /\ snap[t].run \in Turns
    /\ markAt[snap[t].run] > 0 /\ snap[t].at >= markAt[snap[t].run]
    /\ Closed(snap[t].run) => readAt[t] <= markAt[snap[t].run] + RunLimit

ReportedAreOver == \A t \in reports : t \in Turns /\ pc[t] \in {"done", "lost"} /\ ~Closed(t)

ReportInv == TimeInv /\ NoMarkWithoutDocument /\ MarkIsOfItsRun /\ SnapIsOfItsRun /\ ReportedAreOver

(* The markers that are written over.  From its read to its marker a turn    *)
(* knows the marker in the document, or that one is younger than the read,   *)
(* or was too young to count when the turn looked at it; a run keeps the     *)
(* marker it wrote, or finds a younger one.                                  *)

MarkIsKnown ==
  \A t \in Turns :
    /\ pc[t] = "touch" => mark \in {snap[t], NoMark} \/ mark.at >= readAt[t]
    /\ pc[t] \in Healing \cup {"mark"} =>
         mark = NoMark \/ mark.run \in reports \/ readAt[t] < mark.at + CutOffAfter
    /\ pc[t] \in Running => mark = NoMark \/ mark.at >= markAt[t]

OverwriteInv == TimeInv /\ NoMarkWithoutDocument /\ MarkIsKnown
\* The clock and the steps of a turn.
LEMMA TimeInvStep == TypeInv /\ TimeInv /\ [Next]_vars => TimeInv'
<1> SUFFICES ASSUME TypeInv, TimeInv, [Next]_vars PROVE TimeInv'
  OBVIOUS
<1> USE BoundsAreNat DEF TypeInv, TypeOK, TimeInv, NotStarted, InTime, Live, Goto,
            Preparing, Running, docVars, turnVars, healVars, runVars, logVars
<1>1. CASE Tick
  BY <1>1 DEF Tick
<1>2. CASE UNCHANGED vars
  BY <1>2 DEF vars
<1>3. ASSUME NEW t \in Turns, Prepare(t) PROVE TimeInv'
  <2>1. CASE GetSessionByUser(t)
    <3>1. /\ pc[t] = "idle" /\ pc'[t] \in {"touch", "drop", "store"} /\ readAt'[t] = now
          /\ UNCHANGED <<now, markAt, engine>>
          /\ \A u \in Turns \ {t} : pc'[u] = pc[u] /\ readAt'[u] = readAt[u]
      BY <2>1 DEF GetSessionByUser
    <3>2. pc'[t] \in Preparing /\ pc'[t] \notin Running
      BY <3>1
    <3>3. engine[t] = "idle" /\ markAt[t] = 0
      BY <3>1
    <3>4. \A u \in Turns :
            /\ pc'[u] \in {"idle", "send"} \cup Preparing => engine[u] = "idle"
            /\ pc'[u] \in {"idle"} \cup Preparing => markAt[u] = 0
            /\ engine[u] # "idle" \/ pc'[u] \in Running => markAt[u] > 0
      <4> HIDE DEF Preparing, Running
      <4>1. QED
        BY <3>1, <3>2, <3>3
    <3>5. NotStarted'
      BY <3>1, <3>4
    <3>6. \A u \in Turns :
            /\ markAt[u] <= now /\ readAt'[u] <= now
            /\ pc'[u] \in Preparing => now <= readAt'[u] + StepLimit
            /\ pc'[u] \in Running \/ engine[u] \in {"model", "tool", "answered"} =>
                 now <= markAt[u] + RunLimit
      <4>1. now \in Nat /\ StepLimit \in Nat /\ now <= now + StepLimit
        OBVIOUS
      <4>2. \A u \in Turns :
              /\ markAt[u] <= now /\ readAt[u] <= now
              /\ pc[u] \in Preparing => now <= readAt[u] + StepLimit
              /\ pc[u] \in Running \/ engine[u] \in {"model", "tool", "answered"} =>
                   now <= markAt[u] + RunLimit
        OBVIOUS
      <4> HIDE DEF TypeInv, TypeOK, NotStarted, InTime, TimeInv, Preparing, Running
      <4>3. QED
        BY <3>1, <3>2, <3>3, <4>1, <4>2
    <3>7. InTime'
      BY <3>1, <3>6
    <3>8. QED
      BY <3>5, <3>7
  <2>2. CASE DeleteExpired(t)
    BY <2>2 DEF DeleteExpired
  <2>3. CASE CreateSessionForUser(t)
    BY <2>3 DEF CreateSessionForUser
  <2>4. CASE UpdateSessionPlatforms(t)
    BY <2>4 DEF UpdateSessionPlatforms
  <2>5. QED
    BY <1>3, <2>1, <2>2, <2>3, <2>4 DEF Prepare
<1>4. ASSUME NEW t \in Turns, Heal(t) PROVE TimeInv'
  <2>1. CASE ListTail(t)
    BY <2>1 DEF ListTail
  <2>2. CASE RecheckTail(t)
    BY <2>2 DEF RecheckTail
  <2>3. CASE AppendHealEvent(t)
    BY <2>3 DEF AppendHealEvent
  <2>4. CASE HealGivesUp(t)
    BY <2>4 DEF HealGivesUp
  <2>5. QED
    BY <1>4, <2>1, <2>2, <2>3, <2>4 DEF Heal
<1>5. ASSUME NEW t \in Turns, Run(t) PROVE TimeInv'
  <2>1. CASE MarkRunStarted(t)
    BY <2>1 DEF MarkRunStarted
  <2>2. CASE SendMessage(t)
    BY <2>2 DEF SendMessage
  <2>3. QED
    BY <1>5, <2>1, <2>2 DEF Run
<1>6. ASSUME NEW t \in Turns, Engine(t) PROVE TimeInv'
  <2>1. CASE ModelCallsTool(t) \/ ToolAnswers(t) \/ ModelReplies(t)
    <3>1. /\ engine[t] \in {"model", "tool", "answered"}
          /\ \E e \in {"tool", "answered", "over"} : engine' = [engine EXCEPT ![t] = e]
          /\ UNCHANGED <<now, pc, markAt, readAt>>
      BY <2>1 DEF ModelCallsTool, ToolAnswers, ModelReplies, EngineStep
    <3>2. QED
      BY <3>1
  <2>2. CASE RunEnds(t)
    BY <2>2 DEF RunEnds
  <2>3. CASE StreamBreaks(t)
    BY <2>3 DEF StreamBreaks
  <2>4. QED
    BY <1>6, <2>1, <2>2, <2>3 DEF Engine
<1>7. ASSUME NEW t \in Turns, Finish(t) \/ TurnLost(t) PROVE TimeInv'
  <2>1. /\ pc[t] \in Preparing \cup Running /\ UNCHANGED <<now, engine, markAt, readAt>>
        /\ \/ pc' = [pc EXCEPT ![t] = "reply"] /\ pc[t] = "wait"
           \/ pc' = [pc EXCEPT ![t] = "done"] \/ pc' = [pc EXCEPT ![t] = "lost"]
    BY <1>7 DEF Finish, CloseOutAnswered, LeaveNewMark, LeaveMark, Reply, TurnLost
  <2>2. QED
    BY <2>1
<1>8. QED
  BY <1>1, <1>2, <1>3, <1>4, <1>5, <1>6, <1>7 DEF Next

LEMMA TimeInvariant == Spec => []TimeInv
<1>1. Init => TimeInv
  BY DEF Init, TimeInv, NotStarted, InTime, Preparing, Running, Live
<1>2. QED
  BY <1>1, TimeInvStep, TypeInvariant, PTL DEF Spec

\* What a step of a turn leaves alone: the other turns, the clock and, but for the
\* steps that write it, the marker.
LEMMA OthersKeep ==
  ASSUME TypeInv, NEW t \in Turns,
         Prepare(t) \/ Heal(t) \/ Run(t) \/ Engine(t) \/ Finish(t) \/ TurnLost(t)
  PROVE  /\ now' = now
         /\ \A u \in Turns \ {t} :
              /\ pc'[u] = pc[u] /\ readAt'[u] = readAt[u] /\ snap'[u] = snap[u]
              /\ vs'[u] = vs[u] /\ markAt'[u] = markAt[u] /\ out'[u] = out[u]
              /\ prev'[u] = prev[u] /\ orphans'[u] = orphans[u] /\ engine'[u] = engine[u]
<1> USE DEF TypeInv, TypeOK, Goto, docVars, turnVars, healVars, runVars, logVars
<1>1. CASE Prepare(t)
  BY <1>1 DEF Prepare, GetSessionByUser, DeleteExpired, CreateSessionForUser,
              UpdateSessionPlatforms
<1>2. CASE Heal(t)
  BY <1>2 DEF Heal, ListTail, RecheckTail, AppendHealEvent, HealGivesUp
<1>3. CASE Run(t)
  BY <1>3 DEF Run, MarkRunStarted, SendMessage
<1>4. CASE Engine(t)
  BY <1>4 DEF Engine, ModelCallsTool, ToolAnswers, ModelReplies, EngineStep, RunEnds,
              StreamBreaks, Hears
<1>5. CASE Finish(t) \/ TurnLost(t)
  BY <1>5 DEF Finish, CloseOutAnswered, LeaveNewMark, LeaveMark, Reply, TurnLost
<1>6. QED
  BY <1>1, <1>2, <1>3, <1>4, <1>5

-----------------------------------------------------------------------------
\* The clock and the limits a turn about to report is bound by.
LEMMA ReportsAreLate ==
  ASSUME TypeInv, TimeInv, SnapIsOfItsRun, NEW t \in Turns, pc[t] = "touch", CutOff(t)
  PROVE  LET c == snap[t].run
         IN  c \in Turns /\ ~Closed(c) /\ pc[c] \in {"done", "lost"}
<1> DEFINE c == snap[t].run
<1>1. /\ snap[t] # NoMark /\ now >= snap[t].at + CutOffAfter
      /\ snap[t].at \in Nat /\ now \in Nat /\ readAt[t] \in Nat
  BY MarkTypes DEF CutOff, TypeInv, TypeOK
<1>2. /\ c \in Turns /\ markAt[c] > 0 /\ snap[t].at >= markAt[c]
      /\ Closed(c) => readAt[t] <= markAt[c] + RunLimit
  BY <1>1 DEF SnapIsOfItsRun
<1>3. markAt[c] \in Nat
  BY <1>2 DEF TypeInv, TypeOK
<1>4. now <= readAt[t] + StepLimit
  BY DEF TimeInv, InTime, Preparing
<1>5. ~Closed(c)
  BY <1>1, <1>2, <1>3, <1>4, BoundsAssumption, TimingAssumption
<1>6. pc[c] \notin Running
  <2>1. pc[c] \in Running => now <= markAt[c] + RunLimit
    BY <1>2 DEF TimeInv, InTime
  <2>2. QED
    BY <1>1, <1>2, <1>3, <2>1, BoundsAssumption, TimingAssumption
<1>7. pc[c] \notin {"idle"} \cup Preparing
  BY <1>2 DEF TimeInv, NotStarted
<1>8. QED
  BY <1>2, <1>5, <1>6, <1>7 DEF TypeInv, TypeOK

\* The steps that write no marker of their own and close no run.
LEMMA ReportQuiet ==
  ASSUME TypeInv, ReportInv, UNCHANGED markAt,
         mark' = NoMark \/ (mark' = mark /\ sess' = sess),
         \A u \in Turns :
           /\ pc'[u] = "touch" => pc[u] = "touch" /\ snap'[u] = snap[u] /\ readAt'[u] = readAt[u]
           /\ Closed(u)' => Closed(u)
           /\ pc[u] \in {"done", "lost"} => pc'[u] = pc[u],
         \A r \in reports' :
           r \in reports \/ (r \in Turns /\ ~Closed(r) /\ pc[r] \in {"done", "lost"})
  PROVE  (NoMarkWithoutDocument /\ MarkIsOfItsRun /\ SnapIsOfItsRun /\ ReportedAreOver)'
<1> USE DEF ReportInv
<1>1. NoMarkWithoutDocument'
  BY DEF NoMarkWithoutDocument
<1>2. MarkIsOfItsRun'
  BY DEF MarkIsOfItsRun
<1>3. SnapIsOfItsRun'
  BY DEF SnapIsOfItsRun
<1>4. ReportedAreOver'
  BY DEF ReportedAreOver
<1>5. QED
  BY <1>1, <1>2, <1>3, <1>4

LEMMA ReportPrepare ==
  ASSUME TypeInv, ReportInv, NEW t \in Turns, Prepare(t)
  PROVE  (NoMarkWithoutDocument /\ MarkIsOfItsRun /\ SnapIsOfItsRun /\ ReportedAreOver)'
<1> USE DEF TypeInv, TypeOK, Goto, docVars, turnVars, healVars, runVars, logVars
<1>0. /\ pc[t] \in {"idle"} \cup Preparing /\ markAt[t] = 0
      /\ pc'[t] \in Preparing \cup {"lost"}
      /\ \A u \in Turns \ {t} : pc'[u] = pc[u]
      /\ UNCHANGED <<markAt, out>>
  BY DEF Prepare, GetSessionByUser, DeleteExpired, CreateSessionForUser,
         UpdateSessionPlatforms, Preparing, ReportInv, TimeInv, NotStarted
<1>1. /\ \A u \in Turns : Closed(u)' <=> Closed(u)
      /\ \A u \in Turns : pc[u] \in {"done", "lost"} => pc'[u] = pc[u]
  BY <1>0 DEF Closed, Preparing
<1>2. CASE GetSessionByUser(t)
  <2>1. /\ UNCHANGED <<sess, mark, markAt, reports>>
        /\ pc'[t] = "touch" => snap'[t] = mark
        /\ \A u \in Turns \ {t} : snap'[u] = snap[u] /\ pc'[u] = pc[u] /\ readAt'[u] = readAt[u]
    BY <1>2 DEF GetSessionByUser
  <2>2. NoMarkWithoutDocument' /\ MarkIsOfItsRun' /\ ReportedAreOver'
    BY <1>1, <2>1 DEF ReportInv, NoMarkWithoutDocument, MarkIsOfItsRun, ReportedAreOver
  <2>3. ASSUME NEW u \in Turns, pc'[u] = "touch", snap'[u] # NoMark
        PROVE  /\ snap'[u].run \in Turns
               /\ markAt'[snap'[u].run] > 0 /\ snap'[u].at >= markAt'[snap'[u].run]
               /\ (out'[snap'[u].run] = "text" /\ pc'[snap'[u].run] \in {"reply", "done"})
                    => readAt'[u] <= markAt'[snap'[u].run] + RunLimit
    <3>1. \A c \in Turns : out'[c] = "text" /\ pc'[c] \in {"reply", "done"} => Closed(c)
      BY <1>1 DEF Closed
    <3>2. CASE u = t
      <4>1. snap'[u] = mark /\ markAt' = markAt /\ mark # NoMark
        BY <2>1, <2>3, <3>2
      <4>2. /\ mark.run \in Turns /\ ~Closed(mark.run)
            /\ markAt[mark.run] > 0 /\ mark.at >= markAt[mark.run]
        BY ONLY ReportInv, <4>1 DEF ReportInv, MarkIsOfItsRun
      <4>3. QED
        BY ONLY <3>1, <4>1, <4>2
    <3>3. CASE u # t
      <4>1. /\ pc[u] = "touch" /\ snap'[u] = snap[u] /\ snap[u] # NoMark
            /\ readAt'[u] = readAt[u] /\ markAt' = markAt
        BY <2>1, <2>3, <3>3
      <4>2. /\ snap[u].run \in Turns
            /\ markAt[snap[u].run] > 0 /\ snap[u].at >= markAt[snap[u].run]
            /\ Closed(snap[u].run) => readAt[u] <= markAt[snap[u].run] + RunLimit
        BY ONLY ReportInv, u \in Turns, <4>1 DEF ReportInv, SnapIsOfItsRun
      <4>3. QED
        BY ONLY <3>1, <4>1, <4>2
    <3>4. QED
      BY <3>2, <3>3
  <2>4. SnapIsOfItsRun'
    BY ONLY <2>3 DEF SnapIsOfItsRun, Closed
  <2>5. QED
    BY <2>2, <2>4
<1>3. CASE DeleteExpired(t) \/ CreateSessionForUser(t)
  <2>1. /\ mark' = NoMark \/ (mark' = mark /\ sess' = sess)
        /\ pc'[t] # "touch" /\ UNCHANGED <<markAt, snap, readAt, reports>>
    BY <1>3 DEF DeleteExpired, CreateSessionForUser
  <2>2. QED
    BY <1>0, <1>1, <2>1, ReportQuiet
<1>4. CASE UpdateSessionPlatforms(t)
  <2>1. /\ UNCHANGED <<sess, mark, snap, readAt, markAt>>
        /\ pc[t] = "touch" /\ pc'[t] # "touch"
        /\ reports' = reports \/ (CutOff(t) /\ reports' = reports \cup {snap[t].run})
    BY <1>4 DEF UpdateSessionPlatforms
  <2>2. \A r \in reports' :
           r \in reports \/ (r \in Turns /\ ~Closed(r) /\ pc[r] \in {"done", "lost"})
    <3>1. CutOff(t) => /\ snap[t].run \in Turns /\ ~Closed(snap[t].run)
                       /\ pc[snap[t].run] \in {"done", "lost"}
      BY ONLY TypeInv, ReportInv, t \in Turns, <2>1, ReportsAreLate DEF ReportInv
    <3>2. QED
      BY ONLY <2>1, <3>1
  <2>3. QED
    BY <1>0, <1>1, <2>1, <2>2, ReportQuiet
<1>5. QED
  BY <1>2, <1>3, <1>4 DEF Prepare

LEMMA ReportRun ==
  ASSUME MarksAreCleared, TypeInv, ReportInv, NEW t \in Turns,
         Heal(t) \/ Run(t) \/ Engine(t) \/ Finish(t) \/ TurnLost(t)
  PROVE  (NoMarkWithoutDocument /\ MarkIsOfItsRun /\ SnapIsOfItsRun /\ ReportedAreOver)'
<1> USE DEF TypeInv, TypeOK, Goto, docVars, turnVars, healVars, runVars, logVars
<1>0. /\ UNCHANGED <<sess, snap, readAt, reports>>
      /\ pc[t] \in Preparing \cup Running \/ pc' = pc
      /\ pc'[t] = "touch" => pc[t] = "touch"
      /\ \A u \in Turns \ {t} : pc'[u] = pc[u] /\ out'[u] = out[u] /\ markAt'[u] = markAt[u]
  <2>1. CASE Heal(t)
    BY <2>1 DEF Heal, ListTail, RecheckTail, AppendHealEvent, HealGivesUp, Preparing
  <2>2. CASE Run(t)
    BY <2>2 DEF Run, MarkRunStarted, SendMessage, WriteMark, Preparing, Running
  <2>3. CASE Engine(t)
    BY <2>3 DEF Engine, ModelCallsTool, ToolAnswers, ModelReplies, EngineStep, RunEnds,
                StreamBreaks, Hears
  <2>4. CASE Finish(t) \/ TurnLost(t)
    BY <2>4 DEF Finish, CloseOutAnswered, LeaveNewMark, LeaveMark, Reply, TurnLost,
                WriteMark, Preparing, Running
  <2>5. QED
    BY <2>1, <2>2, <2>3, <2>4
<1>1. \A u \in Turns : pc[u] \in {"done", "lost"} => pc'[u] = pc[u]
  BY <1>0 DEF Preparing, Running
<1>2. CASE Heal(t) \/ SendMessage(t)
  <2>1. UNCHANGED <<mark, markAt, out>> /\ pc'[t] \notin {"reply", "done"}
    BY <1>2 DEF Heal, ListTail, RecheckTail, AppendHealEvent, HealGivesUp, SendMessage
  <2>2. QED
    BY <1>0, <1>1, <2>1, ReportQuiet DEF Closed
<1>3. CASE Engine(t)
  <2>1. UNCHANGED <<mark, markAt, pc>> /\ (pc[t] = "wait" \/ out' = out)
    BY <1>3 DEF Engine, ModelCallsTool, ToolAnswers, ModelReplies, EngineStep, RunEnds,
                StreamBreaks, Hears
  <2>2. QED
    BY <1>0, <1>1, <2>1, ReportQuiet DEF Closed
<1>4. CASE Reply(t) \/ LeaveMark(t) \/ TurnLost(t)
  <2>1. UNCHANGED <<mark, markAt, out>>
        /\ (pc[t] = "reply" \/ out[t] # "text" \/ pc'[t] = "lost")
    BY <1>4 DEF Reply, LeaveMark, TurnLost
  <2>2. QED
    BY <1>0, <1>1, <2>1, ReportQuiet DEF Closed
<1>5. CASE CloseOutAnswered(t)
  <2>1. /\ pc[t] = "wait" /\ pc'[t] = "reply" /\ mark' = NoMark /\ UNCHANGED <<markAt, out>>
    BY <1>5 DEF CloseOutAnswered, WriteMark, MarksAreCleared, ReportInv, NoMarkWithoutDocument
  <2>2. now <= markAt[t] + RunLimit /\ \A u \in Turns : readAt[u] <= now
    BY <2>1 DEF ReportInv, TimeInv, InTime, Running
  <2>3. NoMarkWithoutDocument' /\ MarkIsOfItsRun'
    BY <2>1 DEF NoMarkWithoutDocument, MarkIsOfItsRun
  <2>4. SnapIsOfItsRun'
    <3> SUFFICES ASSUME NEW u \in Turns, pc'[u] = "touch", snap[u] # NoMark
                 PROVE  LET c == snap[u].run
                        IN  /\ c \in Turns /\ markAt[c] > 0 /\ snap[u].at >= markAt[c]
                            /\ Closed(c)' => readAt[u] <= markAt[c] + RunLimit
      BY <1>0, <2>1 DEF SnapIsOfItsRun
    <3>1. pc[u] = "touch"
      BY <1>0, <2>1
    <3>2. snap[u].run # t => (Closed(snap[u].run)' <=> Closed(snap[u].run))
      BY <1>0, <3>1 DEF Closed, ReportInv, SnapIsOfItsRun
    <3>3. snap[u].run = t => readAt[u] <= markAt[snap[u].run] + RunLimit
      BY <2>2, BoundsAreNat
    <3>4. QED
      BY <3>1, <3>2, <3>3 DEF ReportInv, SnapIsOfItsRun
  <2>5. ReportedAreOver'
    BY <1>0, <1>1, <2>1 DEF ReportInv, ReportedAreOver, Closed
  <2>6. QED
    BY <2>3, <2>4, <2>5
<1>6. CASE MarkRunStarted(t) \/ LeaveNewMark(t)
  <2>1. /\ pc[t] \in {"mark", "wait"} /\ ~Closed(t)'
        /\ mark' = mark \/ (mark' = [run |-> t, at |-> now] /\ sess # NoTurn)
        /\ pc[t] = "mark" => markAt'[t] = now
        /\ pc[t] = "wait" => markAt'[t] = markAt[t]
    BY <1>6 DEF MarkRunStarted, LeaveNewMark, WriteMark, Closed
  <2>2. /\ now >= 1 /\ markAt[t] <= now
        /\ pc[t] = "mark" => markAt[t] = 0
        /\ pc[t] = "wait" => markAt[t] > 0
    BY <2>1 DEF ReportInv, TimeInv, InTime, NotStarted, Preparing, Running
  <2>3. /\ \A u \in Turns : Closed(u)' => Closed(u)
        /\ \A u \in Turns : markAt[u] > 0 => markAt'[u] = markAt[u]
    BY <1>0, <2>1, <2>2 DEF Closed
  <2>4. NoMarkWithoutDocument'
    BY <1>0, <2>1 DEF ReportInv, NoMarkWithoutDocument
  <2>5. MarkIsOfItsRun'
    <3>1. CASE mark' = mark
      BY <2>3, <3>1 DEF ReportInv, MarkIsOfItsRun
    <3>2. CASE mark' = [run |-> t, at |-> now]
      BY <2>1, <2>2, <3>2 DEF MarkIsOfItsRun
    <3>3. QED
      BY <2>1, <3>1, <3>2
  <2>6. SnapIsOfItsRun'
    BY <1>0, <2>1, <2>3 DEF ReportInv, SnapIsOfItsRun
  <2>7. ReportedAreOver'
    BY <1>0, <1>1, <2>3 DEF ReportInv, ReportedAreOver
  <2>8. QED
    BY <2>4, <2>5, <2>6, <2>7
<1>7. QED
  BY <1>2, <1>3, <1>4, <1>5, <1>6 DEF Run, Finish

\* No turn that closed its run with a reply is ever logged as cut off, for any number of
\* turns in flight, if clearing the marker does not fail.
THEOREM ClosedRunsAreNotReported == MarksAreCleared => (Spec => []AnsweredRunsNotReported)
<1> SUFFICES ASSUME MarksAreCleared PROVE Spec => []AnsweredRunsNotReported
  OBVIOUS
<1> DEFINE Inv == NoMarkWithoutDocument /\ MarkIsOfItsRun /\ SnapIsOfItsRun /\ ReportedAreOver
<1>1. Init => Inv
  BY DEF Init, NoMarkWithoutDocument, MarkIsOfItsRun, SnapIsOfItsRun, ReportedAreOver
<1>2. TypeInv /\ TimeInv /\ Inv /\ [Next]_vars => Inv'
  <2> SUFFICES ASSUME TypeInv, TimeInv, Inv, [Next]_vars PROVE Inv'
    OBVIOUS
  <2>1. ReportInv
    BY DEF ReportInv
  <2>2. CASE Tick \/ UNCHANGED vars
    <3>1. UNCHANGED <<sess, mark, snap, readAt, markAt, reports, pc, out>>
      BY <2>2 DEF Tick, vars, docVars, turnVars, runVars
    <3>2. QED
      BY <2>1, <3>1, ReportQuiet DEF Closed
  <2>3. QED
    BY <2>1, <2>2, ReportPrepare, ReportRun DEF Next
<1>3. Inv => AnsweredRunsNotReported
  BY DEF ReportedAreOver, Closed, AnsweredRunsNotReported
<1>4. QED
  BY <1>1, <1>2, <1>3, TypeInvariant, TimeInvariant, PTL DEF Spec

-----------------------------------------------------------------------------
\* What a turn knows of the marker stays true of it: a marker that is written now is
\* younger than every read and every run so far.
LEMMA KnownKeeps ==
  ASSUME TypeInv, OverwriteInv,
         mark' \in {mark, NoMark} \/ \E r \in Turns : mark' = [run |-> r, at |-> now],
         reports \subseteq reports',
         NEW u \in Turns, snap'[u] = snap[u], readAt'[u] = readAt[u],
         pc'[u] = pc[u] \/ (pc[u] \in Healing /\ pc'[u] \in Healing \cup {"mark"})
                        \/ (pc[u] \in Running /\ pc'[u] \in Running),
         markAt'[u] = markAt[u]
  PROVE  /\ pc'[u] = "touch" => mark' \in {snap'[u], NoMark} \/ mark'.at >= readAt'[u]
         /\ pc'[u] \in Healing \cup {"mark"} =>
              mark' = NoMark \/ mark'.run \in reports' \/ readAt'[u] < mark'.at + CutOffAfter
         /\ pc'[u] \in Running => mark' = NoMark \/ mark'.at >= markAt'[u]
<1>1. /\ now \in Nat /\ readAt[u] <= now /\ markAt[u] <= now
      /\ readAt[u] \in Nat /\ markAt[u] \in Nat /\ CutOffAfter > 0
  BY BoundsAreNat, TimingAssumption DEF TypeInv, TypeOK, OverwriteInv, TimeInv, InTime
<1>2. CASE mark' \in {mark, NoMark}
  BY <1>1, <1>2 DEF OverwriteInv, MarkIsKnown, Healing, Running
<1>3. CASE \E r \in Turns : mark' = [run |-> r, at |-> now]
  <2>1. mark'.at = now
    BY <1>3
  <2>2. readAt[u] < now + CutOffAfter
    BY <1>1, BoundsAreNat
  <2>3. QED
    BY <1>1, <2>1, <2>2
<1>4. QED
  BY <1>2, <1>3

\* From its read to its marker every turn knows the marker in the document.
LEMMA OverwriteInvStep ==
  ASSUME MarksAreWritten, TypeInv, OverwriteInv, [Next]_vars
  PROVE  NoMarkWithoutDocument' /\ MarkIsKnown'
<1> USE DEF Goto, docVars, turnVars, healVars, runVars, logVars
<1>1. CASE Tick \/ UNCHANGED vars
  <2>1. UNCHANGED <<sess, mark, pc, snap, readAt, markAt, reports>>
    BY <1>1 DEF Tick, vars
  <2>2. QED
    BY <2>1 DEF OverwriteInv, NoMarkWithoutDocument, MarkIsKnown
<1>2. ASSUME NEW t \in Turns,
             Prepare(t) \/ Heal(t) \/ Run(t) \/ Engine(t) \/ Finish(t) \/ TurnLost(t)
      PROVE  NoMarkWithoutDocument' /\ MarkIsKnown'
  <2> DEFINE Known(u) ==
        /\ pc'[u] = "touch" => mark' \in {snap'[u], NoMark} \/ mark'.at >= readAt'[u]
        /\ pc'[u] \in Healing \cup {"mark"} =>
             mark' = NoMark \/ mark'.run \in reports' \/ readAt'[u] < mark'.at + CutOffAfter
        /\ pc'[u] \in Running => mark' = NoMark \/ mark'.at >= markAt'[u]
      Quiet == /\ \/ sess' = sess /\ mark' = mark
                  \/ mark' = NoMark
                  \/ sess' = sess /\ sess # NoTurn /\ mark' = [run |-> t, at |-> now]
               /\ reports \subseteq reports'
  <2>1. ASSUME Quiet, Known(t) PROVE NoMarkWithoutDocument' /\ MarkIsKnown'
    <3>1. NoMarkWithoutDocument'
      BY <2>1 DEF OverwriteInv, NoMarkWithoutDocument
    <3>2. ASSUME NEW u \in Turns PROVE Known(u)
      <4>1. CASE u = t
        BY <2>1, <4>1
      <4>2. CASE u # t
        <5>1. /\ pc'[u] = pc[u] /\ snap'[u] = snap[u] /\ readAt'[u] = readAt[u]
              /\ markAt'[u] = markAt[u]
          BY <1>2, <4>2, OthersKeep
        <5>2. mark' \in {mark, NoMark} \/ \E r \in Turns : mark' = [run |-> r, at |-> now]
          BY <2>1
        <5>3. QED
          BY <2>1, <5>1, <5>2, KnownKeeps
      <4>3. QED
        BY <4>1, <4>2
    <3>3. MarkIsKnown'
      BY <3>2 DEF MarkIsKnown
    <3>4. QED
      BY <3>1, <3>3
  <2>2. CASE GetSessionByUser(t)
    <3>1. /\ UNCHANGED <<sess, mark, reports>>
          /\ \/ pc'[t] = "touch" /\ snap'[t] = mark
             \/ pc'[t] \in {"drop", "store"}
      BY <2>2 DEF GetSessionByUser, TypeInv, TypeOK
    <3>2. QED
      BY <2>1, <3>1 DEF Healing, Running
  <2>3. CASE DeleteExpired(t) \/ CreateSessionForUser(t)
    <3>1. /\ mark' = NoMark \/ (sess' = sess /\ mark' = mark)
          /\ UNCHANGED reports
          /\ pc'[t] = "store" \/ (pc'[t] = "mark" /\ mark' = NoMark)
      BY <2>3 DEF DeleteExpired, CreateSessionForUser, TypeInv, TypeOK
    <3>2. QED
      BY <2>1, <3>1 DEF Healing, Running
  <2>4. CASE UpdateSessionPlatforms(t)
    <3>1. /\ pc[t] = "touch" /\ pc'[t] \in {"lost", "mark", "list"}
          /\ UNCHANGED <<sess, mark, snap, readAt>>
          /\ \/ reports' = reports /\ ~CutOff(t)
             \/ reports' = reports \cup {snap[t].run}
             \/ reports' = reports /\ pc'[t] = "lost"
      <4>1. pc[t] = "touch" /\ \E to \in {"lost", "mark", "list"} : pc' = [pc EXCEPT ![t] = to]
        BY <2>4 DEF UpdateSessionPlatforms
      <4>2. pc'[t] \in {"lost", "mark", "list"}
        BY <4>1 DEF TypeInv, TypeOK
      <4>3. ASSUME sess = NoTurn PROVE pc'[t] = "lost" /\ reports' = reports
        BY <2>4, <4>3 DEF UpdateSessionPlatforms, TypeInv, TypeOK
      <4>4. ASSUME sess # NoTurn
            PROVE  \/ ~CutOff(t) /\ reports' = reports
                   \/ reports' = reports \cup {snap[t].run}
        BY <2>4, <4>4, Zenon DEF UpdateSessionPlatforms
      <4>5. UNCHANGED <<sess, mark, snap, readAt>>
        BY <2>4 DEF UpdateSessionPlatforms
      <4>6. QED
        BY <4>1, <4>2, <4>3, <4>4, <4>5
    <3>2. mark \in {snap[t], NoMark} \/ mark.at >= readAt[t]
      BY <3>1 DEF OverwriteInv, MarkIsKnown
    <3>3. /\ now \in Nat /\ readAt[t] \in Nat /\ readAt[t] <= now
          /\ mark.at \in Nat /\ snap[t].at \in Nat /\ CutOffAfter \in Nat /\ CutOffAfter > 0
      BY MarkTypes, BoundsAreNat, TimingAssumption
      DEF TypeInv, TypeOK, OverwriteInv, TimeInv, InTime
    <3>4. CASE mark.at >= readAt[t]
      BY <2>1, <3>1, <3>3, <3>4 DEF Healing, Running
    <3>5. CASE mark = snap[t]
      BY <2>1, <3>1, <3>3, <3>5 DEF Healing, Running, CutOff
    <3>6. CASE mark = NoMark
      BY <2>1, <3>1, <3>6 DEF Healing, Running
    <3>7. QED
      BY <3>2, <3>4, <3>5, <3>6
  <2>5. CASE Heal(t)
    <3>1. /\ UNCHANGED <<sess, mark, reports, readAt, markAt, snap>>
          /\ pc[t] \in Healing /\ pc'[t] \in Healing \cup {"mark"}
      BY <2>5 DEF Heal, ListTail, RecheckTail, AppendHealEvent, HealGivesUp, TypeInv, TypeOK,
                  Healing
    <3>2. QED
      BY <2>1, <3>1, KnownKeeps
  <2>6. CASE SendMessage(t) \/ Engine(t) \/ LeaveMark(t) \/ Reply(t) \/ TurnLost(t)
    <3>1. /\ UNCHANGED <<sess, mark, reports, readAt, markAt, snap>>
          /\ pc'[t] = pc[t] \/ (pc[t] \in Running /\ pc'[t] \in Running)
             \/ pc'[t] \in {"done", "lost"}
      BY <2>6 DEF SendMessage, Engine, ModelCallsTool, ToolAnswers, ModelReplies, EngineStep,
                  RunEnds, StreamBreaks, LeaveMark, Reply, TurnLost, TypeInv, TypeOK, Running
    <3>2. QED
      BY <2>1, <3>1, KnownKeeps DEF Healing, Running
  <2>7. CASE MarkRunStarted(t)
    <3>1. /\ sess' = sess /\ reports' = reports /\ pc'[t] = "send" /\ markAt'[t] = now
          /\ \/ mark' = [run |-> t, at |-> now] /\ sess # NoTurn
             \/ mark' = mark /\ mark = NoMark
      <4>1. pc'[t] = "send" /\ markAt'[t] = now /\ reports' = reports
        BY <2>7 DEF MarkRunStarted, TypeInv, TypeOK
      <4>2. WriteMark([run |-> t, at |-> now], "mark") /\ (sess = NoTurn => mark = NoMark)
        BY <2>7 DEF MarkRunStarted, OverwriteInv, NoMarkWithoutDocument
      <4>3. QED
        BY <4>1, <4>2 DEF WriteMark, MarksAreWritten
    <3>2. now \in Nat
      BY DEF TypeInv, TypeOK
    <3>3. QED
      BY <2>1, <3>1, <3>2 DEF Healing, Running
  <2>8. CASE CloseOutAnswered(t)
    <3>1. /\ sess' = sess /\ reports' = reports /\ mark' \in {mark, NoMark}
          /\ UNCHANGED <<snap, readAt, markAt>>
          /\ pc[t] = "wait" /\ pc'[t] = "reply"
      BY <2>8 DEF CloseOutAnswered, WriteMark, TypeInv, TypeOK
    <3>2. QED
      BY <2>1, <3>1, KnownKeeps DEF Running
  <2>9. CASE LeaveNewMark(t)
    <3>1. /\ sess' = sess /\ reports' = reports /\ pc'[t] = "done"
          /\ \/ mark' = [run |-> t, at |-> now] /\ sess # NoTurn
             \/ mark' = mark
      BY <2>9 DEF LeaveNewMark, WriteMark, TypeInv, TypeOK
    <3>2. QED
      BY <2>1, <3>1 DEF Healing, Running
  <2>10. QED
    BY <1>2, <2>2, <2>3, <2>4, <2>5, <2>6, <2>7, <2>8, <2>9 DEF Prepare, Run, Finish
<1>3. QED
  BY <1>1, <1>2 DEF Next

\* What a step may write over a marker that is neither reported nor young.
LEMMA OverwrittenMarks ==
  ASSUME TypeInv, OverwriteInv, [Next]_vars,
         mark # NoMark, mark' \notin {mark, NoMark}, sess' = sess
  PROVE  mark.run \in reports \/ now < mark.at + CutOffAfter + StepLimit
<1>1. PICK t \in Turns : MarkRunStarted(t) \/ LeaveNewMark(t)
  <2>1. ASSUME NEW t \in Turns,
               Prepare(t) \/ Heal(t) \/ Run(t) \/ Engine(t) \/ Finish(t) \/ TurnLost(t)
        PROVE  MarkRunStarted(t) \/ LeaveNewMark(t)
    BY <2>1 DEF docVars, Prepare, GetSessionByUser, DeleteExpired, CreateSessionForUser,
       UpdateSessionPlatforms, Heal, ListTail, RecheckTail, AppendHealEvent, HealGivesUp, Run,
       SendMessage, Engine, ModelCallsTool, ToolAnswers, ModelReplies, EngineStep, RunEnds,
       StreamBreaks, Finish, CloseOutAnswered, WriteMark, LeaveMark, Reply, TurnLost
  <2>2. QED
    BY <2>1 DEF Next, Tick, vars, docVars
<1>2. /\ now \in Nat /\ mark.at \in Nat /\ readAt[t] \in Nat /\ markAt[t] \in Nat
  BY MarkTypes DEF TypeInv, TypeOK
<1>3. CASE pc[t] = "mark"
  <2>1. mark.run \in reports \/ readAt[t] < mark.at + CutOffAfter
    BY <1>3 DEF OverwriteInv, MarkIsKnown
  <2>2. now <= readAt[t] + StepLimit
    BY <1>3 DEF OverwriteInv, TimeInv, InTime, Preparing
  <2>3. QED
    BY <1>2, <2>1, <2>2, BoundsAreNat
<1>4. CASE pc[t] = "wait"
  <2>1. mark.at >= markAt[t] /\ now <= markAt[t] + RunLimit
    BY <1>4 DEF OverwriteInv, MarkIsKnown, TimeInv, InTime, Running
  <2>2. QED
    BY <1>2, <2>1, BoundsAreNat, TimingAssumption
<1>5. QED
  BY <1>1, <1>3, <1>4 DEF MarkRunStarted, LeaveNewMark, Goto

\* No turn, whatever the others do between its read and its marker, writes over a marker
\* that it should have reported, if the markers of runs are written.
THEOREM NoCutOffIsLost == MarksAreWritten => (Spec => OldMarkersAreReported)
<1> SUFFICES ASSUME MarksAreWritten PROVE Spec => OldMarkersAreReported
  OBVIOUS
<1> DEFINE Inv == NoMarkWithoutDocument /\ MarkIsKnown
<1>1. Init => Inv
  BY DEF Init, NoMarkWithoutDocument, MarkIsKnown, Healing, Running
<1>2. TypeInv /\ TimeInv /\ Inv /\ [Next]_vars => Inv'
  BY OverwriteInvStep DEF OverwriteInv
<1>3. TypeInv /\ TimeInv /\ Inv /\ [Next]_vars =>
        [mark # NoMark /\ mark' \notin {mark, NoMark} /\ sess' = sess
           => mark.run \in reports \/ now < mark.at + CutOffAfter + StepLimit]_vars
  BY OverwrittenMarks DEF OverwriteInv
<1>4. QED
  BY <1>1, <1>2, <1>3, TypeInvariant, TimeInvariant, PTL DEF Spec, OldMarkersAreReported

-----------------------------------------------------------------------------
(* Turns handled one at a time.  The document maps the user to the session   *)
(* of the turn in flight from the turn's touch or store to its end, and,     *)
(* between turns, to that of the turn the user last heard from until the     *)
(* session times out, whatever turns were lost in between.                   *)

OneTurnAtATime == MaxInFlight = 1 /\ IsFiniteSet(Turns)

ReadsSucceed == "read" \notin Faults

Alone == \A t, u \in InFlight : t = u

TalkIsCurrent ==
  lastTalk # NoTurn =>
    /\ pc[lastTalk] = "done"
    /\ \/ sess = vs[lastTalk] /\ activity >= readAt[lastTalk]
       \/ now > readAt[lastTalk] + SessionTimeout

ReplacedIsOld ==
  \A t \in Turns :
    pc[t] \in {"drop", "store"} /\ lastTalk # NoTurn => now > readAt[lastTalk] + SessionTimeout

DocumentIsOfTheTurn ==
  \A t \in Turns :
    /\ pc[t] \in {"touch", "mark"} \cup Healing \cup Running => sess = vs[t]
    /\ pc[t] \in {"mark"} \cup Healing \cup Running => activity >= readAt[t]

TalkGoesOn ==
  \A t \in Turns :
    pc[t] # "idle" /\ prev[t] # NoTurn =>
      /\ pc[prev[t]] = "done"
      /\ readAt[t] <= readAt[prev[t]] + SessionTimeout => vs[t] = vs[prev[t]]

TalkInv == TimeInv /\ Alone /\ TalkIsCurrent /\ ReplacedIsOld /\ DocumentIsOfTheTurn /\ TalkGoesOn

\* A turn reads the document only when no other is in flight.
LEMMA NobodyInFlight ==
  ASSUME OneTurnAtATime, Cardinality(InFlight) < MaxInFlight PROVE InFlight = {}
<1>1. IsFiniteSet(InFlight)
  BY FS_Subset DEF OneTurnAtATime, InFlight
<1>2. Cardinality(InFlight) \in Nat /\ Cardinality(InFlight) < 1
  BY <1>1, FS_CardinalityType DEF OneTurnAtATime
<1>3. QED
  BY <1>1, <1>2, FS_EmptySet

\* So at most one turn is in flight.
LEMMA AloneStep ==
  ASSUME OneTurnAtATime, TypeInv, Alone, [Next]_vars PROVE Alone'
<1> USE DEF Goto
<1>1. CASE Tick \/ UNCHANGED vars
  <2>1. pc' = pc
    BY <1>1 DEF Tick, vars
  <2>2. QED
    BY <2>1 DEF Alone, InFlight
<1>2. CASE \E t \in Turns : GetSessionByUser(t)
  <2>1. PICK t \in Turns : GetSessionByUser(t)
    BY <1>2
  <2>2. InFlight = {}
    BY <2>1, NobodyInFlight DEF GetSessionByUser
  <2>3. \A u \in Turns \ {t} : pc'[u] = pc[u]
    BY <2>1 DEF GetSessionByUser, TypeInv, TypeOK
  <2>4. QED
    BY <2>2, <2>3 DEF Alone, InFlight
<1>3. CASE \E t \in Turns : \/ DeleteExpired(t) \/ CreateSessionForUser(t)
                            \/ UpdateSessionPlatforms(t) \/ Heal(t) \/ Run(t) \/ Engine(t)
                            \/ Finish(t) \/ TurnLost(t)
  <2>1. PICK t \in Turns : \/ DeleteExpired(t) \/ CreateSessionForUser(t)
                           \/ UpdateSessionPlatforms(t) \/ Heal(t) \/ Run(t) \/ Engine(t)
                           \/ Finish(t) \/ TurnLost(t)
    BY <1>3
  <2>2. pc' = pc \/ (t \in InFlight /\ \E to : pc' = [pc EXCEPT ![t] = to])
    <3>1. CASE DeleteExpired(t) \/ CreateSessionForUser(t) \/ UpdateSessionPlatforms(t)
      BY <3>1 DEF DeleteExpired, CreateSessionForUser, UpdateSessionPlatforms, InFlight,
                  Preparing
    <3>2. CASE Heal(t) \/ Run(t)
      BY <3>2 DEF Heal, ListTail, RecheckTail, AppendHealEvent, HealGivesUp, Run,
                  MarkRunStarted, SendMessage, InFlight, Preparing, Running
    <3>3. CASE Engine(t)
      BY <3>3 DEF Engine, ModelCallsTool, ToolAnswers, ModelReplies, EngineStep, RunEnds,
                  StreamBreaks
    <3>4. CASE Finish(t) \/ TurnLost(t)
      BY <3>4 DEF Finish, CloseOutAnswered, LeaveNewMark, LeaveMark, Reply, TurnLost, InFlight,
                  Preparing, Running
    <3>5. QED
      BY <2>1, <3>1, <3>2, <3>3, <3>4
  <2>3. InFlight' \subseteq InFlight
    BY <2>2 DEF InFlight, TypeInv, TypeOK
  <2>4. QED
    BY <2>3 DEF Alone
<1>4. QED
  BY <1>1, <1>2, <1>3 DEF Next, Prepare

\* What a turn does once the document is its own does not disturb the conversation, and
\* a turn that is heard from leaves the document with its session.
LEMMA TalkQuiet ==
  ASSUME TypeInv, TalkInv, NEW t \in Turns,
         UNCHANGED <<now, sess, activity, vs, readAt, prev>>,
         \A u \in Turns \ {t} : pc'[u] = pc[u],
         \/ pc'[t] = pc[t]
         \/ /\ pc[t] \in {"mark"} \cup Healing \cup Running
            /\ pc'[t] \in {"mark", "done"} \cup Healing \cup Running
         \/ pc[t] \in Preparing \cup Running /\ pc'[t] = "lost",
         \/ lastTalk' = lastTalk
         \/ lastTalk' = t /\ pc[t] = "reply" /\ pc'[t] = "done"
  PROVE  (TalkIsCurrent /\ ReplacedIsOld /\ DocumentIsOfTheTurn /\ TalkGoesOn)'
<1> USE DEF TalkInv, Preparing, Running, Healing
<1>1. \A u \in Turns : pc[u] = "done" => pc'[u] = "done"
  OBVIOUS
<1>2. lastTalk' # lastTalk =>
        /\ lastTalk' = t /\ pc[t] = "reply" /\ pc'[t] = "done"
        /\ sess = vs[t] /\ activity >= readAt[t]
        /\ \A u \in Turns : pc[u] \notin {"drop", "store"}
  BY DEF DocumentIsOfTheTurn, Alone, InFlight
<1>3. TalkIsCurrent'
  BY <1>1, <1>2 DEF TalkIsCurrent, TypeInv, TypeOK
<1>4. ReplacedIsOld'
  BY <1>2 DEF ReplacedIsOld
<1>5. DocumentIsOfTheTurn'
  BY DEF DocumentIsOfTheTurn
<1>6. TalkGoesOn'
  <2>1. \A u \in Turns : prev[u] \in Turns \cup {NoTurn}
    BY DEF TypeInv, TypeOK
  <2>2. \A u \in Turns : pc[u] = "idle" => pc'[u] = "idle"
    OBVIOUS
  <2>3. \A u \in Turns : pc'[u] # "idle" => pc[u] # "idle"
    OBVIOUS
  <2>4. QED
    BY <1>1, <2>1, <2>3 DEF TalkGoesOn
<1>7. QED
  BY <1>3, <1>4, <1>5, <1>6

\* Reading, replacing and touching the document keep the conversation together.
LEMMA TalkPrepare ==
  ASSUME OneTurnAtATime, ReadsSucceed, TypeInv, TalkInv, NEW t \in Turns, Prepare(t)
  PROVE  (TalkIsCurrent /\ ReplacedIsOld /\ DocumentIsOfTheTurn /\ TalkGoesOn)'
<1> USE DEF TalkInv, Preparing, Running, Healing, Goto
<1>0. /\ now \in Nat /\ activity \in Nat /\ SessionTimeout \in Nat
      /\ \A u \in Turns : readAt[u] \in Nat /\ readAt[u] <= now /\ vs[u] \in Turns \cup {NoTurn}
      /\ \A u \in Turns : pc[u] # "idle" => vs[u] # NoTurn
      /\ lastTalk \in Turns \cup {NoTurn} /\ \A u \in Turns : prev[u] \in Turns \cup {NoTurn}
  BY BoundsAssumption, TurnsAssumption DEF TypeInv, TypeOK, HasSession, TimeInv, InTime
<1>1. CASE GetSessionByUser(t)
  <2>1. /\ pc[t] = "idle" /\ UNCHANGED <<now, sess, activity, lastTalk>>
        /\ readAt'[t] = now /\ prev'[t] = lastTalk
        /\ \A u \in Turns \ {t} : /\ pc'[u] = pc[u] /\ readAt'[u] = readAt[u]
                                  /\ prev'[u] = prev[u] /\ vs'[u] = vs[u]
    BY <1>1 DEF GetSessionByUser, docVars, TypeInv, TypeOK
  <2>2. \/ /\ sess # NoTurn /\ now <= activity + SessionTimeout
           /\ pc'[t] = "touch" /\ vs'[t] = sess
        \/ sess # NoTurn /\ now > activity + SessionTimeout /\ pc'[t] = "drop"
        \/ sess = NoTurn /\ pc'[t] = "store"
    BY <1>1 DEF GetSessionByUser, ReadsSucceed, TypeInv, TypeOK
  <2>3. \A u \in Turns \ {t} : pc[u] \notin Preparing \cup Running
    BY <1>1, NobodyInFlight DEF GetSessionByUser, InFlight
  <2>4. lastTalk # NoTurn =>
          /\ lastTalk \in Turns \ {t} /\ pc[lastTalk] = "done"
          /\ \/ sess = vs[lastTalk] /\ activity >= readAt[lastTalk]
             \/ now > readAt[lastTalk] + SessionTimeout
    BY <1>0, <2>1 DEF TalkIsCurrent
  <2>5. TalkIsCurrent'
    BY <2>1, <2>4 DEF TalkIsCurrent
  <2>6. ReplacedIsOld'
    <3> SUFFICES ASSUME lastTalk # NoTurn, pc'[t] \in {"drop", "store"}
                 PROVE  now > readAt[lastTalk] + SessionTimeout
      BY <2>1, <2>3, <2>4 DEF ReplacedIsOld
    <3>1. CASE sess = vs[lastTalk] /\ activity >= readAt[lastTalk]
      <4>1. sess # NoTurn
        BY <1>0, <2>4, <3>1
      <4>2. now > activity + SessionTimeout
        BY <2>2, <4>1
      <4>3. QED
        BY <1>0, <2>4, <3>1, <4>2
    <3>2. QED
      BY <2>4, <3>1
  <2>7. DocumentIsOfTheTurn'
    BY <2>1, <2>2, <2>3 DEF DocumentIsOfTheTurn
  <2>8. TalkGoesOn'
    <3>1. ASSUME NEW u \in Turns \ {t}, pc'[u] # "idle", prev'[u] # NoTurn
          PROVE  /\ pc'[prev'[u]] = "done"
                 /\ readAt'[u] <= readAt'[prev'[u]] + SessionTimeout => vs'[u] = vs'[prev'[u]]
      <4>1. prev'[u] = prev[u] /\ pc[prev[u]] = "done" /\ prev[u] \in Turns
        BY <1>0, <2>1, <3>1 DEF TalkGoesOn
      <4>2. prev[u] # t
        BY <2>1, <4>1
      <4>3. QED
        BY <2>1, <3>1, <4>1, <4>2 DEF TalkGoesOn
    <3>2. ASSUME lastTalk # NoTurn, now <= readAt[lastTalk] + SessionTimeout
          PROVE  vs'[t] = vs[lastTalk]
      <4>1. sess = vs[lastTalk] /\ activity >= readAt[lastTalk]
        BY <1>0, <2>4, <3>2
      <4>2. sess # NoTurn /\ now <= activity + SessionTimeout
        BY <1>0, <2>4, <3>2, <4>1
      <4>3. QED
        BY <1>0, <2>2, <4>1, <4>2
    <3>3. ASSUME lastTalk # NoTurn
          PROVE  /\ pc'[lastTalk] = "done"
                 /\ now <= readAt'[lastTalk] + SessionTimeout => vs'[t] = vs'[lastTalk]
      BY <2>1, <2>4, <3>2, <3>3
    <3>4. QED
      BY <2>1, <3>1, <3>3 DEF TalkGoesOn
  <2>9. QED
    BY <2>5, <2>6, <2>7, <2>8
<1>2. CASE DeleteExpired(t) \/ CreateSessionForUser(t)
  <2>1. /\ pc[t] \in {"drop", "store"} /\ UNCHANGED <<now, readAt, vs, prev, lastTalk>>
        /\ \A u \in Turns \ {t} : pc'[u] = pc[u]
        /\ \/ pc'[t] = "store"
           \/ pc'[t] = "mark" /\ sess' = vs[t] /\ activity' = now
    BY <1>2 DEF DeleteExpired, CreateSessionForUser, turnVars, TypeInv, TypeOK
  <2>2. \A u \in Turns \ {t} : pc[u] \notin Preparing \cup Running
    BY <2>1 DEF Alone, InFlight
  <2>3. lastTalk # NoTurn => now > readAt[lastTalk] + SessionTimeout /\ pc[lastTalk] = "done"
    BY <2>1 DEF ReplacedIsOld, TalkIsCurrent
  <2>4. TalkIsCurrent' /\ ReplacedIsOld'
    BY <1>0, <2>1, <2>3 DEF TalkIsCurrent, ReplacedIsOld
  <2>5. DocumentIsOfTheTurn'
    BY <1>0, <2>1, <2>2 DEF DocumentIsOfTheTurn
  <2>6. TalkGoesOn'
    BY <1>0, <2>1 DEF TalkGoesOn
  <2>7. QED
    BY <2>4, <2>5, <2>6
<1>3. CASE UpdateSessionPlatforms(t)
  <2>1. /\ pc[t] = "touch" /\ UNCHANGED <<now, sess, readAt, vs, prev, lastTalk>>
        /\ \A u \in Turns \ {t} : pc'[u] = pc[u]
        /\ \/ sess = NoTurn
           \/ pc'[t] \in {"mark", "list"} /\ activity' = now
    BY <1>3 DEF UpdateSessionPlatforms, turnVars, TypeInv, TypeOK
  <2>2. sess = vs[t] /\ sess # NoTurn
    BY <1>0, <2>1 DEF DocumentIsOfTheTurn
  <2>3. \A u \in Turns \ {t} : pc[u] \notin Preparing \cup Running
    BY <2>1 DEF Alone, InFlight
  <2>4. TalkIsCurrent' /\ ReplacedIsOld'
    BY <1>0, <2>1, <2>2, <2>3 DEF TalkIsCurrent, ReplacedIsOld
  <2>5. DocumentIsOfTheTurn'
    BY <1>0, <2>1, <2>2, <2>3 DEF DocumentIsOfTheTurn
  <2>6. TalkGoesOn'
    BY <1>0, <2>1, <2>2 DEF TalkGoesOn
  <2>7. QED
    BY <2>4, <2>5, <2>6
<1>4. QED
  BY <1>1, <1>2, <1>3 DEF Prepare

\* No step takes the conversation apart.
LEMMA TalkStep ==
  ASSUME OneTurnAtATime, ReadsSucceed, TypeInv, TalkInv, [Next]_vars
  PROVE  (TalkIsCurrent /\ ReplacedIsOld /\ DocumentIsOfTheTurn /\ TalkGoesOn)'
<1> USE DEF Goto, docVars, turnVars
<1>1. CASE Tick \/ UNCHANGED vars
  <2>1. /\ UNCHANGED <<sess, activity, pc, vs, readAt, prev, lastTalk>>
        /\ now' \in Nat /\ now' >= now
    BY <1>1 DEF Tick, vars, TypeInv, TypeOK
  <2>2. /\ now \in Nat /\ SessionTimeout \in Nat
        /\ lastTalk # NoTurn => readAt[lastTalk] \in Nat
    BY BoundsAssumption DEF TypeInv, TypeOK
  <2>3. TalkIsCurrent' /\ ReplacedIsOld'
    BY <2>1, <2>2 DEF TalkInv, TalkIsCurrent, ReplacedIsOld
  <2>4. DocumentIsOfTheTurn' /\ TalkGoesOn'
    BY <2>1 DEF TalkInv, DocumentIsOfTheTurn, TalkGoesOn
  <2>5. QED
    BY <2>3, <2>4
<1>2. ASSUME NEW t \in Turns, Heal(t) \/ Run(t) \/ Engine(t) \/ Finish(t) \/ TurnLost(t)
      PROVE  (TalkIsCurrent /\ ReplacedIsOld /\ DocumentIsOfTheTurn /\ TalkGoesOn)'
  <2> USE DEF Preparing, Running, Healing
  <2>1. UNCHANGED <<now, sess, activity, vs, readAt, prev>>
    BY <1>2 DEF Heal, ListTail, RecheckTail, AppendHealEvent, HealGivesUp, Run, MarkRunStarted,
       SendMessage, Engine, ModelCallsTool, ToolAnswers, ModelReplies, EngineStep, RunEnds,
       StreamBreaks, Finish, CloseOutAnswered, LeaveNewMark, LeaveMark, Reply, TurnLost,
       WriteMark
  <2>2. \A u \in Turns \ {t} : pc'[u] = pc[u]
    BY <1>2, OthersKeep
  <2>3. CASE Heal(t) \/ Run(t)
    <3>1. /\ pc[t] \in {"mark"} \cup Healing \cup Running
          /\ pc'[t] \in {"mark", "done"} \cup Healing \cup Running
          /\ lastTalk' = lastTalk
      BY <2>3 DEF Heal, ListTail, RecheckTail, AppendHealEvent, HealGivesUp, Run,
         MarkRunStarted, SendMessage, TypeInv, TypeOK
    <3>2. QED
      BY <2>1, <2>2, <3>1, TalkQuiet
  <2>4. CASE Engine(t)
    <3>1. pc' = pc /\ lastTalk' = lastTalk
      BY <2>4 DEF Engine, ModelCallsTool, ToolAnswers, ModelReplies, EngineStep, RunEnds,
                  StreamBreaks
    <3>2. QED
      BY <2>1, <2>2, <3>1, TalkQuiet
  <2>5. CASE CloseOutAnswered(t) \/ LeaveNewMark(t) \/ LeaveMark(t) \/ TurnLost(t)
    <3>1. /\ lastTalk' = lastTalk
          /\ \/ pc[t] = "wait" /\ pc'[t] \in {"reply", "done"}
             \/ pc[t] \in Preparing \cup Running /\ pc'[t] = "lost"
      BY <2>5 DEF CloseOutAnswered, LeaveNewMark, LeaveMark, TurnLost, TypeInv, TypeOK
    <3>2. QED
      BY <2>1, <2>2, <3>1, TalkQuiet
  <2>6. CASE Reply(t)
    <3>1. pc[t] = "reply" /\ pc'[t] = "done" /\ (lastTalk' = t \/ lastTalk' = lastTalk)
      BY <2>6 DEF Reply, TypeInv, TypeOK
    <3>2. QED
      BY <2>1, <2>2, <3>1, TalkQuiet
  <2>7. QED
    BY <1>2, <2>3, <2>4, <2>5, <2>6 DEF Finish
<1>3. QED
  BY <1>1, <1>2, TalkPrepare DEF Next

\* When turns are handled one at a time and the document can be read, a message within
\* the session timeout of the last talk goes to the same Agent Engine session, whatever
\* deletions fail and wherever turns are lost.
THEOREM ConversationsContinue ==
  OneTurnAtATime /\ ReadsSucceed => (Spec => []ConversationContinues)
<1> SUFFICES ASSUME OneTurnAtATime, ReadsSucceed PROVE Spec => []ConversationContinues
  OBVIOUS
<1> DEFINE Inv == Alone /\ TalkIsCurrent /\ ReplacedIsOld /\ DocumentIsOfTheTurn /\ TalkGoesOn
<1>1. Init => Inv
  BY DEF Init, Alone, InFlight, TalkIsCurrent, ReplacedIsOld, DocumentIsOfTheTurn, TalkGoesOn,
         Preparing, Running, Healing
<1>2. TypeInv /\ TimeInv /\ Inv /\ [Next]_vars => Inv'
  BY AloneStep, TalkStep DEF TalkInv
<1>3. Inv => ConversationContinues
  BY DEF TalkGoesOn, ConversationContinues
<1>4. QED
  BY <1>1, <1>2, <1>3, TypeInvariant, TimeInvariant, PTL DEF Spec

-----------------------------------------------------------------------------
(* The tool calls of turns handled one at a time.  A run's call is logged    *)
(* while the run is alive, answered by it or, once the run is over, by a     *)
(* healer; a model is only asked about a history that is settled, so the     *)
(* calls before the last call event stay settled; and what a healer decided  *)
(* to answer stays the unanswered part of the last call event, because the   *)
(* history cannot be replayed in between and no other turn is in flight.     *)

CallIsMade(events, c) == \E i \in DOMAIN events : c \in events[i].calls

IsAnswered(events, c) == \E i \in DOMAIN events : c \in events[i].answers

AnsweredAtMostOnce(events) ==
  \A i, j \in DOMAIN events : \A c \in events[i].answers \cap events[j].answers : i = j

AnswersFollow(events) ==
  \A i, j \in DOMAIN events : events[i].calls \cap events[j].answers # {} => i < j

SettledAt(events, i) ==
  \A c \in events[i].calls : InPlace(events, i, c) \/ c \in events[i].longRunning

EarlierSettled(events) == \A i \in DOMAIN events \ History!LastCall(events) : SettledAt(events, i)

HistoriesSettle ==
  \A s \in Turns :
    AnsweredAtMostOnce(log[s]) /\ AnswersFollow(log[s]) /\ EarlierSettled(log[s])

CallsMade ==
  \A c \in Turns :
    /\ engine[c] \in {"tool", "answered"} => CallIsMade(log[vs[c]], c)
    /\ \A s \in Turns : CallIsMade(log[s], c) => engine[c] \notin {"idle", "model"}
    /\ \A s \in Turns : IsAnswered(log[s], c) => engine[c] \in {"answered", "over"}

OrphansAre(events, cs) ==
  /\ cs # {}
  /\ \A c \in cs : ~IsAnswered(events, c)
  /\ \E i \in History!LastCall(events) :
       /\ History!OnlyAnswersFollow(events, i)
       /\ cs \subseteq events[i].calls \ events[i].longRunning
       /\ \A c \in events[i].calls \ cs : InPlace(events, i, c) \/ c \in events[i].longRunning

OrphansAreOpen ==
  \A t \in Turns : pc[t] \in {"recheck", "append"} => OrphansAre(log[vs[t]], orphans[t])

LedgerInv == HealInv /\ Alone /\ HistoriesSettle /\ CallsMade /\ OrphansAreOpen

\* How often a call is answered, when no call is answered twice.
LEMMA TimesAnsweredIs ==
  ASSUME NEW events \in Seq(History!Event), AnsweredAtMostOnce(events), NEW c
  PROVE  /\ IsAnswered(events, c) => TimesAnswered(events, c) = 1
         /\ ~IsAnswered(events, c) => TimesAnswered(events, c) = 0
<1> DEFINE S == {i \in DOMAIN events : c \in events[i].answers}
<1>1. TimesAnswered(events, c) = Cardinality(S)
  BY DEF TimesAnswered
<1>2. CASE IsAnswered(events, c)
  <2>1. PICK i \in DOMAIN events : c \in events[i].answers
    BY <1>2 DEF IsAnswered
  <2>2. S = {i}
    BY <2>1 DEF AnsweredAtMostOnce
  <2>3. QED
    BY <1>1, <1>2, <2>2, FS_Singleton
<1>3. CASE ~IsAnswered(events, c)
  <2>1. S = {}
    BY <1>3 DEF IsAnswered
  <2>2. QED
    BY <1>1, <1>3, <2>1, FS_EmptySet
<1>4. QED
  BY <1>2, <1>3

\* A history can be replayed exactly when every call in it is settled.
LEMMA ReplayableIsSettled ==
  ASSUME NEW events \in Seq(History!Event), AnsweredAtMostOnce(events)
  PROVE  Replayable(events) <=> \A i \in DOMAIN events : SettledAt(events, i)
<1>1. \A c : /\ IsAnswered(events, c) => TimesAnswered(events, c) = 1
             /\ ~IsAnswered(events, c) => TimesAnswered(events, c) = 0
  BY TimesAnsweredIs
<1>2. \A i, c : InPlace(events, i, c) => IsAnswered(events, c)
  BY DEF InPlace, IsAnswered
<1>3. \A c : TimesAnswered(events, c) \in {0, 1}
  BY <1>1
<1>4. QED
  BY <1>1, <1>2, <1>3 DEF Replayable, SettledAt

\* An event that makes no call, and answers only what was not answered yet.
LEMMA AnswersSettle ==
  ASSUME NEW events \in Seq(History!Event), NEW e \in History!Event,
         e.calls = {}, \A c \in e.answers : ~IsAnswered(events, c)
  PROVE  LET longer == Append(events, e)
         IN  /\ \A c : CallIsMade(longer, c) <=> CallIsMade(events, c)
             /\ \A c : IsAnswered(longer, c) <=> IsAnswered(events, c) \/ c \in e.answers
             /\ History!LastCall(longer) = History!LastCall(events)
             /\ AnsweredAtMostOnce(events) => AnsweredAtMostOnce(longer)
             /\ AnswersFollow(events) => AnswersFollow(longer)
             /\ EarlierSettled(events) => EarlierSettled(longer)
             /\ \A i \in DOMAIN events :
                  /\ longer[i] = events[i]
                  /\ \A c : InPlace(events, i, c) => InPlace(longer, i, c)
                  /\ History!OnlyAnswersFollow(events, i) /\ ~e.text =>
                       /\ History!OnlyAnswersFollow(longer, i)
                       /\ \A c \in e.answers : InPlace(longer, i, c)
<1> DEFINE longer == Append(events, e)
           n == Len(events) + 1
<1>1. /\ DOMAIN longer = DOMAIN events \cup {n} /\ n \notin DOMAIN events
      /\ longer[n] = e /\ \A i \in DOMAIN events : longer[i] = events[i] /\ i < n
      /\ DOMAIN events \subseteq Nat /\ n \in Nat
  OBVIOUS
<1> HIDE DEF longer, n
<1>2. \A c : CallIsMade(longer, c) <=> CallIsMade(events, c)
  BY <1>1 DEF CallIsMade
<1>3. \A c : IsAnswered(longer, c) <=> IsAnswered(events, c) \/ c \in e.answers
  BY <1>1 DEF IsAnswered
<1>4. History!LastCall(longer) = History!LastCall(events)
  BY <1>1 DEF History!LastCall
<1>5. AnsweredAtMostOnce(events) => AnsweredAtMostOnce(longer)
  BY <1>1 DEF AnsweredAtMostOnce, IsAnswered
<1>6. AnswersFollow(events) => AnswersFollow(longer)
  BY <1>1 DEF AnswersFollow
<1>7. ASSUME NEW i \in DOMAIN events, NEW c, InPlace(events, i, c) PROVE InPlace(longer, i, c)
  <2>1. PICK j \in DOMAIN events :
          /\ i < j /\ c \in events[j].answers
          /\ \A k \in DOMAIN events : i < k /\ k <= j => events[k].calls = {} /\ ~events[k].text
    BY <1>7 DEF InPlace
  <2>2. \A k \in DOMAIN longer : k <= j => k \in DOMAIN events /\ longer[k] = events[k]
    BY <1>1
  <2>3. QED
    BY <1>1, <2>1, <2>2 DEF InPlace
<1>8. ASSUME NEW i \in DOMAIN events, History!OnlyAnswersFollow(events, i), ~e.text
      PROVE  History!OnlyAnswersFollow(longer, i) /\ \A c \in e.answers : InPlace(longer, i, c)
  <2>1. \A k \in DOMAIN longer : k > i => longer[k].calls = {} /\ ~longer[k].text
    BY <1>1, <1>8 DEF History!OnlyAnswersFollow
  <2>2. History!OnlyAnswersFollow(longer, i)
    BY <2>1 DEF History!OnlyAnswersFollow
  <2>3. \A k \in DOMAIN longer : i < k => longer[k].calls = {} /\ ~longer[k].text
    BY <1>1, <2>1
  <2>4. n \in DOMAIN longer /\ i < n /\ longer[n].answers = e.answers
    BY <1>1
  <2>5. QED
    BY <2>2, <2>3, <2>4 DEF InPlace
<1>9. EarlierSettled(events) => EarlierSettled(longer)
  <2> SUFFICES ASSUME EarlierSettled(events),
                      NEW i \in DOMAIN longer \ History!LastCall(longer),
                      NEW c \in longer[i].calls
               PROVE  InPlace(longer, i, c) \/ c \in longer[i].longRunning
    BY DEF EarlierSettled, SettledAt
  <2>1. i \in DOMAIN events \ History!LastCall(events) /\ longer[i] = events[i]
    BY <1>1, <1>4
  <2>2. QED
    BY <1>7, <2>1 DEF EarlierSettled, SettledAt
<1>10. QED
  BY <1>1, <1>2, <1>3, <1>4, <1>5, <1>6, <1>7, <1>8, <1>9 DEF longer

\* An event that makes a call, after a history in which every call is settled.
LEMMA CallsFollowSettled ==
  ASSUME NEW events \in Seq(History!Event), NEW e \in History!Event,
         e.calls # {}, e.answers = {}, \A c \in e.calls : ~IsAnswered(events, c),
         \A i \in DOMAIN events : SettledAt(events, i)
  PROVE  LET longer == Append(events, e)
         IN  /\ \A c : CallIsMade(longer, c) <=> CallIsMade(events, c) \/ c \in e.calls
             /\ \A c : IsAnswered(longer, c) <=> IsAnswered(events, c)
             /\ AnsweredAtMostOnce(events) => AnsweredAtMostOnce(longer)
             /\ AnswersFollow(events) => AnswersFollow(longer)
             /\ EarlierSettled(longer)
<1> DEFINE longer == Append(events, e)
           n == Len(events) + 1
<1>1. /\ DOMAIN longer = DOMAIN events \cup {n} /\ n \notin DOMAIN events
      /\ longer[n] = e /\ \A i \in DOMAIN events : longer[i] = events[i] /\ i < n
      /\ DOMAIN events \subseteq Nat /\ n \in Nat
  OBVIOUS
<1> HIDE DEF longer, n
<1>2. \A c : CallIsMade(longer, c) <=> CallIsMade(events, c) \/ c \in e.calls
  BY <1>1 DEF CallIsMade
<1>3. \A c : IsAnswered(longer, c) <=> IsAnswered(events, c)
  BY <1>1 DEF IsAnswered
<1>4. AnsweredAtMostOnce(events) => AnsweredAtMostOnce(longer)
  BY <1>1 DEF AnsweredAtMostOnce
<1>5. n \in History!LastCall(longer)
  <2>1. \A j \in DOMAIN longer : j > n => longer[j].calls = {}
    BY <1>1
  <2>2. QED
    BY <1>1, <2>1 DEF History!LastCall
<1>6. EarlierSettled(longer)
  <2> SUFFICES ASSUME NEW i \in DOMAIN longer \ History!LastCall(longer),
                      NEW c \in longer[i].calls
               PROVE  InPlace(longer, i, c) \/ c \in longer[i].longRunning
    BY DEF EarlierSettled, SettledAt
  <2>1. i \in DOMAIN events /\ longer[i] = events[i]
    BY <1>1, <1>5
  <2>2. ASSUME InPlace(events, i, c) PROVE InPlace(longer, i, c)
    <3>1. PICK j \in DOMAIN events :
            /\ i < j /\ c \in events[j].answers
            /\ \A k \in DOMAIN events : i < k /\ k <= j => events[k].calls = {} /\ ~events[k].text
      BY <2>2 DEF InPlace
    <3>2. \A k \in DOMAIN longer : k <= j => k \in DOMAIN events /\ longer[k] = events[k]
      BY <1>1
    <3>3. QED
      BY <1>1, <3>1, <3>2 DEF InPlace
  <2>3. QED
    BY <2>1, <2>2 DEF SettledAt
<1>7. AnswersFollow(events) => AnswersFollow(longer)
  BY <1>1 DEF AnswersFollow, IsAnswered
<1>8. QED
  BY <1>2, <1>3, <1>4, <1>6, <1>7 DEF longer

\* There is one last call event, and an unanswered call that is not long-running keeps
\* the history from being replayed.
LEMMA OrphansBlockReplay ==
  ASSUME NEW events \in Seq(History!Event), AnsweredAtMostOnce(events), NEW cs,
         OrphansAre(events, cs)
  PROVE  ~Replayable(events)
<1>1. PICK i \in History!LastCall(events) : cs \subseteq events[i].calls \ events[i].longRunning
  BY DEF OrphansAre
<1>2. i \in DOMAIN events
  BY DEF History!LastCall
<1>3. ~SettledAt(events, i)
  BY <1>1 DEF OrphansAre, SettledAt, InPlace, IsAnswered
<1>4. QED
  BY <1>2, <1>3, ReplayableIsSettled

\* What the healer finds are the calls of the last call event that are still open.
LEMMA HealableAreOrphans ==
  ASSUME NEW events \in Seq(History!Event), AnswersFollow(events), History!Healable(events) # {}
  PROVE  OrphansAre(events, History!Healable(events))
<1> DEFINE found == History!Healable(events)
           Last == History!LastCall(events)
<1>1. \A i, j \in Last : i = j
  <2>1. \A i, j \in Last : i \in Nat /\ j \in Nat /\ ~(i > j) /\ ~(j > i)
    BY DEF History!LastCall
  <2>2. QED
    BY <2>1
<1>2. PICK i \in Last : /\ History!OnlyAnswersFollow(events, i)
                        /\ History!Unanswered(events) = events[i].calls \ History!Answered(events)
  <2>1. \E c : c \in History!Unanswered(events)
    BY DEF History!Healable
  <2>2. PICK i \in {k \in Last : History!OnlyAnswersFollow(events, k)} : TRUE
    BY <2>1, Zenon DEF History!Unanswered
  <2>3. {k \in Last : History!OnlyAnswersFollow(events, k)} = {i}
    BY <1>1, <2>2
  <2>4. History!Unanswered(events) = UNION {events[k].calls \ History!Answered(events) : k \in {i}}
    BY <2>3 DEF History!Unanswered
  <2>5. QED
    BY <2>2, <2>4
<1>3. found = (events[i].calls \ History!Answered(events)) \ events[i].longRunning
  <2>1. Last = {i}
    BY <1>1, <1>2
  <2>2. UNION {events[k].longRunning : k \in {i}} = events[i].longRunning
    OBVIOUS
  <2>3. QED
    BY <1>2, <2>1, <2>2 DEF History!Healable, History!LongRunning
<1>4. \A c : c \in History!Answered(events) <=> IsAnswered(events, c)
  BY DEF History!Answered, IsAnswered
<1>5. i \in DOMAIN events /\ DOMAIN events \subseteq Nat
  BY DEF History!LastCall
<1>6. ASSUME NEW c \in events[i].calls, IsAnswered(events, c) PROVE InPlace(events, i, c)
  <2>1. PICK j \in DOMAIN events : c \in events[j].answers
    BY <1>6 DEF IsAnswered
  <2>2. i < j
    BY <1>5, <1>6, <2>1 DEF AnswersFollow
  <2>3. \A k \in DOMAIN events : i < k => events[k].calls = {} /\ ~events[k].text
    BY <1>2, <1>5 DEF History!OnlyAnswersFollow
  <2>4. QED
    BY <2>1, <2>2, <2>3 DEF InPlace
<1>7. QED
  BY <1>2, <1>3, <1>4, <1>6 DEF OrphansAre

\* Steps that store nothing: no turn's session or decision changes, and a run at most ends.
LEMMA LedgerQuiet ==
  ASSUME TypeInv, LedgerInv, UNCHANGED <<log, vs, orphans>>,
         \A c \in Turns : engine'[c] = engine[c] \/ (Live(c) /\ engine'[c] = "over"),
         \A u \in Turns : pc'[u] \in {"recheck", "append"} => pc[u] \in {"recheck", "append"}
  PROVE  (HistoriesSettle /\ CallsMade /\ OrphansAreOpen)'
<1>1. HistoriesSettle'
  BY DEF LedgerInv, HistoriesSettle
<1>2. CallsMade'
  BY DEF LedgerInv, CallsMade, Live
<1>3. OrphansAreOpen'
  BY DEF LedgerInv, OrphansAreOpen
<1>4. QED
  BY <1>1, <1>2, <1>3

\* An event without a call, which answers only what was not answered in its session.
LEMMA StoreSettles ==
  ASSUME TypeInv, LedgerInv, NEW s \in Turns, NEW e \in History!Event, Store(s, e),
         e.calls = {}, \A c \in e.answers : ~IsAnswered(log[s], c)
  PROVE  /\ HistoriesSettle'
         /\ \A z \in Turns : \A c :
              /\ CallIsMade(log'[z], c) <=> CallIsMade(log[z], c)
              /\ IsAnswered(log'[z], c) <=> IsAnswered(log[z], c) \/ (z = s /\ c \in e.answers)
         /\ \A z \in Turns : \A cs :
              OrphansAre(log[z], cs) /\ cs \cap e.answers = {} /\ (z = s => ~e.text)
                => OrphansAre(log'[z], cs)
<1>1. /\ log[s] \in Seq(History!Event) /\ log'[s] = Append(log[s], e)
      /\ \A z \in Turns \ {s} : log'[z] = log[z]
  BY DEF TypeInv, TypeOK, Store
<1>2. /\ \A c : CallIsMade(log'[s], c) <=> CallIsMade(log[s], c)
      /\ \A c : IsAnswered(log'[s], c) <=> IsAnswered(log[s], c) \/ c \in e.answers
      /\ History!LastCall(log'[s]) = History!LastCall(log[s])
      /\ AnsweredAtMostOnce(log[s]) => AnsweredAtMostOnce(log'[s])
      /\ AnswersFollow(log[s]) => AnswersFollow(log'[s])
      /\ EarlierSettled(log[s]) => EarlierSettled(log'[s])
      /\ \A i \in DOMAIN log[s] :
           /\ log'[s][i] = log[s][i]
           /\ \A c : InPlace(log[s], i, c) => InPlace(log'[s], i, c)
           /\ History!OnlyAnswersFollow(log[s], i) /\ ~e.text
                => History!OnlyAnswersFollow(log'[s], i)
  BY <1>1, AnswersSettle
<1>3. HistoriesSettle'
  BY <1>1, <1>2 DEF LedgerInv, HistoriesSettle
<1>4. ASSUME NEW cs, OrphansAre(log[s], cs), cs \cap e.answers = {}, ~e.text
      PROVE  OrphansAre(log'[s], cs)
  <2>1. PICK i \in History!LastCall(log[s]) :
          /\ History!OnlyAnswersFollow(log[s], i)
          /\ cs \subseteq log[s][i].calls \ log[s][i].longRunning
          /\ \A c \in log[s][i].calls \ cs : InPlace(log[s], i, c) \/ c \in log[s][i].longRunning
    BY <1>4 DEF OrphansAre
  <2>2. /\ i \in History!LastCall(log'[s]) /\ i \in DOMAIN log[s] /\ log'[s][i] = log[s][i]
        /\ History!OnlyAnswersFollow(log'[s], i)
    <3>1. i \in DOMAIN log[s]
      BY <2>1 DEF History!LastCall
    <3>2. QED
      BY <1>2, <1>4, <2>1, <3>1
  <2>3. cs # {} /\ \A c \in cs : ~IsAnswered(log[s], c)
    BY <1>4 DEF OrphansAre
  <2>4. \A c \in log'[s][i].calls \ cs : InPlace(log'[s], i, c) \/ c \in log'[s][i].longRunning
    BY <1>2, <2>1, <2>2
  <2>5. \A c \in cs : ~IsAnswered(log'[s], c)
    BY <1>2, <1>4, <2>3
  <2>6. QED
    BY <2>1, <2>2, <2>3, <2>4, <2>5 DEF OrphansAre
<1>5. QED
  BY <1>1, <1>2, <1>3, <1>4

\* Reading a document and deciding what to answer.
LEMMA LedgerPrepare ==
  ASSUME OneTurnAtATime, TypeInv, LedgerInv, NEW t \in Turns, Prepare(t) \/ ListTail(t)
  PROVE  (HistoriesSettle /\ CallsMade /\ OrphansAreOpen)'
<1> USE DEF Goto, turnVars, healVars, runVars, logVars
<1>1. CASE GetSessionByUser(t)
  <2>1. /\ UNCHANGED <<log, orphans, engine>> /\ pc[t] = "idle"
        /\ pc'[t] \in {"touch", "drop", "store"}
        /\ \A u \in Turns \ {t} : pc'[u] = pc[u] /\ vs'[u] = vs[u]
    BY <1>1 DEF GetSessionByUser, TypeInv, TypeOK
  <2>2. engine[t] = "idle"
    BY <2>1 DEF LedgerInv, HealInv, NotStarted
  <2>3. HistoriesSettle' /\ CallsMade'
    BY <2>1, <2>2 DEF LedgerInv, HistoriesSettle, CallsMade
  <2>4. OrphansAreOpen'
    BY <2>1 DEF LedgerInv, OrphansAreOpen
  <2>5. QED
    BY <2>3, <2>4
<1>2. CASE DeleteExpired(t) \/ CreateSessionForUser(t) \/ UpdateSessionPlatforms(t)
  <2>1. UNCHANGED <<log, vs, orphans, engine>> /\ pc'[t] \notin {"recheck", "append"}
    BY <1>2 DEF DeleteExpired, CreateSessionForUser, UpdateSessionPlatforms, TypeInv, TypeOK
  <2>2. \A u \in Turns \ {t} : pc'[u] = pc[u]
    BY <1>2, OthersKeep DEF Prepare
  <2>3. QED
    BY <2>1, <2>2, LedgerQuiet
<1>3. CASE ListTail(t)
  <2>1. /\ UNCHANGED <<log, vs, engine>>
        /\ \A u \in Turns \ {t} : pc'[u] = pc[u] /\ orphans'[u] = orphans[u]
        /\ pc[t] = "list"
    BY <1>3 DEF ListTail, TypeInv, TypeOK
  <2>2. pc'[t] \in {"recheck", "append"} =>
          /\ orphans'[t] = History!Healable(log[vs[t]])
          /\ History!Healable(log[vs[t]]) # {}
    BY <1>3 DEF ListTail, TypeInv, TypeOK
  <2>3. log[vs[t]] \in Seq(History!Event) /\ AnswersFollow(log[vs[t]])
    BY <2>1 DEF TypeInv, TypeOK, HasSession, LedgerInv, HistoriesSettle
  <2>4. pc'[t] \in {"recheck", "append"} => OrphansAre(log[vs[t]], orphans'[t])
    BY <2>2, <2>3, HealableAreOrphans
  <2>5. OrphansAreOpen'
    BY <2>1, <2>4 DEF LedgerInv, OrphansAreOpen
  <2>6. HistoriesSettle' /\ CallsMade'
    BY <2>1 DEF LedgerInv, HistoriesSettle, CallsMade
  <2>7. QED
    BY <2>5, <2>6
<1>4. QED
  BY <1>1, <1>2, <1>3 DEF Prepare

\* What a turn in flight knows of the others: none of them is healing.
LEMMA NoOtherHealer ==
  ASSUME LedgerInv, NEW t \in Turns, pc[t] \in Preparing \cup Running, NEW u \in Turns \ {t}
  PROVE  pc[u] \notin {"recheck", "append"}
BY DEF LedgerInv, Alone, InFlight, Preparing

\* A step keeps CallsMade if each call keeps its part of it.
LEMMA CallsStayMade ==
  ASSUME TypeInv, LedgerInv, UNCHANGED vs,
         \A z, c \in Turns : CallIsMade(log[z], c) => CallIsMade(log'[z], c),
         \A z, c \in Turns : CallIsMade(log'[z], c) => engine'[c] \notin {"idle", "model"},
         \A z, c \in Turns : IsAnswered(log'[z], c) => engine'[c] \in {"answered", "over"},
         \A c \in Turns : engine'[c] \in {"tool", "answered"} =>
           engine[c] \in {"tool", "answered"} \/ CallIsMade(log'[vs[c]], c)
  PROVE  CallsMade'
<1>1. ASSUME NEW c \in Turns, engine'[c] \in {"tool", "answered"}
      PROVE  CallIsMade(log'[vs[c]], c)
  <2>1. CASE engine[c] \in {"tool", "answered"}
    <3>1. vs[c] \in Turns
      BY <2>1 DEF TypeInv, HasSession
    <3>2. CallIsMade(log[vs[c]], c)
      BY <2>1 DEF LedgerInv, CallsMade
    <3>3. QED
      BY <3>1, <3>2
  <2>2. QED
    BY <1>1, <2>1
<1>2. QED
  BY <1>1 DEF CallsMade

\* The synthetic answers, the prompt and the engine's events.
LEMMA LedgerStore ==
  ASSUME TypeInv, LedgerInv, NEW t \in Turns,
         AppendHealEvent(t) \/ SendMessage(t) \/ ToolAnswers(t) \/ ModelReplies(t)
  PROVE  (HistoriesSettle /\ CallsMade /\ OrphansAreOpen)'
<1> USE DEF Goto, turnVars, healVars, runVars
<1>0. vs[t] \in Turns
  BY DEF AppendHealEvent, SendMessage, ToolAnswers, ModelReplies, EngineStep, TypeInv,
         HasSession
<1>1. CASE AppendHealEvent(t)
  <2> DEFINE e == History!AnswerEvent(orphans[t])
  <2>1. /\ pc[t] = "append" /\ pc'[t] = "mark" /\ Store(vs[t], e)
        /\ UNCHANGED <<vs, orphans, engine>>
        /\ \A u \in Turns \ {t} : pc'[u] = pc[u]
    BY <1>1 DEF AppendHealEvent, TypeInv, TypeOK
  <2>2. e \in History!Event /\ e.calls = {} /\ e.answers = orphans[t]
    BY EventTypes DEF TypeInv, TypeOK, History!AnswerEvent
  <2>3. /\ \A c \in orphans[t] : engine[c] = "over" /\ ~IsAnswered(log[vs[t]], c)
    BY <2>1 DEF LedgerInv, HealInv, OrphansAreOver, OrphansAreOpen, OrphansAre
  <2> HIDE DEF e
  <2>4. /\ HistoriesSettle'
        /\ \A z \in Turns : \A c :
             /\ CallIsMade(log'[z], c) <=> CallIsMade(log[z], c)
             /\ IsAnswered(log'[z], c) => IsAnswered(log[z], c) \/ c \in orphans[t]
        /\ \A c : IsAnswered(log[vs[t]], c) => IsAnswered(log'[vs[t]], c)
    BY <1>0, <2>1, <2>2, <2>3, StoreSettles
  <2>5. CallsMade'
    <3>1. \A z, c \in Turns : IsAnswered(log'[z], c) => engine[c] \in {"answered", "over"}
      BY <2>3, <2>4 DEF LedgerInv, CallsMade
    <3>2. \A z, c \in Turns : CallIsMade(log'[z], c) => engine[c] \notin {"idle", "model"}
      BY <2>4 DEF LedgerInv, CallsMade
    <3>3. QED
      BY <2>1, <2>4, <3>1, <3>2, CallsStayMade
  <2>6. OrphansAreOpen'
    BY <2>1, NoOtherHealer DEF OrphansAreOpen, Preparing
  <2>7. QED
    BY <2>4, <2>5, <2>6
<1>2. CASE SendMessage(t) \/ ModelReplies(t)
  <2>1. /\ Store(vs[t], History!TextEvent) /\ UNCHANGED <<vs, orphans>>
        /\ \A u \in Turns : pc'[u] \in {"recheck", "append"} => pc'[u] = pc[u]
        /\ \A u \in Turns \ {t} : engine'[u] = engine[u]
        /\ \/ engine[t] = "idle" /\ engine'[t] = "model"
           \/ engine'[t] = "over"
    BY <1>2 DEF SendMessage, ModelReplies, EngineStep, TypeInv, TypeOK, LedgerInv, HealInv,
                NotStarted
  <2>2. /\ History!TextEvent \in History!Event
        /\ History!TextEvent.calls = {} /\ History!TextEvent.answers = {}
    BY EventTypes DEF History!TextEvent
  <2>3. /\ HistoriesSettle'
        /\ \A z \in Turns : \A c :
             /\ CallIsMade(log'[z], c) <=> CallIsMade(log[z], c)
             /\ IsAnswered(log'[z], c) <=> IsAnswered(log[z], c)
        /\ \A z \in Turns : \A cs :
             OrphansAre(log[z], cs) /\ z # vs[t] => OrphansAre(log'[z], cs)
    <3> DEFINE e == History!TextEvent
    <3>1. e \in History!Event /\ e.calls = {} /\ e.answers = {} /\ Store(vs[t], e)
      BY <2>1, <2>2
    <3> HIDE DEF e
    <3>2. \A cs : cs \cap e.answers = {}
      BY <3>1
    <3>3. \A c \in e.answers : ~IsAnswered(log[vs[t]], c)
      BY <3>1
    <3>4. /\ HistoriesSettle'
          /\ \A z \in Turns : \A c :
               /\ CallIsMade(log'[z], c) <=> CallIsMade(log[z], c)
               /\ IsAnswered(log'[z], c) <=> IsAnswered(log[z], c)
      BY <1>0, <3>1, <3>3, StoreSettles
    <3>5. ASSUME NEW z \in Turns, NEW cs, OrphansAre(log[z], cs), z # vs[t]
          PROVE  OrphansAre(log'[z], cs)
      <4>1. log'[z] = log[z]
        BY <1>0, <3>1, <3>5 DEF Store, TypeInv, TypeOK
      <4>2. QED
        BY <3>5, <4>1
    <3>6. QED
      BY <3>4, <3>5
  <2>4. CallsMade'
    <3>1. \A z, c \in Turns : IsAnswered(log'[z], c) => engine'[c] \in {"answered", "over"}
      BY <2>1, <2>3 DEF LedgerInv, CallsMade
    <3>2. \A z, c \in Turns : CallIsMade(log'[z], c) => engine'[c] \notin {"idle", "model"}
      BY <2>1, <2>3 DEF LedgerInv, CallsMade
    <3>3. QED
      BY <2>1, <2>3, <3>1, <3>2, CallsStayMade
  <2>5. OrphansAreOpen'
    <3> SUFFICES ASSUME NEW u \in Turns, pc'[u] \in {"recheck", "append"}
                 PROVE  OrphansAre(log'[vs[u]], orphans[u])
      BY <2>1 DEF OrphansAreOpen
    <3>1. vs[u] \in Turns /\ OrphansAre(log[vs[u]], orphans[u]) /\ pc[u] = pc'[u]
      BY <2>1, <1>2 DEF LedgerInv, OrphansAreOpen, TypeInv, HasSession, SendMessage, ModelReplies,
                        EngineStep, TypeOK
    <3>2. vs[u] # vs[t]
      <4>1. CASE SendMessage(t)
        <5>1. pc[t] = "send" /\ pc'[t] = "wait" /\ u # t
          BY <4>1 DEF SendMessage, TypeInv, TypeOK
        <5>2. QED
          BY <3>1, <5>1, NoOtherHealer DEF Running
      <4>2. CASE ModelReplies(t)
        <5>1. Replayable(log[vs[t]])
          BY <4>2 DEF ModelReplies
        <5>2. log[vs[t]] \in Seq(History!Event) /\ AnsweredAtMostOnce(log[vs[t]])
          BY <1>0 DEF TypeInv, TypeOK, LedgerInv, HistoriesSettle
        <5>3. QED
          BY <3>1, <5>1, <5>2, OrphansBlockReplay
      <4>3. QED
        BY <1>2, <4>1, <4>2
    <3>3. QED
      BY <2>3, <3>1, <3>2
  <2>6. QED
    BY <2>3, <2>4, <2>5
<1>3. CASE ToolAnswers(t)
  <2> DEFINE e == History!AnswerEvent({t})
  <2>1. /\ Store(vs[t], e) /\ UNCHANGED <<vs, orphans, pc>>
        /\ engine[t] = "tool" /\ engine' = [engine EXCEPT ![t] = "answered"]
    BY <1>3 DEF ToolAnswers, EngineStep
  <2>2. e \in History!Event /\ e.calls = {} /\ e.answers = {t} /\ ~e.text
    BY EventTypes DEF History!AnswerEvent
  <2>3. ~IsAnswered(log[vs[t]], t)
    BY <1>0, <2>1 DEF LedgerInv, CallsMade
  <2> HIDE DEF e
  <2>4. /\ HistoriesSettle'
        /\ \A z \in Turns : \A c :
             /\ CallIsMade(log'[z], c) <=> CallIsMade(log[z], c)
             /\ IsAnswered(log'[z], c) => IsAnswered(log[z], c) \/ c = t
        /\ \A z \in Turns : \A cs :
             OrphansAre(log[z], cs) /\ t \notin cs => OrphansAre(log'[z], cs)
    BY <1>0, <2>1, <2>2, <2>3, StoreSettles
  <2>5. CallsMade'
    <3>1. engine'[t] = "answered" /\ \A c \in Turns \ {t} : engine'[c] = engine[c]
      BY <2>1 DEF TypeInv, TypeOK
    <3>2. \A z, c \in Turns : IsAnswered(log'[z], c) => engine'[c] \in {"answered", "over"}
      BY <2>4, <3>1 DEF LedgerInv, CallsMade
    <3>3. \A z, c \in Turns : CallIsMade(log'[z], c) => engine'[c] \notin {"idle", "model"}
      BY <2>4, <3>1 DEF LedgerInv, CallsMade
    <3>4. QED
      BY <2>1, <2>4, <3>1, <3>2, <3>3, CallsStayMade
  <2>6. OrphansAreOpen'
    <3> SUFFICES ASSUME NEW u \in Turns, pc[u] \in {"recheck", "append"}
                 PROVE  OrphansAre(log'[vs[u]], orphans[u])
      BY <2>1 DEF OrphansAreOpen
    <3>1. vs[u] \in Turns /\ OrphansAre(log[vs[u]], orphans[u]) /\ t \notin orphans[u]
      BY <2>1 DEF LedgerInv, OrphansAreOpen, TypeInv, HasSession, HealInv, OrphansAreOver
    <3>2. QED
      BY <2>4, <3>1
  <2>7. QED
    BY <2>4, <2>5, <2>6
<1>4. QED
  BY <1>1, <1>2, <1>3

\* A model calls its tool on a settled history only, where no healer is at work.
LEMMA LedgerCall ==
  ASSUME TypeInv, LedgerInv, NEW t \in Turns, ModelCallsTool(t)
  PROVE  (HistoriesSettle /\ CallsMade /\ OrphansAreOpen)'
<1> DEFINE e == History!CallEvent({t}, {t} \cap LongRunningTurns)
           s == vs[t]
<1>1. /\ Store(s, e) /\ UNCHANGED <<vs, orphans, pc>> /\ Replayable(log[s])
      /\ engine[t] = "model" /\ engine' = [engine EXCEPT ![t] = "tool"]
  BY DEF ModelCallsTool, EngineStep, turnVars, healVars
<1>2. s \in Turns /\ log[s] \in Seq(History!Event) /\ AnsweredAtMostOnce(log[s])
  BY <1>1 DEF TypeInv, TypeOK, HasSession, LedgerInv, HistoriesSettle
<1>3. /\ log'[s] = Append(log[s], e) /\ \A z \in Turns \ {s} : log'[z] = log[z]
  BY <1>1, <1>2 DEF TypeInv, TypeOK, Store
<1>4. e \in History!Event /\ e.calls = {t} /\ e.answers = {}
  BY EventTypes DEF History!CallEvent
<1>5. /\ \A c : CallIsMade(log'[s], c) <=> CallIsMade(log[s], c) \/ c = t
      /\ \A c : IsAnswered(log'[s], c) <=> IsAnswered(log[s], c)
      /\ AnsweredAtMostOnce(log'[s]) /\ AnswersFollow(log'[s]) /\ EarlierSettled(log'[s])
  <2>1. \A i \in DOMAIN log[s] : SettledAt(log[s], i)
    BY <1>1, <1>2, ReplayableIsSettled
  <2>2. e.calls # {} /\ \A c \in e.calls : ~IsAnswered(log[s], c)
    BY <1>1, <1>2, <1>4 DEF LedgerInv, CallsMade
  <2>6. AnswersFollow(log[s])
    BY <1>2 DEF LedgerInv, HistoriesSettle
  <2> HIDE DEF e, s
  <2>3. /\ \A c : CallIsMade(Append(log[s], e), c) <=> CallIsMade(log[s], c) \/ c \in e.calls
        /\ \A c : IsAnswered(Append(log[s], e), c) <=> IsAnswered(log[s], c)
        /\ AnsweredAtMostOnce(log[s]) => AnsweredAtMostOnce(Append(log[s], e))
        /\ AnswersFollow(log[s]) => AnswersFollow(Append(log[s], e))
        /\ EarlierSettled(Append(log[s], e))
    BY <1>2, <1>4, <2>1, <2>2, CallsFollowSettled
  <2>4. QED
    BY <1>2, <1>3, <1>4, <2>3, <2>6
<1> HIDE DEF e
<1>6. HistoriesSettle'
  BY <1>3, <1>5 DEF LedgerInv, HistoriesSettle
<1>7. CallsMade'
  <2>1. engine'[t] = "tool" /\ \A c \in Turns \ {t} : engine'[c] = engine[c]
    BY <1>1 DEF TypeInv, TypeOK
  <2>2. \A z, c \in Turns : IsAnswered(log'[z], c) => IsAnswered(log[z], c)
    BY <1>3, <1>5
  <2>3. \A z, c \in Turns : CallIsMade(log'[z], c) => CallIsMade(log[z], c) \/ c = t
    BY <1>3, <1>5
  <2>4. \A z, c \in Turns : CallIsMade(log[z], c) => CallIsMade(log'[z], c)
    BY <1>3, <1>5
  <2>5. \A z, c \in Turns : IsAnswered(log'[z], c) => engine'[c] \in {"answered", "over"}
    BY <1>1, <2>1, <2>2 DEF LedgerInv, CallsMade
  <2>6. \A z, c \in Turns : CallIsMade(log'[z], c) => engine'[c] \notin {"idle", "model"}
    BY <2>1, <2>3 DEF LedgerInv, CallsMade
  <2>7. CallIsMade(log'[vs[t]], t)
    BY <1>5
  <2>8. QED
    BY <1>1, <2>1, <2>4, <2>5, <2>6, <2>7, CallsStayMade
<1>8. OrphansAreOpen'
  <2> SUFFICES ASSUME NEW u \in Turns, pc[u] \in {"recheck", "append"}
               PROVE  OrphansAre(log'[vs[u]], orphans[u])
    BY <1>1 DEF OrphansAreOpen
  <2>1. vs[u] \in Turns /\ OrphansAre(log[vs[u]], orphans[u])
    BY DEF LedgerInv, OrphansAreOpen, TypeInv, HasSession
  <2>2. vs[u] # s
    BY <1>1, <1>2, <2>1, OrphansBlockReplay
  <2>3. QED
    BY <1>3, <2>1, <2>2
<1>9. QED
  BY <1>6, <1>7, <1>8

\* No step of turns handled one at a time unsettles the calls.
LEMMA LedgerInvStep ==
  ASSUME OneTurnAtATime, TypeInv, LedgerInv, [Next]_vars
  PROVE  (HistoriesSettle /\ CallsMade /\ OrphansAreOpen)'
<1> USE DEF Goto, turnVars, healVars, runVars, logVars
<1>1. CASE Tick \/ UNCHANGED vars
  <2>1. UNCHANGED <<log, vs, orphans, engine, pc>>
    BY <1>1 DEF Tick, vars
  <2>2. QED
    BY <2>1, LedgerQuiet
<1>2. ASSUME NEW t \in Turns, \/ RecheckTail(t) \/ HealGivesUp(t) \/ MarkRunStarted(t)
                              \/ RunEnds(t) \/ StreamBreaks(t) \/ Finish(t) \/ TurnLost(t)
      PROVE  (HistoriesSettle /\ CallsMade /\ OrphansAreOpen)'
  <2>1. UNCHANGED <<log, vs, orphans>>
    BY <1>2 DEF RecheckTail, HealGivesUp, MarkRunStarted, RunEnds, StreamBreaks, Finish,
                CloseOutAnswered, LeaveNewMark, LeaveMark, Reply, TurnLost
  <2>2. engine' = engine \/ (Live(t) /\ engine' = [engine EXCEPT ![t] = "over"])
    BY <1>2 DEF RecheckTail, HealGivesUp, MarkRunStarted, RunEnds, StreamBreaks, Finish,
                CloseOutAnswered, LeaveNewMark, LeaveMark, Reply, TurnLost
  <2>3. \A c \in Turns : engine'[c] = engine[c] \/ (Live(c) /\ engine'[c] = "over")
    BY <2>2 DEF TypeInv, TypeOK
  <2>4. pc'[t] \in {"recheck", "append"} => pc[t] \in {"recheck", "append"}
    BY <1>2 DEF RecheckTail, HealGivesUp, MarkRunStarted, RunEnds, StreamBreaks, Finish,
                CloseOutAnswered, LeaveNewMark, LeaveMark, Reply, TurnLost, TypeInv, TypeOK
  <2>5. \A u \in Turns \ {t} : pc'[u] = pc[u]
    BY <1>2, OthersKeep DEF Heal, Run, Engine
  <2>6. QED
    BY <2>1, <2>3, <2>4, <2>5, LedgerQuiet
<1>3. QED
  BY <1>1, <1>2, LedgerPrepare, LedgerStore, LedgerCall DEF Next, Heal, Run, Engine

\* The calls of turns handled one at a time.
LEMMA LedgerInvariant == OneTurnAtATime /\ MarksAreWritten => (Spec => []LedgerInv)
<1> SUFFICES ASSUME OneTurnAtATime, MarksAreWritten PROVE Spec => []LedgerInv
  OBVIOUS
<1> DEFINE Inv == Alone /\ HistoriesSettle /\ CallsMade /\ OrphansAreOpen
<1>1. Init => Inv
  <2> SUFFICES ASSUME Init PROVE Inv
    OBVIOUS
  <2>1. Alone /\ OrphansAreOpen
    BY DEF Init, Alone, InFlight, Preparing, Running, OrphansAreOpen
  <2>2. \A s \in Turns : DOMAIN log[s] = {}
    BY DEF Init
  <2>3. HistoriesSettle
    BY <2>2 DEF HistoriesSettle, AnsweredAtMostOnce, AnswersFollow, EarlierSettled
  <2>4. CallsMade
    BY <2>2 DEF Init, CallsMade, CallIsMade, IsAnswered
  <2>5. QED
    BY <2>1, <2>3, <2>4
<1>2. TypeInv /\ HealInv /\ Inv /\ [Next]_vars => Inv'
  BY AloneStep, LedgerInvStep DEF LedgerInv
<1>3. HealInv /\ Inv => LedgerInv
  BY DEF LedgerInv
<1>4. QED
  BY <1>1, <1>2, <1>3, TypeInvariant, HealInvariant, PTL DEF Spec

\* When turns are handled one at a time and the markers of runs are written, no tool call
\* is answered twice, by whomever.
THEOREM OneAnswerPerCall == OneTurnAtATime /\ MarksAreWritten => (Spec => []CallsAnsweredOnce)
<1> SUFFICES ASSUME OneTurnAtATime, MarksAreWritten PROVE Spec => []CallsAnsweredOnce
  OBVIOUS
<1>1. TypeInv /\ LedgerInv => CallsAnsweredOnce
  <2> SUFFICES ASSUME TypeInv, LedgerInv, NEW s \in Turns, NEW c \in History!Answered(log[s])
               PROVE  TimesAnswered(log[s], c) = 1
    BY DEF CallsAnsweredOnce
  <2>1. log[s] \in Seq(History!Event) /\ AnsweredAtMostOnce(log[s])
    BY DEF TypeInv, TypeOK, LedgerInv, HistoriesSettle
  <2>2. IsAnswered(log[s], c)
    BY DEF History!Answered, IsAnswered
  <2>3. QED
    BY <2>1, <2>2, TimesAnsweredIs
<1>2. QED
  BY <1>1, TypeInvariant, LedgerInvariant, PTL

\* What a healer writes settles the last call event, and the earlier ones are settled.
LEMMA HealedReplays ==
  ASSUME OneTurnAtATime, TypeInv, LedgerInv, NEW t \in Turns, AppendHealEvent(t)
  PROVE  Replayable(log'[vs[t]])
<1> DEFINE e == History!AnswerEvent(orphans[t])
           events == log[vs[t]]
<1>1. pc[t] = "append" /\ Store(vs[t], e) /\ vs[t] \in Turns
  BY DEF AppendHealEvent, Goto, TypeInv, HasSession
<1>2. e \in History!Event /\ e.calls = {} /\ e.answers = orphans[t] /\ ~e.text
  BY EventTypes DEF TypeInv, TypeOK, History!AnswerEvent
<1>3. OrphansAre(events, orphans[t])
  BY <1>1 DEF LedgerInv, OrphansAreOpen
<1>4. /\ events \in Seq(History!Event) /\ AnsweredAtMostOnce(events) /\ EarlierSettled(events)
      /\ log'[vs[t]] = Append(events, e)
  BY <1>1 DEF TypeInv, TypeOK, LedgerInv, HistoriesSettle, Store
<1> HIDE DEF e, events
<1>5. \A c \in e.answers : ~IsAnswered(events, c)
  BY <1>2, <1>3 DEF OrphansAre
<1> DEFINE longer == Append(events, e)
<1>6. /\ longer \in Seq(History!Event)
      /\ \A c : IsAnswered(longer, c) <=> IsAnswered(events, c) \/ c \in orphans[t]
      /\ History!LastCall(longer) = History!LastCall(events)
      /\ AnsweredAtMostOnce(longer) /\ EarlierSettled(longer)
      /\ \A i \in DOMAIN events :
           /\ longer[i] = events[i]
           /\ \A c : InPlace(events, i, c) => InPlace(longer, i, c)
           /\ History!OnlyAnswersFollow(events, i) =>
                \A c \in orphans[t] : InPlace(longer, i, c)
  BY <1>2, <1>4, <1>5, AnswersSettle
<1> HIDE DEF longer
<1>7. PICK k \in History!LastCall(events) :
        /\ History!OnlyAnswersFollow(events, k)
        /\ \A c \in events[k].calls \ orphans[t] :
             InPlace(events, k, c) \/ c \in events[k].longRunning
  BY <1>3 DEF OrphansAre
<1>8. \A i \in History!LastCall(events) : i = k
  <2>1. \A i, j \in History!LastCall(events) :
          i \in Nat /\ j \in Nat /\ ~(i > j) /\ ~(j > i)
    BY <1>4 DEF History!LastCall
  <2>2. QED
    BY <2>1
<1>9. ASSUME NEW i \in DOMAIN longer PROVE SettledAt(longer, i)
  <2>1. CASE i \in History!LastCall(longer)
    <3>1. i = k /\ i \in DOMAIN events
      BY <1>6, <1>8, <2>1 DEF History!LastCall
    <3>2. QED
      BY <1>6, <1>7, <3>1 DEF SettledAt
  <2>2. QED
    BY <1>6, <2>1 DEF EarlierSettled
<1>10. QED
  BY <1>4, <1>6, <1>9, ReplayableIsSettled DEF longer, events

\* When turns are handled one at a time and the markers of runs are written, the provider
\* accepts the history of every session a healer has written into.
THEOREM HealedHistoriesReplay ==
  OneTurnAtATime /\ MarksAreWritten => (Spec => HealedSessionsReplay)
<1> SUFFICES ASSUME OneTurnAtATime, MarksAreWritten PROVE Spec => HealedSessionsReplay
  OBVIOUS
<1>1. TypeInv /\ LedgerInv /\ [Next]_vars =>
        [\A t \in Turns : AppendHealEvent(t) => Replayable(log[vs[t]])']_vars
  <2> SUFFICES ASSUME TypeInv, LedgerInv, NEW t \in Turns, AppendHealEvent(t)
               PROVE  Replayable(log'[vs'[t]])
    OBVIOUS
  <2>1. vs' = vs
    BY DEF AppendHealEvent, turnVars
  <2>2. QED
    BY <2>1, HealedReplays
<1>2. QED
  BY <1>1, TypeInvariant, LedgerInvariant, PTL DEF Spec, HealedSessionsReplay

-----------------------------------------------------------------------------
(* The refinement of CallLedger.  StatusIn is CallStatus without the count:  *)
(* no call is answered twice, so it is enough whether it was answered.       *)

RunFn == [c \in Turns |-> RunStatus(c)]

StatusFn == [c \in Turns |-> CallStatus(c)]

RunIn(eng, c) ==
  IF eng[c] = "idle" THEN "new"
  ELSE IF eng[c] \in {"model", "tool", "answered"} THEN "alive" ELSE "over"

StatusIn(logs, ofTurn, c) ==
  IF ofTurn[c] = NoTurn \/ ~CallIsMade(logs[ofTurn[c]], c) THEN "none"
  ELSE IF IsAnswered(logs[ofTurn[c]], c) THEN "closed" ELSE "open"

LedgerReads == /\ RunFn = [c \in Turns |-> RunIn(engine, c)]
               /\ StatusFn = [c \in Turns |-> StatusIn(log, vs, c)]

\* What the ledger sees in a state.
LEMMA LedgerState == TypeInv /\ HistoriesSettle => LedgerReads
<1> SUFFICES ASSUME TypeInv, HistoriesSettle PROVE LedgerReads
  OBVIOUS
<1>1. ASSUME NEW c \in Turns PROVE CallStatus(c) = StatusIn(log, vs, c)
  <2>1. CASE vs[c] = NoTurn
    BY <2>1 DEF CallStatus, StatusIn
  <2>2. CASE vs[c] # NoTurn
    <3>1. log[vs[c]] \in Seq(History!Event) /\ AnsweredAtMostOnce(log[vs[c]])
      BY <2>2 DEF TypeInv, TypeOK, HistoriesSettle
    <3>2. CASE ~CallIsMade(log[vs[c]], c)
      BY <3>2 DEF CallStatus, StatusIn, CallIsMade
    <3>3. CASE CallIsMade(log[vs[c]], c) /\ IsAnswered(log[vs[c]], c)
      <4>1. TimesAnswered(log[vs[c]], c) = 1
        BY <3>1, <3>3, TimesAnsweredIs
      <4>2. CallStatus(c) = "closed"
        BY <2>2, <3>3, <4>1 DEF CallStatus, CallIsMade
      <4>3. QED
        BY <2>2, <3>3, <4>2 DEF StatusIn
    <3>4. CASE CallIsMade(log[vs[c]], c) /\ ~IsAnswered(log[vs[c]], c)
      <4>1. TimesAnswered(log[vs[c]], c) = 0
        BY <3>1, <3>4, TimesAnsweredIs
      <4>2. CallStatus(c) = "open"
        BY <2>2, <3>4, <4>1 DEF CallStatus, CallIsMade
      <4>3. QED
        BY <2>2, <3>4, <4>2 DEF StatusIn
    <3>5. QED
      BY <3>2, <3>3, <3>4
  <2>3. QED
    BY <2>1, <2>2
<1>2. ASSUME NEW c \in Turns PROVE RunStatus(c) = RunIn(engine, c)
  BY DEF RunStatus, RunIn, Live
<1>3. QED
  BY <1>1, <1>2 DEF LedgerReads, RunFn, StatusFn

\* Every step of the system is a step of the ledger, or leaves the ledger alone.
LEMMA LedgerStep ==
  ASSUME TypeInv, LedgerInv, TypeInv', HistoriesSettle', [Next]_vars
  PROVE  Ledger!Next \/ UNCHANGED <<RunFn, StatusFn>>
<1> USE DEF Goto, turnVars, healVars, runVars, logVars
<1>1. /\ RunFn = [c \in Turns |-> RunIn(engine, c)]
      /\ StatusFn = [c \in Turns |-> StatusIn(log, vs, c)]
  BY LedgerState DEF LedgerInv, LedgerReads
<1>2. /\ RunFn' = [c \in Turns |-> RunIn(engine', c)]
      /\ StatusFn' = [c \in Turns |-> StatusIn(log', vs', c)]
  <2>1. LedgerReads'
    BY LedgerState, PTL
  <2>2. QED
    BY <2>1 DEF LedgerReads
<1> HIDE DEF RunFn, StatusFn
<1> DEFINE Step == Ledger!Next \/ UNCHANGED <<RunFn, StatusFn>>
           Begins(t) == /\ RunFn[t] = "new" /\ RunFn' = [RunFn EXCEPT ![t] = "alive"]
                        /\ UNCHANGED StatusFn
           Calls(t) == /\ RunFn[t] = "alive" /\ StatusFn[t] = "none"
                       /\ StatusFn' = [StatusFn EXCEPT ![t] = "open"] /\ UNCHANGED RunFn
           Answers(t) == /\ RunFn[t] = "alive" /\ StatusFn[t] = "open"
                         /\ StatusFn' = [StatusFn EXCEPT ![t] = "closed"] /\ UNCHANGED RunFn
           Ends(t) == /\ RunFn[t] = "alive" /\ RunFn' = [RunFn EXCEPT ![t] = "over"]
                      /\ UNCHANGED StatusFn
           Interrupts(cs) ==
             /\ \A c \in cs : RunFn[c] = "over" /\ StatusFn[c] = "open"
             /\ StatusFn' = [c \in Turns |-> IF c \in cs THEN "closed" ELSE StatusFn[c]]
             /\ UNCHANGED RunFn
<1>3. /\ \A t \in Turns : Begins(t) \/ Calls(t) \/ Answers(t) \/ Ends(t) => Step
      /\ \A cs \in SUBSET Turns : Interrupts(cs) => Step
  BY DEF Ledger!Next, Ledger!Begin, Ledger!Call, Ledger!Answer, Ledger!End, Ledger!Interrupt,
         RunFn, StatusFn
<1>4. /\ engine' = engine => RunFn' = RunFn
      /\ \A t \in Turns : \A e : engine' = [engine EXCEPT ![t] = e] =>
           RunFn' = [RunFn EXCEPT ![t] = RunIn(engine', t)]
  BY <1>1, <1>2 DEF RunIn, TypeInv, TypeOK
<1>5. ASSUME UNCHANGED vs,
             \A z, c \in Turns : CallIsMade(log'[z], c) <=> CallIsMade(log[z], c),
             \A z, c \in Turns : IsAnswered(log'[z], c) <=> IsAnswered(log[z], c)
      PROVE  StatusFn' = StatusFn
  BY <1>1, <1>2, <1>5 DEF StatusIn, TypeInv, TypeOK
<1> DEFINE InSession(t) == vs[t] \in Turns /\ vs[t] # NoTurn /\ log[vs[t]] \in Seq(History!Event)
<1>6. \A t \in Turns : pc[t] # "idle" \/ engine[t] # "idle" => InSession(t)
  BY TurnsAssumption DEF TypeInv, TypeOK, HasSession
<1>7. ASSUME NEW t \in Turns, GetSessionByUser(t) PROVE Step
  <2>1. /\ UNCHANGED <<log, engine>> /\ pc[t] = "idle"
        /\ \A u \in Turns \ {t} : vs'[u] = vs[u]
        /\ vs[t] \in Turns \cup {NoTurn} /\ vs'[t] \in Turns \cup {NoTurn}
    BY <1>7 DEF GetSessionByUser, TypeInv, TypeOK
  <2>2. \A z \in Turns : ~CallIsMade(log[z], t)
    BY <2>1 DEF LedgerInv, HealInv, NotStarted, CallsMade
  <2>3. StatusFn' = StatusFn
    BY <1>1, <1>2, <2>1, <2>2 DEF StatusIn
  <2>4. QED
    BY <1>4, <2>1, <2>3
<1>8. ASSUME NEW t \in Turns, SendMessage(t) \/ ModelReplies(t) PROVE Step
  <2>1. /\ InSession(t) /\ Store(vs[t], History!TextEvent) /\ UNCHANGED vs
        /\ \/ engine[t] = "idle" /\ engine' = [engine EXCEPT ![t] = "model"]
           \/ engine[t] \in {"model", "answered"} /\ engine' = [engine EXCEPT ![t] = "over"]
    BY <1>6, <1>8 DEF SendMessage, ModelReplies, EngineStep, LedgerInv, HealInv, NotStarted
  <2>2. /\ History!TextEvent \in History!Event
        /\ History!TextEvent.calls = {} /\ History!TextEvent.answers = {}
    BY EventTypes DEF History!TextEvent
  <2>3. /\ \A z, c \in Turns : CallIsMade(log'[z], c) <=> CallIsMade(log[z], c)
        /\ \A z, c \in Turns : IsAnswered(log'[z], c) <=> IsAnswered(log[z], c)
    BY <2>1, <2>2, StoreSettles
  <2>4. StatusFn' = StatusFn
    BY <1>5, <2>1, <2>3
  <2>5. Begins(t) \/ Ends(t)
    <3>1. CASE engine[t] = "idle" /\ engine' = [engine EXCEPT ![t] = "model"]
      <4>1. engine'[t] = "model"
        BY <3>1 DEF TypeInv, TypeOK
      <4>2. RunIn(engine, t) = "new" /\ RunIn(engine', t) = "alive"
        BY <3>1, <4>1 DEF RunIn
      <4>3. QED
        BY <1>1, <1>4, <2>4, <3>1, <4>2
    <3>2. CASE engine[t] \in {"model", "answered"} /\ engine' = [engine EXCEPT ![t] = "over"]
      <4>1. engine'[t] = "over"
        BY <3>2 DEF TypeInv, TypeOK
      <4>2. RunIn(engine, t) = "alive" /\ RunIn(engine', t) = "over"
        BY <3>2, <4>1 DEF RunIn
      <4>3. QED
        BY <1>1, <1>4, <2>4, <3>2, <4>2
    <3>3. QED
      BY <2>1, <3>1, <3>2
  <2>6. QED
    BY <1>3, <2>5
<1>9. ASSUME NEW t \in Turns, ModelCallsTool(t) PROVE Step
  <2> DEFINE e == History!CallEvent({t}, {t} \cap LongRunningTurns)
             z == vs[t]
  <2>1. /\ InSession(t) /\ Store(z, e) /\ UNCHANGED vs /\ Replayable(log[z])
        /\ engine[t] = "model" /\ engine' = [engine EXCEPT ![t] = "tool"]
    BY <1>6, <1>9 DEF ModelCallsTool, EngineStep
  <2>2. /\ log'[z] = Append(log[z], e) /\ \A y \in Turns \ {z} : log'[y] = log[y]
    BY <2>1 DEF TypeInv, TypeOK, Store
  <2>3. e \in History!Event /\ e.calls = {t} /\ e.answers = {} /\ e.calls # {}
    BY EventTypes DEF History!CallEvent
  <2>4. /\ \A i \in DOMAIN log[z] : SettledAt(log[z], i)
        /\ \A c \in e.calls : ~IsAnswered(log[z], c)
    BY <2>1, <2>3, ReplayableIsSettled DEF LedgerInv, HistoriesSettle, CallsMade
  <2> HIDE DEF e, z
  <2>5. /\ \A c : CallIsMade(Append(log[z], e), c) <=> CallIsMade(log[z], c) \/ c \in e.calls
        /\ \A c : IsAnswered(Append(log[z], e), c) <=> IsAnswered(log[z], c)
    BY <2>1, <2>3, <2>4, CallsFollowSettled DEF z
  <2>6. /\ \A y, c \in Turns : c # t => (CallIsMade(log'[y], c) <=> CallIsMade(log[y], c))
        /\ \A y, c \in Turns : IsAnswered(log'[y], c) <=> IsAnswered(log[y], c)
        /\ CallIsMade(log'[z], t) /\ ~CallIsMade(log[z], t) /\ ~IsAnswered(log[z], t)
    BY <2>1, <2>2, <2>3, <2>5 DEF LedgerInv, CallsMade, z
  <2>7. StatusFn[t] = "none" /\ StatusFn' = [StatusFn EXCEPT ![t] = "open"]
    <3>1. \A c \in Turns \ {t} : StatusIn(log', vs', c) = StatusIn(log, vs, c)
      BY <2>1, <2>6 DEF StatusIn, TypeInv, TypeOK
    <3>2. StatusIn(log, vs, t) = "none" /\ StatusIn(log', vs', t) = "open"
      BY <2>1, <2>6 DEF StatusIn, z
    <3>3. QED
      BY <1>1, <1>2, <3>1, <3>2
  <2>8. RunFn[t] = "alive" /\ RunFn' = RunFn
    BY <1>1, <1>2, <2>1 DEF RunIn, TypeInv, TypeOK
  <2>9. QED
    BY <1>3, <2>7, <2>8
<1>10. ASSUME NEW t \in Turns, ToolAnswers(t) PROVE Step
  <2> DEFINE e == History!AnswerEvent({t})
  <2>1. /\ InSession(t) /\ Store(vs[t], e) /\ UNCHANGED vs
        /\ engine[t] = "tool" /\ engine' = [engine EXCEPT ![t] = "answered"]
    BY <1>6, <1>10 DEF ToolAnswers, EngineStep
  <2>2. e \in History!Event /\ e.calls = {} /\ e.answers = {t}
    BY EventTypes DEF History!AnswerEvent
  <2>3. CallIsMade(log[vs[t]], t) /\ ~IsAnswered(log[vs[t]], t)
    BY <2>1 DEF LedgerInv, CallsMade
  <2> HIDE DEF e
  <2>4. \A z, c \in Turns :
          /\ CallIsMade(log'[z], c) <=> CallIsMade(log[z], c)
          /\ IsAnswered(log'[z], c) <=> IsAnswered(log[z], c) \/ (z = vs[t] /\ c = t)
    BY <2>1, <2>2, <2>3, StoreSettles
  <2>5. StatusFn[t] = "open" /\ StatusFn' = [StatusFn EXCEPT ![t] = "closed"]
    <3>1. \A c \in Turns \ {t} : StatusIn(log', vs', c) = StatusIn(log, vs, c)
      BY <2>1, <2>4 DEF StatusIn, TypeInv, TypeOK
    <3>2. StatusIn(log, vs, t) = "open" /\ StatusIn(log', vs', t) = "closed"
      BY <2>1, <2>3, <2>4 DEF StatusIn
    <3>3. QED
      BY <1>1, <1>2, <3>1, <3>2
  <2>6. RunFn[t] = "alive" /\ RunFn' = RunFn
    BY <1>1, <1>2, <2>1 DEF RunIn, TypeInv, TypeOK
  <2>7. QED
    BY <1>3, <2>5, <2>6
<1>11. ASSUME NEW t \in Turns, AppendHealEvent(t) PROVE Step
  <2> DEFINE e == History!AnswerEvent(orphans[t])
             cs == orphans[t]
  <2>1. /\ InSession(t) /\ Store(vs[t], e) /\ UNCHANGED <<vs, engine>> /\ pc[t] = "append"
    BY <1>6, <1>11 DEF AppendHealEvent
  <2>2. e \in History!Event /\ e.calls = {} /\ e.answers = cs /\ cs \subseteq Turns
    BY EventTypes DEF TypeInv, TypeOK, History!AnswerEvent
  <2>3. /\ \A c \in cs : engine[c] = "over" /\ ~IsAnswered(log[vs[t]], c)
        /\ OrphansAre(log[vs[t]], cs)
    BY <2>1 DEF LedgerInv, HealInv, OrphansAreOver, OrphansAreOpen, OrphansAre
  <2>4. \A c \in cs : CallIsMade(log[vs[t]], c) /\ vs[c] = vs[t]
    <3>1. \E i \in DOMAIN log[vs[t]] : \A c \in cs : c \in log[vs[t]][i].calls
      BY <2>3 DEF OrphansAre, History!LastCall
    <3>2. QED
      BY <2>1, <2>2, <3>1 DEF CallIsMade, LedgerInv, HealInv, CallsLogged
  <2> HIDE DEF e, cs
  <2>5. \A z, c \in Turns :
          /\ CallIsMade(log'[z], c) <=> CallIsMade(log[z], c)
          /\ IsAnswered(log'[z], c) <=> IsAnswered(log[z], c) \/ (z = vs[t] /\ c \in cs)
    BY <2>1, <2>2, <2>3, StoreSettles
  <2>6. \A c \in cs : RunFn[c] = "over" /\ StatusFn[c] = "open"
    BY <1>1, <2>1, <2>2, <2>3, <2>4 DEF RunIn, StatusIn
  <2>7. StatusFn' = [c \in Turns |-> IF c \in cs THEN "closed" ELSE StatusFn[c]]
    <3>1. \A c \in Turns : StatusIn(log', vs', c) =
                             IF c \in cs THEN "closed" ELSE StatusIn(log, vs, c)
      BY <2>1, <2>2, <2>4, <2>5 DEF StatusIn, TypeInv, TypeOK
    <3>2. QED
      BY <1>1, <1>2, <3>1
  <2>8. RunFn' = RunFn
    BY <1>4, <2>1
  <2>9. QED
    BY <1>3, <2>2, <2>6, <2>7, <2>8
<1>12. ASSUME NEW t \in Turns, RunEnds(t) PROVE Step
  <2>1. /\ Live(t) /\ engine' = [engine EXCEPT ![t] = "over"] /\ UNCHANGED <<log, vs>>
    BY <1>12 DEF RunEnds
  <2>2. StatusFn' = StatusFn
    BY <1>5, <2>1
  <2>3. Ends(t)
    BY <1>1, <1>4, <2>1, <2>2 DEF RunIn, Live, TypeInv, TypeOK
  <2>4. QED
    BY <1>3, <2>3
<1>13. ASSUME UNCHANGED <<log, vs, engine>> PROVE Step
  BY <1>4, <1>5, <1>13
<1>14. ASSUME NEW t \in Turns,
              \/ DeleteExpired(t) \/ CreateSessionForUser(t) \/ UpdateSessionPlatforms(t)
              \/ ListTail(t) \/ RecheckTail(t) \/ HealGivesUp(t) \/ MarkRunStarted(t)
              \/ StreamBreaks(t) \/ Finish(t) \/ TurnLost(t)
       PROVE  UNCHANGED <<log, vs, engine>>
  BY <1>14 DEF DeleteExpired, CreateSessionForUser, UpdateSessionPlatforms, ListTail,
     RecheckTail, HealGivesUp, MarkRunStarted, StreamBreaks, Finish, CloseOutAnswered,
     LeaveNewMark, LeaveMark, Reply, TurnLost
<1>15. Tick \/ UNCHANGED vars => UNCHANGED <<log, vs, engine>>
  BY DEF Tick, vars
<1> HIDE DEF Step
<1>16. Step
  BY <1>7, <1>8, <1>9, <1>10, <1>11, <1>12, <1>13, <1>14, <1>15
  DEF Next, Prepare, Heal, Run, Engine
<1>17. QED
  BY <1>16 DEF Step

\* When turns are handled one at a time and the markers of runs are written, the system
\* implements CallLedger: a call is closed once, by its own run while that is alive or,
\* after it is over, by a healer.
THEOREM CallsImplementLedger ==
  OneTurnAtATime /\ MarksAreWritten => (Spec => CallsFollowLedger)
<1> SUFFICES ASSUME OneTurnAtATime, MarksAreWritten PROVE Spec => CallsFollowLedger
  OBVIOUS
<1>1. Init => Ledger!Init
  <2> SUFFICES ASSUME Init PROVE Ledger!Init
    OBVIOUS
  <2>1. \A c \in Turns : RunStatus(c) = "new"
    BY DEF Init, RunStatus, Live
  <2>2. \A c \in Turns : CallStatus(c) = "none"
    BY DEF Init, CallStatus
  <2>3. QED
    BY <2>1, <2>2 DEF Ledger!Init
<1>2. TypeInv /\ TypeInv' /\ LedgerInv /\ LedgerInv' /\ [Next]_vars =>
        [Ledger!Next]_<<RunFn, StatusFn>>
  BY LedgerStep DEF LedgerInv
<1>3. QED
  BY <1>1, <1>2, TypeInvariant, LedgerInvariant, PTL
  DEF Spec, CallsFollowLedger, Ledger!Spec, RunFn, StatusFn
-----------------------------------------------------------------------------
(* Turns that overlap.  Two turns that found the same tail may both answer   *)
(* it.  That is the only way for a call to be answered twice: an answered    *)
(* call's run is past its answer, so a run is never the second to answer;    *)
(* and a call that a healer is about to answer was open when it was listed,  *)
(* its run was over, so an answer it has got since is another healer's.      *)

HasHealed(u) == pc[u] \notin {"idle", "touch", "drop", "store"} \cup Healing

AnswersFitRuns ==
  \A s, c \in Turns : IsAnswered(log[s], c) => engine[c] \in {"answered", "over"}

RivalsHealed ==
  \A t \in Turns : pc[t] \in {"recheck", "append"} =>
    \A c \in orphans[t] : IsAnswered(log[vs[t]], c) =>
      \E u \in Turns \ {t} : HasHealed(u) /\ c \in orphans[u] /\ vs[u] = vs[t]

RaceInv == AnswersFitRuns /\ RivalsHealed

\* What one more event answers.
LEMMA StoreAnswers ==
  ASSUME TypeInv, NEW s \in Turns, NEW e \in History!Event, Store(s, e)
  PROVE  \A z \in Turns : \A c :
           IsAnswered(log'[z], c) <=> IsAnswered(log[z], c) \/ (z = s /\ c \in e.answers)
<1> DEFINE n == Len(log[s]) + 1
<1>1. /\ log[s] \in Seq(History!Event) /\ log'[s] = Append(log[s], e)
      /\ \A z \in Turns \ {s} : log'[z] = log[z]
  BY DEF TypeInv, TypeOK, Store
<1>2. /\ DOMAIN log'[s] = DOMAIN log[s] \cup {n} /\ log'[s][n] = e
      /\ \A i \in DOMAIN log[s] : log'[s][i] = log[s][i]
  BY <1>1
<1> HIDE DEF n
<1>3. \A c : IsAnswered(log'[s], c) <=> IsAnswered(log[s], c) \/ c \in e.answers
  BY <1>2 DEF IsAnswered
<1>4. QED
  BY <1>1, <1>3

\* What the healer finds is not answered.
LEMMA FoundIsOpen ==
  ASSUME NEW events \in Seq(History!Event), NEW c \in History!Healable(events)
  PROVE  ~IsAnswered(events, c)
BY DEF History!Healable, History!Unanswered, History!Answered, IsAnswered

\* The answers a turn's step adds to a session: its healer's, or its run's own.
LEMMA AnswersOfStep ==
  ASSUME TypeInv, NEW t \in Turns,
         Prepare(t) \/ Heal(t) \/ Run(t) \/ Engine(t) \/ Finish(t) \/ TurnLost(t)
  PROVE  \A z, c \in Turns : IsAnswered(log'[z], c) =>
           \/ IsAnswered(log[z], c)
           \/ AppendHealEvent(t) /\ z = vs[t] /\ c \in orphans[t]
           \/ c = t /\ engine[t] = "tool" /\ engine'[t] = "answered"
<1> USE DEF Goto, docVars, turnVars, healVars, runVars, logVars
<1>1. CASE UNCHANGED log
  BY <1>1
<1>2. CASE AppendHealEvent(t)
  <2>1. History!AnswerEvent(orphans[t]) \in History!Event /\ vs[t] \in Turns
    BY <1>2, EventTypes DEF AppendHealEvent, TypeInv, TypeOK, HasSession
  <2>2. /\ Store(vs[t], History!AnswerEvent(orphans[t]))
        /\ History!AnswerEvent(orphans[t]).answers = orphans[t]
    BY <1>2 DEF AppendHealEvent, History!AnswerEvent
  <2>3. QED
    BY <1>2, <2>1, <2>2, StoreAnswers
<1>3. CASE SendMessage(t) \/ ModelReplies(t) \/ ModelCallsTool(t)
  <2>1. vs[t] \in Turns
    BY <1>3 DEF SendMessage, ModelReplies, ModelCallsTool, EngineStep, TypeInv, HasSession
  <2>2. PICK e \in History!Event : Store(vs[t], e) /\ e.answers = {}
    BY <1>3, EventTypes DEF SendMessage, ModelReplies, ModelCallsTool, EngineStep,
                            History!TextEvent, History!CallEvent
  <2>3. QED
    BY <2>1, <2>2, StoreAnswers
<1>4. CASE ToolAnswers(t)
  <2>1. /\ History!AnswerEvent({t}) \in History!Event /\ vs[t] \in Turns
        /\ engine[t] = "tool" /\ engine'[t] = "answered"
    BY <1>4, EventTypes DEF ToolAnswers, EngineStep, TypeInv, TypeOK, HasSession
  <2>2. Store(vs[t], History!AnswerEvent({t})) /\ History!AnswerEvent({t}).answers = {t}
    BY <1>4 DEF ToolAnswers, EngineStep, History!AnswerEvent
  <2>3. QED
    BY <2>1, <2>2, StoreAnswers
<1>5. CASE Prepare(t) \/ Finish(t) \/ TurnLost(t)
  BY <1>1, <1>5
  DEF Prepare, GetSessionByUser, DeleteExpired, CreateSessionForUser, UpdateSessionPlatforms,
      Finish, CloseOutAnswered, LeaveNewMark, LeaveMark, Reply, TurnLost
<1>6. CASE Heal(t) \/ MarkRunStarted(t) \/ RunEnds(t) \/ StreamBreaks(t)
  BY <1>1, <1>2, <1>6
  DEF Heal, ListTail, RecheckTail, HealGivesUp, MarkRunStarted, RunEnds, StreamBreaks
<1>7. QED
  BY <1>2, <1>3, <1>4, <1>5, <1>6 DEF Run, Engine

\* How a turn passes its healer: it decides once, on calls that are open, and does not
\* come back.
LEMMA HealsOnce ==
  ASSUME TypeInv, NEW t \in Turns,
         Prepare(t) \/ Heal(t) \/ Run(t) \/ Engine(t) \/ Finish(t) \/ TurnLost(t)
  PROVE  /\ HasHealed(t) => HasHealed(t)' /\ UNCHANGED <<orphans[t], vs[t]>>
         /\ pc'[t] \in {"recheck", "append"} =>
              \/ pc[t] \in {"recheck", "append"} /\ UNCHANGED <<orphans[t], vs[t]>>
              \/ \A c \in orphans'[t] : ~IsAnswered(log'[vs'[t]], c)
<1> USE DEF Goto, docVars, turnVars, healVars, runVars, logVars, HasHealed, Healing
<1>0. pc \in [Turns -> {"idle", "done", "lost"} \cup Preparing \cup Running]
  BY DEF TypeInv, TypeOK
<1>1. CASE Prepare(t)
  <2>1. pc[t] \in {"idle", "touch", "drop", "store"} /\ pc'[t] \notin {"recheck", "append"}
    BY <1>0, <1>1 DEF Prepare, GetSessionByUser, DeleteExpired, CreateSessionForUser,
                      UpdateSessionPlatforms
  <2>2. QED
    BY <2>1
<1>2. CASE ListTail(t)
  <2>1. pc[t] = "list" /\ UNCHANGED <<vs, log>>
    BY <1>2 DEF ListTail
  <2>2. orphans'[t] \subseteq History!Healable(log[vs[t]])
    BY <1>2 DEF ListTail, TypeInv, TypeOK
  <2>3. log[vs[t]] \in Seq(History!Event)
    BY <2>1 DEF TypeInv, TypeOK, HasSession
  <2>4. \A c \in orphans'[t] : ~IsAnswered(log[vs[t]], c)
    BY <2>2, <2>3, FoundIsOpen
  <2>5. QED
    BY <2>1, <2>4
<1>3. CASE RecheckTail(t) \/ AppendHealEvent(t) \/ HealGivesUp(t)
  BY <1>0, <1>3 DEF RecheckTail, AppendHealEvent, HealGivesUp
<1>4. CASE Run(t) \/ Finish(t) \/ TurnLost(t)
  <2>1. UNCHANGED <<orphans, vs>> /\ pc'[t] \in {"send", "wait", "reply", "done", "lost"}
    BY <1>0, <1>4 DEF Run, MarkRunStarted, SendMessage, Finish, CloseOutAnswered, LeaveNewMark,
                      LeaveMark, Reply, TurnLost
  <2>2. QED
    BY <2>1
<1>5. CASE Engine(t)
  <2>1. UNCHANGED <<pc, orphans, vs>>
    BY <1>5 DEF Engine, ModelCallsTool, ToolAnswers, ModelReplies, EngineStep, RunEnds,
                StreamBreaks
  <2>2. QED
    BY <2>1
<1>6. QED
  BY <1>1, <1>2, <1>3, <1>4, <1>5 DEF Heal

\* An engine that is past its tool's answer stays there.
LEMMA EnginesMoveOn ==
  ASSUME TypeInv, HealInv, NEW t \in Turns,
         Prepare(t) \/ Heal(t) \/ Run(t) \/ Engine(t) \/ Finish(t) \/ TurnLost(t),
         engine[t] \in {"answered", "over"}
  PROVE  engine'[t] \in {"answered", "over"}
<1> USE DEF Goto, docVars, turnVars, healVars, runVars, logVars
<1>0. engine \in [Turns -> {"idle", "model", "tool", "answered", "over"}]
  BY DEF TypeInv, TypeOK
<1>1. CASE Prepare(t) \/ Heal(t) \/ Finish(t) \/ TurnLost(t)
  BY <1>1
  DEF Prepare, GetSessionByUser, DeleteExpired, CreateSessionForUser, UpdateSessionPlatforms,
      Heal, ListTail, RecheckTail, AppendHealEvent, HealGivesUp,
      Finish, CloseOutAnswered, LeaveNewMark, LeaveMark, Reply, TurnLost
<1>2. CASE Run(t)
  <2>1. pc[t] # "send"
    BY DEF HealInv, NotStarted
  <2>2. QED
    BY <1>2, <2>1 DEF Run, MarkRunStarted, SendMessage
<1>3. CASE Engine(t)
  BY <1>0, <1>3 DEF Engine, ModelCallsTool, ToolAnswers, ModelReplies, EngineStep, RunEnds,
                    StreamBreaks, Live
<1>4. QED
  BY <1>1, <1>2, <1>3

\* The invariant is kept by every step of every turn.
LEMMA RaceStep ==
  ASSUME TypeInv, HealInv, RaceInv, [Next]_vars PROVE RaceInv'
<1>1. CASE Tick \/ UNCHANGED vars
  <2>1. UNCHANGED <<pc, vs, orphans, engine, log>>
    BY <1>1 DEF Tick, vars, turnVars, healVars, runVars, logVars
  <2>2. QED
    BY <2>1 DEF RaceInv, AnswersFitRuns, RivalsHealed, HasHealed
<1>2. ASSUME NEW t \in Turns,
             Prepare(t) \/ Heal(t) \/ Run(t) \/ Engine(t) \/ Finish(t) \/ TurnLost(t)
      PROVE  RaceInv'
  <2>1. \A u \in Turns \ {t} : /\ pc'[u] = pc[u] /\ vs'[u] = vs[u]
                               /\ orphans'[u] = orphans[u] /\ engine'[u] = engine[u]
    BY <1>2, OthersKeep
  <2>2. \A z, c \in Turns : IsAnswered(log'[z], c) =>
           \/ IsAnswered(log[z], c)
           \/ AppendHealEvent(t) /\ z = vs[t] /\ c \in orphans[t]
           \/ c = t /\ engine[t] = "tool" /\ engine'[t] = "answered"
    BY <1>2, AnswersOfStep
  <2>3. /\ HasHealed(t) => HasHealed(t)' /\ UNCHANGED <<orphans[t], vs[t]>>
        /\ pc'[t] \in {"recheck", "append"} =>
              \/ pc[t] \in {"recheck", "append"} /\ UNCHANGED <<orphans[t], vs[t]>>
              \/ \A c \in orphans'[t] : ~IsAnswered(log'[vs'[t]], c)
    BY <1>2, HealsOnce
  <2>4. engine[t] \in {"answered", "over"} => engine'[t] \in {"answered", "over"}
    BY <1>2, EnginesMoveOn
  <2>5. AppendHealEvent(t) =>
          /\ pc[t] = "append" /\ pc'[t] = "mark" /\ UNCHANGED <<orphans, vs, engine>>
          /\ \A c \in orphans[t] : engine[c] = "over"
    BY DEF AppendHealEvent, Goto, turnVars, healVars, runVars, TypeInv, TypeOK, HealInv,
           OrphansAreOver
  <2>6. AnswersFitRuns'
    <3> SUFFICES ASSUME NEW s \in Turns, NEW c \in Turns, IsAnswered(log'[s], c)
                 PROVE  engine'[c] \in {"answered", "over"}
      BY DEF AnswersFitRuns
    <3>1. CASE IsAnswered(log[s], c)
      BY <2>1, <2>4, <3>1 DEF RaceInv, AnswersFitRuns
    <3>2. CASE AppendHealEvent(t) /\ c \in orphans[t]
      BY <2>5, <3>2
    <3>3. QED
      BY <2>2, <3>1, <3>2
  <2>7. RivalsHealed'
    <3> SUFFICES ASSUME NEW u \in Turns, pc'[u] \in {"recheck", "append"},
                        NEW c \in orphans'[u], IsAnswered(log'[vs'[u]], c)
                 PROVE  \E w \in Turns \ {u} :
                          HasHealed(w)' /\ c \in orphans'[w] /\ vs'[w] = vs'[u]
      BY DEF RivalsHealed
    <3>1. pc[u] \in {"recheck", "append"} /\ orphans'[u] = orphans[u] /\ vs'[u] = vs[u]
      BY <2>1, <2>3
    <3>2. vs[u] \in Turns /\ c \in Turns /\ engine[c] = "over"
      BY <3>1 DEF TypeInv, TypeOK, HasSession, HealInv, OrphansAreOver
    <3>3. CASE IsAnswered(log[vs[u]], c)
      <4>1. PICK w \in Turns \ {u} : HasHealed(w) /\ c \in orphans[w] /\ vs[w] = vs[u]
        BY <3>1, <3>3 DEF RaceInv, RivalsHealed
      <4>2. HasHealed(w)' /\ orphans'[w] = orphans[w] /\ vs'[w] = vs[w]
        <5>1. CASE w = t
          BY <2>3, <4>1, <5>1
        <5>2. CASE w # t
          BY <2>1, <4>1, <5>2 DEF HasHealed
        <5>3. QED
          BY <5>1, <5>2
      <4>3. QED
        BY <3>1, <4>1, <4>2
    <3>4. CASE AppendHealEvent(t) /\ vs[u] = vs[t] /\ c \in orphans[t]
      <4>1. u # t
        BY <2>5, <3>4
      <4>2. HasHealed(t)' /\ c \in orphans'[t] /\ vs'[t] = vs'[u]
        BY <2>5, <3>1, <3>4 DEF HasHealed, Healing
      <4>3. QED
        BY <4>1, <4>2
    <3>5. QED
      BY <2>2, <3>1, <3>2, <3>3, <3>4
  <2>8. QED
    BY <2>6, <2>7 DEF RaceInv
<1>3. QED
  BY <1>1, <1>2 DEF Next

LEMMA RaceInvariant == MarksAreWritten => (Spec => []RaceInv)
<1> SUFFICES ASSUME MarksAreWritten PROVE Spec => []RaceInv
  OBVIOUS
<1>1. Init => RaceInv
  BY DEF Init, RaceInv, AnswersFitRuns, RivalsHealed, IsAnswered
<1>2. QED
  BY <1>1, RaceStep, TypeInvariant, HealInvariant, PTL DEF Spec

\* A second answer to a tool call: never its run's, and a healer's only if another turn's
\* healer, which had found the call as well, was there before.
SecondAnswersTakeTwoHealers ==
  [][\A t \in Turns :
       /\ ToolAnswers(t) => ~IsAnswered(log[vs[t]], t)
       /\ AppendHealEvent(t) =>
            \A c \in orphans[t] : IsAnswered(log[vs[t]], c) =>
              \E u \in Turns \ {t} : HasHealed(u) /\ c \in orphans[u] /\ vs[u] = vs[t]]_vars

\* Whatever turns overlap, if the markers of runs are written, a run and a healer never
\* both answer a call: what SessionRuns_double_heal shows is the only way to answer twice.
THEOREM OnlyHealersAnswerAgain == MarksAreWritten => (Spec => SecondAnswersTakeTwoHealers)
<1> SUFFICES ASSUME MarksAreWritten PROVE Spec => SecondAnswersTakeTwoHealers
  OBVIOUS
<1>1. ASSUME TypeInv, RaceInv, NEW t \in Turns
      PROVE  /\ ToolAnswers(t) => ~IsAnswered(log[vs[t]], t)
             /\ AppendHealEvent(t) =>
                  \A c \in orphans[t] : IsAnswered(log[vs[t]], c) =>
                    \E u \in Turns \ {t} : HasHealed(u) /\ c \in orphans[u] /\ vs[u] = vs[t]
  <2>1. ToolAnswers(t) => engine[t] = "tool" /\ vs[t] \in Turns
    BY <1>1 DEF ToolAnswers, EngineStep, TypeInv, HasSession
  <2>2. AppendHealEvent(t) => pc[t] = "append"
    BY DEF AppendHealEvent, Goto
  <2>3. QED
    BY <1>1, <2>1, <2>2 DEF RaceInv, AnswersFitRuns, RivalsHealed
<1>2. TypeInv /\ RaceInv =>
        [\A t \in Turns :
           /\ ToolAnswers(t) => ~IsAnswered(log[vs[t]], t)
           /\ AppendHealEvent(t) =>
                \A c \in orphans[t] : IsAnswered(log[vs[t]], c) =>
                  \E u \in Turns \ {t} : HasHealed(u) /\ c \in orphans[u] /\ vs[u] = vs[t]]_vars
  BY <1>1
<1>3. QED
  BY <1>2, TypeInvariant, RaceInvariant, PTL DEF SecondAnswersTakeTwoHealers
=============================================================================
