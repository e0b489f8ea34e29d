--------------------------- MODULE MCSessionRuns ---------------------------
\* Instances of SessionRuns for TLC.
EXTENDS SessionRuns, TLC

MessageSymmetry == Permutations(Messages)

(***************************************************************************)
(* The part of a state that its future and the properties depend on.  A    *)
(* turn's own variables are forgotten when it is over, as the coroutine's  *)
(* locals are; of the events of a session that is still in use there       *)
(* remain which calls were made, how often each was answered and whether   *)
(* in its place, and which the healer would answer now.                                            *)
(***************************************************************************)
Over(t) == pc[t] \in {"idle", "done", "lost"} /\ ~Live(t)

LocalsOf(t) ==
  IF Over(t) THEN <<>>
  ELSE <<vs[t], snap[t], orphans[t], readAt[t], markAt[t],
         pc[t] = "recheck" /\ tailLen[t] = Len(log[vs[t]])>>

OutcomeOf(t) == IF pc[t] = "wait" \/ out[t] = "text" THEN out[t] ELSE "none"

InUse(s) == sess = s \/ \E t \in Turns : ~Over(t) /\ vs[t] = s

EventsOf(s) ==
  LET open == History!Unanswered(log[s])
  IN <<open,
       IF open = {} THEN 0 ELSE tailAt[s],
       [c \in Turns |-> TimesAnswered(log[s], c)],
       {c \in Turns : \E i \in DOMAIN log[s] : c \in log[s][i].calls /\ InPlace(log[s], i, c)},
       UNION {log[s][i].calls : i \in DOMAIN log[s]}>>

RunsView ==
  <<now, docVars, engine, reports,
    [t \in Turns |-> IF pc[t] = "lost" THEN "done" ELSE pc[t]],
    Cardinality({t \in Turns : pc[t] = "lost"}),
    [t \in Turns |-> <<LocalsOf(t), OutcomeOf(t)>>],
    [s \in Turns |-> IF InUse(s) THEN EventsOf(s) ELSE <<>>]>>

\* With what ConversationContinues depends on.
Remembered == {lastTalk} \cup {prev[t] : t \in {u \in Turns : ~Over(u)}}

TalkView ==
  <<RunsView, lastTalk,
    [t \in Turns |-> IF Over(t) THEN NoTurn ELSE prev[t]],
    [t \in Turns |-> IF t \in Remembered THEN <<vs[t], readAt[t]>> ELSE <<>>]>>
=============================================================================
